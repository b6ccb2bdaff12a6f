-------------------------- MODULE MCImageGeometry --------------------------
(* Instances of ImageGeometry for TLC. *)
EXTENDS ImageGeometry

Middle == <<<<"middle", 0>>, <<"middle", 0>>>>
Full == <<"full", 0>>

\* A request for nothing: the image as it is.
Plain ==
    [size |-> <<Unset, Unset>>, min |-> <<Unset, Unset>>, zoom |-> <<Unit, Unit>>,
     dpr |-> Unit, type |-> "fit", enlarge |-> FALSE, rotate |-> 0, autorotate |-> TRUE,
     trim |-> FALSE, equal |-> <<FALSE, FALSE>>,
     crops |-> FALSE, crop |-> <<Full, Full>>, cropGravity |-> Middle,
     gravity |-> Middle, extend |-> FALSE, padding |-> <<0, 0>>,
     format |-> "jpeg", strip |-> TRUE, flip |-> <<FALSE, FALSE>>, watermark |-> {}, overlay |-> {}]

Sides == {Unset, 1, 5, 6, 20}

\* Every resize type, with and without enlarge, turned and floored.
Sizing ==
    {[Plain EXCEPT !.size = <<w, h>>, !.min = m, !.type = t, !.enlarge = e, !.rotate = d,
                   !.autorotate = a] :
        w \in Sides, h \in Sides, m \in {<<0, 0>>, <<9, 0>>, <<0, 24>>}, t \in ResizeTypes,
        e \in BOOLEAN, d \in {0, 90}, a \in BOOLEAN}

\* zoom and dpr below and above one, up to and over the output limit.
Scaling ==
    {[Plain EXCEPT !.size = <<w, h>>, !.zoom = z, !.dpr = d, !.type = t, !.enlarge = TRUE,
                   !.rotate = 270, !.extend = x] :
        w \in {1, 5, 18}, h \in {3, 5, 13}, z \in {<<1, 2>>, <<3, 1>>, <<2, 4>>},
        d \in {1, 2, 3}, t \in ResizeTypes, x \in BOOLEAN}

\* The canvas around the image.
Canvas ==
    {[Plain EXCEPT !.size = <<w, h>>, !.extend = x, !.padding = p, !.format = f] :
        w \in {Unset, 12, 40}, h \in {Unset, 12, 30}, x \in BOOLEAN,
        p \in {<<0, 0>>, <<3, 0>>, <<0, 30>>}, f \in {"png", "gif"}}

\* Crop and trim, anchored anywhere.
Cutting ==
    {[Plain EXCEPT !.size = <<5, 5>>, !.type = t, !.crops = TRUE, !.crop = <<c, d>>,
                   !.cropGravity = <<g, g>>, !.gravity = <<g, g>>, !.trim = m,
                   !.equal = <<m, FALSE>>] :
        t \in {"fill", "fit"}, c \in {Full, <<"absolute", 4>>, <<"absolute", 99>>},
        d \in {<<"relative", 1>>, <<"relative", 7>>}, g \in Gravities, m \in BOOLEAN}

AllRequests == Sizing \cup Scaling \cup Canvas \cup Cutting

Tagged(turns, flip) == {[tag |-> {[turns |-> turns, flip |-> flip]}]}

Still(k, s) ==
    [kind |-> k, size |-> s, frames |-> 1, exif |-> {}, icc |-> FALSE, alpha |-> "none",
     container |-> <<>>]

AllSources ==
    {Still("jpeg", s) : s \in {<<3, 9>>, <<5, 7>>, <<9, 50>>, <<64, 40>>}}
      \cup {[Still("jpeg", <<48, 17>>) EXCEPT !.exif = Tagged(1, FALSE)],
            Still("other", <<1, 7>>), Still("other", <<99, 99>>),
            Still("gif", <<9, 5>>), [Still("gif", <<5, 9>>) EXCEPT !.frames = 2],
            [Still("animated_webp", <<7, 9>>) EXCEPT !.frames = 9]}

\* A JPEG scaled down to a tenth of half of it.
CropHalf == {[Plain EXCEPT !.size = <<10, 10>>, !.crops = TRUE,
                           !.crop = <<<<"relative", 5>>, <<"relative", 5>>>>]}
Photo == {Still("jpeg", <<80, 80>>)}
CroppedPhoto == CropHalf \X Photo

OutputLimit == <<40, 36>>

=============================================================================
