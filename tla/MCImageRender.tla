--------------------------- MODULE MCImageRender ---------------------------
(* Instances of ImageRender for TLC. *)
EXTENDS MCImageGeometry, ImageRender

\* How the result may be asked for: turned, mirrored, in each format.
Styles ==
    {[Plain EXCEPT !.format = f, !.strip = s, !.autorotate = a, !.rotate = d, !.flip = m,
                   !.size = <<6, Unset>>] :
        f \in Formats, s \in BOOLEAN, a \in BOOLEAN, d \in {0, 90, 270},
        m \in {<<FALSE, FALSE>>, <<TRUE, FALSE>>, <<FALSE, TRUE>>}}

Anywhere == {<<x, y>> : x, y \in {"start", "middle", "end"}}

\* Watermarks of every size, some larger than the image, some pushed off it.
Marks ==
    {[size |-> s, scale |-> c, position |-> p, offset |-> o, rotate |-> d] :
        s \in {<<0, 0>>, <<4, 0>>, <<0, 30>>}, c \in {0, 3, 12}, p \in Anywhere,
        o \in {<<0, 0>>, <<-3, 50>>}, d \in {0, 90}}
Marked ==
    {[Plain EXCEPT !.format = f, !.watermark = {m}, !.overlay = o] :
        f \in {"jpeg", "webp"}, m \in Marks, o \in {{}, {<<5, 2>>}}}

\* Transparency, on a canvas that grows or not.
Framed ==
    {[Plain EXCEPT !.format = f, !.size = <<9, 9>>, !.extend = x, !.padding = <<p, 0>>] :
        f \in Formats, x \in BOOLEAN, p \in {0, 2}}

AllExifs == {{}, {[tag |-> {}]}} \cup {Tagged(o.turns, o.flip) : o \in Orientations}

Photos ==
    {[Still(k, <<9, 6>>) EXCEPT !.exif = e, !.icc = TRUE] :
        k \in {"jpeg", "webp", "other"}, e \in AllExifs}

Clear ==
    {[Still(k, <<8, 5>>) EXCEPT !.alpha = "clear", !.frames = n, !.exif = Tagged(3, FALSE)] :
        k \in {"webp", "other", "animated_webp"}, n \in {1, 3}}

\* Files of an AVIF encoder: properties the reader does not know before and
\* between those it does, and the EXIF of another item.
Leaf(type) == [type |-> type]
Irot(a) == [type |-> "irot", value |-> a]
Imir(x) == [type |-> "imir", value |-> x]
Parent(type, boxes) == [type |-> type, boxes |-> boxes]
Pitm(whole) == [type |-> "pitm", item |-> 1, whole |-> whole]
Ipma(entries) == [type |-> "ipma", entries |-> entries]
Assoc(item, indices, whole) == [item |-> item, indices |-> indices, whole |-> whole]
Infe(item, version, kind) == [type |-> "infe", item |-> item, version |-> version, kind |-> kind]
Iloc(entries) == [type |-> "iloc", entries |-> entries]
Extent(length, inside) == [length |-> length, inside |-> inside]
At(item, method, extents, tiff, whole) ==
    [item |-> item, method |-> method, extents |-> extents, tiff |-> tiff, whole |-> whole]

\* What becomes of the properties and the associations of the primary item.
File(properties, ipma, pitm, iloc) ==
    <<Leaf("ftyp"),
      Parent("meta", <<pitm, Parent("iinf", <<Infe(1, 2, "av01"), Infe(3, 1, "Exif"), Infe(2, 2, "Exif")>>), Iloc(iloc),
                       Parent("iprp", <<Parent("ipco", properties), ipma>>)>>),
      Leaf("mdat")>>

Twice(length, inside) == <<Extent(length, TRUE), Extent(length, inside)>>
ExifAt(blob) == <<At(1, 0, <<>>, {}, TRUE), At(2, 0, Twice(5, TRUE), blob, TRUE)>>
Both(indices) == Ipma(<<Assoc(2, <<4>>, TRUE), Assoc(1, indices, TRUE)>>)

\* Every turn, mirror and order of the two, with every EXIF tag of a turned
\* file, with some of the properties not the primary item's.
SoundFiles ==
    {File(<<Leaf("ispe"), Irot(a), Leaf("pixi"), Imir(x)>>, Both(indices), Pitm(TRUE), ExifAt(e)) :
        a \in 0..3, x \in 0..1,
        indices \in {<<>>, <<2>>, <<4>>, <<1, 2, 4>>, <<4, 3, 2>>, <<2, 2, 9>>},
        e \in {{}, {[tag |-> {}]}, Tagged(0, FALSE), Tagged(1, FALSE), Tagged(2, TRUE)}}

\* Files that end early, name no primary item or have more boxes than are read.
UnsoundFiles ==
    {File(<<Irot(1)>> \o p \o <<Imir(0)>>, m, Pitm(w), l) :
        p \in {<<>>, <<Leaf("broken")>>, [i \in 1..9 |-> Leaf("free")]},
        m \in {Both(<<1, 2>>), Ipma(<<>>), Ipma(<<Assoc(2, <<1>>, FALSE)>>)},
        w \in BOOLEAN,
        l \in {ExifAt(Tagged(3, FALSE)), <<At(2, 0, <<>>, {}, FALSE)>>}
               \cup {<<At(2, d, Twice(n, i), Tagged(3, FALSE), TRUE)>> :
                        d \in 0..1, n \in {1, 5, 6}, i \in BOOLEAN}}
      \cup {<<>>, <<Leaf("broken")>>, <<Leaf("mdat")>>, <<Parent("meta", <<Pitm(TRUE)>>)>>}

Avifs(files) == {[Still("avif", <<9, 6>>) EXCEPT !.container = c, !.icc = TRUE] : c \in files}

\* An animation made larger than any limit.
Huge == {[Plain EXCEPT !.format = f, !.size = <<20, Unset>>, !.enlarge = TRUE] : f \in {"webp", "gif"}}

Everything ==
    (AllRequests \X AllSources)
      \cup (Styles \X (Photos \cup Clear))
      \cup ({r \in Styles : r.rotate \in {0, 90} /\ ~r.flip[2]} \X Avifs(SoundFiles))
      \cup ({r \in Styles : r.rotate = 0 /\ r.flip = <<FALSE, FALSE>>} \X Avifs(UnsoundFiles))
      \cup (Marked \X {Still("jpeg", <<20, 16>>), Still("other", <<3, 21>>)})
      \cup ((Framed \cup Huge) \X Clear)

=============================================================================
