---------------------------- MODULE ImageRender ----------------------------
(***************************************************************************)
(* One image job again, now with what the reader of the result sees: which *)
(* way up the image is, the metadata that goes with it, what lies under    *)
(* transparent pixels and how much of the watermark is drawn.  Every step  *)
(* is a step of ImageGeometry with its effect on these.                    *)
(***************************************************************************)
EXTENDS ImageGeometry

(* The watermark. *)

\* rotate_rgba: the box around the turned watermark.
RotatedMark(size, degrees) == IF RotateSwapsAxes(degrees) THEN Swap(size) ELSE size

\* Its size: asked for, relative to the image, or its own; then turned.
\* fir_resize fits it in the box.
WatermarkSize(wm, overlay, size) ==
    LET box == IF wm.size # <<Unset, Unset>> THEN wm.size
               ELSE [i \in Axes |-> RoundedPixels(size[i] * wm.scale, 10)]
        sized == IF wm.size = <<Unset, Unset>> /\ wm.scale = 0 THEN overlay
                 ELSE ResizeDimensions(overlay, box, FALSE)
    IN  RotatedMark(sized, wm.rotate)

\* Fault: the far edge is where the watermark starts, not where it ends.
WatermarkPositionFar(wm, size, mark) ==
    [i \in Axes |-> wm.offset[i] +
        (CASE wm.position[i] = "start" -> 0
           [] wm.position[i] = "middle" -> size[i] \div 2
           [] wm.position[i] = "end" -> size[i])]

\* i64 division rounds towards zero.
Half(n) == IF n >= 0 THEN n \div 2 ELSE -((-n) \div 2)

\* watermark_position: it may lie partly, or wholly, outside.
WatermarkPosition(wm, size, mark) ==
    [i \in Axes |-> wm.offset[i] +
        (CASE wm.position[i] = "start" -> 0
           [] wm.position[i] = "middle" -> Half(size[i] - mark[i])
           [] wm.position[i] = "end" -> size[i] - mark[i])]

\* composite_over draws the part that is on the canvas.
Drawn(size, at, mark) ==
    [i \in Axes |-> Larger(0, Smaller(size[i], at[i] + mark[i]) - Larger(0, at[i]))]

-----------------------------------------------------------------------------
VARIABLES
    view,     \* where the corners of the file's pixels are in the image in hand
    exif,     \* the EXIF that goes with it: an option
    icc,      \* whether its colour profile does
    applied,  \* exif_orientation_applied
    alpha,    \* "none": no alpha channel; "opaque", "clear": what it holds
    hidden,   \* whether the source's colours are still under transparent pixels
    mark      \* the size of the watermark drawn: an option

shown == <<view, exif, icc, applied, alpha, hidden, mark>>
rvars == <<vars, shown>>

RTypeOK ==
    /\ TypeOK
    /\ view \in Views
    /\ exif \subseteq Exifs
    /\ icc \in BOOLEAN
    /\ applied \in BOOLEAN
    /\ alpha \in {"none", "opaque", "clear"}
    /\ hidden \in BOOLEAN
    /\ mark \subseteq Box

RInit ==
    /\ Init
    /\ view = AsStored
    /\ exif = {} /\ icc = FALSE /\ applied = FALSE
    /\ alpha = "none" /\ hidden = FALSE
    /\ mark = {}

\* Steps that change nothing shown.
Unseen(A) == A /\ UNCHANGED shown

\* decode_animation_source gives RGBA frames and no metadata.
ROpenAnimation ==
    /\ OpenAnimation
    /\ alpha' = IF source.alpha = "none" THEN "opaque" ELSE source.alpha
    /\ hidden' = (source.alpha = "clear")
    /\ UNCHANGED <<view, exif, icc, applied, mark>>

RDecode ==
    /\ DecodeScaled \/ DecodeFull
    /\ LET decoded == Decoded(request, source)
       IN  exif' = decoded.exif /\ icc' = decoded.icc
    /\ alpha' = source.alpha
    /\ hidden' = (source.alpha = "clear")
    /\ UNCHANGED <<view, applied, mark>>

ROrient ==
    /\ Orient
    /\ LET orientation == Decoded(request, source).orientation
       IN  /\ applied' = (request.autorotate /\ orientation # NoTransforms)
           /\ view' = IF request.autorotate THEN ApplyOrientation(view, orientation) ELSE view
    /\ UNCHANGED <<exif, icc, alpha, hidden, mark>>

\* Fault: the tag is forwarded as it is.
neutralize_exif_orientation_not(e) == {e}

\* neutralize_exif_orientation: no tag to rewrite, no EXIF.
neutralize_exif_orientation(e) ==
    IF e.tag = {} THEN {} ELSE {[e EXCEPT !.tag = {NoTransforms}]}

\* Fault: EXIF that was read anyway is forwarded though it is not wanted.
ForwardedExifUnasked(r, kept, turned) ==
    IF turned THEN UNION {neutralize_exif_orientation(e) : e \in kept} ELSE kept

\* encode_single_image's first step.
ForwardedExif(r, kept, turned) ==
    CASE r.strip -> {}
      [] ~r.strip /\ turned -> UNION {neutralize_exif_orientation(e) : e \in kept}
      [] OTHER -> kept

\* apply_rotate and apply_flip.
Rotated(r, v) == Turned(v, r.rotate \div 90)
Flipped(r, v) ==
    LET h == IF r.flip[1] THEN FlipH(v) ELSE v
    IN  IF r.flip[2] THEN FlipV(h) ELSE h

RResizeAndFilter ==
    /\ ResizeAndFilter
    /\ exif' = ForwardedExif(request, exif, applied)
    /\ view' = Flipped(request, Rotated(request, view))
    /\ UNCHANGED <<icc, applied, alpha, hidden, mark>>

\* embed_on_background draws the image over an opaque canvas: apply_extend when
\* the image is too small, apply_padding when there is any.
RGrowCanvas ==
    /\ GrowCanvas
    /\ alpha' = IF alpha = "clear" /\ img' # img THEN "opaque" ELSE alpha
    /\ hidden' = (hidden /\ img' = img)
    /\ UNCHANGED <<view, exif, icc, applied, mark>>

\* apply_watermark, when there is one to draw; the image becomes RGBA.
RWatermark ==
    /\ Watermark
    /\ mark' = {Drawn(img, WatermarkPosition(wm, img, WatermarkSize(wm, o, img)),
                      WatermarkSize(wm, o, img)) :
                   wm \in request.watermark, o \in request.overlay}
    /\ alpha' = IF mark' # {} /\ alpha = "none" THEN "opaque" ELSE alpha
    /\ UNCHANGED <<view, exif, icc, applied, hidden>>

\* Fault: only JPEG, which has no transparency, is looked after.
CleansJpegOnly(r) == r.format = "jpeg" /\ alpha # "none"

\* Transparency is flattened onto the background for JPEG; for the others the
\* colour under a transparent pixel becomes the background's.
Cleans(r) == alpha # "none"

\* The encoders, and the metadata each of them writes: the image crate's GIF
\* encoder none, the AVIF encoder no profile.  The WebP encoder writes both since
\* #148, as encode_single_image's comment and tests say and
\* ResizeQuery::strip_metadata's comment does not yet.
encode_webp(e, i) == [exif |-> e, icc |-> i]
encode_png(e, i) == [exif |-> e, icc |-> i]
encode_jpeg(e, i) == [exif |-> e, icc |-> i]
avif_encode(e) == [exif |-> e, icc |-> FALSE]
Encoded(format, e, i) ==
    CASE format = "webp" -> encode_webp(e, i)
      [] format = "png" -> encode_png(e, i)
      [] format = "jpeg" -> encode_jpeg(e, i)
      [] format = "avif" -> avif_encode(e)
      [] OTHER -> [exif |-> {}, icc |-> FALSE]

REncode ==
    /\ Encode
    /\ IF stage' = "failed" THEN UNCHANGED shown
       ELSE LET written == Encoded(request.format, exif, icc)
            IN  /\ exif' = written.exif
                /\ icc' = written.icc
                /\ hidden' = (hidden /\ ~Cleans(request))
                /\ alpha' = IF request.format = "jpeg" THEN "none" ELSE alpha
                /\ UNCHANGED <<view, applied, mark>>

\* encode_animation: resize_and_filter for every frame, transparency cleaned, no
\* metadata.
REncodeAnimation ==
    /\ EncodeAnimation
    /\ view' = Flipped(request, Rotated(request, view))
    /\ hidden' = FALSE
    /\ UNCHANGED <<exif, icc, applied, alpha, mark>>

RNext ==
    \/ Unseen(CheckRequest) \/ Unseen(Peek) \/ Unseen(CodecFails)
    \/ Unseen(Trim) \/ Unseen(CropSource) \/ Unseen(Verify)
    \/ ROpenAnimation \/ RDecode \/ ROrient \/ RResizeAndFilter \/ RGrowCanvas
    \/ RWatermark \/ REncode \/ REncodeAnimation

RSpec == RInit /\ [][RNext]_rvars

-----------------------------------------------------------------------------
(* Properties. *)

\* Types, and BoxIsFinal of the image sizes: the final image fits the box asked
\* for, whichever way resize_and_filter turns it.
GeometryInv == RTypeOK /\ BoxIsFinal

\* Nothing is cut off.  apply_crop gives the size asked for, clamped to the
\* image, whatever the gravity: the anchor never pushes the box over an edge,
\* where crop_imm would clip it.  apply_watermark draws the whole of a watermark
\* that is not larger than the image and not moved by an offset, wherever it is
\* placed: composite_over, which skips what lies outside, skips nothing.
NothingClipped ==
    [][/\ stage = "crop" /\ request.crops =>
              \A i \in Axes : img'[i] = CropLength(request.crop[i], img[i])
       /\ stage = "watermark" /\ stage' = "encode" =>
              \A wm \in request.watermark, overlay \in request.overlay :
                 LET asked == WatermarkSize(wm, overlay, img)
                 IN  wm.offset = <<0, 0>> /\ Within(asked, img) => mark' = {asked}]_rvars

\* What a container holds, read without a budget.
Children(boxes, type) ==
    IF FirstBox(boxes, type) = {} THEN <<>> ELSE The(FirstBox(boxes, type)).boxes
MetaBoxes(c) == Children(c, "meta")
PropertyBoxes(c) == Children(MetaBoxes(c), "iprp")
Properties(c) == Children(PropertyBoxes(c), "ipco")
PrimaryProperties(c) ==
    LET entries == UNION {EntryOf(ipma.entries, pitm.item) :
                            ipma \in FirstBox(PropertyBoxes(c), "ipma"),
                            pitm \in FirstBox(MetaBoxes(c), "pitm")}
    IN  IF entries = {} THEN <<>> ELSE The(entries).indices

\* A container the reader can take in whole.
Unbroken(boxes) == \A i \in DOMAIN boxes : read_box_header(boxes[i])
Sound(c) ==
    /\ Unbroken(c) /\ Unbroken(MetaBoxes(c)) /\ Unbroken(PropertyBoxes(c)) /\ Unbroken(Properties(c))
    /\ Len(c) + Len(MetaBoxes(c)) + Len(PropertyBoxes(c)) + Len(Properties(c)) <= MaxBoxesVisited
    /\ \A pitm \in FirstBox(MetaBoxes(c), "pitm") : pitm.whole

\* What a viewer of an AVIF does, in the words of TransformProperty: it takes the
\* properties associated with the primary item in order, irot as turns to the
\* left and imir as a flip about the vertical (0) or the horizontal (1) axis,
\* each by the bits it is defined on.
TurnLeft(v) == [c \in Corners |-> <<v[c][2], 1 - v[c][1]>>]
ViewerStep(v, box) ==
    CASE box.type = "irot" /\ box.value % 4 = 1 -> TurnLeft(v)
      [] box.type = "irot" /\ box.value % 4 = 2 -> TurnLeft(TurnLeft(v))
      [] box.type = "irot" /\ box.value % 4 = 3 -> TurnLeft(TurnLeft(TurnLeft(v)))
      [] box.type = "imir" /\ box.value % 2 = 0 -> FlipH(v)
      [] box.type = "imir" /\ box.value % 2 = 1 -> FlipV(v)
      [] OTHER -> v

\* The source as a viewer shows it.
Viewed(properties, indices) ==
    LET seen[n \in 0..Len(indices)] ==
            IF n = 0 THEN AsStored
            ELSE IF indices[n] \in DOMAIN properties
                 THEN ViewerStep(seen[n - 1], properties[indices[n]])
                 ELSE seen[n - 1]
    IN  seen[Len(indices)]
SourceView(s) ==
    IF s.kind = "avif" THEN Viewed(Properties(s.container), PrimaryProperties(s.container))
    ELSE ApplyOrientation(AsStored, TagOrientation(s))

\* The result as a viewer shows it: in a JPEG, a PNG and a WebP the EXIF tag
\* counts; a viewer of an AVIF looks at the container, and a GIF has none.
ResultView ==
    LET tags == UNION {e.tag : e \in exif}
    IN  IF request.format \in {"jpeg", "png", "webp"} /\ tags # {}
        THEN ApplyOrientation(view, The(tags)) ELSE view

\* An AVIF whose EXIF asks for a turn that its container does not: a viewer
\* ignores it, but the tag goes on into the result as it is.
MisleadingTag ==
    /\ source.kind = "avif"
    /\ Parse(source.container).orientation = NoTransforms
    /\ \E e \in Parse(source.container).exif : e.tag \notin {{}, {NoTransforms}}

\* "tell any EXIF-aware viewer ... to rotate the already-upright pixels a second
\* time" is what neutralize_exif_orientation is to prevent.  With autorotate the
\* result is shown as the source is, then rotated and flipped as asked: never
\* turned twice, never left lying, whichever decoder read it, wherever its
\* orientation was kept and whatever metadata was asked for.  It does not hold
\* of animations, of an AVIF container beyond the reader's budget, or of a
\* misleading tag.
ShownAsSource ==
    stage = "done" /\ request.autorotate /\ ~Animation
      /\ (source.kind = "avif" => Sound(source.container))
      /\ (MisleadingTag => request.strip)
    => ResultView = Flipped(request, Rotated(request, SourceView(source)))

\* Nothing the caller wanted gone is left and nothing he wanted kept is lost:
\* with strip_metadata no EXIF is in the result though the WebP and the AVIF
\* decoder always read it; without, a still image's EXIF is there in every
\* format that can hold it, unless it has no tag to neutralise; a profile is
\* kept where both ends can.  No colour survives under a transparent pixel.
\* WebP holds EXIF by encode_single_image's matrix ("supported since #148") and
\* the test strip_metadata_false_keeps_exif_in_webp_output.
MetadataAsAsked ==
    stage = "done" =>
        /\ ~hidden
        /\ request.strip => exif = {}
        /\ ~request.strip /\ ~Animation /\ request.format # "gif" =>
              \A e \in Decoded(request, source).exif :
                  exif # {} \/ (applied /\ e.tag = {})
        /\ ~Animation /\ source.icc /\ source.kind # "avif"
             /\ request.format \in {"jpeg", "png", "webp"} => icc

=============================================================================
