--------------------------- MODULE ImageGeometry ---------------------------
(***************************************************************************)
(* The geometry of one image job (process_image_blocking): the dimensions  *)
(* of the image through decode, autorotate, trim, crop, resize, rotate,    *)
(* extend and padding, and the checks that reject a job on its way.        *)
(*                                                                         *)
(* A size is a pair <<width, height>>.  Pixels, filters and colours are    *)
(* left out; ImageRender adds what becomes of orientation, metadata,       *)
(* transparency and the watermark.  Quotients are exact where the code has *)
(* f64; the two can only round apart at a tie.                             *)
(***************************************************************************)
EXTENDS AvifMeta

CONSTANTS
    Jobs,           \* the ResizeQuery values asked for, each with its source
    MaxOutput,      \* config.max_output_width and max_output_height, a size
    MaxMegapixels,  \* config.max_src_resolution_mp
    Megapixel,      \* pixels in a megapixel
    MaxFrames,      \* config.max_animation_frames
    MaxJpegSide,    \* the largest side a JPEG can have, 65535
    MaxWebpSide     \* the largest side of an animated WebP's canvas, 2^24

Axes == {1, 2}
Unset == 0       \* Option::None of a width or a height (0 in the URL)
Unit == 2        \* zoom and dpr are counted in halves

\* What detect_format_from_bytes and the WebP header tell apart.
Kinds == {"jpeg", "gif", "webp", "animated_webp", "avif", "other"}
Formats == {"jpeg", "png", "webp", "avif", "gif", "auto"}
ResizeTypes == {"fit", "fill", "force", "auto"}

\* On one axis; a focus point is in tenths.
Gravities == ({"start", "middle", "end"} \X {0}) \cup ({"focus"} \X (0..10))

Size == [Axes -> Nat \ {0}]
Box == [Axes -> Nat]

\* A crop length is <<"absolute", pixels>>, <<"relative", tenths>> or
\* <<"full", 0>>.
CropLengths == {<<"full", 0>>} \cup ({"absolute"} \X (Nat \ {0})) \cup ({"relative"} \X (1..9))

\* WatermarkQuery: the size asked for, else the scale in tenths of the image,
\* else the watermark's own size; the offset in pixels and a turn by right
\* angles.  Opacity and shadow leave its place alone.
WatermarkType ==
    [size : Box, scale : Nat, position : [Axes -> {"start", "middle", "end"}],
     offset : [Axes -> Int], rotate : {0, 90, 180, 270}]

RequestType ==
    [size : Box, min : Box, zoom : Size, dpr : Nat \ {0}, type : ResizeTypes,
     enlarge : BOOLEAN, rotate : {0, 90, 180, 270}, autorotate : BOOLEAN,
     trim : BOOLEAN, equal : [Axes -> BOOLEAN],
     crops : BOOLEAN, crop : [Axes -> CropLengths], cropGravity : [Axes -> Gravities],
     gravity : [Axes -> Gravities], extend : BOOLEAN, padding : Box,
     format : Formats, strip : BOOLEAN, flip : [Axes -> BOOLEAN],
     watermark : SUBSET WatermarkType, overlay : SUBSET Size]

IsOption(S) == \A x, y \in S : x = y
IsRequest(r) == r \in RequestType /\ IsOption(r.watermark) /\ IsOption(r.overlay)

\* alpha "clear": some pixels are transparent.  The orientation and the EXIF of
\* an AVIF are in its container.
IsSource(s) ==
    /\ s.kind \in Kinds /\ s.size \in Size /\ s.frames \in Nat \ {0}
    /\ s.exif \subseteq Exifs /\ IsOption(s.exif)
    /\ s.icc \in BOOLEAN /\ s.alpha \in {"none", "clear"}
    /\ IsContainer(s.container)

ASSUME GeometryAssumption ==
    /\ \A job \in Jobs : IsRequest(job[1]) /\ IsSource(job[2])
    /\ MaxOutput \in Size
    /\ MaxMegapixels \in Nat
    /\ Megapixel \in Nat \ {0}
    /\ MaxFrames \in Nat /\ MaxJpegSide \in Nat /\ MaxWebpSide \in Nat

-----------------------------------------------------------------------------
(* Arithmetic. *)

Larger(a, b) == IF a >= b THEN a ELSE b
Smaller(a, b) == IF a <= b THEN a ELSE b
Clamp(x, lo, hi) == Larger(lo, Smaller(x, hi))
Swap(s) == <<s[2], s[1]>>
Within(s, t) == \A i \in Axes : s[i] <= t[i]

\* Fault: no floor at one pixel.
RoundedPixelsBare(a, b) == (2 * a + b) \div (2 * b)

\* f64::round of the quotient, at least one pixel.
RoundedPixels(a, b) == Larger(1, (2 * a + b) \div (2 * b))

DivCeil(a, b) == (a + b - 1) \div b

-----------------------------------------------------------------------------
(* What the request asks for. *)

\* Fault: dpr is forgotten, as before #51.
AxisBoundNoDpr(r, i) ==
    Larger(DivCeil(r.size[i] * Larger(r.zoom[i], Unit), Unit), r.min[i])

\* check_axis_bound: the most the request can ask for on axis i, without
\* knowing the source.
AxisBound(r, i) ==
    LET multiplier == Larger(r.zoom[i], Unit) * Larger(r.dpr, Unit)
    IN  Larger(DivCeil(r.size[i] * multiplier, Unit * Unit), r.min[i])

CheckOutputDimensions(r) == \A i \in Axes : AxisBound(r, i) <= MaxOutput[i]

RotateSwapsAxes(degrees) == (degrees \div 90) % 2 = 1

\* width and height, zoomed and scaled by dpr: extend's target, and the resize
\* box before the enlarge guard and the min-width/min-height floor.
ScaledBox(r) ==
    [i \in Axes |-> IF r.size[i] = Unset THEN Unset
                    ELSE RoundedPixels(r.size[i] * r.zoom[i] * r.dpr, Unit * Unit)]

\* Faults: the source is not turned to the final orientation (the bug the
\* source's comment tells of); the result is not turned back.
EffectiveResizeBoxRawSource(r, size) ==
    LET guarded == [i \in Axes |-> IF r.enlarge THEN ScaledBox(r)[i]
                                   ELSE Smaller(ScaledBox(r)[i], size[i])]
        floored == [i \in Axes |-> Larger(guarded[i], r.min[i])]
    IN  IF RotateSwapsAxes(r.rotate) THEN Swap(floored) ELSE floored
EffectiveResizeBoxNotBack(r, size) ==
    LET final == IF RotateSwapsAxes(r.rotate) THEN Swap(size) ELSE size
        guarded == [i \in Axes |-> IF r.enlarge THEN ScaledBox(r)[i]
                                   ELSE Smaller(ScaledBox(r)[i], final[i])]
    IN  [i \in Axes |-> Larger(guarded[i], r.min[i])]

\* effective_resize_box: guard and floor are applied in the orientation of the
\* final image; the box is turned back to that of the pixels to resize.
EffectiveResizeBox(r, size) ==
    LET swap == RotateSwapsAxes(r.rotate)
        final == IF swap THEN Swap(size) ELSE size
        asked == ScaledBox(r)
        guarded == [i \in Axes |-> IF asked[i] = Unset \/ r.enlarge THEN asked[i]
                                   ELSE Smaller(asked[i], final[i])]
        floored == [i \in Axes |->
            IF r.min[i] = Unset THEN guarded[i]
            ELSE Larger(IF guarded[i] = Unset THEN final[i] ELSE guarded[i], r.min[i])]
    IN  IF swap THEN Swap(floored) ELSE floored

-----------------------------------------------------------------------------
(* Resampling and cropping. *)

\* resize_dimensions: scale `size` by one ratio to fit in the box or to cover
\* it.  An unset side is u32::MAX in the code, which never decides the ratio.
\* Its branches for results beyond u32::MAX need sides no source can have.
ResizeDimensions(size, box, fill) ==
    LET byWidth == \/ box[2] = Unset
                   \/ box[1] # Unset /\ (fill <=> box[1] * size[2] >= box[2] * size[1])
    IN  IF byWidth
        THEN <<Larger(1, box[1]), RoundedPixels(size[2] * box[1], size[1])>>
        ELSE <<RoundedPixels(size[1] * box[2], size[2]), Larger(1, box[2])>>

\* Which of the three resizes resize_and_filter dispatches to.
ResizeMode(r, size, box) ==
    IF box[1] = Unset /\ box[2] = Unset THEN "none"
    ELSE IF box[1] = Unset \/ box[2] = Unset THEN "fit"
    ELSE IF r.type # "auto" THEN r.type
    ELSE IF (size[1] >= size[2]) <=> (box[1] >= box[2]) THEN "fill"
    ELSE "fit"

\* The size of the buffer the resampler fills.
Resampled(r, size, box) ==
    LET mode == ResizeMode(r, size, box)
    IN  CASE mode = "none" -> size
          [] mode = "force" -> [i \in Axes |-> Larger(1, box[i])]
          [] OTHER -> ResizeDimensions(size, box, mode = "fill")

\* Fault: a focus point near the far edge is not pushed back inside.
GravityAnchorUnclamped(gravity, container, length) ==
    CASE gravity[1] = "start" -> 0
      [] gravity[1] = "middle" -> (container - Smaller(length, container)) \div 2
      [] gravity[1] = "end" -> container - Smaller(length, container)
      [] gravity[1] = "focus" ->
            Larger(0, (2 * container * gravity[2] - 10 * Smaller(length, container)) \div 20)

\* gravity_anchor, on one axis: where a box of `length` starts in a container.
\* A focus point is the box's centre, pushed back inside.
GravityAnchor(gravity, container, length) ==
    LET spare == container - Smaller(length, container)
    IN  CASE gravity[1] = "start" -> 0
          [] gravity[1] = "middle" -> spare \div 2
          [] gravity[1] = "end" -> spare
          [] gravity[1] = "focus" ->
                Clamp((2 * container * gravity[2] - 10 * (container - spare)) \div 20, 0, spare)

\* image::DynamicImage::crop_imm clips the rectangle to the image.
CropImm(size, at, box) ==
    [i \in Axes |-> Smaller(box[i], size[i] - Smaller(at[i], size[i]))]

CropTo(size, box, gravity) ==
    CropImm(size, [i \in Axes |-> GravityAnchor(gravity[i], size[i], box[i])], box)

\* The three resizes; only fill crops what it resampled.
Resize(r, size, box) ==
    IF ResizeMode(r, size, box) = "fill"
    THEN CropTo(Resampled(r, size, box), box, r.gravity)
    ELSE Resampled(r, size, box)

\* apply_crop's `resolve`.
CropLength(length, side) ==
    Clamp(CASE length[1] = "full" -> side
            [] length[1] = "absolute" -> length[2]
            [] length[1] = "relative" -> (2 * side * length[2] + 10) \div 20,
          1, side)

Crop(r, size) ==
    IF r.crops
    THEN CropTo(size, [i \in Axes |-> CropLength(r.crop[i], size[i])], r.cropGravity)
    ELSE size

\* apply_trim, on one axis: each end loses its run of background columns, as
\* many as the shorter run when `equal`.  A uniform image is left alone.
TrimmedSides(side, equal) ==
    {side - c[1] - c[2] : c \in
        {c \in (0..side - 1) \X (0..side - 1) : c[1] + c[2] < side /\ (equal => c[1] = c[2])}}

Rotate(r, size) == IF RotateSwapsAxes(r.rotate) THEN Swap(size) ELSE size

\* apply_extend, only toward a box with both sides known.
Extend(r, size) ==
    IF r.extend /\ \A i \in Axes : r.size[i] # Unset
    THEN [i \in Axes |-> Larger(size[i], ScaledBox(r)[i])]
    ELSE size

Pad(r, size) == [i \in Axes |-> size[i] + r.padding[i]]

-----------------------------------------------------------------------------
(* Shrink-on-load for JPEG. *)

JpegScaledDimension(side, scale) == DivCeil(side * scale, 8)
JpegScaled(size, scale) == [i \in Axes |-> JpegScaledDimension(size[i], scale)]

\* effective_resize_target: the size the resize step is expected to resample to.
EffectiveResizeTarget(r, size) ==
    LET box == EffectiveResizeBox(r, size)
        sameOrientation == (size[1] >= size[2]) <=> (box[1] >= box[2])
    IN  IF box[1] = Unset /\ box[2] = Unset THEN size
        ELSE IF box[1] = Unset \/ box[2] = Unset THEN ResizeDimensions(size, box, FALSE)
        ELSE CASE r.type = "fit" -> ResizeDimensions(size, box, FALSE)
               [] r.type = "fill" -> ResizeDimensions(size, box, TRUE)
               [] r.type = "force" -> [i \in Axes |-> Larger(1, box[i])]
               [] r.type = "auto" -> ResizeDimensions(size, box, sameOrientation)

\* Fault: a scale that covers the target on one axis is taken.
SelectJpegDctScaleEither(size, target) ==
    LET covers(s) == \E i \in Axes : JpegScaled(size, s)[i] >= target[i]
    IN  IF covers(1) THEN 1 ELSE IF covers(2) THEN 2 ELSE IF covers(4) THEN 4 ELSE 8

\* select_jpeg_dct_scale: the smallest of 1/8, 1/4 and 1/2 that still covers
\* the target on both axes, or no scaling.
SelectJpegDctScale(size, target) ==
    LET covers(s) == Within(target, JpegScaled(size, s))
    IN  IF covers(1) THEN 1 ELSE IF covers(2) THEN 2 ELSE IF covers(4) THEN 4 ELSE 8

\* jpeg_decoder::Decoder::scale takes the first scale at which either side
\* reaches the one requested.
ChooseIdctSize(size, requested) ==
    LET reaches(s) == \E i \in Axes : JpegScaled(size, s)[i] >= requested[i]
    IN  IF reaches(1) THEN 1 ELSE IF reaches(2) THEN 2 ELSE IF reaches(4) THEN 4 ELSE 8

\* The decoders, and the metadata each of them hands on besides the pixels.
\* decode_webp and the AVIF decoder read EXIF whether it is wanted or not; no
\* profile is read from an AVIF.
TagOrientation(s) ==
    LET tags == UNION {e.tag : e \in s.exif} IN IF tags = {} THEN NoTransforms ELSE The(tags)

decode_with_image_crate(r, s) ==
    [orientation |-> TagOrientation(s), icc |-> s.icc, exif |-> IF r.strip THEN {} ELSE s.exif]
decode_jpeg_scaled(r, s) ==
    [orientation |-> TagOrientation(s), icc |-> s.icc, exif |-> IF r.strip THEN {} ELSE s.exif]
decode_webp(s) ==
    [orientation |-> TagOrientation(s), icc |-> s.icc, exif |-> s.exif]
avif_decode(s) ==
    LET metadata == Parse(s.container)
    IN  [orientation |-> metadata.orientation, icc |-> FALSE, exif |-> metadata.exif]

Decoded(r, s) ==
    CASE s.kind = "jpeg" -> decode_jpeg_scaled(r, s)
      [] s.kind \in {"webp", "animated_webp"} -> decode_webp(s)
      [] s.kind = "avif" -> avif_decode(s)
      [] OTHER -> decode_with_image_crate(r, s)

\* Autorotation exchanges width and height.
Turns(r, s) == r.autorotate /\ Decoded(r, s).orientation.turns % 2 = 1

\* decode_jpeg_scaled up to the choice of the scale: the target is found in the
\* orientation the resize step will see, and turned back to that of the file.
PlannedScale(r, s) ==
    LET turn == Turns(r, s)
        target == EffectiveResizeTarget(r, IF turn THEN Swap(s.size) ELSE s.size)
    IN  SelectJpegDctScale(s.size, IF turn THEN Swap(target) ELSE target)

\* jpeg_scaled_decode: the decoder is asked for the planned size.  In full, the
\* image crate's decoder is used.
JpegDecoded(r, s) ==
    LET planned == PlannedScale(r, s)
    IN  IF planned = 8 THEN s.size
        ELSE JpegScaled(s.size, ChooseIdctSize(s.size, JpegScaled(s.size, planned)))

-----------------------------------------------------------------------------
VARIABLES
    stage,    \* the step the job is at
    request,
    source,
    img       \* the size of the image in hand

vars == <<stage, request, source, img>>

Stages == {"check", "open", "decode", "orient", "trim", "crop", "resize", "canvas",
           "verify", "watermark", "encode", "frames", "done", "too_large",
           "source_too_large", "too_large_late", "too_many_frames", "failed"}

TypeOK ==
    /\ stage \in Stages
    /\ IsRequest(request)
    /\ IsSource(source)
    /\ img \in Size

Init ==
    /\ stage = "check"
    /\ \E job \in Jobs : request = job[1] /\ source = job[2]
    /\ img = source.size

Goto(next) == stage' = next /\ UNCHANGED <<request, source>>

\* check_output_dimensions, before a byte of the source is read.
CheckRequest ==
    /\ stage = "check"
    /\ Goto(IF CheckOutputDimensions(request) THEN "open" ELSE "too_large")
    /\ UNCHANGED img

SourceFits == (source.size[1] * source.size[2]) \div Megapixel <= MaxMegapixels

Animation == request.format \in {"gif", "webp"} /\ source.kind \in {"gif", "animated_webp"}

\* The header is read and the source's resolution checked.
Peek ==
    /\ stage = "open"
    /\ ~Animation
    /\ Goto(IF SourceFits THEN "decode" ELSE "source_too_large")
    /\ UNCHANGED img

\* decode_animation_source: resolution, then the frame cap.  A single frame
\* goes straight to the still image's resize step, several to encode_animation.
OpenAnimation ==
    /\ stage = "open"
    /\ Animation
    /\ Goto(IF ~SourceFits THEN "source_too_large"
            ELSE IF source.frames > MaxFrames THEN "too_many_frames"
            ELSE IF source.frames > 1 THEN "frames"
            ELSE "resize")
    /\ UNCHANGED img

\* decode_with_limits, for a JPEG whose scaled decode succeeds.
DecodeScaled ==
    /\ stage = "decode"
    /\ source.kind = "jpeg"
    /\ img' = JpegDecoded(request, source)
    /\ Goto("orient")

\* Every other format, and a JPEG whose scaled decode failed.
DecodeFull ==
    /\ stage = "decode"
    /\ img' = source.size
    /\ Goto("orient")

\* An unreadable header, a failed decode (the decoders' panics are caught and
\* become one), a resampler, a watermark or an encoder that refuses.
CodecFails ==
    /\ \/ stage \in {"open", "decode", "resize", "frames", "encode"}
       \/ stage = "watermark" /\ request.watermark # {} /\ request.overlay # {}
    /\ Goto("failed")
    /\ UNCHANGED img

Orient ==
    /\ stage = "orient"
    /\ img' = IF Turns(request, source) THEN Swap(img) ELSE img
    /\ Goto("trim")

Trim ==
    /\ stage = "trim"
    /\ IF request.trim
       THEN \E w \in TrimmedSides(img[1], request.equal[1]),
               h \in TrimmedSides(img[2], request.equal[2]) : img' = <<w, h>>
       ELSE UNCHANGED img
    /\ Goto("crop")

CropSource ==
    /\ stage = "crop"
    /\ img' = Crop(request, img)
    /\ Goto("resize")

\* effective_resize_box, resize_and_filter: resize, then rotate and flip.
ResizeAndFilter ==
    /\ stage = "resize"
    /\ img' = Rotate(request, Resize(request, img, EffectiveResizeBox(request, img)))
    /\ Goto("canvas")

GrowCanvas ==
    /\ stage = "canvas"
    /\ img' = Pad(request, Extend(request, img))
    /\ Goto("verify")

\* The output limit again, on the image itself.
Verify ==
    /\ stage = "verify"
    /\ Goto(IF Within(img, MaxOutput) THEN "watermark" ELSE "too_large_late")
    /\ UNCHANGED img

\* apply_watermark draws inside the image, which keeps its size.
Watermark ==
    /\ stage = "watermark"
    /\ Goto("encode")
    /\ UNCHANGED img

\* encode_jpeg and encode_animated_webp, as far as they refuse a size; the output
\* limit may be set beyond the formats', and an animation is not held to it.
JpegFits(size) == \A i \in Axes : size[i] <= MaxJpegSide
AnimatedWebpFits(size) == \A i \in Axes : size[i] <= MaxWebpSide

\* The encoder of the format asked for; Auto should have been resolved.
Encode ==
    /\ stage = "encode"
    /\ Goto(IF request.format = "auto" \/ (request.format = "jpeg" /\ ~JpegFits(img))
            THEN "failed" ELSE "done")
    /\ UNCHANGED img

\* encode_animation has a resize box of its own.
EncodeAnimation ==
    /\ stage = "frames"
    /\ LET box == [i \in Axes |-> IF request.size[i] = Unset \/ request.enlarge
                                  THEN request.size[i]
                                  ELSE Smaller(request.size[i], img[i])]
       IN  img' = Rotate(request, Resize(request, img, box))
    /\ Goto(IF request.format = "webp" /\ ~AnimatedWebpFits(img') THEN "failed" ELSE "done")

Next ==
    \/ CheckRequest \/ Peek \/ OpenAnimation
    \/ DecodeScaled \/ DecodeFull \/ CodecFails
    \/ Orient \/ Trim \/ CropSource \/ ResizeAndFilter \/ GrowCanvas \/ Verify
    \/ Watermark \/ Encode
    \/ EncodeAnimation

Spec == Init /\ [][Next]_vars

-----------------------------------------------------------------------------
(* Properties. *)

\* resize_and_filter (1175-1181): "none of them can upscale past the source:
\* the #36 guard holds for every resize type".  Without enlarge and without a
\* floor no side of the buffer that is resampled grows, fill's oversized
\* intermediate included, whichever way the image is then rotated.
NoUpscale ==
    [][stage = "resize" /\ stage' = "canvas" /\ ~request.enlarge /\ request.min = <<Unset, Unset>> =>
           /\ Within(Resampled(request, img, EffectiveResizeBox(request, img)), img)
           /\ Within(Rotate(request, img'), img)]_vars

\* select_jpeg_dct_scale: shrink-on-load "never decodes smaller than the
\* target".  A JPEG decoded below full size is only ever scaled down from
\* there, the autorotated and the rotated ones too.  It does not hold of
\* requests that trim or crop, which the plan ignores, nor of "auto", whose
\* choice flips when the scaled size of a portrait image rounds to a square,
\* nor of a side of at most four pixels, which two scales give the same size.
NeverDecodesBelowTarget ==
    [][stage = "resize" /\ source.kind = "jpeg"
         /\ ~request.trim /\ ~request.crops /\ request.type # "auto"
         /\ (\A i \in Axes : source.size[i] > 4)
         /\ img \notin {source.size, Swap(source.size)}
       => Within(Resampled(request, img, EffectiveResizeBox(request, img)), img)]_vars

\* check_output_dimensions is the "largest size the request could possibly
\* resolve to": a request that names both sides and adds no padding is either
\* refused before anything is decoded or not at all.
EarlyOrNever ==
    [][stage = "verify" /\ stage' = "too_large_late" =>
          \/ \E i \in Axes : request.size[i] = Unset
          \/ \E i \in Axes : request.padding[i] > 0]_vars

\* "w:800/h:600/rot:90 expecting an 800x600 result" (effective_resize_box): with
\* enlarge, force and fill give exactly the scaled box however the image is
\* turned, fit stays inside it and touches one side.
BoxIsFinal ==
    LET asked == ScaledBox(request)
    IN  /\ stage = "canvas" /\ request.enlarge
        /\ \A i \in Axes : request.size[i] # Unset /\ request.min[i] <= asked[i]
        =>
        /\ request.type \in {"force", "fill"} => img = asked
        /\ request.type = "fit" =>
               Within(img, asked) /\ \E i \in Axes : img[i] = asked[i]

\* The pipeline of the user guide (trim left out), on a source decoded in full.
Documented(r, s) ==
    LET oriented == IF Turns(r, s) THEN Swap(s.size) ELSE s.size
        cropped == Crop(r, oriented)
    IN  Pad(r, Extend(r, Rotate(r, Resize(r, cropped, EffectiveResizeBox(r, cropped)))))

\* "the one thing that must never be wrong regardless of which decoder produced
\* the pixels: the final output dimensions" (the test of the scaled decode).
FinalSizeAsPredicted ==
    stage = "done" /\ ~request.trim => img = Documented(request, source)

=============================================================================
