------------------------------ MODULE CacheKey ------------------------------
(***************************************************************************)
(* The storage key of a query (CacheService::generate_key) and the         *)
(* settings the image service derives from it.                             *)
(*                                                                         *)
(* The hash is taken as injective, so a key is the sequence of the fields  *)
(* fed to it.  Each field is length-prefixed (update_field), which keeps   *)
(* one element per field; a field is the tuple that stands for its bytes.  *)
(* Two values whose bytes agree are the same tuple.                        *)
(***************************************************************************)
EXTENDS UrlOptions

\* The bytes of a text, of a value printed in decimal, of raw bytes.
TextField(text) == <<text>>
NumberField(n) == <<"decimal", n>>
RawField(bytes) == <<"raw", "bytes", bytes>>
BoolField(b) == TextField(IF b THEN "true" ELSE "false")

\* The same of an option, which prints as "None" when it is.
TextOrNone(o) == IF o = None THEN TextField("None") ELSE TextField(o[1])
NumberOrNone(o) == IF o = None THEN TextField("None") ELSE NumberField(o[1])
RawOrNone(o) == IF o = None THEN TextField("None") ELSE RawField(o[1])
BoolOrNone(o) == IF o = None THEN TextField("None") ELSE BoolField(o[1])

\* Every sigma the pipeline does not blur with is the same one.
canonical_blur_sigma(sigma) ==
    IF sigma # None /\ FloatLess(0, sigma[1]) THEN sigma ELSE None

CropFields(crop) ==
    IF crop = None THEN <<TextField("None")>>
    ELSE <<crop[1].width, crop[1].height, crop[1].gravity>>

TrimFields(trim) ==
    IF trim = None THEN <<TextField("None")>>
    ELSE <<NumberField(trim[1].threshold), RawOrNone(trim[1].color),
           BoolField(trim[1].equal_hor), BoolField(trim[1].equal_ver)>>

\* Fault: the watermark's own source is left out.
WatermarkFieldsNoUrl(watermark) ==
    IF watermark = None THEN <<TextField("None")>>
    ELSE LET w == watermark[1]
         IN  <<NumberField(w.opacity), TextField(w.position), NumberField(w.x_offset),
               NumberField(w.y_offset), NumberField(w.scale), RawOrNone(w.size),
               NumberField(w.rotate), NumberOrNone(w.shadow)>>

WatermarkFields(watermark) ==
    IF watermark = None THEN <<TextField("None")>>
    ELSE LET w == watermark[1]
         IN  <<NumberField(w.opacity), TextField(w.position), NumberField(w.x_offset),
               NumberField(w.y_offset), NumberField(w.scale), TextOrNone(w.url),
               RawOrNone(w.size), NumberField(w.rotate),
               NumberOrNone(w.shadow)>>

PaddingField(padding) ==
    IF padding = None THEN TextField("None")
    ELSE RawField(<<padding[1].top, padding[1].right, padding[1].bottom, padding[1].left>>)

SizeFields(q) ==
    <<TextField(q.url), NumberOrNone(q.width), NumberOrNone(q.height),
      TextField(q.resize_type), TextField(q.format),
      NumberOrNone(canonical_blur_sigma(q.blur_sigma)),
      BoolOrNone(q.grayscale), BoolField(q.enlarge),
      RawOrNone(q.quality), RawOrNone(q.jpeg_quality),
      RawOrNone(q.webp_quality), BoolOrNone(q.webp_lossless),
      BoolOrNone(q.jpeg_progressive), BoolOrNone(q.jpeg_no_subsampling),
      NumberOrNone(q.max_bytes), RawOrNone(q.background),
      BoolField(q.autorotate), q.gravity>>

TurnFields(q) ==
    <<NumberField(q.rotate), BoolField(q.flip_horizontal), BoolField(q.flip_vertical)>>

CanvasFields(q) ==
    <<BoolField(q.extend), PaddingField(q.padding), NumberField(q.zoom_x),
      NumberField(q.zoom_y), NumberField(q.dpr), NumberOrNone(q.min_width),
      NumberOrNone(q.min_height), BoolField(q.strip_metadata)>>

generate_key(q) ==
    SizeFields(q) \o CropFields(q.crop) \o TurnFields(q) \o TrimFields(q.trim)
        \o WatermarkFields(q.watermark) \o CanvasFields(q)

-----------------------------------------------------------------------------
(* What the image service makes of a query under the deployment's defaults. *)

DefaultWebpQuality == 82
DefaultJpegQuality == 75
DefaultAvifQuality == 80
DefaultBackground == <<255, 255, 255>>

\* The encoder settings that are read for the output format.
EncoderSettings(q, deployment) ==
    CASE q.format = "jpg" ->
            [quality |-> UnwrapOr(q.jpeg_quality, UnwrapOr(q.quality, DefaultJpegQuality)),
             progressive |-> UnwrapOr(q.jpeg_progressive, deployment.jpeg_progressive_default),
             no_subsampling |->
                 UnwrapOr(q.jpeg_no_subsampling, deployment.jpeg_no_subsampling_default),
             max_bytes |-> q.max_bytes]
      [] q.format = "webp" ->
            [lossless |-> UnwrapOr(q.webp_lossless, FALSE),
             quality |-> UnwrapOr(q.webp_quality, UnwrapOr(q.quality, DefaultWebpQuality))]
      [] q.format = "avif" -> [quality |-> UnwrapOr(q.quality, DefaultAvifQuality)]
      [] OTHER -> [none |-> 0]

\* download_watermark_if_needed: the request's own source, else the
\* deployment's; None when a watermark is asked for and there is neither.
WatermarkSource(q, deployment) ==
    IF q.watermark[1].url # None THEN q.watermark[1].url ELSE deployment.watermark_url

\* Everything about a query that reaches the pixels or the encoder.
Rendering(q, deployment) ==
    [source |-> q.url, format |-> q.format, box |-> <<q.width, q.height>>,
     resize_type |-> q.resize_type, enlarge |-> q.enlarge,
     blur |-> canonical_blur_sigma(q.blur_sigma),
     grayscale |-> q.grayscale = Some(TRUE),
     encoder |-> EncoderSettings(q, deployment),
     background |-> UnwrapOr(q.background, DefaultBackground),
     autorotate |-> q.autorotate, strip_metadata |-> q.strip_metadata,
     crop |-> q.crop, gravity |-> q.gravity, rotate |-> q.rotate,
     flip |-> <<q.flip_horizontal, q.flip_vertical>>, trim |-> q.trim,
     extend |-> q.extend, padding |-> q.padding, zoom |-> <<q.zoom_x, q.zoom_y>>,
     dpr |-> q.dpr, floor |-> <<q.min_width, q.min_height>>,
     watermark |-> IF q.watermark = None THEN None
                   ELSE Some([q.watermark[1] EXCEPT !.url = WatermarkSource(q, deployment)])]
=============================================================================
