----------------------------- MODULE UrlOptions -----------------------------
(***************************************************************************)
(* The processing options of a signed URL (modules/url/options.rs) and the *)
(* query they amount to (models/params.rs).                                *)
(*                                                                         *)
(* A path segment is the sequence of texts between its colons:             *)
(* rs:fit:300:0 is <<"rs", "fit", "300", "0">>.  Reading a number out of a *)
(* text is a table: a text outside the table does not parse.  Decimals are *)
(* counted in hundredths.                                                  *)
(*                                                                         *)
(* None and Some(v) are <<>> and <<v>>; so are a parser's Err and Ok(v).   *)
(***************************************************************************)
EXTENDS Integers, Sequences, FiniteSets

CONSTANTS
    IntegerText,    \* text -> the integer it spells
    DecimalText,    \* text -> the number it spells, in hundredths
    HexColorText,   \* text -> the colour its 3 or 6 hex digits spell
    Base64Text      \* text -> the UTF-8 text it encodes

\* The function that is e at d, and f with g where f says nothing, as in module
\* TLC, whose definitions the prover does not read.
d :> e == [x \in {d} |-> e]
f @@ g == [x \in (DOMAIN f) \cup (DOMAIN g) |-> IF x \in DOMAIN f THEN f[x] ELSE g[x]]

None == <<>>
Some(v) == <<v>>
UnwrapOr(o, default) == IF o = None THEN default ELSE o[1]

\* f32 values that are not numbers of hundredths.
NaN == -1000001
Infinity == 1000000
One == 100

\* Every comparison with NaN is false.
FloatLess(a, b) == a # NaN /\ b # NaN /\ a < b

-----------------------------------------------------------------------------
(* Single arguments. *)

parse_integer(raw, low, high) ==
    IF raw \in DOMAIN IntegerText /\ IntegerText[raw] \in low..high
    THEN Some(IntegerText[raw])
    ELSE None

\* A u32, i32 or u64: the table holds what fits the type, up to Infinity.
parse_unsigned(raw) == parse_integer(raw, 0, Infinity)

\* 0 means "not set".
parse_dimension(raw) ==
    LET value == parse_unsigned(raw)
    IN  IF value = None THEN None
        ELSE Some(IF value[1] = 0 THEN None ELSE value)

parse_dimension_allow_zero(raw) == parse_unsigned(raw)

parse_bounded(raw, low, high) == parse_integer(raw, low, high)

parse_float(raw) == IF raw \in DOMAIN DecimalText THEN Some(DecimalText[raw]) ELSE None

parse_bool(raw) ==
    CASE raw \in {"true", "1"} -> Some(TRUE)
      [] raw \in {"false", "0"} -> Some(FALSE)
      [] OTHER -> None

parse_positive_nonzero_float(raw) ==
    LET value == parse_float(raw)
    IN  IF value # None /\ FloatLess(0, value[1]) THEN value ELSE None

parse_resize_type(raw) ==
    CASE raw \in {"", "fit"} -> Some("fit")
      [] raw \in {"fill", "force", "auto"} -> Some(raw)
      [] OTHER -> None

parse_rotate_angle(raw) ==
    LET angle == parse_integer(raw, -Infinity, Infinity)
    IN  IF angle # None /\ angle[1] % 90 = 0 THEN Some(angle[1] % 360) ELSE None

parse_hex_color(raw) ==
    IF raw \in DOMAIN HexColorText THEN Some(HexColorText[raw]) ELSE None

parse_crop_dimension(raw) ==
    LET value == parse_float(raw)
    IN  IF value = None \/ value[1] \in {NaN, Infinity} \/ value[1] < 0 THEN None
        ELSE Some(CASE value[1] = 0 -> <<"full">>
                    [] value[1] \in 1..(One - 1) -> <<"rel", value[1]>>
                    [] OTHER -> <<"abs", (value[1] + 50) \div One>>)

Compass == {"ce", "no", "so", "ea", "we", "noea", "nowe", "soea", "sowe"}

parse_watermark_position(raw) == IF raw \in Compass THEN Some(raw) ELSE None

\* parse_gravity: a compass point, or fp:x:y within the unit square.
parse_gravity(tokens) ==
    LET focus == [i \in {2, 3} |-> parse_float(tokens[i])]
    IN  IF Len(tokens) = 1 /\ tokens[1] \in Compass
        THEN Some(tokens)
        ELSE IF /\ Len(tokens) = 3
                /\ tokens[1] = "fp"
                /\ \A i \in {2, 3} : focus[i] # None /\ focus[i][1] \in 0..One
        THEN Some(<<"fp", focus[2][1], focus[3][1]>>)
        ELSE None

-----------------------------------------------------------------------------
(* Argument lists.  Given: present and not left blank. *)

Given(args, i) == i <= Len(args) /\ args[i] # ""

\* A blank or missing argument reads as `default`.
ArgOr(args, i, parsed, default) == IF Given(args, i) THEN parsed ELSE Some(default)

\* The parsed values of several arguments: Err if any of them is.
AllParsed(results) ==
    IF \E n \in DOMAIN results : results[n] = None THEN None
    ELSE Some([n \in DOMAIN results |-> results[n][1]])

parse_background(args) ==
    CASE Len(args) = 3 -> AllParsed([i \in 1..3 |-> parse_bounded(args[i], 0, 255)])
      [] Len(args) = 1 -> parse_hex_color(args[1])
      [] OTHER -> None

parse_zoom(args) ==
    IF Len(args) \in {1, 2}
    THEN AllParsed([zoom_x |-> parse_positive_nonzero_float(args[1]),
                    zoom_y |-> parse_positive_nonzero_float(args[Len(args)])])
    ELSE None

parse_padding(args) ==
    LET top == parse_unsigned(args[1])
        side(i, fallback) == IF Given(args, i) THEN parse_unsigned(args[i]) ELSE fallback
        right == side(2, top)
    IN  IF Len(args) \notin 1..4 \/ ~Given(args, 1) THEN None
        ELSE AllParsed([top |-> top, right |-> right, bottom |-> side(3, top),
                        left |-> side(4, right)])

parse_trim(args) ==
    LET threshold == parse_float(args[1])
        color == IF ~Given(args, 2) THEN Some(None)
                 ELSE IF parse_hex_color(args[2]) = None THEN None
                 ELSE Some(parse_hex_color(args[2]))
    IN  IF \/ Len(args) \notin 1..4
           \/ ~Given(args, 1)
           \/ threshold = None
           \/ FloatLess(threshold[1], 0)
        THEN None
        ELSE AllParsed([threshold |-> threshold,
                        color |-> color,
                        equal_hor |-> ArgOr(args, 3, parse_bool(args[3]), FALSE),
                        equal_ver |-> ArgOr(args, 4, parse_bool(args[4]), FALSE)])

-----------------------------------------------------------------------------
(* ProcessingOptions. *)

\* crop_raw is parse's local: the crop before its gravity is known.
DefaultOptions ==
    [width |-> None, height |-> None, resize_type |-> "fit", blur_sigma |-> None,
     grayscale |-> None, enlarge |-> None, quality |-> None, jpeg_quality |-> None,
     webp_quality |-> None, webp_lossless |-> None, jpeg_progressive |-> None,
     jpeg_no_subsampling |-> None, max_bytes |-> None, background |-> None,
     autorotate |-> None, strip_metadata |-> None, crop_raw |-> None, crop |-> None,
     gravity |-> <<"ce">>, rotate |-> 0, flip_horizontal |-> FALSE, flip_vertical |-> FALSE,
     trim |-> None, extend |-> None, padding |-> None, zoom_x |-> One, zoom_y |-> One,
     dpr |-> One, min_width |-> None, min_height |-> None, watermark_opacity |-> None,
     watermark_position |-> "ce", watermark_x_offset |-> 0, watermark_y_offset |-> 0,
     watermark_scale |-> 0, watermark_url |-> None, watermark_size |-> None,
     watermark_rotate |-> 0, watermark_shadow |-> None]

OptionFields == DOMAIN DefaultOptions

\* The fields one option sets, as a function from field name to parsed value:
\* the whole option is refused if one of them does not parse.
Sets(field, parsed) == field :> parsed
SetsSome(field, parsed) == field :> (IF parsed = None THEN None ELSE Some(parsed))
SetsIfGiven(args, i, assignment) == IF Given(args, i) THEN assignment ELSE <<>>
Refused == "refused" :> None

rs(args) ==
    Sets("resize_type", parse_resize_type(args[1]))
        @@ Sets("width", parse_dimension(args[2])) @@ Sets("height", parse_dimension(args[3]))

\* fq: format:quality pairs, the later of two for one format wins; png has no
\* quality to set.
fq(args) ==
    LET pairs == 1..(Len(args) \div 2)
        format(i) == args[2 * i - 1]
        quality(i) == parse_bounded(args[2 * i], 0, 100)
        of(names) == {i \in pairs : format(i) \in names}
        last(names) == CHOOSE i \in of(names) : \A j \in of(names) : j <= i
        set(field, names) ==
            IF of(names) = {} THEN <<>> ELSE SetsSome(field, quality(last(names)))
    IN  IF \/ args = <<>> \/ Len(args) % 2 = 1
           \/ \E i \in pairs : quality(i) = None \/ format(i) \notin {"jpg", "jpeg", "webp"}
        THEN Refused
        ELSE set("jpeg_quality", {"jpg", "jpeg"}) @@ set("webp_quality", {"webp"})

webpo(args) ==
    Sets("webp_lossless", CASE args[1] = "lossy" -> Some(Some(FALSE))
                            [] args[1] = "lossless" -> Some(Some(TRUE))
                            [] OTHER -> None)

jpgo(args) ==
    IF Len(args) \notin 1..2 THEN Refused
    ELSE SetsIfGiven(args, 1, SetsSome("jpeg_progressive", parse_bool(args[1])))
             @@ SetsIfGiven(args, 2, SetsSome("jpeg_no_subsampling", parse_bool(args[2])))

\* c: the crop, with its own gravity or none yet.
parse_crop(args) ==
    LET gravity == parse_gravity(SubSeq(args, 3, Len(args)))
        crop == AllParsed([width |-> parse_crop_dimension(args[1]),
                           height |-> parse_crop_dimension(args[2]),
                           gravity |-> IF Len(args) = 2 THEN Some(None)
                                       ELSE IF gravity = None THEN None ELSE Some(gravity)])
    IN  IF Len(args) < 2 THEN Refused ELSE SetsSome("crop_raw", crop)

fl(args) ==
    IF Len(args) > 2 THEN Refused
    ELSE SetsIfGiven(args, 1, Sets("flip_horizontal", parse_bool(args[1])))
             @@ SetsIfGiven(args, 2, Sets("flip_vertical", parse_bool(args[2])))

\* Every slot after the opacity may be left out or blank to keep its value.
parse_watermark(args) ==
    IF Len(args) \notin 1..5 THEN Refused
    ELSE SetsSome("watermark_opacity", parse_float(args[1]))
             @@ SetsIfGiven(args, 2, Sets("watermark_position", parse_watermark_position(args[2])))
             @@ SetsIfGiven(args, 3, Sets("watermark_x_offset", parse_float(args[3])))
             @@ SetsIfGiven(args, 4, Sets("watermark_y_offset", parse_float(args[4])))
             @@ SetsIfGiven(args, 5, Sets("watermark_scale", parse_float(args[5])))

wmu(args) ==
    SetsSome("watermark_url",
             IF args[1] \in DOMAIN Base64Text THEN Some(Base64Text[args[1]]) ELSE None)

wms(args) ==
    SetsSome("watermark_size",
             AllParsed([i \in 1..2 |-> parse_dimension_allow_zero(args[i])]))

\* require_args: the options with a fixed number of arguments.
Arity ==
    [rs |-> 3, q |-> 1, webpo |-> 1, mb |-> 1, bl |-> 1, g |-> 1, el |-> 1, ar |-> 1,
     sm |-> 1, rot |-> 1, ex |-> 1, dpr |-> 1, mw |-> 1, mh |-> 1, wmu |-> 1, wms |-> 2,
     wmr |-> 1, wmsh |-> 1]

KnownOptions == DOMAIN Arity \cup {"fq", "jpgo", "bg", "c", "gr", "fl", "t", "pd", "z", "wm"}

\* One arm of parse's match: what the option named by `code` sets.
Assignment(code, args) ==
    IF code \in DOMAIN Arity /\ Len(args) # Arity[code] THEN Refused ELSE
    CASE code = "rs" -> rs(args)
      [] code = "q" -> SetsSome("quality", parse_bounded(args[1], 0, 100))
      [] code = "fq" -> fq(args)
      [] code = "webpo" -> webpo(args)
      [] code = "jpgo" -> jpgo(args)
      [] code = "mb" -> Sets("max_bytes", parse_dimension(args[1]))
      [] code = "bl" -> SetsSome("blur_sigma", parse_float(args[1]))
      [] code = "g" -> SetsSome("grayscale", parse_bool(args[1]))
      [] code = "el" -> SetsSome("enlarge", parse_bool(args[1]))
      [] code = "bg" -> SetsSome("background", parse_background(args))
      [] code = "ar" -> SetsSome("autorotate", parse_bool(args[1]))
      [] code = "sm" -> SetsSome("strip_metadata", parse_bool(args[1]))
      [] code = "c" -> parse_crop(args)
      [] code = "gr" -> Sets("gravity", IF args = <<>> THEN None ELSE parse_gravity(args))
      [] code = "rot" -> Sets("rotate", parse_rotate_angle(args[1]))
      [] code = "fl" -> fl(args)
      [] code = "t" -> SetsSome("trim", parse_trim(args))
      [] code = "ex" -> SetsSome("extend", parse_bool(args[1]))
      [] code = "pd" -> SetsSome("padding", parse_padding(args))
      [] code = "z" -> LET zoom == parse_zoom(args)
                       IN  IF zoom = None THEN Refused
                           ELSE Sets("zoom_x", Some(zoom[1].zoom_x))
                                    @@ Sets("zoom_y", Some(zoom[1].zoom_y))
      [] code = "dpr" -> Sets("dpr", parse_positive_nonzero_float(args[1]))
      [] code = "mw" -> Sets("min_width", parse_dimension(args[1]))
      [] code = "mh" -> Sets("min_height", parse_dimension(args[1]))
      [] code = "wm" -> parse_watermark(args)
      [] code = "wmu" -> wmu(args)
      [] code = "wms" -> wms(args)
      [] code = "wmr" -> Sets("watermark_rotate", parse_float(args[1]))
      [] code = "wmsh" -> SetsSome("watermark_shadow", parse_float(args[1]))

\* The code of a segment, and its arguments.
Code(segment) == segment[1]
Args(segment) == Tail(segment)

looks_like_option(segment) == Len(segment) > 1

\* Fault: a crop takes the gravity known when its segment is read.
ApplySegmentEager(opts, segment) ==
    LET set == AllParsed(Assignment(Code(segment), Args(segment)))
        eager(v) == IF v # None /\ v[1].gravity = None
                    THEN Some([v[1] EXCEPT !.gravity = Some(opts.gravity)]) ELSE v
    IN  IF Code(segment) \notin KnownOptions \/ set = None THEN None
        ELSE Some([f \in OptionFields |->
                      IF f \notin DOMAIN set[1] THEN opts[f]
                      ELSE IF f = "crop_raw" THEN eager(set[1][f]) ELSE set[1][f]])

\* One turn of parse's loop: the options after the segment, None when it is
\* refused.
ApplySegment(opts, segment) ==
    LET set == AllParsed(Assignment(Code(segment), Args(segment)))
    IN  IF Code(segment) \notin KnownOptions \/ set = None THEN None
        ELSE Some([f \in OptionFields |-> IF f \in DOMAIN set[1] THEN set[1][f] ELSE opts[f]])

\* After the loop: a crop that names no gravity takes the request's.
ResolveCrop(opts) ==
    IF opts.crop_raw = None THEN opts
    ELSE [opts EXCEPT !.crop = Some([opts.crop_raw[1] EXCEPT !.gravity =
              UnwrapOr(@, opts.gravity)])]

-----------------------------------------------------------------------------
(* The query. *)

\* The options a query takes over as they are; the others describe its crop and
\* its watermark.
QueryFields ==
    OptionFields \ {"crop_raw", "watermark_opacity", "watermark_position",
                    "watermark_x_offset", "watermark_y_offset", "watermark_scale",
                    "watermark_url", "watermark_size", "watermark_rotate",
                    "watermark_shadow"}

\* wm: alone asks for a watermark; the other watermark options only describe it.
Watermark(opts) ==
    IF opts.watermark_opacity = None THEN None
    ELSE Some([opacity |-> opts.watermark_opacity[1],
               position |-> opts.watermark_position,
               x_offset |-> opts.watermark_x_offset,
               y_offset |-> opts.watermark_y_offset,
               scale |-> opts.watermark_scale, url |-> opts.watermark_url,
               size |-> opts.watermark_size, rotate |-> opts.watermark_rotate,
               shadow |-> opts.watermark_shadow])

\* ParsedRequest::into_resize_query
into_resize_query(opts, source) ==
    [url |-> source.url, format |-> source.format, watermark |-> Watermark(opts)]
        @@ [f \in QueryFields |->
              CASE f \in {"enlarge", "extend"} -> UnwrapOr(opts[f], FALSE)
                [] f \in {"autorotate", "strip_metadata"} -> UnwrapOr(opts[f], TRUE)
                [] OTHER -> opts[f]]
=============================================================================
