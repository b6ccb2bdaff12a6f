----------------------------- MODULE MCRequest -----------------------------
(***************************************************************************)
(* Instances of Request: every option with its accepted, boundary and      *)
(* refused forms, two requests per behaviour, one redeployment.            *)
(***************************************************************************)
EXTENDS Request

MCIntegerText ==
    [t \in {"0", "1", "50", "80", "90", "100", "101", "255", "256", "300", "-90", "45"} |->
        CASE t = "0" -> 0 [] t = "1" -> 1 [] t = "50" -> 50 [] t = "80" -> 80
          [] t = "90" -> 90 [] t = "100" -> 100 [] t = "101" -> 101 [] t = "255" -> 255
          [] t = "256" -> 256 [] t = "300" -> 300 [] t = "-90" -> -90 [] t = "45" -> 45]

MCDecimalText ==
    [t \in {"0", "0.3", "0.5", "0.8", "1", "2", "100", "-1", "NaN", "inf"} |->
        CASE t = "0" -> 0 [] t = "0.3" -> 30 [] t = "0.5" -> 50 [] t = "0.8" -> 80
          [] t = "1" -> One [] t = "2" -> 200 [] t = "100" -> 10000 [] t = "-1" -> -100
          [] t = "NaN" -> NaN [] t = "inf" -> Infinity]

MCHexColorText == "fff" :> <<255, 255, 255>> @@ "ff0000" :> <<255, 0, 0>>

\* eA.. is the source, bA.. a watermark; Tm9uZQ spells "None".
MCBase64Text == "eA" :> "x" @@ "bA" :> "logo" @@ "Tm9uZQ" :> "None" @@ "" :> ""

MCPercentText == "http%3A//x" :> "x" @@ "" :> ""

MCHexText == "aa" :> <<170>> @@ "bb" :> <<187>> @@ "cc" :> <<204>>

Base64Source(base, ext, text) == <<<<text>>>> :> <<base, ext>>

MCSourceText ==
    Base64Source("eA", "jpg", "eA.jpg") @@ Base64Source("eA", "jpeg", "eA.jpeg")
        @@ Base64Source("eA", "webp", "eA.webp") @@ Base64Source("eA", "auto", "eA.auto")
        @@ Base64Source("eA", "bmp", "eA.bmp") @@ Base64Source("!", "jpg", "!.jpg")
        @@ Base64Source("", "jpg", ".jpg") @@ Base64Source("http%3A//x", "jpg", "http%3A//x.jpg")

MCFetchable == {"x", "logo", "house_logo"}

-----------------------------------------------------------------------------

Preset(name, options) == [text |-> "name=options", name |-> name, options |-> options]

Plain ==
    [signing_key |-> "aa", signing_salt |-> "bb", allow_unsigned |-> FALSE, presets |-> <<>>,
     allowed |-> {}, jpeg_progressive_default |-> FALSE, jpeg_no_subsampling_default |-> FALSE,
     watermark_url |-> None, cdn_base_url_valid |-> TRUE]

WithPresets ==
    [Plain EXCEPT !.allow_unsigned = TRUE,
        !.presets = <<Preset("default", <<<<"q", "80">>, <<"gr", "no">>, <<"wm", "0.5", "soea">>>>),
                      [text |-> "blank", name |-> "", options |-> <<>>],
                      Preset("thumb", <<<<"rs", "fill", "100", "100">>, <<"q", "50">>>>),
                      Preset("odd", <<<<"sharp">>>>)>>,
        !.watermark_url = Some("house_logo"), !.jpeg_progressive_default = TRUE]

Restricted == [Plain EXCEPT !.allowed = {"rs", "q", "c", "gr"}, !.cdn_base_url_valid = FALSE]

KeylessDevelopment == [Plain EXCEPT !.signing_key = "", !.allow_unsigned = TRUE]

RefusedAtStart ==
    {[Plain EXCEPT !.signing_key = ""], [Plain EXCEPT !.signing_salt = "zz"],
     [Plain EXCEPT !.presets = <<Preset("thumb", <<<<"pr", "b">>>>), Preset("b", <<<<"q", "1">>>>)>>],
     [Plain EXCEPT !.presets = <<Preset("a", <<<<"q", "1">>>>), Preset("a", <<<<"q", "80">>>>)>>],
     [Plain EXCEPT !.presets = <<Preset("a", <<>>)>>],
     [Plain EXCEPT !.presets = <<Preset("", <<<<"q", "1">>>>)>>],
     [Plain EXCEPT !.presets = <<[text |-> "no =", name |-> "a", options |-> <<>>]>>]}

MCEnvironments == {Plain, WithPresets, Restricted, KeylessDevelopment} \cup RefusedAtStart

-----------------------------------------------------------------------------

\* Options that are accepted; several only differ in how they are spelled.
Accepted ==
    {<<"rs", "", "100", "0">>, <<"rs", "fit", "100", "0">>, <<"q", "80">>,
     <<"fq", "jpg", "50", "jpeg", "80">>, <<"fq", "webp", "50">>, <<"webpo", "lossless">>,
     <<"jpgo", "", "1">>, <<"jpgo", "0">>, <<"mb", "100">>, <<"mb", "0">>, <<"bl", "-1">>,
     <<"bl", "NaN">>, <<"bl", "2">>, <<"g", "true">>, <<"g", "0">>, <<"el", "1">>,
     <<"bg", "fff">>, <<"bg", "255", "0", "0">>, <<"ar", "0">>, <<"sm", "0">>,
     <<"c", "0", "0.5">>, <<"c", "100", "0", "fp", "0.5", "1">>, <<"gr", "soea">>,
     <<"gr", "ce">>, <<"rot", "-90">>, <<"fl", "", "1">>, <<"t", "NaN", "", "1">>,
     <<"t", "0", "ff0000">>, <<"ex", "1">>, <<"pd", "0", "1">>, <<"z", "inf">>,
     <<"z", "1", "2">>, <<"dpr", "2">>, <<"mw", "100">>, <<"mh", "100">>, <<"wm", "0.5">>,
     <<"wm", "0.5", "", "2", "", "1">>}

\* Options that are refused.
NotAccepted ==
    {<<"rs", "cover", "1", "1">>, <<"rs", "fit", "1">>, <<"q", "101">>, <<"fq", "png", "50">>,
     <<"fq", "jpg">>, <<"webpo", "mixed">>, <<"jpgo", "1", "1", "1">>, <<"mb", "-90">>,
     <<"bg", "256", "0", "0">>, <<"bg", "1", "1">>, <<"c", "inf", "0">>, <<"c", "1">>,
     <<"c", "1", "1", "sm">>, <<"gr", "fp", "2", "0">>, <<"rot", "45">>,
     <<"fl", "1", "1", "1">>, <<"t", "-1">>, <<"t", "">>, <<"pd", "", "1">>, <<"z", "0">>,
     <<"z", "NaN">>, <<"dpr", "-1">>, <<"wm", "0.5", "re">>, <<"wmu", "%">>, <<"sharp", "1">>}

Combined ==
    {<<<<"c", "100", "100">>, <<"gr", "no">>>>, <<<<"gr", "no">>, <<"c", "100", "100">>>>,
     <<<<"wm", "0.5">>, <<"wmu", "bA">>>>, <<<<"wm", "0.5">>, <<"wmu", "Tm9uZQ">>>>,
     <<<<"wmu", "bA">>, <<"wms", "0", "100">>, <<"wmr", "1">>, <<"wmsh", "2">>, <<"wm", "0.5">>>>,
     <<<<"pr", "thumb">>, <<"q", "100">>>>, <<<<"q", "100">>, <<"pr", "thumb">>>>,
     <<<<"pr", "gone">>>>, <<<<"pr", "odd">>>>}

Path(options, source) == options \o <<source>>

OptionPaths ==
    {Path(<<o>>, <<"eA.jpg">>) : o \in Accepted \cup NotAccepted}
        \cup {Path(os, <<"eA.jpg">>) : os \in Combined \cup {<<>>}}

SourcePaths ==
    {<<<<s>>>> : s \in {"eA.jpeg", "eA.webp", "eA.bmp", "!.jpg", ".jpg", "eA"}}
        \cup {<<<<"plain">>, <<"http%3A//x.jpg">>>>, <<<<"plain">>>>, <<<<"q", "80">>>>, <<>>,
              <<<<"eA">>, <<"x.jpg">>>>}

Accepts ==
    {<<>>, <<<<"image/avif", "0.3">>, <<"image/webp", "0.8">>>>, <<<<"*/*", "">>, <<"", "1">>>>,
     <<<<"image/avif", "1">>, <<"image/webp", "NaN">>>>, <<<<"image/webp", "">>>>}

Own == <<"key", <<170>>, <<187>>>>
Foreign == <<"key", <<170>>, <<204>>>>

Signed(path, accept) == [path |-> path, accept |-> accept, signer |-> Own]

MCRequests ==
    {Signed(path, <<>>) : path \in OptionPaths \cup SourcePaths}
        \cup {Signed(<<<<"eA.auto">>>>, accept) : accept \in Accepts}
        \cup {Signed(<<<<"eA.jpg">>>>, <<<<"*/*", "">>>>)}
        \cup {[path |-> <<<<"eA.jpg">>>>, accept |-> <<>>, signer |-> signer] :
                 signer \in {Foreign, <<"unsigned">>, <<"junk">>}}
=============================================================================
