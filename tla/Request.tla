------------------------------- MODULE Request -------------------------------
(***************************************************************************)
(* The resize endpoint (modules/api): the service is built from its        *)
(* environment, then answers signed URLs one after the other: split,       *)
(* verify, expand presets, read the options one segment at a time, read    *)
(* the source, negotiate the format, and redirect to the rendering stored  *)
(* under the query's key, rendering it first if it is not there.           *)
(*                                                                         *)
(* What happens inside ResizeService::resize (joining a flight, storing,   *)
(* failing) is SingleFlight's; here it is one step.  The store outlives    *)
(* the process, the environment may change between two of them.            *)
(***************************************************************************)
EXTENDS CacheKey

CONSTANTS
    Environments,   \* the environments the process may be started in
    Requests,       \* [path, accept, signer] records that clients send
    SourceText,     \* a path's source segments -> <<what precedes the last dot, extension>>
    PercentText,    \* text -> its percent-decoding
    HexText,        \* text -> the bytes its hex digits spell
    Fetchable,      \* the URLs the image service can fetch an image from
    MaxRequests,    \* bound on the requests of a behaviour
    MaxStarts       \* bound on the processes of a behaviour

VARIABLES
    environment,    \* what the current process was started with
    starts,         \* processes started so far
    service,        \* "down", "refused" (it would not start) or "ready"
    registry,       \* the presets, by name
    phase,          \* where the current request is; "idle" between requests
    request,        \* the current request
    expanded,       \* its option segments, presets expanded
    cursor,         \* the segments of expanded already read
    opts,           \* ProcessingOptions so far
    query,          \* the ResizeQuery, once known
    store,          \* key -> what is stored under it
    handled,        \* requests answered
    status,         \* the last answer's status
    answers         \* the redirects given, in order

vars == <<environment, starts, service, registry, phase, request, expanded, cursor, opts,
          query, store, handled, status, answers>>

given == <<handled, status, answers>>
work == <<request, expanded, cursor, opts, query>>

NoRequest == [path |-> <<>>, accept |-> <<>>, signer |-> <<"junk">>]
NoQuery == into_resize_query(DefaultOptions, [url |-> "", format |-> "jpg"])

\* A segment is what stands between two slashes, split at its colons.
Segments == Seq(STRING) \ {<<>>}

\* "None" is no URL: it has no scheme to fetch it with.
ASSUME RequestAssumption ==
    /\ MaxRequests \in Nat
    /\ MaxStarts \in Nat \ {0}
    /\ \A r \in Requests : r.path \in Seq(Segments)
    /\ \A e \in Environments :
          e.presets \in Seq([text : STRING, name : STRING, options : Seq(Segments)])
    /\ "None" \notin Fetchable

-----------------------------------------------------------------------------
(* Start-up. *)

\* decode_hex_env: unset or blank is no bytes; None when it is not hex.
decode_hex_env(raw) ==
    CASE raw = "" -> Some(<<>>)
      [] raw \in DOMAIN HexText -> Some(HexText[raw])
      [] OTHER -> None

\* SigningConfig::enabled and from_env.
SigningEnabled(e) ==
    \A raw \in {e.signing_key, e.signing_salt} : decode_hex_env(raw) \notin {None, Some(<<>>)}

SigningAccepted(e) ==
    /\ \A raw \in {e.signing_key, e.signing_salt} : decode_hex_env(raw) # None
    /\ SigningEnabled(e) \/ e.allow_unsigned

\* The entries of PRESETS that are not blank.
PresetEntries(e) == {i \in 1..Len(e.presets) : e.presets[i].text # "blank"}

\* Fault: a preset may name another one.
PresetsAcceptedNested(e) ==
    /\ \A i \in PresetEntries(e) :
          e.presets[i].text = "name=options" /\ e.presets[i].name # "" /\ e.presets[i].options # <<>>
    /\ \A i, j \in PresetEntries(e) : e.presets[i].name = e.presets[j].name => i = j

\* PresetRegistry::parse refuses an entry without "=", without a name, without
\* options or with a pr: segment, and a name given twice.
PresetsAccepted(e) ==
    /\ \A i \in PresetEntries(e) :
          /\ e.presets[i].text = "name=options"
          /\ e.presets[i].name # ""
          /\ e.presets[i].options # <<>>
          /\ \A k \in 1..Len(e.presets[i].options) : Code(e.presets[i].options[k]) # "pr"
    /\ \A i, j \in PresetEntries(e) : e.presets[i].name = e.presets[j].name => i = j

PresetMap(e) ==
    [name \in {e.presets[i].name : i \in PresetEntries(e)} |->
        e.presets[CHOOSE i \in PresetEntries(e) : e.presets[i].name = name].options]

\* ApiService::create, up to what this module models.
Create ==
    /\ service = "down"
    /\ IF SigningAccepted(environment) /\ PresetsAccepted(environment)
       THEN service' = "ready" /\ registry' = PresetMap(environment)
       ELSE service' = "refused" /\ UNCHANGED registry
    /\ UNCHANGED <<environment, starts, phase, work, store, given>>

\* A deployment: a new process, maybe with another environment, on the same
\* store.
Redeploy ==
    /\ service # "down"
    /\ phase = "idle"
    /\ starts < MaxStarts
    /\ environment' \in Environments
    /\ starts' = starts + 1
    /\ service' = "down"
    /\ registry' = <<>>
    /\ UNCHANGED <<phase, work, store, given>>

-----------------------------------------------------------------------------
(* Signatures. *)

\* compute_signature; HMAC is injective in what it is computed from.
compute_signature(key, salt, path) == <<"hmac", key, salt, path>>

\* The first path segment of a request made by `signer`: the word unsigned,
\* text that is no signature, or sign()'s output.
SignatureSegment(r) ==
    IF r.signer[1] = "key" THEN compute_signature(r.signer[2], r.signer[3], r.path)
    ELSE r.signer

verify_signature(e, r) ==
    SignatureSegment(r) =
        compute_signature(decode_hex_env(e.signing_key)[1], decode_hex_env(e.signing_salt)[1], r.path)

\* Fault: with no key configured anything is let through.
VerifyOpen(e, r) ==
    IF SignatureSegment(r) = <<"unsigned">> THEN e.allow_unsigned
    ELSE ~SigningEnabled(e) \/ verify_signature(e, r)

verify_or_reject(e, r) ==
    IF SignatureSegment(r) = <<"unsigned">> THEN e.allow_unsigned
    ELSE SigningEnabled(e) /\ verify_signature(e, r)

-----------------------------------------------------------------------------
(* The path. *)

\* Where the source starts: at "plain", or at the first segment that is not an
\* option.
SourceIndex(path) ==
    LET starts_source(i) == path[i] = <<"plain">> \/ ~looks_like_option(path[i])
        ends == {i \in 1..Len(path) : starts_source(i)}
    IN  IF ends = {} THEN Len(path) + 1 ELSE CHOOSE i \in ends : \A j \in ends : i <= j

OptionSegments(path) == SubSeq(path, 1, SourceIndex(path) - 1)
SourceSegments(path) == SubSeq(path, SourceIndex(path), Len(path))

\* AllowedOptions::is_allowed: a blank list allows everything.
is_allowed(e, code) == e.allowed = {} \/ code \in e.allowed

\* What one segment of the request expands to.
Expansion(segment) ==
    IF Code(segment) = "pr"
    THEN [i \in 1..Len(Args(segment)) |-> registry[Args(segment)[i]]]
    ELSE <<<<segment>>>>

Concat(seqs) ==
    LET join[i \in 0..Len(seqs)] == IF i = 0 THEN <<>> ELSE join[i - 1] \o seqs[i]
    IN  join[Len(seqs)]

DefaultSegments == IF "default" \in DOMAIN registry THEN registry["default"] ELSE <<>>

\* Fault: the default preset is applied after the request's options.
ExpandedDefaultLast(segments) ==
    Concat([i \in 1..Len(segments) |-> Concat(Expansion(segments[i]))]) \o DefaultSegments

\* The default preset first, then the request's own segments.
Expanded(segments) ==
    DefaultSegments \o Concat([i \in 1..Len(segments) |-> Concat(Expansion(segments[i]))])

PresetsKnown(segments) ==
    \A i \in 1..Len(segments) :
        Code(segments[i]) = "pr" =>
            \A k \in 1..Len(Args(segments[i])) : Args(segments[i])[k] \in DOMAIN registry

\* Fault: a second spelling becomes a second format.
ParseImageFormatVerbatim(ext) == ext

\* ImageFormat::from_str.
ParseImageFormat(ext) == IF ext = "jpeg" THEN "jpg" ELSE ext

KnownExtensions == {"jpg", "jpeg", "png", "webp", "avif", "gif", "auto"}

\* parse_source: the SourceSpec, None when the source is refused.
parse_source(segments) ==
    LET plain == segments # <<>> /\ segments[1] = <<"plain">>
        rest == IF plain THEN Tail(segments) ELSE segments
        decoding == IF plain THEN PercentText ELSE Base64Text
        split == SourceText[rest]
    IN  IF \/ rest = <<>>
           \/ ~plain /\ Len(rest) > 1
           \/ rest \notin DOMAIN SourceText
           \/ split[2] \notin KnownExtensions
           \/ split[1] \notin DOMAIN decoding
           \/ decoding[split[1]] = ""
        THEN None
        ELSE Some([url |-> decoding[split[1]], format |-> ParseImageFormat(split[2])])

-----------------------------------------------------------------------------
(* Format negotiation.  An Accept header is a sequence of <<media type, text  *)
(* of its q parameter>> pairs, "" when it has none.                           *)

parse_accept(accept) ==
    {<<accept[i][1], UnwrapOr(parse_float(accept[i][2]), One)>> :
        i \in {j \in 1..Len(accept) : accept[j][1] # ""}}

\* best_q: the highest q of an entry that covers the type, 0 if there is none;
\* f32::max leaves NaN out where it can.
best_q(entries, media) ==
    LET qs == {entry[2] : entry \in {x \in entries : x[1] \in {media, "image/*", "*/*"}}}
        numbers == qs \ {NaN}
    IN  IF qs = {} THEN 0
        ELSE IF numbers = {} THEN NaN
        ELSE CHOOSE q \in numbers : \A p \in numbers : p <= q

\* negotiation::resolve of .auto.
ResolveAuto(accept) ==
    LET entries == parse_accept(accept)
        avif_q == best_q(entries, "image/avif")
        webp_q == best_q(entries, "image/webp")
    IN  IF FloatLess(0, avif_q) /\ webp_q # NaN /\ avif_q >= webp_q THEN "avif"
        ELSE IF FloatLess(0, webp_q) THEN "webp"
        ELSE "jpg"

-----------------------------------------------------------------------------
(* The handler. *)

Init ==
    /\ environment \in Environments
    /\ starts = 1
    /\ service = "down"
    /\ registry = <<>>
    /\ phase = "idle"
    /\ request = NoRequest
    /\ expanded = <<>>
    /\ cursor = 0
    /\ opts = DefaultOptions
    /\ query = NoQuery
    /\ store = <<>>
    /\ handled = 0
    /\ status = "none"
    /\ answers = <<>>

\* The current request is answered and the work on it forgotten.
Answer(code) ==
    /\ handled' = handled + 1
    /\ status' = code
    /\ phase' = "idle"
    /\ request' = NoRequest
    /\ expanded' = <<>>
    /\ cursor' = 0
    /\ opts' = DefaultOptions
    /\ query' = NoQuery

Refuse(code) == Answer(code) /\ UNCHANGED <<store, answers>>

Advance(next) == phase' = next /\ UNCHANGED <<store, given>>

Receive(r) ==
    /\ service = "ready"
    /\ phase = "idle"
    /\ handled < MaxRequests
    /\ request' = r
    /\ Advance("split")
    /\ UNCHANGED <<expanded, cursor, opts, query>>

\* url::split: there must be something after the signature.
Split ==
    /\ phase = "split"
    /\ IF request.path = <<>>
       THEN Refuse("malformed")
       ELSE Advance("verify") /\ UNCHANGED work

Verify ==
    /\ phase = "verify"
    /\ IF verify_or_reject(environment, request)
       THEN Advance("expand") /\ UNCHANGED work
       ELSE Refuse("forbidden")

\* parse_with_config up to the options: the allow-list is asked about the
\* request's own segments only.
Expand ==
    /\ phase = "expand"
    /\ LET segments == OptionSegments(request.path)
       IN  IF /\ \A i \in 1..Len(segments) : is_allowed(environment, Code(segments[i]))
              /\ PresetsKnown(segments)
           THEN /\ expanded' = Expanded(segments)
                /\ Advance("options")
                /\ UNCHANGED <<request, cursor, opts, query>>
           ELSE Refuse("bad_request")

\* One turn of ProcessingOptions::parse's loop.
ParseSegment ==
    /\ phase = "options"
    /\ cursor < Len(expanded)
    /\ LET read == ApplySegment(opts, expanded[cursor + 1])
       IN  IF read = None
           THEN Refuse("bad_request")
           ELSE /\ opts' = read[1]
                /\ cursor' = cursor + 1
                /\ Advance("options")
                /\ UNCHANGED <<request, expanded, query>>

\* The loop is over: the crop is resolved, the source read, the query built.
ParseSource ==
    /\ phase = "options"
    /\ cursor = Len(expanded)
    /\ LET source == parse_source(SourceSegments(request.path))
       IN  IF source = None
           THEN Refuse("bad_request")
           ELSE /\ query' = into_resize_query(ResolveCrop(opts), source[1])
                /\ opts' = ResolveCrop(opts)
                /\ Advance("negotiate")
                /\ UNCHANGED <<request, expanded, cursor>>

\* Fault: the answer does not say that it depends on Accept.
NegotiatedSilently(asked) == FALSE

\* Whether the answer depends on Accept.
Negotiated(asked) == asked.format = "auto"

\* The format that was asked for is kept in phase, for Vary.
Negotiate ==
    /\ phase = "negotiate"
    /\ query' = IF query.format = "auto"
                THEN [query EXCEPT !.format = ResolveAuto(request.accept)]
                ELSE query
    /\ Advance(IF Negotiated(query) THEN "resize_negotiated" ELSE "resize")
    /\ UNCHANGED <<request, expanded, cursor, opts>>

Renderable(q, e) ==
    /\ q.url \in Fetchable
    /\ q.watermark # None => WatermarkSource(q, e) # None /\ WatermarkSource(q, e)[1] \in Fetchable

\* redirect_response: a location no header can carry is an internal error.
Redirect(key) ==
    IF environment.cdn_base_url_valid
    THEN /\ Answer("moved")
         /\ answers' = Append(answers,
                [key |-> key, vary |-> phase = "resize_negotiated", path |-> request.path,
                 accept |-> request.accept, query |-> query, process |-> starts])
    ELSE Answer("error") /\ UNCHANGED answers

\* ResizeService::resize found the rendering in storage.
ServeStored ==
    /\ phase \in {"resize", "resize_negotiated"}
    /\ generate_key(query) \in DOMAIN store
    /\ Redirect(generate_key(query))
    /\ UNCHANGED store

\* It rendered and stored it.
ServeRendered ==
    /\ phase \in {"resize", "resize_negotiated"}
    /\ generate_key(query) \notin DOMAIN store
    /\ Renderable(query, environment)
    /\ store' = generate_key(query)
                    :> [rendering |-> Rendering(query, environment), process |-> starts,
                        made_in |-> environment, asked_with |-> SignatureSegment(request)]
                @@ store
    /\ Redirect(generate_key(query))

\* It failed.
ServeFailed ==
    /\ phase \in {"resize", "resize_negotiated"}
    /\ generate_key(query) \notin DOMAIN store
    /\ Refuse("error")

Serve == ServeStored \/ ServeRendered \/ ServeFailed

Handle ==
    /\ \/ \E r \in Requests : Receive(r)
       \/ Split \/ Verify \/ Expand \/ ParseSegment \/ ParseSource \/ Negotiate \/ Serve
    /\ UNCHANGED <<environment, starts, service, registry>>

\* The process would not start, or the bound on requests is reached.
Done ==
    /\ phase = "idle"
    /\ service = "refused" \/ handled = MaxRequests
    /\ UNCHANGED vars

Next == Create \/ Redeploy \/ Handle \/ Done

Spec == Init /\ [][Next]_vars

-----------------------------------------------------------------------------
(* Properties. *)

Moved == 1..Len(answers)

TypeOK ==
    /\ environment \in Environments
    /\ starts \in 1..MaxStarts
    /\ service \in {"down", "refused", "ready"}
    /\ phase \in {"idle", "split", "verify", "expand", "options", "negotiate", "resize",
                  "resize_negotiated"}
    /\ request \in Requests \cup {NoRequest}
    /\ cursor \in 0..Len(expanded)
    /\ DOMAIN opts = OptionFields
    /\ DOMAIN query = DOMAIN NoQuery
    /\ query.format \in {"jpg", "png", "webp", "avif", "gif", "auto"}
    /\ handled \in 0..MaxRequests

\* A redirect leads to what was asked for (CacheService::generate_key): the
\* object under its key was rendered with every setting the request's own
\* rendering would have had in the process that made it, whichever request
\* came first.  A request that could not be rendered at all may still be
\* answered from the store (a watermark URL spelled "None" keys like none).
ServedAsAsked ==
    \A i \in Moved :
        LET stored == store[answers[i].key]
        IN  Renderable(answers[i].query, stored.made_in)
            => stored.rendering = Rendering(answers[i].query, stored.made_in)

\* The 301 is "public, immutable" for a year (redirect_response), so a shared
\* cache answers the next request for the same path with it, looking at Accept
\* only if Vary says so: within one process that next request would have been
\* redirected to the same place.
SharedCacheSafe ==
    \A i, j \in Moved :
        /\ answers[i].path = answers[j].path
        /\ answers[i].process = answers[j].process
        /\ answers[i].vary => answers[i].accept = answers[j].accept
        => answers[i].key = answers[j].key

\* Options are an unordered set (parse's two-step crop): two requests whose
\* options differ in order only, no option and no preset twice, share one key.
OptionOrderIrrelevant ==
    LET options(i) == OptionSegments(answers[i].path)
        segments(i) == {options(i)[k] : k \in 1..Len(options(i))}
        simple(i) == /\ \A k, l \in 1..Len(options(i)) :
                           Code(options(i)[k]) = Code(options(i)[l]) => k = l
                     /\ "pr" \notin {Code(s) : s \in segments(i)}
    IN  \A i, j \in Moved :
            /\ answers[i].process = answers[j].process
            /\ segments(i) = segments(j) /\ simple(i) /\ simple(j)
            /\ SourceSegments(answers[i].path) = SourceSegments(answers[j].path)
            /\ answers[i].accept = answers[j].accept
            => answers[i].key = answers[j].key

\* The request has the last word over the default preset
\* (parse_with_config puts the preset first): what a segment of the request
\* sets, and no later segment of the request sets again, is what its query
\* says.
RequestOverridesPreset ==
    phase = "options" /\ cursor = Len(expanded) =>
        LET own == OptionSegments(request.path)
            set(i) == AllParsed(Assignment(Code(own[i]), Args(own[i])))[1]
        IN  (\A i \in 1..Len(own) : Code(own[i]) # "pr") =>
            \A i \in 1..Len(own) :
                \A f \in DOMAIN set(i) :
                    \/ opts[f] = set(i)[f]
                    \/ \E j \in (i + 1)..Len(own) : f \in DOMAIN set(j)

\* Only an authentic path is ever rendered (verify_or_reject runs before
\* anything else is read): each stored object was asked for with the signature
\* of the process's own key, or unsigned where that is allowed.
OnlyAuthenticRendered ==
    \A key \in DOMAIN store :
        \/ /\ store[key].asked_with = <<"unsigned">>
           /\ store[key].made_in.allow_unsigned
        \/ /\ SigningEnabled(store[key].made_in)
           /\ store[key].asked_with[1] = "hmac"
           /\ store[key].asked_with[2] = decode_hex_env(store[key].made_in.signing_key)[1]
           /\ store[key].asked_with[3] = decode_hex_env(store[key].made_in.signing_salt)[1]

\* Types, and a complete expansion (PresetRegistry::parse refuses nesting):
\* no pr: segment is left for the option parser, which does not know it.
ExpansionComplete ==
    /\ TypeOK
    /\ \A i \in 1..Len(expanded) : Code(expanded[i]) # "pr"
=============================================================================
