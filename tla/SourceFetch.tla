----------------------------- MODULE SourceFetch -----------------------------
(***************************************************************************)
(* One run of ImageService::download_image under its permit: the hop by    *)
(* hop guarded fetch (fetch_validated and source_guard), then the body     *)
(* streamed against the size cap.                                          *)
(*                                                                         *)
(* A URL is a record of what the guard looks at: scheme, host, port and    *)
(* path, the path as a sequence of segments.  An address is a record of    *)
(* its family and its range; a host is an address literal or a name, which *)
(* is a record of the family "name".                                       *)
(* The world answers as it likes: every DNS lookup may return any set of   *)
(* addresses, every request any status, redirect or body.                  *)
(***************************************************************************)
EXTENDS Naturals, Sequences

CONSTANTS
    Urls,              \* URLs a request or a Location header may name
    Allowlists,        \* values of ALLOWED_SOURCES, parsed; {} is "unset"
    Answers,           \* the address sequences a DNS lookup may return
    ExtendsText(_, _), \* ExtendsText(s, t): segment t starts with the text of s
    AllowLoopback, AllowLinkLocal,
    MaxRedirects, MaxImageSize,
    Chunks,            \* sizes of body chunks
    Lengths            \* Content-Length values an origin may claim

ASSUME FetchAssumption ==
    /\ AllowLoopback \in BOOLEAN /\ AllowLinkLocal \in BOOLEAN
    /\ MaxRedirects \in Nat /\ MaxImageSize \in Nat
    /\ Chunks \subseteq Nat \ {0} /\ Lengths \subseteq Nat

VARIABLES
    allowed,    \* config.allowed_sources
    pc,
    current,    \* the URL of this hop
    attempts,   \* iterations of the redirect loop begun
    bypass,     \* source_matches_allowlist, as computed for this hop
    pinned,     \* the address the client of this hop is pinned to
    requested,  \* the URL and address of every request sent, in order
    buffered,   \* bytes in the accumulation buffer
    result

vars == <<allowed, pc, current, attempts, bypass, pinned, requested, buffered, result>>

-----------------------------------------------------------------------------
(* Addresses *)

Ipv4Ranges == {"public", "loopback", "link_local", "private", "cgnat",
               "unspecified", "broadcast"}
Ipv6Ranges == {"public", "loopback", "link_local", "unique_local", "unspecified"}

\* "mapped" is the family of ::ffff:a.b.c.d.
Addresses == [family : {"v4", "mapped"}, range : Ipv4Ranges]
             \cup [family : {"v6"}, range : Ipv6Ranges]

ASSUME AnswersAssumption == Answers \subseteq Seq(Addresses)

NoAddress == [family |-> "none", range |-> "none"]

IsBlockedIpv4(range, private) ==
    \/ ~AllowLoopback /\ range = "loopback"
    \/ ~AllowLinkLocal /\ range = "link_local"
    \/ ~private /\ range \in {"private", "cgnat"}
    \/ range \in {"unspecified", "broadcast"}

IsBlockedIpv6(range, private) ==
    \/ ~AllowLoopback /\ range = "loopback"
    \/ range = "unspecified"
    \/ ~AllowLinkLocal /\ range = "link_local"
    \/ ~private /\ range = "unique_local"

\* Fault: a mapped address is not unwrapped.
IsBlockedIpWrapped(a, private) ==
    IF a.family = "v4" THEN IsBlockedIpv4(a.range, private)
                       ELSE IsBlockedIpv6(a.range, private)

\* is_blocked_ip_with_policy; a mapped address is judged by the IPv4 rules.
IsBlockedIp(a, private) ==
    IF a.family \in {"v4", "mapped"} THEN IsBlockedIpv4(a.range, private)
                                     ELSE IsBlockedIpv6(a.range, private)

-----------------------------------------------------------------------------
(* The allowlist *)

\* url.path().starts_with(prefix.path()), on the text of the paths: the entry
\* https://cdn/img admits https://cdn/img2 too, though the comment of
\* is_allowed_source calls the comparison a segment-aware prefix.
PathStartsWith(path, prefix) ==
    LET n == Len(prefix)
    IN /\ n <= Len(path)
       /\ \A i \in 1..(n - 1) : path[i] = prefix[i]
       /\ n > 0 => ExtendsText(prefix[n], path[n])

MatchesAllowedPrefix(url, prefix) ==
    /\ url.scheme = prefix.scheme
    /\ url.host = prefix.host
    /\ url.port = prefix.port
    /\ PathStartsWith(url.path, prefix.path)

IsAllowedSource(url) == \E p \in allowed : MatchesAllowedPrefix(url, p)

-----------------------------------------------------------------------------

States == {"start", "guard", "resolve", "connect", "body", "done"}
Results == {"none", "ok", "rejected", "upstream"}

TypeOK ==
    /\ allowed \in Allowlists
    /\ pc \in States
    /\ current \in Urls
    /\ attempts \in 0..(MaxRedirects + 1)
    /\ bypass \in BOOLEAN
    /\ pinned \in Addresses \cup {NoAddress}
    /\ requested \in Seq([url : Urls, to : Addresses])
    /\ buffered \in Nat
    /\ result \in Results

Init ==
    /\ allowed \in Allowlists
    /\ pc = "start"
    /\ current \in Urls
    /\ attempts = 0
    /\ bypass = FALSE
    /\ pinned = NoAddress
    /\ requested = <<>>
    /\ buffered = 0
    /\ result = "none"

Return(r) ==
    /\ pc' = "done"
    /\ result' = r

-----------------------------------------------------------------------------
(* fetch_validated *)

\* Fault: one redirect too many.
NextHopTooMany ==
    /\ pc = "start"
    /\ attempts <= MaxRedirects + 1
    /\ attempts' = attempts + 1
    /\ pc' = "guard"
    /\ UNCHANGED <<allowed, current, bypass, pinned, requested, buffered, result>>

\* The head of the loop: one more hop, or "Too many redirects".
NextHop ==
    /\ pc = "start"
    /\ \/ /\ attempts <= MaxRedirects
          /\ attempts' = attempts + 1
          /\ pc' = "guard"
          /\ UNCHANGED result
       \/ /\ attempts > MaxRedirects
          /\ Return("upstream")
          /\ UNCHANGED attempts
    /\ UNCHANGED <<allowed, current, bypass, pinned, requested, buffered>>

\* validate_scheme and the allowlist.  The bypass of the private ranges is
\* decided afresh for each hop.
Guard ==
    /\ pc = "guard"
    /\ IF current.scheme \notin {"http", "https"}
       THEN Return("rejected") /\ UNCHANGED bypass
       ELSE IF allowed # {} /\ ~IsAllowedSource(current)
       THEN Return("rejected") /\ UNCHANGED bypass
       ELSE pc' = "resolve" /\ bypass' = (allowed # {}) /\ UNCHANGED result
    /\ UNCHANGED <<allowed, current, attempts, pinned, requested, buffered>>

Pin(a) ==
    /\ pinned' = a
    /\ pc' = "connect"
    /\ UNCHANGED result

\* resolve_validated_addr of a literal.
ResolveLiteral ==
    /\ pc = "resolve"
    /\ current.host \in Addresses
    /\ IF IsBlockedIp(current.host, bypass) THEN Return("rejected") /\ UNCHANGED pinned
                                            ELSE Pin(current.host)
    /\ UNCHANGED <<allowed, current, attempts, bypass, requested, buffered>>

\* Of a name: one lookup, all of whose addresses must pass.
ResolveName ==
    /\ pc = "resolve"
    /\ current.host \notin Addresses
    /\ \E addrs \in Answers :
          IF addrs = <<>> \/ \E i \in DOMAIN addrs : IsBlockedIp(addrs[i], bypass)
          THEN Return("rejected") /\ UNCHANGED pinned
          ELSE Pin(addrs[1])
    /\ UNCHANGED <<allowed, current, attempts, bypass, requested, buffered>>

ResolveFails ==
    /\ pc = "resolve"
    /\ current.host \notin Addresses
    /\ Return("upstream")
    /\ UNCHANGED <<allowed, current, attempts, bypass, pinned, requested, buffered>>

\* The GET of this hop, to the pinned address.
Send == requested' = Append(requested, [url |-> current, to |-> pinned])

\* Fault: redirects are followed inside the hop, uncounted.
SendRedirectedUncounted ==
    /\ pc = "connect"
    /\ Send
    /\ current' \in Urls
    /\ pc' = "guard"
    /\ UNCHANGED <<allowed, attempts, bypass, pinned, buffered, result>>

\* It is answered with a redirect: the loop goes round with its target.
SendRedirected ==
    /\ pc = "connect"
    /\ Send
    /\ current' \in Urls
    /\ pc' = "start"
    /\ UNCHANGED <<allowed, attempts, bypass, pinned, buffered, result>>

\* It fails, or the redirect has no usable Location.
SendFails ==
    /\ pc = "connect"
    /\ Send
    /\ Return("upstream")
    /\ UNCHANGED <<allowed, current, attempts, bypass, pinned, buffered>>

-----------------------------------------------------------------------------
(* download_image, with the response in hand *)

\* Any other status ends the loop.  Not a success, or a claimed length over
\* the cap, is an error before any byte of the body is read.
SendAnswered ==
    /\ pc = "connect"
    /\ Send
    /\ \/ Return("upstream")
       \/ \E n \in Lengths :
             IF n > MaxImageSize THEN Return("upstream")
                                 ELSE pc' = "body" /\ UNCHANGED result
    /\ UNCHANGED <<allowed, current, attempts, bypass, pinned, buffered>>

\* Fault: the chunk is appended before the total is checked.
ReadChunkFirst ==
    /\ pc = "body"
    /\ \E n \in Chunks :
          /\ buffered' = buffered + n
          /\ IF buffered' > MaxImageSize THEN Return("upstream")
                                         ELSE UNCHANGED <<pc, result>>
    /\ UNCHANGED <<allowed, current, attempts, bypass, pinned, requested>>

\* The next chunk: kept, or the one that takes the total over the cap.
ReadChunk ==
    /\ pc = "body"
    /\ \E n \in Chunks :
          IF buffered + n > MaxImageSize
          THEN Return("upstream") /\ UNCHANGED buffered
          ELSE buffered' = buffered + n /\ UNCHANGED <<pc, result>>
    /\ UNCHANGED <<allowed, current, attempts, bypass, pinned, requested>>

\* The body ends, or breaks off.
EndBody ==
    /\ pc = "body"
    /\ Return("ok") \/ Return("upstream")
    /\ UNCHANGED <<allowed, current, attempts, bypass, pinned, requested, buffered>>

-----------------------------------------------------------------------------

Next ==
    \/ NextHop \/ Guard
    \/ ResolveLiteral \/ ResolveName \/ ResolveFails
    \/ SendRedirected \/ SendFails \/ SendAnswered
    \/ ReadChunk \/ EndBody

Spec == Init /\ [][Next]_vars

-----------------------------------------------------------------------------
(* Properties *)

\* Where a request for `url` may go, by the meaning of the ranges alone: an
\* allowlist entry of its own opens the private ranges, never loopback or
\* link-local, which have their own switches.
MayReach(url, a) ==
    CASE a.range = "public"     -> TRUE
      [] a.range = "loopback"   -> AllowLoopback
      [] a.range = "link_local" -> AllowLinkLocal
      [] a.range \in {"private", "cgnat", "unique_local"} -> IsAllowedSource(url)
      [] OTHER -> FALSE

ValidRequest(req) ==
    /\ req.url.scheme \in {"http", "https"}
    /\ allowed # {} => IsAllowedSource(req.url)
    /\ MayReach(req.url, req.to)

\* On every hop, redirect targets included, and in whatever way the address
\* is written, a request is only sent to an address that was checked for that
\* very URL: http(s), on the allowlist if there is one, in a permitted range.
\* "On the allowlist" is what matches_allowed_prefix makes of it, so the path is
\* a prefix as text and not by segments (MCSourceFetch!TextPrefixIsWider).
EveryHopValidated == \A i \in DOMAIN requested : ValidRequest(requested[i])

\* max_redirects redirects are max_redirects + 1 requests, and no more.
RedirectsBounded == Len(requested) <= MaxRedirects + 1

\* What makes EveryHopValidated inductive: what the loop knows of this hop.
HopChecked ==
    /\ pc \in {"resolve", "connect"} =>
           /\ current.scheme \in {"http", "https"}
           /\ allowed # {} => IsAllowedSource(current)
           /\ bypass => IsAllowedSource(current)
    /\ pc = "connect" => pinned \in Addresses /\ MayReach(current, pinned)

\* Whatever length an origin claims or leaves out, no more than the cap is
\* ever held in memory.
BufferBounded == buffered <= MaxImageSize

\* The limits of download_image and fetch_validated hold: types, the number of
\* requests and the size of the buffer.
FetchInv == TypeOK /\ RedirectsBounded /\ BufferBounded

=============================================================================
