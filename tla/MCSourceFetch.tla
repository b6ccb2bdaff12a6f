---------------------------- MODULE MCSourceFetch ----------------------------
(* Instances of SourceFetch for TLC. *)
EXTENDS SourceFetch, TLC

Addr(f, r) == [family |-> f, range |-> r]
Name(n) == [family |-> "name", range |-> n]
Url(s, h, p) == [scheme |-> s, host |-> h, port |-> 443, path |-> p]

MCAllowlists == {{}, {Url("https", Name("cdn"), <<"img">>)}}

MCUrls ==
    {Url("https", Name("cdn"), <<"img", "x">>), Url("https", Name("cdn"), <<"img2">>),
     Url("https", Name("other"), <<"img", "x">>), Url("ftp", Name("cdn"), <<"img", "x">>)}
    \cup {Url("https", Addr(f, "link_local"), <<"img">>) : f \in {"v4", "v6"}}
    \cup {Url("https", Addr("mapped", "private"), <<"img">>)}

MCAnswers ==
    {<<>>} \cup {<<a>> : a \in Addresses}
    \cup {<<Addr("v4", "public"), Addr("mapped", r)>> : r \in {"public", "private"}}

MCExtendsText(s, t) == s = t \/ s = "" \/ <<s, t>> = <<"img", "img2">>

\* What is_allowed_source's comment says of the path: "compared as a
\* segment-aware prefix".
SegmentPrefix(path, prefix) ==
    Len(prefix) <= Len(path) /\ SubSeq(path, 1, Len(prefix)) = prefix

\* The comment and the code disagree on URLs that the run enumerates: by the
\* code an entry admits one that it would not admit segment by segment.
ASSUME TextPrefixIsWider ==
    \E url \in Urls, entry \in UNION Allowlists :
        MatchesAllowedPrefix(url, entry) /\ ~SegmentPrefix(url.path, entry.path)

=============================================================================
