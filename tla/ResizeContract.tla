--------------------------- MODULE ResizeContract ---------------------------
(***************************************************************************)
(* What ResizeService::resize promises its callers, with no mention of     *)
(* leaders, followers or channels: every call is answered; a call answered *)
(* with a CDN URL names an object that exists; objects only appear because *)
(* somebody asked for them, and none disappears.                           *)
(***************************************************************************)
CONSTANTS Requests, Keys

VARIABLES
    key,      \* the cache key each call is for
    answer,   \* "none" before the call, "pending" during it, then its answer
    stored    \* the keys that have an object

vars == <<key, answer, stored>>

Init ==
    /\ key \in [Requests -> Keys]
    /\ answer = [r \in Requests |-> "none"]
    /\ stored \in SUBSET Keys

Submit(r) ==
    /\ answer[r] = "none"
    /\ answer' = [answer EXCEPT ![r] = "pending"]
    /\ UNCHANGED <<key, stored>>

Materialise(k) ==
    /\ \E r \in Requests : key[r] = k /\ answer[r] # "none"
    /\ stored' = stored \cup {k}
    /\ UNCHANGED <<key, answer>>

AnswerUrl(r) ==
    /\ answer[r] = "pending"
    /\ key[r] \in stored
    /\ answer' = [answer EXCEPT ![r] = "url"]
    /\ UNCHANGED <<key, stored>>

AnswerFailure(r) ==
    /\ answer[r] = "pending"
    /\ answer' = [answer EXCEPT ![r] = "failure"]
    /\ UNCHANGED <<key, stored>>

Next ==
    \/ \E r \in Requests : Submit(r) \/ AnswerUrl(r) \/ AnswerFailure(r)
    \/ \E k \in Keys : Materialise(k)

Spec == Init /\ [][Next]_vars

\* Every call that was submitted is answered.
EveryCallAnswered ==
    \A r \in Requests : answer[r] = "pending" ~> answer[r] \in {"url", "failure"}

FairSpec == Spec /\ \A r \in Requests : WF_vars(AnswerUrl(r) \/ AnswerFailure(r))

=============================================================================
