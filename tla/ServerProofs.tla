---------------------------- MODULE ServerProofs ----------------------------
(***************************************************************************)
(* What the server process guarantees from start-up to exit, for any       *)
(* number of requests, any set of environments and any sizes.              *)
(***************************************************************************)
EXTENDS Server, FiniteSetTheorems, TLAPS

States == {"idle", "done", "cut"} \cup Waiting

\* What the bucket may hold: nothing, or one object with its expiry.
Objects == {o \in SUBSET Nat : IsSetting(o, Nat)}

RequestType == [pc : States, route : Routes \cup {"none"}, header : Bearers, status : Nat,
                about : Objects, promised : BOOLEAN]

CallType == [by : Requests, call : {"PUT", "DELETE"}, about : Objects]

Admitted == {r \in Requests : Active(r)}

SizesOK ==
    /\ config.burst \in Nat
    /\ config.drain \in Nat
    /\ config.admitted \in Nat
    /\ IsSetting(config.ttl, Nat)

TypeInv ==
    /\ phase \in {"starting", "refused", "serving", "draining", "stopped"}
    /\ env \in {Unset} \cup {Given(e) : e \in Environments}
    /\ SizesOK
    /\ object \in Objects
    /\ detached \subseteq CallType
    /\ now \in 0..MaxTime
    /\ tokens \in 0..config.burst
    /\ permits \in Nat
    /\ drain \in 0..config.drain
    /\ phase = "starting" => drain = 0
    /\ req \in [Requests -> RequestType]

-----------------------------------------------------------------------------
(* The operators of the model *)

\* A setting, or the default in its place, is one of the values.
LEMMA OrElseType ==
    ASSUME NEW S, NEW setting, IsSetting(setting, S), NEW default \in S
    PROVE  OrElse(setting, default) \in S
  BY DEF OrElse, IsSetting, Unset

\* The record of a request that has been answered.
LEMMA FinishedFields ==
    ASSUME NEW s
    PROVE  /\ Finished(s).pc = "done"
           /\ Finished(s).route = "none"
           /\ Finished(s).header = ""
           /\ Finished(s).status = s
           /\ Finished(s).about = {}
           /\ Finished(s).promised = FALSE
  BY Zenon DEF Finished, Unset

\* It is a request record.
LEMMA FinishedType ==
    ASSUME NEW s \in Nat
    PROVE  Finished(s) \in RequestType
<1>1. FALSE \in BOOLEAN
  OBVIOUS
<1>4. "" \in Bearers
  BY DEF Bearers
<1>3. Unset \in Objects
  BY DEF Unset, Objects, IsSetting
<1>2. "done" \in States /\ "none" \in Routes \cup {"none"}
  BY DEF States
<1> QED
  BY <1>1, <1>2, <1>3, <1>4, Zenon DEF Finished, RequestType

\* What a process reads from an environment has its type.
LEMMA SizesRead ==
    ASSUME NEW e \in Environments, NEW performance
    PROVE  LET c == ReadEnvironment(e, performance)
           IN  /\ c.burst \in Nat /\ c.drain \in Nat /\ c.admitted \in Nat
               /\ IsSetting(c.ttl, Nat)
               /\ c.ttl = e.cache_ttl
               /\ c.prefix = c.key_prefix
               /\ c.token = MetricsToken(e)
<1>1. IsSetting(env_positive(e.max_concurrent_requests), Nat)
  BY EnvironmentsAssumption DEF IsSetting, env_positive
<1>2. IsSetting(env_positive(e.rate_limit_burst), Nat)
  BY EnvironmentsAssumption DEF IsSetting, env_positive
<1>3. IsSetting(e.shutdown_timeout \ {0}, Nat)
  BY EnvironmentsAssumption DEF IsSetting
<1>4. DefaultAdmitted \in Nat /\ DefaultBurst \in Nat /\ DefaultDrain \in Nat
  BY ServerAssumption
<1>5. OrElse(env_positive(e.max_concurrent_requests), DefaultAdmitted) \in Nat
  BY <1>1, <1>4, OrElseType
<1>6. OrElse(env_positive(e.rate_limit_burst), DefaultBurst) \in Nat
  BY <1>2, <1>4, OrElseType
<1>7. parse_shutdown_timeout(e.shutdown_timeout, DefaultDrain) \in Nat
  BY <1>3, <1>4, OrElseType DEF parse_shutdown_timeout
<1> QED
  BY <1>5, <1>6, <1>7, EnvironmentsAssumption, Zenon DEF ReadEnvironment

-----------------------------------------------------------------------------
(* What each kind of step does to the requests *)

\* A request that moves keeps what it asked.
LEMMA MoveEffect ==
    ASSUME TypeInv, NEW r \in Requests, NEW pc \in States, NEW about \in Objects,
           \/ req' = [req EXCEPT ![r].pc = pc] /\ about = req[r].about
           \/ req' = [req EXCEPT ![r].pc = pc, ![r].about = about]
    PROVE  /\ req' \in [Requests -> RequestType]
           /\ \A q \in Requests \ {r} : req'[q] = req[q]
           /\ req'[r].pc = pc /\ req'[r].about = about
           /\ req'[r].route = req[r].route /\ req'[r].header = req[r].header
           /\ req'[r].status = req[r].status /\ (req'[r].promised => req[r].promised)
  BY DEF TypeInv, RequestType

\* A request that is answered is finished, and so are those that follow it.
LEMMA AnswerEffect ==
    ASSUME TypeInv, NEW r \in Requests, NEW s \in Nat, NEW fs \in Nat, AnswerAll(r, s, fs)
    PROVE  /\ req' \in [Requests -> RequestType]
           /\ req'[r] = Finished(s)
           /\ \A q \in Requests \ {r} :
                 IF q \in Followers(r) THEN req'[q] = Finished(fs) ELSE req'[q] = req[q]
           /\ permits' = permits + 1 + Cardinality(Followers(r))
           /\ UNCHANGED <<phase, env, config, now, tokens, drain>>
<1>1. Finished(s) \in RequestType /\ Finished(fs) \in RequestType
  BY FinishedType
<1> QED
  BY <1>1 DEF AnswerAll, TypeInv

\* A request that arrives is answered at once or admitted with what it asks.
LEMMA ArriveEffect ==
    ASSUME TypeInv, NEW r \in Requests, NEW route \in Routes, NEW header \in HeadersOf(route),
           Arrive(r, route, header)
    PROVE  /\ req[r].pc = "idle" /\ phase = "serving"
           /\ UNCHANGED <<phase, env, config, object, detached, now, drain>>
           /\ tokens' \in 0..config.burst
           /\ req' \in [Requests -> RequestType]
           /\ \A q \in Requests \ {r} : req'[q] = req[q]
           /\ \/ /\ \E s \in {429, 304, 503} : req'[r] = Finished(s)
                 /\ permits' = permits
              \/ /\ permits # 0 /\ permits' = permits - 1
                 /\ req'[r].pc = EntryOf(route) /\ req'[r].route = route
                 /\ req'[r].status = req[r].status /\ req'[r].about = req[r].about
                 /\ req'[r].promised => route = "files" /\ \E q \in Requests : req[q].status = 301
<1>1. /\ req[r].pc = "idle" /\ phase = "serving"
      /\ UNCHANGED <<phase, env, config, object, detached, now, drain>>
  BY DEF Arrive
<1>2. tokens' \in 0..config.burst
  BY DEF Arrive, TypeInv, SizesOK
<1>3. ASSUME NEW s \in Nat, req' = [req EXCEPT ![r] = Finished(s)]
      PROVE  /\ req' \in [Requests -> RequestType]
             /\ \A q \in Requests \ {r} : req'[q] = req[q]
             /\ req'[r] = Finished(s)
  BY <1>3, FinishedType DEF TypeInv
<1> DEFINE promised == route = "files" /\ \E q \in Requests : req[q].status = 301
           kept == IF route = "/metrics" THEN header ELSE ""
<1>4. kept \in Bearers
  BY DEF HeadersOf, Bearers
<1>5. promised \in BOOLEAN
  OBVIOUS
<1>6. EntryOf(route) \in States
  BY DEF EntryOf, States, Waiting
<1>7. ASSUME req' = [req EXCEPT ![r] = [[req[r] EXCEPT !.route = route, !.header = kept,
                                                      !.promised = promised]
                                            EXCEPT !.pc = EntryOf(route)]]
      PROVE  /\ req' \in [Requests -> RequestType]
             /\ \A q \in Requests \ {r} : req'[q] = req[q]
             /\ req'[r].pc = EntryOf(route) /\ req'[r].route = route
             /\ req'[r].status = req[r].status /\ req'[r].about = req[r].about
             /\ req'[r].promised => promised
  <2> HIDE DEF promised, kept
  <2> QED
    BY <1>4, <1>5, <1>6, <1>7 DEF TypeInv, RequestType
<1>8. \/ \E s \in {429, 304, 503} : req' = [req EXCEPT ![r] = Finished(s)] /\ permits' = permits
      \/ /\ req' = [req EXCEPT ![r] = [[req[r] EXCEPT !.route = route, !.header = kept,
                                                      !.promised = promised]
                                            EXCEPT !.pc = EntryOf(route)]]
         /\ permits # 0 /\ permits' = permits - 1
  <2>1. \/ req' = [req EXCEPT ![r] = Finished(429)] /\ UNCHANGED permits
        \/ req' = [req EXCEPT ![r] = Finished(304)] /\ UNCHANGED permits
        \/ req' = [req EXCEPT ![r] = Finished(503)] /\ UNCHANGED permits
        \/ /\ req' = [req EXCEPT ![r] = [[req[r] EXCEPT !.route = route, !.header = kept,
                                                         !.promised = promised]
                                               EXCEPT !.pc = EntryOf(route)]]
           /\ permits # 0 /\ permits' = permits - 1
    BY Zenon DEF Arrive
  <2> HIDE DEF kept, promised
  <2> QED
    BY <2>1
<1> HIDE DEF kept
<1>9. CASE \E s \in {429, 304, 503} : req' = [req EXCEPT ![r] = Finished(s)] /\ permits' = permits
  <2>1. PICK s \in {429, 304, 503} : req' = [req EXCEPT ![r] = Finished(s)] /\ permits' = permits
    BY <1>9
  <2>2. s \in Nat
    BY <2>1
  <2>3. /\ req' \in [Requests -> RequestType]
        /\ \A q \in Requests \ {r} : req'[q] = req[q]
        /\ req'[r] = Finished(s)
    BY <1>3, <2>1, <2>2
  <2>4. \E n \in {429, 304, 503} : req'[r] = Finished(n)
    BY <2>3
  <2> QED
    BY <1>1, <1>2, <2>1, <2>3, <2>4, Zenon
<1>10. CASE permits # 0 /\ permits' = permits - 1
            /\ req' = [req EXCEPT ![r] = [[req[r] EXCEPT !.route = route, !.header = kept,
                                                      !.promised = promised]
                                            EXCEPT !.pc = EntryOf(route)]]
  BY <1>1, <1>2, <1>7, <1>10, Zenon
<1> QED
  BY <1>8, <1>9, <1>10

\* What an upload stores is one object.
LEMMA StoredType ==
    ASSUME TypeInv
    PROVE  Stored \in Objects /\ Stored # {}
<1>1. OrElse(config.ttl, 0) \in Nat
  BY OrElseType DEF TypeInv, SizesOK
<1>2. now \in Nat /\ Forever \in Nat
  BY ServerAssumption DEF TypeInv
<1> QED
  BY <1>1, <1>2 DEF Stored, Given, IsSetting, Objects

\* A request has at most one call under way that would change the bucket: the
\* DELETE of its eviction or the PUT of its upload.
LEMMA PendingCalls ==
    ASSUME TypeInv, NEW r \in Requests, NEW c \in Pending(r)
    PROVE  /\ c \in CallType
           /\ c.about = req[r].about
           /\ \/ c.call = "DELETE" /\ req[r].pc = "evict"
              \/ c.call = "PUT" /\ req[r].pc = "put"
<1>1. req[r].about \in Objects
  BY DEF TypeInv, RequestType
<1> QED
  BY <1>1 DEF Pending, S3, CallType

\* Where a request in service may move, and what it takes along.
MoveTo(r, pc, about) ==
    /\ \/ req' = [req EXCEPT ![r].pc = pc] /\ about = req[r].about
       \/ req' = [req EXCEPT ![r].pc = pc, ![r].about = about]
    /\ UNCHANGED permits
    /\ \/ req[r].pc = "get" /\ pc = "evict"
       \/ req[r].pc = "head" /\ pc \in {"evict", "flight"}
       \/ req[r].pc = "evict" /\ pc = "flight" /\ req[r].route # "files"
       \/ req[r].pc = "flight" /\ pc \in {"follow", "work"}
       \/ req[r].pc = "work" /\ pc = "put"
    /\ pc = "evict" => about = object /\ is_expired(object)
    /\ pc = "put" => about = Stored

\* What it takes to be answered 200, 301, 403 or 404.
Reason(r, s) ==
    /\ s = 200 => \/ req[r].pc = "get"
                  \/ /\ req[r].pc = "handle"
                     /\ req[r].route = "/metrics" =>
                           config.open \/ verify_token(config.token, req[r].header)
    /\ s = 301 => \/ req[r].pc = "head" /\ object # {} /\ object' = object
                  \/ req[r].pc = "put" /\ object' = req[r].about
    /\ s = 403 => req[r].pc = "handle"
    /\ s = 404 => \/ req[r].pc = "get" /\ (object = {} \/ ~KeyAccepted(r))
                  \/ req[r].pc = "evict"

\* What r does to the bucket, or leaves on its way there.
BucketEffect(r) ==
    \/ object' = object /\ detached' \in {detached, detached \cup Pending(r)}
    \/ object' = req[r].about /\ req[r].pc = "put" /\ detached' = detached
    \/ object' = {} /\ req[r].pc = "evict" /\ detached' = detached

\* A request in service moves on, or is answered along with its followers.
ServeStep(r) ==
    /\ Active(r)
    /\ UNCHANGED <<phase, env, config, now, tokens, drain>>
    /\ \/ \E pc \in Waiting, about \in Objects : MoveTo(r, pc, about)
       \/ \E s \in Nat : AnswerAll(r, s, s) /\ Reason(r, s)
    /\ BucketEffect(r)

\* Going from one wait to the next answers nobody.
LEMMA MoveKeepsStatus ==
    ASSUME TypeInv, NEW r \in Requests, NEW pc \in Waiting, NEW about \in Objects,
           MoveTo(r, pc, about)
    PROVE  \A q \in Requests : req'[q].status = req[q].status
<1>1. req'[r].status = req[r].status /\ \A q \in Requests \ {r} : req'[q] = req[q]
  BY MoveEffect DEF MoveTo, States
<1> QED
  BY <1>1

\* Every step of an admitted request is one of the kinds ServeStep tells apart.
LEMMA EveryServeStep ==
    ASSUME TypeInv, NEW r \in Requests,
           \/ Handle(r) \/ Get(r) \/ Head(r) \/ Evict(r) \/ JoinFlight(r) \/ Work(r) \/ Put(r)
           \/ Cancel(r)
    PROVE  ServeStep(r)
<1>t. object \in Objects /\ {} \in Objects /\ req[r].about \in Objects /\ Stored \in Objects
  BY StoredType DEF TypeInv, RequestType, IsSetting, Objects
<1>d. Detach({r}) => BucketEffect(r)
  BY DEF Detach, BucketEffect
<1>a. ASSUME NEW s \in Nat, AnswerAll(r, s, s), Reason(r, s), Active(r), BucketEffect(r)
      PROVE  ServeStep(r)
  BY <1>a DEF ServeStep, AnswerAll
<1>m. ASSUME NEW pc \in Waiting, NEW about \in Objects, MoveTo(r, pc, about), Active(r),
             BucketEffect(r), UNCHANGED <<phase, env, config, now, tokens, drain>>
      PROVE  ServeStep(r)
  BY <1>m DEF ServeStep
<1>b. UNCHANGED bucket => BucketEffect(r) /\ object' = object
  BY DEF BucketEffect, bucket
<1>w. /\ \A pc \in {"handle", "get", "head", "evict", "flight", "follow", "work", "put"} :
            pc \in Waiting /\ (req[r].pc = pc => Active(r))
      /\ {200, 301, 404, 502, 503} \subseteq Nat
  BY DEF Waiting, Active
<1>1. CASE Handle(r)
  <2> DEFINE s == CASE req[r].route = "/health"  -> 200
                    [] req[r].route = "/metrics" ->
                         IF config.open \/ verify_token(config.token, req[r].header)
                         THEN 200 ELSE 401
                    [] OTHER                     -> 403
  <2>1. req[r].pc = "handle" /\ UNCHANGED bucket /\ AnswerAll(r, s, s)
    BY <1>1, Zenon DEF Handle, Answer
  <2>2. /\ s \in Nat /\ s # 301 /\ s # 404
        /\ s = 200 /\ req[r].route = "/metrics" =>
              config.open \/ verify_token(config.token, req[r].header)
    OBVIOUS
  <2> HIDE DEF s
  <2>3. Reason(r, s)
    BY <2>1, <2>2 DEF Reason
  <2> QED
    BY <2>1, <2>2, <2>3, <1>a, <1>b, <1>w
<1>2. CASE Get(r)
  <2>1. req[r].pc = "get" /\ Active(r) /\ UNCHANGED bucket
    BY <1>2, <1>w DEF Get, S3
  <2>2. \/ AnswerAll(r, 404, 404) /\ (object = {} \/ ~KeyAccepted(r))
        \/ AnswerAll(r, 502, 502)
        \/ AnswerAll(r, 200, 200)
        \/ /\ req' = [req EXCEPT ![r].pc = "evict", ![r].about = object]
           /\ UNCHANGED <<phase, env, config, now, tokens, permits, drain>>
           /\ is_expired(object)
    <3>1. /\ ClassifyDownloadError("invalid key") = 404
          /\ ClassifyDownloadError("not found") = 404
          /\ ClassifyDownloadError("failed") = 502
      BY DEF ClassifyDownloadError
    <3> QED
      BY <1>2, <3>1, Zenon DEF Get, NotDownloaded, Downloaded, Answer, Unset
  <2>3. ASSUME NEW s \in {200, 404, 502}, AnswerAll(r, s, s),
               s = 404 => object = {} \/ ~KeyAccepted(r)
        PROVE  ServeStep(r)
    <3>1. Reason(r, s)
      BY <2>1, <2>3 DEF Reason
    <3> QED
      BY <2>1, <2>3, <3>1, <1>a, <1>b, <1>w
  <2>4. CASE /\ req' = [req EXCEPT ![r].pc = "evict", ![r].about = object]
             /\ UNCHANGED <<phase, env, config, now, tokens, permits, drain>>
             /\ is_expired(object)
    <3>1. MoveTo(r, "evict", object)
      BY <2>1, <2>4 DEF MoveTo
    <3> QED
      BY <2>1, <2>4, <3>1, <1>m, <1>b, <1>w, <1>t
  <2> QED
    BY <2>2, <2>3, <2>4
<1>3. CASE Head(r)
  <2>1. req[r].pc = "head" /\ Active(r) /\ UNCHANGED bucket
    BY <1>3, <1>w DEF Head, S3
  <2>2. \/ Move(r, "flight")
        \/ AnswerAll(r, 301, 301) /\ object # {}
        \/ /\ req' = [req EXCEPT ![r].pc = "evict", ![r].about = object]
           /\ UNCHANGED <<phase, env, config, now, tokens, permits, drain>>
           /\ is_expired(object)
    BY <1>3, Zenon DEF Head, Answer, Unset
  <2>3. CASE Move(r, "flight")
    <3>1. MoveTo(r, "flight", req[r].about)
      BY <2>1, <2>3 DEF MoveTo, Move
    <3> QED
      BY <2>1, <2>3, <3>1, <1>m, <1>b, <1>w, <1>t DEF Move
  <2>4. CASE AnswerAll(r, 301, 301) /\ object # {}
    <3>1. Reason(r, 301)
      BY <2>1, <2>4, <1>b DEF Reason
    <3> QED
      BY <2>1, <2>4, <3>1, <1>a, <1>b, <1>w
  <2>5. CASE /\ req' = [req EXCEPT ![r].pc = "evict", ![r].about = object]
             /\ UNCHANGED <<phase, env, config, now, tokens, permits, drain>>
             /\ is_expired(object)
    <3>1. MoveTo(r, "evict", object)
      BY <2>1, <2>5 DEF MoveTo
    <3> QED
      BY <2>1, <2>5, <3>1, <1>m, <1>b, <1>w, <1>t
  <2> QED
    BY <2>2, <2>3, <2>4, <2>5
<1>4. CASE Evict(r)
  <2>1. req[r].pc = "evict" /\ Active(r) /\ BucketEffect(r)
    BY <1>4, <1>w, <1>d DEF Evict, S3, BucketEffect, Unset
  <2>2. \/ AnswerAll(r, 404, 404)
        \/ /\ req' = [req EXCEPT ![r].pc = "flight", ![r].about = {}]
           /\ UNCHANGED <<phase, env, config, now, tokens, permits, drain>>
           /\ req[r].route # "files"
    <3>1. ClassifyDownloadError("not found") = 404
      BY DEF ClassifyDownloadError
    <3> QED
      BY <1>4, <3>1, Zenon DEF Evict, NotDownloaded, Answer, Unset
  <2>3. CASE AnswerAll(r, 404, 404)
    <3>1. Reason(r, 404)
      BY <2>1 DEF Reason
    <3> QED
      BY <2>1, <2>3, <3>1, <1>a, <1>w
  <2>4. CASE /\ req' = [req EXCEPT ![r].pc = "flight", ![r].about = {}]
             /\ UNCHANGED <<phase, env, config, now, tokens, permits, drain>>
             /\ req[r].route # "files"
    <3>1. MoveTo(r, "flight", {})
      BY <2>1, <2>4 DEF MoveTo
    <3> QED
      BY <2>1, <2>4, <3>1, <1>m, <1>w, <1>t
  <2> QED
    BY <2>2, <2>3, <2>4
<1>5. CASE JoinFlight(r)
  <2>1. /\ req[r].pc = "flight" /\ Active(r) /\ UNCHANGED bucket
        /\ Move(r, "follow") \/ Move(r, "work")
    BY <1>5, <1>w DEF JoinFlight
  <2>2. MoveTo(r, "follow", req[r].about) \/ MoveTo(r, "work", req[r].about)
    BY <2>1 DEF MoveTo, Move
  <2> QED
    BY <2>1, <2>2, <1>m, <1>b, <1>w, <1>t DEF Move
<1>6. CASE Work(r)
  <2>1. /\ req[r].pc = "work" /\ Active(r) /\ UNCHANGED bucket
        /\ \/ /\ req' = [req EXCEPT ![r].pc = "put", ![r].about = Stored]
              /\ UNCHANGED <<phase, env, config, now, tokens, permits, drain>>
           \/ AnswerAll(r, 502, 502)
    BY <1>6, <1>w, Zenon DEF Work, Answer
  <2>2. CASE /\ req' = [req EXCEPT ![r].pc = "put", ![r].about = Stored]
             /\ UNCHANGED <<phase, env, config, now, tokens, permits, drain>>
    <3>1. MoveTo(r, "put", Stored)
      BY <2>1, <2>2 DEF MoveTo
    <3> QED
      BY <2>1, <2>2, <3>1, <1>m, <1>b, <1>w, <1>t
  <2>3. CASE AnswerAll(r, 502, 502)
    <3>1. Reason(r, 502)
      BY DEF Reason
    <3> QED
      BY <2>1, <2>3, <3>1, <1>a, <1>b, <1>w
  <2> QED
    BY <2>1, <2>2, <2>3
<1>7. CASE Put(r)
  <2>1. /\ req[r].pc = "put" /\ Active(r) /\ BucketEffect(r)
        /\ (AnswerAll(r, 301, 301) /\ object' = req[r].about) \/ AnswerAll(r, 502, 502)
    BY <1>7, <1>w, <1>d, <1>b DEF Put, S3, Answer, BucketEffect
  <2>2. Reason(r, 502) /\ (object' = req[r].about => Reason(r, 301))
    BY <2>1 DEF Reason
  <2> QED
    BY <2>1, <2>2, <1>a, <1>w
<1>8. CASE Cancel(r)
  <2>1. Active(r) /\ AnswerAll(r, 503, 503) /\ BucketEffect(r)
    BY <1>8, <1>d DEF Cancel
  <2>3. Reason(r, 503)
    BY DEF Reason
  <2> QED
    BY <2>1, <2>3, <1>a, <1>w
<1> QED
  BY <1>1, <1>2, <1>3, <1>4, <1>5, <1>6, <1>7, <1>8

-----------------------------------------------------------------------------
(* Types and the admission guard *)

\* Every permit is free or held by an admitted request.
AdmissionInv ==
    /\ IsFiniteSet(Admitted)
    /\ phase \in {"starting", "refused"} => \A r \in Requests : req[r].pc = "idle"
    /\ phase \in {"serving", "draining"} => permits + Cardinality(Admitted) = config.admitted

\* A process that has not started has all its permits.
LEMMA InitInv == Init => TypeInv /\ AdmissionInv
<1> SUFFICES ASSUME Init PROVE TypeInv /\ AdmissionInv
  OBVIOUS
<1>1. SizesOK /\ config.burst = 0 /\ config.drain = 0
  BY Zenon DEF Init, NoConfig, SizesOK, IsSetting, Unset
<1>2. /\ Finished(0) \in RequestType
      /\ [Finished(0) EXCEPT !.pc = "idle"] \in RequestType
      /\ [Finished(0) EXCEPT !.pc = "idle"].pc = "idle"
  <2>1. Finished(0) \in RequestType
    BY FinishedType
  <2> QED
    BY <2>1 DEF RequestType, States
<1>3. req \in [Requests -> RequestType] /\ \A r \in Requests : req[r].pc = "idle"
  BY <1>2 DEF Init
<1>4. PICK e \in Environments : env = Given(e)
  BY DEF Init
<1>5. object \in Objects
  <2>1. \A t \in UNION {x.cache_ttl : x \in env} : t \in Nat
    BY <1>4, EnvironmentsAssumption DEF Given, IsSetting
  <2>2. object \in {Unset, Given(Forever)} \cup {Given(t) : t \in UNION {x.cache_ttl : x \in env}}
    BY DEF Init
  <2> QED
    BY <2>1, <2>2, ServerAssumption DEF Unset, Given, IsSetting, Objects
<1>6. 0 \in 0..MaxTime /\ 0 \in 0..0
  BY ServerAssumption
<1>7. /\ phase = "starting" /\ now = 0 /\ tokens = 0 /\ permits = 0 /\ drain = 0
      /\ detached = {}
  BY DEF Init
<1>8. TypeInv
  BY <1>1, <1>3, <1>4, <1>5, <1>6, <1>7 DEF TypeInv
<1>9. Admitted = {}
  BY <1>3 DEF Admitted, Active, Waiting
<1> QED
  BY <1>3, <1>7, <1>8, <1>9, FS_EmptySet DEF AdmissionInv

\* The followers of a flight are admitted requests, and not its leader.
LEMMA FollowersFinite ==
    ASSUME IsFiniteSet(Admitted), NEW r \in Requests
    PROVE  /\ Followers(r) \subseteq Admitted \ {r}
           /\ IsFiniteSet(Followers(r)) /\ Cardinality(Followers(r)) \in Nat
<1>1. Followers(r) \subseteq Admitted \ {r}
  BY DEF Followers, Admitted, Active, Waiting
<1> QED
  BY <1>1, FS_Subset, FS_CardinalityType

\* Every step keeps the types.
LEMMA TypeStep == TypeInv /\ AdmissionInv /\ [Next]_vars => TypeInv'
<1> SUFFICES ASSUME TypeInv, AdmissionInv, [Next]_vars PROVE TypeInv'
  OBVIOUS
<1>1. CASE Startup
  <2>1. PICK e \in env : \/ \E p : config' = ReadEnvironment(e, p) /\ phase' = "serving"
                         \/ config' = config /\ phase' = "refused"
    BY <1>1, Zenon DEF Startup
  <2>2. e \in Environments
    BY DEF TypeInv, Given, Unset
  <2>3. SizesOK'
    BY <2>1, <2>2, SizesRead DEF TypeInv, SizesOK
  <2>4. drain = 0
    BY <1>1 DEF Startup, TypeInv
  <2> QED
    BY <1>1, <2>1, <2>3, <2>4 DEF Startup, TypeInv, SizesOK
<1>2. ASSUME NEW r \in Requests, NEW route \in Routes, NEW header \in HeadersOf(route),
             Arrive(r, route, header)
      PROVE  TypeInv'
  <2>1. /\ UNCHANGED <<phase, env, config, object, detached, now, drain>>
        /\ tokens' \in 0..config.burst
        /\ req' \in [Requests -> RequestType]
        /\ permits' = permits \/ (permits # 0 /\ permits' = permits - 1)
    BY <1>2, ArriveEffect
  <2>2. permits' \in Nat
    BY <2>1 DEF TypeInv
  <2> QED
    BY <2>1, <2>2 DEF TypeInv, SizesOK
<1>3. ASSUME NEW r \in Requests, ServeStep(r) PROVE TypeInv'
  <2>1. req' \in [Requests -> RequestType]
    BY <1>3, MoveEffect, AnswerEffect DEF ServeStep, MoveTo, States
  <2>2. permits' \in Nat
    <3>1. Cardinality(Followers(r)) \in Nat
      BY FollowersFinite DEF AdmissionInv
    <3>2. permits' = permits \/ permits' = permits + 1 + Cardinality(Followers(r))
      BY <1>3, Zenon DEF ServeStep, MoveTo, AnswerAll
    <3> QED
      BY <3>1, <3>2 DEF TypeInv
  <2>3. object' \in Objects /\ detached' \subseteq CallType
    <3>1. {} \in Objects /\ req[r].about \in Objects
      BY DEF IsSetting, Objects, TypeInv, RequestType
    <3>2. Pending(r) \subseteq CallType
      BY PendingCalls
    <3> QED
      BY <1>3, <3>1, <3>2 DEF ServeStep, BucketEffect, TypeInv
  <2> QED
    BY <1>3, <2>1, <2>2, <2>3 DEF ServeStep, TypeInv, SizesOK
<1>4. CASE Tick
  <2>1. /\ AtMost(now + 1, MaxTime) \in 0..MaxTime
        /\ AtLeast(drain - 1, 0) \in 0..config.drain
    BY ServerAssumption DEF AtMost, AtLeast, TypeInv, SizesOK
  <2> QED
    BY <1>4, <2>1 DEF Tick, TypeInv, SizesOK
<1>5. CASE Replenish \/ ShutdownSignal \/ Drained
  <2>1. CASE Replenish
    BY <2>1 DEF Replenish, TypeInv, SizesOK
  <2>2. CASE ShutdownSignal
    BY <2>2 DEF ShutdownSignal, TypeInv, SizesOK
  <2>3. CASE Drained
    BY <2>3 DEF Drained, TypeInv, SizesOK
  <2> QED
    BY <1>5, <2>1, <2>2, <2>3
<1>6. CASE DrainDeadline
  <2>1. object' = object /\ detached' \subseteq CallType
    <3>1. \A r \in Requests : Pending(r) \subseteq CallType
      BY PendingCalls
    <3> QED
      BY <1>6, <3>1 DEF DrainDeadline, Detach, TypeInv
  <2>2. req' \in [Requests -> RequestType]
    BY <1>6 DEF DrainDeadline, TypeInv, RequestType, States
  <2> QED
    BY <1>6, <2>1, <2>2 DEF DrainDeadline, TypeInv, SizesOK
<1>8. ASSUME NEW c \in detached, Land(c) PROVE TypeInv'
  <2>1. object' \in Objects /\ detached' \subseteq CallType
    BY <1>8 DEF Land, TypeInv, CallType, Objects, IsSetting, Unset
  <2> QED
    BY <1>8, <2>1 DEF Land, TypeInv, SizesOK
<1>7. CASE UNCHANGED vars
  BY <1>7 DEF vars, TypeInv, SizesOK
<1> QED
  BY <1>1, <1>2, <1>3, <1>4, <1>5, <1>6, <1>7, <1>8, EveryServeStep DEF Next

\* A permit is taken with each admission and comes back with each answer, those
\* of the followers included.
LEMMA AdmissionStep == TypeInv /\ AdmissionInv /\ [Next]_vars => AdmissionInv'
<1> SUFFICES ASSUME TypeInv, AdmissionInv, [Next]_vars PROVE AdmissionInv'
  OBVIOUS
<1>n. IsFiniteSet(Admitted) /\ Cardinality(Admitted) \in Nat /\ permits \in Nat
  BY FS_CardinalityType DEF AdmissionInv, TypeInv
<1>u. ASSUME Admitted' = Admitted, permits' = permits, config' = config,
             \/ phase' = phase /\ (phase \in {"starting", "refused"} => req' = req)
             \/ phase \in {"serving", "draining"} /\ phase' \in {"serving", "draining", "stopped"}
      PROVE  AdmissionInv'
  BY <1>u DEF AdmissionInv
<1>1. CASE Startup
  <2>1. Admitted = {} /\ Admitted' = Admitted /\ \A r \in Requests : req'[r].pc = "idle"
    BY <1>1 DEF Startup, AdmissionInv, Admitted, Active, Waiting
  <2>2. phase' \in {"serving", "refused"} /\ permits' = config'.admitted
    BY <1>1, Zenon DEF Startup
  <2>3. config'.admitted \in Nat
    BY TypeStep DEF TypeInv, SizesOK
  <2>4. IsFiniteSet(Admitted') /\ Cardinality(Admitted') = 0
    BY <2>1, FS_EmptySet
  <2>5. permits' + Cardinality(Admitted)' = config'.admitted
    BY <2>2, <2>3, <2>4
  <2> QED
    BY <2>1, <2>2, <2>4, <2>5 DEF AdmissionInv
<1>2. ASSUME NEW r \in Requests, NEW route \in Routes, NEW header \in HeadersOf(route),
             Arrive(r, route, header)
      PROVE  AdmissionInv'
  <2>1. /\ req[r].pc = "idle" /\ UNCHANGED <<phase, config>> /\ phase = "serving"
        /\ \A q \in Requests \ {r} : req'[q] = req[q]
        /\ \/ permits' = permits /\ req'[r].pc = "done"
           \/ permits # 0 /\ permits' = permits - 1 /\ req'[r].pc = EntryOf(route)
    <3>1. \A s : Finished(s).pc = "done"
      BY FinishedFields
    <3> QED
      BY <1>2, <3>1, ArriveEffect
  <2>2. r \notin Admitted
    BY <2>1 DEF Admitted, Active, Waiting
  <2>3. CASE permits' = permits /\ req'[r].pc = "done"
    <3>1. Admitted' = Admitted
      BY <2>1, <2>2, <2>3 DEF Admitted, Active, Waiting
    <3> QED
      BY <1>u, <2>1, <2>3, <3>1
  <2>4. CASE permits # 0 /\ permits' = permits - 1 /\ req'[r].pc = EntryOf(route)
    <3>1. Admitted' = Admitted \cup {r}
      BY <2>1, <2>4 DEF Admitted, Active, Waiting, EntryOf
    <3>2. IsFiniteSet(Admitted') /\ Cardinality(Admitted') = Cardinality(Admitted) + 1
      BY <3>1, <2>2, <1>n, FS_AddElement
    <3>3. permits' + Cardinality(Admitted') = permits + Cardinality(Admitted)
      BY <3>2, <2>4, <1>n
    <3> QED
      BY <2>1, <3>2, <3>3 DEF AdmissionInv
  <2> QED
    BY <2>1, <2>3, <2>4
<1>3. ASSUME NEW r \in Requests, ServeStep(r) PROVE AdmissionInv'
  <2>0. UNCHANGED <<phase, config>> /\ r \in Admitted /\ phase \notin {"starting", "refused"}
    BY <1>3 DEF ServeStep, Admitted, AdmissionInv, Active, Waiting
  <2>1. ASSUME NEW pc \in Waiting, NEW about \in Objects, MoveTo(r, pc, about)
        PROVE  AdmissionInv'
    <3>1. \A q \in Requests \ {r} : req'[q] = req[q]
      BY <2>1, MoveEffect DEF MoveTo, States
    <3>2. req'[r].pc \in Waiting
      BY <2>1, MoveEffect DEF MoveTo, States
    <3>3. Admitted' = Admitted
      BY <3>1, <3>2, <2>0 DEF Admitted, Active
    <3> QED
      BY <1>u, <2>0, <2>1, <3>3 DEF MoveTo
  <2>2. ASSUME NEW s \in Nat, AnswerAll(r, s, s)
        PROVE  AdmissionInv'
    <3>1. /\ Followers(r) \subseteq Admitted \ {r}
          /\ IsFiniteSet(Followers(r)) /\ Cardinality(Followers(r)) \in Nat
      BY <1>n, FollowersFinite
    <3>2. /\ req'[r].pc = "done"
          /\ \A q \in Followers(r) : req'[q].pc = "done"
          /\ \A q \in Requests \ ({r} \cup Followers(r)) : req'[q] = req[q]
      <4>1. \A n : Finished(n).pc = "done"
        BY FinishedFields
      <4>2. /\ req'[r] = Finished(s)
            /\ \A q \in Requests \ {r} :
                  IF q \in Followers(r) THEN req'[q] = Finished(s) ELSE req'[q] = req[q]
        BY <2>2, AnswerEffect
      <4> QED
        BY <3>1, <4>1, <4>2 DEF Admitted
    <3>3. Admitted' = (Admitted \ {r}) \ Followers(r)
      BY <3>1, <3>2 DEF Admitted, Active, Waiting
    <3>4. /\ IsFiniteSet(Admitted \ {r})
          /\ Cardinality(Admitted \ {r}) = Cardinality(Admitted) - 1
      BY <1>n, <2>0, FS_RemoveElement
    <3>5. /\ IsFiniteSet(Admitted')
          /\ Cardinality(Admitted') = Cardinality(Admitted \ {r}) - Cardinality(Followers(r))
      <4>1. (Admitted \ {r}) \cap Followers(r) = Followers(r)
        BY <3>1
      <4> DEFINE others == Admitted \ {r}
      <4>2. /\ IsFiniteSet(others \ Followers(r))
            /\ Cardinality(others \ Followers(r))
                 = Cardinality(others) - Cardinality(others \cap Followers(r))
        <5> HIDE DEF others
        <5> QED
          BY <3>4, FS_Difference DEF others
      <4> QED
        BY <3>3, <4>1, <4>2
    <3>6. permits' = permits + 1 + Cardinality(Followers(r))
      BY <2>2 DEF AnswerAll
    <3>7. permits' + Cardinality(Admitted') = permits + Cardinality(Admitted)
      BY <3>1, <3>4, <3>5, <3>6, <1>n
    <3> QED
      BY <2>0, <3>5, <3>7 DEF AdmissionInv
  <2> QED
    BY <1>3, <2>1, <2>2 DEF ServeStep
<1>4. CASE Tick \/ Replenish
  BY <1>4, <1>u DEF Tick, Replenish, Admitted, Active
<1>5. CASE ShutdownSignal \/ Drained
  BY <1>5, <1>u DEF ShutdownSignal, Drained, Admitted, Active
<1>6. CASE DrainDeadline
  <2>1. Admitted' = {} /\ phase' = "stopped"
    <3>1. \A r \in Requests : req'[r].pc \notin Waiting
      BY <1>6 DEF DrainDeadline, TypeInv, RequestType, Active, Waiting
    <3> QED
      BY <1>6, <3>1 DEF DrainDeadline, Admitted, Active
  <2> QED
    BY <2>1, FS_EmptySet DEF AdmissionInv
<1>7. CASE UNCHANGED vars
  BY <1>7, <1>u DEF vars, Admitted, Active
<1>8. ASSUME NEW c \in detached, Land(c) PROVE AdmissionInv'
  BY <1>8, <1>u DEF Land, Admitted, Active
<1> QED
  BY <1>1, <1>2, <1>3, <1>4, <1>5, <1>6, <1>7, <1>8, EveryServeStep DEF Next

\* Types and permit accounting are inductive together.
LEMMA CoreInductive == TypeInv /\ AdmissionInv /\ [Next]_vars => (TypeInv /\ AdmissionInv)'
  BY TypeStep, AdmissionStep

\* The admission guard loses no permit and hands none out twice, whichever way a
\* request ends: rejected, answered, timed out or abandoned, alone or as one of
\* the followers of a flight.
THEOREM PermitsAccountedFor == Spec => []ServerInv
<1>1. TypeInv /\ AdmissionInv => ServerInv
  <2> SUFFICES ASSUME TypeInv, AdmissionInv PROVE ServerInv
    OBVIOUS
  <2>1. \A r \in Requests : req[r].pc \in {"idle", "done", "cut"} \cup Waiting
    BY DEF TypeInv, RequestType, States
  <2>2. \A c \in detached : c.by \in Requests /\ c.call \in {"PUT", "DELETE"}
    BY DEF TypeInv, CallType
  <2> QED
    BY <2>1, <2>2 DEF TypeInv, AdmissionInv, ServerInv, Admitted
<1> QED
  BY <1>1, InitInv, CoreInductive, PTL DEF Spec

-----------------------------------------------------------------------------
(* What a request asks, and the configuration it is answered under *)

\* A request that is not done has no status, one that is has nothing left but
\* it; which route leads where; and what an eviction is based on.
Asked(request, time) ==
    /\ request.pc # "done" => request.status = 0
    /\ request.pc \in {"idle", "done"} => request.route = "none"
    /\ request.route = "/metrics" => request.pc \in {"handle", "cut"}
    /\ request.route = "files" => request.pc \in {"handle", "get", "evict", "cut"}
    /\ request.promised => request.route = "files"
    /\ request.pc \in {"evict", "put"} => request.about # {}
    /\ request.pc = "evict" => \A e \in request.about : e <= time

AskedInv == \A r \in Requests : Asked(req[r], now)

\* What is left on its way to the bucket: objects to be stored, and DELETEs
\* decided on at the sight of an object that had expired.
LeftBehind(c, time) ==
    /\ c.about # {}
    /\ c.call = "DELETE" => \A e \in c.about : e <= time

DetachedInv ==
    /\ \A c \in detached : LeftBehind(c, now)
    /\ phase \in {"starting", "refused"} => detached = {}

ConfigInv == config.token # "blank" /\ config.prefix = config.key_prefix

\* Only a key with a slash is not looked up in storage.
RoutedInv ==
    \A r \in Requests : req[r].route = "files" /\ req[r].pc = "handle" => config.prefix = "dir/"

CoreInv == TypeInv /\ AdmissionInv /\ AskedInv /\ DetachedInv /\ ConfigInv /\ RoutedInv

\* The core invariant holds initially.
LEMMA InitCore == Init => CoreInv
<1> SUFFICES ASSUME Init PROVE CoreInv
  OBVIOUS
<1>1. TypeInv /\ AdmissionInv
  BY InitInv
<1>2. ConfigInv
  BY Zenon DEF Init, NoConfig, ConfigInv
<1>3. \A r \in Requests : /\ req[r].pc = "idle" /\ req[r].status = 0 /\ req[r].route = "none"
                          /\ ~req[r].promised
  <2>1. Finished(0) \in RequestType
    BY FinishedType
  <2>2. /\ Finished(0).status = 0 /\ Finished(0).route = "none"
        /\ Finished(0).promised = FALSE
    BY FinishedFields
  <2>3. \A r \in Requests : req[r] = [Finished(0) EXCEPT !.pc = "idle"]
    BY DEF Init
  <2> QED
    BY <2>1, <2>2, <2>3 DEF RequestType
<1>4. AskedInv /\ DetachedInv /\ RoutedInv
  BY <1>3 DEF AskedInv, Asked, DetachedInv, RoutedInv, Init
<1> QED
  BY <1>1, <1>2, <1>4 DEF CoreInv

\* Every step keeps route, progress and what was seen of the bucket consistent.
LEMMA AskedStep == CoreInv /\ [Next]_vars => AskedInv'
<1> SUFFICES ASSUME CoreInv, [Next]_vars PROVE AskedInv'
  OBVIOUS
<1>t. TypeInv /\ AskedInv /\ IsSetting(object, Nat) /\ now \in Nat
  BY DEF CoreInv, TypeInv, Objects
<1>f. \A s : Asked(Finished(s), now)
  <2>1. \A s : /\ Finished(s).pc = "done" /\ Finished(s).route = "none"
               /\ ~Finished(s).promised
    BY FinishedFields
  <2> QED
    BY <2>1 DEF Asked
<1>u. ASSUME req' = req, now' = now PROVE AskedInv'
  BY <1>u, <1>t DEF AskedInv
<1>1. CASE Startup \/ Replenish \/ ShutdownSignal \/ Drained \/ UNCHANGED vars
  BY <1>1, <1>u DEF Startup, Replenish, ShutdownSignal, Drained, vars
<1>l. ASSUME NEW c \in detached, Land(c) PROVE AskedInv'
  BY <1>l, <1>u DEF Land
<1>2. ASSUME NEW r \in Requests, NEW route \in Routes, NEW header \in HeadersOf(route),
             Arrive(r, route, header)
      PROVE  AskedInv'
  <2>1. /\ req[r].pc = "idle" /\ now' = now
        /\ \A q \in Requests \ {r} : req'[q] = req[q]
        /\ \/ \E s \in {429, 304, 503} : req'[r] = Finished(s)
           \/ /\ req'[r].pc = EntryOf(route) /\ req'[r].route = route
              /\ req'[r].status = req[r].status
              /\ req'[r].promised => route = "files"
    BY <1>2, <1>t, ArriveEffect
  <2>2. /\ route \in Routes /\ EntryOf(route) \in {"get", "head", "handle"}
        /\ route = "/metrics" => EntryOf(route) = "handle"
        /\ route = "files" => EntryOf(route) \in {"get", "handle"}
    BY DEF EntryOf, Routes
  <2>3. Asked(req[r], now)
    BY <1>t DEF AskedInv
  <2>4. Asked(req'[r], now)
    <3>1. CASE \E s \in {429, 304, 503} : req'[r] = Finished(s)
      BY <3>1, <1>f
    <3>2. CASE /\ req'[r].pc = EntryOf(route) /\ req'[r].route = route
               /\ req'[r].status = req[r].status
               /\ req'[r].promised => route = "files"
      BY <2>1, <2>2, <2>3, <3>2 DEF Asked
    <3> QED
      BY <2>1, <3>1, <3>2
  <2> QED
    BY <2>1, <2>4, <1>t DEF AskedInv
<1>3. ASSUME NEW r \in Requests, ServeStep(r) PROVE AskedInv'
  <2>0. now' = now
    BY <1>3 DEF ServeStep
  <2>1. ASSUME NEW pc \in Waiting, NEW about \in Objects, MoveTo(r, pc, about)
        PROVE  AskedInv'
    <3>1. /\ \A q \in Requests \ {r} : req'[q] = req[q]
          /\ req'[r].pc = pc /\ req'[r].about = about
          /\ req'[r].route = req[r].route
          /\ req'[r].status = req[r].status
          /\ req'[r].promised => req[r].promised
      BY <2>1, <1>t, MoveEffect DEF MoveTo, States
    <3>2. /\ pc \in {"evict", "put"} => about # {}
          /\ pc = "evict" => \A e \in about : e <= now
      <4>1. /\ pc = "evict" => about = object /\ is_expired(object)
            /\ pc = "put" => about = Stored
        BY <2>1 DEF MoveTo
      <4> QED
        BY <4>1, <1>t, StoredType DEF is_expired, IsSetting
    <3>3. /\ req[r].pc \notin {"done", "idle"} /\ pc \notin {"done", "idle"}
          /\ req[r].route # "/metrics"
          /\ req[r].route = "files" => pc = "evict"
      BY <2>1, <1>t DEF MoveTo, AskedInv, Asked, Waiting
    <3>4. Asked(req[r], now)
      BY <1>t DEF AskedInv
    <3>5. Asked(req'[r], now)
      BY <3>1, <3>2, <3>3, <3>4 DEF Asked
    <3> QED
      BY <2>0, <3>1, <3>5, <1>t DEF AskedInv
  <2>2. ASSUME NEW s \in Nat, AnswerAll(r, s, s) PROVE AskedInv'
    <3>1. \A q \in Requests : req'[q] = Finished(s) \/ req'[q] = req[q]
      BY <2>2, <1>t, AnswerEffect
    <3> QED
      BY <2>0, <3>1, <1>f, <1>t DEF AskedInv
  <2> QED
    BY <1>3, <2>1, <2>2 DEF ServeStep
<1>4. CASE Tick
  <2>1. req' = req /\ now' \in Nat /\ now' >= now
    BY <1>4, <1>t, ServerAssumption DEF Tick, AtMost, TypeInv
  <2>2. \A r \in Requests : req[r].about \subseteq Nat
    BY <1>t DEF TypeInv, RequestType, Objects
  <2> QED
    BY <2>1, <2>2, <1>t DEF AskedInv, Asked
<1>5. CASE DrainDeadline
  <2>1. now' = now
    BY <1>5 DEF DrainDeadline
  <2>2. \A r \in Requests : \/ req'[r] = req[r]
                            \/ Active(r) /\ req'[r] = [req[r] EXCEPT !.pc = "cut"]
    BY <1>5 DEF DrainDeadline
  <2>3. ASSUME NEW r \in Requests PROVE Asked(req'[r], now)
    <3>1. Asked(req[r], now) /\ req[r] \in RequestType
      BY <1>t DEF AskedInv, TypeInv
    <3>2. CASE Active(r) /\ req'[r] = [req[r] EXCEPT !.pc = "cut"]
      <4>1. /\ req'[r].pc = "cut" /\ req'[r].route = req[r].route
            /\ req'[r].status = req[r].status /\ req[r].pc # "done"
        BY <3>1, <3>2 DEF RequestType, Active, Waiting
      <4>2. req'[r].promised = req[r].promised
        BY <3>1, <3>2, Zenon DEF RequestType
      <4> QED
        BY <3>1, <4>1, <4>2 DEF Asked
    <3> QED
      BY <2>2, <3>1, <3>2
  <2> QED
    BY <2>1, <2>3 DEF AskedInv
<1> QED
  BY <1>t, <1>l, <1>1, <1>2, <1>3, <1>4, <1>5, EveryServeStep DEF Next

\* Whatever is left behind was pending: what condemned an object stays in the
\* past.
LEMMA DetachedStep == CoreInv /\ [Next]_vars => DetachedInv'
<1> SUFFICES ASSUME CoreInv, [Next]_vars PROVE DetachedInv'
  OBVIOUS
<1>t. TypeInv /\ AskedInv /\ DetachedInv /\ AdmissionInv
  BY DEF CoreInv
<1>p. ASSUME NEW r \in Requests, NEW c \in Pending(r) PROVE LeftBehind(c, now)
  <2>1. /\ c.about = req[r].about
        /\ \/ c.call = "DELETE" /\ req[r].pc = "evict"
           \/ c.call = "PUT" /\ req[r].pc = "put"
    BY <1>p, <1>t, PendingCalls
  <2> QED
    BY <2>1, <1>t DEF AskedInv, Asked, LeftBehind
<1>u. ASSUME detached' \subseteq detached, now' = now,
             phase' = phase \/ phase' \notin {"starting", "refused"} \/ phase = "starting"
      PROVE  DetachedInv'
  BY <1>u, <1>t DEF DetachedInv
<1>1. CASE Startup \/ Replenish \/ ShutdownSignal \/ Drained \/ UNCHANGED vars
  BY <1>1, <1>u DEF Startup, Replenish, ShutdownSignal, Drained, vars
<1>2. ASSUME NEW r \in Requests, NEW route \in Routes, NEW header \in HeadersOf(route),
             Arrive(r, route, header)
      PROVE  DetachedInv'
  <2>1. UNCHANGED <<phase, detached, now>>
    BY <1>2, <1>t, ArriveEffect
  <2> QED
    BY <2>1, <1>u
<1>3. ASSUME NEW r \in Requests, ServeStep(r) PROVE DetachedInv'
  <2>1. /\ UNCHANGED <<phase, now>> /\ phase \notin {"starting", "refused"}
        /\ detached' \subseteq detached \cup Pending(r)
    BY <1>3, <1>t DEF ServeStep, BucketEffect, AdmissionInv, Active, Waiting
  <2> QED
    BY <2>1, <1>p, <1>t DEF DetachedInv
<1>4. CASE Tick
  <2>1. UNCHANGED <<phase, detached>> /\ now' \in Nat /\ now \in Nat /\ now' >= now
    BY <1>4, <1>t, ServerAssumption DEF Tick, AtMost, TypeInv
  <2>2. \A c \in detached : c.about \subseteq Nat
    BY <1>t DEF TypeInv, CallType, Objects
  <2> QED
    BY <2>1, <2>2, <1>t DEF DetachedInv, LeftBehind
<1>5. CASE DrainDeadline
  <2>1. /\ phase' = "stopped" /\ now' = now
        /\ detached' = detached \cup UNION {Pending(r) : r \in Requests}
    BY <1>5 DEF DrainDeadline, Detach
  <2> QED
    BY <2>1, <1>p, <1>t DEF DetachedInv
<1>6. ASSUME NEW c \in detached, Land(c) PROVE DetachedInv'
  BY <1>6, <1>u DEF Land
<1> QED
  BY <1>t, <1>1, <1>2, <1>3, <1>4, <1>5, <1>6, EveryServeStep DEF Next

\* The configuration is read once, before any request is routed by it.
LEMMA ConfigStep == CoreInv /\ [Next]_vars => ConfigInv' /\ RoutedInv'
<1> SUFFICES ASSUME CoreInv, [Next]_vars PROVE ConfigInv' /\ RoutedInv'
  OBVIOUS
<1>t. TypeInv /\ ConfigInv /\ RoutedInv /\ AskedInv /\ AdmissionInv
  BY DEF CoreInv
<1> DEFINE Unstored(request) == request.route = "files" /\ request.pc = "handle"
<1>u. ASSUME config' = config,
             \A r \in Requests : Unstored(req'[r]) => Unstored(req[r]) \/ config.prefix = "dir/"
      PROVE  ConfigInv' /\ RoutedInv'
  BY <1>u, <1>t DEF ConfigInv, RoutedInv
<1>f. \A s : Finished(s).route = "none"
  BY FinishedFields
<1>1. CASE Startup
  <2>1. PICK e \in env : (\E p : config' = ReadEnvironment(e, p)) \/ config' = config
    BY <1>1, Zenon DEF Startup
  <2>2. e \in Environments
    BY <1>t DEF TypeInv, Given, Unset
  <2>3. \A p : /\ ReadEnvironment(e, p).prefix = ReadEnvironment(e, p).key_prefix
               /\ ReadEnvironment(e, p).token = MetricsToken(e)
    BY <2>2, SizesRead
  <2>4. ConfigInv'
    BY <2>1, <2>3, <1>t DEF ConfigInv, MetricsToken
  <2>5. \A r \in Requests : req'[r].pc = "idle"
    BY <1>1, <1>t DEF Startup, AdmissionInv
  <2> QED
    BY <2>4, <2>5 DEF RoutedInv
<1>2. ASSUME NEW r \in Requests, NEW route \in Routes, NEW header \in HeadersOf(route),
             Arrive(r, route, header)
      PROVE  ConfigInv' /\ RoutedInv'
  <2>1. /\ config' = config
        /\ \A q \in Requests \ {r} : req'[q] = req[q]
        /\ \/ \E s : req'[r] = Finished(s)
           \/ req'[r].pc = EntryOf(route) /\ req'[r].route = route
    BY <1>2, <1>t, ArriveEffect
  <2>2. route = "files" /\ EntryOf(route) = "handle" => config.prefix = "dir/"
    BY DEF EntryOf
  <2>3. Unstored(req'[r]) => config.prefix = "dir/"
    BY <2>1, <2>2, <1>f
  <2> QED
    BY <1>u, <2>1, <2>3
<1>3. ASSUME NEW r \in Requests, ServeStep(r) PROVE ConfigInv' /\ RoutedInv'
  <2>0. config' = config
    BY <1>3 DEF ServeStep
  <2>1. ASSUME NEW pc \in Waiting, NEW about \in Objects, MoveTo(r, pc, about)
        PROVE  ConfigInv' /\ RoutedInv'
    <3>1. /\ \A q \in Requests \ {r} : req'[q] = req[q]
          /\ req'[r].pc = pc
      BY <2>1, <1>t, MoveEffect DEF MoveTo, States
    <3>2. pc # "handle"
      BY <2>1 DEF MoveTo
    <3> QED
      BY <1>u, <2>0, <3>1, <3>2
  <2>2. ASSUME NEW s \in Nat, AnswerAll(r, s, s)
        PROVE  ConfigInv' /\ RoutedInv'
    <3>1. \A q \in Requests : req'[q] = Finished(s) \/ req'[q] = req[q]
      BY <2>2, <1>t, AnswerEffect
    <3> QED
      BY <1>u, <1>f, <2>0, <3>1
  <2> QED
    BY <1>3, <2>1, <2>2 DEF ServeStep
<1>4. CASE Tick \/ Replenish \/ ShutdownSignal \/ Drained \/ UNCHANGED vars
  BY <1>4, <1>u DEF Tick, Replenish, ShutdownSignal, Drained, vars
<1>5. CASE DrainDeadline
  <2>1. \A r \in Requests : req'[r] = req[r] \/ req'[r].pc = "cut"
    BY <1>5, <1>t DEF DrainDeadline, TypeInv, RequestType
  <2>2. config' = config
    BY <1>5 DEF DrainDeadline
  <2> QED
    BY <1>u, <2>1, <2>2
<1>6. ASSUME NEW c \in detached, Land(c) PROVE ConfigInv' /\ RoutedInv'
  BY <1>6, <1>u DEF Land
<1> QED
  BY <1>t, <1>1, <1>2, <1>3, <1>4, <1>5, <1>6, EveryServeStep DEF Next

\* The core invariant holds throughout.
LEMMA CoreInvariant == Spec => []CoreInv
<1>1. CoreInv /\ [Next]_vars => CoreInv'
  BY CoreInductive, AskedStep, DetachedStep, ConfigStep DEF CoreInv
<1> QED
  BY <1>1, InitCore, PTL DEF Spec

\* /metrics is answered 200 only to the configured token, which is never blank,
\* or where the operator opted out of authentication.
THEOREM MetricsStayGuarded == Spec => MetricsGuarded
<1> DEFINE A == \A r \in Requests :
                  req[r].route = "/metrics" /\ req'[r].status = 200 =>
                     config.open \/ (req[r].header = config.token /\ config.token \notin {"", "blank"})
<1>1. CoreInv /\ [Next]_vars => [A]_vars
  <2> SUFFICES ASSUME CoreInv, Next, NEW r \in Requests,
                      req[r].route = "/metrics", req'[r].status = 200
               PROVE  config.open \/ (req[r].header = config.token /\ config.token \notin {"", "blank"})
    OBVIOUS
  <2>t. TypeInv /\ Asked(req[r], now) /\ config.token # "blank"
    BY DEF CoreInv, AskedInv, ConfigInv
  <2>p. req[r].pc \in {"handle", "cut"} /\ req[r].status = 0
    BY <2>t DEF Asked
  <2>n. req'[r] # req[r]
    BY <2>p
  <2>1. ASSUME NEW q \in Requests, ServeStep(q)
        PROVE  q = r /\ req[r].pc = "handle" /\ Reason(r, 200)
    <3>1. ASSUME NEW pc \in Waiting, NEW about \in Objects, MoveTo(q, pc, about) PROVE FALSE
      <4>1. \A x \in Requests : req'[x].status = req[x].status
        BY <3>1, <2>t, MoveKeepsStatus
      <4> QED
        BY <4>1, <2>p
    <3>2. ASSUME NEW s \in Nat, AnswerAll(q, s, s), Reason(q, s)
          PROVE  q = r /\ req[r].pc = "handle" /\ Reason(r, 200)
      <4>1. /\ req'[q] = Finished(s)
            /\ \A x \in Requests \ {q} :
                  IF x \in Followers(q) THEN req'[x] = Finished(s) ELSE req'[x] = req[x]
        BY <3>2, <2>t, AnswerEffect
      <4>2. r \notin Followers(q)
        BY <2>p DEF Followers
      <4>3. q = r
        BY <4>1, <4>2, <2>n
      <4>4. s = 200
        BY <4>1, <4>3, FinishedFields
      <4>5. req[r].pc = "handle"
        BY <2>1, <4>3, <2>p DEF ServeStep, Active, Waiting
      <4>6. Reason(r, 200)
        BY <3>2, <4>3, <4>4, Zenon
      <4> QED
        BY <4>3, <4>5, <4>6
    <3> QED
      BY <2>1, <3>1, <3>2 DEF ServeStep
  <2>2. ASSUME NEW q \in Requests, NEW route \in Routes, NEW header \in HeadersOf(route),
               Arrive(q, route, header)
        PROVE  FALSE
    <3>1. req[q].pc = "idle" /\ \A x \in Requests \ {q} : req'[x] = req[x]
      BY <2>2, <2>t, ArriveEffect
    <3> QED
      BY <3>1, <2>p, <2>n
  <2>3. ASSUME DrainDeadline PROVE FALSE
    <3>1. req[r] \in RequestType
      BY <2>t DEF TypeInv
    <3>2. req'[r] = req[r] \/ req'[r] = [req[r] EXCEPT !.pc = "cut"]
      BY <2>3 DEF DrainDeadline
    <3>3. req'[r].status = req[r].status
      BY <3>1, <3>2 DEF RequestType
    <3> QED
      BY <3>3, <2>p
  <2>4. PICK q \in Requests : ServeStep(q)
    BY <2>t, <2>n, <2>2, <2>3, EveryServeStep
       DEF Next, Startup, Tick, Replenish, ShutdownSignal, Drained, Land
  <2>5. config.open \/ verify_token(config.token, req[r].header)
    BY <2>1, <2>4 DEF Reason
  <2> QED
    BY <2>5, <2>t DEF verify_token, MetricsAuthEnabled
<1> QED
  BY <1>1, CoreInvariant, PTL DEF Spec, MetricsGuarded

\* A fresh object disappears only to a DELETE, of a request under way or of one
\* that is gone, that was decided on at the sight of another object whose
\* expiry had passed: an eviction never rests on the object's own expiry, and
\* no upload, answer, timeout or exit takes one away.
THEOREM OnlyTheRaceLosesFresh == Spec => FreshLostOnlyToRace
<1> DEFINE A == Fresh /\ object' = Unset =>
                  \E look \in Condemned : look # object /\ \A e \in look : now >= e
<1>1. CoreInv /\ [Next]_vars => [A]_vars
  <2> SUFFICES ASSUME CoreInv, Next, Fresh, object' = {} PROVE A
    BY DEF Unset
  <2>t. TypeInv /\ AskedInv /\ DetachedInv /\ now \in Nat
    BY DEF CoreInv, TypeInv
  <2>f. object # {} /\ object \subseteq Nat
    BY <2>t DEF Fresh, TypeInv, Objects
  <2>w. ASSUME NEW look \in Condemned, look \subseteq Nat, \A e \in look : e <= now
        PROVE  A
    <3>1. PICK e \in object : now < e
      BY DEF Fresh
    <3>2. e \notin look /\ \A n \in look : now >= n
      BY <2>w, <2>t, <2>f, <3>1
    <3> QED
      BY <2>w, <3>1, <3>2
  <2>1. ASSUME NEW r \in Requests, ServeStep(r) PROVE A
    <3>1. req[r].pc = "evict"
      BY <2>1, <2>f, <2>t DEF ServeStep, BucketEffect, AskedInv, Asked
    <3>2. req[r].about \in Condemned /\ req[r].about \subseteq Nat
      BY <3>1, <2>t DEF Condemned, TypeInv, RequestType, Objects
    <3>3. \A e \in req[r].about : e <= now
      BY <3>1, <2>t DEF AskedInv, Asked
    <3> QED
      BY <3>2, <3>3, <2>w
  <2>2. ASSUME NEW c \in detached, Land(c) PROVE A
    <3>1. c.call = "DELETE" /\ \A e \in c.about : e <= now
      BY <2>2, <2>t DEF Land, DetachedInv, LeftBehind, TypeInv, CallType
    <3>2. c.about \in Condemned /\ c.about \subseteq Nat
      BY <3>1, <2>t DEF Condemned, TypeInv, CallType, Objects
    <3> QED
      BY <3>1, <3>2, <2>w
  <2>3. ASSUME NEW r \in Requests, NEW route \in Routes, NEW header \in HeadersOf(route),
               Arrive(r, route, header)
        PROVE  FALSE
    BY <2>3, <2>t, <2>f, ArriveEffect
  <2> QED
    BY <2>t, <2>f, <2>1, <2>2, <2>3, EveryServeStep
       DEF Next, Startup, Tick, Replenish, ShutdownSignal, Drained, DrainDeadline, Detach
<1> QED
  BY <1>1, CoreInvariant, PTL DEF Spec, FreshLostOnlyToRace

-----------------------------------------------------------------------------
(* Redirects *)

\* A start without a ttl finds and stores only objects that never expire: none
\* is evicted, so what a redirect promised is there.
Promise ==
    /\ phase = "starting" => \A e \in env : object \subseteq {Forever} \cup e.cache_ttl
    /\ phase \notin {"starting", "refused"} /\ config.ttl = Unset =>
          /\ object \subseteq {Forever}
          /\ \A c \in detached : c.call = "PUT" /\ c.about \subseteq {Forever}
          /\ \A r \in Requests :
                req[r].pc # "evict" /\ (req[r].pc = "put" => req[r].about \subseteq {Forever})
          /\ (\E r \in Requests : req[r].status = 301) => object # {}
          /\ (\E r \in Requests : req[r].promised) => object # {}

\* Promise holds of the bucket a process finds when it starts.
LEMMA InitPromise == Init => Promise
<1> SUFFICES ASSUME Init PROVE Promise
  OBVIOUS
<1>1. phase = "starting"
  BY DEF Init
<1>2. object \in {Unset, Given(Forever)} \cup {Given(t) : t \in UNION {x.cache_ttl : x \in env}}
  BY DEF Init
<1>3. PICK e \in Environments : env = {e}
  BY DEF Init, Given
<1>4. object \subseteq {Forever} \cup e.cache_ttl
  BY <1>2, <1>3 DEF Unset, Given
<1> QED
  BY <1>1, <1>3, <1>4 DEF Promise

\* What a redirect promised stays in the bucket, whatever step is taken.
LEMMA PromiseStep == CoreInv /\ Promise /\ [Next]_vars => Promise'
<1> SUFFICES ASSUME CoreInv, Promise, [Next]_vars PROVE Promise'
  OBVIOUS
<1>t. TypeInv /\ AskedInv /\ DetachedInv /\ AdmissionInv
  BY DEF CoreInv
<1>x. now < Forever
  BY <1>t, ServerAssumption DEF TypeInv
<1>f. \A s : Finished(s).pc = "done" /\ Finished(s).status = s /\ ~Finished(s).promised
  BY FinishedFields
<1>d. ASSUME NEW r \in Requests, NEW c \in Pending(r), req[r].pc # "evict",
             req[r].pc = "put" => req[r].about \subseteq {Forever}
      PROVE  c.call = "PUT" /\ c.about \subseteq {Forever}
  <2>1. /\ c.about = req[r].about
        /\ \/ c.call = "DELETE" /\ req[r].pc = "evict"
           \/ c.call = "PUT" /\ req[r].pc = "put"
    BY <1>d, <1>t, PendingCalls
  <2> QED
    BY <2>1, <1>d
<1>b. ASSUME NEW r \in Requests, BucketEffect(r), object \subseteq {Forever},
             \A c \in detached : c.call = "PUT" /\ c.about \subseteq {Forever},
             req[r].pc # "evict", req[r].pc = "put" => req[r].about \subseteq {Forever}
      PROVE  /\ object' \subseteq {Forever} /\ (object # {} => object' # {})
             /\ \A c \in detached' : c.call = "PUT" /\ c.about \subseteq {Forever}
  <2>1. req[r].pc = "put" => req[r].about # {}
    BY <1>t DEF AskedInv, Asked
  <2> QED
    BY <1>b, <1>d, <2>1 DEF BucketEffect
<1>1. CASE Startup
  <2>1. PICK e \in env : \/ \E p : config' = ReadEnvironment(e, p)
                         \/ phase' = "refused"
    BY <1>1, Zenon DEF Startup
  <2>2. e \in Environments
    BY <1>t DEF TypeInv, Given, Unset
  <2>3. /\ phase = "starting" /\ UNCHANGED <<object, detached, req>> /\ phase' # "starting"
        /\ detached = {}
    BY <1>1, <1>t DEF Startup, DetachedInv
  <2>4. \A r \in Requests : req[r].pc = "idle" /\ req[r].status = 0 /\ ~req[r].promised
    BY <2>3, <1>t DEF AdmissionInv, AskedInv, Asked
  <2>5. CASE phase' = "refused"
    BY <2>3, <2>5 DEF Promise
  <2>6. CASE \E p : config' = ReadEnvironment(e, p)
    <3>1. config'.ttl = e.cache_ttl
      BY <2>2, <2>6, SizesRead
    <3>2. object \subseteq {Forever} \cup e.cache_ttl
      BY <2>3 DEF Promise
    <3> QED
      BY <2>3, <2>4, <3>1, <3>2 DEF Promise, Unset
  <2> QED
    BY <2>1, <2>5, <2>6
<1>2. ASSUME NEW r \in Requests, NEW route \in Routes, NEW header \in HeadersOf(route),
             Arrive(r, route, header)
      PROVE  Promise'
  <2>1. /\ req[r].pc = "idle" /\ phase = "serving"
        /\ UNCHANGED <<phase, config, object, detached>>
        /\ \A q \in Requests \ {r} : req'[q] = req[q]
        /\ \/ \E s \in {429, 304, 503} : req'[r] = Finished(s)
           \/ /\ req'[r].pc = EntryOf(route)
              /\ req'[r].status = req[r].status
              /\ req'[r].promised => \E q \in Requests : req[q].status = 301
    BY <1>2, <1>t, ArriveEffect
  <2>2. EntryOf(route) \notin {"evict", "put"}
    BY DEF EntryOf
  <2>3. /\ req'[r].pc \notin {"evict", "put"} /\ req'[r].status # 301
        /\ req'[r].promised => \E q \in Requests : req[q].status = 301
    <3>1. req[r].status = 0
      BY <2>1, <1>t DEF AskedInv, Asked
    <3> QED
      BY <2>1, <2>2, <3>1, <1>f
  <2> QED
    BY <2>1, <2>3 DEF Promise
<1>3. ASSUME NEW r \in Requests, ServeStep(r) PROVE Promise'
  <2>0. /\ UNCHANGED <<phase, config>> /\ phase \notin {"starting", "refused"}
        /\ BucketEffect(r)
    BY <1>3, <1>t DEF ServeStep, AdmissionInv, Active, Waiting
  <2> SUFFICES ASSUME config.ttl = Unset
               PROVE  /\ object' \subseteq {Forever}
                      /\ \A c \in detached' : c.call = "PUT" /\ c.about \subseteq {Forever}
                      /\ \A q \in Requests :
                            /\ req'[q].pc # "evict"
                            /\ req'[q].pc = "put" => req'[q].about \subseteq {Forever}
                      /\ (\E q \in Requests : req'[q].status = 301) => object' # {}
                      /\ (\E q \in Requests : req'[q].promised) => object' # {}
    BY <2>0 DEF Promise
  <2>k. /\ object \subseteq {Forever}
        /\ \A c \in detached : c.call = "PUT" /\ c.about \subseteq {Forever}
        /\ \A q \in Requests :
              req[q].pc # "evict" /\ (req[q].pc = "put" => req[q].about \subseteq {Forever})
        /\ (\E q \in Requests : req[q].status = 301) => object # {}
        /\ (\E q \in Requests : req[q].promised) => object # {}
    BY <2>0 DEF Promise
  <2>b. /\ object' \subseteq {Forever} /\ (object # {} => object' # {})
        /\ \A c \in detached' : c.call = "PUT" /\ c.about \subseteq {Forever}
    BY <2>0, <2>k, <1>b
  <2>1. CASE \E pc \in Waiting, about \in Objects : MoveTo(r, pc, about)
    <3>1. PICK pc \in Waiting, about \in Objects : MoveTo(r, pc, about)
      BY <2>1
    <3>2. pc # "evict" /\ (pc = "put" => about \subseteq {Forever})
      <4>1. ~is_expired(object)
        BY <2>k, <1>x, <1>t, ServerAssumption DEF is_expired, TypeInv
      <4>2. Stored \subseteq {Forever}
        BY DEF Stored, Given
      <4> QED
        BY <3>1, <4>1, <4>2 DEF MoveTo
    <3>3. /\ \A q \in Requests \ {r} : req'[q] = req[q]
          /\ req'[r].pc = pc /\ req'[r].about = about
          /\ req'[r].status = req[r].status
          /\ req'[r].promised => req[r].promised
      BY <3>1, <1>t, MoveEffect DEF MoveTo, States
    <3> QED
      BY <2>b, <2>k, <3>2, <3>3
  <2>2. CASE \E s \in Nat : AnswerAll(r, s, s) /\ Reason(r, s)
    <3>1. PICK s \in Nat : AnswerAll(r, s, s) /\ Reason(r, s)
      BY <2>2
    <3>2. \A q \in Requests : req'[q] = Finished(s) \/ req'[q] = req[q]
      BY <3>1, <1>t, AnswerEffect
    <3>3. s = 301 => object' # {}
      BY <3>1, <1>t DEF Reason, AskedInv, Asked
    <3> QED
      BY <2>b, <2>k, <3>2, <3>3, <1>f
  <2> QED
    BY <1>3, <2>1, <2>2 DEF ServeStep
<1>4. CASE Tick \/ Replenish \/ UNCHANGED vars
  <2>1. UNCHANGED <<phase, env, config, object, detached, req>>
    BY <1>4 DEF Tick, Replenish, vars
  <2> QED
    BY <2>1 DEF Promise
<1>5. CASE ShutdownSignal \/ Drained
  <2>1. /\ UNCHANGED <<config, object, detached, req>>
        /\ phase \in {"serving", "draining"} /\ phase' \in {"draining", "stopped"}
    BY <1>5 DEF ShutdownSignal, Drained
  <2> QED
    BY <2>1 DEF Promise
<1>6. CASE DrainDeadline
  <2>1. /\ config' = config /\ object' = object /\ phase = "draining" /\ phase' = "stopped"
        /\ detached' = detached \cup UNION {Pending(r) : r \in Requests}
    BY <1>6 DEF DrainDeadline, Detach
  <2>3. ASSUME NEW q \in Requests
        PROVE  /\ req'[q].pc \in {req[q].pc, "cut"} /\ req'[q].status = req[q].status
               /\ req'[q].about = req[q].about
               /\ req'[q].promised => req[q].promised
    <3>1. req[q] \in RequestType
      BY <1>t DEF TypeInv
    <3>2. req'[q] = req[q] \/ req'[q] = [req[q] EXCEPT !.pc = "cut"]
      BY <1>6 DEF DrainDeadline
    <3>3. /\ req'[q].pc \in {req[q].pc, "cut"} /\ req'[q].status = req[q].status
          /\ req'[q].about = req[q].about
      BY <3>1, <3>2 DEF RequestType
    <3>4. req'[q].promised = req[q].promised
      BY <3>1, <3>2, Zenon DEF RequestType
    <3> QED
      BY <3>3, <3>4
  <2>4. ASSUME config.ttl = Unset, NEW c \in detached'
        PROVE  c.call = "PUT" /\ c.about \subseteq {Forever}
    BY <2>1, <2>4, <1>d DEF Promise
  <2> QED
    BY <2>1, <2>3, <2>4 DEF Promise
<1>7. ASSUME NEW c \in detached, Land(c) PROVE Promise'
  <2>1. /\ UNCHANGED <<phase, env, config, req>> /\ detached' \subseteq detached
        /\ object' = IF c.call = "PUT" THEN c.about ELSE Unset
    BY <1>7 DEF Land
  <2>2. c.about # {} /\ phase \notin {"starting", "refused"}
    BY <1>t DEF DetachedInv, LeftBehind
  <2> QED
    BY <2>1, <2>2 DEF Promise
<1> QED
  BY <1>t, <1>1, <1>2, <1>3, <1>4, <1>5, <1>6, <1>7, EveryServeStep DEF Next

\* Where nothing is stored with an expiry, a client that follows a redirect is
\* never told that its image does not exist, however requests, failing calls to
\* the bucket, timeouts, calls that land late and the shutdown interleave, nor
\* refused unless its key has a slash.
THEOREM RedirectsAreServable == Spec => RedirectServable
<1> DEFINE Good(r) == req'[r].status # 404 /\ (req'[r].status = 403 => config.prefix = "dir/")
           A == \A r \in Requests : req[r].promised /\ config.ttl = Unset =>
                   /\ req'[r].status # 404
                   /\ req'[r].status = 403 => config.prefix = "dir/"
<1>1. CoreInv /\ Promise /\ [Next]_vars => [A]_vars
  <2> SUFFICES ASSUME CoreInv, Promise, Next, NEW r \in Requests,
                      req[r].promised, config.ttl = Unset
               PROVE  Good(r)
    OBVIOUS
  <2>t. /\ TypeInv /\ Asked(req[r], now) /\ AdmissionInv /\ RoutedInv
        /\ config.prefix = config.key_prefix
    BY DEF CoreInv, AskedInv, ConfigInv
  <2>p. req[r].pc \in {"handle", "get", "evict", "cut"} /\ req[r].status = 0 /\ req[r].route = "files"
    BY <2>t DEF Asked
  <2>q. phase \notin {"starting", "refused"}
    BY <2>p, <2>t DEF AdmissionInv
  <2>o. object # {} /\ req[r].pc # "evict"
    BY <2>q DEF Promise
  <2>k. KeyAccepted(r)
    BY <2>p, <2>t, Zenon DEF KeyAccepted, KeyOf, validate_cache_key
  <2>1. ASSUME NEW q \in Requests, ServeStep(q) PROVE Good(r)
    <3>1. ASSUME NEW pc \in Waiting, NEW about \in Objects, MoveTo(q, pc, about)
          PROVE  Good(r)
      BY <3>1, <2>t, <2>p, MoveKeepsStatus
    <3>2. ASSUME NEW s \in Nat, AnswerAll(q, s, s), Reason(q, s)
          PROVE  Good(r)
      <4>1. /\ req'[q] = Finished(s)
            /\ \A x \in Requests \ {q} :
                  IF x \in Followers(q) THEN req'[x] = Finished(s) ELSE req'[x] = req[x]
        BY <3>2, <2>t, AnswerEffect
      <4>2. r \notin Followers(q)
        BY <2>p DEF Followers
      <4>3. CASE q = r
        <5>1. s # 404 /\ (s = 403 => config.prefix = "dir/")
          BY <3>2, <4>3, <2>o, <2>k, <2>t, <2>p DEF Reason, RoutedInv
        <5>2. Finished(s).status = s
          BY FinishedFields
        <5> QED
          BY <4>1, <4>3, <5>1, <5>2
      <4> QED
        BY <4>1, <4>2, <4>3, <2>p
    <3> QED
      BY <2>1, <3>1, <3>2 DEF ServeStep
  <2>2. ASSUME NEW q \in Requests, NEW route \in Routes, NEW header \in HeadersOf(route),
               Arrive(q, route, header)
        PROVE  req'[r] = req[r]
    <3>1. req[q].pc = "idle" /\ \A x \in Requests \ {q} : req'[x] = req[x]
      BY <2>2, <2>t, ArriveEffect
    <3> QED
      BY <3>1, <2>p
  <2>3. ASSUME DrainDeadline PROVE req'[r].status = req[r].status
    <3>1. req[r] \in RequestType
      BY <2>t DEF TypeInv
    <3>2. req'[r] = req[r] \/ req'[r] = [req[r] EXCEPT !.pc = "cut"]
      BY <2>3 DEF DrainDeadline
    <3> QED
      BY <3>1, <3>2 DEF RequestType
  <2> QED
    BY <2>t, <2>p, <2>1, <2>2, <2>3, EveryServeStep
       DEF Next, Startup, Tick, Replenish, ShutdownSignal, Drained, Land
<1>2. RedirectServable <=> [][A]_vars
  BY DEF RedirectServable
<1> HIDE DEF A
<1> QED
  BY <1>1, <1>2, InitPromise, PromiseStep, CoreInvariant, PTL DEF Spec

-----------------------------------------------------------------------------
(* Start-up *)

\* The configuration TryFrom writes out for no profile is the default one with
\* the settings over it, field by field.
LEMMA CustomAgrees ==
    ASSUME NEW n, NEW s
    PROVE  CustomPerformance(n, s) = apply_env_overrides(DefaultPerformance(n), s)
<1>1. ASSUME NEW f \in Overridable
      PROVE  CustomPerformance(n, s)[f] = Overridden(s, f, DefaultPerformance(n)[f])
  <2>1. CustomPerformance(n, s).max_concurrent_downloads
          = Overridden(s, "max_concurrent_downloads", DefaultPerformance(n).max_concurrent_downloads)
    BY Zenon DEF CustomPerformance, DefaultPerformance
  <2>2. CustomPerformance(n, s).max_concurrent_processing
          = Overridden(s, "max_concurrent_processing", DefaultPerformance(n).max_concurrent_processing)
    BY Zenon DEF CustomPerformance, DefaultPerformance
  <2>3. CustomPerformance(n, s).http_timeout
          = Overridden(s, "http_timeout", DefaultPerformance(n).http_timeout)
    BY Zenon DEF CustomPerformance, DefaultPerformance
  <2>4. CustomPerformance(n, s).max_image_size
          = Overridden(s, "max_image_size", DefaultPerformance(n).max_image_size)
    BY Zenon DEF CustomPerformance, DefaultPerformance
  <2>5. CustomPerformance(n, s).cpu_thread_pool_size
          = Overridden(s, "cpu_thread_pool_size", DefaultPerformance(n).cpu_thread_pool_size)
    BY Zenon DEF CustomPerformance, DefaultPerformance
  <2>6. CustomPerformance(n, s).enable_http2
          = Overridden(s, "enable_http2", DefaultPerformance(n).enable_http2)
    BY Zenon DEF CustomPerformance, DefaultPerformance
  <2>7. CustomPerformance(n, s).connection_pool_size
          = Overridden(s, "connection_pool_size", DefaultPerformance(n).connection_pool_size)
    BY Zenon DEF CustomPerformance, DefaultPerformance
  <2>8. CustomPerformance(n, s).keep_alive_timeout
          = Overridden(s, "keep_alive_timeout", DefaultPerformance(n).keep_alive_timeout)
    BY Zenon DEF CustomPerformance, DefaultPerformance
  <2>9. CustomPerformance(n, s).max_redirects
          = Overridden(s, "max_redirects", DefaultPerformance(n).max_redirects)
    BY Zenon DEF CustomPerformance, DefaultPerformance
  <2>10. CustomPerformance(n, s).max_src_resolution_mp
          = Overridden(s, "max_src_resolution_mp", DefaultPerformance(n).max_src_resolution_mp)
    BY Zenon DEF CustomPerformance, DefaultPerformance
  <2>11. CustomPerformance(n, s).max_output_width
          = Overridden(s, "max_output_width", DefaultPerformance(n).max_output_width)
    BY DEF CustomPerformance, DefaultPerformance
  <2>12. CustomPerformance(n, s).max_output_height
          = Overridden(s, "max_output_height", DefaultPerformance(n).max_output_height)
    BY DEF CustomPerformance, DefaultPerformance
  <2>13. CustomPerformance(n, s).max_animation_frames
          = Overridden(s, "max_animation_frames", DefaultPerformance(n).max_animation_frames)
    BY Zenon DEF CustomPerformance, DefaultPerformance
  <2>14. CustomPerformance(n, s).jpeg_progressive_default
          = Overridden(s, "jpeg_progressive_default", DefaultPerformance(n).jpeg_progressive_default)
    BY Zenon DEF CustomPerformance, DefaultPerformance
  <2>15. CustomPerformance(n, s).allowed_sources
          = Overridden(s, "allowed_sources",
                       DefaultPerformance(n).allowed_sources)
    BY Zenon DEF CustomPerformance, DefaultPerformance
  <2>16. CustomPerformance(n, s).allow_loopback_source_addresses
          = Overridden(s, "allow_loopback_source_addresses",
                       DefaultPerformance(n).allow_loopback_source_addresses)
    BY Zenon DEF CustomPerformance, DefaultPerformance
  <2>17. CustomPerformance(n, s).allow_link_local_source_addresses
          = Overridden(s, "allow_link_local_source_addresses",
                       DefaultPerformance(n).allow_link_local_source_addresses)
    BY Zenon DEF CustomPerformance, DefaultPerformance
  <2>18. CustomPerformance(n, s).watermark_url
          = Overridden(s, "watermark_url",
                       DefaultPerformance(n).watermark_url)
    BY Zenon DEF CustomPerformance, DefaultPerformance
  <2>19. CustomPerformance(n, s).jpeg_no_subsampling_default
          = Overridden(s, "jpeg_no_subsampling_default",
                       DefaultPerformance(n).jpeg_no_subsampling_default)
    BY Zenon DEF CustomPerformance, DefaultPerformance
  <2>20. f \in {"max_concurrent_downloads", "max_concurrent_processing", "http_timeout",
               "max_image_size", "cpu_thread_pool_size", "enable_http2",
               "connection_pool_size", "keep_alive_timeout", "max_redirects",
               "max_src_resolution_mp", "max_output_width", "max_output_height",
               "max_animation_frames", "jpeg_progressive_default", "allowed_sources",
               "allow_loopback_source_addresses", "allow_link_local_source_addresses",
               "watermark_url", "jpeg_no_subsampling_default"}
    BY DEF Overridable, DefaultPerformance
  <2> QED
    BY <2>1, <2>2, <2>3, <2>4, <2>5, <2>6, <2>7, <2>8, <2>9, <2>10, <2>11, <2>12, <2>13,
       <2>14, <2>15, <2>16, <2>17, <2>18, <2>19, <2>20, Zenon
<1>2. CustomPerformance(n, s)
        = [f \in DOMAIN CustomPerformance(n, s) |-> CustomPerformance(n, s)[f]]
  BY DEF CustomPerformance
<1>3. DOMAIN CustomPerformance(n, s) = Overridable
  BY DEF CustomPerformance, Overridable, DefaultPerformance
<1> QED
  BY <1>1, <1>2, <1>3 DEF apply_env_overrides

\* A process counts at least one CPU.
LEMMA CpuCount ==
    ASSUME NEW e \in Environments
    PROVE  effective_cpu_count(e.host) \in Nat \ {0}
<1>1. e.host.cpus \in Nat
  BY EnvironmentsAssumption
<1>2. ASSUME NEW file \in {e.host.v2, e.host.v1} PROVE IsSetting(ParseQuota(file), Nat)
  <2>0. IsSetting(file, [quota : Nat \cup {Unlimited}, period : Nat])
    BY EnvironmentsAssumption
  <2>1. CASE file = Unset \/ OrElse(file, <<>>).quota = Unlimited
    BY <2>1 DEF ParseQuota, IsSetting, Unset
  <2>2. CASE file # Unset /\ OrElse(file, <<>>).quota # Unlimited
    <3> DEFINE q == OrElse(file, <<>>).quota
               p == OrElse(file, <<>>).period
    <3>1. OrElse(file, <<>>) \in [quota : Nat \cup {Unlimited}, period : Nat]
      BY <2>0, <2>2 DEF OrElse, IsSetting, Unset
    <3>2. q \in Nat /\ p \in Nat
      BY <2>2, <3>1
    <3>3. ParseQuota(file) = quota_to_cpu_count(q, p)
      BY <2>2 DEF ParseQuota
    <3> HIDE DEF q, p
    <3>4. IsSetting(quota_to_cpu_count(q, p), Nat)
      <4>1. p # 0 => (q + p - 1) \div p \in Int
        BY <3>2
      <4> QED
        BY <3>2, <4>1 DEF quota_to_cpu_count, AtLeast, IsSetting, Unset, Given
    <3> QED
      BY <3>3, <3>4
  <2> QED
    BY <2>1, <2>2
<1>3. IsSetting(cgroup_cpu_quota(e.host), Nat)
  BY <1>2 DEF cgroup_cpu_quota
<1>4. OrElse(cgroup_cpu_quota(e.host), e.host.cpus) \in Nat
  BY <1>1, <1>3, OrElseType
<1> QED
  BY <1>1, <1>4 DEF effective_cpu_count, AtMost, AtLeast

\* The processing permits of a profile on a host with n CPUs.
LEMMA ProfilePermits ==
    ASSUME NEW n
    PROVE  /\ DefaultPerformance(n).max_concurrent_processing = n
           /\ high_throughput(n).max_concurrent_processing = 2 * n
           /\ low_latency(n).max_concurrent_processing = n
           /\ memory_efficient(n).max_concurrent_processing = n \div 2
           /\ "max_concurrent_processing" \in Overridable
<1>1. DefaultPerformance(n).max_concurrent_processing = n
  BY Zenon DEF DefaultPerformance
<1>2. "max_concurrent_processing" \in DOMAIN DefaultPerformance(n)
  BY Zenon DEF DefaultPerformance
<1>3. "max_concurrent_processing" \in Overridable
  BY Zenon DEF DefaultPerformance, Overridable
<1> HIDE DEF DefaultPerformance
<1>4. high_throughput(n).max_concurrent_processing = 2 * n
  BY <1>2, SMT DEF high_throughput
<1>5. low_latency(n).max_concurrent_processing = n
  BY <1>1, <1>2, SMT DEF low_latency
<1>6. memory_efficient(n).max_concurrent_processing = n \div 2
  BY <1>2, SMT DEF memory_efficient
<1> QED
  BY <1>1, <1>3, <1>4, <1>5, <1>6

\* A process that starts has the settings it was given over those of its
\* profile, and a processing permit unless the setting says zero or
\* memory_efficient halves a single CPU (config/performance).
THEOREM StartsAsConfigured == Spec => StartupSound
<1> DEFINE Sound(e) ==
             LET perf == OrElse(PerformanceTryFrom(e), DefaultPerformance(1))
                 n == effective_cpu_count(e.host)
             IN  /\ \A f \in DOMAIN e.settings : e.settings[f] \in {Unset, Given(perf[f])}
                 /\ e.performance_profile \in {"unset", "blank"} =>
                       perf = apply_env_overrides(DefaultPerformance(n), e.settings)
                 /\ config'.processing = 0 =>
                       \/ e.settings.max_concurrent_processing = Given(0)
                       \/ e.performance_profile = "memory_efficient" /\ n = 1
           A == phase = "starting" /\ phase' = "serving" => \A e \in env : Sound(e)
<1>1. CoreInv /\ [Next]_vars => [A]_vars
  <2> SUFFICES ASSUME CoreInv, Next, phase = "starting", phase' = "serving", NEW e \in env
               PROVE  Sound(e)
    OBVIOUS
  <2> DEFINE perf == OrElse(PerformanceTryFrom(e), DefaultPerformance(1))
             n == effective_cpu_count(e.host)
             s == e.settings
             base == CASE e.performance_profile \in {"unset", "blank"} -> DefaultPerformance(n)
                       [] e.performance_profile = "high_throughput"    -> high_throughput(n)
                       [] e.performance_profile = "low_latency"        -> low_latency(n)
                       [] OTHER                                        -> memory_efficient(n)
  <2>1. env \in {Unset} \cup {Given(x) : x \in Environments}
    BY DEF CoreInv, TypeInv
  <2>2. e \in Environments /\ env = {e}
    BY <2>1 DEF Unset, Given
  <2>3. Startup
    <3>1. ASSUME NEW r \in Requests, NEW route \in Routes, NEW header \in HeadersOf(route),
                 Arrive(r, route, header)
          PROVE  FALSE
      BY <3>1, Zenon DEF Arrive
    <3>2. ASSUME NEW r \in Requests,
                 \/ Handle(r) \/ Get(r) \/ Head(r) \/ Evict(r) \/ JoinFlight(r) \/ Work(r) \/ Put(r)
                 \/ Cancel(r)
          PROVE  FALSE
      <4>1. TypeInv
        BY DEF CoreInv
      <4>2. ServeStep(r)
        BY <3>2, <4>1, EveryServeStep
      <4> QED
        BY <4>2, Zenon DEF ServeStep
    <3>3. ~(Tick \/ Replenish \/ ShutdownSignal \/ Drained \/ DrainDeadline)
      BY DEF Tick, Replenish, ShutdownSignal, Drained, DrainDeadline
    <3>4. ASSUME NEW c \in detached, Land(c) PROVE FALSE
      BY <3>4 DEF Land
    <3> QED
      BY <3>1, <3>2, <3>3, <3>4, Zenon DEF Next
  <2>4. Accepted(e) /\ config' = ReadEnvironment(e, perf)
    BY <2>2, <2>3, Zenon DEF Startup
  <2>5. config'.processing = perf.max_concurrent_processing
    BY <2>4, Zenon DEF ReadEnvironment
  <2>6. n \in Nat \ {0}
    BY <2>2, CpuCount
  <2>7. perf = apply_env_overrides(base, s)
    <3>0. PerformanceTryFrom(e) # Unset
      BY <2>4 DEF Accepted
    <3>1. \A x, d : OrElse(Given(x), d) = x
      BY DEF OrElse, Given, Unset
    <3>2. CustomPerformance(n, s) = apply_env_overrides(DefaultPerformance(n), s)
      BY CustomAgrees
    <3> HIDE DEF n, s
    <3>3. PerformanceTryFrom(e) = Given(apply_env_overrides(base, s))
      BY <3>0, <3>2, Zenon DEF PerformanceTryFrom, n, s
    <3> QED
      BY <3>1, <3>3, Zenon
  <2>8. \A f \in Overridable : perf[f] = Overridden(s, f, base[f])
    BY <2>7, Zenon DEF apply_env_overrides
  <2>9. /\ DOMAIN s \subseteq Overridable
        /\ \A f \in DOMAIN s : IsSetting(s[f], s[f])
        /\ "max_concurrent_processing" \in DOMAIN s
        /\ IsSetting(s.max_concurrent_processing, Nat)
    BY <2>2, EnvironmentsAssumption, Zenon
  <2> HIDE DEF perf, n, s
  <2>10. ASSUME NEW f \in DOMAIN s PROVE s[f] \in {Unset, Given(perf[f])}
    <3>1. s[f] # Unset => perf[f] \in s[f]
      BY <2>8, <2>9 DEF Overridden, OrElse, Unset
    <3>2. \A v, w \in s[f] : v = w
      BY <2>9 DEF IsSetting
    <3> QED
      BY <3>1, <3>2 DEF Given, Unset
  <2>11. e.performance_profile \in {"unset", "blank"} =>
            perf = apply_env_overrides(DefaultPerformance(n), s)
    BY <2>7, Zenon
  <2>12. ASSUME config'.processing = 0,
                s.max_concurrent_processing # Given(0)
         PROVE  e.performance_profile = "memory_efficient" /\ n = 1
    <3>1. s.max_concurrent_processing \in {Unset, Given(0)}
      BY <2>5, <2>9, <2>10, <2>12
    <3>2. base.max_concurrent_processing = 0
      BY <2>5, <2>8, <2>9, <2>12, <3>1, Zenon DEF Overridden, OrElse
    <3>3. /\ DefaultPerformance(n).max_concurrent_processing = n
          /\ high_throughput(n).max_concurrent_processing = 2 * n
          /\ low_latency(n).max_concurrent_processing = n
          /\ memory_efficient(n).max_concurrent_processing = n \div 2
      BY ProfilePermits
    <3>4. 2 * n # 0 /\ n # 0 /\ (n \div 2 = 0 => n = 1)
      BY <2>6
    <3>5. e.performance_profile \in {"unset", "blank", "high_throughput", "low_latency", "memory_efficient"}
      <4>1. PerformanceTryFrom(e) # Unset
        BY <2>4 DEF Accepted
      <4> QED
        BY <4>1, Zenon DEF PerformanceTryFrom
    <3>6. e.performance_profile = "memory_efficient"
      BY <3>2, <3>3, <3>4, <3>5, Zenon
    <3>7. base = memory_efficient(n)
      BY <3>6
    <3> QED
      BY <3>2, <3>3, <3>4, <3>6, <3>7, Zenon
  <2> QED
    BY <2>10, <2>11, <2>12, Zenon DEF perf, n, s
<1>2. Spec => []CoreInv
  BY CoreInvariant
<1>3. Spec => [][Next]_vars
  BY PTL DEF Spec
<1> QED
  BY <1>1, <1>2, <1>3, PTL DEF StartupSound

=============================================================================
