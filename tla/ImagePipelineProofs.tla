------------------------ MODULE ImagePipelineProofs ------------------------
(***************************************************************************)
(* The semaphores of ImagePipeline, for any number of calls and any number *)
(* of permits: none is lost or made up and no waiter is forgotten,         *)
(* whichever way calls end.                                                *)
(***************************************************************************)
EXTENDS ImagePipeline, FiniteSetTheorems, SequenceTheorems, TLAPS

\* An image is left to fetch until the last download has ended.
FetchesLeft ==
    \A c \in Calls : pc[c] \in {"idle", "ask", "queue", "fetch"} => fetches[c] > 0

IInv == PipelineInv /\ NoLostWakeup /\ FetchesLeft

-----------------------------------------------------------------------------
(* Counting. *)

\* Counting one element more or less.
LEMMA CountOne ==
  ASSUME NEW S, NEW x, IsFiniteSet(S)
  PROVE  /\ Cardinality(S) \in Nat
         /\ x \notin S => Cardinality(S \cup {x}) = Cardinality(S) + 1
         /\ x \in S => Cardinality(S \ {x}) = Cardinality(S) - 1
  BY FS_CardinalityType, FS_AddElement, FS_RemoveElement

\* The calls that hold a permit are finitely many.
LEMMA FiniteParts ==
  /\ IsFiniteSet(Admitted) /\ IsFiniteSet(Fetching) /\ IsFiniteSet(Holding)
  /\ IsFiniteSet(Admitted') /\ IsFiniteSet(Fetching') /\ IsFiniteSet(Holding')
<1>1. \A S \in SUBSET Calls : IsFiniteSet(S)
  BY PipelineAssumption, FS_Subset
<1> QED
  BY <1>1 DEF Admitted, Fetching, Holding

-----------------------------------------------------------------------------
(* The queue. *)

\* NoLostWakeup, call by call.
QueueExact ==
    /\ \A c \in Calls : pc[c] = "queue" <=> \E i \in 1..Len(queue) : queue[i] = c
    /\ \A i, j \in 1..Len(queue) : queue[i] = queue[j] => i = j
    /\ queue # <<>> => downloadsFree = 0

\* NoLostWakeup in the form the steps are proved in.
LEMMA QueueExactly ==
  ASSUME queue \in Seq(Calls)
  PROVE  NoLostWakeup <=> QueueExact
<1>1. DOMAIN queue = 1..Len(queue) /\ \A i \in 1..Len(queue) : queue[i] \in Calls
  BY LenProperties, ElementOfSeq
<1> QED
  BY <1>1 DEF NoLostWakeup, QueueExact

\* The same in the next state.
LEMMA QueueExactlyNext ==
  ASSUME queue' \in Seq(Calls)
  PROVE  NoLostWakeup' <=> QueueExact'
<1>1. DOMAIN queue' = 1..Len(queue') /\ \A i \in 1..Len(queue') : queue'[i] \in Calls
  BY LenProperties, ElementOfSeq
<1> QED
  BY <1>1 DEF NoLostWakeup, QueueExact

\* A call that is not, and does not become, a waiter leaves the queue right.
LEMMA QueueKept ==
  ASSUME TypeOK, QueueExact, NEW c \in Calls, NEW s \in States \ {"queue"},
         pc[c] # "queue", pc' = [pc EXCEPT ![c] = s], UNCHANGED <<queue, downloadsFree>>
  PROVE  QueueExact'
  BY DEF TypeOK, QueueExact

\* Dropping a download permit: c leaves for `next`, the first waiter, if there
\* is one, gets the permit, and nobody else notices.
LEMMA ReleaseStep ==
  ASSUME TypeOK, QueueExact, NEW c \in Calls, pc[c] = "fetch",
         NEW next \in {"ask", "permit", "done"}, ReleaseDownload(c, next)
  PROVE  /\ pc' \in [Calls -> States]
         /\ downloadsFree' \in Nat
         /\ queue' \in Seq(Calls)
         /\ QueueExact'
         /\ pc'[c] = next
         /\ \A d \in Calls \ {c} : pc'[d] = pc[d] \/ (pc[d] = "queue" /\ pc'[d] = "fetch")
         /\ downloadsFree' + Cardinality(Fetching') = downloadsFree + Cardinality(Fetching)
<1> USE DEF TypeOK, States
<1>0. /\ c \in Fetching
      /\ Cardinality(Fetching) \in Nat
      /\ Cardinality(Fetching \ {c}) = Cardinality(Fetching) - 1
  BY FiniteParts, CountOne DEF Fetching
<1>1. CASE queue = <<>>
  <2>1. /\ downloadsFree' = downloadsFree + 1
        /\ pc' = [pc EXCEPT ![c] = next]
        /\ queue' = queue
    BY <1>1 DEF ReleaseDownload
  <2>2. Fetching' = Fetching \ {c}
    BY <2>1 DEF Fetching
  <2>3. QueueExact'
    BY <1>1, <2>1 DEF QueueExact
  <2> QED
    BY <1>0, <2>1, <2>2, <2>3
<1>2. CASE queue # <<>>
  <2> DEFINE h == Head(queue)
  <2>1. /\ pc' = [pc EXCEPT ![c] = next, ![h] = "fetch"]
        /\ queue' = Tail(queue)
        /\ downloadsFree' = downloadsFree
    BY <1>2 DEF ReleaseDownload
  <2>2. /\ h = queue[1] /\ h \in Calls
        /\ Len(queue) \in Nat \ {0}
        /\ Tail(queue) \in Seq(Calls)
        /\ Len(Tail(queue)) = Len(queue) - 1
        /\ \A i \in 1..Len(Tail(queue)) : Tail(queue)[i] = queue[i + 1]
    BY <1>2, HeadTailProperties, LenProperties, EmptySeq
  <2>3. pc[h] = "queue" /\ h # c
    BY <2>2 DEF QueueExact
  <2> HIDE DEF h
  <2>4. /\ pc'[h] = "fetch" /\ pc'[c] = next
        /\ \A d \in Calls \ {c, h} : pc'[d] = pc[d]
        /\ pc' \in [Calls -> States]
    BY <2>1, <2>2, <2>3
  <2>5. Fetching' = (Fetching \ {c}) \cup {h}
    BY <2>2, <2>4 DEF Fetching
  <2>6. Cardinality(Fetching') = Cardinality(Fetching)
    <3>1. h \notin Fetching \ {c} /\ IsFiniteSet(Fetching \ {c})
      BY <2>3, FiniteParts, FS_RemoveElement DEF Fetching
    <3>2. Cardinality((Fetching \ {c}) \cup {h}) = Cardinality(Fetching \ {c}) + 1
      BY <3>1, CountOne
    <3> QED
      BY <1>0, <2>5, <3>2
  <2>7. QueueExact'
    <3>1. ASSUME NEW d \in Calls
          PROVE  pc'[d] = "queue" <=> \E i \in 1..Len(queue') : queue'[i] = d
      <4>1. CASE d \in {c, h}
        <5>1. ~ \E i \in 1..Len(queue') : queue'[i] = d
          BY <4>1, <2>1, <2>2, <2>3 DEF QueueExact
        <5> QED
          BY <4>1, <5>1, <2>4
      <4>2. CASE d \notin {c, h}
        <5>1. pc'[d] = "queue" <=> \E i \in 1..Len(queue) : queue[i] = d
          BY <4>2, <2>4 DEF QueueExact
        <5>2. (\E i \in 1..Len(queue) : queue[i] = d) => \E i \in 1..Len(queue') : queue'[i] = d
          <6> SUFFICES ASSUME NEW i \in 1..Len(queue), queue[i] = d
                       PROVE  \E k \in 1..Len(queue') : queue'[k] = d
            OBVIOUS
          <6>1. i # 1
            BY <4>2, <2>2
          <6>2. i - 1 \in 1..Len(queue') /\ queue'[i - 1] = d
            BY <6>1, <2>1, <2>2
          <6> QED
            BY <6>2
        <5>3. (\E i \in 1..Len(queue') : queue'[i] = d) => \E i \in 1..Len(queue) : queue[i] = d
          BY <2>1, <2>2
        <5> QED
          BY <5>1, <5>2, <5>3
      <4> QED
        BY <4>1, <4>2
    <3>2. \A i, j \in 1..Len(queue') : queue'[i] = queue'[j] => i = j
      BY <2>1, <2>2 DEF QueueExact
    <3>3. downloadsFree' = 0
      BY <1>2, <2>1 DEF QueueExact
    <3> QED
      BY <3>1, <3>2, <3>3 DEF QueueExact
  <2>8. \A d \in Calls \ {c} : pc'[d] = pc[d] \/ (pc[d] = "queue" /\ pc'[d] = "fetch")
    BY <2>3, <2>4
  <2> QED
    BY <2>1, <2>2, <2>4, <2>6, <2>7, <2>8
<1> QED
  BY <1>1, <1>2

-----------------------------------------------------------------------------
(* The inductive invariant. *)

\* TypeOK without the upper bounds on the permits, which conservation gives.
TypeCore ==
    /\ pc \in [Calls -> States]
    /\ fetches \in [Calls -> 0..2]
    /\ answer \in [Calls -> Answers]
    /\ job \in [Calls -> JobStates]
    /\ outcome \in [Calls -> {"none", "ok", "error", "cancelled"}]
    /\ requestsFree \in Nat /\ downloadsFree \in Nat /\ processingFree \in Nat
    /\ queue \in Seq(Calls)

\* TypeOK without the bounds that follow from the rest.
LEMMA CoreOfType == TypeOK => TypeCore
  BY PipelineAssumption DEF TypeOK, TypeCore

\* How many permits are out, as numbers.
LEMMA Counted ==
  ASSUME TypeOK, PermitsConserved
  PROVE  /\ requestsFree \in Nat /\ downloadsFree \in Nat /\ processingFree \in Nat
         /\ Cardinality(Admitted) \in Nat /\ requestsFree + Cardinality(Admitted) = MaxRequests
         /\ Cardinality(Fetching) \in Nat /\ downloadsFree + Cardinality(Fetching) = MaxDownloads
         /\ Cardinality(Holding) \in Nat /\ processingFree + Cardinality(Holding) = MaxProcessing
<1>1. /\ Cardinality(Admitted) \in Nat
      /\ Cardinality(Fetching) \in Nat
      /\ Cardinality(Holding) \in Nat
  BY FiniteParts, FS_CardinalityType
<1> QED
  BY <1>1, CoreOfType DEF PermitsConserved, TypeCore

\* What each action is shown to keep adds up to the inductive invariant.
LEMMA Combine ==
  ASSUME TypeCore', PermitsConserved', QueueExact', NoSlotIdlesOnNetwork', FetchesLeft'
  PROVE  IInv'
<1>1. /\ Cardinality(Admitted') \in Nat
      /\ Cardinality(Fetching') \in Nat
      /\ Cardinality(Holding') \in Nat
  BY FiniteParts, FS_CardinalityType
<1>2. TypeOK'
  BY <1>1, PipelineAssumption DEF TypeCore, TypeOK, PermitsConserved
<1>3. NoLostWakeup'
  BY QueueExactlyNext DEF TypeCore
<1> QED
  BY <1>2, <1>3 DEF IInv, PipelineInv

\* Nobody is there at first.
LEMMA InitIInv == Init => IInv
<1> SUFFICES ASSUME Init PROVE IInv
  OBVIOUS
<1>1. TypeOK
  BY PipelineAssumption, EmptySeq DEF Init, TypeOK, States, Answers, JobStates
<1>2. Admitted = {} /\ Fetching = {} /\ Holding = {}
  BY DEF Init, Admitted, Fetching, Holding
<1>3. PermitsConserved
  BY <1>2, FS_EmptySet, PipelineAssumption DEF Init, PermitsConserved
<1>4. QueueExact
  BY EmptySeq DEF Init, QueueExact
<1>5. NoLostWakeup
  BY <1>1, <1>4, QueueExactly DEF TypeOK
<1>6. NoSlotIdlesOnNetwork /\ FetchesLeft
  BY DEF Init, NoSlotIdlesOnNetwork, FetchesLeft
<1> QED
  BY <1>1, <1>3, <1>5, <1>6 DEF IInv, PipelineInv

\* A call that waits for no download is answered and gone.
LEMMA LeaveStep ==
  ASSUME IInv, NEW c \in Calls, NEW a \in Answers,
         pc[c] \in {"ask", "permit", "await"},
         pc' = [pc EXCEPT ![c] = "done"], Respond(c, a),
         UNCHANGED <<fetches, job, outcome, downloadsFree, queue, processingFree>>
  PROVE  IInv'
<1>t. TypeCore
  BY CoreOfType DEF IInv, PipelineInv
<1> USE <1>t DEF IInv, PipelineInv, TypeCore
<1>1. TypeCore'
  BY DEF Respond, TypeCore, States
<1>2. Admitted' = Admitted \ {c} /\ c \in Admitted
  BY DEF Admitted
<1>3. Fetching' = Fetching /\ Holding' = Holding
  BY DEF Fetching, Holding
<1>4. PermitsConserved'
  <2>1. Cardinality(Admitted') = Cardinality(Admitted) - 1
    BY <1>2, FiniteParts, CountOne
  <2> QED
    BY <1>3, <2>1, Counted DEF PermitsConserved, Respond
<1>5. QueueExact'
  BY QueueKept, QueueExactly DEF States
<1>6. NoSlotIdlesOnNetwork' /\ FetchesLeft'
  BY DEF NoSlotIdlesOnNetwork, FetchesLeft
<1> QED
  BY <1>1, <1>4, <1>5, <1>6, Combine

\* A download ends with its call: the permit goes on, the call is gone.
LEMMA LeaveFetchStep ==
  ASSUME IInv, NEW c \in Calls, NEW a \in Answers, pc[c] = "fetch",
         ReleaseDownload(c, "done"), Respond(c, a),
         UNCHANGED <<fetches, job, outcome, processingFree>>
  PROVE  IInv'
<1>t. TypeCore
  BY CoreOfType DEF IInv, PipelineInv
<1> USE <1>t DEF IInv, PipelineInv, TypeCore
<1>0. QueueExact
  BY QueueExactly DEF TypeOK
<1>1. /\ pc' \in [Calls -> States]
      /\ downloadsFree' \in Nat
      /\ queue' \in Seq(Calls)
      /\ QueueExact'
      /\ pc'[c] = "done"
      /\ \A d \in Calls \ {c} : pc'[d] = pc[d] \/ (pc[d] = "queue" /\ pc'[d] = "fetch")
      /\ downloadsFree' + Cardinality(Fetching') = downloadsFree + Cardinality(Fetching)
  BY <1>0, ReleaseStep
<1>2. TypeCore'
  BY <1>1 DEF Respond
<1>3. Admitted' = Admitted \ {c} /\ c \in Admitted
  BY <1>1 DEF Admitted
<1>4. Holding' = Holding
  BY DEF Holding
<1>5. PermitsConserved'
  <2>1. Cardinality(Admitted') = Cardinality(Admitted) - 1
    BY <1>3, FiniteParts, CountOne
  <2> QED
    BY <1>1, <1>4, <2>1, Counted DEF PermitsConserved, Respond
<1>6. NoSlotIdlesOnNetwork' /\ FetchesLeft'
  BY <1>1 DEF NoSlotIdlesOnNetwork, FetchesLeft
<1> QED
  BY <1>1, <1>2, <1>5, <1>6, Combine

\* A closure moves on and keeps its permit.
LEMMA JobKeepsStep ==
  ASSUME IInv, NEW c \in Calls, job[c] \in {"queued", "cleared", "running"},
         NEW j \in {"cleared", "running", "sent"}, job' = [job EXCEPT ![c] = j],
         outcome' \in [Calls -> {"none", "ok", "error", "cancelled"}],
         UNCHANGED <<pc, fetches, answer, requestsFree, downloadsFree, queue, processingFree>>
  PROVE  IInv'
<1>t. TypeCore
  BY CoreOfType DEF IInv, PipelineInv
<1> USE <1>t DEF IInv, PipelineInv, TypeCore
<1>1. TypeCore'
  BY DEF TypeCore, JobStates
<1>2. Admitted' = Admitted /\ Fetching' = Fetching /\ Holding' = Holding
  BY DEF Admitted, Fetching, Holding, JobStates
<1>3. PermitsConserved'
  BY <1>2 DEF PermitsConserved
<1>4. QueueExact'
  BY QueueExactly DEF QueueExact
<1>5. NoSlotIdlesOnNetwork' /\ FetchesLeft'
  BY DEF NoSlotIdlesOnNetwork, FetchesLeft
<1> QED
  BY <1>1, <1>3, <1>4, <1>5, Combine

\* A closure is over and its permit dropped.
LEMMA JobOverStep ==
  ASSUME IInv, NEW c \in Calls, job[c] \in {"queued", "cleared", "running", "sent"},
         job' = [job EXCEPT ![c] = "over"],
         outcome' \in [Calls -> {"none", "ok", "error", "cancelled"}],
         processingFree' = processingFree + 1,
         UNCHANGED <<pc, fetches, answer, requestsFree, downloadsFree, queue>>
  PROVE  IInv'
<1>t. TypeCore
  BY CoreOfType DEF IInv, PipelineInv
<1> USE <1>t DEF IInv, PipelineInv, TypeCore
<1>1. TypeCore'
  BY DEF TypeCore, JobStates
<1>2. Admitted' = Admitted /\ Fetching' = Fetching
  BY DEF Admitted, Fetching
<1>3. Holding' = Holding \ {c} /\ c \in Holding
  BY DEF Holding, JobStates
<1>4. PermitsConserved'
  <2>1. Cardinality(Holding') = Cardinality(Holding) - 1
    BY <1>3, FiniteParts, CountOne
  <2> QED
    BY <1>2, <2>1, Counted DEF PermitsConserved
<1>5. QueueExact'
  BY QueueExactly DEF QueueExact
<1>6. NoSlotIdlesOnNetwork' /\ FetchesLeft'
  BY DEF NoSlotIdlesOnNetwork, FetchesLeft
<1> QED
  BY <1>1, <1>4, <1>5, <1>6, Combine

\* A request enters the middleware, or is shed there.
LEMMA EnterStep ==
  ASSUME IInv, NEW c \in Calls, Admit(c) \/ Shed(c)
  PROVE  IInv'
<1>t. TypeCore
  BY CoreOfType DEF IInv, PipelineInv
<1> USE <1>t DEF IInv, PipelineInv, TypeCore
<1>1. CASE Admit(c)
  <2> USE <1>1 DEF Admit
  <2>1. TypeCore'
    BY DEF TypeCore, States
  <2>2. Admitted' = Admitted \cup {c} /\ c \notin Admitted
    BY DEF Admitted
  <2>3. Fetching' = Fetching /\ Holding' = Holding
    BY DEF Fetching, Holding
  <2>4. PermitsConserved'
    <3>1. Cardinality(Admitted') = Cardinality(Admitted) + 1
      BY <2>2, FiniteParts, CountOne
    <3> QED
      BY <2>3, <3>1, Counted DEF PermitsConserved
  <2>5. QueueExact'
    BY QueueKept, QueueExactly DEF States
  <2>6. NoSlotIdlesOnNetwork' /\ FetchesLeft'
    BY DEF NoSlotIdlesOnNetwork, FetchesLeft
  <2> QED
    BY <2>1, <2>4, <2>5, <2>6, Combine
<1>2. CASE Shed(c)
  <2> USE <1>2 DEF Shed
  <2>1. TypeCore'
    BY DEF TypeCore, States, Answers
  <2>2. Admitted' = Admitted /\ Fetching' = Fetching /\ Holding' = Holding
    BY DEF Admitted, Fetching, Holding
  <2>3. PermitsConserved'
    BY <2>2 DEF PermitsConserved
  <2>4. QueueExact'
    BY QueueKept, QueueExactly DEF States
  <2>5. NoSlotIdlesOnNetwork' /\ FetchesLeft'
    BY DEF NoSlotIdlesOnNetwork, FetchesLeft
  <2> QED
    BY <2>1, <2>3, <2>4, <2>5, Combine
<1> QED
  BY <1>1, <1>2

\* A call takes a download permit or joins the waiters.
LEMMA AcquireStep ==
  ASSUME IInv, NEW c \in Calls, AcquireDownload(c)
  PROVE  IInv'
<1>t. TypeCore
  BY CoreOfType DEF IInv, PipelineInv
<1> USE <1>t DEF IInv, PipelineInv, TypeCore
<1>0. QueueExact /\ pc[c] = "ask" /\ Len(queue) \in Nat
  BY QueueExactly, LenProperties DEF AcquireDownload
<1>1. Holding' = Holding /\ UNCHANGED <<fetches, answer, job, outcome, requestsFree, processingFree>>
  BY DEF AcquireDownload, Holding
<1>2. CASE downloadsFree > 0
  <2>1. /\ downloadsFree' = downloadsFree - 1
        /\ pc' = [pc EXCEPT ![c] = "fetch"]
        /\ queue' = queue
    BY <1>2 DEF AcquireDownload
  <2>2. TypeCore'
    BY <1>1, <1>2, <2>1 DEF TypeCore, States
  <2>3. /\ Admitted' = Admitted
        /\ Fetching' = Fetching \cup {c} /\ c \notin Fetching
    BY <1>0, <2>1 DEF Admitted, Fetching
  <2>4. PermitsConserved'
    <3>1. Cardinality(Fetching') = Cardinality(Fetching) + 1
      BY <2>3, FiniteParts, CountOne
    <3> QED
      BY <1>1, <2>1, <2>3, <3>1, Counted DEF PermitsConserved
  <2>5. QueueExact'
    BY <1>0, <1>2, <2>1 DEF QueueExact
  <2>6. NoSlotIdlesOnNetwork' /\ FetchesLeft'
    BY <1>0, <1>1, <2>1 DEF NoSlotIdlesOnNetwork, FetchesLeft
  <2> QED
    BY <2>2, <2>4, <2>5, <2>6, Combine
<1>3. CASE downloadsFree = 0
  <2>1. /\ downloadsFree' = 0
        /\ pc' = [pc EXCEPT ![c] = "queue"]
        /\ queue' = Append(queue, c)
    BY <1>3 DEF AcquireDownload
  <2>2. /\ queue' \in Seq(Calls) /\ Len(queue') = Len(queue) + 1
        /\ \A i \in 1..Len(queue) : queue'[i] = queue[i]
        /\ queue'[Len(queue) + 1] = c
    BY <2>1, AppendProperties
  <2>3. TypeCore'
    BY <1>1, <2>1, <2>2 DEF TypeCore, States
  <2>4. Admitted' = Admitted /\ Fetching' = Fetching
    BY <1>0, <2>1 DEF Admitted, Fetching
  <2>5. PermitsConserved'
    BY <1>1, <1>3, <2>1, <2>4 DEF PermitsConserved
  <2>6. QueueExact'
    <3>1. \A i \in 1..Len(queue) : queue[i] # c
      BY <1>0 DEF QueueExact
    <3>2. \A i, j \in 1..Len(queue') : queue'[i] = queue'[j] => i = j
      BY <1>0, <2>2, <3>1 DEF QueueExact
    <3>3. ASSUME NEW d \in Calls
          PROVE  pc'[d] = "queue" <=> \E i \in 1..Len(queue') : queue'[i] = d
      <4>1. CASE d = c
        BY <1>0, <2>1, <2>2, <4>1
      <4>2. CASE d # c
        BY <1>0, <2>1, <2>2, <4>2 DEF QueueExact
      <4> QED
        BY <4>1, <4>2
    <3> QED
      BY <2>1, <3>2, <3>3 DEF QueueExact
  <2>7. NoSlotIdlesOnNetwork' /\ FetchesLeft'
    BY <1>0, <1>1, <2>1 DEF NoSlotIdlesOnNetwork, FetchesLeft
  <2> QED
    BY <2>3, <2>5, <2>6, <2>7, Combine
<1> QED
  BY <1>2, <1>3

\* A download succeeds: the permit goes on, the call asks again or goes on to
\* process_image.
LEMMA FetchOkStep ==
  ASSUME IInv, NEW c \in Calls, FetchOk(c)
  PROVE  IInv'
<1>t. TypeCore
  BY CoreOfType DEF IInv, PipelineInv
<1> USE <1>t DEF IInv, PipelineInv, TypeCore
<1> DEFINE next == IF fetches[c] = 2 THEN "ask" ELSE "permit"
<1>0. QueueExact /\ pc[c] = "fetch" /\ next \in {"ask", "permit"} /\ ReleaseDownload(c, next)
  BY QueueExactly DEF TypeOK, FetchOk
<1>1. /\ fetches' = [fetches EXCEPT ![c] = @ - 1]
      /\ UNCHANGED <<answer, job, outcome, requestsFree, processingFree>>
  BY DEF FetchOk
<1>2. /\ pc' \in [Calls -> States]
      /\ downloadsFree' \in Nat
      /\ queue' \in Seq(Calls)
      /\ QueueExact'
      /\ pc'[c] = next
      /\ \A d \in Calls \ {c} : pc'[d] = pc[d] \/ (pc[d] = "queue" /\ pc'[d] = "fetch")
      /\ downloadsFree' + Cardinality(Fetching') = downloadsFree + Cardinality(Fetching)
  BY <1>0, ReleaseStep
<1>3. fetches[c] \in 1..2
  BY <1>0 DEF FetchesLeft, TypeOK
<1>4. fetches' \in [Calls -> 0..2] /\ fetches'[c] = fetches[c] - 1
  BY <1>1, <1>3 DEF TypeOK
<1>5. TypeCore'
  BY <1>1, <1>2, <1>4 DEF TypeCore
<1>6. Admitted' = Admitted
  BY <1>0, <1>2 DEF Admitted
<1>7. Holding' = Holding
  BY <1>1 DEF Holding
<1>8. PermitsConserved'
  BY <1>1, <1>2, <1>6, <1>7 DEF PermitsConserved
<1>9. NoSlotIdlesOnNetwork'
  BY <1>0, <1>1, <1>2 DEF NoSlotIdlesOnNetwork
<1>10. FetchesLeft'
  <2> SUFFICES ASSUME NEW d \in Calls, pc'[d] \in {"idle", "ask", "queue", "fetch"}
               PROVE  fetches'[d] > 0
    BY DEF FetchesLeft
  <2>1. CASE d = c
    BY <2>1, <1>2, <1>3, <1>4
  <2>2. CASE d # c
    BY <2>2, <1>1, <1>2 DEF FetchesLeft, TypeOK
  <2> QED
    BY <2>1, <2>2
<1> QED
  BY <1>2, <1>5, <1>8, <1>9, <1>10, Combine

\* The processing permit moves into the closure.
LEMMA SpawnStep ==
  ASSUME IInv, NEW c \in Calls, SpawnJob(c)
  PROVE  IInv'
<1>t. TypeCore
  BY CoreOfType DEF IInv, PipelineInv
<1> USE <1>t DEF IInv, PipelineInv, TypeCore, SpawnJob
<1>1. TypeCore'
  BY DEF TypeCore, States, JobStates
<1>2. Admitted' = Admitted /\ Fetching' = Fetching
  BY DEF Admitted, Fetching
<1>3. Holding' = Holding \cup {c} /\ c \notin Holding
  BY DEF Holding, NoSlotIdlesOnNetwork
<1>4. PermitsConserved'
  <2>1. Cardinality(Holding') = Cardinality(Holding) + 1
    BY <1>3, FiniteParts, CountOne
  <2> QED
    BY <1>2, <2>1, Counted DEF PermitsConserved
<1>5. QueueExact'
  BY QueueKept, QueueExactly DEF States
<1>6. NoSlotIdlesOnNetwork' /\ FetchesLeft'
  BY DEF NoSlotIdlesOnNetwork, FetchesLeft
<1> QED
  BY <1>1, <1>4, <1>5, <1>6, Combine

\* A waiter is dropped and takes itself off the queue.
LEMMA DropQueuedStep ==
  ASSUME IInv, NEW c \in Calls, DropQueued(c)
  PROVE  IInv'
<1>t. TypeCore
  BY CoreOfType DEF IInv, PipelineInv
<1> USE <1>t DEF IInv, PipelineInv, TypeCore
<1>0. /\ QueueExact /\ Len(queue) \in Nat
      /\ \A i \in 1..Len(queue) : queue[i] \in Calls
  BY QueueExactly, LenProperties, ElementOfSeq
<1>1. /\ pc[c] = "queue"
      /\ pc' = [pc EXCEPT ![c] = "done"]
      /\ answer' = [answer EXCEPT ![c] = "timeout"]
      /\ requestsFree' = requestsFree + 1
      /\ UNCHANGED <<fetches, job, outcome, downloadsFree, processingFree>>
  BY DEF DropQueued, Respond
<1>2. PICK k \in 1..Len(queue) : queue[k] = c /\ queue' = RemoveAt(queue, k)
  BY DEF DropQueued
<1>3. /\ queue' \in Seq(Calls)
      /\ Len(queue') = Len(queue) - 1
      /\ \A i \in 1..Len(queue') : queue'[i] = queue[IF i < k THEN i ELSE i + 1]
  <2> DEFINE left == SubSeq(queue, 1, k - 1)
             right == SubSeq(queue, k + 1, Len(queue))
  <2>1. /\ left \in Seq(Calls) /\ Len(left) = k - 1
        /\ \A i \in 1..(k - 1) : left[i] = queue[i]
    BY <1>0, SubSeqProperties
  <2>2. /\ right \in Seq(Calls) /\ Len(right) = Len(queue) - k
        /\ \A i \in 1..(Len(queue) - k) : right[i] = queue[i + k]
    BY <1>0, SubSeqProperties
  <2>3. queue' = left \o right
    BY <1>2 DEF RemoveAt
  <2> HIDE DEF left, right
  <2>4. /\ left \o right \in Seq(Calls)
        /\ Len(left \o right) = Len(left) + Len(right)
        /\ \A i \in 1..(Len(left) + Len(right)) :
              (left \o right)[i] = IF i <= Len(left) THEN left[i] ELSE right[i - Len(left)]
    BY <2>1, <2>2, ConcatProperties
  <2>5. Len(left) = k - 1 /\ Len(right) = Len(queue) - k /\ Len(queue') = Len(queue) - 1
    BY <1>0, <2>1, <2>2, <2>3, <2>4
  <2>6. ASSUME NEW i \in 1..Len(queue')
        PROVE  queue'[i] = queue[IF i < k THEN i ELSE i + 1]
    <3>1. CASE i < k
      <4>1. i \in 1..(k - 1) /\ i <= Len(left) /\ i \in 1..(Len(left) + Len(right))
        BY <1>0, <2>5, <3>1
      <4> QED
        BY <2>1, <2>3, <2>4, <3>1, <4>1
    <3>2. CASE ~(i < k)
      <4>1. /\ i - (k - 1) \in 1..(Len(queue) - k)
            /\ ~(i <= Len(left)) /\ i \in 1..(Len(left) + Len(right))
        BY <1>0, <2>5, <3>2
      <4>2. queue'[i] = right[i - (k - 1)]
        BY <2>3, <2>4, <2>5, <4>1
      <4>3. right[i - (k - 1)] = queue[i - (k - 1) + k] /\ i - (k - 1) + k = i + 1
        BY <2>2, <4>1
      <4> QED
        BY <3>2, <4>2, <4>3
    <3> QED
      BY <3>1, <3>2
  <2> QED
    BY <2>3, <2>4, <2>5, <2>6
<1>4. TypeCore'
  BY <1>1, <1>3 DEF TypeCore, States, Answers
<1>5. /\ Admitted' = Admitted \ {c} /\ c \in Admitted
      /\ Fetching' = Fetching /\ Holding' = Holding
  BY <1>1 DEF Admitted, Fetching, Holding
<1>6. PermitsConserved'
  <2>1. Cardinality(Admitted') = Cardinality(Admitted) - 1
    BY <1>5, FiniteParts, CountOne
  <2> QED
    BY <1>1, <1>5, <2>1, Counted DEF PermitsConserved
<1>7. QueueExact'
  <2>1. ASSUME NEW i \in 1..Len(queue'), NEW j \in 1..Len(queue'), queue'[i] = queue'[j]
        PROVE  i = j
    <3> DEFINE at(n) == IF n < k THEN n ELSE n + 1
    <3>1. at(i) \in 1..Len(queue) /\ at(j) \in 1..Len(queue)
      BY <1>0, <1>3
    <3>2. queue[at(i)] = queue[at(j)]
      BY <1>3, <2>1
    <3>3. at(i) = at(j)
      BY <1>0, <3>1, <3>2 DEF QueueExact
    <3> QED
      BY <3>3
  <2>2. ASSUME NEW d \in Calls, pc'[d] = "queue"
        PROVE  \E i \in 1..Len(queue') : queue'[i] = d
    <3>1. d # c /\ pc[d] = "queue"
      BY <1>1, <2>2
    <3>2. PICK i \in 1..Len(queue) : queue[i] = d
      BY <1>0, <3>1 DEF QueueExact
    <3>3. i # k
      BY <1>2, <3>1, <3>2
    <3>4. CASE i < k
      <4>1. i \in 1..Len(queue') /\ queue'[i] = d
        BY <1>0, <1>3, <3>2, <3>4
      <4> QED
        BY <4>1
    <3>5. CASE i > k
      <4>1. i - 1 \in 1..Len(queue') /\ queue'[i - 1] = d
        BY <1>0, <1>3, <3>2, <3>5
      <4> QED
        BY <4>1
    <3> QED
      BY <3>3, <3>4, <3>5
  <2>3. ASSUME NEW d \in Calls, NEW i \in 1..Len(queue'), queue'[i] = d
        PROVE  pc'[d] = "queue"
    <3> DEFINE m == IF i < k THEN i ELSE i + 1
    <3>1. m \in 1..Len(queue) /\ m # k /\ queue[m] = d
      BY <1>0, <1>3, <2>3
    <3>2. d # c /\ pc[d] = "queue"
      BY <1>0, <1>2, <3>1 DEF QueueExact
    <3> QED
      BY <1>1, <3>2
  <2>4. queue' # <<>> => downloadsFree' = 0
    BY <1>0, <1>1, <1>2, EmptySeq DEF QueueExact
  <2> QED
    BY <2>1, <2>2, <2>3, <2>4 DEF QueueExact
<1>8. NoSlotIdlesOnNetwork' /\ FetchesLeft'
  BY <1>1 DEF NoSlotIdlesOnNetwork, FetchesLeft
<1> QED
  BY <1>4, <1>6, <1>7, <1>8, Combine

\* Every step keeps the invariant.
LEMMA StepIInv == IInv /\ [Next]_vars => IInv'
<1> SUFFICES ASSUME IInv, [Next]_vars PROVE IInv'
  OBVIOUS
<1>0. TypeOK
  BY DEF IInv, PipelineInv
<1>1. ASSUME NEW c \in Calls, Admit(c) \/ Shed(c) PROVE IInv'
  BY <1>1, EnterStep
<1>2. ASSUME NEW c \in Calls, AcquireDownload(c) PROVE IInv'
  BY <1>2, AcquireStep
<1>3. ASSUME NEW c \in Calls, Fetch(c) PROVE IInv'
  <2>1. CASE FetchOk(c)
    BY <2>1, FetchOkStep
  <2>2. CASE FetchErr(c)
    BY <2>2, LeaveFetchStep DEF FetchErr, Answers
  <2> QED
    BY <1>3, <2>1, <2>2 DEF Fetch
<1>4. ASSUME NEW c \in Calls, NoWatermarkUrl(c) PROVE IInv'
  BY <1>4, LeaveStep DEF NoWatermarkUrl, Answers
<1>5. ASSUME NEW c \in Calls, Process(c) PROVE IInv'
  <2>1. CASE SpawnJob(c)
    BY <2>1, SpawnStep
  <2>2. CASE NoPermit(c)
    BY <2>2, LeaveStep DEF NoPermit, Answers
  <2> QED
    BY <1>5, <2>1, <2>2 DEF Process
<1>6. ASSUME NEW c \in Calls, Receive(c) PROVE IInv'
  <2>1. outcome[c] \in Answers
    BY <1>0 DEF TypeOK, Answers
  <2> QED
    BY <1>6, <2>1, LeaveStep DEF Receive
<1>7. ASSUME NEW c \in Calls, Job(c) PROVE IInv'
  <2>1. CASE JobSkips(c)
    BY <1>0, <2>1, JobOverStep DEF JobSkips, TypeOK
  <2>2. CASE JobLooks(c) \/ JobStarts(c)
    BY <1>0, <2>2, JobKeepsStep DEF JobLooks, JobStarts, TypeOK
  <2>3. CASE JobSends(c)
    <3>1. outcome' \in [Calls -> {"none", "ok", "error", "cancelled"}]
      BY <1>0, <2>3 DEF JobSends, TypeOK
    <3> QED
      BY <2>3, <3>1, JobKeepsStep DEF JobSends
  <2>4. CASE JobEnds(c)
    BY <1>0, <2>4, JobOverStep DEF JobEnds, TypeOK
  <2>5. CASE JobPanics(c)
    <3>1. outcome' \in [Calls -> {"none", "ok", "error", "cancelled"}]
      BY <1>0, <2>5 DEF JobPanics, TypeOK
    <3> QED
      BY <2>5, <3>1, JobOverStep DEF JobPanics
  <2> QED
    BY <1>7, <2>1, <2>2, <2>3, <2>4, <2>5 DEF Job
<1>8. ASSUME NEW c \in Calls, Drop(c) PROVE IInv'
  <2>1. CASE DropQueued(c)
    BY <2>1, DropQueuedStep
  <2>2. CASE DropFetching(c)
    BY <2>2, LeaveFetchStep DEF DropFetching, Answers
  <2>3. CASE DropAwaiting(c)
    BY <2>3, LeaveStep DEF DropAwaiting, Answers
  <2> QED
    BY <1>8, <2>1, <2>2, <2>3 DEF Drop
<1>9. CASE UNCHANGED vars
  BY <1>9 DEF vars, IInv, PipelineInv, TypeOK, PermitsConserved, NoSlotIdlesOnNetwork,
              NoLostWakeup, FetchesLeft, Admitted, Fetching, Holding
<1> QED
  BY <1>1, <1>2, <1>3, <1>4, <1>5, <1>6, <1>7, <1>8, <1>9 DEF Next

\* The inductive invariant holds throughout.
LEMMA AlwaysIInv == Spec => []IInv
  BY InitIInv, StepIInv, PTL DEF Spec

-----------------------------------------------------------------------------
(* Theorems. *)

\* No permit of the middleware, of download_semaphore or of
\* processing_semaphore is lost or made up, however calls end (answered, shed,
\* dropped at an await, abandoned with a job running, panicking), and a
\* processing permit is never held by a call that waits on the network.
THEOREM PermitsAccountedFor == Spec => []PipelineInv
<1>1. IInv => PipelineInv
  BY DEF IInv
<1> QED
  BY <1>1, AlwaysIInv, PTL

\* Whoever waits in download_semaphore.acquire() is in its queue, once, and
\* nobody waits while a permit is free: no wake-up is lost when waiters are
\* dropped or permits come back.
THEOREM WaitersNotForgotten == Spec => []NoLostWakeup
<1>1. IInv => NoLostWakeup
  BY DEF IInv
<1> QED
  BY <1>1, AlwaysIInv, PTL

=============================================================================
