------------------------- MODULE SingleFlightProofs -------------------------
(***************************************************************************)
(* Theorems about SingleFlight, for any set of requests and keys.          *)
(***************************************************************************)
EXTENDS SingleFlight, TLAPS

\* A finished call's flattened result is something a channel can carry.
LEMMA FlattenType ==
    ASSUME NEW res \in {"ok"} \cup Errors
    PROVE  Flatten(res) \in InFlightResults
  BY DEF Flatten, InFlightResults, Errors

\* `resize` starts with an empty registry and no channel.
LEMMA InitIInv == Init => IInv
<1> SUFFICES ASSUME Init PROVE IInv
  OBVIOUS
<1> USE ConstantsAssumption DEF Init
<1>1. TypeOK
  BY DEF TypeOK, States, Results, Versions, NoObject
<1>2. RegistryExact
  BY DEF RegistryExact, GuardAlive, Working
<1>3. FollowersAttached /\ FollowersReceived
  BY DEF FollowersAttached, FollowersReceived
<1>4. ChannelsCarryResult /\ GuardHoldsResult
  BY DEF ChannelsCarryResult, GuardHoldsResult, InFlightResults, Errors,
         GuardAlive, Working, NoResult
<1> QED
  BY <1>1, <1>2, <1>3, <1>4 DEF IInv

\* Every step keeps the variables in their types.
LEMMA TypeStep == TypeOK /\ [Next]_vars => TypeOK'
<1> SUFFICES ASSUME TypeOK, [Next]_vars PROVE TypeOK'
  OBVIOUS
<1> USE ConstantsAssumption
    DEF TypeOK, States, Results, Versions, NoObject, NoResult, Goto,
        Forget, registryVars, worldVars
<1>1. ASSUME NEW r \in Requests,
             Arrive(r) \/ CheckHit(r) \/ CheckMiss(r) \/ BecomeLeader(r)
             \/ JoinInFlight(r)
      PROVE TypeOK'
  BY <1>1 DEF Arrive, CheckHit, CheckMiss, BecomeLeader, JoinInFlight
<1>2. ASSUME NEW r \in Requests, Receive(r) PROVE TypeOK'
  BY <1>2 DEF Receive, InFlightResults
<1>3. ASSUME NEW r \in Requests, LeaderWork(r) PROVE TypeOK'
  <2>1. CASE DownloadOk(r) \/ ProcessOk(r)
    BY <2>1 DEF DownloadOk, ProcessOk
  <2>2. CASE DownloadErr(r) \/ ProcessErr(r)
    <3>1. PICK e \in Errors : Finish(r, e)
      BY <2>2 DEF DownloadErr, ProcessErr, DownloadErrors, ProcessErrors, Errors
    <3>2. Flatten(e) \in InFlightResults
      BY FlattenType
    <3> QED
      BY <2>2, <3>1, <3>2 DEF Finish, DownloadErr, ProcessErr
  <2>3. CASE UploadOk(r) \/ UploadErr(r)
    <3>1. PICK e \in {"ok", "upstream"} : Finish(r, e)
      BY <2>3 DEF UploadOk, UploadErr
    <3>2. e \in {"ok"} \cup Errors /\ Flatten(e) \in InFlightResults
      BY FlattenType DEF Errors
    <3> QED
      BY <2>3, <3>1, <3>2 DEF Finish, UploadOk, UploadErr, Put
  <2> QED
    BY <1>3, <2>1, <2>2, <2>3 DEF LeaderWork
<1>4. ASSUME NEW r \in Requests, DropRemove(r) \/ DropSend(r) PROVE TypeOK'
  BY <1>4 DEF DropRemove, DropSend, InFlightResults, Errors
<1>5. ASSUME NEW r \in Requests,
             CancelOutside(r) \/ CancelLeader(r) \/ DetachedWrite(r)
      PROVE TypeOK'
  BY <1>5 DEF CancelOutside, CancelLeader, DetachedWrite, Put
<1>6. ASSUME NEW k \in Keys, OriginChanges(k) \/ Evict(k) PROVE TypeOK'
  BY <1>6 DEF OriginChanges, Evict
<1>7. CASE UNCHANGED vars
  BY <1>7 DEF vars
<1> QED
  BY <1>1, <1>2, <1>3, <1>4, <1>5, <1>6, <1>7 DEF Next

\* The four relations between requests, registry and channels.
Relations ==
    /\ RegistryExact
    /\ FollowersAttached
    /\ ChannelsCarryResult
    /\ GuardHoldsResult
    /\ FollowersReceived

\* The end of a leader's work, however it ended, keeps the relations: the
\* result is recorded in the guard and nothing is registered or sent yet.
LEMMA FinishStep ==
    ASSUME IInv, NEW r \in Requests, pc[r] \in Working,
           NEW res \in {"ok"} \cup Errors, Finish(r, res),
           UNCHANGED <<key, inFlight, channel, subscribed>>
    PROVE  Relations'
<1> USE ConstantsAssumption DEF IInv, TypeOK, Finish, Goto, GuardAlive, Working
<1>1. RegistryExact'
  BY DEF RegistryExact
<1>2. FollowersAttached'
  BY DEF FollowersAttached
<1>3. res # "dropped" /\ res # "pending"
  BY DEF Errors
<1>4. ChannelsCarryResult'
  BY DEF ChannelsCarryResult, InFlightResults, Errors
<1>5. GuardHoldsResult'
  BY <1>3 DEF GuardHoldsResult
<1>6. FollowersReceived'
  BY DEF FollowersReceived
<1> QED
  BY <1>1, <1>2, <1>4, <1>5, <1>6 DEF Relations

\* Every step keeps the relations.
LEMMA RelationsStep == IInv /\ [Next]_vars => Relations'
<1> SUFFICES ASSUME IInv, [Next]_vars PROVE Relations'
  OBVIOUS
<1> USE ConstantsAssumption
    DEF IInv, TypeOK, RegistryExact, FollowersAttached, ChannelsCarryResult,
        GuardHoldsResult, FollowersReceived, GuardAlive, Working, Goto,
        InFlightResults, Errors, registryVars, worldVars
<1>1. ASSUME NEW r \in Requests, Arrive(r) PROVE Relations'
  BY <1>1 DEF Relations, Arrive
<1>2. ASSUME NEW r \in Requests, CheckHit(r) PROVE Relations'
  BY <1>2 DEF Relations, CheckHit
<1>3. ASSUME NEW r \in Requests, CheckMiss(r) PROVE Relations'
  BY <1>3 DEF Relations, CheckMiss
<1>4. ASSUME NEW r \in Requests, BecomeLeader(r) PROVE Relations'
  BY <1>4 DEF Relations, BecomeLeader
<1>5. ASSUME NEW r \in Requests, JoinInFlight(r) PROVE Relations'
  BY <1>5 DEF Relations, JoinInFlight
<1>6. ASSUME NEW r \in Requests, Receive(r) PROVE Relations'
  BY <1>6 DEF Relations, Receive
<1>7. ASSUME NEW r \in Requests, DropRemove(r) PROVE Relations'
  BY <1>7 DEF Relations, DropRemove
<1>8. ASSUME NEW r \in Requests, DropSend(r) PROVE Relations'
  BY <1>8 DEF Relations, DropSend, Broadcast, Flatten, NoResult, Results
<1>9. ASSUME NEW r \in Requests, CancelOutside(r) PROVE Relations'
  BY <1>9 DEF Relations, CancelOutside
<1>10. ASSUME NEW r \in Requests, CancelLeader(r) PROVE Relations'
  BY <1>10 DEF Relations, CancelLeader
<1>11. ASSUME NEW r \in Requests, DetachedWrite(r) PROVE Relations'
  BY <1>11 DEF Relations, DetachedWrite
<1>12. ASSUME NEW r \in Requests, LeaderWork(r) PROVE Relations'
  <2>1. CASE DownloadOk(r) \/ ProcessOk(r)
    BY <2>1 DEF Relations, DownloadOk, ProcessOk
  <2>2. CASE DownloadErr(r) \/ ProcessErr(r) \/ UploadOk(r) \/ UploadErr(r)
    <3>1. PICK e \in {"ok"} \cup Errors : Finish(r, e)
      BY <2>2 DEF DownloadErr, ProcessErr, UploadOk, UploadErr, DownloadErrors,
                  ProcessErrors, Errors
    <3>2. pc[r] \in Working /\ UNCHANGED <<key, inFlight, channel, subscribed>>
      BY <2>2 DEF DownloadErr, ProcessErr, UploadOk, UploadErr
    <3> QED
      BY <3>1, <3>2, FinishStep
  <2> QED
    BY <1>12, <2>1, <2>2 DEF LeaderWork
<1>13. ASSUME NEW k \in Keys, OriginChanges(k) \/ Evict(k) PROVE Relations'
  BY <1>13 DEF Relations, OriginChanges, Evict
<1>14. CASE UNCHANGED vars
  BY <1>14 DEF Relations, vars
<1> QED
  BY <1>1, <1>2, <1>3, <1>4, <1>5, <1>6, <1>7, <1>8, <1>9, <1>10, <1>11, <1>12, <1>13, <1>14 DEF Next

-----------------------------------------------------------------------------

\* IInv is an inductive invariant of the protocol.
THEOREM Invariance == Spec => []IInv
<1>1. IInv /\ [Next]_vars => IInv'
  BY TypeStep, RelationsStep DEF IInv, Relations
<1> QED
  BY InitIInv, <1>1, PTL DEF Spec

\* Type correctness of SingleFlight: no step of `resize`, of its guard or of
\* the world around it leaves the declared types.
THEOREM TypeCorrect == Spec => []TypeOK
  BY Invariance, PTL DEF IInv

\* The registry names exactly the leaders whose guard is alive: a key never
\* has two, and a guard only ever removes its own entry.
THEOREM OneLeaderPerKey == Spec => []RegistryExact
  BY Invariance, PTL DEF IInv

\* Whatever fails, panics or is dropped, a waiting follower's leader has yet
\* to broadcast or has already done so.
THEOREM FollowersNeverOrphaned == Spec => []FollowersAttached
  BY Invariance, PTL DEF IInv

\* The registry of `resize` is in order: the three facts above as one.
THEOREM RegistryInOrder == Spec => []RegistryInv
  BY TypeCorrect, OneLeaderPerKey, FollowersNeverOrphaned, PTL DEF RegistryInv

\* A follower answers with its leader's result, or "cancelled" if the leader
\* was dropped before it had one.
THEOREM FollowersAgree == Spec => []FollowersShareResult
<1>1. IInv => FollowersShareResult
  BY DEF IInv, TypeOK, FollowersShareResult, FollowersReceived, ChannelsCarryResult
<1> QED
  BY <1>1, Invariance, PTL

\* No request subscribes to a channel that has already been used.
THEOREM FreshAttempt == Spec => NoJoinOfCompleted
<1> DEFINE A == \A r \in Requests :
                   subscribed'[r] # subscribed[r] =>
                       channel[subscribed'[r]] = "open" /\ pc[subscribed'[r]] # "done"
<1>1. ASSUME IInv, [Next]_vars PROVE [A]_vars
  <2> SUFFICES ASSUME NEW q \in Requests, subscribed'[q] # subscribed[q]
               PROVE  channel[subscribed'[q]] = "open" /\ pc[subscribed'[q]] # "done"
    BY DEF vars
  <2>1. JoinInFlight(q)
    <3>1. PICK r \in Requests : JoinInFlight(r)
      BY <1>1 DEF Next, vars, registryVars, LeaderWork, Arrive, CheckHit, CheckMiss,
                  BecomeLeader, Receive, DownloadOk, DownloadErr, ProcessOk,
                  ProcessErr, UploadOk, UploadErr, DropRemove, DropSend,
                  CancelOutside, CancelLeader, DetachedWrite, OriginChanges, Evict
    <3>2. r = q
      BY <1>1, <3>1 DEF JoinInFlight, IInv, TypeOK
    <3> QED
      BY <3>1, <3>2
  <2>2. subscribed'[q] = inFlight[key[q]] /\ inFlight[key[q]] \in Requests
    BY <1>1, <2>1 DEF JoinInFlight, IInv, TypeOK
  <2>3. pc[inFlight[key[q]]] \in GuardAlive
    BY <1>1, <2>2 DEF IInv, TypeOK, RegistryExact
  <2> QED
    BY <1>1, <2>2, <2>3 DEF IInv, ChannelsCarryResult, GuardAlive, Working
<1> QED
  BY <1>1, Invariance, PTL DEF Spec, NoJoinOfCompleted

-----------------------------------------------------------------------------

\* Whatever was answered "ok" is in storage, if its kind of object stays.
StoreInv == UploadsCarryBytes /\ OkMeansStored

\* Every step keeps the invariant of the store.
LEMMA StoreStep ==
    ASSUME IInv, StoreInv, [Next]_vars
    PROVE  StoreInv'
<1> USE ConstantsAssumption
    DEF IInv, TypeOK, StoreInv, UploadsCarryBytes, OkMeansStored, Versions,
        NoObject, Goto, Forget, registryVars, worldVars
<1>1. ASSUME NEW r \in Requests,
             Arrive(r) \/ CheckHit(r) \/ CheckMiss(r) \/ BecomeLeader(r)
             \/ JoinInFlight(r) \/ DropRemove(r) \/ DropSend(r)
      PROVE StoreInv'
  BY <1>1 DEF Arrive, CheckHit, CheckMiss, BecomeLeader, JoinInFlight,
              DropRemove, DropSend
<1>2. ASSUME NEW r \in Requests, Receive(r) PROVE StoreInv'
  <2>1. /\ subscribed[r] \in Requests
        /\ key[subscribed[r]] = key[r]
        /\ result'[r] = Broadcast(result[subscribed[r]])
    BY <1>2 DEF Receive, FollowersAttached, ChannelsCarryResult
  <2>2. result'[r] = "ok" => result[subscribed[r]] = "ok"
    BY <2>1 DEF Broadcast, Flatten
  <2> QED
    BY <1>2, <2>1, <2>2 DEF Receive
<1>3. ASSUME NEW r \in Requests, DownloadOk(r) \/ ProcessOk(r) PROVE StoreInv'
  <2>1. CASE DownloadOk(r)
    <3>1. origin[key[r]] # NoObject
      BY <1>3
    <3> QED
      BY <2>1, <3>1 DEF DownloadOk
  <2>2. CASE ProcessOk(r)
    BY <2>2 DEF ProcessOk
  <2> QED
    BY <1>3, <2>1, <2>2
<1>4. ASSUME NEW r \in Requests, DownloadErr(r) \/ ProcessErr(r) PROVE StoreInv'
  BY <1>4 DEF DownloadErr, ProcessErr, Finish, DownloadErrors, ProcessErrors
<1>5. ASSUME NEW r \in Requests, UploadOk(r) \/ UploadErr(r) PROVE StoreInv'
  BY <1>5 DEF UploadOk, UploadErr, Finish, Put
<1>6. ASSUME NEW r \in Requests, CancelOutside(r) \/ CancelLeader(r) PROVE StoreInv'
  BY <1>6 DEF CancelOutside, CancelLeader, Working
<1>7. ASSUME NEW r \in Requests, DetachedWrite(r) PROVE StoreInv'
  BY <1>7 DEF DetachedWrite, Put
<1>8. ASSUME NEW k \in Keys, OriginChanges(k) \/ Evict(k) PROVE StoreInv'
  BY <1>8 DEF OriginChanges, Evict
<1>9. CASE UNCHANGED vars
  BY <1>9 DEF vars
<1> QED
  BY <1>1, <1>2, <1>3, <1>4, <1>5, <1>6, <1>7, <1>8, <1>9 DEF Next, LeaderWork

\* A call answered with a CDN URL names an object that is in storage, unless
\* objects of its key may be removed behind the service's back.
THEOREM UrlsAreServed == Spec => []OkMeansStored
<1>1. Init => StoreInv
  BY DEF Init, StoreInv, UploadsCarryBytes, OkMeansStored
<1>2. IInv /\ StoreInv /\ [Next]_vars => StoreInv'
  BY StoreStep
<1> QED
  BY <1>1, <1>2, Invariance, PTL DEF Spec, StoreInv

-----------------------------------------------------------------------------

\* The keys with an object, as the contract sees them.
storedKeys == {k \in Keys : k \in Evictable \/ store[k] # NoObject}

\* An upload makes its key's object appear in the contract, or changes nothing
\* the contract can see.
LEMMA PutMaterialises ==
    ASSUME IInv, StoreInv, NEW r \in Requests, pc[r] # "idle", Put(r),
           bytes[r] # NoObject, UNCHANGED <<answer, key>>
    PROVE  \E k \in Keys : Contract!Materialise(k)
<1>1. key[r] \in Keys /\ answer[r] # "none"
  BY DEF IInv, TypeOK, answer
<1>2. storedKeys' = storedKeys \cup {key[r]}
  BY DEF IInv, TypeOK, Put, storedKeys
<1> QED
  BY <1>1, <1>2 DEF Contract!Materialise, storedKeys

\* A step the contract cannot see.
Hidden == UNCHANGED Contract!vars

\* Every step of the protocol is a step of the contract or one it cannot see.
LEMMA ContractStep ==
    ASSUME IInv, StoreInv, [Next]_vars
    PROVE  [Contract!Next]_(Contract!vars)
<1>0. (UNCHANGED <<answer, key, store>>) => Hidden
  BY DEF Hidden, Contract!vars
<1> USE DEF IInv, TypeOK
<1>1. ASSUME NEW r \in Requests, Arrive(r) PROVE Contract!Submit(r)
  BY <1>1 DEF Arrive, Goto, answer, Contract!Submit, worldVars
<1>2. ASSUME NEW r \in Requests, CheckHit(r) PROVE Contract!AnswerUrl(r)
  BY <1>2 DEF CheckHit, Goto, answer, Contract!AnswerUrl, worldVars
<1>3. ASSUME NEW r \in Requests,
             CheckMiss(r) \/ BecomeLeader(r) \/ JoinInFlight(r) \/ DropRemove(r)
      PROVE Hidden
  BY <1>0, <1>3 DEF CheckMiss, BecomeLeader, JoinInFlight, DropRemove, Goto,
                    answer, worldVars
<1>4. ASSUME NEW r \in Requests, Receive(r) \/ DropSend(r)
      PROVE Contract!AnswerUrl(r) \/ Contract!AnswerFailure(r)
  <2>1. StoreInv'
    BY StoreStep, <1>4 DEF Next
  <2>2. result'[r] = "ok" => key[r] \in Evictable \/ store[key[r]] # NoObject
    BY <2>1, <1>4 DEF StoreInv, OkMeansStored, Receive, DropSend, worldVars
  <2>3. CASE result'[r] = "ok"
    BY <1>4, <2>2, <2>3 DEF Receive, DropSend, Goto, answer, Contract!AnswerUrl,
                            worldVars
  <2>4. CASE result'[r] # "ok"
    BY <1>4, <2>4 DEF Receive, DropSend, Goto, answer, Contract!AnswerFailure,
                      worldVars
  <2> QED
    BY <2>3, <2>4
<1>5. ASSUME NEW r \in Requests, DownloadOk(r) \/ ProcessOk(r) PROVE Hidden
  BY <1>0, <1>5 DEF DownloadOk, ProcessOk, Goto, answer, worldVars
<1>6. ASSUME NEW r \in Requests, DownloadErr(r) \/ ProcessErr(r) PROVE Hidden
  BY <1>0, <1>6 DEF DownloadErr, ProcessErr, Finish, Goto, answer, worldVars
<1>7. ASSUME NEW r \in Requests, UploadOk(r) \/ UploadErr(r)
      PROVE Hidden \/ \E k \in Keys : Contract!Materialise(k)
  <2>1. UNCHANGED <<answer, key>> /\ pc[r] # "idle" /\ bytes[r] # NoObject
    BY <1>7 DEF UploadOk, UploadErr, Finish, Goto, answer, StoreInv,
                UploadsCarryBytes
  <2>2. Put(r) \/ UNCHANGED store
    BY <1>7 DEF UploadOk, UploadErr
  <2> QED
    BY <1>0, <2>1, <2>2, PutMaterialises
<1>8. ASSUME NEW r \in Requests, CancelOutside(r) PROVE Contract!AnswerFailure(r)
  BY <1>8 DEF CancelOutside, Goto, answer, Contract!AnswerFailure, worldVars
<1>9. ASSUME NEW r \in Requests, CancelLeader(r) PROVE Hidden
  BY <1>0, <1>9 DEF CancelLeader, Working, Goto, answer
<1>10. ASSUME NEW r \in Requests, DetachedWrite(r)
       PROVE \E k \in Keys : Contract!Materialise(k)
  <2>1. UNCHANGED <<answer, key>> /\ pc[r] # "idle" /\ bytes[r] # NoObject /\ Put(r)
    BY <1>10 DEF DetachedWrite, answer, StoreInv, UploadsCarryBytes
  <2> QED
    BY <2>1, PutMaterialises
<1>11. ASSUME NEW k \in Keys, OriginChanges(k) \/ Evict(k) PROVE Hidden
  <2>1. CASE OriginChanges(k)
    BY <1>0, <2>1 DEF OriginChanges, answer
  <2>2. CASE Evict(k)
    <3>1. UNCHANGED <<answer, key>>
      BY <2>2 DEF Evict, answer
    <3>2. storedKeys' = storedKeys
      BY <2>2 DEF Evict, storedKeys
    <3> QED
      BY <3>1, <3>2 DEF Hidden, Contract!vars, storedKeys
  <2> QED
    BY <1>11, <2>1, <2>2
<1>12. ASSUME UNCHANGED vars PROVE Hidden
  BY <1>0, <1>12 DEF vars, answer
<1>13. ASSUME NEW r \in Requests,
              \/ Arrive(r) \/ CheckHit(r) \/ CheckMiss(r)
              \/ BecomeLeader(r) \/ JoinInFlight(r) \/ Receive(r)
              \/ LeaderWork(r) \/ DropRemove(r) \/ DropSend(r)
              \/ CancelOutside(r) \/ CancelLeader(r) \/ DetachedWrite(r)
       PROVE  Contract!Next \/ Hidden
  <2> HIDE DEF IInv, TypeOK
  <2>2. CASE LeaderWork(r)
    BY <1>5, <1>6, <1>7, <2>2 DEF LeaderWork, Contract!Next
  <2>3. CASE Receive(r) \/ DropSend(r)
    BY <1>4, <2>3 DEF Contract!Next
  <2>4. CASE CheckMiss(r) \/ BecomeLeader(r) \/ JoinInFlight(r) \/ DropRemove(r)
             \/ CancelLeader(r)
    BY <1>3, <1>9, <2>4
  <2>5. CASE Arrive(r) \/ CheckHit(r) \/ CancelOutside(r)
    BY <1>1, <1>2, <1>8, <2>5 DEF Contract!Next
  <2>6. CASE DetachedWrite(r)
    BY <1>10, <2>6 DEF Contract!Next
  <2> QED
    BY <1>13, <2>2, <2>3, <2>4, <2>5, <2>6
<1> HIDE DEF IInv, TypeOK
<1>14. Contract!Next \/ Hidden
  BY <1>11, <1>12, <1>13 DEF Next
<1> QED
  BY <1>14 DEF Hidden

\* The single-flight protocol implements the safety part of the contract of
\* `resize`, for any requests, keys and evictable objects.
THEOREM ImplementsContractSafety == Spec => Contract!Spec
<1>1. Init => Contract!Init
  BY ConstantsAssumption DEF Init, Contract!Init, answer
<1>2. Init => StoreInv
  BY DEF Init, StoreInv, UploadsCarryBytes, OkMeansStored
<1>3. IInv /\ StoreInv /\ [Next]_vars => StoreInv'
  BY StoreStep
<1>4. IInv /\ StoreInv /\ [Next]_vars => [Contract!Next]_(Contract!vars)
  BY ContractStep
<1> QED
  BY <1>1, <1>2, <1>3, <1>4, Invariance, PTL DEF Spec, Contract!Spec

=============================================================================
