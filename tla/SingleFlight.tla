---------------------------- MODULE SingleFlight ----------------------------
(***************************************************************************)
(* ResizeService::resize: the cache check, the single-flight registry that *)
(* coalesces concurrent requests for one cache key, the RAII guard that    *)
(* releases a leader's entry however its future ends, and the download ->  *)
(* process -> upload pipeline the leader runs.                             *)
(*                                                                         *)
(* A request is one call of `resize`.  Its steps are cut at the points     *)
(* where another thread can run: the `.await`s and, because requests run   *)
(* on several worker threads, the two map operations of the guard.  A      *)
(* request may be dropped (request timeout, client gone, panic) only at an *)
(* `.await`.                                                               *)
(*                                                                         *)
(* Storage is a map from key to the version of the origin it was rendered  *)
(* from; 0 is "no object".  Leaders are used as the names of the broadcast *)
(* channels they create: a request creates at most one.                    *)
(***************************************************************************)
EXTENDS AppError

CONSTANTS
    Requests,      \* the calls of `resize` in a behaviour
    Keys,          \* cache keys
    Traffic,       \* the ways the calls may be spread over the keys
    NoRequest,     \* "no leader registered" / "subscribed to nobody"
    MaxVersion,    \* bound on how often an origin changes its content
    Evictable,     \* the keys whose object a TTL or an operator may remove
    StorageFaults, \* TRUE: calls of the storage backend may fail
    Failures       \* the errors that downloading and processing end with

ASSUME ConstantsAssumption ==
    /\ NoRequest \notin Requests
    /\ Traffic \subseteq [Requests -> Keys]
    /\ MaxVersion \in Nat \ {0}
    /\ Evictable \subseteq Keys
    /\ StorageFaults \in BOOLEAN
    /\ Failures \subseteq Errors

VARIABLES
    pc,            \* where each request is
    key,           \* the cache key of each request
    result,        \* the Result<String> each request returns
    inFlight,      \* the in_flight map: key -> leader whose Sender it holds
    channel,       \* the broadcast channel each leader created
    guard,         \* InFlightGuard.result of each leader
    subscribed,    \* the channel a follower's Receiver belongs to
    bytes,         \* the origin version a leader downloaded
    origin,        \* current version of the content behind each key
    store,         \* the storage backend
    detached       \* dropped leaders whose upload may still reach storage

registryVars == <<inFlight, channel, guard, subscribed>>
worldVars == <<bytes, origin, store, detached>>
vars == <<pc, key, result, inFlight, channel, guard, subscribed,
          bytes, origin, store, detached>>

-----------------------------------------------------------------------------
(* Values *)

Versions == 1..MaxVersion
NoObject == 0

DownloadErrors == {"rejected", "unusable", "upstream"} \cap Failures
ProcessErrors == {"rejected", "unusable", "permit", "cancelled", "encode",
                  "upstream"} \cap Failures

Results == {"pending", "ok", "dropped"} \cup Errors

\* What crosses the channel: Result<String, String>, the error by its text.
InFlightResults == {"ok"} \cup (Errors \ {"rejected"})

NoResult == "none"

States == {"idle", "check", "entry", "wait", "download", "process", "upload",
           "drop_remove", "drop_send", "done"}

Working == {"download", "process", "upload"}
GuardAlive == Working \cup {"drop_remove"}

TypeOK ==
    /\ pc \in [Requests -> States]
    /\ key \in [Requests -> Keys]
    /\ result \in [Requests -> Results]
    /\ inFlight \in [Keys -> Requests \cup {NoRequest}]
    /\ channel \in [Requests -> {"none", "open"} \cup InFlightResults]
    /\ guard \in [Requests -> {NoResult} \cup InFlightResults]
    /\ subscribed \in [Requests -> Requests \cup {NoRequest}]
    /\ bytes \in [Requests -> Versions \cup {NoObject}]
    /\ origin \in [Keys -> Versions]
    /\ store \in [Keys -> Versions \cup {NoObject}]
    /\ detached \in SUBSET Requests

\* The keys somebody asks for; the others are not followed.
Asked == {key[r] : r \in Requests}

Init ==
    /\ pc = [r \in Requests |-> "idle"]
    /\ key \in Traffic
    /\ result = [r \in Requests |-> "pending"]
    /\ inFlight = [k \in Keys |-> NoRequest]
    /\ channel = [r \in Requests |-> "none"]
    /\ guard = [r \in Requests |-> NoResult]
    /\ subscribed = [r \in Requests |-> NoRequest]
    /\ bytes = [r \in Requests |-> NoObject]
    /\ origin = [k \in Keys |-> 1]
    /\ \E hits \in SUBSET Asked :
          store = [k \in Keys |-> IF k \in hits THEN 1 ELSE NoObject]
    /\ detached = {}

-----------------------------------------------------------------------------
(* The call up to the registry *)

Goto(r, state) == pc' = [pc EXCEPT ![r] = state]

\* The request comes in and its cache key is computed.
Arrive(r) ==
    /\ pc[r] = "idle"
    /\ Goto(r, "check")
    /\ UNCHANGED <<key, result>>
    /\ UNCHANGED registryVars
    /\ UNCHANGED worldVars

\* check_cache answers Ok(true): the request is done, nothing is registered.
CheckHit(r) ==
    /\ pc[r] = "check"
    /\ store[key[r]] # NoObject
    /\ Goto(r, "done")
    /\ result' = [result EXCEPT ![r] = "ok"]
    /\ UNCHANGED key
    /\ UNCHANGED registryVars
    /\ UNCHANGED worldVars

\* Ok(false), or an Err, which counts as a miss whatever is stored.
CheckMiss(r) ==
    /\ pc[r] = "check"
    /\ store[key[r]] = NoObject \/ StorageFaults
    /\ Goto(r, "entry")
    /\ UNCHANGED <<key, result>>
    /\ UNCHANGED registryVars
    /\ UNCHANGED worldVars

\* Fault: contains_key and insert instead of one entry() call.
BecomeLeaderUnchecked(r) ==
    /\ pc[r] = "entry"
    /\ inFlight' = [inFlight EXCEPT ![key[r]] = r]
    /\ channel' = [channel EXCEPT ![r] = "open"]
    /\ Goto(r, "download")
    /\ UNCHANGED <<key, result, guard, subscribed>>
    /\ UNCHANGED worldVars

\* MapEntry::Vacant: insert a fresh channel and become the leader.
BecomeLeader(r) ==
    /\ pc[r] = "entry"
    /\ inFlight[key[r]] = NoRequest
    /\ inFlight' = [inFlight EXCEPT ![key[r]] = r]
    /\ channel' = [channel EXCEPT ![r] = "open"]
    /\ Goto(r, "download")
    /\ UNCHANGED <<key, result, guard, subscribed>>
    /\ UNCHANGED worldVars

\* MapEntry::Occupied: subscribe to the registered channel.
JoinInFlight(r) ==
    /\ pc[r] = "entry"
    /\ inFlight[key[r]] # NoRequest
    /\ subscribed' = [subscribed EXCEPT ![r] = inFlight[key[r]]]
    /\ Goto(r, "wait")
    /\ UNCHANGED <<key, result, inFlight, channel, guard>>
    /\ UNCHANGED worldVars

\* A follower's rx.recv() resolves.  The sender sends before it goes away, so
\* RecvError, which the code maps to "cancelled", needs no case of its own.
Receive(r) ==
    /\ pc[r] = "wait"
    /\ channel[subscribed[r]] \in InFlightResults
    /\ result' = [result EXCEPT ![r] = channel[subscribed[r]]]
    /\ Goto(r, "done")
    /\ UNCHANGED key
    /\ UNCHANGED registryVars
    /\ UNCHANGED worldVars

-----------------------------------------------------------------------------
(* The leader's work *)

\* Fault: the guard keeps the error itself.
FlattenNothing(res) == res

\* The error's Display text: the type of a SourceRejected is lost.
Flatten(res) == IF res = "rejected" THEN "rejected_text" ELSE res

\* What the followers of a leader that ended with `res` are sent.
Broadcast(res) == IF res = "dropped" THEN "cancelled" ELSE Flatten(res)

\* do_resize_work returned: guard.finish records the flattened result, then
\* the guard goes out of scope.
Finish(r, res) ==
    /\ result' = [result EXCEPT ![r] = res]
    /\ guard' = [guard EXCEPT ![r] = Flatten(res)]
    /\ Goto(r, "drop_remove")

DownloadOk(r) ==
    /\ pc[r] = "download"
    /\ bytes' = [bytes EXCEPT ![r] = origin[key[r]]]
    /\ Goto(r, "process")
    /\ UNCHANGED <<key, result, origin, store, detached>>
    /\ UNCHANGED registryVars

DownloadErr(r) ==
    /\ pc[r] = "download"
    /\ \E e \in DownloadErrors : Finish(r, e)
    /\ UNCHANGED <<key, inFlight, channel, subscribed>>
    /\ UNCHANGED worldVars

ProcessOk(r) ==
    /\ pc[r] = "process"
    /\ Goto(r, "upload")
    /\ UNCHANGED <<key, result>>
    /\ UNCHANGED registryVars
    /\ UNCHANGED worldVars

ProcessErr(r) ==
    /\ pc[r] = "process"
    /\ \E e \in ProcessErrors : Finish(r, e)
    /\ UNCHANGED <<key, inFlight, channel, subscribed>>
    /\ UNCHANGED worldVars

\* Fault: the leader answers without having stored anything.
PutNothing(r) == UNCHANGED store

Put(r) == store' = [store EXCEPT ![key[r]] = bytes[r]]

UploadOk(r) ==
    /\ pc[r] = "upload"
    /\ Put(r)
    /\ Finish(r, "ok")
    /\ UNCHANGED <<key, inFlight, channel, subscribed, bytes, origin, detached>>

\* Fault: a failed upload is logged and the URL returned all the same.
UploadErrSwallowed(r) ==
    /\ StorageFaults
    /\ pc[r] = "upload"
    /\ Put(r) \/ UNCHANGED store
    /\ Finish(r, "ok")
    /\ UNCHANGED <<key, inFlight, channel, subscribed, bytes, origin, detached>>

\* A failed upload may or may not have taken effect.
UploadErr(r) ==
    /\ StorageFaults
    /\ pc[r] = "upload"
    /\ Put(r) \/ UNCHANGED store
    /\ Finish(r, "upstream")
    /\ UNCHANGED <<key, inFlight, channel, subscribed, bytes, origin, detached>>

\* The bytes of a leader that is through with them are freed.
Forget(leaders) ==
    bytes' = [r \in Requests |-> IF r \in leaders THEN NoObject ELSE bytes[r]]

\* Fault: the entry is left in the map.
DropRemoveForgotten(r) ==
    /\ pc[r] = "drop_remove"
    /\ Goto(r, "drop_send")
    /\ Forget({r} \ detached)
    /\ UNCHANGED <<key, result, origin, store, detached>>
    /\ UNCHANGED registryVars

\* InFlightGuard::drop, first half: take the entry out of the map.
DropRemove(r) ==
    /\ pc[r] = "drop_remove"
    /\ inFlight' = [inFlight EXCEPT ![key[r]] = NoRequest]
    /\ Goto(r, "drop_send")
    /\ Forget({r} \ detached)
    /\ UNCHANGED <<key, result, channel, guard, subscribed, origin, store, detached>>

\* Fault: the recorded result is not used.
DropSendUnrecorded(r) ==
    /\ pc[r] = "drop_send"
    /\ channel' = [channel EXCEPT ![r] = "cancelled"]
    /\ Goto(r, "done")
    /\ UNCHANGED <<key, result, inFlight, guard, subscribed>>
    /\ UNCHANGED worldVars

\* Second half: broadcast the recorded result, or the synthetic failure.
DropSend(r) ==
    /\ pc[r] = "drop_send"
    /\ channel' = [channel EXCEPT ![r] =
                     IF guard[r] = NoResult THEN "cancelled" ELSE guard[r]]
    /\ Goto(r, "done")
    /\ UNCHANGED <<key, result, inFlight, guard, subscribed>>
    /\ UNCHANGED worldVars

-----------------------------------------------------------------------------
(* The future is dropped at an await: timeout, disconnect or panic *)

\* Before the registry and while following there is nothing to release.
CancelOutside(r) ==
    /\ pc[r] \in {"check", "wait"}
    /\ result' = [result EXCEPT ![r] = "dropped"]
    /\ Goto(r, "done")
    /\ UNCHANGED key
    /\ UNCHANGED registryVars
    /\ UNCHANGED worldVars

\* Fault: cleanup after the work instead of in a Drop, so a dropped future
\* skips it.
CancelLeaderUnguarded(r) ==
    /\ pc[r] \in Working
    /\ result' = [result EXCEPT ![r] = "dropped"]
    /\ Goto(r, "done")
    /\ UNCHANGED <<key, bytes, origin, store, detached>>
    /\ UNCHANGED registryVars

\* A leader's guard is dropped without `finish`.  A write already handed to
\* the storage backend is not recalled.
CancelLeader(r) ==
    /\ pc[r] \in Working
    /\ result' = [result EXCEPT ![r] = "dropped"]
    /\ Goto(r, "drop_remove")
    /\ \/ UNCHANGED detached
       \/ pc[r] = "upload" /\ detached' = detached \cup {r}
    /\ UNCHANGED <<key, bytes, origin, store>>
    /\ UNCHANGED registryVars

\* The write a dropped leader left behind lands.
DetachedWrite(r) ==
    /\ r \in detached
    /\ Put(r)
    /\ detached' = detached \ {r}
    /\ Forget({r})
    /\ UNCHANGED <<pc, key, result, origin>>
    /\ UNCHANGED registryVars

-----------------------------------------------------------------------------
(* The world *)

OriginChanges(k) ==
    /\ k \in Asked
    /\ origin[k] < MaxVersion
    /\ origin' = [origin EXCEPT ![k] = @ + 1]
    /\ UNCHANGED <<pc, key, result, bytes, store, detached>>
    /\ UNCHANGED registryVars

\* An object's TTL runs out, or somebody removes it from the bucket.
Evict(k) ==
    /\ k \in Asked \cap Evictable
    /\ store[k] # NoObject
    /\ store' = [store EXCEPT ![k] = NoObject]
    /\ UNCHANGED <<pc, key, result, bytes, origin, detached>>
    /\ UNCHANGED registryVars

-----------------------------------------------------------------------------
(* Specification *)

LeaderWork(r) ==
    \/ DownloadOk(r) \/ DownloadErr(r)
    \/ ProcessOk(r) \/ ProcessErr(r)
    \/ UploadOk(r) \/ UploadErr(r)

Next ==
    \/ \E r \in Requests :
          \/ Arrive(r) \/ CheckHit(r) \/ CheckMiss(r)
          \/ BecomeLeader(r) \/ JoinInFlight(r) \/ Receive(r)
          \/ LeaderWork(r) \/ DropRemove(r) \/ DropSend(r)
          \/ CancelOutside(r) \/ CancelLeader(r) \/ DetachedWrite(r)
    \/ \E k \in Keys : OriginChanges(k) \/ Evict(k)

Spec == Init /\ [][Next]_vars

\* Every await of a running call resolves: storage calls, the download and
\* the blocking job end or the request timeout drops the leader.  A follower
\* is not assumed to time out: its answer must come from its leader.
Fairness ==
    \A r \in Requests :
        /\ WF_vars(CheckHit(r) \/ CheckMiss(r))
        /\ WF_vars(BecomeLeader(r) \/ JoinInFlight(r))
        /\ WF_vars(LeaderWork(r) \/ CancelLeader(r))
        /\ WF_vars(DropRemove(r) \/ DropSend(r))
        /\ WF_vars(Receive(r))

FairSpec == Spec /\ Fairness

-----------------------------------------------------------------------------
(* Safety *)

\* The comment in InFlightGuard::drop: a key has one leader at work, and the
\* entry a guard is about to remove is its own, never a later leader's.
RegistryExact ==
    \A k \in Keys, r \in Requests :
        (pc[r] \in GuardAlive /\ key[r] = k) <=> (inFlight[k] = r)

\* A follower is never left on a channel nobody will send on: the leader it
\* subscribed to is for its key and still holds its guard, or is between the
\* guard's two steps, or its message is already there to be received.
FollowersAttached ==
    \A r \in Requests : pc[r] = "wait" =>
        /\ subscribed[r] \in Requests
        /\ key[subscribed[r]] = key[r]
        /\ \/ pc[subscribed[r]] \in GuardAlive \cup {"drop_send"}
           \/ channel[subscribed[r]] \in InFlightResults

\* The registry is in order: types, one leader per key, no follower orphaned.
RegistryInv == TypeOK /\ RegistryExact /\ FollowersAttached

\* Followers share their leader's fate: one that answered got what its
\* leader's call returned, with the error reduced to its text, or "cancelled"
\* when the leader never finished.
FollowersShareResult ==
    \A r \in Requests :
        pc[r] = "done" /\ subscribed[r] # NoRequest /\ result[r] # "dropped" =>
            result[r] = Broadcast(result[subscribed[r]])

\* A redirect to the CDN is only answered for an object that is in storage:
\* on a hit, by the leader after its upload, and by each of its followers.
OkMeansStored ==
    \A r \in Requests :
        result[r] = "ok" /\ key[r] \notin Evictable => store[key[r]] # NoObject

\* The result a leader hands back is only ever returned once its registry
\* entry is gone, so a request arriving afterwards starts a fresh attempt
\* instead of joining a completed one.
NoJoinOfCompleted ==
    [][\A r \in Requests :
          subscribed'[r] # subscribed[r] => channel[subscribed'[r]] = "open"
                                            /\ pc[subscribed'[r]] # "done"]_vars

\* What makes the properties above inductive.  A channel exists from the
\* moment its leader registers and stays open until the guard's second step;
\* then it carries that leader's own result.
ChannelsCarryResult ==
    \A r \in Requests :
        /\ pc[r] \in {"idle", "check", "entry", "wait"} => channel[r] = "none"
        /\ pc[r] \in GuardAlive \cup {"drop_send"} => channel[r] = "open"
        /\ channel[r] \in InFlightResults => channel[r] = Broadcast(result[r])

\* The guard holds nothing while its leader works, then the flattened result.
GuardHoldsResult ==
    \A r \in Requests :
        /\ pc[r] \in {"idle", "check", "entry", "wait"} \cup Working =>
               guard[r] = NoResult /\ result[r] = "pending"
        /\ pc[r] \in {"drop_remove", "drop_send"} =>
               /\ result[r] # "pending"
               /\ guard[r] = IF result[r] = "dropped" THEN NoResult
                             ELSE Flatten(result[r])

\* A follower that has not been dropped carries its leader's message.
FollowersReceived ==
    \A r \in Requests :
        /\ pc[r] \in {"idle", "check", "entry"} \cup GuardAlive \cup {"drop_send"} =>
               subscribed[r] = NoRequest
        /\ pc[r] = "done" /\ subscribed[r] # NoRequest /\ result[r] # "dropped" =>
               /\ channel[subscribed[r]] \in InFlightResults
               /\ result[r] = channel[subscribed[r]]

IInv ==
    /\ TypeOK
    /\ RegistryExact
    /\ FollowersAttached
    /\ ChannelsCarryResult
    /\ GuardHoldsResult
    /\ FollowersReceived

\* A leader past its download, or whose write is still on its way, carries
\* real bytes, so no upload ever stores "no object".
UploadsCarryBytes ==
    \A r \in Requests :
        /\ pc[r] \in {"process", "upload"} \/ r \in detached => bytes[r] # NoObject
        /\ r \in detached => pc[r] \in {"drop_remove", "drop_send", "done"}

\* The middleware's ETag comment: "same key" and "byte-identical response"
\* are equivalent, since upload_image writes each key exactly once.
SameKeySameBytes ==
    [][\A k \in Keys :
          store[k] # NoObject /\ store'[k] # NoObject => store'[k] = store[k]]_vars

\* AppError::classify_resize_error's comment: a request the source guard
\* refused is answered 400, unconditionally, whoever ran the guard for it.
RejectionIsBadRequest ==
    \A r \in Requests :
        /\ pc[r] = "done"
        /\ result[r] \in Errors
        /\ "rejected" \in {result[r]} \cup {result[l] : l \in {subscribed[r]} \ {NoRequest}}
        => ClassifyResizeError(result[r]) = 400

-----------------------------------------------------------------------------
(* Liveness, of FairSpec *)

\* No leader's entry stays in the map for ever, so no key is poisoned.
RegistryDrains ==
    \A r \in Requests, k \in Keys : inFlight[k] = r ~> inFlight[k] # r

-----------------------------------------------------------------------------
(* Implementation of the contract *)

answer == [r \in Requests |->
    IF pc[r] = "idle" THEN "none"
    ELSE IF pc[r] # "done" THEN "pending"
    ELSE IF result[r] = "ok" THEN "url" ELSE "failure"]

Contract == INSTANCE ResizeContract
              WITH stored <- {k \in Keys : k \in Evictable \/ store[k] # NoObject}

\* The protocol keeps the contract of `resize`: a URL is only answered for an
\* object that is there or was removed behind the service's back, and every
\* call made is answered even when the leader it depends on fails or is
\* dropped.
ImplementsContract == Contract!FairSpec

=============================================================================
