---------------------------- MODULE LocalFsProofs ----------------------------
(***************************************************************************)
(* The atomic write of LocalFSStorage, what its expiry keeps and removes,  *)
(* and what an acknowledged upload is worth, for any number of calls on a  *)
(* key, any workload and any number of restarts.                           *)
(***************************************************************************)
EXTENDS LocalFs, TLAPS

\* A temp file is whole by the time its rename is due.
TempReady == \A u \in Uploads : pc[u] = "rename" => tmp[u] = "whole"

IInv == TypeOK /\ NoPartialRead /\ TempReady

\* The backend starts with no files.
LEMMA InitIInv == Init => IInv
<1> SUFFICES ASSUME Init PROVE IInv
  OBVIOUS
<1>1. load \in Workloads /\ 0 \in 0..load.maxTime /\ 0 \in 0..load.maxCrashes
  BY LocalFsAssumption DEF Init
<1>2. TypeOK
  BY <1>1 DEF Init, TypeOK, States, Answers, Files, Forever
<1>3. NoPartialRead /\ TempReady
  BY DEF Init, NoPartialRead, TempReady, Calls
<1> QED
  BY <1>2, <1>3 DEF IInv

\* Every step keeps the variables in their types.
LEMMA TypeStep == TypeOK /\ [Next]_vars => TypeOK'
<1> SUFFICES ASSUME TypeOK, [Next]_vars PROVE TypeOK'
  OBVIOUS
<1>0. /\ load.maxTime \in Nat
      /\ load.maxCrashes \in Nat
      /\ load.ttls \subseteq Nat
  <2>1. load \in Workloads
    BY DEF TypeOK
  <2>2. load.maxTime \in 0..999 /\ load.maxCrashes \in Nat /\ load.ttls \subseteq Nat
    BY <2>1, LocalFsAssumption DEF Forever
  <2> QED
    BY <2>2
<1> USE <1>0 DEF TypeOK, States, Answers, Goto, Return, Ack, fileVars, timeVars
<1>1. ASSUME NEW c \in Calls, NEW s \in {"stage", "stat", "remove_data"}, Begin(c, s)
      PROVE  TypeOK'
  BY <1>1 DEF Begin
<1>2. ASSUME NEW u \in Uploads, StageTemp(u) \/ SyncTemp(u) PROVE TypeOK'
  <2>1. CASE StageTemp(u)
    BY <2>1 DEF StageTemp, Calls
  <2>2. CASE SyncTemp(u)
    BY <2>2 DEF SyncTemp, Calls
  <2> QED
    BY <1>2, <2>1, <2>2
<1>3. ASSUME NEW u \in Uploads, RenameData(u) PROVE TypeOK'
  <2>1. [by |-> u, whole |-> tmp[u] = "whole"] \in Files
    <3>1. (tmp[u] = "whole") \in BOOLEAN
      OBVIOUS
    <3> QED
      BY <3>1, Zenon DEF Files
  <2>2. data' \in Files \cup {NoFile}
    BY <1>3, <2>1, Zenon DEF RenameData
  <2>3. UNCHANGED <<load, ttl, got, sidecar, expiry, started, acked, now, crashes>>
    BY <1>3 DEF RenameData
  <2>4. pc' \in [Calls -> States] /\ answer' \in [Calls -> Answers]
    BY <1>3 DEF RenameData, Calls
  <2>5. tmp' \in [Uploads -> {"none", "partial", "whole"}]
    BY <1>3 DEF RenameData
  <2> QED
    BY <2>2, <2>3, <2>4, <2>5
<1>4. ASSUME NEW u \in Uploads, StageSidecar(u) PROVE TypeOK'
  <2>1. now + ttl[u] \in Nat
    OBVIOUS
  <2> QED
    BY <1>4, <2>1 DEF StageSidecar, Calls
<1>5. ASSUME NEW u \in Uploads, RenameSidecar(u) \/ ClearSidecar(u) PROVE TypeOK'
  BY <1>5 DEF RenameSidecar, ClearSidecar, Calls
<1>6. ASSUME NEW c \in Checks \cup Gets, Stat(c) \/ CheckExpiry(c) PROVE TypeOK'
  BY <1>6 DEF Stat, CheckExpiry, Calls
<1>7. ASSUME NEW g \in Gets, Canonicalise(g) \/ Read(g) PROVE TypeOK'
  BY <1>7 DEF Canonicalise, Read, Calls
<1>8. ASSUME NEW c \in Checks \cup Gets \cup Deletes, RemoveData(c) \/ RemoveSidecar(c)
      PROVE  TypeOK'
  <2>1. AfterRemoval(c) \in {"ok", "missing", "miss"}
    BY DEF AfterRemoval
  <2> QED
    BY <1>8, <2>1 DEF RemoveData, RemoveSidecar, Calls
<1>9. ASSUME NEW c \in Calls, Abandon(c) PROVE TypeOK'
  BY <1>9 DEF Abandon
<1>10. CASE Tick
  BY <1>10 DEF Tick
<1>11. CASE Crash
  BY <1>11 DEF Crash
<1>12. CASE UNCHANGED vars
  BY <1>12 DEF vars
<1> QED
  BY <1>1, <1>2, <1>3, <1>4, <1>5, <1>6, <1>7, <1>8, <1>9, <1>10, <1>11, <1>12
     DEF Next, Calls

\* Only a rename puts a data file in place, of a temp file that is whole.
LEMMA WholeStep == IInv /\ [Next]_vars => NoPartialRead' /\ TempReady'
<1> SUFFICES ASSUME IInv, [Next]_vars PROVE NoPartialRead' /\ TempReady'
  OBVIOUS
<1> USE DEF IInv, TypeOK, NoPartialRead, TempReady, Goto, Return, Ack, fileVars,
            timeVars, Calls
<1>1. ASSUME NEW c \in Calls, NEW s \in {"stage", "stat", "remove_data"}, Begin(c, s)
      PROVE  NoPartialRead' /\ TempReady'
  BY <1>1 DEF Begin
<1>2. ASSUME NEW u \in Uploads, StageTemp(u) \/ SyncTemp(u)
      PROVE  NoPartialRead' /\ TempReady'
  <2>1. CASE StageTemp(u)
    BY <2>1 DEF StageTemp
  <2>2. CASE SyncTemp(u)
    BY <2>2 DEF SyncTemp
  <2> QED
    BY <1>2, <2>1, <2>2
<1>3. ASSUME NEW u \in Uploads, RenameData(u) PROVE NoPartialRead' /\ TempReady'
  <2>1. tmp[u] = "whole"
    BY <1>3 DEF RenameData
  <2>2. data' # data => data'.whole
    <3>1. CASE data' = [by |-> u, whole |-> tmp[u] = "whole"]
      BY <2>1, <3>1, Zenon
    <3>2. CASE UNCHANGED data
      BY <3>2
    <3> QED
      BY <1>3, <3>1, <3>2, Zenon DEF RenameData
  <2>3. UNCHANGED got
    BY <1>3 DEF RenameData
  <2>4. TempReady'
    BY <1>3 DEF RenameData
  <2> QED
    BY <2>2, <2>3, <2>4
<1>4. ASSUME NEW u \in Uploads, StageSidecar(u) \/ RenameSidecar(u) \/ ClearSidecar(u)
      PROVE  NoPartialRead' /\ TempReady'
  BY <1>4 DEF StageSidecar, RenameSidecar, ClearSidecar
<1>5. ASSUME NEW c \in Checks \cup Gets, Stat(c) \/ CheckExpiry(c)
      PROVE  NoPartialRead' /\ TempReady'
  BY <1>5 DEF Stat, CheckExpiry
<1>6. ASSUME NEW g \in Gets, Canonicalise(g) \/ Read(g)
      PROVE  NoPartialRead' /\ TempReady'
  BY <1>6 DEF Canonicalise, Read
<1>7. ASSUME NEW c \in Checks \cup Gets \cup Deletes, RemoveData(c) \/ RemoveSidecar(c)
      PROVE  NoPartialRead' /\ TempReady'
  BY <1>7 DEF RemoveData, RemoveSidecar
<1>8. ASSUME NEW c \in Calls, Abandon(c) PROVE NoPartialRead' /\ TempReady'
  BY <1>8 DEF Abandon
<1>9. CASE Tick
  BY <1>9 DEF Tick
<1>10. CASE Crash
  BY <1>10 DEF Crash
<1>11. CASE UNCHANGED vars
  BY <1>11 DEF vars
<1> QED
  BY <1>1, <1>2, <1>3, <1>4, <1>5, <1>6, <1>7, <1>8, <1>9, <1>10, <1>11 DEF Next

\* upload_image_with_ttl writes atomically: however uploads, reads, evictions,
\* failures and restarts interleave, the data file is whole and so is whatever
\* get_image returned.
THEOREM AtomicWrite == Spec => []StoredWhole
<1>1. IInv /\ [Next]_vars => IInv'
  BY TypeStep, WholeStep DEF IInv
<1>2. IInv => StoredWhole
  BY DEF IInv, StoredWhole
<1> QED
  BY InitIInv, <1>1, <1>2, PTL DEF Spec

-----------------------------------------------------------------------------
(* Expiry *)

Readers == Checks \cup Gets
Removing == {"remove_data", "remove_sidecar"}

\* Calls answer once and at their end; what happened is not in the future.
CallsInOrder ==
    /\ \A c \in Calls : answer[c] # "none" => pc[c] = "done"
    /\ \A g \in Gets : got[g] # NoFile => pc[g] = "done"
    /\ \A c \in Calls : started[c] <= now
    /\ \A u \in Uploads : acked[u] <= now

\* Bytes come from uploads that were made, sidecars from ones that ended.
Provenance ==
    /\ data # NoFile => data.by \in Made(Uploads)
    /\ \A g \in Gets : got[g] # NoFile => got[g].by \in Made(Uploads)
    /\ sidecar # NoFile => \E u \in Uploads : pc[u] = "done" /\ sidecar = expiry[u]

\* A reader that evicts found the ttl of some ended upload run out.
EvictionDue ==
    \A c \in Readers : pc[c] \in Removing =>
        \E u \in Uploads : pc[u] = "done" /\ expiry[u] <= now

EvictInv == TypeOK /\ CallsInOrder /\ Provenance /\ EvictionDue

\* The traffic for which the backend honours a ttl.
Undisturbed == UploadedOnce /\ Made(Deletes) = {} /\ ~load.ioFaults

\* An evicting reader takes the data file before the sidecar.
DataGoesFirst == \A c \in Readers : pc[c] = "remove_sidecar" => data = NoFile

\* While an acknowledged object with a ttl is there, so is its sidecar.
SidecarThere ==
    /\ \A u \in Uploads : pc[u] = "sidecar_rename" => expiry[u] <= now + ttl[u]
    /\ \A u \in Uploads : answer[u] = "ok" /\ ttl[u] # Forever =>
          /\ expiry[u] <= acked[u] + ttl[u]
          /\ data # NoFile => sidecar = expiry[u]

\* No get that began once the ttl had run out is past the check.
LateGetsStopped ==
    /\ \A g \in Gets, u \in Uploads :
          pc[g] \in {"canonicalise", "read"} /\ data # NoFile => ~Expired(u, started[g])
    /\ \A g \in Gets : got[g] # NoFile => ~Expired(got[g].by, started[g])

SidecarKept == Undisturbed => DataGoesFirst /\ SidecarThere /\ LateGetsStopped

NoTtl == \A u \in Uploads : ttl[u] = Forever

\* Where nothing expires there is no sidecar and no eviction.
NothingEvicted ==
    /\ sidecar = NoFile
    /\ \A u \in Uploads : pc[u] # "sidecar_rename"
    /\ \A c \in Readers : pc[c] \notin Removing

\* An object stays once it is in place, so a check misses it only if it began
\* before.
ObjectStays ==
    /\ \A u \in Uploads : pc[u] = "sidecar" \/ answer[u] = "ok" => data # NoFile
    /\ \A u \in Uploads, c \in Checks :
          answer[u] = "ok" /\ answer[c] = "miss" => started[c] <= acked[u]

KeptInv == NoTtl => NothingEvicted /\ (Made(Deletes) = {} => ObjectStays)

\* A call that was made stays made and one that ended stays ended; arguments
\* never change and the clock does not run back.
LEMMA Onwards ==
    ASSUME TypeOK, [Next]_vars
    PROVE  /\ \A c \in Calls : pc[c] # "idle" => pc'[c] # "idle"
           /\ \A c \in Calls : pc[c] = "done" => pc'[c] = "done"
           /\ load' = load /\ ttl' = ttl
           /\ now' \in Nat /\ now \in Nat /\ now <= now'
<1>0. now \in Nat
  BY DEF TypeOK
<1> USE <1>0 DEF TypeOK, Goto, Return, Ack, fileVars, timeVars, Calls
<1>1. ASSUME NEW c \in Calls, NEW s \in {"stage", "stat", "remove_data"}, Begin(c, s)
      PROVE  UNCHANGED <<load, ttl, now>> /\ \A d \in Calls :
                (pc[d] # "idle" => pc'[d] # "idle") /\ (pc[d] = "done" => pc'[d] = "done")
  BY <1>1 DEF Begin
<1>2. ASSUME NEW u \in Uploads,
             StageTemp(u) \/ SyncTemp(u) \/ RenameData(u) \/ StageSidecar(u)
                \/ RenameSidecar(u) \/ ClearSidecar(u)
      PROVE  UNCHANGED <<load, ttl, now>> /\ \A d \in Calls :
                (pc[d] # "idle" => pc'[d] # "idle") /\ (pc[d] = "done" => pc'[d] = "done")
  <2>1. UNCHANGED <<load, ttl, now>>
    BY <1>2 DEF StageTemp, SyncTemp, RenameData, StageSidecar, RenameSidecar, ClearSidecar
  <2>2. /\ pc[u] \notin {"idle", "done"}
        /\ \E s \in States \ {"idle"} : pc' = [pc EXCEPT ![u] = s]
    BY <1>2 DEF StageTemp, SyncTemp, RenameData, StageSidecar, RenameSidecar, ClearSidecar, States
  <2> QED
    BY <2>1, <2>2
<1>3. ASSUME NEW c \in Calls,
             Stat(c) \/ CheckExpiry(c) \/ Canonicalise(c) \/ Read(c) \/ RemoveData(c)
                \/ RemoveSidecar(c) \/ Abandon(c)
      PROVE  UNCHANGED <<load, ttl, now>> /\ \A d \in Calls :
                (pc[d] # "idle" => pc'[d] # "idle") /\ (pc[d] = "done" => pc'[d] = "done")
  <2>1. UNCHANGED <<load, ttl, now>>
    BY <1>3 DEF Stat, CheckExpiry, Canonicalise, Read, RemoveData, RemoveSidecar, Abandon
  <2>2. /\ pc[c] \notin {"idle", "done"}
        /\ \E s \in States \ {"idle"} : pc' = [pc EXCEPT ![c] = s]
    BY <1>3 DEF Stat, CheckExpiry, Canonicalise, Read, RemoveData, RemoveSidecar, Abandon, States
  <2> QED
    BY <2>1, <2>2
<1>4. CASE Tick
  BY <1>4 DEF Tick
<1>5. CASE Crash
  BY <1>5 DEF Crash
<1>6. CASE UNCHANGED vars
  BY <1>6 DEF vars
<1> QED
  BY <1>1, <1>2, <1>3, <1>4, <1>5, <1>6 DEF Next

\* What a rename puts in place.
LEMMA Renamed ==
    ASSUME TypeOK, NEW u \in Uploads, RenameData(u)
    PROVE  /\ pc[u] = "rename"
           /\ \/ data' \in Files /\ data' # NoFile /\ data'.by = u /\ pc'[u] = "sidecar"
                 /\ UNCHANGED answer
              \/ UNCHANGED data /\ pc'[u] = "done" /\ answer'[u] = "failed"
<1>1. pc[u] = "rename"
  BY DEF RenameData
<1>2. CASE /\ data' = [by |-> u, whole |-> tmp[u] = "whole"]
           /\ Goto(u, "sidecar")
           /\ UNCHANGED answer
  <2>1. (tmp[u] = "whole") \in BOOLEAN
    OBVIOUS
  <2>2. data' \in Files /\ data'.by = u
    BY <1>2, <2>1, Zenon DEF Files
  <2>3. data' # NoFile
    BY <2>2, LocalFsAssumption
  <2>4. pc'[u] = "sidecar"
    BY <1>2 DEF Goto, TypeOK, Calls
  <2> QED
    BY <1>1, <1>2, <2>2, <2>3, <2>4
<1>3. CASE Return(u, "failed") /\ UNCHANGED <<data, tmp>>
  BY <1>1, <1>3 DEF Return, Goto, TypeOK, Calls
<1> QED
  BY <1>2, <1>3, Zenon DEF RenameData

\* Calls answer once, and after they began.
LEMMA OrderStep == TypeOK /\ CallsInOrder /\ [Next]_vars => CallsInOrder'
<1> SUFFICES ASSUME TypeOK, CallsInOrder, [Next]_vars PROVE CallsInOrder'
  OBVIOUS
<1>0. now \in Nat /\ started \in [Calls -> Nat] /\ acked \in [Uploads -> Nat]
  <2>1. now \in Nat
    BY DEF TypeOK
  <2> QED
    BY <2>1 DEF TypeOK
<1> USE <1>0 DEF TypeOK, CallsInOrder, Goto, Return, Ack, fileVars, timeVars, Calls
<1>1. ASSUME NEW c \in Calls, NEW s \in {"stage", "stat", "remove_data"}, Begin(c, s)
      PROVE  CallsInOrder'
  BY <1>1 DEF Begin
<1>2. ASSUME NEW u \in Uploads, StageTemp(u) \/ SyncTemp(u) PROVE CallsInOrder'
  BY <1>2 DEF StageTemp, SyncTemp
<1>3. ASSUME NEW u \in Uploads, RenameData(u) PROVE CallsInOrder'
  <2>1. UNCHANGED <<got, started, acked, now>>
    BY <1>3 DEF RenameData
  <2>2. \/ Goto(u, "sidecar") /\ UNCHANGED answer
        \/ Return(u, "failed")
    BY <1>3, Zenon DEF RenameData
  <2>3. pc[u] = "rename"
    BY <1>3 DEF RenameData
  <2> QED
    BY <2>1, <2>2, <2>3
<1>4. ASSUME NEW u \in Uploads, StageSidecar(u) \/ RenameSidecar(u) \/ ClearSidecar(u)
      PROVE  CallsInOrder'
  BY <1>4 DEF StageSidecar, RenameSidecar, ClearSidecar
<1>5. ASSUME NEW c \in Readers, Stat(c) \/ CheckExpiry(c) PROVE CallsInOrder'
  BY <1>5 DEF Stat, CheckExpiry, Readers
<1>6. ASSUME NEW g \in Gets, Canonicalise(g) \/ Read(g) PROVE CallsInOrder'
  BY <1>6 DEF Canonicalise, Read
<1>7. ASSUME NEW c \in Readers \cup Deletes, RemoveData(c) \/ RemoveSidecar(c)
      PROVE  CallsInOrder'
  BY <1>7 DEF RemoveData, RemoveSidecar, Readers
<1>8. ASSUME NEW c \in Calls, Abandon(c) PROVE CallsInOrder'
  BY <1>8 DEF Abandon
<1>9. CASE Tick
  BY <1>9 DEF Tick
<1>10. CASE Crash
  BY <1>10 DEF Crash
<1>11. CASE UNCHANGED vars
  BY <1>11 DEF vars
<1> QED
  BY <1>1, <1>2, <1>3, <1>4, <1>5, <1>6, <1>7, <1>8, <1>9, <1>10, <1>11
     DEF Next, Readers

\* Data and sidecars come from uploads, and a reader evicts on the strength of
\* one that ended.
LEMMA EvictStep ==
    EvictInv /\ [Next]_vars => Provenance' /\ EvictionDue'
<1> SUFFICES ASSUME EvictInv, [Next]_vars PROVE Provenance' /\ EvictionDue'
  OBVIOUS
<1>0. /\ TypeOK
      /\ now \in Nat /\ now' \in Nat /\ now <= now'
      /\ expiry \in [Uploads -> Nat]
      /\ \A c \in Calls : pc[c] # "idle" => pc'[c] # "idle"
      /\ \A c \in Calls : pc[c] = "done" => pc'[c] = "done"
      /\ Readers \cap (Uploads \cup Deletes) = {}
      /\ pc \in [Calls -> States]
  BY Onwards, LocalFsAssumption DEF EvictInv, TypeOK, Readers
<1>p. Provenance /\ EvictionDue
  BY DEF EvictInv
<1> USE <1>0 DEF Made, Goto, Return, Ack, fileVars, timeVars, Calls, Readers
<1>1. ASSUME UNCHANGED <<data, got, sidecar, expiry>>,
             \A c \in Readers : pc'[c] \in Removing => pc[c] \in Removing
      PROVE  Provenance' /\ EvictionDue'
  <2>1. Provenance'
    BY <1>1, <1>p DEF Provenance, TypeOK, Files
  <2>2. EvictionDue'
    BY <1>1, <1>p DEF EvictionDue
  <2> QED
    BY <2>1, <2>2
<1>2. ASSUME NEW c \in Calls, NEW s \in {"stage", "stat", "remove_data"}, Begin(c, s),
             s = "remove_data" => c \in Deletes
      PROVE  Provenance' /\ EvictionDue'
  BY <1>1, <1>2 DEF Begin, Removing, TypeOK
<1>3. ASSUME NEW u \in Uploads, StageTemp(u) \/ SyncTemp(u) PROVE Provenance' /\ EvictionDue'
  <2>1. UNCHANGED <<data, got, sidecar, expiry>>
    BY <1>3 DEF StageTemp, SyncTemp
  <2>2. \A c \in Readers : pc'[c] = pc[c]
    BY <1>3 DEF StageTemp, SyncTemp
  <2> QED
    BY <1>1, <2>1, <2>2
<1>4. ASSUME NEW u \in Uploads, RenameData(u) PROVE Provenance' /\ EvictionDue'
  <2>1. /\ UNCHANGED <<got, sidecar, expiry, now>>
        /\ \A c \in Readers : pc'[c] = pc[c]
    BY <1>4 DEF RenameData
  <2>2. data' = data \/ (data'.by = u /\ pc'[u] = "sidecar")
    BY <1>4, Renamed
  <2>3. Provenance'
    BY <1>p, <2>1, <2>2 DEF Provenance, TypeOK, Files
  <2>4. EvictionDue'
    BY <1>p, <2>1 DEF EvictionDue
  <2> QED
    BY <2>3, <2>4
<1>5. ASSUME NEW u \in Uploads, StageSidecar(u) PROVE Provenance' /\ EvictionDue'
  <2>1. /\ UNCHANGED <<data, got, sidecar, now>>
        /\ \A c \in Readers : pc'[c] = pc[c]
        /\ \A v \in Uploads : pc[v] = "done" => expiry'[v] = expiry[v]
    BY <1>5 DEF StageSidecar
  <2>2. Provenance'
    BY <1>p, <2>1 DEF Provenance, TypeOK, Files
  <2>3. EvictionDue'
    BY <1>p, <2>1 DEF EvictionDue
  <2> QED
    BY <2>2, <2>3
<1>6. ASSUME NEW u \in Uploads, RenameSidecar(u) \/ ClearSidecar(u)
      PROVE  Provenance' /\ EvictionDue'
  <2>1. /\ UNCHANGED <<data, got, expiry, now>>
        /\ \A c \in Readers : pc'[c] = pc[c]
        /\ pc'[u] = "done"
        /\ sidecar' = expiry[u] \/ sidecar' = NoFile \/ sidecar' = sidecar
    BY <1>6 DEF RenameSidecar, ClearSidecar
  <2>2. Provenance'
    BY <1>p, <2>1 DEF Provenance, TypeOK, Files
  <2>3. EvictionDue'
    BY <1>p, <2>1 DEF EvictionDue
  <2> QED
    BY <2>2, <2>3
<1>7. ASSUME NEW c \in Readers, Stat(c) PROVE Provenance' /\ EvictionDue'
  BY <1>1, <1>7 DEF Stat, Removing
<1>8. ASSUME NEW c \in Readers, CheckExpiry(c) PROVE Provenance' /\ EvictionDue'
  <2>1. CASE IsExpired /\ Goto(c, "remove_data")
    <3>1. UNCHANGED <<data, got, sidecar, expiry, now>>
      BY <1>8 DEF CheckExpiry
    <3>2. Provenance'
      BY <1>p, <3>1 DEF Provenance, TypeOK, Files
    <3>3. \E u \in Uploads : pc[u] = "done" /\ expiry[u] <= now
      BY <1>p, <2>1 DEF Provenance, IsExpired
    <3> QED
      BY <3>1, <3>2, <3>3 DEF EvictionDue
  <2>2. CASE Goto(c, "canonicalise") \/ Return(c, "hit")
    BY <1>1, <1>8, <2>2 DEF CheckExpiry, Removing
  <2> QED
    BY <1>8, <2>1, <2>2 DEF CheckExpiry
<1>9. ASSUME NEW g \in Gets, Canonicalise(g) PROVE Provenance' /\ EvictionDue'
  BY <1>1, <1>9 DEF Canonicalise, Removing
<1>10. ASSUME NEW g \in Gets, Read(g) PROVE Provenance' /\ EvictionDue'
  <2>1. /\ UNCHANGED <<data, sidecar, expiry, now>>
        /\ \A c \in Readers : pc'[c] \in Removing => pc[c] \in Removing
        /\ got' = got \/ (data # NoFile /\ got' = [got EXCEPT ![g] = data])
    BY <1>10 DEF Read, Removing
  <2>2. Provenance'
    BY <1>p, <2>1 DEF Provenance, TypeOK, Files
  <2>3. EvictionDue'
    BY <1>p, <2>1 DEF EvictionDue
  <2> QED
    BY <2>2, <2>3
<1>11. ASSUME NEW c \in Readers \cup Deletes, RemoveData(c) \/ RemoveSidecar(c)
       PROVE  Provenance' /\ EvictionDue'
  <2>1. /\ UNCHANGED <<got, expiry, now>>
        /\ \A d \in Readers : pc'[d] \in Removing => pc[d] \in Removing
        /\ data' = data \/ data' = NoFile
        /\ sidecar' = sidecar \/ sidecar' = NoFile
    BY <1>11 DEF RemoveData, RemoveSidecar, Removing
  <2>2. Provenance'
    BY <1>p, <2>1 DEF Provenance, TypeOK, Files
  <2>3. EvictionDue'
    BY <1>p, <2>1 DEF EvictionDue
  <2> QED
    BY <2>2, <2>3
<1>12. ASSUME NEW c \in Calls, Abandon(c) PROVE Provenance' /\ EvictionDue'
  BY <1>1, <1>12 DEF Abandon, Removing
<1>13. CASE Tick
  BY <1>1, <1>13 DEF Tick
<1>14. CASE Crash
  BY <1>1, <1>14 DEF Crash, Removing
<1>15. CASE UNCHANGED vars
  BY <1>1, <1>15 DEF vars
<1> QED
  BY <1>2, <1>3, <1>4, <1>5, <1>6, <1>7, <1>8, <1>9, <1>10, <1>11, <1>12, <1>13, <1>14,
     <1>15 DEF Next

\* Nothing is stored, called or evicted at first.
LEMMA InitEvict == Init => EvictInv
<1> SUFFICES ASSUME Init PROVE EvictInv
  OBVIOUS
<1>1. TypeOK
  BY InitIInv DEF IInv
<1>2. CallsInOrder /\ Provenance /\ EvictionDue
  BY DEF Init, CallsInOrder, Provenance, EvictionDue, Removing, Readers, Calls
<1> QED
  BY <1>1, <1>2 DEF EvictInv

\* Every step keeps the invariant behind lazy eviction.
LEMMA EvictInductive == EvictInv /\ [Next]_vars => EvictInv'
  BY TypeStep, OrderStep, EvictStep DEF EvictInv

\* Lazy eviction spares the sole object of a key: whatever fails, is dropped or
\* restarts, a reader only removes a data file whose own ttl has run out.
THEOREM SoleObjectIsKept == Spec => SoleObjectKept
<1>1. EvictInv /\ [Next]_vars => [UploadedOnce' => RemovesExpired]_vars
  <2> SUFFICES ASSUME EvictInv, [Next]_vars, UploadedOnce',
                      NEW c \in Checks \cup Gets, pc[c] = "remove_data", data # NoFile
               PROVE  now >= expiry[data.by]
    BY DEF RemovesExpired
  <2>1. data.by \in Made(Uploads) /\ data.by \in Uploads
    BY DEF EvictInv, Provenance, Made
  <2>2. PICK u \in Uploads : pc[u] = "done" /\ expiry[u] <= now
    BY DEF EvictInv, EvictionDue, Removing, Readers
  <2>3. u \in Made(Uploads)
    BY <2>2 DEF Made
  <2>4. \A v \in Made(Uploads) : v \in Made(Uploads)'
    BY Onwards DEF EvictInv, Made, Calls
  <2>5. u = data.by
    BY <2>1, <2>3, <2>4 DEF UploadedOnce
  <2> QED
    BY <2>2, <2>5 DEF EvictInv, TypeOK
<1> QED
  BY <1>1, InitEvict, EvictInductive, PTL DEF Spec, SoleObjectKept

\* For a key that is uploaded once and not deleted, on a disk that works, the
\* data file and its sidecar are there together while a get may look at them.
LEMMA SidecarStep == EvictInv /\ SidecarKept /\ [Next]_vars => SidecarKept'
<1> SUFFICES ASSUME EvictInv, SidecarKept, [Next]_vars, Undisturbed'
             PROVE  (DataGoesFirst /\ SidecarThere /\ LateGetsStopped)'
  BY DEF SidecarKept
<1>t. TypeOK /\ CallsInOrder /\ Provenance /\ EvictionDue
  BY DEF EvictInv
<1>o. /\ \A c \in Calls : pc[c] # "idle" => pc'[c] # "idle"
      /\ load' = load /\ ttl' = ttl
      /\ now' \in Nat /\ now \in Nat /\ now <= now'
  BY <1>t, Onwards
<1>n. /\ expiry \in [Uploads -> Nat]
      /\ ttl \in [Uploads -> Nat]
      /\ started \in [Calls -> Nat] /\ acked \in [Uploads -> Nat]
      /\ \A c \in Calls : started[c] <= 999
      /\ answer \in [Calls -> Answers] /\ pc \in [Calls -> States]
      /\ got \in [Gets -> Files \cup {NoFile}] /\ data \in Files \cup {NoFile}
  <2>1. load \in Workloads
    BY <1>t DEF TypeOK
  <2>2. load.ttls \subseteq Nat /\ load.maxTime \in 0..999
    BY <2>1, LocalFsAssumption DEF Forever
  <2>3. ASSUME NEW n \in 0..load.maxTime PROVE n \in Nat /\ n <= 999
    BY <2>2
  <2>4. /\ started \in [Calls -> Nat] /\ acked \in [Uploads -> Nat]
        /\ \A c \in Calls : started[c] <= 999
    BY <1>t, <2>3 DEF TypeOK
  <2>5. ttl \in [Uploads -> Nat]
    BY <1>t, <2>2 DEF TypeOK
  <2> QED
    BY <1>t, <2>4, <2>5 DEF TypeOK
<1>h. /\ Undisturbed
      /\ \A u, v \in Uploads : pc'[u] # "idle" /\ pc'[v] # "idle" => u = v
      /\ \A d \in Deletes : pc'[d] = "idle"
      /\ ~load.ioFaults
  BY <1>o DEF Undisturbed, UploadedOnce, Made, Calls
<1>k. DataGoesFirst /\ SidecarThere /\ LateGetsStopped
  BY <1>h DEF SidecarKept
<1>j. /\ Uploads \cap (Checks \cup Gets \cup Deletes) = {}
      /\ Checks \cap (Gets \cup Deletes) = {}
      /\ Gets \cap Deletes = {}
  BY LocalFsAssumption
<1>a. \A u, v \in Uploads : answer[u] = "ok" /\ pc[v] \notin {"idle", "done"} => FALSE
  BY <1>h, <1>o, <1>t DEF CallsInOrder, Calls
<1> HIDE DEF EvictInv
<1> USE <1>o, <1>n, <1>j DEF Goto, Return, Ack, fileVars, timeVars, Calls, Readers
\* Steps that leave files and uploads alone, and let no get past the check.
<1>1. ASSUME UNCHANGED <<sidecar, expiry, acked, got, started>>,
             data' = data \/ data' = NoFile,
             \A u \in Uploads : answer'[u] = "ok" => answer[u] = "ok",
             \A u \in Uploads : pc'[u] = "sidecar_rename" => pc[u] = "sidecar_rename",
             \A c \in Readers : pc'[c] = "remove_sidecar" => pc[c] = "remove_sidecar" \/ data' = NoFile,
             \A g \in Gets : pc'[g] \in {"canonicalise", "read"} => pc[g] \in {"canonicalise", "read"}
      PROVE  (DataGoesFirst /\ SidecarThere /\ LateGetsStopped)'
  <2>1. DataGoesFirst'
    BY <1>1, <1>k DEF DataGoesFirst
  <2>2. SidecarThere'
    BY <1>1, <1>k DEF SidecarThere
  <2>3. LateGetsStopped'
    BY <1>1, <1>k DEF LateGetsStopped, Expired, Files
  <2> QED
    BY <2>1, <2>2, <2>3
<1>2. ASSUME NEW c \in Calls, NEW s \in {"stage", "stat", "remove_data"}, Begin(c, s)
      PROVE  (DataGoesFirst /\ SidecarThere /\ LateGetsStopped)'
  <2>1. /\ UNCHANGED <<sidecar, expiry, acked, got, data, answer, now>>
        /\ pc[c] = "idle"
        /\ pc' = [pc EXCEPT ![c] = s]
        /\ started' = [started EXCEPT ![c] = now]
    BY <1>2 DEF Begin
  <2>2. DataGoesFirst' /\ SidecarThere'
    BY <2>1, <1>k DEF DataGoesFirst, SidecarThere
  <2>3. LateGetsStopped'
    BY <2>1, <1>k, <1>t DEF LateGetsStopped, Expired, Files, CallsInOrder
  <2> QED
    BY <2>2, <2>3
<1>3. ASSUME NEW u \in Uploads, StageTemp(u) \/ SyncTemp(u)
      PROVE  (DataGoesFirst /\ SidecarThere /\ LateGetsStopped)'
  BY <1>1, <1>3, <1>h DEF StageTemp, SyncTemp
<1>4. ASSUME NEW u \in Uploads, RenameData(u)
      PROVE  (DataGoesFirst /\ SidecarThere /\ LateGetsStopped)'
  <2>1. /\ UNCHANGED <<sidecar, expiry, acked, got, started, now, answer>>
        /\ pc[u] = "rename" /\ pc' = [pc EXCEPT ![u] = "sidecar"]
    BY <1>4, <1>h, Zenon DEF RenameData
  <2>2. \A c \in Readers : pc'[c] \notin Removing
    BY <2>1, <1>t, <1>h DEF EvictionDue, Removing
  <2>3. \A v \in Uploads : answer'[v] # "ok"
    BY <2>1, <1>a
  <2>4. DataGoesFirst'
    BY <2>2 DEF DataGoesFirst, Removing
  <2>5. SidecarThere'
    BY <2>1, <2>3, <1>k DEF SidecarThere
  <2>6. LateGetsStopped'
    BY <2>1, <2>3, <1>k DEF LateGetsStopped, Expired, Files
  <2> QED
    BY <2>4, <2>5, <2>6
<1>5. ASSUME NEW u \in Uploads, StageSidecar(u)
      PROVE  (DataGoesFirst /\ SidecarThere /\ LateGetsStopped)'
  <2>1. /\ UNCHANGED <<sidecar, data, acked, got, started, now, answer>>
        /\ pc[u] = "sidecar" /\ pc' = [pc EXCEPT ![u] = "sidecar_rename"]
        /\ expiry' = [expiry EXCEPT ![u] = now + ttl[u]]
    BY <1>5, <1>h DEF StageSidecar
  <2>2. \A v \in Uploads : answer'[v] # "ok"
    BY <2>1, <1>a
  <2>3. DataGoesFirst'
    BY <2>1, <1>k DEF DataGoesFirst
  <2>4. SidecarThere'
    BY <2>1, <2>2, <1>k DEF SidecarThere
  <2>5. LateGetsStopped'
    BY <2>1, <1>k DEF LateGetsStopped, Expired, Files
  <2> QED
    BY <2>3, <2>4, <2>5
<1>6. ASSUME NEW u \in Uploads, RenameSidecar(u) \/ ClearSidecar(u)
      PROVE  (DataGoesFirst /\ SidecarThere /\ LateGetsStopped)'
  <2>1. /\ UNCHANGED <<data, expiry, got, started, now>>
        /\ pc[u] \notin {"idle", "done"} /\ pc' = [pc EXCEPT ![u] = "done"]
        /\ answer' = [answer EXCEPT ![u] = "ok"]
        /\ acked' = [acked EXCEPT ![u] = now]
        /\ \/ ttl[u] = Forever
           \/ pc[u] = "sidecar_rename" /\ sidecar' = expiry[u]
    BY <1>6, <1>h DEF RenameSidecar, ClearSidecar
  <2>2. \A v \in Uploads : answer[v] # "ok"
    BY <2>1, <1>a
  <2>3. DataGoesFirst'
    BY <2>1, <1>k DEF DataGoesFirst
  <2>4. SidecarThere'
    <3>1. \A v \in Uploads : v # u => answer'[v] # "ok" /\ pc'[v] # "sidecar_rename"
      BY <2>1, <2>2, <1>h
    <3>2. acked'[u] = now
      BY <2>1
    <3> QED
      BY <2>1, <3>1, <3>2, <1>k DEF SidecarThere
  <2>5. LateGetsStopped'
    <3>1. ASSUME NEW g \in Gets, NEW v \in Uploads PROVE ~Expired(v, started[g])'
      <4>1. started'[g] \in Nat /\ started'[g] <= now
        BY <2>1, <1>t DEF CallsInOrder
      <4>2. CASE v = u
        BY <2>1, <4>1, <4>2 DEF Expired
      <4>3. CASE v # u
        BY <2>1, <2>2, <4>3 DEF Expired
      <4> QED
        BY <4>2, <4>3
    <3> QED
      BY <3>1, <2>1 DEF LateGetsStopped, Files
  <2> QED
    BY <2>3, <2>4, <2>5
<1>7. ASSUME NEW c \in Readers, Stat(c)
      PROVE  (DataGoesFirst /\ SidecarThere /\ LateGetsStopped)'
  BY <1>1, <1>7 DEF Stat
<1>8. ASSUME NEW c \in Readers, CheckExpiry(c)
      PROVE  (DataGoesFirst /\ SidecarThere /\ LateGetsStopped)'
  <2>1. UNCHANGED <<data, sidecar, expiry, acked, got, started, now>>
    BY <1>8 DEF CheckExpiry
  <2>2. CASE ~IsExpired /\ c \in Gets /\ Goto(c, "canonicalise") /\ UNCHANGED answer
    <3>1. DataGoesFirst' /\ SidecarThere'
      BY <2>1, <2>2, <1>k DEF DataGoesFirst, SidecarThere
    <3>2. ASSUME NEW u \in Uploads, data # NoFile, Expired(u, started[c]) PROVE FALSE
      <4>0. /\ started[c] \in Nat /\ started[c] <= 999 /\ acked[u] \in Nat
            /\ ttl[u] \in Nat /\ expiry[u] \in Nat /\ started[c] <= now
        BY <1>t DEF CallsInOrder
      <4>1. ttl[u] # Forever
        BY <3>2, <4>0 DEF Expired, Forever
      <4>2. sidecar = expiry[u] /\ expiry[u] <= acked[u] + ttl[u]
        BY <3>2, <4>1, <1>k DEF SidecarThere, Expired
      <4>3. expiry[u] <= now
        BY <3>2, <4>0, <4>2 DEF Expired
      <4>4. sidecar # NoFile
        BY <4>2, LocalFsAssumption
      <4> QED
        BY <2>2, <4>2, <4>3, <4>4 DEF IsExpired
    <3>3. LateGetsStopped'
      BY <2>1, <2>2, <3>2, <1>k DEF LateGetsStopped, Expired
    <3> QED
      BY <3>1, <3>3
  <2>3. CASE (Goto(c, "remove_data") /\ UNCHANGED answer) \/ Return(c, "hit")
    BY <1>1, <2>1, <2>3
  <2> QED
    BY <1>8, <2>2, <2>3, <1>h DEF CheckExpiry
<1>9. ASSUME NEW g \in Gets, Canonicalise(g)
      PROVE  (DataGoesFirst /\ SidecarThere /\ LateGetsStopped)'
  BY <1>1, <1>9 DEF Canonicalise
<1>10. ASSUME NEW g \in Gets, Read(g)
       PROVE  (DataGoesFirst /\ SidecarThere /\ LateGetsStopped)'
  <2>1. CASE got' = got
    BY <1>1, <1>10, <2>1 DEF Read
  <2>2. CASE data # NoFile /\ Return(g, "bytes") /\ got' = [got EXCEPT ![g] = data]
    <3>1. UNCHANGED <<data, sidecar, expiry, acked, started, now>> /\ pc[g] = "read"
      BY <1>10 DEF Read
    <3>2. DataGoesFirst' /\ SidecarThere'
      BY <2>2, <3>1, <1>k DEF DataGoesFirst, SidecarThere
    <3>3. LateGetsStopped'
      BY <2>2, <3>1, <1>k DEF LateGetsStopped, Expired, Files
    <3> QED
      BY <3>2, <3>3
  <2> QED
    BY <1>10, <2>1, <2>2 DEF Read
<1>11. ASSUME NEW c \in Readers \cup Deletes, RemoveData(c)
       PROVE  (DataGoesFirst /\ SidecarThere /\ LateGetsStopped)'
  BY <1>1, <1>11, <1>h DEF RemoveData
<1>12. ASSUME NEW c \in Readers \cup Deletes, RemoveSidecar(c)
       PROVE  (DataGoesFirst /\ SidecarThere /\ LateGetsStopped)'
  <2>1. c \in Readers
    BY <1>12, <1>h DEF RemoveSidecar
  <2>2. data = NoFile
    BY <2>1, <1>12, <1>k DEF RemoveSidecar, DataGoesFirst
  <2>3. /\ UNCHANGED <<data, expiry, acked, got, started, now>>
        /\ \A u \in Uploads : pc'[u] = pc[u] /\ answer'[u] = answer[u]
    BY <1>12, <2>1 DEF RemoveSidecar
  <2>4. DataGoesFirst' /\ SidecarThere'
    BY <2>2, <2>3, <1>k DEF DataGoesFirst, SidecarThere
  <2>5. LateGetsStopped'
    BY <2>2, <2>3, <1>k DEF LateGetsStopped, Expired, Files
  <2> QED
    BY <2>4, <2>5
<1>13. ASSUME NEW c \in Calls, Abandon(c)
       PROVE  (DataGoesFirst /\ SidecarThere /\ LateGetsStopped)'
  BY <1>1, <1>13 DEF Abandon
<1>14. CASE Tick
  BY <1>1, <1>14 DEF Tick
<1>15. CASE Crash
  BY <1>1, <1>15 DEF Crash
<1>16. CASE UNCHANGED vars
  BY <1>1, <1>16 DEF vars
<1> QED
  BY <1>2, <1>3, <1>4, <1>5, <1>6, <1>7, <1>8, <1>9, <1>10, <1>11, <1>12, <1>13, <1>14,
     <1>15, <1>16 DEF Next

\* An object is treated as absent once its ttl has elapsed since the upload
\* returned: no get that began later returned it, for any key that is uploaded
\* once and not deleted, on a disk that works, across restarts.
THEOREM TtlIsHonoured == Spec => []TtlHonoured
<1>1. Init => SidecarKept
  BY DEF Init, SidecarKept, DataGoesFirst, SidecarThere, LateGetsStopped, Readers, Calls
<1>2. SidecarKept => TtlHonoured
  BY DEF SidecarKept, LateGetsStopped, Undisturbed, TtlHonoured
<1> QED
  BY <1>1, <1>2, InitEvict, EvictInductive, SidecarStep, PTL DEF Spec

\* Without a ttl no step brings a sidecar or an eviction about, and without a
\* delete none takes the data file away.
LEMMA KeptStep == EvictInv /\ KeptInv /\ [Next]_vars => KeptInv'
<1> SUFFICES ASSUME EvictInv, KeptInv, [Next]_vars, NoTtl'
             PROVE  (NothingEvicted /\ (Made(Deletes) = {} => ObjectStays))'
  BY DEF KeptInv
<1>t. TypeOK /\ CallsInOrder
  BY DEF EvictInv
<1>o. /\ \A c \in Calls : pc[c] # "idle" => pc'[c] # "idle"
      /\ ttl' = ttl
      /\ now \in Nat
  BY <1>t, Onwards
<1>n. /\ answer \in [Calls -> Answers] /\ pc \in [Calls -> States]
      /\ started \in [Calls -> Nat] /\ acked \in [Uploads -> Nat]
  BY <1>o, <1>t DEF TypeOK
<1>j. /\ Uploads \cap (Checks \cup Gets \cup Deletes) = {}
      /\ Checks \cap (Gets \cup Deletes) = {}
      /\ Gets \cap Deletes = {}
  BY LocalFsAssumption
<1>k. /\ NoTtl /\ NothingEvicted
      /\ Made(Deletes)' = {} => /\ ObjectStays
                                /\ \A d \in Deletes : pc[d] = "idle" /\ pc'[d] = "idle"
  BY <1>o DEF KeptInv, NoTtl, Made, Calls
<1> USE <1>o, <1>n, <1>j DEF Goto, Return, Ack, fileVars, timeVars, Calls, Readers, Removing
\* Steps that leave files and uploads alone, and in which no check misses.
<1>1. ASSUME UNCHANGED <<sidecar, data, acked, started>>,
             \A u \in Uploads : answer'[u] = "ok" => answer[u] = "ok",
             \A u \in Uploads : pc'[u] \in {"sidecar", "sidecar_rename"} => pc'[u] = pc[u],
             \A c \in Readers : pc'[c] \in Removing => pc'[c] = pc[c],
             \A c \in Checks : answer'[c] = "miss" => answer[c] = "miss" \/ data = NoFile
      PROVE  (NothingEvicted /\ (Made(Deletes) = {} => ObjectStays))'
  <2>1. NothingEvicted'
    BY <1>1, <1>k DEF NothingEvicted
  <2>2. ObjectStays => ObjectStays'
    BY <1>1 DEF ObjectStays
  <2> QED
    BY <1>k, <2>1, <2>2
<1>2. ASSUME NEW c \in Calls, NEW s \in {"stage", "stat", "remove_data"}, Begin(c, s),
             s = "remove_data" => c \in Deletes
      PROVE  (NothingEvicted /\ (Made(Deletes) = {} => ObjectStays))'
  <2>1. /\ UNCHANGED <<sidecar, data, acked, answer>>
        /\ pc[c] = "idle" /\ pc' = [pc EXCEPT ![c] = s]
        /\ started' = [started EXCEPT ![c] = now]
    BY <1>2 DEF Begin
  <2>2. NothingEvicted'
    BY <1>2, <2>1, <1>k DEF NothingEvicted
  <2>3. ObjectStays => ObjectStays'
    BY <2>1, <1>t DEF ObjectStays, CallsInOrder
  <2> QED
    BY <1>k, <2>2, <2>3
<1>3. ASSUME NEW u \in Uploads, StageTemp(u) \/ SyncTemp(u)
      PROVE  (NothingEvicted /\ (Made(Deletes) = {} => ObjectStays))'
  BY <1>1, <1>3 DEF StageTemp, SyncTemp
<1>4. ASSUME NEW u \in Uploads, RenameData(u)
      PROVE  (NothingEvicted /\ (Made(Deletes) = {} => ObjectStays))'
  <2>1. UNCHANGED <<sidecar, acked, started>>
    BY <1>4 DEF RenameData
  <2>2. CASE Goto(u, "sidecar") /\ UNCHANGED answer /\ data' # NoFile
    <3>1. NothingEvicted'
      BY <2>1, <2>2, <1>k DEF NothingEvicted
    <3>2. ObjectStays => ObjectStays'
      BY <2>1, <2>2 DEF ObjectStays
    <3> QED
      BY <1>k, <3>1, <3>2
  <2>3. CASE Return(u, "failed") /\ UNCHANGED data
    BY <1>1, <2>1, <2>3
  <2>4. \/ Goto(u, "sidecar") /\ UNCHANGED answer
        \/ Return(u, "failed") /\ UNCHANGED data
    BY <1>4, Zenon DEF RenameData
  <2>5. data' # NoFile \/ (data' = data /\ pc'[u] = "done")
    BY <1>4, <1>t, Renamed, Zenon
  <2> QED
    BY <2>2, <2>3, <2>4, <2>5
<1>5. ASSUME NEW u \in Uploads, StageSidecar(u) \/ RenameSidecar(u) PROVE FALSE
  BY <1>5, <1>k DEF StageSidecar, RenameSidecar, NoTtl, NothingEvicted
<1>6. ASSUME NEW u \in Uploads, ClearSidecar(u)
      PROVE  (NothingEvicted /\ (Made(Deletes) = {} => ObjectStays))'
  <2>1. /\ UNCHANGED <<data, started>> /\ sidecar' \in {sidecar, NoFile}
        /\ pc[u] = "sidecar" /\ pc' = [pc EXCEPT ![u] = "done"]
        /\ answer' = [answer EXCEPT ![u] = "ok"]
        /\ acked' = [acked EXCEPT ![u] = now]
    BY <1>6 DEF ClearSidecar
  <2>2. NothingEvicted'
    BY <2>1, <1>k DEF NothingEvicted
  <2>3. ObjectStays => ObjectStays'
    BY <2>1, <1>t DEF ObjectStays, CallsInOrder
  <2> QED
    BY <1>k, <2>2, <2>3
<1>7. ASSUME NEW c \in Readers, Stat(c)
      PROVE  (NothingEvicted /\ (Made(Deletes) = {} => ObjectStays))'
  BY <1>1, <1>7 DEF Stat
<1>8. ASSUME NEW c \in Readers, CheckExpiry(c)
      PROVE  (NothingEvicted /\ (Made(Deletes) = {} => ObjectStays))'
  <2>1. ~IsExpired
    BY <1>k DEF IsExpired, NothingEvicted
  <2> QED
    BY <1>1, <1>8, <2>1 DEF CheckExpiry
<1>9. ASSUME NEW g \in Gets, Canonicalise(g) \/ Read(g)
      PROVE  (NothingEvicted /\ (Made(Deletes) = {} => ObjectStays))'
  BY <1>1, <1>9 DEF Canonicalise, Read
<1>10. ASSUME NEW c \in Readers \cup Deletes, RemoveData(c) \/ RemoveSidecar(c)
       PROVE  (NothingEvicted /\ (Made(Deletes) = {} => ObjectStays))'
  <2>1. c \in Deletes /\ Made(Deletes)' # {}
    BY <1>10, <1>k DEF RemoveData, RemoveSidecar, NothingEvicted
  <2>2. /\ sidecar' \in {sidecar, NoFile}
        /\ \A d \in Uploads \cup Readers : pc'[d] = pc[d]
    BY <1>10, <2>1 DEF RemoveData, RemoveSidecar
  <2> QED
    BY <2>1, <2>2, <1>k DEF NothingEvicted
<1>11. ASSUME NEW c \in Calls, Abandon(c)
       PROVE  (NothingEvicted /\ (Made(Deletes) = {} => ObjectStays))'
  BY <1>1, <1>11 DEF Abandon
<1>12. CASE Tick
  BY <1>1, <1>12 DEF Tick
<1>13. CASE Crash
  BY <1>1, <1>13 DEF Crash
<1>14. CASE UNCHANGED vars
  BY <1>1, <1>14 DEF vars
<1> QED
  BY <1>2, <1>3, <1>4, <1>5, <1>6, <1>7, <1>8, <1>9, <1>10, <1>11, <1>12, <1>13, <1>14
     DEF Next

\* An acknowledged object that has no ttl is a hit for every check that begins
\* later, unless somebody deletes: no reader, failed or dropped call, competing
\* upload or restart makes it disappear.
THEOREM AckedUploadStays == Spec => []AckedUploadIsHit
<1>1. Init => KeptInv
  BY DEF Init, KeptInv, NothingEvicted, ObjectStays, Removing, Readers, Calls
<1>2. EvictInv /\ KeptInv => AckedUploadIsHit
  <2> SUFFICES ASSUME EvictInv, KeptInv, NoTtl, Made(Deletes) = {},
                      NEW u \in Uploads, NEW c \in Checks,
                      answer[u] = "ok", answer[c] = "miss", started[c] > acked[u]
               PROVE  FALSE
    BY DEF AckedUploadIsHit, NoTtl
  <2>1. started[c] <= acked[u]
    BY DEF KeptInv, ObjectStays
  <2>2. started[c] \in Nat /\ acked[u] \in Nat
    BY DEF EvictInv, TypeOK, Calls
  <2> QED
    BY <2>1, <2>2
<1> QED
  BY <1>1, <1>2, InitEvict, EvictInductive, KeptStep, PTL DEF Spec

=============================================================================
