------------------------------- MODULE LocalFs -------------------------------
(***************************************************************************)
(* LocalFSStorage: the storage backend that keeps an object as a file and, *)
(* for an object with a time to live, its expiry in a sidecar file.        *)
(*                                                                         *)
(* Keys resolve to different paths, so the module follows one key: its     *)
(* data file, its sidecar, and the temp files staged for them.  Each       *)
(* system call is one step; calls of the backend interleave freely.  The   *)
(* process may be killed between any two of them.                          *)
(***************************************************************************)
EXTENDS Naturals, FiniteSets

CONSTANTS
    Uploads,    \* calls of upload_image_with_ttl
    Checks,     \* calls of check_cache
    Gets,       \* calls of get_image
    Deletes,    \* calls of delete
    NoFile,     \* "no such file"
    Workloads   \* the traffic and the faults the key may meet

Forever == 1000

\* A data file: the upload whose bytes it has, and whether all of them.
Files == [by : Uploads, whole : BOOLEAN]

\* A workload: how many uploads are called at most, the values `ttl` has
\* (Forever standing for None), the bounds on the clock (in seconds) and on
\* restarts, and whether a system call may fail with more than NotFound.
ASSUME LocalFsAssumption ==
    /\ NoFile \notin Files \cup Nat
    /\ Uploads \cap (Checks \cup Gets \cup Deletes) = {}
    /\ Checks \cap (Gets \cup Deletes) = {}
    /\ Gets \cap Deletes = {}
    /\ \A w \in Workloads :
          /\ w.uploads \in Nat
          /\ w.deletes \in Nat
          /\ w.ttls \subseteq Nat
          /\ w.maxTime \in 0..(Forever - 1)
          /\ w.maxCrashes \in Nat
          /\ w.ioFaults \in BOOLEAN

Calls == Uploads \cup Checks \cup Gets \cup Deletes

VARIABLES
    load,      \* the workload
    pc,        \* where each call is
    ttl,       \* the ttl argument of each upload
    data,      \* the data file: NoFile, or what was written by whom
    sidecar,   \* the sidecar: NoFile, or the expiry it holds
    tmp,       \* each upload's temp file: "none", "partial" or "whole"
    expiry,    \* the expiry an upload gave its object, Forever until it does
    answer,    \* what each call returned
    got,       \* the file a get returned
    started,   \* when each call began
    acked,     \* when each upload returned Ok
    now,       \* SystemTime::now(), in seconds
    crashes    \* number of restarts so far

fileVars == <<data, sidecar, tmp>>
timeVars == <<now, crashes, load>>
vars == <<load, pc, ttl, data, sidecar, tmp, expiry, answer, got, started, acked, now, crashes>>

States == {"idle", "stage", "sync", "rename", "sidecar", "sidecar_rename",
           "stat", "expiry", "canonicalise", "read", "remove_data",
           "remove_sidecar", "done"}

\* "missing" is an error that says "not found"; "failed" one that does not.
Answers == {"none", "ok", "hit", "miss", "bytes", "missing", "failed", "killed"}

TypeOK ==
    /\ load \in Workloads
    /\ pc \in [Calls -> States]
    /\ ttl \in [Uploads -> load.ttls]
    /\ data \in Files \cup {NoFile}
    /\ sidecar \in Nat \cup {NoFile}
    /\ tmp \in [Uploads -> {"none", "partial", "whole"}]
    /\ expiry \in [Uploads -> Nat]
    /\ answer \in [Calls -> Answers]
    /\ got \in [Gets -> Files \cup {NoFile}]
    /\ started \in [Calls -> 0..load.maxTime]
    /\ acked \in [Uploads -> 0..load.maxTime]
    /\ now \in 0..load.maxTime
    /\ crashes \in 0..load.maxCrashes

Init ==
    /\ load \in Workloads
    /\ pc = [c \in Calls |-> "idle"]
    /\ ttl \in [Uploads -> load.ttls]
    /\ data = NoFile
    /\ sidecar = NoFile
    /\ tmp = [u \in Uploads |-> "none"]
    /\ expiry = [u \in Uploads |-> Forever]
    /\ answer = [c \in Calls |-> "none"]
    /\ got = [g \in Gets |-> NoFile]
    /\ started = [c \in Calls |-> 0]
    /\ acked = [u \in Uploads |-> 0]
    /\ now = 0
    /\ crashes = 0

-----------------------------------------------------------------------------

Goto(c, state) == pc' = [pc EXCEPT ![c] = state]

Return(c, a) ==
    /\ Goto(c, "done")
    /\ answer' = [answer EXCEPT ![c] = a]

\* The calls of a set that were made.
Made(calls) == {c \in calls : pc[c] # "idle"}

Begin(c, state) ==
    /\ pc[c] = "idle"
    /\ c \in Uploads => Cardinality(Made(Uploads)) < load.uploads
    /\ c \in Deletes => Cardinality(Made(Deletes)) < load.deletes
    /\ Goto(c, state)
    /\ started' = [started EXCEPT ![c] = now]
    /\ UNCHANGED <<ttl, got, expiry, answer, acked>>
    /\ UNCHANGED fileVars
    /\ UNCHANGED timeVars

-----------------------------------------------------------------------------
(* upload_image_with_ttl *)

\* Fault: renamed into place before it is written and synced.
StageTempUnsynced(u) ==
    /\ pc[u] = "stage"
    /\ \/ Goto(u, "rename") /\ tmp' = [tmp EXCEPT ![u] = "partial"] /\ UNCHANGED answer
       \/ load.ioFaults /\ Return(u, "failed") /\ UNCHANGED tmp
    /\ UNCHANGED <<ttl, got, data, sidecar, expiry, started, acked>>
    /\ UNCHANGED timeVars

\* Create the temp file and start writing it, or fail and clean up.
StageTemp(u) ==
    /\ pc[u] = "stage"
    /\ \/ Goto(u, "sync") /\ tmp' = [tmp EXCEPT ![u] = "partial"] /\ UNCHANGED answer
       \/ load.ioFaults /\ Return(u, "failed") /\ UNCHANGED tmp
    /\ UNCHANGED <<ttl, got, data, sidecar, expiry, started, acked>>
    /\ UNCHANGED timeVars

\* write_all and sync_all: the temp file is whole, or it is removed.
SyncTemp(u) ==
    /\ pc[u] = "sync"
    /\ \/ Goto(u, "rename") /\ tmp' = [tmp EXCEPT ![u] = "whole"] /\ UNCHANGED answer
       \/ load.ioFaults /\ Return(u, "failed") /\ tmp' = [tmp EXCEPT ![u] = "none"]
    /\ UNCHANGED <<ttl, got, data, sidecar, expiry, started, acked>>
    /\ UNCHANGED timeVars

\* The atomic rename into place; a failed one leaves the temp file behind.
RenameData(u) ==
    /\ pc[u] = "rename"
    /\ \/ /\ data' = [by |-> u, whole |-> tmp[u] = "whole"]
          /\ tmp' = [tmp EXCEPT ![u] = "none"]
          /\ Goto(u, "sidecar")
          /\ UNCHANGED answer
       \/ load.ioFaults /\ Return(u, "failed") /\ UNCHANGED <<data, tmp>>
    /\ UNCHANGED <<ttl, got, sidecar, expiry, started, acked>>
    /\ UNCHANGED timeVars

Ack(u) ==
    /\ Return(u, "ok")
    /\ acked' = [acked EXCEPT ![u] = now]

\* ttl = Some: the expiry counts from here; staging it is best effort.
StageSidecar(u) ==
    /\ pc[u] = "sidecar"
    /\ ttl[u] # Forever
    /\ \/ /\ expiry' = [expiry EXCEPT ![u] = now + ttl[u]]
          /\ Goto(u, "sidecar_rename")
          /\ UNCHANGED <<answer, acked>>
       \/ load.ioFaults /\ Ack(u) /\ UNCHANGED expiry
    /\ UNCHANGED <<ttl, got, started>>
    /\ UNCHANGED fileVars
    /\ UNCHANGED timeVars

RenameSidecar(u) ==
    /\ pc[u] = "sidecar_rename"
    /\ \/ sidecar' = expiry[u]
       \/ load.ioFaults /\ UNCHANGED sidecar
    /\ Ack(u)
    /\ UNCHANGED <<ttl, got, data, tmp, expiry, started>>
    /\ UNCHANGED timeVars

\* Fault: "never" is written as the expiry -1.
ClearSidecarSentinel(u) ==
    /\ pc[u] = "sidecar"
    /\ ttl[u] = Forever
    /\ sidecar' = 0 - 1
    /\ Ack(u)
    /\ UNCHANGED <<ttl, got, data, tmp, expiry, started>>
    /\ UNCHANGED timeVars

\* ttl = None: clear the sidecar of an earlier upload, best effort.
ClearSidecar(u) ==
    /\ pc[u] = "sidecar"
    /\ ttl[u] = Forever
    /\ \/ sidecar' = NoFile
       \/ load.ioFaults /\ UNCHANGED sidecar
    /\ Ack(u)
    /\ UNCHANGED <<ttl, got, data, tmp, expiry, started>>
    /\ UNCHANGED timeVars

-----------------------------------------------------------------------------
(* check_cache, get_image and delete *)

\* metadata(): absent is a miss for a check; a get words any failure of it as
\* "not found".
Stat(c) ==
    /\ pc[c] = "stat"
    /\ \/ data # NoFile /\ Goto(c, "expiry") /\ UNCHANGED answer
       \/ data = NoFile /\ Return(c, IF c \in Gets THEN "missing" ELSE "miss")
       \/ load.ioFaults /\ Return(c, IF c \in Gets THEN "missing" ELSE "failed")
    /\ UNCHANGED <<ttl, got, expiry, started, acked>>
    /\ UNCHANGED fileVars
    /\ UNCHANGED timeVars

\* Faults: failing closed; one second late; one second early.
IsExpiredClosed == IF sidecar = NoFile THEN TRUE ELSE now >= sidecar
IsExpiredLate == sidecar # NoFile /\ now > sidecar
IsExpiredEarly == sidecar # NoFile /\ now + 1 >= sidecar

\* is_expired fails open: no readable sidecar means "not expired".
IsExpired == sidecar # NoFile /\ now >= sidecar

\* The sidecar is read and compared with the clock.
CheckExpiry(c) ==
    /\ pc[c] = "expiry"
    /\ \/ IsExpired /\ Goto(c, "remove_data") /\ UNCHANGED answer
       \/ /\ ~IsExpired \/ load.ioFaults
          /\ IF c \in Gets THEN Goto(c, "canonicalise") /\ UNCHANGED answer
                           ELSE Return(c, "hit")
    /\ UNCHANGED <<ttl, got, expiry, started, acked>>
    /\ UNCHANGED fileVars
    /\ UNCHANGED timeVars

\* assert_within_base follows the path again.
Canonicalise(g) ==
    /\ pc[g] = "canonicalise"
    /\ \/ data # NoFile /\ Goto(g, "read") /\ UNCHANGED answer
       \/ (data = NoFile \/ load.ioFaults) /\ Return(g, "failed")
    /\ UNCHANGED <<ttl, got, expiry, started, acked>>
    /\ UNCHANGED fileVars
    /\ UNCHANGED timeVars

Read(g) ==
    /\ pc[g] = "read"
    /\ \/ data # NoFile /\ Return(g, "bytes") /\ got' = [got EXCEPT ![g] = data]
       \/ (data = NoFile \/ load.ioFaults) /\ Return(g, "failed") /\ UNCHANGED got
    /\ UNCHANGED <<ttl, expiry, started, acked>>
    /\ UNCHANGED fileVars
    /\ UNCHANGED timeVars

\* What a call answers once `delete` is over, whatever became of it.
AfterRemoval(c) ==
    CASE c \in Deletes -> "ok"
      [] c \in Gets    -> "missing"
      [] OTHER         -> "miss"

\* `delete`, for its own sake or as lazy eviction: first the data file.
RemoveData(c) ==
    /\ pc[c] = "remove_data"
    /\ \/ data' = NoFile /\ Goto(c, "remove_sidecar") /\ UNCHANGED answer
       \/ /\ load.ioFaults
          /\ Return(c, IF c \in Deletes THEN "failed" ELSE AfterRemoval(c))
          /\ UNCHANGED data
    /\ UNCHANGED <<ttl, got, sidecar, tmp, expiry, started, acked>>
    /\ UNCHANGED timeVars

\* Then the sidecar, best effort.
RemoveSidecar(c) ==
    /\ pc[c] = "remove_sidecar"
    /\ \/ sidecar' = NoFile
       \/ load.ioFaults /\ UNCHANGED sidecar
    /\ Return(c, AfterRemoval(c))
    /\ UNCHANGED <<ttl, got, data, tmp, expiry, started, acked>>
    /\ UNCHANGED timeVars

-----------------------------------------------------------------------------
(* The world *)

Tick ==
    /\ now < load.maxTime
    /\ now' = now + 1
    /\ UNCHANGED <<pc, ttl, got, expiry, answer, started, acked, crashes, load>>
    /\ UNCHANGED fileVars

\* The request behind a call is dropped at one of its awaits.
Abandon(c) ==
    /\ pc[c] \notin {"idle", "done"}
    /\ Return(c, "killed")
    /\ UNCHANGED <<ttl, got, expiry, started, acked>>
    /\ UNCHANGED fileVars
    /\ UNCHANGED timeVars

\* The process is killed: running calls are gone, files stay as they are.
Crash ==
    /\ crashes < load.maxCrashes
    /\ crashes' = crashes + 1
    /\ LET running == {c \in Calls : pc[c] \notin {"idle", "done"}}
       IN /\ pc' = [c \in Calls |-> IF c \in running THEN "done" ELSE pc[c]]
          /\ answer' = [c \in Calls |-> IF c \in running THEN "killed" ELSE answer[c]]
    /\ UNCHANGED <<ttl, got, expiry, started, acked, now, load>>
    /\ UNCHANGED fileVars

Next ==
    \/ \E u \in Uploads :
          \/ Begin(u, "stage") \/ StageTemp(u) \/ SyncTemp(u) \/ RenameData(u)
          \/ StageSidecar(u) \/ RenameSidecar(u) \/ ClearSidecar(u)
    \/ \E c \in Checks \cup Gets :
          Begin(c, "stat") \/ Stat(c) \/ CheckExpiry(c)
    \/ \E g \in Gets : Canonicalise(g) \/ Read(g)
    \/ \E d \in Deletes : Begin(d, "remove_data")
    \/ \E c \in Checks \cup Gets \cup Deletes : RemoveData(c) \/ RemoveSidecar(c)
    \/ \E c \in Calls : Abandon(c)
    \/ Tick
    \/ Crash

Spec == Init /\ [][Next]_vars

-----------------------------------------------------------------------------
(* Properties *)

\* Atomic write: data files, and what was read of them, are whole.
NoPartialRead ==
    /\ data # NoFile => data.whole
    /\ \A g \in Gets : got[g] # NoFile => got[g].whole

\* At `t`, a later second than the one an upload returned Ok in, its `ttl`
\* has elapsed.
Expired(u, t) == answer[u] = "ok" /\ t > acked[u] /\ t >= acked[u] + ttl[u]

\* The key was uploaded once at most: two uploads can pair the data of the
\* one with the expiry of the other.
UploadedOnce == \A u, v \in Made(Uploads) : u = v

\* StorageBackend::upload_image_with_ttl: an object is treated as absent once
\* its ttl has elapsed since the upload returned.  A get that begins later
\* does not return it, unless its sidecar could not be written or read, or a
\* delete that overlapped the upload took the sidecar and not the data.
TtlHonoured ==
    UploadedOnce /\ ~load.ioFaults /\ Made(Deletes) = {} =>
        \A g \in Gets : got[g] # NoFile => ~Expired(got[g].by, started[g])

\* What a reader removes has outlived its own ttl.
RemovesExpired ==
    \A c \in Checks \cup Gets :
        pc[c] = "remove_data" /\ pc'[c] = "remove_sidecar" /\ data # NoFile =>
            now >= expiry[data.by]

\* check_cache's comment on lazy eviction: if it races the leader's own upload
\* the worst outcome is a miss.  So a reader only ever removes a data file
\* whose own ttl has run out.
EvictsOnlyExpired == [][RemovesExpired]_vars

\* For a key that is uploaded once that holds, whatever fails, is dropped or
\* restarts: no reader removes an object before its ttl has run out.
SoleObjectKept == [][UploadedOnce' => RemovesExpired]_vars

\* With no TTL in use an acknowledged object stays a hit for the checks that
\* begin later: no reader, failed call or restart makes it disappear, only a
\* delete does.
AckedUploadIsHit ==
    (\A u \in Uploads : ttl[u] = Forever) =>
        \A u \in Uploads, c \in Checks :
            answer[u] = "ok" /\ answer[c] = "miss" /\ started[c] > acked[u] =>
                Made(Deletes) # {}

\* Types, and the atomic write of upload_image_with_ttl.  Whatever
\* interleaves or crashes, a get returns all the bytes of one upload and the
\* data file is never a partial one.
StoredWhole == TypeOK /\ NoPartialRead

=============================================================================
