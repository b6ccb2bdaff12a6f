---------------------------- MODULE ImagePipeline ----------------------------
(***************************************************************************)
(* The three semaphores a request that renders an image passes: the one of *)
(* the saturation middleware (taken or shed), ImageService's for downloads *)
(* (waited for) and its one for CPU work (taken or shed), and the blocking *)
(* job that outlives the request when the request is dropped.              *)
(*                                                                         *)
(* A call is one request whose leader runs download_image and then         *)
(* process_image; Watermarked calls download a second image in between.    *)
(* Calls run on several threads, so every semaphore operation is a step,   *)
(* and the closure handed to spawn_blocking is a process of its own.       *)
(***************************************************************************)
EXTENDS Naturals, SequencesExt

CONSTANTS
    Calls,          \* the requests in a behaviour
    Watermarked,    \* those with a watermark
    MaxRequests,    \* MAX_CONCURRENT_REQUESTS
    MaxDownloads,   \* max_concurrent_downloads
    MaxProcessing   \* max_concurrent_processing

ASSUME PipelineAssumption ==
    /\ IsFiniteSet(Calls)
    /\ Watermarked \subseteq Calls
    /\ MaxRequests \in Nat
    /\ MaxDownloads \in Nat
    /\ MaxProcessing \in Nat

VARIABLES
    pc,              \* where each call is
    fetches,         \* how many images a call still has to download
    answer,          \* what each call was answered
    job,             \* the closure a call handed to spawn_blocking
    outcome,         \* what the oneshot channel of a call holds
    requestsFree,    \* permits left in the saturation middleware
    downloadsFree,   \* permits left in download_semaphore
    queue,           \* calls waiting in download_semaphore.acquire()
    processingFree   \* permits left in processing_semaphore

vars == <<pc, fetches, answer, job, outcome,
          requestsFree, downloadsFree, queue, processingFree>>

-----------------------------------------------------------------------------

States == {"idle", "ask", "queue", "fetch", "permit", "await", "done"}

\* "permit" and "cancelled" are the errors that classify_resize_error turns
\* into a 503; "busy" and "timeout" are the middleware's own 503s.
Answers == {"none", "ok", "error", "permit", "cancelled", "busy", "timeout"}

\* A "cleared" job has looked at tx.is_closed() and has not begun its work.
JobStates == {"none", "queued", "cleared", "running", "sent", "over"}

TypeOK ==
    /\ pc \in [Calls -> States]
    /\ fetches \in [Calls -> 0..2]
    /\ answer \in [Calls -> Answers]
    /\ job \in [Calls -> JobStates]
    /\ outcome \in [Calls -> {"none", "ok", "error", "cancelled"}]
    /\ requestsFree \in 0..MaxRequests
    /\ downloadsFree \in 0..MaxDownloads
    /\ queue \in Seq(Calls)
    /\ processingFree \in 0..MaxProcessing

Init ==
    /\ pc = [c \in Calls |-> "idle"]
    /\ fetches = [c \in Calls |-> IF c \in Watermarked THEN 2 ELSE 1]
    /\ answer = [c \in Calls |-> "none"]
    /\ job = [c \in Calls |-> "none"]
    /\ outcome = [c \in Calls |-> "none"]
    /\ requestsFree = MaxRequests
    /\ downloadsFree = MaxDownloads
    /\ queue = <<>>
    /\ processingFree = MaxProcessing

-----------------------------------------------------------------------------
(* The saturation middleware *)

\* try_acquire_owned: the request goes on or is answered 503 at once.
Admit(c) ==
    /\ pc[c] = "idle"
    /\ requestsFree > 0
    /\ requestsFree' = requestsFree - 1
    /\ pc' = [pc EXCEPT ![c] = "ask"]
    /\ UNCHANGED <<fetches, answer, job, outcome, downloadsFree, queue, processingFree>>

\* Fault: a request that got no permit gives one back.
ShedReleases(c) ==
    /\ pc[c] = "idle"
    /\ requestsFree = 0
    /\ pc' = [pc EXCEPT ![c] = "done"]
    /\ answer' = [answer EXCEPT ![c] = "busy"]
    /\ requestsFree' = requestsFree + 1
    /\ UNCHANGED <<fetches, job, outcome, downloadsFree, queue, processingFree>>

Shed(c) ==
    /\ pc[c] = "idle"
    /\ requestsFree = 0
    /\ pc' = [pc EXCEPT ![c] = "done"]
    /\ answer' = [answer EXCEPT ![c] = "busy"]
    /\ UNCHANGED <<fetches, job, outcome, requestsFree, downloadsFree, queue, processingFree>>

\* The response is ready, or the request is dropped: its permit goes back.
Respond(c, a) ==
    /\ answer' = [answer EXCEPT ![c] = a]
    /\ requestsFree' = requestsFree + 1

-----------------------------------------------------------------------------
(* download_image *)

\* Fault: a permit for every image the call is going to fetch, all at once.
AcquireDownloadMany(c) ==
    /\ pc[c] = "ask"
    /\ \/ /\ downloadsFree >= fetches[c]
          /\ downloadsFree' = downloadsFree - fetches[c]
          /\ pc' = [pc EXCEPT ![c] = "fetch"]
          /\ UNCHANGED queue
       \/ /\ downloadsFree < fetches[c]
          /\ queue' = Append(queue, c)
          /\ pc' = [pc EXCEPT ![c] = "queue"]
          /\ UNCHANGED downloadsFree
    /\ UNCHANGED <<fetches, answer, job, outcome, requestsFree, processingFree>>

\* download_semaphore.acquire(): take a permit or join the FIFO of waiters.
AcquireDownload(c) ==
    /\ pc[c] = "ask"
    /\ \/ /\ downloadsFree > 0
          /\ downloadsFree' = downloadsFree - 1
          /\ pc' = [pc EXCEPT ![c] = "fetch"]
          /\ UNCHANGED queue
       \/ /\ downloadsFree = 0
          /\ queue' = Append(queue, c)
          /\ pc' = [pc EXCEPT ![c] = "queue"]
          /\ UNCHANGED downloadsFree
    /\ UNCHANGED <<fetches, answer, job, outcome, requestsFree, processingFree>>

\* Dropping c's permit while c goes on to `next`: tokio hands the permit
\* to the first waiter, or puts it back when there is none.
ReleaseDownload(c, next) ==
    IF queue = <<>>
    THEN /\ downloadsFree' = downloadsFree + 1
         /\ pc' = [pc EXCEPT ![c] = next]
         /\ UNCHANGED queue
    ELSE /\ pc' = [pc EXCEPT ![c] = next, ![Head(queue)] = "fetch"]
         /\ queue' = Tail(queue)
         /\ UNCHANGED downloadsFree

\* Fault: the permit of the first image is kept while the watermark is fetched.
FetchOkHolding(c) ==
    /\ pc[c] = "fetch"
    /\ fetches' = [fetches EXCEPT ![c] = @ - 1]
    /\ IF fetches[c] = 2
       THEN pc' = [pc EXCEPT ![c] = "ask"] /\ UNCHANGED <<downloadsFree, queue>>
       ELSE ReleaseDownload(c, "permit")
    /\ UNCHANGED <<answer, job, outcome, requestsFree, processingFree>>

\* The image is there.  A watermark, fetched before any processing permit is
\* taken, goes through the whole of download_image again.
FetchOk(c) ==
    /\ pc[c] = "fetch"
    /\ fetches' = [fetches EXCEPT ![c] = @ - 1]
    /\ ReleaseDownload(c, IF fetches[c] = 2 THEN "ask" ELSE "permit")
    /\ UNCHANGED <<answer, job, outcome, requestsFree, processingFree>>

\* Refused, unreachable, too large, bad status or http_timeout.
FetchErr(c) ==
    /\ pc[c] = "fetch"
    /\ ReleaseDownload(c, "done")
    /\ Respond(c, "error")
    /\ UNCHANGED <<fetches, job, outcome, processingFree>>

\* A watermark is asked for and there is no URL for it.
NoWatermarkUrl(c) ==
    /\ pc[c] = "ask"
    /\ c \in Watermarked
    /\ fetches[c] = 1
    /\ pc' = [pc EXCEPT ![c] = "done"]
    /\ Respond(c, "error")
    /\ UNCHANGED <<fetches, job, outcome, downloadsFree, queue, processingFree>>

-----------------------------------------------------------------------------
(* process_image *)

\* Fault: the processing permit is taken before the watermark is fetched.
SpawnJobEarly(c) ==
    /\ pc[c] = "ask"
    /\ processingFree > 0
    /\ processingFree' = processingFree - 1
    /\ job' = [job EXCEPT ![c] = "queued"]
    /\ UNCHANGED <<pc, fetches, answer, outcome, requestsFree, downloadsFree, queue>>

\* try_acquire_owned succeeds: the permit moves into the blocking closure.
SpawnJob(c) ==
    /\ pc[c] = "permit"
    /\ processingFree > 0
    /\ processingFree' = processingFree - 1
    /\ job' = [job EXCEPT ![c] = "queued"]
    /\ pc' = [pc EXCEPT ![c] = "await"]
    /\ UNCHANGED <<fetches, answer, outcome, requestsFree, downloadsFree, queue>>

\* It fails: "No processing permit available".
NoPermit(c) ==
    /\ pc[c] = "permit"
    /\ processingFree = 0
    /\ pc' = [pc EXCEPT ![c] = "done"]
    /\ Respond(c, "permit")
    /\ UNCHANGED <<fetches, job, outcome, downloadsFree, queue, processingFree>>

\* rx.await: the result, or "cancelled" when tx was dropped unsent.
Receive(c) ==
    /\ pc[c] = "await"
    /\ outcome[c] # "none"
    /\ pc' = [pc EXCEPT ![c] = "done"]
    /\ Respond(c, outcome[c])
    /\ UNCHANGED <<fetches, job, outcome, downloadsFree, queue, processingFree>>

-----------------------------------------------------------------------------
(* The closure on the blocking pool *)

\* tx.is_closed(): c has stopped awaiting.  The work is skipped.
JobSkips(c) ==
    /\ job[c] = "queued"
    /\ pc[c] # "await"
    /\ job' = [job EXCEPT ![c] = "over"]
    /\ processingFree' = processingFree + 1
    /\ UNCHANGED <<pc, fetches, answer, outcome, requestsFree, downloadsFree, queue>>

\* It was still awaiting at the look.
JobLooks(c) ==
    /\ job[c] = "queued"
    /\ pc[c] = "await"
    /\ job' = [job EXCEPT ![c] = "cleared"]
    /\ UNCHANGED <<pc, fetches, answer, outcome, requestsFree, downloadsFree,
                   queue, processingFree>>

\* The work begins; c may have left since.
JobStarts(c) ==
    /\ job[c] = "cleared"
    /\ job' = [job EXCEPT ![c] = "running"]
    /\ UNCHANGED <<pc, fetches, answer, outcome, requestsFree, downloadsFree,
                   queue, processingFree>>

\* tx.send(result), into a channel that may have been closed meanwhile.
JobSends(c) ==
    /\ job[c] = "running"
    /\ \E res \in {"ok", "error"} : outcome' = [outcome EXCEPT ![c] = res]
    /\ job' = [job EXCEPT ![c] = "sent"]
    /\ UNCHANGED <<pc, fetches, answer, requestsFree, downloadsFree, queue, processingFree>>

\* The closure returns: _permit is dropped after the result was sent.
JobEnds(c) ==
    /\ job[c] = "sent"
    /\ job' = [job EXCEPT ![c] = "over"]
    /\ processingFree' = processingFree + 1
    /\ UNCHANGED <<pc, fetches, answer, outcome, requestsFree, downloadsFree, queue>>

\* Fault: a permit released by hand at the end, which a panic skips.
JobPanicsLeaking(c) ==
    /\ job[c] = "running"
    /\ job' = [job EXCEPT ![c] = "over"]
    /\ outcome' = [outcome EXCEPT ![c] = "cancelled"]
    /\ UNCHANGED <<pc, fetches, answer, requestsFree, downloadsFree, queue, processingFree>>

\* The codec panics: unwinding drops _permit, then tx.
JobPanics(c) ==
    /\ job[c] = "running"
    /\ job' = [job EXCEPT ![c] = "over"]
    /\ outcome' = [outcome EXCEPT ![c] = "cancelled"]
    /\ processingFree' = processingFree + 1
    /\ UNCHANGED <<pc, fetches, answer, requestsFree, downloadsFree, queue>>

-----------------------------------------------------------------------------
(* The request is dropped at an await: timeout, disconnect *)

\* A waiter's Acquire future takes its own node off the queue.
DropQueued(c) ==
    /\ pc[c] = "queue"
    /\ \E i \in 1..Len(queue) : queue[i] = c /\ queue' = RemoveAt(queue, i)
    /\ pc' = [pc EXCEPT ![c] = "done"]
    /\ Respond(c, "timeout")
    /\ UNCHANGED <<fetches, job, outcome, downloadsFree, processingFree>>

\* A download in progress is abandoned with its permit.
DropFetching(c) ==
    /\ pc[c] = "fetch"
    /\ ReleaseDownload(c, "done")
    /\ Respond(c, "timeout")
    /\ UNCHANGED <<fetches, job, outcome, processingFree>>

\* Fault: the permit belongs to the request and not to the closure.
DropAwaitingReleases(c) ==
    /\ pc[c] = "await"
    /\ pc' = [pc EXCEPT ![c] = "done"]
    /\ Respond(c, "timeout")
    /\ processingFree' = processingFree + 1
    /\ UNCHANGED <<fetches, job, outcome, downloadsFree, queue>>

\* rx is dropped; the job keeps its permit until it notices or ends.
DropAwaiting(c) ==
    /\ pc[c] = "await"
    /\ pc' = [pc EXCEPT ![c] = "done"]
    /\ Respond(c, "timeout")
    /\ UNCHANGED <<fetches, job, outcome, downloadsFree, queue, processingFree>>

-----------------------------------------------------------------------------
(* Specification *)

Fetch(c) == FetchOk(c) \/ FetchErr(c)
Process(c) == SpawnJob(c) \/ NoPermit(c)
Job(c) ==
    \/ JobSkips(c) \/ JobLooks(c) \/ JobStarts(c)
    \/ JobSends(c) \/ JobEnds(c) \/ JobPanics(c)
Drop(c) == DropQueued(c) \/ DropFetching(c) \/ DropAwaiting(c)

Next ==
    \E c \in Calls :
        \/ Admit(c) \/ Shed(c)
        \/ AcquireDownload(c) \/ Fetch(c) \/ NoWatermarkUrl(c)
        \/ Process(c) \/ Receive(c) \/ Job(c) \/ Drop(c)

Spec == Init /\ [][Next]_vars

\* Downloads end (http_timeout), blocking jobs end (bounded inputs) and ready
\* futures are polled.  No call is assumed to be dropped.
Fairness ==
    \A c \in Calls :
        /\ WF_vars(AcquireDownload(c))
        /\ WF_vars(Fetch(c))
        /\ WF_vars(Process(c))
        /\ WF_vars(Receive(c))
        /\ WF_vars(Job(c))

FairSpec == Spec /\ Fairness

-----------------------------------------------------------------------------
(* Safety *)

Admitted == {c \in Calls : pc[c] \notin {"idle", "done"}}
Fetching == {c \in Calls : pc[c] = "fetch"}
Holding == {c \in Calls : job[c] \in {"queued", "cleared", "running", "sent"}}

\* No permit is lost or made up, however calls end: those of the middleware
\* and of download_semaphore are out exactly with the calls under way, those
\* of processing_semaphore with the closures that have not returned, the ones
\* whose request was dropped included.
PermitsConserved ==
    /\ requestsFree + Cardinality(Admitted) = MaxRequests
    /\ downloadsFree + Cardinality(Fetching) = MaxDownloads
    /\ processingFree + Cardinality(Holding) = MaxProcessing

\* The waiters of acquire() are queued once each, and none of them waits
\* while a download permit is free.
NoLostWakeup ==
    /\ {queue[i] : i \in DOMAIN queue} = {c \in Calls : pc[c] = "queue"}
    /\ \A i, j \in DOMAIN queue : queue[i] = queue[j] => i = j
    /\ queue # <<>> => downloadsFree = 0

\* process_image's comment: a processing slot is never held while its request
\* waits on the network, be it for the source or for the watermark.
NoSlotIdlesOnNetwork ==
    \A c \in Calls : job[c] # "none" => pc[c] \in {"await", "done"}

\* The bookkeeping is right: types, every permit accounted for, and none of
\* the processing permits idle on the network.
PipelineInv == TypeOK /\ PermitsConserved /\ NoSlotIdlesOnNetwork

-----------------------------------------------------------------------------
(* Liveness, of FairSpec *)

\* Everybody admitted is answered, without the help of the request timeout.
\* A call happens once, so from some time on none of them is left under way.
EveryCallAnswered == <>[](Admitted = {})

\* Once requests stop coming every permit comes back: neither abandoned jobs
\* nor panics nor dropped waiters leak capacity.
CapacityReturns ==
    <>[](downloadsFree = MaxDownloads /\ processingFree = MaxProcessing)

=============================================================================
