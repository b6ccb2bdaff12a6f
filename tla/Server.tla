------------------------------- MODULE Server -------------------------------
(***************************************************************************)
(* The server process from start-up to exit: it reads its environment or   *)
(* refuses to start, takes requests through the rate limiter, the          *)
(* conditional-request shortcut and the admission guard, answers them      *)
(* from an S3 bucket it shares with whatever was stored before, and drains *)
(* on a signal.                                                            *)
(*                                                                         *)
(* One client address, one image and so one key are enough for the races   *)
(* this is about.  How a request's options become that key is Request's    *)
(* subject, the flight a leader and its followers share SingleFlight's,    *)
(* the image pipeline's pools ImagePipeline's, the local file system's     *)
(* steps LocalFs's: here a flight is a leader at "work" or "put", and the  *)
(* bucket answers only where the backend is S3.                            *)
(***************************************************************************)
EXTENDS ServerConfig, AppError

CONSTANTS
    Requests,           \* identifiers of the requests of a behaviour
    Environments,       \* the environments the process may be started in
    Forever,            \* the expiry of an object stored without one
    MaxTime,            \* where the clock stops
    DefaultDrain,       \* DEFAULT_SHUTDOWN_TIMEOUT_SECS, in ticks of the clock
    DefaultAdmitted,    \* the default of MAX_CONCURRENT_REQUESTS
    DefaultBurst        \* the default of RATE_LIMIT_BURST

VARIABLES
    phase,      \* "starting", "refused", "serving", "draining" or "stopped"
    env,        \* the environment, until it has been read
    config,     \* what start-up made of it
    object,     \* the expiry of the bucket's object; empty when it has none
    detached,   \* calls still on their way to the bucket that nobody waits for
    now,        \* the clock, common to the process and the bucket
    tokens,     \* requests the rate limiter still lets the client make
    permits,    \* free permits of the admission guard
    drain,      \* ticks left of the drain
    req         \* what each request asks, where it is and how it was answered

vars == <<phase, env, config, object, detached, now, tokens, permits, drain, req>>
bucket == <<object, detached>>

ASSUME ServerAssumption ==
    /\ MaxTime \in Nat /\ Forever \in Nat /\ Forever > MaxTime
    /\ {DefaultDrain, DefaultAdmitted, DefaultBurst} \subseteq Nat \ {0}

\* The settings are read as unsigned numbers, and given once or not at all.
ASSUME EnvironmentsAssumption ==
    \A e \in Environments :
        /\ e.host.cpus \in Nat
        /\ \A file \in {e.host.v2, e.host.v1} :
              IsSetting(file, [quota : Nat \cup {Unlimited}, period : Nat])
        /\ DOMAIN e.settings \subseteq Overridable
        /\ "max_concurrent_processing" \in DOMAIN e.settings
        /\ IsSetting(e.settings.max_concurrent_processing, Nat)
        /\ \A f \in DOMAIN e.settings : IsSetting(e.settings[f], e.settings[f])
        /\ IsSetting(e.max_concurrent_requests, Nat)
        /\ IsSetting(e.rate_limit_burst, Nat)
        /\ IsSetting(e.shutdown_timeout, Nat)
        /\ IsSetting(e.cache_ttl, Nat)

Routes == {"/health", "/metrics", "files", "foreign", "resize"}

Waiting == {"handle", "get", "head", "evict", "flight", "follow", "work", "put"}

Active(r) == req[r].pc \in Waiting

NoConfig == [processing |-> 0, admitted |-> 0, burst |-> 0, drain |-> 0,
             ttl |-> Unset, backend |-> "s3", prefix |-> "", key_prefix |-> "",
             token |-> "", open |-> FALSE]

\* Of a finished request only its answer is kept.  `about` is the object its
\* call to the bucket is about: the one it looked at, or the one it stores.
Finished(s) == [pc |-> "done", route |-> "none", header |-> "", status |-> s,
                about |-> Unset, promised |-> FALSE]

Fresh == \E e \in object : now < e

\* The type invariant, and that the admission guard's permits are all either
\* free or held by a request being worked on (middlewares.rs: the permit is
\* dropped on every way out, a timeout and a closed connection included).
ServerInv ==
    /\ phase \in {"starting", "refused", "serving", "draining", "stopped"}
    /\ now \in 0..MaxTime
    /\ tokens \in 0..config.burst
    /\ drain \in 0..config.drain
    /\ \A r \in Requests : req[r].pc \in {"idle", "done", "cut"} \cup Waiting
    /\ \A c \in detached : c.by \in Requests /\ c.call \in {"PUT", "DELETE"}
    /\ phase \in {"serving", "draining"} =>
          permits + Cardinality({r \in Requests : Active(r)}) = config.admitted

Init ==
    /\ phase = "starting"
    /\ env \in {Given(e) : e \in Environments}
    /\ config = NoConfig
    \* an object left by an earlier process, which stored its own like this one does
    /\ object \in {Unset, Given(Forever)}
                    \cup {Given(t) : t \in UNION {e.cache_ttl : e \in env}}
    /\ detached = {}
    /\ now = 0
    /\ tokens = 0 /\ permits = 0 /\ drain = 0
    /\ req = [r \in Requests |-> [Finished(0) EXCEPT !.pc = "idle"]]

-----------------------------------------------------------------------------
(* Start-up: ApiService::create, MiddlewareConfig::from_env, main. *)

\* The fields a running process reads.  The keys it generates and the keys its
\* storage service accepts carry the same prefix.
ReadEnvironment(e, performance) ==
    [ processing  |-> performance.max_concurrent_processing,
      admitted    |-> OrElse(env_positive(e.max_concurrent_requests), DefaultAdmitted),
      burst       |-> OrElse(env_positive(e.rate_limit_burst), DefaultBurst),
      drain       |-> parse_shutdown_timeout(e.shutdown_timeout, DefaultDrain),
      ttl         |-> e.cache_ttl,
      backend     |-> OrElse(StorageNew(e), "s3"),
      prefix      |-> e.sub_path,
      key_prefix  |-> e.sub_path,
      token       |-> MetricsToken(e),
      open        |-> e.allow_unauthenticated_metrics ]

\* ApiService::create: each part refuses the start rather than guess.
Accepted(e) ==
    /\ e.signing_and_presets_accepted
    /\ MetricsAuthAccepted(e)
    /\ PerformanceTryFrom(e) # Unset
    /\ StorageNew(e) # Unset

\* main: the runtime, the service, the router.
Startup ==
    /\ phase = "starting"
    /\ \E e \in env :
          IF WorkerThreads(e) > 0 /\ Accepted(e)
          THEN /\ phase' = "serving"
               /\ config' = ReadEnvironment(e, OrElse(PerformanceTryFrom(e), DefaultPerformance(1)))
          ELSE phase' = "refused" /\ UNCHANGED config
    /\ env' = Unset
    /\ tokens' = config'.burst
    /\ permits' = config'.admitted
    /\ UNCHANGED <<object, detached, now, drain, req>>

-----------------------------------------------------------------------------
(* Answers.  A request gives its permit back with its answer; a leader's   *)
(* followers are answered with it.                                         *)

Followers(r) == IF req[r].pc \in {"work", "put"}
                THEN {f \in Requests : req[f].pc = "follow"} ELSE {}

\* r is answered s, its followers fs.
AnswerAll(r, s, fs) ==
    /\ req' = [q \in Requests |->
                 IF q = r THEN Finished(s)
                 ELSE IF q \in Followers(r) THEN Finished(fs)
                 ELSE req[q]]
    /\ permits' = permits + 1 + Cardinality(Followers(r))
    /\ UNCHANGED <<phase, env, config, now, tokens, drain>>

Answer(r, s) == AnswerAll(r, s, s)

Move(r, pc) ==
    /\ req' = [req EXCEPT ![r].pc = pc]
    /\ UNCHANGED <<phase, env, config, now, tokens, permits, drain>>

-----------------------------------------------------------------------------
(* router/middlewares and router: the layers around every handler. *)

\* if_none_match_satisfied on the request's validator: "*", or the key quoted,
\* with or without the weak prefix.
if_none_match_satisfied(header) == header \in {"*", "key", "W/key"}

\* conditional_download_middleware: answered from the path alone, whether or not
\* the bucket has the object.
NotModified(route, header) ==
    route \in {"files", "foreign"} /\ if_none_match_satisfied(header)

\* Where the router sends a request.  A key with a slash in its prefix is not
\* one path segment: its path is the resize route's, which finds no signature
\* in it.
EntryOf(route) ==
    CASE route \in {"files", "foreign"} /\ config.prefix # "dir/" -> "get"
      [] route = "resize"                                        -> "head"
      [] OTHER                                                   -> "handle"

\* A request arrives: rate limit, conditional shortcut, admission.  No layer
\* waits, and only an admitted request costs a permit.
Arrive(r, route, header) ==
    LET rejects == tokens = 0
        unmodified == NotModified(route, header)
        full == permits = 0
        asked == [req[r] EXCEPT
                    !.route = route,
                    !.header = IF route = "/metrics" THEN header ELSE "",   \* read once
                    !.promised = /\ route = "files"
                                 /\ \E q \in Requests : req[q].status = 301]
        answered(s) == req' = [req EXCEPT ![r] = Finished(s)]
    IN  /\ phase = "serving"
        /\ req[r].pc = "idle"
        /\ tokens' = IF rejects THEN 0 ELSE tokens - 1
        /\ \/ rejects /\ answered(429) /\ UNCHANGED permits
           \/ ~rejects /\ unmodified /\ answered(304) /\ UNCHANGED permits
           \/ ~rejects /\ ~unmodified /\ full /\ answered(503) /\ UNCHANGED permits
           \/ /\ ~rejects /\ ~unmodified /\ ~full
              /\ req' = [req EXCEPT ![r] = [asked EXCEPT !.pc = EntryOf(route)]]
              /\ permits' = permits - 1
        /\ UNCHANGED <<phase, env, config, object, detached, now, drain>>

\* The handlers that touch no storage.
Handle(r) ==
    /\ req[r].pc = "handle"
    /\ Answer(r, CASE req[r].route = "/health"  -> 200
                   [] req[r].route = "/metrics" ->
                        IF config.open \/ verify_token(config.token, req[r].header) THEN 200 ELSE 401
                   [] OTHER                     -> 403)
    /\ UNCHANGED bucket

-----------------------------------------------------------------------------
(* storage/handler, storage/key_validation and storage/s3_handler. *)

\* Fault: an object counts as expired one tick before it does.
is_expired_early(expires) == \E e \in expires : e # Forever /\ now + 1 >= e

\* Fault: an object without an expiry counts as expired.
is_expired_unset(expires) == \E e \in expires : now >= e \/ e = Forever

is_expired(expires) == \E e \in expires : now >= e

\* The key of the image as this deployment generates it, and one that nobody
\* generates.
KeyOf(r) == [prefix |-> config.prefix, hash |-> IF req[r].route = "foreign" THEN "short" ELSE "64 hex",
             ext |-> "jpg"]

validate_cache_key(key, prefix) ==
    /\ key.prefix = prefix
    /\ key.hash = "64 hex"
    /\ key.ext \in {"jpg", "png", "webp", "avif", "gif"}

\* StorageService: no call reaches the backend with a key that is not valid.
KeyAccepted(r) == validate_cache_key(KeyOf(r), config.key_prefix)

S3(r, pc) == req[r].pc = pc /\ config.backend = "s3"

\* download_handler
Downloaded(r) == Answer(r, 200)
NotDownloaded(r, error) == Answer(r, ClassifyDownloadError(error))

\* get_image: GET, then the expiry of what came back.
Get(r) ==
    /\ S3(r, "get")
    /\ IF ~KeyAccepted(r) THEN NotDownloaded(r, "invalid key")
       ELSE \/ NotDownloaded(r, "failed")          \* the call or its body fails
            \/ object = Unset /\ NotDownloaded(r, "not found")
            \/ is_expired(object) /\ req' = [req EXCEPT ![r].pc = "evict", ![r].about = object]
                                  /\ UNCHANGED <<phase, env, config, now, tokens, permits, drain>>
            \/ object # Unset /\ ~is_expired(object) /\ Downloaded(r)
    /\ UNCHANGED bucket

\* resize: check_cache; a failing check is a miss.
Head(r) ==
    /\ S3(r, "head")
    /\ \/ (~KeyAccepted(r) \/ object = Unset) /\ Move(r, "flight")
       \/ Move(r, "flight")                         \* the call fails
       \/ /\ KeyAccepted(r) /\ is_expired(object)
          /\ req' = [req EXCEPT ![r].pc = "evict", ![r].about = object]
          /\ UNCHANGED <<phase, env, config, now, tokens, permits, drain>>
       \/ /\ KeyAccepted(r) /\ object # Unset /\ ~is_expired(object)
          /\ Answer(r, 301)
    /\ UNCHANGED bucket

\* The call to the bucket that r waits for, if it would change anything there.
Pending(r) ==
    IF S3(r, "evict") THEN {[by |-> r, call |-> "DELETE", about |-> req[r].about]}
    ELSE IF S3(r, "put") /\ KeyAccepted(r)
    THEN {[by |-> r, call |-> "PUT", about |-> req[r].about]}
    ELSE {}

\* Nobody waits for the calls of these requests any more: what was sent may
\* take effect at any later time, or never.
Detach(requests) ==
    /\ detached' = detached \cup UNION {Pending(r) : r \in requests}
    /\ UNCHANGED object

\* One that was on its way arrives, perhaps after the process has exited.
Land(c) ==
    /\ object' = IF c.call = "PUT" THEN c.about ELSE Unset
    /\ detached' = detached \ {c}
    /\ UNCHANGED <<phase, env, config, now, tokens, permits, drain, req>>

\* The lazy eviction: DELETE names the key, not the object that was looked at,
\* and its failure is ignored.
Evict(r) ==
    /\ S3(r, "evict")
    /\ \/ object' = Unset /\ UNCHANGED detached
       \/ Detach({r})                               \* the call fails
    /\ IF req[r].route = "files" THEN NotDownloaded(r, "not found")
       ELSE /\ req' = [req EXCEPT ![r].pc = "flight", ![r].about = Unset]
            /\ UNCHANGED <<phase, env, config, now, tokens, permits, drain>>

\* The miss joins the flight of its key or leads one.
JoinFlight(r) ==
    /\ req[r].pc = "flight"
    /\ Move(r, IF \E q \in Requests : req[q].pc \in {"work", "put"} THEN "follow" ELSE "work")
    /\ UNCHANGED bucket

\* The object an upload that begins now is to store.
Stored == Given(IF config.ttl = Unset THEN Forever ELSE now + OrElse(config.ttl, 0))

\* do_resize_work up to the upload: it needs a processing permit, and may fail.
\* The expiry is reckoned from when the upload begins.
Work(r) ==
    /\ req[r].pc = "work"
    /\ \/ /\ config.processing > 0
          /\ req' = [req EXCEPT ![r].pc = "put", ![r].about = Stored]
          /\ UNCHANGED <<phase, env, config, now, tokens, permits, drain>>
       \/ Answer(r, 502)
    /\ UNCHANGED bucket

\* upload_image_with_ttl: PUT.  A failure may still store the object.
Put(r) ==
    /\ S3(r, "put")
    /\ \/ KeyAccepted(r) /\ object' = req[r].about /\ Answer(r, 301) /\ UNCHANGED detached
       \/ KeyAccepted(r) /\ Detach({r}) /\ Answer(r, 502)
       \/ ~KeyAccepted(r) /\ Answer(r, 502) /\ UNCHANGED bucket

-----------------------------------------------------------------------------
(* Requests that are cut short. *)

\* Fault: the permit of a request that timed out is not given back.
CancelLeaking(r) ==
    /\ Active(r)
    /\ req' = [q \in Requests |->
                 IF q = r \/ q \in Followers(r) THEN Finished(503)
                 ELSE req[q]]
    /\ Detach({r})
    /\ UNCHANGED <<phase, env, config, now, tokens, permits, drain>>

\* Fault: the timeout does not cover the upload.
CancelNotUpload(r) ==
    /\ Active(r) /\ req[r].pc # "put"
    /\ AnswerAll(r, 503, 503)
    /\ Detach({r})

\* The request timeout passes or the client goes away: the handler is dropped
\* where it stands; its followers learn that the flight was cancelled.
Cancel(r) ==
    /\ Active(r)
    /\ AnswerAll(r, 503, 503)
    /\ Detach({r})

-----------------------------------------------------------------------------
(* Time, the rate limiter's refill, and shutdown (main). *)

Tick ==
    /\ phase \in {"serving", "draining"}
    /\ \/ now < MaxTime \/ drain > 0
    /\ now' = AtMost(now + 1, MaxTime)
    /\ drain' = AtLeast(drain - 1, 0)
    /\ UNCHANGED <<phase, env, config, object, detached, tokens, permits, req>>

Replenish ==
    /\ phase = "serving"
    /\ tokens < config.burst
    /\ tokens' = tokens + 1
    /\ UNCHANGED <<phase, env, config, object, detached, now, permits, drain, req>>

\* wait_for_shutdown_signal returns on SIGTERM or SIGINT, and also when the
\* SIGINT handler could not be installed.
ShutdownSignal ==
    /\ phase = "serving"
    /\ phase' = "draining"
    /\ drain' = config.drain
    /\ UNCHANGED <<env, config, object, detached, now, tokens, permits, req>>

\* The server task ends: nothing is in flight any more.
Drained ==
    /\ phase = "draining"
    /\ \A r \in Requests : ~Active(r)
    /\ phase' = "stopped"
    /\ UNCHANGED <<env, config, object, detached, now, tokens, permits, drain, req>>

\* The drain deadline passes: the process exits under whoever is left,
\* and every call that was under way is on its own.
DrainDeadline ==
    /\ phase = "draining"
    /\ drain = 0
    /\ \E r \in Requests : Active(r)
    /\ Detach(Requests)
    /\ phase' = "stopped"
    /\ req' = [r \in Requests |-> IF Active(r) THEN [req[r] EXCEPT !.pc = "cut"] ELSE req[r]]
    /\ UNCHANGED <<env, config, now, tokens, permits, drain>>

-----------------------------------------------------------------------------
Bearers == {"", "blank", "secret"}
Validators == {"", "key", "W/key", "*", "other"}

HeadersOf(route) == CASE route = "/metrics"           -> Bearers
                      [] route \in {"files", "foreign"} -> Validators
                      [] OTHER                        -> {""}

Next ==
    \/ Startup
    \/ \E r \in Requests : \E route \in Routes : \E header \in HeadersOf(route) :
          Arrive(r, route, header)
    \/ \E r \in Requests :
          \/ Handle(r) \/ Get(r) \/ Head(r) \/ Evict(r) \/ JoinFlight(r) \/ Work(r) \/ Put(r)
          \/ Cancel(r)
    \/ \E c \in detached : Land(c)
    \/ Tick \/ Replenish \/ ShutdownSignal \/ Drained \/ DrainDeadline

\* What the code guarantees without the bucket's help: timers fire, and the
\* process looks at them.  No call to the bucket need ever return.
Fairness ==
    /\ WF_vars(Startup)
    /\ \A r \in Requests : WF_vars(Cancel(r))
    /\ WF_vars(Tick)
    /\ WF_vars(Drained)
    /\ WF_vars(DrainDeadline)

Spec == Init /\ [][Next]_vars /\ Fairness

-----------------------------------------------------------------------------
(* Properties. *)

\* Where nothing is stored with an expiry, as in every deployment (no setting
\* feeds cache_ttl), a client that follows a redirect is never told that its
\* image does not exist: the key that resize generates passes validation under
\* the prefix the storage service was given (api/handler.rs builds both from
\* STORAGE_SUB_PATH) and nothing evicts it.  Nor is it refused, unless the
\* prefix has a slash: such a key is no single path segment, and 403 is all
\* the client gets.
RedirectServable ==
    [][\A r \in Requests : req[r].promised /\ config.ttl = Unset =>
          /\ req'[r].status # 404
          /\ req'[r].status = 403 => config.prefix = "dir/"]_vars

\* What the DELETEs that may still take effect were decided on, those of
\* requests that are gone included.
Condemned ==
    {req[r].about : r \in {q \in Requests : req[q].pc = "evict"}}
    \cup {c.about : c \in {d \in detached : d.call = "DELETE"}}

\* An object that is still fresh disappears only to a DELETE that was decided
\* on at the sight of another object, one that had expired: the race of
\* s3_handler.rs between the look and the DELETE, however late the DELETE
\* arrives, is the only way to lose one.
FreshLostOnlyToRace ==
    [][Fresh /\ object' = Unset =>
          \E look \in Condemned : look # object /\ \A e \in look : now >= e]_vars

\* A request that was admitted ends, even if the bucket never answers, and a
\* process that starts to drain exits.
NothingHangs ==
    /\ \A r \in Requests : Active(r) ~> ~Active(r)
    /\ (phase = "draining") ~> (phase = "stopped")

\* /metrics is served to a request without the configured token only where the
\* operator opted out in so many words; a token of blanks is not one.
MetricsGuarded ==
    [][\A r \in Requests :
          req[r].route = "/metrics" /\ req'[r].status = 200 =>
             config.open \/ (req[r].header = config.token /\ config.token \notin {"", "blank"})
      ]_vars

\* A process that starts has, for every size, the setting that was given,
\* profile or not; the configuration written out for no profile agrees with
\* the defaults; and it has a processing permit, unless the setting says
\* zero or memory_efficient halves a single CPU.
StartupSound ==
    [][phase = "starting" /\ phase' = "serving" =>
          \A e \in env :
             LET perf == OrElse(PerformanceTryFrom(e), DefaultPerformance(1))
                 n == effective_cpu_count(e.host)
             IN  /\ \A f \in DOMAIN e.settings : e.settings[f] \in {Unset, Given(perf[f])}
                 /\ e.performance_profile \in {"unset", "blank"} =>
                       perf = apply_env_overrides(DefaultPerformance(n), e.settings)
                 /\ config'.processing = 0 =>
                       \/ e.settings.max_concurrent_processing = Given(0)
                       \/ e.performance_profile = "memory_efficient" /\ n = 1
      ]_vars

=============================================================================
