---------------------------- MODULE ServerConfig ----------------------------
(***************************************************************************)
(* What the environment of the process says about its sizes, its storage   *)
(* and its protected endpoint, and what ApiService::create and main make   *)
(* of it.  An optional setting is a set of at most one value.              *)
(***************************************************************************)
EXTENDS Integers, FiniteSets

CONSTANT Features       \* the cargo features of the build that name a storage backend

Backends == {"s3", "local_fs", "in_memory"}

ASSUME FeaturesAssumption == Features \subseteq Backends

Unset == {}
Given(v) == {v}
IsSetting(setting, values) == setting \subseteq values /\ \A v, w \in setting : v = w
OrElse(setting, default) == IF setting = Unset THEN default ELSE CHOOSE v \in setting : TRUE

AtLeast(a, b) == IF a >= b THEN a ELSE b
AtMost(a, b) == IF a <= b THEN a ELSE b

-----------------------------------------------------------------------------
(* utils/cgroup: how many CPUs the process may use. *)

\* A quota of -1 is v1's "no limit"; v2 spells it "max".
Unlimited == -1

\* quota_to_cpu_count: rounded up, at least one.
quota_to_cpu_count(quota, period) ==
    IF period = 0 THEN Unset ELSE Given(AtLeast((quota + period - 1) \div period, 1))

\* parse_cgroup_v2_cpu_max and parse_cgroup_v1_quota.
ParseQuota(file) ==
    IF file = Unset \/ OrElse(file, <<>>).quota = Unlimited THEN Unset
    ELSE quota_to_cpu_count(OrElse(file, <<>>).quota, OrElse(file, <<>>).period)

\* cgroup_cpu_quota: v2 when it is there and sets a limit, else v1.
cgroup_cpu_quota(host) ==
    IF ParseQuota(host.v2) # Unset THEN ParseQuota(host.v2) ELSE ParseQuota(host.v1)

effective_cpu_count(host) ==
    AtMost(AtLeast(OrElse(cgroup_cpu_quota(host), host.cpus), 1), AtLeast(host.cpus, 1))

-----------------------------------------------------------------------------
(* config/performance *)

\* A CPU pool left to its default size.
Automatic == -1

\* PerformanceConfig::default on a host with n CPUs.  allowed_sources is the
\* list that parse_allowed_sources makes of the setting, blanks dropped.
DefaultPerformance(n) ==
    [ max_concurrent_downloads |-> 20, max_concurrent_processing |-> n, http_timeout |-> 30,
      max_image_size |-> 50, cpu_thread_pool_size |-> Automatic, enable_http2 |-> TRUE,
      connection_pool_size |-> 50, keep_alive_timeout |-> 60, max_redirects |-> 5,
      max_src_resolution_mp |-> 50, max_output_width |-> 4096, max_output_height |-> 4096,
      max_animation_frames |-> 512, allowed_sources |-> {},
      allow_loopback_source_addresses |-> FALSE, allow_link_local_source_addresses |-> FALSE,
      watermark_url |-> "none", jpeg_progressive_default |-> FALSE,
      jpeg_no_subsampling_default |-> FALSE ]

high_throughput(n) ==
    [ DefaultPerformance(n) EXCEPT
        !.max_concurrent_downloads = 50, !.max_concurrent_processing = 2 * n,
        !.http_timeout = 15, !.max_image_size = 100, !.cpu_thread_pool_size = n,
        !.connection_pool_size = 100, !.keep_alive_timeout = 120 ]

low_latency(n) ==
    [ DefaultPerformance(n) EXCEPT
        !.max_concurrent_downloads = 10, !.http_timeout = 10, !.max_image_size = 20,
        !.cpu_thread_pool_size = n, !.connection_pool_size = 25, !.keep_alive_timeout = 30 ]

memory_efficient(n) ==
    [ DefaultPerformance(n) EXCEPT
        !.max_concurrent_downloads = 5, !.max_concurrent_processing = n \div 2,
        !.http_timeout = 45, !.max_image_size = 10, !.cpu_thread_pool_size = n \div 2,
        !.enable_http2 = FALSE, !.connection_pool_size = 10, !.keep_alive_timeout = 30,
        !.max_src_resolution_mp = 25, !.max_output_width = 2048, !.max_output_height = 2048,
        !.max_animation_frames = 128 ]

Overridable == DOMAIN DefaultPerformance(1)

Overridden(settings, f, default) ==
    IF f \in DOMAIN settings THEN OrElse(settings[f], default) ELSE default

\* apply_env_overrides: a setting that is given replaces the profile's.
apply_env_overrides(config, settings) ==
    [f \in Overridable |-> Overridden(settings, f, config[f])]

\* The configuration of no profile, which TryFrom writes out field by field.
CustomPerformance(n, settings) ==
    LET or(f, default) == Overridden(settings, f, default)
    IN  [ max_concurrent_downloads  |-> or("max_concurrent_downloads", 20),
          max_concurrent_processing |-> or("max_concurrent_processing", n),
          http_timeout              |-> or("http_timeout", 30),
          max_image_size            |-> or("max_image_size", 50),
          cpu_thread_pool_size      |-> or("cpu_thread_pool_size", Automatic),
          enable_http2              |-> or("enable_http2", TRUE),
          connection_pool_size      |-> or("connection_pool_size", 50),
          keep_alive_timeout        |-> or("keep_alive_timeout", 60),
          max_redirects             |-> or("max_redirects", 5),
          max_src_resolution_mp     |-> or("max_src_resolution_mp", 50),
          max_output_width          |-> or("max_output_width", 4096),
          max_output_height         |-> or("max_output_height", 4096),
          max_animation_frames      |-> or("max_animation_frames", 512),
          allowed_sources           |-> or("allowed_sources", {}),
          allow_loopback_source_addresses   |-> or("allow_loopback_source_addresses", FALSE),
          allow_link_local_source_addresses |-> or("allow_link_local_source_addresses", FALSE),
          watermark_url             |-> or("watermark_url", "none"),
          jpeg_progressive_default  |-> or("jpeg_progressive_default", FALSE),
          jpeg_no_subsampling_default |-> or("jpeg_no_subsampling_default", FALSE) ]

\* Fault: the profile's own numbers win over the settings.
PerformanceTryFromProfileOnly(e) ==
    LET n == effective_cpu_count(e.host) IN
    CASE e.performance_profile \in {"unset", "blank"} -> Given(CustomPerformance(n, e.settings))
      [] e.performance_profile = "high_throughput"    -> Given(high_throughput(n))
      [] e.performance_profile = "low_latency"        -> Given(low_latency(n))
      [] e.performance_profile = "memory_efficient"   -> Given(memory_efficient(n))
      [] OTHER                                        -> Unset

\* PerformanceConfig::try_from: a profile with the settings over it, none for
\* a profile nobody knows.
PerformanceTryFrom(e) ==
    LET n == effective_cpu_count(e.host)
        with(profile) == Given(apply_env_overrides(profile, e.settings))
    IN  CASE e.performance_profile \in {"unset", "blank"} -> Given(CustomPerformance(n, e.settings))
          [] e.performance_profile = "high_throughput"    -> with(high_throughput(n))
          [] e.performance_profile = "low_latency"        -> with(low_latency(n))
          [] e.performance_profile = "memory_efficient"   -> with(memory_efficient(n))
          [] OTHER                                        -> Unset

-----------------------------------------------------------------------------
(* storage/handler: which backend, and under which key prefix. *)

\* StorageType::from_str, on what the setting says in upper case.
StorageTypeOf(text) ==
    CASE text \in {"S3", "MINIO"}                      -> Given("s3")
      [] text \in {"LOCAL_FS", "LOCALFS", "LOCAL"}     -> Given("local_fs")
      [] text \in {"IN_MEMORY", "INMEMORY", "MEMORY"}  -> Given("in_memory")
      [] OTHER                                         -> Unset

\* The backend a build without a setting takes.
FirstFeature ==
    IF "s3" \in Features THEN "s3" ELSE IF "local_fs" \in Features THEN "local_fs" ELSE "in_memory"

\* determine_storage_type: a build with one backend never reads the setting.
determine_storage_type(setting) ==
    IF Features = {} THEN Unset
    ELSE IF Cardinality(Features) = 1 \/ setting = Unset THEN Given(FirstFeature)
    ELSE StorageTypeOf(OrElse(setting, ""))

\* StorageService::new: the backend must be compiled in, and the in-memory one
\* is for tests only.
StorageNew(e) ==
    LET type == determine_storage_type(e.storage_type) IN
    IF type \in {Given(b) : b \in Features \ {"in_memory"}} THEN type ELSE Unset

-----------------------------------------------------------------------------
(* metrics_auth/config *)

\* Fault: a token of blanks counts as one.
MetricsTokenUntrimmed(e) == IF e.metrics_token = "unset" THEN "" ELSE e.metrics_token

\* The configured token, trimmed; "" when there is none.
MetricsToken(e) == IF e.metrics_token \in {"unset", "blank"} THEN "" ELSE e.metrics_token

MetricsAuthEnabled(token) == token # ""

\* MetricsAuthConfig::from_env
MetricsAuthAccepted(e) == MetricsAuthEnabled(MetricsToken(e)) \/ e.allow_unauthenticated_metrics

\* MetricsAuthConfig::verify_token
verify_token(token, provided) == MetricsAuthEnabled(token) /\ provided = token

-----------------------------------------------------------------------------
(* router/middlewares and main *)

\* env_positive: a setting of zero is no setting.
env_positive(setting) == setting \ {0}

\* parse_shutdown_timeout
parse_shutdown_timeout(setting, default) == OrElse(setting \ {0}, default)

\* main's worker_threads
WorkerThreads(e) == OrElse(e.worker_threads \ {0}, effective_cpu_count(e.host))

=============================================================================
