------------------------------ MODULE MCServer ------------------------------
(***************************************************************************)
(* Server on a small instance: one set of environments for the sizes a     *)
(* process starts with, one for the traffic it then serves.                *)
(***************************************************************************)
EXTENDS Server

Quota(q, p) == Given([quota |-> q, period |-> p])

Host(cpus, v2, v1) == [cpus |-> cpus, v2 |-> v2, v1 |-> v1]

NoSettings == [max_concurrent_processing |-> Unset, max_output_width |-> Unset,
               enable_http2 |-> Unset, cpu_thread_pool_size |-> Unset,
               allowed_sources |-> Unset, jpeg_no_subsampling_default |-> Unset]

Plain == [ host |-> Host(2, Unset, Unset), performance_profile |-> "unset",
           settings |-> NoSettings, worker_threads |-> Unset,
           signing_and_presets_accepted |-> TRUE,
           storage_type |-> Given("S3"), sub_path |-> "", cache_ttl |-> Unset,
           metrics_token |-> "secret", allow_unauthenticated_metrics |-> FALSE,
           max_concurrent_requests |-> Unset, rate_limit_burst |-> Unset,
           shutdown_timeout |-> Unset ]

\* What the sizes can be derived from; these processes serve the local disk.
Sized ==
    { [Plain EXCEPT !.host = h, !.performance_profile = p, !.settings = s,
                    !.storage_type = Given("LOCAL_FS"), !.worker_threads = w,
                    !.rate_limit_burst = Given(1), !.max_concurrent_requests = Given(1)] :
        h \in {Host(2, Unset, Unset), Host(1, Unset, Unset), Host(4, Quota(3, 2), Unset),
               Host(4, Quota(Unlimited, 2), Quota(2, 5)), Host(2, Quota(9, 1), Unset),
               Host(2, Quota(1, 0), Quota(Unlimited, 1))},
        p \in {"unset", "blank", "high_throughput", "low_latency", "memory_efficient", "hgh_throughput"},
        s \in {NoSettings,
               [NoSettings EXCEPT !.max_concurrent_processing = Given(3), !.enable_http2 = Given(FALSE)],
               [NoSettings EXCEPT !.max_concurrent_processing = Given(0),
                                  !.allowed_sources = Given({"https://cdn/"}),
                                  !.jpeg_no_subsampling_default = Given(TRUE)],
               [NoSettings EXCEPT !.max_output_width = Given(99), !.cpu_thread_pool_size = Given(7)]},
        w \in {Unset, Given(0)} }

\* What changes how requests are answered.
Serving ==
    { Plain,
      [Plain EXCEPT !.cache_ttl = Given(1)],
      [Plain EXCEPT !.sub_path = "pfx-", !.metrics_token = "blank",
                    !.allow_unauthenticated_metrics = TRUE],
      [Plain EXCEPT !.sub_path = "dir/", !.max_concurrent_requests = Given(0)],
      [Plain EXCEPT !.host = Host(1, Unset, Unset), !.performance_profile = "memory_efficient",
                    !.max_concurrent_requests = Given(1), !.shutdown_timeout = Given(0)],
      [Plain EXCEPT !.metrics_token = "blank"],
      [Plain EXCEPT !.metrics_token = "unset"],
      [Plain EXCEPT !.signing_and_presets_accepted = FALSE],
      [Plain EXCEPT !.storage_type = Given("IN_MEMORY")],
      [Plain EXCEPT !.storage_type = Given("FTP")],
      [Plain EXCEPT !.storage_type = Unset, !.cache_ttl = Given(2), !.max_concurrent_requests = Given(1)] }

MCEnvironments == Sized \cup Serving

=============================================================================
