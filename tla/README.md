# Verification of image-resizer

TLA+ models of the image-resizer service (the Rust crate under `src/src/`), TLC
configurations that check them on small instances, and TLAPS proofs of the
central results for every instance. `PROJECT.json` maps every definition to the
lines it models; paths below are relative to `src/src/`. An entry of the map
spans the whole Rust item a definition stands for, its doc comment included,
when the definition models all of it, and the lines of the branch otherwise.

## The system

A request names a source image and processing options. The service verifies its
signature, computes a cache key, answers a redirect to the CDN if the rendering
is stored, and otherwise downloads, renders and stores it first.

| Component | State | Operations | Hard part |
|---|---|---|---|
| `services/resize/handler.rs` `ResizeService` | `in_flight` map key -> broadcast sender; the guard of each leader | `resize`, `InFlightGuard::{finish, drop}`, `do_resize_work`, `download`, `resize_batch` | concurrent requests for one key, the leader's request being dropped at any await |
| `services/image/handler.rs` `ImageService` | two semaphores, blocking jobs | `download_image`, `process_image`, `download_watermark_if_needed` | permits held by jobs whose request is gone, waiting against shedding |
| the same, `fetch_validated`, and `source_guard.rs` | the redirect loop's URL, address and bypass | scheme, allowlist and address checks per hop; streamed body | stale checks across redirects and DNS answers; caps |
| the same, `encode_with_max_bytes` | the search range and the best output | one encode per iteration | sizes that are not monotone, `u8` edges, the attempt cap |
| the same, `process_image_blocking`, `avif_meta.rs`, `avif_codec.rs` | the image in hand: size, which way up, EXIF, profile, alpha | decode (scaled for JPEG), orient, trim, crop, resize, rotate, extend, pad, watermark, encode; size checks | a decode scale planned before trim and crop; exchanged axes; an orientation kept in two places and applied once |
| `services/storage/local_fs_handler.rs` | data file, expiry sidecar, temp files | `upload_image_with_ttl`, `check_cache`, `get_image`, `delete` | several system calls per operation, crashes between them, lazy eviction |
| `services/storage/s3_handler.rs` | one object per key with its expiry | the same four | HEAD then DELETE racing a PUT |
| `services/storage/{handler,key_validation}.rs` | the chosen backend | facade, key validation | the key made by one part must pass the validation of another |
| `services/cache/handler.rs` | none | `generate_key` | two requests share a key exactly when they render alike |
| `modules/api/*`, `modules/url/*`, `modules/signing/*`, `modules/negotiation.rs` | presets, keys | split, verify, expand, parse, negotiate, redirect | order of the steps, and of the options; year-long shared caching |
| `modules/router/*` | rate limiter, saturation semaphore | limit, 304, admit or 503, request timeout | the timeout drops the handler anywhere |
| `config/performance.rs`, `modules/utils/cgroup.rs`, `modules/metrics_auth/*` | limits, token | profiles, overrides, quotas | several sources for one value, limits of 0 |
| `main.rs` | the server task | start, signal, drain, deadline | in-flight work at the deadline |

The middleware admits a request and bounds its time; the endpoint calls
`ResizeService::resize`; the leader among the requests for a key calls
`ImageService` for the bytes and the rendering and the storage backend for the
rest; errors come back as text or type and `modules/utils/err.rs` turns them
into a status. Dropping a request's future is the one signal that crosses all of
these, and what each part does then is the thread through the models.

## Modules

| Module | Models | Run by |
|---|---|---|
| `AppError` | the errors of both endpoints and the status each is answered with | SingleFlight, Server |
| `ResizeContract` | the abstract specification of `resize` | SingleFlight (refinement) |
| `SingleFlight` | `resize`, the registry, the guard, `do_resize_work` | `MCSingleFlight` |
| `ImagePipeline` | the saturation middleware, both semaphores, the blocking job | `MCImagePipeline` |
| `SourceFetch` | `fetch_validated`, `source_guard`, the streamed body | `MCSourceFetch` |
| `EncodeBudget` | `encode_with_max_bytes` | `MCEncodeBudget` |
| `LocalFs` | the local file-system backend, system call by system call | `MCLocalFs` |
| `AvifMeta` | the AVIF container: boxes, associations, transforms, the EXIF item | `MCImageRender` |
| `ImageGeometry` | the decoders, the dimensions of an image through `process_image_blocking`, the size checks | `MCImageGeometry` |
| `ImageRender` | the same job with what is in the picture: which way up, metadata, alpha, the watermark's place, the encoders. Each action is one of ImageGeometry's with the conjuncts for this state | `MCImageRender` |
| `UrlOptions` | every processing option, its arguments and bounds | `MCRequest` |
| `CacheKey` | `generate_key`, and the settings a rendering is made with | `MCRequest` |
| `Request` | the resize endpoint: signing, presets, source, negotiation, redirect, and a store that outlives the process | `MCRequest` |
| `ServerConfig` | profiles, overrides, CPU quotas, storage choice, the metrics token | `MCServer` |
| `Server` | start-up, the middleware stack, the endpoints over an S3 bucket, shutdown | `MCServer` |
| `SingleFlightProofs`, `ImagePipelineProofs`, `SourceFetchProofs`, `EncodeBudgetProofs`, `LocalFsProofs`, `RequestProofs`, `ServerProofs`, `ImageRenderProofs` | theorems about the module each is named after, the last also about ImageGeometry and AvifMeta | TLAPS |

Definitions named after a fault (`DropRemoveForgotten`, `IsExpiredLate`, ...)
stand before the definition they distort and are used by no specification:
each is a plausible mistake, and the property it is listed with in
`PROJECT.json` fails when the definition is replaced by it.

### SingleFlight

A request goes `idle -> check -> entry`, then either `wait` (follower) or
`download -> process -> upload -> drop_remove -> drop_send` (leader), to `done`.
Steps are cut at awaits and, since worker threads run in parallel, between the
two operations of `InFlightGuard::drop`. `CancelOutside` and `CancelLeader` are
the request's future being dropped at an await, which a panic, a timeout and a
disconnect all amount to; a dropped upload may still land (`DetachedWrite`).
The bytes behind a key are a version number of its origin, so "which rendering
is stored" can be told apart. `inFlight[k]` names the leader whose sender the
map holds; a leader creates one channel, so leaders name channels. A guard
always finds its own entry in the map (`RegistryExact`), so the "not found"
branch of its `remove` needs no action. `Evictable` are the keys whose object
may be removed behind the service's back; for the contract such an object counts
as always there, so what it promises of those keys is an answer.

### ImagePipeline

A call is one request that renders. `AcquireDownload` waits in a FIFO; that a
released permit goes to the first waiter and is only freed when there is none
(`ReleaseDownload`) is tokio's doing and marked external. `Admit` and `SpawnJob`
take or shed. The closure of `spawn_blocking` is its own process (`job`). It
looks once whether its receiver is gone (`JobSkips`, `JobLooks`) and starts its
work in a later step (`JobStarts`), so a caller may leave before the look,
between the two or during the work; it sends its result, into a closed channel
perhaps, before its permit is dropped, and holds the permit until then.

### SourceFetch

One download under its permit. A URL is a record of what the guard compares, an
address a record of family and range, and DNS returns any of `Answers` at each
lookup. `bypass` is `source_matches_allowlist`; `requested` records every
request with the address its client was pinned to. The text forms of numeric
hosts (`parse_ipv4_literal`) are abstracted: such a host is its address.

### EncodeBudget

One step per loop iteration, for an arbitrary function from quality to size.
`best` is the quality of the output kept, `tried` the qualities encoded. Both
defensive `break`s of the code are there; the proofs show they are never taken.

### LocalFs

One key: its data file, its sidecar, the uploads' temp files. Every system call
is a step, and calls interleave. `Abandon` drops one call between two system
calls, `Crash` all of them. A behaviour runs one of `Workloads`: how many
uploads and deletes, which TTLs, how long, how many restarts, and whether system
calls fail. `Forever` stands for `ttl = None` and lies beyond every clock value.

### AvifMeta, ImageGeometry, ImageRender

One job, one step per stage of the pipeline. A size is a pair; the arithmetic is
that of the code in exact rationals (`f64` is exact for the sums involved except
possibly at a rounding tie), zoom and dpr count halves, relative crops and focus
points tenths. An unset side (`u32::MAX` in `resize_dimensions`) never decides
the ratio. What `trim` removes depends on pixels, so any run of border columns
and rows may go. `DecodeFull` is also the fallback of a JPEG whose scaled decode
failed. Animated sources take `EncodeAnimation`, which has a resize box of its
own; a single-frame GIF enters at the resize step, past trim and crop.

`view` follows where the corners of the picture went, so "the right way up" is a
comparison of functions; `exif` is the block that travels with the image, by its
orientation tag. An AVIF source is a list of boxes, each either readable or cut
short, and the reader's budget of boxes is the code's, scaled down. The
reference `ShownAsSource` compares with is written separately (`SourceView`,
`ViewerStep`) in the words of the code's comment on `TransformProperty`; which
axis `imir` mirrors about is taken from there.

Watermarks are placed and clipped exactly; they are rotated by right angles only,
and opacity, shadow and blending are left out. A padding of 0 counts as none.
Encoders refuse what their libraries refuse by size (`JpegFits`,
`AnimatedWebpFits`) and may fail on anything else; a panic of a decoder ends as
a failure, as the `catch_unwind` around it makes it.

### UrlOptions, CacheKey, Request

A path is a list of segments, a segment a list of tokens; which tokens are
integers, decimals, colours, base64 or percent-encoded text is given by
constants, so a parser is a table from token to value with the code's bounds
around it. `NaN` and `Infinity` are values of `f32`. Options are read one segment
per step. The key is the sequence of its fields, each with the spelling it is
hashed in, and the digest is taken to be injective on it. `Rendering` is what the
renderer reads of a query and of its environment. A signature is a tuple of what
the MAC is computed from. `Redeploy` starts another process, with other settings,
on the same store; rendering is one step here (`ServeRendered`, `ServeFailed`).

### ServerConfig, Server

`Startup` reads an environment or refuses it. A request goes through the rate
limiter, the 304 shortcut, the admission guard and the metrics check to its
endpoint; `files` and `resize` talk to the bucket in single steps (`Head`, `Get`,
`Evict`, `Put`), each of which may fail or never answer. A PUT or DELETE that
failed, or whose request was dropped, stays in `detached` and may take effect at
any later step, after other requests' calls and after the process has exited
(`Land`), or never. `about` is the object such a call is about: what was looked
at before a DELETE, what a PUT will store, its expiry fixed when the upload
began. Calls an earlier process left on their way are not modelled. `Cancel` is
the timeout or a closed connection. After `ShutdownSignal` nothing is accepted,
and `DrainDeadline` cuts everything that is left. The clock is shared with the bucket. One client, one image and so
one key are enough for these races. Where the backend is the local file system
its steps are LocalFs's and no bucket is called; whether signing and presets are
acceptable is one flag here, `Request` has the checks.

## Runs

| Run | Expectation | States | Question |
|---|---|---|---|
| `single_flight` | pass | 185 k | one leader per key; followers attached, told the truth, never joined to a finished attempt; answered URLs servable; entries drain; `ResizeContract` implemented |
| `same_key_same_bytes` | violation | | a key's object is overwritten by a second leader (the ETag comment says it cannot be) |
| `rejection_is_bad_request` | violation | | a follower of a refused leader is answered 502 |
| `pipeline` | pass | 438 k | permits conserved and returned; no lost wake-up; everybody answered |
| `fetch` | pass | 140 k | every hop validated for its own URL; redirects and buffer bounded |
| `encode_budget` | pass | 524 k | the best output tried is returned; the optimum when uncut |
| `local_fs` | pass | 2.3 M | files whole, acknowledged objects hit, TTL honoured, nothing evicted early |
| `local_fs_eviction` | violation | | a reader deletes a fresh upload on its predecessor's expiry |
| `geometry` | pass | 1.7 M | the box is that of the final image; no upscale without enlarge or after a scaled decode; nothing clipped; early refusal or none; shown the way up the source is; metadata as asked |
| `geometry_decoder` | violation | | the size of a cropped JPEG depends on the decoder |
| `request` | pass | 548 k | the redirect leads to what was asked for, may be cached as its headers say, does not depend on the order of options; the request overrides the preset; only authentic paths are rendered |
| `server` | pass | 255 k | start-up keeps what was set; permits come back; where nothing expires a redirect leads to no 404, and to a 403 only under a prefix with a slash; a fresh object is lost to one race only, late calls included; metrics are guarded; requests and the drain end |

The violations are disagreements between the code and a comment or document,
quoted under `findings`. Others were met while modelling and have no violation
run of their own; the first two are among the `findings`:

* SourceFetch: `is_allowed_source` is documented (`source_guard.rs:161-163`) to
  compare "path ... as a segment-aware prefix"; `matches_allowed_prefix` (line
  200) uses `starts_with` on the text, so the entry `https://cdn/img` admits
  `https://cdn/img2`. `EveryHopValidated` means the code's match. That the two
  readings differ on the URLs of the run is `TextPrefixIsWider` in
  `MCSourceFetch`, which TLC evaluates.
* ImageRender: `params.rs` (429-432) and `docs/user-guide/api-reference.md` (115)
  say that WebP output cannot carry EXIF. They are out of date: since #148
  `encode_webp` writes it, the comment of `encode_single_image` (763-770) says so
  and the test `strip_metadata_false_keeps_exif_in_webp_output` requires it.
  `MetadataAsAsked` follows the code and that test.
* LocalFs: with two overlapping uploads with TTL (the workload `Renewed`) crossed
  data files and sidecars outlive the TTL; a reader that evicts an expired object
  removes its data file, and if the next upload renames its data and its sidecar
  into place before the reader's second removal, that upload loses its sidecar
  and is served for ever, where `core.rs` (31-33) wants it absent once its TTL has
  elapsed (a `delete` that overlaps an upload does the same); an upload that dies between its
  renames leaves its object under the old sidecar (the comment at
  `local_fs_handler.rs:221` says with none); a get whose object is evicted after
  its `stat` fails with a text without "not found", which makes it a 502.
* ImagePipeline: the download semaphore queues; `docs/architecture/overview.md`
  (129-130) says both semaphores shed.
* ImageGeometry: `auto` compares the orientation of the scaled image, which may
  round to a square (993x1000 at 1/8), so it may fill where it should fit; a JPEG
  with a side of at most four pixels may be decoded below its target, because
  the scaled sides are not strictly increasing there (`jpeg_scaled_decode`'s
  comment says they are for any side); an animation ignores zoom, dpr, floors,
  crop, trim, extend, padding, watermark and the output limit, though
  `resize_and_filter` (1158-1163) is documented for every caller; a GIF or
  animated WebP of one frame to gif or webp ignores autorotate, crop and trim.
* ImageRender: an AVIF whose EXIF has an orientation tag and whose container has
  no `irot` is shown upright, but its metadata, forwarded to a JPEG, PNG or WebP,
  turns the result (`MisleadingTag`); an AVIF turned by its container whose EXIF
  has no orientation tag loses its EXIF; a truncated or over-budget `ipco` keeps
  the properties read so far, so an `irot` without its `imir`, where
  `avif_meta.rs` (38-39) says a limit degrades to no metadata.
* Request: a watermark URL spelled `None` keys like none; the maximum taken in
  `best_q` lets `image/avif;q=0.3, image/webp;q=0.8, */*` pick AVIF, where
  `negotiation.rs` (33-36) says a deprioritised AVIF loses; `webp;q=NaN` with AVIF
  accepted gives JPEG; deployment settings (progressive JPEG, default watermark,
  presets) are not in the key, so after a redeployment old renderings are served
  (`ServedAsAsked` is relative to the process that made the object); blank slots
  of `wm`, `jpgo` and `fl` keep a preset's values; the allow-list is not applied to
  the contents of presets; `t:NaN` and `z:inf` pass their range checks.
* Server: `cache_ttl` has no setting that feeds it; the listener is bound before
  the service is built; if the SIGINT handler cannot be installed
  `wait_for_shutdown_signal` returns at once; the default drain (20 s) is shorter
  than the request timeout (30 s), so requests can be cut; a 304 is answered from
  the path alone, `*` included, for keys that do not exist; a `STORAGE_SUB_PATH`
  with a slash makes keys that the files route does not match;
  `memory_efficient` on one CPU leaves no processing permit, so every rendering is
  shed; `/health` is behind the limiter and the guard.

### Bounds

* SingleFlight: three requests for one key are a leader, a follower and a
  latecomer (or a second leader); different keys share nothing but the map, so
  all are for one key, either kind of it (`Traffic`). Two origin versions tell an
  overwrite from a rewrite. Downloading and processing fail with a refusal
  (`Failures`), the error that is treated apart; uploads fail and leaders are
  dropped besides. Requests are symmetric in the two violation runs.
* ImagePipeline: four calls over one download permit give a fetching call, two
  waiters (so that a released permit can be handed on twice) and one more that is shed or arrives
  late; one of them is watermarked and queues twice.
* SourceFetch: two redirects, seven URLs (a match, a text-only match, another
  host, another scheme, three literals), DNS answers with each kind of address,
  alone or behind a public one. With and without an allowlist.
* EncodeBudget: all 4^7 encoders over qualities 0..6 and sizes below, at and
  above the budget; two attempts, so that the cap cuts some searches and not
  others.
* LocalFs: two uploads without TTL, a check, a get and a delete with I/O errors
  and a restart in one second; or one upload over three seconds with a restart,
  with a TTL of one second or none and I/O errors, or of one second or zero
  without. The violation run has two uploads with a TTL of one second over
  two seconds.
* ImageGeometry, ImageRender: requests come in families (sizing, scaling, canvas,
  cutting, styles, marks, frames) rather than as one product, over sources that
  exercise each: JPEGs that the three scales cover and do not, every EXIF
  orientation, none and no block, thin, too large and transparent images, GIFs of
  one and two frames, an animation over the cap, AVIF containers with every pair
  of transforms in both orders, cut short, out of budget and with their EXIF in
  and out of reach. The limits are scaled down so that both sides of each occur:
  17 boxes, EXIF items of 10, JPEGs of side 39 and animated WebPs of side 12.
  One JPEG has a side of three pixels; `NeverDecodesBelowTarget` excepts it, see
  above.
* Request: two requests and two processes on one store; every option in accepted
  and refused forms, and pairs of paths that differ in order, spelling, preset,
  signature or Accept header.
* Server: two requests, a clock of two ticks, one tick of drain, and a limiter and
  a guard of one or two; one set of environments varies the sizes over profiles,
  overrides and quotas, another what changes how requests are answered.

Deadlock checking is off: requests are finite in number, so a behaviour ends
when all have been answered. In Request, where `Done` stands for that end, it is
on.

### Fairness

`SingleFlight!FairSpec` assumes that each await of a running call resolves:
storage calls and downloads end (HTTP timeouts), the blocking job ends, and
otherwise the request timeout drops the leader. A follower's own timeout is not
assumed: it must be answered through its leader. A request that has not arrived
need not arrive, and the origin and evictions are unconstrained.
`ImagePipeline!FairSpec` assumes that downloads and jobs end and that ready
futures are polled, and no timeout at all. Server assumes the opposite: timers
fire, the process starts and drains, and no call to the bucket need ever be
answered, so that `NothingHangs` rests on the timeout and the drain deadline.

## Proofs

All are checked by TLAPS, for every value of the constants that satisfies the
assumptions named in the modules. `ConstantsAssumption`, `PipelineAssumption`,
`FetchAssumption`, `AnswersAssumption`, `BudgetAssumption` and
`LocalFsAssumption`, with `ServerAssumption` and `FeaturesAssumption`, say that bounds are naturals, flags are Booleans, the sets of
calls are finite and disjoint, markers such as `NoRequest` are none of the values
they stand beside, calls are for keys, and DNS returns addresses.
`EnvironmentsAssumption` says that a setting holds at most one value and that
sizes are naturals. `RequestAssumption` says that paths and presets are lists of
segments, that a process may start, and that no image is fetched from the URL
`None`. The last is the one that carries weight: the key spells a watermark
without URL and one from `None` alike, and only the fact that the latter renders
nothing keeps them apart.

* `SingleFlightProofs`: `RegistryExact` and `FollowersAttached` are not inductive
  alone: what a follower is sent is decided two steps before it receives it.
  `IInv` adds what the channel and the guard hold in each state
  (`ChannelsCarryResult`, `GuardHoldsResult`, `FollowersReceived`). From it:
  `OneLeaderPerKey`, `FollowersNeverOrphaned` and with the types
  `RegistryInOrder`, then `FollowersAgree` and the action property
  `FreshAttempt`. With `UploadsCarryBytes` it gives `UrlsAreServed`, and step by
  step `ImplementsContractSafety`: the protocol implements `ResizeContract!Spec`,
  for any set of evictable keys.
* `ImagePipelineProofs`: for any number of calls and permits,
  `PermitsAccountedFor` and `WaitersNotForgotten`. Permits are counted with
  cardinalities, so each action is shown to move one call between the sets of
  holders. The queue is handled through `QueueExact` (every waiter at exactly one
  place). What is needed besides is that a call with a fetch ahead has one left
  (`FetchesLeft`). That a slot is taken exactly while its job is
  queued, has looked or runs, whoever still waits for it, is part of the count.
* `SourceFetchProofs`: `HopChecked` states what the loop knows of the current
  hop; `GuardIsRight` shows the rules by address family agree with the meaning
  of the ranges. Theorems `HopsValidated` and `LimitsHold`.
* `EncodeBudgetProofs`: `SearchInv` pins the ends of the range to the best
  fitting quality below and a failing one above. Theorems `SearchSound`,
  `OptimalUnlessCut`, `AttemptsNotWasted`, for every quality range, allowance
  and encoder.
* `LocalFsProofs`, for any number of calls, any workload and any number of
  restarts. `AtomicWrite` needs that a temp file is whole when its rename is due
  (`TempReady`). `SoleObjectIsKept` needs `EvictInv`: what is in the
  files was put there by some upload, and a reader that removes has seen the
  expiry of an upload that has ended. `TtlIsHonoured` needs `SidecarKept`: while an
  acknowledged object is there so is its sidecar, and a reader that evicts takes
  the data first. `AckedUploadStays` needs `KeptInv`: where no upload
  has a TTL there is never a sidecar, so nobody evicts.
* `ServerProofs`: `PermitsAccountedFor` counts the admitted requests against the
  guard, the followers of a flight being released together. `CoreInv` adds what
  the program counter says of the route and of what was seen of the bucket, and
  of the calls left behind (`DetachedInv`): a DELETE, whoever sent it, was decided
  on at the sight of an object that had expired, and time does not run back. It
  gives the action properties `MetricsStayGuarded` and `OnlyTheRaceLosesFresh`,
  the latter with calls that land arbitrarily late. `RedirectsAreServable` needs
  `Promise`: where nothing is stored with an expiry, nobody ever comes to evict.
  `StartsAsConfigured` is about the configuration read, for every environment,
  profile and CPU quota.
* `RequestProofs`, for any environments, paths, presets, decoding tables, number
  of requests and of processes. `AuthInv` (what is past verification is
  authentic) gives `OnlyAuthenticIsRendered`, `CoreInv` gives
  `ExpansionIsComplete`. `WorkInv` says what the options hold after any number of
  segments: each field is as the last segment that sets it says, else the
  default (`OptionsRead`); this gives `RequestHasTheLastWord`, and since the last
  setter of distinct options does not depend on their order, with `AnswersInv`
  also `OrderOfOptionsIsIrrelevant`. `AnswersInv` records for every redirect the
  query it was given for and for every stored object a query with its key; it
  gives `RedirectsMayBeShared` and, with the lemma `KeyDeterminesRendering`,
  `EveryoneIsServedAsAsked`. That lemma is the injectivity of `generate_key`:
  crop, trim and watermark feed one field or three, four and nine, the eight
  possible lengths of the key are all different, so the length tells which of
  them are there, and then every field is read back from its place. Where
  induction over a sequence is needed it is done with a set of naturals in place
  of a predicate (`SetInduction`), which the prover can instantiate.

* `ImageRenderProofs`, for any requests, sources and limits.
  `GeometryAssumption` says that a job is a request with the fields and ranges
  `ResizeQuery` allows and a source of at least one pixel by one, and that the
  limits are naturals; `AvifMetaAssumption` that the reader's two caps are. A
  container is any tree of boxes in which a box the reader opens has the fields
  it takes from it (`IsContainer`): any number of boxes and properties, in any
  order, broken or not.
  - Sizes. The lemmas on rounding quotients carry the rest: a resize to fit stays
    inside its box and reaches one of its sides, one to fill covers it, a side
    that shrinks never grows by rounding, an anchor leaves room for what is cut
    out. `SizeInv` is the invariant: types, `BoxIsFinal`, `EarlyInv` (a
    job past `check_output_dimensions` asks for no more than the limit, and where
    it names both sides the resized image is within it until padding is added) and `AsDecoded` (until the resize step an uncut JPEG is its file or
    what `jpeg_scaled_decode` made of it). From it `NeverUpscales`,
    `RefusedEarly` and `NeverBelowTarget`. The last needs that the decoder, which
    chooses its own scale from the size it is asked for, gives at least that
    size, so that the target found before decoding is still covered after it.
    `RenderImplementsGeometry` carries all of this over to ImageRender.
  - Metadata and orientation. `MetaInv` says where the metadata in hand comes
    from at each stage, `ViewInv` which way up the pixels are; together with the
    types they give `RenderSizes`, `ClipsNothing`, `MetadataKept` and
    `ShownUpright`. For the last, three facts meet. `TagsSettled`: the tag that
    goes on with an upright image asks for no turn. `SoundParse`: of a container
    read whole, budget and early returns make no difference to what `parse`
    gives. `ViewedIsComposed`: composing transforms as `Transform::then` does and
    applying the properties one by one show the same picture, by induction along
    the item's properties over the eight elements of the dihedral group
    (`SeenThen`). Both recursive functions are shown to exist first
    (`ComposedDef`, `ViewedDef`).

Some of these proofs changed what was stated or how. `TtlHonoured` is false of a key
that is deleted or evicted while it is uploaded (see the findings without a run;
looking for its invariant showed it). It is now stated for a key nobody deletes,
and of gets in a later second than the acknowledgement, which matters for a TTL
of zero.
`OptionOrderIrrelevant` speaks of paths whose options are pairwise distinct,
which is the case the parser can treat as a set.
`NeverDecodesBelowTarget` has the four-pixel limit as a hypothesis; it was a bound
of the run before. And chains of early returns that were written as `CASE` with
overlapping guards are `IF` chains: TLA+ leaves open which of two true guards a
`CASE` takes, so such a definition has no value a proof can use.

Only model-checked: all liveness (`RegistryDrains`, `EveryCallAnswered`,
`CapacityReturns`, `NothingHangs`, the fairness part of the contract), since the
prover does not treat fairness. Every invariant and every safety property of a
passing run is a theorem.

## Not modelled

* Pixel values, colour filters, frame delays, quality defaults beyond their place
  in the key, and the codecs themselves: what a codec library computes.
* The text grammar below a token: digits, percent and base64 encoding, host
  literals. Wording of errors, logs and traces.
* `resize_batch` and the in-memory backend, which the service does not use; the
  health probe, the benchmark binary, tracing set-up, the metrics exporter.
* CORS, compression and header layers, which are library code.
* The wrap of `MAX_IMAGE_SIZE_MB` above 2^44.

The component list in `PROJECT.json` has each part with its reason.

## Plan

1. An abstract expiring store that LocalFs (for a key uploaded once) and the
   bucket of Server are compared with.
2. Animations as their own family of properties once their sizing has one
   definition.
