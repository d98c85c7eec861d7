# PonzProxy: a TLA+ model

PonzProxy is a reverse proxy written in Go: it routes requests to hosts, spreads
them over upstreams, probes the upstreams, caches responses, limits clients, and
is reconfigured while it runs by a control API.  This directory holds TLA+
modules of the parts whose correctness depends on the order in which things
happen, TLC configurations that check them on small instances, and TLAPS proofs,
for every instance, of most of the safety properties that TLC checks.

Paths below are relative to `src/`.

## 1. Inventory

| Part | State | Operations | What makes it correct |
|---|---|---|---|
| Traffic limiter (`internal/limiter`, `proxy/limits.go`) | sharded map from (host, address) to a record: token bucket, concurrent requests, last use | Acquire, Release, sweep, eviction, Forget, Close | a client never has more requests in flight than `MaxConcurrent`, nor more tokens than it earned; the table stays bounded; a dropped record gives nothing away |
| Balancer (`internal/balancer/backend.go`, `pool.go`) | per backend: enabled, healthy, ejected-until, failure window, streaks, active count | Pick, Acquire, Release, RecordSuccess, RecordFailure, RecordProbe, inheritFrom | counts match requests; health changes follow the thresholds; state survives a reload |
| Selectors (`balancer/selector.go`) | round-robin counter, smooth weights, client hash | Select | each candidate gets its share in every cycle; a client's backend moves only when it must |
| Forwarding (`proxy/handler.go`) | per request: tried backends, attempt, what the client has seen | ServeHTTP, forward, proxyOnce | a request is retried only when that is safe; the client gets an honest status |
| Health checker (`internal/health/checker.go`) | the running targets, `closed`, per-target goroutine | Sync, Close, run, probeAll, probe | one checker per target, none after Close; stops terminate; alerts are true |
| Response cache (`internal/cache/cache.go`, `proxy/cache.go`) | per host: map, LRU list, bytes, budget | Host, Lookup, Put, Invalidate, Forget | map, list and byte count agree; memory bounded; no copy the origin has replaced |
| Cache policy (`cache/policy.go`) | none | Eligible, Servable, Storable, Invalidates | RFC 9111 header rules |
| Engine (`proxy/engine.go`, `routing.go`, `handler.go`) | the published routing table (an atomic pointer) | Reload, lookup, the gates of ServeHTTP, rewrite | a request is answered by one table, after every gate its host has; what a reload drops is no longer needed |
| Response writers (`proxy/compress.go`, `recorder.go`) | headers sent, status, deferred decision to compress | WriteHeader, Write, Flush, Close | the status and body the client gets are the origin's |
| Access control (`proxy/access.go`, `authcache.go`, `domain/accesslist.go`) | bounded table of granted credentials | enforceAccess, verified, remember | a cached grant is good only for the list version it was given under, and not past its age |
| Request inspection (`internal/guardian`) | compiled patterns | Inspect | text matching |
| Metrics (`internal/metrics`) | counters per host, flush baseline, rates | Record, flush, Forget, Snapshot | every request that was answered whole is in one sample, or lost in a way that is known |
| Access log (`internal/accesslog`) | bounded queue, batch | Record, Run, prune | every entry is written or counted as dropped |
| Alerts (`internal/alerts`) | channels, queue, throttle times, usage marks | Notify, deliver, Reload, watch | a channel is told of a thing once per interval, and passed over for no other reason; edits take effect |
| Certificates (`internal/certmgr`, `api/certificates.go`) | the certificates table, the index served from, the order lock, pending challenges | Issue, Reload, renewDue, create, delete | material never goes back to an older key; a validation finds its challenge; what is stored is served |
| Accounts (`api/auth.go`, `users.go`) | the users table, tokens | sign-in, create, change of role, delete, bootstrap | an administrator is always left |
| Sign-in limiter (`api/ratelimit.go`) | failures, window and block per address | allow, recordFailure, recordSuccess, sweep | a block lasts; only failures of one window earn it |
| Configuration edits (`api/hosts.go`, `redirects.go`, `accesslists.go`, `applyConfig`) | host, redirect and list tables; the running routing table | create, update, delete, apply | one owner per domain; no host loses the list it relies on; what is stored comes to run |
| WebSocket hub (`api/ws`) | registered clients | register, broadcast, closeAll | no client outlives the hub |
| Backup (`internal/backup`) | archives and data on disk | Snapshot, prune, delete, Restore | what has an archive's name is a whole archive; a crash never loses the data |
| Lifecycle (`cmd/ponzproxy/main.go`) | the root context, the listeners | start, shutdown, restore | shutdown ends, and the flushers run before it does |
| Store (`internal/store`), validation (`internal/domain`) | SQLite; none | transactions, queries; Normalize, Validate | constraints and triggers hold across overlapping edits |
| Process configuration, DNS providers, reports, console | none | | not a matter of order |

**How they interact.**  The control API writes the store and calls `applyConfig`,
which reads the store back and calls `Engine.Reload`.  Reload builds a new pool
for every host (copying each backend's health from the old pool), publishes the
routing table through an atomic pointer, and then, one after the other: forgets
the caches and the limiter records of hosts that no longer use them, and calls
`Checker.Sync`, which stops every target's goroutine and starts new ones.
Requests load the pointer once and keep the table they loaded: they may hold a
pool, a cache or limiter rules that a reload has replaced.  Checker and forward
write to the same backends.  Both raise what the alert dispatcher queues.  When a
request ends, ServeHTTP adds it to the host's counters and puts an entry on the
access log's queue; a goroutine each writes them to the store, on a ticker and
once more after the root context is cancelled.

**What is hard.** Requests in flight across a reload; check-then-act across separate
atomic operations or across an unlock; a client that hangs up or a backend that breaks
off at every point of an attempt; clock readings that arrive out of order; the sweeper
and eviction against requests; Sync and Close against a round of probes; two reloads of
the same thing that publish in the other order; requests that outlive the final flush; a
crash between two file operations.  `PROJECT.json` lists these as hazards at the line
where each bites, with the properties that would catch it.

## 2. Modules

| Module | Models | Steps |
|---|---|---|
| `Limiter` | `limiter.go`, `proxy/limits.go`, the limits part of `Engine.Reload` | everything under the shard lock is one step; loading the routing table, reading the clock, the sweeper's cutoff, the publication of a table and Forget are steps of their own |
| `Backend` | the record of `backend.go` as pure operators, one per atomic operation; used by `Forward` and `Checker` | |
| `Forward` | `handler.go` from picking a backend to the answer; passive health; the pool part of Reload | each backend looked at by Pick, each atomic operation of RecordSuccess and RecordFailure, Acquire, Release, and the outcome of an attempt |
| `Checker` | `checker.go`; the part of Reload that precedes Sync | each probe's answer, its recording, its alert; round begin and end; Sync's lock, stop, start; Close |
| `HostCache` | `cache.go`, `proxy/cache.go`, the cache part of Reload; the origin | everything under the cache lock is one step; the load of the budget, the lookup of the host's cache and its creation, the fetch, are steps of their own |
| `Policy` | `cache/policy.go`: Eligible, freshness, Storable, Servable, the key | one visitor after the other |
| `Delivery` | what a visitor is promised about one response (abstract) | |
| `Responses` | `recorder.go`, `compress.go` and the captureWriter of `proxy/cache.go`, stacked as ServeHTTP stacks them; implements `Delivery` | each call ReverseProxy makes |
| `Routing` | `routing.go`, the gates of `handler.go` and `redirect.go`, rewrite, Normalize and Validate of hosts, locations and redirects | the load of the table, one step per gate |
| `AuthCache` | `access.go`, `authcache.go`, `EvaluateAccess` | look-up, decision, remembering |
| `Selectors` | `selector.go`: round robin, smooth weights, client hash | a selection |
| `Telemetry` | `metrics/collector.go`, `flush.go`, `accesslog/writer.go`, shutdown in `main.go` | each atomic counter, each queue operation, each stage of a flush, of a batch and of shutdown |
| `Alerts` | `alerts/dispatcher.go`, `usage.go`, the channel handlers' Reload | the two halves of Reload, each channel of a delivery, each attempt |
| `Hub` | `api/ws/hub.go` | everything under one lock; each turn of a client's loops |
| `Backup` | `internal/backup`, `api/backup.go`, the restore command | each file operation; a crash after any of them |
| `Accounts` | `auth.go`, `users.go` of the API and of the store | arrival of a request (its token is checked then), reading the row, counting the administrators, the write |
| `Login` | `ratelimit.go`, the path of `handleLogin` around it | the clock reading, and everything under the lock, apart |
| `Configuration` | host, redirect and list handlers, their tables and triggers, `applyConfig`, `buildRoutingTable` | each check made outside the transaction, the transaction, each query of a reload, the installation |
| `Certificates` | `certmgr`, the certificate handlers and table; the CA is external | the lock, each database call, each stage of an order, the two halves of Reload, the timeout |
| `LimiterProofs`, `ForwardProofs`, `CheckerProofs`, `HostCacheProofs`, `BackupProofs`, `ResponsesProofs` | theorems about the module they are named for | |
| `EdgeProofs` | theorems about `Routing`, `Policy`, `AuthCache`, `Selectors`, `Telemetry` and `Alerts` | |
| `ControlProofs` | theorems about `Certificates`, `Configuration`, `Accounts` and `Login` | |
| `MCLimiter`, `MCForward`, `MCChecker`, `MCHostCache`, `MCAuth` | one component each for TLC | |
| `MCEdge`, `MCControl`, `MCBackground` | components side by side: the data plane, the control plane, the background goroutines | |

The `map` in `PROJECT.json` gives the source lines behind each definition.
Definitions marked "Mutant" are deliberately wrong forms of the definition that
follows them; each is used to show that a property can fail.  No specification
uses them.

### Limiter

`clients` is one shard's map.  A key always hashes to the same shard and no
operation holds two shard locks, so one shard shows every interleaving of one
shard's clients; Forget walks the shards one lock at a time and is one step here,
which matters only to properties that span shards, and there are none.  Tokens
are counted in ticks, so that `elapsed * rate` is exact; float64 rounding is not
modelled.  A request goes Route (load the rules), Sample (read the clock),
AcquireOk or AcquireLimited, Release.  `spent`, `born`, `refused` and `orphaned`
are history variables: no guard and no other variable depends on them.

### Backend and Forward

A pool is a function from upstream to backend record.  Reload is Build (NewPool
with inheritFrom) and then Publish, with requests running between the two.  An
attempt ends in one of: a response that reaches the client (Succeed), a response
whose body breaks off so that `ReverseProxy` panics with `http.ErrAbortHandler`
(Abort), an error before anything was written (Fail or Refuse), a client that
went away (Hangup); an interim 1xx response may precede any of them (Interim).
The choice of the selector is arbitrary.  `ProbeFlip` stands for the checker.

### Checker

One target, whose pool may be replaced.  `truth` is whether a backend answers;
it changes at will in the model, as the network does in life.  The generation of
a pool identifies its goroutine.  Because NewPool returns a new pool on every
reload, `matches` is false for every target and Sync stops them all; SyncStop
says so.

### HostCache

A cache is `[items, order, bytes, budget]` with the list as a sequence of keys,
most recent first.  An entry carries the version of the origin's resource it was
made from, which is what lets a property speak of a replaced copy.  Sizes are
small numbers; headers, bodies and statistics are left out.  A key is a path, a
spelling of the host header and the codings; Invalidate drops the keys that have the
request's path and its host header, and no others.  Eligible, Servable
and Storable appear as choices.

### Responses and Delivery

A writer's method is an operator on the state of the whole stack that calls the
writer below it, as the Go methods do.  The header map is shared, as it is there: what
one writer deletes the next does not see.  A body is a sequence of numbered bytes,
and what gzip writes is written as what it decodes to.  `Delivery` is the
specification without writers: the visitor has one status, a prefix of the upstream's
bytes, and an end that says whether they are all there; and the request is recorded
with the status the visitor received.  `Promise` instantiates it with what the state
of the stack shows of these (`INSTANCE Delivery WITH ...`), and `Delivers` is the
refinement.

### Policy, AuthCache and Selectors

In `Policy` a header is the set of what it says.  For TLC the upstream's page says at
most two things and a request differs from a plain GET in at most two (`Asked`), which
is enough for each pair of rules to meet.  `Accept-Encoding` may name codings, one the
key knows and one it does not, refuse them, and hold a wildcard: `VariantKey` reads the
names only, as ParseAcceptEncoding does, while `Reads`, what the client can be sent, and
`acceptsGzip`, what the compressing writer asks, take the wildcard in.  `told` is
history: the copy was fetched for a client who named only codings the key tells apart.
In `AuthCache` a credential is a username with a password, and a list's users are the
credentials that match it.  Time passes while bcrypt runs.  `UpdatedAt` has the
precision of a second, and a second has two ticks, so an edit may leave the version what
it was.  In `Selectors` the candidates change at will; the history `picks` counts
selections since they last did.  `WeightedEven` bounds how far a candidate gets *ahead*
of its share.  How far one falls behind has no such bound: with weights 12, 12, 3, 1 and
1 a small one is more than a request behind after 17 selections, and after a change a
candidate starts with whatever it owed when it left.  Round robin's counter has no width
here; in the code it wraps at 2^64.

### Routing

A name is a sequence of labels and a path one of slashes and the pieces between them
(`Segments`, of which TLC is given thirteen), so that `/api` is a prefix of `/apiary`
and not a location of it.  An edit is a form an operator submits, run through Normalize
and Validate; `LongestFirst` is the stable sort as a permutation, a location's place
being the number of those that go before it.  Lengths are counted in pieces where the
code counts bytes: of two locations around one path the longer is the same.  The result
becomes a table as buildRoutingTable makes one, redirects and hosts apart.  A request
loads the table and goes through the gates in ServeHTTP's order while another table is
published: `AnsweredByOneTable` asks for one published configuration that explains the
whole answer (`Explains`), stated without tables, look-up order or gates.  What the
limiter, the access list, the cache and the patterns say of a request is part of the
request; their own modules are about it.

### Telemetry

One host.  `states` has every hostState made for it, since a request that ends while
Forget takes the host away still writes to the one it holds.  `bytes` stands for all
that Record adds after the request itself, one atomic operation each.  `past` is
history: what was recorded, and what was lost and how.  An answer whose body breaks off
panics past `record` and `recordAccess` (AnswerBreaks): that request is in no sample and in
no log entry.  The stages of shutdown are
those of `run`: the context is cancelled, the listeners are shut down with a
deadline, the seven background goroutines are waited for: the flusher and the writer in
detail, the other five (`Tasks`) as loops that stop once they see the context.

### Alerts and Hub

An alert is what it is about.  Reload reads the channels and then publishes them, and
nothing orders two Reloads.  `lastTold` is history.  In `Hub` the map of clients and
each client's channel have locks of their own; every path that drops a client is in
the model, so that any of them may be first.

### Backup

A file has a name and content that is written through it even after the name has
gone, as on a POSIX file system.  A crash ends every goroutine between two steps.
Restore is a process of its own and runs while the proxy is stopped, which is what
the repository's README asks for.

### Accounts and Login

A token carries the role its row had at sign-in, and `requireWrite` goes by the
token, so a demoted or deleted administrator goes on writing until it expires.
The guards of the handlers (not oneself, not the last administrator) are read in
one statement and acted on in another; `raced` records that a write fell between
another request's check and its write.  Restart drops requests and keeps tokens.
In `Login` an attempt reads the clock, takes the lock, compares, reads the clock
again and takes the lock again; `promised` and `lifted` are history variables.

### Configuration

Of a row only what routing looks at is kept.  A domain column is a function of the
domain, because it is UNIQUE; the triggers of migration 0004 and the foreign key of
0003 are the guards `Free` and `NotReferred`.  A list is the flag `satisfyAny` and
whether it has rules and users; `Enforced` is what EvaluateAccess holds clients to.
`applyConfig` is seven queries (the hosts and their domains, the redirects and
theirs, the lists, their rules, their users), then the installation.  Nothing
excludes another request's commit or installation in between, and the model allows
both.  `exact` and `torn` are history variables.

### Certificates

Key material is a version number.  Two workers: `Manager.Run` and one that stands
for handlers and background orders.  Every certificate is for the same name, the
case in which orders meet in the tls-alpn-01 solver.  The CA answers well or badly
at any time; the ten minutes of a background order may end anywhere.

## 3. What the runs check

| Run | Instance | Properties |
|---|---|---|
| `limiter` | 2 requests, 3 addresses of one host, a shard of 1, caps 1 and 2 or 1 request per second with bursts 1 and 3, of which `IdleAfter` refills the first and not the second, in half-second ticks with readings up to 1 tick late, 6 ticks | `NoPhantomSlot`, `ActiveIsExact`, `CapHonoured`, `TableBounded`, `BucketEnvelope`, `RetryAfterSuffices`, `SweepCostBounded` |
| `forward` | 3 requests, 2 backends, `MaxConns` 1, 1 retry, 2 failures eject, one reload that may disable a backend | `RetriesSound`, `StatusHonest`, `ActiveAccounted`, `EjectionSound` |
| `host_cache` | 2 requests; either 3 paths, 2 spellings of the host header (two keys of any, or three of one) and budgets 1 and 2, or 1 key with caching switched off and on and 2 caches | `Accounting`, `NoneStranded`, `EvictsLeastRecent` |
| `edge` | see below | `AlertsTruthful`, `DownIsEarned` (`Checker`); `Delivers`, `StoredIsWhole` (`Responses`); `ServedAsPermitted` (`Policy`); `CachedGrantSound` (`AuthCache`); `Balanced` (`Selectors`); `EntriesAccounted`, `SamplesConserved` (`Telemetry`); `ThrottleHolds` (`Alerts`); `AnsweredByOneTable` (`Routing`) |
| `control` | see below | `AdminRemains` (`Accounts`); `LockoutSound` (`Login`); `UnguardedOnlyIfReleased`, `ExactWhenAlone` (`Configuration`); `IssueExclusive`, `ServesWhatIsStored`, `MaterialNeverRegresses` (`Certificates`); `ArchivesWhole`, `DataSurvives` (`Backup`) |
| `background` | 1 backend, thresholds 1 and 2, one reload, Close; 1 request, buffers of 1, 2 tasks; 1 channel edited by 2 administrators; 1 dashboard | `ProbesExclusive`, `CallsReturn`, `HealthIsFound` (`Checker`); `ShutdownCompletes` (`Telemetry`); `EditsReachDispatcher` (`Alerts`); `HubReleases` (`Hub`); all but the first are liveness |

Six more runs, `limiter_sweep`, `forward_leak`, `forward_hangup`, `hostcache_replaced`,
`config_open` and `auth_unverified`, each find the disagreement that section 4 describes.

The parts of `edge`, `control` and `background` share no state.  A behaviour is about
one of them (`about`) and the others rest in an initial state, so the states of a run
are the sum of its parts', not their product.

- `edge`: the checker over 2 backends without a reload, or over 1 with one; a response
  of up to 3 bytes with compression from 2 bytes on, with and without capture, that may
  break off anywhere; pages that say at most 2 things, with lifetimes 0 and 3, TTL 1 and
  at most 2, over 3 ticks; 2 visits with 2 credentials from 2 addresses under 3 lists,
  cache of 1; backends of weights 3, 2 and 1, 7 picks, 3 changes of the candidates; 2
  requests, a queue of 1, batches of 2 and one Forget; 1 channel with a queue of 1, 2
  attempts, a day of 2 ticks and 2 administrators; 10 forms of a host, 3 of a redirect,
  15 requests and one table published while a request is under way.
- `control`: 2 requests, 3 accounts, 1 session; 2 attempts of 1 address, burst 2,
  window and block 2, 5 instants; 2 editors, 1 host, redirect, list and domain, 2
  commits; 2 workers, 2 certificates, 2 key pairs; 2 takers of backups and the
  schedule, the newest 1 kept, 2 seconds, 3 archives, crashes at will.

**Why the bounds are enough.** Two requests are what it takes for one to act between
another's check and act, and three where the property needs a third to be wronged (two
failures and a success; two holders and a newcomer).  A shard of one makes every second
client meet eviction.  Three clients over one slot let the evicted record be someone
else's than the newcomer's or the releaser's.  One reload with requests on both sides of
it is the smallest overlap of two tables. Half-second ticks let a bucket hold half a
token, which is where "wait one second" could be short; a burst of 3 is more than
`IdleAfter` earns, so that a sweep can drop a bucket that is not full.  Two of the five
tasks a shutdown waits for stand for all, which are alike to it; each one more doubles
the states.  Three keys and sizes 1 and 2 make one insertion evict two entries, and let
the order of the list matter.  Seven picks are more than the six of a full cycle of
weights 3, 2 and 1.  Three bytes are one before, one at and one after the threshold of
compression.  A batch of 2 over a queue of 1 lets a batch be full, partly full and empty
at the drain.  In `control` one session is enough because a request outlives its token;
two commits are one to be read in part and one that does it; the first database has at
most one enabled host, one list satisfied in full and no redirect, the rest being
reached by edits; two key pairs are an older and a newer; two archives in one second and
one in the next make names collide and prune choose.

**Constraints.** Where a run would multiply questions that do not touch, a state
constraint `Scope` keeps them apart: `limiter`, rules that cap and rules that rate (and,
under a cap, times at which nothing differs); `forward`, three requests with one backend
and a reload, or two requests with two backends and retries; `host_cache`, the two cases
of the table; `edge`, a reload only with one backend, a second hostState only before
shutdown, and channel edits only while the usage watcher is quiet; `control`, at most
two archives where they do not matter.  No constraint applies to a liveness property.

**Deadlock** is checked in every passing run but `forward`, `edge` and `background`.
There requests are served once each, clocks are bounded, or the process exits, so the
instance ends.

**Fairness** is assumed by the modules whose liveness is checked, each of what the
code sees to:

- `Checker`: weak fairness of the steps of a running goroutine, since the Go scheduler
  runs what is runnable, and of a probe's answer, since `probe` runs under a context
  with `hc.Timeout`.  Strong fairness of Exit: `run` selects between the ticker and
  `ctx.Done()`, and a Go select picks at random among the ready cases, so a goroutine
  that is told to stop cannot take the ticker for ever.
- `Telemetry`: weak fairness of the flusher, the writer and the stages of `run`; strong
  fairness of the branch of their selects that sees the cancelled context.  None of
  requests: `Shutdown` has a deadline, which is why `ShutdownCompletes` holds with a
  request that never ends.  Weak fairness of the stop of the other five tasks: each is a
  loop around a select on the context, and what it may be away for when the context is
  cancelled takes that context or has a timeout (ten seconds for a webhook, three minutes
  for an order) or is bounded by the data it copies, for a snapshot.
- `Alerts`: weak fairness of deliveries, which have a timeout and a number of attempts,
  and of a Reload that has begun; strong fairness of the reload ticker of `Run`, which
  competes with the queue in a select.
- `Hub`: weak fairness of `Run` and of the loops of each client, whose reads, writes and
  pings have deadlines.

Nothing is assumed of operators, browsers, upstreams, the network or requests.
`HealthIsFound` is conditional on the backend staying dead or alive and on probing
going on.  In `background` fairness is asked only of the part that moves.

## 4. Disagreements between the code and its comments

Each has a run in which TLC finds a counterexample.

1. `limiter_sweep` (`SweepEarned`).  A record is dropped after `idleAfter`, ten minutes.
   `limiter.go:60` says that this must exceed the time a full bucket takes to refill, or
   a client could come back with a fresh burst.  Validate accepts bursts that take
   longer, up to a million requests at one a second, and nothing makes `idleAfter`
   longer for them.  `SweepCostBounded` states what does hold: the bucket that is
   dropped holds at least what ten minutes earn.
2. `forward_leak` (`ActiveIsInFlight`).  `forward` calls `backend.Release()` after
   `ReverseProxy.ServeHTTP` without `defer`.  `ServeHTTP` panics when a response
   body fails while it is copied to a client; the count is then never given back.
   `backend.go:168` calls it "the number of requests in flight".  Least-connections
   then avoids the backend, and with `MaxConns` enough such aborts take it out of
   rotation, until the next reload.
3. `forward_hangup` (`OnlyConnectionFailuresEject`).  A client that goes away makes
   the attempt fail with `context.Canceled`, which is recorded as a failure of the
   backend and, retries permitting, of the next one.  `domain/host.go:167` says only
   connection-level failures count.
4. `hostcache_replaced` (`NoReplacedCopy`).  An unsafe request drops the copy before
   it is forwarded.  A response that the origin gave before the change, and that is
   stored after the drop, is served for its lifetime.  `policy.go:178` says this is
   the failure that dropping early avoids.
5. `config_open` (`NeverOpenedUp`).  `accessListRepo.List` reads the lists, their rules
   and their users by three queries outside a transaction.  A list edited from
   passwords to address rules between them is read with neither, and a list satisfied
   by either half is read without the rules it has just lost.  `accesslist.go:124` says
   that only a list that restricts nothing lets everyone in, and that none is stored;
   the host that relies on the list runs open to everyone until the next reload.
   `UnguardedOnlyIfReleased` shows that this is the only way.
6. `auth_unverified` (`VerifiedWasCompared`).  `enforceAccess` remembers the credentials
   of every request that is granted and carries some, also when the list is satisfied
   by either half, the address settled it and nothing was compared.
   `accesslist.go:103` says that `Verified` stands for a positive result.  For `authTTL`
   that credential then counts as a password of the list.  `CachedGrantSound` states
   what does hold: a grant from the cache comes from a grant under the same version,
   no older than `authTTL`.

Observed while modelling, without a run of their own:

- `limiter.go:81` says a record is never evicted while `active` is above zero; Forget
  drops it all the same.  With limits switched off and on again while requests are in
  flight, releases of old requests free the slots of new ones.  `CapHonoured` and
  `ActiveIsExact` speak of hosts to which this has not happened (`orphaned`);
  `NoPhantomSlot` needs no such condition.
- `api/users.go:220`: the count of administrators and the write are separate
  statements.  Two administrators who demote each other at once both pass;
  `AdminRemains` without `raced` fails.
- `routing.go:70`: the host and redirect tables are read by separate queries, so
  a domain that moves from one to the other may be routed by both or by neither until
  the next reload.
- `certmgr/manager.go:141` says that failures are recorded on the certificate; an order
  that times out records it under the context that has expired, and does not.
- `api/ratelimit.go:33` says that a correct password always gets through; not while its
  address is blocked.  A failure answered after the window is over replaces the record
  and with it the block (`lifted`).
- `api/accesslists.go:148`: an edit that leaves a password blank writes back the hash it
  read, over one that another edit has set since.
- `domain/host.go:125` promises that `MaxConns` caps concurrent connections; Pick
  tests it and Acquire counts, in two steps, so concurrent requests pass together.
  `Forward` has the two steps; no bound but the number of requests holds.
- `backend.go:270-276`: an ejection, or a probe result, recorded on the old backend
  between NewPool and the publication of the table is lost.  `EjectionSound` is
  stated per pool because of it; `DownIsEarned` and `AlertsTruthful` hold from one pool to
  the next and except the backends to which it happened.
- `backend.go:156`: a probe that succeeds on a backend that is healthy but ejected
  leaves the ejection in place.
- `health/checker.go:157`: `matches` compares pools by identity and is never true after a
  reload, so every edit restarts the probes of every host.
- `limiter.go:313` speaks of hosts that were deleted; Reload forgets only hosts that
  are still in the configuration with their limits off.  `Limiter` has the setting
  `Gone` for a deleted host, whose records stay until the sweeper finds them.
- `cache.go:348`: a request that loaded the old table can call `Store.Host` after
  Forget and bring a cache back until the next reload.
- `recorder.go:27`: a 1xx response is recorded as the final status and the status
  that follows is swallowed; after one, `Delivery` promises only the order of the
  bytes.
- `handler.go:107` says that what is stored is already compressed.  The gzip writer
  drops Content-Length before the captureWriter sees the headers, and `Storable`
  refuses a response without one: what is compressed here is never stored.
- `policy.go:17`: codings that are not recognised are left out of the key, which the
  comment calls conservative, and so is a wildcard, which upstreams and `compress.go:92`
  take for an offer of gzip.  What is fetched for a client who says `*` is kept under
  the key of clients who accept nothing, and they may be served a coding they did not
  ask for.  `ServedAsPermitted` promises a coding only of copies fetched for clients who
  named nothing but codings the key tells apart.
- `compress.go:89` says that `gzip;q=0` is a refusal; `gzip;q=0, *` passes for an offer,
  as the wildcard is looked at on its own.
- `authcache.go:38` says that editing a list invalidates its entries immediately;
  `UpdatedAt` has whole seconds, so two edits in one second share a version.
- `handler.go:48`: redirects are looked up before hosts, so a redirect for `*.b.c` takes
  requests from a host that names `a.b.c` exactly.  `Redirect.Validate` looks at one
  redirect only: two may point at each other.
- `accesslog/writer.go:96` and `metrics/flush.go:12`: what requests record after the final
  drain or flush, during a graceful shutdown, is lost and not counted.  A listener
  that fails skips the final flush altogether.  `EntriesAccounted` and
  `SamplesConserved` say that nothing else is lost uncounted.
- `handler.go:168`: an answer whose body breaks off panics past `record` and
  `recordAccess`, so the request is in no sample, no access log entry and no error count.
- `metrics/flush.go:67`: a host without new requests is skipped after its baseline has
  moved, so bytes that an earlier request added since the last flush are in no sample.
- `metrics/collector.go`: Forget while a request is in flight makes `RequestFinished`
  create the host again, with an active count of -1.
- `alerts/usage.go:67` says that a host whose budget is switched off is forgotten; the
  watcher skips such a host before it comes to that.
- `alerts/dispatcher.go:174`: the throttle notes a send before it is tried, so an alert
  whose attempts all fail also silences the next.
- `api/ws/hub.go:131` says that a snapshot resets the live rate window; it only reads.
  A client that registers after closeAll is closed only when its browser leaves.
- `backup.go:47` says that a restore into an older binary is refused by the manifest's
  schema version; Restore never looks at it.  `api/backup.go:65` says that a truncated
  archive has no manifest; the manifest is written first.
- `backup/schedule.go:138`: prune, or a deletion, may remove a `.partial` that another
  Snapshot is writing; with a third in the same second a half-written file can then be
  renamed.  `ArchivesWhole` excepts exactly this (`removed`).

## 5. What is proved

Every theorem below is proved with TLAPS for every value of the constants that the
`ASSUME`s of its module allow: any number of requests, upstreams, hosts, accounts,
writers or reloads.  TLC evaluates those assumptions on every run.  They say that
bounds are naturals, that a limit is at least one where the configuration is
refused otherwise, that what may be submitted or come in has the fields its type has
(`RoutingAssumption`; which of it is *valid* is for Validate to find), that a pool has
a backend and its weights are positive, as NormalizeUpstreams makes them, and that the
default lifetime of a copy is within the longest.  Sets whose members are counted are
finite, as goroutines are (`Req` in `Limiter` and `Forward`, `Attempts` in `Login`,
`Hits` in `Telemetry`), and so are the budgets an operator ever configures (`Budgets`
in `HostCache`), of which `Accounting` names the largest.

| Module | Theorem | Statement |
|---|---|---|
| `LimiterProofs` | `TypeCorrect` | `Spec => []TypeOK` |
| | `NoPhantomSlots` | `[]NoPhantomSlot`: a record counts at most the requests that hold a slot under its key, so no slot is lost for good |
| | `ActiveExact` | `[]ActiveIsExact`: while Forget has not dropped a record in use, the count is exact and no client in use lacks a record |
| | `CapIsHonoured` | `CapHonoured`: under the same condition no step admits a request past its client's cap |
| | `BucketsAreBounded` | `[]BucketEnvelope`: over a record's life no more than a burst and what the rate earned |
| | `RetryAfterIsEnough` | `[]RetryAfterSuffices`: who waits as long as Retry-After says is not refused for its rate again |
| | `TableIsBounded` | `[]TableBounded`: at most maxPerShard records, or as many as there are requests at a time if those are more |
| | `SweepCostsAreBounded` | `SweepCostBounded`: the bucket a sweep drops is full, or holds at least what `IdleAfter` earns |
| `ForwardProofs` | `ActiveIsAccounted` | `[]ActiveAccounted`: a backend's count is its requests in flight and those a panic abandoned |
| | `RetriesAreSound` | `[]RetriesSound` |
| | `StatusIsHonest` | `[]StatusHonest` |
| | `EjectionIsSound` | `EjectionSound`: an ejection is owed to MaxFails failures in a row and ends |
| `CheckerProofs` | `ProbesAreExclusive` | `[]ProbesExclusive`, across any number of reloads and a Close |
| | `AlertsAreTruthful` | `[]AlertsTruthful`, across any number of reloads |
| | `FallsAreEarned` | `DownIsEarned`, across any number of reloads |
| `HostCacheProofs` | `CachesAccounted` | `[]Accounting`: map, list and byte count of every cache agree, within the largest budget |
| | `NoCacheStranded` | `[]NoneStranded` |
| | `EvictionsAreOfTheOldest` | `EvictsLeastRecent` |
| `EdgeProofs` | `AnswersExplained` | `[]AnsweredByOneTable`: one configuration published while the request was served explains the answer, and the backend gets the right path and headers |
| | `CopiesServedAsPermitted` | `[]ServedAsPermitted`: a copy is shown only where, as long as and to whom the upstream allows, and in a coding the client reads if it was fetched for one who named only codings the key tells apart |
| | `SelectionsBalanced` | `Balanced`: weights and rotation stay fair across changes, hashing moves only who must |
| | `NoSampleLost` | `[]SamplesConserved`: the samples hold each request whose answer did not break off once, but for the losses that are named |
| | `CachedGrantsAreSound` | `[]CachedGrantSound` |
| | `EntriesAreAccounted` | `[]EntriesAccounted` |
| | `ThrottleIsExact` | `ThrottleHolds` |
| `ControlProofs` | `IssuesAreExclusive` | `[]IssueExclusive` |
| | `ServedAsStored` | `[]ServesWhatIsStored` |
| | `MaterialIsMonotone` | `MaterialNeverRegresses` |
| | `GuardsAreKept` | `[]UnguardedOnlyIfReleased` |
| | `AloneIsExact` | `[]ExactWhenAlone` |
| | `AdministratorRemains` | `[]AdminRemains` (from `AccountsInvariant`) |
| | `LockoutIsSound` | `LockoutSound` |
| `BackupProofs` | `BackupsAreWhole` | `[]ArchivesWhole` |
| | `RestoreLosesNothing` | `DataSurvives` |
| `ResponsesProofs` | `StoredResponsesAreWhole` | `[]StoredIsWhole` |
| | `StackDelivers` | `Delivers`: `Responses` implements `Delivery` |

No theorem has a hypothesis beyond its module's assumptions.  What a property excepts it
names by a history variable, so that the exception is in the statement: `orphaned`,
`raced`, `lifted`, `removed`, `told`, `broken`, and for the checker `missed` and
`crossed`. `inheritFrom` copies a backend's health at one moment and its streaks at
another, while the old checker still records: a backend whose last success landed on the
old pool after its streaks were copied (`missed`) may fall below the threshold on the
new one, and one that was told about otherwise than it was copied (`crossed`) was told
about falsely until it changes again.  And a reload may leave a host without a backend
that is up, by disabling those that were: nobody reports that, so the outage is owed
only once a backend `fell`.

### The arguments

An invariant a run checks is seldom inductive.  Each of the following says what is
known halfway through an operation, which is where the code could go wrong.

**Limiter.** `TypeOK` is inductive; the one step that needs work is Acquire, whose table
comes out of an eviction (`TablesForType`) and whose record out of `judge` (`JudgeType`,
`RefillType`).  `NoPhantomSlot` is inductive together with it: Release looks the record
up again and decrements only above zero; a record created after a Forget counts fewer
than hold a slot, never more, and that is why the invariant is an inequality.
`ActiveIsExact` adds the other direction: the holders of a key whose record is missing
are none.  It needs that eviction and sweep take only records with `active = 0`, which
by exactness have no holders (`IdleHasNoHolders`), and is conditional on the host not
being in `orphaned`, which only Forget extends. `CapIsHonoured` follows: `judge` admits
only below the cap (`JudgeRefusesOverCap`). `BucketInv` bounds the tokens at hand and
spent by the burst and the rate times the time since the record was made, and no record
is ahead of the clock, though readings arrive out of order; refill by a smaller rate
keeps within it (`EnvelopeGrows`).  `TableBounded` needs that `evictOldest` finds an
idle record when there is one (`EvictsWhenIdle`, by a minimum over a non-empty set) and
that busy records are no more than the requests that hold a slot (`BusyRecordsHeld`, a
surjection), one of which is not the one asking.  `SweepInv` bounds how far a late
reading sets `seen` back, so a record the sweeper takes has had `IdleAfter`, less the
skew, to earn in.

**Forward.**  `ForwardInv` says what a request's local variables mean at each point of
the loop (`ReqOK`: where it is placed, that `tried` counts its attempts one by one, what
it has been told), what a backend's failure count and ejection are owed to
(`BackendOK`), that nothing has leaked on a pool not yet built, and `ActiveOK`.
Counts move because the set of requests in flight on one backend gains or loses one
element (`FlightBegins`, `FlightEnds`) and the others stay (`OthersFlying`).  A reload
builds a pool nobody is on; requests of the old pool keep a reference to it, so
`ActiveOK` is about every pool there has been.

**Checker.** `ExclusiveInv` names the one checker whose goroutine may still run
(`Holder`: the running one, or the one Close waits for), and says that `mu` is held from
Sync's test of `closed` until the new checker runs.  For the alerts, `OwnInv` relates
the pool of the holder, and `KinInv` the published pool and the one being built, to what
happened: a backend's streak of failures is no longer than the real one unless it was
`missed`, and what was told last, or is about to be, is its health unless it `crossed`
over or its health is still to be copied.  What a probe records on the old pool between
the copy and the publication puts its backend into those sets (`RunRecord`,
`CopiedMarks`), so the invariant passes to the new pool when Sync starts its checker
(`RunSyncStart`).

**HostCache.** `Told` says of one cache that its list repeats no key, lists the keys of
the map and no other, and that its byte count is their sum; each operation under the
lock is shown to keep it, and `CachesInv` has it of every cache there has been, with a
budget that was configured.  The sum and Invalidate are folds that take elements out in
an order nobody chose: two folds agree, and a fold exists, because a smallest set on
which they did not could be made smaller (`LeastSubset`, `SumsAgree`, `RemovesExist`);
from there a sum splits over any part (`BytesSplit`).  Put's loop ends within its budget
as an empty cache weighs nothing (`SomeKept`).  For the evictions, `RecencyInv` says
that a cache's list is in the order of `used`, the history of all keys touched: it loses
keys to expiry, Invalidate and eviction, and the rest keep their order (`Follows`).
`NoneStranded` needs only that HostCreate fills an empty place and Forget empties it.

**Routing.** `RoutingInv` says that every stored host and redirect is one that Validate
accepts, with its locations longest first; that the table is made of the stored
configuration, which is one of those published since the request came; and, between the
gates, that the route the request holds is the owner of its name in one of those
(`ServedBy`) and has let it through each gate it is past (`LetOn`).  So a save in the
midst of it changes nothing (`StoreKeeps`), and a gate needs to know only what the
earlier ones left (`GateKeeps`).  The rest is about what the steps compute: `FindIs`,
that the two maps give the owner of a name or nobody, which needs that a wildcard is its
star and its parent (`StarOf`) and has three labels; `PickIs`, that the first location
that matches is the deepest around the path, as two prefixes of a path of one length are
the same (`SameDepth`); `StripIs`, that location and stripped path give the path again;
`RulesFold`, that the fold over the rules sets each header as its one rule says
(`Outcome`), whatever order it takes; `LongestFirstIs`, that the sort is one: the ranks
of a total order on a finite set are its places (`Ranks`); `LocationClean`, about the
slash between a redirect's path and the request's.

**Policy.** `PolicyInv` says that each copy was stored for a request whose answer was
storable, lasts as long as `freshness` gave it, and is in a coding its key names if it
was fetched for one who named only codings the key tells apart (`KeptRight`); the case
analysis of freshness against what was asked is `FreshnessBound`.

**Selectors.**  `FairInv` adds to the sum of the weights, which is zero over the whole
pool, two accounts of the selections.  From a fresh start a weight *is* what the
selections left: selections in all times the backend's own weight, less its own
selections times the total.  Whoever wins has at least the average, so nobody picked ever
owes a round more than the average, whatever was carried over a change (`WeightedInv`).
For round robin, `RotationInv` says that who comes later in the rotation was picked as
often as who comes before, or once more; the proof is about residues (`Division`).
The sum is the library's fold, of which there is no theorem: that it takes elements
out one at a time is shown as in `HostCacheProofs`, by a least set for which it fails.

**Telemetry, the counts.**  The balance that `SamplesConserved` states is four sums over
the hostStates; each step changes one state or adds one (`Changes`, `Joins`).  Not
inductive is the bound on what was skipped: `LedgerOK` says that there are sets of
requests, those in the baselines and those whose bytes are, and that a request in one and
not in the other, or skipped, was overlapped by a flush.  `Exact` ties counters to the
requests that found them, `TailOK` what is unsampled at the end to what came after the
last flush began.

**AuthCache, Telemetry's log, Alerts.** `AuthInv` follows a visit through look-up,
comparison and entry: a credential taken as verified was granted under the version the
visit holds, and that grant is in `remembered`.  `LogInv` adds to the count of entries
where each of the writer's phases can leave a batch.  `DispatcherInv` says that what the
throttle remembers is what was last told, or was forgotten when it was more than a day
old at the moment of the alert at hand (`Remembers`); a day covers every interval, so
both decide alike (`ThrottleDecides`).

**Certificates, Configuration.**  `CertInv` says of each worker that the material of the
record it holds is the row's until it saves (`WorkOK`), because rows are written under the
lock, and that a list it read is the table if nothing was written since.  In
`ConfigInv`, `ReadOK` says what a reload between two of its seven queries knows: of each
list it has found, that it is as it was, deleted, or torn, and of each list it did not
find, that it is gone for good, as ids are never given out twice (`spent`).

**Accounts, Login.**  `AdminRemains` says nothing of a request that has passed its
checks and has yet to write.  `AccountsInv` adds `Cover`: as long as nothing `raced`,
every request about to change a role or delete a row leaves an administrator if it
writes now, because it does not remove one, or because another one is there
(`AnotherAdmin`: two or more in a finite set leave one besides the target).  A write
either overlaps such a request, and sets `raced`, or meets no request that `Cover`
speaks of (`ChangeStep`).  For the login limiter, `Room` counts the attempts that
passed `allow` and have yet to fail: each may add one failure past the burst.

**Backup.**  `BackupInv` ties each writer to its partial file: it is there and holds what
the writer copied, or was removed, and two writers of one name are told apart only by
that (`Apart`).  `PlacesOK` says that every data directory made is the current one or
was moved aside, each in one place; it is kept across both renames of a restore and a
death between them.

**Responses.**  `ResponsesInv` says which of a few states the stack of writers is in,
given what the upstream has sent: `Unsent`, `Waiting` (the compress writer holds less than
MinBytes), `Direct`, `Compressed`, or `Hinted` (an early hint went through).  Each
writer has lemmas saying what a status, a write, a flush and the end come to below
it; the step to `Delivery` (`Shows`) then needs only that bodies are extended.

### Only model-checked

- Liveness: `CallsReturn`, `HealthIsFound`, `ShutdownCompletes`, `EditsReachDispatcher`,
  `HubReleases`.  Fairness, and what an action's being enabled follows from, are
  beyond the prover.

Every safety invariant and action property of the passing runs is stated by a theorem.

## 6. What is not modelled

- Reports (`internal/report`), the web console (`web/`), DNS providers, process
  configuration and logging: formatting, a browser's interface, calls to external
  services.
- The matching of request text against patterns (`internal/guardian`), the syntax of
  names, addresses, URLs and headers, the format of tokens and passwords.
- Least connections, which compares counts while other requests change them: any
  candidate may come out, which is what `Forward` assumes of every selector.
- The dashboard's snapshot, its rates and shares, and the reading of the CPU; the
  pruning of the access log by age; what a message to a channel says.
- The two other ACME solvers and the registration of an account; conditional
  requests; cascades of a certificate's deletion into hosts.
- float64 rounding of the bucket, the hash that picks a shard, and the wrap of the round
  robin counter after 2^64 selections.
- Control characters in paths, which `sanitizePath` drops, and the query of a redirect.
- A restore while the proxy runs: the repository's README asks for it to be stopped.

## 7. Plan

Model: cascades of certificates in `Configuration`; the look-up of a certificate by
name; change of password in `Accounts`; conditional requests in `Policy`.
