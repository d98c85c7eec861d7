------------------------------ MODULE Forward ------------------------------
(***************************************************************************)
(* The pick-and-proxy loop of internal/proxy/handler.go over one host's    *)
(* pool: Pool.Pick, the connection count, passive health and the retry     *)
(* decision, for requests that run concurrently with each other, with      *)
(* probe results and with configuration reloads.                           *)
(*                                                                         *)
(* A reload builds a new generation of the pool.  A request keeps the      *)
(* generation it started with; older generations live on until their       *)
(* requests end.                                                           *)
(***************************************************************************)
EXTENDS Backend, Sequences, FiniteSets

CONSTANTS
    Req,             \* requests
    Upstreams,       \* upstream addresses
    Configs,         \* configurations: functions from some upstreams to Enabled
    MaxConns,        \* Upstream.MaxConns, 0 for unlimited
    MaxRetries,      \* Options.MaxRetries
    PassiveEnabled,  \* PassiveHealth.Enabled
    MaxFails,        \* PassiveHealth.MaxFails
    EjectFor,        \* PassiveHealth.EjectFor, in ticks
    NoUpstream,      \* no backend picked
    MaxGen,          \* bound: configurations loaded
    MaxTime          \* bound: the last tick

ASSUME ForwardAssumption ==
    /\ Configs # {}
    /\ \A cfg \in Configs : DOMAIN cfg \subseteq Upstreams /\ \A u \in DOMAIN cfg : cfg[u] \in BOOLEAN
    /\ MaxConns \in Nat /\ MaxRetries \in Nat /\ PassiveEnabled \in BOOLEAN
    /\ MaxFails \in Nat \ {0} /\ EjectFor \in Nat \ {0}
    /\ MaxGen \in Nat \ {0} /\ MaxTime \in Nat \ {0}
    /\ NoUpstream \notin Upstreams
    /\ IsFiniteSet(Req)

VARIABLES
    now,     \* the clock; 0 is the zero time.Time
    pools,   \* every pool built so far, oldest first
    gen,     \* the pool the routing table names
    req,     \* each request's local variables
    leaked,  \* history: attempts abandoned by a panic, per pool and upstream
    streak,  \* history: failures since the last success, per pool and upstream, capped
    refused  \* history: connection-level failures, per upstream, capped

vars == <<now, pools, gen, req, leaked, streak, refused>>

Ended == {"done", "aborted"}

Request ==
    [pc : {"new", "picking", "picked", "waiting", "succeeded", "cleared",
           "failed", "tripped", "ejecting"} \cup Ended,
     gen : Nat,                           \* the pool of its route
     replay : BOOLEAN,                    \* canReplay(r)
     at : Nat,                            \* the clock as Pick read it
     todo : SUBSET Upstreams,             \* backends Pick has still to look at
     cand : SUBSET Upstreams,             \* candidates
     tried : SUBSET Upstreams,            \* tried
     cur : Upstreams \cup {NoUpstream},   \* backend
     attempt : Nat,
     dirty : BOOLEAN,                     \* rec.dirty()
     gone : BOOLEAN,                      \* its context is cancelled
     status : {"none", "ok", "502", "503", "partial"}]

NewRequest ==
    [pc |-> "new", gen |-> 0, replay |-> FALSE, at |-> 0, todo |-> {}, cand |-> {},
     tried |-> {}, cur |-> NoUpstream, attempt |-> 0, dirty |-> FALSE, gone |-> FALSE,
     status |-> "none"]

\* A request that has been answered: its other local variables are dead.
Over(q, status) ==
    [NewRequest EXCEPT !.pc = "done", !.status = status, !.tried = q.tried, !.dirty = q.dirty]

Zero == [u \in Upstreams |-> 0]

Init ==
    /\ now = 1
    /\ \E cfg \in Configs : pools = <<NewPool(cfg, [u \in {} |-> 0])>>
    /\ gen = 1
    /\ req = [r \in Req |-> NewRequest]
    /\ leaked = [g \in 1 .. MaxGen |-> Zero]
    /\ streak = [g \in 1 .. MaxGen |-> Zero]
    /\ refused = Zero

-----------------------------------------------------------------------------
\* ServeHTTP: the routing table is loaded once.
Arrive(r, replay) ==
    /\ req[r].pc = "new"
    /\ req' = [req EXCEPT ![r] = [@ EXCEPT !.pc = "picking", !.gen = gen, !.replay = replay,
                                           !.at = now, !.todo = DOMAIN pools[gen]]]
    /\ UNCHANGED <<now, pools, gen, leaked, streak, refused>>

\* Pick's test of one backend.
Eligible(b, u, q) ==
    b.enabled /\ Available(b, q.at) /\ HasCapacity(b, MaxConns) /\ u \notin q.tried

Scan(r, u) ==
    LET q == req[r] IN
    /\ q.pc = "picking"
    /\ u \in q.todo
    /\ req' = [req EXCEPT ![r].todo = @ \ {u},
                          ![r].cand = IF Eligible(pools[q.gen][u], u, q) THEN @ \cup {u} ELSE @]
    /\ UNCHANGED <<now, pools, gen, leaked, streak, refused>>

\* The selector may choose any candidate.
Select(r, u) ==
    LET q == req[r] IN
    /\ q.pc = "picking" /\ q.todo = {}
    /\ u \in q.cand
    /\ req' = [req EXCEPT ![r] = [q EXCEPT !.pc = "picked", !.cur = u, !.tried = @ \cup {u},
                                           !.cand = {}]]
    /\ UNCHANGED <<now, pools, gen, leaked, streak, refused>>

\* Mutant: a request that has already failed somewhere is told 503.
NoCandidateUnavailable(r) ==
    LET q == req[r] IN
    /\ q.pc = "picking" /\ q.todo = {}
    /\ q.cand = {}
    /\ req' = [req EXCEPT ![r] = Over(q, "503")]
    /\ UNCHANGED <<now, pools, gen, leaked, streak, refused>>

\* Pick found none: 502 after a failure of this request's own, else 503.
NoCandidate(r) ==
    LET q == req[r] IN
    /\ q.pc = "picking" /\ q.todo = {}
    /\ q.cand = {}
    /\ req' = [req EXCEPT ![r] = Over(q, IF q.tried # {} THEN "502" ELSE "503")]
    /\ UNCHANGED <<now, pools, gen, leaked, streak, refused>>

Acquire(r) ==
    LET q == req[r] IN
    /\ q.pc = "picked"
    /\ pools' = [pools EXCEPT ![q.gen][q.cur].active = @ + 1]
    /\ req' = [req EXCEPT ![r].pc = "waiting"]
    /\ UNCHANGED <<now, gen, leaked, streak, refused>>

-----------------------------------------------------------------------------
\* How ReverseProxy.ServeHTTP ends.

Release(b) == [b EXCEPT !.active = @ - 1]

Respond(r) ==
    LET q == req[r] IN
    /\ q.pc = "waiting" /\ ~q.gone
    /\ pools' = [pools EXCEPT ![q.gen][q.cur] = Release(@)]
    /\ req' = [req EXCEPT ![r].pc = "succeeded"]
    /\ UNCHANGED <<now, gen, leaked, streak, refused>>

\* Mutant: a request whose body has been sent is retried.
AfterFailureReplaysAll(q) ==
    IF ~q.dirty /\ q.attempt < MaxRetries
    THEN [q EXCEPT !.pc = "picking", !.at = now, !.todo = DOMAIN pools[q.gen],
                   !.cur = NoUpstream, !.attempt = @ + 1]
    ELSE Over(q, IF q.dirty THEN "partial" ELSE "502")

\* What forward does once the failure is recorded: try elsewhere, or answer.
AfterFailure(q) ==
    IF ~q.dirty /\ q.replay /\ q.attempt < MaxRetries
    THEN [q EXCEPT !.pc = "picking", !.at = now, !.todo = DOMAIN pools[q.gen],
                   !.cur = NoUpstream, !.attempt = @ + 1]
    ELSE Over(q, IF q.dirty THEN "partial" ELSE "502")

\* An interim (1xx) response is passed on to the client.
Interim(r) ==
    /\ req[r].pc = "waiting" /\ ~req[r].gone /\ ~req[r].dirty
    /\ req' = [req EXCEPT ![r].dirty = TRUE]
    /\ UNCHANGED <<now, pools, gen, leaked, streak, refused>>

\* RoundTrip returns an error, which handleUpstreamError keeps for forward; the
\* clock reading RecordProxyResult is given is made before it counts.
Fail(r, gone) ==
    LET q == [req[r] EXCEPT !.gone = gone, !.at = now] IN
    /\ q.pc = "waiting"
    /\ pools' = [pools EXCEPT ![q.gen][q.cur] = Release(@)]
    /\ req' = [req EXCEPT ![r] = IF PassiveEnabled THEN [q EXCEPT !.pc = "failed"]
                                 ELSE AfterFailure(q)]
    /\ UNCHANGED <<now, gen, leaked, streak>>

\* A dial error, a timeout, a refused connection.
Refuse(r) ==
    /\ ~req[r].gone
    /\ Fail(r, FALSE)
    /\ refused' = [refused EXCEPT ![req[r].cur] = Capped(@ + 1, MaxFails)]

\* The client has gone away: RoundTrip returns context.Canceled, now and at
\* every retry, and takes the same path.
Hangup(r) ==
    /\ Fail(r, TRUE)
    /\ UNCHANGED refused

\* Copying the body fails after the headers went out: ReverseProxy panics with
\* http.ErrAbortHandler, which unwinds forward past backend.Release.
Abort(r) ==
    LET q == req[r] IN
    /\ q.pc = "waiting" /\ ~q.gone
    /\ req' = [req EXCEPT ![r] = [NewRequest EXCEPT !.pc = "aborted"]]
    /\ leaked' = [leaked EXCEPT ![q.gen][q.cur] = @ + 1]
    /\ UNCHANGED <<now, pools, gen, streak, refused>>

-----------------------------------------------------------------------------
\* RecordProxyResult, one atomic operation at a time.

\* Mutant: a success does not restart the count.
SucceedKeepsFails(b) == b

Succeed(b) == IF PassiveEnabled THEN ResetFails(b) ELSE b

RecordOk(r) ==
    LET q == req[r] IN
    /\ q.pc = "succeeded"
    /\ pools' = [pools EXCEPT ![q.gen][q.cur] = Succeed(@)]
    /\ streak' = [streak EXCEPT ![q.gen][q.cur] = 0]
    /\ req' = [req EXCEPT ![r].pc = "cleared"]
    /\ UNCHANGED <<now, gen, leaked, refused>>

RecordClear(r) ==
    LET q == req[r] IN
    /\ q.pc = "cleared"
    /\ pools' = [pools EXCEPT ![q.gen][q.cur] = IF PassiveEnabled THEN ClearWindow(@) ELSE @]
    /\ req' = [req EXCEPT ![r] = Over(q, "ok")]
    /\ UNCHANGED <<now, gen, leaked, streak, refused>>

RecordFail(r) ==
    LET q == req[r]
        b == CountFail(pools[q.gen][q.cur])
    IN
    /\ q.pc = "failed"
    /\ pools' = [pools EXCEPT ![q.gen][q.cur] = b]
    /\ streak' = [streak EXCEPT ![q.gen][q.cur] = Capped(@ + 1, MaxFails)]
    /\ req' = [req EXCEPT ![r] = IF b.fails < MaxFails THEN AfterFailure(q)
                                 ELSE [q EXCEPT !.pc = "tripped"]]
    /\ UNCHANGED <<now, gen, leaked, refused>>

RecordTrip(r) ==
    LET q == req[r] IN
    /\ q.pc = "tripped"
    /\ pools' = [pools EXCEPT ![q.gen][q.cur] = ResetFails(@)]
    /\ req' = [req EXCEPT ![r].pc = "ejecting"]
    /\ UNCHANGED <<now, gen, leaked, streak, refused>>

RecordEject(r) ==
    LET q == req[r] IN
    /\ q.pc = "ejecting"
    /\ pools' = [pools EXCEPT ![q.gen][q.cur] = Eject(@, q.at + EjectFor)]
    /\ req' = [req EXCEPT ![r] = AfterFailure(q)]
    /\ UNCHANGED <<now, gen, leaked, streak, refused>>

-----------------------------------------------------------------------------
\* The health checker, seen from here: it flips a backend's health, and a
\* recovery clears the ejection.
ProbeFlip(u) ==
    /\ u \in DOMAIN pools[gen]
    /\ pools[gen][u].enabled
    /\ pools' = [pools EXCEPT ![gen][u] =
                    IF @.healthy THEN [@ EXCEPT !.healthy = FALSE]
                    ELSE ClearEjection([@ EXCEPT !.healthy = TRUE])]
    /\ UNCHANGED <<now, gen, req, leaked, streak, refused>>

\* Engine.Reload, serialised by reloadMu: NewPool inherits, then the table is
\* stored.
Build(cfg) ==
    /\ gen = Len(pools) /\ gen < MaxGen
    /\ pools' = Append(pools, NewPool(cfg, pools[gen]))
    /\ streak' = [streak EXCEPT ![gen + 1] = streak[gen]]
    /\ UNCHANGED <<now, gen, req, leaked, refused>>

Publish ==
    /\ gen < Len(pools)
    /\ gen' = gen + 1
    /\ UNCHANGED <<now, pools, req, leaked, streak, refused>>

Tick ==
    /\ now < MaxTime
    /\ now' = now + 1
    /\ UNCHANGED <<pools, gen, req, leaked, streak, refused>>

Attempt(r) == Interim(r) \/ Respond(r) \/ Refuse(r) \/ Hangup(r) \/ Abort(r)

Step(r) ==
    \/ \E replay \in BOOLEAN : Arrive(r, replay)
    \/ \E u \in Upstreams : Scan(r, u) \/ Select(r, u)
    \/ NoCandidate(r) \/ Acquire(r) \/ Attempt(r)
    \/ RecordOk(r) \/ RecordClear(r) \/ RecordFail(r) \/ RecordTrip(r) \/ RecordEject(r)

Next ==
    \/ \E r \in Req : Step(r)
    \/ \E u \in Upstreams : ProbeFlip(u)
    \/ \E cfg \in Configs : Build(cfg)
    \/ Publish
    \/ Tick

Spec == Init /\ [][Next]_vars

-----------------------------------------------------------------------------
\* Properties.

\* The requests inside ReverseProxy.ServeHTTP on upstream u of pool g.
InFlight(g, u) ==
    {r \in Req : req[r].pc = "waiting" /\ req[r].gen = g /\ req[r].cur = u}

\* A backend's connection count is its requests in flight plus those a panic
\* abandoned: across retries, reloads and failures nothing else is lost or
\* counted twice, and a reload does not move a count to the new pool.
ActiveAccounted ==
    \A g \in DOMAIN pools : \A u \in DOMAIN pools[g] :
        pools[g][u].active = Cardinality(InFlight(g, u)) + leaked[g][u]

\* backend.go:168-169: "ActiveConns is the number of requests in flight, which is
\* what LeastConnections selects on."
ActiveIsInFlight ==
    \A g \in DOMAIN pools : \A u \in DOMAIN pools[g] :
        pools[g][u].active = Cardinality(InFlight(g, u))

\* A retry lands somewhere new, there are at most MaxRetries of them, and a
\* request whose body cannot be replayed or whose client has seen part of an
\* answer is never sent again.
RetriesSound ==
    \A r \in Req : LET q == req[r] IN
        /\ Cardinality(q.tried) <= MaxRetries + 1
        /\ q.pc \notin Ended /\ ~q.replay => Cardinality(q.tried) <= 1
        /\ q.pc \in {"picked", "waiting"} => Cardinality(q.tried) = q.attempt + 1
        /\ q.dirty => q.pc \notin {"picking", "picked"}

\* A visitor told that nothing is available (503) cost no backend anything; one
\* told that a backend could not be reached (502) had a failed attempt; one cut
\* off had been sent part of an answer.
StatusHonest ==
    \A r \in Req : LET q == req[r] IN
        /\ q.status = "503" => q.tried = {}
        /\ q.status = "502" => q.tried # {} /\ ~q.dirty
        /\ q.status = "partial" => q.dirty

\* Passive health acts on consecutive failures only: the count that trips an
\* ejection is of failures with no success recorded on the backend between them,
\* however the requests interleave, and across a reload the count goes on from
\* what the old backend had when it was copied.  And it ends by itself: no backend
\* is held out for longer than EjectFor from now, whatever failed and was
\* inherited in the meantime.
EjectionSound ==
    /\ [](\A g \in DOMAIN pools : \A u \in DOMAIN pools[g] : pools[g][u].until <= now + EjectFor)
    /\ [][\A r \in Req : req[r].pc = "failed" /\ req'[r].pc = "tripped"
            => streak'[req[r].gen][req[r].cur] >= MaxFails]_vars

\* backend.go:118-121: "Only connection-level failures should be reported as a
\* failure", and domain/host.go:167: "Only connection-level failures count: a
\* dial error, a timeout, a refused connection."
OnlyConnectionFailuresEject ==
    \A g \in DOMAIN pools : \A u \in DOMAIN pools[g] :
        pools[g][u].until # 0 => refused[u] >= MaxFails

=============================================================================
