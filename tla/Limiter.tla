------------------------------ MODULE Limiter ------------------------------
(***************************************************************************)
(* The traffic limiter: the per-client table of internal/limiter, the      *)
(* requests that internal/proxy/limits.go sends through it, the sweeper    *)
(* goroutine, and the part of Engine.Reload that publishes new rules and   *)
(* forgets the records of hosts whose limits were switched off.            *)
(*                                                                         *)
(* One shard is modelled: a key always hashes to the same shard and no     *)
(* operation looks at two shards under one lock.  Everything done under    *)
(* the shard lock is one step; a read made before the lock is taken (the   *)
(* routing table, the clock, the sweeper's cutoff) is a step of its own.   *)
(*                                                                         *)
(* Time is counted in ticks, Second ticks to the second, and a token in    *)
(* Second-ths, so that `elapsed * rate' is exact where Go uses float64.    *)
(***************************************************************************)
EXTENDS Integers, FiniteSets

CONSTANTS
    Req,          \* request goroutines
    Hosts,        \* host ids
    Addrs,        \* client addresses
    RuleSet,      \* the rules an operator may configure
    Off,          \* setting of a host whose limits are not Enabled
    Gone,         \* setting of a host that is not in the routing table
    Second,       \* ticks in a second
    IdleAfter,    \* idleAfter, in ticks
    MaxPerShard,  \* maxPerShard
    MaxRps,       \* MaxRequestsPerSecond, the largest rate Validate accepts
    MaxBurst,     \* MaxBurstRequests, the largest burst it accepts
    MaxSkew,      \* bound: ticks between reading the clock and the lock
    MaxTime       \* bound: the last tick

Rules == [rps : Nat, burst : Nat, maxConcurrent : Nat]

\* What Validate accepts of the fields of Rules.
Valid(rules) == rules.rps <= MaxRps /\ rules.burst <= MaxBurst

ASSUME RulesAssumption ==
    /\ RuleSet # {}
    /\ RuleSet \subseteq Rules
    /\ MaxRps \in Nat
    /\ MaxBurst \in Nat \ {0}
    /\ MaxRps <= MaxBurst
    /\ \A r \in RuleSet : Valid(r)
ASSUME SettingAssumption == Off \notin RuleSet /\ Gone \notin RuleSet /\ Off # Gone
ASSUME TimeAssumption ==
    /\ Second \in Nat \ {0}
    /\ IdleAfter \in Nat
    /\ MaxSkew \in Nat
    /\ MaxTime \in Nat
ASSUME TableAssumption == MaxPerShard \in Nat \ {0}
ASSUME ReqAssumption == IsFiniteSet(Req)
ASSUME KeyAssumption == Hosts # {} /\ Addrs # {}

Key == Hosts \X Addrs

VARIABLES
    now,      \* the clock
    config,   \* the published routing table: each host's limits
    pending,  \* hosts the reload under way has still to Forget
    pc,       \* where each request is
    ticket,   \* a request's local variables: key, rules, clock reading
    clients,  \* the shard's map from key to client record
    sweeper,  \* the sweeper goroutine
    cutoff,   \* the sweeper's local variable
    stop,     \* the stop channel has been closed
    orphaned  \* history: hosts that lost a record with requests in flight

vars == <<now, config, pending, pc, ticket, clients, sweeper, cutoff, stop, orphaned>>

Setting == RuleSet \cup {Off, Gone}
NoKey == CHOOSE k \in Key : TRUE
NoRules == CHOOSE r \in RuleSet : TRUE
NoTicket == [key |-> NoKey, rules |-> NoRules, at |-> 0]

(***************************************************************************)
(* A client record.  spent, born and refused are history: the tokens the   *)
(* record has handed out, when it was created, and when it last refused a  *)
(* request for its rate with no token handed out since (-1 if it has not). *)
(***************************************************************************)
Client == [tokens : Nat, last : Nat, active : Nat, seen : Nat,
           spent : Nat, born : Nat, refused : Int]

TypeOK ==
    /\ now \in Nat
    /\ config \in [Hosts -> Setting]
    /\ pending \subseteq Hosts
    /\ pc \in [Req -> {"idle", "routed", "sampled", "held"}]
    /\ ticket \in [Req -> [key : Key, rules : RuleSet, at : Nat]]
    /\ DOMAIN clients \subseteq Key
    /\ clients \in [DOMAIN clients -> Client]
    /\ sweeper \in {"waiting", "sweeping", "stopped"}
    /\ cutoff \in Int
    /\ stop \in BOOLEAN
    /\ orphaned \subseteq Hosts

Init ==
    /\ now = 0
    /\ config \in [Hosts -> RuleSet]
    /\ pending = {}
    /\ pc = [r \in Req |-> "idle"]
    /\ ticket = [r \in Req |-> NoTicket]
    /\ clients = [k \in {} |-> 0]
    /\ sweeper = "waiting"
    /\ cutoff = 0
    /\ stop = FALSE
    /\ orphaned = {}

-----------------------------------------------------------------------------
\* The operators of limiter.go, on one client record.

burstOf(rules) ==
    IF rules.burst > rules.rps THEN rules.burst
    ELSE IF rules.rps > 0 THEN rules.rps ELSE 1

Least(a, b) == IF a < b THEN a ELSE b

NewClient(rules, at) ==
    [tokens |-> burstOf(rules) * Second, last |-> at, active |-> 0, seen |-> at,
     spent |-> 0, born |-> at, refused |-> -1]

\* Mutant: the cap is compared with > instead of >=.
OverConcurrencyByOne(c, rules) ==
    rules.maxConcurrent > 0 /\ c.active > rules.maxConcurrent

OverConcurrency(c, rules) ==
    rules.maxConcurrent > 0 /\ c.active >= rules.maxConcurrent

\* Mutant: the refill forgets to move last.
RefillKeepsLast(c, rules, at) ==
    IF at > c.last
    THEN [c EXCEPT !.tokens = Least(burstOf(rules) * Second,
                                    c.tokens + (at - c.last) * rules.rps)]
    ELSE c

\* The refill at the top of judge: a reading that is not newer changes nothing.
Refill(c, rules, at) ==
    IF at > c.last
    THEN [c EXCEPT !.tokens = Least(burstOf(rules) * Second,
                                    c.tokens + (at - c.last) * rules.rps),
                   !.last = at]
    ELSE c

\* Mutant: a refused request is charged a token all the same.
JudgeChargesRefusal(c, rules, at) ==
    IF OverConcurrency(c, rules) THEN [verdict |-> "concurrency", client |-> c]
    ELSE IF rules.rps = 0 THEN [verdict |-> "ok", client |-> c]
    ELSE LET f == Refill(c, rules, at) IN
         IF f.tokens < Second
         THEN [verdict |-> "rate",
               client |-> [f EXCEPT !.tokens = @ - Second, !.refused = now]]
         ELSE [verdict |-> "ok",
               client |-> [f EXCEPT !.tokens = @ - Second, !.spent = @ + 1, !.refused = -1]]

\* A record after judge, and the verdict it gives.
judge(c, rules, at) ==
    IF OverConcurrency(c, rules) THEN [verdict |-> "concurrency", client |-> c]
    ELSE IF rules.rps = 0 THEN [verdict |-> "ok", client |-> c]
    ELSE LET f == Refill(c, rules, at) IN
         IF f.tokens < Second
         THEN [verdict |-> "rate", client |-> [f EXCEPT !.refused = now]]
         ELSE [verdict |-> "ok",
               client |-> [f EXCEPT !.tokens = @ - Second, !.spent = @ + 1, !.refused = -1]]

\* Mutants: records in use are not skipped; nothing is ever found.
evictOldestBusy(table) ==
    {k \in DOMAIN table : \A j \in DOMAIN table : table[k].seen <= table[j].seen}

evictOldestNone(table) == {k \in DOMAIN table : FALSE}

\* The keys evictOldest may delete: the least recently seen idle records.
evictOldest(table) ==
    LET idle == {k \in DOMAIN table : table[k].active = 0}
    IN  {k \in idle : \A j \in idle : table[k].seen <= table[j].seen}

Drop(table, gone) == [k \in DOMAIN table \ gone |-> table[k]]
Put(table, k, c) == [j \in DOMAIN table \cup {k} |-> IF j = k THEN c ELSE table[j]]

-----------------------------------------------------------------------------
\* A request: ServeHTTP loads the table, enforceLimits calls Acquire, the
\* deferred Release runs when the handler returns or panics.

\* Requests of exempt addresses, with no address, with an oversized declared
\* body or for hosts that are not limited never reach the limiter.
Route(r, h, a) ==
    /\ pc[r] = "idle"
    /\ config[h] \in RuleSet
    /\ pc' = [pc EXCEPT ![r] = "routed"]
    /\ ticket' = [ticket EXCEPT ![r] = [key |-> <<h, a>>, rules |-> config[h], at |-> 0]]
    /\ UNCHANGED <<now, config, pending, clients, sweeper, cutoff, stop, orphaned>>

\* `now := l.now()', before the lock.
Sample(r) ==
    /\ pc[r] = "routed"
    /\ pc' = [pc EXCEPT ![r] = "sampled"]
    /\ ticket' = [ticket EXCEPT ![r].at = now]
    /\ UNCHANGED <<now, config, pending, clients, sweeper, cutoff, stop, orphaned>>

\* The tables Acquire may judge the request in: the record is there, or it is
\* added, an idle record making room when the shard is full.
TablesFor(k, rules, at) ==
    IF k \in DOMAIN clients THEN {clients}
    ELSE LET full == Cardinality(DOMAIN clients) >= MaxPerShard
             victims == IF full THEN evictOldest(clients) ELSE {}
         IN  IF victims = {} THEN {Put(clients, k, NewClient(rules, at))}
             ELSE {Put(Drop(clients, {v}), k, NewClient(rules, at)) : v \in victims}

\* What Acquire's critical section leaves of a table it found or made.
Judged(table, r) ==
    LET t == ticket[r] IN judge([table[t.key] EXCEPT !.seen = t.at], t.rules, t.at)

AcquireOk(r) ==
    /\ pc[r] = "sampled"
    /\ \E table \in TablesFor(ticket[r].key, ticket[r].rules, ticket[r].at) :
          LET j == Judged(table, r) IN
          /\ j.verdict = "ok"
          /\ clients' = [table EXCEPT ![ticket[r].key] = [j.client EXCEPT !.active = @ + 1]]
    /\ pc' = [pc EXCEPT ![r] = "held"]
    /\ ticket' = [ticket EXCEPT ![r] = [NoTicket EXCEPT !.key = ticket[r].key]]
    /\ UNCHANGED <<now, config, pending, sweeper, cutoff, stop, orphaned>>

\* A limited verdict comes with a Release that does nothing, so whether the
\* request is then answered (block) or forwarded (detect) is of no account here.
AcquireLimited(r) ==
    /\ pc[r] = "sampled"
    /\ \E table \in TablesFor(ticket[r].key, ticket[r].rules, ticket[r].at) :
          LET j == Judged(table, r) IN
          /\ j.verdict # "ok"
          /\ clients' = [table EXCEPT ![ticket[r].key] = j.client]
    /\ pc' = [pc EXCEPT ![r] = "idle"]
    /\ ticket' = [ticket EXCEPT ![r] = NoTicket]
    /\ UNCHANGED <<now, config, pending, sweeper, cutoff, stop, orphaned>>

\* Mutant: the slot is not given back.
ReleasedNever(table, k) == table

Released(table, k) ==
    IF k \in DOMAIN table /\ table[k].active > 0
    THEN [table EXCEPT ![k].active = @ - 1]
    ELSE table

Release(r) ==
    /\ pc[r] = "held"
    /\ clients' = Released(clients, ticket[r].key)
    /\ pc' = [pc EXCEPT ![r] = "idle"]
    /\ ticket' = [ticket EXCEPT ![r] = NoTicket]
    /\ UNCHANGED <<now, config, pending, sweeper, cutoff, stop, orphaned>>

-----------------------------------------------------------------------------
\* The sweeper goroutine.

SweepBegin ==
    /\ sweeper = "waiting"
    /\ sweeper' = "sweeping"
    /\ cutoff' = now - IdleAfter
    /\ UNCHANGED <<now, config, pending, pc, ticket, clients, stop, orphaned>>

\* Mutant: idleAfter is not subtracted.
ExpiredEarly ==
    {k \in DOMAIN clients : clients[k].active = 0 /\ clients[k].seen < cutoff + IdleAfter}

Expired == {k \in DOMAIN clients : clients[k].active = 0 /\ clients[k].seen < cutoff}

SweepShard ==
    /\ sweeper = "sweeping"
    /\ clients' = Drop(clients, Expired)
    /\ sweeper' = "waiting"
    /\ cutoff' = 0
    /\ UNCHANGED <<now, config, pending, pc, ticket, stop, orphaned>>

Close ==
    /\ ~stop
    /\ stop' = TRUE
    /\ UNCHANGED <<now, config, pending, pc, ticket, clients, sweeper, cutoff, orphaned>>

SweepExit ==
    /\ sweeper = "waiting" /\ stop
    /\ sweeper' = "stopped"
    /\ UNCHANGED <<now, config, pending, pc, ticket, clients, cutoff, stop, orphaned>>

-----------------------------------------------------------------------------
\* Engine.Reload, one at a time under reloadMu: the table is published, then
\* every host in it whose limits are off is forgotten.

Publish(h, s) ==
    /\ pending = {}
    /\ config[h] # s
    /\ config' = [config EXCEPT ![h] = s]
    /\ pending' = {g \in Hosts : config'[g] = Off}
    /\ UNCHANGED <<now, pc, ticket, clients, sweeper, cutoff, stop, orphaned>>

OfHost(h) == {k \in DOMAIN clients : k[1] = h}

Forget(h) ==
    /\ h \in pending
    /\ clients' = Drop(clients, OfHost(h))
    /\ pending' = pending \ {h}
    /\ orphaned' = IF \E k \in OfHost(h) : clients[k].active > 0
                   THEN orphaned \cup {h} ELSE orphaned
    /\ UNCHANGED <<now, config, pc, ticket, sweeper, cutoff, stop>>

-----------------------------------------------------------------------------
\* The clock.  A request that has read it takes the lock within MaxSkew.
Tick ==
    /\ now < MaxTime
    /\ \A r \in Req : pc[r] = "sampled" => now < ticket[r].at + MaxSkew
    /\ now' = now + 1
    /\ UNCHANGED <<config, pending, pc, ticket, clients, sweeper, cutoff, stop, orphaned>>

Request(r) ==
    \/ \E h \in Hosts, a \in Addrs : Route(r, h, a)
    \/ Sample(r)
    \/ AcquireOk(r)
    \/ AcquireLimited(r)
    \/ Release(r)

Sweeper == SweepBegin \/ SweepShard \/ SweepExit \/ Close

Reload == \E h \in Hosts : Forget(h) \/ \E s \in Setting : Publish(h, s)

Next == Tick \/ Sweeper \/ Reload \/ \E r \in Req : Request(r)

Spec == Init /\ [][Next]_vars

-----------------------------------------------------------------------------
\* Properties.

\* The requests that hold a concurrency slot of key k.
Holders(k) == {r \in Req : pc[r] = "held" /\ ticket[r].key = k}

\* A record never counts more requests in flight than there are: no sequence
\* of Acquire, Release, eviction, sweep and Forget leaves a client with a slot
\* that nobody will give back, which MaxConcurrent would refuse it for.
NoPhantomSlot == \A k \in DOMAIN clients : clients[k].active <= Cardinality(Holders(k))

\* While Forget has not dropped a record in use, active is exactly the number
\* of requests in flight, and a client with a request in flight keeps its record
\* through evictOldest and sweepOnce.
ActiveIsExact ==
    \A k \in Key : k[1] \notin orphaned =>
        IF k \in DOMAIN clients
        THEN clients[k].active = Cardinality(Holders(k))
        ELSE Holders(k) = {}

\* The table outgrows maxPerShard only by records that cannot be evicted
\* because a request of theirs is in flight.
TableBounded ==
    \/ Cardinality(DOMAIN clients) <= MaxPerShard
    \/ Cardinality(DOMAIN clients) <= Cardinality(Req)

\* A request is given a slot.
Admitted(r) == pc[r] = "sampled" /\ pc'[r] = "held"

WithinCap(r) ==
    LET t == ticket[r] IN
    t.rules.maxConcurrent > 0 => Cardinality(Holders(t.key)) < t.rules.maxConcurrent

\* Acquire never admits a request past the client's MaxConcurrent, whatever
\* else happened to the table, as long as Forget dropped no record in use.
CapHonoured ==
    [][\A r \in Req : Admitted(r) /\ ticket[r].key[1] \notin orphaned => WithinCap(r)]_vars

\* Over a record's life a client is given no more than a burst and what the
\* rate earned since: the refill counts no instant twice, clock readings that
\* reach the lock out of order included.
BucketEnvelope ==
    \A k \in DOMAIN clients : LET c == clients[k] IN
        c.tokens + c.spent * Second <= MaxBurst * Second + MaxRps * (c.last - c.born)

\* A client refused for its rate that waits the one second Retry-After names,
\* with no other request of its own served, is not refused for its rate again.
RetryAfterSuffices ==
    \A r \in Req : LET t == ticket[r] IN
        /\ pc[r] = "sampled"
        /\ t.key \in DOMAIN clients
        /\ clients[t.key].refused >= 0
        /\ t.at >= clients[t.key].refused + Second
        => Judged(clients, r).verdict # "rate"

\* A bucket that would by now be full under rules.
Refilled(c, rules) ==
    rules.rps > 0 => c.tokens + (now - c.last) * rules.rps >= burstOf(rules) * Second

\* limiter.go:60-62, on idleAfter: "It must exceed the time it takes a full
\* bucket to refill, or a client could drop its record and reappear with a fresh
\* burst."  The sweeper drops only buckets that are full anyway.
SweepEarned ==
    [][\A k \in DOMAIN clients \ DOMAIN clients' :
          sweeper = "sweeping" /\ sweeper' = "waiting" /\ config[k[1]] \in RuleSet
          => Refilled(clients[k], config[k[1]])]_vars

\* What an empty bucket earns while its record counts as idle, less what the
\* clock reading its record was last seen at may have been late.
EarnedIdle(rules) == (IdleAfter + 1 - MaxSkew) * rules.rps

\* The level of a bucket by now.
Level(c, rules) ==
    Least(burstOf(rules) * Second, c.tokens + (now - c.last) * rules.rps)

\* A sweep is worth to a client no more than the part of a burst that idleAfter
\* does not earn: the bucket it drops is full, or holds at least what a bucket
\* earns in idleAfter, also when a late clock reading had set seen back and when
\* the cutoff was taken long before the lock.
SweepCostBounded ==
    [][\A k \in DOMAIN clients \ DOMAIN clients' :
          sweeper = "sweeping" /\ sweeper' = "waiting" /\ config[k[1]] \in RuleSet
          => LET rules == config[k[1]]
             IN  rules.rps > 0 => Level(clients[k], rules)
                                  >= Least(burstOf(rules) * Second, EarnedIdle(rules))]_vars

=============================================================================
