--------------------------- MODULE ForwardProofs ---------------------------
(***************************************************************************)
(* Theorems about Forward, for any requests, upstreams, configurations,    *)
(* limits and number of reloads.  The properties follow from one inductive *)
(* invariant: what a request's local variables mean at each point of the   *)
(* loop (ReqOK), what a backend's failure count and ejection are owed to   *)
(* (BackendOK), and ActiveAccounted itself.                                *)
(***************************************************************************)
EXTENDS Forward, FiniteSetTheorems, SequenceTheorems, TLAPS

Pool == UNION {[us -> BackendState] : us \in SUBSET Upstreams}

\* A request that has a backend: picked, in use, or being recorded.
Busy == {"picked", "waiting", "succeeded", "cleared", "failed", "tripped", "ejecting"}

\* Where a request is and what it has behind it: every backend it was given is in
\* tried, once, so that attempts can be counted there.
Placed(q, ps) ==
    /\ q.pc \in {"picking"} \cup Busy => q.gen \in DOMAIN ps
    /\ q.pc = "picking" => /\ q.todo \subseteq DOMAIN ps[q.gen]
                           /\ q.cand \subseteq DOMAIN ps[q.gen] \ q.tried
    /\ q.pc # "picking" => q.cand = {}
    /\ q.pc \in Busy => q.cur \in DOMAIN ps[q.gen]
    /\ q.pc \in {"failed", "tripped", "ejecting"} => PassiveEnabled

Counted(q) ==
    /\ IsFiniteSet(q.tried)
    /\ q.attempt <= MaxRetries
    /\ q.attempt > 0 => q.replay
    /\ q.pc = "new" => q.attempt = 0 /\ q.tried = {}
    /\ q.pc = "picking" => Cardinality(q.tried) = q.attempt
    /\ q.pc \in Busy => Cardinality(q.tried) = q.attempt + 1
    /\ q.pc \in Ended => Cardinality(q.tried) <= MaxRetries + 1

Told(q) ==
    /\ q.pc \in {"new", "picking", "picked"} => ~q.dirty
    /\ q.pc \notin Ended => q.status = "none"
    /\ q.status = "503" => q.tried = {}
    /\ q.status = "502" => q.tried # {} /\ ~q.dirty
    /\ q.status = "partial" => q.dirty

ReqOK(q, ps, t) == q \in Request /\ q.at <= t /\ Placed(q, ps) /\ Counted(q) /\ Told(q)

\* A count of failures is owed to failures since the last success, and an
\* ejection ends within EjectFor.
BackendOK(b, run, t) ==
    /\ b.until <= t + EjectFor
    /\ b.fails <= run \/ MaxFails <= run
    /\ ~PassiveEnabled => b.fails = 0

History == [1 .. MaxGen -> [Upstreams -> Nat]]

TypeInv ==
    /\ now \in Nat
    /\ pools \in Seq(Pool) /\ Len(pools) <= MaxGen
    /\ gen \in 1 .. Len(pools)
    /\ req \in [Req -> Request]
    /\ leaked \in History /\ streak \in History

RequestsOK == \A r \in Req : ReqOK(req[r], pools, now)

BackendsOK ==
    \A g \in DOMAIN pools : \A u \in DOMAIN pools[g] : BackendOK(pools[g][u], streak[g][u], now)

\* No attempt is lost on a pool that is not built yet.
LeakedWhereBuilt == \A g \in 1 .. MaxGen : g > Len(pools) => leaked[g] = Zero

\* InFlight as a function of the requests.
Flying(rq, g, u) == {r \in Req : rq[r].pc = "waiting" /\ rq[r].gen = g /\ rq[r].cur = u}

\* Request r becomes q, the others stay.
Moved(rq, rp, r, q) == rp[r] = q /\ \A s \in Req : s # r => rp[s] = rq[s]

OthersFlying(rq, rp, g, u) ==
    \A h, v : ~(h = g /\ v = u) => Flying(rp, h, v) = Flying(rq, h, v)

SameFlying(rq, rp) == \A h, v : Flying(rp, h, v) = Flying(rq, h, v)

\* ActiveAccounted, said with Flying.
ActiveOK ==
    \A g \in DOMAIN pools : \A u \in DOMAIN pools[g] :
        pools[g][u].active = Cardinality(Flying(req, g, u)) + leaked[g][u]

ForwardInv == TypeInv /\ RequestsOK /\ BackendsOK /\ LeakedWhereBuilt /\ ActiveOK

-----------------------------------------------------------------------------
(* Lemmas about pools. *)

\* ps with backend u of pool g replaced.
Updated(ps, g, u, b) == [ps EXCEPT ![g][u] = b]

\* One backend of one pool changes: the others, and which there are, stay.
LEMMA PoolUpdate ==
    ASSUME NEW ps \in Seq(Pool), NEW g \in DOMAIN ps, NEW u \in DOMAIN ps[g],
           NEW b \in BackendState
    PROVE  /\ Updated(ps, g, u, b) \in Seq(Pool) /\ Len(Updated(ps, g, u, b)) = Len(ps)
           /\ DOMAIN Updated(ps, g, u, b) = DOMAIN ps
           /\ \A h \in DOMAIN ps : DOMAIN Updated(ps, g, u, b)[h] = DOMAIN ps[h]
           /\ \A h \in DOMAIN ps : \A v \in DOMAIN ps[h] :
                 Updated(ps, g, u, b)[h][v] = IF h = g /\ v = u THEN b ELSE ps[h][v]
<1>1. /\ Len(ps) \in Nat /\ ps \in [1 .. Len(ps) -> Pool] /\ DOMAIN ps = 1 .. Len(ps)
  BY LenProperties
<1>2. ps[g] \in Pool
  BY <1>1
<1> DEFINE p == [ps[g] EXCEPT ![u] = b]
<1>3. PICK us \in SUBSET Upstreams : ps[g] \in [us -> BackendState]
  BY <1>2 DEF Pool
<1>4. p \in [us -> BackendState]
  BY <1>3
<1>5. p \in Pool
  BY <1>4 DEF Pool
<1>6. DOMAIN p = DOMAIN ps[g] /\ \A v \in DOMAIN ps[g] : p[v] = IF v = u THEN b ELSE ps[g][v]
  BY <1>3
<1> DEFINE new == [ps EXCEPT ![g] = p]
<1>7. /\ new \in Seq(Pool) /\ Len(new) = Len(ps)
      /\ \A h \in 1 .. Len(ps) : new[h] = IF h = g THEN p ELSE ps[h]
  <2> HIDE DEF p
  <2> QED BY <1>1, <1>5, ExceptSeq
<1>8. new = Updated(ps, g, u, b)
  BY DEF Updated
<1>9. DOMAIN new = DOMAIN ps
  BY <1>1
<1> HIDE DEF p, new
<1> QED BY <1>1, <1>6, <1>7, <1>8, <1>9

LEMMA PoolsShape ==
    ASSUME NEW ps \in Seq(Pool), NEW g \in DOMAIN ps
    PROVE  /\ DOMAIN ps = 1 .. Len(ps) /\ Len(ps) \in Nat /\ g \in 1 .. Len(ps)
           /\ DOMAIN ps[g] \in SUBSET Upstreams
           /\ ps[g] \in [DOMAIN ps[g] -> BackendState]
           /\ \A u \in DOMAIN ps[g] : u \in Upstreams /\ ps[g][u] \in BackendState
<1>1. /\ Len(ps) \in Nat /\ ps \in [1 .. Len(ps) -> Pool] /\ DOMAIN ps = 1 .. Len(ps)
  BY LenProperties
<1>2. PICK us \in SUBSET Upstreams : ps[g] \in [us -> BackendState]
  BY <1>1 DEF Pool
<1> QED BY <1>1, <1>2

\* NewPool makes a pool, with no request in flight on it.
LEMMA NewPoolType ==
    ASSUME NEW cfg \in Configs, NEW prev \in Pool
    PROVE  /\ NewPool(cfg, prev) \in Pool
           /\ DOMAIN NewPool(cfg, prev) = DOMAIN cfg
           /\ \A u \in DOMAIN cfg :
                /\ NewPool(cfg, prev)[u].active = 0
                /\ \/ u \in DOMAIN prev /\ NewPool(cfg, prev)[u].fails = prev[u].fails
                                        /\ NewPool(cfg, prev)[u].until = prev[u].until
                   \/ NewPool(cfg, prev)[u].fails = 0 /\ NewPool(cfg, prev)[u].until = 0
<1>1. DOMAIN cfg \in SUBSET Upstreams /\ \A u \in DOMAIN cfg : cfg[u] \in BOOLEAN
  BY ForwardAssumption
<1>2. \A u \in DOMAIN prev : prev[u] \in BackendState
  BY DEF Pool
<1>3. ASSUME NEW on \in BOOLEAN
      PROVE  NewBackend(on) \in BackendState
  BY DEF NewBackend, BackendState
<1>4. ASSUME NEW on \in BOOLEAN, NEW old \in BackendState
      PROVE  /\ inheritFrom(NewBackend(on), old) \in BackendState
             /\ inheritFrom(NewBackend(on), old).active = 0
             /\ inheritFrom(NewBackend(on), old).fails = old.fails
             /\ inheritFrom(NewBackend(on), old).until = old.until
  BY DEF inheritFrom, inheritHealth, inheritStreaks, NewBackend, BackendState
<1>5. ASSUME NEW u \in DOMAIN cfg
      PROVE  /\ NewPool(cfg, prev)[u] \in BackendState
             /\ NewPool(cfg, prev)[u].active = 0
             /\ \/ u \in DOMAIN prev /\ NewPool(cfg, prev)[u].fails = prev[u].fails
                                     /\ NewPool(cfg, prev)[u].until = prev[u].until
                \/ NewPool(cfg, prev)[u].fails = 0 /\ NewPool(cfg, prev)[u].until = 0
  <2>1. CASE u \in DOMAIN prev
    <3>1. NewPool(cfg, prev)[u] = inheritFrom(NewBackend(cfg[u]), prev[u])
      BY <2>1 DEF NewPool
    <3> QED BY <1>1, <1>2, <1>4, <2>1, <3>1
  <2>2. CASE u \notin DOMAIN prev
    <3>1. NewPool(cfg, prev)[u] = NewBackend(cfg[u])
      BY <2>2 DEF NewPool
    <3>2. NewBackend(cfg[u]).active = 0 /\ NewBackend(cfg[u]).fails = 0 /\ NewBackend(cfg[u]).until = 0
      BY DEF NewBackend
    <3> QED BY <1>1, <1>3, <3>1, <3>2
  <2> QED BY <2>1, <2>2
<1>6. DOMAIN NewPool(cfg, prev) = DOMAIN cfg
      /\ NewPool(cfg, prev) \in [DOMAIN cfg -> BackendState]
  BY <1>5 DEF NewPool
<1> QED BY <1>1, <1>5, <1>6 DEF Pool

-----------------------------------------------------------------------------
(* Lemmas about a request. *)

\* The fields of a request have the types of Request.
LEMMA RequestFields ==
    ASSUME NEW q \in Request
    PROVE  /\ q.gen \in Nat /\ q.at \in Nat /\ q.attempt \in Nat
           /\ q.tried \in SUBSET Upstreams
           /\ q.dirty \in BOOLEAN /\ q.replay \in BOOLEAN /\ q.gone \in BOOLEAN
  BY DEF Request

LEMMA NewRequestOK ==
    ASSUME NEW ps, NEW t \in Nat
    PROVE  ReqOK(NewRequest, ps, t)
<1>1. NewRequest \in Request
  BY ForwardAssumption DEF NewRequest, Request, Ended
<1> QED BY <1>1, ForwardAssumption, FS_EmptySet
        DEF ReqOK, Placed, Counted, Told, NewRequest, Busy, Ended

\* A set with one element more, and with one element less.
LEMMA OneMore ==
    ASSUME NEW S, IsFiniteSet(S), NEW x, x \notin S
    PROVE  IsFiniteSet(S \cup {x}) /\ Cardinality(S \cup {x}) = Cardinality(S) + 1
  BY FS_AddElement

LEMMA OneLess ==
    ASSUME NEW S, IsFiniteSet(S), NEW x \in S
    PROVE  Cardinality(S \ {x}) = Cardinality(S) - 1
  BY FS_RemoveElement

\* An answer ends a request well if it says what happened.
LEMMA OverOK ==
    ASSUME NEW q, NEW ps, NEW t \in Nat, NEW s, ReqOK(q, ps, t), q.pc \in {"picking"} \cup Busy,
           \/ s \in {"none", "ok"}
           \/ s = "503" /\ q.tried = {}
           \/ s = "502" /\ q.tried # {} /\ ~q.dirty
           \/ s = "partial" /\ q.dirty
    PROVE  ReqOK(Over(q, s), ps, t)
<1> DEFINE o == Over(q, s)
<1>1. /\ o \in Request /\ o.pc = "done" /\ o.status = s /\ o.tried = q.tried /\ o.dirty = q.dirty
      /\ o.at = 0 /\ o.attempt = 0 /\ o.cand = {}
  <2>1. q.tried \in SUBSET Upstreams /\ q.dirty \in BOOLEAN
    BY RequestFields DEF ReqOK
  <2>2. s \in {"none", "ok", "502", "503", "partial"}
    OBVIOUS
  <2>3. NewRequest \in Request
    BY DEF NewRequest, Request
  <2>4. o \in Request
    BY <2>1, <2>2, <2>3 DEF Over, Request, Ended
  <2>5. /\ o.pc = "done" /\ o.status = s /\ o.tried = q.tried /\ o.dirty = q.dirty
        /\ o.at = NewRequest.at /\ o.attempt = NewRequest.attempt /\ o.cand = NewRequest.cand
    BY <2>3 DEF Over, Request
  <2> HIDE DEF o
  <2> QED BY <2>4, <2>5 DEF NewRequest
<1>2. Cardinality(q.tried) <= MaxRetries + 1 /\ IsFiniteSet(q.tried)
  BY ForwardAssumption, RequestFields DEF ReqOK, Counted
<1>3. Counted(o)
  BY <1>1, <1>2, ForwardAssumption DEF Counted, Busy, Ended
<1>4. Placed(o, ps)
  BY <1>1 DEF Placed, Busy
<1>5. Told(o)
  BY <1>1 DEF Told, Ended
<1> QED BY <1>1, <1>3, <1>4, <1>5 DEF ReqOK

\* What AfterFailure makes of a request whose attempt has failed.
LEMMA AfterFailureOK ==
    ASSUME TypeInv, NEW q, ReqOK(q, pools, now), q.pc \in Busy \ {"picked"}
    PROVE  /\ ReqOK(AfterFailure(q), pools, now)
           /\ AfterFailure(q).pc \in {"picking", "done"}
<1>1. q \in Request /\ q.gen \in DOMAIN pools /\ q.cur \in DOMAIN pools[q.gen]
  BY DEF ReqOK, Placed
<1>2. now \in Nat /\ DOMAIN pools[q.gen] \in SUBSET Upstreams
  BY <1>1, PoolsShape DEF TypeInv
<1>3. CASE ~q.dirty /\ q.replay /\ q.attempt < MaxRetries
  <2> DEFINE n == [q EXCEPT !.pc = "picking", !.at = now, !.todo = DOMAIN pools[q.gen],
                            !.cur = NoUpstream, !.attempt = @ + 1]
  <2>1. AfterFailure(q) = n
    BY <1>3 DEF AfterFailure
  <2>0. q.attempt + 1 \in Nat
    BY <1>1, RequestFields
  <2>2. /\ n \in Request /\ n.pc = "picking" /\ n.at = now /\ n.todo = DOMAIN pools[q.gen]
        /\ n.attempt = q.attempt + 1 /\ n.tried = q.tried /\ n.dirty = q.dirty /\ n.status = q.status
        /\ n.cand = q.cand /\ n.gen = q.gen /\ n.replay = q.replay
    BY <1>1, <1>2, <2>0 DEF Request
  <2> HIDE DEF n
  <2>3. Placed(n, pools)
    BY <1>1, <2>2 DEF ReqOK, Placed, Busy
  <2>4. Counted(n)
    BY <1>1, <1>3, <2>2, ForwardAssumption, RequestFields DEF ReqOK, Counted, Busy, Ended
  <2>5. Told(n)
    BY <1>1, <1>3, <2>2 DEF ReqOK, Told, Busy, Ended
  <2> QED BY <1>2, <2>1, <2>2, <2>3, <2>4, <2>5 DEF ReqOK
<1>4. CASE ~(~q.dirty /\ q.replay /\ q.attempt < MaxRetries)
  <2>1. AfterFailure(q) = Over(q, IF q.dirty THEN "partial" ELSE "502")
    BY <1>4 DEF AfterFailure
  <2>2. q.tried # {}
    <3>1. Cardinality(q.tried) = q.attempt + 1 /\ q.attempt \in Nat
      BY <1>1, RequestFields DEF ReqOK, Counted
    <3>2. Cardinality({}) = 0
      BY FS_EmptySet
    <3> QED BY <3>1, <3>2
  <2>3. ReqOK(Over(q, IF q.dirty THEN "partial" ELSE "502"), pools, now)
    BY <1>1, <1>2, <2>2, OverOK, RequestFields
  <2>4. Over(q, IF q.dirty THEN "partial" ELSE "502").pc = "done"
    BY DEF Over, NewRequest
  <2> QED BY <2>1, <2>3, <2>4
<1> QED BY <1>3, <1>4

-----------------------------------------------------------------------------
(* What a step leaves alone. *)

\* Nothing a request relies on goes away: pools keep their backends, time passes.
LEMMA ReqOKStays ==
    ASSUME NEW q, NEW ps, NEW qs, NEW t \in Nat, NEW s \in Nat, t <= s, ReqOK(q, ps, t),
           DOMAIN ps \subseteq DOMAIN qs, \A g \in DOMAIN ps : DOMAIN qs[g] = DOMAIN ps[g]
    PROVE  ReqOK(q, qs, s)
<1>1. q.at <= s
  BY RequestFields DEF ReqOK
<1>2. Placed(q, qs)
  BY DEF ReqOK, Placed
<1> QED BY <1>1, <1>2 DEF ReqOK

SameShape(ps, qs) ==
    /\ qs \in Seq(Pool) /\ Len(qs) = Len(ps) /\ DOMAIN qs = DOMAIN ps
    /\ \A g \in DOMAIN ps : DOMAIN qs[g] = DOMAIN ps[g]

LEMMA RequestMoves ==
    ASSUME TypeInv, RequestsOK, NEW r \in Req, NEW q, ReqOK(q, pools, now),
           req' = [req EXCEPT ![r] = q], now' = now, SameShape(pools, pools')
    PROVE  /\ req' \in [Req -> Request]
           /\ RequestsOK'
           /\ Moved(req, req', r, q)
<1>1. req' \in [Req -> Request] /\ Moved(req, req', r, q)
  BY DEF TypeInv, ReqOK, Moved
<1>2. \A s \in Req : ReqOK(req'[s], pools, now)
  BY <1>1 DEF RequestsOK, Moved
<1>3. \A s \in Req : ReqOK(req'[s], pools', now')
  BY <1>2, ReqOKStays DEF SameShape, TypeInv
<1> QED BY <1>1, <1>3 DEF RequestsOK

\* A request that is neither sent nor done with leaves the others in flight as they were.
LEMMA InFlightStays ==
    ASSUME NEW r \in Req, NEW q, Moved(req, req', r, q),
           \/ q.pc # "waiting" /\ req[r].pc # "waiting"
           \/ q.pc = req[r].pc /\ q.gen = req[r].gen /\ q.cur = req[r].cur
    PROVE  SameFlying(req, req')
  BY DEF Flying, SameFlying, Moved

LEMMA OnlyRequest ==
    ASSUME ForwardInv, NEW r \in Req, NEW q, ReqOK(q, pools, now),
           req' = [req EXCEPT ![r] = q], UNCHANGED <<now, pools, gen, leaked, streak>>,
           \/ q.pc # "waiting" /\ req[r].pc # "waiting"
           \/ q.pc = req[r].pc /\ q.gen = req[r].gen /\ q.cur = req[r].cur
    PROVE  ForwardInv'
<1>1. SameShape(pools, pools')
  BY DEF ForwardInv, TypeInv, SameShape
<1>2. req' \in [Req -> Request] /\ RequestsOK' /\ Moved(req, req', r, q)
  BY <1>1, RequestMoves DEF ForwardInv
<1>3. SameFlying(req, req')
  BY <1>2, InFlightStays
<1>4. TypeInv'
  BY <1>2 DEF ForwardInv, TypeInv
<1>5. BackendsOK'
  BY DEF ForwardInv, BackendsOK
<1>6. ActiveOK'
  <2> SUFFICES ASSUME NEW g \in DOMAIN pools, NEW u \in DOMAIN pools[g]
               PROVE  pools[g][u].active = Cardinality(Flying(req', g, u)) + leaked[g][u]
    BY DEF ActiveOK
  <2>1. pools[g][u].active = Cardinality(Flying(req, g, u)) + leaked[g][u]
    BY DEF ForwardInv, ActiveOK
  <2>2. Flying(req', g, u) = Flying(req, g, u)
    BY <1>3 DEF SameFlying
  <2> QED BY <2>1, <2>2
<1>7. LeakedWhereBuilt'
  BY DEF ForwardInv, LeakedWhereBuilt
<1> QED BY <1>2, <1>4, <1>5, <1>6, <1>7 DEF ForwardInv

\* The invariant says of a backend what its own parts say.
LEMMA BackendOf ==
    ASSUME ForwardInv, NEW g \in DOMAIN pools, NEW u \in DOMAIN pools[g]
    PROVE  /\ pools \in Seq(Pool) /\ g \in 1 .. MaxGen /\ u \in Upstreams
           /\ pools[g][u] \in BackendState
           /\ BackendOK(pools[g][u], streak[g][u], now)
           /\ pools[g][u].active = Cardinality(Flying(req, g, u)) + leaked[g][u]
           /\ leaked[g][u] \in Nat /\ streak[g][u] \in Nat /\ now \in Nat
<1>1. pools \in Seq(Pool) /\ Len(pools) <= MaxGen /\ now \in Nat
  BY DEF ForwardInv, TypeInv
<1>2. g \in 1 .. Len(pools) /\ Len(pools) \in Nat /\ u \in Upstreams /\ pools[g][u] \in BackendState
  BY <1>1, PoolsShape
<1>3. g \in 1 .. MaxGen
  BY <1>1, <1>2, ForwardAssumption
<1>4. leaked[g][u] \in Nat /\ streak[g][u] \in Nat
  BY <1>2, <1>3 DEF ForwardInv, TypeInv, History
<1> QED BY <1>1, <1>2, <1>3, <1>4 DEF ForwardInv, BackendsOK, ActiveOK

\* One backend is written.
LEMMA OneBackend ==
    ASSUME pools \in Seq(Pool), NEW g \in DOMAIN pools, NEW u \in DOMAIN pools[g],
           NEW b \in BackendState, pools' = Updated(pools, g, u, b)
    PROVE  /\ SameShape(pools, pools')
           /\ \A h \in DOMAIN pools : \A v \in DOMAIN pools[h] :
                 pools'[h][v] = IF h = g /\ v = u THEN b ELSE pools[h][v]
<1> DEFINE ps == Updated(pools, g, u, b)
<1>1. pools' = ps
  OBVIOUS
<1>2. /\ ps \in Seq(Pool) /\ Len(ps) = Len(pools) /\ DOMAIN ps = DOMAIN pools
      /\ \A h \in DOMAIN pools : DOMAIN ps[h] = DOMAIN pools[h]
      /\ \A h \in DOMAIN pools : \A v \in DOMAIN pools[h] :
            ps[h][v] = IF h = g /\ v = u THEN b ELSE pools[h][v]
  BY PoolUpdate
<1> QED BY <1>1, <1>2 DEF SameShape

\* One backend and its streak change and its count does not.
LEMMA OnlyHealth ==
    ASSUME ForwardInv, NEW g \in DOMAIN pools, NEW u \in DOMAIN pools[g], NEW b \in BackendState,
           pools' = Updated(pools, g, u, b), b.active = pools[g][u].active,
           NEW n \in Nat, streak' = Updated(streak, g, u, n), BackendOK(b, n, now),
           UNCHANGED <<now, gen, leaked>>, req' \in [Req -> Request], RequestsOK',
           SameFlying(req, req')
    PROVE  ForwardInv'
<1>1. pools \in Seq(Pool) /\ g \in 1 .. MaxGen /\ u \in Upstreams
  BY BackendOf
<1>2. /\ SameShape(pools, pools')
      /\ \A h \in DOMAIN pools : \A v \in DOMAIN pools[h] :
            pools'[h][v] = IF h = g /\ v = u THEN b ELSE pools[h][v]
  BY <1>1, OneBackend
<1>3. /\ streak' \in History /\ streak'[g][u] = n
      /\ \A h \in 1 .. MaxGen, v \in Upstreams : ~(h = g /\ v = u) => streak'[h][v] = streak[h][v]
  BY <1>1 DEF ForwardInv, TypeInv, History, Updated
<1>4. TypeInv'
  BY <1>2, <1>3 DEF ForwardInv, TypeInv, SameShape
<1>5. ASSUME NEW h \in DOMAIN pools', NEW v \in DOMAIN pools'[h]
      PROVE  /\ BackendOK(pools'[h][v], streak'[h][v], now')
             /\ pools'[h][v].active = pools[h][v].active
             /\ h \in DOMAIN pools /\ v \in DOMAIN pools[h]
  <2>1. h \in DOMAIN pools /\ v \in DOMAIN pools[h]
    BY <1>2 DEF SameShape
  <2>2. h \in 1 .. MaxGen /\ v \in Upstreams
    BY <2>1, BackendOf
  <2>3. BackendOK(pools[h][v], streak[h][v], now)
    BY <2>1 DEF ForwardInv, BackendsOK
  <2>4. CASE h = g /\ v = u
    BY <1>2, <1>3, <2>1, <2>4
  <2>5. CASE ~(h = g /\ v = u)
    <3>1. pools'[h][v] = pools[h][v] /\ streak'[h][v] = streak[h][v] /\ now' = now
      BY <1>2, <1>3, <2>1, <2>2, <2>5
    <3> QED BY <2>1, <2>3, <3>1
  <2> QED BY <2>4, <2>5
<1>6. BackendsOK'
  BY <1>5 DEF BackendsOK
<1>7. ActiveOK'
  BY <1>5 DEF ForwardInv, ActiveOK, SameFlying
<1>8. LeakedWhereBuilt'
  BY <1>2 DEF ForwardInv, LeakedWhereBuilt, SameShape
<1> QED BY <1>4, <1>6, <1>7, <1>8 DEF ForwardInv

\* One backend's count moves with the requests in flight on it and the leaked ones.
LEMMA OnlyCount ==
    ASSUME ForwardInv, NEW g \in DOMAIN pools, NEW u \in DOMAIN pools[g],
           NEW b \in BackendState, b.until = pools[g][u].until, b.fails = pools[g][u].fails,
           NEW m \in Nat, b.active = Cardinality(Flying(req', g, u)) + m,
           pools' = Updated(pools, g, u, b), leaked' = Updated(leaked, g, u, m),
           OthersFlying(req, req', g, u),
           UNCHANGED <<now, gen, streak>>, req' \in [Req -> Request], RequestsOK'
    PROVE  ForwardInv'
<1>1. pools \in Seq(Pool) /\ g \in 1 .. MaxGen /\ u \in Upstreams
  BY BackendOf
<1>4. /\ SameShape(pools, pools')
      /\ \A h \in DOMAIN pools : \A v \in DOMAIN pools[h] :
            pools'[h][v] = IF h = g /\ v = u THEN b ELSE pools[h][v]
  BY <1>1, OneBackend
<1>5. /\ leaked' \in History /\ leaked'[g][u] = m
      /\ \A h \in 1 .. MaxGen, v \in Upstreams : ~(h = g /\ v = u) => leaked'[h][v] = leaked[h][v]
  BY <1>1 DEF ForwardInv, TypeInv, History, Updated
<1>6. TypeInv'
  BY <1>4, <1>5 DEF ForwardInv, TypeInv, SameShape
<1>7. ASSUME NEW h \in DOMAIN pools', NEW v \in DOMAIN pools'[h]
      PROVE  /\ BackendOK(pools'[h][v], streak'[h][v], now')
             /\ pools'[h][v].active = Cardinality(Flying(req', h, v)) + leaked'[h][v]
  <2>1. h \in DOMAIN pools /\ v \in DOMAIN pools[h]
    BY <1>4 DEF SameShape
  <2>2. h \in 1 .. MaxGen /\ v \in Upstreams
    BY <2>1, BackendOf
  <2>3. /\ BackendOK(pools[h][v], streak[h][v], now)
        /\ pools[h][v].active = Cardinality(Flying(req, h, v)) + leaked[h][v]
    BY <2>1 DEF ForwardInv, BackendsOK, ActiveOK
  <2>4. CASE h = g /\ v = u
    <3>1. pools'[h][v] = b /\ leaked'[h][v] = m /\ now' = now /\ streak'[h][v] = streak[h][v]
      BY <1>4, <1>5, <2>1, <2>4
    <3>2. BackendOK(b, streak[h][v], now)
      BY <2>3, <2>4 DEF BackendOK
    <3> QED BY <2>4, <3>1, <3>2
  <2>5. CASE ~(h = g /\ v = u)
    <3>1. /\ pools'[h][v] = pools[h][v] /\ leaked'[h][v] = leaked[h][v]
          /\ now' = now /\ streak'[h][v] = streak[h][v] /\ Flying(req', h, v) = Flying(req, h, v)
      BY <1>4, <1>5, <2>1, <2>2, <2>5 DEF OthersFlying
    <3> QED BY <2>3, <3>1
  <2> QED BY <2>4, <2>5
<1>8. BackendsOK'
  BY <1>7 DEF BackendsOK
<1>9. ActiveOK'
  BY <1>7 DEF ActiveOK
<1>10. LeakedWhereBuilt'
  <2> SUFFICES ASSUME NEW h \in 1 .. MaxGen, h > Len(pools) PROVE leaked'[h] = Zero
    BY <1>4 DEF LeakedWhereBuilt, SameShape
  <2>1. h # g
    BY <1>1, PoolsShape
  <2>2. leaked'[h] = leaked[h]
    BY <1>1, <2>1 DEF ForwardInv, TypeInv, History, Updated
  <2> QED BY <2>2 DEF ForwardInv, LeakedWhereBuilt
<1> QED BY <1>6, <1>8, <1>9, <1>10 DEF ForwardInv

-----------------------------------------------------------------------------
(* The actions. *)

\* A request that has a backend has it in a pool that exists.
LEMMA BusyPlaced ==
    ASSUME ForwardInv, NEW r \in Req, req[r].pc \in Busy
    PROVE  /\ req[r] \in Request /\ ReqOK(req[r], pools, now)
           /\ req[r].gen \in DOMAIN pools /\ req[r].cur \in DOMAIN pools[req[r].gen]
           /\ now \in Nat
  BY DEF ForwardInv, RequestsOK, ReqOK, Placed, TypeInv

\* A busy request that moves on without an attempt more or less.
LEMMA MovesOn ==
    ASSUME NEW q, NEW ps, NEW t, ReqOK(q, ps, t), q.pc \in Busy, NEW p \in Busy \ {"picked"},
           p \in {"failed", "tripped", "ejecting"} => PassiveEnabled
    PROVE  ReqOK([q EXCEPT !.pc = p], ps, t)
<1> DEFINE n == [q EXCEPT !.pc = p]
<1>1. q \in Request
  BY DEF ReqOK
<1>2. /\ n \in Request /\ n.pc = p /\ n.at = q.at /\ n.todo = q.todo
      /\ n.attempt = q.attempt /\ n.tried = q.tried /\ n.dirty = q.dirty /\ n.status = q.status
      /\ n.cand = q.cand /\ n.gen = q.gen /\ n.replay = q.replay /\ n.cur = q.cur
  BY <1>1 DEF Request, Busy, Ended
<1> HIDE DEF n
<1>3. Placed(n, ps)
  BY <1>2 DEF ReqOK, Placed, Busy
<1>4. Counted(n)
  BY <1>2 DEF ReqOK, Counted, Busy, Ended
<1>5. Told(n)
  BY <1>2 DEF ReqOK, Told, Busy, Ended
<1> QED BY <1>2, <1>3, <1>4, <1>5 DEF ReqOK, n

LEMMA ArriveStep ==
    ASSUME ForwardInv, NEW r \in Req, NEW replay \in BOOLEAN, Arrive(r, replay)
    PROVE  ForwardInv'
<1> DEFINE q == req[r]
           n == [q EXCEPT !.pc = "picking", !.gen = gen, !.replay = replay,
                          !.at = now, !.todo = DOMAIN pools[gen]]
<1>1. /\ q \in Request /\ ReqOK(q, pools, now) /\ now \in Nat /\ gen \in Nat
      /\ pools \in Seq(Pool) /\ gen \in DOMAIN pools
  BY DEF ForwardInv, RequestsOK, TypeInv
<1>2. DOMAIN pools[gen] \in SUBSET Upstreams
  BY <1>1, PoolsShape
<1>3. /\ n \in Request /\ n.pc = "picking" /\ n.at = now /\ n.todo = DOMAIN pools[gen]
      /\ n.attempt = q.attempt /\ n.tried = q.tried /\ n.dirty = q.dirty /\ n.status = q.status
      /\ n.cand = q.cand /\ n.gen = gen /\ n.replay = replay
  BY <1>1, <1>2 DEF Request, Busy, Ended
<1>4. req' = [req EXCEPT ![r] = n] /\ q.pc = "new" /\ n.pc # "waiting" /\ q.pc # "waiting"
  BY <1>3 DEF Arrive
<1> HIDE DEF n
<1>5. Placed(n, pools)
  BY <1>1, <1>3, <1>4 DEF ReqOK, Placed, Busy
<1>6. Counted(n)
  BY <1>1, <1>3, <1>4, FS_EmptySet DEF ReqOK, Counted, Busy, Ended
<1>7. Told(n)
  BY <1>1, <1>3, <1>4 DEF ReqOK, Told, Busy, Ended
<1>8. ReqOK(n, pools, now)
  BY <1>1, <1>3, <1>5, <1>6, <1>7 DEF ReqOK
<1> QED BY <1>4, <1>8, OnlyRequest DEF Arrive

LEMMA ScanStep ==
    ASSUME ForwardInv, NEW r \in Req, NEW u \in Upstreams, Scan(r, u)
    PROVE  ForwardInv'
<1> DEFINE q == req[r]
           n == [q EXCEPT !.todo = @ \ {u},
                          !.cand = IF Eligible(pools[q.gen][u], u, q) THEN @ \cup {u} ELSE @]
<1>1. q \in Request /\ ReqOK(q, pools, now) /\ q.pc = "picking" /\ u \in q.todo
  BY DEF ForwardInv, RequestsOK, ReqOK, Scan
<1>2. req' = [req EXCEPT ![r] = n]
  BY DEF Scan, ForwardInv, TypeInv
<1>3. /\ n \in Request /\ n.pc = "picking" /\ n.at = q.at /\ n.todo = q.todo \ {u}
      /\ n.attempt = q.attempt /\ n.tried = q.tried /\ n.dirty = q.dirty /\ n.status = q.status
      /\ n.cand = (IF Eligible(pools[q.gen][u], u, q) THEN q.cand \cup {u} ELSE q.cand)
      /\ n.gen = q.gen /\ n.replay = q.replay
  BY <1>1 DEF Request
<1> HIDE DEF n
<1>4. Placed(n, pools)
  BY <1>1, <1>3 DEF ReqOK, Placed, Busy, Eligible
<1>5. Counted(n)
  BY <1>1, <1>3 DEF ReqOK, Counted, Busy, Ended
<1>6. Told(n)
  BY <1>1, <1>3 DEF ReqOK, Told, Busy, Ended
<1>7. ReqOK(n, pools, now)
  BY <1>1, <1>3, <1>4, <1>5, <1>6 DEF ReqOK
<1> QED BY <1>1, <1>2, <1>3, <1>7, OnlyRequest DEF Scan

LEMMA SelectStep ==
    ASSUME ForwardInv, NEW r \in Req, NEW u \in Upstreams, Select(r, u)
    PROVE  ForwardInv'
<1> DEFINE q == req[r]
           n == [q EXCEPT !.pc = "picked", !.cur = u, !.tried = @ \cup {u}, !.cand = {}]
<1>1. q \in Request /\ ReqOK(q, pools, now) /\ q.pc = "picking" /\ u \in q.cand
  BY DEF ForwardInv, RequestsOK, ReqOK, Select
<1>2. req' = [req EXCEPT ![r] = n]
  BY DEF Select, ForwardInv, TypeInv
<1>3. /\ n \in Request /\ n.pc = "picked" /\ n.at = q.at /\ n.cur = u
      /\ n.attempt = q.attempt /\ n.tried = q.tried \cup {u} /\ n.dirty = q.dirty
      /\ n.status = q.status /\ n.cand = {} /\ n.gen = q.gen /\ n.replay = q.replay
  BY <1>1 DEF Request
<1>4. u \in DOMAIN pools[q.gen] /\ u \notin q.tried
  BY <1>1 DEF ReqOK, Placed
<1> HIDE DEF n
<1>5. Placed(n, pools)
  BY <1>1, <1>3, <1>4 DEF ReqOK, Placed, Busy
<1>6. IsFiniteSet(q.tried \cup {u}) /\ Cardinality(q.tried \cup {u}) = q.attempt + 1
  <2>1. IsFiniteSet(q.tried) /\ Cardinality(q.tried) = q.attempt
    BY <1>1 DEF ReqOK, Counted
  <2>2. u \notin q.tried
    BY <1>4
  <2> QED BY <2>1, <2>2, OneMore
<1>7. Counted(n)
  BY <1>1, <1>3, <1>6 DEF ReqOK, Counted, Busy, Ended
<1>8. Told(n)
  BY <1>1, <1>3 DEF ReqOK, Told, Busy, Ended
<1>9. ReqOK(n, pools, now)
  BY <1>1, <1>3, <1>5, <1>7, <1>8 DEF ReqOK
<1> QED BY <1>1, <1>2, <1>3, <1>9, OnlyRequest DEF Select

LEMMA NoCandidateStep ==
    ASSUME ForwardInv, NEW r \in Req, NoCandidate(r)
    PROVE  ForwardInv'
<1> DEFINE q == req[r]
           s == IF q.tried # {} THEN "502" ELSE "503"
<1>1. q \in Request /\ ReqOK(q, pools, now) /\ q.pc = "picking" /\ now \in Nat
  BY DEF ForwardInv, RequestsOK, ReqOK, NoCandidate, TypeInv
<1>2. req' = [req EXCEPT ![r] = Over(q, s)]
  BY DEF NoCandidate
<1>3. ~q.dirty
  BY <1>1 DEF ReqOK, Told
<1>4. ReqOK(Over(q, s), pools, now)
  BY <1>1, <1>3, OverOK
<1>5. Over(q, s).pc = "done"
  BY DEF Over, NewRequest
<1> QED BY <1>1, <1>2, <1>4, <1>5, OnlyRequest DEF NoCandidate

LEMMA InterimStep ==
    ASSUME ForwardInv, NEW r \in Req, Interim(r)
    PROVE  ForwardInv'
<1> DEFINE q == req[r]
           n == [q EXCEPT !.dirty = TRUE]
<1>1. q \in Request /\ ReqOK(q, pools, now) /\ q.pc = "waiting"
  BY DEF ForwardInv, RequestsOK, ReqOK, Interim
<1>2. req' = [req EXCEPT ![r] = n]
  BY DEF Interim
<1>3. /\ n \in Request /\ n.pc = "waiting" /\ n.at = q.at /\ n.cur = q.cur
      /\ n.attempt = q.attempt /\ n.tried = q.tried /\ n.dirty = TRUE
      /\ n.status = q.status /\ n.cand = q.cand /\ n.gen = q.gen /\ n.replay = q.replay
  BY <1>1 DEF Request
<1> HIDE DEF n
<1>4. Placed(n, pools)
  BY <1>1, <1>3 DEF ReqOK, Placed, Busy
<1>5. Counted(n)
  BY <1>1, <1>3 DEF ReqOK, Counted, Busy, Ended
<1>6. Told(n)
  BY <1>1, <1>3 DEF ReqOK, Told, Busy, Ended
<1>7. ReqOK(n, pools, now)
  BY <1>1, <1>3, <1>4, <1>5, <1>6 DEF ReqOK
<1> QED BY <1>1, <1>2, <1>3, <1>7, OnlyRequest DEF Interim

\* However many requests there are on a backend, they can be counted.
LEMMA FlyingType ==
    ASSUME NEW rq, NEW g, NEW u
    PROVE  IsFiniteSet(Flying(rq, g, u)) /\ Cardinality(Flying(rq, g, u)) \in Nat
<1>1. Flying(rq, g, u) \in SUBSET Req
  BY DEF Flying
<1> QED BY <1>1, ForwardAssumption, FS_Subset, FS_CardinalityType

LEMMA FlightBegins ==
    ASSUME NEW rq, NEW rp, NEW r \in Req, NEW q, Moved(rq, rp, r, q),
           rq[r].pc # "waiting", q.pc = "waiting"
    PROVE  /\ Cardinality(Flying(rp, q.gen, q.cur)) = Cardinality(Flying(rq, q.gen, q.cur)) + 1
           /\ OthersFlying(rq, rp, q.gen, q.cur)
<1>1. Flying(rp, q.gen, q.cur) = Flying(rq, q.gen, q.cur) \cup {r} /\ r \notin Flying(rq, q.gen, q.cur)
  BY DEF Flying, Moved
<1>2. OthersFlying(rq, rp, q.gen, q.cur)
  BY DEF Flying, OthersFlying, Moved
<1>3. IsFiniteSet(Flying(rq, q.gen, q.cur))
  BY FlyingType
<1>4. Cardinality(Flying(rq, q.gen, q.cur) \cup {r}) = Cardinality(Flying(rq, q.gen, q.cur)) + 1
  BY <1>1, <1>3, OneMore
<1> QED BY <1>1, <1>2, <1>4

LEMMA FlightEnds ==
    ASSUME NEW rq, NEW rp, NEW r \in Req, NEW q, Moved(rq, rp, r, q),
           rq[r].pc = "waiting", q.pc # "waiting"
    PROVE  /\ Cardinality(Flying(rp, rq[r].gen, rq[r].cur)) =
                  Cardinality(Flying(rq, rq[r].gen, rq[r].cur)) - 1
           /\ OthersFlying(rq, rp, rq[r].gen, rq[r].cur)
<1> DEFINE g == rq[r].gen
           u == rq[r].cur
<1>1. Flying(rp, g, u) = Flying(rq, g, u) \ {r} /\ r \in Flying(rq, g, u)
  BY DEF Flying, Moved
<1>2. OthersFlying(rq, rp, g, u)
  BY DEF Flying, OthersFlying, Moved
<1>3. IsFiniteSet(Flying(rq, g, u))
  BY FlyingType
<1>4. Cardinality(Flying(rq, g, u) \ {r}) = Cardinality(Flying(rq, g, u)) - 1
  BY <1>1, <1>3, OneLess
<1> QED BY <1>1, <1>2, <1>4

\* ReverseProxy.ServeHTTP returns, and Release takes the request off the count.
LEMMA ReleaseStep ==
    ASSUME ForwardInv, NEW r \in Req, req[r].pc = "waiting", NEW q, ReqOK(q, pools, now),
           q.pc # "waiting", req' = [req EXCEPT ![r] = q],
           pools' = [pools EXCEPT ![req[r].gen][req[r].cur] = Release(@)],
           UNCHANGED <<now, gen, leaked, streak>>
    PROVE  ForwardInv'
<1>0. PICK g, u, m, b : /\ g = req[r].gen /\ u = req[r].cur
                        /\ m = leaked[g][u] /\ b = Release(pools[g][u])
  OBVIOUS
<1>1. g \in DOMAIN pools /\ u \in DOMAIN pools[g]
  BY <1>0, BusyPlaced DEF Busy
<1>2. /\ pools[g][u].active = Cardinality(Flying(req, g, u)) + m /\ m \in Nat
      /\ pools[g][u] \in BackendState /\ g \in 1 .. MaxGen /\ u \in Upstreams /\ pools \in Seq(Pool)
  BY <1>0, <1>1, BackendOf
<1>3. pools' = Updated(pools, g, u, b) /\ leaked' = Updated(leaked, g, u, m)
  BY <1>0, <1>2 DEF Updated, ForwardInv, TypeInv, History
<1>4. Moved(req, req', r, q)
  BY DEF ForwardInv, TypeInv, Moved
<1>5. /\ Cardinality(Flying(req', g, u)) = Cardinality(Flying(req, g, u)) - 1
      /\ Cardinality(Flying(req, g, u)) \in Nat /\ Cardinality(Flying(req', g, u)) \in Nat
      /\ OthersFlying(req, req', g, u)
  BY <1>0, <1>4, FlightEnds, FlyingType
<1>6. /\ b \in BackendState /\ b.until = pools[g][u].until /\ b.fails = pools[g][u].fails
      /\ b.active = Cardinality(Flying(req', g, u)) + m
  <2>1. /\ b.active = pools[g][u].active - 1 /\ b.until = pools[g][u].until
        /\ b.fails = pools[g][u].fails
    BY <1>0, <1>2 DEF BackendState, Release
  <2>2. b.active = Cardinality(Flying(req', g, u)) + m /\ b.active \in Nat
    <3>1. PICK x, y, a, c : /\ x = Cardinality(Flying(req, g, u)) /\ a = pools[g][u].active
                            /\ y = Cardinality(Flying(req', g, u)) /\ c = b.active
      OBVIOUS
    <3>2. x \in Nat /\ y \in Nat /\ m \in Nat /\ a = x + m /\ y = x - 1 /\ c = a - 1
      BY <1>2, <1>5, <2>1, <3>1
    <3>3. c = y + m /\ c \in Nat
      BY <3>2
    <3> QED BY <3>1, <3>3
  <2>3. pools[g][u].active - 1 \in Nat
    BY <2>1, <2>2
  <2>4. b \in BackendState
    BY <1>0, <1>2, <2>3 DEF BackendState, Release
  <2> QED BY <2>1, <2>2, <2>4
<1>7. SameShape(pools, pools')
  BY <1>1, <1>2, <1>3, <1>6, OneBackend
<1>8. req' \in [Req -> Request] /\ RequestsOK'
  BY <1>7, RequestMoves DEF ForwardInv
<1> QED BY <1>1, <1>2, <1>3, <1>5, <1>6, <1>8, OnlyCount

LEMMA AcquireStep ==
    ASSUME ForwardInv, NEW r \in Req, Acquire(r)
    PROVE  ForwardInv'
<1>0. PICK g, u, m, b, q : /\ g = req[r].gen /\ u = req[r].cur /\ m = leaked[g][u]
                           /\ q = [req[r] EXCEPT !.pc = "waiting"]
                           /\ b = [pools[g][u] EXCEPT !.active = pools[g][u].active + 1]
  OBVIOUS
<1>1. /\ req[r].pc = "picked" /\ g \in DOMAIN pools /\ u \in DOMAIN pools[g]
      /\ ReqOK(req[r], pools, now) /\ req[r] \in Request
  BY <1>0, BusyPlaced DEF Busy, Acquire
<1>2. /\ pools[g][u].active = Cardinality(Flying(req, g, u)) + m /\ m \in Nat
      /\ pools[g][u] \in BackendState /\ g \in 1 .. MaxGen /\ u \in Upstreams /\ pools \in Seq(Pool)
  BY <1>0, <1>1, BackendOf
<1>3. pools' = Updated(pools, g, u, b) /\ leaked' = Updated(leaked, g, u, m)
  BY <1>0, <1>2 DEF Updated, ForwardInv, TypeInv, History, Acquire
<1>4. q.pc = "waiting" /\ q.gen = g /\ q.cur = u /\ ReqOK(q, pools, now)
  BY <1>0, <1>1, MovesOn DEF Request, Busy
<1>5. Moved(req, req', r, q) /\ req' = [req EXCEPT ![r] = q]
  BY <1>0 DEF ForwardInv, TypeInv, Moved, Acquire
<1>6. /\ Cardinality(Flying(req', g, u)) = Cardinality(Flying(req, g, u)) + 1
      /\ OthersFlying(req, req', g, u)
  BY <1>1, <1>4, <1>5, FlightBegins
<1>7. /\ b \in BackendState /\ b.until = pools[g][u].until /\ b.fails = pools[g][u].fails
      /\ b.active = Cardinality(Flying(req', g, u)) + m
  <2>1. pools[g][u].active + 1 \in Nat
    BY <1>2 DEF BackendState
  <2>2. /\ b.active = pools[g][u].active + 1 /\ b.until = pools[g][u].until
        /\ b.fails = pools[g][u].fails /\ b \in BackendState
    BY <1>0, <1>2, <2>1 DEF BackendState
  <2>3. PICK x, y : x = Cardinality(Flying(req, g, u)) /\ y = Cardinality(Flying(req', g, u))
    OBVIOUS
  <2>4. x \in Nat /\ m \in Nat /\ y = x + 1 /\ b.active = (x + m) + 1
    BY <1>2, <1>6, <2>2, <2>3, FlyingType
  <2>5. b.active = y + m
    BY <2>4
  <2> QED BY <2>2, <2>3, <2>5
<1>8. SameShape(pools, pools')
  BY <1>1, <1>2, <1>3, <1>7, OneBackend
<1>9. req' \in [Req -> Request] /\ RequestsOK'
  BY <1>4, <1>5, <1>8, RequestMoves DEF ForwardInv, Acquire
<1> QED BY <1>1, <1>2, <1>3, <1>6, <1>7, <1>9, OnlyCount DEF Acquire

LEMMA RespondStep ==
    ASSUME ForwardInv, NEW r \in Req, Respond(r)
    PROVE  ForwardInv'
<1>0. PICK q : q = [req[r] EXCEPT !.pc = "succeeded"]
  OBVIOUS
<1>1. req[r].pc = "waiting" /\ ReqOK(req[r], pools, now) /\ req[r] \in Request
  BY BusyPlaced DEF Respond, Busy
<1>2. q.pc = "succeeded" /\ ReqOK(q, pools, now)
  BY <1>0, <1>1, MovesOn DEF Request, Busy
<1>3. req' = [req EXCEPT ![r] = q]
  BY <1>0 DEF Respond
<1> QED BY <1>1, <1>2, <1>3, ReleaseStep DEF Respond

\* Refuse and Hangup.
LEMMA FailStep ==
    ASSUME ForwardInv, NEW r \in Req, NEW gone \in BOOLEAN, Fail(r, gone)
    PROVE  ForwardInv'
<1>0. PICK q : q = [req[r] EXCEPT !.gone = gone, !.at = now]
  OBVIOUS
<1>1. req[r].pc = "waiting" /\ ReqOK(req[r], pools, now) /\ req[r] \in Request /\ now \in Nat
  <2>1. req[r] \in Request
    BY DEF ForwardInv, TypeInv
  <2>2. req[r].pc = "waiting"
    BY <2>1 DEF Fail, Request
  <2> QED BY <2>2, BusyPlaced DEF Busy
<1>2. /\ q \in Request /\ q.pc = "waiting" /\ q.at = now /\ q.todo = req[r].todo
      /\ q.attempt = req[r].attempt /\ q.tried = req[r].tried /\ q.dirty = req[r].dirty
      /\ q.status = req[r].status /\ q.cand = req[r].cand /\ q.gen = req[r].gen
      /\ q.replay = req[r].replay /\ q.cur = req[r].cur
  BY <1>0, <1>1 DEF Request
<1>3. ReqOK(q, pools, now)
  <2>1. Placed(q, pools)
    BY <1>1, <1>2 DEF ReqOK, Placed, Busy
  <2>2. Counted(q)
    BY <1>1, <1>2 DEF ReqOK, Counted, Busy, Ended
  <2>3. Told(q)
    BY <1>1, <1>2 DEF ReqOK, Told, Busy, Ended
  <2> QED BY <1>1, <1>2, <2>1, <2>2, <2>3 DEF ReqOK
<1>4. PICK p : p = IF PassiveEnabled THEN [q EXCEPT !.pc = "failed"] ELSE AfterFailure(q)
  OBVIOUS
<1>5. req' = [req EXCEPT ![r] = p]
  BY <1>0, <1>4 DEF Fail
<1>6. p.pc # "waiting" /\ ReqOK(p, pools, now)
  <2>1. CASE PassiveEnabled
    BY <1>2, <1>3, <1>4, <2>1, MovesOn DEF Busy, Request
  <2>2. CASE ~PassiveEnabled
    BY <1>2, <1>3, <1>4, <2>2, AfterFailureOK DEF Busy, ForwardInv
  <2> QED BY <2>1, <2>2
<1>7. pools' = [pools EXCEPT ![req[r].gen][req[r].cur] = Release(@)]
  BY <1>0, <1>2 DEF Fail
<1> QED BY <1>1, <1>5, <1>6, <1>7, ReleaseStep DEF Fail

LEMMA UpdateSame ==
    ASSUME NEW ps \in Seq(Pool), NEW g \in DOMAIN ps, NEW u \in DOMAIN ps[g]
    PROVE  Updated(ps, g, u, ps[g][u]) = ps
<1>1. ps \in [1 .. Len(ps) -> Pool] /\ DOMAIN ps = 1 .. Len(ps)
  BY LenProperties
<1>2. ps[g] \in [DOMAIN ps[g] -> BackendState]
  BY PoolsShape
<1>3. [ps[g] EXCEPT ![u] = ps[g][u]] = ps[g]
  BY <1>2
<1> QED BY <1>1, <1>3 DEF Updated

LEMMA AbortStep ==
    ASSUME ForwardInv, NEW r \in Req, Abort(r)
    PROVE  ForwardInv'
<1>0. PICK g, u, m, b, q : /\ g = req[r].gen /\ u = req[r].cur /\ m = leaked[g][u] + 1
                           /\ q = [NewRequest EXCEPT !.pc = "aborted"]
                           /\ b = pools[g][u]
  OBVIOUS
<1>1. req[r].pc = "waiting" /\ g \in DOMAIN pools /\ u \in DOMAIN pools[g] /\ now \in Nat
  BY <1>0, BusyPlaced DEF Busy, Abort
<1>2. /\ b.active = Cardinality(Flying(req, g, u)) + leaked[g][u] /\ leaked[g][u] \in Nat
      /\ b \in BackendState /\ g \in 1 .. MaxGen /\ u \in Upstreams /\ pools \in Seq(Pool)
  BY <1>0, <1>1, BackendOf
<1>3. pools' = Updated(pools, g, u, b) /\ leaked' = Updated(leaked, g, u, m) /\ m \in Nat
  <2>1. pools' = Updated(pools, g, u, b)
    BY <1>0, <1>1, <1>2, UpdateSame DEF Abort
  <2>2. leaked' = Updated(leaked, g, u, m)
    BY <1>0 DEF Updated, Abort
  <2>3. m \in Nat
    BY <1>0, <1>2
  <2> QED BY <2>1, <2>2, <2>3
<1>4. q.pc = "aborted" /\ ReqOK(q, pools, now)
  <2>1. q \in Request
    BY <1>0, ForwardAssumption DEF NewRequest, Request, Ended
  <2>2. /\ q.pc = "aborted" /\ q.at = 0 /\ q.cand = {} /\ q.tried = {} /\ q.attempt = 0
        /\ q.status = "none"
    BY <1>0 DEF NewRequest
  <2> QED BY <1>1, <2>1, <2>2, ForwardAssumption, FS_EmptySet
          DEF ReqOK, Placed, Counted, Told, Busy, Ended
<1>5. Moved(req, req', r, q) /\ req' = [req EXCEPT ![r] = q]
  BY <1>0 DEF ForwardInv, TypeInv, Moved, Abort
<1>6. /\ Cardinality(Flying(req', g, u)) = Cardinality(Flying(req, g, u)) - 1
      /\ OthersFlying(req, req', g, u)
  BY <1>0, <1>1, <1>4, <1>5, FlightEnds
<1>7. b.active = Cardinality(Flying(req', g, u)) + m
  <2>1. PICK x, y, z : /\ x = Cardinality(Flying(req, g, u)) /\ y = leaked[g][u]
                       /\ z = Cardinality(Flying(req', g, u))
    OBVIOUS
  <2>2. x \in Nat /\ y \in Nat
    BY <1>2, <2>1, FlyingType
  <2>3. b.active = x + y /\ z = x - 1 /\ m = y + 1
    BY <1>0, <1>2, <1>6, <2>1
  <2>4. x + y = (x - 1) + (y + 1)
    BY <2>2
  <2> QED BY <2>1, <2>3, <2>4
<1>8. SameShape(pools, pools')
  BY <1>1, <1>2, <1>3, OneBackend
<1>9. req' \in [Req -> Request] /\ RequestsOK'
  BY <1>4, <1>5, <1>8, RequestMoves DEF ForwardInv, Abort
<1>10. b.until = pools[g][u].until /\ b.fails = pools[g][u].fails
  BY <1>0
<1> QED BY <1>1, <1>2, <1>3, <1>6, <1>7, <1>9, <1>10, OnlyCount DEF Abort

\* RecordProxyResult writes the backend of its request and nothing else.
LEMMA RecordStep ==
    ASSUME ForwardInv, NEW r \in Req, req[r].pc \in Busy \ {"waiting"},
           NEW q, ReqOK(q, pools, now), q.pc # "waiting", req' = [req EXCEPT ![r] = q],
           NEW g, g = req[r].gen, NEW u, u = req[r].cur,
           NEW b \in BackendState, b.active = pools[g][u].active, pools' = Updated(pools, g, u, b),
           NEW n \in Nat, streak' = Updated(streak, g, u, n), BackendOK(b, n, now),
           UNCHANGED <<now, gen, leaked>>
    PROVE  ForwardInv'
<1>1. g \in DOMAIN pools /\ u \in DOMAIN pools[g] /\ pools \in Seq(Pool)
  BY BusyPlaced DEF Busy, ForwardInv, TypeInv
<1>2. SameShape(pools, pools')
  BY <1>1, OneBackend
<1>3. req' \in [Req -> Request] /\ RequestsOK' /\ Moved(req, req', r, q)
  BY <1>2, RequestMoves DEF ForwardInv
<1>4. SameFlying(req, req')
  BY <1>3, InFlightStays
<1> QED BY <1>1, <1>3, <1>4, OnlyHealth

\* What the record steps start from.
LEMMA RecordFrom ==
    ASSUME ForwardInv, NEW r \in Req, req[r].pc \in Busy,
           NEW g, g = req[r].gen, NEW u, u = req[r].cur
    PROVE  /\ req[r] \in Request /\ ReqOK(req[r], pools, now) /\ now \in Nat
           /\ pools[g][u] \in BackendState /\ BackendOK(pools[g][u], streak[g][u], now)
           /\ streak[g][u] \in Nat
           /\ Updated(streak, g, u, streak[g][u]) = streak
           /\ Updated(pools, g, u, pools[g][u]) = pools
<1>1. g \in DOMAIN pools /\ u \in DOMAIN pools[g]
  BY BusyPlaced
<1>2. /\ pools[g][u] \in BackendState /\ BackendOK(pools[g][u], streak[g][u], now)
      /\ streak[g][u] \in Nat /\ g \in 1 .. MaxGen /\ u \in Upstreams /\ pools \in Seq(Pool)
  BY <1>1, BackendOf
<1>3. Updated(streak, g, u, streak[g][u]) = streak
  BY <1>2 DEF Updated, ForwardInv, TypeInv, History
<1> QED BY <1>1, <1>2, <1>3, UpdateSame, BusyPlaced

LEMMA RecordOkStep ==
    ASSUME ForwardInv, NEW r \in Req, RecordOk(r)
    PROVE  ForwardInv'
<1>0. PICK g, u, b, q : /\ g = req[r].gen /\ u = req[r].cur
                        /\ q = [req[r] EXCEPT !.pc = "cleared"]
                        /\ b = Succeed(pools[g][u])
  OBVIOUS
<1>1. /\ req[r].pc = "succeeded" /\ req[r] \in Request /\ ReqOK(req[r], pools, now) /\ now \in Nat
      /\ pools[g][u] \in BackendState /\ BackendOK(pools[g][u], streak[g][u], now)
  BY <1>0, RecordFrom DEF Busy, RecordOk
<1>2. ReqOK(q, pools, now) /\ q.pc = "cleared" /\ q.pc # "waiting"
  BY <1>0, <1>1, MovesOn DEF Busy, Request
<1>3. /\ b \in BackendState /\ b.active = pools[g][u].active /\ b.until = pools[g][u].until
      /\ b.fails = IF PassiveEnabled THEN 0 ELSE pools[g][u].fails
  BY <1>0, <1>1 DEF Succeed, ResetFails, BackendState
<1>4. BackendOK(b, 0, now)
  BY <1>1, <1>3, ForwardAssumption DEF BackendOK
<1>5. /\ pools' = Updated(pools, g, u, b) /\ streak' = Updated(streak, g, u, 0)
      /\ req' = [req EXCEPT ![r] = q]
  BY <1>0 DEF RecordOk, Updated
<1>9. req[r].pc \in Busy \ {"waiting"} /\ UNCHANGED <<now, gen, leaked>>
  BY <1>1 DEF RecordOk, Busy
<1> QED BY <1>0, <1>1, <1>2, <1>3, <1>4, <1>5, <1>9, RecordStep

LEMMA RecordClearStep ==
    ASSUME ForwardInv, NEW r \in Req, RecordClear(r)
    PROVE  ForwardInv'
<1>0. PICK g, u, b, q, n : /\ g = req[r].gen /\ u = req[r].cur /\ q = Over(req[r], "ok")
                           /\ b = IF PassiveEnabled THEN ClearWindow(pools[g][u]) ELSE pools[g][u]
                           /\ n = streak[g][u]
  OBVIOUS
<1>1. /\ req[r].pc = "cleared" /\ req[r] \in Request /\ ReqOK(req[r], pools, now) /\ now \in Nat
      /\ pools[g][u] \in BackendState /\ BackendOK(pools[g][u], n, now)
      /\ n \in Nat /\ streak = Updated(streak, g, u, n)
  BY <1>0, RecordFrom DEF Busy, RecordClear
<1>2. ReqOK(q, pools, now)
  BY <1>0, <1>1, OverOK DEF Busy
<1>3. q.pc = "done" /\ q.pc # "waiting"
  BY <1>0 DEF Over, NewRequest
<1>4. /\ b \in BackendState /\ b.active = pools[g][u].active /\ b.fails = pools[g][u].fails
      /\ b.until = IF PassiveEnabled THEN 0 ELSE pools[g][u].until
  BY <1>0, <1>1 DEF ClearWindow, BackendState
<1>5. BackendOK(b, n, now)
  BY <1>1, <1>4, ForwardAssumption DEF BackendOK
<1>6. /\ pools' = Updated(pools, g, u, b) /\ streak' = Updated(streak, g, u, n)
      /\ req' = [req EXCEPT ![r] = q]
  <2>1. pools' = Updated(pools, g, u, b) /\ req' = [req EXCEPT ![r] = q]
    BY <1>0 DEF RecordClear, Updated
  <2> QED BY <1>1, <2>1 DEF RecordClear
<1>9. req[r].pc \in Busy \ {"waiting"} /\ UNCHANGED <<now, gen, leaked>>
  BY <1>1 DEF RecordClear, Busy
<1> QED BY <1>0, <1>1, <1>2, <1>3, <1>4, <1>5, <1>6, <1>9, RecordStep

LEMMA RecordFailStep ==
    ASSUME ForwardInv, NEW r \in Req, RecordFail(r)
    PROVE  ForwardInv'
<1>0. PICK g, u, b, n, q : /\ g = req[r].gen /\ u = req[r].cur /\ b = CountFail(pools[g][u])
                           /\ n = Capped(streak[g][u] + 1, MaxFails)
                           /\ q = IF b.fails < MaxFails THEN AfterFailure(req[r])
                                  ELSE [req[r] EXCEPT !.pc = "tripped"]
  OBVIOUS
<1>1. /\ req[r].pc = "failed" /\ req[r] \in Request /\ ReqOK(req[r], pools, now) /\ now \in Nat
      /\ pools[g][u] \in BackendState /\ BackendOK(pools[g][u], streak[g][u], now)
      /\ streak[g][u] \in Nat
  BY <1>0, RecordFrom DEF Busy, RecordFail
<1>2. PassiveEnabled
  BY <1>1 DEF ReqOK, Placed
<1>3. ReqOK(q, pools, now) /\ q.pc # "waiting"
  <2>1. CASE b.fails < MaxFails
    BY <1>0, <1>1, <2>1, AfterFailureOK DEF Busy, ForwardInv
  <2>2. CASE ~(b.fails < MaxFails)
    BY <1>0, <1>1, <1>2, <2>2, MovesOn DEF Busy, Request
  <2> QED BY <2>1, <2>2
<1>4. pools[g][u].fails + 1 \in Nat
  BY <1>1 DEF BackendState
<1>5. /\ b \in BackendState /\ b.active = pools[g][u].active /\ b.until = pools[g][u].until
      /\ b.fails = pools[g][u].fails + 1
  BY <1>0, <1>1, <1>4 DEF CountFail, BackendState
<1>6. n \in Nat
  <2>1. streak[g][u] + 1 \in Nat /\ MaxFails \in Nat
    BY <1>1, ForwardAssumption
  <2>2. n \in {streak[g][u] + 1, MaxFails}
    BY <1>0 DEF Capped
  <2> QED BY <2>1, <2>2
<1>7. BackendOK(b, n, now)
  <2>1. pools[g][u].fails \in Nat /\ MaxFails \in Nat
    BY <1>1, ForwardAssumption DEF BackendState
  <2>2. pools[g][u].fails <= streak[g][u] \/ MaxFails <= streak[g][u]
    BY <1>1 DEF BackendOK
  <2>3. b.fails <= n \/ MaxFails <= n
    <3>1. PICK k, f : k = streak[g][u] /\ f = pools[g][u].fails
      OBVIOUS
    <3>2. /\ k \in Nat /\ f \in Nat /\ MaxFails \in Nat /\ b.fails = f + 1
          /\ n = IF k + 1 < MaxFails THEN k + 1 ELSE MaxFails
          /\ f <= k \/ MaxFails <= k
      BY <1>0, <1>1, <1>5, <2>1, <2>2, <3>1 DEF Capped
    <3> QED BY <3>2
  <2> QED BY <1>1, <1>2, <1>5, <2>3 DEF BackendOK
<1>8. /\ pools' = Updated(pools, g, u, b) /\ streak' = Updated(streak, g, u, n)
      /\ req' = [req EXCEPT ![r] = q]
  BY <1>0 DEF RecordFail, Updated
<1>9. req[r].pc \in Busy \ {"waiting"} /\ UNCHANGED <<now, gen, leaked>>
  BY <1>1 DEF RecordFail, Busy
<1> QED BY <1>0, <1>1, <1>3, <1>5, <1>6, <1>7, <1>8, <1>9, RecordStep

LEMMA RecordTripStep ==
    ASSUME ForwardInv, NEW r \in Req, RecordTrip(r)
    PROVE  ForwardInv'
<1>0. PICK g, u, b, q, n : /\ g = req[r].gen /\ u = req[r].cur /\ b = ResetFails(pools[g][u])
                           /\ q = [req[r] EXCEPT !.pc = "ejecting"] /\ n = streak[g][u]
  OBVIOUS
<1>1. /\ req[r].pc = "tripped" /\ req[r] \in Request /\ ReqOK(req[r], pools, now) /\ now \in Nat
      /\ pools[g][u] \in BackendState /\ BackendOK(pools[g][u], n, now)
      /\ n \in Nat /\ streak = Updated(streak, g, u, n)
  BY <1>0, RecordFrom DEF Busy, RecordTrip
<1>2. PassiveEnabled
  BY <1>1 DEF ReqOK, Placed
<1>3. ReqOK(q, pools, now) /\ q.pc = "ejecting" /\ q.pc # "waiting"
  BY <1>0, <1>1, <1>2, MovesOn DEF Busy, Request
<1>4. /\ b \in BackendState /\ b.active = pools[g][u].active /\ b.fails = 0
      /\ b.until = pools[g][u].until
  BY <1>0, <1>1 DEF ResetFails, BackendState
<1>5. BackendOK(b, n, now)
  BY <1>1, <1>4, ForwardAssumption DEF BackendOK
<1>6. /\ pools' = Updated(pools, g, u, b) /\ streak' = Updated(streak, g, u, n)
      /\ req' = [req EXCEPT ![r] = q]
  <2>1. pools' = Updated(pools, g, u, b) /\ req' = [req EXCEPT ![r] = q]
    BY <1>0 DEF RecordTrip, Updated
  <2> QED BY <1>1, <2>1 DEF RecordTrip
<1>9. req[r].pc \in Busy \ {"waiting"} /\ UNCHANGED <<now, gen, leaked>>
  BY <1>1 DEF RecordTrip, Busy
<1> QED BY <1>0, <1>1, <1>3, <1>4, <1>5, <1>6, <1>9, RecordStep

LEMMA RecordEjectStep ==
    ASSUME ForwardInv, NEW r \in Req, RecordEject(r)
    PROVE  ForwardInv'
<1>0. PICK g, u, b, q, n : /\ g = req[r].gen /\ u = req[r].cur
                           /\ b = Eject(pools[g][u], req[r].at + EjectFor)
                           /\ q = AfterFailure(req[r]) /\ n = streak[g][u]
  OBVIOUS
<1>1. /\ req[r].pc = "ejecting" /\ req[r] \in Request /\ ReqOK(req[r], pools, now) /\ now \in Nat
      /\ pools[g][u] \in BackendState /\ BackendOK(pools[g][u], n, now)
      /\ n \in Nat /\ streak = Updated(streak, g, u, n)
  BY <1>0, RecordFrom DEF Busy, RecordEject
<1>2. req[r].at \in Nat /\ req[r].at <= now
  BY <1>1, RequestFields DEF ReqOK
<1>3. ReqOK(q, pools, now) /\ q.pc # "waiting"
  BY <1>0, <1>1, AfterFailureOK DEF Busy, ForwardInv
<1>4. req[r].at + EjectFor \in Nat /\ req[r].at + EjectFor <= now + EjectFor
  BY <1>1, <1>2, ForwardAssumption
<1>5. /\ b \in BackendState /\ b.active = pools[g][u].active /\ b.fails = pools[g][u].fails
      /\ b.until = req[r].at + EjectFor
  BY <1>0, <1>1, <1>4 DEF Eject, BackendState
<1>6. BackendOK(b, n, now)
  BY <1>1, <1>4, <1>5 DEF BackendOK
<1>7. /\ pools' = Updated(pools, g, u, b) /\ streak' = Updated(streak, g, u, n)
      /\ req' = [req EXCEPT ![r] = q]
  <2>1. pools' = Updated(pools, g, u, b) /\ req' = [req EXCEPT ![r] = q]
    BY <1>0 DEF RecordEject, Updated
  <2> QED BY <1>1, <2>1 DEF RecordEject
<1>9. req[r].pc \in Busy \ {"waiting"} /\ UNCHANGED <<now, gen, leaked>>
  BY <1>1 DEF RecordEject, Busy
<1> QED BY <1>0, <1>1, <1>3, <1>5, <1>6, <1>7, <1>9, RecordStep

LEMMA ProbeFlipStep ==
    ASSUME ForwardInv, NEW u \in Upstreams, ProbeFlip(u)
    PROVE  ForwardInv'
<1>0. PICK g, b, n : /\ g = gen /\ n = streak[g][u]
                     /\ b = IF pools[g][u].healthy THEN [pools[g][u] EXCEPT !.healthy = FALSE]
                            ELSE ClearEjection([pools[g][u] EXCEPT !.healthy = TRUE])
  OBVIOUS
<1>1. g \in DOMAIN pools /\ u \in DOMAIN pools[g] /\ pools \in Seq(Pool)
  BY <1>0 DEF ForwardInv, TypeInv, ProbeFlip
<1>2. /\ pools[g][u] \in BackendState /\ BackendOK(pools[g][u], n, now)
      /\ n \in Nat /\ now \in Nat /\ g \in 1 .. MaxGen /\ u \in Upstreams
  BY <1>0, <1>1, BackendOf
<1>3. /\ b \in BackendState /\ b.active = pools[g][u].active
      /\ \/ b.until = pools[g][u].until /\ b.fails = pools[g][u].fails
         \/ b.until = 0 /\ b.fails = 0
  <2>1. CASE pools[g][u].healthy
    BY <1>0, <1>2, <2>1 DEF BackendState
  <2>2. CASE ~pools[g][u].healthy
    BY <1>0, <1>2, <2>2 DEF BackendState, ClearEjection, ClearWindow, ResetFails
  <2> QED BY <2>1, <2>2
<1>4. BackendOK(b, n, now)
  BY <1>2, <1>3, ForwardAssumption DEF BackendOK
<1>5. pools' = Updated(pools, g, u, b)
  BY <1>0 DEF ProbeFlip, Updated
<1>6. streak' = Updated(streak, g, u, n)
  BY <1>0, <1>2 DEF ProbeFlip, Updated, ForwardInv, TypeInv, History
<1>7. UNCHANGED <<now, gen, leaked, req>>
  BY DEF ProbeFlip
<1>8. SameShape(pools, pools')
  BY <1>1, <1>3, <1>5, OneBackend
<1>9. req' \in [Req -> Request] /\ RequestsOK'
  <2>1. \A s \in Req : ReqOK(req[s], pools', now)
    BY <1>2, <1>8, ReqOKStays DEF SameShape, ForwardInv, RequestsOK
  <2> QED BY <1>7, <2>1 DEF RequestsOK, ForwardInv, TypeInv
<1>10. SameFlying(req, req')
  BY <1>7 DEF SameFlying
<1> QED BY <1>1, <1>2, <1>3, <1>4, <1>5, <1>6, <1>7, <1>9, <1>10, OnlyHealth

LEMMA TickStep ==
    ASSUME ForwardInv, Tick
    PROVE  ForwardInv'
<1>1. /\ now \in Nat /\ now' \in Nat /\ now <= now'
      /\ UNCHANGED <<pools, gen, req, leaked, streak>>
  BY DEF Tick, ForwardInv, TypeInv
<1>2. TypeInv' /\ LeakedWhereBuilt'
  BY <1>1 DEF ForwardInv, TypeInv, LeakedWhereBuilt
<1>3. RequestsOK'
  <2>1. \A s \in Req : ReqOK(req[s], pools, now')
    BY <1>1, ReqOKStays DEF ForwardInv, RequestsOK
  <2> QED BY <1>1, <2>1 DEF RequestsOK
<1>4. BackendsOK'
  <2> SUFFICES ASSUME NEW g \in DOMAIN pools, NEW u \in DOMAIN pools[g]
               PROVE  BackendOK(pools[g][u], streak[g][u], now')
    BY <1>1 DEF BackendsOK
  <2>1. BackendOK(pools[g][u], streak[g][u], now) /\ pools[g][u].until \in Nat
    BY BackendOf DEF BackendState
  <2>2. pools[g][u].until <= now' + EjectFor
    BY <1>1, <2>1, ForwardAssumption DEF BackendOK
  <2> QED BY <2>1, <2>2 DEF BackendOK
<1>5. ActiveOK'
  BY <1>1 DEF ForwardInv, ActiveOK, Flying
<1> QED BY <1>2, <1>3, <1>4, <1>5 DEF ForwardInv

LEMMA PublishStep ==
    ASSUME ForwardInv, Publish
    PROVE  ForwardInv'
<1>1. /\ gen' = gen + 1 /\ gen < Len(pools) /\ Len(pools) \in Nat
      /\ UNCHANGED <<now, pools, req, leaked, streak>>
  BY DEF Publish, ForwardInv, TypeInv
<1>2. TypeInv' /\ LeakedWhereBuilt'
  BY <1>1 DEF ForwardInv, TypeInv, LeakedWhereBuilt
<1>3. RequestsOK' /\ BackendsOK' /\ ActiveOK'
  BY <1>1 DEF ForwardInv, RequestsOK, BackendsOK, ActiveOK
<1> QED BY <1>2, <1>3 DEF ForwardInv

\* No request is on a pool that is not built yet.
LEMMA NoneFlyingBeyond ==
    ASSUME ForwardInv, NEW g, g \notin DOMAIN pools, NEW u
    PROVE  Cardinality(Flying(req, g, u)) = 0
<1>1. ASSUME NEW r \in Flying(req, g, u)
      PROVE  FALSE
  BY BusyPlaced DEF Flying, Busy
<1> QED BY <1>1, FS_EmptySet

LEMMA BuildStep ==
    ASSUME ForwardInv, NEW cfg \in Configs, Build(cfg)
    PROVE  ForwardInv'
<1>0. PICK p, n : p = NewPool(cfg, pools[gen]) /\ n = Len(pools) + 1
  OBVIOUS
<1>1. /\ pools \in Seq(Pool) /\ Len(pools) \in Nat /\ gen = Len(pools) /\ gen < MaxGen
      /\ DOMAIN pools = 1 .. Len(pools) /\ gen \in DOMAIN pools /\ pools[gen] \in Pool
      /\ pools' = Append(pools, p) /\ streak' = [streak EXCEPT ![n] = streak[gen]]
      /\ UNCHANGED <<now, gen, req, leaked>>
  BY <1>0 DEF Build, ForwardInv, TypeInv
<1>2. /\ p \in Pool /\ DOMAIN p = DOMAIN cfg
      /\ \A u \in DOMAIN p : /\ p[u].active = 0
                              /\ \/ /\ u \in DOMAIN pools[gen]
                                    /\ p[u].fails = pools[gen][u].fails /\ p[u].until = pools[gen][u].until
                                 \/ p[u].fails = 0 /\ p[u].until = 0
  BY <1>0, <1>1, NewPoolType
<1>3. /\ pools' \in Seq(Pool) /\ Len(pools') = n /\ DOMAIN pools' = 1 .. n /\ pools'[n] = p
      /\ \A g \in 1 .. Len(pools) : pools'[g] = pools[g]
  BY <1>0, <1>1, <1>2, AppendProperties, LenProperties
<1>4. n \in 1 .. MaxGen /\ n \notin DOMAIN pools /\ gen \in 1 .. MaxGen /\ n \in Nat
  BY <1>0, <1>1, ForwardAssumption
<1>5. streak' \in History /\ streak'[n] = streak[gen] /\ \A g \in DOMAIN pools : streak'[g] = streak[g]
  <2>1. streak \in [1 .. MaxGen -> [Upstreams -> Nat]]
    BY DEF ForwardInv, TypeInv, History
  <2>2. streak[gen] \in [Upstreams -> Nat]
    BY <1>4, <2>1
  <2>3. streak' = [streak EXCEPT ![n] = streak[gen]]
    BY <1>1
  <2>4. streak' \in History /\ streak'[n] = streak[gen]
    BY <1>4, <2>1, <2>2, <2>3 DEF History
  <2>5. ASSUME NEW g \in DOMAIN pools PROVE streak'[g] = streak[g]
    <3>1. g # n
      BY <1>4, <2>5
    <3>2. g \in 1 .. MaxGen
      BY <1>1, ForwardAssumption DEF ForwardInv, TypeInv
    <3> QED BY <2>1, <2>3, <3>1, <3>2
  <2> QED BY <2>4, <2>5
<1>6. TypeInv'
  <2>1. gen' \in 1 .. Len(pools') /\ Len(pools') <= MaxGen
    BY <1>0, <1>1, <1>3, <1>4
  <2>2. now \in Nat /\ req \in [Req -> Request] /\ leaked \in History
    BY DEF ForwardInv, TypeInv
  <2> QED BY <1>1, <1>3, <1>5, <2>1, <2>2 DEF TypeInv
<1>7. RequestsOK'
  <2>1. DOMAIN pools \subseteq DOMAIN pools' /\ \A g \in DOMAIN pools : DOMAIN pools'[g] = DOMAIN pools[g]
    BY <1>0, <1>1, <1>3
  <2>2. \A s \in Req : ReqOK(req[s], pools', now)
    BY <2>1, ReqOKStays DEF ForwardInv, RequestsOK, TypeInv
  <2> QED BY <1>1, <2>2 DEF RequestsOK
<1>8. LeakedWhereBuilt'
  BY <1>0, <1>1, <1>3 DEF ForwardInv, LeakedWhereBuilt
<1>9. ASSUME NEW g \in DOMAIN pools', NEW u \in DOMAIN pools'[g]
      PROVE  /\ BackendOK(pools'[g][u], streak'[g][u], now)
             /\ pools'[g][u].active = Cardinality(Flying(req, g, u)) + leaked[g][u]
  <2>1. CASE g \in DOMAIN pools
    BY <1>1, <1>3, <1>5, <2>1 DEF ForwardInv, BackendsOK, ActiveOK
  <2>2. CASE g \notin DOMAIN pools
    <3>1. g = n /\ pools'[g] = p /\ streak'[g] = streak[gen]
      BY <1>0, <1>1, <1>3, <1>5, <2>2
    <3>2. u \in Upstreams /\ u \in DOMAIN p
      BY <1>2, <3>1, ForwardAssumption
    <3>3. leaked[n] = Zero /\ leaked[n][u] = 0
      BY <1>0, <1>1, <1>4, <3>2 DEF ForwardInv, LeakedWhereBuilt, Zero
    <3>4. Cardinality(Flying(req, g, u)) = 0
      BY <2>2, NoneFlyingBeyond
    <3>5. BackendOK(p[u], streak[gen][u], now)
      <4>1. CASE u \in DOMAIN pools[gen] /\ p[u].fails = pools[gen][u].fails /\ p[u].until = pools[gen][u].until
        <5>1. BackendOK(pools[gen][u], streak[gen][u], now)
          BY <1>1, <4>1 DEF ForwardInv, BackendsOK
        <5> QED BY <4>1, <5>1 DEF BackendOK
      <4>2. CASE p[u].fails = 0 /\ p[u].until = 0
        <5>1. streak[gen][u] \in Nat /\ now \in Nat
          BY <1>4, <3>2 DEF ForwardInv, TypeInv, History
        <5> QED BY <4>2, <5>1, ForwardAssumption DEF BackendOK
      <4> QED BY <1>2, <3>2, <4>1, <4>2
    <3>6. p[u].active = 0
      BY <1>2, <3>2
    <3> QED BY <3>1, <3>3, <3>4, <3>5, <3>6
  <2> QED BY <2>1, <2>2
<1>10. BackendsOK' /\ ActiveOK'
  BY <1>1, <1>9 DEF BackendsOK, ActiveOK
<1> QED BY <1>6, <1>7, <1>8, <1>10 DEF ForwardInv

LEMMA InitInv == Init => ForwardInv
<1> SUFFICES ASSUME Init PROVE ForwardInv
  OBVIOUS
<1>1. PICK cfg \in Configs : pools = <<NewPool(cfg, [u \in {} |-> 0])>>
  BY DEF Init
<1>2. PICK p : p = NewPool(cfg, [u \in {} |-> 0])
  OBVIOUS
<1>3. [u \in {} |-> 0] \in Pool /\ DOMAIN [u \in {} |-> 0] = {}
  <2>1. [u \in {} |-> 0] \in [{} -> BackendState] /\ {} \in SUBSET Upstreams
    OBVIOUS
  <2> QED BY <2>1 DEF Pool
<1>4. /\ p \in Pool /\ DOMAIN p = DOMAIN cfg
      /\ \A u \in DOMAIN p : p[u].active = 0 /\ p[u].fails = 0 /\ p[u].until = 0
  <2> DEFINE e == [u \in {} |-> 0]
  <2>1. e \in Pool /\ DOMAIN e = {} /\ p = NewPool(cfg, e)
    BY <1>2, <1>3
  <2> HIDE DEF e
  <2> QED BY <2>1, NewPoolType
<1>5. /\ pools = <<p>> /\ pools \in Seq(Pool) /\ Len(pools) = 1 /\ DOMAIN pools = {1} /\ pools[1] = p
  <2>1. pools = <<p>>
    BY <1>1, <1>2
  <2> QED BY <1>4, <2>1
<1>6. /\ now = 1 /\ gen = 1 /\ req = [r \in Req |-> NewRequest]
      /\ leaked = [g \in 1 .. MaxGen |-> Zero] /\ streak = [g \in 1 .. MaxGen |-> Zero]
  BY DEF Init
<1>7. Zero \in [Upstreams -> Nat] /\ \A u \in Upstreams : Zero[u] = 0
  BY DEF Zero
<1>8. leaked \in History /\ streak \in History /\ 1 \in 1 .. MaxGen /\ leaked[1] = Zero /\ streak[1] = Zero
  BY <1>6, <1>7, ForwardAssumption DEF History
<1>9. ReqOK(NewRequest, pools, now)
  BY <1>6, NewRequestOK
<1>10. TypeInv
  BY <1>5, <1>6, <1>8, <1>9 DEF TypeInv, ReqOK
<1>11. RequestsOK
  BY <1>6, <1>9 DEF RequestsOK
<1>12. LeakedWhereBuilt
  BY <1>5, <1>6 DEF LeakedWhereBuilt
<1>13. ASSUME NEW u \in DOMAIN p
       PROVE  BackendOK(p[u], streak[1][u], now) /\ p[u].active = Cardinality(Flying(req, 1, u)) + leaked[1][u]
  <2>1. u \in Upstreams
    BY <1>4, ForwardAssumption
  <2>2. streak[1][u] = 0 /\ leaked[1][u] = 0
    BY <1>7, <1>8, <2>1
  <2>3. Flying(req, 1, u) = {}
    BY <1>6 DEF Flying, NewRequest
  <2>4. BackendOK(p[u], 0, now)
    BY <1>4, <1>6, ForwardAssumption DEF BackendOK
  <2>5. Cardinality(Flying(req, 1, u)) = 0
    BY <2>3, FS_EmptySet
  <2> QED BY <1>4, <2>2, <2>4, <2>5
<1>14. BackendsOK /\ ActiveOK
  BY <1>5, <1>13 DEF BackendsOK, ActiveOK
<1> QED BY <1>10, <1>11, <1>12, <1>14 DEF ForwardInv

LEMMA NextInv == ForwardInv /\ [Next]_vars => ForwardInv'
<1> SUFFICES ASSUME ForwardInv, [Next]_vars PROVE ForwardInv'
  OBVIOUS
<1>1. ASSUME NEW r \in Req, Step(r) PROVE ForwardInv'
  <2>1. ASSUME NEW replay \in BOOLEAN, Arrive(r, replay) PROVE ForwardInv'
    BY <2>1, ArriveStep
  <2>2. ASSUME NEW u \in Upstreams, Scan(r, u) PROVE ForwardInv'
    BY <2>2, ScanStep
  <2>3. ASSUME NEW u \in Upstreams, Select(r, u) PROVE ForwardInv'
    BY <2>3, SelectStep
  <2>4. CASE NoCandidate(r)
    BY <2>4, NoCandidateStep
  <2>5. CASE Acquire(r)
    BY <2>5, AcquireStep
  <2>6. CASE Interim(r)
    BY <2>6, InterimStep
  <2>7. CASE Respond(r)
    BY <2>7, RespondStep
  <2>8. CASE Refuse(r)
    BY <2>8, FailStep DEF Refuse
  <2>9. CASE Hangup(r)
    BY <2>9, FailStep DEF Hangup
  <2>10. CASE Abort(r)
    BY <2>10, AbortStep
  <2>11. CASE RecordOk(r)
    BY <2>11, RecordOkStep
  <2>12. CASE RecordClear(r)
    BY <2>12, RecordClearStep
  <2>13. CASE RecordFail(r)
    BY <2>13, RecordFailStep
  <2>14. CASE RecordTrip(r)
    BY <2>14, RecordTripStep
  <2>15. CASE RecordEject(r)
    BY <2>15, RecordEjectStep
  <2> QED BY <1>1, <2>1, <2>2, <2>3, <2>4, <2>5, <2>6, <2>7, <2>8, <2>9, <2>10, <2>11, <2>12,
             <2>13, <2>14, <2>15 DEF Step, Attempt
<1>2. ASSUME NEW u \in Upstreams, ProbeFlip(u) PROVE ForwardInv'
  BY <1>2, ProbeFlipStep
<1>3. ASSUME NEW cfg \in Configs, Build(cfg) PROVE ForwardInv'
  BY <1>3, BuildStep
<1>4. CASE Publish
  BY <1>4, PublishStep
<1>5. CASE Tick
  BY <1>5, TickStep
<1>6. CASE UNCHANGED vars
  BY <1>6 DEF vars, ForwardInv, TypeInv, RequestsOK, BackendsOK, LeakedWhereBuilt, ActiveOK
<1> QED BY <1>1, <1>2, <1>3, <1>4, <1>5, <1>6 DEF Next

-----------------------------------------------------------------------------
(* The theorems. *)

\* The inductive invariant: pools, requests and backends have their types, a
\* request's tried set counts its attempts, and a backend's failure count is owed
\* to failures since its last success.
THEOREM Invariance == Spec => []ForwardInv
<1> QED BY InitInv, NextInv, PTL DEF Spec

\* However many requests pick, retry, hang up or panic across however many
\* reloads, a backend's connection count is its requests in flight plus those a
\* panic abandoned (backend.go Acquire and Release, handler.go forward).
THEOREM ActiveIsAccounted == Spec => []ActiveAccounted
<1>1. ForwardInv => ActiveAccounted
  BY DEF ForwardInv, ActiveOK, ActiveAccounted, Flying, InFlight
<1> QED BY <1>1, Invariance, PTL

\* A request never returns to a backend it has tried, is sent at most MaxRetries
\* + 1 times, and only once when its body cannot be replayed; nothing is sent
\* again after the client has seen part of an answer (handler.go forward).
THEOREM RetriesAreSound == Spec => []RetriesSound
<1>1. ForwardInv => RetriesSound
  <2> SUFFICES ASSUME ForwardInv, NEW r \in Req
               PROVE  LET q == req[r] IN
                      /\ Cardinality(q.tried) <= MaxRetries + 1
                      /\ q.pc \notin Ended /\ ~q.replay => Cardinality(q.tried) <= 1
                      /\ q.pc \in {"picked", "waiting"} => Cardinality(q.tried) = q.attempt + 1
                      /\ q.dirty => q.pc \notin {"picking", "picked"}
    BY DEF RetriesSound
  <2>1. PICK q : q = req[r]
    OBVIOUS
  <2>2. q \in Request /\ Counted(q) /\ Told(q) /\ q.attempt \in Nat
    BY <2>1, RequestFields DEF ForwardInv, RequestsOK, ReqOK
  <2>3. q.pc \in {"new", "picking"} \cup Busy \cup Ended
    BY <2>2 DEF Request, Busy, Ended
  <2>4. Cardinality({}) = 0
    BY FS_EmptySet
  <2>5. Cardinality(q.tried) <= MaxRetries + 1 /\ (q.pc \notin Ended /\ ~q.replay => Cardinality(q.tried) <= 1)
    <3>0. q.replay \in BOOLEAN /\ (q.attempt > 0 => q.replay) /\ q.attempt <= MaxRetries
      BY <2>2, RequestFields DEF Counted
    <3>1. CASE q.pc = "new"
      <4>1. q.tried = {}
        BY <2>2, <3>1 DEF Counted
      <4>2. Cardinality(q.tried) = 0
        BY <2>4, <4>1
      <4> QED BY <4>2, ForwardAssumption
    <3>2. CASE q.pc = "picking"
      <4>1. Cardinality(q.tried) = q.attempt
        BY <2>2, <3>2 DEF Counted
      <4> QED BY <2>2, <3>0, <4>1, ForwardAssumption
    <3>3. CASE q.pc \in Busy
      <4>1. Cardinality(q.tried) = q.attempt + 1
        BY <2>2, <3>3 DEF Counted
      <4> QED BY <2>2, <3>0, <4>1, ForwardAssumption
    <3>4. CASE q.pc \in Ended
      BY <2>2, <3>4 DEF Counted
    <3> QED BY <2>3, <3>1, <3>2, <3>3, <3>4
  <2>6. q.pc \in {"picked", "waiting"} => Cardinality(q.tried) = q.attempt + 1
    BY <2>2 DEF Counted, Busy
  <2>7. q.dirty => q.pc \notin {"picking", "picked"}
    BY <2>2 DEF Told
  <2> QED BY <2>1, <2>5, <2>6, <2>7
<1> QED BY <1>1, Invariance, PTL

\* 503 is only told to a visitor whose request reached no backend, 502 only to one
\* whose request failed on one and who was sent nothing (handler.go forward).
THEOREM StatusIsHonest == Spec => []StatusHonest
<1>1. ForwardInv => StatusHonest
  BY DEF ForwardInv, RequestsOK, ReqOK, Told, StatusHonest
<1> QED BY <1>1, Invariance, PTL

\* Only RecordFail trips an ejection.
LEMMA OnlyRecordFailTrips ==
    ASSUME TypeInv, [Next]_vars, NEW r \in Req, req[r].pc = "failed", req'[r].pc = "tripped"
    PROVE  RecordFail(r)
<1>1. ASSUME NEW s \in Req, NEW q, req' = [req EXCEPT ![s] = q], req[s].pc # "failed"
      PROVE  FALSE
  BY <1>1 DEF TypeInv
<1>2. req' # req
  OBVIOUS
<1>3. \A s \in Req : req[s] \in Request
  BY DEF TypeInv
<1>4. ASSUME NEW s \in Req, Step(s)
      PROVE  RecordFail(r)
  <2>1. ASSUME NEW replay \in BOOLEAN, Arrive(s, replay) PROVE FALSE
    BY <1>1, <2>1 DEF Arrive
  <2>2. ASSUME NEW u \in Upstreams, Scan(s, u) PROVE FALSE
    <3>1. req[s].pc = "picking" /\ req'[r] = IF s = r THEN req'[s] ELSE req[r]
      BY <2>2 DEF Scan, TypeInv
    <3> QED BY <3>1
  <2>3. ASSUME NEW u \in Upstreams, Select(s, u) PROVE FALSE
    BY <1>1, <2>3 DEF Select
  <2>4. CASE NoCandidate(s)
    BY <1>1, <2>4 DEF NoCandidate
  <2>5. CASE Acquire(s)
    BY <1>1, <2>5 DEF Acquire
  <2>6. CASE Interim(s)
    BY <1>1, <2>6 DEF Interim
  <2>7. CASE Respond(s)
    BY <1>1, <2>7 DEF Respond
  <2>8. ASSUME NEW gone \in BOOLEAN, Fail(s, gone) PROVE FALSE
    <3>1. req[s].pc = "waiting"
      BY <1>3, <2>8 DEF Fail, Request
    <3> QED BY <1>1, <2>8, <3>1 DEF Fail
  <2>9. CASE Abort(s)
    BY <1>1, <2>9 DEF Abort
  <2>10. CASE RecordOk(s)
    BY <1>1, <2>10 DEF RecordOk
  <2>11. CASE RecordClear(s)
    BY <1>1, <2>11 DEF RecordClear
  <2>12. CASE RecordFail(s)
    <3>1. s = r
      BY <2>12 DEF RecordFail, TypeInv
    <3> QED BY <2>12, <3>1
  <2>13. CASE RecordTrip(s)
    BY <1>1, <2>13 DEF RecordTrip
  <2>14. CASE RecordEject(s)
    BY <1>1, <2>14 DEF RecordEject
  <2> QED BY <1>4, <2>1, <2>2, <2>3, <2>4, <2>5, <2>6, <2>7, <2>8, <2>9, <2>10, <2>11, <2>12,
             <2>13, <2>14 DEF Step, Attempt, Refuse, Hangup
<1>5. ASSUME NEW u \in Upstreams, ProbeFlip(u) PROVE FALSE
  BY <1>2, <1>5 DEF ProbeFlip
<1>6. ASSUME NEW cfg \in Configs, Build(cfg) PROVE FALSE
  BY <1>2, <1>6 DEF Build
<1>7. ~(Publish \/ Tick \/ UNCHANGED vars)
  BY <1>2 DEF Publish, Tick, vars
<1> QED BY <1>4, <1>5, <1>6, <1>7 DEF Next

\* An ejection is tripped by MaxFails failures with no success between them, and
\* no backend is out for longer than EjectFor from now (backend.go
\* RecordProxyResult), whatever a reload inherits.
THEOREM EjectionIsSound == Spec => EjectionSound
<1>1. ForwardInv => \A g \in DOMAIN pools : \A u \in DOMAIN pools[g] : pools[g][u].until <= now + EjectFor
  BY DEF ForwardInv, BackendsOK, BackendOK
<1>2. ForwardInv /\ ForwardInv' /\ [Next]_vars =>
        \A r \in Req : req[r].pc = "failed" /\ req'[r].pc = "tripped"
            => streak'[req[r].gen][req[r].cur] >= MaxFails
  <2> SUFFICES ASSUME ForwardInv, [Next]_vars, NEW r \in Req,
                      req[r].pc = "failed", req'[r].pc = "tripped"
               PROVE  streak'[req[r].gen][req[r].cur] >= MaxFails
    OBVIOUS
  <2>1. RecordFail(r)
    BY OnlyRecordFailTrips DEF ForwardInv
  <2>2. PICK g, u, k, f : g = req[r].gen /\ u = req[r].cur /\ k = streak[g][u] /\ f = pools[g][u].fails
    OBVIOUS
  <2>3. /\ req[r] \in Request /\ ReqOK(req[r], pools, now)
        /\ pools[g][u] \in BackendState /\ BackendOK(pools[g][u], k, now) /\ k \in Nat
        /\ g \in DOMAIN pools /\ u \in DOMAIN pools[g]
    BY <2>2, RecordFrom, BusyPlaced DEF Busy
  <2>4. f \in Nat /\ f + 1 >= MaxFails
    <3>1. f \in Nat /\ CountFail(pools[g][u]).fails = f + 1
      BY <2>2, <2>3 DEF CountFail, BackendState
    <3>2. AfterFailure(req[r]).pc # "tripped"
      BY <2>3, AfterFailureOK DEF ForwardInv, Busy
    <3>3. req'[r] = IF CountFail(pools[g][u]).fails < MaxFails THEN AfterFailure(req[r])
                    ELSE [req[r] EXCEPT !.pc = "tripped"]
      BY <2>1, <2>2 DEF RecordFail, ForwardInv, TypeInv
    <3> QED BY <3>1, <3>2, <3>3, ForwardAssumption
  <2>5. streak'[g][u] = Capped(k + 1, MaxFails)
    <3>1. g \in 1 .. MaxGen /\ u \in Upstreams
      BY <2>3, BackendOf
    <3> QED BY <2>1, <2>2, <3>1 DEF RecordFail, ForwardInv, TypeInv, History
  <2>6. f <= k \/ MaxFails <= k
    BY <2>2, <2>3 DEF BackendOK
  <2>7. Capped(k + 1, MaxFails) >= MaxFails
    BY <2>3, <2>4, <2>6, ForwardAssumption DEF Capped
  <2> QED BY <2>2, <2>5, <2>7
<1> QED BY <1>1, <1>2, Invariance, PTL DEF Spec, EjectionSound

=============================================================================
