--------------------------- MODULE CheckerProofs ---------------------------
(***************************************************************************)
(* Theorems about Checker, for any number of reloads: the goroutines that  *)
(* may be probing are those of one checker, the running one or the one     *)
(* Close waits for, and what its probes make of the pools is what alerts   *)
(* and falls are owed to.                                                  *)
(***************************************************************************)
EXTENDS Checker, FiniteSetTheorems, SequenceTheorems, TLAPS

ProbeStates == {"idle", "asking", "ok", "fail", "wentUp", "wentDown", "notify"}

LockType ==
    /\ gen \in Gens
    /\ reload \in [pc : {"idle", "inherit", "lock", "sync", "stopping"},
                   todo : SUBSET Upstreams, half : Upstreams \cup {NoUpstream}]
    /\ reload.pc = "inherit" => gen < MaxGen
    /\ running \in Gens \cup {0} /\ closing \in Gens \cup {0}
    /\ closer \in {"idle", "stopping", "closed"}
    /\ loop \in [Gens -> {"none", "round", "select", "exited"}]
    /\ probe \in [Gens -> [Upstreams -> ProbeStates]]

Probes(g) == loop[g] \in {"round", "select"}

\* Sync and Close exclude each other: mu is held from Sync's test of closed until
\* the new checker runs, and Close leaves nothing running behind.
ExclusiveInv ==
    /\ LockType
    /\ mu = "sync" <=> reload.pc \in {"sync", "stopping"}
    /\ closer # "idle" => running = 0 /\ mu # "sync"
    /\ closer = "closed" => Stopped(closing)
    /\ \A g \in Gens : Probes(g) => g = Holder
    /\ \A g \in Gens : loop[g] # "round" => probe[g] = Quiet

LEMMA QuietType == Quiet \in [Upstreams -> ProbeStates] /\ \A g : Ask(g) \in [Upstreams -> ProbeStates]
  BY DEF Quiet, Ask, ProbeStates

LEMMA ExclusiveInit == Init => ExclusiveInv
<1> SUFFICES ASSUME Init PROVE ExclusiveInv
  OBVIOUS
<1>1. 1 \in Gens
  BY CheckerAssumption DEF Gens
<1>2. LockType
  BY <1>1, QuietType DEF Init, LockType
<1> QED BY <1>1, <1>2 DEF Init, ExclusiveInv, Probes, Holder

\* A step that only moves one checker's probes along.
LEMMA ProbeMoves ==
    ASSUME ExclusiveInv, NEW g \in Gens, NEW u \in Upstreams, NEW p \in ProbeStates,
           probe[g][u] # "idle", probe' = [probe EXCEPT ![g][u] = p],
           UNCHANGED <<reload, gen, mu, running, closer, closing, loop>>
    PROVE  ExclusiveInv'
<1>1. LockType'
  BY DEF ExclusiveInv, LockType
<1>2. loop[g] = "round"
  BY DEF ExclusiveInv, Quiet
<1>3. \A h \in Gens : loop'[h] # "round" => probe'[h] = Quiet
  BY <1>2 DEF ExclusiveInv, LockType, Quiet
<1> QED BY <1>1, <1>3 DEF ExclusiveInv, Probes, Holder, Stopped

LEMMA ExclusiveNext == ExclusiveInv /\ [Next]_vars => ExclusiveInv'
<1> SUFFICES ASSUME ExclusiveInv, [Next]_vars PROVE ExclusiveInv'
  OBVIOUS
<1> USE DEF history, poolVars, lockVars
<1>1. ASSUME NEW g \in Gens, Probing(g) PROVE ExclusiveInv'
  <2>1. ASSUME NEW u \in Upstreams, NEW result \in {"ok", "fail"}, Answer(g, u, result)
        PROVE  ExclusiveInv'
    BY <2>1, ProbeMoves DEF Answer, ProbeStates
  <2>2. ASSUME NEW u \in Upstreams, Discard(g, u) PROVE ExclusiveInv'
    BY <2>2, ProbeMoves DEF Discard, Discarded, ProbeStates
  <2>3. ASSUME NEW u \in Upstreams, Record(g, u) PROVE ExclusiveInv'
    <3>1. PICK p \in ProbeStates : probe' = [probe EXCEPT ![g][u] = p]
      BY <2>3 DEF Record, ProbeStates
    <3>2. probe[g][u] # "idle" /\ UNCHANGED <<reload, gen, mu, running, closer, closing, loop>>
      BY <2>3 DEF Record
    <3> QED BY <3>1, <3>2, ProbeMoves
  <2>4. ASSUME NEW u \in Upstreams, RaiseUp(g, u) \/ RaiseDown(g, u) \/ RaiseOutage(g, u)
        PROVE  ExclusiveInv'
    BY <2>4, ProbeMoves DEF RaiseUp, RaiseDown, RaiseOutage, ProbeStates
  <2>5. CASE Round(g)
    <3>1. LockType'
      BY <2>5, QuietType DEF Round, ExclusiveInv, LockType
    <3>2. \A h \in Gens : loop'[h] # "round" => probe'[h] = Quiet
      BY <2>5 DEF Round, ExclusiveInv, LockType
    <3> QED BY <2>5, <3>1, <3>2 DEF Round, ExclusiveInv, LockType, Probes, Holder, Stopped
  <2>6. CASE EndRound(g)
    <3>1. LockType'
      BY <2>6 DEF EndRound, ExclusiveInv, LockType
    <3>2. probe[g] = Quiet
      BY <2>6 DEF EndRound, RoundOver, ExclusiveInv, LockType, Quiet
    <3>3. \A h \in Gens : loop'[h] # "round" => probe'[h] = Quiet
      BY <2>6, <3>2 DEF EndRound, ExclusiveInv, LockType
    <3> QED BY <2>6, <3>1, <3>3
            DEF EndRound, RoundOver, ExclusiveInv, LockType, Probes, Holder, Stopped
  <2>7. CASE Exit(g)
    <3>1. LockType'
      BY <2>7 DEF Exit, ExclusiveInv, LockType
    <3> QED BY <2>7, <3>1 DEF Exit, ExclusiveInv, LockType, Probes, Holder, Stopped
  <2> QED BY <1>1, <2>1, <2>2, <2>3, <2>4, <2>5, <2>6, <2>7 DEF Probing
<1>2. CASE Reloading
  <2>1. ASSUME NEW cfg \in Configs, NEW on \in BOOLEAN, BeginReload(cfg, on) PROVE ExclusiveInv'
    <3>1. reload' \in [pc : {"inherit"}, todo : SUBSET Upstreams, half : {NoUpstream}]
      BY <2>1, CheckerAssumption DEF BeginReload
    <3> QED BY <2>1, <3>1 DEF BeginReload, ExclusiveInv, LockType, Probes, Holder, Stopped
  <2>2. ASSUME NEW u \in Upstreams, InheritHealth(u) \/ InheritStreaks(u) PROVE ExclusiveInv'
    <3>2. UNCHANGED <<gen, mu, running, closer, closing, loop, probe>>
      BY <2>2 DEF InheritHealth, InheritStreaks
    <3>1. reload'.pc = reload.pc /\ LockType'
      <4>1. CASE InheritHealth(u)
        <5>1. reload' = [reload EXCEPT !.half = u]
          BY <4>1 DEF InheritHealth
        <5>2. reload'.pc = reload.pc /\ reload' \in [pc : {"idle", "inherit", "lock", "sync", "stopping"},
                                 todo : SUBSET Upstreams, half : Upstreams \cup {NoUpstream}]
          BY <5>1 DEF ExclusiveInv, LockType
        <5> QED BY <3>2, <5>2 DEF ExclusiveInv, LockType
      <4>2. CASE InheritStreaks(u)
        <5>1. reload' = [reload EXCEPT !.half = NoUpstream, !.todo = reload.todo \ {u}]
          BY <4>2 DEF InheritStreaks
        <5>2. reload.todo \ {u} \in SUBSET Upstreams
          BY DEF ExclusiveInv, LockType
        <5>3. reload'.pc = reload.pc
              /\ reload' \in [pc : {"idle", "inherit", "lock", "sync", "stopping"},
                              todo : SUBSET Upstreams, half : Upstreams \cup {NoUpstream}]
          BY <5>1, <5>2 DEF ExclusiveInv, LockType
        <5> QED BY <3>2, <5>3 DEF ExclusiveInv, LockType
      <4> QED BY <2>2, <4>1, <4>2
    <3> QED BY <3>1, <3>2 DEF ExclusiveInv, LockType, Probes, Holder, Stopped
  <2>3. CASE Publish
    <3>1. reload'.pc = "lock" /\ gen' \in Gens
      BY <2>3, CheckerAssumption DEF Publish, ExclusiveInv, LockType, Gens
    <3> QED BY <2>3, <3>1 DEF Publish, ExclusiveInv, LockType, Probes, Holder, Stopped
  <2>4. CASE SyncLock
    <3>1. \/ closer = "idle" /\ mu' = "sync" /\ reload'.pc = "sync"
          \/ closer # "idle" /\ mu' = "free" /\ reload'.pc = "idle"
      BY <2>4 DEF SyncLock, ExclusiveInv, LockType
    <3> QED BY <2>4, <3>1 DEF SyncLock, ExclusiveInv, LockType, Probes, Holder, Stopped
  <2>5. CASE SyncStop
    <3>1. reload'.pc = "stopping"
      BY <2>5 DEF SyncStop, ExclusiveInv, LockType
    <3> QED BY <2>5, <3>1 DEF SyncStop, ExclusiveInv, LockType, Probes, Holder, Stopped
  <2>6. CASE SyncStart
    <3>1. closer = "idle" /\ reload'.pc = "idle" /\ mu' = "free" /\ Stopped(running)
          /\ UNCHANGED <<gen, closer, closing>> /\ reload' = [reload EXCEPT !.pc = "idle"]
      BY <2>6 DEF SyncStart, ExclusiveInv, LockType
    <3>2. PICK on \in BOOLEAN :
            /\ running' = IF on THEN gen ELSE 0
            /\ loop' = [loop EXCEPT ![gen] = IF on THEN "round" ELSE "none"]
            /\ probe' = [probe EXCEPT ![gen] = IF on THEN Ask(gen) ELSE Quiet]
      BY <2>6 DEF SyncStart
    <3>3. LockType'
      BY <3>1, <3>2, QuietType DEF ExclusiveInv, LockType
    <3>4. \A h \in Gens : ~Probes(h)
      BY <3>1 DEF ExclusiveInv, Probes, Holder, Stopped, Gens
    <3>5. \A h \in Gens : Probes(h)' => h = Holder'
      BY <3>1, <3>2, <3>4 DEF ExclusiveInv, LockType, Probes, Holder
    <3>6. \A h \in Gens : loop'[h] # "round" => probe'[h] = Quiet
      BY <3>2 DEF ExclusiveInv, LockType
    <3> QED BY <3>1, <3>3, <3>5, <3>6 DEF ExclusiveInv
  <2> QED BY <1>2, <2>1, <2>2, <2>3, <2>4, <2>5, <2>6 DEF Reloading
<1>3. CASE Close
  BY <1>3 DEF Close, ExclusiveInv, LockType, Probes, Holder, Stopped, Gens
<1>4. CASE Closed
  BY <1>4 DEF Closed, ExclusiveInv, LockType, Probes, Holder, Stopped
<1>5. ASSUME NEW u \in Upstreams, Flip(u) \/ PassiveEject(u) \/ PassiveLapse(u) PROVE ExclusiveInv'
  BY <1>5 DEF Flip, PassiveEject, PassiveLapse, ExclusiveInv, LockType, Probes, Holder, Stopped
<1>6. CASE UNCHANGED vars
  BY <1>6 DEF vars, ExclusiveInv, LockType, Probes, Holder, Stopped
<1> QED BY <1>1, <1>2, <1>3, <1>4, <1>5, <1>6 DEF Next

\* Whatever Sync, Close and the probing goroutines do, and however often the
\* configuration is reloaded, the probes in flight belong to one checker, and to
\* none once Close has returned (checker.go Sync, stop, Close).
THEOREM ProbesAreExclusive == Spec => []ProbesExclusive
<1>1. ExclusiveInv => ProbesExclusive
  <2> SUFFICES ASSUME ExclusiveInv PROVE ProbesExclusive
    OBVIOUS
  <2> DEFINE Active == {g \in Gens : loop[g] \in {"round", "select"}}
  <2>1. Active \subseteq {Holder}
    BY DEF ExclusiveInv, Probes
  <2>2. Cardinality(Active) <= 1
    <3>1. IsFiniteSet({Holder}) /\ Cardinality({Holder}) = 1
      BY FS_Singleton
    <3> QED BY <2>1, <3>1, FS_Subset
  <2>3. ASSUME closer = "closed" PROVE Active = {} /\ \A g \in Gens : probe[g] = Quiet
    <3>1. \A g \in Gens : ~Probes(g)
      BY <2>3 DEF ExclusiveInv, Probes, Holder, Stopped, Gens
    <3> QED BY <3>1 DEF ExclusiveInv, Probes
  <2> QED BY <2>2, <2>3 DEF ProbesExclusive
<1> QED BY <1>1, ExclusiveInit, ExclusiveNext, PTL DEF Spec

-----------------------------------------------------------------------------
(* What the probes make of the pools. *)

CappedState == {b \in BackendState : b.failStreak <= UnhealthyThreshold}
Pool == UNION {[us -> CappedState] : us \in SUBSET Upstreams}

\* What will have been told last of a backend whose probe is at pr.
Will(pr, td) == IF pr = "wentUp" THEN "up" ELSE IF pr = "wentDown" THEN "down" ELSE td

\* Of a backend b whose probe, by the checker that runs, is at pr: its own count of
\* failures is not ahead of the n real ones, nor one behind that has come in and will
\* be recorded, and td, said of it last, is true but for what is about to be said.
Timely(b, pr, n) == pr = "ok" \/ b.failStreak <= n
Ready(b, pr, n) == pr = "fail" => b.failStreak + 1 <= n \/ UnhealthyThreshold <= n
Agrees(b, pr, td) == Will(pr, td) = "up" <=> b.healthy

\* Only enabled backends are probed, and what is about to be said is true.
Sane(b, pr) == /\ ~b.enabled => pr = "idle"
               /\ (pr = "wentUp" => b.healthy) /\ (pr = "wentDown" => ~b.healthy)

HistoryType ==
    /\ failRun \in [Upstreams -> Nat] /\ told \in [Upstreams -> {"up", "down"}]
    /\ outage \in BOOLEAN /\ fell \in BOOLEAN
    /\ missed \in [Gens -> SUBSET Upstreams] /\ crossed \in [Gens -> SUBSET Upstreams]

PoolsType ==
    /\ pools \in Seq(Pool)
    /\ Len(pools) = IF reload.pc = "inherit" THEN gen + 1 ELSE gen
    /\ Holder <= gen
    /\ closer = "idle" =>
          IF reload.pc \in {"idle", "inherit"} THEN running \in {0, gen} ELSE running < gen
    /\ reload.pc = "inherit" =>
          /\ reload.todo \subseteq DOMAIN pools[gen] \cap DOMAIN pools[gen + 1]
          /\ reload.half # NoUpstream => reload.half \in reload.todo

\* The pools that may come to be probed: the published one and the next.
Copies ==
    IF closer # "idle" THEN {}
    ELSE {gen} \cup (IF reload.pc = "inherit" THEN {gen + 1} ELSE {})

\* The health of u is still to be copied into pool h.
Uncopied(h, u) == h = gen + 1 /\ u \in reload.todo /\ u # reload.half

Pending(u) == IF Holder = 0 THEN "idle" ELSE probe[Holder][u]

\* A backend of pool g, which is being probed.
OwnOK(g, b, u, pr, n, td) ==
    /\ Sane(b, pr)
    /\ u \in missed[g] \/ (Timely(b, pr, n) /\ (g \in cancelled \/ Ready(b, pr, n)))
    /\ u \in crossed[g] \/ Agrees(b, pr, td)

\* A backend of pool h, which is or may come to be probed.
KinOK(h, b, u, pr, n, td) ==
    /\ u \in missed[h] \/ Timely(b, pr, n)
    /\ u \in crossed[h] \/ Uncopied(h, u) \/ Agrees(b, pr, td)

OwnInv ==
    Holder # 0 => \A u \in Upstreams :
        IF u \in DOMAIN pools[Holder]
        THEN OwnOK(Holder, pools[Holder][u], u, probe[Holder][u], failRun[u], told[u])
        ELSE probe[Holder][u] = "idle"

KinInv ==
    \A h \in Copies : \A u \in DOMAIN pools[h] :
        KinOK(h, pools[h][u], u, Pending(u), failRun[u], told[u])

\* An outage is announced, or the announcement is on its way.
OutageOK ==
    Holder # 0 /\ fell
    /\ (\E u \in DOMAIN pools[Holder] : pools[Holder][u].enabled)
    /\ (\A u \in DOMAIN pools[Holder] : pools[Holder][u].enabled => ~pools[Holder][u].healthy)
    => outage \/ \E u \in DOMAIN pools[Holder] : probe[Holder][u] \in {"wentDown", "notify"}

RunInv == ExclusiveInv /\ HistoryType /\ PoolsType /\ OwnInv /\ KinInv /\ OutageOK

\* g is f but for x at u.
At(f, g, S, u, x) == \A v \in S : g[v] = IF v = u THEN x ELSE f[v]

Set(ps, g, u, b) == [ps EXCEPT ![g][u] = b]

\* The pools in qs are those in ps but for the backend of u in pool g.
PoolMoves(ps, qs, g, u, b) ==
    /\ qs \in Seq(Pool) /\ Len(qs) = Len(ps) /\ DOMAIN qs = DOMAIN ps
    /\ \A h \in DOMAIN ps : h # g => qs[h] = ps[h]
    /\ DOMAIN qs[g] = DOMAIN ps[g] /\ At(ps[g], qs[g], DOMAIN ps[g], u, b)

LEMMA Same == ASSUME NEW S, NEW f, NEW u PROVE At(f, f, S, u, f[u])
  BY DEF At

LEMMA PoolSets ==
    ASSUME NEW ps \in Seq(Pool), NEW g \in DOMAIN ps, NEW u \in DOMAIN ps[g], NEW b \in CappedState
    PROVE  PoolMoves(ps, Set(ps, g, u, b), g, u, b)
<1>0. ps[g] \in Pool
  BY ElementOfSeq, LenProperties
<1>1. PICK us \in SUBSET Upstreams : ps[g] \in [us -> CappedState]
  BY <1>0 DEF Pool
<1>2. PICK q : q = [ps[g] EXCEPT ![u] = b]
  OBVIOUS
<1>3. q \in [us -> CappedState] /\ DOMAIN q = DOMAIN ps[g] /\ At(ps[g], q, DOMAIN ps[g], u, b)
  BY <1>1, <1>2 DEF At
<1>4. q \in Pool
  BY <1>3 DEF Pool
<1>5. Set(ps, g, u, b) = [ps EXCEPT ![g] = q]
  BY <1>2 DEF Set
<1>6. PICK qs : qs = [ps EXCEPT ![g] = q]
  OBVIOUS
<1>7. /\ qs \in Seq(Pool) /\ Len(qs) = Len(ps) /\ DOMAIN qs = DOMAIN ps /\ qs[g] = q
      /\ \A h \in DOMAIN ps : h # g => qs[h] = ps[h]
  BY <1>4, <1>6, ExceptSeq, LenProperties
<1>8. PoolMoves(ps, qs, g, u, b)
  BY <1>3, <1>7 DEF PoolMoves
<1> QED BY <1>5, <1>6, <1>8

LEMMA PoolFacts ==
    ASSUME PoolsType, NEW h \in DOMAIN pools
    PROVE  /\ DOMAIN pools[h] \in SUBSET Upstreams
           /\ \A u \in DOMAIN pools[h] : pools[h][u] \in CappedState /\ pools[h][u] \in BackendState
<1>1. pools[h] \in Pool
  BY ElementOfSeq, LenProperties DEF PoolsType
<1> QED BY <1>1 DEF Pool, CappedState

LEMMA GenFacts ==
    ASSUME ExclusiveInv, PoolsType
    PROVE  /\ gen \in Gens /\ gen \in Nat /\ gen \in DOMAIN pools /\ gen <= Len(pools)
           /\ DOMAIN pools = 1 .. Len(pools) /\ Len(pools) \in Nat
           /\ Holder \in Nat /\ Holder <= gen
           /\ Holder # 0 => Holder \in Gens /\ Holder \in DOMAIN pools
           /\ reload.pc = "inherit" => gen + 1 \in Gens /\ gen + 1 \in DOMAIN pools
           /\ \A h \in Copies : h \in Gens /\ h \in DOMAIN pools /\ h >= Holder
<1>1. gen \in Gens /\ Holder \in Gens \cup {0} /\ (reload.pc = "inherit" => gen < MaxGen)
  BY DEF ExclusiveInv, LockType, Holder
<1>2. DOMAIN pools = 1 .. Len(pools) /\ Len(pools) \in Nat
  BY LenProperties DEF PoolsType
<1>3. gen \in Nat /\ gen >= 1 /\ Holder \in Nat /\ MaxGen \in Nat
  BY <1>1, CheckerAssumption DEF Gens
<1>4. Holder <= gen /\ Len(pools) = IF reload.pc = "inherit" THEN gen + 1 ELSE gen
  BY DEF PoolsType
<1>5. reload.pc = "inherit" => gen + 1 \in Gens /\ gen + 1 \in DOMAIN pools
  BY <1>1, <1>2, <1>3, <1>4 DEF Gens
<1>6. gen \in DOMAIN pools /\ gen <= Len(pools) /\ (Holder # 0 => Holder \in DOMAIN pools)
  BY <1>2, <1>3, <1>4
<1>7. \A h \in Copies : h \in Gens /\ h \in DOMAIN pools /\ h >= Holder
  BY <1>1, <1>3, <1>4, <1>5, <1>6 DEF Copies
<1> QED BY <1>1, <1>2, <1>3, <1>4, <1>5, <1>6, <1>7

\* What is kept of the other backends stays.
Elsewhere(f, ft, u) == \A h \in Gens : \A v \in Upstreams \ {u} : v \in ft[h] <=> v \in f[h]

\* The copies of u are marked, or those that were are.
Marked(ft, g, u) == \A h \in Gens : h > g /\ h \in DOMAIN pools => u \in ft[h]
StillMarked(f, ft, u) == \A h \in Gens : u \in f[h] => u \in ft[h]

TimelyKept(pr, n, pt, nt) == \A b \in CappedState : Timely(b, pr, n) => Timely(b, pt, nt)
AgreesKept(pr, td, pt, tt) == \A b \in CappedState : Agrees(b, pr, td) => Agrees(b, pt, tt)

LEMMA NoMarks == ASSUME NEW f, NEW u PROVE Elsewhere(f, f, u) /\ StillMarked(f, f, u)
  BY DEF Elsewhere, StillMarked

LEMMA AllMarks ==
    ASSUME ExclusiveInv, PoolsType, NEW f \in [Gens -> SUBSET Upstreams],
           NEW g \in Gens, NEW u \in Upstreams, NEW o, o = Outdates(f, g, u)
    PROVE  /\ Elsewhere(f, o, u) /\ Marked(o, g, u) /\ u \notin o[g]
           /\ o \in [Gens -> SUBSET Upstreams]
<1>2. \A h \in Gens : o[h] = IF h = g THEN f[h] \ {u}
                            ELSE IF h \in (g + 1) .. Len(pools) THEN f[h] \cup {u} ELSE f[h]
  BY DEF Outdates
<1>3. Marked(o, g, u)
  <2>1. \A h \in Gens : h > g /\ h \in DOMAIN pools => h # g /\ h \in (g + 1) .. Len(pools)
    BY GenFacts DEF Gens
  <2> QED BY <1>2, <2>1 DEF Marked
<1>4. Elsewhere(f, o, u)
  <2>1. \A h \in Gens : \A v \in Upstreams \ {u} : v \in o[h] <=> v \in f[h]
    BY <1>2
  <2> QED BY <2>1 DEF Elsewhere
<1>5. o \in [Gens -> SUBSET Upstreams]
  BY DEF Outdates
<1> QED BY <1>2, <1>3, <1>4, <1>5

\* A probe, its backend and what is kept of it change together.
LEMMA HolderMoves ==
    ASSUME RunInv, NEW g, g = Holder, g # 0, NEW u \in DOMAIN pools[g],
           NEW b, NEW pr, NEW n, NEW td,
           PoolMoves(pools, pools', g, u, b), At(probe[g], probe'[g], Upstreams, u, pr),
           At(failRun, failRun', Upstreams, u, n), At(told, told', Upstreams, u, td),
           UNCHANGED <<reload, gen, running, closer, closing, cancelled>>,
           Elsewhere(missed, missed', u), Elsewhere(crossed, crossed', u),
           Sane(b, pr),
           u \in missed'[g] \/ (Timely(b, pr, n) /\ (g \in cancelled \/ Ready(b, pr, n))),
           u \in crossed'[g] \/ Agrees(b, pr, td),
           Marked(missed', g, u)
              \/ (StillMarked(missed, missed', u) /\ TimelyKept(probe[g][u], failRun[u], pr, n)),
           Marked(crossed', g, u)
              \/ (StillMarked(crossed, crossed', u) /\ AgreesKept(probe[g][u], told[u], pr, td))
    PROVE  PoolsType' /\ OwnInv' /\ KinInv'
<1>1. /\ ExclusiveInv /\ PoolsType /\ OwnInv /\ KinInv /\ Holder' = g /\ Copies' = Copies
      /\ g \in Gens /\ g \in DOMAIN pools
  BY GenFacts DEF RunInv, Holder, Copies
<1>2. DOMAIN pools[g] \in SUBSET Upstreams /\ u \in Upstreams
  BY <1>1, PoolFacts
<1>3. DOMAIN pools' = DOMAIN pools /\ \A h \in DOMAIN pools : DOMAIN pools'[h] = DOMAIN pools[h]
  BY DEF PoolMoves
<1>4. PoolsType'
  <2>1. reload.pc = "inherit" => gen \in DOMAIN pools /\ gen + 1 \in DOMAIN pools
    BY <1>1, GenFacts
  <2> QED BY <1>1, <1>3, <2>1 DEF PoolsType, PoolMoves
<1>5. ASSUME NEW v \in Upstreams, v # u
      PROVE  probe'[g][v] = probe[g][v] /\ failRun'[v] = failRun[v] /\ told'[v] = told[v]
  BY <1>5 DEF At
<1>6. ASSUME NEW v \in Upstreams
      PROVE  IF v \in DOMAIN pools'[g]
             THEN OwnOK(g, pools[g][v], v, probe[g][v], failRun[v], told[v])'
             ELSE probe'[g][v] = "idle"
  <2>1. CASE v = u
    <3>1. /\ probe'[g][v] = pr /\ failRun'[v] = n /\ told'[v] = td
          /\ v \in DOMAIN pools'[g] /\ pools'[g][v] = b /\ cancelled' = cancelled
      BY <1>1, <1>3, <2>1 DEF At, PoolMoves
    <3> QED BY <2>1, <3>1 DEF OwnOK
  <2>2. CASE v # u
    <3>1. (v \in missed'[g] <=> v \in missed[g]) /\ (v \in crossed'[g] <=> v \in crossed[g])
      BY <1>1, <2>2 DEF Elsewhere
    <3>2. v \in DOMAIN pools[g] => pools'[g][v] = pools[g][v]
      BY <2>2 DEF At, PoolMoves
    <3>3. IF v \in DOMAIN pools[g]
          THEN OwnOK(g, pools[g][v], v, probe[g][v], failRun[v], told[v])
          ELSE probe[g][v] = "idle"
      BY <1>1 DEF OwnInv
    <3>4. cancelled' = cancelled
      OBVIOUS
    <3> QED BY <1>1, <1>3, <1>5, <2>2, <3>1, <3>2, <3>3, <3>4 DEF OwnOK
  <2> QED BY <2>1, <2>2
<1>7. OwnInv'
  BY <1>1, <1>6 DEF OwnInv
<1>8. ASSUME NEW h \in Copies, NEW v \in DOMAIN pools'[h]
      PROVE  KinOK(h, pools[h][v], v, probe[g][v], failRun[v], told[v])'
  <2>0. h \in Gens /\ h \in DOMAIN pools /\ h >= g /\ v \in Upstreams /\ v \in DOMAIN pools[h]
    <3>1. h \in Gens /\ h \in DOMAIN pools /\ h >= g
      BY <1>1, GenFacts
    <3>2. v \in DOMAIN pools[h]
      BY <1>3, <3>1
    <3> QED BY <1>1, <3>1, <3>2, PoolFacts
  <2>9. Uncopied(h, v)' <=> Uncopied(h, v)
    BY DEF Uncopied
  <2>1. CASE h = g
    <3>1. OwnOK(g, pools[g][v], v, probe[g][v], failRun[v], told[v])'
      BY <1>6, <2>0, <2>1
    <3> QED BY <2>1, <3>1 DEF OwnOK, KinOK
  <2>2. CASE h # g
    <3>1. pools'[h][v] = pools[h][v] /\ pools[h][v] \in CappedState /\ h > g
      <4>1. g \in Nat /\ h \in Nat
        BY <1>1, <2>0 DEF Gens
      <4> QED BY <1>1, <2>0, <2>2, <4>1, PoolFacts DEF PoolMoves
    <3>2. KinOK(h, pools[h][v], v, probe[g][v], failRun[v], told[v])
      <4>1. Pending(v) = probe[g][v]
        BY DEF Pending
      <4> QED BY <1>1, <2>0, <4>1 DEF KinInv
    <3>3. CASE v = u
      <4>1. probe'[g][v] = pr /\ failRun'[v] = n /\ told'[v] = td
        BY <2>0, <3>3 DEF At
      <4>2. u \in missed'[h] \/ Timely(pools[h][u], pr, n)
        BY <2>0, <3>1, <3>2, <3>3 DEF KinOK, Marked, StillMarked, TimelyKept
      <4>3. u \in crossed'[h] \/ Uncopied(h, u) \/ Agrees(pools[h][u], pr, td)
        BY <2>0, <3>1, <3>2, <3>3 DEF KinOK, Marked, StillMarked, AgreesKept
      <4> QED BY <2>9, <3>1, <3>3, <4>1, <4>2, <4>3 DEF KinOK
    <3>4. CASE v # u
      <4>1. (v \in missed[h] => v \in missed'[h]) /\ (v \in crossed[h] => v \in crossed'[h])
        BY <2>0, <3>4 DEF Elsewhere
      <4> QED BY <1>5, <2>0, <2>9, <3>1, <3>2, <3>4, <4>1 DEF KinOK
    <3> QED BY <3>3, <3>4
  <2> QED BY <2>1, <2>2
<1>9. KinInv'
  <2>1. \A v : Pending(v)' = probe'[g][v]
    BY <1>1 DEF Pending
  <2> QED BY <1>1, <1>8, <2>1 DEF KinInv
<1> QED BY <1>4, <1>7, <1>9

\* A backend whose probe is under way is one of the pool that is being probed.
LEMMA Probed ==
    ASSUME RunInv, NEW g \in Gens, NEW u \in Upstreams, probe[g][u] # "idle"
    PROVE  /\ g = Holder /\ g # 0 /\ g \in DOMAIN pools /\ u \in DOMAIN pools[g]
           /\ pools[g][u] \in CappedState /\ pools[g][u].enabled
           /\ OwnOK(g, pools[g][u], u, probe[g][u], failRun[u], told[u])
           /\ PoolMoves(pools, pools, g, u, pools[g][u])
<1>1. g = Holder /\ g # 0
  <2>1. loop[g] = "round"
    BY DEF RunInv, ExclusiveInv, Quiet
  <2> QED BY <2>1 DEF RunInv, ExclusiveInv, Probes, Gens
<1>2. g \in DOMAIN pools
  BY <1>1, GenFacts DEF RunInv
<1>3. u \in DOMAIN pools[g] /\ OwnOK(g, pools[g][u], u, probe[g][u], failRun[u], told[u])
  BY <1>1 DEF RunInv, OwnInv
<1>4. pools[g][u] \in CappedState /\ pools[g][u].enabled
  BY <1>2, <1>3, PoolFacts DEF OwnOK, Sane, RunInv
<1>5. At(pools[g], pools[g], DOMAIN pools[g], u, pools[g][u])
  BY Same
<1> QED BY <1>1, <1>2, <1>3, <1>4, <1>5 DEF PoolMoves, RunInv, PoolsType

LEMMA ProbeAt ==
    ASSUME RunInv, NEW g \in Gens, NEW u \in Upstreams, NEW p, probe' = Set(probe, g, u, p)
    PROVE  At(probe[g], probe'[g], Upstreams, u, p)
  BY DEF RunInv, ExclusiveInv, LockType, At, Set, Gens

LEMMA FreshBackend ==
    ASSUME NEW on \in BOOLEAN
    PROVE  /\ NewBackend(on) \in CappedState /\ NewBackend(on).failStreak = 0
           /\ NewBackend(on).healthy
<1>1. PICK b : b = NewBackend(on)
  OBVIOUS
<1>2. b \in BackendState /\ b.failStreak = 0 /\ b.healthy
  BY <1>1 DEF NewBackend, BackendState
<1>3. 0 <= UnhealthyThreshold
  BY CheckerAssumption
<1> QED BY <1>1, <1>2, <1>3 DEF CappedState

LEMMA RunInit == Init => RunInv
<1> SUFFICES ASSUME Init PROVE RunInv
  OBVIOUS
<1>1. 1 \in Gens /\ Upstreams = DOMAIN failRun
  BY CheckerAssumption DEF Gens, Init
<1>2. PICK cfg \in Configs : pools = <<NewPool(cfg, [u \in {} |-> 0])>>
  BY DEF Init
<1>3. PICK p : p = NewPool(cfg, [u \in {} |-> 0])
  OBVIOUS
<1>4. /\ DOMAIN p = DOMAIN cfg /\ DOMAIN cfg \in SUBSET Upstreams
      /\ \A u \in DOMAIN cfg : p[u] = NewBackend(cfg[u]) /\ cfg[u] \in BOOLEAN
  BY <1>3, CheckerAssumption DEF NewPool
<1>5. \A u \in DOMAIN p : p[u] \in CappedState /\ p[u].failStreak = 0 /\ p[u].healthy
  BY <1>4, FreshBackend
<1>6. p \in [DOMAIN cfg -> CappedState]
  <2>1. p = [u \in DOMAIN cfg |-> p[u]]
    BY <1>3 DEF NewPool
  <2> QED BY <1>4, <1>5, <2>1
<1>7. p \in Pool
  BY <1>4, <1>6 DEF Pool
<1>8. /\ pools = <<p>> /\ pools \in Seq(Pool) /\ Len(pools) = 1 /\ pools[1] = p
  BY <1>2, <1>3, <1>7
<1>9. /\ Holder = 1 /\ gen = 1 /\ reload.pc = "idle" /\ closer = "idle" /\ running = 1
      /\ Copies = {1} /\ 1 \notin cancelled
  BY DEF Init, Holder, Copies
<1>10. /\ \A u \in Upstreams : /\ failRun[u] = 0 /\ told[u] = "up" /\ probe[1][u] = "idle"
                               /\ Pending(u) = "idle"
       /\ ~fell
  BY <1>1, <1>9 DEF Init, Quiet, Pending
<1>11. PoolsType
  BY <1>8, <1>9 DEF PoolsType
<1>12. HistoryType
  BY DEF Init, HistoryType
<1>13. OwnInv
  <2> SUFFICES ASSUME NEW u \in Upstreams
               PROVE  IF u \in DOMAIN pools[1]
                      THEN OwnOK(1, pools[1][u], u, probe[1][u], failRun[u], told[u])
                      ELSE probe[1][u] = "idle"
    BY <1>9 DEF OwnInv
  <2>1. u \in DOMAIN p => p[u].healthy /\ p[u].failStreak = 0
    BY <1>5
  <2> QED BY <1>8, <1>10, <2>1 DEF OwnOK, Sane, Timely, Ready, Agrees, Will
<1>14. KinInv
  <2> SUFFICES ASSUME NEW u \in DOMAIN pools[1]
               PROVE  KinOK(1, pools[1][u], u, Pending(u), failRun[u], told[u])
    BY <1>9 DEF KinInv
  <2>1. p[u].healthy /\ p[u].failStreak = 0 /\ u \in Upstreams
    BY <1>4, <1>5, <1>8
  <2> QED BY <1>8, <1>10, <2>1 DEF KinOK, Timely, Agrees, Will
<1> QED BY <1>10, <1>11, <1>12, <1>13, <1>14, ExclusiveInit DEF RunInv, OutageOK

\* An outage that is announced, or on its way, stays so while no backend moves.
LEMMA OutageKept ==
    ASSUME RunInv, Holder' = Holder, fell' = fell, outage' = outage, NEW g, g = Holder,
           g # 0 =>
             /\ DOMAIN pools'[g] = DOMAIN pools[g]
             /\ \A u \in DOMAIN pools[g] :
                  /\ pools'[g][u].enabled = pools[g][u].enabled
                  /\ pools'[g][u].healthy = pools[g][u].healthy
                  /\ probe[g][u] \in {"wentDown", "notify"}
                       => probe'[g][u] \in {"wentDown", "notify"}
    PROVE  OutageOK'
  BY DEF RunInv, OutageOK

\* The step that takes in what the upstream said.
LEMMA RunAnswer ==
    ASSUME RunInv, NEW g \in Gens, NEW u \in Upstreams, NEW result \in {"ok", "fail"},
           Answer(g, u, result)
    PROVE  HistoryType' /\ PoolsType' /\ OwnInv' /\ KinInv' /\ OutageOK'
<1> USE DEF history, poolVars, lockVars, copyHistory
<1>0. PICK n : n = IF result = "ok" THEN 0
                   ELSE IF ~alive[u] THEN Capped(failRun[u] + 1, UnhealthyThreshold)
                   ELSE failRun[u]
  OBVIOUS
<1>1. /\ probe[g][u] = "asking" /\ probe' = Set(probe, g, u, result)
      /\ failRun' = [failRun EXCEPT ![u] = n]
      /\ (result = "fail" => ~alive[u] \/ g \in cancelled)
      /\ UNCHANGED <<pools, reload, gen, running, closer, closing, cancelled, told, outage, fell,
                     missed, crossed>>
  BY <1>0 DEF Answer, Set
<1>2. /\ g = Holder /\ g # 0 /\ g \in DOMAIN pools /\ u \in DOMAIN pools[g]
      /\ pools[g][u] \in CappedState /\ pools[g][u].enabled
      /\ OwnOK(g, pools[g][u], u, probe[g][u], failRun[u], told[u])
      /\ PoolMoves(pools, pools, g, u, pools[g][u])
  BY <1>1, Probed
<1>3. PICK b, m : b = pools[g][u] /\ m = failRun[u]
  OBVIOUS
<1>4. m \in Nat /\ n \in Nat /\ UnhealthyThreshold \in Nat \ {0}
  BY <1>0, <1>3, CheckerAssumption DEF Capped, RunInv, HistoryType
<1>5. HistoryType'
  BY <1>1, <1>4 DEF RunInv, HistoryType
<1>6. /\ At(probe[g], probe'[g], Upstreams, u, result) /\ At(failRun, failRun', Upstreams, u, n)
      /\ At(told, told', Upstreams, u, told[u]) /\ PoolMoves(pools, pools', g, u, b)
  <2>1. At(failRun, failRun', Upstreams, u, n)
    BY <1>1 DEF At, RunInv, HistoryType
  <2> QED BY <1>1, <1>2, <1>3, <2>1, ProbeAt, Same
<1>7. ASSUME NEW c \in CappedState
      PROVE  Timely(c, "asking", m) =>
                Timely(c, result, n) /\ (g \in cancelled \/ Ready(c, result, n))
  <2>1. PICK f : f = c.failStreak
    OBVIOUS
  <2>2. f \in Nat /\ f <= UnhealthyThreshold
    BY <2>1 DEF CappedState, BackendState
  <2>3. CASE result = "ok"
    BY <2>3 DEF Timely, Ready
  <2>4. CASE result = "fail" /\ ~alive[u]
    <3>1. n = IF m + 1 < UnhealthyThreshold THEN m + 1 ELSE UnhealthyThreshold
      BY <1>0, <1>3, <2>4 DEF Capped
    <3>2. f <= m => f <= n /\ (f + 1 <= n \/ UnhealthyThreshold <= n)
      BY <1>4, <2>2, <3>1
    <3> QED BY <2>1, <3>2 DEF Timely, Ready
  <2>5. CASE result = "fail" /\ alive[u]
    BY <1>0, <1>1, <1>3, <2>5 DEF Timely
  <2> QED BY <2>3, <2>4, <2>5
<1>8. TimelyKept(probe[g][u], failRun[u], result, n)
      /\ AgreesKept(probe[g][u], told[u], result, told[u])
  BY <1>1, <1>3, <1>7 DEF TimelyKept, AgreesKept, Agrees, Will
<1>9. /\ Sane(b, result) /\ (u \in crossed'[g] \/ Agrees(b, result, told[u]))
      /\ u \in missed'[g] \/ (Timely(b, result, n) /\ (g \in cancelled \/ Ready(b, result, n)))
  <2>1. u \in missed[g] \/ Timely(b, "asking", m)
    BY <1>1, <1>2, <1>3 DEF OwnOK
  <2>2. u \in crossed[g] \/ Agrees(b, "asking", told[u])
    BY <1>1, <1>2, <1>3 DEF OwnOK
  <2>3. Agrees(b, "asking", told[u]) => Agrees(b, result, told[u])
    BY DEF Agrees, Will
  <2>4. Timely(b, "asking", m) =>
           Timely(b, result, n) /\ (g \in cancelled \/ Ready(b, result, n))
    BY <1>2, <1>3, <1>7
  <2>5. Sane(b, result)
    BY <1>2, <1>3 DEF Sane
  <2> QED BY <1>1, <2>1, <2>2, <2>3, <2>4, <2>5
<1>10. /\ Elsewhere(missed, missed', u) /\ Elsewhere(crossed, crossed', u)
       /\ StillMarked(missed, missed', u) /\ StillMarked(crossed, crossed', u)
  BY <1>1, NoMarks
<1>11. PoolsType' /\ OwnInv' /\ KinInv'
  BY <1>1, <1>2, <1>6, <1>8, <1>9, <1>10, HolderMoves
<1>12. OutageOK'
  <2>1. Holder' = Holder
    BY <1>1 DEF Holder
  <2>2. \A v \in DOMAIN pools[g] : probe[g][v] \in {"wentDown", "notify"} => probe'[g][v] = probe[g][v]
    <3>1. DOMAIN pools[g] \in SUBSET Upstreams
      BY <1>2, PoolFacts DEF RunInv
    <3> QED BY <1>1, <1>6, <3>1 DEF At
  <2>3. \A v \in DOMAIN pools[g] :
           probe[g][v] \in {"wentDown", "notify"} => probe'[g][v] \in {"wentDown", "notify"}
    BY <2>2
  <2> QED BY <1>1, <1>2, <2>1, <2>3, OutageKept
<1> QED BY <1>5, <1>11, <1>12

\* The steps of a probe that take no result: what is to be said stays the same.
LEMMA RunQuietMove ==
    ASSUME RunInv, NEW g \in Gens, NEW u \in Upstreams, probe[g][u] \notin {"idle", "ok"},
           NEW pr \in {"idle", "notify"}, NEW td \in {"up", "down"}, NEW b \in CappedState,
           PoolMoves(pools, pools', g, u, b), b.enabled = pools[g][u].enabled,
           b.healthy = pools[g][u].healthy, b.failStreak = pools[g][u].failStreak,
           probe' = Set(probe, g, u, pr), told' = [told EXCEPT ![u] = td],
           Will(pr, td) = Will(probe[g][u], told[u]),
           UNCHANGED <<reload, gen, running, closer, closing, cancelled, failRun, fell, missed,
                       crossed>>,
           outage' \in BOOLEAN
    PROVE  /\ HistoryType' /\ PoolsType' /\ OwnInv' /\ KinInv' /\ Holder' = Holder
           /\ At(probe[g], probe'[g], Upstreams, u, pr)
<1>1. /\ g = Holder /\ g # 0 /\ g \in DOMAIN pools /\ u \in DOMAIN pools[g]
      /\ pools[g][u] \in CappedState /\ pools[g][u].enabled
      /\ OwnOK(g, pools[g][u], u, probe[g][u], failRun[u], told[u])
  BY Probed
<1>2. told' \in [Upstreams -> {"up", "down"}] /\ At(told, told', Upstreams, u, td)
  BY DEF RunInv, HistoryType, At
<1>3. HistoryType'
  BY <1>2 DEF RunInv, HistoryType
<1>4. At(probe[g], probe'[g], Upstreams, u, pr) /\ At(failRun, failRun', Upstreams, u, failRun[u])
  BY ProbeAt, Same
<1>5. /\ Elsewhere(missed, missed', u) /\ Elsewhere(crossed, crossed', u)
      /\ StillMarked(missed, missed', u) /\ StillMarked(crossed, crossed', u)
  BY NoMarks
<1>6. PICK o, m, p : o = pools[g][u] /\ m = failRun[u] /\ p = probe[g][u]
  OBVIOUS
<1>7. TimelyKept(probe[g][u], failRun[u], pr, failRun[u]) /\ AgreesKept(probe[g][u], told[u], pr, td)
  BY DEF TimelyKept, AgreesKept, Timely, Agrees
<1>8. /\ Sane(b, pr) /\ (u \in crossed'[g] \/ Agrees(b, pr, td))
      /\ u \in missed'[g] \/ (Timely(b, pr, m) /\ (g \in cancelled \/ Ready(b, pr, m)))
  <2>1. u \in missed[g] \/ Timely(o, p, m)
    BY <1>1, <1>6 DEF OwnOK
  <2>2. u \in crossed[g] \/ Agrees(o, p, told[u])
    BY <1>1, <1>6 DEF OwnOK
  <2>3. Agrees(o, p, told[u]) => Agrees(b, pr, td)
    BY <1>6 DEF Agrees
  <2>4. Timely(o, p, m) => Timely(b, pr, m) /\ Ready(b, pr, m)
    BY <1>6 DEF Timely, Ready
  <2>5. Sane(b, pr)
    BY <1>1 DEF Sane
  <2> QED BY <2>1, <2>2, <2>3, <2>4, <2>5
<1>9. PoolsType' /\ OwnInv' /\ KinInv'
  BY <1>1, <1>2, <1>4, <1>5, <1>6, <1>7, <1>8, HolderMoves
<1> QED BY <1>3, <1>4, <1>9 DEF Holder

LEMMA RunDiscard ==
    ASSUME RunInv, NEW g \in Gens, NEW u \in Upstreams, Discard(g, u)
    PROVE  HistoryType' /\ PoolsType' /\ OwnInv' /\ KinInv' /\ OutageOK'
<1> USE DEF history, poolVars, lockVars, copyHistory
<1>1. /\ probe[g][u] = "fail" /\ probe' = Set(probe, g, u, "idle")
      /\ UNCHANGED <<pools, reload, gen, running, closer, closing, cancelled, failRun, told, outage,
                     fell, missed, crossed>>
  BY DEF Discard, Discarded, Set
<1>2. /\ g = Holder /\ g \in DOMAIN pools /\ pools[g][u] \in CappedState
      /\ PoolMoves(pools, pools', g, u, pools[g][u])
  BY <1>1, Probed
<1>3. told[u] \in {"up", "down"} /\ told' = [told EXCEPT ![u] = told[u]] /\ outage' \in BOOLEAN
  BY <1>1 DEF RunInv, HistoryType
<1>4. Will("idle", told[u]) = Will(probe[g][u], told[u])
  BY <1>1 DEF Will
<1>5. /\ HistoryType' /\ PoolsType' /\ OwnInv' /\ KinInv' /\ Holder' = Holder
      /\ At(probe[g], probe'[g], Upstreams, u, "idle")
  BY <1>1, <1>2, <1>3, <1>4, RunQuietMove
<1>6. DOMAIN pools[g] \in SUBSET Upstreams
  BY <1>2, PoolFacts DEF RunInv
<1>7. \A v \in DOMAIN pools[g] :
         probe[g][v] \in {"wentDown", "notify"} => probe'[g][v] \in {"wentDown", "notify"}
  BY <1>1, <1>5, <1>6 DEF At
<1>8. OutageOK'
  BY <1>1, <1>2, <1>5, <1>7, OutageKept
<1> QED BY <1>5, <1>8

LEMMA RunRaiseUp ==
    ASSUME RunInv, NEW g \in Gens, NEW u \in Upstreams, RaiseUp(g, u)
    PROVE  /\ HistoryType' /\ PoolsType' /\ OwnInv' /\ KinInv' /\ OutageOK'
           /\ \A h \in DOMAIN pools : \A v \in DOMAIN pools[h] :
                 pools'[h][v].healthy = pools[h][v].healthy
<1> USE DEF history, poolVars, lockVars, copyHistory
<1>0. PICK b : b = ClearEjection(pools[g][u])
  OBVIOUS
<1>1. /\ probe[g][u] = "wentUp" /\ probe' = Set(probe, g, u, "idle")
      /\ pools' = Set(pools, g, u, b) /\ told' = [told EXCEPT ![u] = "up"] /\ outage' = FALSE
      /\ UNCHANGED <<reload, gen, running, closer, closing, cancelled, failRun, fell, missed,
                     crossed>>
  BY <1>0 DEF RaiseUp, Set
<1>2. /\ g = Holder /\ g \in DOMAIN pools /\ u \in DOMAIN pools[g]
      /\ pools[g][u] \in CappedState /\ pools[g][u].enabled
      /\ OwnOK(g, pools[g][u], u, probe[g][u], failRun[u], told[u])
  BY <1>1, Probed
<1>3. /\ b \in CappedState /\ b.enabled = pools[g][u].enabled
      /\ b.healthy = pools[g][u].healthy /\ b.failStreak = pools[g][u].failStreak
  BY <1>0, <1>2 DEF ClearEjection, ClearWindow, ResetFails, BackendState, CappedState
<1>4. PoolMoves(pools, pools', g, u, b)
  <2>1. pools \in Seq(Pool)
    BY DEF RunInv, PoolsType
  <2>2. PoolMoves(pools, Set(pools, g, u, b), g, u, b)
    BY <1>2, <1>3, <2>1, PoolSets
  <2> QED BY <1>1, <2>2
<1>5. Will("idle", "up") = Will(probe[g][u], told[u])
  BY <1>1 DEF Will
<1>6. HistoryType' /\ PoolsType' /\ OwnInv' /\ KinInv' /\ Holder' = Holder
  BY <1>1, <1>2, <1>3, <1>4, <1>5, RunQuietMove
<1>7. pools'[g][u] = b /\ u \in DOMAIN pools'[g]
  BY <1>2, <1>4 DEF PoolMoves, At
<1>8. b.healthy /\ b.enabled
  BY <1>1, <1>2, <1>3 DEF OwnOK, Sane
<1>9. OutageOK'
  BY <1>2, <1>6, <1>7, <1>8 DEF OutageOK
<1>10. \A h \in DOMAIN pools : \A v \in DOMAIN pools[h] :
          pools'[h][v].healthy = pools[h][v].healthy
  BY <1>2, <1>3, <1>4 DEF PoolMoves, At
<1> QED BY <1>6, <1>9, <1>10

LEMMA RunRaiseDown ==
    ASSUME RunInv, NEW g \in Gens, NEW u \in Upstreams, RaiseDown(g, u)
    PROVE  HistoryType' /\ PoolsType' /\ OwnInv' /\ KinInv' /\ OutageOK'
<1> USE DEF history, poolVars, lockVars, copyHistory
<1>1. /\ probe[g][u] = "wentDown" /\ probe' = Set(probe, g, u, "notify")
      /\ told' = [told EXCEPT ![u] = "down"]
      /\ UNCHANGED <<pools, reload, gen, running, closer, closing, cancelled, failRun, outage, fell,
                     missed, crossed>>
  BY DEF RaiseDown, Set
<1>2. /\ g = Holder /\ u \in DOMAIN pools[g] /\ pools[g][u] \in CappedState
      /\ PoolMoves(pools, pools', g, u, pools[g][u])
  BY <1>1, Probed
<1>3. outage' \in BOOLEAN
  BY <1>1 DEF RunInv, HistoryType
<1>4. Will("notify", "down") = Will(probe[g][u], told[u])
  BY <1>1 DEF Will
<1>5. /\ HistoryType' /\ PoolsType' /\ OwnInv' /\ KinInv' /\ Holder' = Holder
      /\ At(probe[g], probe'[g], Upstreams, u, "notify")
  BY <1>1, <1>2, <1>3, <1>4, RunQuietMove
<1>6. probe'[g][u] = "notify" /\ u \in DOMAIN pools'[g]
  BY <1>1, <1>2, <1>5 DEF At
<1>7. OutageOK'
  BY <1>2, <1>5, <1>6 DEF OutageOK
<1> QED BY <1>5, <1>7

LEMMA RunRaiseOutage ==
    ASSUME RunInv, NEW g \in Gens, NEW u \in Upstreams, RaiseOutage(g, u)
    PROVE  HistoryType' /\ PoolsType' /\ OwnInv' /\ KinInv' /\ OutageOK'
<1> USE DEF history, poolVars, lockVars, copyHistory
<1>1. /\ probe[g][u] = "notify" /\ probe' = Set(probe, g, u, "idle")
      /\ outage' = (outage \/ NoneLeft(g, u))
      /\ UNCHANGED <<pools, reload, gen, running, closer, closing, cancelled, failRun, told, fell,
                     missed, crossed>>
  BY DEF RaiseOutage, Set
<1>2. /\ g = Holder /\ u \in DOMAIN pools[g] /\ pools[g][u] \in CappedState
      /\ PoolMoves(pools, pools', g, u, pools[g][u])
  BY <1>1, Probed
<1>3. told[u] \in {"up", "down"} /\ told' = [told EXCEPT ![u] = told[u]] /\ outage' \in BOOLEAN
  BY <1>1 DEF RunInv, HistoryType
<1>4. Will("idle", told[u]) = Will(probe[g][u], told[u])
  BY <1>1 DEF Will
<1>5. HistoryType' /\ PoolsType' /\ OwnInv' /\ KinInv' /\ Holder' = Holder
  BY <1>1, <1>2, <1>3, <1>4, RunQuietMove
<1>6. (\A v \in DOMAIN pools[g] : pools[g][v].enabled => ~pools[g][v].healthy) => NoneLeft(g, u)
  BY DEF NoneLeft, Enabled, Available
<1>7. OutageOK'
  BY <1>1, <1>2, <1>5, <1>6 DEF OutageOK
<1> QED BY <1>5, <1>7

\* The ticker fires: every enabled backend is asked.
LEMMA RunRound ==
    ASSUME RunInv, NEW g \in Gens, Round(g)
    PROVE  HistoryType' /\ PoolsType' /\ OwnInv' /\ KinInv' /\ OutageOK'
<1> USE DEF history, poolVars, lockVars, copyHistory
<1>1. /\ loop[g] = "select" /\ probe[g] = Quiet /\ probe'[g] = Ask(g)
      /\ UNCHANGED <<pools, reload, gen, running, closer, closing, cancelled, failRun, told, outage,
                     fell, missed, crossed>>
  BY DEF Round, RunInv, ExclusiveInv, LockType
<1>2. g = Holder /\ g # 0 /\ g \in DOMAIN pools /\ Holder' = g
  <2>1. g = Holder /\ g # 0
    BY <1>1 DEF RunInv, ExclusiveInv, Probes, Gens
  <2> QED BY <1>1, <2>1, GenFacts DEF RunInv, Holder
<1>3. DOMAIN pools[g] \in SUBSET Upstreams
  BY <1>2, PoolFacts DEF RunInv
<1>4. HistoryType' /\ PoolsType' /\ Copies' = Copies
  BY <1>1, <1>2 DEF RunInv, HistoryType, PoolsType, Copies
<1>5. ASSUME NEW v \in Upstreams
      PROVE  /\ probe[g][v] = "idle" /\ probe'[g][v] \in {"idle", "asking"}
             /\ probe'[g][v] = "asking" => v \in DOMAIN pools[g] /\ pools[g][v].enabled
  BY <1>1 DEF Quiet, Ask, Enabled
<1>6. OwnInv'
  <2>1. ASSUME NEW v \in Upstreams
        PROVE  IF v \in DOMAIN pools[g]
               THEN OwnOK(g, pools[g][v], v, probe[g][v], failRun[v], told[v])'
               ELSE probe'[g][v] = "idle"
    <3>1. CASE v \in DOMAIN pools[g]
      <4>1. OwnOK(g, pools[g][v], v, "idle", failRun[v], told[v])
        BY <1>2, <1>5, <3>1 DEF RunInv, OwnInv
      <4> QED BY <1>1, <1>5, <3>1, <4>1 DEF OwnOK, Sane, Timely, Ready, Agrees, Will
    <3>2. CASE v \notin DOMAIN pools[g]
      BY <1>5, <3>2
    <3> QED BY <3>1, <3>2
  <2> QED BY <1>1, <1>2, <2>1 DEF OwnInv
<1>7. KinInv'
  <2>1. ASSUME NEW h \in Copies, NEW v \in DOMAIN pools[h]
        PROVE  KinOK(h, pools[h][v], v, Pending(v), failRun[v], told[v])'
    <3>1. v \in Upstreams
      BY GenFacts, PoolFacts DEF RunInv
    <3>2. Pending(v) = "idle" /\ Pending(v)' \in {"idle", "asking"}
      BY <1>2, <1>5, <3>1 DEF Pending
    <3>3. KinOK(h, pools[h][v], v, "idle", failRun[v], told[v])
      BY <3>2 DEF RunInv, KinInv
    <3> QED BY <1>1, <3>2, <3>3 DEF KinOK, Timely, Agrees, Will, Uncopied
  <2> QED BY <1>1, <1>4, <2>1 DEF KinInv
<1>8. OutageOK'
  <2>1. \A v \in DOMAIN pools[g] : probe[g][v] \notin {"wentDown", "notify"}
    BY <1>3, <1>5
  <2> QED BY <1>1, <1>2, <2>1 DEF RunInv, OutageOK
<1> QED BY <1>4, <1>6, <1>7, <1>8

\* RecordProbe counts up to the threshold, and a fall takes the threshold.
LEMMA RecordCounts ==
    ASSUME NEW old \in BackendState, NEW ok \in BOOLEAN,
           NEW b, b = RecordProbe(old, ok, HealthyThreshold, UnhealthyThreshold)
    PROVE  /\ b \in BackendState /\ b.enabled = old.enabled
           /\ b.failStreak = IF ok THEN 0 ELSE Capped(old.failStreak + 1, UnhealthyThreshold)
           /\ ok /\ old.healthy => b.healthy
           /\ ~ok => (b.healthy <=> old.healthy /\ b.failStreak < UnhealthyThreshold)
<1>1. PICK up, bad : /\ up = IF ok THEN Capped(old.okStreak + 1, HealthyThreshold) ELSE 0
                     /\ bad = IF ok THEN 0 ELSE Capped(old.failStreak + 1, UnhealthyThreshold)
  OBVIOUS
<1>2. old.okStreak \in Nat /\ old.failStreak \in Nat /\ old.healthy \in BOOLEAN
  BY DEF BackendState
<1>3. up \in Nat /\ bad \in Nat
  BY <1>1, <1>2, CheckerAssumption DEF Capped
<1>4. b = [old EXCEPT !.okStreak = up, !.failStreak = bad,
                      !.healthy = IF ok THEN old.healthy \/ up >= HealthyThreshold
                                  ELSE old.healthy /\ bad < UnhealthyThreshold]
  BY <1>1 DEF RecordProbe
<1>5. /\ b \in BackendState /\ b.enabled = old.enabled /\ b.failStreak = bad
      /\ b.healthy = IF ok THEN old.healthy \/ up >= HealthyThreshold
                     ELSE old.healthy /\ bad < UnhealthyThreshold
  BY <1>2, <1>3, <1>4 DEF BackendState
<1> QED BY <1>1, <1>5

\* Only Record takes a backend down, and only after the threshold.
FallIsEarned ==
    \A g \in DOMAIN pools : \A u \in DOMAIN pools[g] :
        probe[g][u] = "fail" /\ pools[g][u].healthy /\ ~pools'[g][u].healthy
        => failRun[u] >= UnhealthyThreshold \/ u \in missed[g]

LEMMA RunRecord ==
    ASSUME RunInv, NEW g \in Gens, NEW u \in Upstreams, Record(g, u)
    PROVE  HistoryType' /\ PoolsType' /\ OwnInv' /\ KinInv' /\ OutageOK' /\ FallIsEarned
<1> USE DEF history, poolVars, lockVars, copyHistory
<1>0. PICK old, p, ok, b, pr, n, td :
        /\ old = pools[g][u] /\ p = probe[g][u] /\ ok = (p = "ok")
        /\ b = RecordProbe(old, ok, HealthyThreshold, UnhealthyThreshold)
        /\ pr = IF b.healthy = old.healthy THEN "idle"
                ELSE IF b.healthy THEN "wentUp" ELSE "wentDown"
        /\ n = failRun[u] /\ td = told[u]
  OBVIOUS
<1>1. /\ p \in {"ok", "fail"} /\ (p = "fail" => g \notin cancelled)
      /\ probe' = Set(probe, g, u, pr) /\ pools' = Set(pools, g, u, b)
      /\ UNCHANGED <<reload, gen, running, closer, closing, cancelled, failRun, told, outage>>
  BY <1>0 DEF Record, Set, Discarded
<1>2. /\ fell' = (fell \/ (old.healthy /\ ~b.healthy))
      /\ missed' = IF ok THEN Outdates(missed, g, u) ELSE missed
      /\ crossed' = IF b.healthy # old.healthy THEN Outdates(crossed, g, u) ELSE crossed
  BY <1>0 DEF Record
<1>3. /\ g = Holder /\ g # 0 /\ g \in DOMAIN pools /\ u \in DOMAIN pools[g]
      /\ old \in CappedState /\ old.enabled /\ OwnOK(g, old, u, p, n, td)
  BY <1>0, <1>1, Probed
<1>4. /\ b \in BackendState /\ b.enabled /\ ok \in BOOLEAN /\ b.healthy \in BOOLEAN
      /\ old.healthy \in BOOLEAN /\ n \in Nat /\ UnhealthyThreshold \in Nat \ {0}
      /\ b.failStreak = IF ok THEN 0 ELSE Capped(old.failStreak + 1, UnhealthyThreshold)
      /\ (ok /\ old.healthy => b.healthy)
      /\ (~ok => (b.healthy <=> old.healthy /\ b.failStreak < UnhealthyThreshold))
  <2>1. ok \in BOOLEAN /\ n \in Nat /\ UnhealthyThreshold \in Nat \ {0}
    BY <1>0, <1>3, CheckerAssumption DEF RunInv, HistoryType
  <2>2. old \in BackendState /\ old.healthy \in BOOLEAN
    BY <1>3 DEF CappedState, BackendState
  <2>3. b = RecordProbe(old, ok, HealthyThreshold, UnhealthyThreshold)
    BY <1>0
  <2>4. /\ b \in BackendState /\ b.enabled = old.enabled
        /\ b.failStreak = IF ok THEN 0 ELSE Capped(old.failStreak + 1, UnhealthyThreshold)
        /\ ok /\ old.healthy => b.healthy
        /\ ~ok => (b.healthy <=> old.healthy /\ b.failStreak < UnhealthyThreshold)
    BY <2>1, <2>2, <2>3, RecordCounts
  <2>5. b.healthy \in BOOLEAN
    BY <2>4 DEF BackendState
  <2> QED BY <1>3, <2>1, <2>2, <2>4, <2>5
<1>5. PICK f : f = old.failStreak
  OBVIOUS
<1>6. f \in Nat
  BY <1>3, <1>5 DEF CappedState, BackendState
<1>7. b.failStreak = IF ok THEN 0 ELSE IF f + 1 < UnhealthyThreshold THEN f + 1 ELSE UnhealthyThreshold
  BY <1>4, <1>5 DEF Capped
<1>8. b.failStreak <= UnhealthyThreshold /\ b \in CappedState
  BY <1>4, <1>6, <1>7 DEF CappedState
<1>9. ~ok => u \in missed[g] \/ f + 1 <= n \/ UnhealthyThreshold <= n
  BY <1>0, <1>1, <1>3, <1>5 DEF OwnOK, Ready
<1>10. PoolMoves(pools, pools', g, u, b)
  <2>1. pools \in Seq(Pool)
    BY DEF RunInv, PoolsType
  <2>2. PoolMoves(pools, Set(pools, g, u, b), g, u, b)
    BY <1>3, <1>8, <2>1, PoolSets
  <2> QED BY <1>1, <2>2
<1>11. /\ At(probe[g], probe'[g], Upstreams, u, pr) /\ At(failRun, failRun', Upstreams, u, n)
       /\ At(told, told', Upstreams, u, td)
  BY <1>0, <1>1, ProbeAt, Same
<1>12. /\ missed' \in [Gens -> SUBSET Upstreams] /\ Elsewhere(missed, missed', u)
       /\ ok => Marked(missed', g, u) /\ u \notin missed'[g]
       /\ ~ok => missed' = missed /\ StillMarked(missed, missed', u)
  <2>1. ExclusiveInv /\ PoolsType /\ missed \in [Gens -> SUBSET Upstreams]
    BY DEF RunInv, HistoryType
  <2>2. CASE ok
    BY <1>2, <2>1, <2>2, AllMarks
  <2>3. CASE ~ok
    BY <1>2, <2>1, <2>3, NoMarks
  <2> QED BY <2>2, <2>3
<1>13. /\ crossed' \in [Gens -> SUBSET Upstreams] /\ Elsewhere(crossed, crossed', u)
       /\ b.healthy # old.healthy => Marked(crossed', g, u)
       /\ b.healthy = old.healthy => crossed' = crossed /\ StillMarked(crossed, crossed', u)
  <2>1. ExclusiveInv /\ PoolsType /\ crossed \in [Gens -> SUBSET Upstreams]
    BY DEF RunInv, HistoryType
  <2>2. CASE b.healthy # old.healthy
    BY <1>2, <2>1, <2>2, AllMarks
  <2>3. CASE b.healthy = old.healthy
    BY <1>2, <2>1, <2>3, NoMarks
  <2> QED BY <2>2, <2>3
<1>14. HistoryType'
  BY <1>1, <1>2, <1>4, <1>12, <1>13 DEF RunInv, HistoryType
<1>23. Sane(b, pr)
  BY <1>0, <1>4 DEF Sane
<1>15. u \in crossed'[g] \/ Agrees(b, pr, td)
  <2>1. CASE b.healthy # old.healthy
    <3>1. CASE b.healthy
      <4>1. pr = "wentUp"
        BY <1>0, <2>1, <3>1
      <4> QED BY <3>1, <4>1 DEF Agrees, Will
    <3>2. CASE ~b.healthy
      <4>1. pr = "wentDown"
        BY <1>0, <2>1, <3>2
      <4> QED BY <3>2, <4>1 DEF Agrees, Will
    <3> QED BY <3>1, <3>2
  <2>2. CASE b.healthy = old.healthy
    <3>1. u \in crossed'[g] \/ Agrees(old, p, td)
      BY <1>3, <1>13, <2>2 DEF OwnOK
    <3>2. pr = "idle" /\ Will(p, td) = td /\ Will(pr, td) = td
      BY <1>0, <1>1, <2>2 DEF Will
    <3>3. Agrees(old, p, td) => Agrees(b, pr, td)
      BY <2>2, <3>2 DEF Agrees
    <3> QED BY <3>1, <3>3
  <2> QED BY <2>1, <2>2
<1>16. u \in missed'[g] \/ (Timely(b, pr, n) /\ (g \in cancelled \/ Ready(b, pr, n)))
  <2>1. Ready(b, pr, n)
    BY <1>0 DEF Ready
  <2>2. u \in missed'[g] \/ b.failStreak <= n
    BY <1>4, <1>6, <1>7, <1>9, <1>12
  <2> QED BY <2>1, <2>2 DEF Timely
<1>17. Marked(missed', g, u)
          \/ (StillMarked(missed, missed', u) /\ TimelyKept(probe[g][u], failRun[u], pr, n))
  BY <1>0, <1>1, <1>12 DEF TimelyKept, Timely
<1>18. Marked(crossed', g, u)
          \/ (StillMarked(crossed, crossed', u) /\ AgreesKept(probe[g][u], told[u], pr, td))
  BY <1>0, <1>1, <1>13 DEF AgreesKept, Agrees, Will
<1>19. PoolsType' /\ OwnInv' /\ KinInv'
  BY <1>1, <1>3, <1>10, <1>11, <1>12, <1>13, <1>15, <1>23, <1>16, <1>17, <1>18, HolderMoves
<1>20. /\ Holder' = g /\ DOMAIN pools'[g] = DOMAIN pools[g]
       /\ \A v \in DOMAIN pools[g] : pools'[g][v] = IF v = u THEN b ELSE pools[g][v]
       /\ \A v \in DOMAIN pools[g] : probe'[g][v] = IF v = u THEN pr ELSE probe[g][v]
  <2>1. DOMAIN pools[g] \in SUBSET Upstreams
    BY <1>3, PoolFacts DEF RunInv
  <2> QED BY <1>1, <1>3, <1>10, <1>11, <2>1 DEF Holder, PoolMoves, At
<1>21. OutageOK'
  <2> SUFFICES ASSUME fell', \A v \in DOMAIN pools[g] : pools'[g][v].enabled => ~pools'[g][v].healthy
               PROVE  outage \/ \E v \in DOMAIN pools[g] : probe'[g][v] \in {"wentDown", "notify"}
    BY <1>1, <1>20 DEF OutageOK
  <2>1. ~b.healthy
    BY <1>3, <1>4, <1>20
  <2>2. CASE old.healthy
    BY <1>0, <1>3, <1>4, <1>20, <2>1, <2>2
  <2>3. CASE ~old.healthy
    <3>1. /\ fell /\ \E v \in DOMAIN pools[g] : pools[g][v].enabled
          /\ \A v \in DOMAIN pools[g] : pools[g][v].enabled => ~pools[g][v].healthy
      BY <1>0, <1>2, <1>3, <1>20, <2>3
    <3>2. outage \/ \E v \in DOMAIN pools[g] : probe[g][v] \in {"wentDown", "notify"}
      BY <1>3, <3>1 DEF RunInv, OutageOK
    <3> QED BY <1>0, <1>1, <1>20, <3>2
  <2> QED BY <2>2, <2>3
<1>22. FallIsEarned
  <2> SUFFICES ASSUME NEW h \in DOMAIN pools, NEW v \in DOMAIN pools[h],
                      probe[h][v] = "fail", pools[h][v].healthy, ~pools'[h][v].healthy
               PROVE  failRun[v] >= UnhealthyThreshold \/ v \in missed[h]
    BY DEF FallIsEarned
  <2>1. h = g
    BY <1>10 DEF PoolMoves
  <2>2. v = u /\ ~b.healthy /\ ~ok /\ old.healthy
    BY <1>0, <1>20, <2>1
  <2>3. n >= UnhealthyThreshold \/ u \in missed[g]
    BY <1>4, <1>6, <1>7, <1>9, <2>2
  <2> QED BY <1>0, <2>1, <2>2, <2>3
<1> QED BY <1>14, <1>19, <1>21, <1>22

\* The pools in ps and qs differ in nothing probes and alerts read.
Alike(ps, qs) ==
    /\ DOMAIN qs = DOMAIN ps
    /\ \A h \in DOMAIN ps :
         /\ DOMAIN qs[h] = DOMAIN ps[h]
         /\ \A u \in DOMAIN ps[h] : /\ qs[h][u].enabled = ps[h][u].enabled
                                    /\ qs[h][u].healthy = ps[h][u].healthy
                                    /\ qs[h][u].failStreak = ps[h][u].failStreak

\* The steps that move neither probes nor what the backends are known for.
LEMMA RunElsewhere ==
    ASSUME RunInv, PoolsType', Alike(pools, pools'), Holder' = Holder, Copies' \subseteq Copies,
           cancelled \subseteq cancelled',
           \A h \in Copies' : \A u \in Upstreams : Uncopied(h, u) => Uncopied(h, u)',
           UNCHANGED <<probe, failRun, told, outage, fell, missed, crossed>>
    PROVE  HistoryType' /\ OwnInv' /\ KinInv' /\ OutageOK' /\ FallIsEarned
<1>1. PICK g : g = Holder
  OBVIOUS
<1>2. g # 0 => g \in DOMAIN pools /\ DOMAIN pools[g] \in SUBSET Upstreams
  BY <1>1, GenFacts, PoolFacts DEF RunInv
<1>3. OwnInv'
  <2>1. ASSUME g # 0, NEW u \in Upstreams
        PROVE  IF u \in DOMAIN pools'[g]
               THEN OwnOK(g, pools[g][u], u, probe[g][u], failRun[u], told[u])'
               ELSE probe'[g][u] = "idle"
    <3>1. IF u \in DOMAIN pools[g]
          THEN OwnOK(g, pools[g][u], u, probe[g][u], failRun[u], told[u])
          ELSE probe[g][u] = "idle"
      BY <1>1, <2>1 DEF RunInv, OwnInv
    <3>2. DOMAIN pools'[g] = DOMAIN pools[g]
      BY <1>2, <2>1 DEF Alike
    <3>3. u \in DOMAIN pools[g] => /\ pools'[g][u].enabled = pools[g][u].enabled
                                   /\ pools'[g][u].healthy = pools[g][u].healthy
                                   /\ pools'[g][u].failStreak = pools[g][u].failStreak
      BY <1>2, <2>1 DEF Alike
    <3> QED BY <3>1, <3>2, <3>3 DEF OwnOK, Sane, Timely, Ready, Agrees
  <2> QED BY <1>1, <2>1 DEF OwnInv
<1>4. KinInv'
  <2>1. ASSUME NEW h \in Copies', NEW u \in DOMAIN pools'[h]
        PROVE  KinOK(h, pools[h][u], u, Pending(u), failRun[u], told[u])'
    <3>1. h \in Copies /\ h \in DOMAIN pools
      BY GenFacts DEF RunInv
    <3>2. u \in DOMAIN pools[h]
      BY <3>1 DEF Alike
    <3>3. u \in Upstreams
      BY <3>1, <3>2, PoolFacts DEF RunInv
    <3>4. /\ pools'[h][u].healthy = pools[h][u].healthy
          /\ pools'[h][u].failStreak = pools[h][u].failStreak
      BY <3>1, <3>2 DEF Alike
    <3>5. KinOK(h, pools[h][u], u, Pending(u), failRun[u], told[u])
      BY <3>1, <3>2 DEF RunInv, KinInv
    <3>6. Uncopied(h, u) => Uncopied(h, u)'
      BY <3>3
    <3>7. Pending(u)' = Pending(u)
      BY DEF Pending
    <3> QED BY <3>4, <3>5, <3>6, <3>7 DEF KinOK, Timely, Agrees
  <2> QED BY <2>1 DEF KinInv
<1>5. OutageOK'
  BY <1>1, <1>2, OutageKept DEF Alike
<1>6. HistoryType' /\ FallIsEarned
  BY DEF RunInv, HistoryType, FallIsEarned, Alike
<1> QED BY <1>3, <1>4, <1>5, <1>6

\* The window opens or lapses: the proxy writes until, which no probe reads.
LEMMA RunPassive ==
    ASSUME RunInv, NEW u \in Upstreams, PassiveEject(u) \/ PassiveLapse(u)
    PROVE  HistoryType' /\ PoolsType' /\ OwnInv' /\ KinInv' /\ OutageOK' /\ FallIsEarned
<1> USE DEF history, poolVars, lockVars, copyHistory
<1>1. PICK t \in Nat : /\ u \in DOMAIN pools[gen]
                       /\ pools' = Set(pools, gen, u, [pools[gen][u] EXCEPT !.until = t])
  BY DEF PassiveEject, PassiveLapse, Eject, ClearWindow, Set
<1>2. UNCHANGED <<reload, gen, running, closer, closing, cancelled, probe, failRun, told, outage, fell,
                  missed, crossed>>
  BY DEF PassiveEject, PassiveLapse
<1>3. PICK b : b = [pools[gen][u] EXCEPT !.until = t]
  OBVIOUS
<1>4. gen \in DOMAIN pools /\ pools[gen][u] \in CappedState
  BY <1>1, GenFacts, PoolFacts DEF RunInv
<1>5. /\ b \in CappedState /\ b.enabled = pools[gen][u].enabled
      /\ b.healthy = pools[gen][u].healthy /\ b.failStreak = pools[gen][u].failStreak
  BY <1>3, <1>4 DEF BackendState, CappedState
<1>6. PoolMoves(pools, pools', gen, u, b)
  <2>1. pools \in Seq(Pool)
    BY DEF RunInv, PoolsType
  <2>2. PoolMoves(pools, Set(pools, gen, u, b), gen, u, b)
    BY <1>1, <1>4, <1>5, <2>1, PoolSets
  <2> QED BY <1>1, <1>3, <2>2
<1>7. DOMAIN pools' = DOMAIN pools /\ \A h \in DOMAIN pools : DOMAIN pools'[h] = DOMAIN pools[h]
  BY <1>6 DEF PoolMoves
<1>8. Alike(pools, pools')
  <2>1. ASSUME NEW h \in DOMAIN pools, NEW v \in DOMAIN pools[h]
        PROVE  /\ pools'[h][v].enabled = pools[h][v].enabled
               /\ pools'[h][v].healthy = pools[h][v].healthy
               /\ pools'[h][v].failStreak = pools[h][v].failStreak
    <3>1. CASE h = gen /\ v = u
      BY <1>5, <1>6, <3>1 DEF PoolMoves, At
    <3>2. CASE ~(h = gen /\ v = u)
      BY <1>6, <3>2 DEF PoolMoves, At
    <3> QED BY <3>1, <3>2
  <2> QED BY <1>7, <2>1 DEF Alike
<1>9. PoolsType' /\ Holder' = Holder /\ Copies' = Copies
  <2>1. reload.pc = "inherit" => gen \in DOMAIN pools /\ gen + 1 \in DOMAIN pools
    BY GenFacts DEF RunInv
  <2>2. pools' \in Seq(Pool) /\ Len(pools') = Len(pools)
    BY <1>6 DEF PoolMoves
  <2> QED BY <1>2, <1>7, <2>1, <2>2 DEF RunInv, PoolsType, Holder, Copies
<1>10. \A h \in Copies' : \A v \in Upstreams : Uncopied(h, v) => Uncopied(h, v)'
  BY <1>2 DEF Uncopied
<1> QED BY <1>2, <1>8, <1>9, <1>10, RunElsewhere

\* The steps that leave pools, probes and what is kept of them alone.
LEMMA RunAside ==
    ASSUME RunInv,
           Closed \/ (\E g \in Gens : EndRound(g) \/ Exit(g)) \/ (\E u \in Upstreams : Flip(u))
              \/ Close \/ Publish \/ SyncLock \/ SyncStop \/ UNCHANGED vars
    PROVE  HistoryType' /\ PoolsType' /\ OwnInv' /\ KinInv' /\ OutageOK' /\ FallIsEarned
<1> USE DEF history, poolVars, lockVars, copyHistory
<1>1. UNCHANGED <<pools, probe, failRun, told, outage, fell, missed, crossed>>
  BY DEF EndRound, Exit, Flip, Close, Closed, Publish, SyncLock, SyncStop, vars
<1>2. Alike(pools, pools')
  BY <1>1 DEF Alike
<1>3. gen \in Nat /\ running \in Nat /\ closer \in {"idle", "stopping", "closed"}
  BY CheckerAssumption DEF RunInv, ExclusiveInv, LockType, Gens
<1>4. /\ PoolsType' /\ Holder' = Holder /\ Copies' \subseteq Copies /\ cancelled \subseteq cancelled'
      /\ \A h \in Copies' : \A u \in Upstreams : Uncopied(h, u) => Uncopied(h, u)'
  <2>1. CASE Closed \/ (\E g \in Gens : EndRound(g) \/ Exit(g)) \/ (\E u \in Upstreams : Flip(u))
                \/ UNCHANGED vars
    <3>1. CASE Closed
      <4>1. /\ closer = "stopping" /\ closer' = "closed"
            /\ UNCHANGED <<reload, gen, running, closing, cancelled>>
        BY <3>1 DEF Closed
      <4> QED BY <1>1, <4>1 DEF RunInv, PoolsType, Holder, Copies
    <3>2. CASE UNCHANGED <<reload, gen, running, closer, closing, cancelled>>
      BY <1>1, <3>2 DEF RunInv, PoolsType, Holder, Copies, Uncopied
    <3>3. ASSUME NEW g \in Gens, EndRound(g) \/ Exit(g)
          PROVE  UNCHANGED <<reload, gen, running, closer, closing, cancelled>>
      BY <3>3 DEF EndRound, Exit
    <3>4. ASSUME NEW u \in Upstreams, Flip(u)
          PROVE  UNCHANGED <<reload, gen, running, closer, closing, cancelled>>
      BY <3>4 DEF Flip
    <3>5. ASSUME UNCHANGED vars
          PROVE  UNCHANGED <<reload, gen, running, closer, closing, cancelled>>
      BY <3>5 DEF vars
    <3> QED BY <2>1, <3>1, <3>2, <3>3, <3>4, <3>5
  <2>2. CASE Close
    <3>1. /\ closer = "idle" /\ closer' = "stopping" /\ closing' = running
          /\ cancelled \subseteq cancelled' /\ UNCHANGED <<reload, gen>>
      BY <2>2 DEF Close
    <3> QED BY <1>1, <3>1 DEF RunInv, PoolsType, Holder, Copies
  <2>3. CASE Publish
    <3>1. /\ reload.pc = "inherit" /\ reload.todo = {} /\ gen' = gen + 1 /\ reload'.pc = "lock"
          /\ UNCHANGED <<running, closer, closing, cancelled>>
      BY <2>3 DEF Publish, RunInv, ExclusiveInv, LockType
    <3>2. Holder' = Holder /\ Copies' \subseteq Copies
      BY <3>1 DEF Holder, Copies
    <3>3. PoolsType'
      BY <1>1, <1>3, <3>1, <3>2, GenFacts DEF RunInv, PoolsType
    <3> QED BY <3>1, <3>2, <3>3 DEF Uncopied
  <2>4. CASE SyncLock
    <3>1. /\ reload.pc = "lock"
          /\ \/ closer = "idle" /\ reload'.pc = "sync"
             \/ closer # "idle" /\ reload'.pc = "idle"
          /\ UNCHANGED <<gen, running, closer, closing, cancelled>>
      BY <2>4 DEF SyncLock, RunInv, ExclusiveInv, LockType
    <3> QED BY <1>1, <1>3, <3>1 DEF RunInv, PoolsType, Holder, Copies, Uncopied
  <2>5. CASE SyncStop
    <3>1. /\ reload.pc = "sync" /\ reload'.pc = "stopping" /\ cancelled \subseteq cancelled'
          /\ UNCHANGED <<gen, running, closer, closing>>
      BY <2>5 DEF SyncStop, RunInv, ExclusiveInv, LockType
    <3> QED BY <1>1, <1>3, <3>1 DEF RunInv, PoolsType, Holder, Copies, Uncopied
  <2> QED BY <2>1, <2>2, <2>3, <2>4, <2>5
<1>5. HistoryType' /\ OwnInv' /\ KinInv' /\ OutageOK' /\ FallIsEarned
  BY <1>1, <1>2, <1>4, RunElsewhere
<1> QED BY <1>4, <1>5

\* The next pool is built: its backends are new.
LEMMA RunBeginReload ==
    ASSUME RunInv, NEW cfg \in Configs, NEW on \in BOOLEAN, BeginReload(cfg, on)
    PROVE  HistoryType' /\ PoolsType' /\ OwnInv' /\ KinInv' /\ OutageOK' /\ FallIsEarned
<1> USE DEF history, poolVars, lockVars, copyHistory
<1>0. PICK q : q = [u \in DOMAIN cfg |-> NewBackend(cfg[u])]
  OBVIOUS
<1>1. /\ reload.pc = "idle" /\ gen < MaxGen /\ pools' = Append(pools, q)
      /\ reload'.pc = "inherit" /\ reload'.half = NoUpstream
      /\ reload'.todo = DOMAIN cfg \cap DOMAIN pools[gen]
      /\ crossed' = [crossed EXCEPT ![gen + 1] =
                       {u \in DOMAIN cfg \ DOMAIN pools[gen] : told[u] = "down"}]
      /\ UNCHANGED <<gen, running, closer, closing, cancelled, probe, failRun, told, outage, fell,
                     missed>>
  BY <1>0 DEF BeginReload
<1>2. /\ gen \in Gens /\ gen \in Nat /\ gen \in DOMAIN pools /\ Len(pools) = gen
      /\ DOMAIN pools = 1 .. gen /\ gen + 1 \in Gens /\ Holder \in Nat /\ Holder <= gen
      /\ (Holder # 0 => Holder \in Gens /\ Holder \in DOMAIN pools)
  <2>1. Len(pools) = gen
    BY <1>1 DEF RunInv, PoolsType
  <2>2. MaxGen \in Nat
    BY CheckerAssumption
  <2>3. /\ gen \in Gens /\ gen \in Nat /\ gen \in DOMAIN pools
        /\ DOMAIN pools = 1 .. Len(pools) /\ Holder \in Nat /\ Holder <= gen
        /\ (Holder # 0 => Holder \in Gens /\ Holder \in DOMAIN pools)
    BY GenFacts DEF RunInv
  <2> QED BY <1>1, <2>1, <2>2, <2>3 DEF Gens
<1>3. /\ DOMAIN q = DOMAIN cfg /\ DOMAIN cfg \in SUBSET Upstreams
      /\ \A u \in DOMAIN q : q[u] \in CappedState /\ q[u].failStreak = 0 /\ q[u].healthy
  <2>1. DOMAIN cfg \in SUBSET Upstreams /\ \A u \in DOMAIN cfg : cfg[u] \in BOOLEAN
    BY CheckerAssumption
  <2> QED BY <1>0, <2>1, FreshBackend
<1>4. q \in Pool
  <2>1. q = [u \in DOMAIN cfg |-> q[u]]
    BY <1>0
  <2> QED BY <1>3, <2>1 DEF Pool
<1>5. /\ pools' \in Seq(Pool) /\ Len(pools') = gen + 1 /\ pools'[gen + 1] = q
      /\ \A h \in 1 .. gen : pools'[h] = pools[h]
  <2>1. pools \in Seq(Pool)
    BY DEF RunInv, PoolsType
  <2> QED BY <1>1, <1>2, <1>4, <2>1, AppendProperties
<1>6. Holder' = Holder
  BY <1>1 DEF Holder
<1>7. PoolsType'
  <2>1. pools'[gen] = pools[gen]
    BY <1>2, <1>5
  <2> QED BY <1>1, <1>3, <1>5, <1>6, <2>1 DEF RunInv, PoolsType
<1>8. HistoryType'
  BY <1>1, <1>2, <1>3 DEF RunInv, HistoryType
<1>9. \A h \in Gens : h # gen + 1 => crossed'[h] = crossed[h]
  BY <1>1 DEF RunInv, HistoryType
<1>10. OwnInv'
  <2>1. ASSUME Holder # 0, NEW u \in Upstreams
        PROVE  IF u \in DOMAIN pools'[Holder]
               THEN OwnOK(Holder, pools[Holder][u], u, probe[Holder][u], failRun[u], told[u])'
               ELSE probe'[Holder][u] = "idle"
    <3>1. IF u \in DOMAIN pools[Holder]
          THEN OwnOK(Holder, pools[Holder][u], u, probe[Holder][u], failRun[u], told[u])
          ELSE probe[Holder][u] = "idle"
      BY <2>1 DEF RunInv, OwnInv
    <3>2. pools'[Holder] = pools[Holder] /\ crossed'[Holder] = crossed[Holder]
      BY <1>2, <1>5, <1>9, <2>1
    <3> QED BY <1>1, <1>6, <3>1, <3>2 DEF OwnOK
  <2> QED BY <1>6, <2>1 DEF OwnInv
<1>11. KinInv'
  <2>1. ASSUME NEW h \in Copies', NEW u \in DOMAIN pools'[h]
        PROVE  KinOK(h, pools[h][u], u, Pending(u), failRun[u], told[u])'
    <3>0. closer = "idle" /\ Pending(u)' = Pending(u) /\ h \in {gen, gen + 1} /\ gen \in Copies
      BY <1>1, <1>6 DEF Copies, Pending
    <3>1. CASE h = gen
      <4>1. pools'[h] = pools[h] /\ crossed'[h] = crossed[h]
        BY <1>2, <1>5, <1>9, <3>1
      <4>2. KinOK(h, pools[h][u], u, Pending(u), failRun[u], told[u])
        BY <3>0, <3>1, <4>1 DEF RunInv, KinInv
      <4>3. ~Uncopied(h, u)
        BY <1>2, <3>1 DEF Uncopied
      <4> QED BY <1>1, <3>0, <4>1, <4>2, <4>3 DEF KinOK
    <3>2. CASE h = gen + 1
      <4>1. /\ pools'[h] = q /\ u \in DOMAIN cfg /\ u \in Upstreams
            /\ q[u].failStreak = 0 /\ q[u].healthy
        BY <1>3, <1>5, <3>2
      <4>2. failRun[u] \in Nat /\ told[u] \in {"up", "down"}
        BY <4>1 DEF RunInv, HistoryType
      <4>3. Timely(q[u], Pending(u), failRun[u])
        BY <4>1, <4>2 DEF Timely
      <4>4. CASE u \in DOMAIN pools[gen]
        <5>1. Uncopied(h, u)'
          <6>1. NoUpstream \notin Upstreams
            BY CheckerAssumption
          <6> QED BY <1>1, <3>2, <4>1, <4>4, <6>1 DEF Uncopied
        <5> QED BY <1>1, <3>0, <4>1, <4>3, <5>1 DEF KinOK
      <4>5. CASE u \notin DOMAIN pools[gen] /\ told[u] = "down"
        <5>1. u \in crossed'[h]
          BY <1>1, <1>2, <3>2, <4>1, <4>5 DEF RunInv, HistoryType
        <5> QED BY <1>1, <3>0, <4>1, <4>3, <5>1 DEF KinOK
      <4>6. CASE u \notin DOMAIN pools[gen] /\ told[u] = "up"
        <5>1. Holder \in {0, gen}
          BY <1>1, <3>0 DEF RunInv, PoolsType, Holder
        <5>2. Pending(u) = "idle"
          BY <4>1, <4>6, <5>1 DEF RunInv, OwnInv, Pending
        <5>3. Agrees(q[u], Pending(u), told[u])
          BY <4>1, <4>6, <5>2 DEF Agrees, Will
        <5> QED BY <1>1, <3>0, <4>1, <4>3, <5>3 DEF KinOK
      <4> QED BY <4>2, <4>4, <4>5, <4>6
    <3> QED BY <3>0, <3>1, <3>2
  <2> QED BY <2>1 DEF KinInv
<1>12. OutageOK'
  <2>1. Holder # 0 => pools'[Holder] = pools[Holder]
    BY <1>2, <1>5
  <2> QED BY <1>1, <1>6, <2>1, OutageKept
<1>13. FallIsEarned
  BY <1>2, <1>5 DEF FallIsEarned
<1> QED BY <1>7, <1>8, <1>10, <1>11, <1>12, <1>13

\* A backend of the next pool takes over a part of what this pool's is known for.
LEMMA RunCopies ==
    ASSUME RunInv, reload.pc = "inherit", NEW u \in DOMAIN pools[gen], u \in DOMAIN pools[gen + 1],
           NEW b, PoolMoves(pools, pools', gen + 1, u, b),
           reload'.pc = "inherit", reload'.todo \subseteq reload.todo,
           reload'.half \in {NoUpstream} \cup reload'.todo,
           UNCHANGED <<gen, running, closer, closing, cancelled, probe, failRun, told, outage, fell>>,
           missed' \in [Gens -> SUBSET Upstreams], crossed' \in [Gens -> SUBSET Upstreams],
           \A h \in Gens : h # gen + 1 => missed'[h] = missed[h] /\ crossed'[h] = crossed[h],
           \A v \in Upstreams \ {u} : v \in missed'[gen + 1] <=> v \in missed[gen + 1],
           \A v \in Upstreams \ {u} : v \in crossed'[gen + 1] <=> v \in crossed[gen + 1],
           \A v \in Upstreams \ {u} : Uncopied(gen + 1, v) => Uncopied(gen + 1, v)',
           closer = "idle" =>
             /\ u \in missed'[gen + 1] \/ Timely(b, Pending(u), failRun[u])
             /\ u \in crossed'[gen + 1] \/ Agrees(b, Pending(u), told[u])
    PROVE  HistoryType' /\ PoolsType' /\ OwnInv' /\ KinInv' /\ OutageOK' /\ FallIsEarned
<1>1. /\ gen \in Gens /\ gen \in Nat /\ gen \in DOMAIN pools /\ gen + 1 \in Gens
      /\ gen + 1 \in DOMAIN pools /\ Holder \in Nat /\ Holder <= gen
      /\ (Holder # 0 => Holder \in Gens /\ Holder \in DOMAIN pools)
      /\ \A h \in Copies : h \in Gens /\ h \in DOMAIN pools
  BY GenFacts DEF RunInv
<1>2. /\ DOMAIN pools' = DOMAIN pools /\ \A h \in DOMAIN pools : DOMAIN pools'[h] = DOMAIN pools[h]
      /\ \A h \in DOMAIN pools : h # gen + 1 => pools'[h] = pools[h]
      /\ \A v \in DOMAIN pools[gen + 1] : pools'[gen + 1][v] = IF v = u THEN b ELSE pools[gen + 1][v]
  BY DEF PoolMoves, At
<1>3. Holder' = Holder /\ Copies' = Copies
  BY DEF Holder, Copies
<1>4. HistoryType'
  BY DEF RunInv, HistoryType
<1>5. PoolsType'
  <2>1. pools' \in Seq(Pool) /\ Len(pools') = Len(pools)
    BY DEF PoolMoves
  <2> QED BY <1>1, <1>2, <1>3, <2>1 DEF RunInv, PoolsType
<1>6. OwnInv'
  <2>1. ASSUME Holder # 0, NEW v \in Upstreams
        PROVE  IF v \in DOMAIN pools'[Holder]
               THEN OwnOK(Holder, pools[Holder][v], v, probe[Holder][v], failRun[v], told[v])'
               ELSE probe'[Holder][v] = "idle"
    <3>1. IF v \in DOMAIN pools[Holder]
          THEN OwnOK(Holder, pools[Holder][v], v, probe[Holder][v], failRun[v], told[v])
          ELSE probe[Holder][v] = "idle"
      BY <2>1 DEF RunInv, OwnInv
    <3>2. /\ pools'[Holder] = pools[Holder] /\ crossed'[Holder] = crossed[Holder]
          /\ missed'[Holder] = missed[Holder]
      BY <1>1, <1>2, <2>1
    <3> QED BY <1>3, <3>1, <3>2 DEF OwnOK
  <2> QED BY <1>3, <2>1 DEF OwnInv
<1>7. KinInv'
  <2>1. ASSUME NEW h \in Copies, NEW v \in DOMAIN pools[h]
        PROVE  KinOK(h, pools[h][v], v, Pending(v), failRun[v], told[v])'
    <3>0. /\ closer = "idle" /\ Pending(v)' = Pending(v) /\ h \in {gen, gen + 1} /\ h \in Gens
          /\ h \in DOMAIN pools
      BY <1>1, <1>3 DEF Copies, Pending
    <3>1. KinOK(h, pools[h][v], v, Pending(v), failRun[v], told[v])
      BY DEF RunInv, KinInv
    <3>2. v \in Upstreams
      BY <3>0, PoolFacts DEF RunInv
    <3>3. CASE h = gen
      <4>1. pools'[h] = pools[h] /\ crossed'[h] = crossed[h] /\ missed'[h] = missed[h]
        BY <1>1, <1>2, <3>0, <3>3
      <4>2. ~Uncopied(h, v)
        BY <1>1, <3>3 DEF Uncopied
      <4> QED BY <3>0, <3>1, <4>1, <4>2 DEF KinOK
    <3>4. CASE h = gen + 1 /\ v # u
      <4>1. /\ pools'[h][v] = pools[h][v] /\ (v \in missed'[h] <=> v \in missed[h])
            /\ (v \in crossed'[h] <=> v \in crossed[h]) /\ (Uncopied(h, v) => Uncopied(h, v)')
        BY <1>2, <3>2, <3>4
      <4> QED BY <3>0, <3>1, <4>1 DEF KinOK
    <3>5. CASE h = gen + 1 /\ v = u
      <4>1. pools'[h][v] = b
        BY <1>2, <3>5
      <4> QED BY <3>0, <3>5, <4>1 DEF KinOK
    <3> QED BY <3>0, <3>3, <3>4, <3>5
  <2>2. \A h \in Copies : DOMAIN pools'[h] = DOMAIN pools[h]
    BY <1>1, <1>2
  <2> QED BY <1>3, <2>1, <2>2 DEF KinInv
<1>8. OutageOK'
  <2>1. Holder # 0 => pools'[Holder] = pools[Holder]
    BY <1>1, <1>2
  <2> QED BY <1>3, <2>1, OutageKept
<1>9. FallIsEarned
  <2> SUFFICES ASSUME NEW h \in DOMAIN pools, NEW v \in DOMAIN pools[h], probe[h][v] = "fail"
               PROVE  pools'[h] = pools[h]
    BY DEF FallIsEarned
  <2>1. h \in Nat /\ (h \in Gens => h = Holder)
    <3>1. h \in Gens /\ v \in Upstreams => h = Holder
      BY Probed
    <3>2. v \in Upstreams /\ h \in Nat
      BY PoolFacts, GenFacts DEF RunInv
    <3> QED BY <3>1, <3>2
  <2>2. h # gen + 1
    BY <1>1, <2>1
  <2> QED BY <1>2, <2>2
<1> QED BY <1>4, <1>5, <1>6, <1>7, <1>8, <1>9

\* What the next pool is behind on, after it took over what is known of u.
LEMMA CopiedMarks ==
    ASSUME NEW f \in [Gens -> SUBSET Upstreams], NEW u \in Upstreams, gen \in Gens, gen + 1 \in Gens,
           NEW o, o = Inherits(f, u)
    PROVE  /\ o \in [Gens -> SUBSET Upstreams]
           /\ \A h \in Gens : h # gen + 1 => o[h] = f[h]
           /\ \A v \in Upstreams \ {u} : v \in o[gen + 1] <=> v \in f[gen + 1]
           /\ u \in o[gen + 1] <=> u \in f[gen]
<1>1. PICK s : s = IF u \in f[gen] THEN f[gen + 1] \cup {u} ELSE f[gen + 1] \ {u}
  OBVIOUS
<1>2. o = [f EXCEPT ![gen + 1] = s] /\ s \in SUBSET Upstreams
  BY <1>1 DEF Inherits
<1> QED BY <1>1, <1>2

LEMMA RunInheritHealth ==
    ASSUME RunInv, NEW u \in Upstreams, InheritHealth(u)
    PROVE  HistoryType' /\ PoolsType' /\ OwnInv' /\ KinInv' /\ OutageOK' /\ FallIsEarned
<1> USE DEF history, poolVars, lockVars, copyHistory
<1>0. PICK old, new, b : old = pools[gen][u] /\ new = pools[gen + 1][u] /\ b = inheritHealth(new, old)
  OBVIOUS
<1>1. /\ reload.pc = "inherit" /\ u \in reload.todo /\ reload.half = NoUpstream
      /\ pools' = Set(pools, gen + 1, u, b) /\ crossed' = Inherits(crossed, u)
      /\ UNCHANGED <<gen, running, closer, closing, cancelled, probe, failRun, told, outage, fell,
                     missed>>
  BY <1>0 DEF InheritHealth, Set
<1>2. reload'.pc = "inherit" /\ reload'.todo = reload.todo /\ reload'.half = u
  BY <1>1 DEF InheritHealth, RunInv, ExclusiveInv, LockType
<1>3. /\ gen \in Gens /\ gen \in Nat /\ gen + 1 \in Gens /\ gen \in DOMAIN pools
      /\ gen + 1 \in DOMAIN pools /\ u \in DOMAIN pools[gen] /\ u \in DOMAIN pools[gen + 1]
  BY <1>1, GenFacts DEF RunInv, PoolsType
<1>4. old \in CappedState /\ new \in CappedState
  BY <1>0, <1>3, PoolFacts DEF RunInv
<1>5. b \in CappedState /\ b.healthy = old.healthy /\ b.failStreak = new.failStreak
  BY <1>0, <1>4 DEF inheritHealth, CappedState, BackendState
<1>6. PoolMoves(pools, pools', gen + 1, u, b)
  <2>1. pools \in Seq(Pool)
    BY DEF RunInv, PoolsType
  <2>2. PoolMoves(pools, Set(pools, gen + 1, u, b), gen + 1, u, b)
    BY <1>3, <1>5, <2>1, PoolSets
  <2> QED BY <1>1, <2>2
<1>7. crossed \in [Gens -> SUBSET Upstreams] /\ missed \in [Gens -> SUBSET Upstreams]
  BY DEF RunInv, HistoryType
<1>8. /\ crossed' \in [Gens -> SUBSET Upstreams]
      /\ \A h \in Gens : h # gen + 1 => crossed'[h] = crossed[h]
      /\ \A v \in Upstreams \ {u} : v \in crossed'[gen + 1] <=> v \in crossed[gen + 1]
      /\ u \in crossed'[gen + 1] <=> u \in crossed[gen]
  BY <1>1, <1>3, <1>7, CopiedMarks
<1>9. \A v \in Upstreams \ {u} : Uncopied(gen + 1, v) => Uncopied(gen + 1, v)'
  BY <1>1, <1>2 DEF Uncopied
<1>10. ASSUME closer = "idle"
       PROVE  /\ u \in missed'[gen + 1] \/ Timely(b, Pending(u), failRun[u])
              /\ u \in crossed'[gen + 1] \/ Agrees(b, Pending(u), told[u])
  <2>1. gen \in Copies /\ gen + 1 \in Copies /\ ~Uncopied(gen, u)
    BY <1>1, <1>3, <1>10 DEF Copies, Uncopied
  <2>2. /\ KinOK(gen, old, u, Pending(u), failRun[u], told[u])
        /\ KinOK(gen + 1, new, u, Pending(u), failRun[u], told[u])
    BY <1>0, <1>3, <2>1 DEF RunInv, KinInv
  <2> QED BY <1>1, <1>5, <1>8, <2>1, <2>2 DEF KinOK, Timely, Agrees
<1>11. reload'.todo \subseteq reload.todo /\ reload'.half \in {NoUpstream} \cup reload'.todo
  BY <1>1, <1>2
<1> QED BY <1>1, <1>2, <1>3, <1>6, <1>7, <1>8, <1>9, <1>10, <1>11, RunCopies

LEMMA RunInheritStreaks ==
    ASSUME RunInv, NEW u \in Upstreams, InheritStreaks(u)
    PROVE  HistoryType' /\ PoolsType' /\ OwnInv' /\ KinInv' /\ OutageOK' /\ FallIsEarned
<1> USE DEF history, poolVars, lockVars, copyHistory
<1>0. PICK old, new, b : old = pools[gen][u] /\ new = pools[gen + 1][u] /\ b = inheritStreaks(new, old)
  OBVIOUS
<1>1. /\ reload.pc = "inherit" /\ reload.half = u
      /\ pools' = Set(pools, gen + 1, u, b) /\ missed' = Inherits(missed, u)
      /\ UNCHANGED <<gen, running, closer, closing, cancelled, probe, failRun, told, outage, fell,
                     crossed>>
  BY <1>0 DEF InheritStreaks, Set
<1>2. reload'.pc = "inherit" /\ reload'.todo = reload.todo \ {u} /\ reload'.half = NoUpstream
  BY <1>1 DEF InheritStreaks, RunInv, ExclusiveInv, LockType
<1>3. /\ gen \in Gens /\ gen \in Nat /\ gen + 1 \in Gens /\ gen \in DOMAIN pools
      /\ gen + 1 \in DOMAIN pools /\ u \in DOMAIN pools[gen] /\ u \in DOMAIN pools[gen + 1]
  <2>1. NoUpstream \notin Upstreams
    BY CheckerAssumption
  <2> QED BY <1>1, <2>1, GenFacts DEF RunInv, PoolsType
<1>4. old \in CappedState /\ new \in CappedState
  BY <1>0, <1>3, PoolFacts DEF RunInv
<1>5. b \in CappedState /\ b.healthy = new.healthy /\ b.failStreak = old.failStreak
  BY <1>0, <1>4 DEF inheritStreaks, CappedState, BackendState
<1>6. PoolMoves(pools, pools', gen + 1, u, b)
  <2>1. pools \in Seq(Pool)
    BY DEF RunInv, PoolsType
  <2>2. PoolMoves(pools, Set(pools, gen + 1, u, b), gen + 1, u, b)
    BY <1>3, <1>5, <2>1, PoolSets
  <2> QED BY <1>1, <2>2
<1>7. crossed \in [Gens -> SUBSET Upstreams] /\ missed \in [Gens -> SUBSET Upstreams]
  BY DEF RunInv, HistoryType
<1>8. /\ missed' \in [Gens -> SUBSET Upstreams]
      /\ \A h \in Gens : h # gen + 1 => missed'[h] = missed[h]
      /\ \A v \in Upstreams \ {u} : v \in missed'[gen + 1] <=> v \in missed[gen + 1]
      /\ u \in missed'[gen + 1] <=> u \in missed[gen]
  BY <1>1, <1>3, <1>7, CopiedMarks
<1>9. \A v \in Upstreams \ {u} : Uncopied(gen + 1, v) => Uncopied(gen + 1, v)'
  <2>1. NoUpstream \notin Upstreams
    BY CheckerAssumption
  <2> QED BY <1>1, <1>2, <2>1 DEF Uncopied
<1>10. ASSUME closer = "idle"
       PROVE  /\ u \in missed'[gen + 1] \/ Timely(b, Pending(u), failRun[u])
              /\ u \in crossed'[gen + 1] \/ Agrees(b, Pending(u), told[u])
  <2>1. gen \in Copies /\ gen + 1 \in Copies /\ ~Uncopied(gen + 1, u)
    BY <1>1, <1>10 DEF Copies, Uncopied
  <2>2. /\ KinOK(gen, old, u, Pending(u), failRun[u], told[u])
        /\ KinOK(gen + 1, new, u, Pending(u), failRun[u], told[u])
    BY <1>0, <1>3, <2>1 DEF RunInv, KinInv
  <2> QED BY <1>1, <1>5, <1>8, <2>1, <2>2 DEF KinOK, Timely, Agrees
<1>11. reload'.todo \subseteq reload.todo /\ reload'.half \in {NoUpstream} \cup reload'.todo
  BY <1>2
<1> QED BY <1>1, <1>2, <1>3, <1>6, <1>7, <1>8, <1>9, <1>10, <1>11, RunCopies

\* The old goroutine has returned, so nothing is on its way when the new one asks.
LEMMA RunSyncStart ==
    ASSUME RunInv, SyncStart
    PROVE  HistoryType' /\ PoolsType' /\ OwnInv' /\ KinInv' /\ OutageOK' /\ FallIsEarned
<1> USE DEF history, poolVars, lockVars, copyHistory
<1>1. /\ reload.pc = "stopping" /\ Stopped(running) /\ reload'.pc = "idle" /\ ~fell'
      /\ fell' \in BOOLEAN /\ closer = "idle"
      /\ UNCHANGED <<pools, gen, closer, closing, cancelled, failRun, told, outage, missed, crossed>>
  BY DEF SyncStart, RunInv, ExclusiveInv, LockType
<1>2. PICK on \in BOOLEAN :
        running' = (IF on THEN gen ELSE 0)
        /\ probe' = [probe EXCEPT ![gen] = IF on THEN Ask(gen) ELSE Quiet]
  BY DEF SyncStart
<1>3. /\ gen \in Gens /\ gen \in Nat /\ gen # 0 /\ gen \in DOMAIN pools /\ Copies = {gen}
      /\ Copies' = {gen} /\ \A u \in Upstreams : ~Uncopied(gen, u) /\ Uncopied(gen, u)' = FALSE
  <2>1. gen \in Gens /\ gen \in Nat /\ gen \in DOMAIN pools
    BY GenFacts DEF RunInv
  <2> QED BY <1>1, <2>1 DEF Copies, Uncopied, Gens
<1>4. \A u \in Upstreams : Pending(u) = "idle"
  BY <1>1 DEF RunInv, ExclusiveInv, LockType, Stopped, Quiet, Pending, Holder
<1>5. (on => Holder' = gen) /\ (~on => Holder' = 0)
  BY <1>1, <1>2 DEF Holder
<1>6. \A u \in Upstreams :
         /\ probe'[gen][u] \in {"idle", "asking"}
         /\ probe'[gen][u] = "asking" => u \in DOMAIN pools[gen] /\ pools[gen][u].enabled
  BY <1>2, <1>3 DEF Ask, Quiet, Enabled, RunInv, ExclusiveInv, LockType
<1>7. DOMAIN pools[gen] \in SUBSET Upstreams
  BY <1>3, PoolFacts DEF RunInv
<1>8. ASSUME NEW u \in DOMAIN pools[gen]
      PROVE  /\ u \in Upstreams
             /\ u \in missed[gen] \/ Timely(pools[gen][u], "idle", failRun[u])
             /\ u \in crossed[gen] \/ Agrees(pools[gen][u], "idle", told[u])
  BY <1>3, <1>4, <1>7 DEF RunInv, KinInv, KinOK
<1>9. HistoryType' /\ PoolsType'
  <2>1. Holder' <= gen
    BY <1>3, <1>5
  <2> QED BY <1>1, <1>2, <2>1 DEF RunInv, HistoryType, PoolsType
<1>10. OwnInv'
  <2>1. ASSUME on, NEW u \in Upstreams
        PROVE  IF u \in DOMAIN pools'[gen]
               THEN OwnOK(gen, pools[gen][u], u, probe[gen][u], failRun[u], told[u])'
               ELSE probe'[gen][u] = "idle"
    BY <1>1, <1>6, <1>8 DEF OwnOK, Sane, Timely, Ready, Agrees, Will
  <2>2. CASE on
    BY <1>1, <1>5, <2>1, <2>2 DEF OwnInv
  <2>3. CASE ~on
    BY <1>5, <2>3 DEF OwnInv
  <2> QED BY <2>2, <2>3
<1>11. KinInv'
  <2>1. ASSUME NEW u \in DOMAIN pools[gen]
        PROVE  KinOK(gen, pools[gen][u], u, Pending(u), failRun[u], told[u])'
    <3>1. Pending(u)' \in {"idle", "asking"} /\ u \in Upstreams
      <4>1. u \in Upstreams /\ probe'[gen][u] \in {"idle", "asking"}
        <5>1. u \in Upstreams
          BY <1>8
        <5> QED BY <1>6, <5>1
      <4>2. CASE on
        BY <1>1, <1>3, <1>5, <4>1, <4>2 DEF Pending
      <4>3. CASE ~on
        BY <1>5, <4>1, <4>3 DEF Pending
      <4> QED BY <4>1, <4>2, <4>3
    <3> QED BY <1>1, <1>8, <3>1 DEF KinOK, Timely, Agrees, Will
  <2> QED BY <1>1, <1>3, <2>1 DEF KinInv
<1> QED BY <1>1, <1>9, <1>10, <1>11 DEF OutageOK, FallIsEarned

LEMMA RunNext == RunInv /\ [Next]_vars => RunInv' /\ FallIsEarned
<1> SUFFICES ASSUME RunInv, [Next]_vars PROVE RunInv' /\ FallIsEarned
  OBVIOUS
<1> USE DEF history, poolVars, lockVars, copyHistory
<1> DEFINE Kept == HistoryType' /\ PoolsType' /\ OwnInv' /\ KinInv' /\ OutageOK' /\ FallIsEarned
<1>1. ExclusiveInv'
  BY ExclusiveNext DEF RunInv
<1> SUFFICES Kept
  BY <1>1 DEF RunInv
<1>2. ASSUME NEW g \in Gens, Probing(g) PROVE Kept
  <2>1. ASSUME NEW u \in Upstreams, NEW result \in {"ok", "fail"}, Answer(g, u, result) PROVE Kept
    BY <2>1, RunAnswer DEF Answer, FallIsEarned
  <2>2. ASSUME NEW u \in Upstreams, Discard(g, u) PROVE Kept
    BY <2>2, RunDiscard DEF Discard, FallIsEarned
  <2>3. ASSUME NEW u \in Upstreams, Record(g, u) PROVE Kept
    BY <2>3, RunRecord
  <2>4. ASSUME NEW u \in Upstreams, RaiseUp(g, u) PROVE Kept
    BY <2>4, RunRaiseUp DEF FallIsEarned
  <2>5. ASSUME NEW u \in Upstreams, RaiseDown(g, u) PROVE Kept
    BY <2>5, RunRaiseDown DEF RaiseDown, FallIsEarned
  <2>6. ASSUME NEW u \in Upstreams, RaiseOutage(g, u) PROVE Kept
    BY <2>6, RunRaiseOutage DEF RaiseOutage, FallIsEarned
  <2>7. CASE Round(g)
    BY <2>7, RunRound DEF Round, FallIsEarned
  <2>8. CASE EndRound(g) \/ Exit(g)
    BY <2>8, RunAside
  <2> QED BY <1>2, <2>1, <2>2, <2>3, <2>4, <2>5, <2>6, <2>7, <2>8 DEF Probing
<1>3. CASE Reloading
  <2>1. ASSUME NEW cfg \in Configs, NEW on \in BOOLEAN, BeginReload(cfg, on) PROVE Kept
    BY <2>1, RunBeginReload
  <2>2. ASSUME NEW u \in Upstreams, InheritHealth(u) \/ InheritStreaks(u) PROVE Kept
    BY <2>2, RunInheritHealth, RunInheritStreaks
  <2>3. CASE Publish \/ SyncLock \/ SyncStop
    BY <2>3, RunAside
  <2>4. CASE SyncStart
    BY <2>4, RunSyncStart
  <2> QED BY <1>3, <2>1, <2>2, <2>3, <2>4 DEF Reloading
<1>4. CASE Close \/ Closed \/ UNCHANGED vars
  BY <1>4, RunAside
<1>5. ASSUME NEW u \in Upstreams, Flip(u) PROVE Kept
  BY <1>5, RunAside
<1>6. ASSUME NEW u \in Upstreams, PassiveEject(u) \/ PassiveLapse(u) PROVE Kept
  BY <1>6, RunPassive
<1> QED BY <1>2, <1>3, <1>4, <1>5, <1>6 DEF Next

\* However often the configuration is reloaded, the last alert about a backend that
\* is being probed is true, but for one that changed on the old pool after it was
\* copied or came back new; and a host whose enabled backends the probes have taken
\* down was reported unavailable, for any number of backends and any thresholds
\* (checker.go probe, notify, Sync; backend.go inheritFrom).
THEOREM AlertsAreTruthful == Spec => []AlertsTruthful
<1>1. RunInv => AlertsTruthful
  <2> SUFFICES ASSUME RunInv, NEW g, g = Holder, g # 0
               PROVE  /\ \A u \in Enabled(g) \ crossed[g] :
                            probe[g][u] \notin {"wentUp", "wentDown"}
                            => (told[u] = "up") = pools[g][u].healthy
                      /\ /\ fell /\ Enabled(g) # {} /\ \A u \in Enabled(g) : ~pools[g][u].healthy
                         /\ \A u \in Upstreams : probe[g][u] \notin {"wentUp", "wentDown"} \cup {"notify"}
                         => outage
    BY DEF AlertsTruthful
  <2>0. g \in DOMAIN pools /\ DOMAIN pools[g] \in SUBSET Upstreams
    BY GenFacts, PoolFacts DEF RunInv
  <2>1. ASSUME NEW u \in Enabled(g) \ crossed[g], probe[g][u] \notin {"wentUp", "wentDown"}
        PROVE  (told[u] = "up") = pools[g][u].healthy
    <3>1. u \in DOMAIN pools[g] /\ u \in Upstreams
      BY <2>0 DEF Enabled
    <3>2. OwnOK(g, pools[g][u], u, probe[g][u], failRun[u], told[u])
      BY <3>1 DEF RunInv, OwnInv
    <3>3. Agrees(pools[g][u], probe[g][u], told[u])
      BY <2>1, <3>2 DEF OwnOK
    <3>4. pools[g][u].healthy \in BOOLEAN
      BY <2>0, <3>1, PoolFacts DEF RunInv, BackendState
    <3>5. (told[u] = "up") <=> pools[g][u].healthy
      BY <2>1, <3>3 DEF Agrees, Will
    <3> QED BY <3>4, <3>5
  <2>2. ASSUME fell, Enabled(g) # {}, \A u \in Enabled(g) : ~pools[g][u].healthy,
               \A u \in Upstreams : probe[g][u] \notin {"wentUp", "wentDown"} \cup {"notify"}
        PROVE  outage
    <3>1. /\ \E u \in DOMAIN pools[g] : pools[g][u].enabled
          /\ \A u \in DOMAIN pools[g] : pools[g][u].enabled => ~pools[g][u].healthy
      BY <2>2 DEF Enabled
    <3> QED BY <2>0, <2>2, <3>1 DEF RunInv, OutageOK
  <2> QED BY <2>1, <2>2
<1> QED BY <1>1, RunInit, RunNext, PTL DEF Spec

\* However often the configuration is reloaded, a backend falls only after
\* UnhealthyThreshold real failures in a row, whatever a cancelled probe or the
\* proxy's ejections do; but for one whose last success landed on the old pool after
\* its streaks were copied (backend.go RecordProbe, inheritFrom; checker.go probe).
THEOREM FallsAreEarned == Spec => DownIsEarned
<1>1. FallIsEarned =>
        \A g \in DOMAIN pools : \A u \in DOMAIN pools[g] :
          probe[g][u] = "fail" /\ pools[g][u].healthy /\ ~pools'[g][u].healthy
          => failRun[u] >= UnhealthyThreshold \/ u \in missed[g]
  BY DEF FallIsEarned
<1> QED BY <1>1, RunInit, RunNext, PTL DEF Spec, DownIsEarned
=============================================================================
