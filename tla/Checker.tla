------------------------------ MODULE Checker ------------------------------
(***************************************************************************)
(* internal/health/checker.go: the probing goroutines of one target, the   *)
(* Sync a configuration reload ends with, Close at shutdown, and the       *)
(* alerts a change of health raises.  A reload builds the next pool, whose *)
(* backends inherit from the current one while probes are still running,   *)
(* publishes it, and hands it to Sync.                                     *)
(*                                                                         *)
(* Pool g's hostChecker is checker g.  A target that is gone from the new  *)
(* table and one whose check is switched off are stopped alike.            *)
(***************************************************************************)
EXTENDS Backend, Sequences, FiniteSets

CONSTANTS
    Upstreams,           \* upstream addresses of the target
    Configs,             \* configurations: functions from some upstreams to Enabled
    HealthyThreshold,
    UnhealthyThreshold,
    NoUpstream,
    MaxGen               \* bound: configurations loaded

ASSUME CheckerAssumption ==
    /\ Configs # {}
    /\ \A cfg \in Configs : DOMAIN cfg \subseteq Upstreams /\ \A u \in DOMAIN cfg : cfg[u] \in BOOLEAN
    /\ HealthyThreshold \in Nat \ {0} /\ UnhealthyThreshold \in Nat \ {0}
    /\ MaxGen \in Nat \ {0}
    /\ NoUpstream \notin Upstreams

VARIABLES
    alive,    \* whether each upstream really answers
    pools,    \* every pool built so far
    check,    \* whether pool g's configuration has the check enabled
    reload,   \* the reloading goroutine: pc, backends still to inherit, half done
    gen,      \* the published pool
    mu,       \* holder of Checker.mu: "free" or "sync"
    running,  \* the checker in c.running, 0 for none
    closer,   \* the closing goroutine
    closing,  \* the checker it waits for
    loop,     \* each checker's goroutine
    cancelled,\* checkers whose context is cancelled
    probe,    \* each checker's probe of each upstream
    failRun,  \* history: consecutive real failures of each upstream, capped
    told,     \* history: the last alert about each upstream
    outage,   \* history: HostUnavailable raised with no recovery since
    fell,     \* history: a fall was recorded since the running checker started
    missed,   \* history: in each pool, the upstreams whose last success is recorded on
              \* the pool it was copied from, after it was copied
    crossed   \* history: those told about otherwise than they were copied

vars == <<alive, pools, check, reload, gen, mu, running, closer, closing, loop, cancelled,
          probe, failRun, told, outage, fell, missed, crossed>>

poolVars == <<check, gen>>
lockVars == <<mu, running, closer, closing>>
copyHistory == <<missed, crossed>>
history == <<failRun, told, outage, fell, copyHistory>>

Gens == 1 .. MaxGen
Enabled(g) == {u \in DOMAIN pools[g] : pools[g][u].enabled}
Quiet == [u \in Upstreams |-> "idle"]

\* The first configuration has been loaded and its checker started.
Init ==
    /\ alive = [u \in Upstreams |-> TRUE]
    /\ \E cfg \in Configs : pools = <<NewPool(cfg, [u \in {} |-> 0])>>
    /\ check = [g \in Gens |-> TRUE]
    /\ reload = [pc |-> "idle", todo |-> {}, half |-> NoUpstream]
    /\ gen = 1
    /\ mu = "free"
    /\ running = 1
    /\ closer = "idle"
    /\ closing = 0
    /\ loop = [g \in Gens |-> IF g = 1 THEN "select" ELSE "none"]
    /\ cancelled = {}
    /\ probe = [g \in Gens |-> Quiet]
    /\ failRun = [u \in Upstreams |-> 0]
    /\ told = [u \in Upstreams |-> "up"]
    /\ outage = FALSE
    /\ fell = FALSE
    /\ missed = [g \in Gens |-> {}]
    /\ crossed = [g \in Gens |-> {}]

-----------------------------------------------------------------------------
\* hostChecker.run and its probes.

Ask(g) == [u \in Upstreams |-> IF u \in Enabled(g) THEN "asking" ELSE "idle"]

\* The ticker fires; select may prefer it to a cancelled context.
Round(g) ==
    /\ loop[g] = "select"
    /\ loop' = [loop EXCEPT ![g] = "round"]
    /\ probe' = [probe EXCEPT ![g] = Ask(g)]
    /\ UNCHANGED <<alive, pools, poolVars, reload, lockVars, cancelled, history>>

\* doProbe returns; a cancelled context fails it whatever the backend does.
Answer(g, u, result) ==
    /\ probe[g][u] = "asking"
    /\ \/ result = "ok" /\ alive[u]
       \/ result = "fail" /\ (~alive[u] \/ g \in cancelled)
    /\ probe' = [probe EXCEPT ![g][u] = result]
    /\ failRun' = [failRun EXCEPT ![u] =
                     IF result = "ok" THEN 0
                     ELSE IF ~alive[u] THEN Capped(@ + 1, UnhealthyThreshold) ELSE @]
    /\ UNCHANGED <<alive, pools, poolVars, reload, lockVars, loop, cancelled, told, outage, fell,
                   copyHistory>>

\* Mutant: a failure is discarded whether or not the probe was cancelled.
DiscardedAlways(g, u) == probe[g][u] = "fail"

Discarded(g, u) == probe[g][u] = "fail" /\ g \in cancelled

\* Mutant: the probe that gives up does not tell the round.
DiscardUntold(g, u) == FALSE

Discard(g, u) ==
    /\ Discarded(g, u)
    /\ probe' = [probe EXCEPT ![g][u] = "idle"]
    /\ UNCHANGED <<alive, pools, poolVars, reload, lockVars, loop, cancelled, history>>

\* History: pool g's backend of u is up to date, those of later pools are not.
Outdates(sets, g, u) ==
    [h \in Gens |-> IF h = g THEN sets[h] \ {u}
                    ELSE IF h \in (g + 1) .. Len(pools) THEN sets[h] \cup {u}
                    ELSE sets[h]]

\* RecordProbe; most results change nothing.
Record(g, u) ==
    LET old == pools[g][u]
        b == RecordProbe(old, probe[g][u] = "ok", HealthyThreshold, UnhealthyThreshold)
    IN
    /\ probe[g][u] \in {"ok", "fail"} /\ ~Discarded(g, u)
    /\ pools' = [pools EXCEPT ![g][u] = b]
    /\ probe' = [probe EXCEPT ![g][u] = IF b.healthy = old.healthy THEN "idle"
                                        ELSE IF b.healthy THEN "wentUp" ELSE "wentDown"]
    /\ fell' = (fell \/ (old.healthy /\ ~b.healthy))
    /\ missed' = IF probe[g][u] = "ok" THEN Outdates(missed, g, u) ELSE missed
    /\ crossed' = IF b.healthy # old.healthy THEN Outdates(crossed, g, u) ELSE crossed
    /\ UNCHANGED <<alive, poolVars, reload, lockVars, loop, cancelled, failRun, told, outage>>

\* A recovery clears the ejection and is announced.
RaiseUp(g, u) ==
    /\ probe[g][u] = "wentUp"
    /\ pools' = [pools EXCEPT ![g][u] = ClearEjection(@)]
    /\ told' = [told EXCEPT ![u] = "up"]
    /\ outage' = FALSE
    /\ probe' = [probe EXCEPT ![g][u] = "idle"]
    /\ UNCHANGED <<alive, poolVars, reload, lockVars, loop, cancelled, failRun, fell, copyHistory>>

\* A fall is announced, then the question is whether any backend is left.
RaiseDown(g, u) ==
    /\ probe[g][u] = "wentDown"
    /\ told' = [told EXCEPT ![u] = "down"]
    /\ probe' = [probe EXCEPT ![g][u] = "notify"]
    /\ UNCHANGED <<alive, pools, poolVars, reload, lockVars, loop, cancelled, failRun, outage, fell,
                   copyHistory>>

\* Mutant: an outage is reported for an empty pool only.
NoneLeftOfNone(g, u) == Enabled(g) = {}

\* HealthyCount() is 0 of at least one.
NoneLeft(g, u) == \A v \in Enabled(g) : ~Available(pools[g][v], 0)

RaiseOutage(g, u) ==
    /\ probe[g][u] = "notify"
    /\ outage' = (outage \/ NoneLeft(g, u))
    /\ probe' = [probe EXCEPT ![g][u] = "idle"]
    /\ UNCHANGED <<alive, pools, poolVars, reload, lockVars, loop, cancelled, failRun, told, fell,
                   copyHistory>>

RoundOver(g) == loop[g] = "round" /\ \A u \in Upstreams : probe[g][u] = "idle"

EndRound(g) ==
    /\ RoundOver(g)
    /\ loop' = [loop EXCEPT ![g] = "select"]
    /\ UNCHANGED <<alive, pools, poolVars, reload, lockVars, cancelled, probe, history>>

Exit(g) ==
    /\ loop[g] = "select" /\ g \in cancelled
    /\ loop' = [loop EXCEPT ![g] = "exited"]
    /\ UNCHANGED <<alive, pools, poolVars, reload, lockVars, cancelled, probe, history>>

-----------------------------------------------------------------------------
\* Engine.Reload: NewPool inherits backend by backend, the table is stored,
\* Sync replaces the checker under mu.

BeginReload(cfg, on) ==
    /\ reload.pc = "idle" /\ gen < MaxGen
    /\ pools' = Append(pools, [u \in DOMAIN cfg |-> NewBackend(cfg[u])])
    /\ check' = [check EXCEPT ![gen + 1] = on]
    /\ reload' = [pc |-> "inherit", todo |-> DOMAIN cfg \cap DOMAIN pools[gen], half |-> NoUpstream]
    /\ crossed' = [crossed EXCEPT ![gen + 1] =
                     {u \in DOMAIN cfg \ DOMAIN pools[gen] : told[u] = "down"}]
    /\ UNCHANGED <<alive, gen, lockVars, loop, cancelled, probe, failRun, told, outage, fell, missed>>

\* History: the next pool's backend of u is as up to date as this one's.
Inherits(sets, u) ==
    [sets EXCEPT ![gen + 1] = IF u \in sets[gen] THEN @ \cup {u} ELSE @ \ {u}]

InheritHealth(u) ==
    /\ reload.pc = "inherit" /\ u \in reload.todo /\ reload.half = NoUpstream
    /\ pools' = [pools EXCEPT ![gen + 1][u] = inheritHealth(@, pools[gen][u])]
    /\ reload' = [reload EXCEPT !.half = u]
    /\ crossed' = Inherits(crossed, u)
    /\ UNCHANGED <<alive, poolVars, lockVars, loop, cancelled, probe, failRun, told, outage, fell, missed>>

InheritStreaks(u) ==
    /\ reload.pc = "inherit" /\ reload.half = u
    /\ pools' = [pools EXCEPT ![gen + 1][u] = inheritStreaks(@, pools[gen][u])]
    /\ reload' = [reload EXCEPT !.half = NoUpstream, !.todo = @ \ {u}]
    /\ missed' = Inherits(missed, u)
    /\ UNCHANGED <<alive, poolVars, lockVars, loop, cancelled, probe, failRun, told, outage, fell, crossed>>

Publish ==
    /\ reload.pc = "inherit" /\ reload.todo = {}
    /\ gen' = gen + 1
    /\ reload' = [reload EXCEPT !.pc = "lock"]
    /\ UNCHANGED <<alive, pools, check, lockVars, loop, cancelled, probe, history>>

\* Sync takes mu; a closed checker ignores it.
SyncLock ==
    /\ reload.pc = "lock" /\ mu = "free"
    /\ IF closer = "idle" THEN mu' = "sync" /\ reload' = [reload EXCEPT !.pc = "sync"]
       ELSE mu' = mu /\ reload' = [reload EXCEPT !.pc = "idle"]
    /\ UNCHANGED <<alive, pools, poolVars, running, closer, closing, loop, cancelled, probe, history>>

\* The pool is never the one already running, so existing.matches is false.
SyncStop ==
    /\ reload.pc = "sync"
    /\ cancelled' = cancelled \cup ({running} \ {0})
    /\ reload' = [reload EXCEPT !.pc = "stopping"]
    /\ UNCHANGED <<alive, pools, poolVars, lockVars, loop, probe, history>>

\* <-h.done
Stopped(g) == g # 0 => loop[g] = "exited"

\* Mutant: the old checker is cancelled but not waited for.
SyncStartAtOnce ==
    /\ reload.pc = "stopping"
    /\ LET on == check[gen] /\ DOMAIN pools[gen] # {} IN
       /\ running' = IF on THEN gen ELSE 0
       /\ loop' = [loop EXCEPT ![gen] = IF on THEN "round" ELSE "none"]
       /\ probe' = [probe EXCEPT ![gen] = IF on THEN Ask(gen) ELSE Quiet]
    /\ mu' = "free"
    /\ reload' = [reload EXCEPT !.pc = "idle"]
    /\ fell' = FALSE
    /\ UNCHANGED <<alive, pools, poolVars, closer, closing, cancelled, failRun, told, outage, copyHistory>>

\* start: the new goroutine probes at once.
SyncStart ==
    /\ reload.pc = "stopping" /\ Stopped(running)
    /\ LET on == check[gen] /\ DOMAIN pools[gen] # {} IN
       /\ running' = IF on THEN gen ELSE 0
       /\ loop' = [loop EXCEPT ![gen] = IF on THEN "round" ELSE "none"]
       /\ probe' = [probe EXCEPT ![gen] = IF on THEN Ask(gen) ELSE Quiet]
    /\ mu' = "free"
    /\ reload' = [reload EXCEPT !.pc = "idle"]
    /\ fell' = FALSE
    /\ UNCHANGED <<alive, pools, poolVars, closer, closing, cancelled, failRun, told, outage, copyHistory>>

-----------------------------------------------------------------------------
\* Close: mu is held only to take the map; stop waits outside it.
Close ==
    /\ closer = "idle" /\ mu = "free"
    /\ closer' = "stopping"
    /\ closing' = running
    /\ running' = 0
    /\ cancelled' = cancelled \cup ({running} \ {0})
    /\ UNCHANGED <<alive, pools, poolVars, reload, mu, loop, probe, history>>

Closed ==
    /\ closer = "stopping" /\ Stopped(closing)
    /\ closer' = "closed"
    /\ UNCHANGED <<alive, pools, poolVars, reload, mu, running, closing, loop, cancelled,
                   probe, history>>

\* Passive health, seen from here: real traffic ejects a backend of the
\* published pool for a window (until # 0), which lapses.
PassiveEject(u) ==
    /\ u \in DOMAIN pools[gen] /\ pools[gen][u].until = 0
    /\ pools' = [pools EXCEPT ![gen][u] = Eject(@, 1)]
    /\ UNCHANGED <<alive, poolVars, reload, lockVars, loop, cancelled, probe, history>>

PassiveLapse(u) ==
    /\ u \in DOMAIN pools[gen] /\ pools[gen][u].until # 0
    /\ pools' = [pools EXCEPT ![gen][u] = ClearWindow(@)]
    /\ UNCHANGED <<alive, poolVars, reload, lockVars, loop, cancelled, probe, history>>

\* The world: an upstream dies or comes back.
Flip(u) ==
    /\ alive' = [alive EXCEPT ![u] = ~@]
    /\ UNCHANGED <<pools, poolVars, reload, lockVars, loop, cancelled, probe, history>>

-----------------------------------------------------------------------------
Probing(g) ==
    \/ \E u \in Upstreams :
          \/ \E result \in {"ok", "fail"} : Answer(g, u, result)
          \/ Discard(g, u) \/ Record(g, u)
          \/ RaiseUp(g, u) \/ RaiseDown(g, u) \/ RaiseOutage(g, u)
    \/ Round(g) \/ EndRound(g) \/ Exit(g)

Reloading ==
    \/ \E cfg \in Configs, on \in BOOLEAN : BeginReload(cfg, on)
    \/ \E u \in Upstreams : InheritHealth(u) \/ InheritStreaks(u)
    \/ Publish \/ SyncLock \/ SyncStop \/ SyncStart

Next ==
    \/ \E g \in Gens : Probing(g)
    \/ Reloading
    \/ Close \/ Closed
    \/ \E u \in Upstreams : Flip(u) \/ PassiveEject(u) \/ PassiveLapse(u)

\* Goroutines run and a probe's own timeout ends it.  A select between a ticker
\* and a cancelled context picks at random, so it does not miss the context for
\* ever: strong fairness for Exit.
Fairness ==
    /\ \A g \in Gens : WF_vars(g \in DOMAIN pools /\ Round(g)) /\ WF_vars(EndRound(g)) /\ SF_vars(Exit(g))
    /\ \A g \in Gens, u \in Upstreams :
          /\ WF_vars(\E result \in {"ok", "fail"} : Answer(g, u, result))
          /\ WF_vars(Discard(g, u)) /\ WF_vars(Record(g, u))
          /\ WF_vars(RaiseUp(g, u) \/ RaiseDown(g, u) \/ RaiseOutage(g, u))
    /\ \A u \in Upstreams : WF_vars(InheritHealth(u) \/ InheritStreaks(u))
    /\ WF_vars(Publish) /\ WF_vars(SyncLock) /\ WF_vars(SyncStop) /\ WF_vars(SyncStart)
    /\ WF_vars(Closed)

Spec == Init /\ [][Next]_vars /\ Fairness

-----------------------------------------------------------------------------
\* Properties.

\* At most one checker probes a target at any time: stop waits for the old one's
\* last probe before start runs the new one, whatever Close does meanwhile.  Once
\* Close has returned no probe is in flight, and a reload that was waiting for mu,
\* or comes later, starts none.
ProbesExclusive ==
    LET Active == {g \in Gens : loop[g] \in {"round", "select"}} IN
    /\ Cardinality(Active) <= 1
    /\ closer = "closed" => Active = {} /\ \A g \in Gens : probe[g] = Quiet

\* The checker whose goroutine may still be running.
Holder == IF closer = "idle" THEN running ELSE closing

\* A backend goes down only on UnhealthyThreshold probes in a row that really
\* failed, so that a single blip does not take it out (backend.go:234); a probe
\* cut short by a shutdown is not one of them, and failures on the pool before count.
\* Excepted is a backend whose last success landed on the pool before it after
\* inheritFrom had copied the streaks.
DownIsEarned ==
    [][\A g \in DOMAIN pools : \A u \in DOMAIN pools[g] :
          probe[g][u] = "fail" /\ pools[g][u].healthy /\ ~pools'[g][u].healthy
          => failRun[u] >= UnhealthyThreshold \/ u \in missed[g]]_vars

\* What the operator was told last is the truth of the pool that is being probed.
\* Of a backend: rounds do not stack up and a new checker waits for the old one, so
\* a fall and a recovery are announced once each and in that order, on one pool and
\* from one to the next.  Excepted is a backend that changed on the old pool after
\* it was copied, or came back new after it was announced down, until it changes.
\* Of the host: when the probes have taken the last enabled backends down and no
\* alert is still on its way, it was reported unavailable with no recovery since,
\* however the last two fell.
AlertsTruthful ==
    LET g == Holder
        Pending == {"wentUp", "wentDown"}
    IN  g # 0 =>
    /\ \A u \in Enabled(g) \ crossed[g] :
          probe[g][u] \notin Pending => (told[u] = "up") = pools[g][u].healthy
    /\ /\ fell /\ Enabled(g) # {} /\ \A u \in Enabled(g) : ~pools[g][u].healthy
       /\ \A u \in Upstreams : probe[g][u] \notin Pending \cup {"notify"}
       => outage

\* Sync and Close, which wait for goroutines, one of them holding mu, both return.
CallsReturn ==
    /\ reload.pc = "lock" ~> reload.pc = "idle"
    /\ closer = "stopping" ~> closer = "closed"

Watched(u) == running # 0 /\ running \notin cancelled /\ u \in Enabled(running)

\* A backend that stays dead while it is being watched is taken out, and one
\* that stays alive is put back.
HealthIsFound ==
    \A u \in Upstreams, works \in BOOLEAN :
        <>[](alive[u] = works /\ Watched(u))
        => <>[](running # 0 /\ pools[running][u].healthy = works)
=============================================================================
