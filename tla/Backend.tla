------------------------------ MODULE Backend ------------------------------
(***************************************************************************)
(* internal/balancer/backend.go: what the proxy learns about one upstream  *)
(* at runtime, and the operators the request path and the health checker   *)
(* apply to it.  A field is an atomic of the Go struct; a step of the      *)
(* modules that use these operators touches it as the code does, and what  *)
(* the code does in several atomic operations is several operators here.   *)
(*                                                                         *)
(* Left out: lastError, totalRequests and totalLatency, which nothing but  *)
(* the dashboard reads.                                                    *)
(***************************************************************************)
EXTENDS Integers

\* enabled is Upstream.Enabled; until is ejectedUntil, 0 when not ejected.
BackendState ==
    [enabled : BOOLEAN, healthy : BOOLEAN, active : Nat, fails : Nat, until : Nat,
     okStreak : Nat, failStreak : Nat]

NewBackend(on) ==
    [enabled |-> on, healthy |-> TRUE, active |-> 0, fails |-> 0, until |-> 0,
     okStreak |-> 0, failStreak |-> 0]

\* Mutant: the requests still in flight on the old backend are copied too.
inheritFromActive(b, old) == [old EXCEPT !.enabled = b.enabled]

\* inheritFrom copies health and ejection first, the probe streaks, under
\* probeMu, last.  activeConns deliberately starts at zero.
inheritHealth(b, old) ==
    [b EXCEPT !.healthy = old.healthy, !.fails = old.fails, !.until = old.until]

inheritStreaks(b, old) ==
    [b EXCEPT !.okStreak = old.okStreak, !.failStreak = old.failStreak]

inheritFrom(b, old) == inheritStreaks(inheritHealth(b, old), old)

\* NewPool: a backend for every configured upstream, taking over the state of
\* the one that addressed the same upstream in the previous pool.
NewPool(cfg, prev) ==
    [u \in DOMAIN cfg |->
        IF u \in DOMAIN prev THEN inheritFrom(NewBackend(cfg[u]), prev[u])
        ELSE NewBackend(cfg[u])]

Ejected(b, at) == b.until # 0 /\ b.until > at

Available(b, at) == b.healthy /\ ~Ejected(b, at)

HasCapacity(b, maxConns) == maxConns = 0 \/ b.active < maxConns

\* RecordProxyResult(true): two stores.
ResetFails(b) == [b EXCEPT !.fails = 0]
ClearWindow(b) == [b EXCEPT !.until = 0]

\* RecordProxyResult(false): a counter, which starts over when it trips, and
\* the deadline.
CountFail(b) == [b EXCEPT !.fails = @ + 1]

Eject(b, deadline) == [b EXCEPT !.until = deadline]

ClearEjection(b) == ClearWindow(ResetFails(b))

Capped(n, limit) == IF n < limit THEN n ELSE limit

\* Mutant: a success does not end a run of failures.
RecordProbeKeepsFails(b, success, healthyThreshold, unhealthyThreshold) ==
    LET ok == IF success THEN Capped(b.okStreak + 1, healthyThreshold) ELSE 0
        bad == IF success THEN b.failStreak ELSE Capped(b.failStreak + 1, unhealthyThreshold)
    IN  [b EXCEPT !.okStreak = ok,
                  !.failStreak = bad,
                  !.healthy = IF success THEN @ \/ ok >= healthyThreshold
                              ELSE @ /\ bad < unhealthyThreshold]

\* RecordProbe, under probeMu.  A streak is only ever compared with its
\* threshold, so it stops counting there.
RecordProbe(b, success, healthyThreshold, unhealthyThreshold) ==
    LET ok == IF success THEN Capped(b.okStreak + 1, healthyThreshold) ELSE 0
        bad == IF success THEN 0 ELSE Capped(b.failStreak + 1, unhealthyThreshold)
    IN  [b EXCEPT !.okStreak = ok,
                  !.failStreak = bad,
                  !.healthy = IF success THEN @ \/ ok >= healthyThreshold
                              ELSE @ /\ bad < unhealthyThreshold]
=============================================================================
