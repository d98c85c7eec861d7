----------------------------- MODULE MCLimiter -----------------------------
(* An instance of Limiter for TLC. *)
EXTENDS Limiter, TLC

\* Concurrency caps only.
CapRules == {[rps |-> 0, burst |-> 0, maxConcurrent |-> 1],
             [rps |-> 0, burst |-> 0, maxConcurrent |-> 2]}

\* One request per second, so that a bucket holds halves of a token when there
\* are two ticks to the second: with no headroom, which idleAfter refills.
QuickRules == {[rps |-> 1, burst |-> 1, maxConcurrent |-> 0]}

\* With a burst that one request per second takes longer than idleAfter to
\* refill, as Validate allows.
SlowRules == {[rps |-> 1, burst |-> 3, maxConcurrent |-> 0]}

RateRules == QuickRules \cup SlowRules

CapAndRateRules == CapRules \cup RateRules

\* The hosts and the requests on their way to the limiter have no rules but these.
Only(rules) ==
    /\ \A h \in Hosts : config[h] \in rules \cup {Off, Gone}
    /\ \A r \in Req : pc[r] \in {"routed", "sampled"} => ticket[r].rules \in rules

\* What the run looks at: one client and its bucket at every tick while the
\* sweeper runs, and several clients under a cap, none of them charged a token,
\* whose requests move at the start and once idleAfter is over.
Scope ==
    \/ Only(RateRules) /\ ~stop /\ DOMAIN clients \cup {ticket[r].key : r \in Req} = {NoKey}
    \/ /\ Only(CapRules)
       /\ \A r \in Req : pc[r] = "sampled" => ticket[r].at \in {0, IdleAfter + 1} /\ ticket[r].at = now
       /\ \A k \in DOMAIN clients : /\ {clients[k].born, clients[k].last, clients[k].seen} \subseteq {0, IdleAfter + 1}
                                    /\ clients[k].spent = 0 /\ clients[k].refused = -1
       /\ now <= IdleAfter + 1

Interchangeable == Permutations(Req)
=============================================================================
