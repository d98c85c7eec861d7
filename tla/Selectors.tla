----------------------------- MODULE Selectors -----------------------------
(***************************************************************************)
(* internal/balancer/selector.go: how a pool's selectors spread requests   *)
(* over the candidates Pick gives them, while backends come and go.  The   *)
(* weighted selector works under its mutex and the round robin counter is  *)
(* atomic, so that a selection is one step.                                *)
(***************************************************************************)
EXTENDS Integers, Sequences, FiniteSetsExt, Functions

CONSTANTS
    WeightOf,   \* Upstream.Weight of each backend, in the order of the pool
    Clients,    \* client addresses
    MaxScore,   \* bound: scores are 1 .. MaxScore, so that some are equal
    MaxPicks,   \* bound: selections between two changes of the candidates
    MaxChanges  \* bound: changes of the candidates

ASSUME SelectorsAssumption ==
    /\ WeightOf \in Seq(Nat \ {0}) /\ WeightOf # <<>>
    /\ MaxScore \in Nat \ {0} /\ MaxPicks \in Nat /\ MaxChanges \in Nat

Pool == DOMAIN WeightOf

VARIABLES
    algorithm,  \* the selector newSelector made for the pool
    cands,      \* the candidates: enabled, healthy and under their limit
    changes,    \* how often they changed
    weights,    \* Backend.currentWeight
    counter,    \* roundRobin.counter
    score,      \* weightedScore of each client and backend
    picks       \* history: selections of each backend since cands changed

selectorVars == <<algorithm, cands, changes, weights, counter, score, picks>>

NoPicks == [b \in Pool |-> 0]

SelectorsInit ==
    /\ algorithm \in {"round_robin", "weighted_round_robin", "ip_hash"}
    /\ cands = Pool
    /\ changes = 0
    /\ weights = [b \in Pool |-> 0]
    /\ counter = 0
    /\ score \in [Clients -> [Pool -> IF algorithm = "ip_hash" THEN 1 .. MaxScore ELSE {1}]]
    /\ picks = NoPicks

Total == SumFunctionOnSet(WeightOf, cands)

\* The first candidate, in the order of the pool, that no other beats.
FirstBest(value, among) == Min({b \in among : \A a \in among : value[a] <= value[b]})

Raised == [b \in Pool |-> IF b \in cands THEN weights[b] + WeightOf[b] ELSE weights[b]]

WeightedPick(paid) ==
    LET best == FirstBest(Raised, cands) IN
    /\ algorithm = "weighted_round_robin" /\ SumFunction(picks) < MaxPicks
    /\ weights' = [Raised EXCEPT ![best] = @ - paid]
    /\ picks' = [picks EXCEPT ![best] = @ + 1]
    /\ UNCHANGED <<algorithm, cands, changes, counter, score>>

\* Mutant: the winner pays for the whole pool, candidate or not.
SelectWeightedPool == WeightedPick(SumFunction(WeightOf))

\* Every candidate gains its weight; the best pays for all of them.
SelectWeighted == WeightedPick(Total)

\* The n-th candidate, from 0.
Nth(n) == CHOOSE b \in cands : Cardinality({a \in cands : a < b}) = n

SelectRoundRobin ==
    /\ algorithm = "round_robin" /\ SumFunction(picks) < MaxPicks
    /\ counter' = counter + 1
    /\ picks' = [picks EXCEPT ![Nth(counter % Cardinality(cands))] = @ + 1]
    /\ UNCHANGED <<algorithm, cands, changes, weights, score>>

\* ipHash.Select.
SelectIPHash(c, among) == FirstBest(score[c], among)

\* A backend leaves or rejoins the candidates; one is always left.
Change(new) ==
    /\ changes < MaxChanges /\ new # {} /\ new # cands
    /\ cands' = new
    /\ changes' = changes + 1
    /\ picks' = NoPicks
    /\ UNCHANGED <<algorithm, weights, counter, score>>

SelectorsNext == SelectWeighted \/ SelectRoundRobin \/ \E new \in SUBSET Pool : Change(new)

SelectorsSpec == SelectorsInit /\ [][SelectorsNext]_selectorVars

-----------------------------------------------------------------------------
\* Properties.

\* How far the selections p are ahead of b's share of them, in units of 1 / Total.
Ahead(p, b) == p[b] * Total - SumFunction(p) * WeightOf[b]

\* Nobody who was picked owes a whole round more than the candidates do on
\* average, whatever they carried over a change.  From a fresh start that is less
\* than one request ahead of the share, and a full cycle gives each its exact share.
WeightedEven ==
    /\ \A b \in cands :
          picks[b] > 0 =>
              Cardinality(cands) * (weights[b] + Total) > SumFunctionOnSet(weights, cands)
    /\ changes = 0 =>
          \A b \in cands : /\ Ahead(picks, b) < Total
                           /\ SumFunction(picks) % Total = 0 => Ahead(picks, b) = 0

\* Between two changes nobody is two requests behind another.
RotationEven == \A a, b \in cands : picks[a] <= picks[b] + 1

\* The rotation "stays even as backends come and go" (selector.go:44), and the
\* weighted selector takes from the winner what it gives to the candidates.
FairShare ==
    /\ SumFunction(weights) = 0
    /\ algorithm = "weighted_round_robin" => WeightedEven
    /\ algorithm = "round_robin" => RotationEven

\* "rendezvous hashing only moves the clients that were pinned to the departed
\* backend" (selector.go:117): any other client moves to a newcomer or not at all.
OnlyPinnedMove ==
    \A c \in Clients :
        LET from == SelectIPHash(c, cands)
            to == SelectIPHash(c, cands')
        IN  from = to \/ from \notin cands' \/ to \notin cands

\* FairShare after every selection, OnlyPinnedMove at every change.
Balanced ==
    [][(picks' # picks => FairShare') /\ (cands' # cands => OnlyPinnedMove)]_selectorVars
=============================================================================
