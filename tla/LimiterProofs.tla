--------------------------- MODULE LimiterProofs ---------------------------
(* Theorems about Limiter, for every value of its constants. *)
EXTENDS Limiter, FiniteSetTheorems, WellFoundedInduction, TLAPS

-----------------------------------------------------------------------------
\* Lemmas about the operators on one record.

LEMMA ProductNat == ASSUME NEW a \in Nat, NEW b \in Nat PROVE a * b \in Nat
  OBVIOUS

LEMMA ProductMonotone ==
  ASSUME NEW a \in Nat, NEW b \in Nat, NEW c \in Nat, a <= b
  PROVE  a * c <= b * c
  OBVIOUS

\* Every rule's burst is at least one and within what Validate accepts.
LEMMA BurstRange ==
  ASSUME NEW rules \in RuleSet
  PROVE  burstOf(rules) \in Nat /\ burstOf(rules) >= 1 /\ burstOf(rules) <= MaxBurst
  BY RulesAssumption DEF burstOf, Rules, Valid

LEMMA NewClientType ==
  ASSUME NEW rules \in RuleSet, NEW at \in Nat
  PROVE  NewClient(rules, at) \in Client
  <1>1. burstOf(rules) * Second \in Nat
    BY BurstRange, TimeAssumption, ProductNat
  <1> QED
    BY <1>1 DEF NewClient, Client

LEMMA RefillType ==
  ASSUME NEW c \in Client, NEW rules \in RuleSet, NEW at \in Nat
  PROVE  Refill(c, rules, at) \in Client
  <1>1. burstOf(rules) * Second \in Nat
    BY BurstRange, TimeAssumption, ProductNat
  <1>2. at > c.last => (at - c.last) * rules.rps \in Nat
    BY RulesAssumption, ProductNat DEF Client, Rules
  <1> DEFINE level == Least(burstOf(rules) * Second, c.tokens + (at - c.last) * rules.rps)
  <1>3. CASE at > c.last
    <2>1. c.tokens + (at - c.last) * rules.rps \in Nat
      BY <1>2, <1>3 DEF Client
    <2>2. level \in Nat
      BY <1>1, <2>1 DEF Least
    <2>3. Refill(c, rules, at) = [c EXCEPT !.tokens = level, !.last = at]
      BY <1>3 DEF Refill
    <2> HIDE DEF level
    <2> QED
      BY <2>2, <2>3 DEF Client
  <1>4. CASE ~(at > c.last)
    BY <1>4 DEF Refill
  <1> QED
    BY <1>3, <1>4

LEMMA SpendType ==
  ASSUME NEW f \in Client, f.tokens >= Second
  PROVE  [f EXCEPT !.tokens = @ - Second, !.spent = @ + 1, !.refused = -1] \in Client
  <1>1. f.tokens - Second \in Nat /\ f.spent + 1 \in Nat /\ -1 \in Int
    BY TimeAssumption DEF Client
  <1> QED
    BY <1>1 DEF Client

LEMMA JudgeType ==
  ASSUME TypeOK, NEW c \in Client, NEW rules \in RuleSet, NEW at \in Nat
  PROVE  judge(c, rules, at).client \in Client
  <1>1. Refill(c, rules, at) \in Client
    BY RefillType
  <1> DEFINE f == Refill(c, rules, at)
  <1>2. [f EXCEPT !.refused = now] \in Client
    BY <1>1 DEF Client, TypeOK
  <1>3. f.tokens >= Second
        => [f EXCEPT !.tokens = @ - Second, !.spent = @ + 1, !.refused = -1] \in Client
    BY <1>1, SpendType
  <1>4. f.tokens \in Nat
    BY <1>1 DEF Client
  <1> HIDE DEF f
  <1>5. CASE OverConcurrency(c, rules) \/ rules.rps = 0
    <2>1. judge(c, rules, at).client = c
      BY <1>5 DEF judge
    <2> QED
      BY <2>1
  <1>6. CASE ~(OverConcurrency(c, rules) \/ rules.rps = 0) /\ f.tokens < Second
    <2>1. judge(c, rules, at).client = [f EXCEPT !.refused = now]
      BY <1>6 DEF judge, f
    <2> QED
      BY <1>2, <2>1
  <1>7. CASE ~(OverConcurrency(c, rules) \/ rules.rps = 0) /\ ~(f.tokens < Second)
    <2>1. judge(c, rules, at).client
            = [f EXCEPT !.tokens = @ - Second, !.spent = @ + 1, !.refused = -1]
      BY <1>7 DEF judge, f
    <2> QED
      BY <1>3, <1>4, <1>7, <2>1, TimeAssumption
  <1> QED
    BY <1>5, <1>6, <1>7

\* judge leaves the count of requests in flight alone.
LEMMA JudgeActive ==
  ASSUME NEW c \in Client, NEW rules \in RuleSet, NEW at \in Nat
  PROVE  judge(c, rules, at).client.active = c.active
  <1>1. Refill(c, rules, at) \in Client /\ Refill(c, rules, at).active = c.active
    BY RefillType DEF Refill, Client
  <1> QED
    BY <1>1 DEF judge, Client

LEMMA JudgeRefusesOverCap ==
  ASSUME NEW c, NEW rules, NEW at, OverConcurrency(c, rules)
  PROVE  judge(c, rules, at).verdict # "ok"
  <1>1. judge(c, rules, at) = [verdict |-> "concurrency", client |-> c]
    BY DEF judge
  <1> QED
    BY <1>1

-----------------------------------------------------------------------------
\* The tables Acquire works on.

LEMMA TablesForType ==
  ASSUME TypeOK, NEW k \in Key, NEW rules \in RuleSet, NEW at \in Nat,
         NEW table \in TablesFor(k, rules, at)
  PROVE  /\ k \in DOMAIN table
         /\ DOMAIN table \subseteq Key
         /\ table \in [DOMAIN table -> Client]
  <1>1. NewClient(rules, at) \in Client
    BY NewClientType
  <1>2. CASE k \in DOMAIN clients
    BY <1>2 DEF TablesFor, TypeOK
  <1>3. CASE k \notin DOMAIN clients
    <2>1. \/ table = Put(clients, k, NewClient(rules, at))
          \/ \E v \in DOMAIN clients : table = Put(Drop(clients, {v}), k, NewClient(rules, at))
      BY <1>3 DEF TablesFor, evictOldest
    <2>2. CASE table = Put(clients, k, NewClient(rules, at))
      BY <1>1, <2>2 DEF Put, TypeOK
    <2>3. ASSUME NEW v \in DOMAIN clients, table = Put(Drop(clients, {v}), k, NewClient(rules, at))
          PROVE  /\ k \in DOMAIN table
                 /\ DOMAIN table \subseteq Key
                 /\ table \in [DOMAIN table -> Client]
      BY <1>1, <2>3 DEF Put, Drop, TypeOK
    <2> QED
      BY <2>1, <2>2, <2>3
  <1> QED
    BY <1>2, <1>3

LEMMA NoTicketType == NoTicket \in [key : Key, rules : RuleSet, at : Nat]
  <1>1. NoKey \in Key
    <2>1. PICK h \in Hosts, a \in Addrs : TRUE
      BY KeyAssumption
    <2>2. <<h, a>> \in Key
      BY DEF Key
    <2> QED
      BY <2>2 DEF NoKey
  <1>2. NoRules \in RuleSet
    BY RulesAssumption DEF NoRules
  <1> QED
    BY <1>1, <1>2 DEF NoTicket

\* The variables keep their types: token counts and the number of requests in
\* flight in particular never go below zero.
THEOREM TypeCorrect == Spec => []TypeOK
  <1>1. Init => TypeOK
    <2> SUFFICES ASSUME Init PROVE TypeOK
      OBVIOUS
    <2>1. DOMAIN clients = {} /\ clients \in [DOMAIN clients -> Client]
      BY DEF Init
    <2>2. config \in [Hosts -> Setting]
      BY DEF Init, Setting
    <2>3. ticket \in [Req -> [key : Key, rules : RuleSet, at : Nat]]
      BY NoTicketType DEF Init
    <2>4. /\ now \in Nat
          /\ pending \subseteq Hosts
          /\ sweeper \in {"waiting", "sweeping", "stopped"}
          /\ cutoff \in Int
          /\ orphaned \subseteq Hosts
      BY DEF Init
    <2>5. pc \in [Req -> {"idle", "routed", "sampled", "held"}]
      BY DEF Init
    <2>6. stop \in BOOLEAN
      BY Zenon DEF Init
    <2> QED
      BY <2>1, <2>2, <2>3, <2>4, <2>5, <2>6 DEF TypeOK
  <1>2. TypeOK /\ [Next]_vars => TypeOK'
    <2> SUFFICES ASSUME TypeOK, [Next]_vars PROVE TypeOK'
      OBVIOUS
    <2> USE NoTicketType
    <2>1. ASSUME NEW r \in Req, NEW h \in Hosts, NEW a \in Addrs, Route(r, h, a)
          PROVE  TypeOK'
      BY <2>1 DEF Route, TypeOK, Key
    <2>2. ASSUME NEW r \in Req, Sample(r) PROVE TypeOK'
      BY <2>2 DEF Sample, TypeOK
    <2>3. ASSUME NEW r \in Req, AcquireOk(r) PROVE TypeOK'
      <3> DEFINE k == ticket[r].key
      <3>0. k \in Key /\ ticket[r].rules \in RuleSet /\ ticket[r].at \in Nat
        BY DEF TypeOK
      <3>1. PICK table \in TablesFor(k, ticket[r].rules, ticket[r].at) :
              clients' = [table EXCEPT ![k] = [Judged(table, r).client EXCEPT !.active = @ + 1]]
        BY <2>3 DEF AcquireOk
      <3>2. k \in DOMAIN table /\ DOMAIN table \subseteq Key /\ table \in [DOMAIN table -> Client]
        BY <3>0, TablesForType
      <3>3. [table[k] EXCEPT !.seen = ticket[r].at] \in Client
        BY <3>0, <3>2 DEF Client
      <3>4. Judged(table, r).client \in Client
        BY <3>0, <3>3, JudgeType DEF Judged
      <3>5. [Judged(table, r).client EXCEPT !.active = @ + 1] \in Client
        BY <3>4 DEF Client
      <3>6. DOMAIN clients' \subseteq Key /\ clients' \in [DOMAIN clients' -> Client]
        BY <3>1, <3>2, <3>5
      <3> QED
        BY <2>3, <3>6 DEF AcquireOk, TypeOK
    <2>4. ASSUME NEW r \in Req, AcquireLimited(r) PROVE TypeOK'
      <3> DEFINE k == ticket[r].key
      <3>0. k \in Key /\ ticket[r].rules \in RuleSet /\ ticket[r].at \in Nat
        BY DEF TypeOK
      <3>1. PICK table \in TablesFor(k, ticket[r].rules, ticket[r].at) :
              clients' = [table EXCEPT ![k] = Judged(table, r).client]
        BY <2>4 DEF AcquireLimited
      <3>2. k \in DOMAIN table /\ DOMAIN table \subseteq Key /\ table \in [DOMAIN table -> Client]
        BY <3>0, TablesForType
      <3>3. [table[k] EXCEPT !.seen = ticket[r].at] \in Client
        BY <3>0, <3>2 DEF Client
      <3>4. Judged(table, r).client \in Client
        BY <3>0, <3>3, JudgeType DEF Judged
      <3>5. DOMAIN clients' \subseteq Key /\ clients' \in [DOMAIN clients' -> Client]
        BY <3>1, <3>2, <3>4
      <3> QED
        BY <2>4, <3>5 DEF AcquireLimited, TypeOK
    <2>5. ASSUME NEW r \in Req, Release(r) PROVE TypeOK'
      <3>1. DOMAIN clients' \subseteq Key /\ clients' \in [DOMAIN clients' -> Client]
        BY <2>5 DEF Release, Released, TypeOK, Client
      <3> QED
        BY <2>5, <3>1 DEF Release, TypeOK
    <2>6. CASE Sweeper
      <3>1. CASE SweepBegin
        BY <3>1, TimeAssumption DEF SweepBegin, TypeOK
      <3>2. CASE SweepShard
        BY <3>2 DEF SweepShard, Drop, TypeOK
      <3>3. CASE SweepExit \/ Close
        BY <3>3 DEF SweepExit, Close, TypeOK
      <3> QED
        BY <2>6, <3>1, <3>2, <3>3 DEF Sweeper
    <2>7. ASSUME NEW h \in Hosts, Forget(h) PROVE TypeOK'
      BY <2>7 DEF Forget, Drop, TypeOK
    <2>8. ASSUME NEW h \in Hosts, NEW s \in Setting, Publish(h, s) PROVE TypeOK'
      BY <2>8 DEF Publish, TypeOK
    <2>9. CASE Tick
      BY <2>9 DEF Tick, TypeOK
    <2>10. CASE UNCHANGED vars
      BY <2>10 DEF vars, TypeOK
    <2> QED
      BY <2>1, <2>2, <2>3, <2>4, <2>5, <2>6, <2>7, <2>8, <2>9, <2>10
      DEF Next, Request, Reload
  <1> QED
    BY <1>1, <1>2, PTL DEF Spec

-----------------------------------------------------------------------------
\* Concurrency slots.

\* What finding or making room for key k does to the other records: they are
\* kept as they are, except for idle ones.
LEMMA TablesForKeeps ==
  ASSUME TypeOK, NEW k \in Key, NEW rules \in RuleSet, NEW at \in Nat,
         NEW table \in TablesFor(k, rules, at)
  PROVE  /\ \A j \in DOMAIN table \ {k} : j \in DOMAIN clients /\ table[j] = clients[j]
         /\ k \in DOMAIN clients => table[k] = clients[k]
         /\ k \notin DOMAIN clients => table[k].active = 0
         /\ \A j \in DOMAIN clients \ DOMAIN table : clients[j].active = 0
  <1>1. CASE k \in DOMAIN clients
    BY <1>1 DEF TablesFor
  <1>2. CASE k \notin DOMAIN clients
    <2>1. NewClient(rules, at).active = 0
      BY DEF NewClient
    <2>2. \/ table = Put(clients, k, NewClient(rules, at))
          \/ \E v \in DOMAIN clients : /\ clients[v].active = 0
                                       /\ table = Put(Drop(clients, {v}), k, NewClient(rules, at))
      BY <1>2 DEF TablesFor, evictOldest
    <2>3. CASE table = Put(clients, k, NewClient(rules, at))
      BY <1>2, <2>1, <2>3 DEF Put
    <2>4. ASSUME NEW v \in DOMAIN clients, clients[v].active = 0,
                 table = Put(Drop(clients, {v}), k, NewClient(rules, at))
          PROVE  /\ \A j \in DOMAIN table \ {k} : j \in DOMAIN clients /\ table[j] = clients[j]
                 /\ k \notin DOMAIN clients => table[k].active = 0
                 /\ \A j \in DOMAIN clients \ DOMAIN table : clients[j].active = 0
      BY <2>1, <2>4 DEF Put, Drop
    <2> QED
      BY <1>2, <2>2, <2>3, <2>4
  <1> QED
    BY <1>1, <1>2

LEMMA HoldersFinite == \A k : IsFiniteSet(Holders(k)) /\ Cardinality(Holders(k)) \in Nat
  <1> SUFFICES ASSUME NEW k PROVE IsFiniteSet(Holders(k)) /\ Cardinality(Holders(k)) \in Nat
    OBVIOUS
  <1>1. Holders(k) \subseteq Req
    BY DEF Holders
  <1> QED
    BY <1>1, ReqAssumption, FS_Subset, FS_CardinalityType

\* An admission seen from the table: some record may make room, the client's own
\* gains a slot, and judge found it below its cap.
LEMMA AcquireOkEffect ==
  ASSUME TypeOK, NEW r \in Req, AcquireOk(r)
  PROVE  LET k == ticket[r].key
             rules == ticket[r].rules
         IN  /\ k \in Key /\ rules \in RuleSet
             /\ k \in DOMAIN clients'
             /\ clients'[k].active = 1 + (IF k \in DOMAIN clients THEN clients[k].active ELSE 0)
             /\ \A j \in DOMAIN clients' \ {k} : j \in DOMAIN clients /\ clients'[j] = clients[j]
             /\ \A j \in DOMAIN clients \ DOMAIN clients' : clients[j].active = 0
             /\ k \in DOMAIN clients /\ rules.maxConcurrent > 0
                => clients[k].active < rules.maxConcurrent
  <1> DEFINE k == ticket[r].key
             rules == ticket[r].rules
             at == ticket[r].at
  <1>1. k \in Key /\ rules \in RuleSet /\ at \in Nat
    BY DEF TypeOK
  <1>2. PICK table \in TablesFor(k, rules, at) :
          /\ Judged(table, r).verdict = "ok"
          /\ clients' = [table EXCEPT ![k] = [Judged(table, r).client EXCEPT !.active = @ + 1]]
    BY DEF AcquireOk
  <1>3. k \in DOMAIN table /\ table \in [DOMAIN table -> Client]
    BY <1>1, TablesForType
  <1> DEFINE c == [table[k] EXCEPT !.seen = at]
  <1>4. c \in Client /\ c.active = table[k].active
    BY <1>1, <1>3 DEF Client
  <1>5. /\ Judged(table, r) = judge(c, rules, at)
        /\ judge(c, rules, at).client \in Client
        /\ judge(c, rules, at).client.active = table[k].active
    BY <1>1, <1>4, JudgeType, JudgeActive DEF Judged
  <1>6. DOMAIN clients' = DOMAIN table /\ \A j \in DOMAIN table \ {k} : clients'[j] = table[j]
    BY <1>2, <1>3
  <1>7. clients'[k].active = table[k].active + 1
    BY <1>2, <1>3, <1>5 DEF Client
  <1>8. ~OverConcurrency(c, rules)
    <2>1. judge(c, rules, at).verdict = "ok"
      BY <1>2, <1>5
    <2> HIDE DEF c, rules, at
    <2> QED
      BY <2>1, JudgeRefusesOverCap
  <1>9. rules.maxConcurrent > 0 => table[k].active < rules.maxConcurrent
    <2>1. rules.maxConcurrent \in Nat /\ table[k].active \in Nat
      BY <1>1, <1>3, RulesAssumption DEF Rules, Client
    <2> QED
      BY <1>4, <1>8, <2>1 DEF OverConcurrency
  <1>10. /\ \A j \in DOMAIN table \ {k} : j \in DOMAIN clients /\ table[j] = clients[j]
         /\ k \in DOMAIN clients => table[k] = clients[k]
         /\ k \notin DOMAIN clients => table[k].active = 0
         /\ \A j \in DOMAIN clients \ DOMAIN table : clients[j].active = 0
    BY <1>1, TablesForKeeps
  <1>11. clients'[k].active = 1 + (IF k \in DOMAIN clients THEN clients[k].active ELSE 0)
    <2>1. table[k].active \in Nat
      BY <1>3 DEF Client
    <2> QED
      BY <1>7, <1>10, <2>1
  <1> QED
    BY <1>1, <1>3, <1>6, <1>9, <1>10, <1>11

\* A refusal changes no count of requests in flight.
LEMMA AcquireLimitedEffect ==
  ASSUME TypeOK, NEW r \in Req, AcquireLimited(r)
  PROVE  LET k == ticket[r].key
         IN  /\ k \in Key
             /\ k \in DOMAIN clients'
             /\ clients'[k].active = (IF k \in DOMAIN clients THEN clients[k].active ELSE 0)
             /\ \A j \in DOMAIN clients' \ {k} : j \in DOMAIN clients /\ clients'[j] = clients[j]
             /\ \A j \in DOMAIN clients \ DOMAIN clients' : clients[j].active = 0
  <1> DEFINE k == ticket[r].key
             rules == ticket[r].rules
             at == ticket[r].at
  <1>1. k \in Key /\ rules \in RuleSet /\ at \in Nat
    BY DEF TypeOK
  <1>2. PICK table \in TablesFor(k, rules, at) :
          clients' = [table EXCEPT ![k] = Judged(table, r).client]
    BY DEF AcquireLimited
  <1>3. k \in DOMAIN table /\ table \in [DOMAIN table -> Client]
    BY <1>1, TablesForType
  <1> DEFINE c == [table[k] EXCEPT !.seen = at]
  <1>4. c \in Client /\ c.active = table[k].active
    BY <1>1, <1>3 DEF Client
  <1>5. Judged(table, r).client.active = table[k].active
    BY <1>1, <1>4, JudgeActive DEF Judged
  <1>6. DOMAIN clients' = DOMAIN table /\ \A j \in DOMAIN table \ {k} : clients'[j] = table[j]
    BY <1>2, <1>3
  <1>7. clients'[k].active = table[k].active
    BY <1>2, <1>3, <1>5
  <1>8. /\ \A j \in DOMAIN table \ {k} : j \in DOMAIN clients /\ table[j] = clients[j]
        /\ k \in DOMAIN clients => table[k] = clients[k]
        /\ k \notin DOMAIN clients => table[k].active = 0
        /\ \A j \in DOMAIN clients \ DOMAIN table : clients[j].active = 0
    BY <1>1, TablesForKeeps
  <1> QED
    BY <1>1, <1>3, <1>6, <1>7, <1>8

\* Who holds a slot changes only with AcquireOk and Release, by one request.
LEMMA HoldersAfterAcquire ==
  ASSUME TypeOK, NEW r \in Req, AcquireOk(r), NEW k
  PROVE  IF k = ticket[r].key
         THEN r \notin Holders(k) /\ Holders(k)' = Holders(k) \cup {r}
         ELSE Holders(k)' = Holders(k)
  BY DEF AcquireOk, Holders, TypeOK

LEMMA HoldersAfterRelease ==
  ASSUME TypeOK, NEW r \in Req, Release(r), NEW k
  PROVE  IF k = ticket[r].key
         THEN r \in Holders(k) /\ Holders(k)' = Holders(k) \ {r}
         ELSE Holders(k)' = Holders(k)
  BY DEF Release, Holders, TypeOK

LEMMA HoldersUnchanged ==
  ASSUME NEW k,
         TypeOK,
         \/ Tick \/ Sweeper \/ UNCHANGED vars
         \/ \E h \in Hosts : Forget(h) \/ \E s \in Setting : Publish(h, s)
         \/ \E r \in Req : \/ Sample(r) \/ AcquireLimited(r)
                           \/ \E h \in Hosts, a \in Addrs : Route(r, h, a)
  PROVE  Holders(k)' = Holders(k)
  <1>1. CASE Tick
    BY <1>1 DEF Tick, Holders
  <1>2. CASE Sweeper
    BY <1>2 DEF Sweeper, SweepBegin, SweepShard, SweepExit, Close, Holders
  <1>3. ASSUME NEW h \in Hosts, Forget(h) \/ \E s \in Setting : Publish(h, s)
        PROVE  Holders(k)' = Holders(k)
    BY <1>3 DEF Forget, Publish, Holders
  <1>4. ASSUME NEW r \in Req, Sample(r) PROVE Holders(k)' = Holders(k)
    BY <1>4 DEF Sample, Holders, TypeOK
  <1>5. ASSUME NEW r \in Req, AcquireLimited(r) PROVE Holders(k)' = Holders(k)
    BY <1>5 DEF AcquireLimited, Holders, TypeOK
  <1>6. ASSUME NEW r \in Req, NEW h \in Hosts, NEW a \in Addrs, Route(r, h, a)
        PROVE  Holders(k)' = Holders(k)
    BY <1>6 DEF Route, Holders, TypeOK
  <1>7. CASE UNCHANGED vars
    BY <1>7 DEF vars, Holders
  <1> QED
    BY <1>1, <1>2, <1>3, <1>4, <1>5, <1>6, <1>7

\* NoPhantomSlot is inductive given the types.
LEMMA NoPhantomSlotStep == TypeOK /\ NoPhantomSlot /\ [Next]_vars => NoPhantomSlot'
  <1> SUFFICES ASSUME TypeOK, NoPhantomSlot, [Next]_vars,
                      NEW k \in DOMAIN clients'
               PROVE  clients'[k].active <= Cardinality(Holders(k)')
    BY DEF NoPhantomSlot
  <1> DEFINE n == Cardinality(Holders(k))
  <1>0. /\ IsFiniteSet(Holders(k)) /\ n \in Nat
        /\ k \in DOMAIN clients => clients[k].active <= n /\ clients[k].active \in Nat
    BY HoldersFinite DEF NoPhantomSlot, TypeOK, Client
  <1>1. ASSUME NEW r \in Req, AcquireOk(r)
        PROVE  clients'[k].active <= Cardinality(Holders(k)')
    <2>1. CASE k = ticket[r].key
      <3>1. Cardinality(Holders(k)') = n + 1
        BY <1>0, <1>1, <2>1, HoldersAfterAcquire, FS_AddElement
      <3>2. clients'[k].active = 1 + (IF k \in DOMAIN clients THEN clients[k].active ELSE 0)
        BY <1>1, <2>1, AcquireOkEffect
      <3> QED
        BY <1>0, <3>1, <3>2
    <2>2. CASE k # ticket[r].key
      BY <1>0, <1>1, <2>2, HoldersAfterAcquire, AcquireOkEffect
    <2> QED
      BY <2>1, <2>2
  <1>2. ASSUME NEW r \in Req, AcquireLimited(r)
        PROVE  clients'[k].active <= Cardinality(Holders(k)')
    <2>1. Holders(k)' = Holders(k)
      BY <1>2, HoldersUnchanged
    <2> QED
      BY <1>0, <1>2, <2>1, AcquireLimitedEffect
  <1>3. ASSUME NEW r \in Req, Release(r)
        PROVE  clients'[k].active <= Cardinality(Holders(k)')
    <2>1. CASE k = ticket[r].key
      <3>1. Cardinality(Holders(k)') = n - 1
        BY <1>0, <1>3, <2>1, HoldersAfterRelease, FS_RemoveElement
      <3>2. k \in DOMAIN clients
            /\ clients'[k].active = (IF clients[k].active > 0 THEN clients[k].active - 1
                                     ELSE clients[k].active)
        BY <1>3, <2>1 DEF Release, Released, TypeOK, Client
      <3>3. n # 0
        BY <1>0, <1>3, <2>1, HoldersAfterRelease, FS_EmptySet
      <3> QED
        BY <1>0, <3>1, <3>2, <3>3
    <2>2. CASE k # ticket[r].key
      <3>1. k \in DOMAIN clients /\ clients'[k] = clients[k]
        BY <1>3, <2>2 DEF Release, Released, TypeOK
      <3> QED
        BY <1>0, <1>3, <2>2, <3>1, HoldersAfterRelease
    <2> QED
      BY <2>1, <2>2
  <1>4. ASSUME \/ Tick \/ Sweeper \/ UNCHANGED vars
               \/ \E h \in Hosts : Forget(h) \/ \E s \in Setting : Publish(h, s)
               \/ \E r \in Req : Sample(r) \/ \E h \in Hosts, a \in Addrs : Route(r, h, a)
        PROVE  clients'[k].active <= Cardinality(Holders(k)')
    <2>1. Holders(k)' = Holders(k)
      BY <1>4, HoldersUnchanged
    <2>2. k \in DOMAIN clients /\ clients'[k] = clients[k]
      BY <1>4 DEF Tick, Sweeper, SweepBegin, SweepShard, SweepExit, Close, Forget, Publish,
                  Sample, Route, Drop, vars
    <2> QED
      BY <1>0, <2>1, <2>2
  <1> QED
    BY <1>1, <1>2, <1>3, <1>4 DEF Next, Request, Reload

\* No client is ever refused for slots that nobody holds: a record's count of
\* requests in flight is at most the number of requests that will Release it.
THEOREM NoPhantomSlots == Spec => []NoPhantomSlot
  <1>1. Init => NoPhantomSlot
    BY DEF Init, NoPhantomSlot
  <1> QED
    BY <1>1, TypeCorrect, NoPhantomSlotStep, PTL DEF Spec

\* One key's part of ActiveIsExact.
ExactAt(k) ==
    IF k \in DOMAIN clients
    THEN clients[k].active = Cardinality(Holders(k))
    ELSE Holders(k) = {}

\* A record that is not in use has no holders to lose.
LEMMA IdleHasNoHolders ==
  ASSUME NEW k, k \in DOMAIN clients, ExactAt(k), clients[k].active = 0
  PROVE  Holders(k) = {}
  BY HoldersFinite, FS_EmptySet DEF ExactAt

\* ActiveIsExact is inductive given the types.
LEMMA ActiveIsExactStep == TypeOK /\ ActiveIsExact /\ [Next]_vars => ActiveIsExact'
  <1> SUFFICES ASSUME TypeOK, ActiveIsExact, [Next]_vars,
                      NEW k \in Key, k[1] \notin orphaned'
               PROVE  ExactAt(k)'
    BY DEF ActiveIsExact, ExactAt
  <1> DEFINE n == Cardinality(Holders(k))
  <1>0. k[1] \notin orphaned
    BY DEF Next, Tick, Sweeper, SweepBegin, SweepShard, SweepExit, Close, Reload, Forget, Publish,
           Request, Route, Sample, AcquireOk, AcquireLimited, Release, vars
  <1>a. /\ ExactAt(k)
        /\ IsFiniteSet(Holders(k)) /\ n \in Nat
        /\ k \in DOMAIN clients => clients[k].active \in Nat
    BY <1>0, HoldersFinite DEF ActiveIsExact, ExactAt, TypeOK, Client
  <1>1. ASSUME NEW r \in Req, AcquireOk(r) PROVE ExactAt(k)'
    <2>1. CASE k = ticket[r].key
      <3>1. Cardinality(Holders(k)') = n + 1
        BY <1>a, <1>1, <2>1, HoldersAfterAcquire, FS_AddElement
      <3>2. /\ k \in DOMAIN clients'
            /\ clients'[k].active = 1 + (IF k \in DOMAIN clients THEN clients[k].active ELSE 0)
        BY <1>1, <2>1, AcquireOkEffect
      <3>3. k \notin DOMAIN clients => n = 0
        BY <1>a, FS_EmptySet DEF ExactAt
      <3> QED
        BY <1>a, <3>1, <3>2, <3>3 DEF ExactAt
    <2>2. CASE k # ticket[r].key
      <3>1. Holders(k)' = Holders(k)
        BY <1>1, <2>2, HoldersAfterAcquire
      <3>2. /\ k \in DOMAIN clients' => k \in DOMAIN clients /\ clients'[k] = clients[k]
            /\ k \in DOMAIN clients /\ k \notin DOMAIN clients' => clients[k].active = 0
        BY <1>1, <2>2, AcquireOkEffect
      <3> QED
        BY <1>a, <3>1, <3>2, IdleHasNoHolders DEF ExactAt
    <2> QED
      BY <2>1, <2>2
  <1>2. ASSUME NEW r \in Req, AcquireLimited(r) PROVE ExactAt(k)'
    <2>1. Holders(k)' = Holders(k)
      BY <1>2, HoldersUnchanged
    <2>2. CASE k = ticket[r].key
      <3>1. /\ k \in DOMAIN clients'
            /\ clients'[k].active = (IF k \in DOMAIN clients THEN clients[k].active ELSE 0)
        BY <1>2, <2>2, AcquireLimitedEffect
      <3>2. k \notin DOMAIN clients => n = 0
        BY <1>a, FS_EmptySet DEF ExactAt
      <3> QED
        BY <1>a, <2>1, <3>1, <3>2 DEF ExactAt
    <2>3. CASE k # ticket[r].key
      <3>1. /\ k \in DOMAIN clients' => k \in DOMAIN clients /\ clients'[k] = clients[k]
            /\ k \in DOMAIN clients /\ k \notin DOMAIN clients' => clients[k].active = 0
        BY <1>2, <2>3, AcquireLimitedEffect
      <3> QED
        BY <1>a, <2>1, <3>1, IdleHasNoHolders DEF ExactAt
    <2> QED
      BY <2>2, <2>3
  <1>3. ASSUME NEW r \in Req, Release(r) PROVE ExactAt(k)'
    <2>1. CASE k = ticket[r].key
      <3>1. r \in Holders(k) /\ Cardinality(Holders(k)') = n - 1
        BY <1>a, <1>3, <2>1, HoldersAfterRelease, FS_RemoveElement
      <3>2. k \in DOMAIN clients /\ clients[k].active = n /\ n # 0
        BY <1>a, <3>1, FS_EmptySet DEF ExactAt
      <3>3. k \in DOMAIN clients' /\ clients'[k].active = clients[k].active - 1
        BY <1>a, <1>3, <2>1, <3>2 DEF Release, Released, TypeOK, Client
      <3> QED
        BY <3>1, <3>2, <3>3 DEF ExactAt
    <2>2. CASE k # ticket[r].key
      <3>1. DOMAIN clients' = DOMAIN clients
            /\ (k \in DOMAIN clients => clients'[k] = clients[k])
        BY <1>3, <2>2 DEF Release, Released, TypeOK
      <3> QED
        BY <1>a, <1>3, <2>2, <3>1, HoldersAfterRelease DEF ExactAt
    <2> QED
      BY <2>1, <2>2
  <1>4. CASE SweepShard
    <2>1. Holders(k)' = Holders(k)
      BY <1>4, HoldersUnchanged DEF Sweeper
    <2>2. /\ k \in DOMAIN clients' => k \in DOMAIN clients /\ clients'[k] = clients[k]
          /\ k \in DOMAIN clients /\ k \notin DOMAIN clients' => clients[k].active = 0
      BY <1>4 DEF SweepShard, Drop, Expired
    <2> QED
      BY <1>a, <2>1, <2>2, IdleHasNoHolders DEF ExactAt
  <1>5. ASSUME NEW h \in Hosts, Forget(h) PROVE ExactAt(k)'
    <2>1. Holders(k)' = Holders(k)
      BY <1>5, HoldersUnchanged
    <2>2. k \in DOMAIN clients' => k \in DOMAIN clients /\ clients'[k] = clients[k]
      BY <1>5 DEF Forget, Drop
    <2>3. k \in DOMAIN clients /\ k \notin DOMAIN clients' => clients[k].active = 0
      <3> SUFFICES ASSUME k \in DOMAIN clients, k \notin DOMAIN clients'
                   PROVE  clients[k].active = 0
        OBVIOUS
      <3>1. k \in OfHost(h) /\ k[1] = h
        BY <1>5 DEF Forget, Drop, OfHost
      <3>2. ~(clients[k].active > 0)
        BY <1>5, <3>1 DEF Forget
      <3> QED
        BY <1>a, <3>2
    <2> QED
      BY <1>a, <2>1, <2>2, <2>3, IdleHasNoHolders DEF ExactAt
  <1>6. ASSUME \/ Tick \/ SweepBegin \/ SweepExit \/ Close \/ UNCHANGED vars
               \/ \E h \in Hosts, s \in Setting : Publish(h, s)
               \/ \E r \in Req : Sample(r) \/ \E h \in Hosts, a \in Addrs : Route(r, h, a)
        PROVE  ExactAt(k)'
    <2>1. Holders(k)' = Holders(k)
      BY <1>6, HoldersUnchanged DEF Sweeper
    <2>2. clients' = clients
      BY <1>6 DEF Tick, SweepBegin, SweepExit, Close, Publish, Sample, Route, vars
    <2> QED
      BY <1>a, <2>1, <2>2 DEF ExactAt
  <1> QED
    BY <1>1, <1>2, <1>3, <1>4, <1>5, <1>6 DEF Next, Request, Reload, Sweeper

\* Between switching limits off with requests in flight, the count of every
\* client is exact, through evictions, sweeps and refusals.
THEOREM ActiveExact == Spec => []ActiveIsExact
  <1>1. Init => ActiveIsExact
    BY DEF Init, ActiveIsExact, Holders
  <1> QED
    BY <1>1, TypeCorrect, ActiveIsExactStep, PTL DEF Spec

\* Acquire keeps every client within MaxConcurrent, for any number of requests,
\* clients, hosts and reloads, as long as Forget dropped no record in use.
THEOREM CapIsHonoured == Spec => CapHonoured
  <1>1. TypeOK /\ ActiveIsExact /\ [Next]_vars
        => [\A r \in Req : Admitted(r) /\ ticket[r].key[1] \notin orphaned => WithinCap(r)]_vars
    <2> SUFFICES ASSUME TypeOK, ActiveIsExact, [Next]_vars,
                        NEW r \in Req, Admitted(r), ticket[r].key[1] \notin orphaned
                 PROVE  WithinCap(r)
      OBVIOUS
    <2> DEFINE k == ticket[r].key
               cap == ticket[r].rules.maxConcurrent
    <2>1. AcquireOk(r)
      <3>1. pc[r] = "sampled" /\ pc'[r] = "held"
        BY DEF Admitted
      <3> QED
        BY <3>1 DEF Next, Tick, Sweeper, SweepBegin, SweepShard, SweepExit, Close, Reload, Forget,
                    Publish, Request, Route, Sample, AcquireLimited, AcquireOk, Release,
                    TypeOK, vars
    <2>2. /\ k \in Key /\ cap \in Nat
          /\ k \in DOMAIN clients /\ cap > 0 => clients[k].active < cap
      BY <2>1, AcquireOkEffect, RulesAssumption DEF Rules, TypeOK
    <2>3. ExactAt(k)
      BY <2>2 DEF ActiveIsExact, ExactAt
    <2>4. CASE k \in DOMAIN clients
      BY <2>2, <2>3, <2>4 DEF WithinCap, ExactAt
    <2>5. CASE k \notin DOMAIN clients
      <3>1. Cardinality(Holders(k)) = 0
        BY <2>3, <2>5, FS_EmptySet DEF ExactAt
      <3> QED
        BY <2>2, <3>1 DEF WithinCap
    <2> QED
      BY <2>4, <2>5
  <1> QED
    BY <1>1, TypeCorrect, ActiveExact, PTL DEF Spec, CapHonoured

-----------------------------------------------------------------------------
\* Token buckets.

\* A record's clock runs forward, its refusals are no older than its last refill,
\* and what it holds and has handed out stays below the burst and the rate.
BucketOK(c, t) ==
    /\ c.born <= c.last
    /\ c.last <= t
    /\ c.refused >= 0 => c.last <= c.refused
    /\ c.tokens + c.spent * Second <= MaxBurst * Second + MaxRps * (c.last - c.born)

\* The inductive invariant behind BucketEnvelope and RetryAfterSuffices.
BucketInv ==
    /\ \A r \in Req : pc[r] = "sampled" => ticket[r].at <= now
    /\ \A k \in DOMAIN clients : BucketOK(clients[k], now)

\* A refill from last to at keeps the envelope when its rate is within the bound.
LEMMA EnvelopeGrows ==
  ASSUME NEW a \in Nat, NEW s \in Nat, NEW b \in Nat, NEW m \in Nat, NEW rate \in Nat,
         NEW born \in Nat, NEW last \in Nat, NEW at \in Nat, NEW level \in Nat,
         born <= last, last < at, rate <= m,
         a + s <= b + m * (last - born),
         level <= a + (at - last) * rate
  PROVE  level + s <= b + m * (at - born)
  <1>1. (at - last) * rate <= m * (at - last)
    <2>1. rate * (at - last) <= m * (at - last)
      BY ProductMonotone
    <2> QED
      BY <2>1
  <1>2. m * (at - born) = m * (at - last) + m * (last - born)
    OBVIOUS
  <1>3. /\ (at - last) * rate \in Int /\ m * (at - last) \in Int
        /\ m * (last - born) \in Int /\ m * (at - born) \in Int
    OBVIOUS
  <1> DEFINE x == (at - last) * rate
             y == m * (at - last)
             z == m * (last - born)
             w == m * (at - born)
  <1>4. x <= y /\ w = y + z /\ x \in Int /\ y \in Int /\ z \in Int /\ w \in Int
    BY <1>1, <1>2, <1>3
  <1>5. a + s <= b + z /\ level <= a + x
    OBVIOUS
  <1> HIDE DEF x, y, z, w
  <1>6. level + s <= b + w
    BY <1>4, <1>5
  <1> QED
    BY <1>6 DEF w

LEMMA NewClientBucket ==
  ASSUME NEW rules \in RuleSet, NEW at \in Nat, NEW t \in Nat, at <= t
  PROVE  BucketOK(NewClient(rules, at), t)
  <1> DEFINE c == NewClient(rules, at)
  <1>1. c.born = at /\ c.last = at /\ c.refused = -1 /\ c.spent = 0
        /\ c.tokens = burstOf(rules) * Second
    BY DEF NewClient
  <1>2. burstOf(rules) * Second <= MaxBurst * Second
    BY BurstRange, ProductMonotone, TimeAssumption, RulesAssumption
  <1>3. 0 * Second = 0 /\ MaxRps * (at - at) = 0
    BY TimeAssumption, RulesAssumption
  <1>4. burstOf(rules) * Second \in Nat /\ MaxBurst * Second \in Nat
    BY BurstRange, ProductNat, TimeAssumption, RulesAssumption
  <1> HIDE DEF c
  <1>5. c.tokens + c.spent * Second <= MaxBurst * Second + MaxRps * (c.last - c.born)
    BY <1>1, <1>2, <1>3, <1>4
  <1>6. BucketOK(c, t)
    BY <1>1, <1>5 DEF BucketOK
  <1> QED
    BY <1>6 DEF c

\* What the refill leaves: never more than was there and the rate earned, and no
\* less than a token after a second.
LEMMA RefillBucket ==
  ASSUME NEW c \in Client, NEW rules \in RuleSet, NEW at \in Nat, NEW t \in Nat,
         at <= t, BucketOK(c, t)
  PROVE  LET f == Refill(c, rules, at) IN
         /\ f.born <= f.last /\ f.last <= t
         /\ f.tokens + f.spent * Second <= MaxBurst * Second + MaxRps * (f.last - f.born)
  <1> DEFINE full == burstOf(rules) * Second
             earned == c.tokens + (at - c.last) * rules.rps
             level == Least(full, earned)
             s == c.spent * Second
             b == MaxBurst * Second
  <1>1. CASE at > c.last
    <2>1. Refill(c, rules, at) = [c EXCEPT !.tokens = level, !.last = at]
      BY <1>1 DEF Refill
    <2>2. /\ c.tokens \in Nat /\ c.spent \in Nat /\ c.born \in Nat /\ c.last \in Nat
          /\ rules.rps \in Nat /\ rules.rps <= MaxRps /\ MaxRps \in Nat
      BY RulesAssumption DEF Client, Rules, Valid
    <2>3. full \in Nat /\ s \in Nat /\ b \in Nat
      BY <2>2, BurstRange, ProductNat, TimeAssumption, RulesAssumption
    <2>4. (at - c.last) * rules.rps \in Nat
      BY <1>1, <2>2, ProductNat
    <2>5. earned \in Nat
      BY <2>2, <2>4
    <2>6. level \in Nat /\ level <= earned
      BY <2>3, <2>5 DEF Least
    <2>7. c.born <= c.last /\ c.tokens + s <= b + MaxRps * (c.last - c.born)
      BY DEF BucketOK
    <2>8. level <= c.tokens + (at - c.last) * rules.rps
      BY <2>6
    <2> HIDE DEF level, full, earned, s, b
    <2>9. level + s <= b + MaxRps * (at - c.born)
      BY <1>1, <2>2, <2>3, <2>6, <2>7, <2>8, EnvelopeGrows
    <2>10. /\ Refill(c, rules, at).tokens = level /\ Refill(c, rules, at).last = at
           /\ Refill(c, rules, at).born = c.born /\ Refill(c, rules, at).spent = c.spent
      BY <2>1 DEF Client
    <2>11. c.born <= at
      BY <1>1, <2>2, <2>7
    <2> QED
      BY <2>9, <2>10, <2>11 DEF s, b
  <1>2. CASE ~(at > c.last)
    <2>1. Refill(c, rules, at) = c
      BY <1>2 DEF Refill
    <2> QED
      BY <2>1 DEF BucketOK
  <1> QED
    BY <1>1, <1>2

LEMMA JudgeBucket ==
  ASSUME TypeOK, NEW c \in Client, NEW rules \in RuleSet, NEW at \in Nat,
         at <= now, BucketOK(c, now)
  PROVE  BucketOK(judge(c, rules, at).client, now)
  <1> DEFINE f == Refill(c, rules, at)
  <1>1. now \in Nat
    BY DEF TypeOK
  <1>2. /\ f.born <= f.last /\ f.last <= now
        /\ f.tokens + f.spent * Second <= MaxBurst * Second + MaxRps * (f.last - f.born)
    BY <1>1, RefillBucket
  <1>3. f \in Client
    BY RefillType
  <1> HIDE DEF f
  <1>4. CASE OverConcurrency(c, rules) \/ rules.rps = 0
    <2>1. judge(c, rules, at).client = c
      BY <1>4 DEF judge
    <2> QED
      BY <2>1
  <1>5. CASE ~(OverConcurrency(c, rules) \/ rules.rps = 0) /\ f.tokens < Second
    <2> DEFINE g == [f EXCEPT !.refused = now]
    <2>1. judge(c, rules, at).client = g
      BY <1>5 DEF judge, f
    <2>2. /\ g.born = f.born /\ g.last = f.last /\ g.tokens = f.tokens /\ g.spent = f.spent
          /\ g.refused = now
      BY <1>3 DEF Client
    <2> HIDE DEF g
    <2>3. BucketOK(g, now)
      BY <1>2, <2>2 DEF BucketOK
    <2> QED
      BY <2>1, <2>3
  <1>6. CASE ~(OverConcurrency(c, rules) \/ rules.rps = 0) /\ ~(f.tokens < Second)
    <2> DEFINE g == [f EXCEPT !.tokens = @ - Second, !.spent = @ + 1, !.refused = -1]
    <2>1. judge(c, rules, at).client = g
      BY <1>6 DEF judge, f
    <2>2. /\ g.born = f.born /\ g.last = f.last /\ g.tokens = f.tokens - Second
          /\ g.spent = f.spent + 1 /\ g.refused = -1
      BY <1>3 DEF Client
    <2>3. f.tokens \in Nat /\ f.spent \in Nat /\ Second \in Nat
      BY <1>3, TimeAssumption DEF Client
    <2>4. (f.spent + 1) * Second = f.spent * Second + Second /\ f.spent * Second \in Nat
      BY <2>3, ProductNat
    <2> HIDE DEF g
    <2>5. g.tokens + g.spent * Second = f.tokens + f.spent * Second
      BY <2>2, <2>3, <2>4
    <2>6. BucketOK(g, now)
      BY <1>2, <2>2, <2>5 DEF BucketOK
    <2> QED
      BY <2>1, <2>6
  <1> QED
    BY <1>4, <1>5, <1>6

\* What is not in the bucket does not matter to it.
LEMMA BucketFields ==
  ASSUME NEW c, NEW d, NEW t, BucketOK(c, t),
         d.born = c.born, d.last = c.last, d.refused = c.refused,
         d.tokens = c.tokens, d.spent = c.spent
  PROVE  BucketOK(d, t)
  BY DEF BucketOK

\* The table Acquire judges in.
LEMMA TablesForBuckets ==
  ASSUME TypeOK, BucketInv, NEW k \in Key, NEW rules \in RuleSet, NEW at \in Nat, at <= now,
         NEW table \in TablesFor(k, rules, at), NEW j \in DOMAIN table
  PROVE  BucketOK(table[j], now)
  <1>1. j # k => j \in DOMAIN clients /\ table[j] = clients[j]
    BY TablesForKeeps
  <1>2. k \in DOMAIN clients => table = clients
    BY DEF TablesFor
  <1>3. k \notin DOMAIN clients => table[k] = NewClient(rules, at)
    BY DEF TablesFor, Put, Drop
  <1>4. BucketOK(NewClient(rules, at), now)
    BY NewClientBucket DEF TypeOK
  <1> QED
    BY <1>1, <1>2, <1>3, <1>4 DEF BucketInv

\* BucketInv is inductive given the types.
LEMMA BucketStep == TypeOK /\ BucketInv /\ [Next]_vars => BucketInv'
  <1> SUFFICES ASSUME TypeOK, BucketInv, [Next]_vars PROVE BucketInv'
    OBVIOUS
  <1>1. ASSUME NEW r \in Req, AcquireOk(r) \/ AcquireLimited(r) PROVE BucketInv'
    <2> DEFINE k == ticket[r].key
               rules == ticket[r].rules
               at == ticket[r].at
    <2>1. k \in Key /\ rules \in RuleSet /\ at \in Nat
      BY DEF TypeOK
    <2>2. at <= now
      BY <1>1 DEF BucketInv, AcquireOk, AcquireLimited
    <2>3. PICK table \in TablesFor(k, rules, at) :
            \/ clients' = [table EXCEPT ![k] = [Judged(table, r).client EXCEPT !.active = @ + 1]]
            \/ clients' = [table EXCEPT ![k] = Judged(table, r).client]
      BY <1>1 DEF AcquireOk, AcquireLimited
    <2>4. k \in DOMAIN table /\ table \in [DOMAIN table -> Client]
      BY <2>1, TablesForType
    <2> DEFINE c == [table[k] EXCEPT !.seen = at]
               d == Judged(table, r).client
    <2>5. c \in Client /\ BucketOK(c, now)
      <3>1. BucketOK(table[k], now)
        BY <2>1, <2>2, <2>4, TablesForBuckets
      <3>2. c \in Client
        BY <2>1, <2>4 DEF Client
      <3>3. /\ c.born = table[k].born /\ c.last = table[k].last /\ c.refused = table[k].refused
            /\ c.tokens = table[k].tokens /\ c.spent = table[k].spent
        BY <2>1, <2>4 DEF Client
      <3> HIDE DEF c
      <3> QED
        BY <3>1, <3>2, <3>3, BucketFields
    <2>6. d = judge(c, rules, at).client
      BY DEF Judged
    <2> HIDE DEF c
    <2>7. d \in Client /\ BucketOK(d, now)
      BY <2>1, <2>2, <2>5, <2>6, JudgeType, JudgeBucket
    <2>8. BucketOK([d EXCEPT !.active = @ + 1], now)
      <3> DEFINE e == [d EXCEPT !.active = @ + 1]
      <3>1. /\ e.born = d.born /\ e.last = d.last /\ e.refused = d.refused
            /\ e.tokens = d.tokens /\ e.spent = d.spent
        BY <2>7 DEF Client
      <3> HIDE DEF e, d
      <3>2. BucketOK(e, now)
        BY <2>7, <3>1, BucketFields
      <3> QED
        BY <3>2 DEF e
    <2>9. \A j \in DOMAIN table : BucketOK(table[j], now)
      BY <2>1, <2>2, TablesForBuckets
    <2> HIDE DEF k, rules, at, d
    <2>10. \A j \in DOMAIN clients' : BucketOK(clients'[j], now)
      BY <2>3, <2>4, <2>7, <2>8, <2>9 DEF d
    <2>11. now' = now
      BY <1>1 DEF AcquireOk, AcquireLimited
    <2>12. \A q \in Req : pc'[q] = "sampled" => pc[q] = "sampled" /\ ticket'[q] = ticket[q]
      BY <1>1 DEF AcquireOk, AcquireLimited, TypeOK
    <2> QED
      BY <2>10, <2>11, <2>12 DEF BucketInv
  <1>2. CASE Tick
    <2>1. now' = now + 1 /\ now \in Nat /\ UNCHANGED <<pc, ticket, clients>>
      BY <1>2 DEF Tick, TypeOK
    <2>2. \A r \in Req : ticket[r].at \in Nat
      BY DEF TypeOK
    <2>3. \A k \in DOMAIN clients : BucketOK(clients[k], now + 1)
      <3> SUFFICES ASSUME NEW k \in DOMAIN clients PROVE BucketOK(clients[k], now + 1)
        OBVIOUS
      <3>1. BucketOK(clients[k], now) /\ clients[k].last \in Nat
        BY DEF BucketInv, TypeOK, Client
      <3>2. clients[k].last <= now + 1
        BY <2>1, <3>1 DEF BucketOK
      <3> QED
        BY <3>1, <3>2 DEF BucketOK
    <2> QED
      BY <2>1, <2>2, <2>3 DEF BucketInv
  <1>3. ASSUME NEW r \in Req, Sample(r) PROVE BucketInv'
    <2>1. now' = now /\ clients' = clients /\ now \in Nat
      BY <1>3 DEF Sample, TypeOK
    <2>2. \A q \in Req : pc'[q] = "sampled" =>
             (pc[q] = "sampled" /\ ticket'[q] = ticket[q]) \/ ticket'[q].at = now
      BY <1>3 DEF Sample, TypeOK
    <2> QED
      BY <2>1, <2>2 DEF BucketInv
  <1>4. ASSUME NEW r \in Req, NEW h \in Hosts, NEW a \in Addrs, Route(r, h, a) PROVE BucketInv'
    <2>1. now' = now /\ clients' = clients
      BY <1>4 DEF Route
    <2>2. \A q \in Req : pc'[q] = "sampled" => pc[q] = "sampled" /\ ticket'[q] = ticket[q]
      BY <1>4 DEF Route, TypeOK
    <2> QED
      BY <2>1, <2>2 DEF BucketInv
  <1>5. ASSUME NEW r \in Req, Release(r) PROVE BucketInv'
    <2> DEFINE k == ticket[r].key
    <2>1. now' = now /\ clients' = Released(clients, k)
      BY <1>5 DEF Release
    <2>2. \A q \in Req : pc'[q] = "sampled" => pc[q] = "sampled" /\ ticket'[q] = ticket[q]
      BY <1>5 DEF Release, TypeOK
    <2> HIDE DEF k
    <2>3. \A j \in DOMAIN clients' : BucketOK(clients'[j], now)
      <3> SUFFICES ASSUME NEW j \in DOMAIN clients' PROVE BucketOK(clients'[j], now)
        OBVIOUS
      <3>1. j \in DOMAIN clients /\ clients[j] \in Client
            /\ (clients'[j] = clients[j] \/ clients'[j] = [clients[j] EXCEPT !.active = @ - 1])
        BY <2>1 DEF Released, TypeOK
      <3>2. BucketOK(clients[j], now)
        BY <3>1 DEF BucketInv
      <3>3. /\ clients'[j].born = clients[j].born /\ clients'[j].last = clients[j].last
            /\ clients'[j].refused = clients[j].refused /\ clients'[j].tokens = clients[j].tokens
            /\ clients'[j].spent = clients[j].spent
        BY <3>1 DEF Client
      <3> QED
        BY <3>2, <3>3, BucketFields
    <2> QED
      BY <2>1, <2>2, <2>3 DEF BucketInv
  <1>6. ASSUME \/ Sweeper \/ UNCHANGED vars
               \/ \E h \in Hosts : Forget(h) \/ \E s \in Setting : Publish(h, s)
        PROVE  BucketInv'
    <2>1. UNCHANGED <<now, pc, ticket>>
      BY <1>6 DEF Sweeper, SweepBegin, SweepShard, SweepExit, Close, Forget, Publish, vars
    <2>2. \A j \in DOMAIN clients' : j \in DOMAIN clients /\ clients'[j] = clients[j]
      BY <1>6 DEF Sweeper, SweepBegin, SweepShard, SweepExit, Close, Forget, Publish, Drop, vars
    <2> QED
      BY <2>1, <2>2 DEF BucketInv
  <1> QED
    BY <1>1, <1>2, <1>3, <1>4, <1>5, <1>6 DEF Next, Request, Reload

LEMMA BucketsOK == Spec => []BucketInv
  <1>1. Init => BucketInv
    BY DEF Init, BucketInv
  <1> QED
    BY <1>1, TypeCorrect, BucketStep, PTL DEF Spec

\* Over a record's life a client never gets more than a burst and what the rate
\* earned, for any rules within what Validate accepts and however late a request
\* takes the lock after it read the clock.
THEOREM BucketsAreBounded == Spec => []BucketEnvelope
  <1>1. BucketInv => BucketEnvelope
    BY DEF BucketInv, BucketOK, BucketEnvelope
  <1> QED
    BY <1>1, BucketsOK, PTL

\* A client that was refused for its rate and waits the second Retry-After names
\* is not refused for its rate again, whatever its rules have become meanwhile.
THEOREM RetryAfterIsEnough == Spec => []RetryAfterSuffices
  <1>1. TypeOK /\ BucketInv => RetryAfterSuffices
    <2> SUFFICES ASSUME TypeOK, BucketInv, NEW r \in Req,
                        ticket[r].key \in DOMAIN clients,
                        clients[ticket[r].key].refused >= 0,
                        ticket[r].at >= clients[ticket[r].key].refused + Second
                 PROVE  Judged(clients, r).verdict # "rate"
      BY DEF RetryAfterSuffices
    <2> DEFINE k == ticket[r].key
               rules == ticket[r].rules
               at == ticket[r].at
               c == [clients[k] EXCEPT !.seen = at]
               f == Refill(c, rules, at)
    <2>1. rules \in RuleSet /\ at \in Nat /\ clients[k] \in Client
      BY DEF TypeOK
    <2>2. c \in Client /\ c.last = clients[k].last /\ c.refused = clients[k].refused
      BY <2>1 DEF Client
    <2>3. Judged(clients, r) = judge(c, rules, at)
      BY DEF Judged
    <2>4. c.last <= c.refused /\ at >= c.refused + Second
      BY <2>2 DEF BucketInv, BucketOK
    <2> HIDE DEF c, k, rules, at
    <2>5. rules.rps # 0 => f.tokens >= Second
      <3> SUFFICES ASSUME rules.rps # 0 PROVE f.tokens >= Second
        OBVIOUS
      <3> DEFINE full == burstOf(rules) * Second
                 earned == c.tokens + (at - c.last) * rules.rps
      <3>1. /\ c.last \in Nat /\ c.tokens \in Nat /\ c.refused \in Int
            /\ rules.rps \in Nat /\ Second \in Nat /\ Second > 0
        BY <2>1, <2>2, TimeAssumption, RulesAssumption DEF Client, Rules
      <3>2. at - c.last \in Nat /\ Second <= at - c.last
        BY <2>1, <2>4, <3>1
      <3>3. Second <= (at - c.last) * rules.rps /\ (at - c.last) * rules.rps \in Nat
        <4> DEFINE n == at - c.last
        <4>1. n \in Nat /\ rules.rps >= 1
          BY <3>1, <3>2
        <4>2. 1 * n <= rules.rps * n /\ n * rules.rps \in Nat
          BY <3>1, <4>1, ProductMonotone, ProductNat
        <4>3. n * rules.rps = rules.rps * n /\ 1 * n = n
          BY <3>1, <4>1
        <4> QED
          BY <3>1, <3>2, <4>2, <4>3
      <3>4. Second <= full /\ full \in Nat
        <4>1. burstOf(rules) \in Nat /\ burstOf(rules) >= 1
          BY <2>1, BurstRange
        <4>2. 1 * Second <= burstOf(rules) * Second /\ burstOf(rules) * Second \in Nat
          BY <3>1, <4>1, ProductMonotone, ProductNat
        <4> QED
          BY <3>1, <4>2
      <3>5. earned \in Nat /\ Second <= earned
        BY <3>1, <3>3
      <3>6. f = [c EXCEPT !.tokens = Least(full, earned), !.last = at]
        <4>1. at > c.last
          BY <2>1, <3>1, <3>2
        <4> QED
          BY <4>1 DEF Refill
      <3>7. f.tokens = Least(full, earned)
        BY <2>2, <3>6 DEF Client
      <3> HIDE DEF full, earned, f
      <3> QED
        BY <3>1, <3>4, <3>5, <3>7 DEF Least
    <2>6. f.tokens \in Nat
      BY <2>1, <2>2, RefillType DEF Client
    <2>7. rules.rps # 0 => ~(f.tokens < Second)
      BY <2>5, <2>6, TimeAssumption
    <2> HIDE DEF f
    <2>8. judge(c, rules, at).verdict # "rate"
      BY <2>7 DEF judge, f
    <2> QED
      BY <2>3, <2>8
  <1> QED
    BY <1>1, TypeCorrect, BucketsOK, PTL

-----------------------------------------------------------------------------
\* The size of the table.

\* Among records that are idle one is least recently seen, so evictOldest finds
\* one whenever there is an idle record at all.
LEMMA EvictsWhenIdle ==
  ASSUME TypeOK, evictOldest(clients) = {}
  PROVE  \A k \in DOMAIN clients : clients[k].active # 0
  <1> SUFFICES ASSUME NEW k \in DOMAIN clients, clients[k].active = 0 PROVE FALSE
    OBVIOUS
  <1> DEFINE idle == {j \in DOMAIN clients : clients[j].active = 0}
             times == {clients[j].seen : j \in idle}
  <1>1. times \subseteq Nat /\ times # {}
    BY DEF TypeOK, Client
  <1>2. PICK t \in times : \A u \in times : ~(<<u, t>> \in OpToRel(<, Nat))
    BY <1>1, NatLessThanWellFounded, WFMin
  <1> HIDE DEF times
  <1>3. \A u \in times : t <= u
    <2>1. \A a, b \in Nat : a < b => <<a, b>> \in OpToRel(<, Nat)
      BY DEF OpToRel
    <2>2. \A u \in times : ~(u < t) /\ u \in Nat /\ t \in Nat
      BY <1>1, <1>2, <2>1
    <2> QED
      BY <2>2
  <1>4. PICK v \in idle : clients[v].seen = t
    BY <1>2 DEF times
  <1>5. v \in evictOldest(clients)
    BY <1>3, <1>4 DEF evictOldest, times
  <1> QED
    BY <1>5

\* Records in use are each held by a request of their own.
LEMMA BusyRecordsHeld ==
  ASSUME TypeOK, NoPhantomSlot, NEW r \in Req, pc[r] # "held",
         \A k \in DOMAIN clients : clients[k].active # 0
  PROVE  IsFiniteSet(DOMAIN clients) /\ Cardinality(DOMAIN clients) + 1 <= Cardinality(Req)
  <1> DEFINE others == {q \in Req : pc[q] = "held" /\ ticket[q].key \in DOMAIN clients}
             keyOf == [q \in others |-> ticket[q].key]
  <1>1. keyOf \in Surjection(others, DOMAIN clients)
    <2>1. keyOf \in [others -> DOMAIN clients]
      OBVIOUS
    <2>2. ASSUME NEW k \in DOMAIN clients PROVE \E q \in others : keyOf[q] = k
      <3>1. Holders(k) # {}
        <4>1. clients[k].active <= Cardinality(Holders(k)) /\ clients[k].active \in Nat
              /\ clients[k].active # 0
          BY DEF NoPhantomSlot, TypeOK, Client
        <4>2. Holders(k) = {} => Cardinality(Holders(k)) = 0
          BY FS_EmptySet
        <4> QED
          BY <4>1, <4>2
      <3> QED
        BY <3>1 DEF Holders
    <2> QED
      BY <2>1, <2>2 DEF Surjection
  <1>2. others \subseteq Req \ {r}
    OBVIOUS
  <1>3. IsFiniteSet(Req \ {r}) /\ Cardinality(Req \ {r}) = Cardinality(Req) - 1
    BY ReqAssumption, FS_RemoveElement
  <1>4. IsFiniteSet(others) /\ Cardinality(others) <= Cardinality(Req \ {r})
    BY <1>2, <1>3, FS_Subset
  <1> HIDE DEF others, keyOf
  <1>5. IsFiniteSet(DOMAIN clients) /\ Cardinality(DOMAIN clients) <= Cardinality(others)
    BY <1>1, <1>4, FS_Surjection
  <1>6. Cardinality(Req) \in Nat /\ Cardinality(others) \in Nat /\ Cardinality(DOMAIN clients) \in Nat
    BY ReqAssumption, <1>4, <1>5, FS_CardinalityType
  <1> QED
    BY <1>3, <1>4, <1>5, <1>6

TableInv == IsFiniteSet(DOMAIN clients) /\ TableBounded

\* TableInv is inductive given the types and NoPhantomSlot.
LEMMA TableStep == TypeOK /\ NoPhantomSlot /\ TableInv /\ [Next]_vars => TableInv'
  <1> SUFFICES ASSUME TypeOK, NoPhantomSlot, TableInv, [Next]_vars PROVE TableInv'
    OBVIOUS
  <1> DEFINE keys == DOMAIN clients
             n == Cardinality(keys)
  <1>0. IsFiniteSet(keys) /\ n \in Nat /\ Cardinality(Req) \in Nat /\ MaxPerShard \in Nat
    BY FS_CardinalityType, ReqAssumption, TableAssumption DEF TableInv
  <1>1. ASSUME NEW r \in Req, AcquireOk(r) \/ AcquireLimited(r) PROVE TableInv'
    <2> DEFINE k == ticket[r].key
               rules == ticket[r].rules
               at == ticket[r].at
    <2>1. k \in Key /\ rules \in RuleSet /\ at \in Nat
      BY DEF TypeOK
    <2>2. PICK table \in TablesFor(k, rules, at) : DOMAIN clients' = DOMAIN table
      BY <1>1 DEF AcquireOk, AcquireLimited
    <2>3. pc[r] # "held"
      BY <1>1 DEF AcquireOk, AcquireLimited
    <2>4. CASE k \in keys
      <3>1. DOMAIN clients' = keys
        BY <2>2, <2>4 DEF TablesFor
      <3> QED
        BY <3>1 DEF TableInv, TableBounded
    <2>5. CASE k \notin keys /\ n < MaxPerShard
      <3>1. DOMAIN clients' = keys \cup {k}
        BY <1>0, <2>2, <2>5 DEF TablesFor, Put
      <3>2. IsFiniteSet(DOMAIN clients') /\ Cardinality(DOMAIN clients') = n + 1
        BY <1>0, <2>5, <3>1, FS_AddElement
      <3> QED
        BY <1>0, <2>5, <3>2 DEF TableInv, TableBounded
    <2>6. CASE k \notin keys /\ ~(n < MaxPerShard) /\ evictOldest(clients) = {}
      <3>1. DOMAIN clients' = keys \cup {k}
        BY <1>0, <2>2, <2>6 DEF TablesFor, Put
      <3>2. IsFiniteSet(DOMAIN clients') /\ Cardinality(DOMAIN clients') = n + 1
        BY <1>0, <2>6, <3>1, FS_AddElement
      <3>3. n + 1 <= Cardinality(Req)
        BY <2>3, <2>6, EvictsWhenIdle, BusyRecordsHeld
      <3>4. \/ Cardinality(DOMAIN clients') <= MaxPerShard
            \/ Cardinality(DOMAIN clients') <= Cardinality(Req)
        BY <3>2, <3>3
      <3> QED
        BY <3>2, <3>4 DEF TableInv, TableBounded
    <2>7. CASE k \notin keys /\ ~(n < MaxPerShard) /\ evictOldest(clients) # {}
      <3>1. PICK v \in evictOldest(clients) : DOMAIN clients' = (keys \ {v}) \cup {k}
        <4>0. Cardinality(DOMAIN clients) >= MaxPerShard
          BY <1>0, <2>7
        <4>1. PICK v \in evictOldest(clients) :
                table = Put(Drop(clients, {v}), k, NewClient(rules, at))
          BY <2>2, <2>7, <4>0 DEF TablesFor
        <4>2. DOMAIN table = (keys \ {v}) \cup {k}
          BY <4>1 DEF Put, Drop
        <4> QED
          BY <2>2, <4>1, <4>2
      <3>2. v \in keys
        BY DEF evictOldest
      <3>3. IsFiniteSet(keys \ {v}) /\ Cardinality(keys \ {v}) = n - 1
        BY <1>0, <3>2, FS_RemoveElement
      <3>4. IsFiniteSet(DOMAIN clients') /\ Cardinality(DOMAIN clients') = n
        <4>1. k \notin keys \ {v}
          BY <2>7
        <4>2. /\ IsFiniteSet((keys \ {v}) \cup {k})
              /\ Cardinality((keys \ {v}) \cup {k}) = n - 1 + 1
          BY <3>3, <4>1, FS_AddElement
        <4> QED
          BY <1>0, <3>1, <4>2
      <3> QED
        BY <3>4 DEF TableInv, TableBounded
    <2> QED
      BY <2>4, <2>5, <2>6, <2>7
  <1>2. ASSUME ~(\E r \in Req : AcquireOk(r) \/ AcquireLimited(r)) PROVE TableInv'
    <2>1. DOMAIN clients' \subseteq keys
      BY <1>2 DEF Next, Tick, Sweeper, SweepBegin, SweepShard, SweepExit, Close, Reload, Forget,
                  Publish, Request, Route, Sample, Release, Released, Drop, vars
    <2>2. IsFiniteSet(DOMAIN clients') /\ Cardinality(DOMAIN clients') <= n
      BY <1>0, <2>1, FS_Subset
    <2>3. Cardinality(DOMAIN clients') \in Nat
      BY <2>2, FS_CardinalityType
    <2> QED
      BY <1>0, <2>2, <2>3 DEF TableInv, TableBounded
  <1> QED
    BY <1>1, <1>2

\* The table never holds more than maxPerShard records or one for every request in
\* flight: eviction always finds an idle record when there is one.
THEOREM TableIsBounded == Spec => []TableBounded
  <1>1. Init => TableInv
    <2> SUFFICES ASSUME Init PROVE TableInv
      OBVIOUS
    <2>1. DOMAIN clients = {}
      BY DEF Init
    <2> QED
      BY <2>1, FS_EmptySet, TableAssumption DEF TableInv, TableBounded
  <1>2. TableInv => TableBounded
    BY DEF TableInv
  <1> QED
    BY <1>1, <1>2, TypeCorrect, NoPhantomSlots, TableStep, PTL DEF Spec

-----------------------------------------------------------------------------
\* The sweeper.

\* A clock reading that reaches the lock late may set seen back, but not far.
SweepInv ==
    /\ \A r \in Req : pc[r] = "sampled" => now <= ticket[r].at + MaxSkew
    /\ \A k \in DOMAIN clients : clients[k].last <= clients[k].seen + MaxSkew
    /\ sweeper = "sweeping" => cutoff <= now - IdleAfter

\* judge leaves seen alone.
LEMMA JudgeSeen ==
  ASSUME NEW c \in Client, NEW rules \in RuleSet, NEW at \in Nat
  PROVE  judge(c, rules, at).client.seen = c.seen
  <1>1. Refill(c, rules, at) \in Client /\ Refill(c, rules, at).seen = c.seen
    BY RefillType DEF Refill, Client
  <1> QED
    BY <1>1 DEF judge, Client

\* The record Acquire leaves was seen at the request's clock reading, and every
\* other record is one the table had before.
LEMMA AcquireSeen ==
  ASSUME TypeOK, NEW r \in Req, AcquireOk(r) \/ AcquireLimited(r)
  PROVE  LET k == ticket[r].key IN
         /\ clients'[k].seen = ticket[r].at
         /\ \A j \in DOMAIN clients' \ {k} : j \in DOMAIN clients /\ clients'[j] = clients[j]
  <1> DEFINE k == ticket[r].key
             rules == ticket[r].rules
             at == ticket[r].at
  <1>1. k \in Key /\ rules \in RuleSet /\ at \in Nat
    BY DEF TypeOK
  <1>2. PICK table \in TablesFor(k, rules, at) :
          \/ clients' = [table EXCEPT ![k] = [Judged(table, r).client EXCEPT !.active = @ + 1]]
          \/ clients' = [table EXCEPT ![k] = Judged(table, r).client]
    BY DEF AcquireOk, AcquireLimited
  <1>3. k \in DOMAIN table /\ table \in [DOMAIN table -> Client]
    BY <1>1, TablesForType
  <1> DEFINE c == [table[k] EXCEPT !.seen = at]
             d == Judged(table, r).client
  <1>4. c \in Client /\ c.seen = at
    BY <1>1, <1>3 DEF Client
  <1>5. d \in Client /\ d.seen = at
    <2>1. d = judge(c, rules, at).client
      BY DEF Judged
    <2> HIDE DEF c, d
    <2> QED
      BY <1>1, <1>4, <2>1, JudgeType, JudgeSeen
  <1>6. [d EXCEPT !.active = @ + 1].seen = at
    BY <1>5 DEF Client
  <1>7. clients'[k].seen = at
    BY <1>2, <1>3, <1>5, <1>6
  <1>8. \A j \in DOMAIN clients' \ {k} : j \in DOMAIN table /\ clients'[j] = table[j]
    BY <1>2, <1>3
  <1> QED
    BY <1>1, <1>7, <1>8, TablesForKeeps

\* SweepInv is inductive given the types and the clocks of the records.
LEMMA SweepStep == TypeOK /\ TypeOK' /\ BucketInv' /\ SweepInv /\ [Next]_vars => SweepInv'
  <1> SUFFICES ASSUME TypeOK, TypeOK', BucketInv', SweepInv, [Next]_vars PROVE SweepInv'
    OBVIOUS
  <1> USE TimeAssumption
  <1>1. ASSUME NEW r \in Req, AcquireOk(r) \/ AcquireLimited(r) PROVE SweepInv'
    <2> DEFINE k == ticket[r].key
    <2>1. UNCHANGED <<now, sweeper, cutoff>>
      BY <1>1 DEF AcquireOk, AcquireLimited
    <2>2. \A q \in Req : pc'[q] = "sampled" => pc[q] = "sampled" /\ ticket'[q] = ticket[q]
      BY <1>1 DEF AcquireOk, AcquireLimited, TypeOK
    <2>3. now <= ticket[r].at + MaxSkew
      BY <1>1 DEF SweepInv, AcquireOk, AcquireLimited
    <2>4. \A j \in DOMAIN clients' : clients'[j].last <= clients'[j].seen + MaxSkew
      <3> SUFFICES ASSUME NEW j \in DOMAIN clients'
                   PROVE  clients'[j].last <= clients'[j].seen + MaxSkew
        OBVIOUS
      <3>1. CASE j = k
        <4>1. clients'[j].last <= now
          BY <2>1 DEF BucketInv, BucketOK
        <4>2. clients'[j].last \in Nat /\ now \in Nat /\ ticket[r].at \in Nat
          BY DEF TypeOK, Client
        <4>3. clients'[j].seen = ticket[r].at
          BY <1>1, <3>1, AcquireSeen
        <4> QED
          BY <2>3, <4>1, <4>2, <4>3
      <3>2. CASE j # k
        BY <1>1, <3>2, AcquireSeen DEF SweepInv
      <3> QED
        BY <3>1, <3>2
    <2> QED
      BY <2>1, <2>2, <2>4 DEF SweepInv
  <1>2. CASE Tick
    <2>1. now' = now + 1 /\ now \in Nat /\ UNCHANGED <<pc, ticket, clients, sweeper, cutoff>>
      BY <1>2 DEF Tick, TypeOK
    <2>2. \A r \in Req : pc[r] = "sampled" => now + 1 <= ticket[r].at + MaxSkew
      BY <1>2 DEF Tick, TypeOK
    <2>3. sweeper = "sweeping" => cutoff <= now + 1 - IdleAfter
      BY <2>1 DEF SweepInv, TypeOK
    <2> QED
      BY <2>1, <2>2, <2>3 DEF SweepInv
  <1>3. ASSUME NEW r \in Req, Sample(r) PROVE SweepInv'
    <2>1. UNCHANGED <<now, clients, sweeper, cutoff>> /\ now \in Nat
      BY <1>3 DEF Sample, TypeOK
    <2>2. \A q \in Req : pc'[q] = "sampled" =>
             (pc[q] = "sampled" /\ ticket'[q] = ticket[q]) \/ ticket'[q].at = now
      BY <1>3 DEF Sample, TypeOK
    <2> QED
      BY <2>1, <2>2 DEF SweepInv
  <1>4. ASSUME NEW r \in Req, Release(r) \/ \E h \in Hosts, a \in Addrs : Route(r, h, a)
        PROVE  SweepInv'
    <2>1. UNCHANGED <<now, sweeper, cutoff>>
      BY <1>4 DEF Route, Release
    <2>2. \A q \in Req : pc'[q] = "sampled" => pc[q] = "sampled" /\ ticket'[q] = ticket[q]
      BY <1>4 DEF Route, Release, TypeOK
    <2>3. clients' = clients \/ clients' = Released(clients, ticket[r].key)
      BY <1>4 DEF Route, Release
    <2>4. \A j \in DOMAIN clients' : /\ j \in DOMAIN clients
                                     /\ clients'[j].last = clients[j].last
                                     /\ clients'[j].seen = clients[j].seen
      BY <2>3 DEF Released, TypeOK, Client
    <2> QED
      BY <2>1, <2>2, <2>4 DEF SweepInv
  <1>5. CASE SweepBegin
    <2>1. UNCHANGED <<now, pc, ticket, clients>> /\ cutoff' = now - IdleAfter /\ now \in Nat
      BY <1>5 DEF SweepBegin, TypeOK
    <2> QED
      BY <2>1 DEF SweepInv
  <1>6. ASSUME \/ SweepShard \/ SweepExit
               \/ \E h \in Hosts : Forget(h)
        PROVE  SweepInv'
    <2>1. UNCHANGED <<now, pc, ticket>>
      BY <1>6 DEF SweepShard, SweepExit, Forget
    <2>2. \A j \in DOMAIN clients' : j \in DOMAIN clients /\ clients'[j] = clients[j]
      BY <1>6 DEF SweepShard, SweepExit, Forget, Drop
    <2>3. sweeper' = "sweeping" => sweeper = "sweeping" /\ cutoff' = cutoff
      BY <1>6 DEF SweepShard, SweepExit, Forget
    <2> QED
      BY <2>1, <2>2, <2>3 DEF SweepInv
  <1>7. ASSUME \/ Close \/ UNCHANGED vars
               \/ \E h \in Hosts, s \in Setting : Publish(h, s)
        PROVE  SweepInv'
    <2>1. UNCHANGED <<now, pc, ticket, clients, sweeper, cutoff>>
      BY <1>7 DEF Close, Publish, vars
    <2> QED
      BY <2>1 DEF SweepInv
  <1> QED
    BY <1>1, <1>2, <1>3, <1>4, <1>5, <1>6, <1>7 DEF Next, Request, Reload, Sweeper

\* Whatever the rules Validate accepts, the sweeper gives a client back no more of
\* a burst than the part idleAfter does not earn: a bucket it drops is full or
\* holds at least what an empty one earns in idleAfter, also when a late clock
\* reading had set back the moment its record was last seen.
THEOREM SweepCostsAreBounded == Spec => SweepCostBounded
  <1>1. TypeOK /\ SweepInv /\ [Next]_vars
        => [\A k \in DOMAIN clients \ DOMAIN clients' :
              sweeper = "sweeping" /\ sweeper' = "waiting" /\ config[k[1]] \in RuleSet
              => LET rules == config[k[1]]
                 IN  rules.rps > 0 => Level(clients[k], rules)
                                      >= Least(burstOf(rules) * Second, EarnedIdle(rules))]_vars
    <2> SUFFICES ASSUME TypeOK, SweepInv, [Next]_vars,
                        NEW k \in DOMAIN clients \ DOMAIN clients',
                        sweeper = "sweeping", sweeper' = "waiting", config[k[1]] \in RuleSet
                 PROVE  Level(clients[k], config[k[1]])
                        >= Least(burstOf(config[k[1]]) * Second, EarnedIdle(config[k[1]]))
      OBVIOUS
    <2>1. SweepShard
      BY DEF Next, Tick, Sweeper, SweepBegin, SweepExit, Close, Reload, Forget, Publish,
             Request, Route, Sample, AcquireLimited, AcquireOk, Release, vars
    <2>2. k \in Expired
      BY <2>1 DEF SweepShard, Drop
    <2> DEFINE c == clients[k]
               rules == config[k[1]]
               rest == IdleAfter + 1 - MaxSkew
               full == burstOf(rules) * Second
    <2>3. c \in Client /\ now \in Nat /\ cutoff \in Int /\ IdleAfter \in Nat /\ MaxSkew \in Nat
      BY TimeAssumption DEF TypeOK
    <2>4. c.last \in Nat /\ c.seen \in Nat /\ c.tokens \in Nat
      BY <2>3 DEF Client
    <2>5. c.seen < cutoff /\ cutoff <= now - IdleAfter /\ c.last <= c.seen + MaxSkew
      BY <2>2 DEF Expired, SweepInv
    <2> HIDE DEF c
    <2>6. now - c.last \in Int /\ rest \in Int /\ rest <= now - c.last
      BY <2>3, <2>4, <2>5
    <2>7. rules.rps \in Nat /\ full \in Nat
      BY RulesAssumption, BurstRange, ProductNat, TimeAssumption DEF Rules
    <2>8. EarnedIdle(rules) = rest * rules.rps
      BY DEF EarnedIdle
    <2>9. Level(c, rules) = Least(full, c.tokens + (now - c.last) * rules.rps)
      BY DEF Level
    <2> HIDE DEF rest, rules, full
    <2>10. rest * rules.rps <= (now - c.last) * rules.rps
      <3> DEFINE m == now - c.last
                 rate == rules.rps
      <3>1. m \in Int /\ rest <= m /\ rate \in Nat
        BY <2>6, <2>7
      <3> HIDE DEF m, rate
      <3>2. rest * rate <= m * rate
        BY <2>6, <3>1
      <3> QED
        BY <3>2 DEF m, rate
    <2>11. rest * rules.rps \in Int /\ (now - c.last) * rules.rps \in Int
      BY <2>6, <2>7
    <2>12. Least(full, c.tokens + (now - c.last) * rules.rps) >= Least(full, rest * rules.rps)
      <3> DEFINE x == rest * rules.rps
                 y == (now - c.last) * rules.rps
      <3>1. x \in Int /\ y \in Int /\ x <= y
        BY <2>10, <2>11
      <3> HIDE DEF x, y
      <3>2. Least(full, c.tokens + y) >= Least(full, x)
        BY <2>4, <2>7, <3>1 DEF Least
      <3> QED
        BY <3>2 DEF x, y
    <2>13. Level(c, rules) >= Least(full, EarnedIdle(rules))
      BY <2>8, <2>9, <2>12
    <2> QED
      BY <2>13 DEF c, rules, full
  <1>2. Init => SweepInv
    BY DEF Init, SweepInv
  <1> QED
    BY <1>1, <1>2, TypeCorrect, BucketsOK, SweepStep, PTL DEF Spec, SweepCostBounded
=============================================================================
