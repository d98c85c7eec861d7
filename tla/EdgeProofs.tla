----------------------------- MODULE EdgeProofs -----------------------------
(***************************************************************************)
(* Theorems about parts of the data plane that keep state of their own.    *)
(***************************************************************************)
EXTENDS AuthCache, Telemetry, Alerts, Policy, Selectors, Routing,
        FiniteSetTheorems, SequenceTheorems, WellFoundedInduction, TLAPS

(* The cache of granted credentials. *)

VersionedList ==
    [rules : SUBSET AccessRule, users : SUBSET Credentials, any : BOOLEAN, version : Nat]

Decisions == {"granted", "refused", "needs"}

Visit ==
    [pc : {"lookup", "evaluate", "remember", "done"}, list : VersionedList,
     cred : Credentials \cup {NoCredential}, addr : Addresses, cached : BOOLEAN, at : Nat,
     decision : Decisions \cup {"open"}]

\* r is a grant of credential c under version n of the list: by the list's users,
\* or of one the address was enough for.
Grants(r, n, c) == r.cred = c /\ r.list.version = n /\ (r.cred \in r.list.users \/ r.list.any)

\* What CachedGrantSound asks of a request that passed.
PassedSoundly(t, rs) ==
    \/ t.list.any /\ allowsAddress(t.list, t.addr)
    \/ /\ t.list.any \/ allowsAddress(t.list, t.addr)
       /\ \/ t.list.users = {}
          \/ t.cred \in t.list.users
          \/ \E r \in rs : Grants(r, t.list.version, t.cred) /\ t.at <= r.at + AuthTTL

\* A credential taken as verified is one the cache was entitled to know.
VisitOK(t, rs) ==
    /\ t \in Visit
    /\ t.pc # "lookup" /\ t.cached =>
          \E r \in rs : Grants(r, t.list.version, t.cred) /\ t.at <= r.at + AuthTTL
    /\ t.pc = "remember" => t.cred \in t.list.users \/ t.list.any
    /\ t.pc \in {"remember", "done"} /\ t.decision = "granted" => PassedSoundly(t, rs)

EntryOK(k, until, rs) ==
    \E r \in rs : k = <<r.list.version, r.cred>> /\ Grants(r, r.list.version, r.cred) /\ until = r.at + AuthTTL

AuthInv ==
    /\ clock \in Nat /\ list \in VersionedList
    /\ \A r \in remembered : r.at \in Nat
    /\ visit = [v \in Visits |-> visit[v]]
    /\ \A v \in Visits : visit[v].pc = "new" \/ VisitOK(visit[v], remembered)
    /\ entries = [k \in DOMAIN entries |-> entries[k]]
    /\ \A k \in DOMAIN entries : EntryOK(k, entries[k], remembered)
    /\ IsFiniteSet(DOMAIN entries) /\ Cardinality(DOMAIN entries) <= AuthCacheMax

LEMMA EvaluateMeans ==
    ASSUME NEW l, l.any \in BOOLEAN, NEW a, NEW c, NEW verified \in BOOLEAN
    PROVE  /\ EvaluateAccess(l, a, c, verified) \in Decisions
           /\ EvaluateAccess(l, a, c, verified) = "granted" =>
                \/ l.any /\ allowsAddress(l, a)
                \/ /\ l.any \/ allowsAddress(l, a)
                   /\ l.users = {} \/ verified \/ c \in l.users
<1>1. PICK ok \in BOOLEAN : ok <=> allowsAddress(l, a)
  OBVIOUS
<1>2. allowsAddress(l, a) = ok
  BY <1>1 DEF allowsAddress
<1>3. PICK d : d = EvaluateAccess(l, a, c, verified)
  OBVIOUS
<1>4. d = CASE l.any /\ ok -> "granted"
            [] ~l.any /\ ~ok -> "refused"
            [] l.any # ok /\ l.users = {} -> IF ok THEN "granted" ELSE "refused"
            [] l.any # ok /\ l.users # {} ->
                  IF acceptsCredentials(l, c, verified) THEN "granted" ELSE "needs"
  BY <1>2, <1>3 DEF EvaluateAccess
<1>5. CASE l.any /\ ok
  BY <1>1, <1>3, <1>4, <1>5 DEF Decisions
<1>6. CASE ~l.any /\ ~ok
  BY <1>1, <1>3, <1>4, <1>6 DEF Decisions
<1>7. CASE l.any # ok /\ l.users = {}
  BY <1>1, <1>3, <1>4, <1>7 DEF Decisions
<1>8. CASE l.any # ok /\ l.users # {}
  BY <1>1, <1>3, <1>4, <1>8 DEF Decisions, acceptsCredentials
<1> QED BY <1>5, <1>6, <1>7, <1>8

\* More grants make no request less sound.
LEMMA VisitStays ==
    ASSUME NEW t, NEW rs, NEW more, rs \subseteq more, VisitOK(t, rs)
    PROVE  VisitOK(t, more)
  BY DEF VisitOK, PassedSoundly

VisitsOK(vs, rs) ==
    /\ vs = [v \in Visits |-> vs[v]]
    /\ \A v \in Visits : vs[v].pc = "new" \/ VisitOK(vs[v], rs)

LEMMA VisitMoves ==
    ASSUME NEW vs, NEW rs, NEW more, VisitsOK(vs, rs), rs \subseteq more,
           NEW v \in Visits, NEW t, VisitOK(t, more)
    PROVE  VisitsOK([vs EXCEPT ![v] = t], more)
<1> DEFINE ws == [vs EXCEPT ![v] = t]
<1>1. ws = [w \in Visits |-> ws[w]] /\ ws[v] = t /\ \A w \in Visits : w # v => ws[w] = vs[w]
  BY DEF VisitsOK
<1>2. \A w \in Visits : ws[w].pc = "new" \/ VisitOK(ws[w], more)
  BY <1>1, VisitStays DEF VisitsOK
<1> QED BY <1>1, <1>2 DEF VisitsOK

EntriesOK(es, rs) ==
    /\ es = [k \in DOMAIN es |-> es[k]]
    /\ \A k \in DOMAIN es : EntryOK(k, es[k], rs)
    /\ IsFiniteSet(DOMAIN es) /\ Cardinality(DOMAIN es) <= AuthCacheMax

LEMMA AuthInvParts ==
    AuthInv <=> /\ clock \in Nat /\ list \in VersionedList /\ (\A r \in remembered : r.at \in Nat)
                /\ VisitsOK(visit, remembered) /\ EntriesOK(entries, remembered)
  BY DEF AuthInv, VisitsOK, EntriesOK

LEMMA AuthInitInv == AuthInit => AuthInv
<1> SUFFICES ASSUME AuthInit PROVE AuthInv
  OBVIOUS
<1>1. list \in VersionedList
  BY AuthAssumption DEF AuthInit, VersionedList, AccessList
<1>2. DOMAIN entries = {} /\ entries = [k \in DOMAIN entries |-> entries[k]]
  BY DEF AuthInit
<1>3. IsFiniteSet({}) /\ Cardinality({}) = 0
  BY FS_EmptySet
<1>4. EntriesOK(entries, remembered)
  BY <1>2, <1>3, AuthAssumption DEF EntriesOK
<1>5. VisitsOK(visit, remembered)
  BY DEF AuthInit, VisitsOK
<1> QED BY <1>1, <1>4, <1>5, AuthInvParts DEF AuthInit

LEMMA ArriveStep ==
    ASSUME AuthInv, NEW v \in Visits, NEW c \in Credentials \cup {NoCredential}, NEW a \in Addresses,
           Arrive(v, c, a)
    PROVE  AuthInv'
<1>1. PICK t : t = [pc |-> "lookup", list |-> list, cred |-> c, addr |-> a,
                    cached |-> FALSE, at |-> 0, decision |-> "open"]
  OBVIOUS
<1>2. t \in Visit /\ t.pc = "lookup"
  BY <1>1 DEF AuthInv, Visit
<1>3. VisitOK(t, remembered)
  BY <1>2 DEF VisitOK
<1>4. visit' = [visit EXCEPT ![v] = t] /\ UNCHANGED <<clock, list, entries, remembered>>
  BY <1>1 DEF Arrive
<1>5. VisitsOK(visit', remembered')
  BY <1>3, <1>4, AuthInvParts, VisitMoves
<1> QED BY <1>4, <1>5, AuthInvParts DEF AuthInv, VisitsOK

\* Dropping entries leaves the others sound.
LEMMA KeepOK ==
    ASSUME EntriesOK(entries, remembered), NEW ks, ks \subseteq DOMAIN entries
    PROVE  EntriesOK(Keep(ks), remembered)
<1>1. DOMAIN Keep(ks) = ks /\ \A k \in ks : Keep(ks)[k] = entries[k]
  BY DEF Keep
<1>2. IsFiniteSet(ks) /\ Cardinality(ks) <= AuthCacheMax
  <2>1. IsFiniteSet(DOMAIN entries) /\ Cardinality(DOMAIN entries) <= AuthCacheMax
    BY DEF EntriesOK
  <2>2. IsFiniteSet(ks) /\ Cardinality(ks) <= Cardinality(DOMAIN entries)
    BY <2>1, FS_Subset
  <2>3. Cardinality(ks) \in Nat /\ Cardinality(DOMAIN entries) \in Nat
    BY <2>1, <2>2, FS_CardinalityType
  <2> QED BY <2>1, <2>2, <2>3, AuthAssumption
<1>3. Keep(ks) = [k \in DOMAIN Keep(ks) |-> Keep(ks)[k]]
  BY DEF Keep
<1> QED BY <1>1, <1>2, <1>3 DEF EntriesOK

LEMMA LookUpStep ==
    ASSUME AuthInv, NEW v \in Visits, LookUp(v)
    PROVE  AuthInv'
<1>1. PICK t, k, cached, n :
        /\ t = visit[v] /\ k = makeAuthKey(t.list, t.cred)
        /\ cached = (Consulted(v) /\ k \in Live(clock))
        /\ n = [t EXCEPT !.pc = "evaluate", !.cached = cached, !.at = clock]
  OBVIOUS
<1>2. /\ t.pc = "lookup" /\ visit' = [visit EXCEPT ![v] = n]
      /\ entries' = IF Consulted(v) /\ ~cached THEN Keep(DOMAIN entries \ {k}) ELSE entries
      /\ UNCHANGED <<clock, list, remembered>>
  BY <1>1 DEF LookUp
<1>3. t \in Visit /\ clock \in Nat
  BY <1>1, <1>2 DEF AuthInv, VisitOK
<1>4. cached \in BOOLEAN
  BY <1>1
<1>5. /\ n \in Visit /\ n.pc = "evaluate" /\ n.cached = cached /\ n.at = clock
      /\ n.list = t.list /\ n.cred = t.cred
  BY <1>1, <1>3, <1>4 DEF Visit
<1>6. ASSUME cached
      PROVE  \E r \in remembered : Grants(r, n.list.version, n.cred) /\ n.at <= r.at + AuthTTL
  <2>1. k \in DOMAIN entries /\ clock <= entries[k] /\ k = <<t.list.version, t.cred>>
    BY <1>1, <1>6 DEF Live, makeAuthKey
  <2>2. PICK r \in remembered : /\ k = <<r.list.version, r.cred>>
                                /\ Grants(r, r.list.version, r.cred) /\ entries[k] = r.at + AuthTTL
    BY <2>1 DEF AuthInv, EntryOK
  <2>3. r.list.version = t.list.version /\ r.cred = t.cred
    BY <2>1, <2>2
  <2> QED BY <1>5, <2>1, <2>2, <2>3 DEF Grants
<1>7. VisitOK(n, remembered)
  BY <1>5, <1>6 DEF VisitOK
<1>8. VisitsOK(visit', remembered')
  BY <1>2, <1>7, AuthInvParts, VisitMoves
<1>9. EntriesOK(entries', remembered')
  <2>1. EntriesOK(entries, remembered)
    BY AuthInvParts
  <2>2. EntriesOK(Keep(DOMAIN entries \ {k}), remembered)
    BY <2>1, KeepOK
  <2> QED BY <1>2, <2>1, <2>2
<1> QED BY <1>2, <1>8, <1>9, AuthInvParts DEF AuthInv, VisitsOK, EntriesOK

LEMMA EvaluateStep ==
    ASSUME AuthInv, NEW v \in Visits, Evaluate(v)
    PROVE  AuthInv'
<1>1. PICK t, d, pc, n :
        /\ t = visit[v] /\ d = EvaluateAccess(t.list, t.addr, t.cred, t.cached)
        /\ pc = IF d = "granted" /\ Consulted(v) /\ ~t.cached THEN "remember" ELSE "done"
        /\ n = [t EXCEPT !.decision = d, !.pc = pc]
  OBVIOUS
<1>2. /\ t.pc = "evaluate" /\ visit' = [visit EXCEPT ![v] = n]
      /\ UNCHANGED <<clock, list, entries, remembered>>
  BY <1>1 DEF Evaluate
<1>3. VisitOK(t, remembered) /\ t \in Visit
  BY <1>1, <1>2 DEF AuthInv, VisitOK
<1>4. t.list \in VersionedList /\ t.list.any \in BOOLEAN /\ t.cached \in BOOLEAN
  BY <1>3 DEF Visit, VersionedList
<1>5. /\ d \in Decisions
      /\ d = "granted" => \/ t.list.any /\ allowsAddress(t.list, t.addr)
                          \/ /\ t.list.any \/ allowsAddress(t.list, t.addr)
                             /\ t.list.users = {} \/ t.cached \/ t.cred \in t.list.users
  BY <1>1, <1>4, EvaluateMeans
<1>6. pc \in {"remember", "done"}
  BY <1>1
<1>7. /\ n \in Visit /\ n.pc = pc /\ n.decision = d /\ n.cached = t.cached /\ n.at = t.at
      /\ n.list = t.list /\ n.cred = t.cred /\ n.addr = t.addr
  BY <1>1, <1>3, <1>5, <1>6 DEF Visit
<1>8. t.cached => \E r \in remembered : Grants(r, t.list.version, t.cred) /\ t.at <= r.at + AuthTTL
  BY <1>2, <1>3 DEF VisitOK
<1>9. pc = "remember" => t.cred \in t.list.users \/ t.list.any
  BY <1>1, <1>5 DEF Consulted
<1>10. d = "granted" => PassedSoundly(n, remembered)
  BY <1>5, <1>7, <1>8 DEF PassedSoundly
<1>11. VisitOK(n, remembered)
  BY <1>7, <1>8, <1>9, <1>10 DEF VisitOK
<1>12. VisitsOK(visit', remembered')
  BY <1>2, <1>11, AuthInvParts, VisitMoves
<1> QED BY <1>2, <1>12, AuthInvParts DEF AuthInv, VisitsOK

LEMMA RememberStep ==
    ASSUME AuthInv, NEW v \in Visits, Remember(v)
    PROVE  AuthInv'
<1>1. PICK t, k, g, n : /\ t = visit[v] /\ k = makeAuthKey(t.list, t.cred)
                        /\ g = [list |-> t.list, cred |-> t.cred, at |-> clock]
                        /\ n = [t EXCEPT !.pc = "done"]
  OBVIOUS
<1>2. /\ t.pc = "remember" /\ visit' = [visit EXCEPT ![v] = n]
      /\ entries' = [j \in Roomy \cup {k} |-> IF j = k THEN clock + AuthTTL ELSE entries[j]]
      /\ remembered' = remembered \cup {g}
      /\ UNCHANGED <<clock, list>>
  BY <1>1 DEF Remember
<1>3. VisitOK(t, remembered) /\ t \in Visit /\ clock \in Nat
  BY <1>1, <1>2 DEF AuthInv, VisitOK
<1>4. VisitOK(n, remembered')
  <2>1. /\ n \in Visit /\ n.pc = "done" /\ n.decision = t.decision /\ n.cached = t.cached
        /\ n.at = t.at /\ n.list = t.list /\ n.cred = t.cred /\ n.addr = t.addr
    BY <1>1, <1>3 DEF Visit
  <2>2. VisitOK(n, remembered)
    BY <1>2, <1>3, <2>1 DEF VisitOK, PassedSoundly
  <2> QED BY <1>2, <2>2, VisitStays
<1>5. VisitsOK(visit', remembered')
  BY <1>2, <1>4, AuthInvParts, VisitMoves
<1>6. /\ g.list = t.list /\ g.cred = t.cred /\ g.at = clock /\ k = <<g.list.version, g.cred>>
      /\ Grants(g, g.list.version, g.cred)
  BY <1>1, <1>2, <1>3 DEF makeAuthKey, Grants, VisitOK
<1>7. Roomy \subseteq DOMAIN entries /\ IsFiniteSet(Roomy) /\ Cardinality(Roomy) + 1 <= AuthCacheMax
  <2>1. Roomy \subseteq DOMAIN entries
    BY DEF Roomy, Live
  <2>2. IsFiniteSet(Roomy) /\ Cardinality(Roomy) \in Nat
    BY <2>1, FS_Subset, FS_CardinalityType DEF AuthInv
  <2>3. Cardinality({}) = 0
    BY FS_EmptySet
  <2>4. Cardinality(Roomy) < AuthCacheMax
    BY <2>3, AuthAssumption DEF Roomy
  <2> QED BY <2>1, <2>2, <2>4, AuthAssumption
<1>8. EntriesOK(entries', remembered')
  <2>1. DOMAIN entries' = Roomy \cup {k} /\ entries' = [j \in DOMAIN entries' |-> entries'[j]]
    BY <1>2
  <2>2. IsFiniteSet(Roomy \cup {k}) /\ Cardinality(Roomy \cup {k}) <= AuthCacheMax
    <3>1. Cardinality(Roomy) \in Nat /\ IsFiniteSet(Roomy \cup {k})
          /\ (Cardinality(Roomy \cup {k}) = Cardinality(Roomy) \/ Cardinality(Roomy \cup {k}) = Cardinality(Roomy) + 1)
      BY <1>7, FS_AddElement, FS_CardinalityType
    <3> QED BY <1>7, <3>1, AuthAssumption
  <2>3. ASSUME NEW j \in Roomy \cup {k} PROVE EntryOK(j, entries'[j], remembered')
    <3>1. CASE j = k
      BY <1>2, <1>6, <3>1 DEF EntryOK
    <3>2. CASE j # k
      <4>1. j \in DOMAIN entries /\ entries'[j] = entries[j]
        BY <1>2, <1>7, <2>3, <3>2
      <4> QED BY <1>2, <4>1 DEF AuthInv, EntryOK
    <3> QED BY <3>1, <3>2
  <2> QED BY <2>1, <2>2, <2>3 DEF EntriesOK
<1>9. \A r \in remembered' : r.at \in Nat
  BY <1>2, <1>3, <1>6 DEF AuthInv
<1>10. clock' \in Nat /\ list' \in VersionedList
  BY <1>2 DEF AuthInv
<1> QED BY <1>5, <1>8, <1>9, <1>10, AuthInvParts DEF AuthInv, VisitsOK, EntriesOK

LEMMA AuthNextInv == AuthInv /\ [AuthNext]_authVars => AuthInv'
<1> SUFFICES ASSUME AuthInv, [AuthNext]_authVars PROVE AuthInv'
  OBVIOUS
<1>1. ASSUME NEW v \in Visits, NEW c \in Credentials \cup {NoCredential}, NEW a \in Addresses,
             Arrive(v, c, a)
      PROVE  AuthInv'
  BY <1>1, ArriveStep
<1>2. ASSUME NEW v \in Visits, LookUp(v) PROVE AuthInv'
  BY <1>2, LookUpStep
<1>3. ASSUME NEW v \in Visits, Evaluate(v) PROVE AuthInv'
  BY <1>3, EvaluateStep
<1>4. ASSUME NEW v \in Visits, Remember(v) PROVE AuthInv'
  BY <1>4, RememberStep
<1>5. ASSUME NEW l \in Lists, StoreList(l) PROVE AuthInv'
  <2>1. clock \div Second \in Nat
    BY AuthAssumption DEF AuthInv
  <2>2. list' \in VersionedList
    BY <1>5, <2>1, AuthAssumption DEF StoreList, VersionedList, AccessList
  <2> QED BY <1>5, <2>2 DEF StoreList, AuthInv
<1>6. CASE AuthTick
  BY <1>6 DEF AuthTick, AuthInv
<1>7. CASE UNCHANGED authVars
  BY <1>7 DEF authVars, AuthInv
<1> QED BY <1>1, <1>2, <1>3, <1>4, <1>5, <1>6, <1>7 DEF AuthNext

\* Who passes by password is one of the list's users, or was granted under this
\* version of the list within authTTL, and the cache stays within authCacheMax,
\* for any visitors, lists and edits between a request's look-up, its comparison
\* and its entry (access.go enforceAccess, authcache.go granted and remember).
THEOREM CachedGrantsAreSound == AuthSpec => []CachedGrantSound
<1>1. AuthInv => CachedGrantSound
  <2> SUFFICES ASSUME AuthInv PROVE CachedGrantSound
    OBVIOUS
  <2>1. ASSUME NEW v \in Passed PROVE PassedSoundly(visit[v], remembered)
    <3>1. v \in Visits /\ visit[v].pc = "done" /\ visit[v].decision = "granted"
      BY DEF Passed
    <3> QED BY <3>1 DEF AuthInv, VisitOK
  <2> QED BY <2>1 DEF CachedGrantSound, PassedSoundly, Grants, AuthInv
<1> QED BY <1>1, AuthInitInv, AuthNextInv, PTL DEF AuthSpec

-----------------------------------------------------------------------------
(* The access log. *)

WriterState == [pc : {"select", "flushing", "done"}, batch : Nat, final : BOOLEAN]
LogState == [queued : Nat, written : Nat, dropped : Nat]

\* The entries are accounted for, w being the writer and l the log, with rec
\* recorded and late of them after the last drain: a batch is full only on its way
\* to the store, and only what came too late stays behind.
LogOK(w, l, rec, late) ==
    /\ w \in WriterState /\ l \in LogState /\ rec \in Nat /\ late \in Nat
    /\ rec = l.queued + w.batch + l.written + l.dropped
    /\ l.queued <= BufferSize
    /\ w.pc = "select" => ~w.final /\ w.batch < BatchSize
    /\ w.pc = "flushing" /\ ~w.final => w.batch <= BatchSize
    /\ w.pc = "done" => w.final /\ w.batch = 0
    /\ IF w.final THEN l.queued = late ELSE late = 0

\* The inductive invariant behind EntriesAccounted.
LogInv ==
    /\ DOMAIN past = {"recorded", "late", "lost", "skipped", "overlapped", "after",
                    "broken"}
    /\ LogOK(writer, log, past.recorded, past.late)

\* A step that keeps the writer, the log and the two counts.
SameLog == UNCHANGED <<writer, log>> /\ DOMAIN past' = DOMAIN past
           /\ past'.recorded = past.recorded /\ past'.late = past.late

LEMMA SameLogOK == ASSUME LogInv, SameLog PROVE LogInv'
  BY DEF LogInv, SameLog

LEMMA RecordEntryOK ==
  ASSUME LogInv, NEW r \in Hits, RecordEntry(r)
  PROVE  LogInv'
  <1> DEFINE fits == log.queued < BufferSize
  <1>1. LogOK(writer, log, past.recorded, past.late)
    BY DEF LogInv
  <1>2. /\ log \in LogState /\ writer \in WriterState /\ past.recorded \in Nat /\ past.late \in Nat
        /\ BufferSize \in Nat
    BY <1>1, TelemetryAssumption DEF LogOK
  <1>3. /\ DOMAIN past' = DOMAIN past
        /\ past'.recorded = past.recorded + 1
        /\ past'.late = IF fits /\ writer.final THEN past.late + 1 ELSE past.late
    BY DEF RecordEntry, LogInv
  <1>4. /\ writer' = writer
        /\ log' = IF fits THEN [log EXCEPT !.queued = @ + 1] ELSE [log EXCEPT !.dropped = @ + 1]
    BY DEF RecordEntry
  <1>5. CASE fits
    <2>1. log' \in LogState /\ log'.queued = log.queued + 1
          /\ log'.written = log.written /\ log'.dropped = log.dropped
      BY <1>2, <1>4, <1>5 DEF LogState
    <2> QED
      BY <1>1, <1>2, <1>3, <1>4, <1>5, <2>1 DEF LogInv, LogOK, LogState, WriterState
  <1>6. CASE ~fits
    <2>1. log' \in LogState /\ log'.queued = log.queued
          /\ log'.written = log.written /\ log'.dropped = log.dropped + 1
      BY <1>2, <1>4, <1>6 DEF LogState
    <2> QED
      BY <1>1, <1>2, <1>3, <1>4, <1>6, <2>1 DEF LogInv, LogOK, LogState, WriterState
  <1> QED
    BY <1>5, <1>6

LEMMA WriterStepOK ==
  ASSUME LogInv, WriterStep
  PROVE  LogInv'
  <1>1. LogOK(writer, log, past.recorded, past.late)
    BY DEF LogInv
  <1>2. /\ log \in LogState /\ writer \in WriterState /\ past.recorded \in Nat /\ past.late \in Nat
        /\ BatchSize \in Nat \ {0} /\ BufferSize \in Nat
    BY <1>1, TelemetryAssumption DEF LogOK
  <1>3. past' = past
    BY DEF WriterStep, Take, FlushTick, Drain, WriteBatch
  <1>4. CASE Take
    <2>1. /\ writer.pc = "select" /\ log.queued > 0
          /\ log' = [log EXCEPT !.queued = @ - 1]
          /\ writer' = [writer EXCEPT !.batch = @ + 1,
                                      !.pc = IF writer.batch + 1 >= BatchSize THEN "flushing" ELSE "select"]
      BY <1>4 DEF Take
    <2>2. log' \in LogState /\ log'.queued = log.queued - 1
          /\ log'.written = log.written /\ log'.dropped = log.dropped
      BY <1>2, <2>1 DEF LogState
    <2>3. writer' \in WriterState /\ writer'.batch = writer.batch + 1 /\ writer'.final = writer.final
          /\ writer'.pc = (IF writer.batch + 1 >= BatchSize THEN "flushing" ELSE "select")
      <3> DEFINE p == IF writer.batch + 1 >= BatchSize THEN "flushing" ELSE "select"
      <3>1. p \in {"select", "flushing", "done"} /\ writer.batch + 1 \in Nat
        BY <1>2 DEF WriterState
      <3>2. writer' = [writer EXCEPT !.batch = writer.batch + 1, !.pc = p]
        BY <2>1
      <3> HIDE DEF p
      <3>3. writer' \in WriterState /\ writer'.batch = writer.batch + 1
            /\ writer'.final = writer.final /\ writer'.pc = p
        BY <1>2, <3>1, <3>2 DEF WriterState
      <3> QED
        BY <3>3 DEF p
    <2>4. ~writer.final /\ writer.batch < BatchSize
      BY <1>1, <2>1 DEF LogOK
    <2> QED
      BY <1>1, <1>2, <1>3, <2>2, <2>3, <2>4 DEF LogInv, LogOK, LogState, WriterState
  <1>5. CASE FlushTick
    <2>1. writer.pc = "select" /\ log' = log /\ writer' = [writer EXCEPT !.pc = "flushing"]
      BY <1>5 DEF FlushTick
    <2>2. writer' \in WriterState /\ writer'.batch = writer.batch /\ writer'.final = writer.final
          /\ writer'.pc = "flushing"
      BY <1>2, <2>1 DEF WriterState
    <2>3. ~writer.final /\ writer.batch < BatchSize
      BY <1>1, <2>1 DEF LogOK
    <2> QED
      BY <1>1, <1>2, <1>3, <2>1, <2>2, <2>3 DEF LogInv, LogOK, LogState, WriterState
  <1>6. CASE Drain
    <2>1. /\ writer.pc = "select" /\ log' = [log EXCEPT !.queued = 0]
          /\ writer' = [pc |-> "flushing", batch |-> writer.batch + log.queued, final |-> TRUE]
      BY <1>6 DEF Drain
    <2>2. log' \in LogState /\ log'.queued = 0
          /\ log'.written = log.written /\ log'.dropped = log.dropped
      BY <1>2, <2>1 DEF LogState
    <2>3. writer' \in WriterState /\ writer'.batch = writer.batch + log.queued /\ writer'.final
          /\ writer'.pc = "flushing"
      BY <1>2, <2>1 DEF WriterState, LogState
    <2>4. ~writer.final
      BY <1>1, <2>1 DEF LogOK
    <2> QED
      BY <1>1, <1>2, <1>3, <2>2, <2>3, <2>4 DEF LogInv, LogOK, LogState, WriterState
  <1>7. ASSUME NEW ok \in BOOLEAN, WriteBatch(ok) PROVE LogInv'
    <2>1. /\ writer.pc = "flushing"
          /\ writer' = [Select(writer) EXCEPT !.batch = 0]
          /\ \/ log' = [log EXCEPT !.written = @ + writer.batch]
             \/ log' = [log EXCEPT !.dropped = @ + writer.batch]
      BY <1>7 DEF WriteBatch
    <2>2. /\ log' \in LogState /\ log'.queued = log.queued
          /\ log'.written + log'.dropped = log.written + log.dropped + writer.batch
      BY <1>2, <2>1 DEF LogState, WriterState
    <2>3. writer' \in WriterState /\ writer'.batch = 0 /\ writer'.final = writer.final
          /\ writer'.pc = (IF writer.final THEN "done" ELSE "select")
      BY <1>2, <2>1 DEF WriterState, Select
    <2> QED
      BY <1>1, <1>2, <1>3, <2>2, <2>3 DEF LogInv, LogOK, LogState, WriterState
  <1> QED
    BY <1>4, <1>5, <1>6, <1>7 DEF WriterStep

\* Steps of the requests, of the flusher and of the shutdown keep the log.
LEMMA OtherStepsKeepLog ==
  ASSUME LogInv,
         \/ \E r \in Hits : \/ Begin(r) \/ AnswerBreaks(r) \/ RecordFind(r) \/ RecordRequest(r)
                            \/ RecordBytes(r) \/ RecordNoEntry(r) \/ End(r)
         \/ Forget \/ FlusherStep \/ \E t \in Tasks : TaskStops(t)
         \/ Signal \/ ListenerFails \/ Shutdown \/ Drained \/ ShutdownDeadline \/ Wait
         \/ UNCHANGED telemetryVars
  PROVE  LogInv'
  <1>1. SameLog
    BY DEF LogInv, SameLog, Begin, AnswerBreaks, TaskStops, RecordFind, RecordRequest, RecordBytes, RecordNoEntry, End, Forget,
           FlusherStep, FlushBegin, FlushRead, FlushWrite, Signal, ListenerFails, Shutdown, Drained,
           ShutdownDeadline, Wait, Goto, telemetryVars
  <1> QED
    BY <1>1, SameLogOK

\* Every access log entry is accounted for at every moment, through overflows,
\* failed writes and a shutdown, for any buffer and batch size.
THEOREM EntriesAreAccounted == TelemetrySpec => []EntriesAccounted
  <1>1. TelemetryInit => LogInv
    BY TelemetryAssumption DEF TelemetryInit, LogInv, LogOK, WriterState, LogState
  <1>2. LogInv /\ [TelemetryNext]_telemetryVars => LogInv'
    BY RecordEntryOK, WriterStepOK, OtherStepsKeepLog DEF TelemetryNext
  <1>3. LogInv => EntriesAccounted
    <2> SUFFICES ASSUME LogInv PROVE EntriesAccounted
      OBVIOUS
    <2>1. LogOK(writer, log, past.recorded, past.late)
      BY DEF LogInv
    <2>2. writer.pc \in {"select", "flushing", "done"} /\ writer.batch \in Nat
          /\ writer.final \in BOOLEAN /\ BatchSize \in Nat
      BY <2>1, TelemetryAssumption DEF LogOK, WriterState
    <2>3. writer.final \/ writer.batch <= BatchSize
      BY <2>1, <2>2 DEF LogOK
    <2>4. writer.pc = "done" => writer.batch = 0 /\ log.queued = past.late
      BY <2>1, <2>2 DEF LogOK
    <2>5. /\ past.recorded = log.queued + writer.batch + log.written + log.dropped
          /\ log.queued <= BufferSize
      BY <2>1 DEF LogOK
    <2> QED
      BY <2>3, <2>4, <2>5 DEF EntriesAccounted
  <1> QED
    BY <1>1, <1>2, <1>3, PTL DEF TelemetrySpec

-----------------------------------------------------------------------------
(* The alert dispatcher. *)

Topics == Subjects \cup {Usage}
ChannelList == [1 .. Channels -> Channel]
Moments == Nat \cup {Never}
Reading == {<<"idle">>, <<"list">>, <<"done">>} \cup ({"store"} \X ChannelList)

Delivering ==
    [pc : {"channel", "post"}, about : Topics, channels : ChannelList, at : Nat,
     next : 1 .. Channels, attempt : Nat]

DispatcherType ==
    /\ tick \in Nat
    /\ stored \in ChannelList /\ loaded \in ChannelList
    /\ reading \in [Reloaders -> Reading]
    /\ queue \in Seq(Topics)
    /\ delivery = Resting \/ delivery \in Delivering
    /\ throttle \in [Keys -> Moments] /\ lastTold \in [Keys -> Moments]

\* What the throttle has of a key against what was last told, when the alert at
\* hand came at moment t: they are the same, or the sweep has forgotten a
\* moment more than a day before.
Remembers(noted, told, t) == noted = told \/ (noted = Never /\ told < t - Day)

\* The moment deliver compares with.
Moment == IF delivery = Resting THEN tick ELSE delivery.at

\* The inductive invariant behind ThrottleHolds.
DispatcherInv ==
    /\ DispatcherType
    /\ Moment <= tick
    /\ \A k \in Keys : Remembers(throttle[k], lastTold[k], Moment)

LEMMA RemembersLater ==
  ASSUME NEW noted \in Moments, NEW told \in Moments, NEW t \in Nat, NEW u \in Nat, t <= u,
         Remembers(noted, told, t)
  PROVE  Remembers(noted, told, u)
  BY AlertsAssumption DEF Remembers, Moments, Never

\* The throttle decides as the history would.
LEMMA ThrottleDecides ==
  ASSUME DispatcherInv, delivery.pc = "channel"
  PROVE  LET c == delivery.next
             last == lastTold[<<c, delivery.about>>]
         IN  Throttled(c, delivery)
                <=> last # Never /\ delivery.at - last < delivery.channels[c].interval
  <1> DEFINE c == delivery.next
             k == <<c, delivery.about>>
  <1>1. delivery \in Delivering /\ delivery # Resting
    BY DEF DispatcherInv, DispatcherType, Resting
  <1>2. c \in 1 .. Channels /\ k \in Keys /\ delivery.at \in Nat /\ delivery.channels[c] \in Channel
    BY <1>1 DEF Delivering, Keys, Topics, ChannelList
  <1>3. delivery.channels[c].interval \in 1 .. Day /\ Day \in Nat
    BY <1>2, AlertsAssumption DEF Channel
  <1>4. throttle[k] \in Moments /\ lastTold[k] \in Moments
        /\ Remembers(throttle[k], lastTold[k], delivery.at)
    BY <1>1, <1>2 DEF DispatcherInv, DispatcherType, Moment
  <1>5. Throttled(c, delivery)
           <=> throttle[k] # Never /\ delivery.at - throttle[k] < delivery.channels[c].interval
    BY DEF Throttled, throttleKey
  <1> HIDE DEF c, k
  <1> QED
    BY <1>2, <1>3, <1>4, <1>5 DEF Remembers, Moments, Never, c, k

\* An alert in hand stays one, with its moment, or is done with.
LEMMA NextChannelType ==
  ASSUME NEW d \in Delivering
  PROVE  \/ NextChannel(d) = Resting
         \/ NextChannel(d) \in Delivering /\ NextChannel(d).at = d.at
  <1>1. d.next \in Nat /\ Channels \in Nat
    BY AlertsAssumption DEF Delivering
  <1>2. CASE d.next < Channels
    <2>1. d.next + 1 \in 1 .. Channels
      BY <1>1, <1>2
    <2>2. NextChannel(d) = [d EXCEPT !.pc = "channel", !.next = d.next + 1, !.attempt = 0]
      BY <1>2 DEF NextChannel
    <2> DEFINE n == d.next + 1
    <2>3. n \in 1 .. Channels /\ NextChannel(d) = [d EXCEPT !.pc = "channel", !.next = n, !.attempt = 0]
      BY <2>1, <2>2
    <2> HIDE DEF n
    <2> DEFINE e == [d EXCEPT !.pc = "channel", !.next = n, !.attempt = 0]
    <2>4. NextChannel(d) \in Delivering
      <3>1. d \in [pc : {"channel", "post"}, about : Topics, channels : ChannelList, at : Nat,
                   next : 1 .. Channels, attempt : Nat]
        BY DEF Delivering
      <3>2. e \in [pc : {"channel", "post"}, about : Topics, channels : ChannelList, at : Nat,
                   next : 1 .. Channels, attempt : Nat]
        BY <2>3, <3>1
      <3> QED
        BY <2>3, <3>2 DEF Delivering
    <2>5. NextChannel(d).at = d.at
      BY <2>3 DEF Delivering
    <2> QED
      BY <2>4, <2>5
  <1>3. CASE ~(d.next < Channels)
    BY <1>3 DEF NextChannel
  <1> QED
    BY <1>2, <1>3

\* A step that keeps the history and the throttle and moves the moment forward.
LEMMA MomentMoves ==
  ASSUME DispatcherInv, DispatcherType', UNCHANGED <<throttle, lastTold>>,
         Moment' \in Nat, Moment <= Moment', Moment' <= tick'
  PROVE  DispatcherInv'
  <1>1. Moment \in Nat
    BY DEF DispatcherInv, DispatcherType, Moment, Delivering
  <1>2. \A k \in Keys : throttle[k] \in Moments /\ lastTold[k] \in Moments
                        /\ Remembers(throttle[k], lastTold[k], Moment)
    BY DEF DispatcherInv, DispatcherType
  <1> DEFINE u == Moment'
  <1>3. u \in Nat /\ Moment <= u
    OBVIOUS
  <1> HIDE DEF u
  <1>4. \A k \in Keys : Remembers(throttle[k], lastTold[k], u)
    BY <1>1, <1>2, <1>3, RemembersLater
  <1>5. \A k \in Keys : Remembers(throttle'[k], lastTold'[k], Moment')
    BY <1>4 DEF u
  <1> QED
    BY <1>5 DEF DispatcherInv

LEMMA DispatcherStep == DispatcherInv /\ [AlertsNext]_alertVars => DispatcherInv'
  <1> SUFFICES ASSUME DispatcherInv, [AlertsNext]_alertVars PROVE DispatcherInv'
    OBVIOUS
  <1>0. /\ DispatcherType /\ Moment <= tick /\ Moment \in Nat
        /\ tick \in Nat
    BY DEF DispatcherInv, DispatcherType, Moment, Delivering
  <1>1. ASSUME \/ \E s \in Subjects : Raise(s)
               \/ Check \/ Traffic
        PROVE  DispatcherInv'
    <2>1. UNCHANGED <<tick, stored, reading, loaded, delivery, throttle, lastTold>>
      BY <1>1 DEF Raise, Check, Traffic
    <2>2. queue' \in Seq(Topics)
      <3>1. queue \in Seq(Topics) /\ Usage \in Topics
        BY <1>0 DEF DispatcherType, Topics
      <3>2. ASSUME NEW s \in Topics PROVE Queued(s) \in Seq(Topics)
        BY <3>1, <3>2 DEF Queued
      <3>3. \/ queue' = queue
            \/ \E s \in Topics : queue' = Queued(s)
        BY <1>1, <3>1 DEF Raise, Check, Traffic, Topics
      <3> QED
        BY <3>1, <3>2, <3>3
    <2>3. DispatcherType'
      BY <1>0, <2>1, <2>2 DEF DispatcherType
    <2>4. Moment' = Moment /\ tick' = tick
      BY <2>1 DEF Moment
    <2> QED
      BY <1>0, <2>1, <2>3, <2>4, MomentMoves
  <1>2. ASSUME \/ \E a \in Admins, c \in 1 .. Channels, new \in Channel : EditChannel(a, c, new)
               \/ \E x \in Reloaders : ReloadList(x) \/ ReloadStore(x)
        PROVE  DispatcherInv'
    <2>1. UNCHANGED <<tick, queue, delivery, throttle, lastTold>>
      BY <1>2 DEF EditChannel, ReloadList, ReloadStore
    <2>2. stored' \in ChannelList
      BY <1>0, <1>2 DEF EditChannel, ReloadList, ReloadStore, ChannelList, DispatcherType
    <2>3. reading' \in [Reloaders -> Reading]
      <3>1. <<"idle">> \in Reading /\ <<"done">> \in Reading /\ <<"list">> \in Reading
        BY DEF Reading
      <3>2. <<"store", stored>> \in Reading
        BY <1>0 DEF Reading, DispatcherType
      <3>3. ASSUME NEW a \in Admins, NEW c \in 1 .. Channels, NEW new \in Channel, EditChannel(a, c, new)
            PROVE  reading' \in [Reloaders -> Reading]
        BY <1>0, <3>1, <3>3 DEF EditChannel, DispatcherType
      <3>4. ASSUME NEW x \in Reloaders, ReloadList(x)
            PROVE  reading' \in [Reloaders -> Reading]
        BY <1>0, <3>2, <3>4 DEF ReloadList, DispatcherType
      <3>5. ASSUME NEW x \in Reloaders, ReloadStore(x)
            PROVE  reading' \in [Reloaders -> Reading]
        <4>1. PICK y \in Reading : reading' = [reading EXCEPT ![x] = y]
          <5>1. CASE x = "run"
            BY <3>1, <3>5, <5>1 DEF ReloadStore
          <5>2. CASE x # "run"
            BY <3>1, <3>5, <5>2 DEF ReloadStore
          <5> QED
            BY <5>1, <5>2
        <4> QED
          BY <1>0, <4>1 DEF DispatcherType
      <3> QED
        BY <1>2, <3>3, <3>4, <3>5
    <2>4. loaded' \in ChannelList
      <3>1. ASSUME NEW x \in Reloaders, ReloadStore(x) PROVE loaded' \in ChannelList
        <4>1. reading[x] \in Reading /\ Len(reading[x]) = 2 /\ loaded' = reading[x][2]
          BY <1>0, <3>1 DEF ReloadStore, DispatcherType
        <4>2. reading[x] \in {"store"} \X ChannelList
          BY <4>1 DEF Reading
        <4> QED
          BY <4>1, <4>2
      <3> QED
        BY <1>0, <1>2, <3>1 DEF EditChannel, ReloadList, DispatcherType
    <2>5. DispatcherType'
      BY <1>0, <2>1, <2>2, <2>3, <2>4 DEF DispatcherType
    <2>6. Moment' = Moment /\ tick' = tick
      BY <2>1 DEF Moment
    <2> QED
      BY <1>0, <2>1, <2>5, <2>6, MomentMoves
  <1>3. CASE Deliver
    <2>1. /\ UNCHANGED <<tick, stored, reading, loaded, throttle, lastTold>>
          /\ delivery.pc = "select" /\ queue # <<>> /\ queue' = Tail(queue)
          /\ delivery' = [Resting EXCEPT !.pc = "channel", !.about = Head(queue),
                                         !.channels = loaded, !.at = tick]
      BY <1>3 DEF Deliver, RunFree
    <2>2. delivery = Resting
      BY <1>0, <2>1 DEF DispatcherType, Delivering
    <2>3. Head(queue) \in Topics /\ queue' \in Seq(Topics)
      BY <1>0, <2>1 DEF DispatcherType
    <2>4. delivery' \in Delivering /\ delivery'.at = tick /\ delivery' # Resting
      <3>1. delivery' = [pc |-> "channel", about |-> Head(queue), channels |-> loaded, at |-> tick,
                         next |-> 1, attempt |-> 0]
        BY <2>1 DEF Resting
      <3>2. loaded \in ChannelList /\ 1 \in 1 .. Channels
        BY <1>0, AlertsAssumption DEF DispatcherType
      <3>3. delivery' \in Delivering
        BY <1>0, <2>3, <3>1, <3>2 DEF Delivering
      <3>4. delivery'.at = tick /\ delivery'.pc = "channel" /\ Resting.pc = "select"
        BY <3>1 DEF Resting
      <3> QED
        BY <3>3, <3>4
    <2>5. DispatcherType'
      BY <1>0, <2>1, <2>3, <2>4 DEF DispatcherType
    <2>6. Moment' = tick /\ tick' = tick /\ Moment = tick
      BY <2>1, <2>2, <2>4 DEF Moment
    <2> QED
      BY <1>0, <2>1, <2>5, <2>6, MomentMoves
  <1>4. ASSUME Skip \/ \E ok \in BOOLEAN : Post(ok) PROVE DispatcherInv'
    <2>1. /\ UNCHANGED <<tick, stored, reading, loaded, queue, throttle, lastTold>>
          /\ delivery.pc \in {"channel", "post"}
          /\ delivery' = NextChannel(delivery) \/ delivery' = [delivery EXCEPT !.attempt = @ + 1]
      BY <1>4 DEF Skip, Post
    <2>2. delivery \in Delivering /\ delivery # Resting
      BY <1>0, <2>1 DEF DispatcherType, Resting
    <2>3. delivery' = Resting \/ (delivery' \in Delivering /\ delivery'.at = delivery.at)
      <3>1. [delivery EXCEPT !.attempt = @ + 1] \in Delivering
            /\ [delivery EXCEPT !.attempt = @ + 1].at = delivery.at
        BY <2>2 DEF Delivering
      <3> QED
        BY <2>1, <2>2, <3>1, NextChannelType
    <2>4. DispatcherType'
      BY <1>0, <2>1, <2>3 DEF DispatcherType
    <2>5. Moment = delivery.at /\ (Moment' = tick \/ Moment' = delivery.at) /\ tick' = tick
      BY <2>1, <2>2, <2>3 DEF Moment
    <2> QED
      BY <1>0, <2>1, <2>4, <2>5, MomentMoves
  <1>5. CASE Admit
    <2> DEFINE j == <<delivery.next, delivery.about>>
    <2>1. /\ UNCHANGED <<tick, stored, reading, loaded, queue>>
          /\ delivery.pc = "channel"
          /\ delivery' = [delivery EXCEPT !.pc = "post"]
          /\ throttle' = [throttle EXCEPT ![j] = delivery.at]
          /\ lastTold' = [lastTold EXCEPT ![j] = delivery.at]
      BY <1>5 DEF Admit, throttleKey
    <2>2. delivery \in Delivering /\ delivery # Resting
      BY <1>0, <2>1 DEF DispatcherType, Resting
    <2>3. j \in Keys /\ delivery.at \in Moments
      BY <2>2 DEF Delivering, Keys, Topics, Moments
    <2>4. delivery' \in Delivering /\ delivery'.at = delivery.at /\ delivery' # Resting
      BY <2>1, <2>2 DEF Delivering, Resting
    <2> HIDE DEF j
    <2>5. DispatcherType'
      BY <1>0, <2>1, <2>3, <2>4 DEF DispatcherType
    <2>6. Moment' = Moment
      BY <2>1, <2>2, <2>4 DEF Moment
    <2>7. \A k \in Keys : Remembers(throttle'[k], lastTold'[k], Moment)
      <3>1. ASSUME NEW k \in Keys PROVE Remembers(throttle'[k], lastTold'[k], Moment)
        <4>1. Remembers(throttle[k], lastTold[k], Moment)
          BY DEF DispatcherInv
        <4>2. \/ throttle'[k] = throttle[k] /\ lastTold'[k] = lastTold[k]
              \/ throttle'[k] = lastTold'[k]
          BY <1>0, <2>1, <2>3 DEF DispatcherType
        <4> QED
          BY <4>1, <4>2 DEF Remembers
      <3> QED
        BY <3>1
    <2> QED
      BY <1>0, <2>1, <2>5, <2>6, <2>7 DEF DispatcherInv
  <1>6. CASE sweepThrottle
    <2>1. /\ UNCHANGED <<tick, stored, reading, loaded, queue, delivery, lastTold>>
          /\ delivery.pc = "select"
          /\ throttle' = [k \in Keys |-> IF throttle[k] < tick - Day THEN Never ELSE throttle[k]]
      BY <1>6 DEF sweepThrottle, RunFree
    <2>2. delivery = Resting
      BY <1>0, <2>1 DEF DispatcherType, Delivering
    <2>3. throttle' \in [Keys -> Moments]
      BY <1>0, <2>1 DEF DispatcherType, Moments
    <2>4. DispatcherType'
      BY <1>0, <2>1, <2>3 DEF DispatcherType
    <2>5. Moment = tick /\ Moment' = tick
      BY <2>1, <2>2 DEF Moment
    <2>6. \A k \in Keys : Remembers(throttle'[k], lastTold[k], tick)
      <3>1. ASSUME NEW k \in Keys PROVE Remembers(throttle'[k], lastTold[k], tick)
        <4>1. Remembers(throttle[k], lastTold[k], tick)
          BY <2>5 DEF DispatcherInv
        <4>2. throttle'[k] = IF throttle[k] < tick - Day THEN Never ELSE throttle[k]
          BY <2>1
        <4> QED
          BY <4>1, <4>2 DEF Remembers
      <3> QED
        BY <3>1
    <2> QED
      BY <1>0, <2>1, <2>4, <2>5, <2>6 DEF DispatcherInv
  <1>7. CASE AlertsTick
    <2>1. UNCHANGED <<stored, reading, loaded, queue, delivery, throttle, lastTold>> /\ tick' = tick + 1
      BY <1>7 DEF AlertsTick
    <2>2. DispatcherType'
      BY <1>0, <2>1 DEF DispatcherType
    <2>3. Moment' \in Nat /\ Moment <= Moment' /\ Moment' <= tick'
      BY <1>0, <2>1 DEF Moment
    <2> QED
      BY <2>1, <2>2, <2>3, MomentMoves
  <1>8. CASE UNCHANGED alertVars
    BY <1>8 DEF alertVars, DispatcherInv, DispatcherType, Moment
  <1> QED
    BY <1>1, <1>2, <1>3, <1>4, <1>5, <1>6, <1>7, <1>8 DEF AlertsNext

\* No channel hears of one thing twice within its MinInterval, and none misses an
\* alert for another reason than having heard of that very thing: forgetting
\* after a day, edits and reloads in the middle of a delivery change neither.
THEOREM ThrottleIsExact == AlertsSpec => ThrottleHolds
  <1>1. AlertsInit => DispatcherInv
    <2> SUFFICES ASSUME AlertsInit PROVE DispatcherInv
      OBVIOUS
    <2>1. DispatcherType
      BY DEF AlertsInit, DispatcherType, ChannelList, Reading, Moments
    <2>2. Moment = tick /\ tick = 0
      BY DEF AlertsInit, Moment
    <2>3. \A k \in Keys : throttle[k] = lastTold[k]
      BY DEF AlertsInit
    <2> QED
      BY <2>1, <2>2, <2>3 DEF DispatcherInv, Remembers
  <1>2. DispatcherInv /\ [AlertsNext]_alertVars
        => [LET c == delivery.next
                last == lastTold[<<c, delivery.about>>]
                recent == last # Never /\ delivery.at - last < delivery.channels[c].interval
            IN  /\ Admit => ~recent
                /\ Skip /\ delivery.channels[c].enabled => recent]_alertVars
    <2> SUFFICES ASSUME DispatcherInv, Admit \/ Skip
                 PROVE  LET c == delivery.next
                            last == lastTold[<<c, delivery.about>>]
                            recent == last # Never /\ delivery.at - last < delivery.channels[c].interval
                        IN  /\ Admit => ~recent
                            /\ Skip /\ delivery.channels[c].enabled => recent
      OBVIOUS
    <2>1. delivery.pc = "channel"
      BY DEF Admit, Skip
    <2>2. /\ Admit => ~Throttled(delivery.next, delivery)
          /\ Skip /\ delivery.channels[delivery.next].enabled => Throttled(delivery.next, delivery)
      BY DEF Admit, Skip
    <2> QED
      BY <2>1, <2>2, ThrottleDecides
  <1> QED
    BY <1>1, <1>2, DispatcherStep, PTL DEF AlertsSpec, ThrottleHolds

-----------------------------------------------------------------------------
(* What the cache's policy keeps. *)

\* The page let the cache keep e, and e says when and for whom.
KeptRight(v, e) ==
    /\ e.at \in Nat /\ e.at <= ticks /\ e.until = e.at + freshness(page)
    /\ e.public = ("public" \in page.cc) /\ (e.credentials => e.public)
    /\ e.told => e.coding \in v \cup {Identity}
    /\ \E q \in PolicyRequest : MayStore(page, q)

PolicyInv ==
    /\ page \in Page /\ ticks \in Nat
    /\ \A v \in DOMAIN kept : KeptRight(v, kept[v])

\* How long a kept page lasts is within what it asked for and MaxTTL.
LEMMA FreshnessBound ==
    ASSUME NEW p \in Page, freshness(p) > 0
    PROVE  freshness(p) \in Nat /\ AskedFor(p) \in Nat /\ freshness(p) <= AskedFor(p) /\ freshness(p) <= MaxTTL
<1>1. p.maxAge \in {Absent} \cup Lifetimes /\ p.sMaxAge \in {Absent} \cup Lifetimes
      /\ p.expires \in {Absent, Unparseable} \cup Lifetimes
  BY DEF Page
<1>2. Lifetimes \subseteq Nat /\ DefaultTTL \in Nat /\ MaxTTL \in Nat /\ DefaultTTL <= MaxTTL
  BY PolicyAssumption
<1>3. PICK f : f = freshness(p)
  OBVIOUS
<1>4. f > 0 /\ \A n \in Nat : f = (IF n > MaxTTL THEN MaxTTL ELSE n) => f \in Nat /\ f <= n /\ f <= MaxTTL
  BY <1>2, <1>3
<1>5. CASE p.sMaxAge # Absent
  <2>1. f = (IF p.sMaxAge > MaxTTL THEN MaxTTL ELSE p.sMaxAge) /\ AskedFor(p) = p.sMaxAge
    BY <1>3, <1>5 DEF freshness, AskedFor
  <2>2. p.sMaxAge \in Nat
    BY <1>1, <1>2, <1>5
  <2> QED BY <1>3, <1>4, <2>1, <2>2
<1>6. CASE p.sMaxAge = Absent /\ p.maxAge # Absent
  <2>1. f = (IF p.maxAge > MaxTTL THEN MaxTTL ELSE p.maxAge) /\ AskedFor(p) = p.maxAge
    BY <1>3, <1>6 DEF freshness, AskedFor
  <2>2. p.maxAge \in Nat
    BY <1>1, <1>2, <1>6
  <2> QED BY <1>3, <1>4, <2>1, <2>2
<1>7. CASE p.sMaxAge = Absent /\ p.maxAge = Absent /\ p.expires = Absent
  <2>1. f = (IF DefaultTTL > MaxTTL THEN MaxTTL ELSE DefaultTTL) /\ AskedFor(p) = MaxTTL
    BY <1>3, <1>7 DEF freshness, AskedFor
  <2> QED BY <1>2, <1>3, <1>4, <2>1
<1>8. CASE p.sMaxAge = Absent /\ p.maxAge = Absent /\ p.expires # Absent
  <2>1. f = (IF p.expires > MaxTTL THEN MaxTTL ELSE p.expires) /\ AskedFor(p) = p.expires
    BY <1>3, <1>8 DEF freshness, AskedFor
  <2>2. p.expires # Unparseable
    <3>1. SUFFICES ASSUME p.expires = -2 PROVE FALSE
      BY DEF Unparseable
    <3> QED BY <1>2, <1>4, <2>1, <3>1
  <2>3. p.expires \in Nat
    BY <1>1, <1>2, <1>8, <2>2
  <2> QED BY <1>3, <1>4, <2>1, <2>3
<1> QED BY <1>5, <1>6, <1>7, <1>8

\* The coding of a copy fetched for one who names only codings the key tells
\* apart is one its key stands for.
LEMMA CodingKept ==
    ASSUME NEW p \in Page, NEW q \in PolicyRequest, q.accepts \subseteq Recognised
    PROVE  CodingFor(p, q) \in VariantKey(q) \cup {Identity}
<1>1. Wildcard \notin q.accepts
  BY DEF Recognised, Wildcard
<1>2. Reads(q) \subseteq VariantKey(q)
  BY <1>1 DEF Reads, VariantKey
<1>3. acceptsGzip(q) => "gzip" \in VariantKey(q)
  BY <1>1 DEF acceptsGzip, VariantKey, Recognised
<1>4. UpstreamCoding(p, q) \in VariantKey(q) \cup {Identity}
  BY <1>2 DEF UpstreamCoding
<1> QED BY <1>3, <1>4 DEF CodingFor

LEMMA FetchKeeps ==
    ASSUME PolicyInv, NEW q \in PolicyRequest, FetchPage(q)
    PROVE  PolicyInv'
<1> DEFINE k == VariantKey(q)
           live == IF Eligible(q) /\ ~FreshUnder(k) THEN Dropping({k}) ELSE kept
<1>1. page' = page /\ ticks' = ticks
  BY DEF FetchPage
<1>2. DOMAIN live \subseteq DOMAIN kept /\ \A v \in DOMAIN live : live[v] = kept[v]
  BY DEF Dropping
<1>3. \A v \in DOMAIN live : KeptRight(v, live[v])
  BY <1>2 DEF PolicyInv
<1>4. kept' = IF Eligible(q) /\ MayStore(page, q)
              THEN [j \in DOMAIN live \cup {k} |-> IF j = k THEN KeptCopy(page, q) ELSE live[j]]
              ELSE live
  BY DEF FetchPage
<1>5. ASSUME MayStore(page, q) PROVE KeptRight(k, KeptCopy(page, q))
  <2>1. page \in Page /\ ticks \in Nat
    BY DEF PolicyInv
  <2>2. freshness(page) > 0
    BY <1>5 DEF MayStore
  <2>3. PICK e : e = KeptCopy(page, q)
    OBVIOUS
  <2>4. e.at = ticks /\ e.until = ticks + freshness(page)
    BY <2>3 DEF KeptCopy
  <2>5. e.public = ("public" \in page.cc) /\ e.credentials = q.credentials
        /\ e.coding = CodingFor(page, q) /\ e.told = (q.accepts \subseteq Recognised)
    BY <2>3 DEF KeptCopy
  <2>6. q.credentials => "public" \in page.cc
    BY <1>5 DEF MayStore
  <2>7. e.told => e.coding \in k \cup {Identity}
    BY <2>1, <2>5, CodingKept
  <2>8. e.at \in Nat /\ e.at <= ticks
    BY <2>1, <2>4
  <2> HIDE DEF k
  <2> QED BY <1>5, <2>3, <2>4, <2>5, <2>6, <2>7, <2>8 DEF KeptRight
<1>6. \A v \in DOMAIN kept' : KeptRight(v, kept'[v])
  <2> HIDE DEF k, live
  <2> QED BY <1>3, <1>4, <1>5
<1>7. \A v, e : KeptRight(v, e) => KeptRight(v, e)'
  BY <1>1 DEF KeptRight
<1> QED BY <1>1, <1>6, <1>7 DEF PolicyInv, KeptRight

LEMMA PolicyStep == PolicyInv /\ [PolicyNext]_policyVars => PolicyInv'
<1> SUFFICES ASSUME PolicyInv, [PolicyNext]_policyVars PROVE PolicyInv'
  OBVIOUS
<1>1. ASSUME NEW q \in Asked, AnswerFromCache(q) PROVE PolicyInv'
  BY <1>1 DEF AnswerFromCache, policyVars, PolicyInv, KeptRight
<1>2. ASSUME NEW q \in Asked, FetchPage(q) PROVE PolicyInv'
  BY <1>2, AskedAssumption, FetchKeeps
<1>3. ASSUME NEW q \in Asked, ChangePage(q) PROVE PolicyInv'
  BY <1>3 DEF ChangePage, PolicyInv
<1>4. ASSUME PolicyTick PROVE PolicyInv'
  <2>1. page' = page /\ kept' = kept /\ ticks' = ticks + 1
    BY <1>4 DEF PolicyTick
  <2>2. ticks \in Nat /\ ticks' \in Nat /\ \A n \in Nat : n <= ticks => n <= ticks'
    BY <2>1 DEF PolicyInv
  <2>3. ASSUME NEW v \in DOMAIN kept PROVE KeptRight(v, kept[v])'
    <3>1. KeptRight(v, kept[v])
      BY DEF PolicyInv
    <3> QED BY <2>1, <2>2, <3>1 DEF KeptRight
  <2> QED BY <2>1, <2>2, <2>3 DEF PolicyInv
<1>5. ASSUME UNCHANGED policyVars PROVE PolicyInv'
  BY <1>5 DEF policyVars, PolicyInv, KeptRight
<1> QED BY <1>1, <1>2, <1>3, <1>4, <1>5 DEF PolicyNext

LEMMA PolicyPermits == PolicyInv => ServedAsPermitted
<1> SUFFICES ASSUME PolicyInv, NEW v \in DOMAIN kept, NEW q \in PolicyRequest,
                    VariantKey(q) = v, ~Invalidates(q), Hit(q)
             PROVE  LET e == kept[v]
                        age == ticks - e.at
                    IN  /\ page.cc \cap {"no-store", "no-cache", "private"} = {}
                        /\ ~page.cookie /\ page.vary \subseteq {"Accept-Encoding"}
                        /\ page.pragma => SaysAnything(page)
                        /\ e.credentials \/ q.credentials => "public" \in page.cc
                        /\ age < AskedFor(page) /\ age < MaxTTL
                        /\ q.cc = "" /\ ~q.range
                        /\ e.told => e.coding \in Reads(q) \cup {Identity}
  BY DEF ServedAsPermitted
<1>1. PICK e : e = kept[v]
  OBVIOUS
<1>2. KeptRight(v, e) /\ page \in Page /\ ticks \in Nat
  BY <1>1 DEF PolicyInv
<1>3. PICK w \in PolicyRequest : MayStore(page, w)
  BY <1>2 DEF KeptRight
<1>4. /\ page.cc \cap {"no-store", "no-cache", "private"} = {}
      /\ ~page.cookie /\ page.vary \subseteq {"Accept-Encoding"}
      /\ page.pragma => SaysAnything(page)
      /\ freshness(page) > 0
  BY <1>3 DEF MayStore, varyIsCacheable
<1>5. ticks < e.until /\ Servable(e, q) /\ Eligible(q)
  BY <1>1 DEF Hit, FreshUnder
<1>6. e.credentials \/ q.credentials => "public" \in page.cc
  BY <1>2, <1>5 DEF Servable, KeptRight
<1>7. q.cc = "" /\ ~q.range
  BY <1>5 DEF Servable, Eligible
<1>8. e.told => e.coding \in Reads(q) \cup {Identity}
  <2>1. VariantKey(q) \subseteq Reads(q)
    BY DEF VariantKey, Reads, Codings
  <2>2. e.told => e.coding \in VariantKey(q) \cup {Identity}
    BY <1>2 DEF KeptRight
  <2> QED BY <2>1, <2>2
<1>9. ticks - e.at < AskedFor(page) /\ ticks - e.at < MaxTTL
  <2>1. freshness(page) \in Nat /\ AskedFor(page) \in Nat
        /\ freshness(page) <= AskedFor(page) /\ freshness(page) <= MaxTTL
    BY <1>2, <1>4, FreshnessBound
  <2>2. MaxTTL \in Nat
    BY PolicyAssumption
  <2>3. e.at \in Nat /\ e.until = e.at + freshness(page)
    BY <1>2 DEF KeptRight
  <2> QED BY <1>2, <1>5, <2>1, <2>2, <2>3
<1> QED BY <1>1, <1>4, <1>6, <1>7, <1>8, <1>9

\* A copy is shown only where the upstream let a shared cache keep it, no longer
\* than it asked for, to nobody it kept it from, and in a coding the visitor reads
\* where the key could tell (policy.go), whatever the lifetimes and the operator's
\* limits.
THEOREM CopiesServedAsPermitted == PolicySpec => []ServedAsPermitted
<1>1. PolicyInit => PolicyInv
  BY DEF PolicyInit, PolicyInv
<1> QED BY <1>1, PolicyStep, PolicyPermits, PTL DEF PolicySpec

-----------------------------------------------------------------------------
(* Sums over finite sets: the fold of the library has no theorem. *)

\* A set of subsets of a finite set has a member that contains no other.
LEMMA LeastSubset ==
  ASSUME NEW S, IsFiniteSet(S), NEW W \in SUBSET (SUBSET S), W # {}
  PROVE  \E T \in W : \A U \in W : U \subseteq T => U = T
<1>1. IsWellFoundedOn(StrictSubsetOrdering(S), FiniteSubsetsOf(S))
  BY FS_StrictSubsetOrderingWellFounded
<1>2. W \subseteq FiniteSubsetsOf(S)
  BY FS_Subset DEF FiniteSubsetsOf
<1>3. PICK T \in W : \A U \in W : ~(<<U, T>> \in StrictSubsetOrdering(S))
  <2> HIDE DEF FiniteSubsetsOf, StrictSubsetOrdering
  <2> QED BY <1>1, <1>2, WFMin
<1>4. ASSUME NEW U \in W, U \subseteq T, U # T PROVE FALSE
  <2>1. <<U, T>> \in StrictSubsetOrdering(S)
    BY <1>4 DEF StrictSubsetOrdering
  <2> QED BY <1>3, <2>1
<1> QED BY <1>3, <1>4

AnyOf(s) == CHOOSE x \in s : TRUE

Sum(f, S) == SumFunctionOnSet(f, S)

\* g sums the values that f gives to the subsets of S, as the fold of the library does.
Sums(g, f, S) ==
    g = [s \in SUBSET S |-> IF s = {} THEN 0 ELSE f[AnyOf(s)] + g[s \ {AnyOf(s)}]]

\* The sum is the fold of the library.
LEMMA SumFold ==
  ASSUME NEW f, NEW S
  PROVE  Sum(f, S) = (CHOOSE g : Sums(g, f, S))[S]
BY DEF Sum, SumFunctionOnSet, FoldFunctionOnSet, MapThenFoldSet, Sums, AnyOf

\* The element the fold takes is one of the set.
LEMMA AnyOfSet == ASSUME NEW S, S # {} PROVE AnyOf(S) \in S
  BY DEF AnyOf

\* Two folds agree on the sets both are about: a smallest set on which they
\* differ would have a smaller one.
LEMMA SumsAgree ==
  ASSUME NEW f, NEW S, IsFiniteSet(S), NEW T \in SUBSET S, NEW g,
         NEW h, Sums(g, f, S), Sums(h, f, T)
  PROVE  \A U \in SUBSET T : g[U] = h[U]
<1> SUFFICES ASSUME NEW V \in SUBSET T, g[V] # h[V] PROVE FALSE
  OBVIOUS
<1> DEFINE W == {U \in SUBSET T : g[U] # h[U]}
<1>0. IsFiniteSet(T)
  BY FS_Subset
<1>1. PICK U \in W : \A X \in W : X \subseteq U => X = U
  <2>1. W \in SUBSET (SUBSET T) /\ W # {}
    OBVIOUS
  <2> HIDE DEF W
  <2> QED BY <1>0, <2>1, LeastSubset
<1>2. g[U] = IF U = {} THEN 0 ELSE f[AnyOf(U)] + g[U \ {AnyOf(U)}]
  BY DEF Sums
<1>3. h[U] = IF U = {} THEN 0 ELSE f[AnyOf(U)] + h[U \ {AnyOf(U)}]
  BY DEF Sums
<1>4. CASE U = {}
  BY <1>2, <1>3, <1>4
<1>5. CASE U # {}
  <2>1. U \ {AnyOf(U)} # U
    BY <1>5, AnyOfSet
  <2>2. U \ {AnyOf(U)} \notin W
    BY <1>1, <2>1
  <2> QED BY <1>2, <1>3, <1>5, <2>2
<1> QED BY <1>4, <1>5

\* There is a fold over every finite set.
LEMMA SumsExist ==
  ASSUME NEW f, NEW S, IsFiniteSet(S)
  PROVE  \E g : Sums(g, f, S)
<1> DEFINE W == {U \in SUBSET S : ~\E g : Sums(g, f, U)}
<1> SUFFICES ASSUME W # {} PROVE FALSE
  OBVIOUS
<1>1. PICK T \in W : \A X \in W : X \subseteq T => X = T
  <2>1. W \in SUBSET (SUBSET S)
    OBVIOUS
  <2> HIDE DEF W
  <2> QED BY <2>1, LeastSubset
<1> DEFINE sum(s) == (CHOOSE g : Sums(g, f, s))[s]
           b == [s \in SUBSET T |-> IF s = {} THEN 0 ELSE f[AnyOf(s)] + sum(s \ {AnyOf(s)})]
<1>2. \A s \in SUBSET T : s # T => Sums(CHOOSE g : Sums(g, f, s), f, s)
  BY <1>1
<1>3. ASSUME NEW s \in SUBSET T, s # T PROVE b[s] = sum(s)
  <2> DEFINE h == CHOOSE g : Sums(g, f, s)
  <2>1. Sums(h, f, s)
    BY <1>2, <1>3
  <2> HIDE DEF h
  <2>2. h[s] = IF s = {} THEN 0 ELSE f[AnyOf(s)] + h[s \ {AnyOf(s)}]
    BY <2>1 DEF Sums
  <2>3. CASE s = {}
    BY <2>2, <2>3 DEF h
  <2>4. CASE s # {}
    <3> DEFINE r == s \ {AnyOf(s)}
    <3>1. r \in SUBSET T /\ r # T /\ r \subseteq s
      BY <1>3
    <3>2. Sums(CHOOSE g : Sums(g, f, r), f, r)
      BY <1>2, <3>1
    <3>3. IsFiniteSet(s)
      BY FS_Subset
    <3>4. h[r] = sum(r)
      BY <2>1, <3>1, <3>2, <3>3, SumsAgree
    <3> QED BY <2>2, <2>4, <3>4 DEF h
  <2> QED BY <2>3, <2>4
<1>4. Sums(b, f, T)
  <2>1. ASSUME NEW s \in SUBSET T, s # {} PROVE b[s \ {AnyOf(s)}] = sum(s \ {AnyOf(s)})
    <3>1. s \ {AnyOf(s)} # T /\ s \ {AnyOf(s)} \in SUBSET T
      BY <2>1, AnyOfSet
    <3> HIDE DEF b, sum
    <3> QED BY <1>3, <3>1
  <2>2. b = [s \in SUBSET T |-> IF s = {} THEN 0 ELSE f[AnyOf(s)] + sum(s \ {AnyOf(s)})]
    OBVIOUS
  <2> HIDE DEF b, sum
  <2> QED BY <2>1, <2>2 DEF Sums
<1> QED BY <1>1, <1>4

\* One step of the sum.
LEMMA SumOf ==
  ASSUME NEW f, NEW S, IsFiniteSet(S)
  PROVE  Sum(f, S) = IF S = {} THEN 0 ELSE f[AnyOf(S)] + Sum(f, S \ {AnyOf(S)})
<1>1. PICK R : R = S \ {AnyOf(S)}
  OBVIOUS
<1>2. PICK g, h : g = (CHOOSE x : Sums(x, f, S)) /\ h = (CHOOSE x : Sums(x, f, R))
  OBVIOUS
<1>3. IsFiniteSet(R) /\ R \in SUBSET S
  BY <1>1, FS_Subset
<1>4. Sums(g, f, S) /\ Sums(h, f, R)
  BY <1>2, <1>3, SumsExist
<1>5. R \in SUBSET R
  OBVIOUS
<1>6. g[R] = h[R]
  BY <1>3, <1>4, <1>5, SumsAgree
<1>7. g[S] = IF S = {} THEN 0 ELSE f[AnyOf(S)] + g[R]
  BY <1>1, <1>4 DEF Sums
<1>8. Sum(f, S) = g[S] /\ Sum(f, R) = h[R]
  BY <1>2, SumFold
<1> QED BY <1>1, <1>6, <1>7, <1>8

Whole(f, S) == \A k \in S : f[k] \in Int

\* A sum of integers is one.
LEMMA SumInt ==
  ASSUME NEW f, NEW S, IsFiniteSet(S), Whole(f, S)
  PROVE  Sum(f, S) \in Int
<1> DEFINE W == {T \in SUBSET S : Sum(f, T) \notin Int}
<1> SUFFICES ASSUME W # {} PROVE FALSE
  OBVIOUS
<1>1. PICK T \in W : \A X \in W : X \subseteq T => X = T
  <2>1. W \in SUBSET (SUBSET S)
    OBVIOUS
  <2> HIDE DEF W
  <2> QED BY <2>1, LeastSubset
<1>2. Sum(f, T) = IF T = {} THEN 0 ELSE f[AnyOf(T)] + Sum(f, T \ {AnyOf(T)})
  BY SumOf, FS_Subset
<1>3. T # {}
  BY <1>2
<1>4. AnyOf(T) \in T /\ T \ {AnyOf(T)} \in SUBSET S /\ T \ {AnyOf(T)} # T
  BY <1>3, AnyOfSet
<1>5. Sum(f, T \ {AnyOf(T)}) \in Int
  BY <1>1, <1>4
<1>6. f[AnyOf(T)] \in Int
  BY <1>4 DEF Whole
<1> QED BY <1>2, <1>3, <1>5, <1>6

\* Whichever element is taken out first.
LEMMA SumLess ==
  ASSUME NEW f, NEW S, IsFiniteSet(S), Whole(f, S), NEW k \in S
  PROVE  Sum(f, S) = f[k] + Sum(f, S \ {k})
<1> DEFINE W == {T \in SUBSET S : \E x \in T : Sum(f, T) # f[x] + Sum(f, T \ {x})}
<1> SUFFICES ASSUME W # {} PROVE FALSE
  OBVIOUS
<1>1. PICK T \in W : \A X \in W : X \subseteq T => X = T
  <2>1. W \in SUBSET (SUBSET S)
    OBVIOUS
  <2> HIDE DEF W
  <2> QED BY <2>1, LeastSubset
<1>2. PICK x \in T : Sum(f, T) # f[x] + Sum(f, T \ {x})
  OBVIOUS
<1>3. PICK y \in T : y = AnyOf(T)
  BY <1>2, AnyOfSet
<1>4. Sum(f, T) = f[y] + Sum(f, T \ {y}) /\ x # y
  BY <1>2, <1>3, SumOf, FS_Subset
<1>5. T \ {y} \notin W /\ T \ {y} \in SUBSET S /\ T \ {x} \notin W /\ T \ {x} \in SUBSET S
  BY <1>1, <1>2, <1>3
<1>6. Sum(f, T \ {y}) = f[x] + Sum(f, (T \ {y}) \ {x})
  BY <1>4, <1>5
<1>7. Sum(f, T \ {x}) = f[y] + Sum(f, (T \ {x}) \ {y})
  BY <1>4, <1>5
<1>8. (T \ {x}) \ {y} = (T \ {y}) \ {x}
  OBVIOUS
<1>9. /\ f[x] \in Int /\ f[y] \in Int /\ Sum(f, T \ {x}) \in Int
         /\ Sum(f, T \ {y}) \in Int
      /\ Sum(f, (T \ {y}) \ {x}) \in Int
  <2>1. Whole(f, T) /\ Whole(f, T \ {x}) /\ Whole(f, T \ {y}) /\ Whole(f, (T \ {y}) \ {x})
    BY DEF Whole
  <2>2. IsFiniteSet(T) /\ IsFiniteSet(T \ {x}) /\ IsFiniteSet(T \ {y})
        /\ IsFiniteSet((T \ {y}) \ {x})
    BY FS_Subset
  <2> QED BY <2>1, <2>2, SumInt DEF Whole
<1>10. PICK a, b, c, d, e : /\ a = f[x] /\ b = f[y] /\ c = Sum(f, T \ {x})
                           /\ d = Sum(f, T \ {y}) /\ e = Sum(f, (T \ {y}) \ {x})
  OBVIOUS
<1>11. a \in Int /\ b \in Int /\ e \in Int /\ d = a + e /\ c = b + e
  BY <1>6, <1>7, <1>8, <1>9, <1>10
<1>12. b + d = a + c
  BY <1>11
<1> QED BY <1>2, <1>4, <1>10, <1>12

\* The sum depends on the values only.
LEMMA SumSame ==
  ASSUME NEW f, NEW g, NEW S, IsFiniteSet(S), \A k \in S : f[k] = g[k]
  PROVE  Sum(f, S) = Sum(g, S)
<1> DEFINE W == {T \in SUBSET S : Sum(f, T) # Sum(g, T)}
<1> SUFFICES ASSUME W # {} PROVE FALSE
  OBVIOUS
<1>1. PICK T \in W : \A X \in W : X \subseteq T => X = T
  <2>1. W \in SUBSET (SUBSET S)
    OBVIOUS
  <2> HIDE DEF W
  <2> QED BY <2>1, LeastSubset
<1>2. /\ Sum(f, T) = IF T = {} THEN 0 ELSE f[AnyOf(T)] + Sum(f, T \ {AnyOf(T)})
      /\ Sum(g, T) = IF T = {} THEN 0 ELSE g[AnyOf(T)] + Sum(g, T \ {AnyOf(T)})
  BY SumOf, FS_Subset
<1>3. T # {}
  BY <1>2
<1>4. AnyOf(T) \in T /\ T \ {AnyOf(T)} \in SUBSET S /\ T \ {AnyOf(T)} # T
  BY <1>3, AnyOfSet
<1>5. Sum(f, T \ {AnyOf(T)}) = Sum(g, T \ {AnyOf(T)})
  BY <1>1, <1>4
<1> QED BY <1>2, <1>3, <1>4, <1>5

\* The sum when the value of one element changes.
LEMMA SumMoves ==
  ASSUME NEW f, NEW g, NEW S, IsFiniteSet(S), Whole(f, S), NEW i \in S, g[i] \in Int,
         \A k \in S \ {i} : g[k] = f[k]
  PROVE  Sum(g, S) = Sum(f, S) - f[i] + g[i]
<1>1. Whole(g, S)
  BY DEF Whole
<1>2. IsFiniteSet(S \ {i}) /\ Whole(f, S \ {i})
  BY FS_Subset DEF Whole
<1>3. Sum(f, S) = f[i] + Sum(f, S \ {i}) /\ Sum(g, S) = g[i] + Sum(g, S \ {i})
  BY <1>1, SumLess
<1>4. Sum(g, S \ {i}) = Sum(f, S \ {i})
  BY <1>2, SumSame
<1>5. Sum(f, S \ {i}) \in Int /\ f[i] \in Int
  BY <1>2, SumInt DEF Whole
<1> QED BY <1>3, <1>4, <1>5

\* The sum when an element joins.
LEMMA SumGrows ==
  ASSUME NEW f, NEW g, NEW S, IsFiniteSet(S), NEW i, i \notin S, Whole(f, S), g[i] \in Int,
         \A k \in S : g[k] = f[k]
  PROVE  Sum(g, S \cup {i}) = Sum(f, S) + g[i]
<1>1. IsFiniteSet(S \cup {i}) /\ Whole(g, S \cup {i}) /\ (S \cup {i}) \ {i} = S
  BY FS_AddElement DEF Whole
<1>2. Sum(g, S \cup {i}) = g[i] + Sum(g, S)
  BY <1>1, SumLess
<1>3. Sum(g, S) = Sum(f, S) /\ Sum(f, S) \in Int
  BY SumSame, SumInt
<1> QED BY <1>2, <1>3

LEMMA SumSwaps ==
  ASSUME NEW f, NEW g, NEW S, NEW i \in S, IsFiniteSet(S), Whole(f, S), Whole(g, S),
         \A k \in S \ {i} : g[k] = f[k]
  PROVE  Sum(g, S) = Sum(f, S) - f[i] + g[i]
<1>1. g[i] \in Int
  BY DEF Whole
<1> QED BY <1>1, SumMoves

OneJoins(f, g, S, i) ==
    /\ i \notin S /\ IsFiniteSet(S) /\ Whole(f, S) /\ Whole(g, S \cup {i})
    /\ \A k \in S : g[k] = f[k]

LEMMA SumJoins ==
  ASSUME NEW f, NEW g, NEW S, NEW i, OneJoins(f, g, S, i)
  PROVE  Sum(g, S \cup {i}) = Sum(f, S) + g[i]
<1>1. /\ i \notin S /\ IsFiniteSet(S) /\ Whole(f, S) /\ Whole(g, S \cup {i})
      /\ \A k \in S : g[k] = f[k]
  BY DEF OneJoins
<1>2. g[i] \in Int
  BY <1>1 DEF Whole
<1> QED BY <1>1, <1>2, SumGrows

-----------------------------------------------------------------------------
(* What the flusher makes of the counts. *)

Amount == [requests : Int, bytes : Int]
StateRecord == [counters : Counted, active : Int, flushAt : Counted]
AreStates(ss) == ss \in Seq(StateRecord)
FlushState == [pc : {"select", "reading", "writing", "done"}, read : Nat, sample : Amount,
               final : BOOLEAN]

FlushedRequests(ss) == [i \in DOMAIN ss |-> ss[i].flushAt.requests]
FlushedBytes(ss) == [i \in DOMAIN ss |-> ss[i].flushAt.bytes]
CountedRequests(ss) == [i \in DOMAIN ss |-> ss[i].counters.requests]
Actives(ss) == [i \in DOMAIN ss |-> ss[i].active]

\* A request whose first count is made, one whose others are, one under way.
IsCounted(x) == x.state # 0 /\ x.pc \in {"counted", "entry", "ending", "done"}
IsAdded(x) == x.state # 0 /\ x.pc \in {"entry", "ending", "done"}
IsUnderWay(x) == x.pc \notin {"new", "done"}

CountedAt(h, i) == {r \in Hits : IsCounted(h[r]) /\ h[r].state = i}
AddedAt(h, i) == {r \in Hits : IsAdded(h[r]) /\ h[r].state = i}
Of(h, S, i) == {r \in S : h[r].state = i}

Points == {"new", "served", "found", "counted", "entry", "ending", "done"}

HitOK(x, n) ==
    /\ x.state <= n
    /\ x.pc \in {"new", "served"} => x.state = 0
    /\ x.pc \in {"found", "counted"} => x.state # 0

CountsType ==
    /\ hit \in [Hits -> [pc : Points, state : Nat]] /\ \A r \in Hits : HitOK(hit[r], Len(states))
    /\ AreStates(states) /\ current \in 0 .. Len(states)
    /\ "counts" \notin keeps => states = <<>>
    /\ flusher \in FlushState
    /\ flusher.pc # "writing" => flusher.sample = Nothing
    /\ flusher.final => flusher.pc # "select"
    /\ flusher.pc = "done" => flusher.final
    /\ flusher.pc = "reading" => current # 0
    /\ samples \in Amount
    /\ DOMAIN past = {"recorded", "late", "lost", "skipped", "overlapped", "after",
                    "broken"}
    /\ past.lost \in Amount /\ past.skipped \in Nat /\ past.after \in Nat
    /\ past.overlapped \in SUBSET Hits

Balance ==
    /\ Sum(FlushedRequests(states), DOMAIN states)
          = samples.requests + flusher.sample.requests + past.lost.requests
    /\ Sum(FlushedBytes(states), DOMAIN states)
          = samples.bytes + flusher.sample.bytes + past.lost.bytes + past.skipped
    /\ Sum(CountedRequests(states), DOMAIN states) = Cardinality({r \in Hits : IsCounted(hit[r])})
    /\ "counts" \in keeps =>
          Sum(Actives(states), DOMAIN states) = Cardinality({r \in Hits : IsUnderWay(hit[r])})

\* The counters count the requests that found them.
Exact(h, ss) ==
    \A i \in DOMAIN ss : /\ ss[i].counters.requests = Cardinality(CountedAt(h, i))
                         /\ ss[i].counters.bytes = Cardinality(AddedAt(h, i))

\* What is missing of the current counters after the last flush came after it began.
LastRead(f, st) == IF f.pc = "reading" THEN f.read ELSE st.flushAt.requests

TailOK ==
    flusher.final /\ current # 0 =>
        states[current].counters.requests - LastRead(flusher, states[current]) <= past.after

\* The baselines are the requests in Q and the bytes in B, of which those in K were
\* skipped; only requests that a flush came in the midst of are in one without the
\* other.  A flush under way has read the requests in D.
Ledger(h, ss, f, c, o, n, Q, B, K, D) ==
    /\ Q \subseteq {r \in Hits : IsCounted(h[r])} /\ B \subseteq {r \in Hits : IsAdded(h[r])}
    /\ \A i \in DOMAIN ss : /\ ss[i].flushAt.requests = Cardinality(Of(h, Q, i))
                            /\ ss[i].flushAt.bytes = Cardinality(Of(h, B, i))
    /\ K \subseteq B \cap o /\ Cardinality(K) = n
    /\ \A r \in Hits \ o : IsCounted(h[r]) => (r \in Q <=> r \in B)
    /\ f.pc = "reading" =>
          /\ Of(h, Q, c) \subseteq D /\ D \subseteq CountedAt(h, c) /\ Cardinality(D) = f.read
          /\ CountedAt(h, c) \ D \subseteq o

LedgerOK ==
    \E Q, B, K, D \in SUBSET Hits :
        Ledger(hit, states, flusher, current, past.overlapped, past.skipped, Q, B, K, D)

CountsInv == CountsType /\ Balance /\ Exact(hit, states) /\ TailOK /\ LedgerOK

\* One more in a part of the requests.
LEMMA OneMore ==
    ASSUME NEW S \in SUBSET Hits, NEW r \in Hits, r \notin S
    PROVE  IsFiniteSet(S) /\ Cardinality(S) \in Nat /\ Cardinality(S \cup {r}) = Cardinality(S) + 1
<1>1. IsFiniteSet(S)
  BY TelemetryAssumption, FS_Subset
<1> QED BY <1>1, FS_AddElement, FS_CardinalityType

LEMMA SizeOf ==
    ASSUME NEW S \in SUBSET Hits
    PROVE  IsFiniteSet(S) /\ Cardinality(S) \in Nat
BY TelemetryAssumption, FS_Subset, FS_CardinalityType

LEMMA StateFacts ==
    ASSUME NEW ss, AreStates(ss)
    PROVE  /\ DOMAIN ss = 1 .. Len(ss) /\ Len(ss) \in Nat /\ IsFiniteSet(DOMAIN ss)
           /\ \A i \in DOMAIN ss : /\ ss[i] \in StateRecord /\ ss[i].active \in Int
                                   /\ ss[i].flushAt.requests \in Int /\ ss[i].flushAt.bytes \in Int
                                   /\ ss[i].counters.requests \in Int /\ ss[i].counters.bytes \in Int
<1>1. DOMAIN ss = 1 .. Len(ss) /\ Len(ss) \in Nat /\ \A i \in DOMAIN ss : ss[i] \in StateRecord
  BY LenProperties, ElementOfSeq DEF AreStates
<1>2. IsFiniteSet(DOMAIN ss)
  BY <1>1, FS_Interval
<1>3. ASSUME NEW x \in StateRecord
      PROVE  /\ x.active \in Int /\ x.flushAt.requests \in Int /\ x.flushAt.bytes \in Int
             /\ x.counters.requests \in Int /\ x.counters.bytes \in Int
  BY <1>3 DEF StateRecord, Counted
<1> QED BY <1>1, <1>2, <1>3

\* What is summed up is whole.
LEMMA ColumnsWhole ==
    ASSUME NEW ss, AreStates(ss)
    PROVE  /\ Whole(FlushedRequests(ss), DOMAIN ss) /\ Whole(FlushedBytes(ss), DOMAIN ss)
           /\ Whole(CountedRequests(ss), DOMAIN ss) /\ Whole(Actives(ss), DOMAIN ss)
BY StateFacts DEF Whole, FlushedRequests, FlushedBytes, CountedRequests, Actives

\* The sums over the states when one of them changes.
Changes(ss, tt, i, st) ==
    /\ AreStates(tt) /\ Len(tt) = Len(ss) /\ DOMAIN tt = DOMAIN ss
    /\ tt[i] = st /\ \A j \in DOMAIN ss : j # i => tt[j] = ss[j]
    /\ Sum(FlushedRequests(tt), DOMAIN tt)
          = Sum(FlushedRequests(ss), DOMAIN ss) - ss[i].flushAt.requests + st.flushAt.requests
    /\ Sum(FlushedBytes(tt), DOMAIN tt)
          = Sum(FlushedBytes(ss), DOMAIN ss) - ss[i].flushAt.bytes + st.flushAt.bytes
    /\ Sum(CountedRequests(tt), DOMAIN tt)
          = Sum(CountedRequests(ss), DOMAIN ss) - ss[i].counters.requests + st.counters.requests
    /\ Sum(Actives(tt), DOMAIN tt) = Sum(Actives(ss), DOMAIN ss) - ss[i].active + st.active

LEMMA StateChanges ==
    ASSUME NEW ss, AreStates(ss), NEW i \in DOMAIN ss, NEW st \in StateRecord
    PROVE  Changes(ss, [ss EXCEPT ![i] = st], i, st)
<1> DEFINE ex == [ss EXCEPT ![i] = st]
<1>0. /\ AreStates(ex) /\ Len(ex) = Len(ss) /\ DOMAIN ex = DOMAIN ss
      /\ ex[i] = st /\ \A j \in DOMAIN ss : j # i => ex[j] = ss[j]
  BY ExceptSeq, LenProperties DEF AreStates
<1> HIDE DEF ex
<1> SUFFICES Changes(ss, ex, i, st)
  BY DEF ex
<1>1. PICK tt : /\ tt = ex /\ AreStates(tt) /\ Len(tt) = Len(ss) /\ DOMAIN tt = DOMAIN ss
                /\ tt[i] = st /\ \A j \in DOMAIN ss : j # i => tt[j] = ss[j]
  BY <1>0
<1>2. PICK S : S = DOMAIN ss /\ i \in S
  OBVIOUS
<1>3. IsFiniteSet(S)
  BY <1>2, StateFacts
<1>4. Sum(FlushedRequests(tt), S) = Sum(FlushedRequests(ss), S) - ss[i].flushAt.requests + st.flushAt.requests
  <2>1. Whole(FlushedRequests(ss), S) /\ Whole(FlushedRequests(tt), S)
    BY <1>1, <1>2, ColumnsWhole
  <2>2. FlushedRequests(ss)[i] = ss[i].flushAt.requests /\ FlushedRequests(tt)[i] = st.flushAt.requests
    BY <1>1 DEF FlushedRequests
  <2>3. \A j \in S \ {i} : FlushedRequests(tt)[j] = FlushedRequests(ss)[j]
    BY <1>1, <1>2 DEF FlushedRequests
  <2>4. Sum(FlushedRequests(tt), S) = Sum(FlushedRequests(ss), S) - FlushedRequests(ss)[i] + FlushedRequests(tt)[i]
    BY <1>2, <1>3, <2>1, <2>3, SumSwaps
  <2> QED BY <2>2, <2>4
<1>5. Sum(FlushedBytes(tt), S) = Sum(FlushedBytes(ss), S) - ss[i].flushAt.bytes + st.flushAt.bytes
  <2>1. Whole(FlushedBytes(ss), S) /\ Whole(FlushedBytes(tt), S)
    BY <1>1, <1>2, ColumnsWhole
  <2>2. FlushedBytes(ss)[i] = ss[i].flushAt.bytes /\ FlushedBytes(tt)[i] = st.flushAt.bytes
    BY <1>1 DEF FlushedBytes
  <2>3. \A j \in S \ {i} : FlushedBytes(tt)[j] = FlushedBytes(ss)[j]
    BY <1>1, <1>2 DEF FlushedBytes
  <2>4. Sum(FlushedBytes(tt), S) = Sum(FlushedBytes(ss), S) - FlushedBytes(ss)[i] + FlushedBytes(tt)[i]
    BY <1>2, <1>3, <2>1, <2>3, SumSwaps
  <2> QED BY <2>2, <2>4
<1>6. Sum(CountedRequests(tt), S) = Sum(CountedRequests(ss), S) - ss[i].counters.requests + st.counters.requests
  <2>1. Whole(CountedRequests(ss), S) /\ Whole(CountedRequests(tt), S)
    BY <1>1, <1>2, ColumnsWhole
  <2>2. CountedRequests(ss)[i] = ss[i].counters.requests /\ CountedRequests(tt)[i] = st.counters.requests
    BY <1>1 DEF CountedRequests
  <2>3. \A j \in S \ {i} : CountedRequests(tt)[j] = CountedRequests(ss)[j]
    BY <1>1, <1>2 DEF CountedRequests
  <2>4. Sum(CountedRequests(tt), S) = Sum(CountedRequests(ss), S) - CountedRequests(ss)[i] + CountedRequests(tt)[i]
    BY <1>2, <1>3, <2>1, <2>3, SumSwaps
  <2> QED BY <2>2, <2>4
<1>7. Sum(Actives(tt), S) = Sum(Actives(ss), S) - ss[i].active + st.active
  <2>1. Whole(Actives(ss), S) /\ Whole(Actives(tt), S)
    BY <1>1, <1>2, ColumnsWhole
  <2>2. Actives(ss)[i] = ss[i].active /\ Actives(tt)[i] = st.active
    BY <1>1 DEF Actives
  <2>3. \A j \in S \ {i} : Actives(tt)[j] = Actives(ss)[j]
    BY <1>1, <1>2 DEF Actives
  <2>4. Sum(Actives(tt), S) = Sum(Actives(ss), S) - Actives(ss)[i] + Actives(tt)[i]
    BY <1>2, <1>3, <2>1, <2>3, SumSwaps
  <2> QED BY <2>2, <2>4
<1> QED BY <1>1, <1>2, <1>4, <1>5, <1>6, <1>7 DEF Changes

\* And when one is made.
Joins(ss, tt, st) ==
    /\ AreStates(tt) /\ Len(tt) = Len(ss) + 1
    /\ tt[Len(ss) + 1] = st /\ \A j \in DOMAIN ss : tt[j] = ss[j]
    /\ Sum(FlushedRequests(tt), DOMAIN tt) = Sum(FlushedRequests(ss), DOMAIN ss) + st.flushAt.requests
    /\ Sum(FlushedBytes(tt), DOMAIN tt) = Sum(FlushedBytes(ss), DOMAIN ss) + st.flushAt.bytes
    /\ Sum(CountedRequests(tt), DOMAIN tt) = Sum(CountedRequests(ss), DOMAIN ss) + st.counters.requests
    /\ Sum(Actives(tt), DOMAIN tt) = Sum(Actives(ss), DOMAIN ss) + st.active

LEMMA StateJoins ==
    ASSUME NEW ss, AreStates(ss), NEW st \in StateRecord
    PROVE  Joins(ss, Append(ss, st), st)
<1> DEFINE ap == Append(ss, st)
<1>0. /\ AreStates(ap) /\ Len(ap) = Len(ss) + 1
      /\ ap[Len(ss) + 1] = st /\ \A j \in DOMAIN ss : ap[j] = ss[j]
  BY AppendProperties, LenProperties DEF AreStates
<1> HIDE DEF ap
<1> SUFFICES Joins(ss, ap, st)
  BY DEF ap
<1>1. PICK S, i : S = DOMAIN ss /\ i = Len(ss) + 1
  OBVIOUS
<1>2. PICK tt : /\ tt = ap /\ AreStates(tt) /\ Len(tt) = Len(ss) + 1
                /\ tt[i] = st /\ \A j \in DOMAIN ss : tt[j] = ss[j]
  BY <1>0, <1>1
<1>3. DOMAIN tt = S \cup {i}
  BY <1>1, <1>2, StateFacts
<1>9. IsFiniteSet(S) /\ i \notin S
  BY <1>1, StateFacts
<1>4. Sum(FlushedRequests(tt), S \cup {i}) = Sum(FlushedRequests(ss), S) + st.flushAt.requests
  <2>1. PICK f, g : f = FlushedRequests(ss) /\ g = FlushedRequests(tt)
    OBVIOUS
  <2>2. Whole(f, S) /\ Whole(g, S \cup {i})
    BY <1>1, <1>2, <1>3, <2>1, ColumnsWhole
  <2>3. \A j \in S : g[j] = f[j]
    BY <1>1, <1>2, <1>3, <2>1 DEF FlushedRequests
  <2>4. Sum(g, S \cup {i}) = Sum(f, S) + g[i]
    <3>1. OneJoins(f, g, S, i)
      BY <1>9, <2>2, <2>3 DEF OneJoins
    <3> QED BY <3>1, SumJoins
  <2>5. g[i] = st.flushAt.requests
    <3>1. g = [j \in DOMAIN tt |-> tt[j].flushAt.requests]
      BY <2>1 DEF FlushedRequests
    <3>2. i \in DOMAIN tt /\ tt[i] = st
      BY <1>2, <1>3
    <3> QED BY <3>1, <3>2
  <2> QED BY <2>1, <2>4, <2>5
<1>5. Sum(FlushedBytes(tt), S \cup {i}) = Sum(FlushedBytes(ss), S) + st.flushAt.bytes
  <2>1. PICK f, g : f = FlushedBytes(ss) /\ g = FlushedBytes(tt)
    OBVIOUS
  <2>2. Whole(f, S) /\ Whole(g, S \cup {i})
    BY <1>1, <1>2, <1>3, <2>1, ColumnsWhole
  <2>3. \A j \in S : g[j] = f[j]
    BY <1>1, <1>2, <1>3, <2>1 DEF FlushedBytes
  <2>4. Sum(g, S \cup {i}) = Sum(f, S) + g[i]
    <3>1. OneJoins(f, g, S, i)
      BY <1>9, <2>2, <2>3 DEF OneJoins
    <3> QED BY <3>1, SumJoins
  <2>5. g[i] = st.flushAt.bytes
    <3>1. g = [j \in DOMAIN tt |-> tt[j].flushAt.bytes]
      BY <2>1 DEF FlushedBytes
    <3>2. i \in DOMAIN tt /\ tt[i] = st
      BY <1>2, <1>3
    <3> QED BY <3>1, <3>2
  <2> QED BY <2>1, <2>4, <2>5
<1>6. Sum(CountedRequests(tt), S \cup {i}) = Sum(CountedRequests(ss), S) + st.counters.requests
  <2>1. PICK f, g : f = CountedRequests(ss) /\ g = CountedRequests(tt)
    OBVIOUS
  <2>2. Whole(f, S) /\ Whole(g, S \cup {i})
    BY <1>1, <1>2, <1>3, <2>1, ColumnsWhole
  <2>3. \A j \in S : g[j] = f[j]
    BY <1>1, <1>2, <1>3, <2>1 DEF CountedRequests
  <2>4. Sum(g, S \cup {i}) = Sum(f, S) + g[i]
    <3>1. OneJoins(f, g, S, i)
      BY <1>9, <2>2, <2>3 DEF OneJoins
    <3> QED BY <3>1, SumJoins
  <2>5. g[i] = st.counters.requests
    <3>1. g = [j \in DOMAIN tt |-> tt[j].counters.requests]
      BY <2>1 DEF CountedRequests
    <3>2. i \in DOMAIN tt /\ tt[i] = st
      BY <1>2, <1>3
    <3> QED BY <3>1, <3>2
  <2> QED BY <2>1, <2>4, <2>5
<1>7. Sum(Actives(tt), S \cup {i}) = Sum(Actives(ss), S) + st.active
  <2>1. PICK f, g : f = Actives(ss) /\ g = Actives(tt)
    OBVIOUS
  <2>2. Whole(f, S) /\ Whole(g, S \cup {i})
    BY <1>1, <1>2, <1>3, <2>1, ColumnsWhole
  <2>3. \A j \in S : g[j] = f[j]
    BY <1>1, <1>2, <1>3, <2>1 DEF Actives
  <2>4. Sum(g, S \cup {i}) = Sum(f, S) + g[i]
    <3>1. OneJoins(f, g, S, i)
      BY <1>9, <2>2, <2>3 DEF OneJoins
    <3> QED BY <3>1, SumJoins
  <2>5. g[i] = st.active
    <3>1. g = [j \in DOMAIN tt |-> tt[j].active]
      BY <2>1 DEF Actives
    <3>2. i \in DOMAIN tt /\ tt[i] = st
      BY <1>2, <1>3
    <3> QED BY <3>1, <3>2
  <2> QED BY <2>1, <2>4, <2>5
<1> QED BY <1>1, <1>2, <1>3, <1>4, <1>5, <1>6, <1>7 DEF Joins

\* The states in tt are those in ss, and perhaps a new one.
Grown(ss, tt) ==
    /\ Len(ss) <= Len(tt)
    /\ \A i \in DOMAIN ss : tt[i].counters = ss[i].counters /\ tt[i].flushAt = ss[i].flushAt
    /\ \A i \in DOMAIN tt : i \in DOMAIN ss \/ (tt[i].counters = Nothing /\ tt[i].flushAt = Nothing)

SumsKept(ss, tt, n) ==
    /\ Sum(FlushedRequests(tt), DOMAIN tt) = Sum(FlushedRequests(ss), DOMAIN ss)
    /\ Sum(FlushedBytes(tt), DOMAIN tt) = Sum(FlushedBytes(ss), DOMAIN ss)
    /\ Sum(CountedRequests(tt), DOMAIN tt) = Sum(CountedRequests(ss), DOMAIN ss)
    /\ Sum(Actives(tt), DOMAIN tt) = Sum(Actives(ss), DOMAIN ss) + n

\* The sums are integers.
LEMMA SumsWhole ==
    ASSUME NEW ss, AreStates(ss)
    PROVE  /\ Sum(FlushedRequests(ss), DOMAIN ss) \in Int /\ Sum(FlushedBytes(ss), DOMAIN ss) \in Int
           /\ Sum(CountedRequests(ss), DOMAIN ss) \in Int /\ Sum(Actives(ss), DOMAIN ss) \in Int
BY ColumnsWhole, StateFacts, SumInt

\* What a call of state() comes to.
LEMMA StateCall ==
    ASSUME CountsType, NEW n \in Int, state(n)
    PROVE  /\ AreStates(states') /\ Grown(states, states')
           /\ "counts" \in keeps => SumsKept(states, states', n) /\ current' \in 1 .. Len(states')
           /\ "counts" \notin keeps => states' = states /\ current' = 0
           /\ flusher.pc = "reading" => current' = current
           /\ current' = current \/ current' \notin DOMAIN states
<1>1. /\ AreStates(states) /\ current \in 0 .. Len(states)
      /\ DOMAIN states = 1 .. Len(states) /\ Len(states) \in Nat
  BY StateFacts DEF CountsType
<1>2. /\ Sum(FlushedRequests(states), DOMAIN states) \in Int
      /\ Sum(FlushedBytes(states), DOMAIN states) \in Int
      /\ Sum(CountedRequests(states), DOMAIN states) \in Int
      /\ Sum(Actives(states), DOMAIN states) \in Int
  BY <1>1, SumsWhole
<1>3. CASE "counts" \notin keeps
  <2>1. states' = states /\ current' = current
    BY <1>3 DEF state
  <2>2. current = 0
    BY <1>1, <1>3 DEF CountsType
  <2> QED BY <1>1, <1>3, <2>1, <2>2 DEF Grown
<1>4. CASE "counts" \in keeps /\ current # 0
  <2>1. states' = [states EXCEPT ![current].active = @ + n] /\ current' = current
    BY <1>4 DEF state
  <2>2. current \in DOMAIN states
    BY <1>1, <1>4
  <2>3. PICK st : st = [states[current] EXCEPT !.active = @ + n]
    OBVIOUS
  <2>4. states[current] \in StateRecord /\ states[current].active \in Int
    BY <1>1, <2>2, StateFacts
  <2>5. st \in StateRecord /\ st.counters = states[current].counters
        /\ st.flushAt = states[current].flushAt /\ st.active = states[current].active + n
    BY <2>3, <2>4 DEF StateRecord
  <2>6. states' = [states EXCEPT ![current] = st]
    BY <2>1, <2>3
  <2>7. Changes(states, states', current, st)
    BY <1>1, <2>2, <2>5, <2>6, StateChanges
  <2>8. /\ st.flushAt.requests \in Int /\ st.flushAt.bytes \in Int /\ st.counters.requests \in Int
    BY <1>1, <2>2, <2>5, StateFacts
  <2>9. SumsKept(states, states', n)
    <3>1. /\ Sum(FlushedRequests(states'), DOMAIN states') = Sum(FlushedRequests(states), DOMAIN states)
          /\ Sum(FlushedBytes(states'), DOMAIN states') = Sum(FlushedBytes(states), DOMAIN states)
      BY <1>2, <2>5, <2>7, <2>8 DEF Changes
    <3>2. Sum(CountedRequests(states'), DOMAIN states') = Sum(CountedRequests(states), DOMAIN states)
      BY <1>2, <2>5, <2>7, <2>8 DEF Changes
    <3>3. Sum(Actives(states'), DOMAIN states') = Sum(Actives(states), DOMAIN states) + n
      BY <1>2, <2>4, <2>5, <2>7 DEF Changes
    <3> QED BY <3>1, <3>2, <3>3 DEF SumsKept
  <2>10. AreStates(states') /\ Grown(states, states') /\ Len(states') = Len(states)
    BY <1>1, <2>5, <2>7 DEF Grown, Changes
  <2> QED BY <1>1, <1>4, <2>1, <2>2, <2>9, <2>10
<1>5. CASE "counts" \in keeps /\ current = 0
  <2>1. PICK st : st = [NewState EXCEPT !.active = n]
    OBVIOUS
  <2>2. states' = Append(states, st) /\ current' = Len(states) + 1 /\ flusher.pc # "reading"
    BY <1>5, <2>1 DEF state
  <2>3. st \in StateRecord /\ st.counters = Nothing /\ st.flushAt = Nothing /\ st.active = n
    BY <2>1 DEF NewState, StateRecord, Counted, Nothing
  <2>4. Nothing.requests = 0 /\ Nothing.bytes = 0
    BY DEF Nothing
  <2>5. Joins(states, states', st)
    BY <1>1, <2>2, <2>3, StateJoins
  <2>6. SumsKept(states, states', n)
    BY <1>2, <2>3, <2>4, <2>5 DEF SumsKept, Joins
  <2>7. AreStates(states') /\ Len(states') = Len(states) + 1
    BY <2>5 DEF Joins
  <2>8. DOMAIN states' = 1 .. Len(states')
    BY <2>7, StateFacts
  <2>9. Grown(states, states')
    BY <1>1, <2>3, <2>5, <2>7, <2>8 DEF Grown, Joins
  <2>10. current' \in 1 .. Len(states') /\ current' \notin DOMAIN states
    BY <1>1, <2>2, <2>7
  <2> QED BY <1>5, <2>2, <2>6, <2>7, <2>9, <2>10
<1> QED BY <1>3, <1>4, <1>5

-----------------------------------------------------------------------------
\* No request that is counted moves, and none becomes counted.
HitsKept(g, h, n) ==
    /\ h \in [Hits -> [pc : Points, state : Nat]]
    /\ \A r \in Hits : /\ HitOK(h[r], n)
                       /\ IsCounted(h[r]) <=> IsCounted(g[r])
                       /\ IsAdded(h[r]) <=> IsAdded(g[r])
                       /\ IsCounted(g[r]) => h[r].state = g[r].state

LEMMA SetsKept ==
    ASSUME NEW g, NEW h, NEW n, HitsKept(g, h, n)
    PROVE  /\ {r \in Hits : IsCounted(h[r])} = {r \in Hits : IsCounted(g[r])}
           /\ {r \in Hits : IsAdded(h[r])} = {r \in Hits : IsAdded(g[r])}
           /\ \A i : CountedAt(h, i) = CountedAt(g, i) /\ AddedAt(h, i) = AddedAt(g, i)
           /\ \A S \in SUBSET {r \in Hits : IsCounted(g[r])} : \A i : Of(h, S, i) = Of(g, S, i)
<1>1. \A r \in Hits : IsAdded(g[r]) => IsCounted(g[r])
  BY DEF IsAdded, IsCounted
<1>2. \A r \in Hits : /\ IsCounted(h[r]) <=> IsCounted(g[r])
                      /\ IsAdded(h[r]) <=> IsAdded(g[r])
                      /\ IsCounted(g[r]) => h[r].state = g[r].state
  BY DEF HitsKept
<1>3. \A i : CountedAt(h, i) = CountedAt(g, i) /\ AddedAt(h, i) = AddedAt(g, i)
  BY <1>1, <1>2 DEF CountedAt, AddedAt
<1>4. \A S \in SUBSET {r \in Hits : IsCounted(g[r])} : \A i : Of(h, S, i) = Of(g, S, i)
  BY <1>2 DEF Of
<1> QED BY <1>2, <1>3, <1>4

\* What a step that counts nothing leaves of the counts.
Moved(n) ==
    /\ AreStates(states') /\ Grown(states, states') /\ current' \in 0 .. Len(states')
    /\ "counts" \in keeps => SumsKept(states, states', n)
    /\ "counts" \notin keeps => states' = states
    /\ flusher.pc = "reading" => current' = current
    /\ current' = current \/ current' \notin DOMAIN states

UnderWay(h) == {r \in Hits : IsUnderWay(h[r])}

PastKept ==
    /\ DOMAIN past' = DOMAIN past /\ past'.lost = past.lost /\ past'.skipped = past.skipped
    /\ past'.after = past.after /\ past'.overlapped = past.overlapped

LEMMA StateMoved == ASSUME CountsType, NEW n \in Int, state(n) PROVE Moved(n)
<1>1. current' \in 0 .. Len(states')
  <2>1. current \in 0 .. Len(states)
    BY DEF CountsType
  <2> QED BY <2>1, StateCall
<1> QED BY <1>1, StateCall DEF Moved

LEMMA StateStays ==
    ASSUME CountsType, UNCHANGED states, current' = current \/ (current' = 0 /\ flusher.pc # "reading")
    PROVE  Moved(0)
<1>1. AreStates(states) /\ current \in 0 .. Len(states)
  BY DEF CountsType
<1>2. Sum(Actives(states), DOMAIN states) \in Int
  BY <1>1, SumsWhole
<1>3. Sum(Actives(states), DOMAIN states) = Sum(Actives(states), DOMAIN states) + 0
  BY <1>2
<1>4. DOMAIN states = 1 .. Len(states) /\ Len(states) \in Nat
  BY <1>1, StateFacts
<1>5. Grown(states, states) /\ 0 \notin DOMAIN states /\ 0 \in 0 .. Len(states)
  BY <1>4 DEF Grown
<1> QED BY <1>1, <1>3, <1>5 DEF Moved, SumsKept

\* A step that counts nothing keeps the accounts.
LEMMA KeepsCounts ==
    ASSUME CountsInv, NEW n \in Int, Moved(n), HitsKept(hit, hit', Len(states')),
           flusher' = flusher, samples' = samples, keeps' = keeps, PastKept,
           Cardinality(UnderWay(hit')) = Cardinality(UnderWay(hit)) + n
    PROVE  CountsInv'
<1>1. /\ CountsType /\ Balance /\ Exact(hit, states) /\ TailOK /\ LedgerOK
      /\ AreStates(states) /\ AreStates(states')
  BY DEF CountsInv, CountsType, Moved
<1>2. /\ DOMAIN states = 1 .. Len(states) /\ Len(states) \in Nat
      /\ DOMAIN states' = 1 .. Len(states') /\ Len(states') \in Nat
  BY <1>1, StateFacts
<1>3. /\ {r \in Hits : IsCounted(hit'[r])} = {r \in Hits : IsCounted(hit[r])}
      /\ {r \in Hits : IsAdded(hit'[r])} = {r \in Hits : IsAdded(hit[r])}
      /\ \A i : CountedAt(hit', i) = CountedAt(hit, i) /\ AddedAt(hit', i) = AddedAt(hit, i)
      /\ \A S \in SUBSET {r \in Hits : IsCounted(hit[r])} : \A i : Of(hit', S, i) = Of(hit, S, i)
  BY SetsKept
<1>4. ASSUME NEW i \in DOMAIN states' \ DOMAIN states
      PROVE  /\ CountedAt(hit, i) = {} /\ AddedAt(hit, i) = {}
             /\ \A S \in SUBSET Hits : Of(hit, S, i) = {}
             /\ states'[i].counters = Nothing /\ states'[i].flushAt = Nothing
  <2>1. i > Len(states) /\ i # 0
    BY <1>2
  <2>2. \A r \in Hits : hit[r].state <= Len(states) /\ hit[r].state \in Nat
    BY <1>1 DEF CountsType, HitOK
  <2>3. \A r \in Hits : hit[r].state # i
    BY <1>2, <2>1, <2>2
  <2>4. CountedAt(hit, i) = {} /\ AddedAt(hit, i) = {} /\ \A S \in SUBSET Hits : Of(hit, S, i) = {}
    BY <2>3 DEF CountedAt, AddedAt, Of
  <2> QED BY <2>4 DEF Moved, Grown
<1>5. \A i \in DOMAIN states : states'[i].counters = states[i].counters
                               /\ states'[i].flushAt = states[i].flushAt
  BY DEF Moved, Grown
<1>6. Nothing.requests = 0 /\ Nothing.bytes = 0 /\ Cardinality({}) = 0
  BY FS_EmptySet DEF Nothing
<1>7. CountsType'
  BY <1>1 DEF CountsType, HitsKept, Moved, PastKept
<1>8. Balance'
  <2>1. CASE "counts" \in keeps
    BY <1>1, <1>3, <2>1 DEF Balance, Moved, SumsKept, PastKept, UnderWay
  <2>2. CASE "counts" \notin keeps
    BY <1>1, <1>3, <2>2 DEF Balance, Moved, PastKept, UnderWay
  <2> QED BY <2>1, <2>2
<1>9. Exact(hit', states')
  <2> SUFFICES ASSUME NEW i \in DOMAIN states'
               PROVE  /\ states'[i].counters.requests = Cardinality(CountedAt(hit', i))
                      /\ states'[i].counters.bytes = Cardinality(AddedAt(hit', i))
    BY DEF Exact
  <2>1. CASE i \in DOMAIN states
    BY <1>1, <1>3, <1>5, <2>1 DEF Exact
  <2>2. CASE i \notin DOMAIN states
    BY <1>3, <1>4, <1>6, <2>2
  <2> QED BY <2>1, <2>2
<1>10. TailOK'
  <2> SUFFICES ASSUME flusher.final, current' # 0
               PROVE  states'[current'].counters.requests - LastRead(flusher, states'[current']) <= past.after
    BY DEF TailOK, PastKept
  <2>0. past.after \in Nat /\ current' \in DOMAIN states'
    BY <1>1, <1>2 DEF CountsType, Moved
  <2>1. CASE current' \in DOMAIN states
    <3>1. current' = current
      BY <2>1 DEF Moved
    <3> QED BY <1>1, <1>5, <2>1, <3>1 DEF TailOK, LastRead
  <2>2. CASE current' \notin DOMAIN states
    <3>1. flusher.pc # "reading"
      <4>1. flusher.pc = "reading" => current \in DOMAIN states
        BY <1>1, <1>2 DEF CountsType
      <4> QED BY <2>2, <4>1 DEF Moved
    <3> QED BY <1>4, <1>6, <2>0, <2>2, <3>1 DEF LastRead
  <2> QED BY <2>1, <2>2
<1>11. LedgerOK'
  <2>1. PICK Q, B, K, D \in SUBSET Hits :
          Ledger(hit, states, flusher, current, past.overlapped, past.skipped, Q, B, K, D)
    BY <1>1 DEF LedgerOK
  <2>2. /\ Q \subseteq {r \in Hits : IsCounted(hit[r])} /\ B \subseteq {r \in Hits : IsAdded(hit[r])}
        /\ B \subseteq {r \in Hits : IsCounted(hit[r])}
    BY <2>1 DEF Ledger, IsAdded, IsCounted
  <2>3. \A i : Of(hit', Q, i) = Of(hit, Q, i) /\ Of(hit', B, i) = Of(hit, B, i)
    BY <1>3, <2>2
  <2>4. ASSUME NEW i \in DOMAIN states'
        PROVE  /\ states'[i].flushAt.requests = Cardinality(Of(hit', Q, i))
               /\ states'[i].flushAt.bytes = Cardinality(Of(hit', B, i))
    <3>1. CASE i \in DOMAIN states
      BY <1>5, <2>1, <2>3, <3>1 DEF Ledger
    <3>2. CASE i \notin DOMAIN states
      BY <1>4, <1>6, <2>3, <3>2
    <3> QED BY <3>1, <3>2
  <2>5. \A r \in Hits : IsCounted(hit'[r]) <=> IsCounted(hit[r])
    BY DEF HitsKept
  <2>6. flusher.pc = "reading" => current' = current
    BY DEF Moved
  <2>7. Ledger(hit', states', flusher, current', past.overlapped, past.skipped, Q, B, K, D)
    BY <1>3, <2>1, <2>2, <2>3, <2>4, <2>5, <2>6 DEF Ledger
  <2> QED BY <2>7 DEF LedgerOK, PastKept
<1> QED BY <1>7, <1>8, <1>9, <1>10, <1>11 DEF CountsInv

\* Where a request is, and how many are under way.
LEMMA HitFacts ==
    ASSUME CountsType, NEW r \in Hits
    PROVE  /\ hit \in [Hits -> [pc : Points, state : Nat]] /\ HitOK(hit[r], Len(states))
           /\ hit[r].pc \in Points /\ hit[r].state \in Nat /\ Len(states) \in Nat
<1>1. AreStates(states) /\ hit \in [Hits -> [pc : Points, state : Nat]] /\ HitOK(hit[r], Len(states))
  BY DEF CountsType
<1> QED BY <1>1, StateFacts

LEMMA UnderWayMoves ==
    ASSUME CountsType, NEW r \in Hits, NEW x \in [pc : Points, state : Nat],
           hit' = [hit EXCEPT ![r] = x]
    PROVE  /\ IsUnderWay(x) /\ ~IsUnderWay(hit[r]) =>
                 Cardinality(UnderWay(hit')) = Cardinality(UnderWay(hit)) + 1
           /\ ~IsUnderWay(x) /\ IsUnderWay(hit[r]) =>
                 Cardinality(UnderWay(hit')) = Cardinality(UnderWay(hit)) - 1
           /\ (IsUnderWay(x) <=> IsUnderWay(hit[r])) =>
                 Cardinality(UnderWay(hit')) = Cardinality(UnderWay(hit)) + 0
<1>1. hit'[r] = x /\ \A q \in Hits \ {r} : hit'[q] = hit[q]
  BY DEF CountsType
<1>2. UnderWay(hit) \in SUBSET Hits /\ UnderWay(hit') \in SUBSET Hits
  BY DEF UnderWay
<1>3. ASSUME IsUnderWay(x), ~IsUnderWay(hit[r])
      PROVE  Cardinality(UnderWay(hit')) = Cardinality(UnderWay(hit)) + 1
  <2>1. UnderWay(hit') = UnderWay(hit) \cup {r} /\ r \notin UnderWay(hit)
    BY <1>1, <1>3 DEF UnderWay
  <2> QED BY <1>2, <2>1, OneMore
<1>4. ASSUME ~IsUnderWay(x), IsUnderWay(hit[r])
      PROVE  Cardinality(UnderWay(hit')) = Cardinality(UnderWay(hit)) - 1
  <2>1. UnderWay(hit) = UnderWay(hit') \cup {r} /\ r \notin UnderWay(hit')
    BY <1>1, <1>4 DEF UnderWay
  <2>2. Cardinality(UnderWay(hit)) = Cardinality(UnderWay(hit')) + 1
        /\ Cardinality(UnderWay(hit')) \in Nat
    BY <1>2, <2>1, OneMore
  <2> QED BY <2>2
<1>5. ASSUME IsUnderWay(x) <=> IsUnderWay(hit[r])
      PROVE  Cardinality(UnderWay(hit')) = Cardinality(UnderWay(hit)) + 0
  <2>1. UnderWay(hit') = UnderWay(hit)
    BY <1>1, <1>5 DEF UnderWay
  <2>2. Cardinality(UnderWay(hit)) \in Nat
    BY <1>2, SizeOf
  <2> QED BY <2>1, <2>2
<1> QED BY <1>3, <1>4, <1>5

\* A request that moves on without being counted.
LEMMA HitMoves ==
    ASSUME CountsType, NEW r \in Hits, NEW x \in [pc : Points, state : Nat], NEW n \in Nat,
           Len(states) <= n, hit' = [hit EXCEPT ![r] = x], HitOK(x, n),
           IsCounted(x) <=> IsCounted(hit[r]), IsAdded(x) <=> IsAdded(hit[r]),
           IsCounted(hit[r]) => x.state = hit[r].state
    PROVE  HitsKept(hit, hit', n)
<1>1. hit \in [Hits -> [pc : Points, state : Nat]]
  BY DEF CountsType
<1>2. hit'[r] = x /\ hit' \in [Hits -> [pc : Points, state : Nat]]
      /\ \A q \in Hits \ {r} : hit'[q] = hit[q]
  BY <1>1
<1>3. ASSUME NEW q \in Hits PROVE HitOK(hit[q], n)
  <2>1. hit[q].state <= Len(states) /\ hit[q].state \in Nat /\ Len(states) \in Nat
    BY HitFacts DEF HitOK
  <2>2. hit[q].state <= n
    BY <2>1
  <2> QED BY <2>2, HitFacts DEF HitOK
<1> QED BY <1>2, <1>3 DEF HitsKept

LEMMA HitsStay ==
    ASSUME CountsType, UNCHANGED <<hit, states>>
    PROVE  /\ HitsKept(hit, hit', Len(states'))
           /\ Cardinality(UnderWay(hit')) = Cardinality(UnderWay(hit)) + 0
<1>1. UnderWay(hit) \in SUBSET Hits
  BY DEF UnderWay
<1> QED BY <1>1, SizeOf DEF CountsType, HitsKept

\* The steps that count nothing.
LEMMA BeginCounts ==
    ASSUME CountsInv, NEW r \in Hits, Begin(r)
    PROVE  CountsInv'
<1>1. CountsType
  BY DEF CountsInv
<1>2. PICK x : x = [hit[r] EXCEPT !.pc = "served"]
  OBVIOUS
<1>3. /\ hit' = [hit EXCEPT ![r] = x] /\ x \in [pc : Points, state : Nat]
      /\ x.pc = "served" /\ x.state = 0 /\ hit[r].pc = "new" /\ hit[r].state = 0
  BY <1>1, <1>2, HitFacts DEF Begin, HitOK, Points
<1>4. Moved(1) /\ Len(states') \in Nat /\ Len(states) <= Len(states')
  <2>1. Moved(1)
    BY <1>1, StateMoved DEF Begin
  <2>2. AreStates(states') /\ Grown(states, states')
    BY <2>1 DEF Moved
  <2> QED BY <2>1, <2>2, StateFacts DEF Grown
<1>5. HitsKept(hit, hit', Len(states'))
  <2>1. HitOK(x, Len(states'))
    BY <1>1, <1>3, <1>4 DEF HitOK
  <2>2. /\ IsCounted(x) <=> IsCounted(hit[r])
        /\ IsAdded(x) <=> IsAdded(hit[r])
        /\ IsCounted(hit[r]) => x.state = hit[r].state
    BY <1>1, <1>3, <1>4 DEF IsCounted, IsAdded
  <2> QED BY <1>1, <1>3, <1>4, <2>1, <2>2, HitMoves
<1>6. Cardinality(UnderWay(hit')) = Cardinality(UnderWay(hit)) + 1
  BY <1>1, <1>3, UnderWayMoves DEF IsUnderWay
<1>9. flusher' = flusher /\ samples' = samples /\ keeps' = keeps /\ PastKept
  BY DEF Begin, PastKept
<1> QED BY <1>4, <1>5, <1>6, <1>9, KeepsCounts

LEMMA RecordFindCounts ==
    ASSUME CountsInv, NEW r \in Hits, RecordFind(r)
    PROVE  CountsInv'
<1>1. CountsType
  BY DEF CountsInv
<1>2. Moved(0) /\ AreStates(states') /\ Len(states') \in Nat /\ Len(states) <= Len(states')
      /\ current' \in 0 .. Len(states')
      /\ ("counts" \in keeps => current' # 0) /\ ("counts" \notin keeps => current' = 0)
  <2>1. Moved(0) /\ state(0)
    BY <1>1, StateMoved DEF RecordFind
  <2>2. AreStates(states') /\ Grown(states, states') /\ current' \in 0 .. Len(states')
    BY <2>1 DEF Moved
  <2>3. ("counts" \in keeps => current' \in 1 .. Len(states')) /\ ("counts" \notin keeps => current' = 0)
    BY <1>1, <2>1, StateCall
  <2> QED BY <2>1, <2>2, <2>3, StateFacts DEF Grown
<1>3. PICK x : x = [pc |-> IF "counts" \in keeps THEN "found" ELSE "entry", state |-> current']
  OBVIOUS
<1>4. /\ hit' = [hit EXCEPT ![r] = x] /\ x \in [pc : Points, state : Nat] /\ x.state = current'
      /\ (x.pc = "found" \/ (x.pc = "entry" /\ x.state = 0)) /\ hit[r].pc = "served" /\ hit[r].state = 0
      /\ x.pc = "found" => x.state # 0
  BY <1>1, <1>2, <1>3, HitFacts DEF RecordFind, HitOK, Points
<1>5. HitsKept(hit, hit', Len(states'))
  <2>1. HitOK(x, Len(states'))
    BY <1>1, <1>2, <1>4 DEF HitOK
  <2>2. /\ IsCounted(x) <=> IsCounted(hit[r])
        /\ IsAdded(x) <=> IsAdded(hit[r])
        /\ IsCounted(hit[r]) => x.state = hit[r].state
    BY <1>1, <1>2, <1>4 DEF IsCounted, IsAdded
  <2> QED BY <1>1, <1>2, <1>4, <2>1, <2>2, HitMoves
<1>6. Cardinality(UnderWay(hit')) = Cardinality(UnderWay(hit)) + 0
  BY <1>1, <1>4, UnderWayMoves DEF IsUnderWay
<1>9. flusher' = flusher /\ samples' = samples /\ keeps' = keeps /\ PastKept
  BY DEF RecordFind, PastKept
<1> QED BY <1>2, <1>5, <1>6, <1>9, KeepsCounts

LEMMA EndCounts ==
    ASSUME CountsInv, NEW r \in Hits, End(r)
    PROVE  CountsInv'
<1>1. CountsType
  BY DEF CountsInv
<1>2. PICK x : x = [hit[r] EXCEPT !.pc = "done"]
  OBVIOUS
<1>3. /\ hit' = [hit EXCEPT ![r] = x] /\ x \in [pc : Points, state : Nat]
      /\ x.pc = "done" /\ x.state = hit[r].state /\ hit[r].pc = "ending"
      /\ hit[r].state \in Nat /\ hit[r].state <= Len(states) /\ Len(states) \in Nat
  BY <1>1, <1>2, HitFacts DEF End, HitOK, Points
<1>4. Moved(-1) /\ Len(states') \in Nat /\ Len(states) <= Len(states')
  <2>1. Moved(-1)
    BY <1>1, StateMoved DEF End
  <2>2. AreStates(states') /\ Grown(states, states')
    BY <2>1 DEF Moved
  <2> QED BY <2>1, <2>2, StateFacts DEF Grown
<1>5. x.state <= Len(states')
  BY <1>3, <1>4
<1>6. HitsKept(hit, hit', Len(states'))
  <2>1. HitOK(x, Len(states'))
    BY <1>1, <1>3, <1>4, <1>5 DEF HitOK
  <2>2. /\ IsCounted(x) <=> IsCounted(hit[r])
        /\ IsAdded(x) <=> IsAdded(hit[r])
        /\ IsCounted(hit[r]) => x.state = hit[r].state
    BY <1>1, <1>3, <1>4, <1>5 DEF IsCounted, IsAdded
  <2> QED BY <1>1, <1>3, <1>4, <1>5, <2>1, <2>2, HitMoves
<1>7. Cardinality(UnderWay(hit')) = Cardinality(UnderWay(hit)) + (-1)
  <2>1. Cardinality(UnderWay(hit')) = Cardinality(UnderWay(hit)) - 1
    BY <1>1, <1>3, UnderWayMoves DEF IsUnderWay
  <2>2. UnderWay(hit) \in SUBSET Hits
    BY DEF UnderWay
  <2> QED BY <2>1, <2>2, SizeOf
<1>9. flusher' = flusher /\ samples' = samples /\ keeps' = keeps /\ PastKept
  BY DEF End, PastKept
<1> QED BY <1>4, <1>6, <1>7, <1>9, KeepsCounts

\* The entry of a request is not counted here.
LEMMA EntryCounts ==
    ASSUME CountsInv, NEW r \in Hits, RecordEntry(r) \/ RecordNoEntry(r)
    PROVE  CountsInv'
<1>1. CountsType
  BY DEF CountsInv
<1>2. PICK x : x = [hit[r] EXCEPT !.pc = "ending"]
  OBVIOUS
<1>3. /\ hit' = [hit EXCEPT ![r] = x] /\ x \in [pc : Points, state : Nat]
      /\ x.pc = "ending" /\ x.state = hit[r].state /\ hit[r].pc = "entry"
      /\ hit[r].state \in Nat /\ hit[r].state <= Len(states) /\ Len(states) \in Nat
      /\ states' = states /\ current' = current /\ flusher' = flusher /\ samples' = samples /\ keeps' = keeps
  BY <1>1, <1>2, HitFacts DEF RecordEntry, RecordNoEntry, HitOK, Points
<1>4. Moved(0)
  BY <1>1, <1>3, StateStays
<1>5. HitsKept(hit, hit', Len(states'))
  <2>1. HitOK(x, Len(states'))
    BY <1>1, <1>3 DEF HitOK
  <2>2. /\ IsCounted(x) <=> IsCounted(hit[r])
        /\ IsAdded(x) <=> IsAdded(hit[r])
        /\ IsCounted(hit[r]) => x.state = hit[r].state
    BY <1>1, <1>3 DEF IsCounted, IsAdded
  <2>3. Len(states) <= Len(states') /\ Len(states') \in Nat
    BY <1>3
  <2> QED BY <1>1, <1>3, <2>1, <2>2, <2>3, HitMoves
<1>6. Cardinality(UnderWay(hit')) = Cardinality(UnderWay(hit)) + 0
  BY <1>1, <1>3, UnderWayMoves DEF IsUnderWay
<1>7. PastKept
  BY <1>1 DEF RecordEntry, RecordNoEntry, PastKept, CountsType
<1>8. flusher' = flusher /\ samples' = samples /\ keeps' = keeps
  BY <1>3
<1> QED BY <1>4, <1>5, <1>6, <1>7, <1>8, KeepsCounts

\* A request that breaks off is not counted.
LEMMA AnswerBreaksCounts ==
    ASSUME CountsInv, NEW r \in Hits, AnswerBreaks(r)
    PROVE  CountsInv'
<1>1. CountsType
  BY DEF CountsInv
<1>2. PICK x : x = [hit[r] EXCEPT !.pc = "ending"]
  OBVIOUS
<1>3. /\ hit' = [hit EXCEPT ![r] = x] /\ x \in [pc : Points, state : Nat]
      /\ x.pc = "ending" /\ x.state = hit[r].state /\ hit[r].pc = "served" /\ hit[r].state = 0
      /\ hit[r].state \in Nat /\ hit[r].state <= Len(states) /\ Len(states) \in Nat
      /\ states' = states /\ current' = current /\ flusher' = flusher /\ samples' = samples /\ keeps' = keeps
  BY <1>1, <1>2, HitFacts DEF AnswerBreaks, HitOK, Points
<1>4. Moved(0)
  BY <1>1, <1>3, StateStays
<1>5. HitsKept(hit, hit', Len(states'))
  <2>1. HitOK(x, Len(states'))
    BY <1>1, <1>3 DEF HitOK
  <2>2. /\ IsCounted(x) <=> IsCounted(hit[r])
        /\ IsAdded(x) <=> IsAdded(hit[r])
        /\ IsCounted(hit[r]) => x.state = hit[r].state
    BY <1>1, <1>3 DEF IsCounted, IsAdded
  <2>3. Len(states) <= Len(states') /\ Len(states') \in Nat
    BY <1>3
  <2> QED BY <1>1, <1>3, <2>1, <2>2, <2>3, HitMoves
<1>6. Cardinality(UnderWay(hit')) = Cardinality(UnderWay(hit)) + 0
  BY <1>1, <1>3, UnderWayMoves DEF IsUnderWay
<1>7. PastKept
  BY <1>1 DEF AnswerBreaks, PastKept, CountsType
<1>8. flusher' = flusher /\ samples' = samples /\ keeps' = keeps
  BY <1>3
<1> QED BY <1>4, <1>5, <1>6, <1>7, <1>8, KeepsCounts

\* What neither counts nor moves a request.
LEMMA OtherCounts ==
    ASSUME CountsInv, UNCHANGED <<keeps, hit, states, flusher, samples, past>>,
           current' = current \/ (current' = 0 /\ flusher.pc # "reading")
    PROVE  CountsInv'
<1>1. CountsType
  BY DEF CountsInv
<1>2. Moved(0) /\ PastKept
  BY <1>1, StateStays DEF PastKept
<1> QED BY <1>1, <1>2, HitsStay, KeepsCounts

-----------------------------------------------------------------------------
\* One more in the counters of the state a request has found.
LEMMA CounterMoves ==
    ASSUME CountsType, Balance, NEW i \in DOMAIN states, NEW st \in StateRecord,
           st.flushAt = states[i].flushAt, st.active = states[i].active,
           states' = [states EXCEPT ![i] = st]
    PROVE  /\ AreStates(states') /\ Len(states') = Len(states) /\ DOMAIN states' = DOMAIN states
           /\ states'[i] = st /\ \A j \in DOMAIN states : j # i => states'[j] = states[j]
           /\ Sum(FlushedRequests(states'), DOMAIN states') = Sum(FlushedRequests(states), DOMAIN states)
           /\ Sum(FlushedBytes(states'), DOMAIN states') = Sum(FlushedBytes(states), DOMAIN states)
           /\ Sum(Actives(states'), DOMAIN states') = Sum(Actives(states), DOMAIN states)
           /\ Sum(CountedRequests(states'), DOMAIN states')
                 = Sum(CountedRequests(states), DOMAIN states)
                   - states[i].counters.requests + st.counters.requests
<1>1. AreStates(states)
  BY DEF CountsType
<1>2. Changes(states, states', i, st)
  BY <1>1, StateChanges
<1>3. /\ st.flushAt.requests \in Int /\ st.flushAt.bytes \in Int /\ st.active \in Int
  BY <1>1, StateFacts
<1>4. /\ Sum(FlushedRequests(states), DOMAIN states) \in Int
      /\ Sum(FlushedBytes(states), DOMAIN states) \in Int
      /\ Sum(Actives(states), DOMAIN states) \in Int
  BY <1>1, SumsWhole
<1>5. /\ AreStates(states') /\ Len(states') = Len(states) /\ DOMAIN states' = DOMAIN states
      /\ states'[i] = st /\ \A j \in DOMAIN states : j # i => states'[j] = states[j]
  BY <1>2 DEF Changes
<1>6. Sum(FlushedRequests(states'), DOMAIN states') = Sum(FlushedRequests(states), DOMAIN states)
  BY <1>2, <1>3, <1>4 DEF Changes
<1>7. Sum(FlushedBytes(states'), DOMAIN states') = Sum(FlushedBytes(states), DOMAIN states)
  BY <1>2, <1>3, <1>4 DEF Changes
<1>8. Sum(Actives(states'), DOMAIN states') = Sum(Actives(states), DOMAIN states)
  BY <1>2, <1>3, <1>4 DEF Changes
<1>9. Sum(CountedRequests(states'), DOMAIN states')
         = Sum(CountedRequests(states), DOMAIN states)
           - states[i].counters.requests + st.counters.requests
  BY <1>2 DEF Changes
<1> QED BY <1>5, <1>6, <1>7, <1>8, <1>9

\* The state a request has found.
LEMMA StateFound ==
    ASSUME CountsType, NEW r \in Hits, hit[r].pc \in {"found", "counted"}
    PROVE  /\ hit[r].state \in DOMAIN states /\ states[hit[r].state] \in StateRecord
           /\ "counts" \in keeps /\ hit[r].state # 0
<1>1. /\ HitOK(hit[r], Len(states)) /\ hit[r].state \in Nat /\ Len(states) \in Nat
      /\ AreStates(states)
  BY HitFacts DEF CountsType
<1>2. hit[r].state # 0 /\ hit[r].state <= Len(states)
  BY <1>1 DEF HitOK
<1>3. DOMAIN states = 1 .. Len(states) /\ hit[r].state \in DOMAIN states
  BY <1>1, <1>2, StateFacts
<1>4. "counts" \notin keeps => Len(states) = 0
  BY DEF CountsType
<1> QED BY <1>1, <1>2, <1>3, <1>4, StateFacts

\* The first count of a request.
LEMMA RequestCounts ==
    ASSUME CountsInv, NEW r \in Hits, RecordRequest(r)
    PROVE  CountsInv'
<1>1. CountsType /\ Balance /\ Exact(hit, states) /\ TailOK /\ LedgerOK
  BY DEF CountsInv
<1>2. PICK i, x, st : /\ i = hit[r].state /\ x = [hit[r] EXCEPT !.pc = "counted"]
                      /\ st = [states[i] EXCEPT !.counters.requests = @ + 1]
  OBVIOUS
<1>3. /\ i \in DOMAIN states /\ states[i] \in StateRecord /\ "counts" \in keeps /\ i # 0
      /\ hit[r].pc = "found" /\ hit[r] \in [pc : Points, state : Nat]
  BY <1>1, <1>2, StateFound, HitFacts DEF RecordRequest
<1>4. /\ st \in StateRecord /\ st.flushAt = states[i].flushAt /\ st.active = states[i].active
      /\ st.counters.requests = states[i].counters.requests + 1
      /\ st.counters.bytes = states[i].counters.bytes
      /\ states[i].counters.requests \in Int
  BY <1>2, <1>3 DEF StateRecord, Counted
<1>5. x \in [pc : Points, state : Nat] /\ x.pc = "counted" /\ x.state = i
  BY <1>2, <1>3 DEF Points
<1>6. states' = [states EXCEPT ![i] = st] /\ hit' = [hit EXCEPT ![r] = x]
      /\ current' = current /\ flusher' = flusher /\ samples' = samples /\ keeps' = keeps
  BY <1>2 DEF RecordRequest
<1>7. /\ AreStates(states') /\ Len(states') = Len(states) /\ DOMAIN states' = DOMAIN states
      /\ states'[i] = st /\ \A j \in DOMAIN states : j # i => states'[j] = states[j]
      /\ Sum(FlushedRequests(states'), DOMAIN states') = Sum(FlushedRequests(states), DOMAIN states)
      /\ Sum(FlushedBytes(states'), DOMAIN states') = Sum(FlushedBytes(states), DOMAIN states)
      /\ Sum(Actives(states'), DOMAIN states') = Sum(Actives(states), DOMAIN states)
      /\ Sum(CountedRequests(states'), DOMAIN states')
            = Sum(CountedRequests(states), DOMAIN states) - states[i].counters.requests + st.counters.requests
  BY <1>1, <1>3, <1>4, <1>6, CounterMoves
<1>8. /\ hit' \in [Hits -> [pc : Points, state : Nat]] /\ hit'[r] = x
      /\ \A q \in Hits \ {r} : hit'[q] = hit[q]
  BY <1>1, <1>5, <1>6, HitFacts
<1>9. /\ DOMAIN past' = DOMAIN past /\ past'.lost = past.lost /\ past'.skipped = past.skipped
      /\ past'.overlapped = IF flusher.pc = "reading" THEN past.overlapped \cup {r} ELSE past.overlapped
      /\ past'.after = IF flusher.final THEN past.after + 1 ELSE past.after
  BY <1>1 DEF RecordRequest, CountsType
<1>10. /\ {q \in Hits : IsCounted(hit'[q])} = {q \in Hits : IsCounted(hit[q])} \cup {r}
       /\ {q \in Hits : IsAdded(hit'[q])} = {q \in Hits : IsAdded(hit[q])}
       /\ ~IsCounted(hit[r]) /\ ~IsAdded(hit[r])
  BY <1>3, <1>5, <1>8 DEF IsCounted, IsAdded
<1>11. /\ CountedAt(hit', i) = CountedAt(hit, i) \cup {r} /\ r \notin CountedAt(hit, i)
       /\ \A j : j # i => CountedAt(hit', j) = CountedAt(hit, j)
       /\ \A j : AddedAt(hit', j) = AddedAt(hit, j)
       /\ \A S \in SUBSET Hits : \A j : Of(hit', S, j) = Of(hit, S, j)
  <2>1. hit[r].state = hit'[r].state
    BY <1>2, <1>5, <1>8
  <2>2. CountedAt(hit', i) = CountedAt(hit, i) \cup {r} /\ r \notin CountedAt(hit, i)
    BY <1>3, <1>5, <1>8 DEF CountedAt, IsCounted
  <2>3. \A j : j # i => CountedAt(hit', j) = CountedAt(hit, j)
    BY <1>2, <1>5, <1>8 DEF CountedAt
  <2>4. \A j : AddedAt(hit', j) = AddedAt(hit, j)
    BY <1>3, <1>5, <1>8 DEF AddedAt, IsAdded
  <2>5. \A S \in SUBSET Hits : \A j : Of(hit', S, j) = Of(hit, S, j)
    BY <1>8, <2>1 DEF Of
  <2> QED BY <2>2, <2>3, <2>4, <2>5
<1>12. CountsType'
  <2>1. \A q \in Hits : HitOK(hit'[q], Len(states'))
    <3>1. HitOK(x, Len(states))
      BY <1>1, <1>2, <1>3, <1>5, HitFacts DEF HitOK
    <3>2. \A q \in Hits : HitOK(hit[q], Len(states))
      BY <1>1, HitFacts
    <3> QED BY <1>7, <1>8, <3>1, <3>2
  <2>2. /\ past'.lost \in Amount /\ past'.skipped \in Nat /\ past'.after \in Nat
        /\ past'.overlapped \in SUBSET Hits
        /\ DOMAIN past' = DOMAIN past
    BY <1>1, <1>9 DEF CountsType
  <2> QED BY <1>1, <1>3, <1>6, <1>7, <1>8, <2>1, <2>2 DEF CountsType
<1>13. Balance'
  <2>1. {q \in Hits : IsCounted(hit[q])} \in SUBSET Hits
    OBVIOUS
  <2>2. Cardinality({q \in Hits : IsCounted(hit'[q])}) = Cardinality({q \in Hits : IsCounted(hit[q])}) + 1
    BY <1>10, <2>1, OneMore
  <2>3. Cardinality(UnderWay(hit')) = Cardinality(UnderWay(hit))
    <3>1. UnderWay(hit') = UnderWay(hit)
      BY <1>3, <1>5, <1>8 DEF UnderWay, IsUnderWay
    <3> QED BY <3>1
  <2>4. Sum(CountedRequests(states'), DOMAIN states') = Sum(CountedRequests(states), DOMAIN states) + 1
    <3>1. AreStates(states)
      BY <1>1 DEF CountsType
    <3>2. Sum(CountedRequests(states), DOMAIN states) \in Int
      BY <3>1, SumsWhole
    <3> QED BY <1>4, <1>7, <3>2
  <2> QED BY <1>1, <1>6, <1>7, <1>9, <2>2, <2>3, <2>4 DEF Balance, UnderWay
<1>14. Exact(hit', states')
  <2> SUFFICES ASSUME NEW j \in DOMAIN states
               PROVE  /\ states'[j].counters.requests = Cardinality(CountedAt(hit', j))
                      /\ states'[j].counters.bytes = Cardinality(AddedAt(hit', j))
    BY <1>7 DEF Exact
  <2>1. CASE j = i
    <3>1. CountedAt(hit, i) \in SUBSET Hits
      BY DEF CountedAt
    <3>2. Cardinality(CountedAt(hit', i)) = Cardinality(CountedAt(hit, i)) + 1
      BY <1>11, <3>1, OneMore
    <3> QED BY <1>1, <1>4, <1>7, <1>11, <2>1, <3>2 DEF Exact
  <2>2. CASE j # i
    BY <1>1, <1>7, <1>11, <2>2 DEF Exact
  <2> QED BY <2>1, <2>2
<1>15. TailOK'
  <2> SUFFICES ASSUME flusher.final, current # 0
               PROVE  states'[current].counters.requests - LastRead(flusher, states'[current]) <= past.after + 1
    BY <1>6, <1>9 DEF TailOK
  <2>1. /\ current \in DOMAIN states /\ AreStates(states) /\ past.after \in Nat
        /\ flusher.read \in Nat /\ flusher \in FlushState
    <3>1. AreStates(states) /\ current \in 0 .. Len(states) /\ flusher \in FlushState /\ past.after \in Nat
      BY <1>1 DEF CountsType
    <3> QED BY <3>1, StateFacts DEF FlushState
  <2>2. states[current].counters.requests - LastRead(flusher, states[current]) <= past.after
    BY <1>1 DEF TailOK
  <2>3. LastRead(flusher, states'[current]) = LastRead(flusher, states[current])
        /\ LastRead(flusher, states[current]) \in Int /\ states[current].counters.requests \in Int
    <3>1. /\ states[current].counters.requests \in Int
          /\ states[current].flushAt.requests \in Int
      BY <2>1, StateFacts
    <3>2. states'[current].flushAt = states[current].flushAt
      BY <1>4, <1>7, <2>1
    <3>3. LastRead(flusher, states'[current]) = LastRead(flusher, states[current])
      BY <3>2 DEF LastRead
    <3>4. LastRead(flusher, states[current]) \in Int
      BY <2>1, <3>1 DEF LastRead
    <3> QED BY <3>1, <3>3, <3>4
  <2>4. states'[current].counters.requests \in {states[current].counters.requests, states[current].counters.requests + 1}
    BY <1>4, <1>7, <2>1
  <2> QED BY <2>1, <2>2, <2>3, <2>4
<1>16. LedgerOK'
  <2>1. PICK Q, B, K, D \in SUBSET Hits :
          Ledger(hit, states, flusher, current, past.overlapped, past.skipped, Q, B, K, D)
    BY <1>1 DEF LedgerOK
  <2>2. /\ Q \subseteq {q \in Hits : IsCounted(hit'[q])} /\ B \subseteq {q \in Hits : IsAdded(hit'[q])}
        /\ r \notin Q /\ r \notin B
    BY <1>10, <2>1 DEF Ledger
  <2>3. \A j \in DOMAIN states' : /\ states'[j].flushAt.requests = Cardinality(Of(hit', Q, j))
                                  /\ states'[j].flushAt.bytes = Cardinality(Of(hit', B, j))
    BY <1>4, <1>7, <1>11, <2>1 DEF Ledger
  <2>4. past.overlapped \subseteq past'.overlapped /\ (flusher.pc = "reading" => r \in past'.overlapped)
    BY <1>9
  <2>5. K \subseteq B \cap past'.overlapped /\ Cardinality(K) = past'.skipped
    BY <1>9, <2>1, <2>4 DEF Ledger
  <2>6. \A q \in Hits \ past'.overlapped : IsCounted(hit'[q]) => (q \in Q <=> q \in B)
    BY <1>8, <2>1, <2>2, <2>4 DEF Ledger
  <2>7. ASSUME flusher.pc = "reading"
        PROVE  /\ Of(hit', Q, current) \subseteq D /\ D \subseteq CountedAt(hit', current)
               /\ Cardinality(D) = flusher.read /\ CountedAt(hit', current) \ D \subseteq past'.overlapped
    <3>1. CountedAt(hit, current) \subseteq CountedAt(hit', current)
          /\ CountedAt(hit', current) \subseteq CountedAt(hit, current) \cup {r}
      BY <1>11
    <3> QED BY <1>11, <2>1, <2>4, <2>7, <3>1 DEF Ledger
  <2>8. Ledger(hit', states', flusher, current, past'.overlapped, past'.skipped, Q, B, K, D)
    BY <2>2, <2>3, <2>5, <2>6, <2>7 DEF Ledger
  <2> QED BY <1>6, <2>8 DEF LedgerOK
<1> QED BY <1>12, <1>13, <1>14, <1>15, <1>16 DEF CountsInv

\* The rest of the counts.
LEMMA BytesCounts ==
    ASSUME CountsInv, NEW r \in Hits, RecordBytes(r)
    PROVE  CountsInv'
<1>1. CountsType /\ Balance /\ Exact(hit, states) /\ TailOK /\ LedgerOK
  BY DEF CountsInv
<1>2. PICK i, x, st : /\ i = hit[r].state /\ x = [hit[r] EXCEPT !.pc = "entry"]
                      /\ st = [states[i] EXCEPT !.counters.bytes = @ + 1]
  OBVIOUS
<1>3. /\ i \in DOMAIN states /\ states[i] \in StateRecord /\ "counts" \in keeps /\ i # 0
      /\ hit[r].pc = "counted" /\ hit[r] \in [pc : Points, state : Nat]
  BY <1>1, <1>2, StateFound, HitFacts DEF RecordBytes
<1>4. /\ st \in StateRecord /\ st.flushAt = states[i].flushAt /\ st.active = states[i].active
      /\ st.counters.bytes = states[i].counters.bytes + 1
      /\ st.counters.requests = states[i].counters.requests
      /\ states[i].counters.requests \in Int
  BY <1>2, <1>3 DEF StateRecord, Counted
<1>5. x \in [pc : Points, state : Nat] /\ x.pc = "entry" /\ x.state = i
  BY <1>2, <1>3 DEF Points
<1>6. states' = [states EXCEPT ![i] = st] /\ hit' = [hit EXCEPT ![r] = x]
      /\ current' = current /\ flusher' = flusher /\ samples' = samples /\ keeps' = keeps
  BY <1>2 DEF RecordBytes
<1>7. /\ AreStates(states') /\ Len(states') = Len(states) /\ DOMAIN states' = DOMAIN states
      /\ states'[i] = st /\ \A j \in DOMAIN states : j # i => states'[j] = states[j]
      /\ Sum(FlushedRequests(states'), DOMAIN states') = Sum(FlushedRequests(states), DOMAIN states)
      /\ Sum(FlushedBytes(states'), DOMAIN states') = Sum(FlushedBytes(states), DOMAIN states)
      /\ Sum(Actives(states'), DOMAIN states') = Sum(Actives(states), DOMAIN states)
      /\ Sum(CountedRequests(states'), DOMAIN states')
            = Sum(CountedRequests(states), DOMAIN states) - states[i].counters.requests + st.counters.requests
  BY <1>1, <1>3, <1>4, <1>6, CounterMoves
<1>8. /\ hit' \in [Hits -> [pc : Points, state : Nat]] /\ hit'[r] = x
      /\ \A q \in Hits \ {r} : hit'[q] = hit[q]
  BY <1>1, <1>5, <1>6, HitFacts
<1>9. past' = past
  BY DEF RecordBytes
<1>10. /\ {q \in Hits : IsCounted(hit'[q])} = {q \in Hits : IsCounted(hit[q])}
       /\ {q \in Hits : IsAdded(hit[q])} \subseteq {q \in Hits : IsAdded(hit'[q])}
       /\ \A q \in Hits : IsCounted(hit'[q]) <=> IsCounted(hit[q])
  BY <1>2, <1>3, <1>5, <1>8 DEF IsCounted, IsAdded
<1>11. /\ AddedAt(hit', i) = AddedAt(hit, i) \cup {r} /\ r \notin AddedAt(hit, i)
       /\ \A j : j # i => AddedAt(hit', j) = AddedAt(hit, j)
       /\ \A j : CountedAt(hit', j) = CountedAt(hit, j)
       /\ \A S \in SUBSET Hits : \A j : Of(hit', S, j) = Of(hit, S, j)
  <2>1. hit[r].state = hit'[r].state
    BY <1>2, <1>5, <1>8
  <2>2. AddedAt(hit', i) = AddedAt(hit, i) \cup {r} /\ r \notin AddedAt(hit, i)
    BY <1>2, <1>3, <1>5, <1>8 DEF AddedAt, IsAdded
  <2>3. \A j : j # i => AddedAt(hit', j) = AddedAt(hit, j)
    BY <1>2, <1>5, <1>8 DEF AddedAt
  <2>4. \A j : CountedAt(hit', j) = CountedAt(hit, j)
    BY <1>2, <1>3, <1>5, <1>8 DEF CountedAt, IsCounted
  <2>5. \A S \in SUBSET Hits : \A j : Of(hit', S, j) = Of(hit, S, j)
    BY <1>8, <2>1 DEF Of
  <2> QED BY <2>2, <2>3, <2>4, <2>5
<1>12. CountsType'
  <2>1. \A q \in Hits : HitOK(hit'[q], Len(states'))
    <3>1. HitOK(x, Len(states))
      BY <1>1, <1>2, <1>3, <1>5, HitFacts DEF HitOK
    <3>2. \A q \in Hits : HitOK(hit[q], Len(states))
      BY <1>1, HitFacts
    <3> QED BY <1>7, <1>8, <3>1, <3>2
  <2>2. /\ past'.lost \in Amount /\ past'.skipped \in Nat /\ past'.after \in Nat
        /\ past'.overlapped \in SUBSET Hits
        /\ DOMAIN past' = DOMAIN past
    BY <1>1, <1>9 DEF CountsType
  <2> QED BY <1>1, <1>3, <1>6, <1>7, <1>8, <2>1, <2>2 DEF CountsType
<1>13. Balance'
  <2>1. UnderWay(hit') = UnderWay(hit)
    BY <1>3, <1>5, <1>8 DEF UnderWay, IsUnderWay
  <2>2. Sum(CountedRequests(states'), DOMAIN states') = Sum(CountedRequests(states), DOMAIN states)
    <3>1. AreStates(states)
      BY <1>1 DEF CountsType
    <3>2. Sum(CountedRequests(states), DOMAIN states) \in Int
      BY <3>1, SumsWhole
    <3> QED BY <1>4, <1>7, <3>2
  <2> QED BY <1>1, <1>6, <1>7, <1>9, <1>10, <2>1, <2>2 DEF Balance, UnderWay
<1>14. Exact(hit', states')
  <2> SUFFICES ASSUME NEW j \in DOMAIN states
               PROVE  /\ states'[j].counters.requests = Cardinality(CountedAt(hit', j))
                      /\ states'[j].counters.bytes = Cardinality(AddedAt(hit', j))
    BY <1>7 DEF Exact
  <2>1. CASE j = i
    <3>1. AddedAt(hit, i) \in SUBSET Hits
      BY DEF AddedAt
    <3>2. Cardinality(AddedAt(hit', i)) = Cardinality(AddedAt(hit, i)) + 1
      BY <1>11, <3>1, OneMore
    <3> QED BY <1>1, <1>4, <1>7, <1>11, <2>1, <3>2 DEF Exact
  <2>2. CASE j # i
    BY <1>1, <1>7, <1>11, <2>2 DEF Exact
  <2> QED BY <2>1, <2>2
<1>15. TailOK'
  <2>1. current # 0 => current \in DOMAIN states
    <3>1. AreStates(states) /\ current \in 0 .. Len(states)
      BY <1>1 DEF CountsType
    <3> QED BY <3>1, StateFacts
  <2>2. current # 0 => /\ states'[current].counters.requests = states[current].counters.requests
                       /\ LastRead(flusher, states'[current]) = LastRead(flusher, states[current])
    BY <1>4, <1>7, <2>1 DEF LastRead
  <2> QED BY <1>1, <1>6, <1>9, <2>2 DEF TailOK
<1>16. LedgerOK'
  <2>1. PICK Q, B, K, D \in SUBSET Hits :
          Ledger(hit, states, flusher, current, past.overlapped, past.skipped, Q, B, K, D)
    BY <1>1 DEF LedgerOK
  <2>2. Q \subseteq {q \in Hits : IsCounted(hit'[q])} /\ B \subseteq {q \in Hits : IsAdded(hit'[q])}
    BY <1>10, <2>1 DEF Ledger
  <2>3. \A j \in DOMAIN states' : /\ states'[j].flushAt.requests = Cardinality(Of(hit', Q, j))
                                  /\ states'[j].flushAt.bytes = Cardinality(Of(hit', B, j))
    BY <1>4, <1>7, <1>11, <2>1 DEF Ledger
  <2>4. Ledger(hit', states', flusher, current, past.overlapped, past.skipped, Q, B, K, D)
    BY <1>10, <1>11, <2>1, <2>2, <2>3 DEF Ledger
  <2> QED BY <1>6, <1>9, <2>4 DEF LedgerOK
<1> QED BY <1>12, <1>13, <1>14, <1>15, <1>16 DEF CountsInv

\* A flush begins: it reads the requests of the counters there are.
LEMMA FlushBegins ==
    ASSUME CountsInv, NEW final \in BOOLEAN, FlushBegin(final)
    PROVE  CountsInv'
<1>1. CountsType /\ Balance /\ Exact(hit, states) /\ TailOK /\ LedgerOK
  BY DEF CountsInv
<1>2. /\ flusher \in FlushState /\ flusher.pc = "select" /\ flusher.sample = Nothing
      /\ ~flusher.final /\ AreStates(states) /\ current \in 0 .. Len(states)
      /\ past.after \in Nat
      /\ UNCHANGED <<keeps, hit, states, current, samples, past>>
  BY <1>1 DEF FlushBegin, CountsType
<1>3. current # 0 => /\ current \in DOMAIN states /\ states[current].counters.requests \in Nat
  <2>1. current # 0 => current \in DOMAIN states /\ states[current] \in StateRecord
    BY <1>2, StateFacts
  <2> QED BY <2>1 DEF StateRecord, Counted
<1>4. /\ flusher' \in FlushState /\ flusher'.sample = Nothing /\ flusher'.final = final
      /\ flusher'.pc = "reading" => current # 0 /\ flusher'.read = states[current].counters.requests
      /\ flusher'.pc # "reading" => current = 0 /\ flusher'.pc = (IF final THEN "done" ELSE "select")
  BY <1>2, <1>3 DEF FlushBegin, Select, FlushState
<1>5. CountsType'
  BY <1>1, <1>2, <1>4 DEF CountsType
<1>6. Balance'
  BY <1>1, <1>2, <1>4 DEF Balance
<1>7. Exact(hit', states')
  BY <1>1, <1>2
<1>8. TailOK'
  <2>1. current # 0 => states[current].counters.requests - LastRead(flusher', states[current]) = 0
    BY <1>3, <1>4 DEF LastRead
  <2> QED BY <1>2, <2>1 DEF TailOK
<1>9. LedgerOK'
  <2>1. PICK Q, B, K, D \in SUBSET Hits :
          Ledger(hit, states, flusher, current, past.overlapped, past.skipped, Q, B, K, D)
    BY <1>1 DEF LedgerOK
  <2>2. PICK E \in SUBSET Hits : E = CountedAt(hit, current)
    BY DEF CountedAt
  <2>3. Of(hit, Q, current) \subseteq E
    BY <2>1, <2>2 DEF Ledger, Of, CountedAt
  <2>4. flusher'.pc = "reading" => Cardinality(E) = flusher'.read
    BY <1>1, <1>3, <1>4, <2>2 DEF Exact
  <2>5. Ledger(hit, states, flusher', current, past.overlapped, past.skipped, Q, B, K, E)
    BY <2>1, <2>2, <2>3, <2>4 DEF Ledger
  <2> QED BY <1>2, <2>5 DEF LedgerOK
<1> QED BY <1>5, <1>6, <1>7, <1>8, <1>9 DEF CountsInv

\* The requests and the bytes that the new baselines stand for.
NewBaselines(Q, B, D, A, o) ==
    /\ Of(hit, Q \cup D, current) = D /\ Cardinality(D) = flusher.read
    /\ Of(hit, B \cup A, current) = A
    /\ Q \cup D \subseteq {r \in Hits : IsCounted(hit[r])}
    /\ B \cup A \subseteq {r \in Hits : IsAdded(hit[r])}
    /\ \A j : j # current => Of(hit, Q \cup D, j) = Of(hit, Q, j) /\ Of(hit, B \cup A, j) = Of(hit, B, j)
    /\ \A r \in Hits \ o : IsCounted(hit[r]) => (r \in Q \cup D <=> r \in B \cup A)
    /\ flusher.read = states[current].flushAt.requests => A \ B \subseteq past.overlapped

LEMMA Read ==
    ASSUME CountsInv, flusher.pc = "reading",
           NEW Q \in SUBSET Hits, NEW B \in SUBSET Hits, NEW K \in SUBSET Hits, NEW D \in SUBSET Hits,
           Ledger(hit, states, flusher, current, past.overlapped, past.skipped, Q, B, K, D),
           NEW o \in SUBSET Hits, o = past.overlapped \cup {r \in Hits : hit[r].pc = "counted"}
    PROVE  NewBaselines(Q, B, D, AddedAt(hit, current), o)
<1>0. PICK A : A = AddedAt(hit, current)
  OBVIOUS
<1>1. /\ Of(hit, Q, current) \subseteq D /\ D \subseteq CountedAt(hit, current)
      /\ Cardinality(D) = flusher.read /\ CountedAt(hit, current) \ D \subseteq past.overlapped
      /\ Q \subseteq {r \in Hits : IsCounted(hit[r])} /\ B \subseteq {r \in Hits : IsAdded(hit[r])}
      /\ \A r \in Hits \ past.overlapped : IsCounted(hit[r]) => (r \in Q <=> r \in B)
  BY DEF Ledger
<1>2. \A r \in Hits : IsAdded(hit[r]) => IsCounted(hit[r]) /\ hit[r].pc # "counted"
  BY DEF IsAdded, IsCounted
<1>3. \A r \in Hits : IsCounted(hit[r]) /\ hit[r].pc # "counted" => IsAdded(hit[r])
  BY DEF IsAdded, IsCounted
<1>4. Of(hit, Q \cup D, current) = D
  BY <1>1 DEF Of, CountedAt
<1>5. Of(hit, B \cup A, current) = A
  BY <1>0, <1>1 DEF Of, AddedAt
<1>6. Q \cup D \subseteq {r \in Hits : IsCounted(hit[r])}
  BY <1>1 DEF CountedAt
<1>7. B \cup A \subseteq {r \in Hits : IsAdded(hit[r])}
  BY <1>0, <1>1 DEF AddedAt
<1>8. ASSUME NEW j, j # current
      PROVE  /\ Of(hit, Q \cup D, j) = Of(hit, Q, j)
             /\ Of(hit, B \cup A, j) = Of(hit, B, j)
  BY <1>0, <1>1, <1>8 DEF Of, CountedAt, AddedAt
<1>9. ASSUME NEW r \in Hits \ o, IsCounted(hit[r])
      PROVE  r \in Q \cup D <=> r \in B \cup A
  <2>1. r \notin past.overlapped /\ hit[r].pc # "counted"
    BY <1>9
  <2>2. CASE hit[r].state = current
    BY <1>0, <1>1, <1>3, <1>9, <2>1, <2>2 DEF CountedAt, AddedAt
  <2>3. CASE hit[r].state # current
    BY <1>0, <1>1, <1>9, <2>1, <2>3 DEF CountedAt, AddedAt
  <2> QED BY <2>2, <2>3
<1>10. ASSUME flusher.read = states[current].flushAt.requests
       PROVE  A \ B \subseteq past.overlapped
  <2>1. Of(hit, Q, current) = D
    <3>1. current \in DOMAIN states
      <4>1. AreStates(states) /\ current \in 0 .. Len(states) /\ current # 0
        BY DEF CountsInv, CountsType
      <4> QED BY <4>1, StateFacts
    <3>2. Cardinality(Of(hit, Q, current)) = Cardinality(D)
      BY <1>1, <1>10, <3>1 DEF Ledger
    <3>3. IsFiniteSet(D)
      BY SizeOf
    <3> QED BY <1>1, <3>2, <3>3, FS_Subset
  <2> SUFFICES ASSUME NEW r \in A \ B, r \notin past.overlapped PROVE FALSE
    OBVIOUS
  <2>2. r \in Hits /\ IsCounted(hit[r]) /\ r \in CountedAt(hit, current)
    BY <1>0, <1>2 DEF AddedAt, CountedAt
  <2>3. r \notin Q
    BY <1>1, <2>2
  <2>4. r \notin D
    BY <2>1, <2>3 DEF Of
  <2> QED BY <1>1, <2>2, <2>4
<1> QED BY <1>0, <1>1, <1>4, <1>5, <1>6, <1>7, <1>8, <1>9, <1>10 DEF NewBaselines

\* A flush reads the rest and moves the baselines.
LEMMA FlushReads == CountsInv /\ FlushRead => CountsInv'
<1> SUFFICES ASSUME CountsInv, FlushRead PROVE CountsInv'
  OBVIOUS
<1>1. CountsType /\ Balance /\ Exact(hit, states) /\ TailOK /\ LedgerOK
  BY DEF CountsInv
<1>2. /\ flusher \in FlushState /\ flusher.pc = "reading" /\ flusher.sample = Nothing
      /\ AreStates(states) /\ current \in 0 .. Len(states) /\ current # 0
      /\ UNCHANGED <<keeps, hit, current, samples>>
      /\ past.skipped \in Nat /\ past.overlapped \in SUBSET Hits
  BY <1>1 DEF FlushRead, CountsType
<1>3. /\ current \in DOMAIN states /\ states[current] \in StateRecord
  BY <1>2, StateFacts
<1>4. PICK now, delta, st : /\ now = [requests |-> flusher.read, bytes |-> states[current].counters.bytes]
                            /\ delta = sub(now, states[current].flushAt)
                            /\ st = [states[current] EXCEPT !.flushAt = now]
  OBVIOUS
<1>5. /\ st \in StateRecord /\ st.counters = states[current].counters /\ st.active = states[current].active
      /\ st.flushAt.requests = flusher.read /\ st.flushAt.bytes = states[current].counters.bytes
      /\ flusher.read \in Nat
  BY <1>2, <1>3, <1>4 DEF StateRecord, Counted, FlushState
<1>6. /\ delta \in Amount /\ delta.requests = flusher.read - states[current].flushAt.requests
      /\ delta.bytes = states[current].counters.bytes - states[current].flushAt.bytes
      /\ states[current].flushAt.requests \in Nat /\ states[current].flushAt.bytes \in Nat
      /\ states[current].counters.bytes \in Nat
  <2>1. PICK old, m : old = states[current].flushAt /\ m = flusher.read
    OBVIOUS
  <2>2. /\ old.requests \in Nat /\ old.bytes \in Nat /\ states[current].counters.bytes \in Nat
    BY <1>3, <2>1 DEF StateRecord, Counted
  <2>3. now.requests = m /\ now.bytes = states[current].counters.bytes /\ m \in Nat
    BY <1>4, <1>5, <2>1
  <2>4. delta = [requests |-> now.requests - old.requests, bytes |-> now.bytes - old.bytes]
    BY <1>4, <2>1 DEF sub
  <2>5. delta.requests = m - old.requests /\ delta.bytes = states[current].counters.bytes - old.bytes
    BY <2>3, <2>4
  <2>6. delta \in Amount
    BY <2>2, <2>3, <2>4 DEF Amount
  <2> QED BY <2>1, <2>2, <2>5, <2>6
<1>7. PICK idle \in BOOLEAN : idle <=> delta.requests = 0
  OBVIOUS
<1>8. PICK o \in SUBSET Hits : o = past.overlapped \cup {r \in Hits : hit[r].pc = "counted"}
  BY <1>2
<1>9. /\ states' = [states EXCEPT ![current] = st]
      /\ flusher' = IF idle THEN Select(flusher) ELSE [flusher EXCEPT !.pc = "writing", !.sample = delta]
      /\ past' = [past EXCEPT !.skipped = IF idle THEN @ + delta.bytes ELSE @, !.overlapped = o]
  BY <1>4, <1>7, <1>8 DEF FlushRead
<1>10. /\ flusher' \in FlushState /\ flusher'.pc # "reading" /\ flusher'.final = flusher.final
       /\ idle => flusher'.sample = Nothing /\ flusher'.pc = (IF flusher.final THEN "done" ELSE "select")
       /\ ~idle => flusher'.sample = delta /\ flusher'.pc = "writing"
  BY <1>2, <1>6, <1>9 DEF Select, FlushState
<1>11. /\ past'.lost = past.lost /\ past'.after = past.after /\ past'.overlapped = o
       /\ past'.skipped = (IF idle THEN past.skipped + delta.bytes ELSE past.skipped)
       /\ DOMAIN past' = DOMAIN past
  BY <1>1, <1>9 DEF CountsType
<1>12. Changes(states, states', current, st)
  BY <1>2, <1>3, <1>5, <1>9, StateChanges
<1>13. PICK Q, B, K, D \in SUBSET Hits :
         Ledger(hit, states, flusher, current, past.overlapped, past.skipped, Q, B, K, D)
  BY <1>1 DEF LedgerOK
<1>14. PICK A \in SUBSET Hits : A = AddedAt(hit, current)
  BY DEF AddedAt
<1>15. /\ Of(hit, Q \cup D, current) = D /\ Cardinality(D) = flusher.read
       /\ Of(hit, B \cup A, current) = A
       /\ Q \cup D \subseteq {r \in Hits : IsCounted(hit[r])}
       /\ B \cup A \subseteq {r \in Hits : IsAdded(hit[r])}
       /\ \A j : j # current => Of(hit, Q \cup D, j) = Of(hit, Q, j) /\ Of(hit, B \cup A, j) = Of(hit, B, j)
       /\ \A r \in Hits \ o : IsCounted(hit[r]) => (r \in Q \cup D <=> r \in B \cup A)
       /\ flusher.read = states[current].flushAt.requests => A \ B \subseteq past.overlapped
  <2>1. flusher.pc = "reading"
    BY <1>2
  <2>2. NewBaselines(Q, B, D, AddedAt(hit, current), o)
    BY <1>8, <1>13, <2>1, Read
  <2> QED BY <1>14, <2>2 DEF NewBaselines
<1>16. Cardinality(A) = states[current].counters.bytes
  BY <1>1, <1>3, <1>14 DEF Exact
\* What an idle flush skips.
<1>17. PICK N \in SUBSET Hits : N = IF idle THEN K \cup (A \ B) ELSE K
  OBVIOUS
<1>18. N \subseteq (B \cup A) \cap o /\ Cardinality(N) = past'.skipped
  <2>1. K \subseteq B \cap past.overlapped /\ Cardinality(K) = past.skipped
    BY <1>13 DEF Ledger
  <2>2. CASE ~idle
    BY <1>8, <1>11, <1>17, <2>1, <2>2
  <2>3. CASE idle
    <3>1. A \ B \subseteq past.overlapped
      BY <1>5, <1>6, <1>7, <1>15, <2>3
    <3>2. A \cap B = Of(hit, B, current) /\ Cardinality(A \cap B) = states[current].flushAt.bytes
      <4>1. \A r \in B : IsAdded(hit[r])
        BY <1>13 DEF Ledger
      <4>2. A \cap B = Of(hit, B, current)
        BY <1>14, <4>1 DEF AddedAt, Of
      <4> QED BY <1>3, <1>13, <4>2 DEF Ledger
    <3>3. IsFiniteSet(A) /\ IsFiniteSet(K) /\ IsFiniteSet(A \ B) /\ Cardinality(A \ B) \in Nat
      BY SizeOf
    <3>4. Cardinality(A \ B) = delta.bytes
      <4>1. Cardinality(A \ B) = Cardinality(A) - Cardinality(A \cap B)
        BY <3>3, FS_Difference
      <4> QED BY <1>6, <1>16, <3>2, <4>1
    <3>5. Cardinality(K \cap (A \ B)) = 0
      <4>1. K \cap (A \ B) = {}
        BY <2>1
      <4> QED BY <4>1, FS_EmptySet
    <3>6. Cardinality(K \cup (A \ B)) = Cardinality(K) + Cardinality(A \ B) - Cardinality(K \cap (A \ B))
      BY <3>3, FS_Union
    <3>7. Cardinality(K \cup (A \ B)) = past.skipped + delta.bytes
      <4>1. Cardinality(K) = past.skipped /\ past.skipped \in Int
        BY <1>2, <2>1
      <4>2. delta.bytes \in Int
        BY <3>3, <3>4
      <4> QED BY <3>4, <3>5, <3>6, <4>1, <4>2
    <3> QED BY <1>8, <1>11, <1>17, <2>1, <2>3, <3>1, <3>7
  <2> QED BY <2>2, <2>3
<1>19. CountsType'
  <2>1. past'.skipped \in Nat
    BY <1>18, SizeOf
  <2>2. AreStates(states') /\ Len(states') = Len(states)
    BY <1>12 DEF Changes
  <2>3. "counts" \in keeps
    <3>1. "counts" \notin keeps => Len(states) = 0
      BY <1>1 DEF CountsType
    <3> QED BY <1>2, <3>1
  <2> QED BY <1>1, <1>2, <1>8, <1>10, <1>11, <2>1, <2>2, <2>3 DEF CountsType
<1>20. Balance'
  <2>1. /\ Nothing.requests = 0 /\ Nothing.bytes = 0 /\ states[current].active \in Int
        /\ states[current].counters.requests \in Int
    BY <1>2, <1>3, StateFacts DEF Nothing
  <2>2. /\ Sum(CountedRequests(states), DOMAIN states) \in Int
        /\ Sum(Actives(states), DOMAIN states) \in Int
    BY <1>2, SumsWhole
  <2>3. /\ samples.requests \in Int /\ samples.bytes \in Int
        /\ past.lost.requests \in Int /\ past.lost.bytes \in Int
        /\ delta.requests \in Int /\ delta.bytes \in Int
    BY <1>1, <1>6 DEF CountsType, Amount
  <2>4. Sum(CountedRequests(states'), DOMAIN states') = Sum(CountedRequests(states), DOMAIN states)
    BY <1>5, <1>12, <2>1, <2>2 DEF Changes
  <2>5. Sum(Actives(states'), DOMAIN states') = Sum(Actives(states), DOMAIN states)
    BY <1>5, <1>12, <2>1, <2>2 DEF Changes
  <2>6. Sum(FlushedRequests(states), DOMAIN states) = samples.requests + past.lost.requests
    BY <1>1, <1>2, <2>1, <2>3 DEF Balance
  <2>7. Sum(FlushedRequests(states'), DOMAIN states')
          = Sum(FlushedRequests(states), DOMAIN states) + delta.requests
    <3>1. Sum(FlushedRequests(states'), DOMAIN states')
            = Sum(FlushedRequests(states), DOMAIN states) - states[current].flushAt.requests + flusher.read
      BY <1>5, <1>12 DEF Changes
    <3>2. Sum(FlushedRequests(states), DOMAIN states) \in Int
      BY <1>2, SumsWhole
    <3> QED BY <1>5, <1>6, <3>1, <3>2
  <2>8. Sum(FlushedBytes(states), DOMAIN states) = samples.bytes + past.lost.bytes + past.skipped
    BY <1>1, <1>2, <2>1, <2>3 DEF Balance
  <2>9. Sum(FlushedBytes(states'), DOMAIN states')
          = Sum(FlushedBytes(states), DOMAIN states) + delta.bytes
    <3>1. Sum(FlushedBytes(states'), DOMAIN states')
            = Sum(FlushedBytes(states), DOMAIN states) - states[current].flushAt.bytes
              + states[current].counters.bytes
      BY <1>5, <1>12 DEF Changes
    <3>2. Sum(FlushedBytes(states), DOMAIN states) \in Int
      BY <1>2, SumsWhole
    <3> QED BY <1>6, <3>1, <3>2
  <2>10. Sum(FlushedRequests(states'), DOMAIN states')
           = samples.requests + flusher'.sample.requests + past.lost.requests
    BY <1>7, <1>10, <2>1, <2>3, <2>6, <2>7
  <2>11. Sum(FlushedBytes(states'), DOMAIN states')
           = samples.bytes + flusher'.sample.bytes + past.lost.bytes + past'.skipped
    <3>1. past.skipped \in Int
      BY <1>2
    <3>2. CASE idle
      BY <1>10, <1>11, <2>1, <2>3, <2>8, <2>9, <3>1, <3>2
    <3>3. CASE ~idle
      BY <1>10, <1>11, <2>1, <2>3, <2>8, <2>9, <3>1, <3>3
    <3> QED BY <3>2, <3>3
  <2> QED BY <1>1, <1>2, <1>11, <2>4, <2>5, <2>10, <2>11 DEF Balance
<1>21. Exact(hit', states')
  <2>1. \A j \in DOMAIN states : states'[j].counters = states[j].counters
    BY <1>5, <1>12 DEF Changes
  <2>2. DOMAIN states' = DOMAIN states
    BY <1>12 DEF Changes
  <2> QED BY <1>1, <1>2, <2>1, <2>2 DEF Exact
<1>22. TailOK'
  <2>1. states'[current] = st
    BY <1>12 DEF Changes
  <2>2. LastRead(flusher', st) = LastRead(flusher, states[current])
    BY <1>2, <1>5, <1>10 DEF LastRead
  <2> QED BY <1>1, <1>2, <1>5, <1>10, <1>11, <2>1, <2>2 DEF TailOK
<1>23. LedgerOK'
  <2>1. DOMAIN states' = DOMAIN states /\ states'[current] = st
        /\ \A j \in DOMAIN states : j # current => states'[j] = states[j]
    BY <1>12 DEF Changes
  <2>2. \A j \in DOMAIN states' : /\ states'[j].flushAt.requests = Cardinality(Of(hit, Q \cup D, j))
                                  /\ states'[j].flushAt.bytes = Cardinality(Of(hit, B \cup A, j))
    BY <1>5, <1>13, <1>15, <1>16, <2>1 DEF Ledger
  <2>3. PICK P, R \in SUBSET Hits : P = Q \cup D /\ R = B \cup A
    OBVIOUS
  <2>4. Ledger(hit, states', flusher', current, o, past'.skipped, P, R, N, {})
    BY <1>10, <1>15, <1>18, <2>2, <2>3 DEF Ledger
  <2>5. {} \in SUBSET Hits
    OBVIOUS
  <2> QED BY <1>2, <1>11, <2>4, <2>5 DEF LedgerOK
<1> QED BY <1>19, <1>20, <1>21, <1>22, <1>23 DEF CountsInv

\* A sample is stored, or it is lost.
LEMMA FlushWrites ==
    ASSUME CountsInv, NEW ok \in BOOLEAN, FlushWrite(ok)
    PROVE  CountsInv'
<1>1. CountsType /\ Balance /\ Exact(hit, states) /\ TailOK /\ LedgerOK
  BY DEF CountsInv
<1>2. /\ flusher \in FlushState /\ flusher.pc = "writing" /\ flusher.sample \in Amount
      /\ samples \in Amount /\ past.lost \in Amount
      /\ UNCHANGED <<keeps, hit, states, current>>
  BY <1>1 DEF FlushWrite, CountsType, FlushState
<1>3. /\ flusher' \in FlushState /\ flusher'.sample = Nothing /\ flusher'.final = flusher.final
      /\ flusher'.pc = (IF flusher.final THEN "done" ELSE "select")
      /\ Nothing.requests = 0 /\ Nothing.bytes = 0
  <2>1. Nothing \in Amount /\ Nothing.requests = 0 /\ Nothing.bytes = 0
    BY DEF Nothing, Amount
  <2>2. PICK f : f = Select(flusher)
    OBVIOUS
  <2>3. f \in FlushState /\ f.final = flusher.final /\ f.pc = (IF flusher.final THEN "done" ELSE "select")
    BY <1>2, <2>2 DEF Select, FlushState
  <2>4. flusher' = [f EXCEPT !.sample = Nothing]
    BY <2>2 DEF FlushWrite
  <2> QED BY <2>1, <2>3, <2>4 DEF FlushState
<1>4. /\ DOMAIN past' = DOMAIN past /\ past'.skipped = past.skipped /\ past'.after = past.after
      /\ past'.overlapped = past.overlapped
      /\ past'.lost = IF ok THEN past.lost ELSE Plus(past.lost, flusher.sample)
      /\ samples' = IF ok THEN Plus(samples, flusher.sample) ELSE samples
  BY <1>1 DEF FlushWrite, CountsType
<1>5. /\ samples' \in Amount /\ past'.lost \in Amount
      /\ samples'.requests + past'.lost.requests
            = samples.requests + flusher.sample.requests + past.lost.requests
      /\ samples'.bytes + past'.lost.bytes = samples.bytes + flusher.sample.bytes + past.lost.bytes
  <2>1. ASSUME NEW a \in Amount, NEW b \in Amount
        PROVE  /\ Plus(a, b) \in Amount /\ Plus(a, b).requests = a.requests + b.requests
               /\ Plus(a, b).bytes = a.bytes + b.bytes
    BY DEF Plus, Amount
  <2>2. \A a \in Amount : a.requests \in Int /\ a.bytes \in Int
    BY DEF Amount
  <2>3. CASE ok
    BY <1>2, <1>4, <2>1, <2>2, <2>3
  <2>4. CASE ~ok
    BY <1>2, <1>4, <2>1, <2>2, <2>4
  <2> QED BY <2>3, <2>4
<1>6. CountsType'
  BY <1>1, <1>2, <1>3, <1>4, <1>5 DEF CountsType
<1>7. Balance'
  <2>1. /\ samples'.requests \in Int /\ past'.lost.requests \in Int
        /\ samples'.bytes \in Int /\ past'.lost.bytes \in Int /\ past.skipped \in Int
    BY <1>1, <1>5 DEF Amount, CountsType
  <2>2. Sum(FlushedRequests(states'), DOMAIN states')
          = samples'.requests + flusher'.sample.requests + past'.lost.requests
    BY <1>1, <1>2, <1>3, <1>5, <2>1 DEF Balance
  <2>3. Sum(FlushedBytes(states'), DOMAIN states')
          = samples'.bytes + flusher'.sample.bytes + past'.lost.bytes + past'.skipped
    BY <1>1, <1>2, <1>3, <1>4, <1>5, <2>1 DEF Balance
  <2> QED BY <1>1, <1>2, <2>2, <2>3 DEF Balance
<1>8. Exact(hit', states')
  BY <1>1, <1>2
<1>9. TailOK'
  BY <1>1, <1>2, <1>3, <1>4 DEF TailOK, LastRead
<1>10. LedgerOK'
  <2>1. PICK Q, B, K, D \in SUBSET Hits :
          Ledger(hit, states, flusher, current, past.overlapped, past.skipped, Q, B, K, D)
    BY <1>1 DEF LedgerOK
  <2>2. Ledger(hit, states, flusher', current, past.overlapped, past.skipped, Q, B, K, D)
    BY <1>3, <2>1 DEF Ledger
  <2> QED BY <1>2, <1>4, <2>2 DEF LedgerOK
<1> QED BY <1>6, <1>7, <1>8, <1>9, <1>10 DEF CountsInv

\* Every step keeps the accounts.
LEMMA CountsStep == CountsInv /\ [TelemetryNext]_telemetryVars => CountsInv'
<1> SUFFICES ASSUME CountsInv, [TelemetryNext]_telemetryVars PROVE CountsInv'
  OBVIOUS
<1>1. CASE \E r \in Hits : \/ Begin(r) \/ AnswerBreaks(r) \/ RecordFind(r) \/ RecordRequest(r)
                           \/ RecordBytes(r) \/ RecordEntry(r) \/ RecordNoEntry(r) \/ End(r)
  BY <1>1, BeginCounts, AnswerBreaksCounts, RecordFindCounts, RequestCounts, BytesCounts, EntryCounts, EndCounts
<1>2. CASE Forget
  BY <1>2, OtherCounts DEF Forget
<1>3. CASE FlusherStep
  BY <1>3, FlushBegins, FlushReads, FlushWrites DEF FlusherStep
<1>4. CASE WriterStep
  BY <1>4, OtherCounts DEF WriterStep, Take, FlushTick, Drain, WriteBatch
<1>5. CASE Signal \/ ListenerFails \/ Shutdown \/ Drained \/ ShutdownDeadline \/ Wait
  BY <1>5, OtherCounts DEF Signal, ListenerFails, Shutdown, Drained, ShutdownDeadline, Wait, Goto
<1>6. CASE UNCHANGED telemetryVars
  BY <1>6, OtherCounts DEF telemetryVars
<1>7. CASE \E t \in Tasks : TaskStops(t)
  BY <1>7, OtherCounts DEF TaskStops
<1> QED BY <1>1, <1>2, <1>3, <1>4, <1>5, <1>6, <1>7 DEF TelemetryNext

\* Nothing is counted in the beginning.
LEMMA CountsInit == TelemetryInit => CountsInv
<1> SUFFICES ASSUME TelemetryInit PROVE CountsInv
  OBVIOUS
<1>1. /\ hit = [r \in Hits |-> [pc |-> "new", state |-> 0]] /\ states = <<>> /\ current = 0
      /\ flusher = [pc |-> "select", read |-> 0, sample |-> Nothing, final |-> FALSE]
      /\ samples = Nothing
      /\ past = [recorded |-> 0, late |-> 0, lost |-> Nothing, skipped |-> 0,
                    overlapped |-> {}, after |-> 0, broken |-> {}]
  BY DEF TelemetryInit
<1>2. AreStates(states) /\ Len(states) = 0 /\ DOMAIN states = {}
  BY <1>1 DEF AreStates
<1>3. \A r \in Hits : ~IsCounted(hit[r]) /\ ~IsAdded(hit[r]) /\ ~IsUnderWay(hit[r])
  BY <1>1 DEF IsCounted, IsAdded, IsUnderWay
<1>4. {r \in Hits : IsCounted(hit[r])} = {} /\ {r \in Hits : IsUnderWay(hit[r])} = {}
      /\ Cardinality({}) = 0 /\ IsFiniteSet({})
  BY <1>3, FS_EmptySet
<1>5. \A f : Sum(f, {}) = 0
  BY <1>4, SumOf
<1>6. Nothing \in Amount /\ Nothing.requests = 0 /\ Nothing.bytes = 0
  BY DEF Nothing, Amount
<1>7. CountsType
  <2>1. \A r \in Hits : HitOK(hit[r], Len(states)) /\ hit \in [Hits -> [pc : Points, state : Nat]]
    BY <1>1, <1>2 DEF HitOK, Points
  <2>2. flusher \in FlushState
    BY <1>1, <1>6 DEF FlushState
  <2>3. hit \in [Hits -> [pc : Points, state : Nat]]
    BY <1>1 DEF Points
  <2> QED BY <1>1, <1>2, <1>6, <2>1, <2>2, <2>3 DEF CountsType
<1>8. Balance
  <2>1. /\ Sum(FlushedRequests(states), DOMAIN states) = 0
        /\ Sum(FlushedBytes(states), DOMAIN states) = 0
        /\ Sum(CountedRequests(states), DOMAIN states) = 0
        /\ Sum(Actives(states), DOMAIN states) = 0
    BY <1>2, <1>5
  <2>2. /\ samples = Nothing /\ flusher.sample = Nothing /\ past.lost = Nothing /\ past.skipped = 0
    BY <1>1
  <2> QED BY <1>4, <1>6, <2>1, <2>2 DEF Balance
<1>9. Exact(hit, states)
  BY <1>2 DEF Exact
<1>10. TailOK
  BY <1>1 DEF TailOK
<1>11. LedgerOK
  <2>1. Ledger(hit, states, flusher, current, past.overlapped, past.skipped, {}, {}, {}, {})
    BY <1>1, <1>2, <1>3, <1>4 DEF Ledger
  <2>2. {} \in SUBSET Hits
    OBVIOUS
  <2> QED BY <2>1, <2>2 DEF LedgerOK
<1> QED BY <1>7, <1>8, <1>9, <1>10, <1>11 DEF CountsInv

\* A request whose answer broke off has found no counters, and where hosts are
\* counted every other one past its count has.
BreakOK(x, broke, counts) ==
    /\ broke => x.pc \in {"ending", "done"} /\ x.state = 0
    /\ counts /\ ~broke /\ x.pc \in {"counted", "entry", "ending", "done"} => x.state # 0

BreaksInv == \A r \in Hits : BreakOK(hit[r], r \in past.broken, "counts" \in keeps)

LEMMA BreaksMove ==
    ASSUME CountsType, BreaksInv, NEW r \in Hits, NEW x,
           hit' = [hit EXCEPT ![r] = x], keeps' = keeps,
           \A q \in Hits \ {r} : q \in past'.broken <=> q \in past.broken,
           BreakOK(x, r \in past'.broken, "counts" \in keeps)
    PROVE  BreaksInv'
<1>1. DOMAIN hit = Hits
  BY DEF CountsType
<1>2. hit'[r] = x /\ \A q \in Hits \ {r} : hit'[q] = hit[q]
  BY <1>1
<1>3. ASSUME NEW q \in Hits PROVE BreakOK(hit'[q], q \in past'.broken, "counts" \in keeps')
  <2>1. CASE q = r
    BY <1>2, <2>1
  <2>2. CASE q # r
    <3>1. BreakOK(hit[q], q \in past.broken, "counts" \in keeps)
      BY DEF BreaksInv
    <3> QED BY <1>2, <2>2, <3>1 DEF BreakOK
  <2> QED BY <2>1, <2>2
<1> QED BY <1>3 DEF BreaksInv

\* What neither breaks off nor moves a request.
LEMMA BreaksStay ==
    ASSUME BreaksInv, hit' = hit, keeps' = keeps, past'.broken = past.broken
    PROVE  BreaksInv'
BY DEF BreaksInv, BreakOK

LEMMA BreaksStep == CountsType /\ BreaksInv /\ [TelemetryNext]_telemetryVars => BreaksInv'
<1> SUFFICES ASSUME CountsType, BreaksInv, [TelemetryNext]_telemetryVars PROVE BreaksInv'
  OBVIOUS
<1>1. "broken" \in DOMAIN past /\ "broken" # "overlapped" /\ "broken" # "after"
  BY DEF CountsType
<1>2. ASSUME NEW r \in Hits,
             \/ Begin(r) \/ AnswerBreaks(r) \/ RecordFind(r) \/ RecordRequest(r)
             \/ RecordBytes(r) \/ RecordEntry(r) \/ RecordNoEntry(r) \/ End(r)
      PROVE  BreaksInv'
  <2>1. /\ HitOK(hit[r], Len(states)) /\ hit[r] \in [pc : Points, state : Nat]
        /\ BreakOK(hit[r], r \in past.broken, "counts" \in keeps)
    BY HitFacts DEF BreaksInv
  <2>2. CASE Begin(r)
    <3>1. PICK x : x = [hit[r] EXCEPT !.pc = "served"]
      OBVIOUS
    <3>2. /\ hit' = [hit EXCEPT ![r] = x] /\ keeps' = keeps /\ past' = past
          /\ hit[r].pc = "new" /\ x.pc = "served"
      BY <2>1, <2>2, <3>1 DEF Begin
    <3>3. BreakOK(x, r \in past'.broken, "counts" \in keeps)
      BY <2>1, <3>2 DEF BreakOK
    <3> QED BY <3>2, <3>3, BreaksMove
  <2>3. CASE AnswerBreaks(r)
    <3>1. PICK x : x = [hit[r] EXCEPT !.pc = "ending"]
      OBVIOUS
    <3>2. /\ hit' = [hit EXCEPT ![r] = x] /\ keeps' = keeps /\ past'.broken = past.broken \cup {r}
          /\ hit[r].pc = "served" /\ x.pc = "ending" /\ x.state = hit[r].state
      BY <1>1, <2>1, <2>3, <3>1 DEF AnswerBreaks
    <3>3. BreakOK(x, r \in past'.broken, "counts" \in keeps)
      BY <2>1, <3>2 DEF BreakOK, HitOK
    <3>4. \A q \in Hits \ {r} : q \in past'.broken <=> q \in past.broken
      BY <3>2
    <3> QED BY <3>2, <3>3, <3>4, BreaksMove
  <2>4. CASE RecordFind(r)
    <3>1. PICK x : x = [pc |-> IF "counts" \in keeps THEN "found" ELSE "entry", state |-> current']
      OBVIOUS
    <3>2. /\ hit' = [hit EXCEPT ![r] = x] /\ keeps' = keeps /\ past' = past
          /\ hit[r].pc = "served" /\ x.pc = IF "counts" \in keeps THEN "found" ELSE "entry"
      BY <2>4, <3>1 DEF RecordFind
    <3>3. BreakOK(x, r \in past'.broken, "counts" \in keeps)
      BY <2>1, <3>2 DEF BreakOK
    <3> QED BY <3>2, <3>3, BreaksMove
  <2>5. CASE RecordRequest(r)
    <3>1. PICK x : x = [hit[r] EXCEPT !.pc = "counted"]
      OBVIOUS
    <3>2. /\ hit' = [hit EXCEPT ![r] = x] /\ keeps' = keeps /\ past'.broken = past.broken
          /\ hit[r].pc = "found" /\ x.pc = "counted" /\ x.state = hit[r].state
      BY <1>1, <2>1, <2>5, <3>1 DEF RecordRequest
    <3>3. BreakOK(x, r \in past'.broken, "counts" \in keeps)
      BY <2>1, <3>2 DEF BreakOK, HitOK
    <3> QED BY <3>2, <3>3, BreaksMove
  <2>6. CASE RecordBytes(r)
    <3>1. PICK x : x = [hit[r] EXCEPT !.pc = "entry"]
      OBVIOUS
    <3>2. /\ hit' = [hit EXCEPT ![r] = x] /\ keeps' = keeps /\ past' = past
          /\ hit[r].pc = "counted" /\ x.pc = "entry" /\ x.state = hit[r].state
      BY <2>1, <2>6, <3>1 DEF RecordBytes
    <3>3. BreakOK(x, r \in past'.broken, "counts" \in keeps)
      BY <2>1, <3>2 DEF BreakOK
    <3> QED BY <3>2, <3>3, BreaksMove
  <2>7. CASE RecordEntry(r) \/ RecordNoEntry(r)
    <3>1. PICK x : x = [hit[r] EXCEPT !.pc = "ending"]
      OBVIOUS
    <3>2. /\ hit' = [hit EXCEPT ![r] = x] /\ keeps' = keeps /\ past'.broken = past.broken
          /\ hit[r].pc = "entry" /\ x.pc = "ending" /\ x.state = hit[r].state
      BY <1>1, <2>1, <2>7, <3>1 DEF RecordEntry, RecordNoEntry
    <3>3. BreakOK(x, r \in past'.broken, "counts" \in keeps)
      BY <2>1, <3>2 DEF BreakOK
    <3> QED BY <3>2, <3>3, BreaksMove
  <2>8. CASE End(r)
    <3>1. PICK x : x = [hit[r] EXCEPT !.pc = "done"]
      OBVIOUS
    <3>2. /\ hit' = [hit EXCEPT ![r] = x] /\ keeps' = keeps /\ past' = past
          /\ hit[r].pc = "ending" /\ x.pc = "done" /\ x.state = hit[r].state
      BY <2>1, <2>8, <3>1 DEF End
    <3>3. BreakOK(x, r \in past'.broken, "counts" \in keeps)
      BY <2>1, <3>2 DEF BreakOK
    <3> QED BY <3>2, <3>3, BreaksMove
  <2> QED BY <1>2, <2>2, <2>3, <2>4, <2>5, <2>6, <2>7, <2>8
<1>3. CASE Forget \/ FlusherStep \/ WriterStep \/ \E t \in Tasks : TaskStops(t)
  <2>1. hit' = hit /\ keeps' = keeps /\ past'.broken = past.broken
    BY <1>1, <1>3 DEF Forget, TaskStops, FlusherStep, FlushBegin, FlushRead, FlushWrite,
           WriterStep, Take, FlushTick, Drain, WriteBatch
  <2> QED BY <2>1, BreaksStay
<1>4. CASE \/ Signal \/ ListenerFails \/ Shutdown \/ Drained \/ ShutdownDeadline \/ Wait
           \/ UNCHANGED telemetryVars
  <2>1. hit' = hit /\ keeps' = keeps /\ past'.broken = past.broken
    BY <1>4 DEF Signal, ListenerFails, Shutdown, Drained, ShutdownDeadline, Wait, Goto, telemetryVars
  <2> QED BY <2>1, BreaksStay
<1> QED BY <1>2, <1>3, <1>4 DEF TelemetryNext

LEMMA BreaksInit == TelemetryInit => BreaksInv
<1> SUFFICES ASSUME TelemetryInit PROVE BreaksInv
  OBVIOUS
<1>1. past.broken = {} /\ \A r \in Hits : hit[r].pc = "new"
  BY DEF TelemetryInit
<1> QED BY <1>1 DEF BreaksInv, BreakOK

\* What the accounts come to.
LEMMA AccountsConserve == CountsInv /\ BreaksInv => SamplesConserved
<1> SUFFICES ASSUME CountsInv, BreaksInv PROVE SamplesConserved
  OBVIOUS
<1>1. CountsType /\ Balance /\ Exact(hit, states) /\ TailOK /\ LedgerOK
  BY DEF CountsInv
<1>2. ASSUME NEW f, NEW S, f = [i \in DOMAIN states |-> f[i]] PROVE SumFunction(f) = Sum(f, DOMAIN states)
  <2>1. DOMAIN f = DOMAIN states
    BY <1>2
  <2> QED BY <2>1 DEF SumFunction, Sum, SumFunctionOnSet, FoldFunction
<1>3. /\ OverStates(LAMBDA st : st.flushAt.requests) = Sum(FlushedRequests(states), DOMAIN states)
      /\ OverStates(LAMBDA st : st.flushAt.bytes) = Sum(FlushedBytes(states), DOMAIN states)
      /\ OverStates(LAMBDA st : st.counters.requests) = Sum(CountedRequests(states), DOMAIN states)
      /\ OverStates(LAMBDA st : st.active) = Sum(Actives(states), DOMAIN states)
  BY <1>2 DEF OverStates, FlushedRequests, FlushedBytes, CountedRequests, Actives
<1>4. "counts" \in keeps => {r \in Hits \ past.broken : hit[r].pc \notin {"new", "served", "found"}}
                                = {r \in Hits : IsCounted(hit[r])}
  <2>1. SUFFICES ASSUME "counts" \in keeps, NEW r \in Hits
                 PROVE  r \notin past.broken /\ hit[r].pc \notin {"new", "served", "found"}
                            <=> IsCounted(hit[r])
    OBVIOUS
  <2>2. hit[r].pc \in Points /\ BreakOK(hit[r], r \in past.broken, "counts" \in keeps)
    BY <1>1, HitFacts DEF BreaksInv
  <2> QED BY <2>1, <2>2 DEF IsCounted, Points, BreakOK
<1>5. InFlight = {r \in Hits : IsUnderWay(hit[r])}
  BY DEF InFlight, IsUnderWay
<1>6. past.skipped <= Cardinality(past.overlapped)
  <2>1. PICK Q, B, K, D \in SUBSET Hits :
          Ledger(hit, states, flusher, current, past.overlapped, past.skipped, Q, B, K, D)
    BY <1>1 DEF LedgerOK
  <2>2. K \subseteq past.overlapped /\ Cardinality(K) = past.skipped
    BY <2>1 DEF Ledger
  <2>3. past.overlapped \in SUBSET Hits
    BY <1>1 DEF CountsType
  <2> QED BY <2>2, <2>3, SizeOf, FS_Subset
<1>7. flusher.pc = "done" /\ current # 0 =>
        states[current].counters.requests - states[current].flushAt.requests <= past.after
  BY <1>1 DEF CountsType, TailOK, LastRead
<1> QED BY <1>1, <1>3, <1>4, <1>5, <1>6, <1>7 DEF SamplesConserved, Balance

\* No request is sampled twice, and of those whose answer does not break off none is
\* lost but by a failed write or with forgotten counters (collector.go, handler.go),
\* however many requests there are.
THEOREM NoSampleLost == TelemetrySpec => []SamplesConserved
<1>1. TelemetryInit => CountsInv /\ BreaksInv
  BY CountsInit, BreaksInit
<1>2. CountsInv /\ BreaksInv /\ [TelemetryNext]_telemetryVars => (CountsInv /\ BreaksInv)'
  BY CountsStep, BreaksStep DEF CountsInv
<1>3. CountsInv /\ BreaksInv => SamplesConserved
  BY AccountsConserve
<1> QED BY <1>1, <1>2, <1>3, PTL DEF TelemetrySpec

-----------------------------------------------------------------------------
(* How the selectors spread requests. *)

\* A finite set has a member of the least value.
LEMMA LeastValue ==
    ASSUME NEW S, IsFiniteSet(S), S # {}, NEW f, Whole(f, S)
    PROVE  \E x \in S : \A y \in S : f[x] <= f[y]
<1> DEFINE Under(x) == {y \in S : f[y] < f[x]}
           W == {Under(x) : x \in S}
<1>1. PICK T \in W : \A U \in W : U \subseteq T => U = T
  <2>1. W \in SUBSET (SUBSET S) /\ W # {}
    OBVIOUS
  <2> HIDE DEF W
  <2> QED BY <2>1, LeastSubset
<1>2. PICK x \in S : T = Under(x)
  OBVIOUS
<1>3. \A y \in S : f[y] \in Int
  BY DEF Whole
<1>4. ASSUME NEW y \in S, f[y] < f[x] PROVE FALSE
  <2>1. Under(y) \subseteq Under(x)
    BY <1>3, <1>4
  <2>2. y \in Under(x) /\ y \notin Under(y)
    BY <1>3, <1>4
  <2>3. Under(y) \in W
    OBVIOUS
  <2> QED BY <1>1, <1>2, <2>1, <2>2, <2>3
<1> QED BY <1>3, <1>4

\* The library's Min of a finite set of numbers.
LEMMA MinOf ==
    ASSUME NEW S, IsFiniteSet(S), S # {}, S \subseteq Int
    PROVE  Min(S) \in S /\ \A y \in S : Min(S) <= y
<1> DEFINE id == [x \in S |-> x]
<1>1. Whole(id, S)
  BY DEF Whole
<1>2. \E x \in S : \A y \in S : id[x] <= id[y]
  <2> HIDE DEF id
  <2> QED BY <1>1, LeastValue
<1>3. \E x \in S : \A y \in S : x <= y
  BY <1>2
<1> QED BY <1>3 DEF Min

\* The pool.
LEMMA PoolFacts ==
    /\ IsFiniteSet(Pool) /\ Pool \subseteq Nat /\ Pool # {}
    /\ \A b \in Pool : WeightOf[b] \in Nat /\ WeightOf[b] > 0
<1>1. Pool = 1 .. Len(WeightOf) /\ Len(WeightOf) \in Nat
  BY SelectorsAssumption, LenProperties DEF Pool
<1>2. IsFiniteSet(Pool) /\ Pool \subseteq Nat
  BY <1>1, FS_Interval
<1>3. Pool # {}
  BY SelectorsAssumption, EmptySeq DEF Pool
<1>4. \A b \in Pool : WeightOf[b] \in Nat \ {0}
  BY SelectorsAssumption, ElementOfSeq, <1>1
<1> QED BY <1>2, <1>3, <1>4

\* The best: no other has more, and none before it has as much.
LEMMA BestIs ==
    ASSUME NEW value, NEW among \in SUBSET Pool, among # {}, \A a \in among : value[a] \in Int
    PROVE  LET best == FirstBest(value, among)
           IN  /\ best \in among /\ best \in Int
               /\ \A a \in among : value[a] <= value[best]
               /\ \A b \in among : (\A a \in among : value[a] <= value[b]) => best <= b
<1>1. IsFiniteSet(among) /\ among \subseteq Int
  <2>1. IsFiniteSet(among)
    BY PoolFacts, FS_Subset
  <2> QED BY <2>1, PoolFacts
<1> DEFINE tops == {b \in among : \A a \in among : value[a] <= value[b]}
           minus == [a \in among |-> -value[a]]
<1>2. \A a \in among : minus[a] \in Int /\ value[a] = -minus[a]
  OBVIOUS
<1>3. Whole(minus, among)
  BY <1>2 DEF Whole
<1>4. PICK x \in among : \A y \in among : minus[x] <= minus[y]
  <2> HIDE DEF minus
  <2> QED BY <1>1, <1>3, LeastValue
<1>5. x \in tops
  <2> HIDE DEF minus
  <2> QED BY <1>2, <1>4
<1>6. tops \in SUBSET among /\ IsFiniteSet(tops) /\ tops # {} /\ tops \subseteq Int
  BY <1>1, <1>5, FS_Subset
<1>7. Min(tops) \in tops /\ \A y \in tops : Min(tops) <= y
  <2> HIDE DEF tops
  <2> QED BY <1>6, MinOf
<1>8. FirstBest(value, among) = Min(tops)
  BY DEF FirstBest
<1>9. \A b \in among : (\A a \in among : value[a] <= value[b]) => b \in tops
  OBVIOUS
<1>10. Min(tops) \in among /\ \A a \in among : value[a] <= value[Min(tops)]
  BY <1>7
<1> HIDE DEF tops, minus
<1> QED BY <1>1, <1>7, <1>8, <1>9, <1>10

-----------------------------------------------------------------------------
\* More sums: adding to some, and bounds.
LEMMA SumRaised ==
    ASSUME NEW S, IsFiniteSet(S), NEW C \in SUBSET S, NEW f, Whole(f, S), NEW g, Whole(g, S),
           NEW h, \A k \in S : h[k] = f[k] + (IF k \in C THEN g[k] ELSE 0)
    PROVE  Sum(h, S) = Sum(f, S) + Sum(g, C)
<1> DEFINE W == {U \in SUBSET S : Sum(h, U) # Sum(f, U) + Sum(g, U \cap C)}
<1> SUFFICES ASSUME W # {} PROVE FALSE
  <2>1. S \in SUBSET S /\ S \cap C = C
    OBVIOUS
  <2> QED BY <2>1
<1>1. PICK T \in W : \A X \in W : X \subseteq T => X = T
  <2>1. W \in SUBSET (SUBSET S)
    OBVIOUS
  <2> HIDE DEF W
  <2> QED BY <2>1, LeastSubset
<1>2. IsFiniteSet(T) /\ IsFiniteSet(T \cap C) /\ Whole(f, T) /\ Whole(g, T \cap C) /\ Whole(h, T)
  <2>1. T \in SUBSET S /\ T \cap C \in SUBSET S
    OBVIOUS
  <2>2. \A k \in S : h[k] \in Int
    BY DEF Whole
  <2> QED BY <2>1, <2>2, FS_Subset DEF Whole
<1>3. T # {}
  <2>1. Sum(h, {}) = 0 /\ Sum(f, {}) = 0 /\ Sum(g, {}) = 0
    BY SumOf, FS_EmptySet
  <2>2. ASSUME T = {} PROVE FALSE
    <3>1. T \cap C = {}
      BY <2>2
    <3>2. Sum(h, T) # Sum(f, T) + Sum(g, T \cap C)
      OBVIOUS
    <3> QED BY <2>1, <2>2, <3>1, <3>2
  <2> QED BY <2>2
<1>4. PICK x \in T : TRUE
  BY <1>3
<1>5. PICK R : R = T \ {x}
  OBVIOUS
<1>6. Sum(h, R) = Sum(f, R) + Sum(g, R \cap C)
  <2>1. R \in SUBSET S /\ R \subseteq T /\ R # T
    BY <1>4, <1>5
  <2> QED BY <1>1, <2>1
<1>7. Sum(h, T) = h[x] + Sum(h, R) /\ Sum(f, T) = f[x] + Sum(f, R)
  BY <1>2, <1>5, SumLess
<1>8. Sum(f, R) \in Int /\ Sum(g, R \cap C) \in Int /\ f[x] \in Int /\ g[x] \in Int
  <2>1. IsFiniteSet(R) /\ IsFiniteSet(R \cap C) /\ Whole(f, R) /\ Whole(g, R \cap C)
    BY <1>2, <1>5, FS_Subset DEF Whole
  <2> QED BY <2>1, SumInt DEF Whole
<1>9. Sum(g, T \cap C) = (IF x \in C THEN g[x] ELSE 0) + Sum(g, R \cap C)
  <2>1. CASE x \in C
    <3>1. x \in T \cap C /\ (T \cap C) \ {x} = R \cap C
      BY <1>5, <2>1
    <3>2. Sum(g, T \cap C) = g[x] + Sum(g, (T \cap C) \ {x})
      BY <1>2, <3>1, SumLess
    <3> QED BY <2>1, <3>1, <3>2
  <2>2. CASE x \notin C
    <3>1. T \cap C = R \cap C
      BY <1>5, <2>2
    <3>2. (IF x \in C THEN g[x] ELSE 0) = 0
      BY <2>2
    <3>3. Sum(g, T \cap C) = Sum(g, R \cap C)
      BY <3>1
    <3>4. PICK v : v = Sum(g, R \cap C)
      OBVIOUS
    <3>5. v = 0 + v
      BY <1>8, <3>4
    <3> QED BY <3>2, <3>3, <3>4, <3>5
  <2> QED BY <2>1, <2>2
<1>10. h[x] = f[x] + (IF x \in C THEN g[x] ELSE 0)
  OBVIOUS
<1>11. Sum(h, T) # Sum(f, T) + Sum(g, T \cap C)
  OBVIOUS
<1> HIDE DEF W
<1>12. CASE x \in C
  BY <1>6, <1>7, <1>8, <1>9, <1>10, <1>11, <1>12
<1>13. CASE x \notin C
  BY <1>6, <1>7, <1>8, <1>9, <1>10, <1>11, <1>13
<1> QED BY <1>12, <1>13

\* A sum is no more than as many times the bound.
LEMMA SumBounded ==
    ASSUME NEW S, IsFiniteSet(S), NEW f, Whole(f, S), NEW c \in Int, \A k \in S : f[k] <= c
    PROVE  Sum(f, S) <= Cardinality(S) * c
<1> DEFINE W == {U \in SUBSET S : ~(Sum(f, U) <= Cardinality(U) * c)}
<1> SUFFICES ASSUME W # {} PROVE FALSE
  OBVIOUS
<1>1. PICK T \in W : \A X \in W : X \subseteq T => X = T
  <2>1. W \in SUBSET (SUBSET S)
    OBVIOUS
  <2> HIDE DEF W
  <2> QED BY <2>1, LeastSubset
<1>2. IsFiniteSet(T) /\ Whole(f, T)
  BY FS_Subset DEF Whole
<1>3. T # {}
  <2>1. Sum(f, {}) = 0 /\ Cardinality({}) = 0
    BY SumOf, FS_EmptySet
  <2>2. 0 * c = 0 /\ 0 <= 0
    OBVIOUS
  <2>3. ASSUME T = {} PROVE FALSE
    BY <2>1, <2>2, <2>3
  <2> QED BY <2>3
<1>4. PICK x \in T : TRUE
  BY <1>3
<1>5. PICK R : R = T \ {x}
  OBVIOUS
<1>6. Sum(f, R) <= Cardinality(R) * c
  <2>1. R \in SUBSET S /\ R \subseteq T /\ R # T
    BY <1>4, <1>5
  <2> QED BY <1>1, <2>1
<1>7. Sum(f, T) = f[x] + Sum(f, R)
  BY <1>2, <1>5, SumLess
<1>8. Cardinality(R) \in Nat /\ Cardinality(T) = Cardinality(R) + 1
  <2>1. IsFiniteSet(R) /\ x \notin R /\ T = R \cup {x}
    BY <1>2, <1>5, FS_Subset
  <2> QED BY <2>1, FS_AddElement, FS_CardinalityType
<1>9. Sum(f, R) \in Int /\ f[x] \in Int /\ f[x] <= c
  <2>1. IsFiniteSet(R) /\ Whole(f, R)
    BY <1>2, <1>5, FS_Subset DEF Whole
  <2> QED BY <2>1, SumInt DEF Whole
<1>10. ~(Sum(f, T) <= Cardinality(T) * c)
  OBVIOUS
<1> HIDE DEF W
<1>11. PICK n \in Nat, s \in Int, v \in Int : n = Cardinality(R) /\ s = Sum(f, R) /\ v = f[x]
  BY <1>8, <1>9
<1>12. (n + 1) * c = n * c + c /\ n * c \in Int
  BY <1>11
<1> QED BY <1>6, <1>7, <1>8, <1>9, <1>10, <1>11, <1>12

\* A sum of numbers that are not negative is not, and no less than any of them.
LEMMA SumPositive ==
    ASSUME NEW S, IsFiniteSet(S), NEW f, \A k \in S : f[k] \in Nat
    PROVE  Sum(f, S) \in Nat /\ \A k \in S : f[k] <= Sum(f, S)
<1>1. ASSUME NEW U \in SUBSET S PROVE Sum(f, U) \in Nat
  <2>1. IsFiniteSet(U) /\ Whole(f, U)
    BY FS_Subset DEF Whole
  <2>2. PICK W : W = {V \in SUBSET U : Sum(f, V) \notin Nat}
    OBVIOUS
  <2>3. CASE W = {}
    BY <2>2, <2>3
  <2>4. CASE W # {}
    <3>1. PICK T \in W : \A X \in W : X \subseteq T => X = T
      <4>1. W \in SUBSET (SUBSET U)
        BY <2>2
      <4> QED BY <2>1, <2>4, <4>1, LeastSubset
    <3>2. IsFiniteSet(T) /\ T \in SUBSET U /\ Sum(f, T) \notin Nat
      BY <2>1, <2>2, FS_Subset
    <3>3. Sum(f, T) = IF T = {} THEN 0 ELSE f[AnyOf(T)] + Sum(f, T \ {AnyOf(T)})
      BY <3>2, SumOf
    <3>4. T # {}
      BY <3>2, <3>3
    <3>5. AnyOf(T) \in T /\ T \ {AnyOf(T)} \in SUBSET U /\ T \ {AnyOf(T)} # T
      BY <3>2, <3>4, AnyOfSet
    <3>6. Sum(f, T \ {AnyOf(T)}) \in Nat
      BY <2>2, <3>1, <3>5
    <3>7. f[AnyOf(T)] \in Nat
      BY <3>2, <3>5
    <3> QED BY <3>2, <3>3, <3>4, <3>6, <3>7
  <2> QED BY <2>3, <2>4
<1>2. ASSUME NEW k \in S PROVE f[k] <= Sum(f, S)
  <2>1. Whole(f, S) /\ S \ {k} \in SUBSET S
    BY DEF Whole
  <2>2. Sum(f, S) = f[k] + Sum(f, S \ {k})
    BY <2>1, SumLess
  <2> QED BY <1>1, <2>1, <2>2
<1> QED BY <1>1, <1>2

-----------------------------------------------------------------------------
\* The rotation.

Rank(cs, b) == Cardinality({a \in cs : a < b})

\* How many selections come before that of b.
Behind(cs, n, b) ==
    LET turn == n % Cardinality(cs) IN
    IF Rank(cs, b) >= turn THEN Rank(cs, b) - turn ELSE Rank(cs, b) - turn + Cardinality(cs)

\* The ranks of k candidates are 0 to k - 1, one each.
LEMMA RankIs ==
    ASSUME NEW cs \in SUBSET Pool, NEW b \in cs
    PROVE  /\ IsFiniteSet(cs) /\ Cardinality(cs) \in Nat \ {0}
           /\ Rank(cs, b) \in 0 .. Cardinality(cs) - 1
           /\ \A a \in cs : a < b => Rank(cs, a) < Rank(cs, b)
           /\ \A a \in cs : Rank(cs, a) = Rank(cs, b) => a = b
<1>1. IsFiniteSet(cs) /\ cs \subseteq Nat
  BY PoolFacts, FS_Subset
<1>2. ASSUME NEW S, NEW T \in SUBSET S, NEW x \in S, x \notin T, IsFiniteSet(S)
      PROVE  Cardinality(T) \in Nat /\ Cardinality(S) \in Nat /\ Cardinality(T) < Cardinality(S)
  <2>1. IsFiniteSet(T) /\ Cardinality(T) <= Cardinality(S) /\ (Cardinality(S) = Cardinality(T) => S = T)
    BY <1>2, FS_Subset
  <2>2. Cardinality(T) \in Nat /\ Cardinality(S) \in Nat
    BY <1>2, <2>1, FS_CardinalityType
  <2>3. S # T
    BY <1>2
  <2> QED BY <2>1, <2>2, <2>3
<1>3. ASSUME NEW c \in cs
      PROVE  Rank(cs, c) \in Nat /\ Cardinality(cs) \in Nat /\ Rank(cs, c) < Cardinality(cs)
  <2>1. PICK T : T = {a \in cs : a < c}
    OBVIOUS
  <2>2. T \in SUBSET cs /\ c \notin T
    BY <1>1, <2>1
  <2> QED BY <1>1, <1>2, <2>1, <2>2 DEF Rank
<1>4. ASSUME NEW a \in cs, NEW c \in cs, a < c PROVE Rank(cs, a) < Rank(cs, c)
  <2>1. PICK T, S : T = {e \in cs : e < a} /\ S = {e \in cs : e < c}
    OBVIOUS
  <2>2. a \in S /\ a \notin T /\ S \in SUBSET cs
    BY <1>1, <1>4, <2>1
  <2>4. T \in SUBSET S
    <3>1. \A e \in cs : e \in Nat
      BY <1>1
    <3>2. \A e \in cs : e < a => e < c
      BY <1>4, <3>1
    <3> QED BY <2>1, <3>2
  <2>3. IsFiniteSet(S)
    BY <1>1, <2>2, FS_Subset
  <2> QED BY <1>2, <2>1, <2>2, <2>3, <2>4 DEF Rank
<1>5. ASSUME NEW a \in cs, Rank(cs, a) = Rank(cs, b) PROVE a = b
  <2>1. ~(a < b) /\ ~(b < a)
    BY <1>3, <1>4, <1>5
  <2> QED BY <1>1, <2>1
<1> QED BY <1>1, <1>3, <1>4, <1>5

LEMMA NthIs ==
    ASSUME NEW n \in 0 .. Cardinality(cands) - 1, cands \in SUBSET Pool, cands # {}
    PROVE  Nth(n) \in cands /\ Rank(cands, Nth(n)) = n
<1>1. PICK k : k = Cardinality(cands)
  OBVIOUS
<1>2. IsFiniteSet(cands) /\ k \in Nat \ {0}
  BY <1>1, RankIs
<1>3. PICK T : T = 0 .. k - 1
  OBVIOUS
<1>4. IsFiniteSet(T) /\ Cardinality(T) = k
  BY <1>2, <1>3, FS_Interval
<1> DEFINE f == [b \in cands |-> Rank(cands, b)]
<1>5. f \in Injection(cands, T)
  BY <1>1, <1>3, RankIs DEF Injection, IsInjective
<1>6. f \in Surjection(cands, T)
  <2> HIDE DEF f
  <2> QED BY <1>1, <1>4, <1>5, FS_Injection
<1>7. \E b \in cands : Rank(cands, b) = n
  BY <1>1, <1>3, <1>6 DEF Surjection
<1> QED BY <1>7 DEF Nth, Rank

\* The turn after this one.
LEMMA Division ==
    ASSUME NEW k \in Int, k > 0, NEW m \in Int, NEW q \in Int, q = m \div k, NEW r \in Int, r = m % k
    PROVE  m = k * q + r /\ r \in 0 .. k - 1
<1>1. m = k * q + r
  BY SMTT(30)
<1>2. r >= 0 /\ r < k
  OBVIOUS
<1> QED BY <1>1, <1>2

LEMMA NextTurn ==
    ASSUME NEW k \in Nat \ {0}, NEW n \in Nat
    PROVE  /\ n % k \in 0 .. k - 1
           /\ (n + 1) % k = IF n % k = k - 1 THEN 0 ELSE (n % k) + 1
<1>1. PICK q, r, p, s : q = n \div k /\ r = n % k /\ p = (n + 1) \div k /\ s = (n + 1) % k
  OBVIOUS
<1>2. q \in Int /\ r \in Int /\ p \in Int /\ s \in Int /\ k \in Int /\ k > 0
  BY <1>1
<1>3. n = k * q + r /\ r \in 0 .. k - 1
  BY <1>1, <1>2, Division
<1>4. n + 1 = k * p + s /\ s \in 0 .. k - 1
  BY <1>1, <1>2, Division
<1>5. CASE p <= q - 1
  <2>1. k * p <= k * (q - 1)
    BY <1>2, <1>5
  <2>2. k * (q - 1) = k * q - k
    BY <1>2
  <2> QED BY <1>2, <1>3, <1>4, <2>1, <2>2
<1>6. CASE p = q
  BY <1>1, <1>2, <1>3, <1>4, <1>6
<1>7. CASE p = q + 1
  <2>1. k * p = k * q + k
    BY <1>2, <1>7
  <2> QED BY <1>1, <1>2, <1>3, <1>4, <2>1
<1>8. CASE p >= q + 2
  <2>1. k * p >= k * (q + 2)
    BY <1>2, <1>8
  <2>2. k * (q + 2) = k * q + k + k
    BY <1>2
  <2> QED BY <1>2, <1>3, <1>4, <2>1, <2>2
<1> QED BY <1>2, <1>5, <1>6, <1>7, <1>8

-----------------------------------------------------------------------------
\* The weighted selection: the candidates gain what the winner x pays, and x
\* owes less than a round more than they do on average.
Round(P, C, x, w, g, r, v) ==
    /\ IsFiniteSet(P) /\ C \in SUBSET P /\ x \in C
    /\ Whole(w, P)
    /\ \A k \in P : g[k] \in Nat /\ g[k] > 0
    /\ \A k \in P : r[k] = w[k] + (IF k \in C THEN g[k] ELSE 0)
    /\ \A a \in C : r[a] <= r[x]
    /\ v[x] = r[x] - Sum(g, C)
    /\ \A k \in P \ {x} : v[k] = r[k]

LEMMA WinnerPays ==
    ASSUME NEW P, NEW C, NEW x, NEW w, NEW g, NEW r, NEW v, Round(P, C, x, w, g, r, v)
    PROVE  /\ Sum(v, P) = Sum(w, P) /\ Sum(v, C) = Sum(w, C)
           /\ Sum(g, C) \in Nat /\ Sum(g, C) > 0 /\ Sum(w, C) \in Int
           /\ Cardinality(C) * (v[x] + Sum(g, C)) > Sum(v, C)
<1>0. /\ IsFiniteSet(P) /\ C \in SUBSET P /\ x \in C /\ Whole(w, P)
      /\ \A k \in P : g[k] \in Nat /\ g[k] > 0
      /\ \A k \in P : r[k] = w[k] + (IF k \in C THEN g[k] ELSE 0)
      /\ \A a \in C : r[a] <= r[x]
      /\ v[x] = r[x] - Sum(g, C) /\ \A k \in P \ {x} : v[k] = r[k]
  BY DEF Round
<1> USE <1>0
<1>1. IsFiniteSet(C) /\ Whole(w, C) /\ Whole(g, P) /\ Whole(g, C) /\ C \in SUBSET C
  BY FS_Subset DEF Whole
<1>2. Whole(r, P) /\ Whole(r, C)
  BY DEF Whole
<1>3. Sum(r, P) = Sum(w, P) + Sum(g, C)
  BY <1>1, SumRaised
<1>4. Sum(r, C) = Sum(w, C) + Sum(g, C)
  <2>1. \A k \in C : r[k] = w[k] + (IF k \in C THEN g[k] ELSE 0)
    OBVIOUS
  <2> QED BY <1>1, <2>1, SumRaised
<1>5. Sum(g, C) \in Nat /\ g[x] <= Sum(g, C)
  BY <1>1, SumPositive
<1>6. Sum(g, C) > 0
  BY <1>5
<1>7. v[x] \in Int /\ r[x] \in Int
  BY <1>2, <1>5 DEF Whole
<1>8. Sum(v, P) = Sum(r, P) - r[x] + v[x]
  <2>1. x \in P
    OBVIOUS
  <2> QED BY <1>2, <1>7, <2>1, SumMoves
<1>9. Sum(v, C) = Sum(r, C) - r[x] + v[x]
  <2>1. \A k \in C \ {x} : v[k] = r[k]
    OBVIOUS
  <2> QED BY <1>1, <1>2, <1>7, <2>1, SumMoves
<1>10. Sum(w, P) \in Int /\ Sum(w, C) \in Int
  BY <1>1, SumInt
<1>11. Sum(v, P) = Sum(w, P) /\ Sum(v, C) = Sum(w, C)
  BY <1>3, <1>4, <1>5, <1>7, <1>8, <1>9, <1>10
<1>12. Sum(r, C) <= Cardinality(C) * r[x]
  BY <1>1, <1>2, <1>7, SumBounded
<1>13. v[x] + Sum(g, C) = r[x]
  BY <1>5, <1>7
<1>14. PICK m : m = Cardinality(C) * r[x]
  OBVIOUS
<1>15. m \in Int
  <2>1. Cardinality(C) \in Nat
    BY <1>1, FS_CardinalityType
  <2> QED BY <1>7, <1>14, <2>1
<1>16. m > Sum(v, C)
  BY <1>4, <1>5, <1>6, <1>10, <1>11, <1>12, <1>14, <1>15
<1> QED BY <1>5, <1>6, <1>10, <1>11, <1>13, <1>14, <1>16

\* The selections since the candidates changed, and the weights they left.
WeightedInv ==
    /\ \A b \in cands :
          picks[b] > 0 =>
              Cardinality(cands) * (weights[b] + Sum(WeightOf, cands)) > Sum(weights, cands)
    /\ changes = 0 =>
          /\ cands = Pool
          /\ \A b \in Pool :
                weights[b] = Sum(picks, Pool) * WeightOf[b] - picks[b] * Sum(WeightOf, Pool)

\* Who comes later in the rotation was picked as often or once more.
RotationInv ==
    \A a, b \in cands :
        Behind(cands, counter, a) < Behind(cands, counter, b) =>
            picks[a] <= picks[b] /\ picks[b] <= picks[a] + 1

SelectorsType ==
    /\ algorithm \in {"round_robin", "weighted_round_robin", "ip_hash"}
    /\ cands \in SUBSET Pool /\ cands # {}
    /\ changes \in Nat
    /\ weights \in [Pool -> Int]
    /\ counter \in Nat
    /\ score \in [Clients -> [Pool -> Nat]]
    /\ picks \in [Pool -> Nat]

FairInv ==
    /\ SelectorsType
    /\ Sum(weights, Pool) = 0
    /\ algorithm = "weighted_round_robin" => WeightedInv
    /\ algorithm = "round_robin" => RotationInv

\* Nobody has selected: nothing is owed.
LEMMA SumZero ==
    ASSUME NEW S, IsFiniteSet(S), NEW f, \A k \in S : f[k] = 0
    PROVE  Sum(f, S) = 0
<1> DEFINE W == {U \in SUBSET S : Sum(f, U) # 0}
<1> SUFFICES ASSUME W # {} PROVE FALSE
  OBVIOUS
<1>1. PICK T \in W : \A X \in W : X \subseteq T => X = T
  <2>1. W \in SUBSET (SUBSET S)
    OBVIOUS
  <2> HIDE DEF W
  <2> QED BY <2>1, LeastSubset
<1>2. Sum(f, T) = IF T = {} THEN 0 ELSE f[AnyOf(T)] + Sum(f, T \ {AnyOf(T)})
  BY SumOf, FS_Subset
<1>3. T # {}
  BY <1>2
<1>4. AnyOf(T) \in T /\ T \ {AnyOf(T)} \in SUBSET S /\ T \ {AnyOf(T)} # T
  BY <1>3, AnyOfSet
<1>5. Sum(f, T \ {AnyOf(T)}) = 0 /\ f[AnyOf(T)] = 0
  BY <1>1, <1>4
<1> QED BY <1>2, <1>3, <1>5

LEMMA FairInit == SelectorsInit => FairInv
<1> SUFFICES ASSUME SelectorsInit PROVE FairInv
  OBVIOUS
<1> USE DEF SelectorsInit
<1>1. SelectorsType
  <2>1. score \in [Clients -> [Pool -> Nat]]
    BY SelectorsAssumption
  <2> QED BY <2>1, PoolFacts DEF SelectorsType, NoPicks
<1>2. \A b \in Pool : weights[b] = 0 /\ picks[b] = 0
  BY DEF NoPicks
<1>3. Sum(weights, Pool) = 0 /\ Sum(picks, Pool) = 0
  BY <1>2, PoolFacts, SumZero
<1>4. WeightedInv
  <2>1. \A b \in cands : ~(picks[b] > 0)
    BY <1>2
  <2>2. Sum(WeightOf, Pool) \in Nat
    BY PoolFacts, SumPositive
  <2>3. ASSUME NEW b \in Pool
        PROVE  weights[b] = Sum(picks, Pool) * WeightOf[b] - picks[b] * Sum(WeightOf, Pool)
    <3>1. WeightOf[b] \in Int
      BY PoolFacts
    <3>2. 0 * WeightOf[b] = 0 /\ 0 * Sum(WeightOf, Pool) = 0
      BY <2>2, <3>1
    <3> QED BY <1>2, <1>3, <3>2
  <2> QED BY <2>1, <2>3 DEF WeightedInv
<1>5. RotationInv
  <2>1. \A b \in cands : picks[b] = 0
    BY <1>2
  <2> QED BY <2>1 DEF RotationInv
<1> QED BY <1>1, <1>3, <1>4, <1>5 DEF FairInv

LEMMA FairChange ==
    ASSUME FairInv, NEW new \in SUBSET Pool, Change(new)
    PROVE  FairInv'
<1> USE DEF Change
<1>1. SelectorsType'
  BY DEF FairInv, SelectorsType, NoPicks
<1>2. (Sum(weights, Pool) = 0)'
  BY DEF FairInv
<1>3. \A b \in Pool : picks'[b] = 0
  BY DEF NoPicks
<1>4. WeightedInv'
  <2>1. \A b \in cands' : ~(picks'[b] > 0)
    BY <1>1, <1>3 DEF SelectorsType
  <2>2. changes' # 0
    BY DEF FairInv, SelectorsType
  <2> QED BY <2>1, <2>2 DEF WeightedInv
<1>5. RotationInv'
  <2>1. \A b \in cands' : picks'[b] = 0
    BY <1>1, <1>3 DEF SelectorsType
  <2> QED BY <2>1 DEF RotationInv
<1> QED BY <1>1, <1>2, <1>4, <1>5 DEF FairInv

\* What is owed after a selection, from what was owed before.
LEMMA OwedAfter ==
    ASSUME NEW n \in Int, NEW g \in Int, NEW p \in Int, NEW t \in Int, NEW w \in Int,
           w = n * g - p * t
    PROVE  /\ w + g = (n + 1) * g - p * t
           /\ w + g - t = (n + 1) * g - (p + 1) * t
<1>1. (n + 1) * g = n * g + g /\ n * g \in Int
  OBVIOUS
<1>2. (p + 1) * t = p * t + t /\ p * t \in Int
  OBVIOUS
<1> QED BY <1>1, <1>2

LEMMA FairWeighted ==
    ASSUME FairInv, SelectWeighted
    PROVE  FairInv'
<1>1. PICK best : best = FirstBest(Raised, cands)
  OBVIOUS
<1>2. cands \in SUBSET Pool /\ cands # {} /\ weights \in [Pool -> Int] /\ picks \in [Pool -> Nat]
  BY DEF FairInv, SelectorsType
<1>3. \A b \in Pool : /\ Raised[b] = weights[b] + (IF b \in cands THEN WeightOf[b] ELSE 0)
                      /\ Raised[b] \in Int
  BY <1>2, PoolFacts DEF Raised
<1>4. best \in cands /\ \A a \in cands : Raised[a] <= Raised[best]
  BY <1>1, <1>2, <1>3, BestIs
<1>5. PICK r, v, T : r = Raised /\ v = weights' /\ T = Sum(WeightOf, cands)
  OBVIOUS
<1>6. T = Total /\ T \in Nat
  <2>1. IsFiniteSet(cands) /\ \A k \in cands : WeightOf[k] \in Nat
    BY <1>2, PoolFacts, FS_Subset
  <2>2. Sum(WeightOf, cands) \in Nat
    BY <2>1, SumPositive
  <2> QED BY <1>5, <2>2 DEF Total, Sum
<1>7. v[best] = r[best] - T /\ \A k \in Pool \ {best} : v[k] = r[k]
  <2>1. weights' = [Raised EXCEPT ![best] = Raised[best] - T]
    BY <1>1, <1>6 DEF SelectWeighted, WeightedPick
  <2>2. DOMAIN Raised = Pool
    BY DEF Raised
  <2> QED BY <1>2, <1>4, <1>5, <2>1, <2>2
<1>8. picks' = [picks EXCEPT ![best] = picks[best] + 1]
  BY <1>1 DEF SelectWeighted, WeightedPick
<1>9. /\ cands' = cands /\ changes' = changes /\ counter' = counter /\ score' = score
      /\ algorithm' = algorithm /\ algorithm = "weighted_round_robin"
  BY DEF SelectWeighted, WeightedPick
<1>10. Whole(weights, Pool) /\ Whole(picks, Pool)
  BY <1>2 DEF Whole
<1>11. v \in [Pool -> Int]
  <2>1. \A b \in Pool : v[b] \in Int
    BY <1>3, <1>4, <1>5, <1>6, <1>7
  <2>2. v = [Raised EXCEPT ![best] = Raised[best] - T]
    BY <1>1, <1>5, <1>6 DEF SelectWeighted, WeightedPick
  <2>3. DOMAIN v = Pool /\ v = [b \in DOMAIN v |-> v[b]]
    BY <2>2 DEF Raised
  <2> QED BY <2>1, <2>3
<1>12. SelectorsType'
  <2>1. picks' \in [Pool -> Nat]
    BY <1>2, <1>4, <1>8
  <2> QED BY <1>5, <1>9, <1>11, <2>1 DEF FairInv, SelectorsType
<1>13. /\ Sum(v, Pool) = Sum(weights, Pool) /\ Sum(v, cands) = Sum(weights, cands)
       /\ T > 0 /\ Sum(weights, cands) \in Int
       /\ Cardinality(cands) * (v[best] + T) > Sum(v, cands)
  <2>1. \A k \in Pool : WeightOf[k] \in Nat /\ WeightOf[k] > 0
    BY PoolFacts
  <2>2. IsFiniteSet(Pool)
    BY PoolFacts
  <2>3. PICK C, w, g : C = cands /\ w = weights /\ g = WeightOf
    OBVIOUS
  <2>4. \A k \in Pool : r[k] = w[k] + (IF k \in C THEN g[k] ELSE 0)
    BY <1>3, <1>5, <2>3
  <2>5. \A a \in C : r[a] <= r[best]
    BY <1>4, <1>5, <2>3
  <2>6. C \in SUBSET Pool /\ best \in C /\ Whole(w, Pool)
    BY <1>2, <1>4, <1>10, <2>3
  <2>7. v[best] = r[best] - Sum(g, C)
    BY <1>5, <1>7, <2>3
  <2>8. \A k \in Pool : g[k] \in Nat /\ g[k] > 0
    BY <2>1, <2>3
  <2>9. /\ Sum(v, Pool) = Sum(w, Pool) /\ Sum(v, C) = Sum(w, C)
        /\ Sum(g, C) \in Nat /\ Sum(g, C) > 0 /\ Sum(w, C) \in Int
        /\ Cardinality(C) * (v[best] + Sum(g, C)) > Sum(v, C)
    <3>1. Round(Pool, C, best, w, g, r, v)
      BY <1>7, <2>2, <2>4, <2>5, <2>6, <2>7, <2>8 DEF Round
    <3> QED BY <3>1, WinnerPays
  <2> QED BY <1>5, <2>3, <2>9
<1>14. (Sum(weights, Pool) = 0)'
  BY <1>5, <1>13 DEF FairInv
<1>15. WeightedInv
  BY <1>9 DEF FairInv
<1>16. ASSUME NEW b \in cands, picks'[b] > 0
       PROVE  Cardinality(cands) * (v[b] + T) > Sum(v, cands)
  <2>1. CASE b = best
    BY <1>13, <2>1
  <2>2. CASE b # best
    <3>1. picks'[b] = picks[b]
      BY <1>2, <1>8, <2>2
    <3>2. Cardinality(cands) * (weights[b] + T) > Sum(weights, cands)
      BY <1>5, <1>15, <1>16, <3>1 DEF WeightedInv
    <3>3. v[b] = weights[b] + WeightOf[b]
      BY <1>2, <1>3, <1>5, <1>7, <2>2
    <3>4. weights[b] \in Int /\ WeightOf[b] \in Nat /\ Cardinality(cands) \in Nat
      BY <1>2, PoolFacts, FS_Subset, FS_CardinalityType
    <3>5. PICK k \in Nat, w \in Int, g \in Nat : k = Cardinality(cands) /\ w = weights[b] /\ g = WeightOf[b]
      BY <3>4
    <3>6. k * (w + T) \in Int /\ k * (w + g + T) = k * (w + T) + k * g /\ k * g \in Nat
      BY <1>6, <3>5
    <3>7. v[b] + T = w + g + T
      BY <3>3, <3>5
    <3>8. PICK s : s = Sum(weights, cands)
      OBVIOUS
    <3>9. s \in Int /\ Sum(v, cands) = s
      BY <1>13, <3>8
    <3>10. k * (w + T) > s
      BY <3>2, <3>5, <3>8
    <3>11. k * (w + g + T) > s
      BY <3>6, <3>9, <3>10
    <3> QED BY <3>5, <3>7, <3>9, <3>11
  <2> QED BY <2>1, <2>2
<1>17. ASSUME changes = 0
       PROVE  /\ cands = Pool
              /\ \A b \in Pool :
                    v[b] = Sum(picks', Pool) * WeightOf[b] - picks'[b] * Sum(WeightOf, Pool)
  <2>1. cands = Pool /\ T = Sum(WeightOf, Pool)
    BY <1>5, <1>15, <1>17 DEF WeightedInv
  <2>2. PICK n : n = Sum(picks, Pool)
    OBVIOUS
  <2>3. Sum(picks', Pool) = n + 1 /\ n \in Int
    <3>1. PICK p, q : p = picks /\ q = picks'
      OBVIOUS
    <3>2. q[best] = p[best] + 1 /\ p[best] \in Int /\ \A k \in Pool \ {best} : q[k] = p[k]
      BY <1>2, <1>4, <1>8, <3>1
    <3>3. IsFiniteSet(Pool) /\ Whole(p, Pool) /\ best \in Pool /\ q[best] \in Int
      <4>1. q[best] \in Int /\ best \in Pool
        BY <1>4, <2>1, <3>2
      <4> QED BY <1>10, <3>1, <4>1, PoolFacts
    <3>4. Sum(q, Pool) = Sum(p, Pool) - p[best] + q[best] /\ Sum(p, Pool) \in Int
      BY <3>2, <3>3, SumMoves, SumInt
    <3> QED BY <2>2, <3>1, <3>2, <3>4
  <2>4. ASSUME NEW b \in Pool
        PROVE  v[b] = (n + 1) * WeightOf[b] - picks'[b] * T
    <3>1. weights[b] = n * WeightOf[b] - picks[b] * T
      BY <1>15, <1>17, <2>1, <2>2 DEF WeightedInv
    <3>2. PICK w \in Int, g \in Int, p \in Int : w = weights[b] /\ g = WeightOf[b] /\ p = picks[b]
      BY <1>2, PoolFacts
    <3>3. /\ w + g = (n + 1) * g - p * T
          /\ w + g - T = (n + 1) * g - (p + 1) * T
      <4>1. w = n * g - p * T /\ T \in Int
        BY <1>6, <3>1, <3>2
      <4> QED BY <2>3, <3>2, <4>1, OwedAfter
    <3>4. Raised[b] = w + g
      BY <1>3, <2>1, <3>2
    <3>5. CASE b = best
      <4>1. picks'[b] = p + 1
        BY <1>2, <1>8, <3>2, <3>5
      <4>2. r[b] = w + g /\ v[b] = r[b] - T
        <5>1. v[b] = r[b] - T
          BY <1>7, <3>5
        <5>2. r[b] = w + g
          BY <1>5, <3>4
        <5> QED BY <5>1, <5>2
      <4>3. v[b] = w + g - T
        BY <1>6, <4>2
      <4> QED BY <3>2, <3>3, <4>1, <4>3
    <3>6. CASE b # best
      <4>1. picks'[b] = p
        BY <1>2, <1>8, <3>2, <3>6
      <4>2. v[b] = w + g
        BY <1>5, <1>7, <3>4, <3>6
      <4> QED BY <3>2, <3>3, <4>1, <4>2
    <3> QED BY <3>5, <3>6
  <2> QED BY <2>1, <2>3, <2>4
<1>18. WeightedInv'
  BY <1>5, <1>9, <1>16, <1>17 DEF WeightedInv
<1> QED BY <1>9, <1>12, <1>14, <1>18 DEF FairInv

-----------------------------------------------------------------------------
\* A selection takes the one nobody is behind to the end of the rotation.
LEMMA BehindNext ==
    ASSUME NEW cs \in SUBSET Pool, NEW n \in Nat, NEW b \in cs
    PROVE  /\ Behind(cs, n, b) \in 0 .. Cardinality(cs) - 1
           /\ Behind(cs, n, b) = 0 <=> Rank(cs, b) = n % Cardinality(cs)
           /\ Behind(cs, n + 1, b) = IF Behind(cs, n, b) = 0 THEN Cardinality(cs) - 1
                                     ELSE Behind(cs, n, b) - 1
<1>1. PICK k, r, t, u : /\ k = Cardinality(cs) /\ r = Rank(cs, b)
                        /\ t = n % k /\ u = (n + 1) % k
  OBVIOUS
<1>2. k \in Nat \ {0} /\ r \in 0 .. k - 1
  BY <1>1, RankIs
<1>3. t \in 0 .. k - 1 /\ u = IF t = k - 1 THEN 0 ELSE t + 1
  BY <1>1, <1>2, NextTurn
<1>4. /\ Behind(cs, n, b) = IF r >= t THEN r - t ELSE r - t + k
      /\ Behind(cs, n + 1, b) = IF r >= u THEN r - u ELSE r - u + k
  BY <1>1 DEF Behind
<1>5. PICK d, e : d = Behind(cs, n, b) /\ e = Behind(cs, n + 1, b)
  OBVIOUS
<1>6. d \in 0 .. k - 1 /\ (d = 0 <=> r = t)
  BY <1>2, <1>3, <1>4, <1>5
<1>7. e = IF d = 0 THEN k - 1 ELSE d - 1
  BY <1>2, <1>3, <1>4, <1>5
<1> QED BY <1>1, <1>5, <1>6, <1>7

LEMMA FairRoundRobin ==
    ASSUME FairInv, SelectRoundRobin
    PROVE  FairInv'
<1>1. /\ cands \in SUBSET Pool /\ cands # {} /\ weights \in [Pool -> Int]
      /\ picks \in [Pool -> Nat] /\ counter \in Nat
  BY DEF FairInv, SelectorsType
<1>2. PICK k : k = Cardinality(cands)
  OBVIOUS
<1>3. k \in Nat \ {0} /\ counter % k \in 0 .. k - 1
  BY <1>1, <1>2, RankIs, NextTurn
<1>4. PICK x : x = Nth(counter % k)
  OBVIOUS
<1>5. x \in cands /\ Rank(cands, x) = counter % k
  BY <1>1, <1>2, <1>3, <1>4, NthIs
<1>6. /\ counter' = counter + 1 /\ picks' = [picks EXCEPT ![x] = picks[x] + 1]
      /\ cands' = cands /\ changes' = changes /\ weights' = weights /\ score' = score
      /\ algorithm' = algorithm /\ algorithm = "round_robin"
  BY <1>2, <1>4 DEF SelectRoundRobin
<1>7. PICK d, e : /\ d = [b \in cands |-> Behind(cands, counter, b)]
                  /\ e = [b \in cands |-> Behind(cands, counter', b)]
  OBVIOUS
<1>8. \A b \in cands : /\ d[b] \in 0 .. k - 1 /\ (d[b] = 0 <=> b = x)
                       /\ e[b] = IF d[b] = 0 THEN k - 1 ELSE d[b] - 1
  <2>1. SUFFICES ASSUME NEW b \in cands
                 PROVE  /\ d[b] \in 0 .. k - 1 /\ (d[b] = 0 <=> b = x)
                        /\ e[b] = IF d[b] = 0 THEN k - 1 ELSE d[b] - 1
    OBVIOUS
  <2>2. /\ d[b] \in 0 .. k - 1
        /\ d[b] = 0 <=> Rank(cands, b) = counter % k
        /\ e[b] = IF d[b] = 0 THEN k - 1 ELSE d[b] - 1
    <3>1. d[b] = Behind(cands, counter, b) /\ e[b] = Behind(cands, counter + 1, b)
      BY <1>6, <1>7
    <3>2. /\ Behind(cands, counter, b) \in 0 .. k - 1
          /\ Behind(cands, counter, b) = 0 <=> Rank(cands, b) = counter % k
          /\ Behind(cands, counter + 1, b) =
                IF Behind(cands, counter, b) = 0 THEN k - 1 ELSE Behind(cands, counter, b) - 1
      BY <1>1, <1>2, BehindNext
    <3> QED BY <3>1, <3>2
  <2>3. Rank(cands, b) = counter % k <=> b = x
    BY <1>1, <1>5, RankIs
  <2> QED BY <2>2, <2>3
<1>9. \A a, b \in cands : d[a] < d[b] => picks[a] <= picks[b] /\ picks[b] <= picks[a] + 1
  BY <1>6, <1>7 DEF FairInv, RotationInv
<1>10. picks' \in [Pool -> Nat] /\ picks'[x] = picks[x] + 1 /\ \A b \in cands \ {x} : picks'[b] = picks[b]
  BY <1>1, <1>5, <1>6
<1>11. ASSUME NEW a \in cands, NEW b \in cands, e[a] < e[b]
       PROVE  picks'[a] <= picks'[b] /\ picks'[b] <= picks'[a] + 1
  <2>1. picks[a] \in Nat /\ picks[b] \in Nat /\ d[a] \in 0 .. k - 1 /\ d[b] \in 0 .. k - 1
    BY <1>1, <1>8
  <2>2. a # x
    BY <1>3, <1>8, <1>11, <2>1
  <2>3. CASE b = x
    <3>1. d[b] < d[a]
      BY <1>8, <2>1, <2>2, <2>3
    <3>2. picks[b] <= picks[a] /\ picks[a] <= picks[b] + 1
      BY <1>9, <3>1
    <3> QED BY <1>10, <2>1, <2>2, <2>3, <3>2
  <2>4. CASE b # x
    <3>1. d[a] < d[b]
      BY <1>8, <1>11, <2>1, <2>2, <2>4
    <3> QED BY <1>9, <1>10, <2>2, <2>4, <3>1
  <2> QED BY <2>3, <2>4
<1>12. RotationInv'
  BY <1>6, <1>7, <1>11 DEF RotationInv
<1>13. SelectorsType' /\ (Sum(weights, Pool) = 0)'
  BY <1>6, <1>10 DEF FairInv, SelectorsType
<1> QED BY <1>6, <1>12, <1>13 DEF FairInv

LEMMA FairStep == FairInv /\ [SelectorsNext]_selectorVars => FairInv'
<1> SUFFICES ASSUME FairInv, [SelectorsNext]_selectorVars PROVE FairInv'
  OBVIOUS
<1>1. CASE SelectWeighted
  BY <1>1, FairWeighted
<1>2. CASE SelectRoundRobin
  BY <1>2, FairRoundRobin
<1>3. CASE \E new \in SUBSET Pool : Change(new)
  BY <1>3, FairChange
<1>4. CASE UNCHANGED selectorVars
  BY <1>4 DEF selectorVars, FairInv, SelectorsType, WeightedInv, RotationInv
<1> QED BY <1>1, <1>2, <1>3, <1>4 DEF SelectorsNext

LEMMA FairAlways == SelectorsSpec => []FairInv
<1> QED BY FairInit, FairStep, PTL DEF SelectorsSpec

-----------------------------------------------------------------------------
\* What FairInv says of the shares.

LEMMA OneBehind ==
    ASSUME SelectorsType, RotationInv
    PROVE  RotationEven
<1> SUFFICES ASSUME NEW a \in cands, NEW b \in cands PROVE picks[a] <= picks[b] + 1
  BY DEF RotationEven
<1>1. cands \in SUBSET Pool /\ picks[a] \in Nat /\ picks[b] \in Nat /\ counter \in Nat
  BY DEF SelectorsType
<1>2. PICK k, d, e : /\ k = Cardinality(cands) /\ d = Behind(cands, counter, a)
                     /\ e = Behind(cands, counter, b)
  OBVIOUS
<1>3. k \in Nat /\ d \in 0 .. k - 1 /\ e \in 0 .. k - 1
  BY <1>1, <1>2, BehindNext, RankIs
<1>4. CASE d < e
  BY <1>1, <1>2, <1>4 DEF RotationInv
<1>5. CASE e < d
  BY <1>1, <1>2, <1>5 DEF RotationInv
<1>6. CASE d = e
  <2>1. a = b
    <3>1. PICK r, s, t : r = Rank(cands, a) /\ s = Rank(cands, b) /\ t = counter % k
      OBVIOUS
    <3>2. r \in 0 .. k - 1 /\ s \in 0 .. k - 1 /\ t \in 0 .. k - 1
      BY <1>1, <1>2, <3>1, RankIs, NextTurn
    <3>3. d = (IF r >= t THEN r - t ELSE r - t + k) /\ e = (IF s >= t THEN s - t ELSE s - t + k)
      BY <1>2, <3>1 DEF Behind
    <3>4. r = s
      <4>1. (IF r >= t THEN r - t ELSE r - t + k) = (IF s >= t THEN s - t ELSE s - t + k)
        BY <1>6, <3>3
      <4>2. r \in Int /\ s \in Int /\ t \in Int /\ k \in Int /\ 0 <= r /\ r < k /\ 0 <= s /\ s < k
        BY <1>3, <3>2
      <4>3. CASE r >= t /\ s >= t
        BY <4>1, <4>2, <4>3
      <4>4. CASE r < t /\ s < t
        BY <4>1, <4>2, <4>4
      <4>5. CASE r >= t /\ s < t
        BY <4>1, <4>2, <4>5
      <4>6. CASE r < t /\ s >= t
        BY <4>1, <4>2, <4>6
      <4> QED BY <4>2, <4>3, <4>4, <4>5, <4>6
    <3>5. cands \in SUBSET Pool /\ Rank(cands, a) = Rank(cands, b)
      BY <1>1, <3>1, <3>4
    <3> QED BY <3>5, RankIs
  <2> QED BY <1>1, <2>1
<1> QED BY <1>3, <1>4, <1>5, <1>6

\* From a fresh start: nobody owes a round, and after a full cycle nobody owes anything.
LEMMA CycleEven ==
    ASSUME NEW n \in Nat, NEW t \in Nat \ {0}, NEW g \in [Pool -> Nat \ {0}],
           NEW p \in [Pool -> Nat], NEW w \in [Pool -> Int], Sum(w, Pool) = 0,
           \A b \in Pool : w[b] = n * g[b] - p[b] * t,
           \A b \in Pool : p[b] > 0 => w[b] + t > 0
    PROVE  \A b \in Pool : p[b] * t - n * g[b] < t /\ (n % t = 0 => p[b] * t - n * g[b] = 0)
<1>1. ASSUME NEW b \in Pool PROVE n * g[b] \in Nat /\ p[b] * t \in Nat /\ w[b] \in Int
  OBVIOUS
<1>2. \A b \in Pool : p[b] * t - n * g[b] = -w[b]
  <2>1. SUFFICES ASSUME NEW b \in Pool PROVE p[b] * t - n * g[b] = -w[b]
    OBVIOUS
  <2>2. PICK x, y : x = n * g[b] /\ y = p[b] * t
    OBVIOUS
  <2>3. x \in Nat /\ y \in Nat /\ w[b] = x - y
    BY <1>1, <2>2
  <2> QED BY <2>2, <2>3
<1>3. \A b \in Pool : w[b] + t > 0
  <2>1. SUFFICES ASSUME NEW b \in Pool, ~(p[b] > 0) PROVE w[b] + t > 0
    OBVIOUS
  <2>2. p[b] = 0 /\ p[b] * t = 0
    BY <2>1
  <2>3. PICK x : x = n * g[b]
    OBVIOUS
  <2>4. x \in Nat /\ w[b] = x
    BY <1>1, <2>2, <2>3
  <2> QED BY <2>4
<1>4. ASSUME n % t = 0 PROVE \A b \in Pool : w[b] = 0
  <2>1. PICK q, r : q = n \div t /\ r = n % t
    OBVIOUS
  <2>2. q \in Int /\ n \in Int /\ t \in Int /\ t > 0 /\ r \in Int
    BY <2>1
  <2>3. n = t * q
    <3>1. n = t * q + r
      BY <2>1, <2>2, Division
    <3> QED BY <1>4, <2>1, <2>2, <3>1
  <2>4. \A b \in Pool : w[b] \in Nat
    <3>1. SUFFICES ASSUME NEW b \in Pool PROVE w[b] \in Nat
      OBVIOUS
    <3>2. PICK h \in Int, m \in Int : h = g[b] /\ m = p[b]
      OBVIOUS
    <3>3. w[b] = t * q * h - m * t
      BY <2>3, <3>2
    <3>4. t * q * h - m * t = t * (q * h - m)
      BY <2>2, <3>2
    <3>5. PICK f \in Int : f = q * h - m
      BY <2>2, <3>2
    <3>6. w[b] = t * f /\ t * f + t > 0
      BY <1>3, <3>3, <3>4, <3>5
    <3>7. f >= 0
      <4>1. SUFFICES ASSUME f <= -1 PROVE FALSE
        BY <3>5
      <4>2. t * f <= t * (-1)
        BY <2>2, <3>5, <4>1
      <4> QED BY <2>2, <3>5, <3>6, <4>2
    <3> QED BY <2>2, <3>5, <3>6, <3>7
  <2>5. \A b \in Pool : w[b] <= Sum(w, Pool)
    BY <2>4, PoolFacts, SumPositive
  <2> QED BY <2>4, <2>5
<1> QED BY <1>1, <1>2, <1>3, <1>4

LEMMA SharesEven ==
    ASSUME SelectorsType, Sum(weights, Pool) = 0, WeightedInv
    PROVE  WeightedEven
<1>1. Total = Sum(WeightOf, cands) /\ SumFunctionOnSet(weights, cands) = Sum(weights, cands)
  BY DEF Total, Sum
<1>2. SumFunction(picks) = Sum(picks, Pool)
  BY DEF SelectorsType, SumFunction, Sum, SumFunctionOnSet
<1>3. ASSUME changes = 0
      PROVE  \A b \in cands : /\ Ahead(picks, b) < Total
                              /\ SumFunction(picks) % Total = 0 => Ahead(picks, b) = 0
  <2>1. /\ cands = Pool /\ picks \in [Pool -> Nat] /\ weights \in [Pool -> Int]
        /\ \A b \in Pool :
              weights[b] = Sum(picks, Pool) * WeightOf[b] - picks[b] * Sum(WeightOf, Pool)
        /\ \A b \in Pool :
              picks[b] > 0 => Cardinality(Pool) * (weights[b] + Sum(WeightOf, Pool)) > 0
    BY <1>3 DEF SelectorsType, WeightedInv
  <2>2. PICK n, t, k : n = Sum(picks, Pool) /\ t = Sum(WeightOf, Pool) /\ k = Cardinality(Pool)
    OBVIOUS
  <2>3. IsFiniteSet(Pool) /\ Pool # {} /\ \A b \in Pool : WeightOf[b] \in Nat /\ WeightOf[b] > 0
    BY PoolFacts
  <2>4. t \in Nat \ {0} /\ WeightOf \in [Pool -> Nat \ {0}]
    <3>1. \A b \in Pool : WeightOf[b] \in Nat
      BY <2>3
    <3>2. t \in Nat /\ \A b \in Pool : WeightOf[b] <= t
      BY <2>2, <2>3, <3>1, SumPositive
    <3>3. t # 0
      BY <2>3, <3>2
    <3>4. WeightOf = [b \in Pool |-> WeightOf[b]]
      BY SelectorsAssumption DEF Pool
    <3>5. \A b \in Pool : WeightOf[b] \in Nat \ {0}
      BY <2>3
    <3>6. WeightOf \in [Pool -> Nat \ {0}]
      BY <3>4, <3>5
    <3> QED BY <3>2, <3>3, <3>6
  <2>5. n \in Nat
    <3>1. \A b \in Pool : picks[b] \in Nat
      BY <2>1
    <3> QED BY <2>2, <2>3, <3>1, SumPositive
  <2>6. \A b \in Pool : picks[b] > 0 => weights[b] + t > 0
    <3>1. SUFFICES ASSUME NEW b \in Pool, picks[b] > 0 PROVE weights[b] + t > 0
      OBVIOUS
    <3>2. PICK v : v = weights[b] + t
      OBVIOUS
    <3>3. v \in Int /\ k * v > 0 /\ k \in Nat
      <4>1. k \in Nat
        BY <2>2, <2>3, FS_CardinalityType
      <4>2. weights[b] \in Int /\ v \in Int
        BY <2>1, <2>4, <3>2
      <4>3. Cardinality(Pool) * (weights[b] + Sum(WeightOf, Pool)) > 0
        BY <2>1, <3>1
      <4> QED BY <2>2, <3>2, <4>1, <4>2, <4>3
    <3>4. v > 0
      <4>1. SUFFICES ASSUME v <= 0 PROVE FALSE
        BY <3>3
      <4>2. k * v <= 0
        BY <3>3, <4>1
      <4>3. k * v \in Int
        BY <3>3
      <4> QED BY <3>3, <4>2, <4>3
    <3> QED BY <3>2, <3>4
  <2>7. \A b \in Pool : /\ picks[b] * t - n * WeightOf[b] < t
                        /\ n % t = 0 => picks[b] * t - n * WeightOf[b] = 0
    <3>1. PICK g, p, w : g = WeightOf /\ p = picks /\ w = weights
      OBVIOUS
    <3>2. g \in [Pool -> Nat \ {0}] /\ p \in [Pool -> Nat] /\ w \in [Pool -> Int] /\ Sum(w, Pool) = 0
      BY <2>1, <2>4, <3>1
    <3>3. \A b \in Pool : w[b] = n * g[b] - p[b] * t
      BY <2>1, <2>2, <3>1
    <3>4. \A b \in Pool : p[b] > 0 => w[b] + t > 0
      BY <2>6, <3>1
    <3>5. \A b \in Pool : p[b] * t - n * g[b] < t /\ (n % t = 0 => p[b] * t - n * g[b] = 0)
      BY <2>4, <2>5, <3>2, <3>3, <3>4, CycleEven
    <3> QED BY <3>1, <3>5
  <2> QED BY <1>1, <1>2, <2>1, <2>2, <2>7 DEF Ahead
<1> QED BY <1>1, <1>3 DEF WeightedEven, WeightedInv

LEMMA FairShares == FairInv => FairShare
<1> SUFFICES ASSUME FairInv PROVE FairShare
  OBVIOUS
<1>1. SelectorsType /\ Sum(weights, Pool) = 0
  BY DEF FairInv
<1>2. SumFunction(weights) = Sum(weights, Pool)
  BY <1>1 DEF SelectorsType, SumFunction, Sum, SumFunctionOnSet
<1>3. algorithm = "weighted_round_robin" => WeightedEven
  BY <1>1, SharesEven DEF FairInv
<1>4. algorithm = "round_robin" => RotationEven
  BY <1>1, OneBehind DEF FairInv
<1> QED BY <1>1, <1>2, <1>3, <1>4 DEF FairShare

\* The best of the old candidates and the best of the new ones are the same when
\* each of the two is a candidate both times.
LEMMA PinnedStay ==
    ASSUME SelectorsType, SelectorsType'
    PROVE  OnlyPinnedMove
<1> SUFFICES ASSUME NEW c \in Clients, NEW from, NEW to,
                    from = SelectIPHash(c, cands), to = SelectIPHash(c, cands'),
                    from \in cands', to \in cands
             PROVE  from = to
  BY DEF OnlyPinnedMove
<1>1. PICK v, old, new : v = score[c] /\ old = cands /\ new = cands'
  OBVIOUS
<1>2. /\ old \in SUBSET Pool /\ old # {} /\ new \in SUBSET Pool /\ new # {}
      /\ \A b \in Pool : v[b] \in Int
  <2>1. v \in [Pool -> Nat]
    BY <1>1 DEF SelectorsType
  <2>2. \A b \in Pool : v[b] \in Int
    BY <2>1
  <2> QED BY <1>1, <2>2 DEF SelectorsType
<1>3. from = FirstBest(v, old) /\ to = FirstBest(v, new) /\ from \in new /\ to \in old
  BY <1>1 DEF SelectIPHash
<1>4. /\ from \in old /\ from \in Int
      /\ \A a \in old : v[a] <= v[from]
      /\ \A b \in old : (\A a \in old : v[a] <= v[b]) => from <= b
  BY <1>2, <1>3, BestIs
<1>5. /\ to \in new /\ to \in Int
      /\ \A a \in new : v[a] <= v[to]
      /\ \A b \in new : (\A a \in new : v[a] <= v[b]) => to <= b
  BY <1>2, <1>3, BestIs
<1>6. v[from] \in Int /\ v[to] \in Int /\ v[from] = v[to]
  <2>1. v[from] \in Int /\ v[to] \in Int
    BY <1>2, <1>3
  <2>2. v[from] <= v[to] /\ v[to] <= v[from]
    BY <1>3, <1>4, <1>5
  <2> QED BY <2>1, <2>2
<1>7. from <= to
  <2>1. \A a \in old : v[a] <= v[to]
    BY <1>4, <1>6
  <2> QED BY <1>3, <1>4, <2>1
<1>8. to <= from
  <2>1. \A a \in new : v[a] <= v[from]
    BY <1>5, <1>6
  <2> QED BY <1>3, <1>5, <2>1
<1> QED BY <1>4, <1>5, <1>7, <1>8

\* However the candidates come and go: what the weighted selector takes from the
\* winner it gives to the candidates, nobody it picked owes a round more than the
\* average, the rotation stays even, and rendezvous hashing moves a client only
\* from a backend that left or to one that came (selector.go:44 and 117).
THEOREM SelectionsBalanced == SelectorsSpec => Balanced
<1>1. FairInv /\ FairInv' => (picks' # picks => FairShare') /\ (cands' # cands => OnlyPinnedMove)
  <2>1. ASSUME FairInv' PROVE FairShare'
    BY <2>1, FairShares, PTL
  <2>2. ASSUME FairInv, FairInv' PROVE OnlyPinnedMove
    BY <2>2, PinnedStay DEF FairInv
  <2> QED BY <2>1, <2>2
<1>2. FairInv /\ [SelectorsNext]_selectorVars =>
         [(picks' # picks => FairShare') /\ (cands' # cands => OnlyPinnedMove)]_selectorVars
  BY <1>1, FairStep
<1> QED BY <1>2, FairAlways, PTL DEF SelectorsSpec, Balanced

-----------------------------------------------------------------------------
(* A request's way through the engine. *)

\* Prefixes, one piece after the other.
LEMMA PrefixIs ==
    ASSUME NEW s \in Pieces, NEW t \in Pieces
    PROVE  IsPrefix(s, t) <=> Len(s) <= Len(t) /\ \A i \in 1 .. Len(s) : s[i] = t[i]
<1> USE DEF Pieces
<1>1. Len(s) \in Nat /\ Len(t) \in Nat /\ SubSeq(s, 1, Len(s)) = s
  BY LenProperties, SubSeqFull
<1>2. ASSUME Len(s) <= Len(t)
      PROVE  /\ SubSeq(t, 1, Len(s)) \in Seq(Segments) /\ Len(SubSeq(t, 1, Len(s))) = Len(s)
             /\ \A i \in 1 .. Len(s) : SubSeq(t, 1, Len(s))[i] = t[i]
  <2>1. \A i \in 1 .. Len(s) : t[i] \in Segments
    BY <1>1, <1>2, ElementOfSeq
  <2>2. /\ SubSeq(t, 1, Len(s)) \in Seq(Segments)
        /\ Len(SubSeq(t, 1, Len(s))) = IF 1 <= Len(s) THEN Len(s) - 1 + 1 ELSE 0
        /\ \A i \in 1 .. Len(s) - 1 + 1 : SubSeq(t, 1, Len(s))[i] = t[1 + i - 1]
    BY <1>1, <2>1, SubSeqProperties
  <2> QED BY <1>1, <2>2
<1>3. ASSUME IsPrefix(s, t) PROVE Len(s) <= Len(t) /\ \A i \in 1 .. Len(s) : s[i] = t[i]
  BY <1>1, <1>2, <1>3 DEF IsPrefix
<1>4. ASSUME Len(s) <= Len(t), \A i \in 1 .. Len(s) : s[i] = t[i] PROVE IsPrefix(s, t)
  <2>1. s = SubSeq(t, 1, Len(s))
    BY <1>2, <1>4, SeqEqual
  <2> QED BY <1>1, <1>4, <2>1 DEF IsPrefix
<1> QED BY <1>3, <1>4

LEMMA OneSlash == <<"/">> \in Pieces /\ Len(<<"/">>) = 1 /\ <<"/">>[1] = "/"
<1>1. Len(<<"/">>) = 1
  OBVIOUS
<1>2. <<"/">>[1] = "/"
  BY Zenon
<1>3. <<"/">> \in Seq(Segments)
  <2>1. PICK x : x = "/"
    OBVIOUS
  <2>2. x \in Segments
    BY <2>1, RoutingAssumption
  <2>3. <<x>> \in Seq(Segments)
    BY <2>2
  <2> QED BY <2>1, <2>3
<1> QED BY <1>1, <1>2, <1>3 DEF Pieces

\* A path below another, by its pieces.
LEMMA BelowIs ==
    ASSUME NEW q \in Pieces, NEW p \in Pieces, q # <<>>
    PROVE  q \in Below(p) <=> IsPrefix(q, p) /\ (Len(p) = Len(q) \/ p[Len(q) + 1] = "/")
<1>1. Len(q) \in Nat \ {0} /\ Len(p) \in Nat /\ DOMAIN p = 1 .. Len(p) /\ SubSeq(q, 1, Len(q)) = q
  BY LenProperties, EmptySeq, SubSeqFull DEF Pieces
<1>2. PICK r : r = q \o <<"/">>
  OBVIOUS
<1>3. /\ r \in Pieces /\ Len(r) = Len(q) + 1 /\ r[Len(q) + 1] = "/"
      /\ \A i \in 1 .. Len(q) : r[i] = q[i]
  <2>1. <<"/">> \in Seq(Segments) /\ Len(<<"/">>) = 1 /\ <<"/">>[1] = "/"
    BY OneSlash DEF Pieces
  <2>2. /\ r \in Seq(Segments) /\ Len(r) = Len(q) + 1
        /\ \A i \in 1 .. Len(q) + 1 : r[i] = IF i <= Len(q) THEN q[i] ELSE <<"/">>[i - Len(q)]
    BY <1>2, <2>1, ConcatProperties DEF Pieces
  <2>3. Len(q) + 1 \in 1 .. Len(q) + 1 /\ ~(Len(q) + 1 <= Len(q)) /\ Len(q) + 1 - Len(q) = 1
    BY <1>1
  <2>4. \A i \in 1 .. Len(q) : i \in 1 .. Len(q) + 1 /\ i <= Len(q)
    BY <1>1
  <2>5. r[Len(q) + 1] = <<"/">>[Len(q) + 1 - Len(q)]
    BY <2>2, <2>3
  <2>6. \A i \in 1 .. Len(q) : r[i] = q[i]
    BY <2>2, <2>4
  <2> QED BY <2>1, <2>2, <2>3, <2>5, <2>6 DEF Pieces
<1>4. IsPrefix(q, p) <=> Len(q) <= Len(p) /\ \A i \in 1 .. Len(q) : q[i] = p[i]
  BY PrefixIs
<1>5. IsPrefix(r, p) <=> Len(q) + 1 <= Len(p) /\ \A i \in 1 .. Len(q) + 1 : r[i] = p[i]
  BY <1>3, PrefixIs
<1>6. IsPrefix(r, p) <=> /\ IsPrefix(q, p) /\ Len(q) + 1 <= Len(p) /\ p[Len(q) + 1] = "/"
  <2>1. \A i \in 1 .. Len(q) + 1 : i \in 1 .. Len(q) \/ i = Len(q) + 1
    BY <1>1
  <2>2. \A i \in 1 .. Len(q) : i \in 1 .. Len(q) + 1
    BY <1>1
  <2>3. Len(q) + 1 \in 1 .. Len(q) + 1 /\ (Len(q) + 1 <= Len(p) => Len(q) <= Len(p))
    BY <1>1
  <2> QED BY <1>3, <1>4, <1>5, <2>1, <2>2, <2>3
<1>7. q \in Below(p) <=> q \in {SubSeq(p, 1, n) : n \in 1 .. Len(p)} /\ (p = q \/ IsPrefix(r, p))
  BY <1>1, <1>2 DEF Below
<1>8. ASSUME q \in Below(p) PROVE IsPrefix(q, p) /\ (Len(p) = Len(q) \/ p[Len(q) + 1] = "/")
  <2>1. CASE p = q
    BY <1>1, <1>4, <2>1
  <2>2. CASE IsPrefix(r, p)
    BY <1>6, <2>2
  <2> QED BY <1>7, <1>8, <2>1, <2>2
<1>9. ASSUME IsPrefix(q, p), Len(p) = Len(q) \/ p[Len(q) + 1] = "/" PROVE q \in Below(p)
  <2>1. PICK m, n : m = Len(q) /\ n = Len(p)
    OBVIOUS
  <2>5. m \in Nat \ {0} /\ n \in Nat /\ m <= n
    BY <1>1, <1>9, <2>1 DEF IsPrefix
  <2>6. m \in 1 .. n /\ (m # n => m + 1 <= n)
    BY <2>5
  <2>2. q \in {SubSeq(p, 1, k) : k \in 1 .. Len(p)}
    <3>1. q = SubSeq(p, 1, m)
      BY <1>1, <1>9, <2>1 DEF IsPrefix
    <3> QED BY <2>1, <2>6, <3>1
  <2>3. CASE Len(p) = Len(q)
    <3>1. p = q
      BY <1>4, <1>9, <2>3, SeqEqual DEF Pieces
    <3> QED BY <1>7, <2>2, <3>1
  <2>4. CASE Len(p) # Len(q)
    <3>1. Len(q) + 1 <= Len(p)
      BY <2>1, <2>4, <2>6
    <3> QED BY <1>6, <1>7, <1>9, <2>2, <2>4, <3>1
  <2> QED BY <2>3, <2>4
<1> QED BY <1>8, <1>9

\* The path a location matches is what the location leaves, behind its own.
LEMMA StripIs ==
    ASSUME NEW l \in Locations, NEW p \in Pieces, l.path # <<>>, l.path # <<"/">>,
           l.path \in Below(p)
    PROVE  IF l.strip THEN l.path \o StripPath(l, p) \in {p, p \o <<"/">>}
           ELSE StripPath(l, p) = p
<1>1. PICK q, m, n : q = l.path /\ m = Len(q) /\ n = Len(p)
  OBVIOUS
<1>2. q \in Pieces /\ q # <<>> /\ q # <<"/">>
  BY <1>1 DEF Locations
<1>3. m \in Nat \ {0} /\ n \in Nat
  BY <1>1, <1>2, EmptySeq, LenProperties DEF Pieces
<1>4. IsPrefix(q, p)
  BY <1>1, <1>2, BelowIs
<1>5. m <= n /\ q = SubSeq(p, 1, m)
  BY <1>1, <1>2, <1>4, SubSeqFull DEF IsPrefix, Pieces
<1>6. StripPath(l, p) = IF ~l.strip THEN p ELSE IF p = q THEN <<"/">> ELSE SubSeq(p, m + 1, n)
  BY <1>1, <1>2 DEF StripPath
<1>7. SubSeq(p, 1, m) \o SubSeq(p, m + 1, n) = p
  <2>1. 1 \in 1 .. n + 1 /\ m \in 1 - 1 .. n /\ n \in m .. n
    BY <1>3, <1>5
  <2>2. SubSeq(p, 1, n) = p
    BY <1>1, SubSeqFull DEF Pieces
  <2>3. SubSeq(p, 1, m) \o SubSeq(p, m + 1, n) = SubSeq(p, 1, n)
    BY <1>1, <2>1, ConcatAdjacentSubSeq DEF Pieces
  <2> QED BY <2>2, <2>3
<1>8. CASE p = q
  BY <1>1, <1>6, <1>8
<1>9. CASE p # q
  <2>1. q \o SubSeq(p, m + 1, n) = p
    BY <1>5, <1>7
  <2> QED BY <1>1, <1>6, <1>9, <2>1
<1> QED BY <1>8, <1>9

-----------------------------------------------------------------------------
\* Longest path first.
Sorted(ls) == \A i, j \in DOMAIN ls : i < j => Len(ls[j].path) <= Len(ls[i].path)

Around(h, p) == {l \in ToSet(h.locations) : l.path \in Below(p)}

Deepest(around) == {l \in around : \A m \in around : Len(m.path) <= Len(l.path)}

LEMMA AnyLocation == ASSUME NEW l \in Locations PROVE l # NoOne /\ l.path \in Pieces
<1>1. DOMAIN NoOne = {"id"} /\ "path" \in DOMAIN l /\ "path" # "id"
  BY DEF NoOne, Locations
<1> QED BY <1>1 DEF Locations

\* Paths as long that a path is below are the same.
LEMMA SameDepth ==
    ASSUME NEW q \in Pieces, NEW r \in Pieces, NEW p \in Pieces, Len(q) = Len(r),
           IsPrefix(q, p), IsPrefix(r, p)
    PROVE  q = r
<1>1. \A i \in 1 .. Len(q) : q[i] = r[i]
  BY PrefixIs
<1> QED BY <1>1, SeqEqual DEF Pieces

\* The first location that matches is the deepest one around the path.
LEMMA PickIs ==
    ASSUME NEW h, h.locations \in Seq(Locations), ValidLocations(h.locations),
           Sorted(h.locations), NEW p \in Pieces
    PROVE  IF Around(h, p) = {} THEN pick(h, p) = NoOne
           ELSE /\ pick(h, p) \in Around(h, p) /\ pick(h, p) # NoOne
                /\ Deepest(Around(h, p)) = {pick(h, p)}
<1>1. PICK ls, n : ls = h.locations /\ n = Len(ls)
  OBVIOUS
<1>2. n \in Nat /\ DOMAIN ls = 1 .. n /\ \A i \in 1 .. n : ls[i] \in Locations
  BY <1>1, LenProperties, ElementOfSeq
<1>3. \A i \in 1 .. n : /\ ls[i].path \in Pieces /\ ls[i].path # <<>> /\ ls[i].path # <<"/">>
                        /\ ls[i] # NoOne
                        /\ \A j \in 1 .. n : ls[i].path = ls[j].path => i = j
  BY <1>1, <1>2, AnyLocation DEF ValidLocations, ValidLocation
<1>4. \A i \in 1 .. n : ls[i].path \in Below(p) => IsPrefix(ls[i].path, p)
  BY <1>3, BelowIs
<1>5. \A i \in 1 .. n : MatchesPath(ls[i], p) <=> ls[i].path \in Below(p)
  BY <1>3, BelowIs DEF MatchesPath
<1>6. PICK on : on = {i \in 1 .. n : ls[i].path \in Below(p)}
  OBVIOUS
<1>7. pick(h, p) = IF on = {} THEN NoOne ELSE ls[Min(on)]
  <2>1. {i \in DOMAIN h.locations : MatchesPath(h.locations[i], p)} = on
    BY <1>1, <1>2, <1>5, <1>6
  <2> QED BY <1>1, <2>1 DEF pick
<1>8. Around(h, p) = {ls[i] : i \in on}
  BY <1>1, <1>2, <1>6 DEF Around, ToSet
<1>9. CASE on = {}
  BY <1>7, <1>8, <1>9
<1>10. CASE on # {}
  <2>1. IsFiniteSet(on) /\ on \subseteq 1 .. n /\ on \subseteq Int
    <3>1. IsFiniteSet(1 .. n) /\ on \subseteq 1 .. n
      BY <1>2, <1>6, FS_Interval
    <3>2. 1 .. n \subseteq Int
      BY <1>2
    <3> QED BY <3>1, <3>2, FS_Subset
  <2>2. PICK m : m = Min(on)
    OBVIOUS
  <2>3. m \in on /\ \A i \in on : m <= i
    BY <1>10, <2>1, <2>2, MinOf
  <2>4. ASSUME NEW i \in on
        PROVE  /\ Len(ls[i].path) \in Nat /\ Len(ls[i].path) <= Len(ls[m].path)
               /\ Len(ls[m].path) <= Len(ls[i].path) => i = m
    <3>1. i \in 1 .. n /\ m \in 1 .. n /\ m <= i
      BY <2>1, <2>3
    <3>2. PICK a, b : a = Len(ls[i].path) /\ b = Len(ls[m].path)
      OBVIOUS
    <3>3. a \in Nat /\ b \in Nat
      BY <1>3, <3>1, <3>2, LenProperties DEF Pieces
    <3>4. a <= b
      <4>1. CASE i = m
        BY <3>2, <3>3, <4>1
      <4>2. CASE i # m
        <5>1. m < i
          BY <3>1, <4>2
        <5>2. Len(ls[i].path) <= Len(ls[m].path)
          BY <1>1, <1>2, <3>1, <5>1 DEF Sorted
        <5> QED BY <3>2, <5>2
      <4> QED BY <4>1, <4>2
    <3>5. ASSUME b <= a PROVE i = m
      <4>1. a = b
        BY <3>3, <3>4, <3>5
      <4>2. IsPrefix(ls[i].path, p) /\ IsPrefix(ls[m].path, p)
        BY <1>4, <1>6, <2>3, <3>1
      <4>3. ls[i].path \in Pieces /\ ls[m].path \in Pieces
        BY <1>3, <3>1
      <4>4. ls[i].path = ls[m].path
        BY <3>2, <4>1, <4>2, <4>3, SameDepth
      <4> QED BY <1>3, <3>1, <4>4
    <3> QED BY <3>2, <3>3, <3>4, <3>5
  <2>5. ls[m] \in Around(h, p)
    BY <1>8, <2>3
  <2>6. Deepest(Around(h, p)) = {ls[m]}
    <3>1. \A l \in Around(h, p) : \E i \in on : l = ls[i]
      BY <1>8
    <3>2. ls[m] \in Deepest(Around(h, p))
      BY <2>4, <2>5, <3>1 DEF Deepest
    <3>3. ASSUME NEW l \in Deepest(Around(h, p)) PROVE l = ls[m]
      <4>1. l \in Around(h, p) /\ Len(ls[m].path) <= Len(l.path)
        BY <2>5 DEF Deepest
      <4>2. PICK i \in on : l = ls[i]
        BY <3>1, <4>1
      <4> QED BY <2>4, <4>1, <4>2
    <3> QED BY <3>2, <3>3
  <2>7. ls[m] # NoOne
    BY <1>3, <2>1, <2>3
  <2> QED BY <1>7, <1>10, <2>2, <2>5, <2>6, <2>7
<1> QED BY <1>9, <1>10

-----------------------------------------------------------------------------
\* What the rules make of the headers, one by one and all together.

LEMMA MaxOf ==
    ASSUME NEW S, IsFiniteSet(S), S # {}, S \subseteq Int
    PROVE  Max(S) \in S
<1> DEFINE minus == [x \in S |-> -x]
<1>1. Whole(minus, S)
  BY DEF Whole
<1>2. \E x \in S : \A y \in S : minus[x] <= minus[y]
  <2> HIDE DEF minus
  <2> QED BY <1>1, LeastValue
<1>3. \E x \in S : \A y \in S : x >= y
  BY <1>2
<1> QED BY <1>3 DEF Max

Effect(r) == IF r.remove THEN Removed ELSE r.value

\* g gives what the rules at some of the indices make of the headers, as the fold
\* of the library does.
Applied(g, headers, rules, S) ==
    g = [s \in SUBSET S |->
            IF s = {} THEN headers
            ELSE [g[s \ {Max(s)}] EXCEPT ![rules[Max(s)].name] = Effect(rules[Max(s)])]]

\* At most one rule is about a header.
Outcome(headers, rules, s) ==
    [n \in HeaderNames |->
        IF \E i \in s : rules[i].name = n THEN Effect(rules[CHOOSE i \in s : rules[i].name = n])
        ELSE headers[n]]

LEMMA RulesFold ==
    ASSUME NEW headers, NEW rules
    PROVE  applyRules(headers, rules) =
               (CHOOSE g : Applied(g, headers, rules, DOMAIN rules))[DOMAIN rules]
BY DEF applyRules, FoldLeft, MapThenFoldSet, Applied, Effect

LEMMA OutcomeStep ==
    ASSUME NEW headers, NEW rules, ValidRules(rules), NEW s \in SUBSET DOMAIN rules, NEW x \in s
    PROVE  [Outcome(headers, rules, s \ {x}) EXCEPT ![rules[x].name] = Effect(rules[x])]
               = Outcome(headers, rules, s)
<1>1. \A i, j \in s : rules[i].name = rules[j].name => i = j
  BY DEF ValidRules
<1>2. PICK a, b, v : /\ a = Outcome(headers, rules, s \ {x}) /\ b = Outcome(headers, rules, s)
                     /\ v = Effect(rules[x])
  OBVIOUS
<1>3. a = [n \in HeaderNames |-> a[n]] /\ b = [n \in HeaderNames |-> b[n]]
  BY <1>2 DEF Outcome
<1>4. ASSUME NEW n \in HeaderNames
      PROVE  b[n] = IF n = rules[x].name THEN v ELSE a[n]
  <2>1. CASE n = rules[x].name
    <3>1. PICK i : i = (CHOOSE k \in s : rules[k].name = n)
      OBVIOUS
    <3>2. i \in s /\ rules[i].name = n
      BY <2>1, <3>1
    <3>3. i = x
      BY <1>1, <2>1, <3>2
    <3>4. b[n] = Effect(rules[i])
      BY <1>2, <2>1, <3>1 DEF Outcome
    <3> QED BY <1>2, <2>1, <3>3, <3>4
  <2>2. CASE n # rules[x].name /\ \E i \in s : rules[i].name = n
    <3>1. PICK i : i = (CHOOSE k \in s : rules[k].name = n)
      OBVIOUS
    <3>2. PICK j : j = (CHOOSE k \in s \ {x} : rules[k].name = n)
      OBVIOUS
    <3>3. i \in s /\ rules[i].name = n
      BY <2>2, <3>1
    <3>4. \E k \in s \ {x} : rules[k].name = n
      BY <2>2
    <3>5. j \in s \ {x} /\ rules[j].name = n
      BY <3>2, <3>4
    <3>6. i = j
      BY <1>1, <3>3, <3>5
    <3>7. b[n] = Effect(rules[i])
      BY <1>2, <2>2, <3>1 DEF Outcome
    <3>8. a[n] = Effect(rules[j])
      BY <1>2, <3>2, <3>4 DEF Outcome
    <3> QED BY <2>2, <3>6, <3>7, <3>8
  <2>3. CASE n # rules[x].name /\ ~\E i \in s : rules[i].name = n
    <3>1. b[n] = headers[n]
      BY <1>2, <2>3 DEF Outcome
    <3>2. a[n] = headers[n]
      BY <1>2, <2>3 DEF Outcome
    <3> QED BY <2>3, <3>1, <3>2
  <2> QED BY <2>1, <2>2, <2>3
<1>5. [a EXCEPT ![rules[x].name] = v] = [n \in HeaderNames |-> IF n = rules[x].name THEN v ELSE a[n]]
  BY <1>3
<1>6. b = [n \in HeaderNames |-> IF n = rules[x].name THEN v ELSE a[n]]
  BY <1>3, <1>4
<1> QED BY <1>2, <1>5, <1>6

LEMMA RulesApplied ==
    ASSUME NEW headers, headers = [n \in HeaderNames |-> headers[n]],
           NEW rules \in RuleLists, ValidRules(rules)
    PROVE  applyRules(headers, rules) = Outcome(headers, rules, DOMAIN rules)
<1>1. PICK S : S = DOMAIN rules
  OBVIOUS
<1>2. IsFiniteSet(S) /\ S \subseteq Int
  <2>1. S = 1 .. Len(rules) /\ Len(rules) \in Nat
    BY <1>1, LenProperties DEF RuleLists
  <2> QED BY <2>1, FS_Interval
<1>3. ASSUME NEW s \in SUBSET S, s # {} PROVE Max(s) \in s
  BY <1>2, <1>3, FS_Subset, MaxOf
<1>4. Outcome(headers, rules, {}) = headers
  BY DEF Outcome
<1>5. PICK g : g = [s \in SUBSET S |-> Outcome(headers, rules, s)]
  OBVIOUS
<1>6. ASSUME NEW s \in SUBSET S, s # {}
      PROVE  g[s] = [g[s \ {Max(s)}] EXCEPT ![rules[Max(s)].name] = Effect(rules[Max(s)])]
  <2>1. PICK x : x = Max(s)
    OBVIOUS
  <2>2. x \in s
    BY <1>3, <1>6, <2>1
  <2>3. [Outcome(headers, rules, s \ {x}) EXCEPT ![rules[x].name] = Effect(rules[x])]
            = Outcome(headers, rules, s)
    BY <1>1, <2>2, OutcomeStep
  <2>4. g[s] = Outcome(headers, rules, s) /\ g[s \ {x}] = Outcome(headers, rules, s \ {x})
    BY <1>5
  <2> QED BY <2>1, <2>3, <2>4
<1>7. Applied(g, headers, rules, S)
  <2>1. g[{}] = headers
    BY <1>4, <1>5
  <2>2. g = [s \in SUBSET S |-> g[s]]
    BY <1>5
  <2>3. \A s \in SUBSET S : g[s] =
            IF s = {} THEN headers
            ELSE [g[s \ {Max(s)}] EXCEPT ![rules[Max(s)].name] = Effect(rules[Max(s)])]
    BY <1>6, <2>1
  <2> QED BY <2>2, <2>3 DEF Applied
<1>8. PICK h : h = (CHOOSE f : Applied(f, headers, rules, S))
  OBVIOUS
<1>9. Applied(h, headers, rules, S)
  BY <1>7, <1>8
<1>10. \A s \in SUBSET S : h[s] = g[s]
  <2> DEFINE W == {s \in SUBSET S : h[s] # g[s]}
  <2> SUFFICES ASSUME W # {} PROVE FALSE
    OBVIOUS
  <2>1. PICK T \in W : \A U \in W : U \subseteq T => U = T
    <3>1. W \in SUBSET (SUBSET S)
      OBVIOUS
    <3> HIDE DEF W
    <3> QED BY <1>2, <3>1, LeastSubset
  <2>2. /\ h[T] = IF T = {} THEN headers
                  ELSE [h[T \ {Max(T)}] EXCEPT ![rules[Max(T)].name] = Effect(rules[Max(T)])]
        /\ g[T] = IF T = {} THEN headers
                  ELSE [g[T \ {Max(T)}] EXCEPT ![rules[Max(T)].name] = Effect(rules[Max(T)])]
    BY <1>7, <1>9 DEF Applied
  <2>3. T # {}
    BY <2>2
  <2>4. h[T \ {Max(T)}] = g[T \ {Max(T)}]
    <3>1. Max(T) \in T
      BY <1>3, <2>3
    <3>2. T \ {Max(T)} \in SUBSET S /\ T \ {Max(T)} \subseteq T /\ T \ {Max(T)} # T
      BY <3>1
    <3> QED BY <2>1, <3>2
  <2>5. h[T] = g[T]
    BY <2>2, <2>3, <2>4
  <2> QED BY <2>5
<1>11. applyRules(headers, rules) = h[S]
  BY <1>1, <1>8, RulesFold
<1>12. S \in SUBSET S
  OBVIOUS
<1> QED BY <1>1, <1>5, <1>10, <1>11, <1>12

\* The rule that decides about a header decides it.
LEMMA OutcomeDue ==
    ASSUME NEW headers, NEW rules, NEW n \in HeaderNames
    PROVE  IF Deciding(rules, n) = {} THEN Outcome(headers, rules, DOMAIN rules)[n] = headers[n]
           ELSE Outcome(headers, rules, DOMAIN rules)[n] \in {Effect(r) : r \in Deciding(rules, n)}
<1>1. PICK v : v = Outcome(headers, rules, DOMAIN rules)[n]
  OBVIOUS
<1>2. CASE \E i \in DOMAIN rules : rules[i].name = n
  <2>1. PICK i : i = (CHOOSE k \in DOMAIN rules : rules[k].name = n)
    OBVIOUS
  <2>2. i \in DOMAIN rules /\ rules[i].name = n
    BY <1>2, <2>1
  <2>3. v = Effect(rules[i])
    BY <1>1, <1>2, <2>1 DEF Outcome
  <2>4. rules[i] \in Deciding(rules, n)
    BY <2>2 DEF Deciding
  <2> QED BY <1>1, <2>3, <2>4
<1>3. CASE ~\E i \in DOMAIN rules : rules[i].name = n
  <2>1. Deciding(rules, n) = {}
    BY <1>3 DEF Deciding
  <2>2. v = headers[n]
    BY <1>1, <1>3 DEF Outcome
  <2> QED BY <1>1, <2>1, <2>2
<1> QED BY <1>2, <1>3

\* The path and the headers due to host h's location l, d being the deepest ones.
SentDue(q, h, d, l, sent) ==
    /\ IF \E x \in d : x.strip
       THEN l.path \o sent.path \in {q.path, q.path \o <<"/">>}
       ELSE sent.path = q.path
    /\ \A n \in DOMAIN sent.headers : sent.headers[n] \in HeaderDue(q.headers, h, d, n)

\* What reaches the backend of the location that was picked, or of the host.
LEMMA RewriteDue ==
    ASSUME inbound \in Requests, NEW h \in Hosts, ValidHost(h), Sorted(h.locations)
    PROVE  SentDue(inbound, h, Deepest(Around(h, inbound.path)), pick(h, inbound.path),
                   rewrite(h, pick(h, inbound.path)))
<1>0. PICK l, d, sent : /\ l = pick(h, inbound.path) /\ d = Deepest(Around(h, inbound.path))
                        /\ sent = rewrite(h, l)
  OBVIOUS
<1>1. PICK p, given, e, a, b :
          /\ p = inbound.path /\ given = inbound.headers
          /\ e = [given EXCEPT ![ForwardedFor] = "proxy"]
          /\ a = applyRules(e, h.rules)
          /\ b = IF l = NoOne THEN a ELSE applyRules(a, l.rules)
  OBVIOUS
<1>2. p \in Pieces /\ given \in [HeaderNames -> STRING] /\ ForwardedFor \in HeaderNames
  BY <1>1, RoutingAssumption DEF Requests
<1>3. h.rules \in RuleLists /\ h.locations \in Seq(Locations)
  BY DEF Hosts
<1>4. ValidRules(h.rules) /\ ValidLocations(h.locations)
  BY DEF ValidHost
<1>5. sent.path = (IF l = NoOne THEN p ELSE StripPath(l, p)) /\ sent.headers = b
  BY <1>0, <1>1 DEF rewrite
<1>6. IF Around(h, p) = {} THEN l = NoOne
      ELSE l \in Around(h, p) /\ l # NoOne /\ d = {l}
  BY <1>0, <1>1, <1>2, <1>3, <1>4, PickIs
<1>7. Around(h, p) = {} => d = {}
  BY <1>0, <1>1 DEF Deepest
<1>8. ASSUME Around(h, p) # {}
      PROVE  /\ l \in Locations /\ l.path \in Below(p) /\ l.path # <<>> /\ l.path # <<"/">>
             /\ l.rules \in RuleLists /\ ValidRules(l.rules)
  <2>1. l \in ToSet(h.locations) /\ l.path \in Below(p)
    BY <1>6, <1>8 DEF Around
  <2>2. PICK i \in DOMAIN h.locations : l = h.locations[i]
    BY <2>1 DEF ToSet
  <2>3. l \in Locations
    BY <1>3, <2>2, LenProperties, ElementOfSeq
  <2>4. ValidLocation(l)
    BY <1>4, <2>2 DEF ValidLocations
  <2> QED BY <2>1, <2>3, <2>4 DEF ValidLocation, Locations
<1>9. e = [n \in HeaderNames |-> IF n = ForwardedFor THEN "proxy" ELSE given[n]]
  BY <1>1, <1>2
<1>10. a = Outcome(e, h.rules, DOMAIN h.rules)
  <2>1. e = [n \in HeaderNames |-> e[n]]
    BY <1>9
  <2> QED BY <1>1, <1>3, <1>4, <2>1, RulesApplied
<1>11. a = [n \in HeaderNames |-> a[n]]
  BY <1>10 DEF Outcome
<1>12. ASSUME Around(h, p) # {} PROVE b = Outcome(a, l.rules, DOMAIN l.rules)
  <2>1. b = applyRules(a, l.rules)
    BY <1>1, <1>6, <1>12
  <2> QED BY <1>8, <1>11, <1>12, <2>1, RulesApplied
<1>13. DOMAIN b = HeaderNames
  <2>1. CASE Around(h, p) = {}
    BY <1>1, <1>6, <1>11, <2>1
  <2>2. CASE Around(h, p) # {}
    BY <1>12, <2>2 DEF Outcome
  <2> QED BY <2>1, <2>2
<1>14. ASSUME NEW n \in HeaderNames
       PROVE  b[n] \in HeaderDue(given, h, d, n)
  <2>1. PICK near, far : near = UNION {Deciding(x.rules, n) : x \in d} /\ far = Deciding(h.rules, n)
    OBVIOUS
  <2>2. HeaderDue(given, h, d, n) =
            CASE near # {} -> {Effect(r) : r \in near}
              [] near = {} /\ far # {} -> {Effect(r) : r \in far}
              [] near = {} /\ far = {} /\ n = ForwardedFor -> {"proxy"}
              [] OTHER -> {given[n]}
    <3>1. d = {} => near = {}
      BY <2>1
    <3>2. HeaderDue(given, h, d, n) =
            LET due == IF near # {} THEN near ELSE far
            IN CASE due # {} -> {IF r.remove THEN Removed ELSE r.value : r \in due}
                 [] due = {} /\ n = ForwardedFor -> {"proxy"}
                 [] OTHER -> {given[n]}
      BY <2>1, <3>1 DEF HeaderDue
    <3>3. \A s : {IF r.remove THEN Removed ELSE r.value : r \in s} = {Effect(r) : r \in s}
      BY DEF Effect
    <3>4. CASE near # {}
      BY <3>2, <3>3, <3>4
    <3>5. CASE near = {} /\ far # {}
      BY <3>2, <3>3, <3>5
    <3>6. CASE near = {} /\ far = {}
      BY <3>2, <3>6
    <3> QED BY <3>4, <3>5, <3>6
  <2>3. IF far = {} THEN a[n] = e[n] ELSE a[n] \in {Effect(r) : r \in far}
    BY <1>10, <2>1, OutcomeDue
  <2>4. e[n] = IF n = ForwardedFor THEN "proxy" ELSE given[n]
    BY <1>9
  <2>5. IF near = {} THEN b[n] = a[n] ELSE b[n] \in {Effect(r) : r \in near}
    <3>1. CASE Around(h, p) = {}
      <4>1. near = {} /\ b = a
        BY <1>1, <1>6, <1>7, <2>1, <3>1
      <4> QED BY <4>1
    <3>2. CASE Around(h, p) # {}
      <4>1. near = Deciding(l.rules, n)
        <5>1. d = {l}
          BY <1>6, <3>2
        <5>2. {Deciding(x.rules, n) : x \in {l}} = {Deciding(l.rules, n)}
          OBVIOUS
        <5> QED BY <2>1, <5>1, <5>2
      <4> QED BY <1>12, <3>2, <4>1, OutcomeDue
    <3> QED BY <3>1, <3>2
  <2>6. CASE near # {}
    BY <2>2, <2>5, <2>6
  <2>7. CASE near = {} /\ far # {}
    BY <2>2, <2>3, <2>5, <2>7
  <2>8. CASE near = {} /\ far = {} /\ n = ForwardedFor
    BY <2>2, <2>3, <2>4, <2>5, <2>8
  <2>9. CASE near = {} /\ far = {} /\ n # ForwardedFor
    BY <2>2, <2>3, <2>4, <2>5, <2>9
  <2> QED BY <2>6, <2>7, <2>8, <2>9
<1>15. IF \E x \in d : x.strip THEN l.path \o sent.path \in {p, p \o <<"/">>} ELSE sent.path = p
  <2>1. CASE Around(h, p) = {}
    BY <1>5, <1>6, <1>7, <2>1
  <2>2. CASE Around(h, p) # {}
    <3>1. IF l.strip THEN l.path \o StripPath(l, p) \in {p, p \o <<"/">>} ELSE StripPath(l, p) = p
      BY <1>2, <1>8, <2>2, StripIs
    <3>2. (\E x \in d : x.strip) <=> l.strip
      BY <1>6, <2>2
    <3>3. sent.path = StripPath(l, p)
      BY <1>5, <1>6, <2>2
    <3> QED BY <3>1, <3>2, <3>3
  <2> QED BY <2>1, <2>2
<1>16. SentDue(inbound, h, d, l, sent)
  <2>1. IF \E x \in d : x.strip
        THEN l.path \o sent.path \in {inbound.path, inbound.path \o <<"/">>}
        ELSE sent.path = inbound.path
    BY <1>1, <1>15
  <2>2. \A n \in DOMAIN sent.headers : sent.headers[n] \in HeaderDue(inbound.headers, h, d, n)
    BY <1>1, <1>5, <1>13, <1>14
  <2> QED BY <2>1, <2>2, Zenon DEF SentDue
<1> QED BY <1>0, <1>16

-----------------------------------------------------------------------------
\* The stable sort.

\* The members of a finite set in a total order R have the ranks from 0 on.
RankBy(R, S, x) == Cardinality({a \in S : <<a, x>> \in R})

TotalOrder(R, S) ==
    /\ \A a \in S : <<a, a>> \notin R
    /\ \A a, b, c \in S : <<a, b>> \in R /\ <<b, c>> \in R => <<a, c>> \in R
    /\ \A a, b \in S : a = b \/ <<a, b>> \in R \/ <<b, a>> \in R

LEMMA Ranks ==
    ASSUME NEW S, IsFiniteSet(S), NEW R, TotalOrder(R, S)
    PROVE  /\ \A a \in S : RankBy(R, S, a) \in Nat
           /\ \A a, b \in S : <<a, b>> \in R => RankBy(R, S, a) < RankBy(R, S, b)
           /\ \A n \in 0 .. Cardinality(S) - 1 : \E x \in S : RankBy(R, S, x) = n
<1> USE DEF TotalOrder
<1>1. ASSUME NEW T \in SUBSET S, NEW U \in SUBSET T, NEW x \in T, x \notin U
      PROVE  Cardinality(U) \in Nat /\ Cardinality(T) \in Nat /\ Cardinality(U) < Cardinality(T)
  <2>1. IsFiniteSet(T)
    BY FS_Subset
  <2>2. IsFiniteSet(U) /\ Cardinality(U) <= Cardinality(T) /\ (Cardinality(T) = Cardinality(U) => T = U)
    BY <2>1, FS_Subset
  <2>3. Cardinality(U) \in Nat /\ Cardinality(T) \in Nat
    BY <2>1, <2>2, FS_CardinalityType
  <2>4. T # U
    BY <1>1
  <2> QED BY <2>2, <2>3, <2>4
<1>2. ASSUME NEW x \in S
      PROVE  RankBy(R, S, x) \in Nat /\ Cardinality(S) \in Nat /\ RankBy(R, S, x) < Cardinality(S)
  <2>1. PICK U : U = {a \in S : <<a, x>> \in R}
    OBVIOUS
  <2>2. U \in SUBSET S /\ x \notin U /\ S \in SUBSET S
    BY <2>1
  <2> QED BY <1>1, <2>1, <2>2 DEF RankBy
<1>3. ASSUME NEW a \in S, NEW b \in S, <<a, b>> \in R PROVE RankBy(R, S, a) < RankBy(R, S, b)
  <2>1. PICK T, U : T = {c \in S : <<c, b>> \in R} /\ U = {c \in S : <<c, a>> \in R}
    OBVIOUS
  <2>2. T \in SUBSET S /\ U \in SUBSET T /\ a \in T /\ a \notin U
    BY <1>3, <2>1
  <2> QED BY <1>1, <2>1, <2>2 DEF RankBy
<1>4. PICK k, N : k = Cardinality(S) /\ N = 0 .. k - 1
  OBVIOUS
<1>5. k \in Nat
  BY <1>4, FS_CardinalityType
<1>6. IsFiniteSet(N) /\ Cardinality(N) = k
  <2>1. IsFiniteSet(0 .. k - 1) /\ Cardinality(0 .. k - 1) = IF 0 > k - 1 THEN 0 ELSE k - 1 - 0 + 1
    BY <1>5, FS_Interval
  <2> QED BY <1>4, <1>5, <2>1
<1>7. PICK f : f = [x \in S |-> RankBy(R, S, x)]
  OBVIOUS
<1>8. f \in Injection(S, N)
  <2>1. \A x \in S : f[x] \in N
    BY <1>2, <1>4, <1>7
  <2>2. f \in [S -> N]
    BY <1>7, <2>1
  <2>3. \A a, b \in S : f[a] = f[b] => a = b
    <3>1. SUFFICES ASSUME NEW a \in S, NEW b \in S, f[a] = f[b], a # b PROVE FALSE
      OBVIOUS
    <3>2. f[a] = RankBy(R, S, a) /\ f[b] = RankBy(R, S, b)
      BY <1>7
    <3>3. f[a] \in Nat /\ f[b] \in Nat
      BY <1>2, <3>2
    <3>4. <<a, b>> \in R \/ <<b, a>> \in R
      BY <3>1
    <3>5. f[a] < f[b] \/ f[b] < f[a]
      BY <1>3, <3>2, <3>4
    <3> QED BY <3>1, <3>3, <3>5
  <2> QED BY <2>2, <2>3 DEF Injection, IsInjective
<1>9. f \in Surjection(S, N)
  BY <1>4, <1>6, <1>8, FS_Injection
<1>10. \A n \in N : \E x \in S : RankBy(R, S, x) = n
  BY <1>7, <1>9 DEF Surjection
<1> QED BY <1>2, <1>3, <1>4, <1>10

LEMMA LongestFirstIs ==
    ASSUME NEW ls \in Seq(Locations)
    PROVE  LongestFirst(ls) \in Seq(Locations) /\ Sorted(LongestFirst(ls))
<1>1. PICK D, n, len : D = DOMAIN ls /\ n = Len(ls) /\ len = [i \in D |-> Len(ls[i].path)]
  OBVIOUS
<1>2. n \in Nat /\ D = 1 .. n /\ \A i \in D : ls[i] \in Locations
  BY <1>1, LenProperties, ElementOfSeq
<1>3. \A i \in D : len[i] \in Nat
  BY <1>1, <1>2, LenProperties DEF Locations, Pieces
<1>4. IsFiniteSet(D) /\ Cardinality(D) = n
  <2>1. IsFiniteSet(1 .. n) /\ Cardinality(1 .. n) = IF 1 > n THEN 0 ELSE n - 1 + 1
    BY <1>2, FS_Interval
  <2> QED BY <1>2, <2>1
<1>5. PICK R : R = {x \in D \X D : Before(ls, x[1], x[2])}
  OBVIOUS
<1>6. \A i, j \in D : <<i, j>> \in R <=> len[i] > len[j] \/ (len[i] = len[j] /\ i < j)
  BY <1>1, <1>5 DEF Before
<1>7. \A i \in D : i \in Nat
  BY <1>2
<1>8. \A a \in D : <<a, a>> \notin R
  BY <1>3, <1>6, <1>7
<1>9. \A a, b, c \in D : <<a, b>> \in R /\ <<b, c>> \in R => <<a, c>> \in R
  BY <1>3, <1>6, <1>7
<1>10. \A a, b \in D : a = b \/ <<a, b>> \in R \/ <<b, a>> \in R
  <2>1. SUFFICES ASSUME NEW a \in D, NEW b \in D
                 PROVE  a = b \/ <<a, b>> \in R \/ <<b, a>> \in R
    OBVIOUS
  <2>2. len[a] \in Nat /\ len[b] \in Nat /\ a \in Nat /\ b \in Nat
    BY <1>3, <1>7
  <2>3. \/ len[a] > len[b] \/ len[b] > len[a]
        \/ len[a] = len[b] /\ (a < b \/ b < a \/ a = b)
    BY <2>2
  <2> QED BY <1>6, <2>3
<1>11. /\ \A a \in D : RankBy(R, D, a) \in Nat
       /\ \A a, b \in D : <<a, b>> \in R => RankBy(R, D, a) < RankBy(R, D, b)
       /\ \A m \in 0 .. n - 1 : \E x \in D : RankBy(R, D, x) = m
  <2>1. TotalOrder(R, D)
    BY <1>8, <1>9, <1>10 DEF TotalOrder
  <2> QED BY <1>4, <2>1, Ranks
<1>12. ASSUME NEW i \in D PROVE Preceding(ls, i) = RankBy(R, D, i)
  <2>1. {j \in D : Before(ls, j, i)} = {j \in D : <<j, i>> \in R}
    BY <1>5
  <2> QED BY <1>1, <2>1 DEF Preceding, RankBy
<1>13. PICK at : at = [k \in D |-> CHOOSE i \in D : Preceding(ls, i) = k - 1]
  OBVIOUS
<1>14. ASSUME NEW k \in D PROVE at[k] \in D /\ RankBy(R, D, at[k]) = k - 1
  <2>1. k - 1 \in 0 .. n - 1
    BY <1>2
  <2>2. \E i \in D : Preceding(ls, i) = k - 1
    BY <1>11, <1>12, <2>1
  <2> QED BY <1>12, <1>13, <2>2
<1>15. PICK s : s = LongestFirst(ls)
  OBVIOUS
<1>16. s = [k \in D |-> ls[at[k]]]
  BY <1>1, <1>13, <1>15 DEF LongestFirst
<1>17. s \in Seq(Locations) /\ DOMAIN s = D
  <2>1. s \in [1 .. n -> Locations]
    BY <1>2, <1>14, <1>16
  <2> QED BY <1>2, <1>16, <2>1, SeqDef
<1>18. ASSUME NEW i \in D, NEW j \in D, i < j PROVE Len(s[j].path) <= Len(s[i].path)
  <2>1. PICK a, b : a = at[i] /\ b = at[j]
    OBVIOUS
  <2>2. a \in D /\ b \in D /\ RankBy(R, D, a) = i - 1 /\ RankBy(R, D, b) = j - 1
    BY <1>14, <2>1
  <2>3. ~(j - 1 < i - 1) /\ i - 1 # j - 1
    BY <1>7, <1>18
  <2>4. <<b, a>> \notin R /\ a # b
    BY <1>11, <2>2, <2>3
  <2>5. len[b] <= len[a]
    BY <1>3, <1>6, <1>10, <2>2, <2>4
  <2>6. s[i] = ls[a] /\ s[j] = ls[b]
    BY <1>16, <2>1
  <2>7. len[a] = Len(ls[a].path) /\ len[b] = Len(ls[b].path)
    BY <1>1, <2>2
  <2> QED BY <2>5, <2>6, <2>7
<1> QED BY <1>15, <1>17, <1>18 DEF Sorted

LEMMA NormalPath == ASSUME NEW p \in Pieces PROVE NormalizePath(p) \in Pieces
<1>1. PICK r : r = IF p = <<>> \/ p[1] # "/" THEN <<"/">> \o p ELSE p
  OBVIOUS
<1>2. r \in Pieces /\ r # <<>>
  <2>1. CASE p = <<>> \/ p[1] # "/"
    <3>1. r = <<"/">> \o p
      BY <1>1, <2>1
    <3>2. r \in Pieces /\ r # <<>>
      BY <3>1, OneSlash, ConcatProperties, ConcatEqualIffEmpty DEF Pieces
    <3> QED BY <3>2
  <2>2. CASE ~(p = <<>> \/ p[1] # "/")
    BY <1>1, <2>2
  <2> QED BY <2>1, <2>2
<1>3. PICK n, S : n = Len(r) /\ S = {k \in DOMAIN r : k = 1 \/ r[k] # "/"}
  OBVIOUS
<1>4. n \in Nat \ {0} /\ DOMAIN r = 1 .. n /\ \A i \in 1 .. n : r[i] \in Segments
  BY <1>2, <1>3, EmptySeq, LenProperties, ElementOfSeq DEF Pieces
<1>5. S \subseteq 1 .. n /\ 1 \in S
  BY <1>3, <1>4
<1>6. IsFiniteSet(S) /\ S \subseteq Int /\ S # {}
  <2>1. IsFiniteSet(1 .. n) /\ 1 .. n \subseteq Int
    BY <1>4, FS_Interval
  <2> QED BY <1>5, <2>1, FS_Subset
<1>7. PICK m : m = Max(S)
  OBVIOUS
<1>8. m \in 1 .. n
  BY <1>5, <1>6, <1>7, MaxOf
<1>9. SubSeq(r, 1, m) \in Seq(Segments)
  <2>1. \A i \in 1 .. m : r[i] \in Segments
    BY <1>4, <1>8
  <2>2. m \in Int
    BY <1>4, <1>8
  <2> QED BY <2>1, <2>2, SubSeqProperties
<1>10. NormalizePath(p) = SubSeq(r, 1, m)
  BY <1>1, <1>3, <1>7 DEF NormalizePath
<1> QED BY <1>9, <1>10 DEF Pieces

LEMMA NormalHost ==
    ASSUME NEW h \in Hosts
    PROVE  /\ NormalizeHost(h) \in Hosts /\ Sorted(NormalizeHost(h).locations)
           /\ NormalizeHost(h).id = h.id
<1>1. PICK ls, ms : /\ ls = h.locations
                    /\ ms = [i \in DOMAIN ls |-> NormalizeLocation(ls[i])]
  OBVIOUS
<1>2. ls \in Seq(Locations)
  BY <1>1 DEF Hosts
<1>3. ms \in Seq(Locations)
  <2>1. Len(ls) \in Nat /\ DOMAIN ls = 1 .. Len(ls) /\ \A i \in DOMAIN ls : ls[i] \in Locations
    BY <1>2, LenProperties, ElementOfSeq
  <2>2. ASSUME NEW l \in Locations PROVE NormalizeLocation(l) \in Locations
    <3>1. NormalizePath(l.path) \in Pieces
      BY NormalPath DEF Locations
    <3> QED BY <3>1 DEF Locations, NormalizeLocation
  <2>3. ms \in [1 .. Len(ls) -> Locations]
    BY <1>1, <2>1, <2>2
  <2> QED BY <2>1, <2>3, SeqDef
<1>4. PICK ns : ns = LongestFirst(ms)
  OBVIOUS
<1>5. ns \in Seq(Locations) /\ Sorted(ns)
  BY <1>3, <1>4, LongestFirstIs
<1>6. NormalizeHost(h) = [h EXCEPT !.locations = ns]
  BY <1>1, <1>4 DEF NormalizeHost
<1>7. NormalizeHost(h).locations = ns /\ NormalizeHost(h) \in Hosts /\ NormalizeHost(h).id = h.id
  BY <1>5, <1>6 DEF Hosts
<1> QED BY <1>5, <1>7

-----------------------------------------------------------------------------
\* The routing table.

Joined(c, s, t, m, n) ==
    /\ c \in Pieces /\ Len(c) = m + n /\ m \in Nat /\ n \in Nat
    /\ \A i \in 1 .. m : c[i] = s[i]
    /\ \A i \in 1 .. n : c[m + i] = t[i]

LEMMA ConcatIs ==
    ASSUME NEW s \in Pieces, NEW t \in Pieces
    PROVE  Joined(s \o t, s, t, Len(s), Len(t))
<1>0. PICK c, m, n : c = s \o t /\ m = Len(s) /\ n = Len(t)
  OBVIOUS
<1>1. m \in Nat /\ n \in Nat
  BY <1>0, LenProperties DEF Pieces
<1>2. c \in Pieces /\ Len(c) = m + n /\ \A i \in 1 .. m + n : c[i] = IF i <= m THEN s[i] ELSE t[i - m]
  BY <1>0, ConcatProperties DEF Pieces
<1>3. ASSUME NEW i \in 1 .. m PROVE c[i] = s[i]
  <2>1. i \in 1 .. m + n /\ i <= m
    BY <1>1
  <2> QED BY <1>2, <2>1
<1>4. ASSUME NEW i \in 1 .. n PROVE c[m + i] = t[i]
  <2>1. PICK j : j = m + i
    OBVIOUS
  <2>2. j \in 1 .. m + n /\ ~(j <= m) /\ j - m = i
    BY <1>1, <2>1
  <2>3. c[j] = t[j - m]
    BY <1>2, <2>2
  <2> QED BY <2>1, <2>2, <2>3
<1>5. Joined(c, s, t, m, n)
  BY <1>1, <1>2, <1>3, <1>4 DEF Joined
<1> QED BY <1>0, <1>5

\* A wildcard is its star and its parent.
LEMMA StarOf ==
    ASSUME NEW d \in Pieces, d # <<>>, d[1] = "*"
    PROVE  <<"*">> \o Tail(d) = d
<1>1. PICK x, s : x = "*" /\ s = <<x>>
  OBVIOUS
<1>2. s \in Pieces /\ Len(s) = 1 /\ s[1] = x
  <2>1. x \in Segments
    BY <1>1, RoutingAssumption
  <2> QED BY <1>1, <2>1 DEF Pieces
<1>3. PICK t, c, n : t = Tail(d) /\ c = s \o t /\ n = Len(d)
  OBVIOUS
<1>4. t \in Pieces /\ n \in Nat \ {0} /\ Len(t) = n - 1 /\ \A i \in 1 .. n - 1 : t[i] = d[i + 1]
  BY <1>3, HeadTailProperties, EmptySeq DEF Pieces
<1>5. /\ c \in Pieces /\ Len(c) = 1 + (n - 1)
      /\ \A i \in 1 .. 1 : c[i] = s[i]
      /\ \A i \in 1 .. n - 1 : c[1 + i] = t[i]
  <2>1. Joined(c, s, t, Len(s), Len(t))
    BY <1>2, <1>3, <1>4, ConcatIs
  <2>2. Joined(c, s, t, 1, n - 1)
    BY <1>2, <1>4, <2>1
  <2> QED BY <2>2 DEF Joined
<1>6. Len(c) = n
  BY <1>4, <1>5
<1>7. ASSUME NEW i \in 1 .. n PROVE c[i] = d[i]
  <2>1. CASE i = 1
    BY <1>1, <1>2, <1>5, <2>1
  <2>2. CASE i # 1
    <3>1. PICK j : j = i - 1
      OBVIOUS
    <3>2. j \in 1 .. n - 1 /\ 1 + j = i /\ j + 1 = i
      BY <1>4, <2>2, <3>1
    <3>3. c[1 + j] = t[j] /\ t[j] = d[j + 1]
      BY <1>4, <1>5, <3>2
    <3> QED BY <3>2, <3>3
  <2> QED BY <2>1, <2>2
<1>8. c = d
  BY <1>3, <1>5, <1>6, <1>7, SeqEqual DEF Pieces
<1> QED BY <1>1, <1>3, <1>8

Routable(rs) ==
    \A r \in rs : /\ r # NoOne /\ r.domains \subseteq Pieces
                  /\ \A d \in r.domains : ValidDomain(d)

\* The tables give the owner of a name, or nobody.
LEMMA FindIs ==
    ASSUME NEW rs, Routable(rs), NEW name \in Pieces,
           NEW on, on = {r \in rs : r.enabled}, NEW f, f = Find(ByName(on), ByParent(on), name)
    PROVE  IF Owners(rs, name) = {} THEN f = NoOne ELSE f \in Owners(rs, name) /\ f # NoOne
<1>1. PICK exact, wild, naming : /\ exact = ByName(on) /\ wild = ByParent(on)
                                 /\ naming = {r \in on : name \in r.domains}
  OBVIOUS
<1>2. Owners(rs, name) = IF naming # {} THEN naming ELSE {r \in on : MatchesDomain(r, name)}
  BY <1>1 DEF Owners
<1>3. \A r \in on : /\ r # NoOne /\ r.domains \subseteq Pieces
                    /\ \A d \in r.domains : d \in Pieces /\ d # <<>> /\ (d[1] = "*" => Len(d) >= 3)
  <2>1. SUFFICES ASSUME NEW r \in on
                 PROVE  /\ r # NoOne /\ r.domains \subseteq Pieces
                        /\ \A d \in r.domains : d \in Pieces /\ d # <<>> /\ (d[1] = "*" => Len(d) >= 3)
    OBVIOUS
  <2>2. r # NoOne /\ r.domains \subseteq Pieces /\ \A d \in r.domains : ValidDomain(d)
    BY DEF Routable
  <2>3. ASSUME NEW d \in r.domains PROVE d \in Pieces /\ d # <<>> /\ (d[1] = "*" => Len(d) >= 3)
    <3>1. d \in Pieces /\ d # <<>> /\ \A i \in DOMAIN d : d[i] = "*" => i = 1 /\ Len(d) >= 3
      BY <2>2 DEF ValidDomain
    <3>2. 1 \in DOMAIN d
      BY <3>1, EmptySeq, LenProperties DEF Pieces
    <3> QED BY <3>1, <3>2
  <2> QED BY <2>2, <2>3
<1>4. /\ \A n : n \in DOMAIN exact <=> n[1] # "*" /\ \E r \in on : n \in r.domains
      /\ \A n \in DOMAIN exact : exact[n] = CHOOSE r \in on : n \in r.domains
  BY <1>1 DEF ByName, DomainsOf
<1>5. \A p : p \in DOMAIN wild <=> \E r \in on : \E d \in r.domains : d[1] = "*" /\ p = Tail(d)
  BY <1>1 DEF ByParent, DomainsOf
<1>6. \A p \in DOMAIN wild : wild[p] = CHOOSE r \in on : <<"*">> \o p \in r.domains
  BY <1>1 DEF ByParent
<1>7. ASSUME NEW p \in DOMAIN wild
      PROVE  /\ wild[p] \in on
             /\ \E d \in wild[p].domains : d = <<"*">> \o p /\ d[1] = "*" /\ Tail(d) = p
  <2>0. PICK r \in on : \E d \in r.domains : d[1] = "*" /\ p = Tail(d)
    BY <1>5
  <2>1. PICK d \in r.domains : d[1] = "*" /\ p = Tail(d)
    BY <2>0
  <2>2. d = <<"*">> \o p
    BY <1>3, <2>1, StarOf
  <2>3. wild[p] \in on /\ <<"*">> \o p \in wild[p].domains
    BY <1>6, <2>1, <2>2
  <2> QED BY <2>1, <2>2, <2>3
<1>8. f = CASE name \in DOMAIN exact -> exact[name]
            [] name \notin DOMAIN exact /\ Len(name) > 1 /\ Tail(name) \in DOMAIN wild -> wild[Tail(name)]
            [] OTHER -> NoOne
  BY <1>1 DEF Find
<1>9. CASE name \in DOMAIN exact
  <2>1. f \in naming
    BY <1>1, <1>4, <1>8, <1>9
  <2>2. f \in on
    BY <1>1, <2>1
  <2> QED BY <1>2, <1>3, <2>1, <2>2
<1>10. CASE name \notin DOMAIN exact /\ Len(name) > 1 /\ Tail(name) \in DOMAIN wild
  <2>1. PICK p : p = Tail(name)
    OBVIOUS
  <2>2. f = wild[p] /\ p \in DOMAIN wild
    BY <1>8, <1>10, <2>1
  <2>3. f \in on /\ \E d \in f.domains : d = <<"*">> \o p /\ d[1] = "*" /\ Tail(d) = p
    BY <1>7, <2>2
  <2>4. MatchesDomain(f, name)
    BY <1>10, <2>1, <2>3 DEF MatchesDomain
  <2>5. ASSUME NEW r \in naming PROVE f \in naming
    <3>1. r \in on /\ name \in r.domains
      BY <1>1
    <3>2. name[1] = "*"
      BY <1>4, <1>10, <3>1
    <3>3. name # <<>>
      BY <1>3, <3>1
    <3>4. <<"*">> \o p = name
      BY <2>1, <3>2, <3>3, StarOf
    <3>5. name \in f.domains
      BY <2>3, <3>4
    <3> QED BY <1>1, <2>3, <3>5
  <2>6. f \in Owners(rs, name)
    BY <1>2, <2>3, <2>4, <2>5
  <2> QED BY <1>3, <2>3, <2>6
<1>11. CASE name \notin DOMAIN exact /\ ~(Len(name) > 1 /\ Tail(name) \in DOMAIN wild)
  <2>1. f = NoOne
    BY <1>8, <1>11
  <2>2. ASSUME NEW r \in naming PROVE FALSE
    <3>1. r \in on /\ name \in r.domains
      BY <1>1
    <3>2. name[1] = "*"
      BY <1>4, <1>11, <3>1
    <3>3. Len(name) >= 3 /\ Len(name) \in Nat
      BY <1>3, <3>1, <3>2, LenProperties DEF Pieces
    <3>4. Tail(name) \in DOMAIN wild
      BY <1>5, <3>1, <3>2
    <3> QED BY <1>11, <3>3, <3>4
  <2>3. ASSUME NEW r \in on, MatchesDomain(r, name) PROVE FALSE
    <3>1. name \notin r.domains
      BY <1>1, <2>2
    <3>2. PICK d \in r.domains : d[1] = "*" /\ Len(name) > 1 /\ Tail(d) = Tail(name)
      BY <2>3, <3>1 DEF MatchesDomain
    <3>3. Tail(name) \in DOMAIN wild
      BY <1>5, <3>2
    <3> QED BY <1>11, <3>2, <3>3
  <2>4. Owners(rs, name) = {}
    BY <1>2, <2>2, <2>3
  <2> QED BY <2>1, <2>4
<1> QED BY <1>9, <1>10, <1>11

-----------------------------------------------------------------------------
\* No empty segment where a target's path and the request's meet.
LEMMA LocationClean ==
    ASSUME NEW r \in Redirects, NEW p \in Pieces, DoubleSlash(LocationOf(r, p))
    PROVE  DoubleSlash(r.path) \/ DoubleSlash(p)
<1>1. PICK t, k : t = r.path /\ k = Len(t)
  OBVIOUS
<1>2. PICK f, g : /\ f = IF t # <<>> /\ Last(t) = "/" THEN Front(t) ELSE t
                  /\ g = sanitizePath(p)
  OBVIOUS
<1>3. PICK m, n : m = Len(f) /\ n = Len(g)
  OBVIOUS
<1>4. t \in Pieces /\ k \in Nat /\ (t # <<>> => k > 0)
  BY <1>1, LenProperties, EmptySeq DEF Redirects, Pieces
<1>5. f \in Pieces /\ m \in Nat /\ (DoubleSlash(f) => DoubleSlash(t))
      /\ (m > 0 /\ f[m] = "/" => DoubleSlash(t))
  <2>1. CASE ~(t # <<>> /\ Last(t) = "/")
    <3>1. f = t /\ m = k
      BY <1>1, <1>2, <1>3, <2>1
    <3>2. m > 0 => f[m] # "/"
      <4>1. CASE t = <<>>
        <5>1. m = 0
          BY <1>1, <3>1, <4>1
        <5> QED BY <5>1
      <4>2. CASE t # <<>>
        BY <1>1, <2>1, <3>1, <4>2 DEF Last
      <4> QED BY <4>1, <4>2
    <3> QED BY <1>4, <3>1, <3>2
  <2>2. CASE t # <<>> /\ Last(t) = "/"
    <3>1. f = SubSeq(t, 1, k - 1) /\ t[k] = "/" /\ k > 0
      BY <1>1, <1>2, <1>4, <2>2 DEF Front, Last
    <3>2. PICK j : j = k - 1
      OBVIOUS
    <3>3. j \in Nat /\ k = j + 1
      BY <1>4, <3>1, <3>2
    <3>4. \A i \in 1 .. j : t[i] \in Segments
      <4>1. \A i \in 1 .. j : i \in 1 .. k
        BY <3>3
      <4>2. \A i \in 1 .. k : t[i] \in Segments
        BY <1>1, <1>4, ElementOfSeq DEF Pieces
      <4> QED BY <4>1, <4>2
    <3>5. /\ SubSeq(t, 1, j) \in Seq(Segments)
          /\ Len(SubSeq(t, 1, j)) = IF 1 <= j THEN j - 1 + 1 ELSE 0
          /\ \A i \in 1 .. j - 1 + 1 : SubSeq(t, 1, j)[i] = t[1 + i - 1]
      BY <3>3, <3>4, SubSeqProperties
    <3>6. f = SubSeq(t, 1, j)
      BY <3>1, <3>2
    <3>7. f \in Pieces /\ m = j /\ \A i \in 1 .. j : f[i] = t[i]
      <4>1. (IF 1 <= j THEN j - 1 + 1 ELSE 0) = j /\ j - 1 + 1 = j
        BY <3>3
      <4>2. \A i \in 1 .. j : 1 + i - 1 = i
        BY <3>3
      <4> QED BY <1>3, <3>5, <3>6, <4>1, <4>2 DEF Pieces
    <3>8. ASSUME DoubleSlash(f) PROVE DoubleSlash(t)
      <4>1. PICK i \in 1 .. j - 1 : f[i] = "/" /\ f[i + 1] = "/"
        BY <1>3, <3>7, <3>8 DEF DoubleSlash
      <4>2. i \in 1 .. j /\ i + 1 \in 1 .. j /\ i \in 1 .. k - 1
        BY <3>3
      <4>3. t[i] = "/" /\ t[i + 1] = "/"
        BY <3>7, <4>1, <4>2
      <4> QED BY <1>1, <4>2, <4>3 DEF DoubleSlash
    <3>9. ASSUME m > 0, f[m] = "/" PROVE DoubleSlash(t)
      <4>1. j \in 1 .. j /\ j \in 1 .. k - 1
        BY <3>3, <3>7, <3>9
      <4>2. t[j] = "/" /\ t[j + 1] = "/"
        BY <3>1, <3>3, <3>7, <3>9, <4>1
      <4> QED BY <1>1, <4>1, <4>2 DEF DoubleSlash
    <3> QED BY <3>3, <3>7, <3>8, <3>9
  <2> QED BY <2>1, <2>2
<1>6. g \in Pieces /\ n \in Nat /\ (DoubleSlash(g) => DoubleSlash(p))
  <2>1. CASE p = <<>> \/ p[1] = "/"
    <3>1. g = p
      BY <1>2, <2>1 DEF sanitizePath
    <3> QED BY <1>3, <3>1, LenProperties DEF Pieces
  <2>2. CASE ~(p = <<>> \/ p[1] = "/")
    <3>1. g = <<"/">> \o p
      BY <1>2, <2>2 DEF sanitizePath
    <3>2. PICK c, l : c = <<"/">> /\ l = Len(p)
      OBVIOUS
    <3>3. c \in Pieces /\ Len(c) = 1
      BY <3>2, OneSlash
    <3>4. /\ g \in Pieces /\ Len(g) = 1 + l /\ l \in Nat
          /\ \A i \in 1 .. l : g[1 + i] = p[i]
      <4>1. Joined(g, c, p, Len(c), Len(p))
        BY <3>1, <3>2, <3>3, ConcatIs
      <4>2. Joined(g, c, p, 1, l)
        BY <3>2, <3>3, <4>1
      <4> QED BY <4>2 DEF Joined
    <3>5. ASSUME DoubleSlash(g) PROVE DoubleSlash(p)
      <4>1. PICK i \in 1 .. Len(g) - 1 : g[i] = "/" /\ g[i + 1] = "/"
        BY <3>5 DEF DoubleSlash
      <4>2. i \in 1 .. l /\ 1 + i = i + 1
        BY <3>4
      <4>3. p[i] = "/"
        BY <3>4, <4>1, <4>2
      <4>4. i # 1
        BY <2>2, <4>3
      <4>5. PICK h : h = i - 1
        OBVIOUS
      <4>6. h \in 1 .. l - 1 /\ h \in 1 .. l /\ 1 + h = i /\ h + 1 = i
        BY <3>4, <4>2, <4>4, <4>5
      <4>7. g[1 + h] = p[h]
        BY <3>4, <4>6
      <4>8. p[h] = "/" /\ p[h + 1] = "/"
        BY <4>1, <4>3, <4>6, <4>7
      <4> QED BY <3>2, <4>6, <4>8 DEF DoubleSlash
    <3>6. n \in Nat
      BY <1>3, <3>4
    <3> QED BY <3>4, <3>5, <3>6
  <2> QED BY <2>1, <2>2
<1>7. LocationOf(r, p) \in {t, f, f \o g}
  <2>1. LocationOf(r, p) = CASE ~r.preserve -> t
                             [] r.preserve /\ g = <<"/">> /\ f # <<>> -> f
                             [] OTHER -> f \o g
    BY <1>1, <1>2 DEF LocationOf
  <2> QED BY <2>1
<1>8. ASSUME DoubleSlash(f \o g) PROVE DoubleSlash(t) \/ DoubleSlash(p)
  <2>1. PICK c : c = f \o g
    OBVIOUS
  <2>2. /\ Len(c) = m + n
        /\ \A i \in 1 .. m : c[i] = f[i]
        /\ \A i \in 1 .. n : c[m + i] = g[i]
    <3>1. Joined(c, f, g, Len(f), Len(g))
      BY <1>5, <1>6, <2>1, ConcatIs
    <3>2. Joined(c, f, g, m, n)
      BY <1>3, <3>1
    <3> QED BY <3>2 DEF Joined
  <2>3. PICK i \in 1 .. m + n - 1 : c[i] = "/" /\ c[i + 1] = "/"
    <3>1. \E i \in 1 .. Len(c) - 1 : c[i] = "/" /\ c[i + 1] = "/"
      BY <1>8, <2>1 DEF DoubleSlash
    <3>2. PICK last : last = m + n - 1
      OBVIOUS
    <3>3. \E i \in 1 .. last : c[i] = "/" /\ c[i + 1] = "/"
      <4>1. last = Len(c) - 1
        <5>1. Len(c) = m + n
          BY <2>2
        <5> QED BY <1>5, <1>6, <3>2, <5>1
      <4> QED BY <3>1, <4>1
    <3> QED BY <3>2, <3>3
  <2>4. CASE i + 1 <= m
    <3>1. i \in 1 .. m /\ i + 1 \in 1 .. m /\ i \in 1 .. m - 1
      BY <1>5, <1>6, <2>4
    <3>2. f[i] = "/" /\ f[i + 1] = "/"
      BY <2>2, <2>3, <3>1
    <3>3. DoubleSlash(f)
      BY <1>3, <3>1, <3>2 DEF DoubleSlash
    <3> QED BY <1>5, <3>3
  <2>5. CASE i = m
    <3>1. m > 0 /\ m \in 1 .. m
      BY <1>5, <1>6, <2>5
    <3>2. f[m] = "/"
      BY <2>2, <2>3, <2>5, <3>1
    <3> QED BY <1>5, <3>1, <3>2
  <2>6. CASE i > m
    <3>1. PICK h : h = i - m
      OBVIOUS
    <3>2. h \in 1 .. n - 1 /\ h \in 1 .. n /\ h + 1 \in 1 .. n /\ m + h = i /\ m + (h + 1) = i + 1
      BY <1>5, <1>6, <2>6, <3>1
    <3>3. c[m + h] = g[h] /\ c[m + (h + 1)] = g[h + 1]
      BY <2>2, <3>2
    <3>4. g[h] = "/" /\ g[h + 1] = "/"
      BY <2>3, <3>2, <3>3
    <3>5. DoubleSlash(g)
      BY <1>3, <3>2, <3>4 DEF DoubleSlash
    <3> QED BY <1>6, <3>5
  <2>7. i + 1 <= m \/ i = m \/ i > m
    BY <1>5, <1>6
  <2> QED BY <2>4, <2>5, <2>6, <2>7
<1> QED BY <1>1, <1>5, <1>7, <1>8

-----------------------------------------------------------------------------
\* A request is answered by one table.

Sound(h) == h \in Hosts /\ ValidHost(h) /\ Sorted(h.locations)

SoundConfig(c) ==
    /\ c \in [hosts : SUBSET Hosts, redirects : SUBSET Redirects]
    /\ \A h \in c.hosts : Sound(h)
    /\ \A r \in c.redirects : ValidRedirect(r)

Gates == {"https", "maintenance", "limits", "access", "inspect", "upgrade", "cache", "forward"}

\* What the gates before the one the request is at have let on.
LetOn ==
    /\ stage # "https" => (serving.force => inbound.tls)
    /\ stage \notin {"https", "maintenance"} => (serving.closed => inbound.exempt)
    /\ stage \notin {"https", "maintenance", "limits", "access"} =>
          (serving.list => inbound.access = "granted")
    /\ stage \in {"upgrade", "cache", "forward"} =>
          (serving.guardian = "block" => ~inbound.matched)
    /\ stage \in {"cache", "forward"} => (inbound.upgrade => serving.websocket)

ServedBy(c) ==
    Owners(c.redirects, inbound.name) = {} /\ serving \in Owners(c.hosts, inbound.name)

RoutingInv ==
    /\ SoundConfig(config) /\ table = TableOf(config)
    /\ stage \in {"idle", "challenge", "route", "done"} \cup Gates
    /\ stage # "idle" => inbound \in Requests /\ config \in seen
    /\ stage \in Gates => Sound(serving) /\ LetOn /\ \E c \in seen : ServedBy(c)
    /\ AnsweredByOneTable

\* What a host has to say for the answer.
Accounts(h) ==
    /\ answer.kind # "https" /\ h.force => inbound.tls
    /\ answer.kind \notin {"https", "maintenance"} /\ h.closed => inbound.exempt
    /\ Grounds(h)

LEMMA RoutingInits == RoutingInit => RoutingInv
<1> SUFFICES ASSUME RoutingInit PROVE RoutingInv
  OBVIOUS
<1>1. SoundConfig(config)
  BY DEF RoutingInit, SoundConfig
<1>2. stage = "idle" /\ table = TableOf(config)
  BY DEF RoutingInit
<1> QED BY <1>1, <1>2 DEF RoutingInv, AnsweredByOneTable, Gates

\* Another configuration may be published at any time.
LEMMA StoreKeeps ==
    ASSUME RoutingInv, NEW new, SoundConfig(new), Store(new)
    PROVE  RoutingInv'
<1>1. /\ config' = new /\ table' = TableOf(new)
      /\ inbound' = inbound /\ stage' = stage /\ serving' = serving /\ answer' = answer
      /\ stage = "idle" => seen' = seen
      /\ stage # "idle" => seen' = seen \cup {new}
  BY DEF Store, requestVars
<1>2. \A c : Explains(c)' <=> Explains(c)
  BY <1>1 DEF Explains, Grounds, SentRight
<1>3. AnsweredByOneTable'
  <2>1. ASSUME stage' = "done" PROVE \E c \in seen' : Explains(c)'
    <3>1. stage = "done" /\ seen \subseteq seen'
      BY <1>1, <2>1
    <3>2. PICK c \in seen : Explains(c)
      BY <3>1 DEF RoutingInv, AnsweredByOneTable
    <3> QED BY <1>2, <3>1, <3>2
  <2> QED BY <2>1 DEF AnsweredByOneTable
<1>4. stage' \in Gates => Sound(serving)' /\ LetOn' /\ \E c \in seen' : ServedBy(c)'
  <2>1. ASSUME stage' \in Gates PROVE Sound(serving)' /\ LetOn' /\ \E c \in seen' : ServedBy(c)'
    <3>1. stage \in Gates /\ seen \subseteq seen'
      BY <1>1, <2>1
    <3>2. Sound(serving) /\ LetOn /\ \E c \in seen : ServedBy(c)
      BY <3>1 DEF RoutingInv
    <3>3. Sound(serving)'
      BY <1>1, <3>2
    <3>4. LetOn'
      BY <1>1, <3>2 DEF LetOn
    <3>5. \A c : ServedBy(c)' <=> ServedBy(c)
      BY <1>1 DEF ServedBy
    <3> QED BY <3>1, <3>2, <3>3, <3>4, <3>5
  <2> QED BY <2>1
<1>5. SoundConfig(config)' /\ (table = TableOf(config))'
  <2>1. SoundConfig(config)' <=> SoundConfig(config')
    BY DEF SoundConfig
  <2>2. SoundConfig(config')
    BY <1>1
  <2> QED BY <1>1, <2>1, <2>2
<1>6. stage' # "idle" => inbound' \in Requests /\ config' \in seen'
  BY <1>1 DEF RoutingInv
<1>7. stage' \in {"idle", "challenge", "route", "done"} \cup Gates
  BY <1>1 DEF RoutingInv
<1> QED BY <1>3, <1>4, <1>5, <1>6, <1>7 DEF RoutingInv

LEMMA StoreSteps ==
    ASSUME RoutingInv,
           \/ \E form \in HostForms : StoreHost(form)
           \/ \E r \in RedirectForms : StoreRedirect(r)
           \/ \E h \in config.hosts : RemoveHost(h)
           \/ \E r \in config.redirects : RemoveRedirect(r)
    PROVE  RoutingInv'
<1>0. SoundConfig(config)
  BY DEF RoutingInv
<1>1. ASSUME NEW form \in HostForms, StoreHost(form) PROVE RoutingInv'
  <2>1. PICK h, others, new : /\ h = NormalizeHost(form)
                              /\ others = {x \in config.hosts : x.id # h.id}
                              /\ new = [config EXCEPT !.hosts = others \cup {h}]
    OBVIOUS
  <2>2. ValidHost(h) /\ Store(new)
    BY <1>1, <2>1 DEF StoreHost
  <2>3. Sound(h)
    <3>1. form \in Hosts
      BY RoutingAssumption
    <3> QED BY <2>1, <2>2, <3>1, NormalHost DEF Sound
  <2>4. SoundConfig(new)
    <3>1. config \in [hosts : SUBSET Hosts, redirects : SUBSET Redirects]
      BY <1>0 DEF SoundConfig
    <3>2. others \cup {h} \subseteq Hosts
      BY <2>1, <2>3, <3>1 DEF Sound
    <3>3. /\ new \in [hosts : SUBSET Hosts, redirects : SUBSET Redirects]
          /\ new.hosts = others \cup {h} /\ new.redirects = config.redirects
      BY <2>1, <3>1, <3>2
    <3> QED BY <1>0, <2>1, <2>3, <3>3 DEF SoundConfig
  <2> QED BY <2>2, <2>4, StoreKeeps
<1>2. ASSUME NEW r \in RedirectForms, StoreRedirect(r) PROVE RoutingInv'
  <2>1. PICK others, new : /\ others = {x \in config.redirects : x.id # r.id}
                           /\ new = [config EXCEPT !.redirects = others \cup {r}]
    OBVIOUS
  <2>2. ValidRedirect(r) /\ Store(new) /\ r \in Redirects
    BY <1>2, <2>1, RoutingAssumption DEF StoreRedirect
  <2>4. SoundConfig(new)
    <3>1. config \in [hosts : SUBSET Hosts, redirects : SUBSET Redirects]
      BY <1>0 DEF SoundConfig
    <3>2. others \cup {r} \subseteq Redirects
      BY <2>1, <2>2, <3>1
    <3>3. /\ new \in [hosts : SUBSET Hosts, redirects : SUBSET Redirects]
          /\ new.redirects = others \cup {r} /\ new.hosts = config.hosts
      BY <2>1, <3>1, <3>2
    <3> QED BY <1>0, <2>1, <2>2, <3>3 DEF SoundConfig
  <2> QED BY <2>2, <2>4, StoreKeeps
<1>3. ASSUME NEW h \in config.hosts, RemoveHost(h) PROVE RoutingInv'
  <2>1. PICK new : new = [config EXCEPT !.hosts = config.hosts \ {h}]
    OBVIOUS
  <2>2. Store(new)
    BY <1>3, <2>1 DEF RemoveHost
  <2>4. SoundConfig(new)
    <3>0. config \in [hosts : SUBSET Hosts, redirects : SUBSET Redirects]
      BY <1>0 DEF SoundConfig
    <3>1. /\ new \in [hosts : SUBSET Hosts, redirects : SUBSET Redirects]
          /\ new.redirects = config.redirects /\ new.hosts \subseteq config.hosts
      BY <2>1, <3>0
    <3> QED BY <1>0, <3>1 DEF SoundConfig
  <2> QED BY <2>2, <2>4, StoreKeeps
<1>4. ASSUME NEW r \in config.redirects, RemoveRedirect(r) PROVE RoutingInv'
  <2>1. PICK new : new = [config EXCEPT !.redirects = config.redirects \ {r}]
    OBVIOUS
  <2>2. Store(new)
    BY <1>4, <2>1 DEF RemoveRedirect
  <2>4. SoundConfig(new)
    <3>0. config \in [hosts : SUBSET Hosts, redirects : SUBSET Redirects]
      BY <1>0 DEF SoundConfig
    <3>1. /\ new \in [hosts : SUBSET Hosts, redirects : SUBSET Redirects]
          /\ new.hosts = config.hosts /\ new.redirects \subseteq config.redirects
      BY <2>1, <3>0
    <3> QED BY <1>0, <3>1 DEF SoundConfig
  <2> QED BY <2>2, <2>4, StoreKeeps
<1> QED BY <1>1, <1>2, <1>3, <1>4

\* A host of the request's own that accounts for the answer explains it.
LEMMA Explained ==
    /\ answer.kind \notin {"challenge", "moved", "unmatched"}
    /\ Accounts(serving) /\ \E c \in seen : ServedBy(c)
    => \E c \in seen : Explains(c)
<1> SUFFICES ASSUME answer.kind \notin {"challenge", "moved", "unmatched"}, Accounts(serving),
                    NEW c \in seen, ServedBy(c)
             PROVE  Explains(c)
  OBVIOUS
<1>1. /\ Owners(c.redirects, inbound.name) = {} /\ serving \in Owners(c.hosts, inbound.name)
  BY DEF ServedBy
<1>2. /\ answer.kind # "https" /\ serving.force => inbound.tls
      /\ answer.kind \notin {"https", "maintenance"} /\ serving.closed => inbound.exempt
      /\ Grounds(serving)
  BY DEF Accounts
<1>3. answer.kind # "challenge" /\ answer.kind # "moved" /\ answer.kind # "unmatched"
  OBVIOUS
<1> QED BY <1>1, <1>2, <1>3, Zenon DEF Explains

\* A gate that stops a request gives an answer its host accounts for; one that lets
\* it on has checked what is its own.
LEMMA GateKeeps ==
    ASSUME RoutingInv, NEW at \in Gates, NEW stops \in BOOLEAN, NEW with, NEW next,
           Gate(at, stops, with, next),
           stops => with.kind \notin {"challenge", "moved", "unmatched"} /\ Accounts(serving)',
           ~stops => next \in Gates /\ LetOn'
    PROVE  RoutingInv'
<1>1. /\ stage = at /\ stage' = (IF stops THEN "done" ELSE next)
      /\ answer' = (IF stops THEN with ELSE answer)
      /\ config' = config /\ table' = table /\ inbound' = inbound /\ serving' = serving
      /\ seen' = seen
  BY DEF Gate
<1>2. Sound(serving) /\ LetOn /\ \E c \in seen : ServedBy(c)
  BY <1>1 DEF RoutingInv
<1>3. (\E c \in seen : ServedBy(c))'
  BY <1>1, <1>2 DEF ServedBy
<1>4. SoundConfig(config)' /\ (table = TableOf(config))'
  <2>1. SoundConfig(config) /\ table = TableOf(config)
    BY DEF RoutingInv
  <2> QED BY <1>1, <2>1
<1>5. (stage # "idle" => inbound \in Requests /\ config \in seen)'
  BY <1>1 DEF RoutingInv, Gates
<1>6. CASE stops
  <2>1. stage' = "done"
    BY <1>1, <1>6
  <2>2. (\E c \in seen : Explains(c))'
    <3>1. (answer.kind \notin {"challenge", "moved", "unmatched"})'
      BY <1>1, <1>6
    <3>2. Accounts(serving)'
      BY <1>6
    <3> QED BY <1>3, <3>1, <3>2, Explained, PTL
  <2>3. AnsweredByOneTable'
    BY <2>2 DEF AnsweredByOneTable
  <2> QED BY <1>4, <1>5, <2>1, <2>3 DEF RoutingInv, Gates
<1>7. CASE ~stops
  <2>1. stage' \in Gates /\ stage' # "done"
    BY <1>1, <1>7 DEF Gates
  <2>2. AnsweredByOneTable'
    BY <2>1 DEF AnsweredByOneTable
  <2>3. Sound(serving)'
    BY <1>1, <1>2
  <2> QED BY <1>3, <1>4, <1>5, <1>7, <2>1, <2>2, <2>3 DEF RoutingInv
<1> QED BY <1>6, <1>7

\* The gates before the last one.
LEMMA GateSteps ==
    ASSUME RoutingInv,
           \/ redirectToHTTPS \/ serveMaintenance \/ enforceLimits \/ checkAccess
           \/ inspectRequest \/ checkUpgrade \/ consultCache
    PROVE  RoutingInv'
<1>0. stage \in Gates => LetOn
  BY DEF RoutingInv
<1>1. CASE redirectToHTTPS
  <2>1. PICK stops, with : /\ stops = (~inbound.tls /\ serving.force)
                           /\ with = [kind |-> "https", to |-> inbound.name]
    OBVIOUS
  <2>2. Gate("https", stops, with, "maintenance") /\ stops \in BOOLEAN /\ with.kind = "https"
    BY <1>1, <2>1 DEF redirectToHTTPS, rt
  <2>3. ASSUME stops PROVE Accounts(serving)'
    BY <2>1, <2>2, <2>3 DEF Gate, Accounts, Grounds
  <2>4. ASSUME ~stops PROVE LetOn'
    BY <2>1, <2>2, <2>4 DEF Gate, LetOn
  <2> QED BY <2>2, <2>3, <2>4, GateKeeps DEF Gates
<1>2. CASE serveMaintenance
  <2>1. PICK stops, with : /\ stops = (serving.closed /\ ~inbound.exempt)
                           /\ with = [kind |-> "maintenance"]
    OBVIOUS
  <2>2. Gate("maintenance", stops, with, "limits") /\ stops \in BOOLEAN /\ with.kind = "maintenance"
    BY <1>2, <2>1 DEF serveMaintenance, rt
  <2>0. LetOn
    BY <1>0, <2>2 DEF Gate, Gates
  <2>3. ASSUME stops PROVE Accounts(serving)'
    BY <2>0, <2>1, <2>2, <2>3 DEF Gate, Accounts, Grounds, LetOn
  <2>4. ASSUME ~stops PROVE LetOn'
    BY <2>0, <2>1, <2>2, <2>4 DEF Gate, LetOn
  <2> QED BY <2>2, <2>3, <2>4, GateKeeps DEF Gates
<1>3. CASE enforceLimits
  <2>1. PICK over, stops, with :
          /\ over \in BOOLEAN /\ stops = (serving.limited /\ over) /\ with = [kind |-> "limited"]
          /\ Gate("limits", stops, with, "access")
    BY <1>3 DEF enforceLimits, rt
  <2>2. Gate("limits", stops, with, "access") /\ stops \in BOOLEAN /\ with.kind = "limited"
    BY <2>1
  <2>0. LetOn
    BY <1>0, <2>2 DEF Gate, Gates
  <2>3. ASSUME stops PROVE Accounts(serving)'
    BY <2>0, <2>1, <2>2, <2>3 DEF Gate, Accounts, Grounds, LetOn
  <2>4. ASSUME ~stops PROVE LetOn'
    BY <2>0, <2>1, <2>2, <2>4 DEF Gate, LetOn
  <2> QED BY <2>2, <2>3, <2>4, GateKeeps DEF Gates
<1>4. CASE checkAccess
  <2>1. PICK stops, with : /\ stops = (serving.list /\ inbound.access # "granted")
                           /\ with = [kind |-> inbound.access]
    OBVIOUS
  <2>2. Gate("access", stops, with, "inspect") /\ stops \in BOOLEAN /\ with.kind = inbound.access
    BY <1>4, <2>1 DEF checkAccess, rt
  <2>0. LetOn
    BY <1>0, <2>2 DEF Gate, Gates
  <2>5. inbound.access \in {"granted", "forbidden", "prompt"}
    BY <2>2 DEF RoutingInv, Gate, Requests
  <2>6. stops => with.kind \in {"forbidden", "prompt"}
    BY <2>1, <2>2, <2>5
  <2>3. ASSUME stops PROVE Accounts(serving)'
    <3>1. /\ answer'.kind = inbound.access /\ inbound.access \in {"forbidden", "prompt"}
          /\ inbound' = inbound /\ serving' = serving /\ serving.list /\ stage = "access"
      BY <2>1, <2>2, <2>3, <2>6 DEF Gate
    <3>2. Grounds(serving)'
      BY <3>1 DEF Grounds
    <3>3. (serving.force => inbound.tls) /\ (serving.closed => inbound.exempt)
      BY <2>0, <3>1 DEF LetOn
    <3> QED BY <3>1, <3>2, <3>3 DEF Accounts
  <2>4. ASSUME ~stops PROVE LetOn'
    BY <2>0, <2>1, <2>2, <2>4 DEF Gate, LetOn
  <2> QED BY <2>2, <2>3, <2>4, <2>6, GateKeeps DEF Gates
<1>5. CASE inspectRequest
  <2>1. PICK stops, with : /\ stops = (serving.guardian = "block" /\ inbound.matched)
                           /\ with = [kind |-> "refused"]
    OBVIOUS
  <2>2. Gate("inspect", stops, with, "upgrade") /\ stops \in BOOLEAN /\ with.kind = "refused"
    BY <1>5, <2>1 DEF inspectRequest, rt
  <2>0. LetOn
    BY <1>0, <2>2 DEF Gate, Gates
  <2>3. ASSUME stops PROVE Accounts(serving)'
    BY <2>0, <2>1, <2>2, <2>3 DEF Gate, Accounts, Grounds, LetOn
  <2>4. ASSUME ~stops PROVE LetOn'
    BY <2>0, <2>1, <2>2, <2>4 DEF Gate, LetOn
  <2> QED BY <2>2, <2>3, <2>4, GateKeeps DEF Gates
<1>6. CASE checkUpgrade
  <2>1. PICK stops, with : /\ stops = (inbound.upgrade /\ ~serving.websocket)
                           /\ with = [kind |-> "no upgrade"]
    OBVIOUS
  <2>2. Gate("upgrade", stops, with, "cache") /\ stops \in BOOLEAN /\ with.kind = "no upgrade"
    BY <1>6, <2>1 DEF checkUpgrade, rt
  <2>0. LetOn
    BY <1>0, <2>2 DEF Gate, Gates
  <2>3. ASSUME stops PROVE Accounts(serving)'
    BY <2>0, <2>1, <2>2, <2>3 DEF Gate, Accounts, Grounds, LetOn
  <2>4. ASSUME ~stops PROVE LetOn'
    BY <2>0, <2>1, <2>2, <2>4 DEF Gate, LetOn
  <2> QED BY <2>2, <2>3, <2>4, GateKeeps DEF Gates
<1>7. CASE consultCache
  <2>1. PICK found, stops, with :
          /\ found \in BOOLEAN /\ stops = (serving.cache /\ found) /\ with = [kind |-> "cached"]
          /\ Gate("cache", stops, with, "forward")
    BY <1>7 DEF consultCache, rt
  <2>2. Gate("cache", stops, with, "forward") /\ stops \in BOOLEAN /\ with.kind = "cached"
    BY <2>1
  <2>0. LetOn
    BY <1>0, <2>2 DEF Gate, Gates
  <2>3. ASSUME stops PROVE Accounts(serving)'
    BY <2>0, <2>1, <2>2, <2>3 DEF Gate, Accounts, Grounds, LetOn
  <2>4. ASSUME ~stops PROVE LetOn'
    BY <2>0, <2>1, <2>2, <2>4 DEF Gate, LetOn
  <2> QED BY <2>2, <2>3, <2>4, GateKeeps DEF Gates
<1> QED BY <1>1, <1>2, <1>3, <1>4, <1>5, <1>6, <1>7

\* What reaches the backend is right.
LEMMA ForwardStep ==
    ASSUME RoutingInv, forwardRequest
    PROVE  RoutingInv'
<1>1. PICK h, q, l, p, sent, with :
        /\ h = serving /\ q = inbound /\ p = inbound.path /\ l = pick(serving, inbound.path)
        /\ sent = rewrite(serving, l)
        /\ with = [kind |-> "forwarded", host |-> h.id,
                   location |-> IF l = NoOne THEN <<>> ELSE l.path, sent |-> sent]
  OBVIOUS
<1>2. Gate("forward", TRUE, with, "done")
  BY <1>1 DEF forwardRequest, rt
<1>3. /\ stage = "forward" /\ answer' = with /\ inbound' = q /\ serving' = h
  BY <1>1, <1>2 DEF Gate
<1>4. Sound(h) /\ LetOn /\ inbound \in Requests
  BY <1>1, <1>3 DEF RoutingInv, Gates
<1>5. PICK around, deepest : around = Around(h, p) /\ deepest = Deepest(around)
  OBVIOUS
<1>6. p \in Pieces /\ h \in Hosts /\ ValidHost(h) /\ Sorted(h.locations)
      /\ h.locations \in Seq(Locations) /\ ValidLocations(h.locations)
  BY <1>1, <1>4 DEF Sound, Requests, Hosts, ValidHost
<1>7. IF around = {} THEN l = NoOne ELSE l \in around /\ l # NoOne /\ deepest = {l}
  BY <1>1, <1>5, <1>6, PickIs
<1>8. /\ IF \E x \in deepest : x.strip
         THEN l.path \o sent.path \in {p, p \o <<"/">>}
         ELSE sent.path = p
      /\ \A n \in DOMAIN sent.headers : sent.headers[n] \in HeaderDue(q.headers, h, deepest, n)
  <2>1. SentDue(inbound, h, Deepest(Around(h, inbound.path)), pick(h, inbound.path),
                rewrite(h, pick(h, inbound.path)))
    BY <1>4, <1>6, RewriteDue
  <2>2. l = pick(h, inbound.path) /\ deepest = Deepest(Around(h, inbound.path)) /\ sent = rewrite(h, l)
    BY <1>1, <1>5
  <2>3. SentDue(q, h, deepest, l, sent)
    BY <1>1, <2>1, <2>2
  <2> QED BY <1>1, <2>3, Zenon DEF SentDue
<1>9. /\ with.kind = "forwarded" /\ with.host = h.id /\ with.sent = sent
      /\ with.location = IF l = NoOne THEN <<>> ELSE l.path
  BY <1>1
<1>10. SentRight(serving)'
  <2>1. /\ around = {x \in ToSet(h.locations) : x.path \in Below(p)}
        /\ deepest = {x \in around : \A m \in around : Len(m.path) <= Len(x.path)}
    BY <1>5 DEF Around, Deepest
  <2>2. SentRight(serving)' <=>
          /\ with.host = h.id
          /\ with.location \in IF around = {} THEN {<<>>} ELSE {x.path : x \in deepest}
          /\ IF \E x \in deepest : x.strip
             THEN with.location \o with.sent.path \in {p, p \o <<"/">>}
             ELSE with.sent.path = p
          /\ \A n \in DOMAIN with.sent.headers :
                with.sent.headers[n] \in HeaderDue(q.headers, h, deepest, n)
    <3>1. inbound'.path = p
      BY <1>1, <1>3
    <3> QED BY <1>3, <2>1, <3>1 DEF SentRight
  <2>3. with.location \in IF around = {} THEN {<<>>} ELSE {x.path : x \in deepest}
    BY <1>7, <1>9
  <2>4. deepest # {} => with.location = l.path
    <3>1. around = {} => deepest = {}
      BY <2>1
    <3> QED BY <1>7, <1>9, <3>1
  <2>5. IF \E x \in deepest : x.strip
        THEN with.location \o with.sent.path \in {p, p \o <<"/">>}
        ELSE with.sent.path = p
    BY <1>8, <1>9, <2>4
  <2> QED BY <1>8, <1>9, <2>2, <2>3, <2>5
<1>11. Accounts(serving)'
  <2>1. /\ h.force => q.tls
        /\ h.closed => q.exempt
        /\ h.list => q.access = "granted"
        /\ h.guardian = "block" => ~q.matched
        /\ q.upgrade => h.websocket
    BY <1>1, <1>3, <1>4 DEF LetOn
  <2>2. Grounds(serving)'
    BY <1>3, <1>9, <1>10, <2>1 DEF Grounds
  <2> QED BY <1>3, <1>9, <2>1, <2>2 DEF Accounts
<1> QED BY <1>2, <1>9, <1>11, GateKeeps DEF Gates

LEMMA ArrivesStep ==
    ASSUME RoutingInv, NEW q \in Inbound, Arrives(q)
    PROVE  RoutingInv'
<1>1. /\ inbound' = q /\ stage' = "challenge" /\ seen' = {config}
      /\ config' = config /\ table' = table
  BY DEF Arrives
<1>2. q \in Requests
  BY RoutingAssumption
<1>3. SoundConfig(config)' /\ (table = TableOf(config))'
  <2>1. SoundConfig(config) /\ table = TableOf(config)
    BY DEF RoutingInv
  <2> QED BY <1>1, <2>1
<1> QED BY <1>1, <1>2, <1>3 DEF RoutingInv, AnsweredByOneTable, Gates

\* A token of the certificate challenge is answered before the table is read.
LEMMA ChallengeStep ==
    ASSUME RoutingInv, AnswerChallenge
    PROVE  RoutingInv'
<1>1. PICK stops, with : /\ stops = (~inbound.tls /\ inbound.challenge)
                         /\ with = [kind |-> "challenge"]
  OBVIOUS
<1>2. /\ stage = "challenge" /\ stage' = (IF stops THEN "done" ELSE "route")
      /\ answer' = (IF stops THEN with ELSE answer)
      /\ config' = config /\ table' = table /\ inbound' = inbound /\ seen' = seen
  BY <1>1 DEF AnswerChallenge, Gate
<1>3. SoundConfig(config)' /\ (table = TableOf(config))'
  <2>1. SoundConfig(config) /\ table = TableOf(config)
    BY DEF RoutingInv
  <2> QED BY <1>2, <2>1
<1>4. inbound \in Requests /\ config \in seen
  BY <1>2 DEF RoutingInv
<1>5. CASE stops
  <2>1. answer'.kind = "challenge" /\ ~inbound'.tls /\ inbound'.challenge
    BY <1>1, <1>2, <1>5
  <2>2. Explains(config)'
    BY <2>1 DEF Explains
  <2>3. AnsweredByOneTable'
    BY <1>2, <1>4, <2>2 DEF AnsweredByOneTable
  <2> QED BY <1>2, <1>3, <1>4, <1>5, <2>3 DEF RoutingInv, Gates
<1>6. CASE ~stops
  <2>1. stage' = "route"
    BY <1>2, <1>6
  <2> QED BY <1>2, <1>3, <1>4, <2>1 DEF RoutingInv, AnsweredByOneTable, Gates
<1> QED BY <1>5, <1>6

\* What the store holds can be routed to.
LEMMA ConfigRoutable ==
    ASSUME NEW c, SoundConfig(c)
    PROVE  Routable(c.hosts) /\ Routable(c.redirects)
<1>1. c.hosts \subseteq Hosts /\ c.redirects \subseteq Redirects
  BY DEF SoundConfig
<1>2. ASSUME NEW r, r.id \in Nat \ {0} PROVE r # NoOne
  BY <1>2 DEF NoOne
<1>3. ASSUME NEW h \in c.hosts
      PROVE  h # NoOne /\ h.domains \subseteq Pieces /\ \A d \in h.domains : ValidDomain(d)
  <2>1. h \in Hosts /\ ValidHost(h)
    BY DEF SoundConfig, Sound
  <2>2. h.id \in Nat \ {0} /\ h.domains \subseteq Pieces
    BY <2>1 DEF Hosts
  <2> QED BY <1>2, <2>1, <2>2 DEF ValidHost
<1>4. ASSUME NEW r \in c.redirects
      PROVE  r # NoOne /\ r.domains \subseteq Pieces /\ \A d \in r.domains : ValidDomain(d)
  <2>1. r \in Redirects /\ ValidRedirect(r)
    BY DEF SoundConfig
  <2>2. r.id \in Nat \ {0} /\ r.domains \subseteq Pieces
    BY <2>1 DEF Redirects
  <2> QED BY <1>2, <2>1, <2>2 DEF ValidRedirect
<1> QED BY <1>3, <1>4 DEF Routable

\* Nobody who owns a redirect's target is the redirect itself.
LEMMA NotBackToItself ==
    ASSUME NEW rs, NEW r, ValidRedirect(r)
    PROVE  r \notin Owners(rs, r.target)
<1>1. r.target \notin r.domains /\ ~MatchesDomain(r, r.target)
  BY DEF ValidRedirect, MatchesDomain
<1> QED BY <1>1 DEF Owners

LEMMA RouteStep ==
    ASSUME RoutingInv, Route
    PROVE  RoutingInv'
<1>1. PICK r, h, name, p :
        /\ r = lookupRedirect(table, inbound.name) /\ h = lookup(table, inbound.name)
        /\ name = inbound.name /\ p = inbound.path
  OBVIOUS
<1>2. /\ stage = "route" /\ serving' = (IF r = NoOne THEN h ELSE NoOne)
      /\ stage' = (IF serving' = NoOne THEN "done" ELSE "https")
      /\ answer' = CASE r # NoOne ->
                          [kind |-> "moved", to |-> r.target, path |-> LocationOf(r, p)]
                     [] r = NoOne /\ h = NoOne -> [kind |-> "unmatched"]
                     [] OTHER -> answer
      /\ config' = config /\ table' = table /\ inbound' = inbound /\ seen' = seen
  BY <1>1, Zenon DEF Route
<1>3. /\ SoundConfig(config) /\ table = TableOf(config)
      /\ inbound \in Requests /\ config \in seen
  BY <1>2 DEF RoutingInv
<1>4. SoundConfig(config)' /\ (table = TableOf(config))'
  BY <1>2, <1>3
<1>5. name \in Pieces /\ p \in Pieces
  BY <1>1, <1>3 DEF Requests
<1>6. PICK rs, hs, ron, hon :
        /\ rs = config.redirects /\ hs = config.hosts
        /\ ron = {x \in rs : x.enabled} /\ hon = {x \in hs : x.enabled}
  OBVIOUS
<1>7. /\ table.exact = ByName(hon) /\ table.wildcard = ByParent(hon)
      /\ table.redirectExact = ByName(ron) /\ table.redirectWildcard = ByParent(ron)
  BY <1>3, <1>6 DEF TableOf
<1>8. r = Find(ByName(ron), ByParent(ron), name) /\ h = Find(ByName(hon), ByParent(hon), name)
  BY <1>1, <1>7 DEF lookup, lookupRedirect
<1>9. Routable(rs) /\ Routable(hs)
  BY <1>3, <1>6, ConfigRoutable
<1>10. IF Owners(rs, name) = {} THEN r = NoOne ELSE r \in Owners(rs, name) /\ r # NoOne
  BY <1>5, <1>6, <1>8, <1>9, FindIs
<1>11. IF Owners(hs, name) = {} THEN h = NoOne ELSE h \in Owners(hs, name) /\ h # NoOne
  BY <1>5, <1>6, <1>8, <1>9, FindIs
<1>12. (stage # "idle" => inbound \in Requests /\ config \in seen)'
  BY <1>2, <1>3
<1>13. CASE r # NoOne
  <2>1. r \in Owners(rs, name) /\ r \in Redirects /\ ValidRedirect(r)
    <3>1. r \in Owners(rs, name)
      BY <1>10, <1>13
    <3>2. r \in rs
      BY <3>1 DEF Owners
    <3> QED BY <1>3, <1>6, <3>1, <3>2 DEF SoundConfig
  <2>2. /\ answer' = [kind |-> "moved", to |-> r.target, path |-> LocationOf(r, p)]
        /\ stage' = "done"
    BY <1>2, <1>13
  <2>3. /\ answer'.kind = "moved" /\ answer'.to = r.target /\ answer'.path = LocationOf(r, p)
        /\ inbound'.name = name /\ inbound'.path = p
    BY <1>1, <1>2, <2>2
  <2>4. r \notin Owners(rs, r.target)
    BY <2>1, NotBackToItself
  <2>5. DoubleSlash(LocationOf(r, p)) => DoubleSlash(r.path) \/ DoubleSlash(p)
    BY <1>5, <2>1, LocationClean
  <2>6. Explains(config)'
    <3>1. config'.redirects = rs
      BY <1>2, <1>6
    <3>2. \E x \in Owners(config'.redirects, inbound'.name) :
            /\ answer'.to = x.target
            /\ x \notin Owners(config'.redirects, answer'.to)
            /\ DoubleSlash(answer'.path) => DoubleSlash(x.path) \/ DoubleSlash(inbound'.path)
      BY <2>1, <2>3, <2>4, <2>5, <3>1
    <3> QED BY <2>3, <3>2 DEF Explains
  <2>7. AnsweredByOneTable'
    BY <1>2, <1>3, <2>6 DEF AnsweredByOneTable
  <2> QED BY <1>4, <1>12, <2>2, <2>7 DEF RoutingInv, Gates
<1>14. CASE r = NoOne /\ h = NoOne
  <2>1. answer' = [kind |-> "unmatched"] /\ stage' = "done"
    BY <1>2, <1>14
  <2>2. Owners(rs, name) = {} /\ Owners(hs, name) = {}
    BY <1>10, <1>11, <1>14
  <2>3. Explains(config)'
    <3>1. /\ config'.redirects = rs /\ config'.hosts = hs /\ inbound'.name = name
          /\ answer'.kind = "unmatched"
      BY <1>1, <1>2, <1>6, <2>1
    <3> QED BY <2>2, <3>1 DEF Explains
  <2>4. AnsweredByOneTable'
    BY <1>2, <1>3, <2>3 DEF AnsweredByOneTable
  <2> QED BY <1>4, <1>12, <2>1, <2>4 DEF RoutingInv, Gates
<1>15. CASE r = NoOne /\ h # NoOne
  <2>1. stage' = "https" /\ serving' = h
    BY <1>2, <1>15
  <2>2. Owners(rs, name) = {} /\ h \in Owners(hs, name)
    BY <1>10, <1>11, <1>15
  <2>3. Sound(h)
    <3>1. h \in hs
      BY <2>2 DEF Owners
    <3> QED BY <1>3, <1>6, <3>1 DEF SoundConfig
  <2>4. ServedBy(config)'
    <3>1. /\ config'.redirects = rs /\ config'.hosts = hs /\ inbound'.name = name
      BY <1>1, <1>2, <1>6
    <3> QED BY <2>1, <2>2, <3>1 DEF ServedBy
  <2>5. (stage \in Gates => Sound(serving) /\ LetOn /\ \E c \in seen : ServedBy(c))'
    <3>1. Sound(serving)'
      BY <2>1, <2>3
    <3>2. LetOn'
      BY <2>1 DEF LetOn
    <3>3. (\E c \in seen : ServedBy(c))'
      BY <1>2, <1>3, <2>4
    <3> QED BY <3>1, <3>2, <3>3
  <2>6. AnsweredByOneTable'
    BY <2>1 DEF AnsweredByOneTable
  <2> QED BY <1>4, <1>12, <2>1, <2>5, <2>6 DEF RoutingInv, Gates
<1> QED BY <1>13, <1>14, <1>15

LEMMA LeavesStep ==
    ASSUME RoutingInv, Leaves
    PROVE  RoutingInv'
<1>1. stage' = "idle" /\ config' = config /\ table' = table
  BY DEF Leaves
<1>2. SoundConfig(config)' /\ (table = TableOf(config))'
  <2>1. SoundConfig(config) /\ table = TableOf(config)
    BY DEF RoutingInv
  <2> QED BY <1>1, <2>1
<1> QED BY <1>1, <1>2 DEF RoutingInv, AnsweredByOneTable, Gates

LEMMA RoutingStep == RoutingInv /\ [RoutingNext]_routingVars => RoutingInv'
<1> SUFFICES ASSUME RoutingInv, [RoutingNext]_routingVars PROVE RoutingInv'
  OBVIOUS
<1>1. CASE \/ \E form \in HostForms : StoreHost(form)
           \/ \E r \in RedirectForms : StoreRedirect(r)
           \/ \E h \in config.hosts : RemoveHost(h)
           \/ \E r \in config.redirects : RemoveRedirect(r)
  BY <1>1, StoreSteps
<1>2. CASE \E q \in Inbound : Arrives(q)
  BY <1>2, ArrivesStep
<1>3. CASE AnswerChallenge
  BY <1>3, ChallengeStep
<1>4. CASE Route
  BY <1>4, RouteStep
<1>5. CASE \/ redirectToHTTPS \/ serveMaintenance \/ enforceLimits \/ checkAccess
           \/ inspectRequest \/ checkUpgrade \/ consultCache
  BY <1>5, GateSteps
<1>6. CASE forwardRequest
  BY <1>6, ForwardStep
<1>7. CASE Leaves
  BY <1>7, LeavesStep
<1>8. CASE UNCHANGED routingVars
  <2>1. /\ config' = config /\ table' = table /\ inbound' = inbound /\ stage' = stage
        /\ serving' = serving /\ answer' = answer /\ seen' = seen
    BY <1>8 DEF routingVars
  <2>2. \A c : (Explains(c)' <=> Explains(c)) /\ (ServedBy(c)' <=> ServedBy(c))
    BY <2>1 DEF Explains, Grounds, SentRight, ServedBy
  <2>3. AnsweredByOneTable' <=> AnsweredByOneTable
    BY <2>1, <2>2 DEF AnsweredByOneTable
  <2>4. LetOn' <=> LetOn
    BY <2>1 DEF LetOn
  <2>5. Sound(serving)' <=> Sound(serving)
    BY <2>1
  <2>6. SoundConfig(config)' <=> SoundConfig(config)
    BY <2>1
  <2> QED BY <2>1, <2>2, <2>3, <2>4, <2>5, <2>6 DEF RoutingInv
<1> QED BY <1>1, <1>2, <1>3, <1>4, <1>5, <1>6, <1>7, <1>8 DEF RoutingNext

\* Whatever is saved while ServeHTTP is at work, one configuration published in
\* the meantime explains the whole answer: its owner, the gates that were passed,
\* the location, the path and the headers that reach the backend.
THEOREM AnswersExplained == RoutingSpec => []AnsweredByOneTable
<1>1. RoutingInv => AnsweredByOneTable
  BY DEF RoutingInv
<1> QED BY <1>1, RoutingInits, RoutingStep, PTL DEF RoutingSpec
=============================================================================
