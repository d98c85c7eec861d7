------------------------------ MODULE AuthCache -----------------------------
(***************************************************************************)
(* Access lists on the request path: enforceAccess of proxy/access.go, the *)
(* cache of granted credentials of proxy/authcache.go, and EvaluateAccess  *)
(* of domain/accesslist.go.                                                *)
(*                                                                         *)
(* A credential is a username with a password; a list's users are those    *)
(* that match it.  Time passes while bcrypt runs: looking a credential up, *)
(* deciding and remembering are steps of their own.                        *)
(***************************************************************************)
EXTENDS Integers, FiniteSets, FiniteSetsExt

CONSTANTS
    Visits,        \* request goroutines
    Credentials,   \* usernames with a password
    Addresses,     \* client addresses
    Lists,         \* versions of the list an operator may store
    AuthTTL,       \* authTTL
    AuthCacheMax,  \* authCacheMax
    Second,        \* ticks in a second, the precision of UpdatedAt
    MaxTick        \* bound: the last tick

NoCredential == "none"

AccessRule == [deny : BOOLEAN, covers : SUBSET Addresses]
AccessList == [rules : SUBSET AccessRule, users : SUBSET Credentials, any : BOOLEAN]

ASSUME AuthAssumption ==
    /\ AuthTTL \in Nat /\ AuthCacheMax \in Nat \ {0} /\ Second \in Nat \ {0} /\ MaxTick \in Nat
    /\ Lists \subseteq AccessList
    /\ \A l \in Lists : l.rules # {} \/ l.users # {}

VARIABLES
    clock,      \* the time
    list,       \* the published list with its UpdatedAt
    entries,    \* authCache.entries
    visit,      \* each request's local variables
    remembered  \* history: what was put into the cache, and when

authVars == <<clock, list, entries, visit, remembered>>

AuthInit ==
    /\ clock = 0
    /\ list \in {[rules |-> l.rules, users |-> l.users, any |-> l.any, version |-> 0] : l \in Lists}
    /\ entries = [k \in {} |-> 0]
    /\ visit = [v \in Visits |-> [pc |-> "new"]]
    /\ remembered = {}

\* A deny rule that covers the address beats every allow rule; without an allow
\* rule the rules only subtract.
allowsAddress(l, a) ==
    /\ \A r \in l.rules : r.deny => a \notin r.covers
    /\ (\E r \in l.rules : ~r.deny) => \E r \in l.rules : ~r.deny /\ a \in r.covers

acceptsCredentials(l, c, verified) == c # NoCredential /\ (verified \/ c \in l.users)

\* What the address settles is settled without the credentials.
EvaluateAccess(l, a, c, verified) ==
    LET addressOK == allowsAddress(l, a) IN
    CASE l.any /\ addressOK -> "granted"
      [] ~l.any /\ ~addressOK -> "refused"
      [] l.any # addressOK /\ l.users = {} -> IF addressOK THEN "granted" ELSE "refused"
      [] l.any # addressOK /\ l.users # {} ->
            IF acceptsCredentials(l, c, verified) THEN "granted" ELSE "needs"

\* Mutant: the key leaves the list's version out.
makeAuthKeyUnversioned(l, c) == <<0, c>>

makeAuthKey(l, c) == <<l.version, c>>

Live(at) == {k \in DOMAIN entries : at <= entries[k]}

\* Consulted when there is something to verify.
Consulted(v) == visit[v].cred # NoCredential /\ visit[v].list.users # {}

Keep(ks) == [k \in ks |-> entries[k]]

-----------------------------------------------------------------------------
\* enforceAccess: the request holds the list of the table it was routed by.
Arrive(v, c, a) ==
    /\ visit[v].pc = "new"
    /\ visit' = [visit EXCEPT ![v] = [pc |-> "lookup", list |-> list, cred |-> c, addr |-> a,
                                      cached |-> FALSE, at |-> 0, decision |-> "open"]]
    /\ UNCHANGED <<clock, list, entries, remembered>>

\* granted drops an entry that it finds expired.
LookUp(v) ==
    LET k == makeAuthKey(visit[v].list, visit[v].cred)
        cached == Consulted(v) /\ k \in Live(clock)
    IN
    /\ visit[v].pc = "lookup"
    /\ visit' = [visit EXCEPT ![v] = [@ EXCEPT !.pc = "evaluate", !.cached = cached, !.at = clock]]
    /\ entries' = IF Consulted(v) /\ ~cached THEN Keep(DOMAIN entries \ {k}) ELSE entries
    /\ UNCHANGED <<clock, list, remembered>>

Evaluate(v) ==
    LET t == visit[v]
        d == EvaluateAccess(t.list, t.addr, t.cred, t.cached)
    IN
    /\ t.pc = "evaluate"
    /\ visit' = [visit EXCEPT ![v] = [@ EXCEPT !.decision = d,
                    !.pc = IF d = "granted" /\ Consulted(v) /\ ~t.cached THEN "remember" ELSE "done"]]
    /\ UNCHANGED <<clock, list, entries, remembered>>

\* evictExpiredLocked, and everything if that does not make room.
Roomy ==
    IF Cardinality(DOMAIN entries) < AuthCacheMax THEN DOMAIN entries
    ELSE IF Cardinality(Live(clock)) < AuthCacheMax THEN Live(clock)
    ELSE {}

Remember(v) ==
    LET k == makeAuthKey(visit[v].list, visit[v].cred) IN
    /\ visit[v].pc = "remember"
    /\ entries' = [j \in Roomy \cup {k} |-> IF j = k THEN clock + AuthTTL ELSE entries[j]]
    /\ remembered' = remembered \cup {[list |-> visit[v].list, cred |-> visit[v].cred, at |-> clock]}
    /\ visit' = [visit EXCEPT ![v].pc = "done"]
    /\ UNCHANGED <<clock, list>>

\* An operator stores the list; UpdatedAt is in whole seconds.
StoreList(l) ==
    /\ list' = [rules |-> l.rules, users |-> l.users, any |-> l.any, version |-> clock \div Second]
    /\ list' # list
    /\ UNCHANGED <<clock, entries, visit, remembered>>

AuthTick ==
    /\ clock < MaxTick
    /\ clock' = clock + 1
    /\ UNCHANGED <<list, entries, visit, remembered>>

AuthNext ==
    \/ \E v \in Visits :
          \/ \E c \in Credentials \cup {NoCredential}, a \in Addresses : Arrive(v, c, a)
          \/ LookUp(v) \/ Evaluate(v) \/ Remember(v)
    \/ \E l \in Lists : StoreList(l)
    \/ AuthTick

AuthSpec == AuthInit /\ [][AuthNext]_authVars

-----------------------------------------------------------------------------
\* Properties.

Passed == {v \in Visits : visit[v].pc = "done" /\ visit[v].decision = "granted"}

\* Who passes by password either has one of the list's users, or the cache knew
\* the credential from a grant under this very version of the list, at most
\* authTTL earlier: an edit in a later second takes effect at once, and the
\* cache never outgrows its limit (authcache.go:19-28, 38-41).
CachedGrantSound ==
    /\ Cardinality(DOMAIN entries) <= AuthCacheMax
    /\ \A v \in Passed : LET t == visit[v] IN
          \/ t.list.any /\ allowsAddress(t.list, t.addr)
          \/ /\ t.list.any \/ allowsAddress(t.list, t.addr)
             /\ \/ t.list.users = {}
                \/ t.cred \in t.list.users
                \/ \E r \in remembered :
                      /\ r.cred = t.cred /\ r.list.version = t.list.version
                      /\ r.cred \in r.list.users \/ r.list.any
                      /\ t.at <= r.at + AuthTTL

\* "Only a caller holding a positive result for this same list version may set
\* it" (accesslist.go:104): a credential taken as verified was compared with a
\* list's users, and matched.
VerifiedWasCompared ==
    \A v \in Visits : visit[v].pc \notin {"new", "lookup"} /\ visit[v].cached =>
        \E r \in remembered : /\ r.cred = visit[v].cred /\ r.list.version = visit[v].list.version
                              /\ r.cred \in r.list.users
=============================================================================
