----------------------------- MODULE HostCache -----------------------------
(***************************************************************************)
(* The response cache of one host: internal/cache/cache.go, the requests   *)
(* internal/proxy/cache.go sends through it, and the part of Engine.Reload *)
(* that changes its settings and forgets it.                               *)
(*                                                                         *)
(* A request keeps the *HostCache it was given: after Forget the object    *)
(* lives on, detached, until the last such request is over.  What is done  *)
(* under HostCache.mu is one step; Put reads the budget before the lock,   *)
(* and Store.Host looks, creates and sets the budget in steps of their own.*)
(***************************************************************************)
EXTENDS Integers, Sequences, SequencesExt, FiniteSetsExt

CONSTANTS
    Req,         \* request goroutines
    Paths,       \* paths the operator listed
    Headers,     \* host headers the host is asked for by
    Variants,    \* what else is in a Key: query, codings
    Sizes,       \* entry sizes the origin may produce
    Budgets,     \* Cache.MaxBytes values an operator may configure
    TTL,         \* how long a response stays fresh, in ticks
    MaxCaches,   \* bound: HostCache objects created
    MaxVersion,  \* bound: changes of a path at the origin
    MaxTime      \* bound: the last tick

ASSUME CacheAssumption ==
    /\ Sizes \subseteq Nat \ {0}
    /\ Budgets \subseteq Nat /\ Budgets # {} /\ IsFiniteSet(Budgets)
    /\ TTL \in Nat \ {0} /\ MaxCaches \in Nat \ {0} /\ MaxVersion \in Nat /\ MaxTime \in Nat

Keys == Paths \X Headers \X Variants
Entry == [size : Nat, version : Nat, expires : Nat]

VARIABLES
    now,      \* the clock
    config,   \* the published Cache.MaxBytes, 0 when caching is not active
    pending,  \* the reload under way has still to Forget
    caches,   \* every HostCache ever created
    current,  \* the one in Store.hosts, 0 for none
    req,      \* each request's local variables
    origin,   \* the version of each path the origin holds
    used,     \* history: each cache's keys, last used first
    dropped   \* history: the caches Forget has let go

vars == <<now, config, pending, caches, current, req, origin, used, dropped>>

\* items and order are the map and the recency list, head first.
newHostCache(budget) ==
    [items |-> [k \in {} |-> 0], order |-> <<>>, bytes |-> 0, budget |-> budget]

NoEntry == [size |-> 0, version |-> 0, expires |-> 0]
Idle == [pc |-> "idle", unsafe |-> FALSE, key |-> <<>>, cfg |-> 0, at |-> 0, cache |-> 0,
         entry |-> NoEntry, budget |-> 0]

Init ==
    /\ now = 0
    /\ config \in Budgets
    /\ pending = FALSE
    /\ caches = <<>>
    /\ current = 0
    /\ req = [r \in Req |-> Idle]
    /\ origin = [p \in Paths |-> 0]
    /\ used = <<>>
    /\ dropped = {}

-----------------------------------------------------------------------------
\* HostCache, under its mutex.

\* Mutant: an entry is dropped without giving its bytes back.
removeKeepsBytes(h, k) ==
    [h EXCEPT !.items = [j \in DOMAIN h.items \ {k} |-> h.items[j]],
              !.order = RemoveFirst(@, k)]

\* remove: the map, the byte count and the list together.
remove(h, k) ==
    [h EXCEPT !.items = [j \in DOMAIN h.items \ {k} |-> h.items[j]],
              !.bytes = @ - h.items[k].size,
              !.order = RemoveFirst(@, k)]

\* Mutant: a hit leaves the list as it was.
moveToFrontNot(h, k) == h

moveToFront(h, k) == [h EXCEPT !.order = <<k>> \o RemoveFirst(@, k)]

insert(h, k, e) ==
    [h EXCEPT !.items = [j \in DOMAIN h.items \cup {k} |-> IF j = k THEN e ELSE h.items[j]],
              !.order = <<k>> \o @,
              !.bytes = @ + e.size]

Bytes(items, keys) == MapThenSumSet(LAMBDA k : items[k].size, keys)

\* The list without as few entries at its tail as bring it within the budget.
evict(h, budget) ==
    LET bytesAfter(n) == h.bytes - Bytes(h.items, {h.order[j] : j \in (n + 1) .. Len(h.order)})
        kept == CHOOSE n \in 0 .. Len(h.order) :
                   /\ bytesAfter(n) <= budget \/ n = 0
                   /\ \A m \in (n + 1) .. Len(h.order) : bytesAfter(m) > budget
        keys == {h.order[j] : j \in 1 .. kept}
    IN  [h EXCEPT !.items = [k \in keys |-> h.items[k]],
                  !.order = SubSeq(@, 1, kept),
                  !.bytes = bytesAfter(kept)]

Put(h, k, e, budget) ==
    evict(insert(IF k \in DOMAIN h.items THEN remove(h, k) ELSE h, k, e), budget)

\* Invalidate: every variant of the path kept for that host header.
Invalidate(h, host, p) ==
    FoldSet(LAMBDA k, g : remove(g, k), h, {k \in DOMAIN h.items : k[2] = host /\ k[1] = p})

Fresh(e, at) == at < e.expires

\* History: k becomes the last used key of cache i.
Touch(i, k) == used' = [used EXCEPT ![i] = <<k>> \o RemoveFirst(@, k)]

-----------------------------------------------------------------------------
\* Requests.

Goto(r, pc) == req' = [req EXCEPT ![r].pc = pc]
Finish(r) == req' = [req EXCEPT ![r] = Idle]

\* A request for a cached path meets a routing table whose host caches: the
\* setting travels with it from here.  An unsafe method is Invalidates, a GET
\* Eligible; both call Store.Host first.
Route(r, k, unsafe) ==
    /\ req[r].pc = "idle"
    /\ config # 0
    /\ req' = [req EXCEPT ![r] = [Idle EXCEPT !.pc = "routed", !.unsafe = unsafe,
                                             !.key = k, !.cfg = config, !.at = now]]
    /\ UNCHANGED <<now, config, pending, caches, current, origin, used, dropped>>

\* Store.Host, under the read lock.
HostFind(r) ==
    /\ req[r].pc = "routed"
    /\ req' = [req EXCEPT ![r].pc = IF current = 0 THEN "absent" ELSE "found",
                          ![r].cache = current]
    /\ UNCHANGED <<now, config, pending, caches, current, origin, used, dropped>>

\* The cache was there: its budget becomes the one this request was routed with.
HostBudget(r) ==
    /\ req[r].pc = "found"
    /\ caches' = [caches EXCEPT ![req[r].cache].budget = req[r].cfg]
    /\ Goto(r, "given")
    /\ UNCHANGED <<now, config, pending, current, origin, used, dropped>>

\* Mutant: the second look under the write lock is left out.
StillAbsentAssumed == TRUE

\* The second look, under the write lock.
StillAbsent == current = 0

HostCreate(r) ==
    /\ req[r].pc = "absent"
    /\ IF StillAbsent
          THEN /\ Len(caches) < MaxCaches
               /\ caches' = Append(caches, newHostCache(req[r].cfg))
               /\ used' = Append(used, <<>>)
               /\ current' = Len(caches')
          ELSE /\ caches' = [caches EXCEPT ![current].budget = req[r].cfg]
               /\ UNCHANGED <<current, used>>
    /\ req' = [req EXCEPT ![r].pc = "given", ![r].cache = current']
    /\ UNCHANGED <<now, config, pending, origin, dropped>>

\* Lookup finds nothing, or something stale that it drops.
LookupMiss(r) ==
    LET h == caches[req[r].cache]
        k == req[r].key
    IN  /\ req[r].pc = "given" /\ ~req[r].unsafe
        /\ \/ k \notin DOMAIN h.items /\ UNCHANGED caches
           \/ /\ k \in DOMAIN h.items /\ ~Fresh(h.items[k], req[r].at)
              /\ caches' = [caches EXCEPT ![req[r].cache] = remove(h, k)]
        /\ Goto(r, "fetch")
        /\ UNCHANGED <<now, config, pending, current, origin, used, dropped>>

\* Lookup finds a fresh entry and moves it to the front.  Servable may still
\* send a request with credentials, or with no-cache, to the backend.
LookupHit(r, servable) ==
    LET h == caches[req[r].cache]
        k == req[r].key
    IN  /\ req[r].pc = "given" /\ ~req[r].unsafe
        /\ k \in DOMAIN h.items /\ Fresh(h.items[k], req[r].at)
        /\ caches' = [caches EXCEPT ![req[r].cache] = moveToFront(h, k)]
        /\ Touch(req[r].cache, k)
        /\ IF servable THEN Finish(r) ELSE Goto(r, "fetch")
        /\ UNCHANGED <<now, config, pending, current, origin, dropped>>

\* The origin answers what it holds and captureWriter.WriteHeader finds it
\* Storable; the lifetime counts from this moment.
FetchStorable(r, size) ==
    /\ req[r].pc = "fetch"
    /\ req' = [req EXCEPT ![r].pc = "commit",
                          ![r].entry = [size |-> size, version |-> origin[req[r].key[1]],
                                        expires |-> now + TTL]]
    /\ UNCHANGED <<now, config, pending, caches, current, origin, used, dropped>>

\* The answer is not storable, or its body stops short of its length or runs
\* past it (abandon): nothing is put.
FetchPassed(r) ==
    /\ req[r].pc \in {"fetch", "commit"}
    /\ Finish(r)
    /\ UNCHANGED <<now, config, pending, caches, current, origin, used, dropped>>

\* commit calls Put, which loads the budget and refuses what exceeds all of it.
PutLoad(r) ==
    LET budget == caches[req[r].cache].budget IN
    /\ req[r].pc = "commit"
    /\ IF req[r].entry.size > budget
          THEN Finish(r)
          ELSE req' = [req EXCEPT ![r].pc = "storing", ![r].budget = budget]
    /\ UNCHANGED <<now, config, pending, caches, current, origin, used, dropped>>

PutStore(r) ==
    LET i == req[r].cache
        k == req[r].key
    IN  /\ req[r].pc = "storing"
        /\ caches' = [caches EXCEPT ![i] = Put(@, k, req[r].entry, req[r].budget)]
        /\ Touch(i, k)
        /\ Finish(r)
        /\ UNCHANGED <<now, config, pending, current, origin, dropped>>

\* An unsafe request drops its path under its own host header, then goes to the
\* origin.
InvalidatePath(r) ==
    /\ req[r].pc = "given" /\ req[r].unsafe
    /\ caches' = [caches EXCEPT ![req[r].cache] = Invalidate(@, req[r].key[2], req[r].key[1])]
    /\ Goto(r, "sent")
    /\ UNCHANGED <<now, config, pending, current, origin, used, dropped>>

\* The origin carries it out, or it does not come back.
OriginReplaces(r) ==
    /\ req[r].pc = "sent"
    /\ origin[req[r].key[1]] < MaxVersion
    /\ origin' = [origin EXCEPT ![req[r].key[1]] = @ + 1]
    /\ Finish(r)
    /\ UNCHANGED <<now, config, pending, caches, current, used, dropped>>

OriginRefuses(r) ==
    /\ req[r].pc = "sent"
    /\ Finish(r)
    /\ UNCHANGED <<now, config, pending, caches, current, origin, used, dropped>>

-----------------------------------------------------------------------------
\* Engine.Reload: the routing table is published, then the hosts that no longer
\* cache are forgotten.

Publish(c) ==
    /\ ~pending
    /\ c # config
    /\ config' = c
    /\ pending' = TRUE
    /\ UNCHANGED <<now, caches, current, req, origin, used, dropped>>

Forget ==
    /\ pending
    /\ pending' = FALSE
    /\ IF config = 0
          THEN /\ current' = 0
               /\ dropped' = dropped \cup ({current} \ {0})
          ELSE UNCHANGED <<current, dropped>>
    /\ UNCHANGED <<now, config, caches, req, origin, used>>

Tick ==
    /\ now < MaxTime
    /\ now' = now + 1
    /\ UNCHANGED <<config, pending, caches, current, req, origin, used, dropped>>

Next ==
    \/ \E r \in Req :
         \/ \E k \in Keys, unsafe \in BOOLEAN : Route(r, k, unsafe)
         \/ HostFind(r) \/ HostBudget(r) \/ HostCreate(r)
         \/ LookupMiss(r) \/ \E servable \in BOOLEAN : LookupHit(r, servable)
         \/ \E size \in Sizes : FetchStorable(r, size)
         \/ FetchPassed(r) \/ PutLoad(r) \/ PutStore(r)
         \/ InvalidatePath(r) \/ OriginReplaces(r) \/ OriginRefuses(r)
    \/ \E c \in Budgets \cup {0} : Publish(c)
    \/ Forget
    \/ Tick

Spec == Init /\ [][Next]_vars

-----------------------------------------------------------------------------
\* Properties.

\* The map, the recency list and the byte count tell one story, whatever order
\* concurrent requests put, refresh, expire and invalidate entries in: the list
\* holds each stored key once and bytes is the sum of what is stored.  Put's loop
\* leaves no cache, live or detached, above the largest budget it was ever given.
Accounting ==
    \A i \in DOMAIN caches : LET h == caches[i] IN
        /\ ToSet(h.order) = DOMAIN h.items
        /\ Len(h.order) = Cardinality(DOMAIN h.items)
        /\ h.bytes = Bytes(h.items, DOMAIN h.items)
        /\ h.bytes <= Max(Budgets)

\* Put evicts only keys less recently used than every key it keeps.
EvictsLeastRecent ==
    [][\A r \in Req :
          req[r].pc = "storing" /\ req'[r].pc = "idle" =>
             LET i == req[r].cache
                 kept == DOMAIN caches'[i].items
                 lost == DOMAIN caches[i].items \ kept
                 rank(k) == CHOOSE j \in DOMAIN used'[i] : used'[i][j] = k
             IN  \A k \in kept, l \in lost : rank(k) < rank(l)]_vars

\* A cache leaves Store.hosts only through Forget: two first requests for a host
\* that race to create it never strand what one of them stores.
NoneStranded == \A i \in DOMAIN caches : i = current \/ i \in dropped

\* Invalidates' comment: the cache holds no copy the origin has replaced.
NoReplacedCopy ==
    current # 0 => \A k \in DOMAIN caches[current].items :
                      caches[current].items[k].version = origin[k[1]]
=============================================================================
