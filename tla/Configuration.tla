--------------------------- MODULE Configuration ----------------------------
(***************************************************************************)
(* From an operator's edit to the running proxy: the host, redirect and    *)
(* access-list handlers of internal/api, their tables in internal/store,   *)
(* applyConfig of cmd/ponzproxy/main.go and buildRoutingTable.             *)
(*                                                                         *)
(* A request checks, commits one transaction and then applies: it reads    *)
(* every table again, one query at a time, and installs what it read.      *)
(* Nothing is locked from one query to the next, so a request's reads and  *)
(* its installation interleave with the commits and installations of the   *)
(* others.  Of a row only what routing looks at is kept: whether it is     *)
(* enabled, the domains it answers for (one UNIQUE column per table, so a  *)
(* function of the domain) and the access list it refers to.               *)
(***************************************************************************)
EXTENDS Integers, Sequences, FiniteSets

CONSTANTS
    Editors,                            \* API requests in flight
    HostIds, RedirectIds, ListIds,      \* row ids, never reused (AUTOINCREMENT)
    Domains,
    None,
    MaxEdits                            \* bound: transactions committed

ASSUME ConfigurationAssumption ==
    /\ MaxEdits \in Nat
    /\ None \notin HostIds \cup RedirectIds \cup ListIds

VARIABLES
    store,     \* the database
    spent,     \* ids that have been given out
    running,   \* the engine's routing table
    edit,      \* local variables of each request
    edits,     \* transactions committed so far
    exact,     \* history: nothing was committed since the running table was begun
    torn       \* history: lists edited between a reload's reads of them and of their children

configVars == <<store, spent, running, edit, edits, exact, torn>>

\* The tables.  Of access_list_rules and access_list_users only which lists have
\* any is kept: a list may restrict addresses, ask for a password, or both.
Tables == {"hosts", "hostDomains", "redirects", "redirectDomains", "lists", "rules", "users"}

\* AccessList.Validate: a list restricts something, and to satisfy either half
\* there have to be two.
Restrictions ==
    {x \in [any : BOOLEAN, halves : (SUBSET {"rules", "users"}) \ {{}}] :
        x.any => x.halves = {"rules", "users"}}

HostRow == [enabled : BOOLEAN, list : ListIds \cup {None}]

Empty == [hosts |-> <<>>, hostDomains |-> [d \in Domains |-> None],
          redirects |-> <<>>, redirectDomains |-> [d \in Domains |-> None],
          lists |-> <<>>, rules |-> {}, users |-> {}]

\* Mutant: a reload that leaves the redirects out.
QueriesWithoutRedirects == <<"hosts", "hostDomains", "lists", "rules", "users">>

\* What applyConfig reads, in its order.
Queries == <<"hosts", "hostDomains", "redirects", "redirectDomains", "lists", "rules", "users">>

\* The halves of the list that EvaluateAccess holds clients to.  With none
\* everyone is let in: the list is missing, it is empty, or it is satisfied by
\* either half and the addresses, unrestricted, always do.
Enforced(cfg, list) ==
    {half \in {"rules", "users"} :
        /\ list \in DOMAIN cfg.lists /\ list \in cfg[half]
        /\ cfg.lists[list] => list \in cfg.rules}

\* buildRoutingTable, from whatever the queries returned.
buildRoutingTable(cfg) ==
    [routes |->
        [h \in DOMAIN cfg.hosts |->
            [list |-> cfg.hosts[h].list, access |-> Enforced(cfg, cfg.hosts[h].list)]],
     proxied |->
        [d \in Domains |->
            IF cfg.hostDomains[d] \in DOMAIN cfg.hosts /\ cfg.hosts[cfg.hostDomains[d]].enabled
            THEN cfg.hostDomains[d] ELSE None],
     redirected |->
        [d \in Domains |->
            IF cfg.redirectDomains[d] \in DOMAIN cfg.redirects /\ cfg.redirects[cfg.redirectDomains[d]]
            THEN cfg.redirectDomains[d] ELSE None]]

\* A request: how far it is, what it was asked, and what applyConfig has read.
NoEdit == [pc |-> "idle", op |-> "none", id |-> None, row |-> None, domains |-> {},
         read |-> Empty, next |-> 1, alone |-> TRUE]

-----------------------------------------------------------------------------
Claim(table, id, domains) ==
    [d \in Domains |-> IF d \in domains THEN id ELSE IF table[d] = id THEN None ELSE table[d]]
Without(table, id) == [i \in DOMAIN table \ {id} |-> table[i]]
With(table, id, row) == [i \in DOMAIN table \cup {id} |-> IF i = id THEN row ELSE table[i]]

\* The schema's invariants across tables.
DomainsDisjoint(db) == \A d \in Domains : db.hostDomains[d] = None \/ db.redirectDomains[d] = None
ReferencesHeld(db) == \A h \in DOMAIN db.hosts : db.hosts[h].list \in DOMAIN db.lists \cup {None}
ChildrenOwned(db) ==
    /\ \A l \in ListIds : l \in DOMAIN db.lists <=> l \in db.rules \cup db.users
    /\ \A l \in DOMAIN db.lists : db.lists[l] => l \in db.rules \cap db.users
    /\ \A d \in Domains : /\ db.hostDomains[d] \in DOMAIN db.hosts \cup {None}
                          /\ db.redirectDomains[d] \in DOMAIN db.redirects \cup {None}

SubFunctions(S, T) == UNION {[R -> T] : R \in SUBSET S}

\* Start-up: any database the schema admits, applied once.
ConfigurationInit ==
    /\ store \in [hosts : SubFunctions(HostIds, HostRow),
                  hostDomains : [Domains -> HostIds \cup {None}],
                  redirects : SubFunctions(RedirectIds, BOOLEAN),
                  redirectDomains : [Domains -> RedirectIds \cup {None}],
                  lists : SubFunctions(ListIds, BOOLEAN), rules : SUBSET ListIds, users : SUBSET ListIds]
    /\ DomainsDisjoint(store) /\ ReferencesHeld(store) /\ ChildrenOwned(store)
    /\ spent = DOMAIN store.hosts \cup DOMAIN store.redirects \cup DOMAIN store.lists
    /\ running = buildRoutingTable(store)
    /\ edit = [e \in Editors |-> NoEdit]
    /\ edits = 0
    /\ exact = TRUE
    /\ torn = {}

Begin(e, pc, op, id, row, domains) ==
    /\ edit[e].pc = "idle"
    /\ edit' = [edit EXCEPT ![e] =
                  [NoEdit EXCEPT !.pc = pc, !.op = op, !.id = id, !.row = row, !.domains = domains]]
    /\ UNCHANGED <<store, spent, running, edits, exact, torn>>

Advance(e, pc) ==
    /\ edit' = [edit EXCEPT ![e] = IF pc = "idle" THEN NoEdit ELSE [@ EXCEPT !.pc = pc]]
    /\ UNCHANGED <<store, spent, running, edits, exact, torn>>

\* POST /api/hosts (id None) and PUT /api/hosts/{id}.
SaveHost(e, id, row, domains) ==
    Begin(e, IF row.list = None THEN "writing" ELSE "preparing", "saveHost", id, row, domains)

DeleteHost(e, id) == Begin(e, "writing", "deleteHost", id, None, {})

\* POST /api/redirects and PUT /api/redirects/{id}.
SaveRedirect(e, id, enabled, domains) == Begin(e, "writing", "saveRedirect", id, enabled, domains)

DeleteRedirect(e, id) == Begin(e, "writing", "deleteRedirect", id, None, {})

CreateList(e, restricts) == Begin(e, "writing", "createList", None, restricts, {})

UpdateList(e, id, restricts) == Begin(e, "reading", "updateList", id, restricts, {})

DeleteList(e, id) == Begin(e, "counting", "deleteList", id, None, {})

\* prepareHost: the list the host is to refer to has to be there.
prepareHost(e) ==
    /\ edit[e].pc = "preparing"
    /\ Advance(e, IF edit[e].row.list \in DOMAIN store.lists THEN "writing" ELSE "idle")

\* HandleUpdate reads the stored list, for the passwords left blank.
ReadExisting(e) ==
    /\ edit[e].pc = "reading"
    /\ Advance(e, IF edit[e].id \in DOMAIN store.lists THEN "writing" ELSE "idle")

\* HandleDelete counts the hosts that would be opened up, and goes on if there
\* are none or the count fails.
HostsUsing(e) ==
    /\ edit[e].pc = "counting"
    /\ \/ /\ \E h \in DOMAIN store.hosts : store.hosts[h].list = edit[e].id
          /\ Advance(e, "idle")
       \/ Advance(e, "writing")

\* UNIQUE within the table, the 0004 triggers across the two.
Free(domains, id) ==
    \A d \in domains : store.hostDomains[d] \in {None, id} /\ store.redirectDomains[d] \in {None, id}

\* Mutant: the count that HandleDelete makes is taken to be enough.
NotReferredUnchecked(id) == TRUE

\* ON DELETE RESTRICT on hosts.access_list_id.
NotReferred(id) == \A h \in DOMAIN store.hosts : store.hosts[h].list # id

\* Where the row goes: its own id, or one the table has never used.
Target(q, ids) == IF q.id # None THEN {q.id} ELSE ids \ spent

\* The list with its children replaced.
PutList(l, x) ==
    [store EXCEPT !.lists = With(@, l, x.any),
                  !.rules = IF "rules" \in x.halves THEN @ \cup {l} ELSE @ \ {l},
                  !.users = IF "users" \in x.halves THEN @ \cup {l} ELSE @ \ {l}]

\* Some request has read the lists and not yet all of their rules and users.
BetweenChildren ==
    \E e \in Editors : /\ edit[e].pc = "applying" /\ edit[e].next <= Len(Queries)
                       /\ Queries[edit[e].next] \in {"rules", "users"}

\* What a request's transaction may make of the database; no member when a
\* constraint or a missing row rolls it back.
HostSaved(q) ==
    {[store EXCEPT !.hosts = With(@, h, q.row), !.hostDomains = Claim(@, h, q.domains)] :
        h \in {i \in Target(q, HostIds) : /\ q.id = None \/ i \in DOMAIN store.hosts
                                          /\ Free(q.domains, i)
                                          /\ q.row.list \in DOMAIN store.lists \cup {None}}}

HostDeleted(q) ==
    {[store EXCEPT !.hosts = Without(@, h), !.hostDomains = Claim(@, h, {})] :
        h \in {q.id} \cap DOMAIN store.hosts}

RedirectSaved(q) ==
    {[store EXCEPT !.redirects = With(@, r, q.row), !.redirectDomains = Claim(@, r, q.domains)] :
        r \in {i \in Target(q, RedirectIds) : /\ q.id = None \/ i \in DOMAIN store.redirects
                                              /\ Free(q.domains, i)}}

RedirectDeleted(q) ==
    {[store EXCEPT !.redirects = Without(@, r), !.redirectDomains = Claim(@, r, {})] :
        r \in {q.id} \cap DOMAIN store.redirects}

ListDeleted(q) ==
    {[store EXCEPT !.lists = Without(@, l), !.rules = @ \ {l}, !.users = @ \ {l}] :
        l \in {i \in {q.id} \cap DOMAIN store.lists : NotReferred(i)}}

Written(q) ==
    CASE q.op = "saveHost"       -> HostSaved(q)
      [] q.op = "deleteHost"     -> HostDeleted(q)
      [] q.op = "saveRedirect"   -> RedirectSaved(q)
      [] q.op = "deleteRedirect" -> RedirectDeleted(q)
      [] q.op = "createList"     -> {PutList(l, q.row) : l \in ListIds \ spent}
      [] q.op = "updateList"     -> {PutList(l, q.row) : l \in {q.id} \cap DOMAIN store.lists}
      [] q.op = "deleteList"     -> ListDeleted(q)

\* withTx commits, and the handler goes on to applyConfig.
Commit(e) ==
    /\ edit[e].pc = "writing"
    /\ edits < MaxEdits
    /\ \E db \in Written(edit[e]) :
         /\ store' = db
         /\ spent' = spent \cup DOMAIN db.hosts \cup DOMAIN db.redirects \cup DOMAIN db.lists
    /\ edit' = [d \in Editors |-> IF d = e THEN [NoEdit EXCEPT !.pc = "applying"]
                                          ELSE [edit[d] EXCEPT !.alone = (edit[d].pc # "applying")]]
    /\ edits' = edits + 1
    /\ exact' = FALSE
    /\ torn' = IF edit[e].op = "updateList" /\ BetweenChildren THEN torn \cup {edit[e].id} ELSE torn
    /\ UNCHANGED running

\* The transaction is rolled back, the request is refused, or the caller has gone.
Abandon(e) == edit[e].pc \notin {"idle", "applying"} /\ Advance(e, "idle")

\* The next query of applyConfig.
Query(e) ==
    LET table == Queries[edit[e].next] IN
    /\ edit[e].pc = "applying"
    /\ edit[e].next <= Len(Queries)
    /\ edit' = [edit EXCEPT ![e].read[table] = store[table], ![e].next = @ + 1]
    /\ UNCHANGED <<store, spent, running, edits, exact, torn>>

\* engine.Reload.
Reload(e) ==
    /\ edit[e].pc = "applying"
    /\ edit[e].next > Len(Queries)
    /\ running' = buildRoutingTable(edit[e].read)
    /\ exact' = edit[e].alone
    /\ edit' = [edit EXCEPT ![e] = NoEdit]
    /\ UNCHANGED <<store, spent, edits, torn>>

\* A query fails, or the request's context is cancelled: logged, and the edit
\* stays committed but not applied.
ApplyFails(e) ==
    /\ edit[e].pc = "applying"
    /\ edit[e].next <= Len(Queries)
    /\ Advance(e, "idle")

ConfigurationNext ==
    \E e \in Editors :
       \/ \E row \in HostRow, domains \in (SUBSET Domains) \ {{}}, id \in DOMAIN store.hosts \cup {None} :
             SaveHost(e, id, row, domains)
       \/ \E id \in DOMAIN store.hosts : DeleteHost(e, id)
       \/ \E enabled \in BOOLEAN, domains \in (SUBSET Domains) \ {{}}, id \in DOMAIN store.redirects \cup {None} :
             SaveRedirect(e, id, enabled, domains)
       \/ \E id \in DOMAIN store.redirects : DeleteRedirect(e, id)
       \/ \E restricts \in Restrictions : CreateList(e, restricts)
       \/ \E id \in DOMAIN store.lists, restricts \in Restrictions : UpdateList(e, id, restricts)
       \/ \E id \in DOMAIN store.lists : DeleteList(e, id)
       \/ prepareHost(e) \/ ReadExisting(e) \/ HostsUsing(e)
       \/ Commit(e) \/ Abandon(e) \/ Query(e) \/ Reload(e) \/ ApplyFails(e)

ConfigurationSpec == ConfigurationInit /\ [][ConfigurationNext]_configVars

-----------------------------------------------------------------------------
Unguarded(h) == running.routes[h].list # None /\ running.routes[h].access = {}

Released(h) == h \notin DOMAIN store.hosts \/ store.hosts[h].list # running.routes[h].list

\* A running route that refers to a list but enforces nothing is one whose host
\* an operator has since taken off that list or deleted: applyConfig reads the
\* hosts before the lists, and a list in use cannot be deleted, although
\* HandleDelete's count and prepareHost's look-up are both made outside the
\* transaction they are for (0003_access_lists.sql:37).  It is not so of
\* a list that was edited while it, its rules and its users were being read.
UnguardedOnlyIfReleased ==
    \A h \in DOMAIN running.routes :
       Unguarded(h) => Released(h) \/ running.routes[h].list \in torn

\* accesslist.go:124: letting everyone in is what "only a list that restricts
\* nothing can reach, and Validate refuses to store one of those".  So a host that
\* is on a list is never run as if it were open.  A list that goes from passwords
\* to address rules while another request reads it is seen with neither; one that
\* drops its rules is seen without them and still satisfied by either half.
NeverOpenedUp == \A h \in DOMAIN running.routes : Unguarded(h) => Released(h)

\* An applyConfig that no commit overlapped leaves the proxy running exactly
\* what the database holds.
ExactWhenAlone == exact => running = buildRoutingTable(store)
=============================================================================
