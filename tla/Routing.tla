------------------------------- MODULE Routing ------------------------------
(***************************************************************************)
(* A request's way through Engine.ServeHTTP of proxy/handler.go: the       *)
(* routing table of proxy/routing.go, the gates in their order, and what   *)
(* rewrite sends to the backend, while operators save hosts and redirects  *)
(* (Normalize and Validate of domain/host.go, location.go, headers.go and  *)
(* redirect.go) and every save publishes another table.                    *)
(*                                                                         *)
(* A name is the sequence of its labels and a path the sequence of its     *)
(* slashes and of the pieces between them, so that a segment can be the    *)
(* beginning of another.  What the limiter, the cache, EvaluateAccess and  *)
(* the inspection decide is modelled elsewhere and is an input here.       *)
(***************************************************************************)
EXTENDS Integers, SequencesExt

CONSTANTS
    Segments,       \* the labels of names and the pieces of paths
    HeaderNames,    \* the headers a request may have
    HostForms,      \* what an operator may submit for a host
    RedirectForms,  \* and for a redirect
    Inbound,        \* the requests that may come in
    MaxSwaps        \* bound: tables published while a request is served

Removed == "removed"     \* of a header
NoOne == [id |-> 0]       \* no route, location or redirect
ForwardedFor == "X-Forwarded-For"

Pieces == Seq(Segments)
RuleLists == Seq([name : HeaderNames, value : STRING, remove : BOOLEAN])
Locations == [path : Pieces, strip : BOOLEAN, rules : RuleLists]

Hosts ==
    [id : Nat \ {0}, enabled : BOOLEAN, domains : SUBSET Pieces, force : BOOLEAN,
     certificate : BOOLEAN, closed : BOOLEAN, limited : BOOLEAN, list : BOOLEAN,
     guardian : STRING, websocket : BOOLEAN, cache : BOOLEAN, preserve : BOOLEAN,
     rules : RuleLists, locations : Seq(Locations)]

Redirects ==
    [id : Nat \ {0}, enabled : BOOLEAN, domains : SUBSET Pieces, target : Pieces,
     path : Pieces, preserve : BOOLEAN]

Requests ==
    [name : Pieces, path : Pieces, tls : BOOLEAN, challenge : BOOLEAN, exempt : BOOLEAN,
     access : {"granted", "forbidden", "prompt"}, matched : BOOLEAN, upgrade : BOOLEAN,
     headers : [HeaderNames -> STRING]]

ASSUME RoutingAssumption ==
    /\ {"/", "*"} \subseteq Segments /\ ForwardedFor \in HeaderNames
    /\ HostForms \subseteq Hosts /\ RedirectForms \subseteq Redirects
    /\ Inbound \subseteq Requests
    /\ MaxSwaps \in Nat

VARIABLES
    config,   \* the hosts and the redirects in the store
    table,    \* Engine.table
    inbound,  \* the request
    stage,    \* where in ServeHTTP it is
    serving,  \* the route it was given
    answer,   \* what the visitor got
    seen      \* history: the configurations published since it came in

routingVars == <<config, table, inbound, stage, serving, answer, seen>>
requestVars == <<inbound, stage, serving, answer>>

-----------------------------------------------------------------------------
(* What is stored.                                                         *)

\* Location.Normalize: a leading slash and no trailing one.
NormalizePath(p) ==
    LET rooted == IF p = <<>> \/ p[1] # "/" THEN <<"/">> \o p ELSE p IN
    SubSeq(rooted, 1, Max({n \in DOMAIN rooted : n = 1 \/ rooted[n] # "/"}))

\* The i-th location goes before the j-th: a longer path, or as long and first.
Before(ls, i, j) ==
    \/ Len(ls[i].path) > Len(ls[j].path)
    \/ Len(ls[i].path) = Len(ls[j].path) /\ i < j

\* How many go before the i-th.
Preceding(ls, i) == Cardinality({j \in DOMAIN ls : Before(ls, j, i)})

\* The stable sort, longest path first.
LongestFirst(ls) ==
    [k \in DOMAIN ls |-> ls[CHOOSE i \in DOMAIN ls : Preceding(ls, i) = k - 1]]

NormalizeLocation(l) == [l EXCEPT !.path = NormalizePath(@)]

NormalizeHost(h) ==
    [h EXCEPT !.locations = LongestFirst([i \in DOMAIN @ |-> NormalizeLocation(@[i])])]

DoubleSlash(p) == \E i \in 1 .. Len(p) - 1 : p[i] = "/" /\ p[i + 1] = "/"

\* A wildcard is the leftmost label, above a registrable domain.
ValidDomain(d) ==
    /\ d # <<>>
    /\ \A i \in DOMAIN d : d[i] = "*" => i = 1 /\ Len(d) >= 3

ValidRules(rules) == \A i, j \in DOMAIN rules : rules[i].name = rules[j].name => i = j

ValidLocation(l) ==
    /\ l.path # <<>> /\ l.path[1] = "/" /\ l.path # <<"/">>
    /\ ~DoubleSlash(l.path)
    /\ ValidRules(l.rules)

ValidLocations(ls) ==
    \A i \in DOMAIN ls :
        /\ ValidLocation(ls[i])
        /\ \A j \in DOMAIN ls : ls[i].path = ls[j].path => i = j

\* Host.Validate; the settings other modules are about are valid in every form.
ValidHost(h) ==
    /\ h.domains # {} /\ \A d \in h.domains : ValidDomain(d)
    /\ h.force => h.certificate
    /\ ValidRules(h.rules)
    /\ ValidLocations(h.locations)

\* Redirect.MatchesDomain.
MatchesDomain(r, name) ==
    \E d \in r.domains : d = name \/ (d[1] = "*" /\ Len(name) > 1 /\ Tail(d) = Tail(name))

ValidRedirect(r) ==
    /\ r.domains # {} /\ \A d \in r.domains : ValidDomain(d)
    /\ ~MatchesDomain(r, r.target)

-----------------------------------------------------------------------------
(* The routing table.                                                      *)

DomainsOf(rs) == UNION {r.domains : r \in rs}

ByName(rs) == [d \in {d \in DomainsOf(rs) : d[1] # "*"} |-> CHOOSE r \in rs : d \in r.domains]

ByParent(rs) == [p \in {Tail(d) : d \in {d \in DomainsOf(rs) : d[1] = "*"}} |->
                    CHOOSE r \in rs : <<"*">> \o p \in r.domains]

\* The locations are stored longest path first: sorting them again changes nothing.
TableOf(c) ==
    LET hosts == {h \in c.hosts : h.enabled}
        redirects == {r \in c.redirects : r.enabled}
    IN [exact |-> ByName(hosts), wildcard |-> ByParent(hosts),
        redirectExact |-> ByName(redirects), redirectWildcard |-> ByParent(redirects)]

\* Exact beats wildcard, which covers one label.
Find(exact, wildcard, name) ==
    CASE name \in DOMAIN exact -> exact[name]
      [] name \notin DOMAIN exact /\ Len(name) > 1 /\ Tail(name) \in DOMAIN wildcard ->
            wildcard[Tail(name)]
      [] OTHER -> NoOne

lookup(t, name) == Find(t.exact, t.wildcard, name)

lookupRedirect(t, name) == Find(t.redirectExact, t.redirectWildcard, name)

\* Location.Matches.
MatchesPath(l, p) ==
    \/ l.path = <<"/">>
    \/ IsPrefix(l.path, p) /\ (Len(p) = Len(l.path) \/ p[Len(l.path) + 1] = "/")

\* route.pick: the first location that matches, NoOne for the host's own pool.
pick(h, p) ==
    LET matching == {i \in DOMAIN h.locations : MatchesPath(h.locations[i], p)} IN
    IF matching = {} THEN NoOne ELSE h.locations[Min(matching)]

-----------------------------------------------------------------------------
RoutingInit ==
    /\ config = [hosts |-> {}, redirects |-> {}]
    /\ table = TableOf(config)
    /\ stage = "idle"
    /\ inbound = NoOne /\ serving = NoOne /\ answer = NoOne
    /\ seen = {}

\* Every save ends in a reload of the engine with what is then stored.
Store(new) ==
    /\ seen' = IF stage = "idle" THEN seen ELSE seen \cup {new}
    /\ Cardinality(seen') <= MaxSwaps + 1
    /\ config' = new
    /\ table' = TableOf(new)
    /\ UNCHANGED requestVars

\* One row for each domain, whether a host or a redirect claims it.
StoreHost(form) ==
    LET h == NormalizeHost(form)
        others == {x \in config.hosts : x.id # h.id}
    IN /\ ValidHost(h)
       /\ h.domains \cap (DomainsOf(others) \cup DomainsOf(config.redirects)) = {}
       /\ Store([config EXCEPT !.hosts = others \cup {h}])

StoreRedirect(r) ==
    LET others == {x \in config.redirects : x.id # r.id} IN
    /\ ValidRedirect(r)
    /\ r.domains \cap (DomainsOf(others) \cup DomainsOf(config.hosts)) = {}
    /\ Store([config EXCEPT !.redirects = others \cup {r}])

RemoveHost(h) == Store([config EXCEPT !.hosts = @ \ {h}])

RemoveRedirect(r) == Store([config EXCEPT !.redirects = @ \ {r}])

-----------------------------------------------------------------------------
(* The request.                                                            *)

Arrives(q) ==
    /\ stage = "idle"
    /\ inbound' = q
    /\ stage' = "challenge"
    /\ seen' = {config}
    /\ UNCHANGED <<config, table, serving, answer>>

\* One gate: it answers the request itself or lets it on to the next.
Gate(at, stops, with, next) ==
    /\ stage = at
    /\ stage' = IF stops THEN "done" ELSE next
    /\ answer' = IF stops THEN with ELSE answer
    /\ UNCHANGED <<config, table, inbound, serving, seen>>

AnswerChallenge ==
    Gate("challenge", ~inbound.tls /\ inbound.challenge, [kind |-> "challenge"], "route")

\* sanitizePath: a leading slash, unless the path is empty.
sanitizePath(p) == IF p = <<>> \/ p[1] = "/" THEN p ELSE <<"/">> \o p

\* Redirect.Location.  A target's path loses one trailing slash before the
\* request's is put behind it.
LocationOf(r, p) ==
    LET prefix == IF r.path # <<>> /\ Last(r.path) = "/" THEN Front(r.path) ELSE r.path
        suffix == sanitizePath(p)
    IN CASE ~r.preserve -> r.path
         [] r.preserve /\ suffix = <<"/">> /\ prefix # <<>> -> prefix
         [] OTHER -> prefix \o suffix

\* The table is loaded once; redirects come first.
Route ==
    LET r == lookupRedirect(table, inbound.name)
        h == lookup(table, inbound.name)
    IN /\ stage = "route"
       /\ serving' = IF r = NoOne THEN h ELSE NoOne
       /\ stage' = IF serving' = NoOne THEN "done" ELSE "https"
       /\ answer' = CASE r # NoOne ->
                           [kind |-> "moved", to |-> r.target, path |-> LocationOf(r, inbound.path)]
                      [] r = NoOne /\ h = NoOne -> [kind |-> "unmatched"]
                      [] OTHER -> answer
       /\ UNCHANGED <<config, table, inbound, seen>>

\* Mutant: a gate looks the host up again instead of using the request's route.
RouteAgain ==
    LET h == lookup(table, inbound.name) IN IF h = NoOne THEN serving ELSE h

\* The route every gate works with.
rt == serving

redirectToHTTPS ==
    Gate("https", ~inbound.tls /\ rt.force, [kind |-> "https", to |-> inbound.name], "maintenance")

serveMaintenance ==
    Gate("maintenance", rt.closed /\ ~inbound.exempt, [kind |-> "maintenance"], "limits")

enforceLimits ==
    \E over \in BOOLEAN :
        Gate("limits", rt.limited /\ over, [kind |-> "limited"], "access")

\* enforceAccess: inbound.access is what EvaluateAccess decides.
checkAccess ==
    Gate("access", rt.list /\ inbound.access # "granted", [kind |-> inbound.access], "inspect")

inspectRequest ==
    Gate("inspect", rt.guardian = "block" /\ inbound.matched, [kind |-> "refused"], "upgrade")

checkUpgrade ==
    Gate("upgrade", inbound.upgrade /\ ~rt.websocket, [kind |-> "no upgrade"], "cache")

consultCache ==
    \E hit \in BOOLEAN :
        Gate("cache", rt.cache /\ hit, [kind |-> "cached"], "forward")

applyRules(headers, rules) ==
    FoldLeft(LAMBDA hs, r : [hs EXCEPT ![r.name] = IF r.remove THEN Removed ELSE r.value],
             headers, rules)

\* Location.Forward.
StripPath(l, p) ==
    IF ~l.strip \/ l.path = <<"/">> THEN p
    ELSE IF p = l.path THEN <<"/">> ELSE SubSeq(p, Len(l.path) + 1, Len(p))

\* rewrite: the host's rules, then the location's.
rewrite(h, l) ==
    LET forwarded == [inbound.headers EXCEPT ![ForwardedFor] = "proxy"]
        hosts == applyRules(forwarded, h.rules)
    IN [path |-> IF l = NoOne THEN inbound.path ELSE StripPath(l, inbound.path),
        host |-> IF h.preserve THEN inbound.name ELSE <<>>,
        headers |-> IF l = NoOne THEN hosts ELSE applyRules(hosts, l.rules)]

forwardRequest ==
    LET l == pick(rt, inbound.path) IN
    Gate("forward", TRUE,
         [kind |-> "forwarded", host |-> rt.id,
          location |-> IF l = NoOne THEN <<>> ELSE l.path, sent |-> rewrite(rt, l)], "done")

\* The visitor has the answer; another request may come.
Leaves ==
    /\ stage = "done"
    /\ stage' = "idle"
    /\ inbound' = NoOne /\ serving' = NoOne /\ answer' = NoOne
    /\ seen' = {}
    /\ UNCHANGED <<config, table>>

RoutingNext ==
    \/ \E form \in HostForms : StoreHost(form)
    \/ \E r \in RedirectForms : StoreRedirect(r)
    \/ \E h \in config.hosts : RemoveHost(h)
    \/ \E r \in config.redirects : RemoveRedirect(r)
    \/ \E q \in Inbound : Arrives(q)
    \/ AnswerChallenge \/ Route \/ redirectToHTTPS \/ serveMaintenance \/ enforceLimits
    \/ checkAccess \/ inspectRequest \/ checkUpgrade \/ consultCache \/ forwardRequest
    \/ Leaves

RoutingSpec == RoutingInit /\ [][RoutingNext]_routingVars

-----------------------------------------------------------------------------
(* What the visitor may expect of one configuration.                       *)

\* The enabled hosts or redirects a name belongs to: those that name it, else
\* those whose wildcard covers it.
Owners(rs, name) ==
    LET on == {r \in rs : r.enabled}
        naming == {r \in on : name \in r.domains}
    IN IF naming # {} THEN naming ELSE {r \in on : MatchesDomain(r, name)}

\* A whole number of segments below a location.
Below(p) == {l \in {<<>>} \cup {SubSeq(p, 1, n) : n \in DOMAIN p} :
                p = l \/ IsPrefix(l \o <<"/">>, p)}

\* The rule that decides about a header: a location's before its host's.
Deciding(rules, name) == {rules[i] : i \in {i \in DOMAIN rules : rules[i].name = name}}

HeaderDue(given, h, l, name) ==
    LET near == IF l = {} THEN {} ELSE UNION {Deciding(x.rules, name) : x \in l}
        due == IF near # {} THEN near ELSE Deciding(h.rules, name)
    IN CASE due # {} -> {IF r.remove THEN Removed ELSE r.value : r \in due}
         [] due = {} /\ name = ForwardedFor -> {"proxy"}
         [] OTHER -> {given[name]}

\* The backend of the deepest location gets the request, with the rest of its
\* path and the headers due.
SentRight(h) ==
    LET around == {l \in ToSet(h.locations) : l.path \in Below(inbound.path)}
        deepest == {l \in around : \A m \in around : Len(m.path) <= Len(l.path)}
        sent == answer.sent
    IN /\ answer.host = h.id
       /\ answer.location \in IF around = {} THEN {<<>>} ELSE {l.path : l \in deepest}
       /\ IF \E l \in deepest : l.strip
          THEN answer.location \o sent.path \in {inbound.path, inbound.path \o <<"/">>}
          ELSE sent.path = inbound.path
       /\ \A name \in DOMAIN sent.headers :
             sent.headers[name] \in HeaderDue(inbound.headers, h, deepest, name)

\* What a host's own settings have to say for the answer.
Grounds(h) ==
    CASE answer.kind = "https" -> ~inbound.tls /\ h.force
      [] answer.kind = "maintenance" -> h.closed /\ ~inbound.exempt
      [] answer.kind = "limited" -> h.limited
      [] answer.kind \in {"forbidden", "prompt"} -> h.list /\ inbound.access = answer.kind
      [] answer.kind = "refused" -> h.guardian = "block" /\ inbound.matched
      [] answer.kind = "no upgrade" -> inbound.upgrade /\ ~h.websocket
      [] answer.kind \in {"cached", "forwarded"} ->
            /\ h.list => inbound.access = "granted"
            /\ h.guardian = "block" => ~inbound.matched
            /\ inbound.upgrade => h.websocket
            /\ IF answer.kind = "cached" THEN h.cache ELSE SentRight(h)

Explains(c) ==
    CASE answer.kind = "challenge" -> ~inbound.tls /\ inbound.challenge
      [] answer.kind = "moved" ->
            \E r \in Owners(c.redirects, inbound.name) :
                /\ answer.to = r.target
                /\ r \notin Owners(c.redirects, answer.to)
                /\ DoubleSlash(answer.path) => DoubleSlash(r.path) \/ DoubleSlash(inbound.path)
      [] answer.kind = "unmatched" ->
            Owners(c.redirects, inbound.name) = {} /\ Owners(c.hosts, inbound.name) = {}
      [] OTHER ->
            /\ Owners(c.redirects, inbound.name) = {}
            /\ \E h \in Owners(c.hosts, inbound.name) :
                  /\ answer.kind # "https" /\ h.force => inbound.tls
                  /\ answer.kind \notin {"https", "maintenance"} /\ h.closed => inbound.exempt
                  /\ Grounds(h)

\* Whatever is saved while ServeHTTP is at work, one configuration published in
\* the meantime explains the whole answer: who answers for the name, that a host
\* which forces TLS asks for no credentials and serves nothing in the clear, that
\* nothing of a host in maintenance is served or prompted for but to the exempt,
\* that what reaches the cache or a backend passed every gate of that host, that
\* the backend is the deepest location's and gets the right path and headers, and
\* that a redirect sends nobody back to itself nor puts an empty segment between
\* the target's path and the request's.
AnsweredByOneTable == stage = "done" => \E c \in seen : Explains(c)
=============================================================================
