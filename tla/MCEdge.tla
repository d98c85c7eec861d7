------------------------------- MODULE MCEdge -------------------------------
(***************************************************************************)
(* Parts of the data plane for TLC: the response writers, the cache's      *)
(* policy, the access lists, the selectors, the health checker over two    *)
(* backends, a request's way through the gates, and what is kept of the    *)
(* traffic and told of it.  They share no state, so one run checks them    *)
(* side by side: a behaviour is about one of them and the others rest.     *)
(***************************************************************************)
EXTENDS MCChecker, MCAuth, Responses, Policy, Selectors, Telemetry, Alerts, Routing

VARIABLE about

\* One backend or two.
OneOrBoth == Single \cup Both

Parts == {"checker", "responses", "policy", "access", "selectors", "telemetry", "alerts",
          "routing"}

\* Backends of three weights.
Weights == <<3, 2, 1>>

\* A response that says nothing of caching, a request that says nothing at all, and
\* those that say one thing or two.
Plain == [cc |-> {}, pragma |-> FALSE, maxAge |-> Absent, sMaxAge |-> Absent, expires |-> Absent,
          cookie |-> FALSE, vary |-> {}, prefers |-> Identity, compress |-> FALSE]

Said(p) == Cardinality(p.cc) + Cardinality({f \in DOMAIN Plain \ {"cc"} : p[f] # Plain[f]})

PlainAsk == [method |-> "GET", credentials |-> FALSE, cc |-> "", accepts |-> {}, refuses |-> {},
             range |-> FALSE]

SomeAsked == {q \in PolicyRequest : Cardinality({f \in DOMAIN PlainAsk : q[f] # PlainAsk[f]}) <= 2}

\* An open host of one name, and what an operator may make of it.
Name == <<"a", "b", "c">>
Wild == <<"*", "b", "c">>
Other == <<"d", "b", "c">>
Api == <<"/", "api">>

Open == [id |-> 1, enabled |-> TRUE, domains |-> {Name}, force |-> FALSE, certificate |-> FALSE,
         closed |-> FALSE, limited |-> FALSE, list |-> FALSE, guardian |-> "off",
         websocket |-> TRUE, cache |-> FALSE, preserve |-> FALSE, rules |-> <<>>,
         locations |-> <<>>]

Set(name, value) == [name |-> name, value |-> value, remove |-> FALSE]
Drop(name) == [name |-> name, value |-> "", remove |-> TRUE]
At(path, strip, rules) == [path |-> path, strip |-> strip, rules |-> rules]

SomeHosts ==
    {Open,
     [Open EXCEPT !.enabled = FALSE],
     [Open EXCEPT !.force = TRUE],
     [Open EXCEPT !.force = TRUE, !.certificate = TRUE, !.list = TRUE],
     [Open EXCEPT !.closed = TRUE, !.list = TRUE, !.limited = TRUE],
     [Open EXCEPT !.guardian = "block", !.websocket = FALSE, !.cache = TRUE],
     [Open EXCEPT !.guardian = "detect", !.list = TRUE, !.preserve = TRUE,
                  !.rules = <<Set("X", "host"), Drop(ForwardedFor)>>,
                  !.locations = <<At(Api \o <<"/">>, TRUE, <<Drop("X")>>),
                                  At(<<"api", "/", "v1">>, FALSE, <<Set("X", "deep")>>)>>],
     [Open EXCEPT !.locations = <<At(Api, TRUE, <<>>), At(Api \o <<"/">>, FALSE, <<>>)>>],
     [Open EXCEPT !.locations = <<At(<<"/">>, FALSE, <<>>)>>],
     [Open EXCEPT !.id = 2, !.domains = {Wild}]}

\* Redirects to a name of the same parent, and away from it.
Elsewhere(id, domains, target) ==
    [id |-> id, enabled |-> TRUE, domains |-> domains, target |-> target,
     path |-> <<"/", "app", "/">>, preserve |-> TRUE]

SomeRedirects ==
    {Elsewhere(1, {Other}, Name), Elsewhere(1, {Wild}, Other),
     [Elsewhere(1, {Wild}, <<"w", "x", "y">>) EXCEPT !.preserve = FALSE]}

\* Requests that differ from a plain one in one way, or come in the clear and ask
\* for a challenge or bring no credentials.
PlainRequest ==
    [name |-> Name, path |-> Api \o <<"/", "v1">>, tls |-> TRUE, challenge |-> FALSE,
     exempt |-> FALSE, access |-> "granted", matched |-> FALSE, upgrade |-> FALSE,
     headers |-> ("X" :> "client") @@ (ForwardedFor :> "client")]

SomeRequests ==
    {[PlainRequest EXCEPT !.name = n] : n \in {Name, Other, <<"c">>}}
        \cup {[PlainRequest EXCEPT !.path = p] : p \in {<<"/">>, <<"*">>, Api, Api \o <<"ary">>}}
        \cup {[PlainRequest EXCEPT !.tls = FALSE, !.access = a] : a \in {"granted", "prompt"}}
        \cup {[PlainRequest EXCEPT !.tls = t, !.challenge = TRUE] : t \in BOOLEAN}
        \cup {[PlainRequest EXCEPT !.access = a] : a \in {"forbidden", "prompt"}}
        \cup {[PlainRequest EXCEPT !.exempt = TRUE], [PlainRequest EXCEPT !.matched = TRUE],
              [PlainRequest EXCEPT !.upgrade = TRUE]}

\* Only the part a behaviour is about starts in more than one way.  The page says
\* at most two things of its caching; a request keeps its counts or its entry,
\* which are independent; channels start enabled with the longer interval.
EdgeInit ==
    /\ about \in Parts
    /\ Init
    /\ ResponsesInit /\ (about # "responses" => stack.compress /\ stack.capture)
    /\ AuthInit /\ (about # "access" => list.users = {})
    /\ SelectorsInit /\ (about # "selectors" => algorithm = "round_robin")
    /\ TelemetryInit /\ Cardinality(keeps) = 1 /\ (about # "telemetry" => "counts" \in keeps)
    /\ AlertsInit /\ \A c \in 1 .. Channels : stored[c] = [enabled |-> TRUE, interval |-> Day]
    /\ RoutingInit
    /\ (about # "policy" => page = Plain) /\ PolicyInit /\ Said(page) <= 2

edgeVars == <<vars, responseVars, policyVars, authVars, selectorVars, telemetryVars, alertVars,
              routingVars>>

EdgeNext ==
    /\ UNCHANGED about
    /\ \/ /\ about = "checker" /\ Next
          /\ UNCHANGED <<responseVars, policyVars, authVars, selectorVars,
                        telemetryVars, alertVars, routingVars>>
       \/ /\ about = "responses" /\ ResponsesNext
          /\ UNCHANGED <<vars, policyVars, authVars, selectorVars,
                        telemetryVars, alertVars, routingVars>>
       \/ /\ about = "policy" /\ PolicyNext
          /\ UNCHANGED <<vars, responseVars, authVars, selectorVars,
                        telemetryVars, alertVars, routingVars>>
       \/ /\ about = "access" /\ AuthNext
          /\ UNCHANGED <<vars, responseVars, policyVars, selectorVars,
                        telemetryVars, alertVars, routingVars>>
       \/ /\ about = "selectors" /\ SelectorsNext
          /\ UNCHANGED <<vars, responseVars, policyVars, authVars,
                        telemetryVars, alertVars, routingVars>>
       \/ /\ about = "telemetry" /\ TelemetryNext
          /\ UNCHANGED <<vars, responseVars, policyVars, authVars,
                        selectorVars, alertVars, routingVars>>
       \/ /\ about = "alerts" /\ AlertsNext
          /\ UNCHANGED <<vars, responseVars, policyVars, authVars,
                        selectorVars, telemetryVars, routingVars>>
       \/ /\ about = "routing" /\ RoutingNext
          /\ UNCHANGED <<vars, responseVars, policyVars, authVars,
                        selectorVars, telemetryVars, alertVars>>

EdgeSpec == EdgeInit /\ [][EdgeNext]_<<about, edgeVars>>

\* A reload is checked with one backend; a host is forgotten while the proxy serves;
\* a channel is edited while the host is within its budget, and by two operators at
\* once before anything is raised.
Editing == {a \in Admins : reading[a] # <<"idle">>}

Scope ==
    /\ Len(pools) = 1 \/ \A g \in DOMAIN pools : u2 \notin DOMAIN pools[g]
    /\ Len(states) = 2 \/ (Len(states) = 1 /\ current = 0) => phase = "serving"
    /\ Editing # {} => budget.is = "under" /\ budget.last = Never
    /\ Cardinality(Editing) = 2 => tick = 0 /\ budget.raised = 0
=============================================================================
