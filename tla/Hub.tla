-------------------------------- MODULE Hub ---------------------------------
(***************************************************************************)
(* internal/api/ws/hub.go: the live feed to the dashboards.  Run, and for  *)
(* every client the request that registers it, its writeLoop and its       *)
(* readLoop, share the map of clients and each client's send channel; each *)
(* lock's section is one step, and close of a closed client does nothing.  *)
(* What a payload says is left out.                                        *)
(***************************************************************************)
EXTENDS Integers, FiniteSets

CONSTANTS
    Clients,     \* dashboards
    SendBuffer   \* the buffer of client.send

ASSUME HubAssumption == IsFiniteSet(Clients) /\ SendBuffer \in Nat \ {0}

VARIABLES
    hub,        \* Run: its step, the clients it has still to go through, the one it drops
    clients,    \* Hub.clients
    client,     \* each client: closed, payloads in send, the browser there
    worker      \* what each client's goroutines are at

hubVars == <<hub, clients, client, worker>>

Loops == {"open", "write", "read"}

HubInit ==
    /\ hub = [pc |-> "select", targets |-> {}, slow |-> {}]
    /\ clients = {}
    /\ client = [c \in Clients |-> [closed |-> FALSE, send |-> 0, there |-> TRUE]]
    /\ worker = [c \in Clients |-> [l \in Loops |-> IF l = "open" THEN "register" ELSE "none"]]

-----------------------------------------------------------------------------
CanSend(c) == ~client[c].closed /\ client[c].send < SendBuffer

trySend(c) == client' = IF CanSend(c) THEN [client EXCEPT ![c].send = @ + 1] ELSE client

close(c) == client' = [client EXCEPT ![c].closed = TRUE]

\* ServeHTTP: the upgrade, then the first payload; the loops run from then on.
Register(c) ==
    /\ worker[c]["open"] = "register"
    /\ clients' = clients \cup {c}
    /\ worker' = [worker EXCEPT ![c] = [l \in Loops |-> IF l = "open" THEN "first" ELSE "loop"]]
    /\ UNCHANGED <<hub, client>>

FirstSend(c) ==
    /\ worker[c]["open"] = "first"
    /\ trySend(c)
    /\ worker' = [worker EXCEPT ![c]["open"] = "over"]
    /\ UNCHANGED <<hub, clients>>

-----------------------------------------------------------------------------
\* A browser leaves.
Leave(c) ==
    /\ client[c].there /\ worker[c]["open"] # "register"
    /\ client' = [client EXCEPT ![c].there = FALSE]
    /\ UNCHANGED <<hub, clients, worker>>

Lost(c) == client[c].closed \/ ~client[c].there

\* writeLoop: a payload is written, the closed channel ends the loop, and a ping
\* finds out about a lost connection.
WriteNext(c) ==
    /\ worker[c]["write"] = "loop" /\ client[c].send > 0
    /\ client' = [client EXCEPT ![c].send = @ - 1]
    /\ worker' = IF Lost(c) THEN [worker EXCEPT ![c]["write"] = "remove"] ELSE worker
    /\ UNCHANGED <<hub, clients>>

WriteEnds(c) ==
    /\ worker[c]["write"] = "loop" /\ Lost(c)
    /\ worker' = [worker EXCEPT ![c]["write"] = "remove"]
    /\ UNCHANGED <<hub, clients, client>>

\* readLoop: a read fails once the connection is closed or silent for pongWait.
ReadEnds(c) ==
    /\ worker[c]["read"] = "loop" /\ Lost(c)
    /\ worker' = [worker EXCEPT ![c]["read"] = "remove"]
    /\ UNCHANGED <<hub, clients, client>>

\* remove, deferred: who takes the client out of the map closes it.
LoopRemoves(c, l) ==
    /\ worker[c][l] = "remove"
    /\ clients' = clients \ {c}
    /\ worker' = [worker EXCEPT ![c][l] = IF c \in clients THEN "close" ELSE "over"]
    /\ UNCHANGED <<hub, client>>

LoopCloses(c, l) ==
    /\ worker[c][l] = "close"
    /\ close(c)
    /\ worker' = [worker EXCEPT ![c][l] = "over"]
    /\ UNCHANGED <<hub, clients>>

-----------------------------------------------------------------------------
\* Run: a tick broadcasts to the clients of that moment, one after the other; one
\* that cannot take the payload is removed.
Broadcast ==
    /\ hub.pc = "select" /\ clients # {}
    /\ hub' = [hub EXCEPT !.pc = "sending", !.targets = clients]
    /\ UNCHANGED <<clients, client, worker>>

Onward(h) == [h EXCEPT !.pc = IF h.targets = {} THEN "select" ELSE "sending"]

BroadcastSend(c) ==
    LET h == [hub EXCEPT !.targets = @ \ {c}] IN
    /\ hub.pc = "sending" /\ c \in hub.targets
    /\ trySend(c)
    /\ hub' = IF CanSend(c) THEN Onward(h) ELSE [h EXCEPT !.pc = "remove", !.slow = {c}]
    /\ UNCHANGED <<clients, worker>>

\* Mutant: the hub takes a slow client out of the map and leaves it open.
BroadcastDrop ==
    /\ hub.pc = "remove"
    /\ clients' = clients \ hub.slow
    /\ hub' = Onward(hub)
    /\ UNCHANGED <<client, worker>>

BroadcastRemove ==
    /\ hub.pc = "remove"
    /\ clients' = clients \ hub.slow
    /\ hub' = IF hub.slow \subseteq clients THEN [hub EXCEPT !.pc = "close"] ELSE Onward(hub)
    /\ UNCHANGED <<client, worker>>

BroadcastClose ==
    /\ hub.pc = "close"
    /\ \E c \in hub.slow : close(c)
    /\ hub' = [Onward(hub) EXCEPT !.slow = {}]
    /\ UNCHANGED <<clients, worker>>

\* The context is cancelled: closeAll takes the map, then closes its clients.
CloseAll ==
    /\ hub.pc = "select"
    /\ hub' = [pc |-> "closeAll", targets |-> clients, slow |-> {}]
    /\ clients' = {}
    /\ UNCHANGED <<client, worker>>

CloseEach(c) ==
    /\ hub.pc = "closeAll" /\ c \in hub.targets
    /\ close(c)
    /\ hub' = [hub EXCEPT !.targets = @ \ {c}]
    /\ UNCHANGED <<clients, worker>>

HubStep ==
    \/ Broadcast \/ BroadcastRemove \/ BroadcastClose
    \/ \E c \in Clients : BroadcastSend(c) \/ CloseEach(c)

LoopStep(c, l) ==
    \/ l = "write" /\ (WriteNext(c) \/ WriteEnds(c))
    \/ l = "read" /\ ReadEnds(c)
    \/ LoopRemoves(c, l) \/ LoopCloses(c, l)

HubNext ==
    \/ HubStep \/ CloseAll
    \/ \E c \in Clients :
          \/ Register(c) \/ FirstSend(c) \/ Leave(c)
          \/ \E l \in Loops : LoopStep(c, l)

\* Run and the loops are scheduled: writes, pings and reads have deadlines.
\* Nothing makes a browser come or go, or the process stop.
HubFairness ==
    /\ WF_hubVars(HubStep)
    /\ \A c \in Clients : WF_hubVars(FirstSend(c)) /\ \A l \in Loops : WF_hubVars(LoopStep(c, l))

HubSpec == HubInit /\ [][HubNext]_hubVars /\ HubFairness

-----------------------------------------------------------------------------
\* Properties.

Released(c) == c \notin clients /\ client[c].closed /\ \A l \in Loops : worker[c][l] = "over"

\* A dashboard that is gone, that was dropped or that the hub held when it stopped
\* is released: out of the map, its connection closed, its goroutines over,
\* whichever of the loops, the broadcast and closeAll notices first.
HubReleases ==
    \A c \in Clients :
        (~client[c].there \/ c \in hub.slow \/ (hub.pc = "closeAll" /\ c \in hub.targets)) ~> Released(c)
=============================================================================
