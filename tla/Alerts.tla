------------------------------- MODULE Alerts -------------------------------
(***************************************************************************)
(* internal/alerts: the dispatcher that tells each channel what it wants   *)
(* to know, no more often than it asked for, and the usage watcher that    *)
(* raises a host's traffic budget.  An alert is what it is about: its      *)
(* event and subject.  Time stands still while a webhook is posted to, and *)
(* what is remembered of a delivery (RecordDelivery, Test) is left out.    *)
(***************************************************************************)
EXTENDS Integers, Sequences, FiniteSets

CONSTANTS
    Channels,    \* channels, which deliver goes through in the order of 1 .. n
    Subjects,    \* what the rest of the proxy raises
    Intervals,   \* MinInterval values, in ticks
    QueueSize,   \* queueSize
    Attempts,    \* attempts
    Day,         \* 24 hours: usageRepeat, and what the sweep keeps
    Admins,      \* API calls that edit a channel, each once
    MaxRaised,   \* bound: alerts raised
    LastTick     \* bound: the last tick

Usage == "usage"
Never == -1

\* domain.AlertChannel.Validate limits MinInterval to a day.  Without a channel
\* deliver has nothing to do.
ASSUME AlertsAssumption ==
    /\ Channels \in Nat \ {0}
    /\ Usage \notin Subjects
    /\ Day \in Nat \ {0} /\ Intervals \subseteq 1 .. Day /\ Intervals # {}
    /\ QueueSize \in Nat \ {0} /\ Attempts \in Nat \ {0}
    /\ "run" \notin Admins /\ MaxRaised \in Nat /\ LastTick \in Nat

Keys == (1 .. Channels) \X (Subjects \cup {Usage})
Channel == [enabled : BOOLEAN, interval : Intervals]

VARIABLES
    tick,       \* the clock
    stored,     \* the channels in the database
    reading,    \* where each call of Reload is, with what it has listed
    loaded,     \* Dispatcher.channels
    queue,      \* Dispatcher.queue
    delivery,   \* deliver's local variables
    throttle,   \* Dispatcher.throttle
    budget,     \* the host: under or over its budget, or without; UsageWatcher.lastAlert
    lastTold    \* history: when each channel was last told of what

alertVars == <<tick, stored, reading, loaded, queue, delivery, throttle, budget, lastTold>>

Reloaders == Admins \cup {"run"}
Resting == [pc |-> "select", about |-> Usage, channels |-> <<>>, at |-> 0, next |-> 1, attempt |-> 0]

AlertsInit ==
    /\ tick = 0
    /\ stored \in [1 .. Channels -> Channel]
    /\ reading = [x \in Reloaders |-> <<"idle">>]
    /\ loaded = stored
    /\ queue = <<>>
    /\ delivery = Resting
    /\ throttle = [k \in Keys |-> Never]
    /\ budget = [is |-> "under", last |-> Never, raised |-> 0]
    /\ lastTold = [k \in Keys |-> Never]

-----------------------------------------------------------------------------
\* Raise never waits: a full queue drops the alert.
Queued(s) == IF Len(queue) < QueueSize THEN Append(queue, s) ELSE queue

Raise(s) ==
    /\ budget.raised < MaxRaised
    /\ queue' = Queued(s)
    /\ budget' = [budget EXCEPT !.raised = @ + 1]
    /\ UNCHANGED <<tick, stored, reading, loaded, delivery, throttle, lastTold>>

\* An operator edits a channel; the API then calls Reload.
EditChannel(a, c, new) ==
    /\ reading[a] = <<"idle">> /\ stored[c] # new
    /\ stored' = [stored EXCEPT ![c] = new]
    /\ reading' = [reading EXCEPT ![a] = <<"list">>]
    /\ UNCHANGED <<tick, loaded, queue, delivery, throttle, budget, lastTold>>

RunFree == delivery.pc = "select" /\ reading["run"] = <<"idle">>

MayList(x) == IF x = "run" THEN RunFree ELSE reading[x] = <<"list">>

\* Mutant: Run loads the channels only at its start.
ReloadListOnEdit(x) ==
    /\ x # "run" /\ MayList(x)
    /\ reading' = [reading EXCEPT ![x] = <<"store", stored>>]
    /\ UNCHANGED <<tick, stored, loaded, queue, delivery, throttle, budget, lastTold>>

\* Reload lists the channels and publishes the list: two steps, which the API's
\* and Run's own may take in any order.
ReloadList(x) ==
    /\ MayList(x)
    /\ reading' = [reading EXCEPT ![x] = <<"store", stored>>]
    /\ UNCHANGED <<tick, stored, loaded, queue, delivery, throttle, budget, lastTold>>

ReloadStore(x) ==
    /\ Len(reading[x]) = 2
    /\ loaded' = reading[x][2]
    /\ reading' = [reading EXCEPT ![x] = <<IF x = "run" THEN "idle" ELSE "done">>]
    /\ UNCHANGED <<tick, stored, queue, delivery, throttle, budget, lastTold>>

-----------------------------------------------------------------------------
\* Run takes an alert; deliver goes through the channels as they were then.
Deliver ==
    /\ RunFree /\ queue # <<>>
    /\ delivery' = [Resting EXCEPT !.pc = "channel", !.about = Head(queue), !.channels = loaded, !.at = tick]
    /\ queue' = Tail(queue)
    /\ UNCHANGED <<tick, stored, reading, loaded, throttle, budget, lastTold>>

\* Mutant: the key leaves out what the alert is about.
throttleKeyBroad(c, s) == <<c, Usage>>

throttleKey(c, s) == <<c, s>>

Throttled(c, d) ==
    LET last == throttle[throttleKey(c, d.about)]
    IN  last # Never /\ d.at - last < d.channels[c].interval

NextChannel(d) ==
    IF d.next < Channels THEN [d EXCEPT !.pc = "channel", !.next = @ + 1, !.attempt = 0] ELSE Resting

\* A channel that does not want the alert, or had it recently, is passed over.
Skip ==
    LET c == delivery.next IN
    /\ delivery.pc = "channel"
    /\ ~delivery.channels[c].enabled \/ Throttled(c, delivery)
    /\ delivery' = NextChannel(delivery)
    /\ UNCHANGED <<tick, stored, reading, loaded, queue, throttle, budget, lastTold>>

\* The send is noted before it is tried.
Admit ==
    LET c == delivery.next IN
    /\ delivery.pc = "channel"
    /\ delivery.channels[c].enabled /\ ~Throttled(c, delivery)
    /\ throttle' = [throttle EXCEPT ![throttleKey(c, delivery.about)] = delivery.at]
    /\ lastTold' = [lastTold EXCEPT ![<<c, delivery.about>>] = delivery.at]
    /\ delivery' = [delivery EXCEPT !.pc = "post"]
    /\ UNCHANGED <<tick, stored, reading, loaded, queue, budget>>

\* post: tried again after a failure, attempts times in all.
Post(ok) ==
    /\ delivery.pc = "post"
    /\ delivery' = IF ok \/ delivery.attempt + 1 = Attempts THEN NextChannel(delivery)
                   ELSE [delivery EXCEPT !.attempt = @ + 1]
    /\ UNCHANGED <<tick, stored, reading, loaded, queue, throttle, budget, lastTold>>

sweepThrottle ==
    /\ RunFree
    /\ throttle' = [k \in Keys |-> IF throttle[k] < tick - Day THEN Never ELSE throttle[k]]
    /\ UNCHANGED <<tick, stored, reading, loaded, queue, delivery, budget, lastTold>>

-----------------------------------------------------------------------------
\* UsageWatcher.check: back under is forgotten; over is raised once a day; a host
\* without a budget is not looked at.
Check ==
    /\ \/ /\ budget.is = "under"
          /\ budget' = [budget EXCEPT !.last = Never]
          /\ queue' = queue
       \/ /\ budget.is = "over" /\ (budget.last = Never \/ tick - budget.last >= Day)
          /\ budget' = [budget EXCEPT !.last = tick]
          /\ queue' = Queued(Usage)
    /\ UNCHANGED <<tick, stored, reading, loaded, delivery, throttle, lastTold>>

\* Traffic moves the host over or under its budget; its operator switches it.
Traffic ==
    /\ budget' \in {[budget EXCEPT !.is = to] : to \in {"under", "over", "off"}}
    /\ UNCHANGED <<tick, stored, reading, loaded, queue, delivery, throttle, lastTold>>

AlertsTick ==
    /\ tick < LastTick /\ delivery.pc # "post"
    /\ tick' = tick + 1
    /\ UNCHANGED <<stored, reading, loaded, queue, delivery, throttle, budget, lastTold>>

AlertsNext ==
    \/ \E s \in Subjects : Raise(s)
    \/ \E a \in Admins, c \in 1 .. Channels, new \in Channel : EditChannel(a, c, new)
    \/ \E x \in Reloaders : ReloadList(x) \/ ReloadStore(x)
    \/ Deliver \/ Skip \/ Admit \/ \E ok \in BOOLEAN : Post(ok)
    \/ sweepThrottle \/ Check \/ Traffic \/ AlertsTick

\* Run's goroutine is scheduled, its reload ticker fires, and a webhook call ends.
AlertsFairness ==
    /\ \A x \in Reloaders : WF_alertVars(ReloadStore(x))
    /\ \A a \in Admins : WF_alertVars(ReloadList(a))
    /\ SF_alertVars(ReloadList("run"))
    /\ WF_alertVars(Skip \/ Admit \/ \E ok \in BOOLEAN : Post(ok))

AlertsSpec == AlertsInit /\ [][AlertsNext]_alertVars /\ AlertsFairness

-----------------------------------------------------------------------------
\* Properties.

\* A channel is told of one thing at most once in its MinInterval, also across
\* sweeps and edits, and is passed over only for having been told of that very
\* thing: "one flapping backend cannot suppress alerts about a different one"
\* (dispatcher.go:171).
ThrottleHolds ==
    [][LET c == delivery.next
           last == lastTold[<<c, delivery.about>>]
           recent == last # Never /\ delivery.at - last < delivery.channels[c].interval
       IN  /\ Admit => ~recent
           /\ Skip /\ delivery.channels[c].enabled => recent]_alertVars

\* An edit reaches the dispatcher although an older list may be published over
\* it: Run reads the channels again.
EditsReachDispatcher == <>[](loaded = stored)
=============================================================================
