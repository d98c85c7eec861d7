------------------------------ MODULE Telemetry -----------------------------
(***************************************************************************)
(* What is kept of the traffic, and what a shutdown does to it: the counts *)
(* of metrics/collector.go with their flusher, the entries of              *)
(* accesslog/writer.go with their writer, and the order in which run of    *)
(* cmd/ponzproxy/main.go stops the listeners and waits for these and for   *)
(* the other background tasks.  One host.                                  *)
(*                                                                         *)
(* bytes stands for everything Record adds after the request itself.  An   *)
(* access log entry is only counted.  Pruning is left out.                 *)
(***************************************************************************)
EXTENDS Integers, Sequences, FiniteSets, Functions

CONSTANTS
    Hits,        \* request goroutines
    BufferSize,  \* bufferSize
    BatchSize,   \* batchSize
    MaxForgets,  \* bound: reloads without the host
    Tasks        \* the background tasks besides the flusher and the writer

ASSUME TelemetryAssumption ==
    /\ IsFiniteSet(Hits) /\ IsFiniteSet(Tasks) /\ MaxForgets \in Nat
    /\ BufferSize \in Nat \ {0} /\ BatchSize \in Nat \ {0}

VARIABLES
    phase,      \* run: serving, cancelled, draining, waiting, exited
    keeps,      \* what is kept of a request: a Collector is set, the host logs
    hit,        \* where each request is
    states,     \* every hostState made for the host; the last may be current
    current,    \* the one in Collector.hosts, 0 for none
    flusher,    \* Collector.Run and the flush it is at
    samples,    \* what WriteSamples has stored
    writer,     \* Writer.Run and its batch
    log,        \* Writer: entries queued, written, dropped
    tasks,      \* the other background tasks that have not returned
    past        \* what happened, for the properties

telemetryVars == <<phase, keeps, hit, states, current, flusher, samples, writer, log, tasks, past>>

Counted == [requests : Nat, bytes : Nat]
Nothing == [requests |-> 0, bytes |-> 0]

Plus(a, b) == [requests |-> a.requests + b.requests, bytes |-> a.bytes + b.bytes]
sub(a, b) == [requests |-> a.requests - b.requests, bytes |-> a.bytes - b.bytes]

NewState == [counters |-> Nothing, active |-> 0, flushAt |-> Nothing]

TelemetryInit ==
    /\ phase = "serving"
    /\ keeps \in SUBSET {"counts", "entries"}
    /\ hit = [r \in Hits |-> [pc |-> "new", state |-> 0]]
    /\ states = <<>>
    /\ current = 0
    /\ flusher = [pc |-> "select", read |-> 0, sample |-> Nothing, final |-> FALSE]
    /\ samples = Nothing
    /\ writer = [pc |-> "select", batch |-> 0, final |-> FALSE]
    /\ log = [queued |-> 0, written |-> 0, dropped |-> 0]
    /\ tasks = Tasks
    /\ past = [recorded |-> 0, late |-> 0, lost |-> Nothing, skipped |-> 0,
                  overlapped |-> {}, after |-> 0, broken |-> {}]

Cancelled == phase # "serving"
Alive == phase # "exited"

-----------------------------------------------------------------------------
\* A request.  state() finds the host's counters or makes them; it waits while
\* the flusher has the lock.  n is what the caller adds to active at once.
state(n) ==
    \/ /\ "counts" \in keeps /\ flusher.pc # "reading"
       /\ current' = IF current # 0 THEN current ELSE Len(states) + 1
       /\ states' = IF current # 0 THEN [states EXCEPT ![current].active = @ + n]
                    ELSE Append(states, [NewState EXCEPT !.active = n])
    \/ "counts" \notin keeps /\ UNCHANGED <<states, current>>

\* RequestStarted.  A listener takes requests until Shutdown closes it.
Begin(r) ==
    /\ phase \in {"serving", "cancelled"} /\ hit[r].pc = "new"
    /\ hit' = [hit EXCEPT ![r].pc = "served"]
    /\ state(1)
    /\ UNCHANGED <<phase, keeps, flusher, samples, writer, log, past, tasks>>

\* An answer whose body breaks off: ServeHTTP panics with http.ErrAbortHandler past
\* record and recordAccess, and only the deferred RequestFinished is left.
AnswerBreaks(r) ==
    /\ Alive /\ hit[r].pc = "served"
    /\ hit' = [hit EXCEPT ![r].pc = "ending"]
    /\ past' = [past EXCEPT !.broken = @ \cup {r}]
    /\ UNCHANGED <<phase, keeps, states, current, flusher, samples, writer, log, tasks>>

\* Record: the request first, the rest after it, without a lock.
RecordFind(r) ==
    /\ Alive /\ hit[r].pc = "served"
    /\ state(0)
    /\ hit' = [hit EXCEPT ![r] = [pc |-> IF "counts" \in keeps THEN "found" ELSE "entry", state |-> current']]
    /\ UNCHANGED <<phase, keeps, flusher, samples, writer, log, past, tasks>>

RecordRequest(r) ==
    /\ Alive /\ hit[r].pc = "found"
    /\ hit' = [hit EXCEPT ![r].pc = "counted"]
    /\ states' = [states EXCEPT ![hit[r].state].counters.requests = @ + 1]
    /\ past' = [past EXCEPT !.overlapped = IF flusher.pc = "reading" THEN @ \cup {r} ELSE @,
                                  !.after = IF flusher.final THEN @ + 1 ELSE @]
    /\ UNCHANGED <<phase, keeps, current, flusher, samples, writer, log, tasks>>

RecordBytes(r) ==
    /\ Alive /\ hit[r].pc = "counted"
    /\ hit' = [hit EXCEPT ![r].pc = "entry"]
    /\ states' = [states EXCEPT ![hit[r].state].counters.bytes = @ + 1]
    /\ UNCHANGED <<phase, keeps, current, flusher, samples, writer, log, past, tasks>>

\* recordAccess; Writer.Record never waits.
RecordEntry(r) ==
    LET fits == log.queued < BufferSize IN
    /\ Alive /\ hit[r].pc = "entry" /\ "entries" \in keeps
    /\ hit' = [hit EXCEPT ![r].pc = "ending"]
    /\ log' = IF fits THEN [log EXCEPT !.queued = @ + 1] ELSE [log EXCEPT !.dropped = @ + 1]
    /\ past' = [past EXCEPT !.recorded = @ + 1,
                                  !.late = IF fits /\ writer.final THEN @ + 1 ELSE @]
    /\ UNCHANGED <<phase, keeps, states, current, flusher, samples, writer, tasks>>

RecordNoEntry(r) ==
    /\ Alive /\ hit[r].pc = "entry" /\ "entries" \notin keeps
    /\ hit' = [hit EXCEPT ![r].pc = "ending"]
    /\ UNCHANGED <<phase, keeps, states, current, flusher, samples, writer, log, past, tasks>>

\* RequestFinished, deferred: of the counters the host has by then.
End(r) ==
    /\ Alive /\ hit[r].pc = "ending"
    /\ hit' = [hit EXCEPT ![r].pc = "done"]
    /\ state(-1)
    /\ UNCHANGED <<phase, keeps, flusher, samples, writer, log, past, tasks>>

\* A reload whose table has no route to the host.
Forget ==
    /\ Alive /\ current # 0 /\ flusher.pc # "reading" /\ Len(states) <= MaxForgets
    /\ current' = 0
    /\ UNCHANGED <<phase, keeps, hit, states, flusher, samples, writer, log, past, tasks>>

-----------------------------------------------------------------------------
\* Collector.Run: flush reads the requests, then the rest, and moves the
\* baseline; a host without new requests gives no sample.
Select(f) == [f EXCEPT !.pc = IF f.final THEN "done" ELSE "select"]

FlushBegin(final) ==
    LET f == [flusher EXCEPT !.final = final] IN
    /\ Alive /\ flusher.pc = "select"
    /\ final => Cancelled
    /\ flusher' = IF current = 0 THEN Select(f)
                  ELSE [f EXCEPT !.pc = "reading", !.read = states[current].counters.requests]
    /\ UNCHANGED <<phase, keeps, hit, states, current, samples, writer, log, past, tasks>>

\* Mutant: the baseline stays when there is no sample to write.
FlushReadStays ==
    LET st == states[current]
        now == [requests |-> flusher.read, bytes |-> st.counters.bytes]
        delta == sub(now, st.flushAt)
        idle == delta.requests = 0
    IN
    /\ Alive /\ flusher.pc = "reading"
    /\ states' = states
    /\ flusher' = IF idle THEN Select(flusher) ELSE [flusher EXCEPT !.pc = "writing", !.sample = delta]
    /\ past' = [past EXCEPT !.skipped = IF idle THEN @ + delta.bytes ELSE @,
                                  !.overlapped = @ \cup {r \in Hits : hit[r].pc = "counted"}]
    /\ UNCHANGED <<phase, keeps, hit, current, samples, writer, log, tasks>>

FlushRead ==
    LET st == states[current]
        now == [requests |-> flusher.read, bytes |-> st.counters.bytes]
        delta == sub(now, st.flushAt)
        idle == delta.requests = 0
    IN
    /\ Alive /\ flusher.pc = "reading"
    /\ states' = [states EXCEPT ![current].flushAt = now]
    /\ flusher' = IF idle THEN Select(flusher) ELSE [flusher EXCEPT !.pc = "writing", !.sample = delta]
    /\ past' = [past EXCEPT !.skipped = IF idle THEN @ + delta.bytes ELSE @,
                                  !.overlapped = @ \cup {r \in Hits : hit[r].pc = "counted"}]
    /\ UNCHANGED <<phase, keeps, hit, current, samples, writer, log, tasks>>

\* A write whose context is cancelled fails; the last one has a context of its own.
MaySucceed(final) == final \/ ~Cancelled

FlushWrite(ok) ==
    /\ Alive /\ flusher.pc = "writing" /\ (ok => MaySucceed(flusher.final))
    /\ samples' = IF ok THEN Plus(samples, flusher.sample) ELSE samples
    /\ past' = IF ok THEN past ELSE [past EXCEPT !.lost = Plus(@, flusher.sample)]
    /\ flusher' = [Select(flusher) EXCEPT !.sample = Nothing]
    /\ UNCHANGED <<phase, keeps, hit, states, current, writer, log, tasks>>

-----------------------------------------------------------------------------
\* Writer.Run.
Take ==
    /\ Alive /\ writer.pc = "select" /\ log.queued > 0
    /\ log' = [log EXCEPT !.queued = @ - 1]
    /\ writer' = [writer EXCEPT !.batch = @ + 1,
                                !.pc = IF writer.batch + 1 >= BatchSize THEN "flushing" ELSE "select"]
    /\ UNCHANGED <<phase, keeps, hit, states, current, flusher, samples, past, tasks>>

FlushTick ==
    /\ Alive /\ writer.pc = "select" /\ writer.batch > 0
    /\ writer' = [writer EXCEPT !.pc = "flushing"]
    /\ UNCHANGED <<phase, keeps, hit, states, current, flusher, samples, log, past, tasks>>

\* Mutant: the last batch is written without draining the queue.
DrainSkipped ==
    /\ Alive /\ writer.pc = "select" /\ Cancelled
    /\ writer' = [writer EXCEPT !.pc = "flushing", !.final = TRUE]
    /\ UNCHANGED <<phase, keeps, hit, states, current, flusher, samples, log, past, tasks>>

\* drain, then the last flush.
Drain ==
    /\ Alive /\ writer.pc = "select" /\ Cancelled
    /\ writer' = [pc |-> "flushing", batch |-> writer.batch + log.queued, final |-> TRUE]
    /\ log' = [log EXCEPT !.queued = 0]
    /\ UNCHANGED <<phase, keeps, hit, states, current, flusher, samples, past, tasks>>

WriteBatch(ok) ==
    /\ Alive /\ writer.pc = "flushing" /\ (ok => MaySucceed(writer.final))
    /\ log' = IF ok THEN [log EXCEPT !.written = @ + writer.batch]
              ELSE [log EXCEPT !.dropped = @ + writer.batch]
    /\ writer' = [Select(writer) EXCEPT !.batch = 0]
    /\ UNCHANGED <<phase, keeps, hit, states, current, flusher, samples, past, tasks>>

-----------------------------------------------------------------------------
\* The other tasks (certificates, alerts, backups, usage budgets, websocket): each
\* is a loop around a select on the context, which it may still be away from.
TaskStops(t) ==
    /\ Alive /\ Cancelled /\ t \in tasks
    /\ tasks' = tasks \ {t}
    /\ UNCHANGED <<phase, keeps, hit, states, current, flusher, samples, writer, log, past>>

-----------------------------------------------------------------------------
\* run.
Goto(from, to) ==
    /\ phase = from
    /\ phase' = to
    /\ UNCHANGED <<keeps, hit, states, current, flusher, samples, writer, log, past, tasks>>

Signal == Goto("serving", "cancelled")

\* A listener fails: run returns at once, and the process ends.
ListenerFails == Goto("serving", "exited")

Shutdown == Goto("cancelled", "draining")

InFlight == {r \in Hits : hit[r].pc \notin {"new", "done"}}

Drained == InFlight = {} /\ Goto("draining", "waiting")

\* The 20 seconds are over: the requests that are left go on until the exit.
ShutdownDeadline == Goto("draining", "waiting")

\* Mutant: run waits for the requests that are left as well.
WaitForAll ==
    /\ flusher.pc = "done" /\ writer.pc = "done" /\ tasks = {} /\ InFlight = {}
    /\ Goto("waiting", "exited")

\* background.Wait.
Wait == flusher.pc = "done" /\ writer.pc = "done" /\ tasks = {} /\ Goto("waiting", "exited")

FlusherStep ==
    \/ FlushBegin(FALSE) \/ FlushBegin(TRUE) \/ FlushRead
    \/ \E ok \in BOOLEAN : FlushWrite(ok)

WriterStep ==
    \/ Take \/ FlushTick \/ Drain
    \/ \E ok \in BOOLEAN : WriteBatch(ok)

TelemetryNext ==
    \/ \E r \in Hits :
          \/ Begin(r) \/ AnswerBreaks(r) \/ RecordFind(r) \/ RecordRequest(r)
          \/ RecordBytes(r) \/ RecordEntry(r) \/ RecordNoEntry(r) \/ End(r)
    \/ Forget
    \/ FlusherStep \/ WriterStep \/ \E t \in Tasks : TaskStops(t)
    \/ Signal \/ ListenerFails \/ Shutdown \/ Drained \/ ShutdownDeadline \/ Wait

\* The background goroutines and run are scheduled, and a select does not pass
\* over a cancelled context for ever; what keeps another task from its select takes
\* the context or has a timeout; the deadline needs no request to end.
TelemetryFairness ==
    /\ WF_telemetryVars(FlusherStep) /\ SF_telemetryVars(FlushBegin(TRUE))
    /\ WF_telemetryVars(WriterStep) /\ SF_telemetryVars(Drain)
    /\ \A t \in Tasks : WF_telemetryVars(TaskStops(t))
    /\ WF_telemetryVars(Shutdown) /\ WF_telemetryVars(ShutdownDeadline) /\ WF_telemetryVars(Wait)

TelemetrySpec == TelemetryInit /\ [][TelemetryNext]_telemetryVars /\ TelemetryFairness

-----------------------------------------------------------------------------
\* Properties.

\* No entry leaves the counts: each one recorded is queued, held, written or
\* counted as dropped, which is what lets Stats "show that a history is
\* incomplete" (writer.go:80-81), and what the writer leaves behind at its end
\* was recorded after it had drained the queue.
EntriesAccounted ==
    /\ past.recorded = log.queued + writer.batch + log.written + log.dropped
    /\ log.queued <= BufferSize
    /\ writer.final \/ writer.batch <= BatchSize
    /\ writer.pc = "done" => writer.batch = 0 /\ log.queued = past.late

OverStates(value(_)) == SumFunction([i \in DOMAIN states |-> value(states[i])])

\* No request is in two samples, and of those whose answer did not break off
\* (which are in none) none is missing but those of a failed write and of forgotten
\* counters; the bytes of a request that a flush came in the midst of may be.
\* After the last flush only later requests are unsampled.  However the counters
\* come and go, and answers break off, the gauges of active requests add up.
SamplesConserved ==
    /\ OverStates(LAMBDA st : st.flushAt.requests)
          = samples.requests + flusher.sample.requests + past.lost.requests
    /\ OverStates(LAMBDA st : st.flushAt.bytes)
          = samples.bytes + flusher.sample.bytes + past.lost.bytes + past.skipped
    /\ "counts" \in keeps => OverStates(LAMBDA st : st.counters.requests)
          = Cardinality({r \in Hits \ past.broken : hit[r].pc \notin {"new", "served", "found"}})
    /\ past.skipped <= Cardinality(past.overlapped)
    /\ flusher.pc = "done" /\ current # 0 =>
          states[current].counters.requests - states[current].flushAt.requests <= past.after
    /\ "counts" \in keeps => OverStates(LAMBDA st : st.active) = Cardinality(InFlight)

\* A signal ends the process, however long requests and writes take.
ShutdownCompletes == phase = "cancelled" ~> phase = "exited"
=============================================================================
