------------------------------- MODULE Login --------------------------------
(***************************************************************************)
(* Sign-in and its throttle: handleLogin of internal/api/auth.go over the  *)
(* loginLimiter of internal/api/ratelimit.go.                              *)
(*                                                                         *)
(* The limiter is asked before the password is compared and told           *)
(* afterwards, and it reads the clock before it takes its lock, so any     *)
(* number of attempts can be between the two.  Each call of the clock and  *)
(* each critical section is a step.  Whether a password is right is a free *)
(* choice of the attempt.                                                  *)
(***************************************************************************)
EXTENDS Integers, FiniteSets

CONSTANTS
    Sources,      \* remote addresses (limiterKey)
    Attempts,     \* sign-in requests in flight
    LoginBurst, LoginWindow, LoginBlock,   \* loginBurst, loginWindow, loginBlock
    MaxClock      \* bound: the clock

ASSUME LoginAssumption ==
    /\ LoginBurst \in Nat \ {0, 1}
    /\ LoginWindow \in Nat \ {0}
    /\ LoginBlock \in Nat \ {0}
    /\ MaxClock \in Nat
    /\ IsFiniteSet(Attempts)

VARIABLES
    clock,
    entries,      \* loginLimiter.entries; a source without a record has Nothing
    attempt,      \* local variables of each handleLogin
    sweepAt,      \* sweep's now, NotSweeping outside it
    promised,     \* history: until when a source that used up its burst is to be refused
    lifted        \* history: sources whose block a late answer ended

loginVars == <<clock, entries, attempt, sweepAt, promised, lifted>>

NotSweeping == -1
Times == 0 .. MaxClock
Nothing == [failures |-> 0, first |-> 0, blockedUntil |-> 0]
LoginRecord == [failures : Nat, first : Times, blockedUntil : 0 .. MaxClock + LoginBlock]

\* pc: before allow's lock, comparing the password, before recordFailure's lock.
Attempt == [pc : {"idle", "asking", "comparing", "failing"}, source : Sources, at : Times]

LoginInit ==
    /\ clock = 0
    /\ entries = [s \in Sources |-> Nothing]
    /\ attempt \in [Attempts -> [pc : {"idle"}, source : Sources, at : {0}]]
    /\ sweepAt = NotSweeping
    /\ promised = [s \in Sources |-> 0]
    /\ lifted = {}

Found(s) == entries[s].failures > 0
Blocked(s) == entries[s].blockedUntil > 0

-----------------------------------------------------------------------------
LoginTick ==
    /\ clock < MaxClock
    /\ clock' = clock + 1
    /\ UNCHANGED <<entries, attempt, sweepAt, promised, lifted>>

\* handleLogin enters allow and reads the clock.
Ask(a) ==
    /\ attempt[a].pc = "idle"
    /\ attempt' = [attempt EXCEPT ![a].pc = "asking", ![a].at = clock]
    /\ UNCHANGED <<clock, entries, sweepAt, promised, lifted>>

\* allow under the lock: refused while the block lasts; an expired block is
\* forgotten with its failures.
Allow(a) ==
    LET s == attempt[a].source IN
    /\ attempt[a].pc = "asking"
    /\ IF attempt[a].at < entries[s].blockedUntil
       THEN /\ attempt' = [attempt EXCEPT ![a].pc = "idle", ![a].at = 0]
            /\ UNCHANGED entries
       ELSE /\ attempt' = [attempt EXCEPT ![a].pc = "comparing"]
            /\ entries' = IF Blocked(s) THEN [entries EXCEPT ![s] = Nothing] ELSE entries
    /\ UNCHANGED <<clock, sweepAt, promised, lifted>>

\* The body does not decode, or the database errs: neither outcome is recorded.
GiveUp(a) ==
    /\ attempt[a].pc = "comparing"
    /\ attempt' = [attempt EXCEPT ![a].pc = "idle", ![a].at = 0]
    /\ UNCHANGED <<clock, entries, sweepAt, promised, lifted>>

\* The right password: recordSuccess, issueToken, TouchLogin.
recordSuccess(a) ==
    LET s == attempt[a].source IN
    /\ attempt[a].pc = "comparing"
    /\ entries' = [entries EXCEPT ![s] = Nothing]
    /\ promised' = [promised EXCEPT ![s] = 0]
    /\ attempt' = [attempt EXCEPT ![a].pc = "idle", ![a].at = 0]
    /\ UNCHANGED <<clock, sweepAt, lifted>>

\* The wrong password: recordFailure reads the clock.
Mismatch(a) ==
    /\ attempt[a].pc = "comparing"
    /\ attempt' = [attempt EXCEPT ![a].pc = "failing", ![a].at = clock]
    /\ UNCHANGED <<clock, entries, sweepAt, promised, lifted>>

\* A failure starts a record of its own.
FreshWindow(s, now) == ~Found(s) \/ now - entries[s].first > LoginWindow

\* recordFailure under the lock.
recordFailure(a) ==
    LET s == attempt[a].source
        now == attempt[a].at
        n == entries[s].failures + 1
    IN
    /\ attempt[a].pc = "failing"
    /\ IF FreshWindow(s, now)
       THEN /\ entries' = [entries EXCEPT ![s] = [failures |-> 1, first |-> now, blockedUntil |-> 0]]
            /\ lifted' = IF Blocked(s) THEN lifted \cup {s} ELSE lifted
            /\ UNCHANGED promised
       ELSE /\ entries' = [entries EXCEPT ![s].failures = n,
                              ![s].blockedUntil = IF n >= LoginBurst THEN now + LoginBlock ELSE @]
            /\ promised' = [promised EXCEPT ![s] =
                  IF n = LoginBurst \/ (n > LoginBurst /\ now + LoginBlock < @)
                  THEN now + LoginBlock ELSE @]
            /\ lifted' = IF n = LoginBurst THEN lifted \ {s} ELSE lifted
    /\ attempt' = [attempt EXCEPT ![a].pc = "idle", ![a].at = 0]
    /\ UNCHANGED <<clock, sweepAt>>

\* run's ticker fires; sweep reads the clock and then takes the lock.
StartSweep ==
    /\ sweepAt = NotSweeping
    /\ sweepAt' = clock
    /\ UNCHANGED <<clock, entries, attempt, promised, lifted>>

\* Mutant: a record is dropped when its window is over, blocked or not.
ReclaimableByWindow(s) == sweepAt - entries[s].first > LoginWindow

Reclaimable(s) ==
    /\ sweepAt > entries[s].blockedUntil
    /\ sweepAt - entries[s].first > LoginWindow

sweep ==
    /\ sweepAt # NotSweeping
    /\ entries' = [s \in Sources |-> IF Reclaimable(s) THEN Nothing ELSE entries[s]]
    /\ sweepAt' = NotSweeping
    /\ UNCHANGED <<clock, attempt, promised, lifted>>

LoginNext ==
    \/ LoginTick
    \/ \E a \in Attempts :
         Ask(a) \/ Allow(a) \/ GiveUp(a) \/ recordSuccess(a) \/ Mismatch(a) \/ recordFailure(a)
    \/ StartSweep \/ sweep

LoginSpec == LoginInit /\ [][LoginNext]_loginVars

-----------------------------------------------------------------------------
\* Properties.

\* A source is blocked only for failures that fell into one window, counted since
\* its last success, and attempts made in parallel run past the burst only by
\* those already being compared when the block began.  A block then holds for
\* loginBlock (ratelimit.go:24): allow lets no attempt through before it is over.
\* Neither sweep, nor another attempt that finds the block expired, nor a clock
\* read before the lock ends it early; a success in flight does, and so does a
\* failure answered after the window that began the count is over (lifted).
LockoutSound ==
    /\ [](\A s \in Sources :
            /\ Blocked(s) => entries[s].blockedUntil <= entries[s].first + LoginWindow + LoginBlock
            /\ entries[s].failures <= LoginBurst - 1 + Cardinality(Attempts))
    /\ [][\A a \in Attempts :
            LET s == attempt[a].source IN
            attempt[a].pc = "asking" /\ attempt'[a].pc = "comparing" /\ s \notin lifted
               => clock >= promised[s]]_loginVars
=============================================================================
