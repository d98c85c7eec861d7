------------------------------ MODULE Accounts ------------------------------
(***************************************************************************)
(* Operator accounts: the handlers of internal/api/users.go, the sessions  *)
(* that authenticate and requireWrite let in, and the users table.         *)
(*                                                                         *)
(* Every statement sent to the database is a step; nothing holds a         *)
(* transaction across two of them.  A username and a password are left     *)
(* out: a taken name or a short password refuses the request and changes   *)
(* nothing, and no property is about passwords.                            *)
(***************************************************************************)
EXTENDS Integers, FiniteSets

CONSTANTS
    Calls,       \* API requests in flight
    MaxUsers,    \* bound: accounts ever created
    MaxSessions  \* bound: kinds of unexpired token at a time

ASSUME AccountsAssumption == MaxUsers \in Nat \ {0}

VARIABLES
    users,     \* the users table: id to role
    lastId,    \* its AUTOINCREMENT sequence
    sessions,  \* unexpired tokens: the account and the role they were issued for
    call,      \* local variables of each request
    raced      \* history: a write fell between another request's check and its write

accountVars == <<users, lastId, sessions, call, raced>>

Role == {"admin", "viewer"}
UserIds == 1 .. MaxUsers
Session == [user : UserIds, role : Role]

\* A request: what it was asked, and how far it is.
Request == [pc : {"idle", "reading", "counting", "writing"},
            op : {"create", "role", "delete"}, whose : {"own", "other"}, target : UserIds, role : Role]

NoRequest == [pc |-> "idle", op |-> "create", whose |-> "other", target |-> 1, role |-> "viewer"]

AccountsTypeOK ==
    /\ lastId \in UserIds
    /\ DOMAIN users \subseteq 1 .. lastId
    /\ users \in [DOMAIN users -> Role]
    /\ sessions \subseteq Session
    /\ call \in [Calls -> Request]
    /\ raced \in BOOLEAN

\* EnsureBootstrapUser has created the first administrator.
AccountsInit ==
    /\ users = [id \in {1} |-> "admin"]
    /\ lastId = 1
    /\ sessions = {}
    /\ call = [c \in Calls |-> NoRequest]
    /\ raced = FALSE

Admins == {id \in DOMAIN users : users[id] = "admin"}

-----------------------------------------------------------------------------
\* handleLogin with the right password: the token carries the role of the row
\* that was read.
SignIn(id) ==
    /\ id \in DOMAIN users
    /\ Cardinality(sessions) < MaxSessions
    /\ sessions' = sessions \cup {[user |-> id, role |-> users[id]]}
    /\ UNCHANGED <<users, lastId, call, raced>>

\* SessionTTL has passed.
Expire(s) ==
    /\ s \in sessions
    /\ sessions' = sessions \ {s}
    /\ UNCHANGED <<users, lastId, call, raced>>

\* requireWrite goes by the role in the token, not by the row.
CanWrite(s) == s.role = "admin"

CreateUser(c, s, role) ==
    /\ call[c].pc = "idle"
    /\ s \in sessions /\ CanWrite(s)
    /\ call' = [call EXCEPT ![c] = [NoRequest EXCEPT !.pc = "writing", !.role = role]]
    /\ UNCHANGED <<users, lastId, sessions, raced>>

UpdateUserRole(c, s, id, role) ==
    /\ call[c].pc = "idle"
    /\ s \in sessions /\ CanWrite(s)
    /\ call' = [call EXCEPT ![c] = [pc |-> "reading", op |-> "role", whose |-> IF id = s.user THEN "own" ELSE "other",
                                    target |-> id, role |-> role]]
    /\ UNCHANGED <<users, lastId, sessions, raced>>

\* errSelfDelete.
DeleteUser(c, s, id) ==
    /\ call[c].pc = "idle"
    /\ s \in sessions /\ CanWrite(s)
    /\ id # s.user
    /\ call' = [call EXCEPT ![c] = [pc |-> "reading", op |-> "delete", whose |-> "other",
                                    target |-> id, role |-> "viewer"]]
    /\ UNCHANGED <<users, lastId, sessions, raced>>

\* Does the request take an administrator away from the table it was read from?
Removes(q) == users[q.target] = "admin" /\ (q.op = "delete" \/ q.role # "admin")

\* Mutant: the count is asked for deletions only.
GetByIDDeletesOnly(c) ==
    LET q == call[c] IN
    /\ q.pc = "reading"
    /\ call' = [call EXCEPT ![c] =
          IF q.target \notin DOMAIN users \/ (Removes(q) /\ q.op = "role" /\ q.whose = "own")
          THEN NoRequest
          ELSE [q EXCEPT !.pc = IF Removes(q) /\ q.op = "delete" THEN "counting" ELSE "writing"]]
    /\ UNCHANGED <<users, lastId, sessions, raced>>

\* GetByID, and what the handler decides on the row: ErrNotFound, errSelfDemote,
\* or whether the administrators have to be counted.
GetByID(c) ==
    LET q == call[c] IN
    /\ q.pc = "reading"
    /\ call' = [call EXCEPT ![c] =
          IF q.target \notin DOMAIN users \/ (Removes(q) /\ q.op = "role" /\ q.whose = "own")
          THEN NoRequest
          ELSE [q EXCEPT !.pc = IF Removes(q) THEN "counting" ELSE "writing"]]
    /\ UNCHANGED <<users, lastId, sessions, raced>>

IsLastAdmin == Cardinality(Admins) <= 1

refuseIfLastAdmin(c) ==
    /\ call[c].pc = "counting"
    /\ call' = [call EXCEPT ![c] = IF IsLastAdmin THEN NoRequest ELSE [@ EXCEPT !.pc = "writing"]]
    /\ UNCHANGED <<users, lastId, sessions, raced>>

\* Another request has read a row it has not yet acted on.
Overlapped(c) == \E d \in Calls \ {c} : call[d].pc \in {"counting", "writing"} /\ call[d].op # "create"

\* users.Create, UpdateRole or Delete; the last two find no row if it has gone.
Write(c) ==
    LET q == call[c] IN
    /\ q.pc = "writing"
    /\ CASE q.op = "create" ->
              /\ lastId < MaxUsers
              /\ lastId' = lastId + 1
              /\ users' = [id \in DOMAIN users \cup {lastId'} |->
                              IF id = lastId' THEN q.role ELSE users[id]]
              /\ UNCHANGED raced
         [] q.op = "role" ->
              /\ users' = [id \in DOMAIN users |-> IF id = q.target THEN q.role ELSE users[id]]
              /\ raced' = (raced \/ Overlapped(c))
              /\ UNCHANGED lastId
         [] q.op = "delete" ->
              /\ users' = [id \in DOMAIN users \ {q.target} |-> users[id]]
              /\ raced' = (raced \/ Overlapped(c))
              /\ UNCHANGED lastId
    /\ call' = [call EXCEPT ![c] = NoRequest]
    /\ UNCHANGED sessions

\* Any step may fail: the database errs or the caller hangs up.
Fail(c) ==
    /\ call[c].pc # "idle"
    /\ call' = [call EXCEPT ![c] = NoRequest]
    /\ UNCHANGED <<users, lastId, sessions, raced>>

\* The process is started again: requests in flight are gone, tokens are not,
\* and EnsureBootstrapUser creates an administrator if the table is empty.
Restart ==
    /\ IF DOMAIN users = {} /\ lastId < MaxUsers
       THEN /\ lastId' = lastId + 1
            /\ users' = [id \in {lastId'} |-> "admin"]
       ELSE UNCHANGED <<users, lastId>>
    /\ call' = [c \in Calls |-> NoRequest]
    /\ UNCHANGED <<sessions, raced>>

AccountsNext ==
    \/ Restart
    \/ \E id \in UserIds : SignIn(id)
    \/ \E s \in sessions : Expire(s)
    \/ \E c \in Calls :
         \/ \E s \in sessions, role \in Role :
              CreateUser(c, s, role) \/ \E id \in 1 .. lastId : UpdateUserRole(c, s, id, role)
         \/ \E s \in sessions, id \in 1 .. lastId : DeleteUser(c, s, id)
         \/ GetByID(c) \/ refuseIfLastAdmin(c) \/ Write(c) \/ Fail(c)

AccountsSpec == AccountsInit /\ [][AccountsNext]_accountVars

-----------------------------------------------------------------------------
\* What users.go:11 asks of the guards: an installation never ends up with nobody
\* who can administer it, whatever sessions are left over from accounts since
\* demoted or deleted.  GetByID, CountAdmins and the write are three statements,
\* so it holds for requests that do not overlap: two administrators who demote
\* each other at once both pass the count (raced).
AdminRemains == raced \/ Admins # {}
=============================================================================
