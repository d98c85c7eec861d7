---------------------------- MODULE Certificates ----------------------------
(***************************************************************************)
(* Certificates from request to handshake: internal/certmgr (Manager,      *)
(* acmeIssuer, tlsALPNSolver), the certificate handlers of internal/api    *)
(* and the certificates table.                                             *)
(*                                                                         *)
(* Key material is a version number, 0 until the first issuance.  Every    *)
(* certificate is for the same domain, the case in which orders could get  *)
(* in each other's way.  The certificate authority is external: an order   *)
(* ends well or badly, at any time.  Left out: a chain that the CA signed  *)
(* but whose leaf does not parse, the alerts, the order in which two       *)
(* certificates for one name take precedence, and the other two kinds of   *)
(* challenge, whose answers are keyed by a token of the order's own.       *)
(***************************************************************************)
EXTENDS Integers, FiniteSets

CONSTANTS
    Workers,       \* handlers and background orders
    Runner,        \* the worker that is Manager.Run
    CertIds,       \* row ids, never reused (AUTOINCREMENT)
    Nobody,
    MaxMaterial    \* bound: key pairs made

ASSUME CertificatesAssumption ==
    Runner \in Workers /\ Nobody \notin Workers /\ MaxMaterial \in Nat

VARIABLES
    certs,         \* the certificates table
    given,         \* ids that have been given out
    made,          \* key pairs made so far
    index,         \* Manager.index: the material served for each certificate
    issuing,       \* holder of Manager.issuing
    alpn,          \* the order whose challenge certificate tlsALPNSolver holds
    due,           \* what is left of renewDue's list
    work,          \* local variables of each worker
    uptodate       \* history: nothing was written since the index was read

certVars == <<certs, given, made, index, issuing, alpn, due, work, uptodate>>

Materials == 0 .. MaxMaterial
CertRow == [acme : BOOLEAN, material : Materials, lastError : BOOLEAN]

Resting == [pc |-> "resting", id |-> Nobody, cert |-> [acme |-> FALSE, material |-> 0, lastError |-> FALSE],
            expired |-> FALSE, listed |-> <<>>, quiet |-> TRUE]

\* Where Issue holds the lock.
Holding == {"getting", "ordering", "validating", "finalizing", "saving", "recording", "relisting", "republishing"}

\* newCertIndex: what has been requested but not issued is not served.
newCertIndex(rows) ==
    [c \in {d \in DOMAIN rows : rows[d].material > 0} |-> rows[c].material]

CertificatesInit ==
    /\ certs = <<>> /\ given = {} /\ made = 0 /\ index = <<>>
    /\ issuing = Nobody /\ alpn = Nobody /\ due = {}
    /\ work = [w \in Workers |-> Resting]
    /\ uptodate = TRUE

-----------------------------------------------------------------------------
Become(w, state) == work' = [work EXCEPT ![w] = state]
At(w, pc) == work[w].pc = pc

\* A write to the table: no index read before it is up to date any more.
Wrote(w, rows, state) ==
    /\ certs' = rows
    /\ work' = [v \in Workers |-> IF v = w THEN state ELSE [work[v] EXCEPT !.quiet = FALSE]]
    /\ uptodate' = FALSE

\* handleCreateCertificate: self-signed and uploaded material exists at once,
\* ACME material only after an order.
CreateCertificate(w, c, acme) ==
    /\ At(w, "resting") /\ w # Runner
    /\ c \in CertIds \ given
    /\ acme \/ made < MaxMaterial
    /\ given' = given \cup {c}
    /\ made' = IF acme THEN made ELSE made + 1
    /\ Wrote(w, [d \in DOMAIN certs \cup {c} |->
                    IF d # c THEN certs[d]
                    ELSE [acme |-> acme, material |-> IF acme THEN 0 ELSE made', lastError |-> FALSE]],
             [Resting EXCEPT !.pc = "listing"])
    /\ UNCHANGED <<index, issuing, alpn, due>>

\* handleDeleteCertificate, when no host or redirect refers to it.
DeleteCertificate(w, c) ==
    /\ At(w, "resting") /\ w # Runner
    /\ c \in DOMAIN certs
    /\ Wrote(w, [d \in DOMAIN certs \ {c} |-> certs[d]], [Resting EXCEPT !.pc = "listing"])
    /\ UNCHANGED <<given, made, index, issuing, alpn, due>>

\* handleIssueCertificate starts issueInBackground.
IssueCertificate(w, c) ==
    /\ At(w, "resting") /\ w # Runner
    /\ c \in DOMAIN certs /\ certs[c].acme
    /\ Become(w, [Resting EXCEPT !.pc = "waiting", !.id = c])
    /\ UNCHANGED <<certs, given, made, index, issuing, alpn, due, uptodate>>

\* Manager.Run's ticker: everything unissued is due, and whatever has aged enough.
renewDue ==
    /\ At(Runner, "resting") /\ due = {}
    /\ \E old \in SUBSET DOMAIN certs :
          due' = {c \in DOMAIN certs : certs[c].acme /\ (certs[c].material = 0 \/ c \in old)}
    /\ UNCHANGED <<certs, given, made, index, issuing, alpn, work, uptodate>>

NextDue(c) ==
    /\ At(Runner, "resting") /\ c \in due
    /\ due' = due \ {c}
    /\ Become(Runner, [Resting EXCEPT !.pc = "waiting", !.id = c])
    /\ UNCHANGED <<certs, given, made, index, issuing, alpn, uptodate>>

\* issueInBackground's ten minutes are over.
Timeout(w) ==
    /\ w # Runner
    /\ work[w].pc \in Holding \cup {"waiting"}
    /\ ~work[w].expired
    /\ work' = [work EXCEPT ![w].expired = TRUE]
    /\ UNCHANGED <<certs, given, made, index, issuing, alpn, due, uptodate>>

-----------------------------------------------------------------------------
(* Issue, with the deferred unlock of every return. *)

\* Mutant: the lock is not taken.
AcquireFreely(w) ==
    /\ At(w, "waiting")
    /\ issuing' = w
    /\ Become(w, [work[w] EXCEPT !.pc = "getting"])
    /\ UNCHANGED <<certs, given, made, index, alpn, due, uptodate>>

Acquire(w) ==
    /\ At(w, "waiting")
    /\ issuing = Nobody
    /\ issuing' = w
    /\ Become(w, [work[w] EXCEPT !.pc = "getting"])
    /\ UNCHANGED <<certs, given, made, index, alpn, due, uptodate>>

\* repo.Get fails, or finds nothing to issue.
GetFails(w) ==
    /\ At(w, "getting")
    /\ issuing' = Nobody
    /\ Become(w, Resting)
    /\ UNCHANGED <<certs, given, made, index, alpn, due, uptodate>>

Get(w) ==
    /\ At(w, "getting")
    /\ ~work[w].expired
    /\ work[w].id \in DOMAIN certs
    /\ Become(w, [work[w] EXCEPT !.pc = "ordering", !.cert = certs[work[w].id]])
    /\ UNCHANGED <<certs, given, made, index, issuing, alpn, due, uptodate>>

\* prepare publishes the challenge, Accept asks the CA to look.
Prepare(w) ==
    /\ At(w, "ordering")
    /\ ~work[w].expired
    /\ alpn' = w
    /\ Become(w, [work[w] EXCEPT !.pc = "validating"])
    /\ UNCHANGED <<certs, given, made, index, issuing, due, uptodate>>

\* Every name is validated: cleanup has withdrawn the challenge, or the CA
\* remembered an earlier validation and none was asked for.
Authorized(w) ==
    /\ At(w, "ordering") \/ At(w, "validating")
    /\ ~work[w].expired
    /\ alpn' = IF At(w, "validating") THEN Nobody ELSE alpn
    /\ Become(w, [work[w] EXCEPT !.pc = "finalizing"])
    /\ UNCHANGED <<certs, given, made, index, issuing, due, uptodate>>

\* A fresh key and the chain for it.
Obtain(w) ==
    /\ At(w, "finalizing")
    /\ ~work[w].expired
    /\ made < MaxMaterial
    /\ made' = made + 1
    /\ Become(w, [work[w] EXCEPT !.pc = "saving", !.cert.material = made', !.cert.lastError = FALSE])
    /\ UNCHANGED <<certs, given, index, issuing, alpn, due, uptodate>>

\* The order fails: cleanup, and the record as it was read gets the error.
ObtainFails(w) ==
    /\ work[w].pc \in {"ordering", "validating", "finalizing"}
    /\ alpn' = IF At(w, "validating") THEN Nobody ELSE alpn
    /\ Become(w, [work[w] EXCEPT !.pc = "recording", !.cert.lastError = TRUE])
    /\ UNCHANGED <<certs, given, made, index, issuing, due, uptodate>>

\* repo.Update: the whole record as this worker holds it.
Update(w, state) ==
    /\ work[w].id \in DOMAIN certs
    /\ ~work[w].expired
    /\ Wrote(w, [certs EXCEPT ![work[w].id] = work[w].cert], state)

\* The row has gone, the context is over, or the database errs.
UpdateFails(w) ==
    /\ At(w, "saving") \/ At(w, "recording")
    /\ issuing' = Nobody
    /\ Become(w, Resting)
    /\ UNCHANGED <<certs, given, made, index, alpn, due, uptodate>>

Save(w) ==
    /\ At(w, "saving")
    /\ Update(w, [work[w] EXCEPT !.pc = "relisting", !.quiet = TRUE])
    /\ UNCHANGED <<given, made, index, issuing, alpn, due>>

\* Mutant: the return on a failed order keeps the lock.
RecordKeepsLock(w) ==
    /\ At(w, "recording")
    /\ Update(w, Resting)
    /\ UNCHANGED <<given, made, index, issuing, alpn, due>>

Record(w) ==
    /\ At(w, "recording")
    /\ Update(w, Resting)
    /\ issuing' = Nobody
    /\ UNCHANGED <<given, made, index, alpn, due>>

-----------------------------------------------------------------------------
(* Reload, after a handler's write (listing) or at the end of Issue (relisting). *)

\* repo.List.
List(w) ==
    /\ At(w, "listing") \/ (At(w, "relisting") /\ ~work[w].expired)
    /\ Become(w, [work[w] EXCEPT !.pc = IF At(w, "listing") THEN "publishing" ELSE "republishing",
                                 !.listed = certs, !.quiet = TRUE])
    /\ UNCHANGED <<certs, given, made, index, issuing, alpn, due, uptodate>>

\* The query fails, or its context is over: the index stays as it was.
ListFails(w) ==
    /\ At(w, "listing") \/ At(w, "relisting")
    /\ issuing' = IF At(w, "relisting") THEN Nobody ELSE issuing
    /\ Become(w, Resting)
    /\ UNCHANGED <<certs, given, made, index, alpn, due, uptodate>>

\* Mutant: the new index is laid over the old one.
PublishMerges(w) ==
    LET new == newCertIndex(work[w].listed) IN
    /\ At(w, "publishing") \/ At(w, "republishing")
    /\ index' = [c \in DOMAIN index \cup DOMAIN new |-> IF c \in DOMAIN new THEN new[c] ELSE index[c]]
    /\ uptodate' = work[w].quiet
    /\ issuing' = IF At(w, "republishing") THEN Nobody ELSE issuing
    /\ Become(w, Resting)
    /\ UNCHANGED <<certs, given, made, alpn, due>>

Publish(w) ==
    /\ At(w, "publishing") \/ At(w, "republishing")
    /\ index' = newCertIndex(work[w].listed)
    /\ uptodate' = work[w].quiet
    /\ issuing' = IF At(w, "republishing") THEN Nobody ELSE issuing
    /\ Become(w, Resting)
    /\ UNCHANGED <<certs, given, made, alpn, due>>

CertificatesNext ==
    \/ renewDue
    \/ \E c \in CertIds : NextDue(c)
    \/ \E w \in Workers :
         \/ \E c \in CertIds : \/ \E acme \in BOOLEAN : CreateCertificate(w, c, acme)
                               \/ DeleteCertificate(w, c) \/ IssueCertificate(w, c)
         \/ Timeout(w) \/ Acquire(w) \/ GetFails(w) \/ Get(w) \/ Prepare(w)
         \/ Authorized(w) \/ Obtain(w) \/ ObtainFails(w) \/ Save(w) \/ Record(w) \/ UpdateFails(w)
         \/ List(w) \/ ListFails(w) \/ Publish(w)

CertificatesSpec == CertificatesInit /\ [][CertificatesNext]_certVars

-----------------------------------------------------------------------------
\* An order that fails, or one that overtook another, never writes older key
\* material over newer: Issue reads and writes the whole record, and the lock is
\* what keeps the two together.
MaterialNeverRegresses ==
    [][\A c \in DOMAIN certs \cap DOMAIN certs' : certs'[c].material >= certs[c].material]_certVars

\* While the CA may come to validate an order, the challenge certificate the
\* solver holds for the name is that order's: nobody else's cleanup removed it,
\* and none is left published after its order.  The lock is held exactly by an
\* Issue under way, whichever way earlier ones ended.
IssueExclusive ==
    /\ \A w \in Workers : At(w, "validating") => alpn = w
    /\ alpn # Nobody => At(alpn, "validating")
    /\ \A w \in Workers : issuing = w <=> work[w].pc \in Holding

\* A Reload that no write overlapped leaves exactly the stored material served.
ServesWhatIsStored == uptodate => index = newCertIndex(certs)
=============================================================================
