--------------------------- MODULE ControlProofs ----------------------------
(***************************************************************************)
(* Theorems about the control plane: certificates, the configuration,      *)
(* accounts and the login limiter.                                         *)
(*                                                                         *)
(* For any number of requests and accounts: requests that do not overlap   *)
(* always leave an administrator.  The counts and writes of users.go are   *)
(* separate statements; what carries the argument from one to the other is *)
(* Cover, which an overlapping write would destroy.                        *)
(*                                                                         *)
(* For any number of sources and of sign-ins in parallel: what the login   *)
(* limiter promises of a block.                                            *)
(***************************************************************************)
EXTENDS Certificates, Configuration, Accounts, Login, FiniteSetTheorems, TLAPS

(* Certificates. *)

CertTable == UNION {[S -> CertRow] : S \in SUBSET CertIds}

WorkState ==
    [pc : Holding \cup {"resting", "waiting", "listing", "publishing"}, id : CertIds \cup {Nobody},
     cert : CertRow, expired : BOOLEAN, listed : CertTable, quiet : BOOLEAN]

\* Where Issue holds the record as Get read it, but for the error it may add.
Reading == {"ordering", "validating", "finalizing", "recording"}

\* Local variables s of a worker against the table rows, the ids g given out and
\* the number m of key pairs made: nobody changed the material of the record it holds, and a list it read is the
\* table unless something was written since.
WorkOK(s, rows, g, m) ==
    /\ s \in WorkState /\ s.cert.material <= m
    /\ s.pc \in Reading \cup {"saving"} => s.id \in g
    /\ s.pc \in Reading /\ s.id \in DOMAIN rows => rows[s.id].material = s.cert.material
    /\ s.pc = "saving" /\ s.id \in DOMAIN rows => rows[s.id].material <= s.cert.material
    /\ s.pc \in {"publishing", "republishing"} /\ s.quiet => s.listed = rows

RowsOK(rows, g, m) ==
    /\ rows \in CertTable
    /\ DOMAIN rows \subseteq g
    /\ m \in Materials
    /\ \A c \in DOMAIN rows : rows[c].material <= m

\* The inductive invariant: the lock, what it protects, and the index.
CertInv ==
    /\ RowsOK(certs, given, made)
    /\ issuing \in Workers \cup {Nobody} /\ alpn \in Workers \cup {Nobody}
    /\ due \subseteq CertIds
    /\ DOMAIN work = Workers
    /\ \A w \in Workers : WorkOK(work[w], certs, given, made)
    /\ IssueExclusive
    /\ ServesWhatIsStored

LEMMA RestingOK ==
  ASSUME NEW rows, NEW g, NEW m \in Materials
  PROVE  WorkOK(Resting, rows, g, m)
  <1>1. <<>> \in CertTable
    <2>1. <<>> \in [{} -> CertRow]
      OBVIOUS
    <2> QED
      BY <2>1 DEF CertTable
  <1>2. [acme |-> FALSE, material |-> 0, lastError |-> FALSE] \in CertRow
    BY CertificatesAssumption DEF CertRow, Materials
  <1>3. Resting \in WorkState
    BY <1>1, <1>2 DEF Resting, WorkState
  <1>4. Resting.pc = "resting" /\ Resting.cert.material <= m
    BY DEF Resting, Materials
  <1> QED
    BY <1>3, <1>4 DEF WorkOK, Reading

\* The lock and the challenge when worker w alone moves: it holds the lock where
\* Issue does, and touches the challenge only while it holds the lock.
LEMMA LockStep ==
  ASSUME CertInv, NEW w \in Workers,
         \A v \in Workers \ {w} : work'[v].pc = work[v].pc,
         work'[w].pc \in Holding <=> issuing' = w,
         issuing' = issuing \/ {issuing, issuing'} \subseteq {w, Nobody},
         work'[w].pc = "validating" <=> alpn' = w,
         alpn' = alpn \/ (issuing = w /\ alpn' \in {w, Nobody})
  PROVE  IssueExclusive' /\ issuing' \in Workers \cup {Nobody} /\ alpn' \in Workers \cup {Nobody}
  <1>1. /\ \A v \in Workers : work[v].pc = "validating" => alpn = v
        /\ alpn # Nobody => work[alpn].pc = "validating"
        /\ \A v \in Workers : issuing = v <=> work[v].pc \in Holding
        /\ issuing \in Workers \cup {Nobody} /\ alpn \in Workers \cup {Nobody}
        /\ Nobody \notin Workers
    BY CertificatesAssumption DEF CertInv, IssueExclusive, At
  <1>2. "validating" \in Holding
    BY DEF Holding
  <1>3. ASSUME NEW v \in Workers PROVE issuing' = v <=> work'[v].pc \in Holding
    BY <1>1
  <1>4. ASSUME NEW v \in Workers, work'[v].pc = "validating" PROVE alpn' = v
    BY <1>1, <1>2, <1>4
  <1>5. alpn' # Nobody => work'[alpn'].pc = "validating"
    BY <1>1
  <1>6. issuing' \in Workers \cup {Nobody} /\ alpn' \in Workers \cup {Nobody}
    BY <1>1
  <1> QED
    BY <1>3, <1>4, <1>5, <1>6 DEF IssueExclusive, At

\* More key pairs take nothing from what a worker knows.
LEMMA MadeGrows ==
  ASSUME CertInv, made' \in Materials, made <= made', NEW v \in Workers
  PROVE  work[v] \in WorkState /\ WorkOK(work[v], certs, given, made')
  <1>1. WorkOK(work[v], certs, given, made) /\ made \in Materials
    BY DEF CertInv, RowsOK
  <1>2. work[v].cert.material \in Int /\ work[v].cert.material <= made
    BY <1>1 DEF WorkOK, WorkState, CertRow, Materials
  <1>3. work[v].cert.material <= made'
    BY <1>1, <1>2 DEF Materials
  <1> QED
    BY <1>1, <1>3 DEF WorkOK

\* A step of one worker that writes nothing.
LEMMA OneMoves ==
  ASSUME CertInv, NEW w \in Workers, NEW s,
         UNCHANGED <<certs, given>>,
         made' \in Materials /\ made <= made',
         work' = [work EXCEPT ![w] = s],
         WorkOK(s, certs, given, made')
  PROVE  /\ DOMAIN work' = Workers
         /\ \A v \in Workers : WorkOK(work'[v], certs', given', made')
         /\ work'[w] = s
         /\ \A v \in Workers \ {w} : work'[v].pc = work[v].pc
  <1>1. DOMAIN work = Workers /\ \A v \in Workers : WorkOK(work[v], certs, given, made)
    BY DEF CertInv
  <1>2. \A v \in Workers : WorkOK(work[v], certs, given, made')
    BY <1>1, MadeGrows
  <1> QED
    BY <1>1, <1>2

\* A step of one worker that writes: it changes no row that another holds.
LEMMA OneWrites ==
  ASSUME CertInv, NEW w \in Workers, NEW rows, NEW s,
         Wrote(w, rows, s),
         given \subseteq given', made' \in Materials, made <= made',
         \A v \in Workers \ {w} : work[v].pc \in Reading \cup {"saving"} /\ work[v].id \in DOMAIN rows
             => work[v].id \in DOMAIN certs /\ rows[work[v].id] = certs[work[v].id],
         WorkOK(s, rows, given', made')
  PROVE  /\ DOMAIN work' = Workers
         /\ \A v \in Workers : WorkOK(work'[v], certs', given', made')
         /\ work'[w] = s
         /\ \A v \in Workers \ {w} : work'[v].pc = work[v].pc
         /\ ServesWhatIsStored'
  <1>1. \A v \in Workers : WorkOK(work[v], certs, given, made') /\ work[v] \in WorkState
    BY MadeGrows
  <1>2. /\ certs' = rows /\ DOMAIN work' = Workers /\ work'[w] = s
        /\ \A v \in Workers \ {w} : work'[v] = [work[v] EXCEPT !.quiet = FALSE]
        /\ uptodate' = FALSE
    BY DEF Wrote
  <1>3. ASSUME NEW v \in Workers \ {w}
        PROVE  work'[v].pc = work[v].pc /\ WorkOK(work'[v], rows, given', made')
    <2>1. work[v] \in WorkState /\ WorkOK(work[v], certs, given, made')
      BY <1>1
    <2>2. work'[v] = [work[v] EXCEPT !.quiet = FALSE]
      BY <1>2
    <2>3. /\ work'[v] \in WorkState /\ work'[v].pc = work[v].pc /\ work'[v].id = work[v].id
          /\ work'[v].cert = work[v].cert /\ ~work'[v].quiet
      BY <2>1, <2>2 DEF WorkState
    <2> QED
      BY <2>1, <2>3 DEF WorkOK
  <1>4. \A v \in Workers : WorkOK(work'[v], certs', given', made')
    BY <1>2, <1>3
  <1> QED
    BY <1>2, <1>3, <1>4 DEF ServesWhatIsStored

\* What a write of the table needs of the new rows.
LEMMA RowAdded ==
  ASSUME NEW rows \in CertTable, NEW c \in CertIds, NEW row \in CertRow, NEW new,
         new = [d \in DOMAIN rows \cup {c} |-> IF d = c THEN row ELSE rows[d]]
  PROVE  new \in CertTable /\ DOMAIN new = DOMAIN rows \cup {c} /\ new[c] = row
         /\ \A d \in DOMAIN rows \ {c} : new[d] = rows[d]
  <1>1. PICK S \in SUBSET CertIds : rows \in [S -> CertRow]
    BY DEF CertTable
  <1>2. new \in [S \cup {c} -> CertRow]
    BY <1>1
  <1> QED
    BY <1>1, <1>2 DEF CertTable

LEMMA RowRemoved ==
  ASSUME NEW rows \in CertTable, NEW c, NEW new, new = [d \in DOMAIN rows \ {c} |-> rows[d]]
  PROVE  new \in CertTable /\ DOMAIN new = DOMAIN rows \ {c}
         /\ \A d \in DOMAIN new : new[d] = rows[d]
  <1>1. PICK S \in SUBSET CertIds : rows \in [S -> CertRow]
    BY DEF CertTable
  <1>2. new \in [S \ {c} -> CertRow]
    BY <1>1
  <1> QED
    BY <1>1, <1>2 DEF CertTable

LEMMA TableType ==
  ASSUME NEW rows \in CertTable
  PROVE  DOMAIN rows \subseteq CertIds /\ \A c \in DOMAIN rows : rows[c] \in CertRow
  BY DEF CertTable

LEMMA CreateOK ==
  ASSUME CertInv, NEW w \in Workers, NEW c \in CertIds, NEW acme \in BOOLEAN,
         CreateCertificate(w, c, acme)
  PROVE  CertInv'
  <1> DEFINE row == [acme |-> acme, material |-> IF acme THEN 0 ELSE made', lastError |-> FALSE]
             rows == [d \in DOMAIN certs \cup {c} |-> IF d = c THEN row ELSE certs[d]]
             s == [Resting EXCEPT !.pc = "listing"]
  <1>1. /\ work[w].pc = "resting" /\ c \notin given /\ given' = given \cup {c}
        /\ acme \/ made < MaxMaterial
        /\ made' = (IF acme THEN made ELSE made + 1)
        /\ UNCHANGED <<index, issuing, alpn, due>>
    BY DEF CreateCertificate, At
  <1>2. Wrote(w, rows, s)
    <2>1. rows = [d \in DOMAIN certs \cup {c} |->
                    IF d # c THEN certs[d]
                    ELSE [acme |-> acme, material |-> IF acme THEN 0 ELSE made', lastError |-> FALSE]]
      OBVIOUS
    <2> HIDE DEF rows, s
    <2> QED
      BY <2>1 DEF CreateCertificate, s
  <1>3. RowsOK(certs, given, made) /\ MaxMaterial \in Nat
    BY CertificatesAssumption DEF CertInv
  <1>4. made \in Materials /\ made' \in Materials /\ made <= made'
    BY <1>1, <1>3 DEF RowsOK, Materials
  <1>5. row \in CertRow /\ row.material <= made'
    BY <1>1, <1>3, <1>4 DEF CertRow, Materials
  <1> HIDE DEF row
  <1>6. /\ rows \in CertTable /\ DOMAIN rows = DOMAIN certs \cup {c} /\ rows[c] = row
        /\ \A d \in DOMAIN certs \ {c} : rows[d] = certs[d]
    BY <1>3, <1>5, RowAdded DEF RowsOK
  <1>7. RowsOK(rows, given', made')
    <2>1. ASSUME NEW d \in DOMAIN rows PROVE rows[d].material <= made'
      <3>1. CASE d = c
        BY <1>5, <1>6, <3>1
      <3>2. CASE d # c
        <4>1. d \in DOMAIN certs /\ rows[d] = certs[d] /\ certs[d].material <= made
          BY <1>3, <1>6, <3>2 DEF RowsOK
        <4>2. certs[d].material \in Int
          BY <1>3, <4>1, TableType DEF RowsOK, CertRow, Materials
        <4> QED
          BY <1>4, <4>1, <4>2 DEF Materials
      <3> QED
        BY <3>1, <3>2
    <2> QED
      BY <1>1, <1>3, <1>4, <1>6, <2>1 DEF RowsOK
  <1> HIDE DEF rows, s
  <1>8. WorkOK(s, rows, given', made') /\ s.pc = "listing"
    <2>1. WorkOK(Resting, rows, given', made')
      BY <1>4, RestingOK
    <2>2. s \in WorkState /\ s.pc = "listing" /\ s.cert = Resting.cert
      BY <2>1 DEF s, WorkState, WorkOK
    <2> QED
      BY <2>1, <2>2 DEF WorkOK, Reading
  <1>9. \A v \in Workers \ {w} : work[v].pc \in Reading \cup {"saving"} /\ work[v].id \in DOMAIN rows
             => work[v].id \in DOMAIN certs /\ rows[work[v].id] = certs[work[v].id]
    <2> SUFFICES ASSUME NEW v \in Workers \ {w}, work[v].pc \in Reading \cup {"saving"},
                        work[v].id \in DOMAIN rows
                 PROVE  work[v].id \in DOMAIN certs /\ rows[work[v].id] = certs[work[v].id]
      OBVIOUS
    <2>1. work[v].id \in given
      BY DEF CertInv, WorkOK
    <2> QED
      BY <1>1, <1>6, <2>1
  <1>10. /\ DOMAIN work' = Workers
         /\ \A v \in Workers : WorkOK(work'[v], certs', given', made')
         /\ work'[w] = s
         /\ \A v \in Workers \ {w} : work'[v].pc = work[v].pc
         /\ ServesWhatIsStored'
    <2>1. given \subseteq given'
      BY <1>1
    <2> QED
      BY <1>2, <1>4, <1>8, <1>9, <2>1, OneWrites
  <1>11. IssueExclusive' /\ issuing' \in Workers \cup {Nobody} /\ alpn' \in Workers \cup {Nobody}
    <2>1. work'[w].pc \notin Holding /\ work'[w].pc # "validating"
      BY <1>8, <1>10 DEF Holding
    <2>2. issuing # w /\ alpn # w
      BY <1>1, CertificatesAssumption DEF CertInv, IssueExclusive, At, Holding
    <2> QED
      BY <1>1, <1>10, <2>1, <2>2, LockStep
  <1>12. certs' = rows
    BY <1>2 DEF Wrote
  <1>13. due' \subseteq CertIds
    BY <1>1 DEF CertInv
  <1> QED
    BY <1>7, <1>10, <1>11, <1>12, <1>13 DEF CertInv

LEMMA DeleteOK ==
  ASSUME CertInv, NEW w \in Workers, NEW c \in CertIds, DeleteCertificate(w, c)
  PROVE  CertInv'
  <1> DEFINE rows == [d \in DOMAIN certs \ {c} |-> certs[d]]
             s == [Resting EXCEPT !.pc = "listing"]
  <1>1. /\ work[w].pc = "resting" /\ Wrote(w, rows, s)
        /\ UNCHANGED <<given, made, index, issuing, alpn, due>>
    BY DEF DeleteCertificate, At
  <1>2. RowsOK(certs, given, made)
    BY DEF CertInv
  <1>2a. made' \in Materials /\ made <= made'
    BY <1>1, <1>2 DEF RowsOK, Materials
  <1>3. rows \in CertTable /\ DOMAIN rows = DOMAIN certs \ {c} /\ \A d \in DOMAIN rows : rows[d] = certs[d]
    BY <1>2, RowRemoved DEF RowsOK
  <1>4. RowsOK(rows, given', made')
    BY <1>1, <1>2, <1>3 DEF RowsOK
  <1> HIDE DEF rows, s
  <1>5. WorkOK(s, rows, given', made') /\ s.pc = "listing"
    <2>1. WorkOK(Resting, rows, given', made')
      BY <1>2a, RestingOK
    <2>2. s \in WorkState /\ s.pc = "listing" /\ s.cert = Resting.cert
      BY <2>1 DEF s, WorkState, WorkOK
    <2> QED
      BY <2>1, <2>2 DEF WorkOK, Reading
  <1>6. \A v \in Workers \ {w} : work[v].pc \in Reading \cup {"saving"} /\ work[v].id \in DOMAIN rows
             => work[v].id \in DOMAIN certs /\ rows[work[v].id] = certs[work[v].id]
    BY <1>3
  <1>7. /\ DOMAIN work' = Workers
        /\ \A v \in Workers : WorkOK(work'[v], certs', given', made')
        /\ work'[w] = s
        /\ \A v \in Workers \ {w} : work'[v].pc = work[v].pc
        /\ ServesWhatIsStored'
    BY <1>1, <1>2a, <1>5, <1>6, OneWrites
  <1>8. IssueExclusive' /\ issuing' \in Workers \cup {Nobody} /\ alpn' \in Workers \cup {Nobody}
    <2>1. work'[w].pc \notin Holding /\ work'[w].pc # "validating"
      BY <1>5, <1>7 DEF Holding
    <2>2. issuing # w /\ alpn # w
      BY <1>1, CertificatesAssumption DEF CertInv, IssueExclusive, At, Holding
    <2> QED
      BY <1>1, <1>7, <2>1, <2>2, LockStep
  <1>9. certs' = rows
    BY <1>1 DEF Wrote
  <1>10. due' \subseteq CertIds
    BY <1>1 DEF CertInv
  <1> QED
    BY <1>4, <1>7, <1>8, <1>9, <1>10 DEF CertInv

\* Issue's own writes: Save, and Record of a failed order.
LEMMA UpdateOK ==
  ASSUME CertInv, NEW w \in Workers, NEW s,
         work[w].pc \in {"saving", "recording"}, Update(w, s),
         UNCHANGED <<given, made, alpn, due>>,
         WorkOK(s, [certs EXCEPT ![work[w].id] = work[w].cert], given, made),
         \/ s.pc = "relisting" /\ issuing' = issuing
         \/ s.pc = "resting" /\ issuing' = Nobody
  PROVE  CertInv' /\ \A c \in DOMAIN certs \cap DOMAIN certs' : certs'[c].material >= certs[c].material
  <1> DEFINE i == work[w].id
             rows == [certs EXCEPT ![i] = work[w].cert]
  <1>1. i \in DOMAIN certs /\ Wrote(w, rows, s) /\ certs' = rows
    BY DEF Update, Wrote
  <1>2. RowsOK(certs, given, made) /\ work[w] \in WorkState /\ WorkOK(work[w], certs, given, made)
    BY DEF CertInv, WorkOK
  <1>3. work[w].cert \in CertRow /\ i \in CertIds
    BY <1>1, <1>2, TableType DEF WorkState, RowsOK
  <1>4. certs[i].material <= work[w].cert.material
    <2>1. work[w].pc = "recording" => certs[i].material = work[w].cert.material
      BY <1>1, <1>2 DEF WorkOK, Reading
    <2>2. work[w].pc = "saving" => certs[i].material <= work[w].cert.material
      BY <1>1, <1>2 DEF WorkOK
    <2>3. work[w].cert.material \in Int
      BY <1>3 DEF CertRow, Materials
    <2> QED
      BY <2>1, <2>2, <2>3
  <1>5. rows \in CertTable /\ DOMAIN rows = DOMAIN certs /\ rows[i] = work[w].cert
        /\ \A d \in DOMAIN certs \ {i} : rows[d] = certs[d]
    <2>1. PICK S \in SUBSET CertIds : certs \in [S -> CertRow]
      BY <1>2 DEF RowsOK, CertTable
    <2>2. rows \in [S -> CertRow]
      BY <1>1, <1>3, <2>1
    <2> QED
      BY <1>1, <2>1, <2>2 DEF CertTable
  <1>6. RowsOK(rows, given', made') /\ made' \in Materials /\ made <= made'
    BY <1>2, <1>5 DEF RowsOK, WorkOK, Materials
  <1>7. issuing = w /\ alpn # w
    BY CertificatesAssumption DEF CertInv, IssueExclusive, At, Holding
  <1>8. \A v \in Workers \ {w} : work[v].pc \notin Reading \cup {"saving"}
    BY <1>7 DEF CertInv, IssueExclusive, Holding, Reading
  <1> HIDE DEF rows, i
  <1>9. WorkOK(s, rows, given', made')
    BY DEF rows, i
  <1>10. /\ DOMAIN work' = Workers
         /\ \A v \in Workers : WorkOK(work'[v], certs', given', made')
         /\ work'[w] = s
         /\ \A v \in Workers \ {w} : work'[v].pc = work[v].pc
         /\ ServesWhatIsStored'
    <2>1. given \subseteq given'
      OBVIOUS
    <2> QED
      BY <1>1, <1>6, <1>8, <1>9, <2>1, OneWrites
  <1>11. IssueExclusive' /\ issuing' \in Workers \cup {Nobody} /\ alpn' \in Workers \cup {Nobody}
    <2>1. work'[w].pc = s.pc /\ s.pc # "validating"
      BY <1>10
    <2>2. s.pc \in Holding <=> issuing' = w
      BY <1>7, CertificatesAssumption DEF Holding
    <2> QED
      BY <1>7, <1>10, <2>1, <2>2, LockStep
  <1>12. CertInv'
    <2>1. due' \subseteq CertIds
      BY DEF CertInv
    <2> QED
      BY <1>1, <1>6, <1>10, <1>11, <2>1 DEF CertInv
  <1>13. ASSUME NEW c \in DOMAIN certs \cap DOMAIN certs' PROVE certs'[c].material >= certs[c].material
    <2>1. certs[c].material \in Int
      BY <1>2, TableType DEF RowsOK, CertRow, Materials
    <2>2. CASE c = i
      BY <1>1, <1>4, <1>5, <2>2
    <2>3. CASE c # i
      BY <1>1, <1>5, <2>1, <2>3
    <2> QED
      BY <2>2, <2>3
  <1> QED
    BY <1>12, <1>13

\* A step of one worker that writes nothing keeps the whole invariant.
LEMMA MoveOK ==
  ASSUME CertInv, NEW w \in Workers, NEW s,
         UNCHANGED <<certs, given>>,
         made' \in Materials /\ made <= made',
         due' \subseteq CertIds,
         work' = [work EXCEPT ![w] = s],
         WorkOK(s, certs, given, made'),
         s.pc \in Holding <=> issuing' = w,
         issuing' = issuing \/ {issuing, issuing'} \subseteq {w, Nobody},
         s.pc = "validating" <=> alpn' = w,
         alpn' = alpn \/ (issuing = w /\ alpn' \in {w, Nobody}),
         ServesWhatIsStored'
  PROVE  CertInv'
  <1>1. /\ DOMAIN work' = Workers
        /\ \A v \in Workers : WorkOK(work'[v], certs', given', made')
        /\ work'[w] = s
        /\ \A v \in Workers \ {w} : work'[v].pc = work[v].pc
    BY OneMoves
  <1>2. IssueExclusive' /\ issuing' \in Workers \cup {Nobody} /\ alpn' \in Workers \cup {Nobody}
    BY <1>1, LockStep
  <1>3. RowsOK(certs', given', made')
    <2>1. RowsOK(certs, given, made)
      BY DEF CertInv
    <2>2. \A c \in DOMAIN certs : certs[c].material <= made'
      <3> SUFFICES ASSUME NEW c \in DOMAIN certs PROVE certs[c].material <= made'
        OBVIOUS
      <3>1. certs[c].material <= made /\ certs[c].material \in Int /\ made \in Int /\ made' \in Int
        BY <2>1, TableType DEF RowsOK, CertRow, Materials
      <3> QED
        BY <3>1
    <2> QED
      BY <2>1, <2>2 DEF RowsOK
  <1> QED
    BY <1>1, <1>2, <1>3 DEF CertInv

LEMMA WorkerFacts ==
  ASSUME CertInv, NEW w \in Workers
  PROVE  /\ work[w] \in WorkState /\ WorkOK(work[w], certs, given, made)
         /\ made \in Materials /\ MaxMaterial \in Nat
         /\ issuing = w <=> work[w].pc \in Holding
         /\ alpn = w <=> work[w].pc = "validating"
         /\ w # Nobody
         /\ due \subseteq CertIds
  BY CertificatesAssumption DEF CertInv, RowsOK, WorkOK, IssueExclusive, At

\* A step that writes nothing, as seen from the table and the index.
Quiet == UNCHANGED <<certs, given, made, index, uptodate>>

LEMMA QuietServes ==
  ASSUME CertInv, Quiet
  PROVE  /\ ServesWhatIsStored' /\ UNCHANGED <<certs, given>>
         /\ made' = made /\ made' \in Materials /\ made <= made'
  BY DEF CertInv, Quiet, ServesWhatIsStored, newCertIndex, RowsOK, Materials

\* A worker that goes back to rest, giving up the lock if it has it.
LEMMA RestOK ==
  ASSUME CertInv, NEW w \in Workers, Quiet, UNCHANGED <<alpn, due>>,
         work' = [work EXCEPT ![w] = Resting],
         work[w].pc # "validating",
         issuing' = IF work[w].pc \in Holding THEN Nobody ELSE issuing
  PROVE  CertInv'
  <1>1. /\ ServesWhatIsStored' /\ UNCHANGED <<certs, given>>
        /\ made' \in Materials /\ made <= made'
    BY QuietServes
  <1>2. WorkOK(Resting, certs, given, made') /\ Resting.pc = "resting"
    BY <1>1, RestingOK DEF Resting
  <1>3. Resting.pc \notin Holding /\ Resting.pc # "validating"
    BY <1>2 DEF Holding
  <1>4. issuing' # w /\ alpn' # w /\ (issuing' = issuing \/ {issuing, issuing'} \subseteq {w, Nobody})
        /\ due' \subseteq CertIds
    BY WorkerFacts
  <1> QED
    BY <1>1, <1>2, <1>3, <1>4, MoveOK

\* A worker that starts to issue certificate c.
LEMMA AskOK ==
  ASSUME CertInv, NEW w \in Workers, NEW c \in CertIds, Quiet, UNCHANGED <<issuing, alpn>>,
         work[w].pc = "resting", due' \subseteq CertIds,
         work' = [work EXCEPT ![w] = [Resting EXCEPT !.pc = "waiting", !.id = c]]
  PROVE  CertInv'
  <1> DEFINE s == [Resting EXCEPT !.pc = "waiting", !.id = c]
  <1>1. /\ ServesWhatIsStored' /\ UNCHANGED <<certs, given>>
        /\ made' \in Materials /\ made <= made'
    BY QuietServes
  <1>2. WorkOK(Resting, certs, given, made')
    BY <1>1, RestingOK
  <1>3. s \in WorkState /\ s.pc = "waiting" /\ s.cert = Resting.cert
    BY <1>2 DEF WorkState, WorkOK
  <1>4. work' = [work EXCEPT ![w] = s]
    OBVIOUS
  <1> HIDE DEF s
  <1>5. WorkOK(s, certs, given, made')
    BY <1>2, <1>3 DEF WorkOK, Reading
  <1>6. s.pc \notin Holding /\ s.pc # "validating"
    BY <1>3 DEF Holding
  <1>7. issuing # w /\ alpn # w
    BY WorkerFacts DEF Holding
  <1> QED
    BY <1>1, <1>4, <1>5, <1>6, <1>7, MoveOK

LEMMA AcquireOK ==
  ASSUME CertInv, NEW w \in Workers, Acquire(w)
  PROVE  CertInv'
  <1> DEFINE s == [work[w] EXCEPT !.pc = "getting"]
  <1>1. /\ work[w].pc = "waiting" /\ issuing = Nobody /\ issuing' = w /\ Quiet
        /\ UNCHANGED <<alpn, due>> /\ work' = [work EXCEPT ![w] = s]
    BY DEF Acquire, At, Become, Quiet
  <1>2. /\ ServesWhatIsStored' /\ UNCHANGED <<certs, given>>
        /\ made' = made /\ made' \in Materials /\ made <= made'
    BY <1>1, QuietServes
  <1>3. s \in WorkState /\ s.pc = "getting" /\ s.cert = work[w].cert
    BY WorkerFacts DEF WorkState, Holding
  <1> HIDE DEF s
  <1>4. WorkOK(s, certs, given, made')
    BY <1>2, <1>3, WorkerFacts DEF WorkOK, Reading
  <1>5. s.pc \in Holding /\ s.pc # "validating" /\ alpn' # w /\ due' \subseteq CertIds
    BY <1>1, <1>3, WorkerFacts DEF Holding
  <1> QED
    BY <1>1, <1>2, <1>4, <1>5, MoveOK

LEMMA GetOK ==
  ASSUME CertInv, NEW w \in Workers, Get(w)
  PROVE  CertInv'
  <1> DEFINE row == certs[work[w].id]
             s == [work[w] EXCEPT !.pc = "ordering", !.cert = row]
  <1>1. /\ work[w].pc = "getting" /\ work[w].id \in DOMAIN certs /\ Quiet
        /\ UNCHANGED <<alpn, due, issuing>> /\ work' = [work EXCEPT ![w] = s]
    BY DEF Get, At, Become, Quiet
  <1>2. /\ ServesWhatIsStored' /\ UNCHANGED <<certs, given>>
        /\ made' = made /\ made' \in Materials /\ made <= made'
    BY <1>1, QuietServes
  <1>3. row \in CertRow /\ row.material <= made /\ work[w].id \in given
    BY <1>1, TableType DEF CertInv, RowsOK
  <1>4. s \in WorkState /\ s.pc = "ordering" /\ s.cert = row /\ s.id = work[w].id
    BY <1>3, WorkerFacts DEF WorkState, Holding
  <1> HIDE DEF s
  <1>5. WorkOK(s, certs, given, made')
    BY <1>2, <1>3, <1>4 DEF WorkOK, Reading
  <1>6. s.pc \in Holding /\ s.pc # "validating" /\ alpn' # w /\ issuing' = w /\ due' \subseteq CertIds
    BY <1>1, <1>4, WorkerFacts DEF Holding
  <1> QED
    BY <1>1, <1>2, <1>5, <1>6, MoveOK

\* The order goes on with the record it read.
LEMMA OrderMoves ==
  ASSUME CertInv, NEW w \in Workers, NEW s \in WorkState,
         work[w].pc \in {"ordering", "validating", "finalizing"},
         s.id = work[w].id, s.cert.material = work[w].cert.material,
         \/ s.pc = "validating" /\ alpn' = w
         \/ /\ s.pc \in {"finalizing", "recording"}
            /\ alpn' = IF work[w].pc = "validating" THEN Nobody ELSE alpn,
         work' = [work EXCEPT ![w] = s],
         Quiet, UNCHANGED <<due, issuing>>
  PROVE  CertInv'
  <1>1. /\ ServesWhatIsStored' /\ UNCHANGED <<certs, given>>
        /\ made' = made /\ made' \in Materials /\ made <= made'
    BY QuietServes
  <1>2. WorkOK(s, certs, given, made')
    BY <1>1, WorkerFacts DEF WorkOK, Reading
  <1>3. s.pc \in Holding /\ issuing' = w /\ issuing = w /\ (s.pc = "validating" <=> alpn' = w)
        /\ (alpn' = alpn \/ alpn' \in {w, Nobody}) /\ due' \subseteq CertIds
    BY WorkerFacts DEF Holding
  <1> QED
    BY <1>1, <1>2, <1>3, MoveOK

LEMMA PrepareOK ==
  ASSUME CertInv, NEW w \in Workers, Prepare(w)
  PROVE  CertInv'
  <1> DEFINE s == [work[w] EXCEPT !.pc = "validating"]
  <1>1. /\ work[w].pc = "ordering" /\ alpn' = w /\ work' = [work EXCEPT ![w] = s]
        /\ Quiet /\ UNCHANGED <<due, issuing>>
    BY DEF Prepare, At, Become, Quiet
  <1>2. s \in WorkState /\ s.pc = "validating" /\ s.id = work[w].id /\ s.cert = work[w].cert
    BY WorkerFacts DEF WorkState, Holding
  <1> HIDE DEF s
  <1> QED
    BY <1>1, <1>2, OrderMoves

LEMMA AuthorizedOK ==
  ASSUME CertInv, NEW w \in Workers, Authorized(w)
  PROVE  CertInv'
  <1> DEFINE s == [work[w] EXCEPT !.pc = "finalizing"]
  <1>1. /\ work[w].pc \in {"ordering", "validating"} /\ work' = [work EXCEPT ![w] = s]
        /\ alpn' = IF work[w].pc = "validating" THEN Nobody ELSE alpn
        /\ Quiet /\ UNCHANGED <<due, issuing>>
    BY DEF Authorized, At, Become, Quiet
  <1>2. s \in WorkState /\ s.pc = "finalizing" /\ s.id = work[w].id /\ s.cert = work[w].cert
    BY WorkerFacts DEF WorkState, Holding
  <1> HIDE DEF s
  <1> QED
    BY <1>1, <1>2, OrderMoves

LEMMA ObtainFailsOK ==
  ASSUME CertInv, NEW w \in Workers, ObtainFails(w)
  PROVE  CertInv'
  <1> DEFINE row == [work[w].cert EXCEPT !.lastError = TRUE]
             s == [work[w] EXCEPT !.pc = "recording", !.cert = row]
  <1>1. /\ work[w].pc \in {"ordering", "validating", "finalizing"}
        /\ alpn' = IF work[w].pc = "validating" THEN Nobody ELSE alpn
        /\ Quiet /\ UNCHANGED <<due, issuing>>
    BY DEF ObtainFails, At, Quiet
  <1>2. work[w] \in WorkState
    BY WorkerFacts
  <1>3. [work[w] EXCEPT !.pc = "recording", !.cert.lastError = TRUE] = s
    BY <1>2 DEF WorkState
  <1>4. work' = [work EXCEPT ![w] = s]
    BY <1>3 DEF ObtainFails, Become
  <1>5. row \in CertRow /\ row.material = work[w].cert.material
    BY <1>2 DEF WorkState, CertRow
  <1> HIDE DEF row
  <1>6. s \in WorkState /\ s.pc = "recording" /\ s.id = work[w].id /\ s.cert = row
    BY <1>2, <1>5 DEF WorkState, Holding
  <1> HIDE DEF s
  <1> QED
    BY <1>1, <1>4, <1>5, <1>6, OrderMoves

LEMMA ObtainOK ==
  ASSUME CertInv, NEW w \in Workers, Obtain(w)
  PROVE  CertInv'
  <1> DEFINE row == [work[w].cert EXCEPT !.material = made', !.lastError = FALSE]
             s == [work[w] EXCEPT !.pc = "saving", !.cert = row]
  <1>1. /\ work[w].pc = "finalizing" /\ made < MaxMaterial /\ made' = made + 1
        /\ UNCHANGED <<certs, given, index, issuing, alpn, due, uptodate>>
    BY DEF Obtain, At
  <1>2. /\ work[w] \in WorkState /\ WorkOK(work[w], certs, given, made) /\ work[w].cert \in CertRow
        /\ RowsOK(certs, given, made)
    BY WorkerFacts DEF WorkState, CertInv
  <1>3. [work[w] EXCEPT !.pc = "saving", !.cert.material = made', !.cert.lastError = FALSE] = s
    BY <1>2 DEF WorkState, CertRow
  <1>4. work' = [work EXCEPT ![w] = s]
    BY <1>3 DEF Obtain, Become
  <1>5. made \in Materials /\ made' \in Materials /\ made <= made'
    BY <1>1, WorkerFacts DEF Materials
  <1>6. row \in CertRow /\ row.material = made'
    BY <1>2, <1>5 DEF CertRow
  <1> HIDE DEF row
  <1>7. s \in WorkState /\ s.pc = "saving" /\ s.id = work[w].id /\ s.cert = row
    BY <1>2, <1>6 DEF WorkState, Holding
  <1> HIDE DEF s
  <1>8. s.id \in given
    BY <1>1, <1>2, <1>7 DEF WorkOK, Reading
  <1>9. s.id \in DOMAIN certs => certs[s.id].material <= made'
    <2>1. ASSUME s.id \in DOMAIN certs PROVE certs[s.id].material <= made'
      <3>1. certs[s.id].material <= made /\ certs[s.id].material \in Int
        BY <1>2, <2>1, TableType DEF RowsOK, CertRow, Materials
      <3> QED
        BY <1>5, <3>1 DEF Materials
    <2> QED
      BY <2>1
  <1>10. made' <= made'
    BY <1>5 DEF Materials
  <1>11. WorkOK(s, certs, given, made')
    BY <1>6, <1>7, <1>8, <1>9, <1>10 DEF WorkOK, Reading
  <1>12. s.pc \in Holding /\ s.pc # "validating" /\ alpn' # w /\ issuing' = w /\ due' \subseteq CertIds
    BY <1>1, <1>7, WorkerFacts DEF Holding
  <1>13. ServesWhatIsStored'
    BY <1>1 DEF CertInv, ServesWhatIsStored, newCertIndex
  <1> QED
    BY <1>1, <1>4, <1>5, <1>11, <1>12, <1>13, MoveOK

LEMMA TimeoutOK ==
  ASSUME CertInv, NEW w \in Workers, Timeout(w)
  PROVE  CertInv'
  <1> DEFINE s == [work[w] EXCEPT !.expired = TRUE]
  <1>1. Quiet /\ UNCHANGED <<issuing, alpn, due>>
    BY DEF Timeout, Quiet
  <1>2. work' = [work EXCEPT ![w] = s]
    BY DEF Timeout
  <1>3. /\ ServesWhatIsStored' /\ UNCHANGED <<certs, given>>
        /\ made' = made /\ made' \in Materials /\ made <= made'
    BY <1>1, QuietServes
  <1>4. /\ s \in WorkState /\ s.pc = work[w].pc /\ s.id = work[w].id /\ s.cert = work[w].cert
        /\ s.listed = work[w].listed /\ s.quiet = work[w].quiet
    <2>1. work[w] \in WorkState
      BY WorkerFacts
    <2> QED
      BY <2>1 DEF WorkState
  <1> HIDE DEF s
  <1>5. WorkOK(s, certs, given, made')
    BY <1>3, <1>4, WorkerFacts DEF WorkOK
  <1>6. (s.pc \in Holding <=> issuing' = w) /\ (s.pc = "validating" <=> alpn' = w) /\ due' \subseteq CertIds
    BY <1>1, <1>4, WorkerFacts
  <1> QED
    BY <1>1, <1>2, <1>3, <1>5, <1>6, MoveOK

\* The read of the table in Reload.
LEMMA ListOK ==
  ASSUME CertInv, NEW w \in Workers, List(w)
  PROVE  CertInv'
  <1> DEFINE p == IF work[w].pc = "listing" THEN "publishing" ELSE "republishing"
             s == [work[w] EXCEPT !.pc = p, !.listed = certs, !.quiet = TRUE]
  <1>1. /\ work[w].pc \in {"listing", "relisting"} /\ Quiet
        /\ UNCHANGED <<alpn, due, issuing>> /\ work' = [work EXCEPT ![w] = s]
    BY DEF List, At, Become, Quiet
  <1>2. /\ ServesWhatIsStored' /\ UNCHANGED <<certs, given>>
        /\ made' = made /\ made' \in Materials /\ made <= made'
    BY <1>1, QuietServes
  <1>3. certs \in CertTable
    BY DEF CertInv, RowsOK
  <1>4. p \in {"publishing", "republishing"} /\ (p \in Holding <=> work[w].pc \in Holding)
    BY <1>1 DEF Holding
  <1> HIDE DEF p
  <1>5. /\ s \in WorkState /\ s.pc = p /\ s.cert = work[w].cert /\ s.listed = certs
    BY <1>3, <1>4, WorkerFacts DEF WorkState, Holding
  <1> HIDE DEF s
  <1>6. WorkOK(s, certs, given, made')
    BY <1>2, <1>4, <1>5, WorkerFacts DEF WorkOK, Reading
  <1>7. (s.pc \in Holding <=> issuing' = w) /\ s.pc # "validating" /\ alpn' # w /\ due' \subseteq CertIds
    BY <1>1, <1>4, <1>5, WorkerFacts
  <1> QED
    BY <1>1, <1>2, <1>6, <1>7, MoveOK

\* The index is swapped: what the list holds is the table if nothing was
\* written since it was read.
LEMMA PublishOK ==
  ASSUME CertInv, NEW w \in Workers, Publish(w)
  PROVE  CertInv'
  <1>1. /\ work[w].pc \in {"publishing", "republishing"} /\ index' = newCertIndex(work[w].listed)
        /\ uptodate' = work[w].quiet
        /\ issuing' = IF work[w].pc = "republishing" THEN Nobody ELSE issuing
        /\ work' = [work EXCEPT ![w] = Resting]
        /\ UNCHANGED <<certs, given, made, alpn, due>>
    BY DEF Publish, At, Become
  <1>2. made' \in Materials /\ made <= made'
    BY <1>1, WorkerFacts DEF Materials
  <1>3. uptodate' => work[w].listed = certs
    BY <1>1, WorkerFacts DEF WorkOK
  <1>4. ServesWhatIsStored'
    <2>1. ASSUME uptodate' PROVE index' = newCertIndex(certs)
      BY <1>1, <1>3, <2>1
    <2> QED
      BY <1>1, <2>1 DEF ServesWhatIsStored, newCertIndex
  <1>5. WorkOK(Resting, certs, given, made') /\ Resting.pc = "resting"
    BY <1>2, RestingOK DEF Resting
  <1>6. Resting.pc \notin Holding /\ Resting.pc # "validating"
    BY <1>5 DEF Holding
  <1>7. issuing' # w /\ alpn' # w /\ (issuing' = issuing \/ {issuing, issuing'} \subseteq {w, Nobody})
        /\ due' \subseteq CertIds
    BY <1>1, WorkerFacts DEF Holding
  <1> QED
    BY <1>1, <1>2, <1>4, <1>5, <1>6, <1>7, MoveOK

\* The ways an Issue or a Reload gives up.
LEMMA FailsOK ==
  ASSUME CertInv, NEW w \in Workers, GetFails(w) \/ UpdateFails(w) \/ ListFails(w)
  PROVE  CertInv'
  <1>1. /\ Quiet /\ UNCHANGED <<alpn, due>> /\ work' = [work EXCEPT ![w] = Resting]
    BY DEF GetFails, UpdateFails, ListFails, Quiet, Become
  <1>2. /\ work[w].pc \in {"getting", "saving", "recording", "relisting", "listing"}
        /\ issuing' = IF work[w].pc = "listing" THEN issuing ELSE Nobody
    BY DEF GetFails, UpdateFails, ListFails, At
  <1>3. work[w].pc # "validating" /\ (work[w].pc \in Holding <=> work[w].pc # "listing")
    BY <1>2 DEF Holding
  <1> QED
    BY <1>1, <1>2, <1>3, RestOK

\* Issue's two writes never take the table back to older material.
LEMMA IssueWrites ==
  ASSUME CertInv, NEW w \in Workers, Save(w) \/ Record(w)
  PROVE  CertInv' /\ \A c \in DOMAIN certs \cap DOMAIN certs' : certs'[c].material >= certs[c].material
  <1>1. CASE Save(w)
    <2> DEFINE s == [work[w] EXCEPT !.pc = "relisting", !.quiet = TRUE]
               rows == [certs EXCEPT ![work[w].id] = work[w].cert]
    <2>1. /\ work[w].pc = "saving" /\ Update(w, s)
          /\ UNCHANGED <<given, made, index, issuing, alpn, due>>
      BY <1>1 DEF Save, At
    <2>2. s \in WorkState /\ s.pc = "relisting" /\ s.cert = work[w].cert
      BY WorkerFacts DEF WorkState, Holding
    <2> HIDE DEF s, rows
    <2>3. WorkOK(s, rows, given, made)
      BY <2>2, WorkerFacts DEF WorkOK, Reading
    <2>4. WorkOK(s, [certs EXCEPT ![work[w].id] = work[w].cert], given, made)
      BY <2>3 DEF rows
    <2> QED
      BY <2>1, <2>2, <2>4, UpdateOK
  <1>2. CASE Record(w)
    <2>1. /\ work[w].pc = "recording" /\ Update(w, Resting) /\ issuing' = Nobody
          /\ UNCHANGED <<given, made, index, alpn, due>>
      BY <1>2 DEF Record, At
    <2>2. WorkOK(Resting, [certs EXCEPT ![work[w].id] = work[w].cert], given, made)
      BY WorkerFacts, RestingOK
    <2>3. Resting.pc = "resting"
      BY DEF Resting
    <2> QED
      BY <2>1, <2>2, <2>3, UpdateOK
  <1> QED
    BY <1>1, <1>2

\* The round of the ticker, and one certificate of it.
LEMMA RunOK ==
  ASSUME CertInv, renewDue \/ \E c \in CertIds : NextDue(c)
  PROVE  CertInv'
  <1>1. CASE renewDue
    <2>1. /\ UNCHANGED <<certs, given, made, index, issuing, alpn, work, uptodate>>
          /\ due' \subseteq DOMAIN certs
      BY <1>1 DEF renewDue
    <2>2. DOMAIN certs \subseteq CertIds
      BY TableType DEF CertInv, RowsOK
    <2> QED
      BY <2>1, <2>2 DEF CertInv, IssueExclusive, At, ServesWhatIsStored, newCertIndex
  <1>2. ASSUME NEW c \in CertIds, NextDue(c) PROVE CertInv'
    <2>1. /\ Runner \in Workers /\ Quiet /\ UNCHANGED <<issuing, alpn>> /\ work[Runner].pc = "resting"
          /\ due' \subseteq CertIds
          /\ work' = [work EXCEPT ![Runner] = [Resting EXCEPT !.pc = "waiting", !.id = c]]
      BY <1>2, CertificatesAssumption DEF NextDue, Quiet, At, Become, CertInv
    <2> QED
      BY <2>1, AskOK
  <1> QED
    BY <1>1, <1>2

LEMMA IssueOK ==
  ASSUME CertInv, NEW w \in Workers, NEW c \in CertIds, IssueCertificate(w, c)
  PROVE  CertInv'
  <1>1. /\ Quiet /\ UNCHANGED <<issuing, alpn>> /\ work[w].pc = "resting"
        /\ due' \subseteq CertIds
        /\ work' = [work EXCEPT ![w] = [Resting EXCEPT !.pc = "waiting", !.id = c]]
    BY DEF IssueCertificate, Quiet, At, Become, CertInv
  <1> QED
    BY <1>1, AskOK

LEMMA CertInvInit == CertificatesInit => CertInv
  <1> SUFFICES ASSUME CertificatesInit PROVE CertInv
    OBVIOUS
  <1>1. /\ certs = <<>> /\ given = {} /\ made = 0 /\ index = <<>> /\ issuing = Nobody /\ alpn = Nobody
        /\ due = {} /\ work = [w \in Workers |-> Resting]
    BY DEF CertificatesInit
  <1>2. made \in Materials
    BY <1>1, CertificatesAssumption DEF Materials
  <1>3. certs \in CertTable /\ DOMAIN certs = {}
    <2>1. <<>> \in [{} -> CertRow]
      OBVIOUS
    <2> QED
      BY <1>1, <2>1 DEF CertTable
  <1>4. RowsOK(certs, given, made)
    BY <1>1, <1>2, <1>3 DEF RowsOK
  <1>5. \A w \in Workers : WorkOK(work[w], certs, given, made)
    BY <1>1, <1>2, RestingOK
  <1>6. Resting.pc = "resting"
    BY DEF Resting
  <1>7. IssueExclusive
    BY <1>1, <1>6, CertificatesAssumption DEF IssueExclusive, At, Holding
  <1>8. ServesWhatIsStored
    <2>1. newCertIndex(certs) = [c \in {} |-> certs[c].material]
      BY <1>3 DEF newCertIndex
    <2>2. [c \in {} |-> certs[c].material] = <<>>
      OBVIOUS
    <2> QED
      BY <1>1, <2>1, <2>2 DEF ServesWhatIsStored
  <1> QED
    BY <1>1, <1>4, <1>5, <1>7, <1>8 DEF CertInv

\* A step keeps the invariant and takes no row back to older material.
Monotone == \A c \in DOMAIN certs \cap DOMAIN certs' : certs'[c].material >= certs[c].material

LEMMA SameRows ==
  ASSUME CertInv, \A c \in DOMAIN certs \cap DOMAIN certs' : certs'[c].material = certs[c].material
  PROVE  Monotone
  <1>1. \A c \in DOMAIN certs : certs[c].material \in Int
    BY TableType DEF CertInv, RowsOK, CertRow, Materials
  <1> QED
    BY <1>1 DEF Monotone

LEMMA CertInvNext ==
  ASSUME CertInv, [CertificatesNext]_certVars
  PROVE  CertInv' /\ Monotone
  <1>1. CASE UNCHANGED certVars
    <2>1. UNCHANGED <<certs, given, made, index, issuing, alpn, due, work, uptodate>>
      BY <1>1 DEF certVars
    <2>2. Monotone
      BY <2>1, SameRows
    <2> QED
      BY <2>1, <2>2 DEF CertInv, IssueExclusive, At, ServesWhatIsStored, newCertIndex
  <1>2. CASE renewDue \/ \E c \in CertIds : NextDue(c)
    <2>1. certs' = certs
      BY <1>2 DEF renewDue, NextDue
    <2> QED
      BY <1>2, <2>1, RunOK, SameRows
  <1>3. ASSUME NEW w \in Workers, NEW c \in CertIds, NEW acme \in BOOLEAN, CreateCertificate(w, c, acme)
        PROVE  CertInv' /\ Monotone
    <2>1. c \notin DOMAIN certs
      BY <1>3 DEF CreateCertificate, CertInv, RowsOK
    <2>2. certs' = [d \in DOMAIN certs \cup {c} |->
                    IF d # c THEN certs[d]
                    ELSE [acme |-> acme, material |-> IF acme THEN 0 ELSE made', lastError |-> FALSE]]
      BY <1>3 DEF CreateCertificate, Wrote
    <2>3. \A d \in DOMAIN certs : certs'[d] = certs[d]
      BY <2>1, <2>2
    <2> QED
      BY <1>3, <2>3, CreateOK, SameRows
  <1>4. ASSUME NEW w \in Workers, NEW c \in CertIds, DeleteCertificate(w, c)
        PROVE  CertInv' /\ Monotone
    <2>1. certs' = [d \in DOMAIN certs \ {c} |-> certs[d]]
      BY <1>4 DEF DeleteCertificate, Wrote
    <2> QED
      BY <1>4, <2>1, DeleteOK, SameRows
  <1>5. ASSUME NEW w \in Workers, NEW c \in CertIds, IssueCertificate(w, c)
        PROVE  CertInv' /\ Monotone
    <2>1. certs' = certs
      BY <1>5 DEF IssueCertificate
    <2> QED
      BY <1>5, <2>1, IssueOK, SameRows
  <1>6. ASSUME NEW w \in Workers, Save(w) \/ Record(w) PROVE CertInv' /\ Monotone
    BY <1>6, IssueWrites DEF Monotone
  <1>7. ASSUME NEW w \in Workers,
               \/ Timeout(w) \/ Acquire(w) \/ GetFails(w) \/ Get(w) \/ Prepare(w) \/ Authorized(w)
               \/ Obtain(w) \/ ObtainFails(w) \/ UpdateFails(w) \/ List(w) \/ ListFails(w) \/ Publish(w)
        PROVE  CertInv' /\ Monotone
    <2>1. certs' = certs
      BY <1>7 DEF Timeout, Acquire, GetFails, Get, Prepare, Authorized, Obtain, ObtainFails, UpdateFails,
                  List, ListFails, Publish
    <2>2. Monotone
      BY <2>1, SameRows
    <2> QED
      BY <1>7, <2>2, TimeoutOK, AcquireOK, GetOK, PrepareOK, AuthorizedOK, ObtainOK, ObtainFailsOK,
         FailsOK, ListOK, PublishOK
  <1> QED
    BY <1>1, <1>2, <1>3, <1>4, <1>5, <1>6, <1>7 DEF CertificatesNext

LEMMA CertInvariance == CertificatesSpec => []CertInv
  <1>1. CertInv /\ [CertificatesNext]_certVars => CertInv'
    BY CertInvNext
  <1> QED
    BY <1>1, CertInvInit, PTL DEF CertificatesSpec

\* One Issue at a time: the challenge certificate published for a name is that of
\* the order being validated, and the lock is free exactly when no Issue is under
\* way, whichever way earlier ones ended.
THEOREM IssuesAreExclusive == CertificatesSpec => []IssueExclusive
  <1>1. CertInv => IssueExclusive
    BY DEF CertInv
  <1> QED
    BY <1>1, CertInvariance, PTL

\* A Reload that no write overlapped leaves exactly the stored material served.
THEOREM ServedAsStored == CertificatesSpec => []ServesWhatIsStored
  <1>1. CertInv => ServesWhatIsStored
    BY DEF CertInv
  <1> QED
    BY <1>1, CertInvariance, PTL

\* No step of any number of handlers, orders and renewals writes older key
\* material over newer.
THEOREM MaterialIsMonotone == CertificatesSpec => MaterialNeverRegresses
  <1>1. CertInv /\ [CertificatesNext]_certVars
          => [\A c \in DOMAIN certs \cap DOMAIN certs' : certs'[c].material >= certs[c].material]_certVars
    BY CertInvNext DEF Monotone
  <1> QED
    BY <1>1, CertInvariance, PTL DEF CertificatesSpec, MaterialNeverRegresses

-----------------------------------------------------------------------------
(* Configuration. *)

\* A list that was deleted: its id is spent and no row has it.
Gone(l, db, sp) == l \in sp /\ l \notin DOMAIN db.lists

\* A database, with the ids given out: one entry per table, every list restricts
\* something, and every host refers to a list that is there.
StoreOK(db, sp) ==
    /\ db = [t \in Tables |-> db[t]]
    /\ DOMAIN db.lists \subseteq ListIds \cap sp
    /\ \A l \in DOMAIN db.lists : db.lists[l] \in BOOLEAN
    /\ \A l \in DOMAIN db.lists : l \in db.rules \cup db.users
    /\ \A l \in DOMAIN db.lists : db.lists[l] => l \in db.rules \cap db.users
    /\ ReferencesHeld(db)

\* What is read of list l still is what the table holds.
Steady(q, l, db) ==
    /\ l \in DOMAIN db.lists /\ q.read.lists[l] = db.lists[l]
    /\ q.next > 6 => (l \in q.read.rules <=> l \in db.rules)

\* What an applyConfig under way has read, by how far it is: a list it found is
\* unchanged, or deleted since, or torn, and once all of its children are read it
\* restricts something; a list that it misses is gone for good.
ReadOK(q, db, sp, tn) ==
    /\ q.next > 1 => \A h \in DOMAIN q.read.hosts : q.read.hosts[h].list \in sp \cup {None}
    /\ q.next > 5 => /\ \A h \in DOMAIN q.read.hosts :
                           \/ q.read.hosts[h].list \in DOMAIN q.read.lists \cup {None}
                           \/ Gone(q.read.hosts[h].list, db, sp)
                     /\ \A l \in DOMAIN q.read.lists :
                           \/ Gone(l, db, sp) \/ l \in tn
                           \/ q.next <= 7 /\ Steady(q, l, db)
                           \/ q.next > 7 /\ Enforced(q.read, l) # {}

\* Nothing was committed since it began: every table it has read is current.
CurrentOK(q, db) == q.alone => \A k \in 1 .. 7 : k < q.next => q.read[Queries[k]] = db[Queries[k]]

EditOps == {"saveHost", "deleteHost", "saveRedirect", "deleteRedirect", "createList", "updateList", "deleteList"}

EditOK(q) ==
    /\ DOMAIN q = {"pc", "op", "id", "row", "domains", "read", "next", "alone"}
    /\ q.read = [t \in Tables |-> q.read[t]]
    /\ q.next \in 1 .. 8
    /\ q.alone \in BOOLEAN
    /\ q.pc \notin {"idle", "applying"} => /\ q.op \in EditOps
                                           /\ q.op \in {"createList", "updateList"} => q.row \in Restrictions

RequestOK(q, db, sp, tn) ==
    EditOK(q) /\ (q.pc = "applying" => ReadOK(q, db, sp, tn) /\ CurrentOK(q, db))

\* A route enforces its list, or the list is gone or was torn.
RoutesOK(run, db, sp, tn) ==
    \A h \in DOMAIN run.routes :
       \/ run.routes[h].list = None \/ Gone(run.routes[h].list, db, sp)
       \/ run.routes[h].list \in tn \/ run.routes[h].access # {}

\* The inductive invariant.
ConfigInv ==
    /\ StoreOK(store, spent)
    /\ DOMAIN edit = Editors
    /\ \A e \in Editors : RequestOK(edit[e], store, spent, torn)
    /\ RoutesOK(running, store, spent, torn)
    /\ ExactWhenAlone

LEMMA QueryNames ==
  /\ Len(Queries) = 7
  /\ Queries[1] = "hosts" /\ Queries[2] = "hostDomains" /\ Queries[3] = "redirects"
  /\ Queries[4] = "redirectDomains" /\ Queries[5] = "lists" /\ Queries[6] = "rules" /\ Queries[7] = "users"
  BY DEF Queries

LEMMA QueriesRead == Tables = {Queries[k] : k \in 1 .. 7}
  BY QueryNames DEF Tables

\* Every list in a database that the schema admits restricts something.
LEMMA ListEnforced ==
  ASSUME NEW db, NEW l, l \in DOMAIN db.lists, db.lists[l] \in BOOLEAN,
         l \in db.rules \cup db.users, db.lists[l] => l \in db.rules \cap db.users
  PROVE  Enforced(db, l) # {}
  <1>1. CASE l \in db.rules
    <2>1. "rules" \in Enforced(db, l)
      BY <1>1 DEF Enforced
    <2> QED
      BY <2>1
  <1>2. CASE l \notin db.rules
    <2>1. l \in db.users /\ ~db.lists[l]
      BY <1>2
    <2>2. "users" \in Enforced(db, l)
      BY <2>1 DEF Enforced
    <2> QED
      BY <2>2
  <1> QED
    BY <1>1, <1>2

\* The routes of a table built from a configuration.
LEMMA TableBuilt ==
  ASSUME NEW cfg
  PROVE  /\ DOMAIN buildRoutingTable(cfg).routes = DOMAIN cfg.hosts
         /\ \A h \in DOMAIN cfg.hosts :
              /\ buildRoutingTable(cfg).routes[h].list = cfg.hosts[h].list
              /\ buildRoutingTable(cfg).routes[h].access = Enforced(cfg, cfg.hosts[h].list)
  BY DEF buildRoutingTable

\* What a transaction may do to the lists: a list that is gone stays gone, and
\* only an update of list id changes one that stays.
ListsStep(old, new, sp, updating, id) ==
    /\ \A l : Gone(l, old, sp) => l \notin DOMAIN new.lists
    /\ \A l \in DOMAIN old.lists \cap DOMAIN new.lists :
          \/ new.lists[l] = old.lists[l] /\ (l \in new.rules <=> l \in old.rules)
          \/ updating /\ l = id
    /\ DOMAIN new.lists \subseteq ListIds

LEMMA HostStep ==
  ASSUME NEW sp, StoreOK(store, sp), NEW db, NEW hosts, NEW domains, NEW up, NEW id,
         db = [store EXCEPT !.hosts = hosts, !.hostDomains = domains],
         \A h \in DOMAIN hosts : hosts[h].list \in DOMAIN store.lists \cup {None}
  PROVE  StoreOK(db, sp) /\ ListsStep(store, db, sp, up, id)
  <1>1. DOMAIN store = Tables
    BY DEF StoreOK
  <1>2. /\ db = [t \in Tables |-> db[t]] /\ db.hosts = hosts
        /\ db.lists = store.lists /\ db.rules = store.rules /\ db.users = store.users
    BY <1>1 DEF Tables
  <1>3. ReferencesHeld(db)
    BY <1>2 DEF ReferencesHeld
  <1>4. StoreOK(db, sp)
    BY <1>2, <1>3 DEF StoreOK
  <1>5. ListsStep(store, db, sp, up, id)
    BY <1>2 DEF ListsStep, Gone, StoreOK
  <1> QED
    BY <1>4, <1>5

LEMMA RedirectStep ==
  ASSUME NEW sp, StoreOK(store, sp), NEW db, NEW redirects, NEW domains, NEW up, NEW id,
         db = [store EXCEPT !.redirects = redirects, !.redirectDomains = domains]
  PROVE  StoreOK(db, sp) /\ ListsStep(store, db, sp, up, id)
  <1>1. DOMAIN store = Tables
    BY DEF StoreOK
  <1>2. /\ db = [t \in Tables |-> db[t]] /\ db.hosts = store.hosts
        /\ db.lists = store.lists /\ db.rules = store.rules /\ db.users = store.users
    BY <1>1 DEF Tables
  <1>3. ReferencesHeld(db)
    BY <1>2 DEF ReferencesHeld, StoreOK
  <1>4. StoreOK(db, sp)
    BY <1>2, <1>3 DEF StoreOK
  <1>5. ListsStep(store, db, sp, up, id)
    BY <1>2 DEF ListsStep, Gone, StoreOK
  <1> QED
    BY <1>4, <1>5

\* A list put in place with its children, under a new id or, updating, its own.
LEMMA PutStep ==
  ASSUME NEW sp, StoreOK(store, sp), NEW l \in ListIds, NEW x \in Restrictions, NEW db,
         NEW up \in BOOLEAN, db = PutList(l, x), up \/ l \notin sp, up => l \in DOMAIN store.lists
  PROVE  StoreOK(db, sp \cup {l}) /\ ListsStep(store, db, sp, up, l)
  <1> DEFINE lists == With(store.lists, l, x.any)
             rules == IF "rules" \in x.halves THEN store.rules \cup {l} ELSE store.rules \ {l}
             people == IF "users" \in x.halves THEN store.users \cup {l} ELSE store.users \ {l}
  <1>1. DOMAIN store = Tables
    BY DEF StoreOK
  <1>2. x.any \in BOOLEAN /\ x.halves \subseteq {"rules", "users"} /\ x.halves # {}
        /\ (x.any => x.halves = {"rules", "users"})
    BY DEF Restrictions
  <1>3. /\ DOMAIN lists = DOMAIN store.lists \cup {l} /\ lists[l] = x.any
        /\ \A m \in DOMAIN store.lists \ {l} : lists[m] = store.lists[m]
    BY DEF With
  <1>4. l \in rules \cup people /\ (x.any => l \in rules \cap people)
    BY <1>2
  <1>5. \A m : m # l => (m \in rules <=> m \in store.rules) /\ (m \in people <=> m \in store.users)
    OBVIOUS
  <1>6. db = [store EXCEPT !.lists = lists, !.rules = rules, !.users = people]
    BY <1>1 DEF PutList, Tables
  <1> HIDE DEF lists, rules, people
  <1>7. /\ db = [t \in Tables |-> db[t]] /\ db.hosts = store.hosts
        /\ db.lists = lists /\ db.rules = rules /\ db.users = people
    BY <1>1, <1>6 DEF Tables
  <1>8. ReferencesHeld(db)
    BY <1>3, <1>7 DEF ReferencesHeld, StoreOK
  <1>9. StoreOK(db, sp \cup {l})
    <2>1. \A m \in DOMAIN db.lists : /\ db.lists[m] \in BOOLEAN /\ m \in db.rules \cup db.users
                                     /\ db.lists[m] => m \in db.rules \cap db.users
      BY <1>2, <1>3, <1>4, <1>5, <1>7 DEF StoreOK
    <2>2. DOMAIN db.lists \subseteq ListIds \cap (sp \cup {l})
      BY <1>3, <1>7 DEF StoreOK
    <2> QED
      BY <1>7, <1>8, <2>1, <2>2 DEF StoreOK
  <1>10. ListsStep(store, db, sp, up, l)
    <2>1. DOMAIN db.lists \subseteq ListIds
      BY <1>9 DEF StoreOK
    <2>2. \A m : Gone(m, store, sp) => m \notin DOMAIN db.lists
      BY <1>3, <1>7 DEF Gone
    <2>3. ASSUME NEW m \in DOMAIN store.lists \cap DOMAIN db.lists
          PROVE  \/ db.lists[m] = store.lists[m] /\ (m \in db.rules <=> m \in store.rules)
                 \/ up /\ m = l
      BY <1>3, <1>5, <1>7, <2>3 DEF StoreOK
    <2> QED
      BY <2>1, <2>2, <2>3 DEF ListsStep
  <1> QED
    BY <1>9, <1>10

LEMMA DeleteStep ==
  ASSUME NEW sp, StoreOK(store, sp), NEW l, NotReferred(l), NEW db, NEW up, NEW id,
         db = [store EXCEPT !.lists = Without(@, l), !.rules = @ \ {l}, !.users = @ \ {l}]
  PROVE  StoreOK(db, sp) /\ ListsStep(store, db, sp, up, id)
  <1>1. DOMAIN store = Tables
    BY DEF StoreOK
  <1>2. /\ db = [t \in Tables |-> db[t]] /\ db.hosts = store.hosts
        /\ db.lists = Without(store.lists, l) /\ db.rules = store.rules \ {l} /\ db.users = store.users \ {l}
    BY <1>1 DEF Tables
  <1>3. /\ DOMAIN db.lists = DOMAIN store.lists \ {l}
        /\ \A m \in DOMAIN db.lists : db.lists[m] = store.lists[m]
    BY <1>2 DEF Without
  <1>4. ReferencesHeld(db)
    BY <1>2, <1>3 DEF ReferencesHeld, StoreOK, NotReferred
  <1>5. StoreOK(db, sp)
    BY <1>2, <1>3, <1>4 DEF StoreOK
  <1>6. ListsStep(store, db, sp, up, id)
    BY <1>2, <1>3 DEF ListsStep, Gone, StoreOK
  <1> QED
    BY <1>5, <1>6

\* More ids are spent.
LEMMA SpentGrows ==
  ASSUME NEW db, NEW sp, NEW tp, StoreOK(db, sp), DOMAIN db.lists \subseteq tp
  PROVE  StoreOK(db, tp)
  BY DEF StoreOK

\* Whatever a transaction commits.
LEMMA WrittenOK ==
  ASSUME StoreOK(store, spent), NEW q, EditOK(q), q.pc = "writing", NEW db \in Written(q)
  PROVE  /\ StoreOK(db, spent \cup DOMAIN db.lists)
         /\ ListsStep(store, db, spent, q.op = "updateList", q.id)
  <1> DEFINE up == q.op = "updateList"
  <1> SUFFICES /\ StoreOK(db, spent) \/ \E l : StoreOK(db, spent \cup {l})
               /\ ListsStep(store, db, spent, up, q.id)
    <2>1. DOMAIN db.lists \subseteq spent \cup DOMAIN db.lists
      OBVIOUS
    <2> QED
      BY <2>1, SpentGrows
  <1>0. q.op \in EditOps /\ (q.op \in {"createList", "updateList"} => q.row \in Restrictions)
    BY DEF EditOK
  <1>1. CASE q.op = "saveHost"
    <2>1. db \in HostSaved(q)
      BY <1>1 DEF Written
    <2>2. PICK h : /\ db = [store EXCEPT !.hosts = With(@, h, q.row), !.hostDomains = Claim(@, h, q.domains)]
                   /\ q.row.list \in DOMAIN store.lists \cup {None}
      BY <2>1 DEF HostSaved
    <2> DEFINE hosts == With(store.hosts, h, q.row)
               domains == Claim(store.hostDomains, h, q.domains)
    <2>3. db = [store EXCEPT !.hosts = hosts, !.hostDomains = domains]
      BY <2>2 DEF StoreOK, Tables
    <2>4. \A i \in DOMAIN hosts : hosts[i].list \in DOMAIN store.lists \cup {None}
      BY <2>2 DEF With, StoreOK, ReferencesHeld
    <2> HIDE DEF hosts, domains
    <2> QED
      BY <2>3, <2>4, HostStep
  <1>2. CASE q.op = "deleteHost"
    <2>1. db \in HostDeleted(q)
      BY <1>2 DEF Written
    <2>2. PICK h : db = [store EXCEPT !.hosts = Without(@, h), !.hostDomains = Claim(@, h, {})]
      BY <2>1 DEF HostDeleted
    <2> DEFINE hosts == Without(store.hosts, h)
               domains == Claim(store.hostDomains, h, {})
    <2>3. db = [store EXCEPT !.hosts = hosts, !.hostDomains = domains]
      BY <2>2 DEF StoreOK, Tables
    <2>4. \A i \in DOMAIN hosts : hosts[i].list \in DOMAIN store.lists \cup {None}
      BY <2>2 DEF Without, StoreOK, ReferencesHeld
    <2> HIDE DEF hosts, domains
    <2> QED
      BY <2>3, <2>4, HostStep
  <1>3. CASE q.op \in {"saveRedirect", "deleteRedirect"}
    <2>1. PICK redirects, domains :
             db = [store EXCEPT !.redirects = redirects, !.redirectDomains = domains]
      <3>1. CASE q.op = "saveRedirect"
        <4>1. db \in RedirectSaved(q)
          BY <3>1 DEF Written
        <4> QED
          BY <4>1 DEF RedirectSaved, StoreOK, Tables
      <3>2. CASE q.op = "deleteRedirect"
        <4>1. db \in RedirectDeleted(q)
          BY <3>2 DEF Written
        <4> QED
          BY <4>1 DEF RedirectDeleted, StoreOK, Tables
      <3> QED
        BY <1>3, <3>1, <3>2
    <2> QED
      BY <2>1, RedirectStep
  <1>4. CASE q.op = "createList"
    <2>1. PICK l \in ListIds \ spent : db = PutList(l, q.row)
      BY <1>4 DEF Written
    <2>2. StoreOK(db, spent \cup {l}) /\ ListsStep(store, db, spent, FALSE, l)
      BY <1>0, <1>4, <2>1, PutStep
    <2>3. ListsStep(store, db, spent, up, q.id)
      BY <2>2 DEF ListsStep
    <2> QED
      BY <2>2, <2>3
  <1>5. CASE q.op = "updateList"
    <2>1. PICK l \in DOMAIN store.lists : l = q.id /\ db = PutList(l, q.row)
      BY <1>5 DEF Written
    <2>2. StoreOK(db, spent \cup {l}) /\ ListsStep(store, db, spent, TRUE, l)
      <3>1. l \in ListIds
        BY <2>1 DEF StoreOK
      <3> QED
        BY <1>0, <1>5, <2>1, <3>1, PutStep
    <2>3. ListsStep(store, db, spent, up, q.id)
      BY <1>5, <2>1, <2>2 DEF ListsStep
    <2> QED
      BY <2>2, <2>3
  <1>6. CASE q.op = "deleteList"
    <2>1. db \in ListDeleted(q)
      BY <1>6 DEF Written
    <2>2. PICK l : /\ NotReferred(l)
                   /\ db = [store EXCEPT !.lists = Without(@, l), !.rules = @ \ {l}, !.users = @ \ {l}]
      BY <2>1 DEF ListDeleted
    <2> QED
      BY <2>2, DeleteStep
  <1> QED
    BY <1>0, <1>1, <1>2, <1>3, <1>4, <1>5, <1>6 DEF EditOps

\* A request that has read nothing.
LEMMA NoEditOK ==
  /\ EditOK(NoEdit) /\ NoEdit.pc = "idle" /\ NoEdit.next = 1
  /\ NoEdit.read = Empty /\ NoEdit.alone = TRUE
  <1>1. /\ NoEdit.pc = "idle" /\ NoEdit.next = 1 /\ NoEdit.read = Empty /\ NoEdit.alone = TRUE
        /\ DOMAIN NoEdit = {"pc", "op", "id", "row", "domains", "read", "next", "alone"}
    BY DEF NoEdit
  <1>2. Empty = [t \in Tables |-> Empty[t]]
    BY DEF Empty, Tables
  <1>3. NoEdit.read = [t \in Tables |-> NoEdit.read[t]]
    BY <1>1, <1>2
  <1>4. NoEdit.next \in 1 .. 8
    BY <1>1
  <1>5. NoEdit.alone \in BOOLEAN
    BY <1>1
  <1> QED
    BY <1>1, <1>3, <1>4, <1>5 DEF EditOK

\* One request moves on without a commit.
LEMMA OneEdits ==
  ASSUME ConfigInv, NEW e \in Editors, NEW q,
         edit' = [edit EXCEPT ![e] = q], RequestOK(q, store, spent, torn),
         UNCHANGED <<store, spent, torn>>
  PROVE  /\ StoreOK(store', spent') /\ DOMAIN edit' = Editors
         /\ \A d \in Editors : RequestOK(edit'[d], store', spent', torn')
  BY DEF ConfigInv

LEMMA EditsOnly ==
  ASSUME ConfigInv, NEW e \in Editors, NEW q,
         edit' = [edit EXCEPT ![e] = q], RequestOK(q, store, spent, torn),
         UNCHANGED <<store, spent, running, edits, exact, torn>>
  PROVE  ConfigInv'
  <1>1. /\ StoreOK(store', spent') /\ DOMAIN edit' = Editors
        /\ \A d \in Editors : RequestOK(edit'[d], store', spent', torn')
    BY OneEdits
  <1>2. RoutesOK(running', store', spent', torn')
    BY DEF ConfigInv
  <1>3. ExactWhenAlone'
    BY DEF ConfigInv, ExactWhenAlone, buildRoutingTable, Enforced
  <1> QED
    BY <1>1, <1>2, <1>3 DEF ConfigInv

LEMMA BeginOK ==
  ASSUME ConfigInv, NEW e \in Editors, NEW pc, NEW op \in EditOps, NEW id, NEW row, NEW domains,
         pc \in {"writing", "preparing", "reading", "counting"},
         op \in {"createList", "updateList"} => row \in Restrictions,
         Begin(e, pc, op, id, row, domains)
  PROVE  ConfigInv'
  <1> DEFINE q == [NoEdit EXCEPT !.pc = pc, !.op = op, !.id = id, !.row = row, !.domains = domains]
  <1>1. edit' = [edit EXCEPT ![e] = q] /\ UNCHANGED <<store, spent, running, edits, exact, torn>>
    BY DEF Begin
  <1>2. DOMAIN NoEdit = {"pc", "op", "id", "row", "domains", "read", "next", "alone"}
    BY NoEditOK DEF EditOK
  <1>3. /\ q.pc = pc /\ q.op = op /\ q.row = row /\ DOMAIN q = DOMAIN NoEdit
        /\ q.read = NoEdit.read /\ q.next = NoEdit.next /\ q.alone = NoEdit.alone
    BY <1>2
  <1> HIDE DEF q
  <1>4. EditOK(q)
    BY <1>3, NoEditOK DEF EditOK
  <1>5. RequestOK(q, store, spent, torn)
    BY <1>3, <1>4 DEF RequestOK
  <1> QED
    BY <1>1, <1>5, EditsOnly

LEMMA AdvanceOK ==
  ASSUME ConfigInv, NEW e \in Editors, NEW pc \in {"writing", "idle"}, Advance(e, pc),
         edit[e].pc # "idle", pc = "idle" \/ edit[e].pc # "applying"
  PROVE  ConfigInv'
  <1> DEFINE q == IF pc = "idle" THEN NoEdit ELSE [edit[e] EXCEPT !.pc = pc]
  <1>1. UNCHANGED <<store, spent, running, edits, exact, torn>> /\ e \in DOMAIN edit
    BY DEF Advance, ConfigInv
  <1>2. edit' = [edit EXCEPT ![e] = q]
    BY <1>1 DEF Advance
  <1>3. EditOK(edit[e])
    BY DEF ConfigInv, RequestOK
  <1>4. RequestOK(q, store, spent, torn)
    <2>1. CASE pc = "idle"
      BY <2>1, NoEditOK DEF RequestOK
    <2>2. CASE pc = "writing"
      <3>0. q = [edit[e] EXCEPT !.pc = "writing"]
        BY <2>2
      <3>1. /\ q.pc = "writing" /\ q.op = edit[e].op /\ q.row = edit[e].row /\ DOMAIN q = DOMAIN edit[e]
            /\ q.read = edit[e].read /\ q.next = edit[e].next /\ q.alone = edit[e].alone
        BY <1>3, <3>0 DEF EditOK
      <3> HIDE DEF q
      <3>2. EditOK(q)
        BY <1>3, <2>2, <3>1 DEF EditOK
      <3> QED
        BY <3>1, <3>2 DEF RequestOK
    <2> QED
      BY <2>1, <2>2
  <1> HIDE DEF q
  <1> QED
    BY <1>1, <1>2, <1>4, EditsOnly

\* What a reader has read, across another request's commit.
LEMMA ReadKept ==
  ASSUME NEW q, EditOK(q), NEW r, NEW old, NEW new, NEW sp, NEW tp, NEW tn, NEW un, NEW up, NEW id,
         ReadOK(q, old, sp, tn), ListsStep(old, new, sp, up, id),
         sp \subseteq tp, tn \subseteq un, DOMAIN old.lists \subseteq sp,
         up /\ q.next \in {6, 7} => id \in un,
         r.read = q.read, r.next = q.next
  PROVE  ReadOK(r, new, tp, un)
  <1>0. q.next \in 1 .. 8
    BY DEF EditOK
  <1>1. \A l : Gone(l, old, sp) => Gone(l, new, tp)
    BY DEF ListsStep, Gone
  <1>2. \A l : l \in DOMAIN old.lists /\ l \notin DOMAIN new.lists => Gone(l, new, tp)
    BY DEF Gone
  <1>3. ASSUME NEW l, q.next \in {6, 7}, Steady(q, l, old)
        PROVE  Gone(l, new, tp) \/ l \in un \/ Steady(r, l, new)
    <2>1. l \in DOMAIN old.lists /\ q.read.lists[l] = old.lists[l]
          /\ (q.next > 6 => (l \in q.read.rules <=> l \in old.rules))
      BY <1>3 DEF Steady
    <2>2. CASE l \notin DOMAIN new.lists
      BY <1>2, <2>1, <2>2
    <2>3. CASE l \in DOMAIN new.lists
      <3>1. \/ new.lists[l] = old.lists[l] /\ (l \in new.rules <=> l \in old.rules)
            \/ up /\ l = id
        BY <2>1, <2>3 DEF ListsStep
      <3> QED
        BY <1>3, <2>1, <2>3, <3>1 DEF Steady
    <2> QED
      BY <2>2, <2>3
  <1>4. q.next > 5 /\ q.next <= 7 => q.next \in {6, 7}
    BY <1>0
  <1>5. ASSUME q.next > 5, NEW l \in DOMAIN q.read.lists
        PROVE  \/ Gone(l, new, tp) \/ l \in un
               \/ r.next <= 7 /\ Steady(r, l, new)
               \/ r.next > 7 /\ Enforced(r.read, l) # {}
    <2>1. \/ Gone(l, old, sp) \/ l \in tn
          \/ q.next <= 7 /\ Steady(q, l, old)
          \/ q.next > 7 /\ Enforced(q.read, l) # {}
      BY <1>5 DEF ReadOK
    <2> QED
      BY <1>1, <1>3, <1>4, <1>5, <2>1
  <1> QED
    BY <1>1, <1>5 DEF ReadOK

LEMMA CommitOK ==
  ASSUME ConfigInv, NEW e \in Editors, Commit(e)
  PROVE  ConfigInv'
  <1>1. PICK db \in Written(edit[e]) :
           /\ store' = db
           /\ spent' = spent \cup DOMAIN db.hosts \cup DOMAIN db.redirects \cup DOMAIN db.lists
    BY DEF Commit
  <1>2. /\ edit[e].pc = "writing"
        /\ edit' = [d \in Editors |-> IF d = e THEN [NoEdit EXCEPT !.pc = "applying"]
                                          ELSE [edit[d] EXCEPT !.alone = (edit[d].pc # "applying")]]
        /\ exact' = FALSE
        /\ torn' = IF edit[e].op = "updateList" /\ BetweenChildren THEN torn \cup {edit[e].id} ELSE torn
        /\ UNCHANGED running
    BY DEF Commit
  <1>3. /\ StoreOK(store, spent) /\ EditOK(edit[e])
        /\ \A d \in Editors : RequestOK(edit[d], store, spent, torn)
        /\ RoutesOK(running, store, spent, torn)
    BY DEF ConfigInv, RequestOK
  <1> DEFINE up == edit[e].op = "updateList"
             id == edit[e].id
  <1>4. StoreOK(db, spent \cup DOMAIN db.lists) /\ ListsStep(store, db, spent, up, id)
    BY <1>2, <1>3, WrittenOK
  <1>5. /\ spent \subseteq spent' /\ DOMAIN db.lists \subseteq spent' /\ torn \subseteq torn'
        /\ DOMAIN store.lists \subseteq spent
        /\ (up /\ BetweenChildren => id \in torn')
    BY <1>1, <1>2, <1>3 DEF StoreOK
  <1>6. StoreOK(store', spent')
    BY <1>1, <1>4, <1>5, SpentGrows
  <1>7. RoutesOK(running', store', spent', torn')
    <2>1. \A l : Gone(l, store, spent) => Gone(l, db, spent')
      BY <1>4, <1>5 DEF ListsStep, Gone
    <2> QED
      BY <1>1, <1>2, <1>3, <1>5, <2>1 DEF RoutesOK
  <1>8. ASSUME NEW d \in Editors PROVE RequestOK(edit'[d], store', spent', torn')
    <2>1. CASE d = e
      <3> DEFINE r == [NoEdit EXCEPT !.pc = "applying"]
      <3>1. DOMAIN NoEdit = {"pc", "op", "id", "row", "domains", "read", "next", "alone"}
        BY NoEditOK DEF EditOK
      <3>2. /\ r.pc = "applying" /\ DOMAIN r = DOMAIN NoEdit
            /\ r.read = NoEdit.read /\ r.next = NoEdit.next /\ r.alone = NoEdit.alone
        BY <3>1
      <3>3. edit'[d] = r
        BY <1>2, <2>1
      <3> HIDE DEF r
      <3>4. EditOK(r) /\ r.next = 1
        BY <3>2, NoEditOK DEF EditOK
      <3>5. ReadOK(r, store', spent', torn') /\ CurrentOK(r, store')
        BY <3>4 DEF ReadOK, CurrentOK
      <3> QED
        BY <3>3, <3>4, <3>5 DEF RequestOK
    <2>2. CASE d # e
      <3> DEFINE a == edit[d].pc # "applying"
                 r == [edit[d] EXCEPT !.alone = a]
      <3>1. edit'[d] = r /\ EditOK(edit[d]) /\ RequestOK(edit[d], store, spent, torn)
        BY <1>2, <1>3, <2>2 DEF RequestOK
      <3>2. a \in BOOLEAN
        OBVIOUS
      <3>3. /\ r.pc = edit[d].pc /\ r.op = edit[d].op /\ r.row = edit[d].row /\ DOMAIN r = DOMAIN edit[d]
            /\ r.read = edit[d].read /\ r.next = edit[d].next /\ r.alone = a
        BY <3>1 DEF EditOK
      <3> HIDE DEF r
      <3>4. EditOK(r)
        BY <3>1, <3>2, <3>3 DEF EditOK
      <3>5. ASSUME r.pc = "applying" PROVE ReadOK(r, store', spent', torn') /\ CurrentOK(r, store')
        <4>1. ~r.alone
          BY <3>3, <3>5
        <4>2. edit[d].next \in {6, 7} => BetweenChildren
          <5> SUFFICES ASSUME edit[d].next \in {6, 7} PROVE BetweenChildren
            OBVIOUS
          <5>1. edit[d].pc = "applying" /\ edit[d].next <= Len(Queries)
            BY <3>3, <3>5, QueryNames
          <5>2. Queries[edit[d].next] \in {"rules", "users"}
            BY QueryNames
          <5> QED
            BY <5>1, <5>2 DEF BetweenChildren
        <4>3. ReadOK(edit[d], store, spent, torn)
          BY <3>1, <3>3, <3>5 DEF RequestOK
        <4>4. up /\ edit[d].next \in {6, 7} => id \in torn'
          BY <1>5, <4>2
        <4> HIDE DEF up, id, a
        <4>5. ReadOK(r, db, spent', torn')
          BY <1>4, <1>5, <3>1, <3>3, <4>3, <4>4, ReadKept
        <4> QED
          BY <1>1, <4>1, <4>5 DEF CurrentOK
      <3> QED
        BY <3>1, <3>4, <3>5 DEF RequestOK
    <2> QED
      BY <2>1, <2>2
  <1>9. DOMAIN edit' = Editors /\ ExactWhenAlone'
    BY <1>2 DEF ExactWhenAlone
  <1> QED
    BY <1>6, <1>7, <1>8, <1>9 DEF ConfigInv

\* What is known of a reader after one more query.
LEMMA ReadMore ==
  ASSUME NEW q, EditOK(q), NEW r, NEW db, NEW sp, NEW tn, NEW t, t \in Tables, t = Queries[q.next],
         q.next <= 7, StoreOK(db, sp), ReadOK(q, db, sp, tn),
         r.read = [q.read EXCEPT ![t] = db[t]], r.next = q.next + 1
  PROVE  ReadOK(r, db, sp, tn)
  <1>1. DOMAIN q.read = Tables /\ q.next \in 1 .. 7
    BY DEF EditOK
  <1>2. r.read[t] = db[t] /\ \A u \in Tables \ {t} : r.read[u] = q.read[u]
    BY <1>1
  <1>3. {"hosts", "lists", "rules", "users"} \subseteq Tables
    BY DEF Tables
  <1>4. CASE q.next = 1
    <2>1. r.read.hosts = db.hosts /\ r.next = 2
      BY <1>2, <1>4, QueryNames
    <2>2. \A h \in DOMAIN db.hosts : db.hosts[h].list \in sp \cup {None}
      BY DEF StoreOK, ReferencesHeld
    <2>3. \A h \in DOMAIN r.read.hosts : r.read.hosts[h].list \in sp \cup {None}
      BY <2>1, <2>2
    <2>4. ~(r.next > 5)
      BY <2>1
    <2> QED
      BY <2>3, <2>4 DEF ReadOK
  <1>5. CASE q.next \in {2, 3, 4}
    <2>1. t \notin {"hosts", "lists", "rules", "users"}
      BY <1>5, QueryNames
    <2>2. r.read.hosts = q.read.hosts /\ r.next > 1 /\ ~(r.next > 5) /\ q.next > 1
      BY <1>2, <1>3, <1>5, <2>1
    <2>3. \A h \in DOMAIN r.read.hosts : r.read.hosts[h].list \in sp \cup {None}
      BY <2>2 DEF ReadOK
    <2> QED
      BY <2>2, <2>3 DEF ReadOK
  <1>6. CASE q.next = 5
    <2>1. /\ r.read.hosts = q.read.hosts /\ r.read.lists = db.lists /\ r.next = 6 /\ q.next > 1
          /\ r.next <= 7
      BY <1>2, <1>3, <1>6, QueryNames
    <2>2. \A l \in DOMAIN r.read.lists : Steady(r, l, db)
      BY <2>1 DEF Steady
    <2>3. \A h \in DOMAIN r.read.hosts :
            \/ r.read.hosts[h].list \in DOMAIN r.read.lists \cup {None}
            \/ Gone(r.read.hosts[h].list, db, sp)
      BY <2>1 DEF ReadOK, Gone
    <2>4. \A h \in DOMAIN r.read.hosts : r.read.hosts[h].list \in sp \cup {None}
      BY <2>1 DEF ReadOK
    <2> QED
      BY <2>1, <2>2, <2>3, <2>4 DEF ReadOK
  <1>7. CASE q.next = 6
    <2>1. /\ r.read.hosts = q.read.hosts /\ r.read.lists = q.read.lists /\ r.read.rules = db.rules
          /\ r.next = 7 /\ q.next > 1 /\ q.next > 5 /\ ~(q.next > 7) /\ q.next <= 7 /\ r.next <= 7
      BY <1>2, <1>3, <1>7, QueryNames
    <2>2. \A l : Steady(q, l, db) => Steady(r, l, db)
      BY <2>1 DEF Steady
    <2>3. \A h \in DOMAIN r.read.hosts : r.read.hosts[h].list \in sp \cup {None}
      BY <2>1 DEF ReadOK
    <2>4. \A h \in DOMAIN r.read.hosts :
            \/ r.read.hosts[h].list \in DOMAIN r.read.lists \cup {None}
            \/ Gone(r.read.hosts[h].list, db, sp)
      BY <2>1 DEF ReadOK
    <2>5. \A l \in DOMAIN r.read.lists : Gone(l, db, sp) \/ l \in tn \/ Steady(r, l, db)
      BY <2>1, <2>2 DEF ReadOK
    <2> QED
      BY <2>1, <2>3, <2>4, <2>5 DEF ReadOK
  <1>8. CASE q.next = 7
    <2>1. /\ r.read.hosts = q.read.hosts /\ r.read.lists = q.read.lists /\ r.read.rules = q.read.rules
          /\ r.read.users = db.users
          /\ r.next = 8 /\ q.next > 1 /\ q.next > 5 /\ q.next > 6 /\ ~(q.next > 7) /\ r.next > 7
      BY <1>2, <1>3, <1>8, QueryNames
    <2>2. ASSUME NEW l \in DOMAIN q.read.lists, Steady(q, l, db) PROVE Enforced(r.read, l) # {}
      <3>1. /\ l \in DOMAIN r.read.lists /\ r.read.lists[l] = db.lists[l] /\ l \in DOMAIN db.lists
            /\ (l \in r.read.rules <=> l \in db.rules) /\ (l \in r.read.users <=> l \in db.users)
        BY <2>1, <2>2 DEF Steady
      <3>2. /\ db.lists[l] \in BOOLEAN /\ l \in db.rules \cup db.users
            /\ db.lists[l] => l \in db.rules \cap db.users
        BY <3>1 DEF StoreOK
      <3> QED
        BY <3>1, <3>2, ListEnforced
    <2>3. \A h \in DOMAIN r.read.hosts : r.read.hosts[h].list \in sp \cup {None}
      BY <2>1 DEF ReadOK
    <2>4. \A h \in DOMAIN r.read.hosts :
            \/ r.read.hosts[h].list \in DOMAIN r.read.lists \cup {None}
            \/ Gone(r.read.hosts[h].list, db, sp)
      BY <2>1 DEF ReadOK
    <2>5. \A l \in DOMAIN r.read.lists :
            Gone(l, db, sp) \/ l \in tn \/ Enforced(r.read, l) # {}
      BY <2>1, <2>2 DEF ReadOK
    <2> QED
      BY <2>1, <2>3, <2>4, <2>5 DEF ReadOK
  <1> QED
    BY <1>1, <1>4, <1>5, <1>6, <1>7, <1>8

LEMMA QueryOK ==
  ASSUME ConfigInv, NEW e \in Editors, Query(e)
  PROVE  ConfigInv'
  <1> DEFINE t == Queries[edit[e].next]
             more == [edit[e].read EXCEPT ![t] = store[t]]
             r == [edit[e] EXCEPT !.read = more, !.next = edit[e].next + 1]
  <1>1. /\ edit[e].pc = "applying" /\ edit[e].next <= 7
        /\ edit' = [edit EXCEPT ![e].read[t] = store[t], ![e].next = @ + 1]
        /\ UNCHANGED <<store, spent, running, edits, exact, torn>>
    BY QueryNames DEF Query
  <1>2. /\ StoreOK(store, spent) /\ EditOK(edit[e]) /\ DOMAIN edit = Editors
        /\ ReadOK(edit[e], store, spent, torn) /\ CurrentOK(edit[e], store)
    BY <1>1 DEF ConfigInv, RequestOK
  <1>3. edit' = [edit EXCEPT ![e] = r]
    BY <1>1, <1>2 DEF EditOK
  <1>4. edit[e].next \in 1 .. 7 /\ t \in Tables
    <2>1. edit[e].next \in 1 .. 7
      BY <1>1, <1>2 DEF EditOK
    <2> QED
      BY <2>1, QueriesRead
  <1>5. more = [u \in Tables |-> more[u]] /\ more[t] = store[t] /\ \A u \in Tables \ {t} : more[u] = edit[e].read[u]
    BY <1>2, <1>4 DEF EditOK
  <1>6. /\ r.pc = edit[e].pc /\ r.op = edit[e].op /\ r.row = edit[e].row /\ DOMAIN r = DOMAIN edit[e]
        /\ r.read = more /\ r.next = edit[e].next + 1 /\ r.alone = edit[e].alone
    BY <1>2 DEF EditOK
  <1>7. ReadOK(r, store, spent, torn)
    <2> HIDE DEF r
    <2>1. r.read = [edit[e].read EXCEPT ![t] = store[t]]
      BY <1>6
    <2> HIDE DEF more
    <2> QED
      BY <1>1, <1>2, <1>4, <1>6, <2>1, ReadMore
  <1> HIDE DEF r, more
  <1>8. EditOK(r)
    <2>1. r.next \in 1 .. 8
      BY <1>4, <1>6
    <2> QED
      BY <1>1, <1>2, <1>5, <1>6, <2>1 DEF EditOK
  <1>9. CurrentOK(r, store)
    <2> SUFFICES ASSUME r.alone, NEW k \in 1 .. 7, k < r.next PROVE r.read[Queries[k]] = store[Queries[k]]
      BY DEF CurrentOK
    <2>1. Queries[k] \in Tables
      BY QueriesRead
    <2>2. CASE Queries[k] = t
      BY <1>5, <1>6, <2>2
    <2>3. CASE Queries[k] # t
      <3>1. k < edit[e].next
        BY <1>4, <1>6, <2>3
      <3> QED
        BY <1>2, <1>5, <1>6, <2>1, <2>3, <3>1 DEF CurrentOK
    <2> QED
      BY <2>2, <2>3
  <1>10. RequestOK(r, store, spent, torn)
    BY <1>7, <1>8, <1>9 DEF RequestOK
  <1> QED
    BY <1>1, <1>3, <1>10, EditsOnly

LEMMA ReloadOK ==
  ASSUME ConfigInv, NEW e \in Editors, Reload(e)
  PROVE  ConfigInv'
  <1>1. /\ edit[e].pc = "applying" /\ edit[e].next > 7
        /\ running' = buildRoutingTable(edit[e].read)
        /\ exact' = edit[e].alone
        /\ edit' = [edit EXCEPT ![e] = NoEdit]
        /\ UNCHANGED <<store, spent, torn>>
    BY QueryNames DEF Reload
  <1>2. /\ StoreOK(store, spent) /\ EditOK(edit[e])
        /\ ReadOK(edit[e], store, spent, torn) /\ CurrentOK(edit[e], store)
    BY <1>1 DEF ConfigInv, RequestOK
  <1>3. edit[e].next = 8
    BY <1>1, <1>2 DEF EditOK
  <1>4. /\ StoreOK(store', spent') /\ DOMAIN edit' = Editors
        /\ \A d \in Editors : RequestOK(edit'[d], store', spent', torn')
    <2>1. RequestOK(NoEdit, store, spent, torn)
      BY NoEditOK DEF RequestOK
    <2> QED
      BY <1>1, <2>1, OneEdits
  <1>5. RoutesOK(running', store', spent', torn')
    <2> DEFINE cfg == edit[e].read
    <2>1. /\ DOMAIN running'.routes = DOMAIN cfg.hosts
          /\ \A h \in DOMAIN cfg.hosts :
              /\ running'.routes[h].list = cfg.hosts[h].list
              /\ running'.routes[h].access = Enforced(cfg, cfg.hosts[h].list)
      BY <1>1, TableBuilt
    <2>2. ASSUME NEW h \in DOMAIN cfg.hosts
          PROVE  \/ cfg.hosts[h].list = None \/ Gone(cfg.hosts[h].list, store, spent)
                 \/ cfg.hosts[h].list \in torn \/ Enforced(cfg, cfg.hosts[h].list) # {}
      <3>1. 8 > 5 /\ ~(8 <= 7)
        OBVIOUS
      <3> QED
        BY <1>2, <1>3, <2>2, <3>1 DEF ReadOK
    <2> QED
      BY <1>1, <2>1, <2>2 DEF RoutesOK
  <1>6. ExactWhenAlone'
    <2>1. ASSUME edit[e].alone PROVE edit[e].read = store
      <3>1. \A k \in 1 .. 7 : edit[e].read[Queries[k]] = store[Queries[k]]
        BY <1>2, <1>3, <2>1 DEF CurrentOK
      <3>2. \A t \in Tables : edit[e].read[t] = store[t]
        BY <3>1, QueriesRead
      <3>3. edit[e].read = [t \in Tables |-> edit[e].read[t]] /\ store = [t \in Tables |-> store[t]]
        BY <1>2 DEF EditOK, StoreOK
      <3> QED
        BY <3>2, <3>3
    <2>2. store' = store /\ running' = buildRoutingTable(edit[e].read) /\ exact' = edit[e].alone
      BY <1>1
    <2>3. exact' => running' = buildRoutingTable(store')
      BY <2>1, <2>2
    <2> QED
      BY <2>3 DEF ExactWhenAlone, buildRoutingTable, Enforced
  <1> QED
    BY <1>4, <1>5, <1>6 DEF ConfigInv

LEMMA ConfigInvInit == ConfigurationInit => ConfigInv
  <1> SUFFICES ASSUME ConfigurationInit PROVE ConfigInv
    OBVIOUS
  <1>1. /\ store \in [hosts : SubFunctions(HostIds, HostRow),
                  hostDomains : [Domains -> HostIds \cup {None}],
                  redirects : SubFunctions(RedirectIds, BOOLEAN),
                  redirectDomains : [Domains -> RedirectIds \cup {None}],
                  lists : SubFunctions(ListIds, BOOLEAN), rules : SUBSET ListIds, users : SUBSET ListIds]
        /\ ReferencesHeld(store) /\ ChildrenOwned(store)
        /\ DOMAIN store.lists \subseteq spent
        /\ running = buildRoutingTable(store)
        /\ edit = [e \in Editors |-> NoEdit]
    BY DEF ConfigurationInit
  <1>2. store = [t \in Tables |-> store[t]]
    BY <1>1 DEF Tables
  <1>3. DOMAIN store.lists \subseteq ListIds /\ \A l \in DOMAIN store.lists : store.lists[l] \in BOOLEAN
    BY <1>1 DEF SubFunctions
  <1>4. StoreOK(store, spent)
    BY <1>1, <1>2, <1>3 DEF StoreOK, ChildrenOwned
  <1>5. \A e \in Editors : RequestOK(edit[e], store, spent, torn)
    BY <1>1, NoEditOK DEF RequestOK
  <1>6. RoutesOK(running, store, spent, torn)
    <2>1. \A h \in DOMAIN store.hosts :
            store.hosts[h].list = None \/ Enforced(store, store.hosts[h].list) # {}
      BY <1>4, ListEnforced DEF StoreOK, ReferencesHeld
    <2>2. /\ DOMAIN running.routes = DOMAIN store.hosts
          /\ \A h \in DOMAIN store.hosts :
              /\ running.routes[h].list = store.hosts[h].list
              /\ running.routes[h].access = Enforced(store, store.hosts[h].list)
      BY <1>1, TableBuilt
    <2> QED
      BY <2>1, <2>2 DEF RoutesOK
  <1> QED
    BY <1>1, <1>4, <1>5, <1>6 DEF ConfigInv, ExactWhenAlone

LEMMA ConfigInvNext ==
  ASSUME ConfigInv, [ConfigurationNext]_configVars
  PROVE  ConfigInv'
  <1>1. CASE UNCHANGED configVars
    <2>1. UNCHANGED <<store, spent, running, edit, edits, exact, torn>>
      BY <1>1 DEF configVars
    <2>2. ExactWhenAlone'
      BY <2>1 DEF ConfigInv, ExactWhenAlone, buildRoutingTable, Enforced
    <2> QED
      BY <2>1, <2>2 DEF ConfigInv
  <1>2. ASSUME NEW e \in Editors, NEW id, NEW row, NEW domains,
               SaveHost(e, id, row, domains) \/ DeleteHost(e, id)
               \/ SaveRedirect(e, id, row, domains) \/ DeleteRedirect(e, id) \/ DeleteList(e, id)
        PROVE  ConfigInv'
    BY <1>2, BeginOK DEF SaveHost, DeleteHost, SaveRedirect, DeleteRedirect, DeleteList, EditOps
  <1>3. ASSUME NEW e \in Editors, NEW id, NEW x \in Restrictions, CreateList(e, x) \/ UpdateList(e, id, x)
        PROVE  ConfigInv'
    BY <1>3, BeginOK DEF CreateList, UpdateList, EditOps
  <1>4. ASSUME NEW e \in Editors, prepareHost(e) \/ ReadExisting(e) \/ HostsUsing(e) \/ Abandon(e) \/ ApplyFails(e)
        PROVE  ConfigInv'
    <2>1. PICK pc \in {"writing", "idle"} :
            Advance(e, pc) /\ edit[e].pc # "idle" /\ (pc = "idle" \/ edit[e].pc # "applying")
      <3>1. CASE prepareHost(e)
        BY <3>1 DEF prepareHost
      <3>2. CASE ReadExisting(e)
        BY <3>2 DEF ReadExisting
      <3>3. CASE HostsUsing(e)
        BY <3>3 DEF HostsUsing
      <3>4. CASE Abandon(e) \/ ApplyFails(e)
        BY <3>4 DEF Abandon, ApplyFails
      <3> QED
        BY <1>4, <3>1, <3>2, <3>3, <3>4
    <2> QED
      BY <2>1, AdvanceOK
  <1>5. ASSUME NEW e \in Editors, Commit(e) \/ Query(e) \/ Reload(e)
        PROVE  ConfigInv'
    BY <1>5, CommitOK, QueryOK, ReloadOK
  <1> QED
    BY <1>1, <1>2, <1>3, <1>4, <1>5 DEF ConfigurationNext

LEMMA ConfigInvariance == ConfigurationSpec => []ConfigInv
  <1>1. ConfigInv /\ [ConfigurationNext]_configVars => ConfigInv'
    BY ConfigInvNext
  <1> QED
    BY <1>1, ConfigInvInit, PTL DEF ConfigurationSpec

\* However many requests edit and apply at once, a running route that refers to
\* a list and enforces nothing is one whose host has since left that list, or
\* the list was edited while a reload was between its tables.
THEOREM GuardsAreKept == ConfigurationSpec => []UnguardedOnlyIfReleased
  <1>1. ConfigInv => UnguardedOnlyIfReleased
    <2> SUFFICES ASSUME ConfigInv, NEW h \in DOMAIN running.routes, Unguarded(h)
                 PROVE  Released(h) \/ running.routes[h].list \in torn
      BY DEF UnguardedOnlyIfReleased
    <2>1. Gone(running.routes[h].list, store, spent) \/ running.routes[h].list \in torn
      BY DEF ConfigInv, RoutesOK, Unguarded
    <2>2. running.routes[h].list # None /\ ReferencesHeld(store)
      BY DEF ConfigInv, StoreOK, Unguarded
    <2> QED
      BY <2>1, <2>2 DEF Gone, Released, ReferencesHeld
  <1> QED
    BY <1>1, ConfigInvariance, PTL

\* An applyConfig that no commit overlapped leaves the proxy running exactly what
\* the database holds, whatever the other requests read and installed meanwhile.
THEOREM AloneIsExact == ConfigurationSpec => []ExactWhenAlone
  <1>1. ConfigInv => ExactWhenAlone
    BY DEF ConfigInv
  <1> QED
    BY <1>1, ConfigInvariance, PTL

-----------------------------------------------------------------------------
(* Accounts. *)

\* A request about to write leaves some administrator: it makes one, takes none
\* away, or there is another.
Covered(q) ==
    \/ q.op # "delete" /\ q.role = "admin"
    \/ q.target \notin Admins
    \/ \E a \in Admins : a # q.target

Cover ==
    ~raced => /\ Admins # {}
              /\ \A c \in Calls : call[c].pc = "writing" /\ call[c].op # "create" => Covered(call[c])

TargetsKnown == \A c \in Calls : call[c].target <= lastId

AccountsInv == AccountsTypeOK /\ TargetsKnown /\ Cover

-----------------------------------------------------------------------------
\* Counting two administrators means that there is one besides any given account
\* (refuseIfLastAdmin).
LEMMA AnotherAdmin ==
    ASSUME AccountsTypeOK, ~IsLastAdmin, NEW t
    PROVE  \E a \in Admins : a # t
<1>1. IsFiniteSet(Admins)
  <2>1. IsFiniteSet(1 .. MaxUsers)
    BY AccountsAssumption, FS_Interval
  <2>2. Admins \subseteq 1 .. MaxUsers
    BY AccountsAssumption DEF AccountsTypeOK, Admins, UserIds
  <2> QED BY <2>1, <2>2, FS_Subset
<1>2. SUFFICES ASSUME Admins \subseteq {t} PROVE FALSE
  OBVIOUS
<1>3. IsFiniteSet({t}) /\ Cardinality({t}) = 1
  BY FS_Singleton
<1>4. Cardinality(Admins) <= Cardinality({t})
  BY <1>2, <1>3, FS_Subset
<1>5. Cardinality(Admins) \in Nat
  BY <1>1, FS_CardinalityType
<1> QED BY <1>3, <1>4, <1>5 DEF IsLastAdmin

LEMMA AccountsInitInv == ASSUME AccountsInit PROVE AccountsInv
<1> USE AccountsAssumption DEF AccountsInit
<1>1. AccountsTypeOK
  <2>1. NoRequest \in Request
    BY DEF NoRequest, Request, UserIds, Role
  <2>2. call \in [Calls -> Request]
    BY <2>1
  <2>3. DOMAIN users = {1} /\ users \in [{1} -> Role]
    BY DEF Role
  <2>4. 1 \in UserIds /\ {1} \subseteq 1 .. 1
    BY DEF UserIds
  <2> QED BY <2>2, <2>3, <2>4, Zenon DEF AccountsTypeOK
<1>2. TargetsKnown
  BY DEF TargetsKnown, NoRequest
<1>3. Cover
  <2>1. 1 \in Admins
    BY DEF Admins
  <2> QED BY <2>1 DEF Cover, NoRequest
<1> QED BY <1>1, <1>2, <1>3 DEF AccountsInv

-----------------------------------------------------------------------------
(* Steps that leave the table alone. *)

\* Such a step keeps Cover if every request it brings to its write is covered.
LEMMA CoverKept ==
    ASSUME Cover, UNCHANGED <<users, raced>>,
           \A c \in Calls : call'[c].pc = "writing" /\ call'[c].op # "create"
                               => call'[c] = call[c] \/ Covered(call'[c])
    PROVE  Cover'
<1>1. Admins' = Admins
  BY DEF Admins
<1>2. ASSUME NEW q PROVE Covered(q)' <=> Covered(q)
  BY <1>1 DEF Covered
<1> QED BY <1>1 DEF Cover, Covered

LEMMA SessionSteps ==
    ASSUME AccountsInv, NEW id \in UserIds, NEW s, SignIn(id) \/ Expire(s)
    PROVE  AccountsInv'
<1> USE DEF AccountsInv
<1>1. UNCHANGED <<users, lastId, call, raced>>
  BY DEF SignIn, Expire
<1>2. AccountsTypeOK'
  <2>1. sessions' \subseteq Session
    BY DEF SignIn, Expire, AccountsTypeOK, Session
  <2> QED BY <1>1, <2>1 DEF AccountsTypeOK
<1>3. TargetsKnown'
  BY <1>1 DEF TargetsKnown
<1>4. Cover'
  BY <1>1, CoverKept
<1> QED BY <1>2, <1>3, <1>4

LEMMA ArrivalSteps ==
    ASSUME AccountsInv, NEW c \in Calls, NEW s \in sessions, NEW role \in Role, NEW id \in 1 .. lastId,
           CreateUser(c, s, role) \/ UpdateUserRole(c, s, id, role) \/ DeleteUser(c, s, id)
    PROVE  AccountsInv'
<1> USE AccountsAssumption DEF AccountsInv
<1>1. UNCHANGED <<users, lastId, sessions, raced>>
  BY DEF CreateUser, UpdateUserRole, DeleteUser
<1>2. PICK q \in Request : /\ call' = [call EXCEPT ![c] = q]
                           /\ q.target <= lastId
                           /\ q.pc = "writing" => q.op = "create"
  <2>1. id \in UserIds /\ id <= lastId /\ 1 \in UserIds /\ 1 <= lastId
    BY DEF AccountsTypeOK, UserIds
  <2>2. CASE CreateUser(c, s, role)
    <3> DEFINE r == [NoRequest EXCEPT !.pc = "writing", !.role = role]
    <3>1. r \in Request /\ r.target = 1 /\ r.op = "create"
      BY <2>1 DEF NoRequest, Request
    <3>2. call' = [call EXCEPT ![c] = r]
      BY <2>2 DEF CreateUser
    <3> QED BY <2>1, <3>1, <3>2
  <2>3. CASE UpdateUserRole(c, s, id, role)
    <3> DEFINE r == [pc |-> "reading", op |-> "role", whose |-> IF id = s.user THEN "own" ELSE "other",
                     target |-> id, role |-> role]
    <3>1. r \in Request /\ r.target = id /\ r.pc # "writing"
      BY <2>1 DEF Request
    <3>2. call' = [call EXCEPT ![c] = r]
      BY <2>3 DEF UpdateUserRole
    <3> QED BY <2>1, <3>1, <3>2
  <2>4. CASE DeleteUser(c, s, id)
    <3> DEFINE r == [pc |-> "reading", op |-> "delete", whose |-> "other", target |-> id, role |-> "viewer"]
    <3>1. r \in Request /\ r.target = id /\ r.pc # "writing"
      BY <2>1 DEF Request, Role
    <3>2. call' = [call EXCEPT ![c] = r]
      BY <2>4 DEF DeleteUser
    <3> QED BY <2>1, <3>1, <3>2
  <2> QED BY <2>2, <2>3, <2>4
<1>3. \A d \in Calls : call'[d] = IF d = c THEN q ELSE call[d]
  BY <1>2 DEF AccountsTypeOK
<1>4. AccountsTypeOK'
  BY <1>1, <1>2 DEF AccountsTypeOK
<1>5. TargetsKnown'
  BY <1>1, <1>2, <1>3 DEF TargetsKnown
<1>6. Cover'
  BY <1>1, <1>2, <1>3, CoverKept
<1> QED BY <1>4, <1>5, <1>6

LEMMA CheckSteps ==
    ASSUME AccountsInv, NEW c \in Calls, GetByID(c) \/ refuseIfLastAdmin(c) \/ Fail(c)
    PROVE  AccountsInv'
<1> USE AccountsAssumption DEF AccountsInv
<1>1. UNCHANGED <<users, lastId, sessions, raced>>
  BY DEF GetByID, refuseIfLastAdmin, Fail
<1>2. PICK q \in Request : /\ call' = [call EXCEPT ![c] = q]
                           /\ q.target <= lastId
                           /\ q.pc = "writing" => Covered(q)
  <2>0. call[c] \in Request /\ call[c].target <= lastId
    BY DEF AccountsTypeOK, TargetsKnown
  <2>1. NoRequest \in Request /\ NoRequest.target <= lastId /\ NoRequest.pc # "writing"
    BY DEF NoRequest, Request, Role, UserIds, AccountsTypeOK
  <2>2. CASE GetByID(c)
    <3>1. CASE call' = [call EXCEPT ![c] = NoRequest]
      BY <2>1, <3>1
    <3>2. CASE call[c].target \in DOMAIN users /\ Removes(call[c])
               /\ call' = [call EXCEPT ![c] = [call[c] EXCEPT !.pc = "counting"]]
      <4> DEFINE r == [call[c] EXCEPT !.pc = "counting"]
      <4>1. r \in Request /\ r.target <= lastId /\ r.pc # "writing"
        BY <2>0 DEF Request
      <4> QED BY <3>2, <4>1
    <3>3. CASE call[c].target \in DOMAIN users /\ ~Removes(call[c])
               /\ call' = [call EXCEPT ![c] = [call[c] EXCEPT !.pc = "writing"]]
      <4> DEFINE q == [call[c] EXCEPT !.pc = "writing"]
      <4>1. q \in Request /\ q.target <= lastId
        BY <2>0 DEF Request
      <4>2. Covered(q)
        <5>1. q.target = call[c].target /\ q.op = call[c].op /\ q.role = call[c].role
          BY <2>0 DEF Request
        <5> QED BY <2>0, <3>3, <5>1 DEF Covered, Removes, Admins, Request
      <4> QED BY <3>3, <4>1, <4>2
    <3> QED BY <2>2, <3>1, <3>2, <3>3 DEF GetByID
  <2>3. CASE refuseIfLastAdmin(c)
    <3>1. CASE IsLastAdmin
      BY <2>1, <2>3, <3>1 DEF refuseIfLastAdmin
    <3>2. CASE ~IsLastAdmin
      <4> DEFINE q == [call[c] EXCEPT !.pc = "writing"]
      <4>1. q \in Request /\ q.target <= lastId
        BY <2>0 DEF Request
      <4>2. Covered(q)
        BY <3>2, AnotherAdmin DEF Covered
      <4> QED BY <2>3, <3>2, <4>1, <4>2 DEF refuseIfLastAdmin
    <3> QED BY <3>1, <3>2
  <2>4. CASE Fail(c)
    BY <2>1, <2>4 DEF Fail
  <2> QED BY <2>2, <2>3, <2>4
<1>3. \A d \in Calls : call'[d] = IF d = c THEN q ELSE call[d]
  BY <1>2 DEF AccountsTypeOK
<1>4. AccountsTypeOK'
  BY <1>1, <1>2 DEF AccountsTypeOK
<1>5. TargetsKnown'
  BY <1>1, <1>2, <1>3 DEF TargetsKnown
<1>6. Cover'
  BY <1>1, <1>2, <1>3, CoverKept
<1> QED BY <1>4, <1>5, <1>6

-----------------------------------------------------------------------------
(* Steps that write the table. *)

\* After a write the request is idle again, and no others' requests change.
LEMMA WriteCalls ==
    ASSUME AccountsInv, NEW c \in Calls, Write(c)
    PROVE  /\ call' \in [Calls -> Request]
           /\ call'[c] = NoRequest
           /\ \A d \in Calls \ {c} : call'[d] = call[d]
           /\ \A d \in Calls : call'[d].target <= lastId
<1> USE AccountsAssumption DEF AccountsInv
<1>1. NoRequest \in Request /\ NoRequest.target <= lastId
  BY DEF NoRequest, Request, Role, UserIds, AccountsTypeOK
<1>2. call \in [Calls -> Request] /\ call' = [call EXCEPT ![c] = NoRequest]
  BY DEF Write, AccountsTypeOK
<1> QED BY <1>1, <1>2 DEF TargetsKnown

LEMMA CreateStep ==
    ASSUME AccountsInv, NEW c \in Calls, Write(c), call[c].op = "create"
    PROVE  AccountsInv'
<1> USE AccountsAssumption DEF AccountsInv
<1>1. /\ lastId' = lastId + 1 /\ lastId < MaxUsers
      /\ users' = [id \in DOMAIN users \cup {lastId'} |->
                      IF id = lastId' THEN call[c].role ELSE users[id]]
      /\ UNCHANGED <<raced, sessions>>
  BY DEF Write
<1>2. /\ lastId \in Nat /\ lastId' \in UserIds /\ lastId <= lastId'
      /\ DOMAIN users' \subseteq 1 .. lastId' /\ lastId' \notin DOMAIN users
  BY <1>1 DEF AccountsTypeOK, UserIds
<1>3. call[c].role \in Role
  BY DEF AccountsTypeOK, Request
<1>4. AccountsTypeOK'
  <2>1. users' \in [DOMAIN users' -> Role]
    BY <1>1, <1>3 DEF AccountsTypeOK
  <2> QED BY <1>1, <1>2, <2>1, WriteCalls, Zenon DEF AccountsTypeOK
<1>5. TargetsKnown'
  <2>1. \A d \in Calls : call'[d] \in Request /\ call'[d].target <= lastId
    BY WriteCalls
  <2>2. \A d \in Calls : call'[d].target \in Nat
    BY <2>1 DEF Request, UserIds
  <2> QED BY <1>2, <2>1, <2>2, <1>1 DEF TargetsKnown
<1>6. Cover'
  <2>1. Admins \subseteq Admins' /\ Admins' \subseteq Admins \cup {lastId'}
    BY <1>1, <1>2 DEF Admins
  <2>2. ASSUME NEW d \in Calls, call'[d].pc = "writing", call'[d].op # "create", Covered(call[d])
        PROVE  Covered(call[d])'
    <3>1. call'[d] = call[d] /\ call[d].target <= lastId
      BY <2>2, WriteCalls DEF NoRequest
    <3>2. call[d].target # lastId'
      BY <1>1, <1>2, <3>1
    <3>3. call[d].target \in Admins' => call[d].target \in Admins
      BY <2>1, <3>2
    <3> QED BY <2>1, <2>2, <3>1, <3>3 DEF Covered
  <2>3. \A d \in Calls : call'[d].pc = "writing" => call'[d] = call[d]
    BY WriteCalls DEF NoRequest
  <2>4. ASSUME ~raced' PROVE Admins' # {}
    BY <1>1, <2>1, <2>4 DEF Cover
  <2>5. ASSUME ~raced', NEW d \in Calls, call'[d].pc = "writing", call'[d].op # "create"
        PROVE  Covered(call[d])'
    <3>1. Covered(call[d])
      BY <1>1, <2>3, <2>5 DEF Cover
    <3> QED BY <2>2, <2>5, <3>1
  <2> QED BY <2>4, <2>5 DEF Cover, Covered
<1> QED BY <1>4, <1>5, <1>6

LEMMA ChangeStep ==
    ASSUME AccountsInv, NEW c \in Calls, Write(c), call[c].op # "create"
    PROVE  AccountsInv'
<1> USE AccountsAssumption DEF AccountsInv
<1>0. call[c] \in Request
  BY DEF AccountsTypeOK
<1>1. /\ UNCHANGED <<lastId, sessions>>
      /\ raced' = (raced \/ Overlapped(c))
      /\ \/ /\ call[c].op = "role"
            /\ users' = [id \in DOMAIN users |-> IF id = call[c].target THEN call[c].role ELSE users[id]]
         \/ /\ call[c].op = "delete"
            /\ users' = [id \in DOMAIN users \ {call[c].target} |-> users[id]]
  BY <1>0 DEF Write, Request
<1>2. AccountsTypeOK'
  <2>1. call[c].role \in Role
    BY <1>0 DEF Request
  <2>2. DOMAIN users' \subseteq DOMAIN users /\ users' \in [DOMAIN users' -> Role]
    BY <1>1, <2>1 DEF AccountsTypeOK
  <2>3. raced' \in BOOLEAN
    BY <1>1, Zenon DEF AccountsTypeOK
  <2>4. DOMAIN users' \subseteq 1 .. lastId'
    BY <1>1, <2>2 DEF AccountsTypeOK
  <2> QED BY <1>1, <2>2, <2>3, <2>4, WriteCalls, Zenon DEF AccountsTypeOK
<1>3. TargetsKnown'
  BY <1>1, WriteCalls DEF TargetsKnown
<1>4. Cover'
  <2>1. ASSUME ~raced' PROVE ~raced /\ ~Overlapped(c)
    BY <1>1, <2>1
  <2>2. ASSUME ~raced' PROVE Admins' # {}
    <3>1. Covered(call[c]) /\ Admins # {}
      BY <2>1, <2>2 DEF Cover, Write
    <3>2. CASE call[c].op # "delete" /\ call[c].role = "admin"
      <4>1. Admins \subseteq Admins'
        BY <1>1, <3>2 DEF Admins
      <4> QED BY <3>1, <4>1
    <3>3. CASE call[c].target \notin Admins
      <4>1. Admins \subseteq Admins'
        BY <1>1, <3>3 DEF Admins
      <4> QED BY <3>1, <4>1
    <3>4. ASSUME NEW a \in Admins, a # call[c].target PROVE Admins' # {}
      <4>1. a \in Admins'
        BY <1>1, <3>4 DEF Admins
      <4> QED BY <4>1
    <3> QED BY <3>1, <3>2, <3>3, <3>4 DEF Covered
  <2>3. ASSUME ~raced', NEW d \in Calls PROVE ~(call'[d].pc = "writing" /\ call'[d].op # "create")
    <3>1. CASE d = c
      BY <3>1, WriteCalls DEF NoRequest
    <3>2. CASE d # c
      BY <2>1, <2>3, <3>2, WriteCalls DEF Overlapped
    <3> QED BY <3>1, <3>2
  <2> QED BY <2>2, <2>3 DEF Cover
<1> QED BY <1>2, <1>3, <1>4

LEMMA RestartStep == ASSUME AccountsInv, Restart PROVE AccountsInv'
<1> USE AccountsAssumption DEF AccountsInv
<1>1. call' \in [Calls -> Request] /\ \A c \in Calls : call'[c] = NoRequest
  <2>1. NoRequest \in Request
    BY DEF NoRequest, Request, UserIds, Role
  <2> QED BY <2>1 DEF Restart
<1>2. lastId' \in UserIds /\ DOMAIN users' \subseteq 1 .. lastId' /\ users' \in [DOMAIN users' -> Role]
  <2>1. CASE DOMAIN users = {} /\ lastId < MaxUsers
    BY <2>1 DEF Restart, AccountsTypeOK, UserIds, Role
  <2>2. CASE ~(DOMAIN users = {} /\ lastId < MaxUsers)
    BY <2>2 DEF Restart, AccountsTypeOK
  <2> QED BY <2>1, <2>2
<1>3. AccountsTypeOK'
  BY <1>1, <1>2, Zenon DEF AccountsTypeOK, Restart
<1>4. TargetsKnown'
  BY <1>1, <1>2 DEF TargetsKnown, NoRequest, UserIds
<1>5. Cover'
  <2>1. ASSUME ~raced' PROVE Admins' # {}
    <3>1. Admins # {} /\ DOMAIN users # {}
      BY <2>1 DEF Cover, Restart, Admins
    <3>2. Admins' = Admins
      BY <3>1 DEF Restart, Admins
    <3> QED BY <3>1, <3>2
  <2>2. \A c \in Calls : call'[c].pc # "writing"
    BY <1>1 DEF NoRequest
  <2> QED BY <2>1, <2>2 DEF Cover
<1> QED BY <1>3, <1>4, <1>5

-----------------------------------------------------------------------------
LEMMA AccountsStep == ASSUME AccountsInv, [AccountsNext]_accountVars PROVE AccountsInv'
<1>1. CASE UNCHANGED accountVars
  BY <1>1 DEF accountVars, AccountsInv, AccountsTypeOK, TargetsKnown, Cover, Covered, Admins
<1>2. CASE Restart
  BY <1>2, RestartStep
<1>3. ASSUME NEW id \in UserIds, SignIn(id) PROVE AccountsInv'
  BY <1>3, SessionSteps
<1>4. ASSUME NEW s \in sessions, Expire(s) PROVE AccountsInv'
  BY <1>4, SessionSteps, AccountsAssumption DEF UserIds
<1>5. ASSUME NEW c \in Calls, NEW s \in sessions, NEW role \in Role,
             CreateUser(c, s, role) \/ \E id \in 1 .. lastId : UpdateUserRole(c, s, id, role)
      PROVE  AccountsInv'
  <2>1. 1 \in 1 .. lastId
    BY DEF AccountsInv, AccountsTypeOK, UserIds
  <2> QED BY <1>5, <2>1, ArrivalSteps
<1>6. ASSUME NEW c \in Calls, NEW s \in sessions, NEW id \in 1 .. lastId, DeleteUser(c, s, id)
      PROVE  AccountsInv'
  <2>1. "viewer" \in Role
    BY DEF Role
  <2> QED BY <1>6, <2>1, ArrivalSteps
<1>7. ASSUME NEW c \in Calls, GetByID(c) \/ refuseIfLastAdmin(c) \/ Fail(c) PROVE AccountsInv'
  BY <1>7, CheckSteps
<1>8. ASSUME NEW c \in Calls, Write(c) PROVE AccountsInv'
  BY <1>8, CreateStep, ChangeStep
<1> QED BY <1>1, <1>2, <1>3, <1>4, <1>5, <1>6, <1>7, <1>8 DEF AccountsNext

\* The strengthened invariant of users.go's guards.
THEOREM AccountsInvariant == AccountsSpec => []AccountsInv
<1>1. AccountsInit => AccountsInv
  BY AccountsInitInv
<1>2. AccountsInv /\ [AccountsNext]_accountVars => AccountsInv'
  BY AccountsStep
<1> QED BY <1>1, <1>2, PTL DEF AccountsSpec

\* However many requests and accounts there are, an installation whose role
\* changes and deletions do not overlap always has an administrator: the three
\* guards of users.go and EnsureBootstrapUser are enough, whatever tokens of
\* demoted or deleted accounts are still accepted.
THEOREM AdministratorRemains == AccountsSpec => []AdminRemains
<1>1. AccountsInv => AdminRemains
  BY DEF AccountsInv, Cover, AdminRemains
<1> QED BY <1>1, AccountsInvariant, PTL

-----------------------------------------------------------------------------
(* The login limiter. *)

\* Attempts of source s past allow, whose outcome is not yet recorded.
Pending(att, s) == {a \in Attempts : att[a].source = s /\ att[a].pc \in {"comparing", "failing"}}

\* A record: blocked exactly once it has used up the burst, for a failure of the
\* window it counts.
RecordOK(e) ==
    /\ e \in [failures : Nat, first : Nat, blockedUntil : Nat]
    /\ e.blockedUntil > 0 <=> e.failures >= LoginBurst
    /\ e.blockedUntil > 0 => e.blockedUntil <= e.first + LoginWindow + LoginBlock

\* Nobody enters while the source is blocked, so the failures past the burst and
\* the attempts that may still add one are together no more than all attempts.
Room(e, pending) ==
    e.failures >= LoginBurst => e.failures - LoginBurst + 1 + Cardinality(pending) <= Cardinality(Attempts)

\* What was promised is kept by the record, or is over.
PromiseKept(e, promise, time) == promise <= e.blockedUntil \/ promise <= time

AttemptsOK(att, time) ==
    att \in [Attempts -> [pc : {"idle", "asking", "comparing", "failing"}, source : Sources, at : 0 .. time]]

\* The inductive invariant.
LimiterInv ==
    /\ clock \in Nat
    /\ entries \in [Sources -> [failures : Nat, first : Nat, blockedUntil : Nat]]
    /\ \A s \in Sources : RecordOK(entries[s])
    /\ AttemptsOK(attempt, clock)
    /\ sweepAt \in {NotSweeping} \cup (0 .. clock)
    /\ promised \in [Sources -> Nat]
    /\ \A s \in Sources : Room(entries[s], Pending(attempt, s))
    /\ \A s \in Sources : s \notin lifted => PromiseKept(entries[s], promised[s], clock)

LEMMA PendingFinite ==
  ASSUME NEW att, NEW s
  PROVE  /\ IsFiniteSet(Pending(att, s)) /\ Cardinality(Pending(att, s)) \in Nat
         /\ Cardinality(Pending(att, s)) <= Cardinality(Attempts) /\ Cardinality(Attempts) \in Nat
  <1>1. Pending(att, s) \in SUBSET Attempts /\ IsFiniteSet(Attempts)
    BY LoginAssumption DEF Pending
  <1> QED
    BY <1>1, FS_Subset, FS_CardinalityType

LEMMA NothingOK ==
  /\ RecordOK(Nothing) /\ Nothing.failures = 0 /\ Nothing.blockedUntil = 0
  /\ \A pending : Room(Nothing, pending)
  <1>1. Nothing.failures = 0 /\ Nothing.first = 0 /\ Nothing.blockedUntil = 0
        /\ Nothing \in [failures : Nat, first : Nat, blockedUntil : Nat]
    BY DEF Nothing
  <1> QED
    BY <1>1, LoginAssumption DEF RecordOK, Room

Moved(a, pc, at) == attempt' = [attempt EXCEPT ![a] = [attempt[a] EXCEPT !.pc = pc, !.at = at]]

\* An attempt that moves without adding to the pending ones.
LEMMA AttemptMoves ==
  ASSUME LimiterInv, NEW a \in Attempts, NEW pc \in {"idle", "asking", "comparing", "failing"},
         NEW at \in 0 .. clock, Moved(a, pc, at)
  PROVE  /\ AttemptsOK(attempt', clock)
         /\ attempt'[a].pc = pc /\ attempt'[a].source = attempt[a].source
         /\ \A b \in Attempts \ {a} : attempt'[b] = attempt[b]
         /\ \A s \in Sources \ {attempt[a].source} : Pending(attempt', s) = Pending(attempt, s)
         /\ pc = "failing" /\ attempt[a].pc = "comparing"
               => \A s \in Sources : Pending(attempt', s) = Pending(attempt, s)
         /\ pc \in {"idle", "asking"}
               => Pending(attempt', attempt[a].source) = Pending(attempt, attempt[a].source) \ {a}
  <1>1. attempt \in [Attempts -> [pc : {"idle", "asking", "comparing", "failing"}, source : Sources, at : 0 .. clock]]
    BY DEF LimiterInv, AttemptsOK
  <1> DEFINE q == [attempt[a] EXCEPT !.pc = pc, !.at = at]
  <1>2. /\ q \in [pc : {"idle", "asking", "comparing", "failing"}, source : Sources, at : 0 .. clock]
        /\ q.pc = pc /\ q.source = attempt[a].source
    BY <1>1
  <1> HIDE DEF q
  <1>3. attempt' = [attempt EXCEPT ![a] = q]
    BY DEF q, Moved
  <1>4. AttemptsOK(attempt', clock) /\ attempt'[a] = q /\ \A b \in Attempts \ {a} : attempt'[b] = attempt[b]
    BY <1>1, <1>2, <1>3 DEF AttemptsOK
  <1> QED
    BY <1>1, <1>2, <1>4 DEF Pending

\* Rooms after a step in which only the record of s and its pending attempts change.
LEMMA InvStep ==
  ASSUME LimiterInv, NEW s \in Sources, NEW e, RecordOK(e),
         UNCHANGED <<clock, sweepAt>>,
         entries' = [entries EXCEPT ![s] = e],
         AttemptsOK(attempt', clock),
         \A t \in Sources \ {s} : Pending(attempt', t) = Pending(attempt, t),
         Room(e, Pending(attempt', s)),
         promised' \in [Sources -> Nat],
         \A t \in Sources \ {s} : promised'[t] = promised[t] /\ (t \in lifted' <=> t \in lifted),
         s \notin lifted' => PromiseKept(e, promised'[s], clock)
  PROVE  LimiterInv'
  <1>1. /\ entries' \in [Sources -> [failures : Nat, first : Nat, blockedUntil : Nat]]
        /\ entries'[s] = e /\ \A t \in Sources \ {s} : entries'[t] = entries[t]
    BY DEF LimiterInv, RecordOK
  <1>2. \A t \in Sources : RecordOK(entries'[t])
    BY <1>1 DEF LimiterInv
  <1>3. \A t \in Sources : Room(entries'[t], Pending(attempt', t))
    BY <1>1 DEF LimiterInv
  <1>4. \A t \in Sources : t \notin lifted' => PromiseKept(entries'[t], promised'[t], clock)
    BY <1>1 DEF LimiterInv
  <1> QED
    BY <1>1, <1>2, <1>3, <1>4 DEF LimiterInv

\* Fewer pending attempts leave more room.
LEMMA RoomGrows ==
  ASSUME NEW e, RecordOK(e), NEW att, NEW s, NEW less, Room(e, Pending(att, s)), less \subseteq Pending(att, s)
  PROVE  Room(e, less)
  <1>1. IsFiniteSet(Pending(att, s)) /\ Cardinality(Pending(att, s)) \in Nat /\ Cardinality(Attempts) \in Nat
    BY PendingFinite
  <1>2. Cardinality(less) \in Nat /\ Cardinality(less) <= Cardinality(Pending(att, s))
    BY <1>1, FS_Subset, FS_CardinalityType
  <1>3. e.failures \in Nat /\ LoginBurst \in Nat
    BY LoginAssumption DEF RecordOK
  <1> QED
    BY <1>1, <1>2, <1>3 DEF Room

\* A step that touches no record.
LEMMA RecordsKept ==
  ASSUME LimiterInv, UNCHANGED <<clock, entries, promised, lifted>>,
         AttemptsOK(attempt', clock), sweepAt' \in {NotSweeping} \cup (0 .. clock),
         \A s \in Sources : Pending(attempt', s) \subseteq Pending(attempt, s)
  PROVE  LimiterInv'
  <1>1. \A s \in Sources : Room(entries[s], Pending(attempt', s))
    BY RoomGrows DEF LimiterInv
  <1> QED
    BY <1>1 DEF LimiterInv

LEMMA LimiterTypes ==
  ASSUME LimiterInv, NEW a \in Attempts
  PROVE  /\ attempt[a].source \in Sources /\ attempt[a].at \in 0 .. clock
         /\ attempt \in [Attempts -> [pc : {"idle", "asking", "comparing", "failing"}, source : Sources, at : 0 .. clock]]
         /\ attempt[a].pc \in {"idle", "asking", "comparing", "failing"}
         /\ clock \in Nat /\ 0 \in 0 .. clock /\ clock \in 0 .. clock
  BY DEF LimiterInv, AttemptsOK

\* Steps of handleLogin that change no record.
LEMMA HandlerOK ==
  ASSUME LimiterInv, NEW a \in Attempts, Ask(a) \/ GiveUp(a) \/ Mismatch(a)
  PROVE  LimiterInv'
  <1>1. UNCHANGED <<clock, entries, promised, lifted, sweepAt>>
    BY DEF Ask, GiveUp, Mismatch
  <1>2. PICK pc \in {"idle", "asking", "failing"}, at \in 0 .. clock :
           /\ Moved(a, pc, at)
           /\ pc = "failing" => attempt[a].pc = "comparing"
    <2>1. CASE Ask(a)
      <3>1. Moved(a, "asking", clock)
        BY <2>1, LimiterTypes DEF Ask, Moved
      <3> QED
        BY <3>1, LimiterTypes
    <2>2. CASE GiveUp(a)
      <3>1. Moved(a, "idle", 0)
        BY <2>2, LimiterTypes DEF GiveUp, Moved
      <3> QED
        BY <3>1, LimiterTypes
    <2>3. CASE Mismatch(a)
      <3>1. Moved(a, "failing", clock)
            /\ attempt[a].pc = "comparing"
        BY <2>3, LimiterTypes DEF Mismatch, Moved
      <3> QED
        BY <3>1, LimiterTypes
    <2> QED
      BY <2>1, <2>2, <2>3
  <1>3. AttemptsOK(attempt', clock) /\ \A s \in Sources : Pending(attempt', s) \subseteq Pending(attempt, s)
    BY <1>2, AttemptMoves, LimiterTypes
  <1> QED
    BY <1>1, <1>3, RecordsKept DEF LimiterInv

LEMMA AllowOK ==
  ASSUME LimiterInv, NEW a \in Attempts, Allow(a)
  PROVE  LimiterInv'
  <1> DEFINE s == attempt[a].source
  <1>1. /\ attempt[a].pc = "asking" /\ UNCHANGED <<clock, sweepAt, promised, lifted>>
        /\ s \in Sources /\ RecordOK(entries[s])
        /\ entries \in [Sources -> [failures : Nat, first : Nat, blockedUntil : Nat]]
        /\ s \notin lifted => PromiseKept(entries[s], promised[s], clock)
    BY LimiterTypes DEF Allow, LimiterInv
  <1>2. CASE attempt[a].at < entries[s].blockedUntil
    <2>1. Moved(a, "idle", 0) /\ UNCHANGED entries
      BY <1>2, LimiterTypes DEF Allow, Moved
    <2>2. AttemptsOK(attempt', clock) /\ \A t \in Sources : Pending(attempt', t) \subseteq Pending(attempt, t)
      BY <2>1, AttemptMoves, LimiterTypes
    <2> QED
      BY <1>1, <2>1, <2>2, RecordsKept DEF LimiterInv
  <1>3. CASE ~(attempt[a].at < entries[s].blockedUntil)
    <2>1. /\ Moved(a, "comparing", attempt[a].at)
          /\ entries' = IF Blocked(s) THEN [entries EXCEPT ![s] = Nothing] ELSE entries
      BY <1>3, LimiterTypes DEF Allow, Moved
    <2>2. AttemptsOK(attempt', clock) /\ \A t \in Sources \ {s} : Pending(attempt', t) = Pending(attempt, t)
      BY <2>1, AttemptMoves, LimiterTypes
    <2>3. PICK e : /\ entries' = [entries EXCEPT ![s] = e] /\ RecordOK(e) /\ e.failures < LoginBurst
                   /\ s \notin lifted => PromiseKept(e, promised[s], clock)
      <3>1. CASE Blocked(s)
        <4>1. promised[s] \in Nat /\ attempt[a].at \in 0 .. clock /\ entries[s].blockedUntil \in Nat /\ clock \in Nat
          BY <1>1, LimiterTypes DEF LimiterInv, RecordOK
        <4>2. s \notin lifted => PromiseKept(Nothing, promised[s], clock)
          BY <1>1, <1>3, <4>1 DEF PromiseKept
        <4>3. Nothing.failures < LoginBurst
          BY NothingOK, LoginAssumption
        <4> QED
          BY <2>1, <3>1, <4>2, <4>3, NothingOK
      <3>2. CASE ~Blocked(s)
        <4>1. entries' = [entries EXCEPT ![s] = entries[s]]
          BY <1>1, <2>1, <3>2
        <4>2. entries[s].failures < LoginBurst
          BY <1>1, <3>2, LoginAssumption DEF RecordOK, Blocked
        <4> QED
          BY <1>1, <4>1, <4>2
      <3> QED
        BY <3>1, <3>2
    <2>4. Room(e, Pending(attempt', s))
      BY <2>3, LoginAssumption DEF Room, RecordOK
    <2>5. promised' \in [Sources -> Nat]
      BY <1>1 DEF LimiterInv
    <2> QED
      BY <1>1, <2>2, <2>3, <2>4, <2>5, InvStep
  <1> QED
    BY <1>2, <1>3

LEMMA SuccessOK ==
  ASSUME LimiterInv, NEW a \in Attempts, recordSuccess(a)
  PROVE  LimiterInv'
  <1> DEFINE s == attempt[a].source
  <1>1. /\ UNCHANGED <<clock, sweepAt, lifted>> /\ s \in Sources
        /\ entries' = [entries EXCEPT ![s] = Nothing]
        /\ promised' = [promised EXCEPT ![s] = 0]
        /\ Moved(a, "idle", 0)
    BY LimiterTypes DEF recordSuccess, Moved
  <1>2. AttemptsOK(attempt', clock) /\ \A t \in Sources \ {s} : Pending(attempt', t) = Pending(attempt, t)
    BY <1>1, AttemptMoves, LimiterTypes
  <1>3. /\ promised' \in [Sources -> Nat] /\ promised'[s] = 0
        /\ \A t \in Sources \ {s} : promised'[t] = promised[t]
    BY <1>1 DEF LimiterInv
  <1>4. PromiseKept(Nothing, promised'[s], clock)
    BY <1>3, LimiterTypes DEF PromiseKept
  <1>5. Room(Nothing, Pending(attempt', s)) /\ RecordOK(Nothing)
    BY NothingOK
  <1> QED
    BY <1>1, <1>2, <1>3, <1>4, <1>5, InvStep

\* One failure more and one pending attempt less.
LEMMA FailureOK ==
  ASSUME LimiterInv, NEW a \in Attempts, recordFailure(a)
  PROVE  LimiterInv'
  <1> DEFINE s == attempt[a].source
             now == attempt[a].at
             n == entries[s].failures + 1
             f == entries[s].first
             b == entries[s].blockedUntil
             pending == Pending(attempt, s)
  <1>1. /\ attempt[a].pc = "failing" /\ UNCHANGED <<clock, sweepAt>>
        /\ s \in Sources /\ RecordOK(entries[s])
        /\ entries \in [Sources -> [failures : Nat, first : Nat, blockedUntil : Nat]]
        /\ promised \in [Sources -> Nat]
        /\ s \notin lifted => PromiseKept(entries[s], promised[s], clock)
        /\ Room(entries[s], pending)
        /\ Moved(a, "idle", 0)
    BY LimiterTypes DEF recordFailure, LimiterInv, Moved
  <1>2. /\ now \in Nat /\ now <= clock /\ clock \in Nat /\ entries[s].failures \in Nat /\ f \in Nat /\ b \in Nat
        /\ LoginBurst \in Nat /\ LoginBurst > 1 /\ LoginWindow \in Nat /\ LoginBlock \in Nat /\ LoginBlock > 0
        /\ promised[s] \in Nat
    <2>1. now \in Nat /\ now <= clock /\ clock \in Nat
      BY LimiterTypes
    <2>2. entries[s].failures \in Nat /\ f \in Nat /\ b \in Nat /\ promised[s] \in Nat
      BY <1>1
    <2> QED
      BY <2>1, <2>2, LoginAssumption
  <1>3. /\ AttemptsOK(attempt', clock) /\ \A t \in Sources \ {s} : Pending(attempt', t) = Pending(attempt, t)
        /\ Pending(attempt', s) = pending \ {a}
    BY <1>1, AttemptMoves, LimiterTypes
  <1>4. /\ Cardinality(pending \ {a}) = Cardinality(pending) - 1 /\ Cardinality(pending) \in Nat
        /\ Cardinality(pending) <= Cardinality(Attempts) /\ Cardinality(Attempts) \in Nat
    <2>1. a \in pending
      BY <1>1 DEF Pending
    <2>2. IsFiniteSet(pending)
      BY PendingFinite
    <2> QED
      BY <2>1, <2>2, PendingFinite, FS_RemoveElement
  <1>5. CASE FreshWindow(s, now)
    <2> DEFINE e == [failures |-> 1, first |-> now, blockedUntil |-> 0]
    <2>1. /\ entries' = [entries EXCEPT ![s] = e]
          /\ lifted' = IF Blocked(s) THEN lifted \cup {s} ELSE lifted
          /\ UNCHANGED promised
      BY <1>5 DEF recordFailure
    <2>2. /\ e.failures = 1 /\ e.first = now /\ e.blockedUntil = 0
          /\ e \in [failures : Nat, first : Nat, blockedUntil : Nat]
      BY <1>2
    <2> HIDE DEF e
    <2>3. RecordOK(e) /\ Room(e, Pending(attempt', s))
      BY <1>2, <2>2 DEF RecordOK, Room
    <2>4. s \notin lifted' => PromiseKept(e, promised'[s], clock)
      BY <1>1, <1>2, <2>1, <2>2 DEF PromiseKept, Blocked
    <2>5. \A t \in Sources \ {s} : promised'[t] = promised[t] /\ (t \in lifted' <=> t \in lifted)
      BY <2>1
    <2>6. promised' \in [Sources -> Nat]
      BY <1>1, <2>1
    <2> QED
      BY <1>1, <1>3, <2>1, <2>3, <2>4, <2>5, <2>6, InvStep
  <1>6. CASE ~FreshWindow(s, now)
    <2> DEFINE until == IF n >= LoginBurst THEN now + LoginBlock ELSE b
               e == [entries[s] EXCEPT !.failures = n, !.blockedUntil = until]
               p == IF n = LoginBurst \/ (n > LoginBurst /\ now + LoginBlock < promised[s])
                    THEN now + LoginBlock ELSE promised[s]
    <2>1. /\ entries' = [entries EXCEPT ![s].failures = n,
                              ![s].blockedUntil = IF n >= LoginBurst THEN now + LoginBlock ELSE @]
          /\ promised' = [promised EXCEPT ![s] = p]
          /\ lifted' = IF n = LoginBurst THEN lifted \ {s} ELSE lifted
      BY <1>1, <1>6 DEF recordFailure
    <2>2. entries' = [entries EXCEPT ![s] = e]
      BY <1>1, <2>1 DEF RecordOK
    <2>3. until \in Nat /\ p \in Nat /\ n \in Nat
      BY <1>2
    <2>4. /\ e.failures = n /\ e.first = f /\ e.blockedUntil = until
          /\ e \in [failures : Nat, first : Nat, blockedUntil : Nat]
      BY <1>1, <2>3 DEF RecordOK
    <2>5. now - f <= LoginWindow
      BY <1>2, <1>6 DEF FreshWindow
    <2>6. b > 0 <=> entries[s].failures >= LoginBurst
      BY <1>1 DEF RecordOK
    <2>7. until > 0 <=> n >= LoginBurst
      BY <1>2, <2>6
    <2>8. until > 0 => until <= f + LoginWindow + LoginBlock
      BY <1>2, <2>5, <2>7
    <2>9. s \notin lifted' => p <= until \/ p <= clock
      <3>1. CASE n < LoginBurst
        <4>1. s \notin lifted' => promised[s] <= b \/ promised[s] <= clock
          <5>1. n # LoginBurst
            BY <1>2, <3>1
          <5>2. lifted' = lifted
            BY <2>1, <5>1
          <5> QED
            BY <1>1, <5>2 DEF PromiseKept
        <4> QED
          BY <1>2, <3>1, <4>1
      <3>2. CASE n >= LoginBurst
        <4>1. until = now + LoginBlock /\ until \in Nat
          BY <1>2, <3>2
        <4>2. PICK m : m = promised[s]
          OBVIOUS
        <4>3. p = until \/ (p = m /\ ~(until < m))
          <5>1. n = LoginBurst \/ n > LoginBurst
            BY <1>2, <3>2
          <5> QED
            BY <1>2, <4>1, <4>2, <5>1
        <4>4. until \in Nat /\ m \in Nat
          BY <1>2, <4>1, <4>2
        <4> HIDE DEF until, p
        <4>5. p <= until
          BY <4>3, <4>4
        <4> QED
          BY <4>5
      <3> QED
        BY <1>2, <3>1, <3>2
    <2>10. n >= LoginBurst => n - LoginBurst + 1 + Cardinality(pending \ {a}) <= Cardinality(Attempts)
      BY <1>1, <1>2, <1>4 DEF Room
    <2>11. promised' \in [Sources -> Nat] /\ promised'[s] = p /\ \A t \in Sources \ {s} : promised'[t] = promised[t]
      BY <1>1, <2>1, <2>3
    <2> HIDE DEF e, until, p
    <2>12. RecordOK(e) /\ Room(e, Pending(attempt', s))
      BY <1>3, <2>4, <2>7, <2>8, <2>10 DEF RecordOK, Room
    <2>13. s \notin lifted' => PromiseKept(e, promised'[s], clock)
      BY <2>4, <2>9, <2>11 DEF PromiseKept
    <2>14. \A t \in Sources \ {s} : t \in lifted' <=> t \in lifted
      BY <2>1
    <2> QED
      BY <1>1, <1>3, <2>2, <2>11, <2>12, <2>13, <2>14, InvStep
  <1> QED
    BY <1>5, <1>6

\* sweep drops records whose block is over, by a clock read earlier.
LEMMA SweepOK ==
  ASSUME LimiterInv, sweep
  PROVE  LimiterInv'
  <1>1. /\ sweepAt # NotSweeping /\ UNCHANGED <<clock, attempt, promised, lifted>> /\ sweepAt' = NotSweeping
        /\ entries' = [s \in Sources |-> IF Reclaimable(s) THEN Nothing ELSE entries[s]]
        /\ sweepAt \in 0 .. clock /\ clock \in Nat
    BY DEF sweep, LimiterInv
  <1>2. ASSUME NEW s \in Sources
        PROVE  /\ RecordOK(entries'[s]) /\ Room(entries'[s], Pending(attempt', s))
               /\ s \notin lifted' => PromiseKept(entries'[s], promised'[s], clock')
    <2>1. /\ RecordOK(entries[s]) /\ promised[s] \in Nat /\ Room(entries[s], Pending(attempt, s))
          /\ s \notin lifted => PromiseKept(entries[s], promised[s], clock)
      BY DEF LimiterInv
    <2>2. CASE Reclaimable(s)
      <3>1. entries'[s] = Nothing
        BY <1>1, <2>2
      <3>2. sweepAt > entries[s].blockedUntil /\ entries[s].blockedUntil \in Nat
        BY <2>1, <2>2 DEF Reclaimable, RecordOK
      <3>3. s \notin lifted => promised[s] <= clock
        BY <1>1, <2>1, <3>2 DEF PromiseKept
      <3> QED
        BY <1>1, <3>1, <3>3, NothingOK DEF PromiseKept
    <2>3. CASE ~Reclaimable(s)
      BY <1>1, <2>1, <2>3
    <2> QED
      BY <2>2, <2>3
  <1>3. entries' \in [Sources -> [failures : Nat, first : Nat, blockedUntil : Nat]]
    BY <1>1, <1>2 DEF RecordOK
  <1> QED
    BY <1>1, <1>2, <1>3 DEF LimiterInv

LEMMA ClockOK ==
  ASSUME LimiterInv, LoginTick
  PROVE  LimiterInv'
  <1>1. clock' = clock + 1 /\ clock \in Nat /\ UNCHANGED <<entries, attempt, sweepAt, promised, lifted>>
    BY DEF LoginTick, LimiterInv
  <1>2. AttemptsOK(attempt', clock')
    <2>1. 0 .. clock \subseteq 0 .. clock'
      BY <1>1
    <2>2. \A a \in Attempts : attempt[a] \in [pc : {"idle", "asking", "comparing", "failing"}, source : Sources, at : 0 .. clock']
      BY <2>1 DEF LimiterInv, AttemptsOK
    <2> QED
      BY <1>1, <2>2 DEF AttemptsOK, LimiterInv
  <1>3. sweepAt' \in {NotSweeping} \cup (0 .. clock')
    BY <1>1 DEF LimiterInv
  <1>4. \A s \in Sources : s \notin lifted' => PromiseKept(entries'[s], promised'[s], clock')
    <2> SUFFICES ASSUME NEW s \in Sources, s \notin lifted PROVE PromiseKept(entries[s], promised[s], clock')
      BY <1>1
    <2>1. PromiseKept(entries[s], promised[s], clock) /\ promised[s] \in Nat
      BY DEF LimiterInv
    <2> QED
      BY <1>1, <2>1 DEF PromiseKept
  <1> QED
    BY <1>1, <1>2, <1>3, <1>4 DEF LimiterInv

LEMMA LimiterInvInit == LoginInit => LimiterInv
  <1> SUFFICES ASSUME LoginInit PROVE LimiterInv
    OBVIOUS
  <1>1. /\ clock = 0 /\ entries = [s \in Sources |-> Nothing] /\ sweepAt = NotSweeping
        /\ promised = [s \in Sources |-> 0]
        /\ attempt \in [Attempts -> [pc : {"idle"}, source : Sources, at : {0}]]
    BY DEF LoginInit
  <1>2. AttemptsOK(attempt, clock)
    BY <1>1 DEF AttemptsOK
  <1>3. \A s \in Sources : PromiseKept(entries[s], promised[s], clock)
    BY <1>1 DEF PromiseKept
  <1>4. promised \in [Sources -> Nat]
    BY <1>1
  <1>5. entries \in [Sources -> [failures : Nat, first : Nat, blockedUntil : Nat]]
    BY <1>1, NothingOK DEF RecordOK
  <1> QED
    BY <1>1, <1>2, <1>3, <1>4, <1>5, NothingOK DEF LimiterInv

LEMMA LimiterInvNext ==
  ASSUME LimiterInv, [LoginNext]_loginVars
  PROVE  LimiterInv'
  <1>1. CASE UNCHANGED loginVars
    <2>1. UNCHANGED <<clock, entries, attempt, sweepAt, promised, lifted>>
      BY <1>1 DEF loginVars
    <2> QED
      BY <2>1 DEF LimiterInv
  <1>2. CASE StartSweep
    <2>1. sweepAt' = clock /\ UNCHANGED <<clock, entries, attempt, promised, lifted>> /\ clock \in Nat
      BY <1>2 DEF StartSweep, LimiterInv
    <2> QED
      BY <2>1, RecordsKept DEF LimiterInv
  <1>3. CASE LoginTick \/ sweep
    BY <1>3, ClockOK, SweepOK
  <1>4. ASSUME NEW a \in Attempts,
               Ask(a) \/ Allow(a) \/ GiveUp(a) \/ recordSuccess(a) \/ Mismatch(a) \/ recordFailure(a)
        PROVE  LimiterInv'
    BY <1>4, HandlerOK, AllowOK, SuccessOK, FailureOK
  <1> QED
    BY <1>1, <1>2, <1>3, <1>4 DEF LoginNext

\* What a single step shows of a block: only Allow lets an attempt through.
Admits ==
    \A a \in Attempts :
       LET s == attempt[a].source IN
       attempt[a].pc = "asking" /\ attempt'[a].pc = "comparing" /\ s \notin lifted => clock >= promised[s]

LEMMA AdmitsOK ==
  ASSUME LimiterInv, [LoginNext]_loginVars
  PROVE  [Admits]_loginVars
  <1> SUFFICES ASSUME LoginNext, NEW a \in Attempts, attempt[a].pc = "asking", attempt'[a].pc = "comparing",
                      attempt[a].source \notin lifted
               PROVE  clock >= promised[attempt[a].source]
    BY DEF Admits
  <1> DEFINE s == attempt[a].source
  <1>1. PICK c \in Attempts : Allow(c) /\ c = a
    <2>1. CASE LoginTick \/ StartSweep \/ sweep
      BY <2>1 DEF LoginTick, StartSweep, sweep
    <2>2. ASSUME NEW c \in Attempts, Ask(c) \/ GiveUp(c) \/ recordSuccess(c) \/ Mismatch(c) \/ recordFailure(c)
          PROVE  FALSE
      <3>1. \A b \in Attempts \ {c} : attempt'[b] = attempt[b]
        BY <2>2, LimiterTypes DEF Ask, GiveUp, recordSuccess, Mismatch, recordFailure
      <3>2. attempt'[c].pc # "comparing"
        BY <2>2, LimiterTypes DEF Ask, GiveUp, recordSuccess, Mismatch, recordFailure
      <3> QED
        BY <3>1, <3>2
    <2>3. ASSUME NEW c \in Attempts, Allow(c) PROVE c = a
      <3>1. \A b \in Attempts \ {c} : attempt'[b] = attempt[b]
        BY <2>3, LimiterTypes DEF Allow
      <3> QED
        BY <3>1
    <2> QED
      BY <2>1, <2>2, <2>3 DEF LoginNext
  <1>2. ~(attempt[a].at < entries[s].blockedUntil)
    BY <1>1, LimiterTypes DEF Allow
  <1>3. /\ attempt[a].at \in 0 .. clock /\ clock \in Nat /\ entries[s].blockedUntil \in Nat /\ promised[s] \in Nat
        /\ PromiseKept(entries[s], promised[s], clock)
    BY LimiterTypes DEF LimiterInv, RecordOK
  <1> QED
    BY <1>2, <1>3 DEF PromiseKept

\* For any number of sources and of attempts in parallel, and whatever the clock
\* readings are when the lock is taken: a block is earned within one window, the
\* failures run past the burst by no more than the attempts there can be, and a
\* block holds for its time unless a late answer ended it.
THEOREM LockoutIsSound == LoginSpec => LockoutSound
  <1> DEFINE Bounds == \A s \in Sources :
            /\ Blocked(s) => entries[s].blockedUntil <= entries[s].first + LoginWindow + LoginBlock
            /\ entries[s].failures <= LoginBurst - 1 + Cardinality(Attempts)
  <1>1. LimiterInv => Bounds
    <2> SUFFICES ASSUME LimiterInv, NEW s \in Sources
                 PROVE  /\ Blocked(s) => entries[s].blockedUntil <= entries[s].first + LoginWindow + LoginBlock
                        /\ entries[s].failures <= LoginBurst - 1 + Cardinality(Attempts)
      OBVIOUS
    <2>1. RecordOK(entries[s]) /\ Room(entries[s], Pending(attempt, s))
      BY DEF LimiterInv
    <2>2. Cardinality(Pending(attempt, s)) \in Nat /\ Cardinality(Attempts) \in Nat
      BY PendingFinite
    <2>3. entries[s].failures \in Nat /\ LoginBurst \in Nat
      BY <2>1, LoginAssumption DEF RecordOK
    <2>4. entries[s].failures <= LoginBurst - 1 + Cardinality(Attempts)
      BY <2>1, <2>2, <2>3 DEF Room
    <2> QED
      BY <2>1, <2>4 DEF RecordOK, Blocked
  <1>2. LimiterInv /\ [LoginNext]_loginVars => LimiterInv' /\ [Admits]_loginVars
    BY LimiterInvNext, AdmitsOK
  <1>3. LockoutSound <=> []Bounds /\ [][Admits]_loginVars
    BY DEF LockoutSound, Admits
  <1> QED
    BY <1>1, <1>2, <1>3, LimiterInvInit, PTL DEF LoginSpec

=============================================================================
