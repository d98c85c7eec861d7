----------------------------- MODULE MCControl -----------------------------
(***************************************************************************)
(* The parts of the control plane for TLC.  They share no state, so one    *)
(* run checks them side by side: a behaviour is about one of them, and the *)
(* others rest in an initial state.  The first database has hosts that are *)
(* enabled, lists to be satisfied in full and no redirects; edits change   *)
(* that.                                                                   *)
(***************************************************************************)
EXTENDS TLC, Accounts, Login, Configuration, Certificates, Backup

VARIABLE about

Parts == {"accounts", "login", "configuration", "certificates", "backup"}

Init ==
    /\ about \in Parts
    /\ AccountsInit /\ LoginInit /\ ConfigurationInit /\ CertificatesInit /\ BackupInit
    /\ about = "configuration" \/ store = Empty
    /\ \A h \in DOMAIN store.hosts : store.hosts[h].enabled
    /\ store.redirects = <<>>
    /\ \A l \in DOMAIN store.lists : ~store.lists[l]

Next ==
    /\ UNCHANGED about
    /\ \/ about = "accounts" /\ AccountsNext /\ UNCHANGED <<loginVars, configVars, certVars, backupVars>>
       \/ about = "login" /\ LoginNext /\ UNCHANGED <<accountVars, configVars, certVars, backupVars>>
       \/ about = "configuration" /\ ConfigurationNext /\ UNCHANGED <<accountVars, loginVars, certVars, backupVars>>
       \/ about = "certificates" /\ CertificatesNext /\ UNCHANGED <<accountVars, loginVars, configVars, backupVars>>
       \/ about = "backup" /\ BackupNext /\ UNCHANGED <<accountVars, loginVars, configVars, certVars>>

Spec == Init /\ [][Next]_<<about, accountVars, loginVars, configVars, certVars, backupVars>>

\* After a first restore or a fresh start a second one, with fewer archives.
Scope == created > 1 \/ dir = <<>> => Len(archives) <= 2

Interchangeable == Permutations(Editors) \cup Permutations(Takers)
=============================================================================
