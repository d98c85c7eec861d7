------------------------------- MODULE MCAuth -------------------------------
(* AuthCache for TLC. *)
EXTENDS AuthCache

CONSTANTS c1, c2, in, out

AllowIn == {[deny |-> FALSE, covers |-> {in}]}
DenyOut == {[deny |-> TRUE, covers |-> {out}]}

\* An address or a password; an address that is not denied and a password;
\* addresses only.
SomeLists ==
    {[rules |-> AllowIn, users |-> {c1}, any |-> TRUE], [rules |-> DenyOut, users |-> {c2}, any |-> FALSE],
     [rules |-> AllowIn, users |-> {}, any |-> TRUE]}
=============================================================================
