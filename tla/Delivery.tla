------------------------------ MODULE Delivery ------------------------------
(***************************************************************************)
(* What a visitor is promised about one forwarded response, whatever the   *)
(* writers between the upstream and the connection do with it: one status, *)
(* the upstream's; its bytes in order, none lost, none twice; an end that  *)
(* says whether they are all there; and a record of the request that shows *)
(* the status the visitor received.                                        *)
(***************************************************************************)
EXTENDS Integers, Sequences

VARIABLES
    source,  \* the response: its status, the bytes it has come to, how it ended
    hinted,  \* an interim (1xx) response was passed on first
    got,     \* what the visitor has: final status, bytes (decoded), how it ended
    logged   \* the status counted for the request, 0 until it is

deliveryVars == <<source, hinted, got, logged>>

Open == "open"      \* more may come
Whole == "whole"    \* all of it
Cut == "cut"        \* broken off

Nothing == [status |-> 0, body |-> <<>>, end |-> Open]

DeliveryInit == source = Nothing /\ hinted = FALSE /\ got = Nothing /\ logged = 0

Prefix(s, t) == Len(s) <= Len(t) /\ s = SubSeq(t, 1, Len(s))

\* A step shows the visitor more of the response, or nothing.  After an interim
\* response only the order of the bytes is promised: the status that follows is
\* not the upstream's (see WriteHeader in Responses).
Deliver ==
    /\ got.end = Open
    /\ hinted => hinted'
    /\ source.status # 0 => source'.status = source.status
    /\ Prefix(source.body, source'.body)
    /\ got.status # 0 => got'.status = got.status
    /\ Prefix(got.body, got'.body) /\ Prefix(got'.body, source'.body)
    /\ got'.body # <<>> => got'.status # 0
    /\ ~hinted' =>
          /\ got'.status # 0 => got'.status = source'.status
          /\ got'.end = Whole => source'.end = Whole /\ got'.status # 0 /\ got'.body = source'.body
          /\ got'.end = Cut => source'.end = Cut
          /\ logged' # 0 => logged' = source'.status

DeliverySpec == DeliveryInit /\ [][Deliver]_deliveryVars
=============================================================================
