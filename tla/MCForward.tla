----------------------------- MODULE MCForward -----------------------------
(* Instances of Forward for TLC. *)
EXTENDS Forward, TLC

CONSTANTS u1, u2

\* Both upstreams in rotation.
Both == {(u1 :> TRUE) @@ (u2 :> TRUE)}

\* One upstream.
Single == {u1 :> TRUE}

\* One upstream, which an edit may switch off.
Switched == {u1 :> TRUE, u1 :> FALSE}

BothOrSwitched == Both \cup Switched

\* What one run looks at: two requests that retry between two upstreams while
\* ejections come and lapse, and three requests on the one upstream of a host
\* that is reloaded and switched.
Scope ==
    \/ /\ DOMAIN pools[1] = Upstreams /\ Len(pools) = 1
       /\ Cardinality({r \in Req : req[r].pc # "new"}) <= 2
    \/ /\ \A g \in DOMAIN pools : DOMAIN pools[g] = {u1}
       /\ now = 1 /\ \A r \in Req : req[r].attempt = 0

Interchangeable == Permutations(Req)
=============================================================================
