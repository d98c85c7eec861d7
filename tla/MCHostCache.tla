---------------------------- MODULE MCHostCache ----------------------------
(* HostCache for TLC. *)
EXTENDS HostCache, TLC

Symm == Permutations(Req) \cup Permutations(Paths) \cup Permutations(Headers) \cup Permutations(Variants)

KeysInUse == UNION {ToSet(used[i]) : i \in DOMAIN used}
                 \cup {req[r].key : r \in {s \in Req : req[s].pc # "idle"}}

\* What one run looks at: three paths under one host header, or two keys of any
\* headers, and every size while the host has its first cache and time stands still,
\* and a single key and size across caches that come and go, the clock and changes
\* at the origin.
Scope ==
    \/ /\ Len(caches) <= 1 /\ now = 0 /\ \A p \in Paths : origin[p] = 0
       /\ Cardinality(KeysInUse) <= 2 \/ \E host \in Headers : \A k \in KeysInUse : k[2] = host
    \/ /\ config <= 1 /\ \A i \in DOMAIN caches : caches[i].budget = 1
       /\ \A r \in Req : req[r].cfg <= 1 /\ req[r].entry.size <= 1
       /\ Cardinality(KeysInUse) <= 1
============================================================================
