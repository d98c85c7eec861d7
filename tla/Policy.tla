------------------------------- MODULE Policy -------------------------------
(***************************************************************************)
(* internal/cache/policy.go: which responses may be kept, for how long,    *)
(* and which requests a kept one may answer.  One path whose upstream      *)
(* always gives the same page, for visitors one after the other; HostCache *)
(* has the requests that overlap, and changes at the upstream.             *)
(*                                                                         *)
(* Left out: hop-by-hop headers, conditional requests, and the syntax of   *)
(* the headers: a header is the set of what it says.                       *)
(***************************************************************************)
EXTENDS Integers, Sequences, FiniteSets

CONSTANTS
    DefaultTTL,   \* Cache.TTL
    MaxTTL,       \* Cache.MaxTTL
    Lifetimes,    \* what max-age and s-maxage may say
    Horizon,      \* bound: the last tick
    Asked         \* bound: the requests visitors make

ASSUME PolicyAssumption ==
    /\ DefaultTTL \in Nat \ {0} /\ MaxTTL \in Nat /\ MaxTTL >= DefaultTTL
    /\ Lifetimes \subseteq Nat /\ Horizon \in Nat

Absent == -1
Unparseable == -2    \* an Expires that is not a date

\* The four codings of Encodings are one here; "other" is any it does not know.
Recognised == {"gzip"}
Codings == Recognised \cup {"other"}
Identity == "identity"
Wildcard == "*"

\* What a request says that the policy reads.  refuses are the codings its
\* Accept-Encoding names with q=0.
PolicyRequest ==
    {q \in [method : {"GET", "HEAD", "POST"}, credentials : BOOLEAN,
            cc : {"", "no-cache", "no-store"}, accepts : SUBSET (Codings \cup {Wildcard}),
            refuses : SUBSET Recognised, range : BOOLEAN] :
        q.accepts \cap q.refuses = {}}

\* What the upstream's page says.  prefers is the coding the upstream uses when
\* it may; compress, that the proxy compresses the page if the upstream does not.
Page ==
    [cc : SUBSET {"no-store", "no-cache", "private", "public"}, pragma : BOOLEAN,
     maxAge : {Absent} \cup Lifetimes, sMaxAge : {Absent} \cup Lifetimes,
     expires : {Absent, Unparseable} \cup Lifetimes,
     cookie : BOOLEAN, vary : SUBSET {"Accept-Encoding", "Cookie"}, prefers : Codings \cup {Identity},
     compress : BOOLEAN]

ASSUME AskedAssumption == Asked \subseteq PolicyRequest

VARIABLES
    page,    \* the upstream's page
    kept,    \* the entries, by the codings in the key
    ticks    \* the clock

policyVars == <<page, kept, ticks>>

PolicyInit ==
    /\ page \in Page
    /\ kept = <<>>
    /\ ticks = 0

\* ParseAcceptEncoding: the codings it knows by their names, not by a wildcard.
VariantKey(q) == q.accepts \cap Recognised

\* The codings a visitor can be sent, by name or by wildcard.
Reads(q) ==
    (q.accepts \cap Codings) \cup (IF Wildcard \in q.accepts THEN Codings \ q.refuses ELSE {})

\* What the upstream answers in.
UpstreamCoding(p, q) == IF p.prefers \in Reads(q) THEN p.prefers ELSE Identity

\* "gzip;q=0, *" passes for an offer: the wildcard is looked at on its own.
acceptsGzip(q) == {"gzip", Wildcard} \cap q.accepts # {}

\* What reaches the cache, which sits outside compressWriter.
CodingFor(p, q) ==
    IF UpstreamCoding(p, q) = Identity /\ p.compress /\ acceptsGzip(q) THEN "gzip"
    ELSE UpstreamCoding(p, q)

Eligible(q) == q.method \in {"GET", "HEAD"} /\ ~q.range /\ q.cc # "no-store"

Invalidates(q) == q.method \notin {"GET", "HEAD"}

Servable(e, q) == q.cc = "" /\ (q.credentials => e.public)

\* The cacheControl directives beat Pragma, which counts only without them.
SaysAnything(p) == p.cc # {} \/ p.maxAge # Absent \/ p.sMaxAge # Absent

\* Mutant: max-age, which is for the visitor's own cache, beats s-maxage.
freshnessPrivate(p) ==
    LET ttl == CASE p.maxAge # Absent -> p.maxAge
                 [] p.maxAge = Absent /\ p.sMaxAge # Absent -> p.sMaxAge
                 [] p.maxAge = Absent /\ p.sMaxAge = Absent /\ p.expires = Absent -> DefaultTTL
                 [] OTHER -> p.expires
    IN  IF ttl > MaxTTL THEN MaxTTL ELSE ttl

\* How long a response may be held; not at all when that is not positive.
freshness(p) ==
    LET ttl == CASE p.sMaxAge # Absent -> p.sMaxAge
                 [] p.sMaxAge = Absent /\ p.maxAge # Absent -> p.maxAge
                 [] p.sMaxAge = Absent /\ p.maxAge = Absent /\ p.expires = Absent -> DefaultTTL
                 [] OTHER -> p.expires
    IN  IF ttl > MaxTTL THEN MaxTTL ELSE ttl

varyIsCacheable(p) == p.vary \subseteq {"Accept-Encoding"}

MayStore(p, q) ==
    /\ q.method = "GET"
    /\ ~p.cookie /\ varyIsCacheable(p)
    /\ p.cc \cap {"no-store", "no-cache", "private"} = {}
    /\ SaysAnything(p) \/ ~p.pragma
    /\ q.credentials => "public" \in p.cc
    /\ freshness(p) > 0

\* History: credentials, whether it was fetched for a visitor with credentials; told,
\* for one who named only codings the key tells apart.
KeptCopy(p, q) ==
    [public |-> "public" \in p.cc, at |-> ticks, until |-> ticks + freshness(p),
     coding |-> CodingFor(p, q), credentials |-> q.credentials, told |-> q.accepts \subseteq Recognised]

\* interceptCache and the fetch behind it.  A stale entry is dropped by Lookup.
FreshUnder(k) == k \in DOMAIN kept /\ ticks < kept[k].until

Hit(q) == Eligible(q) /\ FreshUnder(VariantKey(q)) /\ Servable(kept[VariantKey(q)], q)

AnswerFromCache(q) ==
    /\ ~Invalidates(q) /\ Hit(q)
    /\ UNCHANGED policyVars

\* kept without the entries under ks.
Dropping(ks) == [k \in DOMAIN kept \ ks |-> kept[k]]

FetchPage(q) ==
    LET k == VariantKey(q)
        live == IF Eligible(q) /\ ~FreshUnder(k) THEN Dropping({k}) ELSE kept
    IN
    /\ ~Invalidates(q) /\ ~Hit(q)
    /\ kept' = IF Eligible(q) /\ MayStore(page, q)
               THEN [j \in DOMAIN live \cup {k} |-> IF j = k THEN KeptCopy(page, q) ELSE live[j]]
               ELSE live
    /\ UNCHANGED <<page, ticks>>

ChangePage(q) ==
    /\ Invalidates(q)
    /\ kept' = <<>>
    /\ UNCHANGED <<page, ticks>>

PolicyTick ==
    /\ ticks < Horizon
    /\ ticks' = ticks + 1
    /\ UNCHANGED <<page, kept>>

PolicyNext ==
    \/ \E q \in Asked : AnswerFromCache(q) \/ FetchPage(q) \/ ChangePage(q)
    \/ PolicyTick

PolicySpec == PolicyInit /\ [][PolicyNext]_policyVars

-----------------------------------------------------------------------------
\* Properties.

\* The shared lifetime the upstream asked for, by its most specific statement.
AskedFor(p) ==
    IF p.sMaxAge # Absent THEN p.sMaxAge
    ELSE IF p.maxAge # Absent THEN p.maxAge
    ELSE IF p.expires # Absent THEN p.expires ELSE MaxTTL

\* "The origin always wins" (policy.go:222): a copy is shown only where the
\* upstream let a shared cache keep it, no longer than it asked for and than
\* MaxTTL, across credentials only if it said public, not to a visitor who asked
\* for none, and in a coding the visitor reads, if the copy was fetched for one
\* who named only codings the key tells apart.  (What was fetched under a wildcard
\* or for a coding the key does not know is kept under the key of those who did
\* not name it: no coding is promised of such a copy.)
ServedAsPermitted ==
    \A v \in DOMAIN kept, q \in PolicyRequest : VariantKey(q) = v /\ ~Invalidates(q) /\ Hit(q) =>
        LET e == kept[v]
            age == ticks - e.at
        IN  /\ page.cc \cap {"no-store", "no-cache", "private"} = {}
            /\ ~page.cookie /\ page.vary \subseteq {"Accept-Encoding"}
            /\ page.pragma => SaysAnything(page)
            /\ e.credentials \/ q.credentials => "public" \in page.cc
            /\ age < AskedFor(page) /\ age < MaxTTL
            /\ q.cc = "" /\ ~q.range
            /\ e.told => e.coding \in Reads(q) \cup {Identity}
=============================================================================
