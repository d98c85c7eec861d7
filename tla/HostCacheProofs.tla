-------------------------- MODULE HostCacheProofs --------------------------
(***************************************************************************)
(* For any number of requests, keys, budgets and caches: the map, the list *)
(* and the byte count of a cache agree, an eviction takes the least        *)
(* recently used, and no cache is stranded.                                *)
(*                                                                         *)
(* First sums and lists, then what each operation under HostCache.mu does  *)
(* to one cache, then every step of a request.                             *)
(***************************************************************************)
EXTENDS HostCache, FiniteSetTheorems, SequenceTheorems, WellFoundedInduction, TLAPS

\* A set of subsets of a finite set has a member that contains no other.
LEMMA LeastSubset ==
  ASSUME NEW S, IsFiniteSet(S), NEW W \in SUBSET (SUBSET S), W # {}
  PROVE  \E T \in W : \A U \in W : U \subseteq T => U = T
<1>1. IsWellFoundedOn(StrictSubsetOrdering(S), FiniteSubsetsOf(S))
  BY FS_StrictSubsetOrderingWellFounded
<1>2. W \subseteq FiniteSubsetsOf(S)
  BY FS_Subset DEF FiniteSubsetsOf
<1>3. PICK T \in W : \A U \in W : ~(<<U, T>> \in StrictSubsetOrdering(S))
  <2> HIDE DEF FiniteSubsetsOf, StrictSubsetOrdering
  <2> QED BY <1>1, <1>2, WFMin
<1>4. ASSUME NEW U \in W, U \subseteq T, U # T PROVE FALSE
  <2>1. <<U, T>> \in StrictSubsetOrdering(S)
    BY <1>4 DEF StrictSubsetOrdering
  <2> QED BY <1>3, <2>1
<1> QED BY <1>3, <1>4

AnyOf(s) == CHOOSE x \in s : TRUE

\* g sums the sizes that f gives to the subsets of S, as MapThenSumSet does.
Sums(g, f, S) ==
    g = [s \in SUBSET S |-> IF s = {} THEN 0 ELSE f[AnyOf(s)].size + g[s \ {AnyOf(s)}]]

\* The sum is the fold of the library.
LEMMA BytesFold ==
  ASSUME NEW f, NEW S
  PROVE  Bytes(f, S) = (CHOOSE g : Sums(g, f, S))[S]
BY DEF Bytes, MapThenSumSet, MapThenFoldSet, Sums, AnyOf

\* The element the fold takes is one of the set.
LEMMA AnyOfSet == ASSUME NEW S, S # {} PROVE AnyOf(S) \in S
  BY DEF AnyOf

\* Two folds agree on the sets both are about: a smallest set on which they
\* differ would have a smaller one.
LEMMA SumsAgree ==
  ASSUME NEW f, NEW S, IsFiniteSet(S), NEW T \in SUBSET S, NEW g,
         NEW h, Sums(g, f, S), Sums(h, f, T)
  PROVE  \A U \in SUBSET T : g[U] = h[U]
<1> SUFFICES ASSUME NEW V \in SUBSET T, g[V] # h[V] PROVE FALSE
  OBVIOUS
<1> DEFINE W == {U \in SUBSET T : g[U] # h[U]}
<1>0. IsFiniteSet(T)
  BY FS_Subset
<1>1. PICK U \in W : \A X \in W : X \subseteq U => X = U
  <2>1. W \in SUBSET (SUBSET T) /\ W # {}
    OBVIOUS
  <2> HIDE DEF W
  <2> QED BY <1>0, <2>1, LeastSubset
<1>2. g[U] = IF U = {} THEN 0 ELSE f[AnyOf(U)].size + g[U \ {AnyOf(U)}]
  BY DEF Sums
<1>3. h[U] = IF U = {} THEN 0 ELSE f[AnyOf(U)].size + h[U \ {AnyOf(U)}]
  BY DEF Sums
<1>4. CASE U = {}
  BY <1>2, <1>3, <1>4
<1>5. CASE U # {}
  <2>1. U \ {AnyOf(U)} # U
    BY <1>5, AnyOfSet
  <2>2. U \ {AnyOf(U)} \notin W
    BY <1>1, <2>1
  <2> QED BY <1>2, <1>3, <1>5, <2>2
<1> QED BY <1>4, <1>5

\* There is a fold over every finite set.
LEMMA SumsExist ==
  ASSUME NEW f, NEW S, IsFiniteSet(S)
  PROVE  \E g : Sums(g, f, S)
<1> DEFINE W == {U \in SUBSET S : ~\E g : Sums(g, f, U)}
<1> SUFFICES ASSUME W # {} PROVE FALSE
  OBVIOUS
<1>1. PICK T \in W : \A X \in W : X \subseteq T => X = T
  <2>1. W \in SUBSET (SUBSET S)
    OBVIOUS
  <2> HIDE DEF W
  <2> QED BY <2>1, LeastSubset
<1> DEFINE sum(s) == (CHOOSE g : Sums(g, f, s))[s]
           b == [s \in SUBSET T |-> IF s = {} THEN 0 ELSE f[AnyOf(s)].size + sum(s \ {AnyOf(s)})]
<1>2. \A s \in SUBSET T : s # T => Sums(CHOOSE g : Sums(g, f, s), f, s)
  BY <1>1
<1>3. ASSUME NEW s \in SUBSET T, s # T PROVE b[s] = sum(s)
  <2> DEFINE h == CHOOSE g : Sums(g, f, s)
  <2>1. Sums(h, f, s)
    BY <1>2, <1>3
  <2> HIDE DEF h
  <2>2. h[s] = IF s = {} THEN 0 ELSE f[AnyOf(s)].size + h[s \ {AnyOf(s)}]
    BY <2>1 DEF Sums
  <2>3. CASE s = {}
    BY <2>2, <2>3 DEF h
  <2>4. CASE s # {}
    <3> DEFINE r == s \ {AnyOf(s)}
    <3>1. r \in SUBSET T /\ r # T /\ r \subseteq s
      BY <1>3
    <3>2. Sums(CHOOSE g : Sums(g, f, r), f, r)
      BY <1>2, <3>1
    <3>3. IsFiniteSet(s)
      BY FS_Subset
    <3>4. h[r] = sum(r)
      BY <2>1, <3>1, <3>2, <3>3, SumsAgree
    <3> QED BY <2>2, <2>4, <3>4 DEF h
  <2> QED BY <2>3, <2>4
<1>4. Sums(b, f, T)
  <2>1. ASSUME NEW s \in SUBSET T, s # {} PROVE b[s \ {AnyOf(s)}] = sum(s \ {AnyOf(s)})
    <3>1. s \ {AnyOf(s)} # T /\ s \ {AnyOf(s)} \in SUBSET T
      BY <2>1, AnyOfSet
    <3> HIDE DEF b, sum
    <3> QED BY <1>3, <3>1
  <2>2. b = [s \in SUBSET T |-> IF s = {} THEN 0 ELSE f[AnyOf(s)].size + sum(s \ {AnyOf(s)})]
    OBVIOUS
  <2> HIDE DEF b, sum
  <2> QED BY <2>1, <2>2 DEF Sums
<1> QED BY <1>1, <1>4

\* One step of the sum.
LEMMA BytesOf ==
  ASSUME NEW f, NEW S, IsFiniteSet(S)
  PROVE  Bytes(f, S) = IF S = {} THEN 0 ELSE f[AnyOf(S)].size + Bytes(f, S \ {AnyOf(S)})
<1>1. PICK R : R = S \ {AnyOf(S)}
  OBVIOUS
<1>2. PICK g, h : g = (CHOOSE x : Sums(x, f, S)) /\ h = (CHOOSE x : Sums(x, f, R))
  OBVIOUS
<1>3. IsFiniteSet(R) /\ R \in SUBSET S
  BY <1>1, FS_Subset
<1>4. Sums(g, f, S) /\ Sums(h, f, R)
  BY <1>2, <1>3, SumsExist
<1>5. R \in SUBSET R
  OBVIOUS
<1>6. g[R] = h[R]
  BY <1>3, <1>4, <1>5, SumsAgree
<1>7. g[S] = IF S = {} THEN 0 ELSE f[AnyOf(S)].size + g[R]
  BY <1>1, <1>4 DEF Sums
<1>8. Bytes(f, S) = g[S] /\ Bytes(f, R) = h[R]
  BY <1>2, BytesFold
<1> QED BY <1>1, <1>6, <1>7, <1>8

Sized(f, S) == \A k \in S : f[k].size \in Nat

\* A sum of sizes is a natural number.
LEMMA BytesNat ==
  ASSUME NEW f, NEW S, IsFiniteSet(S), Sized(f, S)
  PROVE  Bytes(f, S) \in Nat
<1> DEFINE W == {T \in SUBSET S : Bytes(f, T) \notin Nat}
<1> SUFFICES ASSUME W # {} PROVE FALSE
  OBVIOUS
<1>1. PICK T \in W : \A X \in W : X \subseteq T => X = T
  <2>1. W \in SUBSET (SUBSET S)
    OBVIOUS
  <2> HIDE DEF W
  <2> QED BY <2>1, LeastSubset
<1>2. Bytes(f, T) = IF T = {} THEN 0 ELSE f[AnyOf(T)].size + Bytes(f, T \ {AnyOf(T)})
  BY BytesOf, FS_Subset
<1>3. T # {}
  BY <1>2
<1>4. AnyOf(T) \in T /\ T \ {AnyOf(T)} \in SUBSET S /\ T \ {AnyOf(T)} # T
  BY <1>3, AnyOfSet
<1>5. Bytes(f, T \ {AnyOf(T)}) \in Nat
  BY <1>1, <1>4
<1>6. f[AnyOf(T)].size \in Nat
  BY <1>4 DEF Sized
<1> QED BY <1>2, <1>3, <1>5, <1>6

\* Whichever element is taken out first.
LEMMA BytesLess ==
  ASSUME NEW f, NEW S, IsFiniteSet(S), Sized(f, S), NEW k \in S
  PROVE  Bytes(f, S) = f[k].size + Bytes(f, S \ {k})
<1> DEFINE W == {T \in SUBSET S : \E x \in T : Bytes(f, T) # f[x].size + Bytes(f, T \ {x})}
<1> SUFFICES ASSUME W # {} PROVE FALSE
  OBVIOUS
<1>1. PICK T \in W : \A X \in W : X \subseteq T => X = T
  <2>1. W \in SUBSET (SUBSET S)
    OBVIOUS
  <2> HIDE DEF W
  <2> QED BY <2>1, LeastSubset
<1>2. PICK x \in T : Bytes(f, T) # f[x].size + Bytes(f, T \ {x})
  OBVIOUS
<1>3. PICK y \in T : y = AnyOf(T)
  BY <1>2, AnyOfSet
<1>4. Bytes(f, T) = f[y].size + Bytes(f, T \ {y}) /\ x # y
  BY <1>2, <1>3, BytesOf, FS_Subset
<1>5. T \ {y} \notin W /\ T \ {y} \in SUBSET S /\ T \ {x} \notin W /\ T \ {x} \in SUBSET S
  BY <1>1, <1>2, <1>3
<1>6. Bytes(f, T \ {y}) = f[x].size + Bytes(f, (T \ {y}) \ {x})
  BY <1>4, <1>5
<1>7. Bytes(f, T \ {x}) = f[y].size + Bytes(f, (T \ {x}) \ {y})
  BY <1>4, <1>5
<1>8. (T \ {x}) \ {y} = (T \ {y}) \ {x}
  OBVIOUS
<1>9. /\ f[x].size \in Nat /\ f[y].size \in Nat /\ Bytes(f, T \ {x}) \in Nat
         /\ Bytes(f, T \ {y}) \in Nat
      /\ Bytes(f, (T \ {y}) \ {x}) \in Nat
  <2>1. Sized(f, T) /\ Sized(f, T \ {x}) /\ Sized(f, T \ {y}) /\ Sized(f, (T \ {y}) \ {x})
    BY DEF Sized
  <2>2. IsFiniteSet(T) /\ IsFiniteSet(T \ {x}) /\ IsFiniteSet(T \ {y})
        /\ IsFiniteSet((T \ {y}) \ {x})
    BY FS_Subset
  <2> QED BY <2>1, <2>2, BytesNat DEF Sized
<1>10. PICK a, b, c, d, e : /\ a = f[x].size /\ b = f[y].size /\ c = Bytes(f, T \ {x})
                           /\ d = Bytes(f, T \ {y}) /\ e = Bytes(f, (T \ {y}) \ {x})
  OBVIOUS
<1>11. a \in Nat /\ b \in Nat /\ e \in Nat /\ d = a + e /\ c = b + e
  BY <1>6, <1>7, <1>8, <1>9, <1>10
<1>12. b + d = a + c
  BY <1>11
<1> QED BY <1>2, <1>4, <1>10, <1>12

\* The sum depends on the sizes only.
LEMMA BytesSame ==
  ASSUME NEW f, NEW g, NEW S, IsFiniteSet(S), \A k \in S : f[k].size = g[k].size
  PROVE  Bytes(f, S) = Bytes(g, S)
<1> DEFINE W == {T \in SUBSET S : Bytes(f, T) # Bytes(g, T)}
<1> SUFFICES ASSUME W # {} PROVE FALSE
  OBVIOUS
<1>1. PICK T \in W : \A X \in W : X \subseteq T => X = T
  <2>1. W \in SUBSET (SUBSET S)
    OBVIOUS
  <2> HIDE DEF W
  <2> QED BY <2>1, LeastSubset
<1>2. /\ Bytes(f, T) = IF T = {} THEN 0 ELSE f[AnyOf(T)].size + Bytes(f, T \ {AnyOf(T)})
      /\ Bytes(g, T) = IF T = {} THEN 0 ELSE g[AnyOf(T)].size + Bytes(g, T \ {AnyOf(T)})
  BY BytesOf, FS_Subset
<1>3. T # {}
  BY <1>2
<1>4. AnyOf(T) \in T /\ T \ {AnyOf(T)} \in SUBSET S /\ T \ {AnyOf(T)} # T
  BY <1>3, AnyOfSet
<1>5. Bytes(f, T \ {AnyOf(T)}) = Bytes(g, T \ {AnyOf(T)})
  BY <1>1, <1>4
<1> QED BY <1>2, <1>3, <1>4, <1>5

\* The sum over a set is that over a part of it and that over the rest.
LEMMA BytesSplit ==
  ASSUME NEW f, NEW S, IsFiniteSet(S), Sized(f, S), NEW R \in SUBSET S
  PROVE  Bytes(f, S) = Bytes(f, R) + Bytes(f, S \ R)
<1> DEFINE W == {T \in SUBSET R : Bytes(f, S) # Bytes(f, T) + Bytes(f, S \ T)}
<1> SUFFICES ASSUME W # {} PROVE FALSE
  OBVIOUS
<1>0. IsFiniteSet(R)
  BY FS_Subset
<1>1. PICK T \in W : \A X \in W : X \subseteq T => X = T
  <2>1. W \in SUBSET (SUBSET R)
    OBVIOUS
  <2> HIDE DEF W
  <2> QED BY <1>0, <2>1, LeastSubset
<1>2. T # {}
  <2>1. Bytes(f, {}) = 0
    BY BytesOf, FS_EmptySet
  <2>2. Bytes(f, S) \in Nat /\ S \ {} = S
    BY BytesNat
  <2>3. Bytes(f, S) = Bytes(f, {}) + Bytes(f, S \ {})
    BY <2>1, <2>2
  <2>4. {} \notin W
    BY <2>3
  <2> QED BY <2>4
<1>3. PICK x \in T : TRUE
  BY <1>2
<1>4. T \ {x} \in SUBSET R /\ T \ {x} # T /\ S \ (T \ {x}) = (S \ T) \cup {x}
      /\ ((S \ T) \cup {x}) \ {x} = S \ T
  OBVIOUS
<1>5. Bytes(f, S) = Bytes(f, T \ {x}) + Bytes(f, (S \ T) \cup {x})
  BY <1>1, <1>4
<1>6. Bytes(f, T) = f[x].size + Bytes(f, T \ {x})
  BY BytesLess, FS_Subset DEF Sized
<1>7. Bytes(f, (S \ T) \cup {x}) = f[x].size + Bytes(f, S \ T)
  <2>1. IsFiniteSet((S \ T) \cup {x}) /\ Sized(f, (S \ T) \cup {x})
    BY FS_Subset DEF Sized
  <2> QED BY <1>4, <2>1, BytesLess
<1>8. /\ f[x].size \in Nat /\ Bytes(f, T \ {x}) \in Nat /\ Bytes(f, S \ T) \in Nat
  BY BytesNat, FS_Subset DEF Sized
<1>9. Bytes(f, S) # Bytes(f, T) + Bytes(f, S \ T)
  OBVIOUS
<1> HIDE DEF W
<1> QED BY <1>5, <1>6, <1>7, <1>8, <1>9

Distinct(s) == \A i, j \in 1 .. Len(s) : s[i] = s[j] => i = j

\* The elements of a sequence, by position.
LEMMA SetOf ==
  ASSUME NEW S, NEW s \in Seq(S), NEW n, n = Len(s)
  PROVE  ToSet(s) = {s[j] : j \in 1 .. n} /\ n \in Nat /\ ToSet(s) \subseteq S
<1>1. DOMAIN s = 1 .. n
  OBVIOUS
<1>2. ToSet(s) = {s[j] : j \in 1 .. n}
  BY <1>1 DEF ToSet
<1> QED BY <1>2

Without(s, i) == SubSeq(s, 1, i - 1) \o SubSeq(s, i + 1, Len(s))

\* t is s with its place i closed.
Closes(t, s, i) ==
    /\ Len(t) = Len(s) - 1
    /\ \A j \in 1 .. Len(s) - 1 : t[j] = IF j < i THEN s[j] ELSE s[j + 1]

\* Where no element is there twice, the first occurrence is the only one.
LEMMA FirstOf ==
  ASSUME NEW S, NEW s \in Seq(S), NEW i \in 1 .. Len(s), Distinct(s)
  PROVE  RemoveFirst(s, s[i]) = Without(s, i)
<1> DEFINE I == {j \in 1 .. Len(s) : s[j] = s[i]}
<1>1. I = {i}
  BY DEF Distinct
<1>2. Min(I) = i
  BY <1>1 DEF Min
<1>3. SelectInSeq(s, LAMBDA v : v = s[i]) = i
  BY <1>1, <1>2 DEF SelectInSeq
<1>4. RemoveFirst(s, s[i]) = RemoveAt(s, SelectInSeq(s, LAMBDA v : v = s[i]))
  BY DEF RemoveFirst
<1> QED BY <1>3, <1>4 DEF RemoveAt, Without

\* The elements behind the place move up by one.
LEMMA WithoutAt ==
  ASSUME NEW S, NEW s \in Seq(S), NEW i \in 1 .. Len(s), NEW t, t = Without(s, i)
  PROVE  t \in Seq(S) /\ Closes(t, s, i)
<1>1. PICK a, b, n : a = SubSeq(s, 1, i - 1) /\ b = SubSeq(s, i + 1, Len(s)) /\ n = Len(s)
  OBVIOUS
<1>2. n \in Nat /\ i \in 1 .. n /\ \A j \in 1 .. n : s[j] \in S
  BY <1>1
<1>3. a \in Seq(S) /\ Len(a) = i - 1 /\ \A j \in 1 .. i - 1 : a[j] = s[j]
  <2>1. \A j \in 1 .. i - 1 : s[j] \in S
    BY <1>2
  <2>2. 1 \in Int /\ i - 1 \in Int
    BY <1>2
  <2> QED BY <1>1, <1>2, <2>1, <2>2, SubSeqProperties
<1>4. b \in Seq(S) /\ Len(b) = n - i /\ \A j \in 1 .. n - i : b[j] = s[i + j]
  <2>1. \A j \in i + 1 .. n : s[j] \in S
    BY <1>2
  <2>2. i + 1 \in Int /\ n \in Int
    BY <1>2
  <2> QED BY <1>1, <1>2, <2>1, <2>2, SubSeqProperties
<1>5. /\ a \o b \in Seq(S) /\ Len(a \o b) = n - 1
      /\ \A j \in 1 .. n - 1 : (a \o b)[j] = IF j <= i - 1 THEN a[j] ELSE b[j - (i - 1)]
  <2>1. Len(a) + Len(b) = n - 1
    BY <1>2, <1>3, <1>4
  <2>2. a \o b \in Seq(S) /\ Len(a \o b) = n - 1
    BY <1>3, <1>4, <2>1, ConcatProperties
  <2>3. \A j \in 1 .. Len(a) + Len(b) : (a \o b)[j] = IF j <= Len(a) THEN a[j] ELSE b[j - Len(a)]
    BY <1>3, <1>4, ConcatProperties
  <2> QED BY <1>3, <2>1, <2>2, <2>3
<1>6. ASSUME NEW j \in 1 .. n - 1 PROVE (a \o b)[j] = IF j < i THEN s[j] ELSE s[j + 1]
  <2>1. CASE j < i
    BY <1>2, <1>3, <1>5, <2>1
  <2>2. CASE ~(j < i)
    <3>1. j - (i - 1) \in 1 .. n - i /\ i + (j - (i - 1)) = j + 1 /\ ~(j <= i - 1)
      BY <1>2, <2>2
    <3> QED BY <1>4, <1>5, <3>1, <2>2
  <2> QED BY <2>1, <2>2
<1> QED BY <1>1, <1>5, <1>6 DEF Without, Closes

\* RemoveFirst takes one element out and keeps the rest apart.
LEMMA TakenOut ==
  ASSUME NEW S, NEW s \in Seq(S), Distinct(s), NEW k, NEW t, t = RemoveFirst(s, k)
  PROVE  t \in Seq(S) /\ Distinct(t) /\ ToSet(t) = ToSet(s) \ {k}
<1>0. ToSet(s) = {s[j] : j \in 1 .. Len(s)}
  BY SetOf
<1>1. CASE k \notin ToSet(s)
  <2>1. ~\E i \in 1 .. Len(s) : s[i] = k
    BY <1>0, <1>1
  <2> QED BY <1>1, <2>1 DEF RemoveFirst
<1>2. CASE k \in ToSet(s)
  <2>1. PICK i \in 1 .. Len(s) : s[i] = k
    BY <1>0, <1>2
  <2>2. PICK n : n = Len(s) /\ n \in Nat
    OBVIOUS
  <2>3. /\ t \in Seq(S) /\ Len(t) = n - 1
        /\ \A j \in 1 .. n - 1 : t[j] = IF j < i THEN s[j] ELSE s[j + 1]
    <3>1. t = Without(s, i)
      BY <2>1, FirstOf
    <3>2. i \in 1 .. Len(s)
      BY <2>1
    <3>3. t \in Seq(S) /\ Closes(t, s, i)
      BY <3>1, <3>2, WithoutAt
    <3> QED BY <2>2, <3>3 DEF Closes
  <2>4. ToSet(t) = {t[j] : j \in 1 .. n - 1} /\ ToSet(s) = {s[j] : j \in 1 .. n}
    <3>1. DOMAIN t = 1 .. n - 1 /\ DOMAIN s = 1 .. n
      BY <2>2, <2>3
    <3> QED BY <3>1 DEF ToSet
  <2>5. Distinct(t)
    <3> SUFFICES ASSUME NEW j \in 1 .. n - 1, NEW m \in 1 .. n - 1, t[j] = t[m] PROVE j = m
      BY <2>3 DEF Distinct
    <3>1. \A x, y \in 1 .. n : s[x] = s[y] => x = y
      BY <2>2 DEF Distinct
    <3>2. /\ j \in 1 .. n /\ m \in 1 .. n /\ j + 1 \in 1 .. n /\ m + 1 \in 1 .. n
          /\ j \in Int /\ m \in Int
      BY <2>2
    <3>3. i \in Int
      BY <2>1, <2>2
    <3>4. CASE j < i /\ m < i
      BY <2>3, <3>1, <3>2, <3>4
    <3>5. CASE j < i /\ ~(m < i)
      <4>1. j = m + 1
        BY <2>3, <3>1, <3>2, <3>5
      <4> QED BY <3>2, <3>3, <3>5, <4>1
    <3>6. CASE ~(j < i) /\ m < i
      <4>1. j + 1 = m
        BY <2>3, <3>1, <3>2, <3>6
      <4> QED BY <3>2, <3>3, <3>6, <4>1
    <3>7. CASE ~(j < i) /\ ~(m < i)
      <4>1. j + 1 = m + 1
        BY <2>3, <3>1, <3>2, <3>7
      <4> QED BY <3>2, <4>1
    <3> QED BY <3>4, <3>5, <3>6, <3>7
  <2>6. ASSUME NEW x \in ToSet(t) PROVE x \in ToSet(s) \ {k}
    <3>1. PICK j \in 1 .. n - 1 : x = t[j]
      BY <2>4, <2>6
    <3>2. j \in 1 .. n /\ j + 1 \in 1 .. n /\ j \in Int /\ i \in Int
      BY <2>1, <2>2
    <3>3. PICK m \in 1 .. n : x = s[m] /\ m # i
      BY <2>3, <3>1, <3>2
    <3>4. x # k
      BY <2>1, <2>2, <3>3 DEF Distinct
    <3> QED BY <2>4, <3>3, <3>4
  <2>7. ASSUME NEW x \in ToSet(s), x # k PROVE x \in ToSet(t)
    <3>1. PICK m \in 1 .. n : x = s[m]
      BY <2>4
    <3>2. m # i /\ m \in Int /\ i \in 1 .. n
      BY <2>1, <2>2, <2>7, <3>1
    <3>3. CASE m < i
      <4>1. m \in 1 .. n - 1
        BY <2>2, <3>2, <3>3
      <4>2. t[m] = x
        BY <2>3, <3>1, <3>3, <4>1
      <4> QED BY <2>4, <4>1, <4>2
    <3>4. CASE ~(m < i)
      <4>1. PICK j \in 1 .. n - 1 : j + 1 = m /\ ~(j < i)
        <5>1. m - 1 \in 1 .. n - 1 /\ (m - 1) + 1 = m /\ ~(m - 1 < i)
          BY <2>2, <3>2, <3>4
        <5> QED BY <5>1
      <4>2. t[j] = x
        BY <2>3, <3>1, <4>1
      <4> QED BY <2>4, <4>2
    <3> QED BY <3>3, <3>4
  <2> QED BY <2>3, <2>5, <2>6, <2>7
<1> QED BY <1>1, <1>2

Push(k, s) == <<k>> \o s

\* A new element at the front.
LEMMA PutFirst ==
  ASSUME NEW S, NEW s \in Seq(S), Distinct(s), NEW k \in S, k \notin ToSet(s), NEW t, t = Push(k, s)
  PROVE  t \in Seq(S) /\ Distinct(t) /\ ToSet(t) = ToSet(s) \cup {k}
<1>1. PICK n : n = Len(s) /\ n \in Nat
  OBVIOUS
<1>2. <<k>> \in Seq(S) /\ Len(<<k>>) = 1 /\ <<k>>[1] = k
  OBVIOUS
<1>3. /\ t \in Seq(S) /\ Len(t) = n + 1
      /\ \A i \in 1 .. n + 1 : t[i] = IF i <= 1 THEN <<k>>[i] ELSE s[i - 1]
  <2>1. Len(<<k>>) + Len(s) = n + 1
    BY <1>1, <1>2
  <2>2. t = <<k>> \o s
    BY DEF Push
  <2> QED BY <1>2, <2>1, <2>2, ConcatProperties
<1>4. t[1] = k /\ \A i \in 2 .. n + 1 : i - 1 \in 1 .. n /\ t[i] = s[i - 1]
  BY <1>1, <1>2, <1>3
<1>5. ToSet(t) = {t[j] : j \in 1 .. n + 1} /\ ToSet(s) = {s[j] : j \in 1 .. n}
  <2>1. DOMAIN t = 1 .. n + 1
    BY <1>3
  <2>2. ToSet(t) = {t[j] : j \in 1 .. n + 1}
    BY <2>1 DEF ToSet
  <2>3. ToSet(s) = {s[j] : j \in 1 .. n}
    BY <1>1, SetOf
  <2> QED BY <2>2, <2>3
<1>6. \A j \in 1 .. n : s[j] # k
  BY <1>5
<1>0. \A j \in 2 .. n + 1 : t[j] \in ToSet(s)
  BY <1>4, <1>5
<1>7. Distinct(t)
  <2> SUFFICES ASSUME NEW i \in 1 .. n + 1, NEW j \in 1 .. n + 1, t[i] = t[j] PROVE i = j
    BY <1>3 DEF Distinct
  <2>1. \A x, y \in 1 .. n : s[x] = s[y] => x = y
    BY <1>1 DEF Distinct
  <2>2. CASE i = 1 /\ j = 1
    BY <2>2
  <2>3. CASE i = 1 /\ j # 1
    BY <1>1, <1>4, <1>6, <2>3
  <2>4. CASE i # 1 /\ j = 1
    BY <1>1, <1>4, <1>6, <2>4
  <2>5. CASE i # 1 /\ j # 1
    <3>1. i \in 2 .. n + 1 /\ j \in 2 .. n + 1
      BY <1>1, <2>5
    <3>2. i - 1 = j - 1
      <4>1. t[i] = s[i - 1] /\ t[j] = s[j - 1] /\ i - 1 \in 1 .. n /\ j - 1 \in 1 .. n
        BY <1>4, <3>1
      <4> QED BY <2>1, <4>1
    <3> QED BY <1>1, <3>2
  <2> QED BY <2>2, <2>3, <2>4, <2>5
<1>8. ToSet(t) \subseteq ToSet(s) \cup {k}
  <2> SUFFICES ASSUME NEW i \in 1 .. n + 1 PROVE t[i] \in ToSet(s) \cup {k}
    BY <1>5
  <2>1. CASE i = 1
    BY <1>4, <2>1
  <2>2. CASE i # 1
    <3>1. i \in 2 .. n + 1
      BY <1>1, <2>2
    <3> QED BY <1>0, <3>1
  <2> QED BY <2>1, <2>2
<1>9. ToSet(s) \cup {k} \subseteq ToSet(t)
  <2>1. k \in ToSet(t)
    <3>1. 1 \in 1 .. n + 1
      BY <1>1
    <3> QED BY <1>4, <1>5, <3>1
  <2>2. ASSUME NEW j \in 1 .. n PROVE s[j] \in ToSet(t)
    <3>1. j + 1 \in 2 .. n + 1 /\ (j + 1) - 1 = j /\ j + 1 \in 1 .. n + 1
      BY <1>1
    <3>2. t[j + 1] = s[j]
      BY <1>4, <3>1
    <3> QED BY <1>5, <3>1, <3>2
  <2> QED BY <1>5, <2>1, <2>2
<1> QED BY <1>3, <1>7, <1>8, <1>9

Upto(s, n) == SubSeq(s, 1, n)
Heads(s, n) == {s[j] : j \in 1 .. n}

\* The first n elements.
LEMMA Shortened ==
  ASSUME NEW S, NEW s \in Seq(S), Distinct(s), NEW n \in 0 .. Len(s), NEW t, t = Upto(s, n)
  PROVE  t \in Seq(S) /\ Distinct(t) /\ ToSet(t) = Heads(s, n)
<1>1. \A i \in 1 .. n : i \in 1 .. Len(s) /\ s[i] \in S
  OBVIOUS
<1>2. t \in Seq(S) /\ Len(t) = n /\ \A i \in 1 .. n : t[i] = s[i]
  <2>1. n \in Int /\ 1 \in Int /\ n >= 0 /\ n - 1 + 1 = n
    OBVIOUS
  <2>2. \A i \in 1 .. n : 1 + i - 1 = i
    BY <2>1
  <2>3. t = SubSeq(s, 1, n)
    BY DEF Upto
  <2> QED BY <1>1, <2>1, <2>2, <2>3, SubSeqProperties
<1>3. ToSet(t) = {t[j] : j \in 1 .. n}
  <2>1. DOMAIN t = 1 .. n
    BY <1>2
  <2> QED BY <2>1 DEF ToSet
<1>4. ToSet(t) = Heads(s, n)
  BY <1>2, <1>3 DEF Heads
<1>5. Distinct(t)
  BY <1>1, <1>2 DEF Distinct
<1> QED BY <1>2, <1>4, <1>5

\* A list without repetition is as long as it has elements.
LEMMA LengthIsSize ==
  ASSUME NEW S, NEW s \in Seq(S), Distinct(s)
  PROVE  Len(s) = Cardinality(ToSet(s)) /\ IsFiniteSet(ToSet(s))
<1>1. PICK n : n = Len(s) /\ n \in Nat
  OBVIOUS
<1>2. PICK T : T = ToSet(s)
  OBVIOUS
<1>3. T = {s[j] : j \in 1 .. n}
  BY <1>1, <1>2, SetOf
<1>4. [j \in 1 .. n |-> s[j]] \in Bijection(1 .. n, T)
  BY <1>1, <1>3 DEF Distinct, Bijection, Injection, Surjection, IsInjective
<1>5. ExistsBijection(1 .. n, T)
  BY <1>4 DEF ExistsBijection
<1> QED BY <1>1, <1>2, <1>5, FS_CountingElements, FS_NatBijection

-----------------------------------------------------------------------------
(* What is before what in a list. *)

Before(s, x, y) == \E a, b \in 1 .. Len(s) : a < b /\ s[a] = x /\ s[b] = y

\* s has some of the elements of u, in the order of u.
Follows(s, u) ==
    /\ ToSet(s) \subseteq ToSet(u)
    /\ \A x, y : Before(s, x, y) => Before(u, x, y)

\* RemoveFirst, by position.
LEMMA TakenOutAt ==
  ASSUME NEW S, NEW s \in Seq(S), Distinct(s), NEW i \in 1 .. Len(s),
         NEW t, t = RemoveFirst(s, s[i])
  PROVE  t \in Seq(S) /\ Closes(t, s, i)
<1>1. t = Without(s, i)
  BY FirstOf
<1> QED BY <1>1, WithoutAt

\* Taking an element out leaves the others where they were to each other.
LEMMA TakenOutFollows ==
  ASSUME NEW S, NEW s \in Seq(S), Distinct(s), NEW k, NEW t, t = RemoveFirst(s, k)
  PROVE  /\ Follows(t, s)
         /\ \A x, y : Before(s, x, y) /\ x # k /\ y # k => Before(t, x, y)
<1>0. ToSet(s) = {s[j] : j \in 1 .. Len(s)} /\ ToSet(t) = ToSet(s) \ {k}
  BY SetOf, TakenOut
<1>1. CASE k \notin ToSet(s)
  <2>1. ~\E i \in 1 .. Len(s) : s[i] = k
    BY <1>0, <1>1
  <2>2. t = s
    BY <2>1 DEF RemoveFirst
  <2> QED BY <2>2 DEF Follows
<1>2. CASE k \in ToSet(s)
  <2>1. PICK i \in 1 .. Len(s) : s[i] = k
    BY <1>0, <1>2
  <2>2. PICK n : n = Len(s) /\ n \in Nat
    OBVIOUS
  <2>3. /\ Len(t) = n - 1 /\ i \in 1 .. n
        /\ \A j \in 1 .. n - 1 : t[j] = IF j < i THEN s[j] ELSE s[j + 1]
    <3>1. t = RemoveFirst(s, s[i])
      BY <2>1
    <3>2. Closes(t, s, i)
      BY <3>1, TakenOutAt
    <3> QED BY <2>1, <2>2, <3>2 DEF Closes
  <2>4. ASSUME NEW x, NEW y, Before(t, x, y) PROVE Before(s, x, y)
    <3>1. PICK a \in 1 .. n - 1, b \in 1 .. n - 1 : a < b /\ t[a] = x /\ t[b] = y
      BY <2>3, <2>4 DEF Before
    <3>2. PICK c \in 1 .. n : s[c] = x /\ c = IF a < i THEN a ELSE a + 1
      <4>1. a \in 1 .. n /\ a + 1 \in 1 .. n
        BY <2>2
      <4> QED BY <2>3, <3>1, <4>1
    <3>3. PICK d \in 1 .. n : s[d] = y /\ d = IF b < i THEN b ELSE b + 1
      <4>1. b \in 1 .. n /\ b + 1 \in 1 .. n
        BY <2>2
      <4> QED BY <2>3, <3>1, <4>1
    <3>4. c < d
      BY <2>2, <2>3, <3>1, <3>2, <3>3
    <3> QED BY <2>2, <3>2, <3>3, <3>4 DEF Before
  <2>5. ASSUME NEW x, NEW y, Before(s, x, y), x # k, y # k PROVE Before(t, x, y)
    <3>1. PICK a \in 1 .. n, b \in 1 .. n : a < b /\ s[a] = x /\ s[b] = y
      BY <2>2, <2>5 DEF Before
    <3>2. a # i /\ b # i
      BY <2>1, <2>5, <3>1
    <3>3. PICK c \in 1 .. n - 1 : t[c] = x /\ c = IF a < i THEN a ELSE a - 1
      <4>1. CASE a < i
        <5>1. a \in 1 .. n - 1
          BY <2>2, <2>3, <4>1
        <5> QED BY <2>3, <3>1, <4>1, <5>1
      <4>2. CASE ~(a < i)
        <5>1. a - 1 \in 1 .. n - 1 /\ ~(a - 1 < i) /\ (a - 1) + 1 = a
          BY <2>2, <2>3, <3>2, <4>2
        <5> QED BY <2>3, <3>1, <4>2, <5>1
      <4> QED BY <4>1, <4>2
    <3>4. PICK d \in 1 .. n - 1 : t[d] = y /\ d = IF b < i THEN b ELSE b - 1
      <4>1. CASE b < i
        <5>1. b \in 1 .. n - 1
          BY <2>2, <2>3, <4>1
        <5> QED BY <2>3, <3>1, <4>1, <5>1
      <4>2. CASE ~(b < i)
        <5>1. b - 1 \in 1 .. n - 1 /\ ~(b - 1 < i) /\ (b - 1) + 1 = b
          BY <2>2, <2>3, <3>2, <4>2
        <5> QED BY <2>3, <3>1, <4>2, <5>1
      <4> QED BY <4>1, <4>2
    <3>5. c < d
      BY <2>2, <2>3, <3>1, <3>2, <3>3, <3>4
    <3> QED BY <2>3, <3>3, <3>4, <3>5 DEF Before
  <2> QED BY <1>0, <2>4, <2>5 DEF Follows
<1> QED BY <1>1, <1>2

\* An element at the front moves the others back by one.
LEMMA PushIs ==
  ASSUME NEW S, NEW s \in Seq(S), NEW k \in S, NEW t, t = Push(k, s)
  PROVE  /\ Len(t) = Len(s) + 1 /\ t[1] = k
         /\ \A i \in 2 .. Len(s) + 1 : i - 1 \in 1 .. Len(s) /\ t[i] = s[i - 1]
<1>1. PICK n : n = Len(s) /\ n \in Nat
  OBVIOUS
<1>2. <<k>> \in Seq(S) /\ Len(<<k>>) = 1 /\ <<k>>[1] = k
  OBVIOUS
<1>3. /\ Len(t) = n + 1
      /\ \A i \in 1 .. n + 1 : t[i] = IF i <= 1 THEN <<k>>[i] ELSE s[i - 1]
  <2>1. Len(<<k>>) + Len(s) = n + 1
    BY <1>1, <1>2
  <2>2. t = <<k>> \o s
    BY DEF Push
  <2> QED BY <1>2, <2>1, <2>2, ConcatProperties
<1> QED BY <1>1, <1>2, <1>3

\* An element at the front is before all others, which stay as they were.
LEMMA PushBefore ==
  ASSUME NEW S, NEW s \in Seq(S), NEW k \in S, NEW t, t = Push(k, s), NEW x, NEW y
  PROVE  /\ Before(t, x, y) => (x = k /\ y \in ToSet(s)) \/ Before(s, x, y)
         /\ Before(s, x, y) => Before(t, x, y)
         /\ y \in ToSet(s) => Before(t, k, y)
<1>1. PICK n : n = Len(s) /\ n \in Nat
  OBVIOUS
<1>2. /\ Len(t) = n + 1 /\ t[1] = k
      /\ \A i \in 2 .. n + 1 : i - 1 \in 1 .. n /\ t[i] = s[i - 1]
  BY <1>1, PushIs
<1>3. ToSet(s) = {s[j] : j \in 1 .. n}
  BY <1>1, SetOf
<1>4. \A j \in 1 .. n : j + 1 \in 1 .. n + 1 /\ t[j + 1] = s[j] /\ 1 < j + 1
  <2> SUFFICES ASSUME NEW j \in 1 .. n PROVE j + 1 \in 1 .. n + 1 /\ t[j + 1] = s[j] /\ 1 < j + 1
    OBVIOUS
  <2>1. j + 1 \in 2 .. n + 1 /\ (j + 1) - 1 = j /\ j + 1 \in 1 .. n + 1 /\ 1 < j + 1
    BY <1>1
  <2> QED BY <1>2, <2>1
<1>5. ASSUME Before(t, x, y) PROVE (x = k /\ y \in ToSet(s)) \/ Before(s, x, y)
  <2>1. PICK a \in 1 .. n + 1, b \in 1 .. n + 1 : a < b /\ t[a] = x /\ t[b] = y
    BY <1>2, <1>5 DEF Before
  <2>2. b \in 2 .. n + 1
    BY <1>1, <2>1
  <2>3. b - 1 \in 1 .. n /\ s[b - 1] = y
    BY <1>2, <2>1, <2>2
  <2>4. CASE a = 1
    BY <1>2, <1>3, <2>1, <2>3, <2>4
  <2>5. CASE a # 1
    <3>1. a \in 2 .. n + 1
      BY <1>1, <2>5
    <3>2. a - 1 \in 1 .. n /\ s[a - 1] = x
      BY <1>2, <2>1, <3>1
    <3>3. a - 1 < b - 1
      BY <1>1, <2>1
    <3> QED BY <1>1, <2>3, <3>2, <3>3 DEF Before
  <2> QED BY <2>4, <2>5
<1>6. ASSUME Before(s, x, y) PROVE Before(t, x, y)
  <2>1. PICK a \in 1 .. n, b \in 1 .. n : a < b /\ s[a] = x /\ s[b] = y
    BY <1>1, <1>6 DEF Before
  <2>2. a + 1 < b + 1
    BY <1>1, <2>1
  <2> QED BY <1>2, <1>4, <2>1, <2>2 DEF Before
<1>7. ASSUME y \in ToSet(s) PROVE Before(t, k, y)
  <2>1. PICK j \in 1 .. n : s[j] = y
    BY <1>3, <1>7
  <2>2. 1 \in 1 .. n + 1 /\ j + 1 \in 1 .. n + 1 /\ 1 < j + 1 /\ t[j + 1] = y
    BY <1>1, <1>4, <2>1
  <2> QED BY <1>2, <2>2 DEF Before
<1> QED BY <1>5, <1>6, <1>7

\* The same key to the front of both.
LEMMA FrontFollows ==
  ASSUME NEW S, NEW s \in Seq(S), Distinct(s), NEW u \in Seq(S), Distinct(u), Follows(s, u),
         NEW k \in S,
         NEW t, t = Push(k, RemoveFirst(s, k)), NEW v, v = Push(k, RemoveFirst(u, k))
  PROVE  Follows(t, v) /\ v \in Seq(S) /\ Distinct(v)
<1>1. PICK a, b : a = RemoveFirst(s, k) /\ b = RemoveFirst(u, k)
  OBVIOUS
<1>2. a \in Seq(S) /\ Distinct(a) /\ ToSet(a) = ToSet(s) \ {k} /\ Follows(a, s)
  BY <1>1, TakenOut, TakenOutFollows
<1>3. b \in Seq(S) /\ Distinct(b) /\ ToSet(b) = ToSet(u) \ {k}
  BY <1>1, TakenOut
<1>4. \A x, y : Before(u, x, y) /\ x # k /\ y # k => Before(b, x, y)
  BY <1>1, TakenOutFollows
<1>5. k \notin ToSet(a) /\ k \notin ToSet(b) /\ t = Push(k, a) /\ v = Push(k, b)
  BY <1>1, <1>2, <1>3
<1>6. ToSet(t) = ToSet(a) \cup {k}
  BY <1>2, <1>5, PutFirst
<1>7. v \in Seq(S) /\ Distinct(v) /\ ToSet(v) = ToSet(b) \cup {k}
  BY <1>3, <1>5, PutFirst
<1>8. ASSUME NEW x, NEW y, Before(t, x, y) PROVE Before(v, x, y)
  <2>1. CASE x = k /\ y \in ToSet(a)
    <3>1. y \in ToSet(b)
      BY <1>2, <1>3, <2>1 DEF Follows
    <3> QED BY <1>3, <1>5, <2>1, <3>1, PushBefore
  <2>2. CASE Before(a, x, y)
    <3>1. Before(u, x, y)
      BY <1>2, <2>2 DEF Follows
    <3>2. x \in ToSet(a) /\ y \in ToSet(a)
      <4>1. ToSet(a) = {a[j] : j \in 1 .. Len(a)}
        BY <1>2, SetOf
      <4> QED BY <2>2, <4>1 DEF Before
    <3>3. Before(b, x, y)
      BY <1>4, <1>5, <3>1, <3>2
    <3> QED BY <1>3, <1>5, <3>3, PushBefore
  <2> QED BY <1>2, <1>5, <1>8, <2>1, <2>2, PushBefore
<1>9. ToSet(t) \subseteq ToSet(v)
  BY <1>2, <1>3, <1>6, <1>7 DEF Follows
<1> QED BY <1>7, <1>8, <1>9 DEF Follows

\* What is kept of a list is before what is not.
LEMMA UptoFollows ==
  ASSUME NEW S, NEW s \in Seq(S), Distinct(s), NEW n \in 0 .. Len(s), NEW t, t = Upto(s, n)
  PROVE  /\ Follows(t, s)
         /\ \A x \in Heads(s, n), y \in ToSet(s) \ Heads(s, n) : Before(s, x, y)
<1>1. PICK m : m = Len(s) /\ m \in Nat /\ n \in 0 .. m
  OBVIOUS
<1>2. ToSet(s) = {s[j] : j \in 1 .. m} /\ ToSet(t) = Heads(s, n)
  <2>1. ToSet(s) = {s[j] : j \in 1 .. m}
    BY <1>1, SetOf
  <2>2. ToSet(t) = Heads(s, n)
    BY Shortened
  <2> QED BY <2>1, <2>2
<1>3. Len(t) = n /\ \A i \in 1 .. n : t[i] = s[i] /\ i \in 1 .. m
  <2>1. \A i \in 1 .. n : s[i] \in S /\ 1 + i - 1 = i /\ i \in 1 .. m
    BY <1>1
  <2>2. n \in Int /\ 1 \in Int /\ n >= 0 /\ n - 1 + 1 = n
    BY <1>1
  <2>3. t = SubSeq(s, 1, n)
    BY DEF Upto
  <2> QED BY <2>1, <2>2, <2>3, SubSeqProperties
<1>4. ToSet(t) \subseteq ToSet(s)
  BY <1>2, <1>3 DEF Heads
<1>5. ASSUME NEW x, NEW y, Before(t, x, y) PROVE Before(s, x, y)
  BY <1>1, <1>3, <1>5 DEF Before
<1>6. ASSUME NEW x \in Heads(s, n), NEW y \in ToSet(s) \ Heads(s, n) PROVE Before(s, x, y)
  <2>1. PICK a \in 1 .. n : s[a] = x
    BY DEF Heads
  <2>2. PICK b \in 1 .. m : s[b] = y
    BY <1>2
  <2>3. b \notin 1 .. n
    BY <2>2 DEF Heads
  <2>4. a \in 1 .. m /\ a < b
    BY <1>1, <2>3
  <2> QED BY <1>1, <2>1, <2>2, <2>4 DEF Before
<1> QED BY <1>4, <1>5, <1>6 DEF Follows

Rank(s, x) == CHOOSE j \in DOMAIN s : s[j] = x

\* Being before is having the lower rank.
LEMMA BeforeRank ==
  ASSUME NEW S, NEW s \in Seq(S), Distinct(s), NEW x, NEW y, Before(s, x, y)
  PROVE  Rank(s, x) < Rank(s, y)
<1>1. PICK a \in 1 .. Len(s), b \in 1 .. Len(s) : a < b /\ s[a] = x /\ s[b] = y
  BY DEF Before
<1>2. DOMAIN s = 1 .. Len(s)
  OBVIOUS
<1>3. Rank(s, x) \in 1 .. Len(s) /\ s[Rank(s, x)] = x
  BY <1>1, <1>2 DEF Rank
<1>4. Rank(s, y) \in 1 .. Len(s) /\ s[Rank(s, y)] = y
  BY <1>1, <1>2 DEF Rank
<1>5. Rank(s, x) = a /\ Rank(s, y) = b
  BY <1>1, <1>3, <1>4 DEF Distinct
<1> QED BY <1>1, <1>5

-----------------------------------------------------------------------------
(* One cache. *)

Items == UNION {[K -> Entry] : K \in SUBSET Keys}

Cache == [items : Items, order : Seq(Keys), bytes : Nat, budget : Nat]

\* The map, the list and the byte count of one cache tell one story.
Told(h) ==
    /\ h \in Cache
    /\ Distinct(h.order)
    /\ ToSet(h.order) = DOMAIN h.items
    /\ h.bytes = Bytes(h.items, DOMAIN h.items)

\* What a map of entries holds.
LEMMA ItemsOf ==
  ASSUME NEW f \in Items
  PROVE  DOMAIN f \subseteq Keys /\ \A k \in DOMAIN f : f[k] \in Entry /\ f[k].size \in Nat
BY DEF Items, Entry

\* A cache holds finitely many entries, as many as its list has.
LEMMA ToldFinite ==
  ASSUME NEW h, Told(h)
  PROVE  /\ IsFiniteSet(DOMAIN h.items) /\ Len(h.order) = Cardinality(DOMAIN h.items)
         /\ Sized(h.items, DOMAIN h.items)
<1>1. h.items \in Items /\ h.order \in Seq(Keys) /\ Distinct(h.order)
      /\ ToSet(h.order) = DOMAIN h.items
  BY DEF Told, Cache
<1>2. Sized(h.items, DOMAIN h.items)
  BY <1>1, ItemsOf DEF Sized
<1> QED BY <1>1, <1>2, LengthIsSize

\* remove: an entry leaves the map and the list, and gives its bytes back.
LEMMA RemoveTold ==
  ASSUME NEW h, Told(h), NEW k \in DOMAIN h.items, NEW g, g = remove(h, k)
  PROVE  /\ Told(g) /\ g.budget = h.budget /\ g.bytes <= h.bytes
         /\ DOMAIN g.items = DOMAIN h.items \ {k}
<1>1. PICK D : D = DOMAIN h.items
  OBVIOUS
<1>2. /\ h \in Cache /\ h.items \in Items /\ h.order \in Seq(Keys) /\ h.bytes \in Nat
         /\ h.budget \in Nat
      /\ Distinct(h.order) /\ ToSet(h.order) = D /\ h.bytes = Bytes(h.items, D)
  BY <1>1 DEF Told, Cache
<1>3. /\ g.items = [j \in D \ {k} |-> h.items[j]] /\ g.bytes = h.bytes - h.items[k].size
      /\ g.order = RemoveFirst(h.order, k) /\ g.budget = h.budget
      /\ g = [items |-> g.items, order |-> g.order, bytes |-> g.bytes, budget |-> g.budget]
  BY <1>1, <1>2 DEF remove, Cache
<1>4. IsFiniteSet(D) /\ Sized(h.items, D) /\ IsFiniteSet(D \ {k}) /\ Sized(h.items, D \ {k})
  BY <1>1, ToldFinite, FS_RemoveElement DEF Sized
<1>5. h.bytes = h.items[k].size + Bytes(h.items, D \ {k})
  BY <1>1, <1>2, <1>4, BytesLess
<1>6. Bytes(h.items, D \ {k}) \in Nat /\ h.items[k].size \in Nat
  BY <1>1, <1>4, BytesNat DEF Sized
<1>7. g.bytes = Bytes(h.items, D \ {k}) /\ g.bytes <= h.bytes
  BY <1>3, <1>5, <1>6
<1>8. DOMAIN g.items = D \ {k} /\ \A j \in D \ {k} : g.items[j] = h.items[j]
  BY <1>3
<1>9. Bytes(g.items, D \ {k}) = Bytes(h.items, D \ {k})
  BY <1>4, <1>8, BytesSame
<1>10. g.items \in Items
  <2>1. D \ {k} \subseteq Keys /\ \A j \in D \ {k} : g.items[j] \in Entry
    BY <1>1, <1>2, <1>8, ItemsOf
  <2> QED BY <1>3, <2>1 DEF Items
<1>11. g.order \in Seq(Keys) /\ Distinct(g.order) /\ ToSet(g.order) = D \ {k}
  BY <1>2, <1>3, TakenOut
<1>12. g \in Cache
  BY <1>2, <1>3, <1>6, <1>7, <1>10, <1>11 DEF Cache
<1> QED BY <1>1, <1>3, <1>7, <1>8, <1>9, <1>11, <1>12 DEF Told

\* moveToFront changes the list only.
LEMMA FrontTold ==
  ASSUME NEW h, Told(h), NEW k \in DOMAIN h.items, NEW g, g = moveToFront(h, k)
  PROVE  Told(g) /\ g.budget = h.budget /\ g.bytes = h.bytes /\ g.items = h.items
<1>2. /\ h \in Cache /\ h.items \in Items /\ h.order \in Seq(Keys) /\ Distinct(h.order)
      /\ ToSet(h.order) = DOMAIN h.items /\ h.bytes = Bytes(h.items, DOMAIN h.items)
  BY DEF Told, Cache
<1>3. PICK s : s = RemoveFirst(h.order, k)
  OBVIOUS
<1>4. /\ g.items = h.items /\ g.bytes = h.bytes /\ g.order = <<k>> \o s /\ g.budget = h.budget
      /\ g = [items |-> h.items, order |-> g.order, bytes |-> h.bytes, budget |-> h.budget]
  BY <1>2, <1>3 DEF moveToFront, Cache
<1>5. s \in Seq(Keys) /\ Distinct(s) /\ ToSet(s) = DOMAIN h.items \ {k}
  BY <1>2, <1>3, TakenOut
<1>6. k \in Keys /\ k \notin ToSet(s)
  BY <1>2, <1>5, ItemsOf
<1>7. g.order \in Seq(Keys) /\ Distinct(g.order) /\ ToSet(g.order) = (DOMAIN h.items \ {k}) \cup {k}
  <2>1. PICK t : t = Push(k, s)
    OBVIOUS
  <2>2. t \in Seq(Keys) /\ Distinct(t) /\ ToSet(t) = ToSet(s) \cup {k}
    BY <1>5, <1>6, <2>1, PutFirst
  <2> QED BY <1>4, <1>5, <2>1, <2>2 DEF Push
<1>8. g \in Cache
  BY <1>2, <1>4, <1>7 DEF Cache
<1> QED BY <1>2, <1>4, <1>7, <1>8 DEF Told

\* insert adds the bytes of what it adds.
LEMMA InsertTold ==
  ASSUME NEW h, Told(h), NEW k \in Keys, k \notin DOMAIN h.items, NEW e \in Entry,
         NEW g, g = insert(h, k, e)
  PROVE  Told(g) /\ g.budget = h.budget
<1>1. PICK D, E : D = DOMAIN h.items /\ E = D \cup {k}
  OBVIOUS
<1>2. /\ h \in Cache /\ h.items \in Items /\ h.order \in Seq(Keys) /\ h.bytes \in Nat
         /\ h.budget \in Nat
      /\ Distinct(h.order) /\ ToSet(h.order) = D /\ h.bytes = Bytes(h.items, D)
  BY <1>1 DEF Told, Cache
<1>3. /\ g.items = [j \in E |-> IF j = k THEN e ELSE h.items[j]] /\ g.bytes = h.bytes + e.size
      /\ g.order = <<k>> \o h.order /\ g.budget = h.budget
      /\ g = [items |-> g.items, order |-> g.order, bytes |-> g.bytes, budget |-> g.budget]
  BY <1>1, <1>2 DEF insert, Cache
<1>4. /\ DOMAIN g.items = E /\ E \ {k} = D /\ g.items[k] = e /\ k \in E
      /\ \A j \in D : g.items[j] = h.items[j]
  BY <1>1, <1>3
<1>5. D \subseteq Keys /\ (\A j \in D : h.items[j] \in Entry) /\ e.size \in Nat
  BY <1>1, <1>2, ItemsOf DEF Entry
<1>6. E \subseteq Keys /\ \A j \in E : g.items[j] \in Entry
  BY <1>1, <1>4, <1>5
<1>7. g.items \in Items
  BY <1>3, <1>4, <1>6 DEF Items
<1>8. IsFiniteSet(D) /\ IsFiniteSet(E)
  BY <1>1, ToldFinite, FS_AddElement
<1>9. Sized(g.items, E)
  BY <1>4, <1>7, ItemsOf DEF Sized
<1>10. Bytes(g.items, E) = e.size + Bytes(g.items, D)
  BY <1>4, <1>8, <1>9, BytesLess
<1>11. Bytes(g.items, D) = Bytes(h.items, D)
  BY <1>4, <1>8, BytesSame
<1>12. g.bytes = Bytes(g.items, E) /\ g.bytes \in Nat
  BY <1>2, <1>3, <1>5, <1>10, <1>11
<1>13. g.order \in Seq(Keys) /\ Distinct(g.order) /\ ToSet(g.order) = E
  <2>1. PICK s, t : s = h.order /\ t = Push(k, s)
    OBVIOUS
  <2>2. s \in Seq(Keys) /\ Distinct(s) /\ ToSet(s) = D /\ k \notin ToSet(s)
    BY <1>1, <1>2, <2>1
  <2>3. t \in Seq(Keys) /\ Distinct(t) /\ ToSet(t) = ToSet(s) \cup {k}
    BY <2>1, <2>2, PutFirst
  <2> QED BY <1>1, <1>3, <2>1, <2>2, <2>3 DEF Push
<1>14. g \in Cache
  BY <1>2, <1>3, <1>7, <1>12, <1>13 DEF Cache
<1> QED BY <1>3, <1>4, <1>12, <1>13, <1>14 DEF Told

-----------------------------------------------------------------------------
(* Put's eviction. *)

Rest(h, n) == {h.order[j] : j \in (n + 1) .. Len(h.order)}
First(h, n) == {h.order[j] : j \in 1 .. n}

Fits(h, budget, n) == h.bytes - Bytes(h.items, Rest(h, n)) <= budget \/ n = 0

Kept(h, budget) ==
    CHOOSE n \in 0 .. Len(h.order) :
       /\ Fits(h, budget, n)
       /\ \A m \in (n + 1) .. Len(h.order) : h.bytes - Bytes(h.items, Rest(h, m)) > budget

\* evict, with its local definitions named.
LEMMA EvictIs ==
  ASSUME NEW h, NEW budget
  PROVE  evict(h, budget) = [h EXCEPT !.items = [k \in First(h, Kept(h, budget)) |-> h.items[k]],
                                      !.order = SubSeq(@, 1, Kept(h, budget)),
                                      !.bytes = h.bytes - Bytes(h.items, Rest(h, Kept(h, budget)))]
BY DEF evict, Kept, Fits, Rest, First

\* The map is what the list keeps and what it gives up.
LEMMA Parted ==
  ASSUME NEW h, Told(h), NEW n \in 0 .. Len(h.order)
  PROVE  /\ First(h, n) \subseteq DOMAIN h.items
         /\ Rest(h, n) = DOMAIN h.items \ First(h, n)
         /\ h.bytes - Bytes(h.items, Rest(h, n)) = Bytes(h.items, First(h, n))
         /\ Bytes(h.items, First(h, n)) \in Nat
<1>1. PICK s, m, D, F, R : /\ s = h.order /\ m = Len(s) /\ D = DOMAIN h.items
                           /\ F = {s[j] : j \in 1 .. n} /\ R = {s[j] : j \in (n + 1) .. m}
  OBVIOUS
<1>2. s \in Seq(Keys) /\ m \in Nat /\ Distinct(s) /\ ToSet(s) = D /\ h.bytes = Bytes(h.items, D)
  BY <1>1 DEF Told, Cache
<1>3. First(h, n) = F /\ Rest(h, n) = R
  BY <1>1 DEF First, Rest
<1>4. D = {s[j] : j \in 1 .. m}
  BY <1>1, <1>2, SetOf
<1>5. F \subseteq D
  <2>1. \A j \in 1 .. n : j \in 1 .. m
    BY <1>1, <1>2
  <2> QED BY <1>1, <1>4, <2>1
<1>6. R \subseteq D \ F
  <2> SUFFICES ASSUME NEW i \in (n + 1) .. m PROVE s[i] \in D \ F
    BY <1>1
  <2>1. i \in 1 .. m /\ \A j \in 1 .. n : j \in 1 .. m /\ i # j
    BY <1>1, <1>2
  <2>2. \A j \in 1 .. n : s[i] # s[j]
    BY <1>1, <1>2, <2>1 DEF Distinct
  <2> QED BY <1>1, <1>4, <2>1, <2>2
<1>7. D \ F \subseteq R
  <2> SUFFICES ASSUME NEW i \in 1 .. m, s[i] \notin F PROVE s[i] \in R
    BY <1>4
  <2>1. i \notin 1 .. n
    BY <1>1
  <2>2. i \in (n + 1) .. m
    BY <1>1, <1>2, <2>1
  <2> QED BY <1>1, <2>2
<1>8. IsFiniteSet(D) /\ Sized(h.items, D) /\ IsFiniteSet(F) /\ Sized(h.items, F)
      /\ IsFiniteSet(D \ F) /\ Sized(h.items, D \ F)
  BY <1>1, <1>5, ToldFinite, FS_Subset DEF Sized
<1>9. Bytes(h.items, D) = Bytes(h.items, F) + Bytes(h.items, D \ F)
  BY <1>5, <1>8, BytesSplit
<1>10. Bytes(h.items, F) \in Nat /\ Bytes(h.items, D \ F) \in Nat
  BY <1>8, BytesNat
<1>11. h.bytes - Bytes(h.items, D \ F) = Bytes(h.items, F)
  BY <1>2, <1>9, <1>10
<1>12. R = D \ F
  BY <1>6, <1>7
<1> QED BY <1>1, <1>3, <1>5, <1>10, <1>11, <1>12

\* The loop ends: with nothing left the byte count is zero.
LEMMA SomeKept ==
  ASSUME NEW h, Told(h), NEW budget \in Nat
  PROVE  /\ Kept(h, budget) \in 0 .. Len(h.order)
         /\ Bytes(h.items, First(h, Kept(h, budget))) <= budget
<1>1. PICK N : N = Len(h.order) /\ N \in Nat
  BY DEF Told, Cache
<1> DEFINE G == {x \in Nat : x <= N /\ Fits(h, budget, N - x)}
<1>2. N \in G
  BY <1>1 DEF Fits
<1>3. PICK x \in G : \A y \in G : ~(<<y, x>> \in OpToRel(<, Nat))
  <2>1. G \subseteq Nat /\ G # {}
    BY <1>2
  <2> HIDE DEF G
  <2> QED BY <2>1, NatLessThanWellFounded, WFMin
<1>0. x \in Nat /\ x <= N /\ Fits(h, budget, N - x)
  OBVIOUS
<1> HIDE DEF G
<1>4. PICK n : n = N - x /\ n \in 0 .. N
  <2>1. N - x \in 0 .. N
    BY <1>0, <1>1
  <2> QED BY <2>1
<1>5. Fits(h, budget, n)
  BY <1>0, <1>4
<1>6. ASSUME NEW m \in (n + 1) .. N PROVE h.bytes - Bytes(h.items, Rest(h, m)) > budget
  <2>1. m \in 0 .. N /\ N - m \in Nat /\ N - m < x /\ x \in Nat /\ N - m <= N /\ N - (N - m) = m
        /\ m # 0
    BY <1>0, <1>1, <1>4, <1>6
  <2>2. <<N - m, x>> \in OpToRel(<, Nat)
    BY <2>1 DEF OpToRel
  <2>3. N - m \notin G
    BY <1>3, <2>2
  <2>4. ~Fits(h, budget, m)
    BY <2>1, <2>3 DEF G
  <2>5. ~(h.bytes - Bytes(h.items, Rest(h, m)) <= budget)
    BY <2>4 DEF Fits
  <2>6. h.bytes - Bytes(h.items, Rest(h, m)) \in Nat
    BY <1>1, <2>1, Parted
  <2> QED BY <2>5, <2>6
<1>7. /\ Kept(h, budget) \in 0 .. N /\ Fits(h, budget, Kept(h, budget))
  <2>1. n \in 0 .. Len(h.order) /\ Fits(h, budget, n)
        /\ \A m \in (n + 1) .. Len(h.order) : h.bytes - Bytes(h.items, Rest(h, m)) > budget
    BY <1>1, <1>4, <1>5, <1>6
  <2> QED BY <1>1, <2>1 DEF Kept
<1>8. PICK k : k = Kept(h, budget) /\ k \in 0 .. Len(h.order)
  BY <1>1, <1>7
<1>9. CASE h.bytes - Bytes(h.items, Rest(h, k)) <= budget
  BY <1>8, <1>9, Parted
<1>10. CASE k = 0
  <2>1. First(h, k) = {}
    BY <1>10 DEF First
  <2>2. Bytes(h.items, {}) = 0
    BY BytesOf, FS_EmptySet
  <2> QED BY <1>8, <2>1, <2>2
<1> QED BY <1>7, <1>8, <1>9, <1>10 DEF Fits

\* After Put's loop the byte count is within the budget it was given.
LEMMA EvictTold ==
  ASSUME NEW h, Told(h), NEW budget \in Nat, NEW g, g = evict(h, budget)
  PROVE  Told(g) /\ g.budget = h.budget /\ g.bytes <= budget
<1>1. PICK n, F : n = Kept(h, budget) /\ F = First(h, n)
  OBVIOUS
<1>2. n \in 0 .. Len(h.order) /\ Bytes(h.items, F) <= budget
  BY <1>1, SomeKept
<1>3. /\ F \subseteq DOMAIN h.items /\ Bytes(h.items, F) \in Nat
      /\ h.bytes - Bytes(h.items, Rest(h, n)) = Bytes(h.items, F)
  BY <1>1, <1>2, Parted
<1>4. h \in Cache /\ h.items \in Items /\ h.order \in Seq(Keys) /\ Distinct(h.order)
      /\ h.budget \in Nat
  BY DEF Told, Cache
<1>5. g = [h EXCEPT !.items = [k \in F |-> h.items[k]], !.order = SubSeq(@, 1, n),
                    !.bytes = h.bytes - Bytes(h.items, Rest(h, n))]
  BY <1>1, EvictIs
<1>6. /\ g.items = [k \in F |-> h.items[k]] /\ g.order = SubSeq(h.order, 1, n)
      /\ g.bytes = Bytes(h.items, F) /\ g.budget = h.budget
      /\ g = [items |-> g.items, order |-> g.order, bytes |-> g.bytes, budget |-> g.budget]
  BY <1>3, <1>4, <1>5 DEF Cache
<1>7. g.order \in Seq(Keys) /\ Distinct(g.order) /\ ToSet(g.order) = F
  <2>1. PICK s, t : s = h.order /\ t = Upto(s, n)
    OBVIOUS
  <2>2. s \in Seq(Keys) /\ Distinct(s) /\ n \in 0 .. Len(s)
    BY <1>2, <1>4, <2>1
  <2>3. t \in Seq(Keys) /\ Distinct(t) /\ ToSet(t) = Heads(s, n)
    BY <2>1, <2>2, Shortened
  <2> QED BY <1>1, <1>6, <2>1, <2>3 DEF First, Heads, Upto
<1>8. DOMAIN g.items = F /\ \A k \in F : g.items[k] = h.items[k]
  BY <1>6
<1>9. g.items \in Items
  <2>1. F \subseteq Keys /\ \A k \in F : g.items[k] \in Entry
    BY <1>3, <1>4, <1>8, ItemsOf
  <2> QED BY <1>6, <2>1 DEF Items
<1>10. Bytes(g.items, F) = Bytes(h.items, F)
  <2>1. IsFiniteSet(F)
    BY <1>3, ToldFinite, FS_Subset
  <2> QED BY <1>8, <2>1, BytesSame
<1>11. g \in Cache
  BY <1>3, <1>4, <1>6, <1>7, <1>9 DEF Cache
<1> QED BY <1>2, <1>6, <1>7, <1>8, <1>10, <1>11 DEF Told

\* Put: the old entry out, the new one in, then the loop.
LEMMA PutTold ==
  ASSUME NEW h, Told(h), NEW k \in Keys, NEW e \in Entry, NEW budget \in Nat,
         NEW g, g = Put(h, k, e, budget)
  PROVE  Told(g) /\ g.budget = h.budget /\ g.bytes <= budget
<1>1. PICK a : a = IF k \in DOMAIN h.items THEN remove(h, k) ELSE h
  OBVIOUS
<1>2. Told(a) /\ a.budget = h.budget /\ k \notin DOMAIN a.items
  BY <1>1, RemoveTold
<1>3. PICK b : b = insert(a, k, e)
  OBVIOUS
<1>4. Told(b) /\ b.budget = h.budget
  BY <1>2, <1>3, InsertTold
<1>5. g = evict(b, budget)
  BY <1>1, <1>3 DEF Put
<1> QED BY <1>4, <1>5, EvictTold

-----------------------------------------------------------------------------
(* Invalidate takes its victims out one at a time, in any order. *)

Removes(g, h, S) ==
    g = [s \in SUBSET S |-> IF s = {} THEN h ELSE remove(g[s \ {AnyOf(s)}], AnyOf(s))]

\* As for the sums: two folds of remove agree.
LEMMA RemovesAgree ==
  ASSUME NEW c, NEW S, IsFiniteSet(S), NEW T \in SUBSET S, NEW g, NEW h,
         Removes(g, c, S), Removes(h, c, T)
  PROVE  \A U \in SUBSET T : g[U] = h[U]
<1> SUFFICES ASSUME NEW V \in SUBSET T, g[V] # h[V] PROVE FALSE
  OBVIOUS
<1> DEFINE W == {U \in SUBSET T : g[U] # h[U]}
<1>0. IsFiniteSet(T)
  BY FS_Subset
<1>1. PICK U \in W : \A X \in W : X \subseteq U => X = U
  <2>1. W \in SUBSET (SUBSET T) /\ W # {}
    OBVIOUS
  <2> HIDE DEF W
  <2> QED BY <1>0, <2>1, LeastSubset
<1>2. g[U] = IF U = {} THEN c ELSE remove(g[U \ {AnyOf(U)}], AnyOf(U))
  BY DEF Removes
<1>3. h[U] = IF U = {} THEN c ELSE remove(h[U \ {AnyOf(U)}], AnyOf(U))
  BY DEF Removes
<1>4. CASE U = {}
  BY <1>2, <1>3, <1>4
<1>5. CASE U # {}
  <2>1. U \ {AnyOf(U)} # U
    BY <1>5, AnyOfSet
  <2>2. U \ {AnyOf(U)} \notin W
    BY <1>1, <2>1
  <2> QED BY <1>2, <1>3, <1>5, <2>2
<1> QED BY <1>4, <1>5

\* There is a fold of remove over every finite set.
LEMMA RemovesExist ==
  ASSUME NEW c, NEW S, IsFiniteSet(S)
  PROVE  \E g : Removes(g, c, S)
<1> DEFINE W == {U \in SUBSET S : ~\E g : Removes(g, c, U)}
<1> SUFFICES ASSUME W # {} PROVE FALSE
  OBVIOUS
<1>1. PICK T \in W : \A X \in W : X \subseteq T => X = T
  <2>1. W \in SUBSET (SUBSET S)
    OBVIOUS
  <2> HIDE DEF W
  <2> QED BY <2>1, LeastSubset
<1> DEFINE last(s) == (CHOOSE g : Removes(g, c, s))[s]
           b == [s \in SUBSET T |-> IF s = {} THEN c ELSE remove(last(s \ {AnyOf(s)}), AnyOf(s))]
<1>2. \A s \in SUBSET T : s # T => Removes(CHOOSE g : Removes(g, c, s), c, s)
  BY <1>1
<1>3. ASSUME NEW s \in SUBSET T, s # T PROVE b[s] = last(s)
  <2> DEFINE h == CHOOSE g : Removes(g, c, s)
  <2>1. Removes(h, c, s)
    BY <1>2, <1>3
  <2> HIDE DEF h
  <2>2. h[s] = IF s = {} THEN c ELSE remove(h[s \ {AnyOf(s)}], AnyOf(s))
    BY <2>1 DEF Removes
  <2>3. CASE s = {}
    BY <2>2, <2>3 DEF h
  <2>4. CASE s # {}
    <3> DEFINE r == s \ {AnyOf(s)}
    <3>1. r \in SUBSET T /\ r # T /\ r \subseteq s
      BY <1>3
    <3>2. Removes(CHOOSE g : Removes(g, c, r), c, r)
      BY <1>2, <3>1
    <3>3. IsFiniteSet(s)
      BY FS_Subset
    <3>4. h[r] = last(r)
      BY <2>1, <3>1, <3>2, <3>3, RemovesAgree
    <3> QED BY <2>2, <2>4, <3>4 DEF h
  <2> QED BY <2>3, <2>4
<1>4. Removes(b, c, T)
  <2>1. ASSUME NEW s \in SUBSET T, s # {} PROVE b[s \ {AnyOf(s)}] = last(s \ {AnyOf(s)})
    <3>1. s \ {AnyOf(s)} # T /\ s \ {AnyOf(s)} \in SUBSET T
      BY <2>1, AnyOfSet
    <3> HIDE DEF b, last
    <3> QED BY <1>3, <3>1
  <2>2. b = [s \in SUBSET T |-> IF s = {} THEN c ELSE remove(last(s \ {AnyOf(s)}), AnyOf(s))]
    OBVIOUS
  <2> HIDE DEF b, last
  <2> QED BY <2>1, <2>2 DEF Removes
<1> QED BY <1>1, <1>4

Victims(h, host, p) == {k \in DOMAIN h.items : k[2] = host /\ k[1] = p}

\* Invalidate is that fold.
LEMMA InvalidateIs ==
  ASSUME NEW h, NEW host, NEW p
  PROVE  Invalidate(h, host, p) = (CHOOSE g : Removes(g, h, Victims(h, host, p)))[Victims(h, host, p)]
BY DEF Invalidate, FoldSet, MapThenFoldSet, Removes, AnyOf, Victims

\* remove takes its key out of the list.
LEMMA RemoveOrder ==
  ASSUME NEW h \in Cache, NEW k
  PROVE  remove(h, k).order = RemoveFirst(h.order, k)
BY DEF remove, Cache

\* Following is transitive.
LEMMA FollowsOn ==
  ASSUME NEW s, NEW t, NEW u, Follows(s, t), Follows(t, u)
  PROVE  Follows(s, u)
BY DEF Follows

\* Every variant of the path under the host header goes, and what stays keeps its order.
LEMMA InvalidateTold ==
  ASSUME NEW h, Told(h), NEW host, NEW p, NEW c, c = Invalidate(h, host, p)
  PROVE  /\ Told(c) /\ c.budget = h.budget /\ c.bytes <= h.bytes
         /\ DOMAIN c.items = DOMAIN h.items \ Victims(h, host, p)
         /\ Follows(c.order, h.order)
<1>1. PICK V : V = Victims(h, host, p)
  OBVIOUS
<1>2. V \subseteq DOMAIN h.items /\ IsFiniteSet(V)
  BY <1>1, ToldFinite, FS_Subset DEF Victims
<1>3. PICK g : Removes(g, h, V) /\ c = g[V]
  <2>1. PICK g : g = (CHOOSE x : Removes(x, h, V))
    OBVIOUS
  <2>2. Removes(g, h, V)
    BY <1>2, <2>1, RemovesExist
  <2> QED BY <1>1, <2>1, <2>2, InvalidateIs
<1> DEFINE Good(U) == /\ Told(g[U]) /\ g[U].budget = h.budget /\ g[U].bytes <= h.bytes
                      /\ DOMAIN g[U].items = DOMAIN h.items \ U
                      /\ Follows(g[U].order, h.order)
           W == {U \in SUBSET V : ~Good(U)}
<1>4. ASSUME W # {} PROVE FALSE
  <2>1. PICK T \in W : \A X \in W : X \subseteq T => X = T
    <3>1. W \in SUBSET (SUBSET V) /\ W # {}
      BY <1>4
    <3> HIDE DEF W
    <3> QED BY <1>2, <3>1, LeastSubset
  <2>2. g[T] = IF T = {} THEN h ELSE remove(g[T \ {AnyOf(T)}], AnyOf(T))
    BY <1>3 DEF Removes
  <2>3. CASE T = {}
    <3>1. g[T] = h /\ DOMAIN h.items \ T = DOMAIN h.items
      BY <2>2, <2>3
    <3>2. h.bytes \in Nat
      BY DEF Told, Cache
    <3>3. Good(T)
      BY <3>1, <3>2 DEF Follows
    <3> QED BY <2>1, <3>3
  <2>4. CASE T # {}
    <3>1. PICK k, R, a : k = AnyOf(T) /\ R = T \ {k} /\ a = g[R]
      OBVIOUS
    <3>2. k \in T /\ R \in SUBSET V /\ R # T /\ R \subseteq T
      BY <2>1, <2>4, <3>1, AnyOfSet
    <3>3. R \notin W
      BY <2>1, <3>2
    <3>4. Good(R)
      BY <3>2, <3>3
    <3>5. Told(a) /\ a.budget = h.budget /\ a.bytes <= h.bytes
          /\ DOMAIN a.items = DOMAIN h.items \ R
      BY <3>1, <3>4
    <3>6. g[T] = remove(a, k)
      BY <2>2, <2>4, <3>1
    <3>7. k \in DOMAIN a.items
      BY <1>2, <3>1, <3>2, <3>5
    <3>8. PICK b : b = g[T]
      OBVIOUS
    <3>9. Told(b) /\ b.budget = a.budget /\ b.bytes <= a.bytes
          /\ DOMAIN b.items = DOMAIN a.items \ {k}
      BY <3>5, <3>6, <3>7, <3>8, RemoveTold
    <3>10. a.bytes \in Nat /\ b.bytes \in Nat /\ h.bytes \in Nat
      BY <3>5, <3>9 DEF Told, Cache
    <3>11. DOMAIN b.items = DOMAIN h.items \ T
      BY <3>1, <3>2, <3>5, <3>9
    <3>12. b.bytes <= h.bytes
      BY <3>5, <3>9, <3>10
    <3>13. Follows(b.order, h.order)
      <4>1. a \in Cache /\ a.order \in Seq(Keys) /\ Distinct(a.order) /\ Follows(a.order, h.order)
        BY <3>1, <3>4, <3>5 DEF Told, Cache
      <4>2. b.order = RemoveFirst(a.order, k)
        BY <3>6, <3>8, <4>1, RemoveOrder
      <4>3. Follows(b.order, a.order)
        BY <4>1, <4>2, TakenOutFollows
      <4> QED BY <4>1, <4>3, FollowsOn
    <3>14. Good(T)
      BY <3>5, <3>8, <3>9, <3>11, <3>12, <3>13
    <3> QED BY <2>1, <3>14
  <2> QED BY <2>3, <2>4
<1>5. Good(V)
  BY <1>4
<1> QED BY <1>1, <1>3, <1>5

-----------------------------------------------------------------------------
(* Every cache there is, and what requests carry. *)

CacheOK(h) == Told(h) /\ h.budget \in Budgets /\ h.bytes <= Max(Budgets)

CachesOK(cs) == cs \in Seq(Cache) /\ \A i \in 1 .. Len(cs) : CacheOK(cs[i])

Request ==
    [pc : {"idle", "routed", "found", "absent", "given", "fetch", "commit", "storing", "sent"},
     unsafe : BOOLEAN, key : Keys \cup {<<>>}, cfg : Nat, at : Nat, cache : Nat, entry : Entry,
     budget : Nat]

\* Where a request has its cache.
Given == {"found", "given", "fetch", "commit", "storing", "sent"}

\* Local variables q of a request, when n caches exist.
RequestOK(q, n) ==
    /\ q \in Request
    /\ q.pc # "idle" => q.key \in Keys /\ q.cfg \in Budgets
    /\ q.pc \in Given => q.cache \in 1 .. n
    /\ q.pc = "storing" => q.budget \in Budgets

RequestsOK(rq, n) == rq \in [Req -> Request] /\ \A r \in Req : RequestOK(rq[r], n)

CachesInv ==
    /\ now \in Nat /\ config \in Budgets \cup {0} /\ origin \in [Paths -> Nat]
    /\ CachesOK(caches) /\ current \in 0 .. Len(caches)
    /\ RequestsOK(req, Len(caches))

AtLeast(b) == {x \in Budgets : x >= b}

\* The largest budget is one of them.
LEMMA LargestBudget ==
  Max(Budgets) \in Nat /\ \A b \in Budgets : b \in Nat /\ b <= Max(Budgets)
<1>1. IsFiniteSet(Budgets) /\ Budgets \subseteq Nat /\ Budgets # {}
  BY CacheAssumption
<1> DEFINE W == {AtLeast(b) : b \in Budgets}
<1>2. PICK T \in W : \A U \in W : U \subseteq T => U = T
  <2>1. PICK S, V : S = Budgets /\ V = W
    OBVIOUS
  <2>2. IsFiniteSet(S) /\ V \in SUBSET (SUBSET S) /\ V # {}
    BY <1>1, <2>1 DEF AtLeast
  <2>3. \E T \in V : \A U \in V : U \subseteq T => U = T
    BY <2>2, LeastSubset
  <2> QED BY <2>1, <2>3
<1>3. PICK b \in Budgets : T = AtLeast(b)
  OBVIOUS
<1>4. ASSUME NEW x \in Budgets PROVE x <= b
  <2> SUFFICES ASSUME x > b PROVE FALSE
    BY <1>1
  <2>0. x \in Nat /\ b \in Nat
    BY <1>1
  <2>1. AtLeast(x) \subseteq AtLeast(b)
    <3> SUFFICES ASSUME NEW y \in Budgets, y >= x PROVE y >= b
      BY DEF AtLeast
    <3>1. y \in Nat
      BY <1>1
    <3> QED BY <2>0, <3>1
  <2>2. b \in AtLeast(b) /\ b \notin AtLeast(x)
    BY <2>0 DEF AtLeast
  <2> QED BY <1>2, <1>3, <2>1, <2>2
<1>5. \E m \in Budgets : \A x \in Budgets : m >= x
  BY <1>1, <1>4
<1>6. Max(Budgets) \in Budgets /\ \A x \in Budgets : Max(Budgets) >= x
  BY <1>5 DEF Max
<1> QED BY <1>1, <1>6

\* A new cache is empty.
LEMMA NewTold ==
  ASSUME NEW b \in Budgets
  PROVE  CacheOK(newHostCache(b)) /\ newHostCache(b) \in Cache
<1>1. PICK h : h = newHostCache(b)
  OBVIOUS
<1>2. /\ h.items = [k \in {} |-> 0] /\ h.order = <<>> /\ h.bytes = 0 /\ h.budget = b
      /\ h = [items |-> h.items, order |-> h.order, bytes |-> h.bytes, budget |-> h.budget]
  BY <1>1 DEF newHostCache
<1>3. h.items \in Items /\ DOMAIN h.items = {}
  <2>1. h.items \in [{} -> Entry]
    BY <1>2
  <2> QED BY <1>2, <2>1 DEF Items
<1>4. h.order \in Seq(Keys) /\ Distinct(h.order) /\ ToSet(h.order) = {}
  BY <1>2 DEF Distinct, ToSet
<1>5. Bytes(h.items, {}) = 0
  BY BytesOf, FS_EmptySet
<1>6. h \in Cache
  <2>1. h.bytes \in Nat /\ h.budget \in Nat
    BY <1>2, LargestBudget
  <2>2. h.items \in Items /\ h.order \in Seq(Keys)
    BY <1>3, <1>4
  <2>3. PICK a, c, d, e : a = h.items /\ c = h.order /\ d = h.bytes /\ e = h.budget
    OBVIOUS
  <2>4. h = [items |-> a, order |-> c, bytes |-> d, budget |-> e]
    BY <1>2, <2>3
  <2> QED BY <2>1, <2>2, <2>3, <2>4 DEF Cache
<1>7. Told(h)
  BY <1>2, <1>3, <1>4, <1>5, <1>6 DEF Told
<1> QED BY <1>1, <1>2, <1>6, <1>7, LargestBudget DEF CacheOK

\* One cache changes.
LEMMA CacheSet ==
  ASSUME NEW cs, CachesOK(cs), NEW i \in 1 .. Len(cs), NEW g, CacheOK(g)
  PROVE  CachesOK([cs EXCEPT ![i] = g]) /\ Len([cs EXCEPT ![i] = g]) = Len(cs)
<1>1. g \in Cache
  BY DEF CacheOK, Told
<1> QED BY <1>1 DEF CachesOK

\* One request moves on.
LEMMA RequestSet ==
  ASSUME NEW rq, NEW n \in Nat, RequestsOK(rq, n), NEW r \in Req, NEW q, NEW m \in Nat, n <= m,
         RequestOK(q, m)
  PROVE  RequestsOK([rq EXCEPT ![r] = q], m)
<1>1. \A s \in Req : RequestOK(rq[s], m)
  BY DEF RequestsOK, RequestOK
<1>2. q \in Request
  BY DEF RequestOK
<1> QED BY <1>1, <1>2 DEF RequestsOK

\* One request moves on while no cache is made.
LEMMA OneRequest ==
  ASSUME CachesInv, NEW r \in Req, NEW q, RequestOK(q, Len(caches)), req' = [req EXCEPT ![r] = q]
  PROVE  RequestsOK(req', Len(caches))
<1>1. PICK rq, n : rq = req /\ n = Len(caches)
  OBVIOUS
<1>2. n \in Nat /\ RequestsOK(rq, n) /\ RequestOK(q, n) /\ n <= n
  BY <1>1 DEF CachesInv, CachesOK
<1>3. RequestsOK([rq EXCEPT ![r] = q], n)
  BY <1>2, RequestSet
<1> QED BY <1>1, <1>3

\* A request that is over carries nothing.
LEMMA IdleOK == ASSUME NEW n \in Nat PROVE RequestOK(Idle, n)
<1>1. Idle \in Request /\ Idle.pc = "idle"
  BY DEF Idle, Request, NoEntry, Entry
<1> QED BY <1>1 DEF RequestOK, Given

\* The budget a cache is given is the largest or less, whatever it holds.
LEMMA BudgetOK ==
  ASSUME NEW h, CacheOK(h), NEW b \in Budgets
  PROVE  CacheOK([h EXCEPT !.budget = b])
<1>1. h \in Cache
  BY DEF CacheOK, Told
<1>2. PICK g : g = [h EXCEPT !.budget = b]
  OBVIOUS
<1>3. g.items = h.items /\ g.order = h.order /\ g.bytes = h.bytes /\ g.budget = b /\ g \in Cache
  BY <1>1, <1>2, LargestBudget DEF Cache
<1>4. Told(g)
  BY <1>3 DEF CacheOK, Told
<1> QED BY <1>2, <1>3, <1>4 DEF CacheOK

\* Less of a cache, in another order, is still within the largest budget.
LEMMA SmallerOK ==
  ASSUME NEW h, CacheOK(h), NEW g, Told(g), g.budget = h.budget, g.bytes <= h.bytes
  PROVE  CacheOK(g)
<1>1. h.bytes \in Nat /\ g.bytes \in Nat /\ Max(Budgets) \in Nat
  BY LargestBudget DEF CacheOK, Told, Cache
<1> QED BY <1>1 DEF CacheOK

-----------------------------------------------------------------------------
(* What each step does to one request. *)

\* A request whose pc alone changes, and which already has its cache.
LEMMA GotoOK ==
  ASSUME NEW q, NEW n \in Nat, RequestOK(q, n), q.pc \in Given,
         NEW pc \in {"given", "fetch", "sent"}
  PROVE  RequestOK([q EXCEPT !.pc = pc], n)
<1>1. PICK p : p = [q EXCEPT !.pc = pc]
  OBVIOUS
<1>2. q \in Request
  BY DEF RequestOK
<1>3. /\ p \in Request /\ p.pc = pc /\ p.key = q.key /\ p.cfg = q.cfg /\ p.cache = q.cache
  BY <1>1, <1>2 DEF Request
<1>4. q.pc # "idle"
  BY DEF Given
<1> QED BY <1>1, <1>3, <1>4 DEF RequestOK

\* Route carries a budget that was configured.
LEMMA RouteOK ==
  ASSUME CachesInv, NEW r \in Req, NEW k \in Keys, NEW unsafe \in BOOLEAN, Route(r, k, unsafe)
  PROVE  CachesInv'
<1>1. PICK q : q = [Idle EXCEPT !.pc = "routed", !.unsafe = unsafe, !.key = k, !.cfg = config,
                               !.at = now]
  OBVIOUS
<1>2. config \in Budgets /\ config \in Nat /\ now \in Nat
  BY LargestBudget DEF Route, CachesInv
<1>3. Idle \in Request
  BY DEF Idle, Request, NoEntry, Entry
<1>4. q \in Request /\ q.pc = "routed" /\ q.key = k /\ q.cfg = config
  BY <1>1, <1>2, <1>3 DEF Request, Idle
<1>5. RequestOK(q, Len(caches))
  BY <1>2, <1>4 DEF RequestOK, Given
<1>6. req' = [req EXCEPT ![r] = q] /\ UNCHANGED <<now, config, caches, current, origin>>
  BY <1>1 DEF Route
<1>7. RequestsOK(req', Len(caches))
  BY <1>5, <1>6, OneRequest
<1> QED BY <1>6, <1>7 DEF CachesInv

\* What HostFind reads is a cache or none.
LEMMA HostFindOK ==
  ASSUME CachesInv, NEW r \in Req, HostFind(r)
  PROVE  CachesInv'
<1>1. PICK q, n : /\ q = [req[r] EXCEPT !.pc = IF current = 0 THEN "absent" ELSE "found",
                                        !.cache = current]
                  /\ n = Len(caches)
  OBVIOUS
<1>2. RequestOK(req[r], n) /\ req[r].pc = "routed" /\ current \in 0 .. n /\ n \in Nat
      /\ req[r] \in Request
  BY <1>1 DEF CachesInv, RequestsOK, RequestOK, CachesOK, HostFind
<1>3. /\ q \in Request /\ q.key = req[r].key /\ q.cfg = req[r].cfg /\ q.cache = current
      /\ q.pc = IF current = 0 THEN "absent" ELSE "found"
  <2>1. PICK pc \in {"absent", "found"} : pc = IF current = 0 THEN "absent" ELSE "found"
    OBVIOUS
  <2>2. q = [req[r] EXCEPT !.pc = pc, !.cache = current] /\ current \in Nat
    BY <1>1, <1>2, <2>1
  <2> QED BY <1>2, <2>1, <2>2 DEF Request
<1>4. RequestOK(q, n)
  BY <1>2, <1>3 DEF RequestOK, Given
<1>5. req' = [req EXCEPT ![r] = q] /\ UNCHANGED <<now, config, caches, current, origin>>
  BY <1>1 DEF HostFind
<1>6. RequestsOK(req', Len(caches))
  BY <1>1, <1>4, <1>5, OneRequest
<1> QED BY <1>5, <1>6 DEF CachesInv

\* What one step of a request may do to the caches.
OneCache(i, g) == caches' = [caches EXCEPT ![i] = g]

\* The caches stay well formed when one of them changes.
LEMMA OneCacheOK ==
  ASSUME CachesInv, NEW i \in 1 .. Len(caches), NEW g, CacheOK(g), OneCache(i, g)
  PROVE  CachesOK(caches') /\ Len(caches') = Len(caches)
<1>1. PICK cs : cs = caches
  OBVIOUS
<1>2. CachesOK(cs) /\ i \in 1 .. Len(cs)
  BY <1>1 DEF CachesInv
<1>3. CachesOK([cs EXCEPT ![i] = g]) /\ Len([cs EXCEPT ![i] = g]) = Len(cs)
  BY <1>2, CacheSet
<1> QED BY <1>1, <1>3 DEF OneCache

\* A request that ends, or whose pc alone changes.
LEMMA EndsOK ==
  ASSUME CachesInv, NEW r \in Req, Finish(r)
  PROVE  RequestsOK(req', Len(caches))
<1>1. req' = [req EXCEPT ![r] = Idle] /\ Len(caches) \in Nat
  BY DEF Finish, CachesInv, CachesOK
<1>2. RequestOK(Idle, Len(caches))
  BY <1>1, IdleOK
<1> QED BY <1>1, <1>2, OneRequest

\* A request that keeps its cache.
LEMMA GoesOK ==
  ASSUME CachesInv, NEW r \in Req, req[r].pc \in Given, NEW pc \in {"given", "fetch", "sent"},
         Goto(r, pc)
  PROVE  RequestsOK(req', Len(caches))
<1>1. PICK q, p, n : q = req[r] /\ p = [q EXCEPT !.pc = pc] /\ n = Len(caches)
  OBVIOUS
<1>2. RequestOK(q, n) /\ n \in Nat
  BY <1>1 DEF CachesInv, CachesOK, RequestsOK
<1>3. RequestOK(p, n)
  BY <1>1, <1>2, GotoOK
<1>4. req' = [req EXCEPT ![r] = p]
  BY <1>1 DEF Goto
<1> QED BY <1>1, <1>3, <1>4, OneRequest

\* A request that has its cache.
LEMMA HasCache ==
  ASSUME CachesInv, NEW r \in Req, req[r].pc \in Given
  PROVE  /\ req[r].cache \in 1 .. Len(caches) /\ CacheOK(caches[req[r].cache])
         /\ req[r].key \in Keys /\ req[r].cfg \in Budgets /\ req[r] \in Request
<1>1. RequestOK(req[r], Len(caches)) /\ req[r].pc # "idle"
  BY DEF CachesInv, RequestsOK, Given
<1> QED BY <1>1 DEF RequestOK, CachesInv, CachesOK

\* HostBudget: only the budget changes.
LEMMA HostBudgetOK ==
  ASSUME CachesInv, NEW r \in Req, HostBudget(r)
  PROVE  CachesInv'
<1>1. req[r].pc \in Given /\ req[r].pc = "found"
  BY DEF HostBudget, Given
<1>2. PICK i, h, b, g : /\ i = req[r].cache /\ h = caches[i] /\ b = req[r].cfg
                        /\ g = [h EXCEPT !.budget = b]
  OBVIOUS
<1>3. i \in 1 .. Len(caches) /\ CacheOK(h) /\ b \in Budgets
  BY <1>1, <1>2, HasCache
<1>4. CacheOK(g)
  BY <1>2, <1>3, BudgetOK
<1>5. OneCache(i, g) /\ Goto(r, "given") /\ UNCHANGED <<now, config, current, origin>>
  BY <1>2 DEF HostBudget, OneCache
<1>6. CachesOK(caches') /\ Len(caches') = Len(caches)
  BY <1>3, <1>4, <1>5, OneCacheOK
<1>7. RequestsOK(req', Len(caches))
  BY <1>1, <1>5, GoesOK
<1> QED BY <1>5, <1>6, <1>7 DEF CachesInv

\* HostCreate: a new cache, or the one that appeared meanwhile.
LEMMA HostCreateOK ==
  ASSUME CachesInv, NEW r \in Req, HostCreate(r)
  PROVE  CachesInv'
<1>1. PICK q, n, b, cs : q = req[r] /\ n = Len(caches) /\ b = q.cfg /\ cs = caches
  OBVIOUS
<1>2. /\ RequestsOK(req, n) /\ RequestOK(q, n) /\ q.pc = "absent" /\ q \in Request /\ b \in Budgets
      /\ q.key \in Keys /\ n \in Nat
      /\ CachesOK(cs) /\ current \in 0 .. n
  BY <1>1 DEF CachesInv, RequestsOK, RequestOK, CachesOK, HostCreate
<1>3. CachesOK(caches') /\ Len(caches') \in Nat /\ n <= Len(caches')
      /\ current' \in 1 .. Len(caches')
  <2>1. CASE current = 0
    <3>1. PICK g : g = newHostCache(b)
      OBVIOUS
    <3>2. g \in Cache /\ CacheOK(g)
      BY <1>2, <3>1, NewTold
    <3>3. caches' = Append(cs, g) /\ current' = Len(caches')
      BY <1>1, <2>1, <3>1 DEF HostCreate, StillAbsent
    <3>4. Append(cs, g) \in Seq(Cache) /\ Len(Append(cs, g)) = n + 1
          /\ \A j \in 1 .. n + 1 : Append(cs, g)[j] = IF j = n + 1 THEN g ELSE cs[j]
      BY <1>1, <1>2, <3>2 DEF CachesOK
    <3>5. \A j \in 1 .. n + 1 : CacheOK(Append(cs, g)[j])
      BY <1>1, <1>2, <3>2, <3>4 DEF CachesOK
    <3> QED BY <1>2, <3>3, <3>4, <3>5 DEF CachesOK
  <2>2. CASE current # 0
    <3>1. PICK i, h, g : i = current /\ h = caches[i] /\ g = [h EXCEPT !.budget = b]
      OBVIOUS
    <3>2. i \in 1 .. Len(caches) /\ CacheOK(h)
      BY <1>1, <1>2, <2>2, <3>1 DEF CachesOK
    <3>3. CacheOK(g)
      BY <1>2, <3>1, <3>2, BudgetOK
    <3>4. OneCache(i, g) /\ current' = current
      BY <1>1, <2>2, <3>1 DEF HostCreate, StillAbsent, OneCache
    <3>5. CachesOK(caches') /\ Len(caches') = Len(caches)
      BY <3>2, <3>3, <3>4, OneCacheOK
    <3> QED BY <1>1, <1>2, <3>1, <3>2, <3>4, <3>5
  <2> QED BY <2>1, <2>2
<1>4. PICK c, p, m : c = current' /\ p = [q EXCEPT !.pc = "given", !.cache = c] /\ m = Len(caches')
  OBVIOUS
<1>5. p \in Request /\ p.pc = "given" /\ p.cache = c /\ p.key = q.key /\ p.cfg = q.cfg
  <2>1. c \in Nat
    BY <1>3, <1>4
  <2> QED BY <1>2, <1>4, <2>1 DEF Request
<1>6. RequestOK(p, m)
  BY <1>1, <1>2, <1>3, <1>4, <1>5 DEF RequestOK
<1>7. req' = [req EXCEPT ![r] = p]
  BY <1>1, <1>4 DEF HostCreate
<1>8. RequestsOK(req', m)
  <2>1. PICK rq : rq = req
    OBVIOUS
  <2>2. n <= m /\ m \in Nat /\ RequestsOK(rq, n)
    BY <1>2, <1>3, <1>4, <2>1
  <2>3. RequestsOK([rq EXCEPT ![r] = p], m)
    BY <1>2, <1>6, <2>2, RequestSet
  <2> QED BY <1>7, <2>1, <2>3
<1>9. UNCHANGED <<now, config, origin>>
  BY DEF HostCreate
<1>10. current' \in 0 .. Len(caches')
  BY <1>3
<1> QED BY <1>3, <1>4, <1>8, <1>9, <1>10 DEF CachesInv

\* LookupMiss may drop a stale entry.
LEMMA LookupMissOK ==
  ASSUME CachesInv, NEW r \in Req, LookupMiss(r)
  PROVE  CachesInv'
<1>1. req[r].pc \in Given /\ Goto(r, "fetch") /\ UNCHANGED <<now, config, current, origin>>
  BY DEF LookupMiss, Given
<1>2. RequestsOK(req', Len(caches))
  BY <1>1, GoesOK
<1>3. PICK i, h, k, g : i = req[r].cache /\ h = caches[i] /\ k = req[r].key /\ g = remove(h, k)
  OBVIOUS
<1>4. i \in 1 .. Len(caches) /\ CacheOK(h)
  BY <1>1, <1>3, HasCache
<1>5. CASE UNCHANGED caches
  BY <1>1, <1>2, <1>5 DEF CachesInv
<1>6. CASE k \in DOMAIN h.items /\ OneCache(i, g)
  <2>1. Told(g) /\ g.budget = h.budget /\ g.bytes <= h.bytes
    BY <1>3, <1>4, <1>6, RemoveTold DEF CacheOK
  <2>2. CacheOK(g)
    BY <1>4, <2>1, SmallerOK
  <2>3. CachesOK(caches') /\ Len(caches') = Len(caches)
    BY <1>4, <1>6, <2>2, OneCacheOK
  <2> QED BY <1>1, <1>2, <2>3 DEF CachesInv
<1> QED BY <1>3, <1>5, <1>6 DEF LookupMiss, OneCache

\* LookupHit moves its key to the front.
LEMMA LookupHitOK ==
  ASSUME CachesInv, NEW r \in Req, NEW servable \in BOOLEAN, LookupHit(r, servable)
  PROVE  CachesInv'
<1>1. /\ req[r].pc \in Given
      /\ Finish(r) \/ Goto(r, "fetch")
      /\ UNCHANGED <<now, config, current, origin>>
  BY DEF LookupHit, Given
<1>2. RequestsOK(req', Len(caches))
  BY <1>1, GoesOK, EndsOK
<1>3. PICK i, h, k, g : i = req[r].cache /\ h = caches[i] /\ k = req[r].key /\ g = moveToFront(h, k)
  OBVIOUS
<1>4. i \in 1 .. Len(caches) /\ CacheOK(h)
  BY <1>1, <1>3, HasCache
<1>5. k \in DOMAIN h.items /\ OneCache(i, g)
  BY <1>3 DEF LookupHit, OneCache
<1>6. Told(g) /\ g.budget = h.budget /\ g.bytes = h.bytes
  BY <1>3, <1>4, <1>5, FrontTold DEF CacheOK
<1>7. CacheOK(g)
  BY <1>4, <1>6 DEF CacheOK
<1>8. CachesOK(caches') /\ Len(caches') = Len(caches)
  BY <1>4, <1>5, <1>7, OneCacheOK
<1> QED BY <1>1, <1>2, <1>8 DEF CachesInv

\* FetchStorable makes the entry.
LEMMA FetchStorableOK ==
  ASSUME CachesInv, NEW r \in Req, NEW size \in Sizes, FetchStorable(r, size)
  PROVE  CachesInv'
<1>1. PICK q, n, e, p : /\ q = req[r] /\ n = Len(caches)
                        /\ e = [size |-> size, version |-> origin[q.key[1]], expires |-> now + TTL]
                        /\ p = [q EXCEPT !.pc = "commit", !.entry = e]
  OBVIOUS
<1>2. q.pc = "fetch" /\ RequestOK(q, n) /\ q \in Request /\ q.key \in Keys /\ q.cache \in 1 .. n
  BY <1>1 DEF FetchStorable, CachesInv, RequestsOK, RequestOK, Given
<1>3. e \in Entry
  <2>1. size \in Nat /\ now + TTL \in Nat
    BY CacheAssumption DEF CachesInv
  <2>2. origin[q.key[1]] \in Nat
    BY <1>2 DEF CachesInv, Keys
  <2> QED BY <1>1, <2>1, <2>2 DEF Entry
<1>4. p \in Request /\ p.pc = "commit" /\ p.key = q.key /\ p.cfg = q.cfg /\ p.cache = q.cache
  BY <1>1, <1>2, <1>3 DEF Request
<1>5. RequestOK(p, n)
  BY <1>2, <1>4 DEF RequestOK
<1>6. req' = [req EXCEPT ![r] = p] /\ UNCHANGED <<now, config, caches, current, origin>>
  BY <1>1 DEF FetchStorable
<1>7. RequestsOK(req', Len(caches))
  BY <1>1, <1>5, <1>6, OneRequest
<1> QED BY <1>6, <1>7 DEF CachesInv

\* PutLoad reads a budget that was configured.
LEMMA PutLoadOK ==
  ASSUME CachesInv, NEW r \in Req, PutLoad(r)
  PROVE  CachesInv'
<1>1. PICK q, n, b, p : /\ q = req[r] /\ n = Len(caches) /\ b = caches[q.cache].budget
                        /\ p = [q EXCEPT !.pc = "storing", !.budget = b]
  OBVIOUS
<1>2. q.pc = "commit" /\ q.pc \in Given /\ RequestOK(q, n)
      /\ UNCHANGED <<now, config, caches, current, origin>>
  BY <1>1 DEF PutLoad, CachesInv, RequestsOK, Given
<1>3. b \in Budgets /\ b \in Nat /\ q \in Request
  BY <1>1, <1>2, HasCache, LargestBudget DEF CacheOK
<1>4. p \in Request /\ p.pc = "storing" /\ p.budget = b /\ p.key = q.key /\ p.cfg = q.cfg
      /\ p.cache = q.cache
  BY <1>1, <1>3 DEF Request
<1>5. RequestOK(p, n)
  BY <1>2, <1>3, <1>4 DEF RequestOK
<1>6. CASE Finish(r)
  BY <1>2, <1>6, EndsOK DEF CachesInv
<1>7. CASE req' = [req EXCEPT ![r] = p]
  <2>1. RequestsOK(req', Len(caches))
    BY <1>1, <1>5, <1>7, OneRequest
  <2> QED BY <1>2, <2>1 DEF CachesInv
<1> QED BY <1>1, <1>6, <1>7 DEF PutLoad

\* PutStore leaves no more than the budget it read.
LEMMA PutStoreOK ==
  ASSUME CachesInv, NEW r \in Req, PutStore(r)
  PROVE  CachesInv'
<1>1. PICK i, h, k, e, b, g : /\ i = req[r].cache /\ h = caches[i] /\ k = req[r].key
                              /\ e = req[r].entry /\ b = req[r].budget /\ g = Put(h, k, e, b)
  OBVIOUS
<1>2. req[r].pc = "storing" /\ req[r].pc \in Given
  BY DEF PutStore, Given
<1>3. i \in 1 .. Len(caches) /\ CacheOK(h) /\ k \in Keys /\ e \in Entry
  BY <1>1, <1>2, HasCache DEF Request
<1>4. b \in Budgets /\ b \in Nat /\ b <= Max(Budgets) /\ Max(Budgets) \in Nat
  <2>1. b \in Budgets
    BY <1>1, <1>2 DEF CachesInv, RequestsOK, RequestOK
  <2> QED BY <2>1, LargestBudget
<1>5. Told(g) /\ g.budget = h.budget /\ g.bytes <= b
  BY <1>1, <1>3, <1>4, PutTold DEF CacheOK
<1>6. CacheOK(g)
  <2>1. g.bytes \in Nat
    BY <1>5 DEF Told, Cache
  <2> QED BY <1>3, <1>4, <1>5, <2>1 DEF CacheOK
<1>7. OneCache(i, g) /\ Finish(r) /\ UNCHANGED <<now, config, current, origin>>
  BY <1>1 DEF PutStore, OneCache
<1>8. CachesOK(caches') /\ Len(caches') = Len(caches)
  BY <1>3, <1>6, <1>7, OneCacheOK
<1>9. RequestsOK(req', Len(caches))
  BY <1>7, EndsOK
<1> QED BY <1>7, <1>8, <1>9 DEF CachesInv

\* InvalidatePath leaves less of the cache.
LEMMA InvalidatePathOK ==
  ASSUME CachesInv, NEW r \in Req, InvalidatePath(r)
  PROVE  CachesInv'
<1>1. req[r].pc \in Given /\ Goto(r, "sent") /\ UNCHANGED <<now, config, current, origin>>
  BY DEF InvalidatePath, Given
<1>2. PICK i, h, g : i = req[r].cache /\ h = caches[i] /\ g = Invalidate(h, req[r].key[2], req[r].key[1])
  OBVIOUS
<1>3. i \in 1 .. Len(caches) /\ CacheOK(h)
  BY <1>1, <1>2, HasCache
<1>4. Told(g) /\ g.budget = h.budget /\ g.bytes <= h.bytes
  BY <1>2, <1>3, InvalidateTold DEF CacheOK
<1>5. CacheOK(g)
  BY <1>3, <1>4, SmallerOK
<1>6. OneCache(i, g)
  BY <1>2 DEF InvalidatePath, OneCache
<1>7. CachesOK(caches') /\ Len(caches') = Len(caches)
  BY <1>3, <1>5, <1>6, OneCacheOK
<1>8. RequestsOK(req', Len(caches))
  BY <1>1, GoesOK
<1> QED BY <1>1, <1>7, <1>8 DEF CachesInv

\* Nothing is put.
LEMMA PassedOK ==
  ASSUME CachesInv, NEW r \in Req, FetchPassed(r) \/ OriginRefuses(r)
  PROVE  CachesInv'
<1>1. Finish(r) /\ UNCHANGED <<now, config, caches, current, origin>>
  BY DEF FetchPassed, OriginRefuses
<1>2. RequestsOK(req', Len(caches))
  BY <1>1, EndsOK
<1> QED BY <1>1, <1>2 DEF CachesInv

\* OriginReplaces makes a new version.
LEMMA OriginReplacesOK ==
  ASSUME CachesInv, NEW r \in Req, OriginReplaces(r)
  PROVE  CachesInv'
<1>1. Finish(r) /\ UNCHANGED <<now, config, caches, current>>
  BY DEF OriginReplaces
<1>2. RequestsOK(req', Len(caches))
  BY <1>1, EndsOK
<1>3. PICK p : origin' = [origin EXCEPT ![p] = @ + 1]
  BY DEF OriginReplaces
<1>4. origin' \in [Paths -> Nat]
  <2>1. origin \in [Paths -> Nat]
    BY DEF CachesInv
  <2>2. ASSUME NEW x \in Paths PROVE origin'[x] \in Nat
    <3>1. CASE x = p
      <4>1. origin'[x] = origin[x] + 1
        BY <1>3, <2>1, <3>1
      <4> QED BY <2>1, <4>1
    <3>2. CASE x # p
      BY <1>3, <2>1, <3>2
    <3> QED BY <3>1, <3>2
  <2>3. DOMAIN origin' = Paths /\ origin' = [x \in Paths |-> origin'[x]]
    BY <1>3, <2>1
  <2> QED BY <2>2, <2>3
<1> QED BY <1>1, <1>2, <1>4 DEF CachesInv

-----------------------------------------------------------------------------
(* The theorems. *)

\* At the start there is no cache.
LEMMA CachesInit == Init => CachesInv
<1> SUFFICES ASSUME Init PROVE CachesInv
  OBVIOUS
<1>1. CachesOK(caches) /\ Len(caches) = 0
  BY DEF Init, CachesOK
<1>2. RequestsOK(req, 0)
  <2>1. RequestOK(Idle, 0) /\ Idle \in Request
    BY IdleOK DEF RequestOK
  <2> QED BY <2>1 DEF Init, RequestsOK
<1>3. now \in Nat /\ config \in Budgets \cup {0} /\ origin \in [Paths -> Nat] /\ current = 0
  BY DEF Init
<1> QED BY <1>1, <1>2, <1>3 DEF CachesInv

\* Every step keeps the caches and the requests well formed.
LEMMA CachesStep == CachesInv /\ [Next]_vars => CachesInv'
<1> SUFFICES ASSUME CachesInv, [Next]_vars PROVE CachesInv'
  OBVIOUS
<1>1. CASE UNCHANGED vars
  BY <1>1 DEF vars, CachesInv
<1>2. ASSUME NEW r \in Req, NEW k \in Keys, NEW unsafe \in BOOLEAN, Route(r, k, unsafe)
      PROVE  CachesInv'
  BY <1>2, RouteOK
<1>3. ASSUME NEW r \in Req, HostFind(r) PROVE CachesInv'
  BY <1>3, HostFindOK
<1>4. ASSUME NEW r \in Req, HostBudget(r) PROVE CachesInv'
  BY <1>4, HostBudgetOK
<1>5. ASSUME NEW r \in Req, HostCreate(r) PROVE CachesInv'
  BY <1>5, HostCreateOK
<1>6. ASSUME NEW r \in Req, LookupMiss(r) PROVE CachesInv'
  BY <1>6, LookupMissOK
<1>7. ASSUME NEW r \in Req, NEW servable \in BOOLEAN, LookupHit(r, servable) PROVE CachesInv'
  BY <1>7, LookupHitOK
<1>8. ASSUME NEW r \in Req, NEW size \in Sizes, FetchStorable(r, size) PROVE CachesInv'
  BY <1>8, FetchStorableOK
<1>9. ASSUME NEW r \in Req, FetchPassed(r) \/ OriginRefuses(r) PROVE CachesInv'
  BY <1>9, PassedOK
<1>10. ASSUME NEW r \in Req, PutLoad(r) PROVE CachesInv'
  BY <1>10, PutLoadOK
<1>11. ASSUME NEW r \in Req, PutStore(r) PROVE CachesInv'
  BY <1>11, PutStoreOK
<1>12. ASSUME NEW r \in Req, InvalidatePath(r) PROVE CachesInv'
  BY <1>12, InvalidatePathOK
<1>13. ASSUME NEW r \in Req, OriginReplaces(r) PROVE CachesInv'
  BY <1>13, OriginReplacesOK
<1>14. ASSUME NEW c \in Budgets \cup {0}, Publish(c) PROVE CachesInv'
  BY <1>14 DEF Publish, CachesInv
<1>15. CASE Forget
  <2>1. current' \in {0, current} /\ UNCHANGED <<now, config, caches, req, origin>>
    BY <1>15 DEF Forget
  <2>2. Len(caches) \in Nat
    BY DEF CachesInv, CachesOK
  <2> QED BY <2>1, <2>2 DEF CachesInv
<1>16. CASE Tick
  BY <1>16 DEF Tick, CachesInv
<1> QED
  BY <1>1, <1>2, <1>3, <1>4, <1>5, <1>6, <1>7, <1>8, <1>9, <1>10, <1>11, <1>12, <1>13, <1>14,
     <1>15, <1>16 DEF Next

\* The inductive invariant: every cache, live or detached, tells one story and is
\* within the largest budget, and every request that has a cache has one of them.
THEOREM CachesInvHolds == Spec => []CachesInv
<1> QED BY CachesInit, CachesStep, PTL DEF Spec

\* The invariant has Accounting in it.
LEMMA InvAccounts == CachesInv => Accounting
<1> SUFFICES ASSUME CachesInv, NEW i \in DOMAIN caches
             PROVE  LET h == caches[i] IN
                    /\ ToSet(h.order) = DOMAIN h.items
                    /\ Len(h.order) = Cardinality(DOMAIN h.items)
                    /\ h.bytes = Bytes(h.items, DOMAIN h.items)
                    /\ h.bytes <= Max(Budgets)
  BY DEF Accounting
<1>1. PICK h : h = caches[i]
  OBVIOUS
<1>2. CacheOK(h)
  BY <1>1 DEF CachesInv, CachesOK
<1>3. Len(h.order) = Cardinality(DOMAIN h.items)
  BY <1>2, ToldFinite DEF CacheOK
<1>4. ToSet(h.order) = DOMAIN h.items /\ h.bytes = Bytes(h.items, DOMAIN h.items)
      /\ h.bytes <= Max(Budgets)
  BY <1>2 DEF CacheOK, Told
<1> QED BY <1>1, <1>3, <1>4

\* HostCache under its mutex: whatever order requests put, refresh, expire and
\* invalidate entries in, the list holds each stored key once, bytes is the sum of
\* what is stored, and no cache is above the largest budget.
THEOREM CachesAccounted == Spec => []Accounting
<1> QED BY CachesInvHolds, InvAccounts, PTL

\* Only Forget empties Store.hosts, and only an empty one is filled.
LEMMA StrandedStep == CachesInv /\ NoneStranded /\ [Next]_vars => NoneStranded'
<1> SUFFICES ASSUME CachesInv, NoneStranded, [Next]_vars PROVE NoneStranded'
  OBVIOUS
<1>1. PICK n : n = Len(caches) /\ n \in Nat /\ DOMAIN caches = 1 .. n
  BY DEF CachesInv, CachesOK
<1>2. \A i \in 1 .. n : i = current \/ i \in dropped
  BY <1>1 DEF NoneStranded
<1>3. ASSUME DOMAIN caches' = DOMAIN caches, UNCHANGED <<current, dropped>> PROVE NoneStranded'
  BY <1>3 DEF NoneStranded
<1>4. CASE UNCHANGED vars
  BY <1>3, <1>4 DEF vars
<1>5. ASSUME NEW r \in Req, HostCreate(r) PROVE NoneStranded'
  <2>1. UNCHANGED dropped
    BY <1>5 DEF HostCreate
  <2>2. CASE current = 0
    <3>1. PICK g : caches' = Append(caches, g) /\ current' = Len(caches')
      BY <1>5, <2>2 DEF HostCreate, StillAbsent
    <3>2. caches \in Seq(Cache)
      BY DEF CachesInv, CachesOK
    <3>3. DOMAIN caches' = 1 .. n + 1 /\ Len(caches') = n + 1
      BY <1>1, <3>1, <3>2
    <3>4. \A i \in 1 .. n + 1 : i = n + 1 \/ i \in 1 .. n
      BY <1>1
    <3>5. \A i \in 1 .. n : i # current
      BY <1>1, <2>2
    <3> QED BY <1>2, <2>1, <3>1, <3>3, <3>4, <3>5 DEF NoneStranded
  <2>3. CASE current # 0
    BY <1>3, <1>5, <2>3 DEF HostCreate, StillAbsent
  <2> QED BY <2>2, <2>3
<1>6. CASE Forget
  BY <1>6 DEF Forget, NoneStranded
<1>7. ASSUME NEW r \in Req,
             \/ \E k \in Keys, unsafe \in BOOLEAN : Route(r, k, unsafe)
             \/ HostFind(r) \/ \E size \in Sizes : FetchStorable(r, size)
             \/ FetchPassed(r) \/ PutLoad(r) \/ OriginReplaces(r) \/ OriginRefuses(r)
      PROVE  NoneStranded'
  BY <1>3, <1>7 DEF Route, HostFind, FetchStorable, FetchPassed, PutLoad, OriginReplaces, OriginRefuses
<1>8. ASSUME NEW r \in Req,
             \/ HostBudget(r) \/ LookupMiss(r) \/ \E servable \in BOOLEAN : LookupHit(r, servable)
             \/ PutStore(r) \/ InvalidatePath(r)
      PROVE  NoneStranded'
  <2>1. UNCHANGED <<current, dropped>>
    BY <1>8 DEF HostBudget, LookupMiss, LookupHit, PutStore, InvalidatePath
  <2>2. DOMAIN caches' = DOMAIN caches
    BY <1>8 DEF HostBudget, LookupMiss, LookupHit, PutStore, InvalidatePath
  <2> QED BY <1>3, <2>1, <2>2
<1>9. ASSUME NEW c \in Budgets \cup {0}, Publish(c) PROVE NoneStranded'
  BY <1>3, <1>9 DEF Publish
<1>10. CASE Tick
  BY <1>3, <1>10 DEF Tick
<1> QED BY <1>4, <1>5, <1>6, <1>7, <1>8, <1>9, <1>10 DEF Next

\* Store.Host and Forget: a cache leaves the store only through Forget, whatever
\* number of first requests race to create it.
THEOREM NoCacheStranded == Spec => []NoneStranded
<1>1. Init => NoneStranded
  BY DEF Init, NoneStranded
<1> QED BY <1>1, CachesInvHolds, StrandedStep, PTL DEF Spec

-----------------------------------------------------------------------------
(* The recency list against the order in which keys were really used. *)

Recent(h, u) == u \in Seq(Keys) /\ Distinct(u) /\ Follows(h.order, u)

RecencyInv ==
    /\ DOMAIN used = DOMAIN caches
    /\ used \in Seq(Seq(Keys))
    /\ \A i \in DOMAIN caches : Recent(caches[i], used[i])

\* g is h after k was put, and s its list before the eviction that left n of it.
PutLeaves(h, k, g, s, n) ==
    /\ s = Push(k, RemoveFirst(h.order, k)) /\ Distinct(s) /\ ToSet(s) = DOMAIN h.items \cup {k}
    /\ n \in 0 .. Len(s) /\ g.order = Upto(s, n) /\ DOMAIN g.items = Heads(s, n)

\* A key that is put is at the front, and the rest as they were.
LEMMA PutOrder ==
  ASSUME NEW h, Told(h), NEW k \in Keys, NEW e \in Entry, NEW budget \in Nat,
         NEW g, g = Put(h, k, e, budget)
  PROVE  \E s \in Seq(Keys) : \E n : PutLeaves(h, k, g, s, n)
<1>1. PICK a : a = IF k \in DOMAIN h.items THEN remove(h, k) ELSE h
  OBVIOUS
<1>2. /\ h \in Cache /\ h.order \in Seq(Keys) /\ Distinct(h.order)
         /\ ToSet(h.order) = DOMAIN h.items
  BY DEF Told, Cache
<1>3. Told(a) /\ a.order = RemoveFirst(h.order, k) /\ DOMAIN a.items = DOMAIN h.items \ {k}
  <2>1. CASE k \in DOMAIN h.items
    BY <1>1, <1>2, <2>1, RemoveTold, RemoveOrder
  <2>2. CASE k \notin DOMAIN h.items
    <3>1. ToSet(h.order) = {h.order[j] : j \in 1 .. Len(h.order)}
      BY <1>2, SetOf
    <3>2. ~\E j \in 1 .. Len(h.order) : h.order[j] = k
      BY <1>2, <2>2, <3>1
    <3>3. RemoveFirst(h.order, k) = h.order
      BY <3>2 DEF RemoveFirst
    <3> QED BY <1>1, <2>2, <3>3
  <2> QED BY <2>1, <2>2
<1>4. PICK b : b = insert(a, k, e)
  OBVIOUS
<1>5. Told(b) /\ DOMAIN b.items = DOMAIN a.items \cup {k}
  <2>1. Told(b)
    BY <1>3, <1>4, InsertTold
  <2>2. a \in Cache
    BY <1>3 DEF Told
  <2>3. b.items = [j \in DOMAIN a.items \cup {k} |-> IF j = k THEN e ELSE a.items[j]]
    BY <1>4, <2>2 DEF insert, Cache
  <2>4. DOMAIN b.items = DOMAIN a.items \cup {k}
    BY <2>3
  <2> QED BY <2>1, <2>4
<1>6. PICK s : s = b.order
  OBVIOUS
<1>7. /\ s \in Seq(Keys) /\ Distinct(s) /\ ToSet(s) = DOMAIN b.items
      /\ s = Push(k, RemoveFirst(h.order, k))
  BY <1>3, <1>4, <1>5, <1>6 DEF Told, Cache, insert, Push
<1>8. PICK n : n = Kept(b, budget) /\ n \in 0 .. Len(s)
  BY <1>5, <1>6, SomeKept
<1>9. g = evict(b, budget)
  BY <1>1, <1>4 DEF Put
<1>10. g.order = Upto(s, n) /\ DOMAIN g.items = Heads(s, n)
  <2>1. b \in Cache
    BY <1>5 DEF Told
  <2>2. g = [b EXCEPT !.items = [j \in First(b, n) |-> b.items[j]], !.order = SubSeq(@, 1, n),
                      !.bytes = b.bytes - Bytes(b.items, Rest(b, n))]
    BY <1>8, <1>9, EvictIs
  <2>3. g.order = SubSeq(s, 1, n) /\ DOMAIN g.items = First(b, n)
    BY <1>6, <2>1, <2>2 DEF Cache
  <2> QED BY <1>6, <2>3 DEF First, Heads, Upto
<1>11. PutLeaves(h, k, g, s, n)
  BY <1>3, <1>5, <1>7, <1>8, <1>10 DEF PutLeaves
<1> QED BY <1>7, <1>11

\* A touched key is the first of what was used, and its list follows.
LEMMA TouchedFirst ==
  ASSUME CachesInv, RecencyInv, NEW i \in DOMAIN caches, NEW k \in Keys, NEW g, OneCache(i, g),
         Touch(i, k), NEW v, v = Push(k, RemoveFirst(used[i], k)), Recent(g, v)
  PROVE  RecencyInv'
<1>1. used' = [used EXCEPT ![i] = v] /\ caches' = [caches EXCEPT ![i] = g]
  BY DEF Touch, OneCache, Push
<1>2. DOMAIN used' = DOMAIN used /\ DOMAIN caches' = DOMAIN caches
  BY <1>1
<1>3. v \in Seq(Keys)
  BY DEF Recent
<1>4. used' \in Seq(Seq(Keys))
  BY <1>1, <1>3 DEF RecencyInv
<1>5. ASSUME NEW j \in DOMAIN caches PROVE Recent(caches'[j], used'[j])
  <2>1. CASE j = i
    BY <1>1, <2>1 DEF RecencyInv
  <2>2. CASE j # i
    BY <1>1, <2>2 DEF RecencyInv
  <2> QED BY <2>1, <2>2
<1> QED BY <1>2, <1>4, <1>5 DEF RecencyInv

\* Nothing is used, and what a cache has left follows what it had.
LEMMA LessFollows ==
  ASSUME CachesInv, RecencyInv, UNCHANGED used, NEW i \in DOMAIN caches, NEW g, OneCache(i, g),
         Follows(g.order, caches[i].order)
  PROVE  RecencyInv'
<1>1. caches' = [caches EXCEPT ![i] = g] /\ DOMAIN caches' = DOMAIN caches
  BY DEF OneCache
<1>2. ASSUME NEW j \in DOMAIN caches PROVE Recent(caches'[j], used[j])
  <2>1. CASE j = i
    <3>1. Recent(caches[i], used[i]) /\ caches'[j] = g
      BY <1>1, <2>1 DEF RecencyInv
    <3>2. Follows(g.order, used[i])
      BY <3>1, FollowsOn DEF Recent
    <3> QED BY <2>1, <3>1, <3>2 DEF Recent
  <2>2. CASE j # i
    BY <1>1, <2>2 DEF RecencyInv
  <2> QED BY <2>1, <2>2
<1> QED BY <1>1, <1>2 DEF RecencyInv

\* Following is reflexive.
LEMMA SameFollows == ASSUME NEW s PROVE Follows(s, s)
BY DEF Follows

\* What Put gives up was used before all that it keeps.
LEMMA PutStoreRecent ==
  ASSUME CachesInv, RecencyInv, NEW r \in Req, PutStore(r)
  PROVE  /\ RecencyInv'
         /\ LET i == req[r].cache
                kept == DOMAIN caches'[i].items
                lost == DOMAIN caches[i].items \ kept
            IN  \A k \in kept, l \in lost : Rank(used'[i], k) < Rank(used'[i], l)
<1>1. PICK i, h, k, e, b, g, u, v :
         /\ i = req[r].cache /\ h = caches[i] /\ k = req[r].key /\ e = req[r].entry
         /\ b = req[r].budget /\ g = Put(h, k, e, b)
         /\ u = used[i] /\ v = Push(k, RemoveFirst(u, k))
  OBVIOUS
<1>2. req[r].pc = "storing" /\ req[r].pc \in Given
  BY DEF PutStore, Given
<1>3. i \in 1 .. Len(caches) /\ CacheOK(h) /\ k \in Keys /\ e \in Entry
  BY <1>1, <1>2, HasCache DEF Request
<1>4. b \in Nat
  BY <1>1, <1>2, LargestBudget DEF CachesInv, RequestsOK, RequestOK
<1>5. OneCache(i, g) /\ Touch(i, k)
  BY <1>1 DEF PutStore, OneCache
<1>6. i \in DOMAIN caches
  BY <1>3 DEF CachesInv, CachesOK
<1>7. u \in Seq(Keys) /\ Distinct(u) /\ Follows(h.order, u)
  BY <1>1, <1>6 DEF RecencyInv, Recent
<1>8. h.order \in Seq(Keys) /\ Distinct(h.order) /\ Told(h)
  BY <1>3 DEF CacheOK, Told, Cache
<1>0. PICK s \in Seq(Keys) : \E n : PutLeaves(h, k, g, s, n)
  BY <1>1, <1>3, <1>4, <1>8, PutOrder
<1>9. PICK n \in 0 .. Len(s) :
         /\ s = Push(k, RemoveFirst(h.order, k)) /\ Distinct(s)
            /\ ToSet(s) = DOMAIN h.items \cup {k}
         /\ g.order = Upto(s, n) /\ DOMAIN g.items = Heads(s, n)
  BY <1>0 DEF PutLeaves
<1>10. Follows(s, v) /\ v \in Seq(Keys) /\ Distinct(v)
  <2>1. PICK o : o = h.order
    OBVIOUS
  <2>2. o \in Seq(Keys) /\ Distinct(o) /\ Follows(o, u) /\ s = Push(k, RemoveFirst(o, k))
    BY <1>7, <1>8, <1>9, <2>1
  <2>3. v = Push(k, RemoveFirst(u, k))
    BY <1>1
  <2> QED BY <1>3, <1>7, <2>2, <2>3, FrontFollows
<1>11. /\ Follows(g.order, s)
       /\ \A x \in Heads(s, n), y \in ToSet(s) \ Heads(s, n) : Before(s, x, y)
  BY <1>9, UptoFollows
<1>12. Recent(g, v)
  BY <1>10, <1>11, FollowsOn DEF Recent
<1>13. RecencyInv'
  BY <1>1, <1>3, <1>5, <1>6, <1>12, TouchedFirst
<1>14. caches'[i] = g /\ used'[i] = v
  BY <1>1, <1>5, <1>6 DEF OneCache, Touch, Push, RecencyInv
<1>15. ASSUME NEW x \in DOMAIN g.items, NEW y \in DOMAIN h.items \ DOMAIN g.items
       PROVE  Rank(v, x) < Rank(v, y)
  <2>1. Before(s, x, y)
    BY <1>9, <1>11
  <2>2. Before(v, x, y)
    BY <1>10, <2>1 DEF Follows
  <2> QED BY <1>10, <2>2, BeforeRank
<1> QED BY <1>1, <1>13, <1>14, <1>15

\* Every step keeps each list in the order of use.
LEMMA RecencyStep == CachesInv /\ RecencyInv /\ [Next]_vars => RecencyInv'
<1> SUFFICES ASSUME CachesInv, RecencyInv, [Next]_vars PROVE RecencyInv'
  OBVIOUS
<1>1. ASSUME UNCHANGED <<caches, used>> PROVE RecencyInv'
  BY <1>1 DEF RecencyInv
<1>2. CASE UNCHANGED vars
  BY <1>1, <1>2 DEF vars
<1>3. ASSUME NEW r \in Req,
             \/ \E k \in Keys, unsafe \in BOOLEAN : Route(r, k, unsafe)
             \/ HostFind(r) \/ \E size \in Sizes : FetchStorable(r, size)
             \/ FetchPassed(r) \/ PutLoad(r) \/ OriginReplaces(r) \/ OriginRefuses(r)
      PROVE  RecencyInv'
  BY <1>1, <1>3 DEF Route, HostFind, FetchStorable, FetchPassed, PutLoad, OriginReplaces, OriginRefuses
<1>4. ASSUME NEW i \in DOMAIN caches, NEW b, UNCHANGED used,
             OneCache(i, [caches[i] EXCEPT !.budget = b])
      PROVE  RecencyInv'
  <2>1. PICK g : g = [caches[i] EXCEPT !.budget = b]
    OBVIOUS
  <2>2. caches[i] \in Cache
    BY DEF CachesInv, CachesOK
  <2>3. g.order = caches[i].order
    BY <2>1, <2>2 DEF Cache
  <2> QED BY <1>4, <2>1, <2>3, SameFollows, LessFollows
<1>5. ASSUME NEW r \in Req, HostBudget(r) PROVE RecencyInv'
  <2>1. req[r].pc \in Given
    BY <1>5 DEF HostBudget, Given
  <2>2. req[r].cache \in DOMAIN caches
    BY <2>1, HasCache DEF CachesInv, CachesOK
  <2>3. UNCHANGED used
        /\ OneCache(req[r].cache, [caches[req[r].cache] EXCEPT !.budget = req[r].cfg])
    BY <1>5 DEF HostBudget, OneCache
  <2> QED BY <1>4, <2>2, <2>3
<1>6. ASSUME NEW r \in Req, HostCreate(r) PROVE RecencyInv'
  <2>1. CASE current = 0
    <3>1. PICK cs, us, n, g : /\ cs = caches /\ us = used /\ n = Len(cs)
                              /\ g = newHostCache(req[r].cfg)
      OBVIOUS
    <3>2. caches' = Append(cs, g) /\ used' = Append(us, <<>>)
      BY <1>6, <2>1, <3>1 DEF HostCreate, StillAbsent
    <3>3. /\ cs \in Seq(Cache) /\ us \in Seq(Seq(Keys)) /\ Len(us) = n /\ n \in Nat
          /\ \A i \in 1 .. n : Recent(cs[i], us[i])
      BY <3>1 DEF CachesInv, CachesOK, RecencyInv
    <3>4. req[r].cfg \in Budgets
      BY <1>6 DEF HostCreate, CachesInv, RequestsOK, RequestOK
    <3>5. g \in Cache /\ g.order = <<>>
      BY <3>1, <3>4, NewTold DEF newHostCache
    <3>6. Recent(g, <<>>)
      BY <3>5 DEF Recent, Distinct, Follows
    <3>7. /\ DOMAIN caches' = 1 .. n + 1 /\ DOMAIN used' = 1 .. n + 1
          /\ \A i \in 1 .. n + 1 : caches'[i] = IF i = n + 1 THEN g ELSE cs[i]
      BY <3>1, <3>2, <3>3, <3>5
    <3>8. used' \in Seq(Seq(Keys))
          /\ \A i \in 1 .. n + 1 : used'[i] = IF i = n + 1 THEN <<>> ELSE us[i]
      BY <3>2, <3>3
    <3>9. \A i \in 1 .. n + 1 : Recent(caches'[i], used'[i])
      <4> SUFFICES ASSUME NEW i \in 1 .. n + 1 PROVE Recent(caches'[i], used'[i])
        OBVIOUS
      <4>1. CASE i = n + 1
        <5>1. caches'[i] = g /\ used'[i] = <<>>
          BY <3>7, <3>8, <4>1
        <5> QED BY <3>6, <5>1
      <4>2. CASE i # n + 1
        <5>1. i \in 1 .. n /\ caches'[i] = cs[i] /\ used'[i] = us[i]
          BY <3>3, <3>7, <3>8, <4>2
        <5> QED BY <3>3, <5>1
      <4> QED BY <4>1, <4>2
    <3> QED BY <3>7, <3>8, <3>9 DEF RecencyInv
  <2>2. CASE current # 0
    <3>1. current \in DOMAIN caches
      BY <2>2 DEF CachesInv, CachesOK
    <3>2. UNCHANGED used /\ OneCache(current, [caches[current] EXCEPT !.budget = req[r].cfg])
      BY <1>6, <2>2 DEF HostCreate, StillAbsent, OneCache
    <3> QED BY <1>4, <3>1, <3>2
  <2> QED BY <2>1, <2>2
<1>7. ASSUME NEW r \in Req, LookupMiss(r) PROVE RecencyInv'
  <2>1. PICK i, h, k, g : i = req[r].cache /\ h = caches[i] /\ k = req[r].key /\ g = remove(h, k)
    OBVIOUS
  <2>2. UNCHANGED used /\ req[r].pc \in Given
    BY <1>7 DEF LookupMiss, Given
  <2>3. i \in 1 .. Len(caches) /\ CacheOK(h) /\ i \in DOMAIN caches
    BY <2>1, <2>2, HasCache DEF CachesInv, CachesOK
  <2>4. CASE UNCHANGED caches
    BY <1>1, <2>2, <2>4
  <2>5. CASE OneCache(i, g)
    <3>1. h \in Cache /\ h.order \in Seq(Keys) /\ Distinct(h.order)
      BY <2>3 DEF CacheOK, Told, Cache
    <3>2. g.order = RemoveFirst(h.order, k)
      BY <2>1, <3>1, RemoveOrder
    <3>3. Follows(g.order, h.order)
      BY <3>1, <3>2, TakenOutFollows
    <3> QED BY <2>1, <2>2, <2>3, <2>5, <3>3, LessFollows
  <2> QED BY <1>7, <2>1, <2>4, <2>5 DEF LookupMiss, OneCache
<1>8. ASSUME NEW r \in Req, NEW servable \in BOOLEAN, LookupHit(r, servable) PROVE RecencyInv'
  <2>1. PICK i, h, k, g, u, v :
           /\ i = req[r].cache /\ h = caches[i] /\ k = req[r].key /\ g = moveToFront(h, k)
           /\ u = used[i] /\ v = Push(k, RemoveFirst(u, k))
    OBVIOUS
  <2>2. OneCache(i, g) /\ Touch(i, k) /\ req[r].pc \in Given
    BY <1>8, <2>1 DEF LookupHit, Given, OneCache
  <2>3. i \in 1 .. Len(caches) /\ CacheOK(h) /\ i \in DOMAIN caches /\ k \in Keys
    BY <2>1, <2>2, HasCache DEF CachesInv, CachesOK
  <2>4. h \in Cache /\ h.order \in Seq(Keys) /\ Distinct(h.order)
    BY <2>3 DEF CacheOK, Told, Cache
  <2>5. u \in Seq(Keys) /\ Distinct(u) /\ Follows(h.order, u)
    BY <2>1, <2>3 DEF RecencyInv, Recent
  <2>6. g.order = Push(k, RemoveFirst(h.order, k))
    BY <2>1, <2>4 DEF moveToFront, Push, Cache
  <2>7. Follows(g.order, v) /\ v \in Seq(Keys) /\ Distinct(v)
    BY <2>1, <2>3, <2>4, <2>5, <2>6, FrontFollows
  <2>8. Recent(g, v)
    BY <2>7 DEF Recent
  <2> QED BY <2>1, <2>2, <2>3, <2>8, TouchedFirst
<1>9. ASSUME NEW r \in Req, PutStore(r) PROVE RecencyInv'
  BY <1>9, PutStoreRecent
<1>10. ASSUME NEW r \in Req, InvalidatePath(r) PROVE RecencyInv'
  <2>1. PICK i, h, g : i = req[r].cache /\ h = caches[i] /\ g = Invalidate(h, req[r].key[2], req[r].key[1])
    OBVIOUS
  <2>2. OneCache(i, g) /\ UNCHANGED used /\ req[r].pc \in Given
    BY <1>10, <2>1 DEF InvalidatePath, Given, OneCache
  <2>3. CacheOK(h) /\ i \in DOMAIN caches
    BY <2>1, <2>2, HasCache DEF CachesInv, CachesOK
  <2>4. Follows(g.order, h.order)
    BY <2>1, <2>3, InvalidateTold DEF CacheOK
  <2> QED BY <2>1, <2>2, <2>3, <2>4, LessFollows
<1>11. ASSUME NEW c \in Budgets \cup {0}, Publish(c) PROVE RecencyInv'
  BY <1>1, <1>11 DEF Publish
<1>12. CASE Forget
  BY <1>1, <1>12 DEF Forget
<1>13. CASE Tick
  BY <1>1, <1>13 DEF Tick
<1> QED
  BY <1>2, <1>3, <1>5, <1>6, <1>7, <1>8, <1>9, <1>10, <1>11, <1>12, <1>13 DEF Next

\* A put is the only step that takes a request from storing to idle.
LEMMA OnlyPut ==
  ASSUME CachesInv, [Next]_vars, NEW r \in Req, req[r].pc = "storing", req'[r].pc = "idle"
  PROVE  PutStore(r)
<1>1. req \in [Req -> Request] /\ req'[r] # req[r]
  BY DEF CachesInv, RequestsOK
<1>2. ASSUME NEW s \in Req, s # r, NEW q, req' = [req EXCEPT ![s] = q] PROVE FALSE
  BY <1>1, <1>2
<1>3. ASSUME NEW s \in Req, s # r, NEW pc, Goto(s, pc) PROVE FALSE
  BY <1>1, <1>3 DEF Goto
<1>4. req' # req
  BY <1>1
<1>5. ASSUME NEW s \in Req, NEW k \in Keys, NEW unsafe \in BOOLEAN, Route(s, k, unsafe) PROVE FALSE
  BY <1>1, <1>5 DEF Route
<1>6. ASSUME NEW s \in Req, HostFind(s) PROVE FALSE
  BY <1>1, <1>6 DEF HostFind
<1>7. ASSUME NEW s \in Req, HostBudget(s) PROVE FALSE
  BY <1>1, <1>7 DEF HostBudget, Goto
<1>8. ASSUME NEW s \in Req, HostCreate(s) PROVE FALSE
  BY <1>1, <1>8 DEF HostCreate
<1>9. ASSUME NEW s \in Req, LookupMiss(s) PROVE FALSE
  BY <1>1, <1>9 DEF LookupMiss, Goto
<1>10. ASSUME NEW s \in Req, NEW servable \in BOOLEAN, LookupHit(s, servable) PROVE FALSE
  BY <1>1, <1>10 DEF LookupHit, Finish, Goto
<1>11. ASSUME NEW s \in Req, NEW size \in Sizes, FetchStorable(s, size) PROVE FALSE
  BY <1>1, <1>11 DEF FetchStorable
<1>12. ASSUME NEW s \in Req, FetchPassed(s) PROVE FALSE
  BY <1>1, <1>12 DEF FetchPassed, Finish
<1>13. ASSUME NEW s \in Req, PutLoad(s) PROVE FALSE
  BY <1>1, <1>13 DEF PutLoad, Finish
<1>14. ASSUME NEW s \in Req, s # r, PutStore(s) PROVE FALSE
  BY <1>1, <1>14 DEF PutStore, Finish
<1>15. ASSUME NEW s \in Req, InvalidatePath(s) PROVE FALSE
  BY <1>1, <1>15 DEF InvalidatePath, Goto
<1>16. ASSUME NEW s \in Req, OriginReplaces(s) \/ OriginRefuses(s) PROVE FALSE
  BY <1>1, <1>16 DEF OriginReplaces, OriginRefuses, Finish
<1>17. ~UNCHANGED vars /\ ~Forget /\ ~Tick /\ \A c \in Budgets \cup {0} : ~Publish(c)
  BY <1>4 DEF vars, Forget, Tick, Publish
<1> QED
  BY <1>5, <1>6, <1>7, <1>8, <1>9, <1>10, <1>11, <1>12, <1>13, <1>14, <1>15, <1>16, <1>17 DEF Next

\* What the property says, of one step.
LEMMA EvictStep ==
  ASSUME CachesInv, RecencyInv, [Next]_vars,
         NEW r \in Req, req[r].pc = "storing", req'[r].pc = "idle"
  PROVE  LET i == req[r].cache
             kept == DOMAIN caches'[i].items
             lost == DOMAIN caches[i].items \ kept
             rank(k) == CHOOSE j \in DOMAIN used'[i] : used'[i][j] = k
         IN  \A k \in kept, l \in lost : rank(k) < rank(l)
<1>1. PutStore(r)
  BY OnlyPut
<1> QED BY <1>1, PutStoreRecent DEF Rank

\* Put's eviction: only keys less recently used than every key it keeps, whatever
\* requests touched, dropped and put meanwhile.
THEOREM EvictionsAreOfTheOldest == Spec => EvictsLeastRecent
<1>1. Init => RecencyInv
  BY DEF Init, RecencyInv
<1>2. CachesInv /\ RecencyInv /\ [Next]_vars =>
         \A r \in Req :
            req[r].pc = "storing" /\ req'[r].pc = "idle" =>
               LET i == req[r].cache
                   kept == DOMAIN caches'[i].items
                   lost == DOMAIN caches[i].items \ kept
                   rank(k) == CHOOSE j \in DOMAIN used'[i] : used'[i][j] = k
               IN  \A k \in kept, l \in lost : rank(k) < rank(l)
  BY EvictStep
<1> QED BY <1>1, <1>2, CachesInvHolds, RecencyStep, PTL DEF Spec, EvictsLeastRecent

=============================================================================
