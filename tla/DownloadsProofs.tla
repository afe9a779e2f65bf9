--------------------------- MODULE DownloadsProofs ---------------------------
(***************************************************************************)
(* For every set of offers, sizes, limits and settings: the limits are     *)
(* kept, every .part file is accounted for, and a saved file is whole.     *)
(*                                                                         *)
(* A step changes several of the tables and paths at once.  The invariants *)
(* are therefore stated of any tables and paths, and a step is taken apart *)
(* into changes of which each has a lemma.                                 *)
(***************************************************************************)
EXTENDS Downloads, FiniteSetTheorems, WellFoundedInduction, TLAPS

----------------------------------------------------------------------------
(* Sums over finite sets: the elements are taken one by one, each time the *)
(* first that CHOOSE finds.                                                *)

First(s) == CHOOSE x \in s : TRUE
SumsUp(g, f, S) == g = [s \in SUBSET S |-> IF s = {} THEN 0 ELSE f[First(s)] + g[s \ {First(s)}]]

LEMMA SumIs ==
  ASSUME NEW f, NEW S
  PROVE  SumOf(f, S) = (CHOOSE g : SumsUp(g, f, S))[S]
BY DEF SumOf, FoldFunctionOnSet, MapThenFoldSet, SumsUp, First

LEMMA FirstIn == ASSUME NEW s, s # {} PROVE First(s) \in s
BY DEF First

LEMMA SumsUpMeans ==
  ASSUME NEW f, NEW S, NEW g, SumsUp(g, f, S), NEW s \in SUBSET S
  PROVE  g[s] = IF s = {} THEN 0 ELSE f[First(s)] + g[s \ {First(s)}]
<1>1. g = [u \in SUBSET S |-> IF u = {} THEN 0 ELSE f[First(u)] + g[u \ {First(u)}]]
  BY DEF SumsUp
<1> QED
  BY <1>1

(* A set of parts of a finite set has one that contains no other.          *)
LEMMA Smallest ==
  ASSUME NEW S, IsFiniteSet(S), NEW F \in SUBSET (SUBSET S), F # {}
  PROVE  \E s \in F : \A t \in F : ~(t \subseteq s /\ t # s)
<1> DEFINE T == {Cardinality(s) : s \in F}
           R == OpToRel(<, Nat)
<1>1. \A s \in F : IsFiniteSet(s) /\ Cardinality(s) \in Nat
  BY FS_Subset, FS_CardinalityType
<1>2. T \subseteq Nat /\ T # {}
  BY <1>1
<1>3. IsWellFoundedOn(R, Nat)
  BY NatLessThanWellFounded
<1>4. \A m, n \in Nat : m < n => <<m, n>> \in R
  BY DEF OpToRel
<1>5. \A s \in F : Cardinality(s) \in T
  OBVIOUS
<1>6. \A n \in T : \E s \in F : n = Cardinality(s)
  OBVIOUS
<1> HIDE DEF T, R
<1>7. \E n \in T : \A m \in T : ~(<<m, n>> \in R)
  BY ONLY <1>2, <1>3, WFMin
<1>8. PICK n \in T : \A m \in T : ~(<<m, n>> \in R)
  BY <1>7
<1>9. PICK s \in F : n = Cardinality(s)
  BY <1>6
<1>10. ASSUME NEW t \in F, t \subseteq s, t # s
       PROVE  FALSE
  <2>1. IsFiniteSet(s) /\ t \in SUBSET s
    BY <1>1, <1>10
  <2>2. Cardinality(t) <= Cardinality(s) /\ Cardinality(t) # Cardinality(s)
    BY <1>10, <2>1, FS_Subset
  <2>3. Cardinality(t) < n /\ Cardinality(t) \in T
    BY <1>1, <1>5, <1>9, <2>2
  <2> QED
    BY <1>2, <1>4, <1>8, <2>3
<1> QED
  BY <1>10

LEMMA SumsUpAgree ==
  ASSUME NEW S, IsFiniteSet(S), NEW T \in SUBSET S, NEW f, NEW g, NEW h,
         SumsUp(g, f, S), SumsUp(h, f, T), NEW s \in SUBSET T
  PROVE  g[s] = h[s]
<1> DEFINE F == {u \in SUBSET T : g[u] # h[u]}
<1>1. ASSUME NEW u \in F, \A t \in F : ~(t \subseteq u /\ t # u)
      PROVE  FALSE
  <2>1. u \in SUBSET T /\ u \in SUBSET S /\ g[u] # h[u]
    OBVIOUS
  <2>2. g[u] = IF u = {} THEN 0 ELSE f[First(u)] + g[u \ {First(u)}]
    BY <2>1, SumsUpMeans
  <2>3. h[u] = IF u = {} THEN 0 ELSE f[First(u)] + h[u \ {First(u)}]
    BY <2>1, SumsUpMeans
  <2>4. u # {}
    BY <2>1, <2>2, <2>3
  <2>5. First(u) \in u
    BY <2>4, FirstIn
  <2>6. g[u \ {First(u)}] = h[u \ {First(u)}]
    BY <1>1, <2>1, <2>5
  <2> QED
    BY <2>1, <2>2, <2>3, <2>6
<1>2. F \in SUBSET (SUBSET S)
  OBVIOUS
<1> DEFINE D == F
<1> HIDE DEF D
<1>3. D \in SUBSET (SUBSET S) /\ \A u \in D : \E t \in D : t \subseteq u /\ t # u
  BY <1>1, <1>2 DEF D
<1>4. D = {}
  BY <1>3, Smallest
<1> QED
  BY <1>4 DEF D

LEMMA SumsUpExists ==
  ASSUME NEW S, IsFiniteSet(S), NEW f
  PROVE  \E g : SumsUp(g, f, S)
<1> DEFINE F == {u \in SUBSET S : ~\E g : SumsUp(g, f, u)}
           H(t) == CHOOSE g : SumsUp(g, f, t)
<1>1. ASSUME NEW u \in F, \A t \in F : ~(t \subseteq u /\ t # u)
      PROVE  FALSE
  <2> DEFINE G == [s \in SUBSET u |-> IF s = {} THEN 0
                                      ELSE f[First(s)] + H(s \ {First(s)})[s \ {First(s)}]]
  <2>0. IsFiniteSet(u) /\ u \in SUBSET S
    BY FS_Subset
  <2>1. ASSUME NEW t \in SUBSET u, t # u
        PROVE  SumsUp(H(t), f, t)
    <3>1. t \notin F /\ t \in SUBSET S
      BY <1>1, <2>0, <2>1
    <3>2. \E g : SumsUp(g, f, t)
      BY <3>1
    <3> QED
      BY <3>2
  <2> HIDE DEF H
  <2>g. \A s \in SUBSET u : G[s] = IF s = {} THEN 0 ELSE f[First(s)] + H(s \ {First(s)})[s \ {First(s)}]
    OBVIOUS
  <2> HIDE DEF F
  <2>2. ASSUME NEW s \in SUBSET u, s # {}
        PROVE  G[s] = f[First(s)] + G[s \ {First(s)}]
    <3> HIDE DEF G
    <3> DEFINE t == s \ {First(s)}
    <3>1. t \in SUBSET u /\ t # u /\ First(s) \in s
      BY <2>2, FirstIn
    <3>3. G[s] = f[First(s)] + H(t)[t]
      BY <2>g, <2>2
    <3> HIDE DEF t
    <3>4. SumsUp(H(t), f, t) /\ t \in SUBSET t
      BY <2>1, <3>1
    <3>5. H(t)[t] = IF t = {} THEN 0 ELSE f[First(t)] + H(t)[t \ {First(t)}]
      BY <3>4, SumsUpMeans
    <3>2. G[t] = H(t)[t]
      <4>1. CASE t = {}
        BY <2>g, <3>1, <3>5, <4>1
      <4>2. CASE t # {}
        <5> DEFINE r == t \ {First(t)}
        <5>1. r \in SUBSET u /\ r # u /\ r \in SUBSET t /\ r \in SUBSET r
          BY <3>1
        <5>2. G[t] = f[First(t)] + H(r)[r]
          BY <2>g, <3>1, <4>2
        <5>3. H(t)[t] = f[First(t)] + H(t)[r]
          BY <3>5, <4>2
        <5> HIDE DEF r
        <5>4. IsFiniteSet(t)
          BY <2>0, <3>1, FS_Subset
        <5>5. SumsUp(H(r), f, r)
          BY <2>1, <5>1
        <5>6. H(t)[r] = H(r)[r]
          BY <3>4, <5>1, <5>4, <5>5, SumsUpAgree
        <5> QED
          BY <5>2, <5>3, <5>6
      <4> QED
        BY <4>1, <4>2
    <3> QED
      BY <3>2, <3>3 DEF t
  <2>3. G = [s \in SUBSET u |-> IF s = {} THEN 0 ELSE f[First(s)] + G[s \ {First(s)}]]
    <3>1. \A s \in SUBSET u : G[s] = IF s = {} THEN 0 ELSE f[First(s)] + G[s \ {First(s)}]
      <4>1. {} \in SUBSET u => G[{}] = 0
        BY <2>g
      <4> HIDE DEF G
      <4> QED
        BY <2>2, <4>1
    <3>2. DOMAIN G = SUBSET u /\ G = [s \in SUBSET u |-> G[s]]
      OBVIOUS
    <3> HIDE DEF G
    <3> QED
      BY <3>1, <3>2
  <2> HIDE DEF G
  <2>4. SumsUp(G, f, u)
    BY <2>3 DEF SumsUp
  <2> QED
    BY <2>4 DEF F
<1>2. F \in SUBSET (SUBSET S)
  OBVIOUS
<1> DEFINE D == F
<1> HIDE DEF D
<1>3. D \in SUBSET (SUBSET S) /\ \A u \in D : \E t \in D : t \subseteq u /\ t # u
  BY <1>1, <1>2 DEF D
<1>4. D = {}
  BY <1>3, Smallest
<1>5. IsFiniteSet(S) /\ S \notin F
  BY <1>4 DEF D
<1> QED
  BY <1>5

LEMMA SumEmpty == ASSUME NEW f PROVE SumOf(f, {}) = 0
<1>1. PICK g : SumsUp(g, f, {})
  BY SumsUpExists, FS_EmptySet
<1>2. SumsUp(CHOOSE h : SumsUp(h, f, {}), f, {})
  BY <1>1
<1> DEFINE h == CHOOSE h : SumsUp(h, f, {})
<1> HIDE DEF h
<1>3. h[{}] = 0
  BY <1>2, SumsUpMeans DEF h
<1> QED
  BY <1>3, SumIs DEF h

LEMMA SumPick ==
  ASSUME NEW S, IsFiniteSet(S), NEW f, S # {}
  PROVE  SumOf(f, S) = f[First(S)] + SumOf(f, S \ {First(S)})
<1> DEFINE T == S \ {First(S)}
           g == CHOOSE g : SumsUp(g, f, S)
           h == CHOOSE h : SumsUp(h, f, T)
<1>1. T \in SUBSET S /\ IsFiniteSet(T) /\ T \in SUBSET T /\ S \in SUBSET S
  BY FS_Subset
<1>2. SumsUp(g, f, S)
  BY SumsUpExists
<1>3. SumOf(f, S) = g[S]
  BY SumIs
<1> HIDE DEF g
<1>4. g[S] = f[First(S)] + g[T]
  BY <1>1, <1>2, SumsUpMeans
<1> HIDE DEF T
<1>5. SumsUp(h, f, T)
  BY <1>1, SumsUpExists
<1>6. SumOf(f, T) = h[T]
  BY SumIs
<1> HIDE DEF h
<1>7. g[T] = h[T]
  BY <1>1, <1>2, <1>5, SumsUpAgree
<1> QED
  BY <1>3, <1>4, <1>6, <1>7 DEF T

LEMMA SumType ==
  ASSUME NEW S, IsFiniteSet(S), NEW f, \A x \in S : f[x] \in Nat
  PROVE  SumOf(f, S) \in Nat
<1> DEFINE F == {u \in SUBSET S : SumOf(f, u) \notin Nat}
<1>1. ASSUME NEW u \in F, \A t \in F : ~(t \subseteq u /\ t # u)
      PROVE  FALSE
  <2>1. u \in SUBSET S /\ IsFiniteSet(u)
    BY FS_Subset
  <2>2. u # {}
    BY SumEmpty
  <2> DEFINE r == u \ {First(u)}
  <2>3. First(u) \in u
    BY <2>2, FirstIn
  <2>4. SumOf(f, u) = f[First(u)] + SumOf(f, r)
    BY <2>1, <2>2, SumPick
  <2>5. r \in SUBSET S /\ r \subseteq u /\ r # u
    BY <2>1, <2>3
  <2> HIDE DEF r
  <2>6. SumOf(f, r) \in Nat
    BY <1>1, <2>5
  <2>7. f[First(u)] \in Nat
    BY <2>1, <2>3
  <2> QED
    BY <2>4, <2>6, <2>7
<1> DEFINE D == F
<1> HIDE DEF D
<1>2. D \in SUBSET (SUBSET S) /\ \A u \in D : \E t \in D : t \subseteq u /\ t # u
  BY <1>1 DEF D
<1>3. D = {}
  BY <1>2, Smallest
<1> QED
  BY <1>3 DEF D

(* It does not matter which element is taken first.                        *)
LEMMA SumAny ==
  ASSUME NEW S, IsFiniteSet(S), NEW f, \A x \in S : f[x] \in Nat, NEW x \in S
  PROVE  SumOf(f, S) = f[x] + SumOf(f, S \ {x})
<1> DEFINE F == {u \in SUBSET S : \E y \in u :
                   SumOf(f, u) # f[y] + SumOf(f, u \ {y})}
<1>1. ASSUME NEW u \in F, \A t \in F : ~(t \subseteq u /\ t # u)
      PROVE  FALSE
  <2>1. u \in SUBSET S /\ IsFiniteSet(u)
    BY FS_Subset
  <2>2. PICK y \in u : SumOf(f, u) # f[y] + SumOf(f, u \ {y})
    OBVIOUS
  <2>9. ASSUME NEW t \in SUBSET u, t # u, NEW e \in t
        PROVE  SumOf(f, t) = f[e] + SumOf(f, t \ {e})
    <3>1. t \notin F /\ t \in SUBSET S
      BY <1>1, <2>1, <2>9
    <3> QED
      BY <2>9, <3>1
  <2> HIDE DEF F
  <2>3. PICK z : z = First(u)
    OBVIOUS
  <2>4. z \in u
    BY <2>2, <2>3, FirstIn
  <2>5. SumOf(f, u) = f[z] + SumOf(f, u \ {z})
    BY <2>1, <2>2, <2>3, SumPick
  <2>6. y # z
    BY <2>2, <2>5
  <2>7. SumOf(f, u \ {z}) = f[y] + SumOf(f, (u \ {z}) \ {y})
    BY <2>4, <2>6, <2>9
  <2>8. SumOf(f, u \ {y}) = f[z] + SumOf(f, (u \ {y}) \ {z})
    BY <2>4, <2>6, <2>9
  <2>10. PICK r \in SUBSET u : r = (u \ {z}) \ {y} /\ r = (u \ {y}) \ {z}
    OBVIOUS
  <2>11. SumOf(f, r) \in Nat
    <3>1. IsFiniteSet(r) /\ \A e \in r : f[e] \in Nat
      BY <2>1, FS_Subset
    <3> QED
      BY ONLY <3>1, SumType
  <2>12. f[y] \in Nat /\ f[z] \in Nat
    BY <2>1, <2>4
  <2>13. SumOf(f, u \ {z}) = f[y] + SumOf(f, r)
    BY <2>7, <2>10
  <2>14. SumOf(f, u \ {y}) = f[z] + SumOf(f, r)
    BY <2>8, <2>10
  <2> QED
    BY <2>2, <2>5, <2>11, <2>12, <2>13, <2>14
<1> DEFINE D == F
<1> HIDE DEF D
<1>2. D \in SUBSET (SUBSET S) /\ \A u \in D : \E t \in D : t \subseteq u /\ t # u
  BY <1>1 DEF D
<1>3. D = {}
  BY <1>2, Smallest
<1>4. S \notin F
  BY <1>3 DEF D
<1> QED
  BY <1>4

(* A sum grows with its terms.                                             *)
LEMMA SumLess ==
  ASSUME NEW S, IsFiniteSet(S), NEW f, NEW g,
         \A x \in S : f[x] \in Nat /\ g[x] \in Nat /\ f[x] <= g[x]
  PROVE  SumOf(f, S) <= SumOf(g, S)
<1> DEFINE F == {u \in SUBSET S : ~(SumOf(f, u) <= SumOf(g, u))}
<1>1. ASSUME NEW u \in F, \A t \in F : ~(t \subseteq u /\ t # u)
      PROVE  FALSE
  <2>1. u \in SUBSET S /\ IsFiniteSet(u)
    BY FS_Subset
  <2>2. u # {}
    BY SumEmpty
  <2> DEFINE r == u \ {First(u)}
  <2>3. First(u) \in u
    BY <2>2, FirstIn
  <2>4. /\ SumOf(f, u) = f[First(u)] + SumOf(f, r)
        /\ SumOf(g, u) = g[First(u)] + SumOf(g, r)
    BY <2>1, <2>2, SumPick
  <2>5. r \in SUBSET S /\ r \subseteq u /\ r # u /\ IsFiniteSet(r)
    BY <2>1, <2>3, FS_Subset
  <2> HIDE DEF r
  <2>6. SumOf(f, r) <= SumOf(g, r)
    BY <1>1, <2>5
  <2>7. SumOf(f, r) \in Nat /\ SumOf(g, r) \in Nat
    BY <2>5, SumType
  <2>8. f[First(u)] \in Nat /\ g[First(u)] \in Nat /\ f[First(u)] <= g[First(u)]
    BY <2>1, <2>3
  <2> QED
    BY <2>4, <2>6, <2>7, <2>8
<1> DEFINE D == F
<1> HIDE DEF D
<1>2. D \in SUBSET (SUBSET S) /\ \A u \in D : \E t \in D : t \subseteq u /\ t # u
  BY <1>1 DEF D
<1>3. D = {}
  BY <1>2, Smallest
<1> QED
  BY <1>3 DEF D

LEMMA SumZero ==
  ASSUME NEW S, IsFiniteSet(S), NEW f, \A x \in S : f[x] = 0
  PROVE  SumOf(f, S) = 0
<1> DEFINE F == {u \in SUBSET S : SumOf(f, u) # 0}
<1>1. ASSUME NEW u \in F, \A t \in F : ~(t \subseteq u /\ t # u)
      PROVE  FALSE
  <2>1. u \in SUBSET S /\ IsFiniteSet(u)
    BY FS_Subset
  <2>2. u # {}
    BY SumEmpty
  <2> DEFINE r == u \ {First(u)}
  <2>3. First(u) \in u
    BY <2>2, FirstIn
  <2>4. SumOf(f, u) = f[First(u)] + SumOf(f, r)
    BY <2>1, <2>2, SumPick
  <2>5. r \in SUBSET S /\ r \subseteq u /\ r # u
    BY <2>1, <2>3
  <2> HIDE DEF r
  <2>6. SumOf(f, r) = 0
    BY <1>1, <2>5
  <2>7. f[First(u)] = 0
    BY <2>1, <2>3
  <2> QED
    BY <2>4, <2>6, <2>7
<1> DEFINE D == F
<1> HIDE DEF D
<1>2. D \in SUBSET (SUBSET S) /\ \A u \in D : \E t \in D : t \subseteq u /\ t # u
  BY <1>1 DEF D
<1>3. D = {}
  BY <1>2, Smallest
<1> QED
  BY <1>3 DEF D

(* Terms that are zero can be left out.                                    *)
LEMMA SumPart ==
  ASSUME NEW S, IsFiniteSet(S), NEW T \in SUBSET S, NEW f, NEW g,
         \A x \in T : f[x] \in Nat /\ g[x] = f[x], \A x \in S \ T : g[x] = 0
  PROVE  SumOf(g, S) = SumOf(f, T)
<1> DEFINE F == {u \in SUBSET S : SumOf(g, u) # SumOf(f, u \cap T)}
<1>1. ASSUME NEW u \in F, \A t \in F : ~(t \subseteq u /\ t # u)
      PROVE  FALSE
  <2>1. u \in SUBSET S /\ IsFiniteSet(u) /\ IsFiniteSet(u \cap T)
    BY FS_Subset, FS_Intersection
  <2>2. u # {}
    <3>1. SumOf(g, u) # SumOf(f, u \cap T)
      OBVIOUS
    <3> HIDE DEF F
    <3>2. ASSUME u = {}
          PROVE  SumOf(g, u) = 0 /\ SumOf(f, u \cap T) = 0
      <4>1. u \cap T = {}
        BY <3>2
      <4>2. SumOf(g, {}) = 0 /\ SumOf(f, {}) = 0
        BY SumEmpty
      <4> QED
        BY <3>2, <4>1, <4>2
    <3> QED
      BY <3>1, <3>2
  <2>3. PICK x \in u : TRUE
    BY <2>2
  <2> DEFINE r == u \ {x}
  <2>4. r \in SUBSET S /\ r \subseteq u /\ r # u
    BY <2>1
  <2>5. SumOf(g, r) = SumOf(f, r \cap T)
    BY <1>1, <2>4
  <2>6. \A y \in u : g[y] \in Nat
    BY <2>1
  <2>7. SumOf(g, u) = g[x] + SumOf(g, r)
    BY <2>1, <2>6, SumAny
  <2>8. SumOf(g, r) \in Nat
    <3>1. IsFiniteSet(r) /\ \A y \in r : g[y] \in Nat
      BY <2>1, <2>4, <2>6, FS_Subset
    <3> HIDE DEF r
    <3> QED
      BY <3>1, SumType
  <2>9. CASE x \in T
    <3>1. PICK v \in SUBSET T : v = u \cap T
      OBVIOUS
    <3>2. r \cap T = v \ {x} /\ x \in v /\ IsFiniteSet(v) /\ \A y \in v : f[y] \in Nat
      BY <2>1, <2>9, <3>1
    <3>3. SumOf(f, v) = f[x] + SumOf(f, v \ {x})
      BY <3>2, SumAny
    <3> HIDE DEF r
    <3> QED
      BY <2>5, <2>7, <2>9, <3>1, <3>2, <3>3
  <2>10. CASE x \notin T
    <3>1. PICK v \in SUBSET T : v = u \cap T
      OBVIOUS
    <3>2. r \cap T = v /\ g[x] = 0
      BY <2>1, <2>10, <3>1
    <3> HIDE DEF r
    <3>3. SumOf(g, u) = SumOf(f, v)
      BY <2>5, <2>7, <2>8, <3>2
    <3> QED
      BY <3>1, <3>3
  <2> QED
    BY <2>9, <2>10
<1> DEFINE D == F
<1> HIDE DEF D
<1>2. D \in SUBSET (SUBSET S) /\ \A u \in D : \E t \in D : t \subseteq u /\ t # u
  BY <1>1 DEF D
<1>3. D = {}
  BY <1>2, Smallest
<1>4. SumOf(g, S) = SumOf(f, S \cap T) /\ S \cap T = T
  BY <1>3 DEF D
<1> QED
  BY <1>4

----------------------------------------------------------------------------
(* Tables lose entries, names their paths.                                 *)
LEMMA DropIs ==
  ASSUME NEW fun, NEW S
  PROVE  /\ DOMAIN Drop(fun, S) = DOMAIN fun \ S
         /\ \A x \in DOMAIN fun \ S : Drop(fun, S)[x] = fun[x]
BY DEF Drop, Restrict

LEMMA WithoutIs ==
  ASSUME NEW paths, NEW N
  PROVE  /\ DOMAIN Without(paths, N) = Names
         /\ \A n \in Names : Without(paths, N)[n] = IF n \in N THEN NoFile ELSE paths[n]
BY DEF Without

(* A finite set has no more images than elements.                          *)
LEMMA ImagesFew ==
  ASSUME NEW S, IsFiniteSet(S), NEW f
  PROVE  LET T == {f[x] : x \in S}
         IN  /\ IsFiniteSet(T)
             /\ Cardinality(T) \in Nat
             /\ Cardinality(T) <= Cardinality(S)
<1> DEFINE T == {f[x] : x \in S}
           g == [x \in S |-> f[x]]
<1>1. g \in Surjection(S, T)
  BY DEF Surjection
<1>2. IsFiniteSet(T) /\ Cardinality(T) <= Cardinality(S)
  BY <1>1, FS_Surjection
<1> QED
  BY <1>2, FS_CardinalityType

LEMMA NamesAre == \A f \in Files : Name[f] \in Names
BY OffersFinite DEF OffersFinite, Names, Range

LEMMA NamesFinite ==
  /\ IsFiniteSet(Names) /\ Cardinality(Names) \in Nat
  /\ Cardinality(Files) \in Nat
<1>1. Names = {Name[f] : f \in Files}
  BY OffersFinite DEF OffersFinite, Names, Range
<1>2. IsFiniteSet(Names)
  BY <1>1, OffersFinite, ImagesFew DEF OffersFinite
<1> QED
  BY <1>2, OffersFinite, FS_CardinalityType DEF OffersFinite

LEMMA InodesAre == Inodes \subseteq Nat \ {NoFile} /\ NoFile \notin Inodes
<1>1. PICK most \in Nat : most = 2 * Cardinality(Names) + Cardinality(Files)
  BY NamesFinite
<1> QED
  BY <1>1 DEF Inodes, NoFile

----------------------------------------------------------------------------
(* Files.                                                                  *)

(* The inodes of a name: of its two paths, and of the handles writing for  *)
(* it.  t is a table of downloads, p and s are paths of .part and of saved *)
(* files.                                                                  *)
Handles(t, n) == {t[f].inode : f \in {g \in DOMAIN t : Name[g] = n}}
InodesOf(t, p, s, n) == ({p[n], s[n]} \ {NoFile}) \cup Handles(t, n)
UsedIn(t, p, s) ==
  (Range(p) \cup Range(s) \cup {t[f].inode : f \in DOMAIN t}) \ {NoFile}

Paths == [Names -> Inodes \cup {NoFile}]

(* e are the downloads that were taken out of the table, by what is known  *)
(* of their files, c the contents of the inodes.                           *)
FileTypes(t, e, p, s, c) ==
  /\ DOMAIN t \subseteq Files /\ \A f \in DOMAIN t : t[f].inode \in Inodes
  /\ DOMAIN e \subseteq Files
  /\ p \in Paths /\ s \in Paths
  /\ UsedIn(t, p, s) \subseteq DOMAIN c

(* No inode serves two names.                                              *)
OwnInodes(t, p, s) ==
  \A n, m \in Names : n # m => InodesOf(t, p, s, n) \cap InodesOf(t, p, s, m) = {}

(* Of the downloads that could write to a .part file one is not active, or *)
(* it does: there are fewer inodes than paths and downloads.               *)
Openable(t, p) ==
  \A n \in Names : p[n] # NoFile =>
    \E f \in Files : Name[f] = n /\ (f \in DOMAIN t => t[f].inode = p[n])

(* But for the names in h, a name has one download at a time,              *)
Alone(t, e, h) ==
  \A n \in Names \ h :
    /\ \A f, g \in DOMAIN t \cup DOMAIN e : Name[f] = n /\ Name[g] = n => f = g
    /\ \A f \in DOMAIN t \cap DOMAIN e : Name[f] # n

(* which has the .part file of the name, left behind by a restart for the  *)
(* names in o,                                                             *)
Accounted(t, e, p, o, h) ==
  \A n \in Names \ h :
    /\ p[n] # NoFile => n \in o \cup NamesOf(DOMAIN t \cup DOMAIN e)
    /\ \A f \in DOMAIN t : Name[f] = n => p[n] = t[f].inode

(* and which does not write to the file that was saved;                    *)
Apart(t, p, s, h) ==
  \A n \in Names \ h : s[n] # NoFile => s[n] # p[n] /\ s[n] \notin Handles(t, n)

(* what was saved is whole, and so is what is about to be.                 *)
SavedWhole(s, c, h) ==
  \A n \in Names \ h : s[n] # NoFile => \E f \in Files : Name[f] = n /\ c[s[n]] = Whole(f)
StillWhole(e, p, c, h) ==
  \A f \in DOMAIN e : e[f] = "whole" /\ Name[f] \notin h /\ p[Name[f]] # NoFile
                        => c[p[Name[f]]] = Whole(f)

Sound(t, e, p, s, c, o, h) ==
  /\ FileTypes(t, e, p, s, c)
  /\ OwnInodes(t, p, s) /\ Openable(t, p)
  /\ Alone(t, e, h) /\ Accounted(t, e, p, o, h)
  /\ Apart(t, p, s, h)
  /\ SavedWhole(s, c, h) /\ StillWhole(e, p, c, h)

LEMMA UsedOf ==
  ASSUME NEW t, NEW p \in Paths, NEW s \in Paths, DOMAIN t \subseteq Files
  PROVE  /\ \A n \in Names : InodesOf(t, p, s, n) \ {NoFile} \subseteq UsedIn(t, p, s)
         /\ \A n \in Names : p[n] # NoFile => p[n] \in UsedIn(t, p, s)
         /\ \A n \in Names : s[n] # NoFile => s[n] \in UsedIn(t, p, s)
         /\ \A f \in DOMAIN t : t[f].inode # NoFile => t[f].inode \in UsedIn(t, p, s)
         /\ \A i \in UsedIn(t, p, s) : \E n \in Names : i \in InodesOf(t, p, s, n)
<1>1. DOMAIN p = Names /\ DOMAIN s = Names
  BY DEF Paths
<1>2. \A n \in Names : p[n] \in Range(p) /\ s[n] \in Range(s)
  BY <1>1 DEF Range
<1>3. ASSUME NEW i \in UsedIn(t, p, s)
      PROVE  \E n \in Names : i \in InodesOf(t, p, s, n)
  <2>1. CASE i \in Range(p) \cup Range(s)
    <3>1. PICK n \in Names : i = p[n] \/ i = s[n]
      BY <1>1, <2>1 DEF Range
    <3> QED
      BY <1>3, <3>1 DEF UsedIn, InodesOf
  <2>2. CASE i \in {t[f].inode : f \in DOMAIN t}
    <3>1. PICK f \in DOMAIN t : i = t[f].inode
      BY <2>2
    <3>2. Name[f] \in Names
      BY NamesAre
    <3> QED
      BY <3>1, <3>2 DEF InodesOf, Handles
  <2> QED
    BY <1>3, <2>1, <2>2 DEF UsedIn
<1> QED
  BY <1>2, <1>3 DEF UsedIn, InodesOf, Handles

----------------------------------------------------------------------------
(* The changes.                                                            *)

(* Contents of inodes that are not used do not matter.                     *)
LEMMA ContentKept ==
  ASSUME NEW t, NEW e, NEW p, NEW s, NEW c, NEW o, NEW h, Sound(t, e, p, s, c, o, h),
         NEW d, UsedIn(t, p, s) \subseteq DOMAIN d,
         \A i \in UsedIn(t, p, s) : d[i] = c[i]
  PROVE  Sound(t, e, p, s, d, o, h)
<1>1. FileTypes(t, e, p, s, c) /\ FileTypes(t, e, p, s, d)
  BY DEF Sound, FileTypes
<1>2. /\ \A n \in Names : p[n] # NoFile => p[n] \in UsedIn(t, p, s)
      /\ \A n \in Names : s[n] # NoFile => s[n] \in UsedIn(t, p, s)
  BY <1>1, UsedOf DEF FileTypes
<1>3. SavedWhole(s, d, h)
  BY <1>2 DEF Sound, SavedWhole
<1>4. StillWhole(e, p, d, h)
  BY <1>1, <1>2, NamesAre DEF Sound, StillWhole, FileTypes
<1> QED
  BY <1>1, <1>3, <1>4 DEF Sound

LEMMA DiskKeeps ==
  ASSUME NEW t, NEW e, NEW p, NEW s, NEW c, NEW o, NEW h, Sound(t, e, p, s, c, o, h)
  PROVE  Sound(t, e, p, s, Restrict(c, UsedIn(t, p, s) \cap DOMAIN c), o, h)
<1> DEFINE d == Restrict(c, UsedIn(t, p, s) \cap DOMAIN c)
<1>1. UsedIn(t, p, s) \subseteq DOMAIN c
  BY DEF Sound, FileTypes
<1>2. UsedIn(t, p, s) \subseteq DOMAIN d /\ \A i \in UsedIn(t, p, s) : d[i] = c[i]
  BY <1>1 DEF Restrict
<1> HIDE DEF d
<1>3. Sound(t, e, p, s, d, o, h)
  BY <1>2, ContentKept
<1> QED
  BY <1>3 DEF d

(* A name that is shared once stays so.                                    *)
LEMMA MoreShared ==
  ASSUME NEW t, NEW e, NEW p, NEW s, NEW c, NEW o, NEW h, Sound(t, e, p, s, c, o, h),
         NEW k, h \subseteq k
  PROVE  Sound(t, e, p, s, c, o, k)
BY DEF Sound, Alone, Accounted, Apart, SavedWhole, StillWhole

(* A name without a .part file is not left behind.                         *)
LEMMA FewerOrphans ==
  ASSUME NEW t, NEW e, NEW p, NEW s, NEW c, NEW o, NEW h, Sound(t, e, p, s, c, o, h),
         NEW q, \A n \in o \ q : n \in Names => p[n] = NoFile
  PROVE  Sound(t, e, p, s, c, q, h)
BY DEF Sound, Accounted

(* Downloads and verifications end, and the .part files of the names N are *)
(* removed with them.                                                      *)
LEMMA Loses ==
  ASSUME NEW t, NEW e, NEW p, NEW s, NEW c, NEW o, NEW h, Sound(t, e, p, s, c, o, h),
         NEW u, DOMAIN u \subseteq DOMAIN t, \A f \in DOMAIN u : u[f] = t[f],
         NEW g, DOMAIN g \subseteq DOMAIN e,
         \A f \in DOMAIN g : g[f] = "whole" => e[f] = "whole",
         NEW N, NEW q, q = Without(p, N),
         \A f \in (DOMAIN t \ DOMAIN u) \cup (DOMAIN e \ DOMAIN g) : Name[f] \in N,
         \A n \in N \ h : \A f \in DOMAIN u : Name[f] # n
  PROVE  Sound(u, g, q, s, c, o, h)
<1>1. /\ DOMAIN q = Names /\ \A n \in Names : q[n] = IF n \in N THEN NoFile ELSE p[n]
      /\ q = [n \in Names |-> q[n]]
  BY DEF Without
<1>2. FileTypes(t, e, p, s, c)
  BY DEF Sound
<1>3. Range(q) \subseteq Range(p) \cup {NoFile}
  <2>1. DOMAIN p = Names
    BY <1>2 DEF FileTypes, Paths
  <2> QED
    BY <1>1, <2>1 DEF Range
<1>4. q \in Paths
  BY <1>1, <1>2 DEF FileTypes, Paths
<1>5. UsedIn(u, q, s) \subseteq UsedIn(t, p, s)
  BY <1>1, <1>3 DEF UsedIn
<1>6. FileTypes(u, g, q, s, c)
  BY <1>1, <1>2, <1>4, <1>5 DEF FileTypes
<1>7. \A n \in Names : Handles(u, n) \subseteq Handles(t, n)
  BY <1>1 DEF Handles
<1>8. \A n \in Names : InodesOf(u, q, s, n) \subseteq InodesOf(t, p, s, n)
  BY <1>1, <1>7 DEF InodesOf
<1>9. OwnInodes(u, q, s)
  BY <1>8 DEF Sound, OwnInodes
<1>10. Openable(u, q)
  BY <1>1 DEF Sound, Openable
<1>11. Alone(u, g, h)
  BY <1>1 DEF Sound, Alone
<1>12. Accounted(u, g, q, o, h)
  <2> SUFFICES ASSUME NEW n \in Names \ h
               PROVE  /\ q[n] # NoFile => n \in o \cup NamesOf(DOMAIN u \cup DOMAIN g)
                      /\ \A f \in DOMAIN u : Name[f] = n => q[n] = u[f].inode
    BY DEF Accounted
  <2>1. ASSUME q[n] # NoFile, n \notin o
        PROVE  n \in NamesOf(DOMAIN u \cup DOMAIN g)
    <3>1. n \notin N /\ p[n] # NoFile
      BY <1>1, <2>1
    <3>2. PICK f \in DOMAIN t \cup DOMAIN e : Name[f] = n
      BY <2>1, <3>1 DEF Sound, Accounted, NamesOf
    <3>3. f \in DOMAIN u \cup DOMAIN g
      BY <1>1, <3>1, <3>2
    <3> QED
      BY <3>2, <3>3 DEF NamesOf
  <2>2. ASSUME NEW f \in DOMAIN u, Name[f] = n
        PROVE  q[n] = u[f].inode
    <3>1. n \notin N
      BY <1>1, <2>2
    <3>2. p[n] = t[f].inode
      BY <1>1, <2>2 DEF Sound, Accounted
    <3> QED
      BY <1>1, <3>1, <3>2
  <2> QED
    BY <2>1, <2>2
<1>13. Apart(u, q, s, h)
  BY <1>1, <1>7 DEF Sound, Apart
<1>14. StillWhole(g, q, c, h)
  BY <1>1, <1>2, NamesAre DEF Sound, StillWhole, FileTypes
<1>15. SavedWhole(s, c, h)
  BY DEF Sound
<1> QED
  BY <1>6, <1>9, <1>10, <1>11, <1>12, <1>13, <1>14, <1>15 DEF Sound

(* An entry changes, but not its inode.                                    *)
LEMMA SameHandles ==
  ASSUME NEW t, NEW e, NEW p, NEW s, NEW c, NEW o, NEW h, Sound(t, e, p, s, c, o, h),
         NEW u, DOMAIN u = DOMAIN t, \A f \in DOMAIN t : u[f].inode = t[f].inode
  PROVE  Sound(u, e, p, s, c, o, h)
<1>1. \A n \in Names : Handles(u, n) = Handles(t, n)
  BY DEF Handles
<1>2. \A n \in Names : InodesOf(u, p, s, n) = InodesOf(t, p, s, n)
  BY <1>1 DEF InodesOf
<1>3. UsedIn(u, p, s) = UsedIn(t, p, s)
  BY DEF UsedIn
<1>4. FileTypes(u, e, p, s, c)
  BY <1>3 DEF Sound, FileTypes
<1>5. OwnInodes(u, p, s) /\ Openable(u, p)
  BY <1>2 DEF Sound, OwnInodes, Openable
<1>6. Alone(u, e, h) /\ Accounted(u, e, p, o, h) /\ Apart(u, p, s, h)
  BY <1>1 DEF Sound, Alone, Accounted, Apart
<1> QED
  BY <1>4, <1>5, <1>6 DEF Sound

(* Writing to an inode of the name m, which is not that of a file that     *)
(* should be whole.                                                        *)
LEMMA Writes ==
  ASSUME NEW t, NEW e, NEW p, NEW s, NEW c, NEW o, NEW h, Sound(t, e, p, s, c, o, h),
         NEW m \in Names, NEW i \in InodesOf(t, p, s, m),
         m \notin h => i # s[m] /\ \A f \in DOMAIN e : Name[f] # m,
         NEW d, DOMAIN c \subseteq DOMAIN d, \A j \in DOMAIN c \ {i} : d[j] = c[j]
  PROVE  Sound(t, e, p, s, d, o, h)
<1>1. FileTypes(t, e, p, s, c) /\ FileTypes(t, e, p, s, d)
  BY DEF Sound, FileTypes
<1>2. /\ \A n \in Names : p[n] # NoFile => p[n] \in DOMAIN c
      /\ \A n \in Names : s[n] # NoFile => s[n] \in DOMAIN c
  BY <1>1, UsedOf DEF FileTypes
<1>3. ASSUME NEW n \in Names, n # m
      PROVE  /\ s[n] # NoFile => d[s[n]] = c[s[n]]
             /\ p[n] # NoFile => d[p[n]] = c[p[n]]
  <2>1. i \notin InodesOf(t, p, s, n)
    BY <1>3 DEF Sound, OwnInodes
  <2> QED
    BY <1>2, <2>1 DEF InodesOf
<1>4. SavedWhole(s, d, h)
  <2> SUFFICES ASSUME NEW n \in Names \ h, s[n] # NoFile
               PROVE  d[s[n]] = c[s[n]]
    BY DEF Sound, SavedWhole
  <2>1. CASE n = m
    BY <1>2, <2>1
  <2> QED
    BY <1>3, <2>1
<1>5. StillWhole(e, p, d, h)
  <2> SUFFICES ASSUME NEW f \in DOMAIN e, Name[f] \notin h, p[Name[f]] # NoFile
               PROVE  d[p[Name[f]]] = c[p[Name[f]]]
    BY DEF Sound, StillWhole
  <2>1. Name[f] \in Names /\ Name[f] # m
    BY <1>1, NamesAre DEF FileTypes
  <2> QED
    BY <1>3, <2>1
<1> QED
  BY <1>1, <1>4, <1>5 DEF Sound

(* A download of f begins, with the inode i: that of the .part file, or a  *)
(* new one.  Nobody else uses the .part file, or the name is shared.       *)
LEMMA Opens ==
  ASSUME NEW t, NEW e, NEW p, NEW s, NEW c, NEW o, NEW h, Sound(t, e, p, s, c, o, h),
         NEW f \in Files,
         Name[f] \notin h => \A g \in DOMAIN t \cup DOMAIN e : Name[g] # Name[f],
         NEW i \in Inodes,
         \/ i = p[Name[f]]
         \/ p[Name[f]] = NoFile /\ i \notin UsedIn(t, p, s) /\ i \in DOMAIN c,
         i = p[Name[f]] /\ Name[f] \notin h => i # s[Name[f]],
         NEW v, v.inode = i
  PROVE  Sound(Put(t, f, v), e, [p EXCEPT ![Name[f]] = i], s, c, o \ {Name[f]}, h)
<1> DEFINE u == Put(t, f, v)
           q == [p EXCEPT ![Name[f]] = i]
           m == Name[f]
<1>0. FileTypes(t, e, p, s, c)
  BY DEF Sound
<1>1. /\ DOMAIN u = DOMAIN t \cup {f} /\ u[f] = v
      /\ \A g \in DOMAIN t \ {f} : u[g] = t[g]
  BY DEF Put
<1>2. m \in Names
  BY NamesAre
<1>3. i # NoFile
  BY InodesAre
<1>4. /\ DOMAIN p = Names /\ q \in Paths /\ q[m] = i
      /\ \A n \in Names \ {m} : q[n] = p[n]
  BY <1>0, <1>2 DEF FileTypes, Paths
<1> HIDE DEF u, q
<1>5. \A n \in Names \ {m} : Handles(u, n) = Handles(t, n)
  BY <1>1 DEF Handles
<1>6. Handles(u, m) \subseteq Handles(t, m) \cup {i}
  BY <1>1 DEF Handles
<1>7. \A n \in Names \ {m} : InodesOf(u, q, s, n) = InodesOf(t, p, s, n)
  BY <1>4, <1>5 DEF InodesOf
<1>8. InodesOf(u, q, s, m) \subseteq InodesOf(t, p, s, m) \cup {i}
  BY <1>4, <1>6 DEF InodesOf
<1>9. \A n \in Names \ {m} : i \notin InodesOf(t, p, s, n)
  <2>1. CASE i = p[m]
    <3>1. i \in InodesOf(t, p, s, m)
      BY <1>3, <2>1 DEF InodesOf
    <3> QED
      BY <1>2, <3>1 DEF Sound, OwnInodes
  <2>2. CASE i \notin UsedIn(t, p, s)
    BY <1>0, <1>3, <2>2, UsedOf DEF FileTypes
  <2> QED
    BY <2>1, <2>2
<1>10. OwnInodes(u, q, s)
  <2> SUFFICES ASSUME NEW n \in Names, NEW k \in Names, n # k
               PROVE  InodesOf(u, q, s, n) \cap InodesOf(u, q, s, k) = {}
    BY DEF OwnInodes
  <2>1. InodesOf(t, p, s, n) \cap InodesOf(t, p, s, k) = {}
    BY DEF Sound, OwnInodes
  <2>2. CASE n # m /\ k # m
    BY <1>7, <2>1, <2>2
  <2>3. CASE n = m
    BY <1>7, <1>8, <1>9, <2>1, <2>3
  <2>4. CASE k = m
    BY <1>7, <1>8, <1>9, <2>1, <2>4
  <2> QED
    BY <2>2, <2>3, <2>4
<1>11. UsedIn(u, q, s) \subseteq UsedIn(t, p, s) \cup {i}
  <2>1. Range(q) \subseteq Range(p) \cup {i}
    BY <1>2, <1>4 DEF Range, Paths
  <2>2. {u[g].inode : g \in DOMAIN u} \subseteq {t[g].inode : g \in DOMAIN t} \cup {i}
    BY <1>1
  <2> QED
    BY <2>1, <2>2 DEF UsedIn
<1>12. i \in DOMAIN c
  <2>1. CASE i = p[m]
    BY <1>0, <1>2, <1>3, <2>1, UsedOf DEF FileTypes
  <2> QED
    BY <2>1
<1>13. FileTypes(u, e, q, s, c)
  <2>1. DOMAIN u \subseteq Files /\ \A g \in DOMAIN u : u[g].inode \in Inodes
    BY <1>0, <1>1 DEF FileTypes
  <2>2. UsedIn(u, q, s) \subseteq DOMAIN c
    BY <1>0, <1>11, <1>12 DEF FileTypes
  <2> QED
    BY <1>0, <1>4, <2>1, <2>2 DEF FileTypes
<1>14. Openable(u, q)
  <2> SUFFICES ASSUME NEW n \in Names, q[n] # NoFile
               PROVE  \E g \in Files : Name[g] = n /\ (g \in DOMAIN u => u[g].inode = q[n])
    BY DEF Openable
  <2>1. CASE n = m
    BY <1>1, <1>4, <2>1
  <2>2. CASE n # m
    <3>1. PICK g \in Files : Name[g] = n /\ (g \in DOMAIN t => t[g].inode = p[n])
      BY <1>4, <2>2 DEF Sound, Openable
    <3> QED
      BY <1>1, <1>4, <2>2, <3>1
  <2> QED
    BY <2>1, <2>2
<1>15. Alone(u, e, h)
  <2> SUFFICES ASSUME NEW n \in Names \ h
               PROVE  /\ \A g, k \in DOMAIN u \cup DOMAIN e : Name[g] = n /\ Name[k] = n => g = k
                      /\ \A g \in DOMAIN u \cap DOMAIN e : Name[g] # n
    BY DEF Alone
  <2>1. CASE n = m
    BY <1>1, <2>1
  <2>2. CASE n # m
    BY <1>1, <2>2 DEF Sound, Alone
  <2> QED
    BY <2>1, <2>2
<1>16. Accounted(u, e, q, o \ {m}, h)
  <2> SUFFICES ASSUME NEW n \in Names \ h
               PROVE  /\ q[n] # NoFile => n \in (o \ {m}) \cup NamesOf(DOMAIN u \cup DOMAIN e)
                      /\ \A g \in DOMAIN u : Name[g] = n => q[n] = u[g].inode
    BY DEF Accounted
  <2>1. CASE n = m
    BY <1>1, <1>4, <2>1 DEF NamesOf
  <2>2. CASE n # m
    <3>1. /\ p[n] # NoFile => n \in o \cup NamesOf(DOMAIN t \cup DOMAIN e)
          /\ \A g \in DOMAIN t : Name[g] = n => p[n] = t[g].inode
      BY DEF Sound, Accounted
    <3> QED
      BY <1>1, <1>4, <2>2, <3>1 DEF NamesOf
  <2> QED
    BY <2>1, <2>2
<1>17. Apart(u, q, s, h)
  <2> SUFFICES ASSUME NEW n \in Names \ h, s[n] # NoFile
               PROVE  s[n] # q[n] /\ s[n] \notin Handles(u, n)
    BY DEF Apart
  <2>1. s[n] # p[n] /\ s[n] \notin Handles(t, n)
    BY DEF Sound, Apart
  <2>2. CASE n = m
    <3>1. i # s[m]
      BY <1>0, <2>2, UsedOf DEF FileTypes
    <3> QED
      BY <1>4, <1>6, <2>1, <2>2, <3>1
  <2>3. CASE n # m
    BY <1>4, <1>5, <2>1, <2>3
  <2> QED
    BY <2>2, <2>3
<1>18. StillWhole(e, q, c, h)
  <2> SUFFICES ASSUME NEW g \in DOMAIN e, e[g] = "whole", Name[g] \notin h, q[Name[g]] # NoFile
               PROVE  c[q[Name[g]]] = Whole(g)
    BY DEF StillWhole
  <2>1. Name[g] # m /\ Name[g] \in Names
    BY <1>0, NamesAre DEF FileTypes
  <2> QED
    BY <1>4, <2>1 DEF Sound, StillWhole
<1>19. SavedWhole(s, c, h)
  BY DEF Sound
<1>20. Sound(u, e, q, s, c, o \ {m}, h)
  BY <1>10, <1>13, <1>14, <1>15, <1>16, <1>17, <1>18, <1>19 DEF Sound
<1> QED
  BY <1>20 DEF u, q

(* A download ends or fails: it leaves the table, its file stays.          *)
LEMMA Ends ==
  ASSUME NEW t, NEW e, NEW p, NEW s, NEW c, NEW o, NEW h, Sound(t, e, p, s, c, o, h),
         NEW f \in DOMAIN t,
         NEW g, DOMAIN g = DOMAIN e \cup {f},
         \A x \in DOMAIN g : g[x] = "whole" => x \in DOMAIN e /\ e[x] = "whole"
  PROVE  Sound(Drop(t, {f}), g, p, s, c, o, h)
<1> DEFINE u == Drop(t, {f})
<1>0. FileTypes(t, e, p, s, c)
  BY DEF Sound
<1>1. DOMAIN u = DOMAIN t \ {f} /\ \A x \in DOMAIN t \ {f} : u[x] = t[x]
  BY DropIs
<1>2. DOMAIN g = DOMAIN e \cup {f}
  OBVIOUS
<1> HIDE DEF u
<1>3. \A n \in Names : Handles(u, n) \subseteq Handles(t, n)
  BY <1>1 DEF Handles
<1>4. \A n \in Names : InodesOf(u, p, s, n) \subseteq InodesOf(t, p, s, n)
  BY <1>3 DEF InodesOf
<1>5. UsedIn(u, p, s) \subseteq UsedIn(t, p, s)
  BY <1>1 DEF UsedIn
<1>6. FileTypes(u, g, p, s, c)
  BY <1>0, <1>1, <1>2, <1>5 DEF FileTypes
<1>7. OwnInodes(u, p, s)
  BY <1>4 DEF Sound, OwnInodes
<1>8. Openable(u, p)
  BY <1>1 DEF Sound, Openable
<1>9. Alone(u, g, h)
  <2>1. DOMAIN u \cup DOMAIN g = DOMAIN t \cup DOMAIN e
    BY <1>1, <1>2
  <2>2. \A x \in DOMAIN u \cap DOMAIN g : x \in DOMAIN t \cap DOMAIN e
    BY <1>1, <1>2
  <2> QED
    BY <2>1, <2>2 DEF Sound, Alone
<1>10. Accounted(u, g, p, o, h)
  <2>1. DOMAIN u \cup DOMAIN g = DOMAIN t \cup DOMAIN e
    BY <1>1, <1>2
  <2> QED
    BY <1>1, <2>1 DEF Sound, Accounted
<1>11. Apart(u, p, s, h)
  BY <1>3 DEF Sound, Apart
<1>12. StillWhole(g, p, c, h)
  BY DEF Sound, StillWhole
<1>13. Sound(u, g, p, s, c, o, h)
  BY <1>6, <1>7, <1>8, <1>9, <1>10, <1>11, <1>12 DEF Sound
<1> QED
  BY <1>13 DEF u

(* A file is hashed, and only called whole if it is ...                    *)
LEMMA Verifies ==
  ASSUME NEW t, NEW e, NEW p, NEW s, NEW c, NEW o, NEW h, Sound(t, e, p, s, c, o, h),
         NEW f \in DOMAIN e,
         NEW g, DOMAIN g = DOMAIN e,
         \A x \in DOMAIN e \ {f} : g[x] = "whole" => e[x] = "whole",
         g[f] = "whole" => c[p[Name[f]]] = Whole(f)
  PROVE  Sound(t, g, p, s, c, o, h)
<1>1. FileTypes(t, g, p, s, c)
  BY DEF Sound, FileTypes
<1>2. Alone(t, g, h) /\ Accounted(t, g, p, o, h)
  BY DEF Sound, Alone, Accounted
<1>3. StillWhole(g, p, c, h)
  BY DEF Sound, StillWhole
<1> QED
  BY <1>1, <1>2, <1>3 DEF Sound

(* ... and gets its name.                                                  *)
LEMMA Renames ==
  ASSUME NEW t, NEW e, NEW p, NEW s, NEW c, NEW o, NEW h, Sound(t, e, p, s, c, o, h),
         NEW f \in DOMAIN e, e[f] = "whole",
         NEW g, DOMAIN g \subseteq DOMAIN e, DOMAIN e \ {f} \subseteq DOMAIN g,
         \A x \in DOMAIN g : g[x] = "whole" => e[x] = "whole",
         NEW r, r = IF p[Name[f]] = NoFile THEN s ELSE [s EXCEPT ![Name[f]] = p[Name[f]]]
  PROVE  Sound(t, g, Without(p, {Name[f]}), r, c, o, h)
<1> DEFINE q == Without(p, {Name[f]})
           m == Name[f]
<1>0. FileTypes(t, e, p, s, c)
  BY DEF Sound
<1>1. DOMAIN g \subseteq DOMAIN e /\ DOMAIN e \ {f} \subseteq DOMAIN g
  OBVIOUS
<1>2. m \in Names
  BY <1>0, NamesAre DEF FileTypes
<1>3. q = [n \in Names |-> IF n = m THEN NoFile ELSE p[n]]
  BY DEF Without
<1>4. q \in Paths /\ q[m] = NoFile /\ \A n \in Names \ {m} : q[n] = p[n]
  BY <1>0, <1>2, <1>3 DEF FileTypes, Paths
<1>5. /\ r \in Paths /\ r[m] \in {s[m], p[m]} /\ \A n \in Names \ {m} : r[n] = s[n]
      /\ p[m] # NoFile => r[m] = p[m]
      /\ p[m] = NoFile => r[m] = s[m]
  BY <1>0, <1>2 DEF FileTypes, Paths
<1> HIDE DEF q
<1>6. \A n \in Names : InodesOf(t, q, r, n) \subseteq InodesOf(t, p, s, n)
  BY <1>4, <1>5 DEF InodesOf
<1>7. UsedIn(t, q, r) \subseteq UsedIn(t, p, s)
  <2>1. /\ DOMAIN p = Names /\ DOMAIN s = Names /\ DOMAIN q = Names /\ DOMAIN r = Names
    BY <1>0, <1>4, <1>5 DEF FileTypes, Paths
  <2>2. Range(q) \cup Range(r) \subseteq Range(p) \cup Range(s) \cup {NoFile}
    BY <1>2, <1>4, <1>5, <2>1 DEF Range
  <2> QED
    BY <2>2 DEF UsedIn
<1>8. FileTypes(t, g, q, r, c)
  BY <1>0, <1>1, <1>4, <1>5, <1>7 DEF FileTypes
<1>9. OwnInodes(t, q, r)
  BY <1>6 DEF Sound, OwnInodes
<1>10. Openable(t, q)
  BY <1>4 DEF Sound, Openable
<1>11. Alone(t, g, h)
  BY <1>1 DEF Sound, Alone
<1>12. m \notin h => \A x \in DOMAIN t : Name[x] # m
  BY <1>2 DEF Sound, Alone
<1>13. Accounted(t, g, q, o, h)
  <2> SUFFICES ASSUME NEW n \in Names \ h
               PROVE  /\ q[n] # NoFile => n \in o \cup NamesOf(DOMAIN t \cup DOMAIN g)
                      /\ \A x \in DOMAIN t : Name[x] = n => q[n] = t[x].inode
    BY DEF Accounted
  <2>1. CASE n = m
    BY <1>4, <1>12, <2>1
  <2>2. CASE n # m
    BY <1>1, <1>4, <2>2 DEF Sound, Accounted, NamesOf
  <2> QED
    BY <2>1, <2>2
<1>14. Apart(t, q, r, h)
  <2> SUFFICES ASSUME NEW n \in Names \ h, r[n] # NoFile
               PROVE  r[n] # q[n] /\ r[n] \notin Handles(t, n)
    BY DEF Apart
  <2>1. CASE n = m
    <3>1. Handles(t, m) = {}
      BY <1>12, <2>1 DEF Handles
    <3> QED
      BY <1>4, <2>1, <3>1
  <2>2. CASE n # m
    BY <1>4, <1>5, <2>2 DEF Sound, Apart
  <2> QED
    BY <2>1, <2>2
<1>15. SavedWhole(r, c, h)
  <2> SUFFICES ASSUME NEW n \in Names \ h, r[n] # NoFile
               PROVE  \E x \in Files : Name[x] = n /\ c[r[n]] = Whole(x)
    BY DEF SavedWhole
  <2>1. CASE n = m /\ p[m] # NoFile
    <3>1. c[p[m]] = Whole(f) /\ f \in Files
      BY <1>0, <2>1 DEF Sound, StillWhole, FileTypes
    <3> QED
      BY <1>5, <2>1, <3>1
  <2>2. CASE r[n] = s[n]
    BY <2>2 DEF Sound, SavedWhole
  <2> QED
    BY <1>5, <2>1, <2>2
<1>16. StillWhole(g, q, c, h)
  <2> SUFFICES ASSUME NEW x \in DOMAIN g, g[x] = "whole", Name[x] \notin h, q[Name[x]] # NoFile
               PROVE  c[q[Name[x]]] = Whole(x)
    BY DEF StillWhole
  <2>1. Name[x] \in Names /\ Name[x] # m /\ x \in DOMAIN e /\ e[x] = "whole"
    BY <1>0, <1>1, <1>4, NamesAre DEF FileTypes
  <2> QED
    BY <1>4, <2>1 DEF Sound, StillWhole
<1>17. Sound(t, g, q, r, c, o, h)
  BY <1>8, <1>9, <1>10, <1>11, <1>13, <1>14, <1>15, <1>16 DEF Sound
<1> QED
  BY <1>17 DEF q

(* A restart forgets the downloads and leaves the .part files.             *)
LEMMA Restarts ==
  ASSUME NEW t, NEW e, NEW p, NEW s, NEW c, NEW o, NEW h, Sound(t, e, p, s, c, o, h),
         NEW u, NEW g, DOMAIN u = {}, DOMAIN g = {}
  PROVE  Sound(u, g, p, s, c, {n \in Names : p[n] # NoFile}, h)
<1>1. \A n \in Names : Handles(u, n) = {}
  BY DEF Handles
<1>2. \A n \in Names : InodesOf(u, p, s, n) \subseteq InodesOf(t, p, s, n)
  BY <1>1 DEF InodesOf
<1>3. UsedIn(u, p, s) \subseteq UsedIn(t, p, s)
  BY DEF UsedIn
<1>4. FileTypes(u, g, p, s, c)
  BY <1>3 DEF Sound, FileTypes
<1>5. OwnInodes(u, p, s)
  BY <1>2 DEF Sound, OwnInodes
<1>6. Openable(u, p)
  BY DEF Sound, Openable
<1>7. Alone(u, g, h) /\ Accounted(u, g, p, {n \in Names : p[n] # NoFile}, h)
  BY DEF Alone, Accounted
<1>8. Apart(u, p, s, h)
  BY <1>1 DEF Sound, Apart
<1>9. StillWhole(g, p, c, h)
  BY DEF StillWhole
<1> QED
  BY <1>4, <1>5, <1>6, <1>7, <1>8, <1>9 DEF Sound

----------------------------------------------------------------------------
(* The limits.                                                             *)

Entry == [inode : Inodes, total : Nat, written : Nat, cap : Nat, stale : BOOLEAN]
Table(t) == DOMAIN t \in SUBSET Files /\ t \in [DOMAIN t -> Entry]
LimitSet == [file : Nat, budget : Nat, slots : Nat]

(* What each offer is promised, and what it is taken to claim.             *)
Promised(t) == [f \in Files |-> IF f \in DOMAIN t THEN t[f].total ELSE 0]
Claimed(t) == [f \in Files |-> IF f \in DOMAIN t THEN Claim(t[f]) ELSE 0]

Within(t, l) ==
  /\ Table(t) /\ l \in LimitSet
  /\ l.file <= l.budget /\ l.budget <= HardMax
  /\ SumOf(Promised(t), Files) <= l.budget
  /\ \A f \in DOMAIN t : t[f].written <= t[f].cap
  /\ Cardinality(DOMAIN t) <= Concurrent

LEMMA SizesNat ==
  /\ HardMax \in Nat /\ Budget \in Nat /\ FileMax \in Nat /\ PerPeer \in Nat
  /\ PerPeerMax \in Nat /\ Concurrent \in Nat
  /\ \A f \in Files : Meta[f] \in Nat /\ Size[f] \in Nat
  /\ \A n \in Settings : n \in Nat \ {0}
BY SizesAreNat DEF SizesAreNat

LEMMA FilesFinite == IsFiniteSet(Files) /\ \A S \in SUBSET Files : IsFiniteSet(S)
BY OffersFinite, FS_Subset DEF OffersFinite

LEMMA TermsNat ==
  ASSUME NEW t, Table(t)
  PROVE  \A f \in Files : /\ Promised(t)[f] \in Nat /\ Claimed(t)[f] \in Nat
                          /\ Promised(t)[f] <= Claimed(t)[f]
<1> SUFFICES ASSUME NEW f \in Files
             PROVE  /\ Promised(t)[f] \in Nat /\ Claimed(t)[f] \in Nat
                    /\ Promised(t)[f] <= Claimed(t)[f]
  OBVIOUS
<1>1. CASE f \in DOMAIN t
  <2>1. t[f].total \in Nat /\ t[f].written \in Nat
    BY <1>1 DEF Table, Entry
  <2>2. Promised(t)[f] = t[f].total /\ Claimed(t)[f] = Claim(t[f])
    BY <1>1 DEF Promised, Claimed
  <2> QED
    BY <2>1, <2>2 DEF Claim
<1>2. CASE f \notin DOMAIN t
  BY <1>2 DEF Promised, Claimed
<1> QED
  BY <1>1, <1>2

LEMMA SumsNat ==
  ASSUME NEW t, Table(t), NEW S \in SUBSET Files
  PROVE  /\ SumOf(Promised(t), S) \in Nat /\ SumOf(Claimed(t), S) \in Nat
         /\ SumOf(Promised(t), S) <= SumOf(Claimed(t), S)
<1>1. IsFiniteSet(S) /\ \A f \in S : /\ Promised(t)[f] \in Nat /\ Claimed(t)[f] \in Nat
                                     /\ Promised(t)[f] <= Claimed(t)[f]
  BY FilesFinite, TermsNat
<1>2. SumOf(Promised(t), S) \in Nat
  BY <1>1, SumType
<1>3. SumOf(Claimed(t), S) \in Nat
  BY <1>1, SumType
<1>4. SumOf(Promised(t), S) <= SumOf(Claimed(t), S)
  BY <1>1, SumLess
<1> QED
  BY <1>2, <1>3, <1>4

(* Taking the sums apart at f.                                             *)
LEMMA SumsAt ==
  ASSUME NEW t, Table(t), NEW f \in Files
  PROVE  /\ SumOf(Promised(t), Files) = Promised(t)[f] + SumOf(Promised(t), Files \ {f})
         /\ SumOf(Claimed(t), Files) = Claimed(t)[f] + SumOf(Claimed(t), Files \ {f})
<1>1. \A x \in Files : Promised(t)[x] \in Nat /\ Claimed(t)[x] \in Nat
  BY TermsNat
<1>2. SumOf(Promised(t), Files) = Promised(t)[f] + SumOf(Promised(t), Files \ {f})
  BY <1>1, FilesFinite, SumAny
<1>3. SumOf(Claimed(t), Files) = Claimed(t)[f] + SumOf(Claimed(t), Files \ {f})
  BY <1>1, FilesFinite, SumAny
<1> QED
  BY <1>2, <1>3

LEMMA ReservedIs ==
  ASSUME NEW t, Table(t)
  PROVE  Reserved(t) = SumOf(Claimed(t), Files) /\ Reserved(t) \in Nat
<1> DEFINE g == [f \in DOMAIN t |-> Claim(t[f])]
<1>1. \A f \in DOMAIN t : g[f] \in Nat /\ Claimed(t)[f] = g[f]
  <2>1. \A f \in DOMAIN t : Claimed(t)[f] = g[f]
    BY DEF Claimed, Table
  <2> QED
    BY <2>1, TermsNat DEF Table
<1>2. \A f \in Files \ DOMAIN t : Claimed(t)[f] = 0
  BY DEF Claimed
<1>3. DOMAIN t \in SUBSET Files /\ IsFiniteSet(Files)
  BY FilesFinite DEF Table
<1> HIDE DEF g
<1>4. SumOf(Claimed(t), Files) = SumOf(g, DOMAIN t)
  BY <1>1, <1>2, <1>3, SumPart
<1> QED
  BY <1>4, SumsNat DEF Reserved, g

LEMMA DeclaredIs ==
  ASSUME Table(dl)
  PROVE  SumOf([f \in Declared |-> dl[f].total], Declared) = SumOf(Promised(dl), Files)
<1> DEFINE g == [f \in Declared |-> dl[f].total]
<1>1. Declared \in SUBSET Files /\ Declared \subseteq DOMAIN dl
  BY DEF Declared, Active, Table
<1>2. \A f \in Declared : g[f] \in Nat /\ Promised(dl)[f] = g[f]
  <2>1. \A f \in Declared : Promised(dl)[f] = g[f]
    BY <1>1 DEF Promised
  <2> QED
    BY <1>1, <2>1, TermsNat
<1>3. \A f \in Files \ Declared : Promised(dl)[f] = 0
  <2> SUFFICES ASSUME NEW f \in Files \ Declared
               PROVE  Promised(dl)[f] = 0
    OBVIOUS
  <2>1. CASE f \in DOMAIN dl
    <3>1. dl[f].total \in Nat /\ ~(dl[f].total > 0)
      BY <2>1 DEF Table, Entry, Declared, Active
    <3> QED
      BY <2>1, <3>1 DEF Promised
  <2>2. CASE f \notin DOMAIN dl
    BY <2>2 DEF Promised
  <2> QED
    BY <2>1, <2>2
<1> HIDE DEF g
<1>4. SumOf(Promised(dl), Files) = SumOf(g, Declared)
  BY <1>1, <1>2, <1>3, FilesFinite, SumPart
<1> QED
  BY <1>4 DEF g

(* Entries that promise no more.                                           *)
LEMMA PromisesLess ==
  ASSUME NEW t, NEW l, Within(t, l), NEW u, Table(u), DOMAIN u \subseteq DOMAIN t,
         \A f \in DOMAIN u : u[f].total = t[f].total /\ u[f].written <= u[f].cap
  PROVE  Within(u, l)
<1>1. Table(t)
  BY DEF Within
<1>2. \A f \in Files : /\ Promised(u)[f] \in Nat /\ Promised(t)[f] \in Nat
                       /\ Promised(u)[f] <= Promised(t)[f]
  <2> SUFFICES ASSUME NEW f \in Files
               PROVE  Promised(u)[f] <= Promised(t)[f]
    BY <1>1, TermsNat
  <2>1. Promised(u)[f] \in {0, Promised(t)[f]}
    BY DEF Promised
  <2>2. Promised(t)[f] \in Nat
    BY <1>1, TermsNat
  <2> QED
    BY <2>1, <2>2
<1>3. SumOf(Promised(u), Files) <= SumOf(Promised(t), Files)
  BY <1>2, FilesFinite, SumLess
<1>4. SumOf(Promised(u), Files) \in Nat /\ SumOf(Promised(t), Files) \in Nat
  BY <1>1, SumsNat
<1>5. SumOf(Promised(u), Files) <= l.budget
  BY <1>3, <1>4 DEF Within, LimitSet
<1>6. Cardinality(DOMAIN u) <= Concurrent
  <2>1. IsFiniteSet(DOMAIN t) /\ IsFiniteSet(DOMAIN u)
    BY <1>1, FilesFinite DEF Table
  <2>2. Cardinality(DOMAIN u) <= Cardinality(DOMAIN t)
        /\ Cardinality(DOMAIN u) \in Nat /\ Cardinality(DOMAIN t) \in Nat
    BY <2>1, FS_Subset, FS_CardinalityType
  <2> QED
    BY <2>2, SizesNat DEF Within
<1> QED
  BY <1>5, <1>6 DEF Within

LEMMA DropWithin ==
  ASSUME NEW t, NEW l, Within(t, l), NEW S
  PROVE  Within(Drop(t, S), l)
<1> DEFINE u == Drop(t, S)
<1>1. DOMAIN u = DOMAIN t \ S /\ \A f \in DOMAIN t \ S : u[f] = t[f]
  BY DropIs
<1>2. u \in [DOMAIN t \ S -> Entry]
  BY DEF Drop, Restrict, Within, Table
<1> HIDE DEF u
<1>3. Table(u)
  BY <1>1, <1>2 DEF Within, Table
<1>4. Within(u, l)
  BY <1>1, <1>3, PromisesLess DEF Within
<1> QED
  BY <1>4 DEF u

(* A download begins: its claim fits what is left of the budget.           *)
LEMMA PutWithin ==
  ASSUME NEW t, NEW l, Within(t, l), NEW f \in Files, NEW v \in Entry,
         v.written <= v.cap, Reserved(t) + v.total <= l.budget,
         Cardinality(DOMAIN t) < Concurrent
  PROVE  Within(Put(t, f, v), l)
<1> DEFINE u == Put(t, f, v)
<1>0. Table(t)
  BY DEF Within
<1>1. /\ DOMAIN u = DOMAIN t \cup {f} /\ u[f] = v
      /\ \A x \in DOMAIN t \ {f} : u[x] = t[x]
  BY DEF Put
<1>2. u \in [DOMAIN t \cup {f} -> Entry]
  BY <1>0 DEF Put, Table
<1> HIDE DEF u
<1>3. Table(u)
  BY <1>0, <1>1, <1>2 DEF Table
<1>4. \A x \in Files \ {f} : Promised(u)[x] = Promised(t)[x]
  BY <1>1 DEF Promised
<1>5. Promised(u)[f] = v.total /\ v.total \in Nat
  BY <1>1 DEF Promised, Entry
<1>6. SumOf(Promised(u), Files \ {f}) <= SumOf(Claimed(t), Files \ {f})
  <2>1. \A x \in Files \ {f} : /\ Promised(u)[x] \in Nat /\ Claimed(t)[x] \in Nat
                               /\ Promised(u)[x] <= Claimed(t)[x]
    BY <1>0, <1>4, TermsNat
  <2>2. IsFiniteSet(Files \ {f})
    BY FilesFinite
  <2> QED
    BY <2>1, <2>2, SumLess
<1>7. SumOf(Claimed(t), Files \ {f}) <= Reserved(t)
  <2>1. Claimed(t)[f] \in Nat /\ SumOf(Claimed(t), Files \ {f}) \in Nat
    BY <1>0, TermsNat, SumsNat
  <2>2. SumOf(Claimed(t), Files) = Claimed(t)[f] + SumOf(Claimed(t), Files \ {f})
    BY <1>0, SumsAt
  <2> QED
    BY <1>0, <2>1, <2>2, ReservedIs
<1>8. SumOf(Promised(u), Files) = v.total + SumOf(Promised(u), Files \ {f})
  BY <1>3, <1>5, SumsAt
<1>9. /\ SumOf(Promised(u), Files \ {f}) \in Nat /\ SumOf(Claimed(t), Files \ {f}) \in Nat
      /\ Reserved(t) \in Nat /\ l.budget \in Nat
  BY <1>0, <1>3, SumsNat, ReservedIs DEF Within, LimitSet
<1>10. SumOf(Promised(u), Files) <= l.budget
  BY <1>5, <1>6, <1>7, <1>8, <1>9
<1>11. Cardinality(DOMAIN u) <= Concurrent
  <2>1. IsFiniteSet(DOMAIN t) /\ Cardinality(DOMAIN t) \in Nat
    BY <1>0, FilesFinite, FS_CardinalityType DEF Table
  <2>2. Cardinality(DOMAIN t \cup {f}) \in {Cardinality(DOMAIN t), Cardinality(DOMAIN t) + 1}
    BY <2>1, FS_AddElement
  <2>3. Cardinality(DOMAIN u) \in {Cardinality(DOMAIN t), Cardinality(DOMAIN t) + 1}
    BY <1>1, <2>2
  <2> QED
    BY <2>1, <2>3, SizesNat
<1>12. \A x \in DOMAIN u : u[x].written <= u[x].cap
  BY <1>1 DEF Within
<1>13. Within(u, l)
  BY <1>3, <1>10, <1>11, <1>12 DEF Within
<1> QED
  BY <1>13 DEF u

(* A chunk is written, perhaps with the total that was not declared before.*)
LEMMA ChunkWithin ==
  ASSUME NEW t, NEW l, Within(t, l), NEW f \in DOMAIN t, NEW u, Table(u),
         DOMAIN u = DOMAIN t, \A x \in DOMAIN t \ {f} : u[x] = t[x],
         u[f].written <= u[f].cap,
         \/ u[f].total = t[f].total
         \/ t[f].total = 0 /\ Reserved(t) - t[f].written + u[f].total <= l.budget
  PROVE  Within(u, l)
<1>0. Table(t) /\ f \in Files
  BY DEF Within, Table
<1>1. CASE u[f].total = t[f].total
  BY <1>1, PromisesLess DEF Within
<1>2. CASE t[f].total = 0 /\ Reserved(t) - t[f].written + u[f].total <= l.budget
  <2>1. \A x \in Files \ {f} : Promised(u)[x] = Promised(t)[x]
    BY DEF Promised
  <2>2. /\ Promised(u)[f] = u[f].total /\ Claimed(t)[f] = t[f].written
        /\ u[f].total \in Nat /\ t[f].written \in Nat
    BY <1>0, <1>2 DEF Promised, Claimed, Claim, Table, Entry
  <2>3. SumOf(Promised(u), Files \ {f}) <= SumOf(Claimed(t), Files \ {f})
    <3>1. \A x \in Files \ {f} : /\ Promised(u)[x] \in Nat /\ Claimed(t)[x] \in Nat
                                 /\ Promised(u)[x] <= Claimed(t)[x]
      BY <1>0, <2>1, TermsNat
    <3>2. IsFiniteSet(Files \ {f})
      BY FilesFinite
    <3> QED
      BY <3>1, <3>2, SumLess
  <2>4. Reserved(t) = t[f].written + SumOf(Claimed(t), Files \ {f})
    BY <1>0, <2>2, SumsAt, ReservedIs
  <2>5. SumOf(Promised(u), Files) = u[f].total + SumOf(Promised(u), Files \ {f})
    BY <1>0, <2>2, SumsAt
  <2>6. /\ SumOf(Promised(u), Files \ {f}) \in Nat /\ SumOf(Claimed(t), Files \ {f}) \in Nat
        /\ Reserved(t) \in Nat /\ l.budget \in Nat
    BY <1>0, SumsNat, ReservedIs DEF Within, LimitSet
  <2>7. SumOf(Promised(u), Files) <= l.budget
    BY <1>2, <2>2, <2>3, <2>4, <2>5, <2>6
  <2>8. \A x \in DOMAIN u : u[x].written <= u[x].cap
    BY DEF Within
  <2> QED
    BY <2>7, <2>8 DEF Within
<1> QED
  BY <1>1, <1>2

(* The budget only grows, and not beyond the hard maximum.                 *)
LEMMA SettingsWithin ==
  ASSUME NEW t, NEW l, Within(t, l), NEW k \in LimitSet,
         k.file <= k.budget, l.budget <= k.budget, k.budget <= HardMax
  PROVE  Within(t, k)
<1>1. SumOf(Promised(t), Files) \in Nat
  BY SumsNat DEF Within
<1>2. SumOf(Promised(t), Files) <= k.budget
  BY <1>1 DEF Within, LimitSet
<1> QED
  BY <1>2 DEF Within

----------------------------------------------------------------------------
(* The steps.                                                              *)

(* What is known of the files of the downloads out of the table.           *)
Ended == [f \in Finishing \cup GivingUp |->
            IF f \in Finishing THEN fin[f] ELSE "failed"]

DownloadInv ==
  /\ Within(dl, limits)
  /\ Sound(dl, Ended, part, saved, content, orphan, shared)

LEMMA UnionFew ==
  ASSUME NEW S, NEW T, IsFiniteSet(S), IsFiniteSet(T),
         NEW a \in Nat, NEW b \in Nat, Cardinality(S) <= a, Cardinality(T) <= b
  PROVE  IsFiniteSet(S \cup T) /\ Cardinality(S \cup T) <= a + b
<1>1. /\ IsFiniteSet(S \cup T)
      /\ Cardinality(S \cup T) = Cardinality(S) + Cardinality(T) - Cardinality(S \cap T)
  BY FS_Union
<1>2. IsFiniteSet(S \cap T)
  BY FS_Intersection
<1>3. Cardinality(S) \in Nat /\ Cardinality(T) \in Nat /\ Cardinality(S \cap T) \in Nat
  BY <1>2, FS_CardinalityType
<1> QED
  BY <1>1, <1>3

(* There is always an inode for a new file.                                *)
LEMMA InodeFree ==
  ASSUME FileTypes(dl, Ended, part, saved, content), Openable(dl, part), NEW m \in Names
  PROVE  NewInode \in Inodes /\ NewInode \notin Used
<1>1. PICK N \in Nat : N = Cardinality(Names) /\ IsFiniteSet(Names)
  BY NamesFinite
<1>2. PICK F \in Nat : F = Cardinality(Files) /\ IsFiniteSet(Files)
  BY NamesFinite, FilesFinite
<1>3. PICK x \in Files : part[m] # NoFile => (x \in DOMAIN dl => dl[x].inode = part[m])
  <2>1. Files # {}
    BY OffersFinite DEF OffersFinite, Names, Range
  <2> QED
    BY <2>1 DEF Openable
<1>4. PICK y : y = IF part[m] = NoFile THEN dl[x].inode ELSE part[m]
  OBVIOUS
<1>5. PICK h : h = [f \in DOMAIN dl |-> dl[f].inode]
  OBVIOUS
<1> DEFINE A == {part[n] : n \in Names \ {m}}
           B == {saved[n] : n \in Names}
           C == {h[f] : f \in Files \ {x}}
<1>6. IsFiniteSet(Names \ {m}) /\ Cardinality(Names \ {m}) = N - 1 /\ N > 0
  <2>1. IsFiniteSet(Names \ {m}) /\ Cardinality(Names \ {m}) = N - 1
    BY <1>1, FS_RemoveElement
  <2>2. Cardinality(Names \ {m}) \in Nat
    BY <2>1, FS_CardinalityType
  <2> QED
    BY <2>1, <2>2
<1>7. IsFiniteSet(Files \ {x}) /\ Cardinality(Files \ {x}) = F - 1 /\ F > 0
  <2>1. IsFiniteSet(Files \ {x}) /\ Cardinality(Files \ {x}) = F - 1
    BY <1>2, FS_RemoveElement
  <2>2. Cardinality(Files \ {x}) \in Nat
    BY <2>1, FS_CardinalityType
  <2> QED
    BY <2>1, <2>2
<1>8. IsFiniteSet(A) /\ Cardinality(A) <= N - 1
  BY <1>6, ImagesFew
<1>9. IsFiniteSet(B) /\ Cardinality(B) <= N
  BY <1>1, ImagesFew
<1>10. IsFiniteSet(C) /\ Cardinality(C) <= F - 1
  BY <1>7, ImagesFew
<1>11. IsFiniteSet({y}) /\ Cardinality({y}) <= 1
  <2>1. IsFiniteSet({y}) /\ Cardinality({y}) = 1
    BY FS_Singleton
  <2> QED
    BY <2>1
<1>12. Used \subseteq (A \cup B) \cup (C \cup {y})
  <2>1. DOMAIN part = Names /\ DOMAIN saved = Names
    BY DEF FileTypes, Paths
  <2>2. Range(part) \subseteq A \cup {part[m]} /\ Range(saved) \subseteq B
    BY <2>1 DEF Range
  <2>3. part[m] \in {y, NoFile}
    BY <1>4
  <2>4. DOMAIN dl \subseteq Files
    BY DEF FileTypes
  <2>5. \A f \in DOMAIN dl : dl[f].inode \in C \cup {y}
    BY <1>3, <1>4, <1>5, <2>4
  <2> HIDE DEF A, B, C
  <2> QED
    BY <2>2, <2>3, <2>5 DEF Used, Active
<1> HIDE DEF A, B, C
<1>13. IsFiniteSet(A \cup B) /\ Cardinality(A \cup B) <= (N - 1) + N
  <2>1. N - 1 \in Nat
    BY <1>6
  <2> QED
    BY <1>8, <1>9, <2>1, UnionFew
<1>14. IsFiniteSet(C \cup {y}) /\ Cardinality(C \cup {y}) <= (F - 1) + 1
  <2>1. F - 1 \in Nat /\ 1 \in Nat
    BY <1>7
  <2> QED
    BY <1>10, <1>11, <2>1, UnionFew
<1>15. PICK U : U = (A \cup B) \cup (C \cup {y})
  OBVIOUS
<1>16. IsFiniteSet(U) /\ Cardinality(U) <= ((N - 1) + N) + ((F - 1) + 1)
  <2>1. (N - 1) + N \in Nat /\ (F - 1) + 1 \in Nat
    BY <1>6, <1>7
  <2> QED
    BY <1>13, <1>14, <1>15, <2>1, UnionFew
<1>17. IsFiniteSet(Inodes) /\ Cardinality(Inodes) = 2 * N + F
  <2>1. Inodes = 1..(2 * N + F)
    BY <1>1, <1>2 DEF Inodes
  <2>2. 2 * N + F \in Nat /\ 1 <= 2 * N + F + 1
    OBVIOUS
  <2> QED
    BY <2>1, <2>2, FS_Interval
<1>18. ~(Inodes \subseteq U)
  <2>1. Inodes \subseteq U => Cardinality(Inodes) <= Cardinality(U)
    BY <1>16, FS_Subset
  <2>2. Cardinality(U) \in Nat
    BY <1>16, FS_CardinalityType
  <2> QED
    BY <1>6, <1>16, <1>17, <2>1, <2>2
<1>19. \E i \in Inodes : i \notin Used
  BY <1>12, <1>15, <1>18
<1> QED
  BY <1>19 DEF NewInode

(* The inode a download begins with: that of the .part file that is there, *)
(* or a new one.                                                           *)
LEMMA BeginInode ==
  ASSUME DownloadInv, NEW m \in Names
  PROVE  /\ Swept[m] # NoFile => Swept[m] = part[m] /\ part[m] \in Inodes
         /\ Swept[m] = NoFile => NewInode \in Inodes /\ NewInode \notin Used
<1>1. FileTypes(dl, Ended, part, saved, content) /\ Openable(dl, part)
  BY DEF DownloadInv, Sound
<1>2. Swept[m] = IF m \in NamesOf(Stale) THEN NoFile ELSE part[m]
  BY WithoutIs DEF Swept
<1>3. part[m] \in Inodes \cup {NoFile}
  BY <1>1 DEF FileTypes, Paths
<1>4. NewInode \in Inodes /\ NewInode \notin Used
  BY <1>1, InodeFree
<1> QED
  BY <1>2, <1>3, <1>4

LEMMA InitWithin == Init => Within(dl, limits)
<1> SUFFICES ASSUME Init
             PROVE  Within(dl, limits)
  OBVIOUS
<1>1. dl = <<>> /\ DOMAIN dl = {}
  BY DEF Init
<1>2. Table(dl)
  BY <1>1 DEF Table
<1>3. \A f \in Files : Promised(dl)[f] = 0
  BY <1>1 DEF Promised
<1>4. SumOf(Promised(dl), Files) = 0
  BY <1>3, FilesFinite, SumZero
<1>5. /\ limits = [file |-> FileMax, budget |-> Budget, slots |-> PerPeer]
      /\ FileMax <= Budget /\ Budget <= HardMax
  BY LimitsFit DEF Init, LimitsFit
<1>6. limits \in LimitSet
  BY <1>5, SizesNat DEF LimitSet
<1>7. Cardinality(DOMAIN dl) = 0
  BY <1>1, FS_EmptySet
<1> QED
  BY <1>1, <1>2, <1>4, <1>5, <1>6, <1>7, SizesNat DEF Within

LEMMA ConfigureWithin ==
  ASSUME Within(dl, limits), NEW want \in Settings, Configure(want)
  PROVE  Within(dl', limits')
<1>1. /\ want \in Nat /\ HardMax \in Nat /\ PerPeerMax \in Nat /\ Concurrent \in Nat
      /\ limits.file \in Nat /\ limits.budget \in Nat /\ limits.slots \in Nat
      /\ limits.file <= limits.budget /\ limits.budget <= HardMax
      /\ limits = [file |-> limits.file, budget |-> limits.budget, slots |-> limits.slots]
  BY SizesNat DEF Within, LimitSet
<1>2. CASE SetFileMax(want)
  <2>1. PICK wanted : wanted = IF want > limits.budget
                               THEN IF 2 * want < HardMax THEN 2 * want ELSE HardMax
                               ELSE limits.budget
    OBVIOUS
  <2>2. wanted \in Nat /\ limits.budget <= wanted /\ wanted <= HardMax
    BY <1>1, <2>1
  <2>3. PICK file : file = IF want < wanted THEN want ELSE wanted
    OBVIOUS
  <2>4. file \in Nat /\ file <= wanted
    BY <1>1, <2>2, <2>3
  <2>5. limits' = [limits EXCEPT !.budget = wanted, !.file = file]
    BY <1>2, <2>1, <2>3 DEF SetFileMax
  <2>6. limits' = [file |-> file, budget |-> wanted, slots |-> limits.slots]
    BY <1>1, <2>5
  <2>7. limits' \in LimitSet /\ limits'.file = file /\ limits'.budget = wanted
    BY <1>1, <2>2, <2>4, <2>6 DEF LimitSet
  <2>8. Within(dl, limits')
    BY <2>2, <2>4, <2>7, SettingsWithin
  <2> QED
    BY <2>8 DEF Configure
<1>3. CASE SetSlots(want)
  <2>1. PICK need \in Nat : need = want * limits.file
    BY <1>1
  <2>2. PICK wanted : wanted = IF need > limits.budget
                               THEN IF need < HardMax THEN need ELSE HardMax
                               ELSE limits.budget
    OBVIOUS
  <2>3. wanted \in Nat /\ limits.budget <= wanted /\ wanted <= HardMax
    BY <1>1, <2>1, <2>2
  <2>4. PICK most : most = IF PerPeerMax < Concurrent THEN PerPeerMax ELSE Concurrent
    OBVIOUS
  <2>5. PICK slots : slots = IF want < most THEN want ELSE most
    OBVIOUS
  <2>6. slots \in Nat
    BY <1>1, <2>4, <2>5
  <2>7. limits' = [limits EXCEPT !.budget = wanted, !.slots = slots]
    BY <1>3, <2>1, <2>2, <2>4, <2>5 DEF SetSlots
  <2>8. limits' = [file |-> limits.file, budget |-> wanted, slots |-> slots]
    BY <1>1, <2>7
  <2>9. /\ limits' \in LimitSet /\ limits'.file = limits.file /\ limits'.budget = wanted
        /\ limits'.file <= limits'.budget
    BY <1>1, <2>3, <2>6, <2>8 DEF LimitSet
  <2>10. Within(dl, limits')
    BY <2>3, <2>9, SettingsWithin
  <2> QED
    BY <2>10 DEF Configure
<1> QED
  BY <1>2, <1>3 DEF Configure

LEMMA BeginWithin ==
  ASSUME DownloadInv, NEW f \in Files, Begin(f)
  PROVE  Within(dl', limits')
<1>1. Within(Live, limits) /\ Within(dl, limits)
  BY DropWithin DEF DownloadInv, Live
<1>2. limits' = limits
  BY DEF Begin, Click
<1>3. Table(Live) /\ Reserved(Live) \in Nat
  BY <1>1, ReservedIs DEF Within
<1>4. PICK i \in Inodes : dl' = Put(Live, f, [inode |-> i, total |-> Meta[f], written |-> 0,
                                              cap |-> limits.file, stale |-> FALSE])
  <2>1. Name[f] \in Names
    BY NamesAre
  <2>2. (IF Swept[Name[f]] = NoFile THEN NewInode ELSE Swept[Name[f]]) \in Inodes
    BY <2>1, BeginInode
  <2> QED
    BY <2>2 DEF Begin
<1>5. PICK v : v = [inode |-> i, total |-> Meta[f], written |-> 0,
                    cap |-> limits.file, stale |-> FALSE]
  OBVIOUS
<1>6. limits.file \in Nat /\ limits.budget \in Nat /\ Meta[f] \in Nat
  BY <1>1, SizesNat DEF Within, LimitSet
<1>7. v \in Entry /\ v.written <= v.cap /\ v.total = Meta[f]
  BY <1>5, <1>6 DEF Entry
<1>8. Reserved(Live) + Meta[f] <= limits.budget
  <2>1. PICK need \in Claims(f) : Fits(Reserved(Live), need, limits.file)
    BY DEF Begin
  <2>2. Reserved(Live) + need <= limits.budget
    BY <2>1 DEF Fits
  <2>3. need \in Nat /\ Meta[f] <= need
    BY <1>6, <2>1 DEF Claims
  <2> QED
    BY <1>3, <1>6, <2>2, <2>3
<1>9. Cardinality(DOMAIN Live) < Concurrent
  <2>1. ~(Cardinality(DOMAIN Live) >= Concurrent)
    BY DEF Begin, Busy
  <2>2. Cardinality(DOMAIN Live) \in Nat
    BY <1>3, FilesFinite, FS_CardinalityType DEF Table
  <2> QED
    BY <2>1, <2>2, SizesNat
<1>10. Reserved(Live) + v.total <= limits.budget
  BY <1>7, <1>8
<1> HIDE DEF Live
<1>11. Within(Put(Live, f, v), limits)
  BY <1>1, <1>7, <1>9, <1>10, PutWithin
<1> QED
  BY <1>2, <1>4, <1>5, <1>11

LEMMA StallWithin ==
  ASSUME Within(dl, limits), NEW f \in Files, Stall(f)
  PROVE  Within(dl', limits')
<1>1. f \in DOMAIN dl /\ limits' = limits /\ dl' = [dl EXCEPT ![f].stale = TRUE]
  BY DEF Stall, Active
<1>2. Table(dl)
  BY DEF Within
<1>3. /\ DOMAIN dl' = DOMAIN dl /\ \A x \in DOMAIN dl \ {f} : dl'[x] = dl[x]
      /\ dl'[f] = [dl[f] EXCEPT !.stale = TRUE]
      /\ dl' = [x \in DOMAIN dl |-> dl'[x]]
  BY <1>1, <1>2 DEF Table
<1>4. PICK d \in Entry : d = dl[f]
  BY <1>1, <1>2 DEF Table
<1>5. dl'[f] \in Entry /\ dl'[f].total = d.total /\ dl'[f].written = d.written /\ dl'[f].cap = d.cap
  BY <1>3, <1>4 DEF Entry
<1>6. Table(dl')
  BY <1>2, <1>3, <1>5 DEF Table
<1>7. \A x \in DOMAIN dl' : dl'[x].total = dl[x].total /\ dl'[x].written <= dl'[x].cap
  BY <1>3, <1>4, <1>5 DEF Within
<1>8. Within(dl', limits)
  BY <1>3, <1>6, <1>7, PromisesLess
<1> QED
  BY <1>1, <1>8

(* A chunk that keeps the deal stays under the total, and a total declared *)
(* with it fits the budget.                                                *)
ChunkWritten(f, k) ==
  \E total \in Totals(f) :
    /\ f \in Active
    /\ ~Breaks(f, total)
    /\ dl' = [dl EXCEPT ![f].written = @ + 1, ![f].stale = FALSE,
                        ![f].total = IF total > 0 THEN total ELSE @]
    /\ content' = [content EXCEPT ![dl[f].inode] =
                     Written(@, dl[f].written, <<f, stream[f][k] + 1>>)]
    /\ UNCHANGED <<part, saved, disturbances>>

LEMMA ChunkCases ==
  ASSUME NEW f \in Files, NEW k, Chunk(f, k)
  PROVE  /\ UNCHANGED <<limits, asking, giving, fin, clicks, shared, orphan>>
         /\ \/ UNCHANGED <<dl, part, saved, content>>
            \/ f \in Active /\ Abort(f)
            \/ ChunkWritten(f, k)
BY DEF Chunk, ChunkWritten

LEMMA WrittenWithin ==
  ASSUME Within(dl, limits), NEW f \in Files, NEW k, ChunkWritten(f, k)
  PROVE  Within(dl', limits)
<1>1. Table(dl) /\ f \in DOMAIN dl
  BY DEF Within, ChunkWritten, Active
<1>2. PICK total \in Totals(f) :
        /\ ~Breaks(f, total)
        /\ dl' = [dl EXCEPT ![f].written = @ + 1, ![f].stale = FALSE,
                            ![f].total = IF total > 0 THEN total ELSE @]
  BY DEF ChunkWritten
<1>3. PICK d \in Entry : d = dl[f]
  BY <1>1 DEF Table
<1>4. /\ d.total \in Nat /\ d.written \in Nat /\ d.cap \in Nat
      /\ d = [inode |-> d.inode, total |-> d.total, written |-> d.written,
              cap |-> d.cap, stale |-> d.stale]
      /\ d.inode \in Inodes
  BY <1>3 DEF Entry
<1>5. total \in Nat
  BY SizesNat DEF Totals
<1>6. PICK new : new = IF total > 0 THEN total ELSE d.total
  OBVIOUS
<1>7. /\ DOMAIN dl' = DOMAIN dl /\ \A x \in DOMAIN dl \ {f} : dl'[x] = dl[x]
      /\ dl' = [x \in DOMAIN dl |-> dl'[x]]
  BY <1>1, <1>2 DEF Table
<1>8. dl'[f] = [d EXCEPT !.written = d.written + 1, !.stale = FALSE, !.total = new]
  BY <1>1, <1>2, <1>3, <1>6 DEF Table
<1>9. dl'[f] = [inode |-> d.inode, total |-> new, written |-> d.written + 1,
                cap |-> d.cap, stale |-> FALSE]
  BY <1>4, <1>8
<1>10. dl'[f] \in Entry /\ dl'[f].total = new /\ dl'[f].written = d.written + 1
       /\ dl'[f].cap = d.cap
  BY <1>4, <1>5, <1>6, <1>9 DEF Entry
<1>11. Table(dl')
  BY <1>1, <1>7, <1>10 DEF Table
<1>12. dl'[f].written <= dl'[f].cap
  <2>1. ~(d.written + 1 > d.cap)
    BY <1>2, <1>3 DEF Breaks
  <2> QED
    BY <1>4, <1>10, <2>1
<1>13. \/ dl'[f].total = dl[f].total
       \/ dl[f].total = 0 /\ Reserved(dl) - dl[f].written + dl'[f].total <= limits.budget
  <2>1. CASE total > 0 /\ d.total = 0
    <3>1. Fits(Reserved(dl) - d.written, total, d.cap)
      BY <1>2, <1>3, <2>1 DEF Breaks
    <3> QED
      BY <1>3, <1>6, <1>10, <2>1, <3>1 DEF Fits
  <2>2. CASE total > 0 /\ d.total > 0
    <3>1. total = d.total
      BY <1>2, <1>3, <2>2 DEF Breaks
    <3> QED
      BY <1>3, <1>6, <1>10, <2>2, <3>1
  <2>3. CASE ~(total > 0)
    BY <1>3, <1>6, <1>10, <2>3
  <2> QED
    BY <1>4, <2>1, <2>2, <2>3
<1> QED
  BY <1>1, <1>7, <1>11, <1>12, <1>13, ChunkWithin

LEMMA LimitsStep ==
  ASSUME DownloadInv, [Next]_vars
  PROVE  Within(dl', limits')
<1> USE DEF DownloadInv
<1>1. \A S : Within(Drop(dl, S), limits)
  BY DropWithin
<1>2. ASSUME NEW want \in Settings, Configure(want)
      PROVE  Within(dl', limits')
  BY <1>2, ConfigureWithin
<1>3. ASSUME NEW f \in Files, RefuseBusy(f) \/ RefuseCapacity(f)
      PROVE  Within(dl', limits')
  BY <1>1, <1>3 DEF RefuseBusy, RefuseCapacity, Click, Live
<1>4. ASSUME NEW f \in Files, Begin(f)
      PROVE  Within(dl', limits')
  BY <1>4, BeginWithin
<1>5. ASSUME NEW f \in Files, Verify(f) \/ Rename(f) \/ Remove(f)
      PROVE  Within(dl', limits')
  BY <1>5 DEF Verify, Rename, Remove, Settle
<1>6. ASSUME NEW f \in Files, NEW k, Request(f, k) \/ RequestFails(f, k) \/ GiveUp(f, k)
      PROVE  Within(dl', limits')
  BY <1>1, <1>6 DEF Request, RequestFails, GiveUp
<1>7. ASSUME NEW f \in Files, Stall(f)
      PROVE  Within(dl', limits')
  BY <1>7, StallWithin
<1>8. ASSUME NEW f \in Files, NEW k, Chunk(f, k)
      PROVE  Within(dl', limits')
  <2>1. limits' = limits
    BY <1>8, ChunkCases
  <2>2. CASE UNCHANGED <<dl, part, saved, content>>
    BY <2>1, <2>2
  <2>3. CASE f \in Active /\ Abort(f)
    BY <1>1, <2>1, <2>3 DEF Abort
  <2>4. CASE ChunkWritten(f, k)
    BY <2>1, <2>4, WrittenWithin
  <2> QED
    BY <1>8, <2>2, <2>3, <2>4, ChunkCases
<1>9. ASSUME NEW f \in Files, NEW k, LoseChunk(f, k) \/ End(f, k) \/ Error(f, k)
      PROVE  Within(dl', limits')
  BY <1>1, <1>9 DEF LoseChunk, End, Error, Finish
<1>10. CASE Restart
  <2>1. PICK u : u = <<>> /\ DOMAIN u = {}
    <3>1. DOMAIN <<>> = {}
      OBVIOUS
    <3> QED
      BY <3>1
  <2>2. Table(u)
    BY <2>1 DEF Table
  <2>3. Within(u, limits)
    BY <2>1, <2>2, PromisesLess
  <2> QED
    BY <1>10, <2>1, <2>3 DEF Restart
<1>11. CASE UNCHANGED vars
  BY <1>11 DEF vars
<1> QED
  BY <1>2, <1>3, <1>4, <1>5, <1>6, <1>7, <1>8, <1>9, <1>10, <1>11 DEF Next

(* Files.                                                                  *)

FilesOk == Sound(dl, Ended, part, saved, content, orphan, shared)

LEMMA EndedIs ==
  /\ DOMAIN Ended = Finishing \cup GivingUp
  /\ \A f \in DOMAIN Ended : Ended[f] = "whole" <=> f \in Finishing /\ fin[f] = "whole"
BY DEF Ended

LEMMA EndedNext ==
  /\ DOMAIN Ended' = Finishing' \cup GivingUp'
  /\ \A f \in DOMAIN Ended' :
       Ended'[f] = "whole" <=> f \in Finishing' /\ fin'[f] = "whole"
BY DEF Ended

LEMMA EndedKept == ASSUME UNCHANGED <<fin, giving>> PROVE Ended' = Ended
BY DEF Ended, Finishing, GivingUp

LEMMA InitSound == Init => FilesOk
<1> SUFFICES ASSUME Init
             PROVE  FilesOk
  OBVIOUS
<1>1. /\ dl = <<>> /\ fin = <<>> /\ content = <<>> /\ DOMAIN <<>> = {}
      /\ giving = {}
      /\ part = [n \in Names |-> NoFile] /\ saved = [n \in Names |-> NoFile]
  BY DEF Init
<1>2. DOMAIN dl = {} /\ DOMAIN Ended = {}
  BY <1>1 DEF Ended, Finishing, GivingUp
<1>3. \A n \in Names : part[n] = NoFile /\ saved[n] = NoFile
  BY <1>1
<1>4. \A n \in Names : InodesOf(dl, part, saved, n) = {}
  BY <1>2, <1>3 DEF InodesOf, Handles
<1>5. part \in Paths /\ saved \in Paths
  BY <1>1 DEF Paths
<1>6. UsedIn(dl, part, saved) = {}
  BY <1>2, <1>4, <1>5, UsedOf
<1>7. FileTypes(dl, Ended, part, saved, content)
  BY <1>2, <1>5, <1>6 DEF FileTypes
<1>8. OwnInodes(dl, part, saved) /\ Openable(dl, part)
  BY <1>3, <1>4 DEF OwnInodes, Openable
<1>9. /\ Alone(dl, Ended, shared) /\ Accounted(dl, Ended, part, orphan, shared)
      /\ Apart(dl, part, saved, shared)
      /\ SavedWhole(saved, content, shared) /\ StillWhole(Ended, part, content, shared)
  BY <1>2, <1>3 DEF Alone, Accounted, Apart, SavedWhole, StillWhole
<1> QED
  BY <1>7, <1>8, <1>9 DEF FilesOk, Sound

(* What is not used any more is forgotten.                                 *)
LEMMA DiskStep ==
  ASSUME NEW c, Sound(dl', Ended', part', saved', c, orphan', shared'), Disk(c)
  PROVE  FilesOk'
<1>1. content' = Restrict(c, UsedIn(dl', part', saved') \cap DOMAIN c)
  BY DEF Disk, Used, UsedIn, Active
<1>2. Sound(dl', Ended', part', saved', content', orphan', shared')
  BY <1>1, DiskKeeps
<1> QED
  BY <1>2 DEF FilesOk

(* Nobody else uses the .part file of a name that is not shared.           *)
LEMMA OneUser ==
  ASSUME FilesOk, NEW f \in DOMAIN dl \cup DOMAIN Ended, Name[f] \notin shared
  PROVE  /\ \A g \in DOMAIN dl \cup DOMAIN Ended : Name[g] = Name[f] => g = f
         /\ f \notin DOMAIN dl \cap DOMAIN Ended
<1>1. Name[f] \in Names
  BY NamesAre DEF FilesOk, Sound, FileTypes
<1> QED
  BY <1>1 DEF FilesOk, Sound, Alone

LEMMA PurgeSound ==
  ASSUME FilesOk
  PROVE  Sound(Live, Ended, Swept, saved, content, orphan \ NamesOf(Stale), shared)
<1>1. /\ DOMAIN Live = DOMAIN dl \ Stale /\ \A f \in DOMAIN Live : Live[f] = dl[f]
      /\ Stale \subseteq DOMAIN dl
  <2>1. Stale \subseteq DOMAIN dl
    BY DEF Stale, Active
  <2>2. /\ DOMAIN Drop(dl, Stale) = DOMAIN dl \ Stale
        /\ \A f \in DOMAIN dl \ Stale : Drop(dl, Stale)[f] = dl[f]
    BY DropIs
  <2> QED
    BY <2>1, <2>2 DEF Live
<1>2. Swept = Without(part, NamesOf(Stale))
  BY DEF Swept
<1>3. \A f \in DOMAIN dl \ DOMAIN Live : Name[f] \in NamesOf(Stale)
  BY <1>1 DEF NamesOf
<1>4. \A n \in NamesOf(Stale) \ shared : \A f \in DOMAIN Live : Name[f] # n
  <2> SUFFICES ASSUME NEW g \in Stale, Name[g] \notin shared, NEW f \in DOMAIN Live
               PROVE  Name[f] # Name[g]
    BY DEF NamesOf
  <2>1. f # g /\ f \in DOMAIN dl /\ g \in DOMAIN dl
    BY <1>1
  <2> QED
    BY <2>1, OneUser
<1>5. \A n \in orphan \ (orphan \ NamesOf(Stale)) : n \in Names => Swept[n] = NoFile
  BY <1>2, WithoutIs
<1> HIDE DEF Live, Swept, Stale
<1>6. Sound(Live, Ended, Swept, saved, content, orphan, shared)
  <2>1. Sound(dl, Ended, part, saved, content, orphan, shared)
    BY DEF FilesOk
  <2>2. DOMAIN Live \subseteq DOMAIN dl
    BY <1>1
  <2>3. \A f \in (DOMAIN dl \ DOMAIN Live) \cup (DOMAIN Ended \ DOMAIN Ended) :
          Name[f] \in NamesOf(Stale)
    BY <1>3
  <2> QED
    BY <1>1, <1>2, <1>4, <2>1, <2>2, <2>3, Loses
<1> QED
  BY <1>5, <1>6, FewerOrphans

LEMMA AbortSound ==
  ASSUME FilesOk, NEW f \in DOMAIN dl, dl' = Drop(dl, {f}), part' = Without(part, {Name[f]}),
         Disk(content), UNCHANGED <<fin, giving, saved, orphan, shared>>
  PROVE  FilesOk'
<1>1. PICK u : u = Drop(dl, {f})
  OBVIOUS
<1>2. DOMAIN u = DOMAIN dl \ {f} /\ \A x \in DOMAIN u : u[x] = dl[x]
  <2>1. /\ DOMAIN Drop(dl, {f}) = DOMAIN dl \ {f}
        /\ \A x \in DOMAIN dl \ {f} : Drop(dl, {f})[x] = dl[x]
    BY DropIs
  <2> QED
    BY <1>1, <2>1
<1>3. Sound(dl, Ended, part, saved, content, orphan, shared)
  BY DEF FilesOk
<1>4. \A n \in {Name[f]} \ shared : \A x \in DOMAIN u : Name[x] # n
  BY <1>2, OneUser
<1>5. \A x \in (DOMAIN dl \ DOMAIN u) \cup (DOMAIN Ended \ DOMAIN Ended) : Name[x] \in {Name[f]}
  BY <1>2
<1>6. PICK q : q = Without(part, {Name[f]})
  OBVIOUS
<1>7. Sound(u, Ended, q, saved, content, orphan, shared)
  BY <1>2, <1>3, <1>4, <1>5, <1>6, Loses
<1>8. Sound(dl', Ended', part', saved', content, orphan', shared')
  BY <1>1, <1>6, <1>7, EndedKept
<1> QED
  BY <1>8, DiskStep

LEMMA RefuseBusySound ==
  ASSUME FilesOk, NEW f \in Files, RefuseBusy(f)
  PROVE  FilesOk'
<1>1. Sound(Live, Ended, Swept, saved, content, orphan \ NamesOf(Stale), shared)
  BY PurgeSound
<1>2. Sound(dl', Ended', part', saved', content, orphan', shared')
  BY <1>1, EndedKept DEF RefuseBusy, Click
<1>3. Disk(content)
  BY DEF RefuseBusy
<1> QED
  BY <1>2, <1>3, DiskStep

(* The .part file is opened: until the next name the user has it alone, or *)
(* the name is shared.                                                     *)
LEMMA OpenedSound ==
  ASSUME FilesOk, NEW f \in Files, Opened(f)
  PROVE  /\ Sound(Live, Ended, Swept, saved, content, orphan \ NamesOf(Stale), shared')
         /\ Name[f] \notin shared' => \A g \in DOMAIN Live \cup DOMAIN Ended : Name[g] # Name[f]
         /\ Swept[Name[f]] # NoFile /\ Name[f] \notin shared' => Swept[Name[f]] # saved[Name[f]]
<1>1. Sound(Live, Ended, Swept, saved, content, orphan \ NamesOf(Stale), shared)
  BY PurgeSound
<1>2. shared \subseteq shared' /\ (Users(f) # {} => Name[f] \in shared')
  BY DEF Opened
<1>3. Sound(Live, Ended, Swept, saved, content, orphan \ NamesOf(Stale), shared')
  <2> HIDE DEF Live, Swept
  <2> QED
    BY <1>1, <1>2, MoreShared
<1>4. Name[f] \notin shared' => \A g \in DOMAIN Live \cup DOMAIN Ended : Name[g] # Name[f]
  BY <1>2, EndedIs DEF Users
<1>5. Name[f] \in Names
  BY NamesAre
<1>6. ASSUME Swept[Name[f]] # NoFile, Name[f] \notin shared'
      PROVE  Swept[Name[f]] # saved[Name[f]]
  <2>1. Apart(Live, Swept, saved, shared')
    BY <1>3 DEF Sound
  <2> HIDE DEF Live, Swept
  <2> QED
    BY <1>5, <1>6, <2>1 DEF Apart
<1> QED
  BY <1>3, <1>4, <1>6

LEMMA RefuseCapacitySound ==
  ASSUME FilesOk, NEW f \in Files, RefuseCapacity(f)
  PROVE  FilesOk'
<1> DEFINE m == Name[f]
<1>1. PICK p : p = Swept
  OBVIOUS
<1>2. PICK t : t = Live
  OBVIOUS
<1>3. PICK o : o = orphan \ NamesOf(Stale)
  OBVIOUS
<1>4. /\ Sound(t, Ended, p, saved, content, o, shared')
      /\ m \notin shared' => \A g \in DOMAIN t \cup DOMAIN Ended : Name[g] # m
      /\ p[m] # NoFile /\ m \notin shared' => p[m] # saved[m]
  <2>1. Opened(f)
    BY DEF RefuseCapacity
  <2> QED
    BY <1>1, <1>2, <1>3, <2>1, OpenedSound
<1>5. m \in Names
  BY NamesAre
<1>6. PICK d : d = IF p[m] = NoFile THEN content ELSE [content EXCEPT ![p[m]] = <<>>]
  OBVIOUS
<1>7. Sound(t, Ended, p, saved, d, o, shared')
  <2>1. CASE p[m] = NoFile
    BY <1>4, <1>6, <2>1
  <2>2. CASE p[m] # NoFile
    <3>1. p[m] \in InodesOf(t, p, saved, m)
      BY <2>2 DEF InodesOf
    <3>2. m \notin shared' => p[m] # saved[m] /\ \A g \in DOMAIN Ended : Name[g] # m
      BY <1>4, <2>2
    <3>3. DOMAIN content \subseteq DOMAIN d /\ \A j \in DOMAIN content \ {p[m]} : d[j] = content[j]
      BY <1>6, <2>2
    <3> QED
      BY <1>4, <1>5, <3>1, <3>2, <3>3, Writes
  <2> QED
    BY <2>1, <2>2
<1>8. PICK q : q = Without(p, {m})
  OBVIOUS
<1>9. Sound(t, Ended, q, saved, d, o, shared')
  <2>1. \A n \in {m} \ shared' : \A g \in DOMAIN t : Name[g] # n
    BY <1>4
  <2>2. \A g \in (DOMAIN t \ DOMAIN t) \cup (DOMAIN Ended \ DOMAIN Ended) : Name[g] \in {m}
    OBVIOUS
  <2> QED
    BY <1>7, <1>8, <2>1, <2>2, Loses
<1>10. q[m] = NoFile
  BY <1>5, <1>8, WithoutIs
<1>11. Sound(t, Ended, q, saved, d, o \ {m}, shared')
  BY <1>9, <1>10, FewerOrphans
<1>12. /\ dl' = t /\ Ended' = Ended /\ part' = q /\ saved' = saved /\ Disk(d)
       /\ orphan' = o \ {m}
  <2>1. orphan' = orphan \ (NamesOf(Stale) \cup {m})
    BY DEF RefuseCapacity, Opened
  <2>2. orphan' = o \ {m}
    BY <1>3, <2>1
  <2> QED
    BY <1>1, <1>2, <1>6, <1>8, <2>2, EndedKept DEF RefuseCapacity, Click
<1>13. Sound(dl', Ended', part', saved', d, orphan', shared')
  BY <1>11, <1>12
<1> QED
  BY <1>12, <1>13, DiskStep

LEMMA BeginSound ==
  ASSUME DownloadInv, NEW f \in Files, Begin(f)
  PROVE  FilesOk'
<1> DEFINE m == Name[f]
<1>0. FilesOk
  BY DEF DownloadInv, FilesOk
<1>1. PICK p : p = Swept
  OBVIOUS
<1>2. PICK t : t = Live
  OBVIOUS
<1>3. PICK o : o = orphan \ NamesOf(Stale)
  OBVIOUS
<1>4. /\ Sound(t, Ended, p, saved, content, o, shared')
      /\ m \notin shared' => \A g \in DOMAIN t \cup DOMAIN Ended : Name[g] # m
      /\ p[m] # NoFile /\ m \notin shared' => p[m] # saved[m]
  <2>1. Opened(f)
    BY DEF Begin
  <2> QED
    BY <1>0, <1>1, <1>2, <1>3, <2>1, OpenedSound
<1>5. m \in Names
  BY NamesAre
<1>6. PICK i : i = IF p[m] = NoFile THEN NewInode ELSE p[m]
  OBVIOUS
<1>7. /\ i \in Inodes
      /\ p[m] = NoFile => i \notin Used
      /\ p[m] # NoFile => i = p[m]
  BY <1>1, <1>5, <1>6, BeginInode
<1>8. PICK v : v = [inode |-> i, total |-> Meta[f], written |-> 0,
                    cap |-> limits.file, stale |-> FALSE]
  OBVIOUS
<1>9. PICK d : d = Put(content, i, <<>>)
  OBVIOUS
<1>10. /\ DOMAIN d = DOMAIN content \cup {i}
       /\ \A j \in DOMAIN content \ {i} : d[j] = content[j]
  BY <1>9 DEF Put
<1>11. ASSUME p[m] = NoFile
       PROVE  i \notin UsedIn(t, p, saved)
  <2>1. DOMAIN t \subseteq DOMAIN dl /\ \A g \in DOMAIN t : t[g] = dl[g]
    <3>1. /\ DOMAIN Drop(dl, Stale) = DOMAIN dl \ Stale
          /\ \A g \in DOMAIN dl \ Stale : Drop(dl, Stale)[g] = dl[g]
      BY DropIs
    <3> QED
      BY <1>2, <3>1 DEF Live
  <2>2. Range(p) \subseteq Range(part) \cup {NoFile}
    <3>1. DOMAIN part = Names
      BY <1>0 DEF FilesOk, Sound, FileTypes, Paths
    <3>2. /\ DOMAIN p = Names
          /\ \A n \in Names : p[n] = IF n \in NamesOf(Stale) THEN NoFile ELSE part[n]
      BY <1>1, WithoutIs DEF Swept
    <3> QED
      BY <3>1, <3>2 DEF Range
  <2>3. {t[g].inode : g \in DOMAIN t} \subseteq {dl[g].inode : g \in DOMAIN dl}
    BY <2>1
  <2>4. UsedIn(t, p, saved) \subseteq Used
    BY <2>2, <2>3 DEF UsedIn, Used, Active
  <2> QED
    BY <1>7, <1>11, <2>4
<1>12. Sound(t, Ended, p, saved, d, o, shared')
  <2>1. CASE p[m] = NoFile
    <3>1. UsedIn(t, p, saved) \subseteq DOMAIN content
      BY <1>4 DEF Sound, FileTypes
    <3>2. /\ UsedIn(t, p, saved) \subseteq DOMAIN d
          /\ \A j \in UsedIn(t, p, saved) : d[j] = content[j]
      BY <1>10, <1>11, <2>1, <3>1
    <3> QED
      BY <1>4, <3>2, ContentKept
  <2>2. CASE p[m] # NoFile
    <3>1. i \in InodesOf(t, p, saved, m)
      BY <1>7, <2>2 DEF InodesOf
    <3>2. m \notin shared' => i # saved[m] /\ \A g \in DOMAIN Ended : Name[g] # m
      BY <1>4, <1>7, <2>2
    <3>3. DOMAIN content \subseteq DOMAIN d
      BY <1>10
    <3> QED
      BY <1>4, <1>5, <1>10, <3>1, <3>2, <3>3, Writes
  <2> QED
    BY <2>1, <2>2
<1>13. Sound(Put(t, f, v), Ended, [p EXCEPT ![m] = i], saved, d, o \ {m}, shared')
  <2>1. m \notin shared' => \A g \in DOMAIN t \cup DOMAIN Ended : Name[g] # m
    BY <1>4
  <2>2. \/ i = p[m]
        \/ p[m] = NoFile /\ i \notin UsedIn(t, p, saved) /\ i \in DOMAIN d
    BY <1>7, <1>10, <1>11
  <2>3. i = p[m] /\ m \notin shared' => i # saved[m]
    BY <1>4, <1>7, InodesAre
  <2>4. v.inode = i
    BY <1>8
  <2> QED
    BY <1>7, <1>12, <2>1, <2>2, <2>3, <2>4, Opens
<1>14. /\ dl' = Put(t, f, v) /\ Ended' = Ended /\ part' = [p EXCEPT ![m] = i]
       /\ saved' = saved /\ Disk(d) /\ orphan' = o \ {m}
  <2>1. orphan' = orphan \ (NamesOf(Stale) \cup {m})
    BY DEF Begin, Opened
  <2>2. orphan' = o \ {m}
    BY <1>3, <2>1
  <2> QED
    BY <1>1, <1>2, <1>6, <1>8, <1>9, <2>2, EndedKept DEF Begin, Click
<1>15. Sound(dl', Ended', part', saved', d, orphan', shared')
  BY <1>13, <1>14
<1> QED
  BY <1>14, <1>15, DiskStep

LEMMA WrittenSound ==
  ASSUME FilesOk, NEW f \in Files, NEW k, ChunkWritten(f, k),
         UNCHANGED <<fin, giving, orphan, shared>>
  PROVE  FilesOk'
<1>1. f \in DOMAIN dl
  BY DEF ChunkWritten, Active
<1>2. DOMAIN dl' = DOMAIN dl /\ \A x \in DOMAIN dl : dl'[x].inode = dl[x].inode
  BY <1>1 DEF ChunkWritten
<1>3. PICK u : u = dl'
  OBVIOUS
<1>4. Sound(u, Ended, part, saved, content, orphan, shared)
  BY <1>2, <1>3, SameHandles DEF FilesOk
<1>5. PICK m \in Names : m = Name[f]
  BY NamesAre
<1>6. PICK i : i = u[f].inode
  OBVIOUS
<1>7. i \in Handles(u, m) /\ i \in InodesOf(u, part, saved, m) /\ i # NoFile
  <2>1. i \in Handles(u, m) /\ i \in InodesOf(u, part, saved, m)
    BY <1>1, <1>2, <1>3, <1>5, <1>6 DEF Handles, InodesOf
  <2>2. i \in Inodes
    BY <1>1, <1>2, <1>3, <1>4, <1>6 DEF Sound, FileTypes
  <2> QED
    BY <2>1, <2>2, InodesAre
<1>8. m \notin shared => i # saved[m] /\ \A x \in DOMAIN Ended : Name[x] # m
  <2>1. m \notin shared => i # saved[m]
    BY <1>4, <1>7 DEF Sound, Apart
  <2>2. m \notin shared => \A x \in DOMAIN Ended : Name[x] # m
    BY <1>1, <1>5, OneUser
  <2> QED
    BY <2>1, <2>2
<1>9. PICK d : d = content'
  OBVIOUS
<1>10. DOMAIN content \subseteq DOMAIN d /\ \A j \in DOMAIN content \ {i} : d[j] = content[j]
  BY <1>1, <1>2, <1>3, <1>6, <1>9 DEF ChunkWritten
<1>11. Sound(u, Ended, part, saved, d, orphan, shared)
  BY <1>4, <1>7, <1>8, <1>10, Writes
<1>12. part' = part /\ saved' = saved
  BY DEF ChunkWritten
<1> QED
  BY <1>3, <1>9, <1>11, <1>12, EndedKept DEF FilesOk

(* A download that ends, fails or is given up leaves the table; nothing    *)
(* new is known of any file.                                               *)
LEMMA LeavesSound ==
  ASSUME FilesOk, NEW f \in DOMAIN dl, dl' = Drop(dl, {f}),
         Finishing' \cup GivingUp' = Finishing \cup GivingUp \cup {f},
         \A x \in Finishing' : fin'[x] = "whole" =>
            x \in Finishing /\ fin[x] = "whole",
         Disk(content), UNCHANGED <<part, saved, orphan, shared>>
  PROVE  FilesOk'
<1>1. PICK g : g = Ended'
  OBVIOUS
<1>2. DOMAIN g = DOMAIN Ended \cup {f}
  BY <1>1, EndedIs, EndedNext
<1>3. \A x \in DOMAIN g : g[x] = "whole" => x \in DOMAIN Ended /\ Ended[x] = "whole"
  BY <1>1, EndedIs, EndedNext
<1>4. Sound(Drop(dl, {f}), g, part, saved, content, orphan, shared)
  BY <1>2, <1>3, Ends DEF FilesOk
<1>5. Sound(dl', Ended', part', saved', content, orphan', shared')
  BY <1>1, <1>4
<1> QED
  BY <1>5, DiskStep

LEMMA FinishSound ==
  ASSUME FilesOk, NEW f \in Files, NEW k, NEW outcome, outcome # "whole", Finish(f, k, outcome)
  PROVE  FilesOk'
<1>1. UNCHANGED <<giving, part, saved, orphan, shared>>
  BY DEF Finish
<1>2. CASE f \in Active
  <2>1. dl' = Drop(dl, {f}) /\ fin' = Put(fin, f, outcome) /\ Disk(content)
    BY <1>2 DEF Finish
  <2>2. /\ DOMAIN fin' = DOMAIN fin \cup {f} /\ fin'[f] = outcome
        /\ \A x \in DOMAIN fin \ {f} : fin'[x] = fin[x]
    BY <2>1 DEF Put
  <2>3. \A x \in Finishing' : fin'[x] = "whole" =>
           x \in Finishing /\ fin[x] = "whole"
    BY <2>2 DEF Finishing
  <2>4. Finishing' \cup GivingUp' = Finishing \cup GivingUp \cup {f}
    BY <1>1, <2>2 DEF Finishing, GivingUp
  <2>5. f \in DOMAIN dl
    BY <1>2 DEF Active
  <2> QED
    BY <1>1, <2>1, <2>3, <2>4, <2>5, LeavesSound
<1>3. CASE f \notin Active
  <2>1. UNCHANGED <<dl, fin, giving, content>>
    BY <1>1, <1>3 DEF Finish
  <2> QED
    BY <1>1, <2>1, EndedKept DEF FilesOk
<1> QED
  BY <1>2, <1>3

LEMMA VerifySound ==
  ASSUME FilesOk, NEW f \in Files, Verify(f)
  PROVE  FilesOk'
<1>1. /\ UNCHANGED <<dl, giving, part, saved, content, orphan, shared>>
      /\ f \in Finishing /\ f \in DOMAIN Ended
  BY EndedIs DEF Verify
<1>2. /\ DOMAIN fin' = DOMAIN fin
      /\ \A x \in DOMAIN fin \ {f} : fin'[x] = fin[x]
      /\ fin'[f] = "whole" => Good(f)
  BY <1>1 DEF Verify, Finishing
<1>3. PICK g : g = Ended'
  OBVIOUS
<1>4. /\ DOMAIN g = DOMAIN Ended
      /\ \A x \in DOMAIN Ended \ {f} : g[x] = "whole" => Ended[x] = "whole"
      /\ g[f] = "whole" => Good(f)
  <2>1. Finishing' = Finishing /\ GivingUp' = GivingUp
    BY <1>1, <1>2 DEF Finishing, GivingUp
  <2>2. DOMAIN g = DOMAIN Ended
    BY <1>3, <2>1, EndedIs, EndedNext
  <2>3. \A x \in DOMAIN g : g[x] = "whole" => x \in Finishing /\ fin'[x] = "whole"
    BY <1>3, <2>1, EndedNext
  <2>4. \A x \in DOMAIN Ended \ {f} : g[x] = "whole" => Ended[x] = "whole"
    BY <1>2, <2>2, <2>3, EndedIs DEF Finishing
  <2> QED
    BY <1>1, <1>2, <2>2, <2>3, <2>4
<1>5. g[f] = "whole" => content[part[Name[f]]] = Whole(f)
  BY <1>4 DEF Good
<1>6. Sound(dl, g, part, saved, content, orphan, shared)
  BY <1>1, <1>4, <1>5, Verifies DEF FilesOk
<1> QED
  BY <1>1, <1>3, <1>6 DEF FilesOk

(* The file of a download out of the table is removed, with or without     *)
(* another still to come.                                                  *)
LEMMA RemovedSound ==
  ASSUME FilesOk, NEW f \in DOMAIN Ended, part' = Without(part, {Name[f]}),
         DOMAIN Ended' \subseteq DOMAIN Ended, DOMAIN Ended \ {f} \subseteq DOMAIN Ended',
         \A x \in DOMAIN Ended' : Ended'[x] = "whole" => Ended[x] = "whole",
         Disk(content), UNCHANGED <<dl, saved, orphan, shared>>
  PROVE  FilesOk'
<1>1. PICK g : g = Ended'
  OBVIOUS
<1>2. PICK q : q = Without(part, {Name[f]})
  OBVIOUS
<1>3. \A x \in (DOMAIN dl \ DOMAIN dl) \cup (DOMAIN Ended \ DOMAIN g) : Name[x] \in {Name[f]}
  BY <1>1
<1>4. \A n \in {Name[f]} \ shared : \A x \in DOMAIN dl : Name[x] # n
  BY OneUser
<1>5. Sound(dl, g, q, saved, content, orphan, shared)
  BY <1>1, <1>2, <1>3, <1>4, Loses DEF FilesOk
<1>6. Sound(dl', Ended', part', saved', content, orphan', shared')
  BY <1>1, <1>2, <1>5
<1> QED
  BY <1>6, DiskStep

(* What is taken out of the finished downloads or of the Saves given up.   *)
LEMMA SettlesEnded ==
  ASSUME NEW f \in Finishing, fin' = Drop(fin, {f}), UNCHANGED giving
  PROVE  /\ f \in DOMAIN Ended
         /\ DOMAIN Ended' \subseteq DOMAIN Ended /\ DOMAIN Ended \ {f} \subseteq DOMAIN Ended'
         /\ \A x \in DOMAIN Ended' : Ended'[x] = "whole" => Ended[x] = "whole"
<1>1. /\ DOMAIN fin' = DOMAIN fin \ {f}
      /\ \A x \in DOMAIN fin \ {f} : fin'[x] = fin[x]
  <2>1. /\ DOMAIN Drop(fin, {f}) = DOMAIN fin \ {f}
        /\ \A x \in DOMAIN fin \ {f} : Drop(fin, {f})[x] = fin[x]
    BY DropIs
  <2> QED
    BY <2>1
<1> QED
  BY <1>1, EndedIs, EndedNext DEF Finishing, GivingUp

LEMMA RemoveSound ==
  ASSUME FilesOk, NEW f \in Files, Remove(f)
  PROVE  FilesOk'
<1>1. /\ f \in Finishing /\ fin' = Drop(fin, {f}) /\ UNCHANGED giving
      /\ part' = Without(part, {Name[f]})
      /\ Disk(content) /\ UNCHANGED <<dl, saved, orphan, shared>>
  BY DEF Remove, Settle
<1>2. /\ f \in DOMAIN Ended
      /\ DOMAIN Ended' \subseteq DOMAIN Ended /\ DOMAIN Ended \ {f} \subseteq DOMAIN Ended'
      /\ \A x \in DOMAIN Ended' : Ended'[x] = "whole" => Ended[x] = "whole"
  BY <1>1, SettlesEnded
<1> QED
  BY <1>1, <1>2, RemovedSound

LEMMA GiveUpSound ==
  ASSUME FilesOk, NEW f \in Files, NEW k \in Saves(f), GiveUp(f, k)
  PROVE  FilesOk'
<1>1. /\ <<f, k>> \in giving /\ giving' = giving \ {<<f, k>>} /\ UNCHANGED fin
      /\ part' = Without(part, {Name[f]})
      /\ Disk(content) /\ UNCHANGED <<dl, saved, orphan, shared>>
  BY DEF GiveUp
<1>2. f \in GivingUp /\ GivingUp' \subseteq GivingUp /\ GivingUp \ {f} \subseteq GivingUp'
  BY <1>1 DEF GivingUp
<1>3. /\ f \in DOMAIN Ended
      /\ DOMAIN Ended' \subseteq DOMAIN Ended /\ DOMAIN Ended \ {f} \subseteq DOMAIN Ended'
      /\ \A x \in DOMAIN Ended' : Ended'[x] = "whole" => Ended[x] = "whole"
  BY <1>1, <1>2, EndedIs, EndedNext DEF Finishing
<1> QED
  BY <1>1, <1>3, RemovedSound

LEMMA RenameSound ==
  ASSUME FilesOk, NEW f \in Files, Rename(f)
  PROVE  FilesOk'
<1>1. /\ f \in Finishing /\ fin[f] = "whole"
      /\ fin' = Drop(fin, {f}) /\ UNCHANGED giving
      /\ part' = Without(part, {Name[f]})
      /\ Disk(content) /\ UNCHANGED <<dl, orphan, shared>>
  BY DEF Rename, Settle
<1>2. PICK r : r = saved'
  OBVIOUS
<1>3. r = IF part[Name[f]] = NoFile THEN saved
          ELSE [saved EXCEPT ![Name[f]] = part[Name[f]]]
  BY <1>2 DEF Rename
<1>4. PICK g : g = Ended'
  OBVIOUS
<1>5. /\ f \in DOMAIN Ended /\ Ended[f] = "whole"
      /\ DOMAIN g \subseteq DOMAIN Ended /\ DOMAIN Ended \ {f} \subseteq DOMAIN g
      /\ \A x \in DOMAIN g : g[x] = "whole" => Ended[x] = "whole"
  BY <1>1, <1>4, SettlesEnded, EndedIs
<1>6. Sound(dl, g, Without(part, {Name[f]}), r, content, orphan, shared)
  BY <1>3, <1>5, Renames DEF FilesOk
<1>7. Sound(dl', Ended', part', saved', content, orphan', shared')
  BY <1>1, <1>2, <1>4, <1>6
<1> QED
  BY <1>1, <1>7, DiskStep

LEMMA RestartSound ==
  ASSUME FilesOk, Restart
  PROVE  FilesOk'
<1>1. PICK u : u = dl'
  OBVIOUS
<1>2. PICK g : g = Ended'
  OBVIOUS
<1>3. dl' = <<>> /\ fin' = <<>> /\ giving' = {} /\ DOMAIN <<>> = {}
  BY DEF Restart
<1>4. DOMAIN u = {} /\ DOMAIN g = {}
  BY <1>1, <1>2, <1>3, EndedNext DEF Finishing, GivingUp
<1>5. Sound(u, g, part, saved, content, {n \in Names : part[n] # NoFile}, shared)
  BY <1>4, Restarts DEF FilesOk
<1>6. Sound(dl', Ended', part', saved', content, orphan', shared')
  BY <1>1, <1>2, <1>5 DEF Restart
<1>7. Disk(content)
  BY DEF Restart
<1> QED
  BY <1>6, <1>7, DiskStep

LEMMA RequestFailsSound ==
  ASSUME FilesOk, NEW f \in Files, NEW k \in Saves(f), RequestFails(f, k)
  PROVE  FilesOk'
<1>1. /\ UNCHANGED <<fin, part, saved, orphan, shared>> /\ Disk(content)
      /\ dl' = Drop(dl, {f})
  BY DEF RequestFails
<1>2. CASE f \in Active
  <2>1. f \in DOMAIN dl /\ giving' = giving \cup {<<f, k>>}
    BY <1>2 DEF RequestFails, Active
  <2>2. Finishing' \cup GivingUp' = Finishing \cup GivingUp \cup {f}
    BY <1>1, <2>1 DEF Finishing, GivingUp
  <2>3. \A x \in Finishing' : fin'[x] = "whole" =>
           x \in Finishing /\ fin[x] = "whole"
    BY <1>1 DEF Finishing
  <2> QED
    BY <1>1, <2>1, <2>2, <2>3, LeavesSound
<1>3. CASE f \notin Active
  <2>1. PICK u : u = Drop(dl, {f})
    OBVIOUS
  <2>2. DOMAIN u = DOMAIN dl /\ \A x \in DOMAIN dl : u[x].inode = dl[x].inode
    <3>1. /\ DOMAIN Drop(dl, {f}) = DOMAIN dl \ {f}
          /\ \A x \in DOMAIN dl \ {f} : Drop(dl, {f})[x] = dl[x]
      BY DropIs
    <3> QED
      BY <1>3, <2>1, <3>1 DEF Active
  <2>3. Sound(u, Ended, part, saved, content, orphan, shared)
    BY <2>2, SameHandles DEF FilesOk
  <2>4. Ended' = Ended
    BY <1>1, <1>3, EndedKept DEF RequestFails
  <2>5. Sound(dl', Ended', part', saved', content, orphan', shared')
    BY <1>1, <2>1, <2>3, <2>4
  <2> QED
    BY <1>1, <2>5, DiskStep
<1> QED
  BY <1>2, <1>3

LEMMA StallSound ==
  ASSUME FilesOk, NEW f \in Files, Stall(f)
  PROVE  FilesOk'
<1>1. PICK u : u = dl'
  OBVIOUS
<1>2. DOMAIN u = DOMAIN dl /\ \A x \in DOMAIN dl : u[x].inode = dl[x].inode
  BY <1>1 DEF Stall, Active
<1>3. Sound(u, Ended, part, saved, content, orphan, shared)
  BY <1>2, SameHandles DEF FilesOk
<1> QED
  BY <1>1, <1>3, EndedKept DEF Stall, FilesOk

LEMMA FilesStep ==
  ASSUME DownloadInv, [Next]_vars
  PROVE  FilesOk'
<1>1. FilesOk
  BY DEF DownloadInv, FilesOk
<1>2. ASSUME UNCHANGED <<dl, fin, giving, part, saved, content, orphan, shared>>
      PROVE  FilesOk'
  BY <1>1, <1>2, EndedKept DEF FilesOk
<1>3. ASSUME NEW f \in DOMAIN dl, Abort(f), UNCHANGED <<fin, giving, orphan, shared>>
      PROVE  FilesOk'
  BY <1>1, <1>3, AbortSound DEF Abort
<1>4. ASSUME NEW want \in Settings, Configure(want)
      PROVE  FilesOk'
  BY <1>2, <1>4 DEF Configure
<1>5. ASSUME NEW f \in Files, RefuseBusy(f)
      PROVE  FilesOk'
  BY <1>1, <1>5, RefuseBusySound
<1>6. ASSUME NEW f \in Files, RefuseCapacity(f)
      PROVE  FilesOk'
  BY <1>1, <1>6, RefuseCapacitySound
<1>7. ASSUME NEW f \in Files, Begin(f)
      PROVE  FilesOk'
  BY <1>7, BeginSound
<1>8. ASSUME NEW f \in Files, NEW k, Request(f, k)
      PROVE  FilesOk'
  BY <1>2, <1>8 DEF Request
<1>9. ASSUME NEW f \in Files, NEW k \in Saves(f), RequestFails(f, k) \/ GiveUp(f, k)
      PROVE  FilesOk'
  BY <1>1, <1>9, RequestFailsSound, GiveUpSound
<1>10. ASSUME NEW f \in Files, Stall(f)
       PROVE  FilesOk'
  BY <1>1, <1>10, StallSound
<1>11. ASSUME NEW f \in Files, Verify(f)
       PROVE  FilesOk'
  BY <1>1, <1>11, VerifySound
<1>12. ASSUME NEW f \in Files, Rename(f) \/ Remove(f)
       PROVE  FilesOk'
  BY <1>1, <1>12, RenameSound, RemoveSound
<1>13. ASSUME NEW f \in Files, NEW k, Chunk(f, k)
       PROVE  FilesOk'
  <2>1. UNCHANGED <<fin, giving, orphan, shared>>
    BY <1>13, ChunkCases
  <2>2. CASE UNCHANGED <<dl, part, saved, content>>
    BY <1>2, <2>1, <2>2
  <2>3. CASE f \in Active /\ Abort(f)
    BY <1>3, <2>1, <2>3 DEF Active
  <2>4. CASE ChunkWritten(f, k)
    BY <1>1, <2>1, <2>4, WrittenSound
  <2> QED
    BY <1>13, <2>2, <2>3, <2>4, ChunkCases
<1>14. ASSUME NEW f \in Files, NEW k, LoseChunk(f, k)
       PROVE  FilesOk'
  BY <1>2, <1>14 DEF LoseChunk
<1>15. ASSUME NEW f \in Files, NEW k, End(f, k)
       PROVE  FilesOk'
  BY <1>1, <1>15, FinishSound DEF End
<1>16. ASSUME NEW f \in Files, NEW k, Error(f, k)
       PROVE  FilesOk'
  BY <1>1, <1>16, FinishSound DEF Error
<1>17. CASE Restart
  BY <1>1, <1>17, RestartSound
<1>18. CASE UNCHANGED vars
  BY <1>2, <1>18 DEF vars
<1> QED
  BY <1>4, <1>5, <1>6, <1>7, <1>8, <1>9, <1>10, <1>11, <1>12, <1>13, <1>14,
     <1>15, <1>16, <1>17, <1>18 DEF Next

----------------------------------------------------------------------------
(* Slots.                                                                  *)

(* A peer has more downloads after a step only if one of them was begun.   *)
LEMMA SlotStep ==
  ASSUME DownloadInv, [Next]_vars, NEW p
  PROVE  Cardinality(FromPeer(p)') > Cardinality(FromPeer(p))
           => Cardinality(FromPeer(p)') <= limits'.slots
<1>1. IsFiniteSet(FromPeer(p)) /\ FromPeer(p) \subseteq Files
  BY FilesFinite DEF DownloadInv, Within, Table, FromPeer, Active
<1>2. ASSUME FromPeer(p)' \subseteq FromPeer(p)
      PROVE  ~(Cardinality(FromPeer(p)') > Cardinality(FromPeer(p)))
  <2>1. PICK S : S = FromPeer(p)'
    OBVIOUS
  <2>2. Cardinality(S) <= Cardinality(FromPeer(p)) /\ IsFiniteSet(S)
    BY <1>1, <1>2, <2>1, FS_Subset
  <2>3. Cardinality(S) \in Nat /\ Cardinality(FromPeer(p)) \in Nat
    BY <1>1, <2>2, FS_CardinalityType
  <2> QED
    BY <2>1, <2>2, <2>3
<1>3. \A S : DOMAIN Drop(dl, S) \subseteq DOMAIN dl
  BY DropIs
<1>4. ASSUME Active' \subseteq Active
      PROVE  FromPeer(p)' \subseteq FromPeer(p)
  BY <1>4 DEF FromPeer
<1>5. ASSUME NEW f \in Files, Begin(f)
      PROVE  Cardinality(FromPeer(p)') > Cardinality(FromPeer(p))
               => Cardinality(FromPeer(p)') <= limits'.slots
  <2>1. /\ limits' = limits
        /\ DOMAIN dl' = DOMAIN Live \cup {f} /\ DOMAIN Live \subseteq DOMAIN dl
        /\ ~(Cardinality({g \in DOMAIN Live : Peer[g] = Peer[f]}) >= limits.slots)
    BY <1>3, <1>5 DEF Begin, Click, Busy, Put, Live
  <2>2. CASE Peer[f] # p
    <3>1. FromPeer(p)' \subseteq FromPeer(p)
      BY <2>1, <2>2 DEF FromPeer, Active
    <3> QED
      BY <1>2, <3>1
  <2>3. CASE Peer[f] = p
    <3>1. PICK S : S = {g \in DOMAIN Live : Peer[g] = p}
      OBVIOUS
    <3>2. S \subseteq FromPeer(p)
      BY <2>1, <3>1 DEF FromPeer, Active
    <3>3. IsFiniteSet(S) /\ Cardinality(S) \in Nat
      BY <1>1, <3>2, FS_Subset, FS_CardinalityType
    <3>4. PICK T : T = FromPeer(p)'
      OBVIOUS
    <3>5. T = S \cup {f}
      BY <2>1, <2>3, <3>1, <3>4 DEF FromPeer, Active
    <3>6. Cardinality(T) <= Cardinality(S) + 1 /\ Cardinality(T) \in Nat
      <4>1. /\ IsFiniteSet(S \cup {f})
            /\ Cardinality(S \cup {f}) = IF f \in S THEN Cardinality(S) ELSE Cardinality(S) + 1
        BY <3>3, FS_AddElement
      <4> QED
        BY <3>3, <3>5, <4>1
    <3>7. Cardinality(S) < limits.slots /\ limits.slots \in Nat
      <4>1. limits.slots \in Nat
        BY DEF DownloadInv, Within, LimitSet
      <4> QED
        BY <2>1, <2>3, <3>1, <3>3, <4>1
    <3> QED
      BY <2>1, <3>3, <3>4, <3>6, <3>7
  <2> QED
    BY <2>2, <2>3
<1>6. ASSUME ~(\E f \in Files : Begin(f))
      PROVE  Active' \subseteq Active
  <2>1. ASSUME NEW want \in Settings, Configure(want)
        PROVE  Active' \subseteq Active
    BY <2>1 DEF Configure, Active
  <2>2. ASSUME NEW f \in Files, RefuseBusy(f) \/ RefuseCapacity(f)
        PROVE  Active' \subseteq Active
    BY <1>3, <2>2 DEF RefuseBusy, RefuseCapacity, Live, Active
  <2>3. ASSUME NEW f \in Files, Stall(f) \/ Verify(f) \/ Rename(f) \/ Remove(f)
        PROVE  Active' \subseteq Active
    BY <2>3 DEF Stall, Verify, Rename, Remove, Settle, Active
  <2>4. ASSUME NEW f \in Files, NEW k, Request(f, k) \/ RequestFails(f, k) \/ GiveUp(f, k)
        PROVE  Active' \subseteq Active
    BY <1>3, <2>4 DEF Request, RequestFails, GiveUp, Active
  <2>5. ASSUME NEW f \in Files, NEW k, Chunk(f, k)
        PROVE  Active' \subseteq Active
    BY <1>3, <2>5, ChunkCases DEF Abort, ChunkWritten, Active
  <2>6. ASSUME NEW f \in Files, NEW k, LoseChunk(f, k) \/ End(f, k) \/ Error(f, k)
        PROVE  Active' \subseteq Active
    BY <1>3, <2>6 DEF LoseChunk, End, Error, Finish, Active
  <2>7. CASE Restart
    <3>1. DOMAIN <<>> = {}
      OBVIOUS
    <3> QED
      BY <2>7, <3>1 DEF Restart, Active
  <2>8. CASE UNCHANGED vars
    BY <2>8 DEF vars, Active
  <2> QED
    BY <1>6, <2>1, <2>2, <2>3, <2>4, <2>5, <2>6, <2>7, <2>8 DEF Next
<1> QED
  BY <1>2, <1>4, <1>5, <1>6

----------------------------------------------------------------------------
(* The theorems.                                                           *)

THEOREM DownloadInvariant == Spec => []DownloadInv
<1>1. Init => DownloadInv
  BY InitWithin, InitSound DEF DownloadInv, FilesOk
<1>2. DownloadInv /\ [Next]_vars => DownloadInv'
  BY LimitsStep, FilesStep DEF DownloadInv, FilesOk
<1> QED
  BY <1>1, <1>2, PTL DEF Spec

(* The totals that were declared fit the budget, whatever begins, ends,    *)
(* declares late or is configured meanwhile (_fits_reservation,            *)
(* setAttachmentMax, setPerPeerDownloads).                                 *)
THEOREM LimitsCorrect == Spec => []WithinLimits
<1>1. DownloadInv => WithinLimits
  <2> SUFFICES ASSUME DownloadInv
               PROVE  WithinLimits
    OBVIOUS
  <2>1. Within(dl, limits) /\ Table(dl)
    BY DEF DownloadInv, Within
  <2>2. SumOf([f \in Declared |-> dl[f].total], Declared) <= limits.budget
    BY <2>1, DeclaredIs DEF Within
  <2> QED
    BY <2>1, <2>2 DEF Within, WithinLimits, Active
<1> QED
  BY <1>1, DownloadInvariant, PTL

(* A peer's downloads only become more up to the slots it has by then      *)
(* (_dl_begin).                                                            *)
THEOREM SlotsCorrect == Spec => SlotsKept
<1>1. DownloadInv /\ [Next]_vars =>
        \A p \in Range(Peer) :
          Cardinality(FromPeer(p)') > Cardinality(FromPeer(p))
            => Cardinality(FromPeer(p)') <= limits'.slots
  BY SlotStep
<1> QED
  BY <1>1, DownloadInvariant, PTL DEF Spec, SlotsKept

(* A .part file whose name was never shared is that of the one download    *)
(* that uses it, or a restart left it (_dl_begin, _dl_abort_locked,        *)
(* _dl_finish).                                                            *)
THEOREM PartsCorrect == Spec => []PartsAccounted
<1>1. DownloadInv => PartsAccounted
  BY DEF DownloadInv, Sound, Accounted, PartsAccounted, Active, Ended
<1> QED
  BY <1>1, DownloadInvariant, PTL

(* What is at a final name that was never shared is, and stays, a whole    *)
(* file as it was sent (_dl_finish).                                       *)
THEOREM SavedCorrect == Spec => []SavedIsWhole
<1>1. DownloadInv => SavedIsWhole
  BY DEF DownloadInv, Sound, SavedWhole, SavedIsWhole
<1> QED
  BY <1>1, DownloadInvariant, PTL
=============================================================================
