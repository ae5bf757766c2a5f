----------------------------- MODULE SlugsProofs -----------------------------
(***************************************************************************)
(* What GenerateSlug computes, for every title, and the slugs that requests    *)
(* insert.                                                                   *)
(*                                                                          *)
(* Each of its passes reads a list at increasing positions: readings compose,  *)
(* and the n-th letter of the title is the n-th letter of the slug.           *)
(***************************************************************************)
EXTENDS Catalog, FiniteSetTheorems, TLAPS

\* A set of positions is finite.
LEMMA FiniteIds ==
    ASSUME NEW n \in Nat, NEW S \in SUBSET (1 .. n)
    PROVE  IsFiniteSet(S) /\ Cardinality(S) \in Nat
<1>1. IsFiniteSet(1 .. n)
    BY FS_Interval
<1> QED
    BY <1>1, FS_Subset, FS_CardinalityType, Zenon

-----------------------------------------------------------------------------
(* Picking positions of a list.                                              *)

\* How many of the positions in P are at most i.
UpTo(P, i) == Cardinality(P \cap 1 .. i)

\* The count grows by one at each position in P, and nowhere else.
LEMMA UpToStep ==
    ASSUME NEW m \in Nat, NEW P \in SUBSET (1 .. m), NEW i \in Nat
    PROVE  /\ UpTo(P, i) \in Nat /\ UpTo(P, 0) = 0
           /\ UpTo(P, i + 1) = UpTo(P, i) + IF i + 1 \in P THEN 1 ELSE 0
<1> PICK S : S = P \cap 1 .. i
    BY Zenon
<1>1. IsFiniteSet(S) /\ Cardinality(S) \in Nat
    BY FiniteIds, Zenon
<1>2. P \cap 1 .. 0 = {}
    OBVIOUS
<1>3. P \cap 1 .. (i + 1) = IF i + 1 \in P THEN S \cup {i + 1} ELSE S
    OBVIOUS
<1>4. Cardinality(S \cup {i + 1}) = Cardinality(S) + 1
    <2>1. i + 1 \notin S
        OBVIOUS
    <2> QED
        BY <1>1, <2>1, FS_AddElement, Zenon
<1>5. UpTo(P, 0) = 0
    BY <1>2, FS_EmptySet, Zenon DEF UpTo
<1>6. UpTo(P, i) = Cardinality(S)
    BY Zenon DEF UpTo
<1>7. CASE i + 1 \in P
    BY <1>1, <1>3, <1>4, <1>5, <1>6, <1>7, Zenon DEF UpTo
<1>8. CASE i + 1 \notin P
    <2>1. UpTo(P, i + 1) = Cardinality(S)
        BY <1>3, <1>8, Zenon DEF UpTo
    <2> QED
        BY <1>1, <1>5, <1>6, <1>8, <2>1
<1> QED
    BY <1>7, <1>8, Zenon

\* It never falls, grows before each position in P, and ends at the size of P.
LEMMA UpToGrows ==
    ASSUME NEW m \in Nat, NEW P \in SUBSET (1 .. m), NEW i \in Nat, NEW j \in Nat
    PROVE  /\ i <= j => UpTo(P, i) <= UpTo(P, j)
           /\ i < j /\ j \in P => UpTo(P, i) < UpTo(P, j)
           /\ UpTo(P, m) = Cardinality(P) /\ UpTo(P, i) <= Cardinality(P)
<1>1. \A k \in Nat : IsFiniteSet(P \cap 1 .. k) /\ Cardinality(P \cap 1 .. k) \in Nat
    BY FiniteIds, Zenon
<1>2. IsFiniteSet(P) /\ Cardinality(P) \in Nat
    BY FiniteIds, Zenon
<1>3. ASSUME NEW k \in Nat, i <= k PROVE UpTo(P, i) <= UpTo(P, k)
    <2>1. P \cap 1 .. i \subseteq P \cap 1 .. k
        BY <1>3
    <2> QED
        BY <1>1, <2>1, FS_Subset, Zenon DEF UpTo
<1>4. ASSUME i < j, j \in P PROVE UpTo(P, i) < UpTo(P, j)
    <2>1. PICK k \in Nat : j = k + 1 /\ i <= k
        <3>1. j - 1 \in Nat /\ j = (j - 1) + 1 /\ i <= j - 1
            BY <1>4
        <3> QED
            BY <3>1, Zenon
    <2>2. UpTo(P, j) = UpTo(P, k) + 1 /\ UpTo(P, k) \in Nat /\ UpTo(P, i) \in Nat
        BY <1>4, <2>1, UpToStep, Zenon
    <2>3. UpTo(P, i) <= UpTo(P, k)
        BY <1>3, <2>1, Zenon
    <2> QED
        BY <2>2, <2>3
<1>5. UpTo(P, m) = Cardinality(P)
    <2>1. P \cap 1 .. m = P
        BY Zenon
    <2> QED
        BY <2>1, Zenon DEF UpTo
<1>6. UpTo(P, i) <= Cardinality(P)
    BY <1>2, FS_Subset, Zenon DEF UpTo
<1> QED
    BY <1>3, <1>4, <1>5, <1>6, Zenon

\* A set of naturals with an element has a least one.
LEMMA LeastNatural ==
    ASSUME NEW S, S \subseteq Nat, S # {}
    PROVE  \E x \in S : \A y \in S : x <= y
<1> DEFINE R == OpToRel(LAMBDA x, y : x < y, Nat)
<1>1. IsWellFoundedOn(R, Nat)
    BY NatLessThanWellFounded, Zenon
<1>2. PICK x \in S : \A y \in S : <<y, x>> \notin R
    <2> HIDE DEF R
    <2> QED
        BY <1>1, WFMin, Zenon
<1>3. \A y \in S : ~ (y < x)
    BY <1>2, Zenon DEF OpToRel
<1>4. \A y \in S : x <= y
    BY <1>3
<1> QED
    BY <1>4, Zenon

\* Every number up to the size of P is the count at exactly one position in P.
LEMMA PlaceExists ==
    ASSUME NEW m \in Nat, NEW P \in SUBSET (1 .. m), NEW n \in 1 .. Cardinality(P)
    PROVE  Place(n, P) \in P /\ UpTo(P, Place(n, P)) = n
<1> DEFINE S == {i \in Nat : n <= UpTo(P, i)}
<1>0. n \in Nat /\ 0 < n /\ n <= Cardinality(P)
    BY FiniteIds
<1>1. m \in S
    BY <1>0, UpToGrows, Zenon
<1>2. PICK x \in S : \A y \in S : x <= y
    BY <1>1, LeastNatural, Zenon
<1>3. x \in Nat /\ n <= UpTo(P, x)
    BY <1>2, Zenon
<1>4. x # 0
    <2>1. UpTo(P, 0) = 0
        BY UpToStep, ZenonT(40)
    <2> QED
        BY <1>0, <1>3, <2>1
<1>5. PICK k \in Nat : x = k + 1
    <2>1. x - 1 \in Nat /\ x = (x - 1) + 1
        BY <1>3, <1>4
    <2> QED
        BY <2>1, Zenon
<1>6. ~ (n <= UpTo(P, k))
    BY <1>2, <1>5
<1>7. /\ UpTo(P, k) \in Nat
      /\ UpTo(P, x) = UpTo(P, k) + IF x \in P THEN 1 ELSE 0
    BY <1>5, UpToStep, ZenonT(40)
<1>8. x \in P /\ UpTo(P, x) = n
    BY <1>0, <1>3, <1>6, <1>7
<1> QED
    BY <1>8, Zenon DEF Place, UpTo

\* Places are in the order of the positions, and between two of them in a row
\* there is no position of P.
LEMMA PlaceOrder ==
    ASSUME NEW m \in Nat, NEW P \in SUBSET (1 .. m)
    PROVE  /\ Cardinality(P) \in Nat
           /\ \A n \in 1 .. Cardinality(P) : Place(n, P) \in P
           /\ \A n, k \in 1 .. Cardinality(P) : n < k => Place(n, P) < Place(k, P)
           /\ \A i \in P : UpTo(P, i) \in 1 .. Cardinality(P) /\ Place(UpTo(P, i), P) = i
<1>0. Cardinality(P) \in Nat /\ P \subseteq Nat
    BY FiniteIds
<1>1. \A i, j \in P : i < j => UpTo(P, i) < UpTo(P, j)
    BY <1>0, UpToGrows, Zenon
<1>2. \A i \in P : UpTo(P, i) \in Nat
    BY <1>0, UpToStep, ZenonT(40)
<1>3. ASSUME NEW n \in 1 .. Cardinality(P), NEW k \in 1 .. Cardinality(P), n < k
      PROVE  Place(n, P) < Place(k, P)
    <2>1. PICK i, j \in P : i = Place(n, P) /\ j = Place(k, P) /\ UpTo(P, i) = n /\ UpTo(P, j) = k
        BY PlaceExists, Zenon
    <2>2. i \in Nat /\ j \in Nat /\ n \in Nat /\ k \in Nat
        BY <1>0
    <2>3. j < i => k < n
        BY <1>1, <2>1, Zenon
    <2>4. i # j
        BY <1>3, <2>1, <2>2
    <2> QED
        BY <1>3, <2>1, <2>2, <2>3, <2>4
<1>4. ASSUME NEW i \in P PROVE UpTo(P, i) \in 1 .. Cardinality(P) /\ Place(UpTo(P, i), P) = i
    <2>1. PICK n : n = UpTo(P, i)
        BY Zenon
    <2>2. n \in 1 .. Cardinality(P)
        <3>1. i \in Nat /\ 0 < i
            OBVIOUS
        <3>2. UpTo(P, 0) < UpTo(P, i) /\ UpTo(P, 0) = 0
            BY <3>1, UpToStep, UpToGrows, Zenon
        <3>3. UpTo(P, i) <= Cardinality(P) /\ UpTo(P, i) \in Nat
            BY <3>1, UpToStep, UpToGrows, Zenon
        <3> QED
            BY <1>0, <2>1, <3>2, <3>3
    <2>3. PICK j \in P : j = Place(n, P) /\ UpTo(P, j) = n
        BY <2>2, PlaceExists, ZenonT(40)
    <2>4. i \in Nat /\ j \in Nat /\ n \in Nat
        BY <1>0, <1>2, <2>1, Zenon
    <2>5. ~ (i < j) /\ ~ (j < i)
        BY <1>1, <2>1, <2>3, <2>4
    <2> QED
        BY <2>1, <2>2, <2>3, <2>4, <2>5
<1> QED
    BY <1>0, <1>3, <1>4, PlaceExists, Zenon
-----------------------------------------------------------------------------
(* What GenerateSlug computes.                                               *)

SlugCharacters == Alphanumeric \cup {"-"}
Hyphenate(c) == ReplaceAll(ToLower(c))

\* No two hyphens in a row.
Single(s) == \A n \in 1 .. Len(s) - 1 : s[n] # "-" \/ s[n + 1] # "-"

\* Nothing is left to replace, to squeeze or to trim.
IsSlug(s) ==
    /\ s \in Seq(SlugCharacters)
    /\ Single(s)
    /\ s # <<>> => s[1] # "-" /\ s[Len(s)] # "-"

\* The elements of t are those of s at the increasing positions g.
Reads(t, g, s) ==
    /\ g \in [1 .. Len(t) -> 1 .. Len(s)]
    /\ \A n, k \in 1 .. Len(t) : n < k => g[n] < g[k]
    /\ \A n \in 1 .. Len(t) : t[n] = s[g[n]]
Reached(g, i, t) == \E n \in 1 .. Len(t) : g[n] = i

\* Letters, digits and separators under lower case and replacement.
LEMMA Characters ==
    ASSUME NEW c
    PROVE  /\ Hyphenate(c) = "-" <=> c \in Separators \cup {"-"}
           /\ Hyphenate(c) \in Alphanumeric <=> c \in Alphanumeric \cup DOMAIN Lower
           /\ Hyphenate(c) \in Alphanumeric => Hyphenate(c) = ToLower(c)
           /\ c \in SlugCharacters => Hyphenate(c) = c
           /\ "-" \notin Alphanumeric \cup DOMAIN Lower
           /\ c \in SlugCharacters => (c \in Alphanumeric \cup DOMAIN Lower <=> c # "-")
<1>1. DOMAIN Lower = {"A", "B"}
    BY Zenon DEF Lower
<1>2. ToLower(c) = IF c = "A" THEN "a" ELSE IF c = "B" THEN "b" ELSE c
    BY <1>1 DEF ToLower, Lower
<1>3. Hyphenate(c) = IF c = "A" THEN "a" ELSE IF c = "B" THEN "b" ELSE IF c \in Separators THEN "-" ELSE c
    BY <1>2, Zenon DEF Hyphenate, ReplaceAll, Separators
<1> QED
    BY <1>1, <1>2, <1>3, ZenonT(40) DEF Alphanumeric, Separators, SlugCharacters

\* A function on the first c positions is a list of length c.
LEMMA FunctionIsList ==
    ASSUME NEW c \in Nat, NEW S, NEW t \in [1 .. c -> S]
    PROVE  t \in Seq(S) /\ Len(t) = c /\ DOMAIN t = 1 .. c
OBVIOUS

\* Picking reads the list at the places of P.
LEMMA PickReads ==
    ASSUME NEW S, NEW s \in Seq(S), NEW P \in SUBSET (1 .. Len(s)), NEW T,
           \A i \in P : s[i] \in T
    PROVE  /\ Pick(s, P) \in Seq(T)
           /\ \E g : /\ Reads(Pick(s, P), g, s)
                     /\ \A n \in 1 .. Len(Pick(s, P)) : g[n] \in P
                     /\ \A i \in P : Reached(g, i, Pick(s, P))
<1>0. PICK m \in Nat : m = Len(s) /\ P \in SUBSET (1 .. m)
    OBVIOUS
<1>1. PICK c \in Nat : c = Cardinality(P)
    BY <1>0, PlaceOrder, Zenon
<1>2. /\ \A n \in 1 .. c : Place(n, P) \in P
      /\ \A n, k \in 1 .. c : n < k => Place(n, P) < Place(k, P)
      /\ \A i \in P : \E n \in 1 .. c : Place(n, P) = i
    BY <1>0, <1>1, PlaceOrder, Zenon
<1>3. PICK t : t = Pick(s, P)
    BY Zenon
<1>4. t = [n \in 1 .. c |-> s[Place(n, P)]]
    BY <1>1, <1>3, Zenon DEF Pick
<1>5. t \in [1 .. c -> T]
    BY <1>2, <1>4, Zenon
<1>6. t \in Seq(T) /\ Len(t) = c
    BY <1>5, FunctionIsList, Zenon
<1>7. PICK g : g = [n \in 1 .. c |-> Place(n, P)]
    BY Zenon
<1>8. \A n \in 1 .. c : g[n] = Place(n, P) /\ t[n] = s[g[n]]
    BY <1>4, <1>7, Zenon
<1>9. g \in [1 .. c -> 1 .. m]
    BY <1>0, <1>2, <1>7, ZenonT(40)
<1>10. Reads(t, g, s)
    <2>1. \A n, k \in 1 .. c : n < k => g[n] < g[k]
        BY <1>2, <1>8, Zenon
    <2> QED
        BY <1>0, <1>6, <1>8, <1>9, <2>1, Zenon DEF Reads
<1>11. \A i \in P : Reached(g, i, t)
    BY <1>2, <1>6, <1>8 DEF Reached
<1>12. \A n \in 1 .. Len(t) : g[n] \in P
    BY <1>2, <1>6, <1>8, ZenonT(40)
<1> QED
    BY <1>3, <1>6, <1>10, <1>11, <1>12, ZenonT(40)

\* Keep reads exactly the elements that are to be kept.
LEMMA KeepReads ==
    ASSUME NEW S, NEW s \in Seq(S), NEW C
    PROVE  /\ Keep(s, C) \in Seq(C)
           /\ \E g : /\ Reads(Keep(s, C), g, s)
                     /\ \A i \in 1 .. Len(s) : s[i] \in C => Reached(g, i, Keep(s, C))
<1> PICK P : P = {i \in DOMAIN s : s[i] \in C}
    BY ZenonT(40)
<1>1. P \in SUBSET (1 .. Len(s)) /\ \A i \in P : s[i] \in C
    OBVIOUS
<1>2. Keep(s, C) = Pick(s, P)
    BY Zenon DEF Keep
<1>3. \A i \in 1 .. Len(s) : s[i] \in C => i \in P
    OBVIOUS
<1>4. /\ Pick(s, P) \in Seq(C)
      /\ \E g : Reads(Pick(s, P), g, s) /\ \A i \in P : Reached(g, i, Pick(s, P))
    BY <1>1, PickReads, Zenon
<1> QED
    BY <1>2, <1>3, <1>4, Zenon

\* Squeeze reads everything but the hyphens after a hyphen.
LEMMA SqueezeReads ==
    ASSUME NEW S, NEW s \in Seq(S)
    PROVE  /\ Squeeze(s) \in Seq(S) /\ Single(Squeeze(s))
           /\ \E g : /\ Reads(Squeeze(s), g, s)
                     /\ \A i \in 1 .. Len(s) : i = 1 \/ s[i] # "-" \/ s[i - 1] # "-" =>
                                                  Reached(g, i, Squeeze(s))
<1> PICK P : P = {i \in DOMAIN s : i = 1 \/ s[i] # "-" \/ s[i - 1] # "-"}
    BY ZenonT(40)
<1> PICK t : t = Squeeze(s)
    BY Zenon
<1>0. Len(s) \in Nat /\ DOMAIN s = 1 .. Len(s)
    OBVIOUS
<1>1. P \in SUBSET (1 .. Len(s)) /\ \A i \in P : s[i] \in S
    BY <1>0
<1>2. t = Pick(s, P)
    BY Zenon DEF Squeeze
<1>3. \A i \in 1 .. Len(s) : i = 1 \/ s[i] # "-" \/ s[i - 1] # "-" <=> i \in P
    BY <1>0, Zenon
<1>4. t \in Seq(S)
    BY <1>1, <1>2, PickReads
<1>5. PICK g : /\ Reads(t, g, s) /\ \A n \in 1 .. Len(t) : g[n] \in P
               /\ \A i \in P : Reached(g, i, t)
    <2>1. \E g : /\ Reads(Pick(s, P), g, s) /\ \A n \in 1 .. Len(Pick(s, P)) : g[n] \in P
                 /\ \A i \in P : Reached(g, i, Pick(s, P))
        BY <1>1, PickReads, Zenon
    <2> QED
        BY <1>2, <2>1, Zenon
<1>6. Len(t) \in Nat
    BY <1>4
<1>7. ASSUME NEW n \in 1 .. Len(t) - 1, t[n] = "-", t[n + 1] = "-" PROVE FALSE
    <2>1. n \in 1 .. Len(t) /\ n + 1 \in 1 .. Len(t) /\ n < n + 1
        BY <1>6
    <2>2. PICK i, k \in 1 .. Len(s) : i = g[n] /\ k = g[n + 1] /\ i < k /\ s[i] = "-" /\ s[k] = "-"
        BY <1>5, <1>7, <2>1 DEF Reads
    <2>3. i \in Nat /\ k \in Nat /\ k # 1
        BY <1>0, <2>2
    <2>4. s[k - 1] # "-"
        BY <1>3, <1>5, <2>1, <2>2, <2>3, ZenonT(40)
    <2>5. k - 1 \in 1 .. Len(s) /\ i < k - 1
        BY <1>0, <2>2, <2>3, <2>4, SMTT(30)
    <2>6. PICK l \in 1 .. Len(t) : g[l] = k - 1
        BY <1>3, <1>5, <2>4, <2>5, ZenonT(40) DEF Reached
    <2>7. l \in Nat /\ n \in Nat /\ g[n] < g[l] /\ g[l] < g[n + 1]
        BY <1>6, <2>2, <2>3, <2>5, <2>6
    <2>8. ~ (l < n) /\ l # n /\ ~ (n + 1 < l) /\ l # n + 1
        BY <1>5, <2>1, <2>2, <2>3, <2>6, <2>7 DEF Reads
    <2> QED
        BY <2>7, <2>8
<1>8. Single(t)
    BY <1>7, Zenon DEF Single
<1> QED
    BY <1>3, <1>4, <1>5, <1>8, Zenon

\* TrimLeft leaves no hyphen at the start of a squeezed list.
LEMMA TrimLeftReads ==
    ASSUME NEW S, NEW s \in Seq(S), Single(s)
    PROVE  \E off \in {0, 1} :
              /\ TrimLeft(s) \in Seq(S) /\ Single(TrimLeft(s)) /\ Len(TrimLeft(s)) = Len(s) - off
              /\ \A n \in 1 .. Len(TrimLeft(s)) : TrimLeft(s)[n] = s[n + off]
              /\ TrimLeft(s) # <<>> => TrimLeft(s)[1] # "-"
              /\ off = 1 => s[1] = "-"
<1> PICK t : t = TrimLeft(s)
    BY Zenon
<1>0. Len(s) \in Nat /\ (s = <<>> <=> Len(s) = 0)
    OBVIOUS
<1>1. CASE s # <<>> /\ Head(s) = "-"
    <2>1. t = Tail(s) /\ s[1] = "-"
        BY <1>1 DEF TrimLeft
    <2>2. /\ t \in Seq(S) /\ Len(t) = Len(s) - 1 /\ (t # <<>> <=> 0 < Len(t))
          /\ \A n \in 1 .. Len(t) : t[n] = s[n + 1]
        <3>1. t \in Seq(S) /\ Len(t) = Len(s) - 1
            BY <1>1, <2>1
        <3>2. t # <<>> <=> 0 < Len(t)
            BY <3>1
        <3>3. \A n \in 1 .. Len(t) : t[n] = s[n + 1]
            BY <1>1, <2>1, <3>1
        <3> QED
            BY <3>1, <3>2, <3>3, ZenonT(40)
    <2>3. Single(t)
        <3>1. \A n \in 1 .. Len(t) - 1 : n + 1 \in 1 .. Len(s) - 1 /\ n \in 1 .. Len(t) /\ n + 1 \in 1 .. Len(t)
            BY <1>0, <2>2
        <3> QED
            BY <2>2, <3>1, Zenon DEF Single
    <2>4. t # <<>> => t[1] # "-"
        <3> HAVE t # <<>>
        <3>1. 1 \in 1 .. Len(s) - 1 /\ 1 \in 1 .. Len(t)
            BY <1>0, <2>2
        <3> QED
            BY <2>1, <2>2, <3>1, ZenonT(40) DEF Single
    <2> QED
        BY <2>1, <2>2, <2>3, <2>4, ZenonT(40)
<1>2. CASE ~ (s # <<>> /\ Head(s) = "-")
    <2>1. t = s
        BY <1>2, Zenon DEF TrimLeft
    <2>2. s # <<>> => s[1] # "-"
        BY <1>2
    <2>3. Len(s) - 0 = Len(s) /\ \A n \in 1 .. Len(s) : s[n] = s[n + 0]
        BY <1>0
    <2>4. 0 \in {0, 1} /\ 0 # 1
        OBVIOUS
    <2> QED
        BY <2>1, <2>2, <2>3, <2>4, ZenonT(40)
<1> QED
    BY <1>1, <1>2, Zenon

\* TrimRight leaves none at the end, and the start as it is.
LEMMA TrimRightReads ==
    ASSUME NEW S, NEW s \in Seq(S), Single(s), s # <<>> => s[1] # "-"
    PROVE  /\ TrimRight(s) \in Seq(S) /\ Single(TrimRight(s)) /\ Len(TrimRight(s)) <= Len(s)
           /\ \A n \in 1 .. Len(TrimRight(s)) : TrimRight(s)[n] = s[n]
           /\ TrimRight(s) # <<>> =>
                 TrimRight(s)[1] # "-" /\ TrimRight(s)[Len(TrimRight(s))] # "-"
           /\ \A i \in 1 .. Len(s) : s[i] # "-" => i <= Len(TrimRight(s))
<1> PICK t : t = TrimRight(s)
    BY Zenon
<1>0. Len(s) \in Nat /\ (s = <<>> <=> Len(s) = 0)
    OBVIOUS
<1>1. CASE s # <<>> /\ s[Len(s)] = "-"
    <2>1. t = SubSeq(s, 1, Len(s) - 1)
        BY <1>1, Zenon DEF TrimRight
    <2>2. /\ t \in Seq(S) /\ Len(t) = Len(s) - 1 /\ (t # <<>> <=> 0 < Len(t))
          /\ \A n \in 1 .. Len(t) : t[n] = s[n]
        <3>0. Len(s) - 1 \in Nat /\ \A n \in 1 .. Len(s) - 1 : n \in 1 .. Len(s)
            BY <1>0, <1>1
        <3>1. t \in Seq(S) /\ Len(t) = Len(s) - 1
            <4>1. t = [n \in 1 .. Len(s) - 1 |-> s[n]]
                BY <2>1, <3>0
            <4>2. t \in [1 .. Len(s) - 1 -> S]
                BY <3>0, <4>1
            <4> QED
                BY <3>0, <4>2, FunctionIsList, ZenonT(40)
        <3>2. t # <<>> <=> 0 < Len(t)
            BY <3>1
        <3>3. \A n \in 1 .. Len(t) : t[n] = s[n]
            BY <2>1, <3>0, <3>1
        <3> QED
            BY <3>1, <3>2, <3>3, ZenonT(40)
    <2>3. Single(t)
        <3>1. \A n \in 1 .. Len(t) - 1 : n \in 1 .. Len(s) - 1 /\ n \in 1 .. Len(t) /\ n + 1 \in 1 .. Len(t)
            BY <1>0, <2>2
        <3> QED
            BY <2>2, <3>1, ZenonT(40) DEF Single
    <2>4. ASSUME t # <<>> PROVE t[1] # "-" /\ t[Len(t)] # "-"
        <3>1. PICK n : n = Len(t)
            BY Zenon
        <3>2. 1 \in 1 .. n /\ n \in 1 .. n /\ n \in 1 .. Len(s) - 1 /\ n + 1 = Len(s)
            BY <1>0, <2>2, <2>4, <3>1
        <3>3. t[1] = s[1] /\ t[n] = s[n] /\ s[n + 1] = "-"
            BY <1>1, <2>2, <3>1, <3>2, ZenonT(40)
        <3>4. s[n] # "-"
            BY <3>2, <3>3, Zenon DEF Single
        <3> QED
            BY <1>1, <3>1, <3>3, <3>4, ZenonT(40)
    <2>5. \A i \in 1 .. Len(s) : s[i] # "-" => i <= Len(t)
        BY <1>0, <1>1, <2>2
    <2> QED
        BY <1>0, <2>2, <2>3, <2>4, <2>5
<1>2. CASE ~ (s # <<>> /\ s[Len(s)] = "-")
    <2>1. t = s
        BY <1>2, Zenon DEF TrimRight
    <2> QED
        BY <1>0, <1>2, <2>1
<1> QED
    BY <1>1, <1>2, Zenon

\* Both together: what is left is a slug, and everything but hyphens at the ends
\* is left.
LEMMA TrimReads ==
    ASSUME NEW s \in Seq(SlugCharacters), Single(s), NEW t, t = TrimRight(TrimLeft(s))
    PROVE  /\ IsSlug(t)
           /\ \E off \in {0, 1} :
                 /\ Len(t) + off <= Len(s)
                 /\ \A n \in 1 .. Len(t) : t[n] = s[n + off]
                 /\ \A i \in 1 .. Len(s) : s[i] # "-" => i - off \in 1 .. Len(t)
<1>1. PICK u : u = TrimLeft(s)
    BY Zenon
<1>2. PICK off \in {0, 1} :
         /\ u \in Seq(SlugCharacters) /\ Single(u) /\ Len(u) = Len(s) - off
         /\ \A n \in 1 .. Len(u) : u[n] = s[n + off]
         /\ u # <<>> => u[1] # "-"
         /\ off = 1 => s[1] = "-"
    BY <1>1, TrimLeftReads, ZenonT(40)
<1>3. /\ t \in Seq(SlugCharacters) /\ Single(t) /\ Len(t) <= Len(u)
      /\ \A n \in 1 .. Len(t) : t[n] = u[n]
      /\ t # <<>> => t[1] # "-" /\ t[Len(t)] # "-"
      /\ \A i \in 1 .. Len(u) : u[i] # "-" => i <= Len(t)
    BY <1>1, <1>2, TrimRightReads, Zenon
<1>4. Len(t) \in Nat /\ Len(u) \in Nat /\ Len(s) \in Nat /\ off \in Nat
    BY <1>2, <1>3
<1>5. IsSlug(t)
    BY <1>3, Zenon DEF IsSlug
<1>6. Len(t) + off <= Len(s)
    BY <1>2, <1>3, <1>4
<1>7. \A n \in 1 .. Len(t) : t[n] = s[n + off]
    BY <1>2, <1>3, <1>4
<1>8. ASSUME NEW i \in 1 .. Len(s), s[i] # "-" PROVE i - off \in 1 .. Len(t)
    <2>1. i # 1 \/ off = 0
        BY <1>2, <1>8, Zenon
    <2>2. PICK k : k = i - off
        BY Zenon
    <2>3. k \in 1 .. Len(u) /\ i = k + off
        BY <1>2, <1>4, <2>1, <2>2
    <2>4. u[k] # "-"
        BY <1>2, <1>8, <2>3, ZenonT(40)
    <2> QED
        BY <1>3, <1>4, <2>2, <2>3, <2>4
<1> QED
    BY <1>5, <1>6, <1>7, <1>8, ZenonT(40)

\* Positions are read in their order, and no other way round.
LEMMA ReadsOrder ==
    ASSUME NEW t, NEW g, NEW s, Len(t) \in Nat, Len(s) \in Nat, Reads(t, g, s),
           NEW n \in 1 .. Len(t), NEW k \in 1 .. Len(t)
    PROVE  g[n] < g[k] <=> n < k
<1>1. g[n] \in Nat /\ g[k] \in Nat /\ n \in Nat /\ k \in Nat
    BY DEF Reads
<1>2. (n < k => g[n] < g[k]) /\ (k < n => g[k] < g[n])
    BY Zenon DEF Reads
<1> QED
    BY <1>1, <1>2

\* Reading a list that was read from a third reads the third.
LEMMA ReadsCompose ==
    ASSUME NEW u, NEW f, NEW t, NEW g, NEW s,
           Len(u) \in Nat, Len(t) \in Nat, Len(s) \in Nat, Reads(u, f, t), Reads(t, g, s),
           NEW h, h = [n \in 1 .. Len(u) |-> g[f[n]]]
    PROVE  /\ Reads(u, h, s)
           /\ \A i \in 1 .. Len(t) : Reached(f, i, u) => Reached(h, g[i], u)
<1>1. \A n \in 1 .. Len(u) : f[n] \in 1 .. Len(t) /\ h[n] = g[f[n]] /\ u[n] = t[f[n]]
    BY Zenon DEF Reads
<1>2. \A i \in 1 .. Len(t) : g[i] \in 1 .. Len(s) /\ t[i] = s[g[i]]
    BY Zenon DEF Reads
<1>3. h \in [1 .. Len(u) -> 1 .. Len(s)]
    BY <1>1, <1>2, Zenon
<1>4. \A n, k \in 1 .. Len(u) : n < k => h[n] < h[k]
    BY <1>1, Zenon DEF Reads
<1>5. \A n \in 1 .. Len(u) : u[n] = s[h[n]]
    BY <1>1, <1>2, SMTT(30)
<1>6. Reads(u, h, s)
    BY <1>3, <1>4, <1>5, Zenon DEF Reads
<1>7. \A i \in 1 .. Len(t) : Reached(f, i, u) => Reached(h, g[i], u)
    BY <1>1, Zenon DEF Reached
<1> QED
    BY <1>6, <1>7, Zenon

\* Trimming as a reading: it reaches every letter, and everything between two.
LEMMA TrimKeeps ==
    ASSUME NEW s \in Seq(SlugCharacters), Single(s), NEW t, t = TrimRight(TrimLeft(s))
    PROVE  /\ IsSlug(t)
           /\ \E g : /\ Reads(t, g, s)
                     /\ \A i \in 1 .. Len(s) : s[i] # "-" => Reached(g, i, t)
                     /\ \A i, j, k \in 1 .. Len(s) :
                           i < j /\ j < k /\ s[i] # "-" /\ s[k] # "-" => Reached(g, j, t)
<1>1. IsSlug(t)
    BY TrimReads, Zenon
<1>2. PICK off \in {0, 1} :
         /\ Len(t) + off <= Len(s)
         /\ \A n \in 1 .. Len(t) : t[n] = s[n + off]
         /\ \A i \in 1 .. Len(s) : s[i] # "-" => i - off \in 1 .. Len(t)
    BY TrimReads, ZenonT(40)
<1>3. Len(t) \in Nat /\ Len(s) \in Nat /\ off \in Nat
    BY <1>1, <1>2 DEF IsSlug
<1>4. PICK g : g = [n \in 1 .. Len(t) |-> n + off]
    BY Zenon
<1>5. Reads(t, g, s)
    <2>1. g \in [1 .. Len(t) -> 1 .. Len(s)]
        BY <1>2, <1>3, <1>4
    <2>2. \A n, k \in 1 .. Len(t) : n < k => g[n] < g[k]
        BY <1>3, <1>4
    <2>3. \A n \in 1 .. Len(t) : t[n] = s[g[n]]
        BY <1>2, <1>4, Zenon
    <2> QED
        BY <2>1, <2>2, <2>3, ZenonT(40) DEF Reads
<1>6. \A i \in 1 .. Len(s) : i - off \in 1 .. Len(t) => Reached(g, i, t)
    <2> TAKE i \in 1 .. Len(s)
    <2> HAVE i - off \in 1 .. Len(t)
    <2>1. PICK n \in 1 .. Len(t) : n = i - off
        BY Zenon
    <2>2. g[n] = i
        BY <1>3, <1>4, <2>1
    <2> QED
        BY <2>2, Zenon DEF Reached
<1>7. ASSUME NEW i \in 1 .. Len(s), NEW j \in 1 .. Len(s), NEW k \in 1 .. Len(s),
             i < j, j < k, s[i] # "-", s[k] # "-"
      PROVE  Reached(g, j, t)
    <2>1. i - off \in 1 .. Len(t) /\ k - off \in 1 .. Len(t)
        BY <1>2, <1>7, Zenon
    <2>2. j - off \in 1 .. Len(t)
        BY <1>3, <1>7, <2>1
    <2> QED
        BY <1>6, <2>2, Zenon
<1> QED
    BY <1>1, <1>2, <1>5, <1>6, <1>7, Zenon

\* The first hyphen after a letter is one that Squeeze keeps.
LEMMA FirstHyphen ==
    ASSUME NEW S, NEW s \in Seq(S), NEW i \in 1 .. Len(s), NEW j \in 1 .. Len(s),
           i < j, s[i] # "-", s[j] = "-"
    PROVE  \E x \in 1 .. Len(s) : i < x /\ x <= j /\ s[x] = "-" /\ s[x - 1] # "-"
<1> DEFINE H == {x \in 1 .. Len(s) : i < x /\ s[x] = "-"}
<1>1. H \subseteq Nat /\ j \in H
    OBVIOUS
<1>2. PICK x \in H : \A y \in H : x <= y
    BY <1>1, LeastNatural, Zenon
<1>3. x \in 1 .. Len(s) /\ i < x /\ s[x] = "-" /\ x <= j
    BY <1>1, <1>2, Zenon
<1>4. s[x - 1] # "-"
    <2>1. CASE x - 1 = i
        BY <2>1, Zenon
    <2>2. CASE x - 1 # i
        <3>1. x - 1 \in 1 .. Len(s) /\ i < x - 1 /\ ~ (x <= x - 1)
            BY <1>3, <2>2
        <3> QED
            BY <1>2, <3>1, Zenon
    <2> QED
        BY <2>1, <2>2, Zenon
<1> QED
    BY <1>3, <1>4, ZenonT(40)

\* The characters of a slug are those of the title at increasing positions g, in
\* lower case and with hyphens for separators.  Every letter of the title is read,
\* and between two letters a separator is, when there is one.
SlugReads(slug, g, title) ==
    /\ g \in [1 .. Len(slug) -> 1 .. Len(title)]
    /\ \A n, k \in 1 .. Len(slug) : n < k => g[n] < g[k]
    /\ \A n \in 1 .. Len(slug) : slug[n] = Hyphenate(title[g[n]])
    /\ \A i \in 1 .. Len(title) : Hyphenate(title[i]) \in Alphanumeric => Reached(g, i, slug)
    /\ \A i, j, k \in 1 .. Len(title) :
          /\ i < j /\ j < k
          /\ Hyphenate(title[i]) \in Alphanumeric
          /\ Hyphenate(title[j]) = "-"
          /\ Hyphenate(title[k]) \in Alphanumeric
          => \E n \in 1 .. Len(slug) : i < g[n] /\ g[n] < k

\* Composing the three readings: Keep, Squeeze and the two trims.
LEMMA GenerateSlugReads ==
    ASSUME NEW S, NEW title \in Seq(S), NEW slug, slug = GenerateSlug(title)
    PROVE  IsSlug(slug) /\ \E g : SlugReads(slug, g, title)
<1>1. PICK h : h = [i \in DOMAIN title |-> ReplaceAll(ToLower(title[i]))]
    BY Zenon
<1>2. PICK T : T = {Hyphenate(c) : c \in S}
    BY ZenonT(40)
<1>3. h \in Seq(T) /\ Len(h) = Len(title) /\ Len(h) \in Nat
    <2>1. PICK c \in Nat : c = Len(title) /\ DOMAIN title = 1 .. c
        OBVIOUS
    <2>2. h \in [1 .. c -> T]
        BY <1>1, <1>2, <2>1 DEF Hyphenate
    <2> QED
        BY <2>1, <2>2, FunctionIsList, ZenonT(40)
<1>4. \A i \in 1 .. Len(title) : h[i] = Hyphenate(title[i])
    BY <1>1 DEF Hyphenate
<1>5. PICK a : a = Keep(h, SlugCharacters)
    BY Zenon
<1>6. PICK b : b = Squeeze(a)
    BY Zenon
<1>7. slug = TrimRight(TrimLeft(b))
    BY <1>1, <1>5, <1>6, Zenon DEF GenerateSlug, SlugCharacters
<1>8. a \in Seq(SlugCharacters)
    BY <1>3, <1>5, KeepReads, ZenonT(40)
<1>9. PICK g1 : /\ Reads(a, g1, h)
                /\ \A i \in 1 .. Len(h) : h[i] \in SlugCharacters => Reached(g1, i, a)
    <2>1. \E g : /\ Reads(Keep(h, SlugCharacters), g, h)
                 /\ \A i \in 1 .. Len(h) : h[i] \in SlugCharacters =>
                                              Reached(g, i, Keep(h, SlugCharacters))
        BY <1>3, KeepReads, Zenon
    <2> QED
        BY <1>5, <2>1, Zenon
<1>10. b \in Seq(SlugCharacters) /\ Single(b)
    BY <1>6, <1>8, SqueezeReads, ZenonT(40)
<1>11. PICK g2 : /\ Reads(b, g2, a)
                 /\ \A i \in 1 .. Len(a) : i = 1 \/ a[i] # "-" \/ a[i - 1] # "-" => Reached(g2, i, b)
    <2>1. \E g : /\ Reads(Squeeze(a), g, a)
                 /\ \A i \in 1 .. Len(a) : i = 1 \/ a[i] # "-" \/ a[i - 1] # "-" =>
                                              Reached(g, i, Squeeze(a))
        BY <1>8, SqueezeReads, Zenon
    <2> QED
        BY <1>6, <2>1, Zenon
<1>12. IsSlug(slug)
    BY <1>7, <1>10, TrimKeeps, ZenonT(40)
<1>13. PICK g3 : /\ Reads(slug, g3, b)
                 /\ \A i \in 1 .. Len(b) : b[i] # "-" => Reached(g3, i, slug)
                 /\ \A i, j, k \in 1 .. Len(b) :
                       i < j /\ j < k /\ b[i] # "-" /\ b[k] # "-" => Reached(g3, j, slug)
    BY <1>7, <1>10, TrimKeeps, ZenonT(40)
<1>14. Len(a) \in Nat /\ Len(b) \in Nat /\ Len(slug) \in Nat
    BY <1>8, <1>10, <1>12 DEF IsSlug
<1>15. PICK f : f = [n \in 1 .. Len(slug) |-> g2[g3[n]]]
    BY Zenon
<1>16. /\ Reads(slug, f, a)
       /\ \A i \in 1 .. Len(b) : Reached(g3, i, slug) => Reached(f, g2[i], slug)
    BY <1>11, <1>13, <1>14, <1>15, ReadsCompose, ZenonT(40)
<1>17. PICK g : g = [n \in 1 .. Len(slug) |-> g1[f[n]]]
    BY Zenon
<1>18. /\ Reads(slug, g, h)
       /\ \A i \in 1 .. Len(a) : Reached(f, i, slug) => Reached(g, g1[i], slug)
    BY <1>3, <1>9, <1>14, <1>16, <1>17, ReadsCompose, ZenonT(40)
<1>19. ASSUME NEW i \in 1 .. Len(a), a[i] # "-"
       PROVE  \E y \in 1 .. Len(b) : g2[y] = i /\ b[y] # "-" /\ Reached(g3, y, slug)
    <2>1. PICK y \in 1 .. Len(b) : g2[y] = i
        BY <1>11, <1>19, Zenon DEF Reached
    <2>2. b[y] # "-"
        BY <1>11, <1>19, <2>1, ZenonT(40) DEF Reads
    <2> QED
        BY <1>13, <2>1, <2>2, ZenonT(40)
<1>20. ASSUME NEW i \in 1 .. Len(title), Hyphenate(title[i]) \in Alphanumeric
       PROVE  \E x \in 1 .. Len(a) : g1[x] = i /\ a[x] # "-" /\ Reached(f, x, slug)
    <2>1. h[i] \in SlugCharacters /\ h[i] # "-"
        BY <1>4, <1>20, Characters, ZenonT(40) DEF SlugCharacters
    <2>2. PICK x \in 1 .. Len(a) : g1[x] = i
        BY <1>3, <1>9, <2>1, Zenon DEF Reached
    <2>3. a[x] # "-"
        BY <1>9, <2>1, <2>2, Zenon DEF Reads
    <2>4. Reached(f, x, slug)
        BY <1>16, <1>19, <2>3, Zenon
    <2> QED
        BY <2>2, <2>3, <2>4, ZenonT(40)
<1>21. ASSUME NEW i \in 1 .. Len(title), Hyphenate(title[i]) \in Alphanumeric
       PROVE  Reached(g, i, slug)
    BY <1>18, <1>20, <1>21, Zenon
<1>22. ASSUME NEW i \in 1 .. Len(title), NEW j \in 1 .. Len(title), NEW k \in 1 .. Len(title),
              i < j, j < k, Hyphenate(title[i]) \in Alphanumeric,
              Hyphenate(title[j]) = "-", Hyphenate(title[k]) \in Alphanumeric
       PROVE  \E n \in 1 .. Len(slug) : i < g[n] /\ g[n] < k
    <2>1. PICK ia \in 1 .. Len(a) : g1[ia] = i /\ a[ia] # "-"
        BY <1>20, <1>22, ZenonT(40)
    <2>2. PICK ka \in 1 .. Len(a) : g1[ka] = k /\ a[ka] # "-"
        BY <1>20, <1>22, ZenonT(40)
    <2>3. PICK ja \in 1 .. Len(a) : g1[ja] = j
        <3>1. h[j] \in SlugCharacters
            BY <1>4, <1>22, Zenon DEF SlugCharacters
        <3> QED
            BY <1>3, <1>9, <3>1, ZenonT(40) DEF Reached
    <2>4. a[ja] = "-"
        BY <1>4, <1>9, <1>22, <2>3, ZenonT(40) DEF Reads
    <2>5. ia < ja /\ ja < ka
        BY <1>3, <1>9, <1>14, <1>22, <2>1, <2>2, <2>3, ReadsOrder, ZenonT(40)
    <2>6. PICK x \in 1 .. Len(a) : ia < x /\ x <= ja /\ a[x] = "-" /\ a[x - 1] # "-"
        BY <1>8, <2>1, <2>4, <2>5, FirstHyphen, ZenonT(40)
    <2>7. ia < x /\ x < ka
        BY <1>14, <2>5, <2>6
    <2>8. PICK y \in 1 .. Len(b) : g2[y] = x
        BY <1>11, <2>6, ZenonT(40) DEF Reached
    <2>9. PICK iy \in 1 .. Len(b) : g2[iy] = ia /\ b[iy] # "-"
        BY <1>19, <2>1, ZenonT(40)
    <2>10. PICK ky \in 1 .. Len(b) : g2[ky] = ka /\ b[ky] # "-"
        BY <1>19, <2>2, ZenonT(40)
    <2>11. iy < y /\ y < ky
        BY <1>11, <1>14, <2>7, <2>8, <2>9, <2>10, ReadsOrder, ZenonT(40)
    <2>12. Reached(g3, y, slug)
        BY <1>13, <2>9, <2>10, <2>11, ZenonT(40)
    <2>13. Reached(f, x, slug)
        BY <1>16, <2>8, <2>12, ZenonT(40)
    <2>14. PICK n \in 1 .. Len(slug) : g[n] = g1[x]
        BY <1>18, <2>13, ZenonT(40) DEF Reached
    <2>15. g1[ia] < g1[x] /\ g1[x] < g1[ka]
        BY <1>9, <2>7, ZenonT(40) DEF Reads
    <2> QED
        BY <2>1, <2>2, <2>14, <2>15, ZenonT(40)
<1>23. /\ g \in [1 .. Len(slug) -> 1 .. Len(title)]
       /\ \A n, k \in 1 .. Len(slug) : n < k => g[n] < g[k]
       /\ \A n \in 1 .. Len(slug) : slug[n] = Hyphenate(title[g[n]])
    BY <1>3, <1>4, <1>18, ZenonT(40) DEF Reads
<1>24. SlugReads(slug, g, title)
    BY <1>21, <1>22, <1>23, ZenonT(40) DEF SlugReads
<1> QED
    BY <1>12, <1>24, Zenon

\* An increasing map that carries A onto B carries the n-th place of A to the
\* n-th place of B.
LEMMA SamePlaces ==
    ASSUME NEW a \in Nat, NEW b \in Nat, NEW A \in SUBSET (1 .. a), NEW B \in SUBSET (1 .. b),
           NEW g \in [1 .. a -> 1 .. b],
           \A n, k \in 1 .. a : n < k => g[n] < g[k],
           \A n \in 1 .. a : n \in A <=> g[n] \in B,
           \A i \in B : \E n \in 1 .. a : g[n] = i
    PROVE  /\ Cardinality(A) = Cardinality(B)
           /\ \A n \in 1 .. Cardinality(A) : Place(n, B) = g[Place(n, A)]
<1>1. \A n, k \in 1 .. a : g[n] <= g[k] <=> n <= k
    <2> TAKE n, k \in 1 .. a
    <2>1. n \in Nat /\ k \in Nat /\ g[n] \in Nat /\ g[k] \in Nat
        OBVIOUS
    <2>2. (n < k => g[n] < g[k]) /\ (k < n => g[k] < g[n])
        BY Zenon
    <2> QED
        BY <2>1, <2>2
<1>2. ASSUME NEW X \in SUBSET A, NEW Y \in SUBSET B,
             \A n \in A : n \in X <=> g[n] \in Y
      PROVE  Cardinality(X) = Cardinality(Y)
    <2>1. PICK f : f = [n \in X |-> g[n]]
        BY Zenon
    <2>2. f \in [X -> Y]
        BY <1>2, <2>1, Zenon
    <2>3. \A n, k \in X : f[n] = f[k] => n = k
        <3> TAKE n, k \in X
        <3>1. n \in 1 .. a /\ k \in 1 .. a /\ n \in Nat /\ k \in Nat
            BY <1>2
        <3>2. f[n] = g[n] /\ f[k] = g[k] /\ g[n] \in Nat /\ g[k] \in Nat
            BY <2>1, <3>1
        <3>3. ~ (g[n] < g[k]) => ~ (n < k)
            BY <3>1, Zenon
        <3>4. ~ (g[k] < g[n]) => ~ (k < n)
            BY <3>1, Zenon
        <3> QED
            BY <3>1, <3>2, <3>3, <3>4
    <2>4. \A i \in Y : \E n \in X : f[n] = i
        <3> TAKE i \in Y
        <3>1. PICK n \in 1 .. a : g[n] = i
            BY <1>2, ZenonT(40)
        <3>2. n \in X
            BY <1>2, <3>1, Zenon
        <3> QED
            BY <2>1, <3>1, <3>2, ZenonT(40)
    <2>5. f \in Bijection(X, Y)
        BY <2>2, <2>3, <2>4, ZenonT(40) DEF Bijection, Injection, Surjection, IsInjective
    <2>6. IsFiniteSet(X)
        BY FiniteIds, ZenonT(40)
    <2>7. ExistsBijection(X, Y)
        BY <2>5, Zenon DEF ExistsBijection
    <2> QED
        BY <2>6, <2>7, FS_Bijection, ZenonT(40)
<1>3. Cardinality(A) = Cardinality(B)
    BY <1>2, Zenon
<1>4. ASSUME NEW p \in A PROVE g[p] \in B /\ UpTo(B, g[p]) = UpTo(A, p)
    <2>1. PICK X : X = A \cap 1 .. p
        BY Zenon
    <2>2. PICK Y : Y = B \cap 1 .. g[p]
        BY ZenonT(40)
    <2>3. X \in SUBSET A /\ Y \in SUBSET B
        BY <2>1, <2>2, Zenon
    <2>4. ASSUME NEW n \in A PROVE n \in X <=> g[n] \in Y
        <3>1. n \in 1 .. a /\ p \in 1 .. a /\ g[n] \in 1 .. b /\ g[p] \in 1 .. b /\ g[n] \in B
            BY Zenon
        <3>2. n \in X <=> n <= p
            BY <2>1, <3>1
        <3>3. g[n] \in Y <=> g[n] <= g[p]
            BY <2>2, <3>1
        <3> QED
            BY <1>1, <3>1, <3>2, <3>3, ZenonT(40)
    <2>5. Cardinality(X) = Cardinality(Y)
        BY <1>2, <2>3, <2>4, ZenonT(40)
    <2> QED
        BY <2>1, <2>2, <2>5, ZenonT(40) DEF UpTo
<1>5. ASSUME NEW n \in 1 .. Cardinality(A) PROVE Place(n, B) = g[Place(n, A)]
    <2>1. PICK p \in A : p = Place(n, A) /\ UpTo(A, p) = n
        BY PlaceExists, Zenon
    <2>2. g[p] \in B /\ UpTo(B, g[p]) = n
        BY <1>4, <2>1, Zenon
    <2>3. Place(UpTo(B, g[p]), B) = g[p]
        BY <2>2, PlaceOrder, ZenonT(40)
    <2> QED
        BY <2>1, <2>2, <2>3, ZenonT(40)
<1> QED
    BY <1>3, <1>5, ZenonT(40)

\* Letters are positions, and in a slug everything but a hyphen is one.
LEMMA LettersAre ==
    ASSUME NEW S, NEW s \in Seq(S)
    PROVE  /\ Letters(s) \in SUBSET (1 .. Len(s))
           /\ \A i \in 1 .. Len(s) : i \in Letters(s) <=> Hyphenate(s[i]) \in Alphanumeric
           /\ IsSlug(s) => \A i \in 1 .. Len(s) : i \in Letters(s) <=> s[i] # "-"
<1>1. \A i \in 1 .. Len(s) : i \in Letters(s) <=> s[i] \in Alphanumeric \cup DOMAIN Lower
    BY DEF Letters
<1>2. Letters(s) \in SUBSET (1 .. Len(s))
    BY DEF Letters
<1>3. \A i \in 1 .. Len(s) : i \in Letters(s) <=> Hyphenate(s[i]) \in Alphanumeric
    BY <1>1, Characters, Zenon
<1>4. ASSUME IsSlug(s), NEW i \in 1 .. Len(s) PROVE i \in Letters(s) <=> s[i] # "-"
    <2>1. s[i] \in SlugCharacters
        BY <1>4 DEF IsSlug
    <2> QED
        BY <1>1, <2>1, Characters, ZenonT(40)
<1> QED
    BY <1>2, <1>3, <1>4, ZenonT(40)

\* Two places in a row have no position of P between them.
LEMMA PlacesInRow ==
    ASSUME NEW m \in Nat, NEW P \in SUBSET (1 .. m), NEW n \in 1 .. Cardinality(P) - 1
    PROVE  /\ Place(n, P) \in P /\ Place(n + 1, P) \in P /\ Place(n, P) < Place(n + 1, P)
           /\ \A x \in P : ~ (Place(n, P) < x /\ x < Place(n + 1, P))
<1>1. Cardinality(P) \in Nat
    BY PlaceOrder, Zenon
<1>2. n \in 1 .. Cardinality(P) /\ n + 1 \in 1 .. Cardinality(P) /\ n < n + 1 /\ n \in Nat
    BY <1>1
<1>3. PICK p, q \in P : p = Place(n, P) /\ q = Place(n + 1, P) /\ p < q
    BY <1>2, PlaceOrder, ZenonT(40)
<1>4. ASSUME NEW x \in P, p < x, x < q PROVE FALSE
    <2>1. PICK k \in 1 .. Cardinality(P) : Place(k, P) = x
        BY PlaceOrder, ZenonT(40)
    <2>2. k \in Nat /\ p \in Nat /\ q \in Nat /\ x \in Nat
        BY <1>1
    <2>3. k < n => x < p
        BY <1>2, <1>3, <2>1, PlaceOrder, ZenonT(40)
    <2>4. n + 1 < k => q < x
        BY <1>2, <1>3, <2>1, PlaceOrder, ZenonT(40)
    <2>5. k # n /\ k # n + 1
        BY <1>3, <1>4, <2>1, <2>2
    <2> QED
        BY <1>2, <1>4, <2>2, <2>3, <2>4, <2>5, SMTT(30)
<1> QED
    BY <1>3, <1>4, ZenonT(40)

\* The first place of P is 1 when 1 is in P, the last one m when m is.
LEMMA PlacesAtEnds ==
    ASSUME NEW m \in Nat, NEW P \in SUBSET (1 .. m), 1 \in P, m \in P
    PROVE  /\ Cardinality(P) \in Nat /\ 1 \in 1 .. Cardinality(P)
           /\ Place(1, P) = 1 /\ Place(Cardinality(P), P) = m
<1>1. PICK c \in Nat : c = Cardinality(P)
    BY PlaceOrder, ZenonT(40)
<1>0. \A i \in P : \E n \in 1 .. c : Place(n, P) = i
    BY <1>1, PlaceOrder, ZenonT(40)
<1>2. PICK k \in 1 .. c, l \in 1 .. c : Place(k, P) = 1 /\ Place(l, P) = m
    BY <1>0, Zenon
<1>3. 1 \in 1 .. c /\ c \in 1 .. c
    BY <1>2
<1>4. Place(1, P) \in P /\ Place(c, P) \in P
    BY <1>1, <1>3, PlaceOrder, ZenonT(40)
<1>5. \A n, i \in 1 .. c : n < i => Place(n, P) < Place(i, P)
    BY <1>1, PlaceOrder, ZenonT(40)
<1>6. (1 < k => Place(1, P) < 1) /\ (l < c => m < Place(c, P))
    BY <1>2, <1>3, <1>5, ZenonT(40)
<1>7. k = 1 /\ l = c
    <2>1. PICK x \in 1 .. m, y \in 1 .. m : x = Place(1, P) /\ y = Place(c, P)
        BY <1>4, ZenonT(40)
    <2>2. ~ (1 < k) /\ ~ (l < c)
        BY <1>5, <1>6, <2>1
    <2> QED
        BY <1>2, <2>2
<1> QED
    BY <1>1, <1>2, <1>3, <1>7, ZenonT(40)

\* The slug of a title reads as IsSlugOf says: the letters of the title in lower
\* case, one hyphen where separators stood between two of them, none elsewhere.
LEMMA SlugIsOfTitle ==
    ASSUME NEW S, NEW title \in Seq(S)
    PROVE  IsSlugOf(GenerateSlug(title), title)
<1>1. PICK slug : slug = GenerateSlug(title)
    BY Zenon
<1>2. IsSlug(slug)
    BY <1>1, GenerateSlugReads, ZenonT(40)
<1>3. PICK g : SlugReads(slug, g, title)
    BY <1>1, GenerateSlugReads, Zenon
<1>4. slug \in Seq(SlugCharacters) /\ Single(slug)
    BY <1>2, Zenon DEF IsSlug
<1>5. PICK m \in Nat, l \in Nat : m = Len(slug) /\ l = Len(title)
    BY <1>4
<1>6. PICK A \in SUBSET (1 .. m), B \in SUBSET (1 .. l) : A = Letters(slug) /\ B = Letters(title)
    BY <1>4, <1>5, LettersAre, ZenonT(40)
<1>7. /\ g \in [1 .. m -> 1 .. l]
      /\ \A n, k \in 1 .. m : n < k => g[n] < g[k]
      /\ \A n \in 1 .. m : slug[n] = Hyphenate(title[g[n]])
    BY <1>3, <1>5, ZenonT(40) DEF SlugReads
<1>8. /\ \A i \in 1 .. l : i \in B <=> Hyphenate(title[i]) \in Alphanumeric
      /\ \A n \in 1 .. m : n \in A <=> slug[n] # "-"
    BY <1>2, <1>4, <1>5, <1>6, LettersAre, ZenonT(40)
<1>9. \A n \in 1 .. m : n \in A <=> g[n] \in B
    <2> TAKE n \in 1 .. m
    <2>1. slug[n] \in SlugCharacters
        BY <1>4, <1>5
    <2>2. slug[n] # "-" <=> slug[n] \in Alphanumeric
        BY <2>1, Characters, ZenonT(40) DEF SlugCharacters
    <2>3. g[n] \in 1 .. l /\ slug[n] = Hyphenate(title[g[n]])
        BY <1>7, Zenon
    <2> QED
        BY <1>8, <2>2, <2>3, ZenonT(40)
<1>10. \A i \in B : \E n \in 1 .. m : g[n] = i
    BY <1>3, <1>5, <1>8, ZenonT(40) DEF SlugReads, Reached
<1>11. PICK c \in Nat : c = Cardinality(A) /\ c = Cardinality(B)
    <2>1. Cardinality(A) = Cardinality(B)
        <3>1. /\ Cardinality(A) = Cardinality(B)
              /\ \A n \in 1 .. Cardinality(A) : Place(n, B) = g[Place(n, A)]
            BY <1>7, <1>9, <1>10, SamePlaces, ZenonT(40)
        <3> QED
            BY <3>1, Zenon
    <2> QED
        BY <2>1, PlaceOrder, ZenonT(40)
<1>12. \A n \in 1 .. c : Place(n, A) \in A /\ Place(n, B) = g[Place(n, A)]
    <2>1. \A n \in 1 .. Cardinality(A) : Place(n, B) = g[Place(n, A)]
        BY <1>7, <1>9, <1>10, SamePlaces, ZenonT(40)
    <2> QED
        BY <1>11, <2>1, PlaceOrder, Zenon
<1>13. \A n \in 1 .. c : Letter(slug, n) = Place(n, A) /\ Letter(title, n) = Place(n, B)
    BY <1>6, Zenon DEF Letter
<1>14. Range(slug) \subseteq Alphanumeric \cup {"-"}
    BY <1>4 DEF Range, SlugCharacters
<1>15. ASSUME NEW n \in 1 .. c
       PROVE  slug[Letter(slug, n)] = ToLower(title[Letter(title, n)])
    <2>1. PICK p \in A : p = Place(n, A) /\ g[p] = Place(n, B)
        BY <1>12, <1>15, ZenonT(40)
    <2>2. p \in 1 .. m /\ g[p] \in 1 .. l /\ g[p] \in B
        BY <1>7, <1>9, <2>1, ZenonT(40)
    <2>3. slug[p] = ToLower(title[g[p]])
        BY <1>7, <1>8, <2>2, Characters, ZenonT(40)
    <2> QED
        BY <1>13, <2>1, <2>3, ZenonT(40)
<1>16. ASSUME NEW n \in 1 .. c - 1
       PROVE  Letter(slug, n + 1) - Letter(slug, n) = IF Gap(title, n) THEN 2 ELSE 1
    <2>0. n \in 1 .. c /\ n + 1 \in 1 .. c
        OBVIOUS
    <2>1. PICK p \in A, q \in A :
             /\ p = Place(n, A) /\ q = Place(n + 1, A) /\ p < q
             /\ \A x \in A : ~ (p < x /\ x < q)
        BY <1>11, PlacesInRow, ZenonT(40)
    <2>2. p \in 1 .. m /\ q \in 1 .. m /\ p \in Nat /\ q \in Nat
        BY <2>1
    <2>3. \A x \in 1 .. m : p < x /\ x < q => slug[x] = "-"
        BY <1>8, <2>1, ZenonT(40)
    <2>4. q <= p + 2
        <3> SUFFICES ASSUME p + 2 < q PROVE FALSE
            BY <2>2
        <3>1. /\ p + 1 \in 1 .. m /\ p + 2 \in 1 .. m /\ p + 1 \in 1 .. m - 1
              /\ p < p + 1 /\ p + 1 < q /\ p < p + 2
            BY <2>2
        <3>2. slug[p + 1] = "-" /\ slug[p + 2] = "-"
            BY <2>3, <3>1, ZenonT(40)
        <3>3. (p + 1) + 1 = p + 2
            BY <2>2
        <3> QED
            BY <1>4, <1>5, <3>1, <3>2, <3>3, ZenonT(40) DEF Single
    <2>5. PICK i \in B, k \in B : i = g[p] /\ k = g[q]
        BY <1>9, <2>2, ZenonT(40)
    <2>6. i \in 1 .. l /\ k \in 1 .. l /\ i < k
        BY <1>7, <2>1, <2>2, <2>5, ZenonT(40)
    <2>7. Letter(title, n) = i /\ Letter(title, n + 1) = k
        BY <1>12, <1>13, <2>0, <2>1, <2>5, ZenonT(40)
    <2>8. Letter(slug, n) = p /\ Letter(slug, n + 1) = q
        BY <1>13, <2>0, <2>1, ZenonT(40)
    <2>9. Gap(title, n) <=> \E j \in i .. k : Hyphenate(title[j]) = "-"
        BY <2>7, Characters, ZenonT(40) DEF Gap
    <2>10. CASE Gap(title, n)
        <3>1. PICK j \in i .. k : Hyphenate(title[j]) = "-"
            BY <2>9, <2>10, ZenonT(40)
        <3>2. Hyphenate(title[i]) \in Alphanumeric /\ Hyphenate(title[k]) \in Alphanumeric
            BY <1>8, <2>6, ZenonT(40)
        <3>3. i # j /\ j # k
            BY <3>1, <3>2, Characters, ZenonT(40)
        <3>4. j \in 1 .. l /\ i < j /\ j < k
            BY <2>6, <3>3
        <3>5. PICK x \in 1 .. m : i < g[x] /\ g[x] < k
            BY <1>3, <1>5, <2>6, <3>1, <3>2, <3>4, ZenonT(40) DEF SlugReads
        <3>6. p < x /\ x < q
            <4>1. g[x] \in 1 .. l
                BY <1>7, Zenon
            <4>2. (x < p => g[x] < g[p]) /\ (q < x => g[q] < g[x])
                BY <1>7, <2>2, ZenonT(40)
            <4>3. ~ (x < p) /\ ~ (q < x) /\ x # p /\ x # q
                BY <2>5, <2>6, <3>5, <4>1, <4>2, SMTT(30)
            <4> QED
                BY <2>2, <4>3
        <3>7. q - p = 2
            BY <2>2, <2>4, <3>6
        <3> QED
            BY <2>8, <2>10, <3>7, ZenonT(40)
    <2>11. CASE ~ Gap(title, n)
        <3>1. q = p + 1
            <4> SUFFICES ASSUME q # p + 1 PROVE FALSE
                BY Zenon
            <4>1. PICK x \in 1 .. m : x = p + 1 /\ p < x /\ x < q
                BY <2>1, <2>2, SMTT(30)
            <4>2. Hyphenate(title[g[x]]) = "-"
                BY <1>7, <2>3, <4>1, Zenon
            <4>3. g[p] < g[x] /\ g[x] < g[q] /\ g[x] \in 1 .. l
                BY <1>7, <2>2, <4>1, ZenonT(40)
            <4>4. g[x] \in i .. k
                BY <2>5, <2>6, <4>3
            <4> QED
                BY <2>9, <2>11, <4>2, <4>4, ZenonT(40)
        <3>2. q - p = 1
            BY <2>2, <3>1
        <3> QED
            BY <2>8, <2>11, <3>2, ZenonT(40)
    <2> QED
        BY <2>10, <2>11, ZenonT(40)
<1>17. Len(slug) = IF c = 0 THEN 0 ELSE Letter(slug, c) - Letter(slug, 1) + 1
    <2>1. CASE slug = <<>>
        <3>1. m = 0
            BY <1>5, <2>1, ZenonT(40)
        <3>2. A = {}
            BY <3>1
        <3> QED
            BY <1>5, <1>11, <3>1, <3>2, FS_EmptySet, ZenonT(40)
    <2>2. CASE slug # <<>>
        <3>1. 1 \in 1 .. m /\ m \in 1 .. m
            BY <1>4, <1>5, <2>2
        <3>2. slug[1] # "-" /\ slug[m] # "-"
            BY <1>2, <1>5, <2>2, ZenonT(40) DEF IsSlug
        <3>3. 1 \in A /\ m \in A
            BY <1>8, <3>1, <3>2, ZenonT(40)
        <3>4. 1 \in 1 .. c /\ Place(1, A) = 1 /\ Place(c, A) = m
            BY <1>11, <3>3, PlacesAtEnds, ZenonT(40)
        <3>5. Letter(slug, c) = m /\ Letter(slug, 1) = 1 /\ c # 0
            BY <1>6, <3>4 DEF Letter
        <3>6. m - 1 + 1 = m
            OBVIOUS
        <3> QED
            BY <1>5, <3>5, <3>6, ZenonT(40)
    <2> QED
        BY <2>1, <2>2, ZenonT(40)
<1>18. IsSlugOf(slug, title)
    BY <1>6, <1>11, <1>14, <1>15, <1>16, <1>17, ZenonT(40) DEF IsSlugOf
<1> QED
    BY <1>1, <1>18, ZenonT(40)

\* Picking every position changes nothing.
LEMMA PickAll ==
    ASSUME NEW S, NEW s \in Seq(S), NEW P, P = 1 .. Len(s)
    PROVE  Pick(s, P) = s
<1>1. PICK m \in Nat : m = Len(s) /\ P = 1 .. m /\ P \in SUBSET (1 .. m)
    OBVIOUS
<1>2. Cardinality(P) = m
    <2>1. Cardinality(1 .. m) = m
        <3>1. 1 \in Int /\ m \in Int
            OBVIOUS
        <3>2. Cardinality(1 .. m) = IF 1 > m THEN 0 ELSE m - 1 + 1
            BY <3>1, FS_Interval, Zenon
        <3> QED
            BY <3>2
    <2> QED
        BY <1>1, <2>1, ZenonT(40)
<1>3. ASSUME NEW n \in 1 .. m PROVE Place(n, P) = n
    <2>1. P \cap 1 .. n = 1 .. n /\ n \in Nat
        BY <1>1
    <2>2. Cardinality(1 .. n) = n
        BY <2>1, FS_Interval
    <2>3. UpTo(P, n) = n
        BY <2>1, <2>2, ZenonT(40) DEF UpTo
    <2>4. Place(UpTo(P, n), P) = n
        BY <1>1, PlaceOrder, ZenonT(40)
    <2> QED
        BY <2>3, <2>4, ZenonT(40)
<1>4. Pick(s, P) = [n \in 1 .. m |-> s[n]]
    BY <1>2, <1>3, ZenonT(40) DEF Pick
<1> QED
    BY <1>1, <1>4

\* A slug is its own slug: no step of GenerateSlug has anything left to change.
LEMMA SlugIsFixed ==
    ASSUME NEW t, IsSlug(t)
    PROVE  GenerateSlug(t) = t
<1>1. t \in Seq(SlugCharacters) /\ Single(t) /\ (t # <<>> => t[1] # "-" /\ t[Len(t)] # "-")
    BY Zenon DEF IsSlug
<1>2. Len(t) \in Nat /\ DOMAIN t = 1 .. Len(t) /\ \A i \in 1 .. Len(t) : t[i] \in SlugCharacters
    BY <1>1
<1>3. PICK h : h = [i \in DOMAIN t |-> ReplaceAll(ToLower(t[i]))]
    BY ZenonT(40)
<1>4. h = t
    <2>1. \A i \in DOMAIN t : ReplaceAll(ToLower(t[i])) = t[i]
        BY <1>2, Characters, Zenon DEF Hyphenate
    <2>2. h = [i \in 1 .. Len(t) |-> t[i]]
        BY <1>2, <1>3, <2>1, ZenonT(40)
    <2> QED
        BY <1>1, <2>2
<1>5. Keep(t, SlugCharacters) = t
    <2>1. {i \in DOMAIN t : t[i] \in SlugCharacters} = 1 .. Len(t)
        BY <1>2, Zenon
    <2> QED
        BY <1>1, <2>1, PickAll, ZenonT(40) DEF Keep
<1>6. Squeeze(t) = t
    <2>1. ASSUME NEW i \in 1 .. Len(t), i # 1 PROVE t[i] # "-" \/ t[i - 1] # "-"
        <3>1. i - 1 \in 1 .. Len(t) - 1 /\ (i - 1) + 1 = i
            BY <1>2, <2>1
        <3> QED
            BY <1>1, <3>1, ZenonT(40) DEF Single
    <2>2. {i \in DOMAIN t : i = 1 \/ t[i] # "-" \/ t[i - 1] # "-"} = 1 .. Len(t)
        BY <1>2, <2>1, ZenonT(40)
    <2> QED
        BY <1>1, <2>2, PickAll, ZenonT(40) DEF Squeeze
<1>7. TrimLeft(t) = t /\ TrimRight(t) = t
    BY <1>1 DEF TrimLeft, TrimRight
<1>8. GenerateSlug(t) = TrimRight(TrimLeft(Squeeze(Keep(h, SlugCharacters))))
    BY <1>3, Zenon DEF GenerateSlug, SlugCharacters
<1> QED
    BY <1>4, <1>5, <1>6, <1>7, <1>8, ZenonT(40)

\* One list after another.
LEMMA JoinedList ==
    ASSUME NEW S, NEW s \in Seq(S), NEW t \in Seq(S)
    PROVE  /\ s \o t \in Seq(S) /\ Len(s \o t) = Len(s) + Len(t)
           /\ \A n \in 1 .. Len(s) + Len(t) :
                 (s \o t)[n] = IF n <= Len(s) THEN s[n] ELSE t[n - Len(s)]
<1>1. s \o t \in Seq(S)
    OBVIOUS
<1>2. Len(s \o t) = Len(s) + Len(t)
    OBVIOUS
<1>3. \A n \in 1 .. Len(s) + Len(t) : (s \o t)[n] = IF n <= Len(s) THEN s[n] ELSE t[n - Len(s)]
    OBVIOUS
<1> QED
    BY <1>1, <1>2, <1>3, ZenonT(40)

\* A slug with a number after it is a slug.
LEMMA NumberedIsSlug ==
    ASSUME NEW base, IsSlug(base), base # <<>>, NEW i \in 1 .. 99
    PROVE  IsSlug(NumberedSlug(base, i)) /\ NumberedSlug(base, i) # <<>>
<1>1. base \in Seq(SlugCharacters) /\ Single(base) /\ base[1] # "-" /\ base[Len(base)] # "-"
    BY Zenon DEF IsSlug
<1>2. PICK d : d = Decimal(i)
    BY Zenon
<1>3. d \in Seq(Alphanumeric) /\ d # <<>> /\ Len(d) \in 1 .. 2
    <2>1. \A k \in 0 .. 9 : Digit[k + 1] \in Alphanumeric
        BY DEF Digit, Alphanumeric
    <2>2. i \div 10 \in 0 .. 9 /\ i % 10 \in 0 .. 9 /\ (i < 10 => i \in 0 .. 9)
        OBVIOUS
    <2>3. CASE i < 10
        <3>1. d = <<Digit[i + 1]>> /\ Digit[i + 1] \in Alphanumeric
            BY <1>2, <2>1, <2>2, <2>3, ZenonT(40) DEF Decimal
        <3> QED
            BY <3>1
    <2>4. CASE ~ (i < 10)
        <3>1. PICK x \in Alphanumeric, y \in Alphanumeric : d = <<x, y>>
            BY <1>2, <2>1, <2>2, <2>4, ZenonT(40) DEF Decimal
        <3> QED
            BY <3>1
    <2> QED
        BY <2>3, <2>4, ZenonT(40)
<1>4. "-" \notin Alphanumeric
    BY Zenon DEF Alphanumeric
<1>5. PICK s : s = base \o <<"-">> \o d
    BY ZenonT(40)
<1>6. PICK m \in Nat, k \in 1 .. 2 : m = Len(base) /\ k = Len(d) /\ 0 < m
    BY <1>1, <1>3
<1>7. /\ s \in Seq(SlugCharacters) /\ Len(s) = m + 1 + k
      /\ \A n \in 1 .. m : s[n] = base[n]
      /\ s[m + 1] = "-"
      /\ \A n \in 1 .. k : s[m + 1 + n] = d[n]
    <2>1. <<"-">> \in Seq(SlugCharacters) /\ d \in Seq(SlugCharacters)
        BY <1>3 DEF SlugCharacters
    <2>2. PICK u : u = base \o <<"-">>
        BY ZenonT(40)
    <2>3. u \in Seq(SlugCharacters) /\ Len(u) = m + 1
        BY <1>1, <1>6, <2>1, <2>2
    <2>4. (\A n \in 1 .. m : u[n] = base[n]) /\ u[m + 1] = "-"
        BY <1>1, <1>6, <2>1, <2>2
    <2>5. s = u \o d
        BY <1>5, <2>2, Zenon
    <2>6. s \in Seq(SlugCharacters) /\ Len(s) = m + 1 + k
        <3>1. s \in Seq(SlugCharacters) /\ Len(s) = Len(u) + Len(d)
            BY <2>1, <2>3, <2>5, JoinedList, ZenonT(40)
        <3> QED
            BY <1>6, <2>3, <3>1, ZenonT(40)
    <2>7. (\A n \in 1 .. m + 1 : s[n] = u[n]) /\ \A n \in 1 .. k : s[m + 1 + n] = d[n]
        <3>1. \A n \in 1 .. Len(u) + Len(d) : s[n] = IF n <= Len(u) THEN u[n] ELSE d[n - Len(u)]
            BY <2>1, <2>3, <2>5
        <3>2. \A n \in 1 .. m + 1 : n \in 1 .. Len(u) + Len(d) /\ n <= Len(u)
            BY <1>6, <2>3
        <3>3. \A n \in 1 .. k : /\ m + 1 + n \in 1 .. Len(u) + Len(d)
                                /\ ~ (m + 1 + n <= Len(u)) /\ (m + 1 + n) - Len(u) = n
            BY <1>6, <2>3
        <3> QED
            BY <3>1, <3>2, <3>3, ZenonT(40)
    <2> QED
        BY <2>4, <2>6, <2>7
<1>8. \A n \in 1 .. k : s[m + 1 + n] # "-"
    BY <1>3, <1>4, <1>6, <1>7
<1>9. Single(s)
    <2> SUFFICES ASSUME NEW n \in 1 .. m + k PROVE s[n] # "-" \/ s[n + 1] # "-"
        BY <1>7 DEF Single
    <2>1. CASE n \in 1 .. m - 1
        <3>1. n \in 1 .. m /\ n + 1 \in 1 .. m
            BY <2>1
        <3> QED
            BY <1>1, <1>6, <1>7, <2>1, <3>1, ZenonT(40) DEF Single
    <2>2. CASE n = m
        BY <1>1, <1>6, <1>7, <2>2
    <2>3. CASE n \in m + 1 .. m + k
        <3>1. PICK x \in 1 .. k : n + 1 = m + 1 + x
            <4>1. n - m \in 1 .. k /\ n + 1 = m + 1 + (n - m)
                BY <2>3
            <4> QED
                BY <4>1, Zenon
        <3> QED
            BY <1>8, <3>1, ZenonT(40)
    <2> QED
        BY <2>1, <2>2, <2>3
<1>10. s # <<>> /\ s[1] # "-" /\ s[Len(s)] # "-"
    <2>1. 1 \in 1 .. m /\ k \in 1 .. k
        BY <1>6
    <2>2. s[1] # "-" /\ s[Len(s)] # "-"
        BY <1>1, <1>7, <1>8, <2>1, ZenonT(40)
    <2>3. s # <<>>
        BY <1>6, <1>7
    <2> QED
        BY <2>2, <2>3, ZenonT(40)
<1> QED
    BY <1>2, <1>5, <1>7, <1>9, <1>10, ZenonT(40) DEF IsSlug, NumberedSlug

\* Every title, of any length and any characters, has the slug that the comments
\* of GenerateSlug describe: its letters and digits in lower case, one hyphen
\* exactly where a separator stood between two of them, none at the ends; and that
\* slug is its own slug.
THEOREM EveryTitleHasItsSlug == \A S : \A title \in Seq(S) : HasSlug(title)
<1> SUFFICES ASSUME NEW S, NEW title \in Seq(S) PROVE HasSlug(title)
    BY Zenon
<1>1. IsSlugOf(GenerateSlug(title), title)
    BY SlugIsOfTitle, Zenon
<1>2. IsSlug(GenerateSlug(title))
    BY GenerateSlugReads, Zenon
<1>3. GenerateSlug(GenerateSlug(title)) = GenerateSlug(title)
    BY <1>2, SlugIsFixed, Zenon
<1> QED
    BY <1>1, <1>3, Zenon DEF HasSlug
-----------------------------------------------------------------------------
(* Slugs of requests.                                                        *)

\* A request that was given a slug has a canonical one, and while it is trying it
\* has not run out of attempts.
SlugOK(r) ==
    /\ DOMAIN r = DOMAIN NoRequest
    /\ r.base # <<>> => /\ IsSlug(r.base) /\ IsSlug(r.slug)
                        /\ r.pc = "create" => r.i \in 1 .. SlugAttempts

SlugInv ==
    /\ requests = [q \in Requests |-> requests[q]]
    /\ \A q \in Requests : SlugOK(requests[q])

\* A step of request q.
LEMMA SlugWritten ==
    ASSUME SlugInv, NEW q \in Requests, NEW x,
           requests' = [requests EXCEPT ![q] = x], SlugOK(x)
    PROVE  SlugInv'
<1>1. requests = [o \in Requests |-> requests[o]] /\ \A o \in Requests : SlugOK(requests[o])
    BY Zenon DEF SlugInv
<1>2. \A o \in Requests : requests'[o] = IF o = q THEN x ELSE requests[o]
    BY <1>1, Zenon
<1>3. requests' = [o \in Requests |-> requests'[o]]
    BY <1>1, Zenon
<1>4. \A o \in Requests : SlugOK(requests'[o])
    BY <1>1, <1>2, ZenonT(40)
<1>5. SlugInv' = (/\ requests' = [o \in Requests |-> requests'[o]]
                  /\ \A o \in Requests : SlugOK(requests'[o]))
    BY Zenon DEF SlugInv, SlugOK
<1> QED
    BY <1>3, <1>4, <1>5, ZenonT(40)

\* A request without a title has no slug; neither has one that ended.
LEMMA SlugEnd ==
    ASSUME SlugInv, NEW q \in Requests, End(q)
    PROVE  SlugInv'
<1>1. SlugOK(Done)
    BY Zenon DEF SlugOK, Done, NoRequest
<1> QED
    BY <1>1, SlugWritten, ZenonT(40) DEF End

\* A request that goes on with what it was given, and is not about to create.
LEMMA SlugGoesOn ==
    ASSUME SlugInv, NEW q \in Requests, NEW x, requests' = [requests EXCEPT ![q] = x],
           DOMAIN x = DOMAIN NoRequest, x.base = requests[q].base, x.slug = requests[q].slug,
           x.pc # "create"
    PROVE  SlugInv'
<1>1. SlugOK(x)
    BY Zenon DEF SlugOK, SlugInv
<1> QED
    BY <1>1, SlugWritten, ZenonT(40)

\* CreateProblem: the slug of the title.
LEMMA SlugCreateProblem ==
    ASSUME SlugInv, NEW q \in Requests, NEW title \in Titles, NEW visibility,
           CreateProblem(q, title, visibility)
    PROVE  SlugInv'
<1>1. PICK slug : slug = GenerateSlug(title)
    BY Zenon
<1>2. PICK x : x = [NoRequest EXCEPT !.pc = "create", !.base = slug, !.slug = slug, !.i = 1,
                                     !.visibility = visibility]
    BY Zenon
<1>3. requests' = [requests EXCEPT ![q] = x]
    BY <1>1, <1>2, ZenonT(40) DEF CreateProblem
<1>4. IsSlug(slug)
    <2>1. title \in Seq(Range(title))
        BY CatalogAssumption, Zenon
    <2> QED
        BY <1>1, <2>1, GenerateSlugReads, ZenonT(40)
<1>5. DOMAIN x = DOMAIN NoRequest /\ x.base = slug /\ x.slug = slug /\ x.i = 1
    BY <1>2, ZenonT(40) DEF NoRequest
<1>6. 1 \in 1 .. SlugAttempts
    BY CatalogAssumption
<1>7. SlugOK(x)
    BY <1>4, <1>5, <1>6, ZenonT(40) DEF SlugOK
<1> QED
    BY <1>3, <1>7, SlugWritten, ZenonT(40)

\* RepoCreate: the row is inserted, or the next number is appended.
LEMMA SlugRepoCreate ==
    ASSUME SlugInv, NEW q \in Requests, RepoCreate(q)
    PROVE  SlugInv'
<1>1. CASE InsertProblem(q)
    BY <1>1, SlugEnd, ZenonT(40) DEF InsertProblem
<1>2. CASE ~ InsertProblem(q)
    <2>1. PICK r : r = requests[q]
        BY Zenon
    <2>2. DOMAIN r = DOMAIN NoRequest /\ SlugOK(r) /\ r.pc = "create"
        BY <2>1, Zenon DEF SlugInv, SlugOK, RepoCreate
    <2>3. PICK slug, pc : /\ slug = NumberedSlug(r.base, r.i)
                          /\ pc = IF r.i < SlugAttempts THEN "create" ELSE "gaveup"
        BY Zenon
    <2>4. PICK x : x = [r EXCEPT !.slug = slug, !.i = @ + 1, !.pc = pc]
        BY Zenon
    <2>5. requests' = [requests EXCEPT ![q] = x]
        BY <1>2, <2>1, <2>3, <2>4, ZenonT(40) DEF RepoCreate
    <2>6. DOMAIN x = DOMAIN NoRequest /\ x.base = r.base /\ x.slug = slug /\ x.i = r.i + 1 /\ x.pc = pc
        BY <2>2, <2>4, ZenonT(40) DEF NoRequest
    <2>7. ASSUME r.base # <<>> PROVE SlugOK(x)
        <3>1. PICK i : i = r.i
            BY Zenon
        <3>2. i \in 1 .. SlugAttempts /\ IsSlug(r.base) /\ SlugAttempts \in 1 .. 99
            BY <2>2, <2>7, <3>1, CatalogAssumption, ZenonT(40) DEF SlugOK
        <3>3. i \in 1 .. 99 /\ (i < SlugAttempts => i + 1 \in 1 .. SlugAttempts)
            BY <3>2
        <3>4. IsSlug(slug)
            BY <2>3, <2>7, <3>1, <3>2, <3>3, NumberedIsSlug, ZenonT(40)
        <3>5. x.pc = "create" => x.i \in 1 .. SlugAttempts
            BY <2>3, <2>6, <3>1, <3>3, ZenonT(40)
        <3> QED
            BY <2>6, <3>2, <3>4, <3>5, ZenonT(40) DEF SlugOK
    <2>8. r.base = <<>> => SlugOK(x)
        BY <2>6, Zenon DEF SlugOK
    <2> QED
        BY <2>5, <2>7, <2>8, SlugWritten, ZenonT(40)
<1> QED
    BY <1>1, <1>2, ZenonT(40)

\* A request that begins without a title.
LEMMA SlugNone ==
    ASSUME SlugInv, NEW q \in Requests, NEW x, requests' = [requests EXCEPT ![q] = x],
           DOMAIN x = DOMAIN NoRequest, x.base = <<>>
    PROVE  SlugInv'
<1>1. SlugOK(x)
    BY Zenon DEF SlugOK
<1> QED
    BY <1>1, SlugWritten, ZenonT(40)

\* A request that arrives.
LEMMA SlugArrive ==
    ASSUME SlugInv, NEW q \in Requests, Arrive(q)
    PROVE  SlugInv'
<1>1. CASE \E t \in Titles, v \in {"draft", "published"} : CreateProblem(q, t, v)
    BY <1>1, SlugCreateProblem, ZenonT(40)
<1>2. CASE \E p \in 1 .. born : DeleteProblem(q, p)
    <2>1. PICK p \in 1 .. born : DeleteProblem(q, p)
        BY <1>2, Zenon
    <2>2. PICK x : x = IF p \in Problems THEN [NoRequest EXCEPT !.pc = "cascade", !.p = p] ELSE Done
        BY Zenon
    <2>3. requests' = [requests EXCEPT ![q] = x]
        BY <2>1, <2>2, ZenonT(40) DEF DeleteProblem
    <2>4. DOMAIN x = DOMAIN NoRequest /\ x.base = <<>>
        BY <2>2, Zenon DEF NoRequest, Done
    <2> QED
        BY <2>3, <2>4, SlugNone, ZenonT(40)
<1>3. ASSUME NEW kind, NEW p, NEW l, BeginSet(q, kind, p, l) PROVE SlugInv'
    <2>1. PICK s : s = IF p \in Problems THEN links[kind][p] ELSE {}
        BY ZenonT(40)
    <2>2. PICK x : x = [NoRequest EXCEPT !.pc = "deleting", !.kind = kind, !.p = p, !.list = l,
                                         !.rest = l, !.snap = s]
        BY Zenon
    <2>3. requests' = [requests EXCEPT ![q] = x]
        BY <1>3, <2>1, <2>2, ZenonT(40) DEF BeginSet
    <2>4. DOMAIN x = DOMAIN NoRequest /\ x.base = <<>>
        BY <2>2, ZenonT(40) DEF NoRequest
    <2> QED
        BY <2>3, <2>4, SlugNone, ZenonT(40)
<1>4. ASSUME NEW n, CreateTag(q, n) PROVE SlugInv'
    <2>1. PICK x : x = IF n \in tags THEN Done ELSE [NoRequest EXCEPT !.pc = "tag", !.list = <<n>>]
        BY Zenon
    <2>2. requests' = [requests EXCEPT ![q] = x]
        BY <1>4, <2>1, ZenonT(40) DEF CreateTag
    <2>3. DOMAIN x = DOMAIN NoRequest /\ x.base = <<>>
        BY <2>1, ZenonT(40) DEF NoRequest, Done
    <2> QED
        BY <2>2, <2>3, SlugNone, Zenon
<1>5. ASSUME NEW p, GetHint(q, p) PROVE SlugInv'
    <2>1. PICK x : x = [NoRequest EXCEPT !.pc = "save", !.p = p, !.prompt = GetHintHistory(p)]
        BY Zenon
    <2>2. requests' = [requests EXCEPT ![q] = x]
        BY <1>5, <2>1, ZenonT(40) DEF GetHint
    <2>3. DOMAIN x = DOMAIN NoRequest /\ x.base = <<>>
        BY <2>1, Zenon DEF NoRequest
    <2> QED
        BY <2>2, <2>3, SlugNone, Zenon
<1>6. CASE \/ \E p \in 1 .. born, l \in TagLists : UpdateProblemTags(q, p, l)
           \/ \E p \in 1 .. born, l \in LanguageLists : UpdateProblemLanguages(q, p, l)
    BY <1>3, <1>6, ZenonT(40) DEF UpdateProblemTags, UpdateProblemLanguages
<1>7. CASE \/ \E p \in 1 .. born, e \in Edits : UpdateProblem(q, p, e)
           \/ \E k \in LanguageKeys, e \in BOOLEAN : CreateLanguage(q, k, e)
           \/ \E p \in 1 .. born, h \in BOOLEAN : CreateTestCase(q, p, h)
           \/ \E t \in 1 .. MaxTests, h \in BOOLEAN : UpdateTestCase(q, t, h)
           \/ \E t \in 1 .. MaxTests : DeleteTestCase(q, t)
           \/ \E p \in Problems, k \in {"submit", "run"} : Submit(q, p, k)
           \/ \E f \in Filters : StartWalk(q, f)
    <2>1. End(q)
        BY <1>7, ZenonT(40) DEF UpdateProblem, CreateLanguage, CreateTestCase, UpdateTestCase,
           DeleteTestCase, Submit, StartWalk
    <2> QED
        BY <2>1, SlugEnd, ZenonT(40)
<1> QED
    BY <1>1, <1>2, <1>4, <1>5, <1>6, <1>7, ZenonT(40) DEF Arrive

\* CommitSet leaves slugs alone, its own and those of the requests it tells.
LEMMA SlugCommitSet ==
    ASSUME SlugInv, NEW q \in Requests, CommitSet(q)
    PROVE  SlugInv'
<1> PICK r : r = requests[q]
    BY Zenon
<1>1. ASSUME NEW o \in Requests PROVE SlugOK(requests'[o])
    <2>1. DOMAIN requests[o] = DOMAIN NoRequest /\ SlugOK(requests[o])
        BY ZenonT(40) DEF SlugInv, SlugOK
    <2>2. \/ requests'[o] = Done \/ requests'[o] = requests[o]
          \/ requests'[o] = [requests[o] EXCEPT !.snap = @ \ r.deleted, !.since = @ \cup r.inserted,
                                                !.undone = @ \cup r.deleted]
        BY Zenon DEF CommitSet
    <2>3. CASE requests'[o] = Done
        BY <2>3, ZenonT(40) DEF SlugOK, Done, NoRequest
    <2>4. CASE requests'[o] = requests[o]
        BY <2>1, <2>4, ZenonT(40)
    <2>5. CASE requests'[o] = [requests[o] EXCEPT !.snap = @ \ r.deleted, !.since = @ \cup r.inserted,
                                                  !.undone = @ \cup r.deleted]
        <3>1. /\ DOMAIN requests'[o] = DOMAIN NoRequest
              /\ requests'[o].base = requests[o].base /\ requests'[o].slug = requests[o].slug
              /\ requests'[o].i = requests[o].i /\ requests'[o].pc = requests[o].pc
            BY <2>1, <2>5, ZenonT(40) DEF NoRequest
        <3> QED
            BY <2>1, <3>1, ZenonT(40) DEF SlugOK
    <2> QED
        BY <2>2, <2>3, <2>4, <2>5, ZenonT(40)
<1>2. requests' = [o \in Requests |-> requests'[o]]
    BY Zenon DEF CommitSet
<1>3. SlugInv' = (/\ requests' = [o \in Requests |-> requests'[o]]
                  /\ \A o \in Requests : SlugOK(requests'[o]))
    BY Zenon DEF SlugInv, SlugOK
<1> QED
    BY <1>1, <1>2, <1>3, ZenonT(40)

\* A request in progress makes a step or fails.
LEMMA SlugRequest ==
    ASSUME SlugInv, NEW q \in Requests, RequestStep(q) \/ RequestFails(q)
    PROVE  SlugInv'
<1>0. PICK r : r = requests[q] /\ DOMAIN r = DOMAIN NoRequest /\ DOMAIN requests = Requests
    BY Zenon DEF SlugInv, SlugOK
<1>1. CASE RepoCreate(q)
    BY <1>1, SlugRepoCreate, Zenon
<1>2. CASE DeleteSet(q)
    <2>1. PICK x : x = [r EXCEPT !.pc = "insert", !.deleted = r.snap]
        BY Zenon
    <2>2. requests' = [requests EXCEPT ![q] = x]
        BY <1>0, <1>2, <2>1, ZenonT(40) DEF DeleteSet
    <2>3. DOMAIN x = DOMAIN NoRequest /\ x.base = r.base /\ x.slug = r.slug /\ x.pc = "insert"
        BY <1>0, <2>1, ZenonT(40) DEF NoRequest
    <2> QED
        BY <1>0, <2>2, <2>3, SlugGoesOn, ZenonT(40)
<1>3. ASSUME requests' = [requests EXCEPT ![q] = Inserted(q)], r.pc = "insert" PROVE SlugInv'
    <2>1. PICK x : x = Inserted(q)
        BY Zenon
    <2>2. DOMAIN x = DOMAIN NoRequest /\ x.base = r.base /\ x.slug = r.slug /\ x.pc = "insert"
        BY <1>0, <1>3, <2>1, ZenonT(40) DEF NoRequest, Inserted
    <2> QED
        BY <1>0, <1>3, <2>1, <2>2, SlugGoesOn, ZenonT(40)
<1>4. ASSUME requests' = [requests EXCEPT ![q].rest = Tail(@)], r.pc = "insert" PROVE SlugInv'
    <2>1. PICK x : x = [r EXCEPT !.rest = Tail(@)]
        BY Zenon
    <2>2. requests' = [requests EXCEPT ![q] = x]
        BY <1>0, <1>4, <2>1, ZenonT(40)
    <2>3. DOMAIN x = DOMAIN NoRequest /\ x.base = r.base /\ x.slug = r.slug /\ x.pc = "insert"
        BY <1>0, <1>4, <2>1, ZenonT(40) DEF NoRequest
    <2> QED
        BY <1>0, <2>2, <2>3, SlugGoesOn, Zenon
<1>5. CASE InsertTag(q)
    <2>1. r.pc = "insert" /\ (requests' = [requests EXCEPT ![q] = Inserted(q)] \/ End(q))
        BY <1>0, <1>5, ZenonT(40) DEF InsertTag, Ready
    <2> QED
        BY <1>3, <2>1, SlugEnd, ZenonT(40)
<1>6. CASE InsertLanguage(q)
    <2>1. /\ r.pc = "insert"
          /\ \/ requests' = [requests EXCEPT ![q].rest = Tail(@)]
             \/ requests' = [requests EXCEPT ![q] = Inserted(q)]
             \/ End(q)
        BY <1>0, <1>6, ZenonT(40) DEF InsertLanguage, Ready
    <2> QED
        BY <1>3, <1>4, <2>1, SlugEnd, ZenonT(40)
<1>7. CASE CommitSet(q)
    BY <1>7, SlugCommitSet, Zenon
<1>8. CASE SaveQuestion(q)
    <2>1. CASE End(q)
        BY <2>1, SlugEnd, Zenon
    <2>2. CASE ~ End(q)
        <3>1. PICK x : x = [r EXCEPT !.pc = "ask", !.prompt = Append(@, Question(q))]
            BY Zenon
        <3>2. requests' = [requests EXCEPT ![q] = x]
            BY <1>0, <1>8, <2>2, <3>1, ZenonT(40) DEF SaveQuestion
        <3>3. DOMAIN x = DOMAIN NoRequest /\ x.base = r.base /\ x.slug = r.slug /\ x.pc = "ask"
            BY <1>0, <3>1, ZenonT(40) DEF NoRequest
        <3> QED
            BY <1>0, <3>2, <3>3, SlugGoesOn, ZenonT(40)
    <2> QED
        BY <2>1, <2>2, ZenonT(40)
<1>9. CASE GenerateText(q)
    <2>1. PICK x : x = [r EXCEPT !.pc = "reply"]
        BY Zenon
    <2>2. requests' = [requests EXCEPT ![q] = x]
        BY <1>0, <1>9, <2>1, ZenonT(40) DEF GenerateText
    <2>3. DOMAIN x = DOMAIN NoRequest /\ x.base = r.base /\ x.slug = r.slug /\ x.pc = "reply"
        BY <1>0, <2>1, ZenonT(40) DEF NoRequest
    <2> QED
        BY <1>0, <2>2, <2>3, SlugGoesOn, ZenonT(40)
<1>10. CASE \/ RepoDelete(q) \/ DeadlockVictim(q) \/ InsertTagRow(q) \/ SaveAnswer(q)
            \/ StatementFails(q) \/ GenerateTextFails(q)
    <2>1. End(q)
        BY <1>10, ZenonT(40) DEF RepoDelete, DeadlockVictim, InsertTagRow, SaveAnswer, StatementFails,
           GenerateTextFails
    <2> QED
        BY <2>1, SlugEnd, ZenonT(40)
<1> QED
    BY <1>1, <1>2, <1>5, <1>6, <1>7, <1>8, <1>9, <1>10, ZenonT(40) DEF RequestStep, RequestFails

\* Every step.
LEMMA SlugNext == SlugInv /\ [Next]_vars => SlugInv'
<1> SUFFICES ASSUME SlugInv, [Next]_vars PROVE SlugInv'
    BY Zenon
<1>1. ASSUME requests' = requests PROVE SlugInv'
    BY <1>1, Zenon DEF SlugInv, SlugOK
<1>2. CASE \E q \in Requests : Arrive(q) \/ RequestStep(q) \/ RequestFails(q)
    BY <1>2, SlugArrive, SlugRequest, ZenonT(40)
<1>3. CASE \/ \E s \in DOMAIN submissions, v \in {"accepted", "wrong_answer"} : SaveResult(s, v)
           \/ \E s \in DOMAIN submissions : UpdateStatus(s)
           \/ WalkStep \/ ListFails \/ Quiet
    <2>1. requests' = requests
        BY <1>3, Zenon DEF SaveResult, UpdateStatus, WalkStep, RepoList, RepoCount, GetProblemTags,
           GetAcceptanceRates, GetSolvedProblemIDs, NextPage, ListFails, Quiet
    <2> QED
        BY <1>1, <2>1, Zenon
<1>4. CASE UNCHANGED vars
    BY <1>1, <1>4, Zenon DEF vars
<1> QED
    BY <1>2, <1>3, <1>4, ZenonT(40) DEF Next

\* The slugs that CreateProblem tries are canonical, whatever the titles are and
\* however many attempts it takes, up to the two digits of the number.
THEOREM SlugsAreCanonical == Spec => []SlugCanonical
<1>1. Init => SlugInv
    <2> SUFFICES ASSUME Init, NEW q \in Requests PROVE SlugOK(requests[q])
        BY Zenon DEF SlugInv, Init
    <2>1. requests[q] = NoRequest
        BY Zenon DEF Init
    <2>2. NoRequest.base = <<>>
        BY Zenon DEF NoRequest
    <2> QED
        BY <2>1, <2>2, ZenonT(40) DEF SlugOK
<1>2. SlugInv => SlugCanonical
    <2> HAVE SlugInv
    <2>1. TitlesCanonical
        <3>0. \A n \in 0 .. 4 : n \in Nat
            OBVIOUS
        <3> DEFINE C == {"a", "B", "1", " ", "-", "!"}
        <3> SUFFICES ASSUME NEW n \in 0 .. 4, NEW title \in [1 .. n -> C] PROVE HasSlug(title)
            BY Zenon DEF TitlesCanonical
        <3>1. n \in Nat
            BY <3>0, Zenon
        <3>2. title \in Seq(C)
            <4> HIDE DEF C
            <4> QED
                BY <3>1, FunctionIsList, Zenon
        <3> QED
            BY <3>2, EveryTitleHasItsSlug, ZenonT(40)
    <2>2. \A q \in Requests : requests[q].base # <<>> => GenerateSlug(requests[q].slug) = requests[q].slug
        BY SlugIsFixed, Zenon DEF SlugInv, SlugOK
    <2> QED
        BY <2>1, <2>2, Zenon DEF SlugCanonical
<1> QED
    BY <1>1, <1>2, SlugNext, PTL DEF Spec
=============================================================================
