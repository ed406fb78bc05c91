--------------------------- MODULE Shapes_proofs ---------------------------
(***************************************************************************)
(* What holds of shapes of any size and dimension: their numbering, and    *)
(* what a traversal makes of them (core/ogposet.rs).                       *)
(***************************************************************************)
EXTENDS Shapes, WellFoundedInduction, FiniteSetTheorems, TLAPS

----------------------------------------------------------------------------
(* Numbers, and functions on them.                                         *)

Less == OpToRel(<, Nat)

LEMMA LessIs == \A i, j \in Nat : <<i, j>> \in Less <=> i < j
  BY DEF Less, OpToRel

LEMMA LessIsWellFounded == IsWellFoundedOn(Less, Nat)
  BY NatLessThanWellFounded DEF Less

\* What holds of 0 and of each successor holds of every number.
LEMMA Upwards ==
    ASSUME NEW S, 0 \in S, \A n \in Nat : n \in S => n + 1 \in S
    PROVE  Nat \subseteq S
<1>. DEFINE out == Nat \ S
<1>1. SUFFICES ASSUME out # {} PROVE FALSE
  OBVIOUS
<1>2. out \in SUBSET Nat
  OBVIOUS
<1>. HIDE DEF out
<1>3. PICK i \in out : \A j \in out : ~(<<j, i>> \in Less)
  BY <1>1, <1>2, LessIsWellFounded, WFMin
<1>. USE DEF out
<1>4. i \in Nat /\ i # 0 /\ i \notin S
  OBVIOUS
<1>5. i - 1 \in Nat /\ (i - 1) + 1 = i /\ i - 1 < i
  BY <1>4
<1>6. i - 1 \in out
  BY <1>4, <1>5
<1>. QED
  BY <1>3, <1>4, <1>5, <1>6, LessIs, Zenon

\* One of some things has the least number.
LEMMA LeastBy ==
    ASSUME NEW S, S # {}, NEW f, \A s \in S : f[s] \in Nat
    PROVE  \E s \in S : \A t \in S : f[s] =< f[t]
<1>. DEFINE numbers == {f[s] : s \in S}
<1>1. numbers \in SUBSET Nat /\ numbers # {}
  OBVIOUS
<1>2. PICK n \in numbers : \A m \in numbers : ~(<<m, n>> \in Less)
  <2>. HIDE DEF numbers
  <2>. QED
    BY <1>1, LessIsWellFounded, WFMin
<1>3. PICK s \in S : n = f[s]
  OBVIOUS
<1>4. ASSUME NEW t \in S PROVE f[s] =< f[t]
  <2>1. f[t] \in numbers /\ f[t] \in Nat /\ n \in Nat
    BY <1>1, <1>3
  <2>2. ~(f[t] < n)
    BY <1>2, <2>1, LessIs
  <2>. QED
    BY <1>3, <2>1, <2>2
<1>. QED
  BY <1>4

\* A function on 0 .. n and a value at n + 1.
OneMore(f, n, v) == [i \in 0 .. n + 1 |-> IF i =< n THEN f[i] ELSE v]

LEMMA OneMoreIs ==
    ASSUME NEW n \in Nat, NEW f, NEW v
    PROVE  LET g == OneMore(f, n, v)
           IN  /\ g = [i \in 0 .. n + 1 |-> g[i]] /\ g[n + 1] = v /\ g[n] = f[n] /\ \A i \in 0 .. n : g[i] = f[i]
               /\ \A i \in 1 .. n : g[i - 1] = f[i - 1]
<1>. DEFINE g == OneMore(f, n, v)
<1>1. g = [i \in 0 .. n + 1 |-> g[i]] /\ \A i \in 0 .. n + 1 : g[i] = IF i =< n THEN f[i] ELSE v
  BY DEF OneMore
<1>. HIDE DEF g
<1>2. n + 1 \in 0 .. n + 1 /\ ~(n + 1 =< n) /\ n \in 0 .. n + 1 /\ n =< n
  OBVIOUS
<1>3. \A i \in 0 .. n : i \in 0 .. n + 1 /\ i =< n
  OBVIOUS
<1>4. \A i \in 1 .. n : i - 1 \in 0 .. n
  OBVIOUS
<1>. QED
  BY <1>1, <1>2, <1>3, <1>4, Zenon DEF g

\* The last of some numbers is one of them, and none is greater.
LEMMA MaxIs ==
    ASSUME NEW S, S \subseteq Int, IsFiniteSet(S), S # {}
    PROVE  Max(S) \in S /\ \A y \in S : y =< Max(S)
<1>. DEFINE above(x) == {y \in S : y > x}
            counts == {Cardinality(above(x)) : x \in S}
<1>1. \A x \in S : above(x) \in SUBSET S /\ IsFiniteSet(above(x)) /\ Cardinality(above(x)) \in Nat
  BY FS_Subset, FS_CardinalityType
<1>2. counts \in SUBSET Nat /\ counts # {}
  BY <1>1
<1>3. PICK n \in counts : \A m \in counts : ~(<<m, n>> \in Less)
  <2>. HIDE DEF counts
  <2>. QED
    BY <1>2, LessIsWellFounded, WFMin
<1>4. PICK x \in S : n = Cardinality(above(x))
  OBVIOUS
<1>5. \A y \in S : ~(y > x)
  <2>1. SUFFICES ASSUME NEW y \in S, y > x PROVE FALSE
    OBVIOUS
  <2>2. above(y) \in SUBSET above(x) /\ y \in above(x) /\ y \notin above(y)
    <3>1. x \in Int /\ y \in Int /\ ~(y > y)
      OBVIOUS
    <3>2. ASSUME NEW z \in S, z > y PROVE z > x
      <4>1. z \in Int
        OBVIOUS
      <4>. QED
        BY <2>1, <3>1, <3>2, <4>1
    <3>. QED
      BY <2>1, <3>1, <3>2
  <2>. HIDE DEF above
  <2>3. Cardinality(above(y)) =< Cardinality(above(x)) /\ Cardinality(above(y)) # Cardinality(above(x))
    BY <1>1, <2>2, FS_Subset
  <2>4. Cardinality(above(y)) < n
    BY <1>1, <1>4, <2>3
  <2>5. Cardinality(above(y)) \in counts /\ n \in Nat /\ Cardinality(above(y)) \in Nat
    BY <1>1, <1>2
  <2>. QED
    BY <1>3, <2>4, <2>5, LessIs
<1>6. \A y \in S : y =< x
  BY <1>5
<1>7. \A y \in S : x >= y
  BY <1>6
<1>8. Max(S) \in S /\ \A y \in S : Max(S) >= y
  BY <1>7 DEF Max
<1>. QED
  BY <1>8

LEMMA DimIs ==
    ASSUME NEW g, IsFiniteSet(Cells(g)), Cells(g) \subseteq Nat \X Nat
    PROVE  /\ Dim(g) \in Int /\ Dim(g) + 1 \in Nat
           /\ \A c \in Cells(g) : c[1] =< Dim(g)
           /\ \A c \in Cells(g) : (\A x \in Cells(g) : x[1] =< c[1]) => Dim(g) = c[1]
           /\ Cells(g) # {} => Dim(g) \in Nat /\ \E c \in Cells(g) : c[1] = Dim(g)
<1>. DEFINE T == {c[1] : c \in Cells(g)}
            f == [c \in Cells(g) |-> c[1]]
            S == T \cup {-1}
<1>1. f \in Surjection(Cells(g), T)
  BY DEF Surjection
<1>2. IsFiniteSet(T)
  BY <1>1, FS_Surjection
<1>3. IsFiniteSet(S)
  <2>. HIDE DEF T
  <2>. QED
    BY <1>2, FS_AddElement
<1>4. S \subseteq Int /\ -1 \in S /\ \A c \in Cells(g) : c[1] \in S /\ c[1] \in Nat
  OBVIOUS
<1>5. \A x \in S : x = -1 \/ \E c \in Cells(g) : c[1] = x
  OBVIOUS
<1>6. Dim(g) = Max(S)
  BY DEF Dim
<1>. HIDE DEF S
<1>7. Max(S) \in S /\ \A y \in S : y =< Max(S)
  BY <1>3, <1>4, MaxIs
<1>8. Dim(g) \in Int /\ Dim(g) + 1 \in Nat /\ \A c \in Cells(g) : c[1] =< Dim(g)
  <2>1. Dim(g) \in Int /\ -1 =< Dim(g)
    BY <1>4, <1>6, <1>7
  <2>. QED
    BY <1>4, <1>6, <1>7, <2>1
<1>9. Dim(g) = -1 \/ \E c \in Cells(g) : c[1] = Dim(g)
  BY <1>5, <1>6, <1>7
<1>10. ASSUME NEW c \in Cells(g), \A x \in Cells(g) : x[1] =< c[1] PROVE Dim(g) = c[1]
  <2>1. c[1] \in Nat /\ c[1] =< Dim(g)
    BY <1>4, <1>8
  <2>2. Dim(g) =< c[1]
    BY <1>9, <1>10, <2>1
  <2>. QED
    BY <1>8, <2>1, <2>2
<1>11. ASSUME Cells(g) # {} PROVE Dim(g) \in Nat /\ \E c \in Cells(g) : c[1] = Dim(g)
  <2>1. PICK c \in Cells(g) : TRUE
    BY <1>11
  <2>2. c[1] \in Nat /\ c[1] =< Dim(g)
    BY <1>4, <1>8
  <2>3. Dim(g) \in Nat /\ Dim(g) # -1
    BY <1>8, <2>2
  <2>. QED
    BY <1>9, <2>3
<1>. QED
  BY <1>8, <1>10, <1>11

----------------------------------------------------------------------------
(* Shapes and embeddings.                                                  *)

\* Faces are one dimension lower.
Graded(faces) == \A c \in DOMAIN faces : \A x \in faces[c] : x[1] = c[1] - 1

\* The cells of a dimension are numbered from 0, without gaps.
IsShape(g) ==
    /\ IsFiniteSet(Cells(g)) /\ Cells(g) \subseteq Nat \X Nat
    /\ g.in \in [Cells(g) -> SUBSET Cells(g)] /\ Graded(g.in)
    /\ g.out \in [Cells(g) -> SUBSET Cells(g)] /\ Graded(g.out)
    /\ \A k \in Nat : Level(g, k) = {<<k, i>> : i \in 0 .. Cardinality(Level(g, k)) - 1}

ImageOf(map, S) == {map[y] : y \in S}

\* The faces of an image are the images of the faces.
Follows(map, from, to) == \A x \in DOMAIN map : to[map[x]] = ImageOf(map, from[x])

OneToOne(map) == \A x, y \in DOMAIN map : map[x] = map[y] => x = y

Embeds(map, g, h) ==
    /\ map \in [Cells(g) -> Cells(h)] /\ OneToOne(map)
    /\ \A x \in Cells(g) : map[x][1] = x[1]
    /\ Follows(map, g.in, h.in) /\ Follows(map, g.out, h.out)

IsEmbedding(e) == IsShape(e.dom) /\ IsShape(e.cod) /\ Embeds(e.map, e.dom, e.cod)

LEMMA TableIs == \A f : Table(f) = f
  BY DEF Table

LEMMA PreimageIs ==
    ASSUME NEW map, OneToOne(map), NEW x \in DOMAIN map
    PROVE  Preimage(map, map[x]) = x
<1>1. \E y \in DOMAIN map : map[y] = map[x]
  OBVIOUS
<1>2. Preimage(map, map[x]) \in DOMAIN map /\ map[Preimage(map, map[x])] = map[x]
  BY <1>1 DEF Preimage
<1>. QED
  BY <1>2 DEF OneToOne

----------------------------------------------------------------------------
(* Counting.                                                               *)

Numbered(g) == \A c \in Cells(g) : c[2] < Cardinality(Level(g, c[1]))

LEMMA LevelsAre ==
    ASSUME NEW g, IsFiniteSet(Cells(g)), NEW k
    PROVE  /\ Level(g, k) \subseteq Cells(g) /\ IsFiniteSet(Level(g, k)) /\ Cardinality(Level(g, k)) \in Nat
  BY FS_Subset, FS_CardinalityType DEF Level

LEMMA ShapeIsNumbered ==
    ASSUME NEW g, IsShape(g)
    PROVE  Numbered(g)
<1>. SUFFICES ASSUME NEW c \in Cells(g) PROVE c[2] < Cardinality(Level(g, c[1]))
  BY DEF Numbered
<1>1. c[1] \in Nat /\ c[2] \in Nat /\ c = <<c[1], c[2]>>
  BY DEF IsShape
<1>. DEFINE m == Cardinality(Level(g, c[1]))
<1>2. m \in Nat
  BY LevelsAre DEF IsShape
<1>3. c \in Level(g, c[1])
  BY DEF Level
<1>4. Level(g, c[1]) = {<<c[1], i>> : i \in 0 .. m - 1}
  BY <1>1 DEF IsShape
<1>. HIDE DEF m
<1>5. PICK i \in 0 .. m - 1 : c = <<c[1], i>>
  BY <1>3, <1>4
<1>6. c[2] = i
  BY <1>1, <1>5
<1>. QED
  BY <1>2, <1>6 DEF m

\* What is numbered below its count leaves no gap.
LEMMA NumberedIsContiguous ==
    ASSUME NEW g, IsFiniteSet(Cells(g)), Cells(g) \subseteq Nat \X Nat, Numbered(g), NEW k \in Nat
    PROVE  Level(g, k) = {<<k, i>> : i \in 0 .. Cardinality(Level(g, k)) - 1}
<1>. DEFINE S == Level(g, k)
            m == Cardinality(S)
            T == {<<k, i>> : i \in 0 .. m - 1}
            f == [i \in 0 .. m - 1 |-> <<k, i>>]
<1>1. IsFiniteSet(S) /\ m \in Nat
  BY LevelsAre
<1>2. ASSUME NEW c \in S PROVE c \in T
  <2>1. c \in Cells(g) /\ c[1] = k /\ c = <<c[1], c[2]>> /\ c[2] \in Nat
    BY DEF Level
  <2>2. c[2] < m
    BY <2>1 DEF Numbered
  <2>. HIDE DEF m
  <2>3. c[2] \in 0 .. m - 1
    BY <1>1, <2>1, <2>2
  <2>. QED
    BY <2>1, <2>3
<1>3. IsFiniteSet(0 .. m - 1) /\ Cardinality(0 .. m - 1) = m
  <2>. HIDE DEF m
  <2>1. 0 \in Int /\ m - 1 \in Int
    BY <1>1
  <2>. QED
    BY <1>1, <2>1, FS_Interval
<1>4. f \in Bijection(0 .. m - 1, T)
  BY DEF Bijection, Injection, Surjection, IsInjective
<1>5. IsFiniteSet(T) /\ Cardinality(T) = m
  BY <1>3, <1>4, FS_Bijection DEF ExistsBijection
<1>. HIDE DEF S, T, f
<1>6. S \in SUBSET T
  BY <1>2
<1>. QED
  BY <1>5, <1>6, FS_Subset DEF m, S, T

Below(S, c) == {x \in S : x[1] = c[1] /\ x[2] < c[2]}
At(S, k) == {x \in S : x[1] = k}

LEMMA Ranks ==
    ASSUME NEW S, S \subseteq Nat \X Nat, IsFiniteSet(S), NEW c \in S
    PROVE  /\ IsFiniteSet(At(S, c[1])) /\ Cardinality(At(S, c[1])) \in Nat
           /\ Cardinality(Below(S, c)) \in Nat
           /\ Cardinality(Below(S, c)) < Cardinality(At(S, c[1]))
           /\ \A d \in S : d[1] = c[1] /\ c[2] < d[2] => Cardinality(Below(S, c)) < Cardinality(Below(S, d))
<1>1. ASSUME NEW T, NEW W, T \in SUBSET W, IsFiniteSet(W), c \in W, c \notin T
      PROVE  Cardinality(T) \in Nat /\ Cardinality(W) \in Nat /\ Cardinality(T) < Cardinality(W)
  BY <1>1, FS_Subset, FS_CardinalityType
<1>2. At(S, c[1]) \in SUBSET S /\ IsFiniteSet(At(S, c[1])) /\ Cardinality(At(S, c[1])) \in Nat
  BY FS_Subset, FS_CardinalityType DEF At
<1>3. Below(S, c) \in SUBSET At(S, c[1]) /\ c \notin Below(S, c) /\ c \in At(S, c[1])
  BY DEF Below, At
<1>4. ASSUME NEW d \in S, d[1] = c[1], c[2] < d[2]
      PROVE  Cardinality(Below(S, c)) < Cardinality(Below(S, d))
  <2>1. Below(S, c) \in SUBSET Below(S, d) /\ c \in Below(S, d)
    BY <1>4 DEF Below
  <2>2. IsFiniteSet(Below(S, d))
    BY FS_Subset DEF Below
  <2>. QED
    BY <1>1, <1>3, <2>1, <2>2
<1>. QED
  BY <1>1, <1>2, <1>3, <1>4


----------------------------------------------------------------------------
(* Lists of cells.                                                         *)

\* A list and one thing more.
LEMMA OneMoreInList ==
    ASSUME NEW S, NEW s \in Seq(S), NEW c \in S
    PROVE  /\ Append(s, c) \in Seq(S) /\ Image(Append(s, c)) = Image(s) \cup {c}
           /\ OneToOne(s) /\ c \notin Image(s) => OneToOne(Append(s, c))
<1>1. /\ Append(s, c) \in Seq(S) /\ Len(s) \in Nat /\ DOMAIN s = 1 .. Len(s)
      /\ DOMAIN Append(s, c) = 1 .. Len(s) + 1 /\ Append(s, c)[Len(s) + 1] = c
      /\ \A i \in 1 .. Len(s) : Append(s, c)[i] = s[i]
  OBVIOUS
<1>2. 1 .. Len(s) + 1 = (1 .. Len(s)) \cup {Len(s) + 1}
  BY <1>1
<1>3. Image(Append(s, c)) = Image(s) \cup {c}
  BY <1>1, <1>2 DEF Image
<1>4. ASSUME OneToOne(s), c \notin Image(s) PROVE OneToOne(Append(s, c))
  <2>1. \A i \in 1 .. Len(s) : s[i] # c
    BY <1>1, <1>4 DEF Image
  <2>2. \A i, j \in 1 .. Len(s) : s[i] = s[j] => i = j
    BY <1>1, <1>4 DEF OneToOne
  <2>. QED
    BY <1>1, <1>2, <2>1, <2>2 DEF OneToOne
<1>. QED
  BY <1>1, <1>3, <1>4

LEMMA ListsJoined ==
    ASSUME NEW S, NEW s \in Seq(S), NEW t \in Seq(S)
    PROVE  /\ s \o t \in Seq(S) /\ Image(s \o t) = Image(s) \cup Image(t)
           /\ OneToOne(s) /\ OneToOne(t) /\ Image(s) \cap Image(t) = {} => OneToOne(s \o t)
<1>. DEFINE r == s \o t
            m == Len(s)
            n == Len(t)
<1>1. /\ r \in Seq(S) /\ m \in Nat /\ n \in Nat /\ DOMAIN s = 1 .. m /\ DOMAIN t = 1 .. n
      /\ DOMAIN r = 1 .. m + n /\ \A i \in 1 .. m : r[i] = s[i]
      /\ \A i \in 1 .. n : r[m + i] = t[i]
  OBVIOUS
<1>. HIDE DEF r, m, n
<1>2. \A i \in 1 .. m + n : i \in 1 .. m \/ (i - m \in 1 .. n /\ m + (i - m) = i)
  BY <1>1
<1>3. (\A i \in 1 .. m : i \in 1 .. m + n) /\ \A i \in 1 .. n : m + i \in 1 .. m + n
  BY <1>1
<1>4. \A i \in 1 .. m + n : i \in 1 .. m \/ (i - m \in 1 .. n /\ r[i] = t[i - m])
  BY <1>1, <1>2
<1>5. Image(r) = Image(s) \cup Image(t)
  <2>1. \A x \in Image(r) : x \in Image(s) \cup Image(t)
    BY <1>1, <1>4 DEF Image
  <2>2. \A x \in Image(s) : x \in Image(r)
    BY <1>1, <1>3 DEF Image
  <2>3. \A x \in Image(t) : x \in Image(r)
    BY <1>1, <1>3 DEF Image
  <2>. QED
    BY <2>1, <2>2, <2>3
<1>6. ASSUME OneToOne(s), OneToOne(t), Image(s) \cap Image(t) = {} PROVE OneToOne(r)
  <2>1. \A i \in 1 .. m, j \in 1 .. n : s[i] # t[j]
    BY <1>1, <1>6 DEF Image
  <2>2. SUFFICES ASSUME NEW i \in 1 .. m + n, NEW j \in 1 .. m + n, r[i] = r[j] PROVE i = j
    BY <1>1 DEF OneToOne
  <2>3. CASE i \in 1 .. m /\ j \in 1 .. m
    BY <1>1, <1>6, <2>2, <2>3 DEF OneToOne
  <2>4. CASE i \notin 1 .. m /\ j \notin 1 .. m
    <3>1. i - m \in 1 .. n /\ j - m \in 1 .. n /\ t[i - m] = t[j - m]
      BY <1>4, <2>2, <2>4
    <3>2. i - m = j - m
      BY <1>1, <1>6, <3>1 DEF OneToOne
    <3>. QED
      BY <1>1, <3>2
  <2>5. CASE i \in 1 .. m /\ j \notin 1 .. m
    BY <1>1, <1>4, <2>1, <2>2, <2>5
  <2>6. CASE i \notin 1 .. m /\ j \in 1 .. m
    BY <1>1, <1>4, <2>1, <2>2, <2>6
  <2>. QED
    BY <2>3, <2>4, <2>5, <2>6
<1>. QED
  BY <1>1, <1>5, <1>6 DEF r

\* f is the lists of the cells of S at the positions below i, up to n.
Listing(k, S, f, n) ==
    f = [i \in 0 .. n |-> IF i = 0 THEN <<>> ELSE IF <<k, i - 1>> \in S THEN Append(f[i - 1], <<k, i - 1>>) ELSE f[i - 1]]

LEMMA ListingRuns == ASSUME NEW k, NEW S, NEW m \in Nat PROVE \E f : Listing(k, S, f, m)
<1>. DEFINE made == {n \in Nat : \E f : Listing(k, S, f, n)}
<1>1. 0 \in made
  <2>. DEFINE g == [i \in 0 .. 0 |-> <<>>]
  <2>1. Listing(k, S, g, 0)
    BY DEF Listing
  <2>. HIDE DEF g
  <2>. QED
    BY <2>1
<1>2. ASSUME NEW n \in Nat, n \in made PROVE n + 1 \in made
  <2>1. PICK f : Listing(k, S, f, n)
    BY <1>2
  <2>. DEFINE v == IF <<k, n + 1 - 1>> \in S THEN Append(f[n], <<k, n + 1 - 1>>) ELSE f[n]
              g == OneMore(f, n, v)
  <2>2. DOMAIN f = 0 .. n /\ \A i \in 0 .. n : f[i] = IF i = 0 THEN <<>> ELSE IF <<k, i - 1>> \in S THEN Append(f[i - 1], <<k, i - 1>>) ELSE f[i - 1]
    BY <2>1 DEF Listing
  <2>. HIDE DEF v
  <2>3. /\ g = [i \in 0 .. n + 1 |-> g[i]] /\ g[n + 1] = v /\ g[n] = f[n] /\ \A i \in 0 .. n : g[i] = f[i]
        /\ \A i \in 1 .. n : g[i - 1] = f[i - 1]
    BY <2>2, OneMoreIs
  <2>. HIDE DEF g
  <2>4. ASSUME NEW i \in 0 .. n + 1 PROVE g[i] = IF i = 0 THEN <<>> ELSE IF <<k, i - 1>> \in S THEN Append(g[i - 1], <<k, i - 1>>) ELSE g[i - 1]
    <3>1. CASE i = 0
      <4>1. 0 \in 0 .. n
        OBVIOUS
      <4>2. g[0] = f[0]
        BY <2>3, <4>1
      <4>3. f[0] = <<>>
        BY <2>2, <4>1
      <4>. QED
        BY <3>1, <4>2, <4>3
    <3>2. CASE i \in 1 .. n
      <4>1. i # 0 /\ i \in 0 .. n
        BY <3>2
      <4>2. g[i] = f[i] /\ g[i - 1] = f[i - 1]
        BY <2>3, <3>2, <4>1
      <4>. QED
        BY <2>2, <4>1, <4>2
    <3>3. CASE i = n + 1
      <4>1. i # 0 /\ i - 1 = n
        BY <3>3
      <4>. QED
        BY <2>3, <3>3, <4>1 DEF v
    <3>. QED
      BY <3>1, <3>2, <3>3
  <2>5. Listing(k, S, g, n + 1)
    BY <2>3, <2>4 DEF Listing
  <2>. QED
    BY <2>5
<1>. HIDE DEF made
<1>3. m \in made
  BY <1>1, <1>2, Upwards
<1>. QED
  BY <1>3 DEF made

\* The list of some cells of a dimension has each of them once.
LEMMA ListedIs ==
    ASSUME NEW g, IsShape(g), NEW k \in Nat, NEW S
    PROVE  /\ Listed(g, k, S) \in Seq(S) /\ OneToOne(Listed(g, k, S))
           /\ Image(Listed(g, k, S)) = S \cap Level(g, k)
           /\ S \subseteq Level(g, k) => Image(Listed(g, k, S)) = S
<1>. DEFINE size == Cardinality(Level(g, k))
            f == CHOOSE h : Listing(k, S, h, size)
            first(n) == {<<k, i>> : i \in 0 .. n - 1} \cap S
            Good(n) == f[n] \in Seq(S) /\ OneToOne(f[n]) /\ Image(f[n]) = first(n)
<1>1. size \in Nat
  BY LevelsAre DEF IsShape
<1>2. Listed(g, k, S) = f[size]
  BY DEF Listed, Listing
<1>3. /\ DOMAIN f = 0 .. size
      /\ \A i \in 0 .. size : f[i] = IF i = 0 THEN <<>> ELSE IF <<k, i - 1>> \in S THEN Append(f[i - 1], <<k, i - 1>>) ELSE f[i - 1]
  <2>1. Listing(k, S, f, size)
    BY <1>1, ListingRuns
  <2>. QED
    BY <2>1 DEF Listing
<1>. HIDE DEF f, size
<1>4. Good(0)
  <2>1. f[0] = <<>>
    <3>1. 0 \in 0 .. size
      BY <1>1
    <3>. QED
      BY <1>3, <3>1
  <2>2. <<>> \in Seq(S) /\ OneToOne(<<>>) /\ Image(<<>>) = {}
    BY DEF OneToOne, Image
  <2>3. first(0) = {}
    OBVIOUS
  <2>. QED
    BY <2>1, <2>2, <2>3
<1>5. ASSUME NEW n \in Nat, n < size, Good(n) PROVE Good(n + 1)
  <2>. DEFINE s == f[n]
              c == <<k, n>>
  <2>1. f[n + 1] = IF c \in S THEN Append(s, c) ELSE s
    <3>1. n + 1 \in 0 .. size /\ n + 1 # 0 /\ (n + 1) - 1 = n
      BY <1>1, <1>5
    <3>. QED
      BY <1>3, <3>1
  <2>2. first(n + 1) = first(n) \cup ({c} \cap S) /\ c \notin first(n)
    OBVIOUS
  <2>3. s \in Seq(S) /\ OneToOne(s) /\ Image(s) = first(n)
    BY <1>5
  <2>. HIDE DEF s, c, first
  <2>4. CASE c \in S
    <3>1. Append(s, c) \in Seq(S) /\ OneToOne(Append(s, c)) /\ Image(Append(s, c)) = Image(s) \cup {c}
      BY <2>2, <2>3, <2>4, OneMoreInList
    <3>. QED
      BY <2>1, <2>2, <2>3, <2>4, <3>1
  <2>5. CASE c \notin S
    BY <2>1, <2>2, <2>3, <2>5
  <2>. QED
    BY <2>4, <2>5
<1>6. Good(size)
  <2>. DEFINE done == {n \in Nat : n =< size => Good(n)}
  <2>. HIDE DEF Good
  <2>1. 0 \in done
    BY <1>4
  <2>2. \A n \in Nat : n \in done => n + 1 \in done
    BY <1>1, <1>5
  <2>. HIDE DEF done
  <2>3. size \in done
    BY <1>1, <2>1, <2>2, Upwards
  <2>. QED
    BY <1>1, <2>3 DEF done
<1>7. first(size) = S \cap Level(g, k)
  <2>1. Level(g, k) = {<<k, i>> : i \in 0 .. size - 1}
    BY DEF IsShape, size
  <2>. QED
    BY <2>1
<1>. QED
  BY <1>2, <1>6, <1>7

----------------------------------------------------------------------------
(* One round of the traversal.                                             *)

\* What is in focus, now or later.
Pending(stack) == UNION Image(stack)

\* Each focus has one dimension, no higher than those below it on the stack.
Descends(stack) ==
    \A i, j \in DOMAIN stack : i =< j => \A x \in stack[i], y \in stack[j] : y[1] =< x[1]

Closed(g, S) == \A c \in S : g.in[c] \cup g.out[c] \subseteq S

\* F is one of the foci, and of one dimension.
IsFocus(g, F) ==
    \E n \in 0 .. Dim(g) : F \in Foci(g)[n] /\ \A c \in F : c[1] = Dim(g) - n

\* A stack of foci, the higher ones below.
IsStackOf(g, stack) ==
    /\ stack \in Seq(SUBSET Cells(g)) /\ Descends(stack)
    /\ \A F \in Image(stack) : IsFocus(g, F)

\* No cell is marked twice; the faces of what is marked are, or will be.
UnderWay(g, stack, marked) ==
    /\ IsStackOf(g, stack) /\ marked \in Seq(Cells(g)) /\ OneToOne(marked)
    /\ \A c \in Image(marked) : g.in[c] \cup g.out[c] \subseteq Image(marked) \cup Pending(stack)

Met(stack, marked) == Image(marked) \cup Pending(stack)

Weight(focus) == 2 * (CHOOSE c \in focus : TRUE)[1] + (IF Cardinality(focus) = 1 THEN 0 ELSE 1)

\* From one stack and list to the next: nothing met is forgotten, and what is
\* met was met before or is below it.
Keeps(g, stack, marked, next, now) ==
    /\ Image(marked) \subseteq Image(now)
    /\ Met(stack, marked) \subseteq Met(next, now)
    /\ \A D : Closed(g, D) /\ Met(stack, marked) \subseteq D => Met(next, now) \subseteq D

\* A cell is marked, or a focus all marked is left, or a smaller one is opened.
Advances(stack, marked, next, now) ==
    \/ ~(Image(now) \subseteq Image(marked))
    \/ Image(now) = Image(marked) /\ Last(stack) \subseteq Image(marked) /\ next = Front(stack)
    \/ /\ Image(now) = Image(marked) /\ ~(Last(stack) \subseteq Image(marked))
       /\ next # <<>> /\ ~(Last(next) \subseteq Image(marked)) /\ Weight(Last(next)) < Weight(Last(stack))

LEMMA LastOf ==
    ASSUME NEW S, NEW s \in Seq(S), s # <<>>
    PROVE  /\ Len(s) \in Nat /\ Len(s) > 0 /\ DOMAIN s = 1 .. Len(s)
           /\ Front(s) \in Seq(S) /\ Len(Front(s)) = Len(s) - 1 /\ DOMAIN Front(s) = 1 .. Len(s) - 1
           /\ Last(s) \in S /\ Last(s) = s[Len(s)] /\ \A i \in 1 .. Len(s) - 1 : Front(s)[i] = s[i]
           /\ Image(s) = Image(Front(s)) \cup {Last(s)}
<1>1. Len(s) \in Nat /\ Len(s) > 0 /\ DOMAIN s = 1 .. Len(s) /\ Last(s) = s[Len(s)] /\ Last(s) \in S
  BY DEF Last
<1>2. /\ Front(s) \in Seq(S) /\ Len(Front(s)) = Len(s) - 1 /\ DOMAIN Front(s) = 1 .. Len(s) - 1
      /\ \A i \in 1 .. Len(s) - 1 : Front(s)[i] = s[i]
  BY <1>1 DEF Front
<1>3. 1 .. Len(s) = (1 .. Len(s) - 1) \cup {Len(s)}
  BY <1>1
<1>4. Image(s) = Image(Front(s)) \cup {Last(s)}
  BY <1>1, <1>2, <1>3 DEF Image
<1>. QED
  BY <1>1, <1>2, <1>4

LEMMA DescendsOn ==
    ASSUME NEW S, NEW s \in Seq(S), NEW x \in S, Descends(s), \A y \in Pending(s), z \in x : z[1] =< y[1],
           \A y, z \in x : y[1] =< z[1]
    PROVE  Descends(Append(s, x)) /\ Pending(Append(s, x)) = Pending(s) \cup x
<1>. DEFINE t == Append(s, x)
            n == Len(s)
<1>1. /\ t \in Seq(S) /\ n \in Nat /\ DOMAIN s = 1 .. n /\ DOMAIN t = 1 .. n + 1
      /\ t[n + 1] = x /\ \A i \in 1 .. n : t[i] = s[i]
  OBVIOUS
<1>. HIDE DEF t, n
<1>2. Image(t) = Image(s) \cup {x}
  BY OneMoreInList DEF t
<1>3. \A i \in 1 .. n : s[i] \subseteq Pending(s)
  BY <1>1 DEF Pending, Image
<1>4. Descends(t)
  <2>1. SUFFICES ASSUME NEW i \in 1 .. n + 1, NEW j \in 1 .. n + 1, i =< j, NEW y \in t[i], NEW z \in t[j]
                 PROVE  z[1] =< y[1]
    BY <1>1 DEF Descends
  <2>2. CASE j \in 1 .. n
    <3>1. i \in 1 .. n
      BY <1>1, <2>1, <2>2
    <3>. QED
      BY <1>1, <2>1, <2>2, <3>1 DEF Descends
  <2>3. CASE j = n + 1 /\ i \in 1 .. n
    BY <1>1, <1>3, <2>1, <2>3
  <2>4. CASE j = n + 1 /\ i = n + 1
    BY <1>1, <2>1, <2>4
  <2>. QED
    BY <1>1, <2>2, <2>3, <2>4
<1>. QED
  BY <1>2, <1>4 DEF t, Pending

LEMMA DescendsOff ==
    ASSUME NEW S, NEW s \in Seq(S), s # <<>>, Descends(s)
    PROVE  /\ Descends(Front(s)) /\ Pending(s) = Pending(Front(s)) \cup Last(s)
           /\ \A y \in Pending(s), z \in Last(s) : z[1] =< y[1]
<1>1. /\ Len(s) \in Nat /\ Len(s) > 0 /\ DOMAIN s = 1 .. Len(s) /\ DOMAIN Front(s) = 1 .. Len(s) - 1
      /\ Last(s) = s[Len(s)] /\ (\A i \in 1 .. Len(s) - 1 : Front(s)[i] = s[i])
      /\ Image(s) = Image(Front(s)) \cup {Last(s)}
  BY LastOf
<1>2. \A i \in 1 .. Len(s) - 1 : i \in 1 .. Len(s)
  BY <1>1
<1>3. Descends(Front(s))
  BY <1>1, <1>2 DEF Descends
<1>4. ASSUME NEW y \in Pending(s), NEW z \in Last(s) PROVE z[1] =< y[1]
  <2>1. PICK i \in 1 .. Len(s) : y \in s[i]
    BY <1>1 DEF Pending, Image
  <2>2. i =< Len(s) /\ Len(s) \in 1 .. Len(s)
    BY <1>1
  <2>. QED
    BY <1>1, <1>4, <2>1, <2>2 DEF Descends
<1>. QED
  BY <1>1, <1>3, <1>4 DEF Pending

\* f has the foci of one dimension after the other, from the highest down.
Sides(g, k) ==
    {extremal(g, "in", k), extremal(g, "out", k)}
        \cup {{c} : c \in Level(g, k)} \cup {g.out[c] : c \in Level(g, k + 1)}
Focussing(g, f, m) ==
    f = [n \in 0 .. m |-> Sides(g, Dim(g) - n) \cup (IF n = 0 THEN {} ELSE {Under(g, F) : F \in f[n - 1]})]

LEMMA FocussingRuns == ASSUME NEW g, NEW m \in Nat PROVE \E f : Focussing(g, f, m)
<1>. DEFINE made == {n \in Nat : \E f : Focussing(g, f, n)}
            step(n, before) == Sides(g, Dim(g) - n) \cup (IF n = 0 THEN {} ELSE {Under(g, F) : F \in before})
<1>1. 0 \in made
  <2>. DEFINE h == [n \in 0 .. 0 |-> step(0, {})]
  <2>1. \A n \in 0 .. 0 : n = 0
    OBVIOUS
  <2>2. Focussing(g, h, 0)
    BY <2>1 DEF Focussing
  <2>. HIDE DEF h
  <2>. QED
    BY <2>2
<1>2. ASSUME NEW n \in Nat, n \in made PROVE n + 1 \in made
  <2>1. PICK f : Focussing(g, f, n)
    BY <1>2
  <2>. DEFINE v == step(n + 1, f[n])
              h == OneMore(f, n, v)
  <2>2. DOMAIN f = 0 .. n /\ \A i \in 0 .. n : f[i] = step(i, f[i - 1])
    BY <2>1 DEF Focussing
  <2>. HIDE DEF v, step
  <2>3. /\ h = [i \in 0 .. n + 1 |-> h[i]] /\ h[n + 1] = v /\ h[n] = f[n] /\ \A i \in 0 .. n : h[i] = f[i]
        /\ \A i \in 1 .. n : h[i - 1] = f[i - 1]
    BY <2>2, OneMoreIs
  <2>. HIDE DEF h
  <2>4. ASSUME NEW i \in 0 .. n + 1 PROVE h[i] = step(i, h[i - 1])
    <3>1. CASE i = 0
      <4>1. 0 \in 0 .. n
        OBVIOUS
      <4>2. h[0] = f[0]
        BY <2>3, <4>1
      <4>3. \A x, y : step(0, x) = step(0, y)
        BY DEF step
      <4>. QED
        BY <2>2, <3>1, <4>1, <4>2, <4>3
    <3>2. CASE i \in 1 .. n
      <4>1. i \in 0 .. n
        BY <3>2
      <4>2. h[i] = f[i] /\ h[i - 1] = f[i - 1]
        BY <2>3, <3>2, <4>1
      <4>. QED
        BY <2>2, <4>1, <4>2
    <3>3. CASE i = n + 1
      <4>1. i - 1 = n
        BY <3>3
      <4>. QED
        BY <2>3, <3>3, <4>1 DEF v
    <3>. QED
      BY <3>1, <3>2, <3>3
  <2>5. Focussing(g, h, n + 1)
    BY <2>3, <2>4 DEF Focussing, step
  <2>. QED
    BY <2>5
<1>. HIDE DEF made
<1>3. m \in made
  BY <1>1, <1>2, Upwards
<1>. QED
  BY <1>3 DEF made

LEMMA FociAre ==
    ASSUME NEW g, IsShape(g)
    PROVE  \A n \in 0 .. Dim(g) :
               /\ Sides(g, Dim(g) - n) \subseteq Foci(g)[n]
               /\ \A F \in Foci(g)[n] : n < Dim(g) => Under(g, F) \in Foci(g)[n + 1]
<1>. DEFINE f == CHOOSE h : Focussing(g, h, Dim(g))
<1>1. Foci(g) = f
  BY DEF Foci, Focussing, Sides
<1>2. Dim(g) \in Int
  BY DimIs DEF IsShape
<1>. HIDE DEF f
<1>3. SUFFICES ASSUME NEW n \in 0 .. Dim(g)
               PROVE  /\ Sides(g, Dim(g) - n) \subseteq f[n]
                      /\ \A F \in f[n] : n < Dim(g) => Under(g, F) \in f[n + 1]
  BY <1>1
<1>4. Focussing(g, f, Dim(g))
  <2>1. Dim(g) \in Nat
    BY <1>2
  <2>. QED
    BY <2>1, FocussingRuns DEF f
<1>5. \A i \in 0 .. Dim(g) :
          f[i] = Sides(g, Dim(g) - i) \cup (IF i = 0 THEN {} ELSE {Under(g, F) : F \in f[i - 1]})
  BY <1>4 DEF Focussing
<1>6. ASSUME NEW F \in f[n], n < Dim(g) PROVE Under(g, F) \in f[n + 1]
  <2>1. n + 1 \in 0 .. Dim(g) /\ n + 1 # 0 /\ (n + 1) - 1 = n
    BY <1>2, <1>6
  <2>2. f[n + 1] = Sides(g, Dim(g) - (n + 1)) \cup {Under(g, E) : E \in f[n]}
    BY <1>5, <2>1
  <2>. QED
    BY <2>2
<1>. QED
  BY <1>5, <1>6

\* A side of the shape, a cell, and the outputs of one are foci.
LEMMA SidesAreFoci ==
    ASSUME NEW g, IsShape(g), NEW k \in 0 .. Dim(g), NEW F \in Sides(g, k)
    PROVE  IsFocus(g, F)
<1>. DEFINE n == Dim(g) - k
<1>1. Dim(g) \in Int /\ n \in 0 .. Dim(g) /\ Dim(g) - n = k
  BY DimIs DEF IsShape
<1>. HIDE DEF n
<1>2. F \in Foci(g)[n]
  BY <1>1, FociAre
<1>3. \A c \in F : c[1] = k
  <2>1. CASE F = extremal(g, "in", k) \/ F = extremal(g, "out", k)
    BY <2>1 DEF extremal, Level
  <2>2. CASE \E c \in Level(g, k) : F = {c}
    BY <2>2 DEF Level
  <2>3. CASE \E c \in Level(g, k + 1) : F = g.out[c]
    <3>1. PICK c \in Cells(g) : c[1] = k + 1 /\ F = g.out[c]
      BY <2>3 DEF Level
    <3>2. \A x \in g.out[c] : x[1] = c[1] - 1
      BY <3>1 DEF IsShape, Graded, Cells
    <3>. QED
      BY <3>1, <3>2
  <2>. QED
    BY <2>1, <2>2, <2>3 DEF Sides
<1>. QED
  BY <1>1, <1>2, <1>3 DEF IsFocus

\* What is under a focus is one, and is not nothing.
LEMMA UnderIsFocus ==
    ASSUME NEW g, IsShape(g), NEW F \in SUBSET Cells(g), IsFocus(g, F), NEW c \in F, c[1] > 0
    PROVE  /\ IsFocus(g, Under(g, F))
           /\ HasInputs(g) => \A S \in (SUBSET F) \ {{}} : Under(g, S) # {}
<1>1. PICK n \in 0 .. Dim(g) : F \in Foci(g)[n] /\ \A x \in F : x[1] = Dim(g) - n
  BY DEF IsFocus
<1>2. Dim(g) \in Int /\ n < Dim(g) /\ n + 1 \in 0 .. Dim(g) /\ n \in 0 .. Dim(g) - 1
  BY <1>1, DimIs DEF IsShape
<1>3. Under(g, F) \in Foci(g)[n + 1]
  BY <1>1, <1>2, FociAre
<1>4. ASSUME NEW x \in Under(g, F) PROVE x[1] = Dim(g) - (n + 1)
  <2>1. PICK y \in F : x \in g.in[y]
    BY <1>4 DEF Under
  <2>2. x[1] = y[1] - 1 /\ y[1] = Dim(g) - n
    BY <1>1, <2>1 DEF IsShape, Graded, Cells
  <2>. QED
    BY <1>2, <2>2
<1>5. IsFocus(g, Under(g, F))
  BY <1>2, <1>3, <1>4 DEF IsFocus
<1>. QED
  BY <1>1, <1>2, <1>5 DEF HasInputs

LEMMA FirstIs ==
    ASSUME NEW S, S \subseteq Nat \X Nat, S # {}
    PROVE  First(S) \in S
<1>. DEFINE place == [c \in S |-> c[2]]
<1>1. \A c \in S : place[c] \in Nat
  OBVIOUS
<1>. HIDE DEF place
<1>2. PICK c \in S : \A x \in S : place[c] =< place[x]
  BY <1>1, LeastBy
<1>. QED
  BY <1>2 DEF First, place

LEMMA RankIsNat ==
    ASSUME NEW S, NEW marked \in Seq(S), NEW c \in Image(marked)
    PROVE  Rank(marked, c) \in Nat
<1>. DEFINE i == Preimage(marked, c)
<1>1. i \in 1 .. Len(marked)
  <2>1. \E j \in DOMAIN marked : marked[j] = c
    BY DEF Image
  <2>. QED
    BY <2>1 DEF Preimage
<1>. HIDE DEF i
<1>2. 1 \in Int /\ i \in Int
  BY <1>1
<1>3. IsFiniteSet(1 .. i)
  BY <1>2, FS_Interval
<1>4. IsFiniteSet({j \in 1 .. i : marked[j][1] = c[1]})
  BY <1>3, FS_Subset
<1>. QED
  BY <1>4, FS_CardinalityType DEF Rank, i

\* One of some marked cells was marked first of its rank.
LEMMA EarliestIs ==
    ASSUME NEW S, NEW marked \in Seq(S), NEW T \in SUBSET Image(marked), T # {}
    PROVE  \E x \in T : \A y \in T : Rank(marked, x) =< Rank(marked, y)
<1>. DEFINE rank == [x \in T |-> Rank(marked, x)]
<1>1. \A x \in T : rank[x] \in Nat
  BY RankIsNat
<1>. HIDE DEF rank
<1>2. PICK x \in T : \A y \in T : rank[x] =< rank[y]
  BY <1>1, LeastBy
<1>. QED
  BY <1>2 DEF rank

LEMMA WeightIs ==
    ASSUME NEW g, IsShape(g), NEW S \in SUBSET Cells(g), S # {}, NEW n \in Nat, \A x \in S : x[1] = n
    PROVE  /\ Weight(S) \in Nat /\ 2 * n =< Weight(S) /\ Weight(S) =< 2 * n + 1
           /\ (Cardinality(S) = 1 <=> Weight(S) = 2 * n)
<1>1. (CHOOSE c \in S : TRUE) \in S
  OBVIOUS
<1>2. Weight(S) = 2 * n + (IF Cardinality(S) = 1 THEN 0 ELSE 1)
  BY <1>1 DEF Weight
<1>. QED
  BY <1>2

\* What is marked and what is met, after each kind of round.
LEMMA MarkKeeps ==
    ASSUME NEW g, NEW stack, NEW marked, UnderWay(g, stack, marked), stack # <<>>,
           NEW next, NEW now \in Seq(Cells(g)), NEW new, OneToOne(now), Image(now) = Image(marked) \cup new,
           new # {}, new \cap Image(marked) = {}, new \subseteq Last(stack),
           IsStackOf(g, next),
           Pending(Front(stack)) \subseteq Pending(next),
           Pending(next) \subseteq Pending(Front(stack)) \cup Last(stack) \cup UNION {g.out[c] : c \in new},
           Last(stack) \subseteq Image(now) \cup Pending(next),
           \A c \in new : g.in[c] \cup g.out[c] \subseteq Image(now) \cup Pending(next)
    PROVE  /\ UnderWay(g, next, now) /\ Keeps(g, stack, marked, next, now)
           /\ Advances(stack, marked, next, now)
<1>1. Pending(stack) = Pending(Front(stack)) \cup Last(stack)
  BY DescendsOff DEF UnderWay, IsStackOf
<1>2. Image(marked) \cup Pending(stack) \subseteq Image(now) \cup Pending(next)
  BY <1>1
<1>3. UnderWay(g, next, now)
  BY <1>2 DEF UnderWay, IsStackOf
<1>4. ASSUME NEW D, Closed(g, D), Met(stack, marked) \subseteq D PROVE Met(next, now) \subseteq D
  <2>1. new \subseteq D /\ Image(marked) \subseteq D /\ Pending(Front(stack)) \subseteq D /\ Last(stack) \subseteq D
    BY <1>1, <1>4 DEF Met
  <2>2. UNION {g.out[c] : c \in new} \subseteq D
    BY <1>4, <2>1 DEF Closed
  <2>. QED
    BY <2>1, <2>2 DEF Met
<1>5. Keeps(g, stack, marked, next, now)
  BY <1>2, <1>4 DEF Keeps, Met
<1>6. Advances(stack, marked, next, now)
  BY DEF Advances
<1>. QED
  BY <1>3, <1>5, <1>6

LEMMA PushKeeps ==
    ASSUME NEW g, IsShape(g), NEW stack, NEW marked, UnderWay(g, stack, marked), stack # <<>>,
           ~(Last(stack) \subseteq Image(marked)),
           NEW n \in Nat, \A x \in Last(stack) : x[1] = n,
           NEW focus \in SUBSET Cells(g), IsFocus(g, focus), ~(focus \subseteq Image(marked)),
           NEW m \in Nat, \A x \in focus : x[1] = m,
           \/ m + 1 = n /\ focus \subseteq UNION {g.in[c] : c \in Last(stack)}
           \/ m = n /\ focus \subseteq Last(stack) /\ Cardinality(focus) = 1 /\ Cardinality(Last(stack)) # 1
    PROVE  /\ UnderWay(g, Append(stack, focus), marked) /\ Keeps(g, stack, marked, Append(stack, focus), marked)
           /\ Advances(stack, marked, Append(stack, focus), marked)
<1>. DEFINE next == Append(stack, focus)
<1>1. /\ Pending(stack) = Pending(Front(stack)) \cup Last(stack) /\ Last(stack) \in SUBSET Cells(g)
      /\ \A y \in Pending(stack), z \in Last(stack) : z[1] =< y[1]
  BY DescendsOff, LastOf DEF UnderWay, IsStackOf
<1>2. Pending(stack) \subseteq Nat \X Nat
  <2>1. Pending(stack) \subseteq Cells(g)
    BY DEF UnderWay, IsStackOf, Pending, Image
  <2>. QED
    BY <2>1 DEF IsShape
<1>3. PICK z \in Last(stack) : z[1] = n
  OBVIOUS
<1>4. \A y \in Pending(stack), x \in focus : x[1] =< y[1]
  <2>1. SUFFICES ASSUME NEW y \in Pending(stack), NEW x \in focus PROVE x[1] =< y[1]
    OBVIOUS
  <2>2. n =< y[1] /\ y[1] \in Nat /\ x[1] = m
    BY <1>1, <1>2, <1>3
  <2>. QED
    BY <2>2
<1>5. \A y, x \in focus : y[1] =< x[1]
  OBVIOUS
<1>6. /\ next \in Seq(SUBSET Cells(g)) /\ Descends(next) /\ Pending(next) = Pending(stack) \cup focus
      /\ Last(next) = focus /\ next # <<>>
  <2>1. next \in Seq(SUBSET Cells(g)) /\ Last(next) = focus /\ next # <<>>
    BY DEF UnderWay, IsStackOf, Last
  <2>2. stack \in Seq(SUBSET Cells(g)) /\ Descends(stack)
    BY DEF UnderWay, IsStackOf
  <2>3. Descends(Append(stack, focus)) /\ Pending(Append(stack, focus)) = Pending(stack) \cup focus
    BY <1>4, <1>5, <2>2, DescendsOn
  <2>. QED
    BY <2>1, <2>3
<1>12. Image(next) = Image(stack) \cup {focus}
  BY OneMoreInList DEF UnderWay, IsStackOf
<1>. HIDE DEF next
<1>13. IsStackOf(g, next)
  BY <1>6, <1>12 DEF UnderWay, IsStackOf
<1>7. UnderWay(g, next, marked)
  BY <1>6, <1>13 DEF UnderWay, IsStackOf
<1>8. ASSUME NEW D, Closed(g, D), Met(stack, marked) \subseteq D PROVE Met(next, marked) \subseteq D
  <2>1. Last(stack) \subseteq D
    BY <1>1, <1>8 DEF Met
  <2>2. UNION {g.in[c] : c \in Last(stack)} \subseteq D
    BY <1>8, <2>1 DEF Closed
  <2>. QED
    BY <1>6, <1>8, <2>1, <2>2 DEF Met
<1>9. Keeps(g, stack, marked, next, marked)
  BY <1>6, <1>8 DEF Keeps, Met
<1>10. Weight(focus) < Weight(Last(stack))
  <2>1. focus # {} /\ Last(stack) # {}
    OBVIOUS
  <2>2. /\ Weight(focus) \in Nat /\ Weight(focus) =< 2 * m + 1 /\ (Cardinality(focus) = 1 <=> Weight(focus) = 2 * m)
        /\ Weight(Last(stack)) \in Nat /\ 2 * n =< Weight(Last(stack))
        /\ (Cardinality(Last(stack)) = 1 <=> Weight(Last(stack)) = 2 * n)
    BY <1>1, <2>1, WeightIs
  <2>. QED
    BY <2>2
<1>11. Advances(stack, marked, next, marked)
  BY <1>6, <1>10 DEF Advances
<1>. QED
  BY <1>7, <1>9, <1>11 DEF next

LEMMA PopKeeps ==
    ASSUME NEW g, NEW stack, NEW marked, UnderWay(g, stack, marked), stack # <<>>, Last(stack) \subseteq Image(marked)
    PROVE  /\ UnderWay(g, Front(stack), marked) /\ Keeps(g, stack, marked, Front(stack), marked)
           /\ Advances(stack, marked, Front(stack), marked)
<1>1. /\ Pending(stack) = Pending(Front(stack)) \cup Last(stack) /\ Descends(Front(stack))
      /\ Front(stack) \in Seq(SUBSET Cells(g)) /\ Image(Front(stack)) \subseteq Image(stack)
  BY DescendsOff, LastOf DEF UnderWay, IsStackOf
<1>2. UnderWay(g, Front(stack), marked)
  BY <1>1 DEF UnderWay, IsStackOf
<1>3. Keeps(g, stack, marked, Front(stack), marked)
  BY <1>1 DEF Keeps, Met
<1>4. Advances(stack, marked, Front(stack), marked)
  BY DEF Advances
<1>. QED
  BY <1>2, <1>3, <1>4

LEMMA RoundKeeps ==
    ASSUME NEW g, IsShape(g), HasInputs(g), NEW stack, NEW marked, UnderWay(g, stack, marked), stack # <<>>
    PROVE  LET s == MarkRound(g, stack, marked)
           IN  /\ s = <<s[1], s[2]>> /\ UnderWay(g, s[1], s[2]) /\ Keeps(g, stack, marked, s[1], s[2])
               /\ Advances(stack, marked, s[1], s[2])
<1>. DEFINE focus == Last(stack)
            rest == Front(stack)
            seen == Image(marked)
            open(S) == S \ seen
            inputs == UNION {g.in[c] : c \in focus}
            outputs == UNION {g.out[c] : c \in focus}
            users(x) == cofaces_of(g, "in", x) \cap focus
            starts == {x \in inputs \cap seen : open(users(x)) # {}}
            best == CHOOSE x \in starts : \A y \in starts : Rank(marked, x) =< Rank(marked, y)
            user == First(open(users(best)))
            q == First(open(focus))
            Ok(s) == s = <<s[1], s[2]>> /\ UnderWay(g, s[1], s[2]) /\ Keeps(g, stack, marked, s[1], s[2])
                     /\ Advances(stack, marked, s[1], s[2])
            listed == Listed(g, 0, open(focus))
            after == IF open(outputs) = {} THEN rest ELSE Append(rest, outputs)
<1>1. MarkRound(g, stack, marked) =
          IF open(focus) = {} THEN <<rest, marked>>
          ELSE IF \E c \in focus : c[1] = 0 THEN <<rest, marked \o listed>>
          ELSE IF open(inputs \ outputs) # {} THEN <<Append(stack, inputs \ outputs), marked>>
          ELSE IF Cardinality(focus) = 1 THEN <<after, Append(marked, q)>>
          ELSE IF starts # {} THEN <<Append(stack, {user}), marked>>
          ELSE <<Append(rest, focus \ {q}), Append(marked, q)>>
  BY DEF MarkRound
<1>2. /\ stack \in Seq(SUBSET Cells(g)) /\ marked \in Seq(Cells(g)) /\ OneToOne(marked) /\ Descends(stack)
      /\ \A F \in Image(stack) : IsFocus(g, F)
      /\ \A c \in seen : g.in[c] \cup g.out[c] \subseteq seen \cup Pending(stack)
  BY DEF UnderWay, IsStackOf
<1>3. /\ focus \in SUBSET Cells(g) /\ rest \in Seq(SUBSET Cells(g)) /\ Descends(rest)
      /\ Pending(stack) = Pending(rest) \cup focus /\ \A y \in Pending(stack), z \in focus : z[1] =< y[1]
      /\ Image(stack) = Image(rest) \cup {focus}
  BY <1>2, LastOf, DescendsOff
<1>17. IsStackOf(g, rest) /\ IsFocus(g, focus)
  BY <1>2, <1>3 DEF IsStackOf
<1>4. /\ Cells(g) \subseteq Nat \X Nat /\ IsFiniteSet(Cells(g))
      /\ \A c \in Cells(g) : g.in[c] \subseteq Cells(g) /\ g.out[c] \subseteq Cells(g)
      /\ \A c \in Cells(g) : \A x \in g.in[c] \cup g.out[c] : x[1] = c[1] - 1
  BY DEF IsShape, Graded, Cells
<1>5. \A x, y \in focus : x[1] = y[1]
  BY <1>3, <1>4
<1>6. seen \subseteq Cells(g) /\ Pending(stack) \subseteq Cells(g)
  BY <1>2 DEF Image, Pending
<1>7. \A x : \A c : c \in users(x) <=> c \in focus /\ c[1] = x[1] + 1 /\ x \in g.in[c]
  BY <1>3 DEF cofaces_of, faces_of, Level
<1>. HIDE DEF focus, rest, seen, users
<1>8. CASE open(focus) = {}
  <2>1. MarkRound(g, stack, marked) = <<rest, marked>>
    BY <1>1, <1>8
  <2>2. Last(stack) \subseteq Image(marked)
    BY <1>8 DEF focus, seen
  <2>3. Ok(<<rest, marked>>)
    BY <2>2, PopKeeps DEF rest
  <2>. QED
    BY <2>1, <2>3
<1>9. ASSUME open(focus) # {} PROVE \E n \in Nat : \A x \in focus : x[1] = n
  BY <1>3, <1>4, <1>5, <1>9
<1>10. CASE open(focus) # {} /\ \E c \in focus : c[1] = 0
  <2>1. MarkRound(g, stack, marked) = <<rest, marked \o listed>>
    BY <1>1, <1>10
  <2>2. \A c \in focus : c[1] = 0
    BY <1>5, <1>10
  <2>3. open(focus) \subseteq Level(g, 0)
    BY <1>3, <2>2 DEF Level
  <2>4. listed \in Seq(open(focus)) /\ OneToOne(listed) /\ Image(listed) = open(focus)
    BY <2>3, ListedIs
  <2>. DEFINE now == marked \o listed
              new == open(focus)
  <2>5. listed \in Seq(Cells(g))
    BY <1>3, <2>4
  <2>6. now \in Seq(Cells(g)) /\ OneToOne(now) /\ Image(now) = Image(marked) \cup new
    <3>1. Image(marked) \cap Image(listed) = {}
      BY <2>4 DEF seen
    <3>2. listed \in Seq(Cells(g)) /\ OneToOne(listed)
      BY <2>4, <2>5
    <3>. HIDE DEF listed
    <3>3. /\ marked \o listed \in Seq(Cells(g)) /\ OneToOne(marked \o listed)
          /\ Image(marked \o listed) = Image(marked) \cup Image(listed)
      BY <1>2, <3>1, <3>2, ListsJoined
    <3>. QED
      BY <2>4, <3>3
  <2>7. \A c \in new : g.in[c] = {} /\ g.out[c] = {}
    <3>1. SUFFICES ASSUME NEW c \in new PROVE g.in[c] \cup g.out[c] = {}
      OBVIOUS
    <3>2. c \in Cells(g) /\ c[1] = 0
      BY <1>3, <2>2
    <3>3. \A x \in g.in[c] \cup g.out[c] : x[1] = -1 /\ x \in Nat \X Nat
      BY <1>4, <3>2
    <3>. QED
      BY <3>3
  <2>. HIDE DEF now, listed
  <2>8. /\ new # {} /\ new \cap Image(marked) = {} /\ new \subseteq Last(stack)
        /\ Pending(rest) \subseteq Pending(Front(stack)) \cup Last(stack) \cup UNION {g.out[c] : c \in new}
        /\ Last(stack) \subseteq Image(now) \cup Pending(rest)
        /\ \A c \in new : g.in[c] \cup g.out[c] \subseteq Image(now) \cup Pending(rest)
    BY <1>10, <2>6, <2>7 DEF focus, rest, seen
  <2>9. Ok(<<rest, now>>)
    <3>. HIDE DEF new
    <3>1. Pending(Front(stack)) \subseteq Pending(rest)
      BY DEF rest
    <3>. QED
      BY <1>17, <2>6, <2>8, <3>1, MarkKeeps
  <2>. QED
    BY <2>1, <2>9 DEF now
<1>11. ASSUME open(focus) # {}, ~\E c \in focus : c[1] = 0
       PROVE  \E n \in Nat : n > 0 /\ \A x \in focus : x[1] = n
  <2>1. PICK n \in Nat : \A x \in focus : x[1] = n
    BY <1>9, <1>11
  <2>2. n # 0
    BY <1>11, <2>1
  <2>. QED
    BY <2>1, <2>2
<1>12. inputs \subseteq Cells(g) /\ outputs \subseteq Cells(g)
  BY <1>3, <1>4
<1>13. CASE open(focus) # {} /\ (~\E c \in focus : c[1] = 0) /\ open(inputs \ outputs) # {}
  <2>. DEFINE under == inputs \ outputs
  <2>1. MarkRound(g, stack, marked) = <<Append(stack, under), marked>>
    BY <1>1, <1>13
  <2>2. PICK n \in Nat : n > 0 /\ \A x \in focus : x[1] = n
    BY <1>11, <1>13
  <2>3. \A x \in under : x[1] = n - 1
    BY <1>3, <1>4, <2>2
  <2>4. under \in SUBSET Cells(g) /\ under \subseteq UNION {g.in[c] : c \in Last(stack)} /\ ~(under \subseteq Image(marked))
    BY <1>12, <1>13 DEF focus, seen
  <2>5. n - 1 \in Nat /\ (n - 1) + 1 = n
    BY <2>2
  <2>8. IsFocus(g, under)
    <3>1. PICK c \in focus : c[1] > 0
      BY <1>13, <2>2
    <3>2. IsFocus(g, Under(g, focus))
      BY <1>3, <1>17, <3>1, UnderIsFocus
    <3>. QED
      BY <3>2 DEF Under
  <2>. HIDE DEF under
  <2>6. ~(Last(stack) \subseteq Image(marked)) /\ \A x \in Last(stack) : x[1] = n
    BY <1>13, <2>2 DEF focus, seen
  <2>7. Ok(<<Append(stack, under), marked>>)
    BY <2>3, <2>4, <2>5, <2>6, <2>8, PushKeeps
  <2>. QED
    BY <2>1, <2>7
<1>14. ASSUME open(focus) # {} PROVE q \in focus /\ q \notin seen
  <2>1. open(focus) \subseteq Nat \X Nat
    BY <1>3, <1>4
  <2>. QED
    BY <1>14, <2>1, FirstIs
<1>15. CASE /\ open(focus) # {} /\ (~\E c \in focus : c[1] = 0) /\ open(inputs \ outputs) = {}
            /\ Cardinality(focus) = 1
  <2>1. MarkRound(g, stack, marked) = <<after, Append(marked, q)>>
    BY <1>1, <1>15
  <2>2. q \in focus /\ q \notin seen
    BY <1>14, <1>15
  <2>. HIDE DEF q
  <2>3. focus = {q}
    <3>1. IsFiniteSet(focus)
      BY <1>3, <1>4, FS_Subset
    <3>. QED
      BY <1>15, <2>2, <3>1, FS_Singleton
  <2>4. inputs = g.in[q] /\ outputs = g.out[q]
    BY <2>3
  <2>. DEFINE now == Append(marked, q)
  <2>5. now \in Seq(Cells(g)) /\ OneToOne(now) /\ Image(now) = Image(marked) \cup {q}
    <3>1. q \in Cells(g) /\ q \notin Image(marked)
      BY <1>3, <2>2 DEF seen
    <3>. QED
      BY <1>2, <3>1, OneMoreInList
  <2>10. q \in Cells(g) /\ q[1] > 0 /\ IsFocus(g, outputs)
    <3>1. PICK n \in Nat : n > 0 /\ \A x \in focus : x[1] = n
      BY <1>11, <1>15
    <3>2. q \in Cells(g) /\ q[1] = n /\ n - 1 \in 0 .. Dim(g) /\ (n - 1) + 1 = n
      <4>1. q \in Cells(g) /\ q[1] = n
        BY <1>3, <2>2, <3>1
      <4>. QED
        BY <3>1, <4>1, DimIs DEF IsShape
    <3>3. g.out[q] \in Sides(g, n - 1)
      BY <3>2 DEF Sides, Level
    <3>. QED
      BY <2>4, <3>1, <3>2, <3>3, SidesAreFoci
  <2>6. IsStackOf(g, after) /\ Pending(after) \subseteq Pending(rest) \cup outputs
        /\ Pending(rest) \subseteq Pending(after) /\ outputs \subseteq seen \cup Pending(after)
    <3>1. CASE open(outputs) = {}
      BY <1>17, <3>1
    <3>2. CASE open(outputs) # {}
      <4>1. \A z \in outputs : z[1] = q[1] - 1 /\ z[1] \in Int
        BY <1>3, <1>4, <2>2, <2>4
      <4>2. \A y \in Pending(rest) : q[1] =< y[1] /\ y[1] \in Int
        <5>1. Pending(rest) \subseteq Cells(g)
          BY <1>3, <1>6
        <5>. QED
          BY <1>3, <1>4, <2>2, <5>1
      <4>3. q[1] \in Int
        BY <1>3, <1>4, <2>2
      <4>4. (\A y \in Pending(rest), z \in outputs : z[1] =< y[1]) /\ \A y, z \in outputs : y[1] =< z[1]
        BY <4>1, <4>2, <4>3
      <4>. HIDE DEF outputs
      <4>5. Descends(Append(rest, outputs)) /\ Pending(Append(rest, outputs)) = Pending(rest) \cup outputs
        BY <1>3, <1>12, <4>4, DescendsOn
      <4>6. Append(rest, outputs) \in Seq(SUBSET Cells(g)) /\ Image(Append(rest, outputs)) = Image(rest) \cup {outputs}
        BY <1>3, <1>12, OneMoreInList
      <4>7. IsStackOf(g, Append(rest, outputs))
        BY <1>17, <2>10, <4>5, <4>6 DEF IsStackOf
      <4>. QED
        BY <3>2, <4>5, <4>7
    <3>. QED
      BY <3>1, <3>2
  <2>. HIDE DEF after, now
  <2>7. /\ {q} # {} /\ {q} \cap Image(marked) = {} /\ {q} \subseteq Last(stack)
        /\ Pending(after) \subseteq Pending(Front(stack)) \cup Last(stack) \cup UNION {g.out[c] : c \in {q}}
        /\ Last(stack) \subseteq Image(now) \cup Pending(after) /\ Pending(Front(stack)) \subseteq Pending(after)
    BY <2>2, <2>3, <2>4, <2>5, <2>6 DEF focus, rest, seen
  <2>8. \A c \in {q} : g.in[c] \cup g.out[c] \subseteq Image(now) \cup Pending(after)
    <3>1. inputs \ outputs \subseteq seen
      BY <1>15
    <3>. QED
      BY <2>4, <2>5, <2>6, <3>1 DEF seen
  <2>9. Ok(<<after, now>>)
    BY <2>5, <2>6, <2>7, <2>8, MarkKeeps
  <2>. QED
    BY <2>1, <2>9 DEF now
<1>16. CASE /\ open(focus) # {} /\ (~\E c \in focus : c[1] = 0) /\ open(inputs \ outputs) = {}
            /\ Cardinality(focus) # 1
  <2>1. PICK n \in Nat : n > 0 /\ \A x \in focus : x[1] = n
    BY <1>11, <1>16
  <2>2. starts # {}
    <3>1. SUFFICES ASSUME starts = {} PROVE FALSE
      OBVIOUS
    <3>. DEFINE S == open(focus)
    <3>2. S # {} /\ S \subseteq focus
      BY <1>16
    <3>3. PICK c \in S : \E x \in g.in[c] : x \notin UNION {g.out[d] : d \in S}
      <4>1. PICK c \in focus : c[1] > 0
        BY <2>1, <3>2
      <4>2. S \in (SUBSET focus) \ {{}}
        BY <3>2
      <4>. HIDE DEF S
      <4>3. Under(g, S) # {}
        BY <1>3, <1>17, <4>1, <4>2, UnderIsFocus
      <4>. QED
        BY <4>3 DEF Under
    <3>4. PICK x \in g.in[c] : x \notin UNION {g.out[d] : d \in S}
      BY <3>3
    <3>5. c \in focus /\ c \notin seen /\ x \in Cells(g) /\ x[1] = n - 1 /\ c[1] = x[1] + 1
      <4>1. c \in focus /\ c \notin seen /\ c[1] = n
        BY <2>1
      <4>2. x \in Cells(g) /\ x[1] = c[1] - 1
        BY <1>3, <1>4, <4>1
      <4>. QED
        BY <4>1, <4>2
    <3>6. c \in users(x)
      BY <1>7, <3>5
    <3>7. x \notin seen
      BY <3>1, <3>5, <3>6
    <3>8. x \in outputs
      BY <1>16, <3>5, <3>7
    <3>9. PICK d \in focus : x \in g.out[d]
      BY <3>8
    <3>10. d \in seen
      BY <3>4, <3>9
    <3>11. x \in Pending(stack)
      BY <1>2, <3>7, <3>9, <3>10
    <3>12. d[1] =< x[1] /\ d[1] = n
      BY <1>3, <2>1, <3>9, <3>11
    <3>. QED
      BY <3>5, <3>12
  <2>3. MarkRound(g, stack, marked) = <<Append(stack, {user}), marked>>
    BY <1>1, <1>16, <2>2
  <2>4. best \in starts
    <3>1. starts \in SUBSET Image(marked)
      BY DEF seen
    <3>. HIDE DEF starts
    <3>2. \E x \in starts : \A y \in starts : Rank(marked, x) =< Rank(marked, y)
      BY <1>2, <2>2, <3>1, EarliestIs
    <3>. QED
      BY <3>2
  <2>. HIDE DEF best
  <2>5. user \in users(best) /\ user \notin seen
    <3>1. open(users(best)) # {} /\ open(users(best)) \subseteq Nat \X Nat
      BY <1>3, <1>4, <1>7, <2>4
    <3>. QED
      BY <3>1, FirstIs
  <2>6. user \in focus
    BY <1>7, <2>5
  <2>. HIDE DEF user
  <2>7. /\ {user} \in SUBSET Cells(g) /\ ~({user} \subseteq Image(marked)) /\ (\A x \in {user} : x[1] = n)
        /\ {user} \subseteq Last(stack) /\ Cardinality({user}) = 1 /\ Cardinality(Last(stack)) # 1
        /\ ~(Last(stack) \subseteq Image(marked)) /\ \A x \in Last(stack) : x[1] = n
    <3>1. Cardinality({user}) = 1
      BY FS_Singleton
    <3>. QED
      BY <1>3, <1>16, <2>1, <2>5, <2>6, <3>1 DEF focus, seen
  <2>9. IsFocus(g, {user})
    <3>1. user \in Cells(g) /\ user[1] \in 0 .. Dim(g)
      <4>1. user \in Cells(g)
        BY <1>3, <2>6
      <4>. QED
        BY <4>1, DimIs DEF IsShape
    <3>2. {user} \in Sides(g, user[1])
      BY <3>1 DEF Sides, Level
    <3>. QED
      BY <3>1, <3>2, SidesAreFoci
  <2>8. Ok(<<Append(stack, {user}), marked>>)
    <3>. DEFINE one == {user}
    <3>. HIDE DEF one
    <3>1. /\ one \in SUBSET Cells(g) /\ ~(one \subseteq Image(marked)) /\ (\A x \in one : x[1] = n)
          /\ one \subseteq Last(stack) /\ Cardinality(one) = 1 /\ IsFocus(g, one)
      BY <2>7, <2>9 DEF one
    <3>2. Ok(<<Append(stack, one), marked>>)
      BY <2>7, <3>1, PushKeeps
    <3>. QED
      BY <3>2 DEF one
  <2>. QED
    BY <2>3, <2>8
<1>. QED
  BY <1>8, <1>10, <1>13, <1>15, <1>16

----------------------------------------------------------------------------
(* The loop.                                                               *)

\* h is where a loop over the states of D ends, at one of Done.
Looping(h, D, Done, next, out) == h = [s \in D |-> IF s \in Done THEN out[s] ELSE h[next[s]]]

LEMMA LoopIs ==
    ASSUME NEW D, NEW Done \in SUBSET D, NEW next, \A s \in D : next[s] \in D, NEW out
    PROVE  \E h : Looping(h, D, Done, next, out)
<1>. DEFINE Back(R, d) == d \in R /\ \A x \in D \ Done : next[x] \in R => x \in R
            From(d) == {s \in D : \A R \in SUBSET D : Back(R, d) => s \in R}
            Ends(s) == {d \in Done : s \in From(d)}
            h == [s \in D |-> out[CHOOSE d \in Ends(s) : TRUE]]
<1>1. ASSUME NEW s \in Done PROVE Ends(s) = {s}
  <2>1. s \in Ends(s)
    OBVIOUS
  <2>2. ASSUME NEW d \in Ends(s), d # s PROVE FALSE
    <3>. DEFINE R == D \ {s}
    <3>1. R \in SUBSET D /\ Back(R, d) /\ s \notin R
      BY <2>2
    <3>. QED
      BY <2>2, <3>1
  <2>. QED
    BY <2>1, <2>2
<1>2. ASSUME NEW s \in D, s \notin Done PROVE Ends(s) = Ends(next[s])
  <2>1. next[s] \in D
    OBVIOUS
  <2>2. ASSUME NEW d \in Ends(next[s]) PROVE d \in Ends(s)
    BY <1>2, <2>2
  <2>3. ASSUME NEW d \in Ends(s), d \notin Ends(next[s]) PROVE FALSE
    <3>1. d \in Done /\ d # s
      BY <1>2, <2>3
    <3>2. PICK R \in SUBSET D : Back(R, d) /\ next[s] \notin R
      BY <2>1, <2>3, <3>1
    <3>. DEFINE T == R \ {s}
    <3>3. T \in SUBSET D /\ d \in T /\ s \notin T
      BY <3>1, <3>2
    <3>4. ASSUME NEW x \in D \ Done, next[x] \in T PROVE x \in T
      BY <3>2, <3>4
    <3>5. Back(T, d)
      BY <3>3, <3>4
    <3>. QED
      BY <2>3, <3>3, <3>5
  <2>. QED
    BY <2>2, <2>3
<1>. HIDE DEF Ends
<1>3. ASSUME NEW s \in D PROVE h[s] = IF s \in Done THEN out[s] ELSE h[next[s]]
  <2>1. CASE s \in Done
    BY <1>1, <2>1
  <2>2. CASE s \notin Done
    <3>1. h[next[s]] = out[CHOOSE d \in Ends(next[s]) : TRUE]
      OBVIOUS
    <3>2. h[s] = out[CHOOSE d \in Ends(s) : TRUE]
      OBVIOUS
    <3>. QED
      BY <1>2, <2>2, <3>1, <3>2
  <2>. QED
    BY <2>1, <2>2
<1>4. h = [s \in D |-> h[s]]
  OBVIOUS
<1>. HIDE DEF h
<1>. QED
  BY <1>3, <1>4 DEF Looping

States(g) == Seq(SUBSET Cells(g)) \X Seq(Cells(g))

Marking(g, h) == h = [s \in States(g) |-> IF s[1] = <<>> THEN s[2] ELSE h[MarkRound(g, s[1], s[2])]]

LEMMA RoundIsState ==
    ASSUME NEW g, IsShape(g), NEW stack \in Seq(SUBSET Cells(g)), stack # <<>>, NEW marked \in Seq(Cells(g))
    PROVE  MarkRound(g, stack, marked) \in States(g)
<1>. DEFINE focus == Last(stack)
            rest == Front(stack)
            seen == Image(marked)
            open(S) == S \ seen
            inputs == UNION {g.in[c] : c \in focus}
            outputs == UNION {g.out[c] : c \in focus}
            users(x) == cofaces_of(g, "in", x) \cap focus
            starts == {x \in inputs \cap seen : open(users(x)) # {}}
            best == CHOOSE x \in starts : \A y \in starts : Rank(marked, x) =< Rank(marked, y)
            user == First(open(users(best)))
            q == First(open(focus))
            listed == Listed(g, 0, open(focus))
            after == IF open(outputs) = {} THEN rest ELSE Append(rest, outputs)
<1>1. MarkRound(g, stack, marked) =
          IF open(focus) = {} THEN <<rest, marked>>
          ELSE IF \E c \in focus : c[1] = 0 THEN <<rest, marked \o listed>>
          ELSE IF open(inputs \ outputs) # {} THEN <<Append(stack, inputs \ outputs), marked>>
          ELSE IF Cardinality(focus) = 1 THEN <<after, Append(marked, q)>>
          ELSE IF starts # {} THEN <<Append(stack, {user}), marked>>
          ELSE <<Append(rest, focus \ {q}), Append(marked, q)>>
  BY DEF MarkRound
<1>2. focus \in SUBSET Cells(g) /\ rest \in Seq(SUBSET Cells(g))
  BY LastOf
<1>3. /\ Cells(g) \subseteq Nat \X Nat
      /\ \A c \in Cells(g) : g.in[c] \subseteq Cells(g) /\ g.out[c] \subseteq Cells(g)
  BY DEF IsShape
<1>. HIDE DEF focus, rest, seen, users
<1>4. inputs \in SUBSET Cells(g) /\ outputs \in SUBSET Cells(g) /\ inputs \ outputs \in SUBSET Cells(g)
  BY <1>2, <1>3
<1>5. after \in Seq(SUBSET Cells(g))
  <2>. HIDE DEF outputs
  <2>. QED
    BY <1>2, <1>4
<1>6. listed \in Seq(Cells(g))
  <2>1. listed \in Seq(open(focus))
    BY ListedIs
  <2>. QED
    BY <1>2, <2>1
<1>7. ASSUME open(focus) # {} PROVE q \in focus
  <2>1. open(focus) \subseteq Nat \X Nat
    BY <1>2, <1>3
  <2>. QED
    BY <1>7, <2>1, FirstIs
<1>8. ASSUME starts # {} PROVE user \in focus
  <2>1. best \in starts
    <3>1. starts \in SUBSET Image(marked)
      BY DEF seen
    <3>. HIDE DEF starts
    <3>2. \E x \in starts : \A y \in starts : Rank(marked, x) =< Rank(marked, y)
      BY <1>8, <3>1, EarliestIs
    <3>. QED
      BY <3>2
  <2>. HIDE DEF best
  <2>2. open(users(best)) # {} /\ open(users(best)) \subseteq focus
    BY <2>1 DEF users
  <2>3. open(users(best)) \subseteq Nat \X Nat
    BY <1>2, <1>3, <2>2
  <2>. QED
    BY <2>2, <2>3, FirstIs
<1>. HIDE DEF inputs, outputs, starts, user, q, after, listed
<1>. DEFINE Ok(s, m) == s \in Seq(SUBSET Cells(g)) /\ m \in Seq(Cells(g))
<1>9. Ok(rest, marked) /\ Ok(rest, marked \o listed) /\ Ok(Append(stack, inputs \ outputs), marked)
  BY <1>2, <1>4, <1>6
<1>10. open(focus) # {} => Ok(after, Append(marked, q)) /\ Ok(Append(rest, focus \ {q}), Append(marked, q))
  BY <1>2, <1>5, <1>7
<1>11. starts # {} => Ok(Append(stack, {user}), marked)
  BY <1>2, <1>8
<1>12. \A s, m : Ok(s, m) => <<s, m>> \in States(g)
  BY DEF States
<1>. HIDE DEF Ok
<1>. QED
  BY <1>1, <1>9, <1>10, <1>11, <1>12

LEMMA MarkingIs ==
    ASSUME NEW g, IsShape(g)
    PROVE  \E h : Marking(g, h)
<1>. DEFINE D == States(g)
            Done == {s \in D : s[1] = <<>>}
            next == [s \in D |-> IF s[1] = <<>> THEN s ELSE MarkRound(g, s[1], s[2])]
            out == [s \in D |-> s[2]]
<1>1. \A s \in D : next[s] \in D
  <2>1. \A s \in D : s[1] \in Seq(SUBSET Cells(g)) /\ s[2] \in Seq(Cells(g))
    BY DEF States
  <2>. QED
    BY <2>1, RoundIsState
<1>2. \A s \in D : s \in Done <=> s[1] = <<>>
  OBVIOUS
<1>3. \A s \in D : out[s] = s[2] /\ (s \notin Done => next[s] = MarkRound(g, s[1], s[2]))
  OBVIOUS
<1>4. Done \in SUBSET D
  OBVIOUS
<1>. HIDE DEF D, Done, next, out
<1>5. PICK h : Looping(h, D, Done, next, out)
  BY <1>1, <1>4, LoopIs, Zenon
<1>6. DOMAIN h = D /\ \A s \in D : h[s] = IF s[1] = <<>> THEN s[2] ELSE h[MarkRound(g, s[1], s[2])]
  <2>1. DOMAIN h = D /\ h = [s \in D |-> h[s]] /\ \A s \in D : h[s] = IF s \in Done THEN out[s] ELSE h[next[s]]
    BY <1>5 DEF Looping
  <2>. QED
    BY <1>2, <1>3, <2>1
<1>7. h = [s \in D |-> h[s]]
  BY <1>5 DEF Looping
<1>8. h = [s \in D |-> IF s[1] = <<>> THEN s[2] ELSE h[MarkRound(g, s[1], s[2])]]
  BY <1>6, <1>7
<1>. QED
  BY <1>8 DEF Marking, D

\* The list has each cell once, with its faces, and what is on the stack; and
\* it has no more than that takes.
Traversed(g, stack, marked, list) ==
    /\ list \in Seq(Cells(g)) /\ OneToOne(list) /\ Closed(g, Image(list))
    /\ Met(stack, marked) \subseteq Image(list)
    /\ \A D : Closed(g, D) /\ Met(stack, marked) \subseteq D => Image(list) \subseteq D

LEMMA TraversedOnward ==
    ASSUME NEW g, NEW stack, NEW marked, NEW next, NEW now, Keeps(g, stack, marked, next, now),
           NEW list, Traversed(g, next, now, list)
    PROVE  Traversed(g, stack, marked, list)
  BY DEF Keeps, Traversed

\* Every traversal comes to an end, whatever is on the stack.
LEMMA TraversalEnds ==
    ASSUME NEW g, IsShape(g), HasInputs(g), NEW h, Marking(g, h)
    PROVE  \A s \in States(g) : UnderWay(g, s[1], s[2]) => Traversed(g, s[1], s[2], h[s])
<1>. DEFINE bad == {s \in States(g) : UnderWay(g, s[1], s[2]) /\ ~Traversed(g, s[1], s[2], h[s])}
            onward(s) == MarkRound(g, s[1], s[2])
            left == [s \in bad |-> Cardinality(Cells(g) \ Image(s[2]))]
<1>1. SUFFICES ASSUME bad # {} PROVE FALSE
  OBVIOUS
<1>2. \A s \in States(g) : /\ s[1] \in Seq(SUBSET Cells(g)) /\ s[2] \in Seq(Cells(g))
                           /\ h[s] = IF s[1] = <<>> THEN s[2] ELSE h[onward(s)]
  BY DEF Marking, States
<1>3. ASSUME NEW s \in bad PROVE s[1] # <<>>
  <2>1. SUFFICES ASSUME s[1] = <<>> PROVE FALSE
    OBVIOUS
  <2>2. Pending(<<>>) = {}
    BY DEF Pending, Image
  <2>3. h[s] = s[2]
    BY <1>2, <2>1
  <2>. QED
    BY <2>1, <2>2, <2>3 DEF UnderWay, IsStackOf, Traversed, Met, Closed
<1>4. ASSUME NEW s \in bad
      PROVE  /\ onward(s) \in bad
             /\ Keeps(g, s[1], s[2], onward(s)[1], onward(s)[2])
             /\ Advances(s[1], s[2], onward(s)[1], onward(s)[2])
  <2>1. onward(s) \in States(g)
    BY <1>2, <1>3, RoundIsState
  <2>2. /\ UnderWay(g, onward(s)[1], onward(s)[2])
        /\ Keeps(g, s[1], s[2], onward(s)[1], onward(s)[2])
        /\ Advances(s[1], s[2], onward(s)[1], onward(s)[2])
    BY <1>3, RoundKeeps
  <2>3. h[s] = h[onward(s)]
    BY <1>2, <1>3
  <2>. HIDE DEF onward
  <2>4. ~Traversed(g, onward(s)[1], onward(s)[2], h[onward(s)])
    BY <2>2, <2>3, TraversedOnward
  <2>. QED
    BY <2>1, <2>2, <2>4
<1>5. \A s \in bad : UnderWay(g, s[1], s[2]) /\ Image(s[2]) \subseteq Cells(g)
  BY DEF UnderWay, IsStackOf, Image
<1>6. IsFiniteSet(Cells(g)) /\ Cells(g) \subseteq Nat \X Nat
  BY DEF IsShape
<1>. HIDE DEF bad, onward
<1>7. \A s \in bad : left[s] \in Nat
  BY <1>6, FS_Subset, FS_CardinalityType
<1>8. PICK first \in bad : \A s \in bad : left[first] =< left[s]
  <2>. HIDE DEF left
  <2>. QED
    BY <1>1, <1>7, LeastBy
\* From here on nothing is marked.
<1>. DEFINE same == {s \in bad : left[s] = left[first]}
<1>9. ASSUME NEW s \in same PROVE onward(s) \in same /\ Image(onward(s)[2]) = Image(s[2])
  <2>1. onward(s) \in bad /\ Image(s[2]) \subseteq Image(onward(s)[2])
    BY <1>4 DEF Keeps
  <2>2. Image(onward(s)[2]) = Image(s[2])
    <3>. DEFINE A == Cells(g) \ Image(onward(s)[2])
                B == Cells(g) \ Image(s[2])
    <3>1. SUFFICES ASSUME Image(onward(s)[2]) # Image(s[2]) PROVE FALSE
      OBVIOUS
    <3>2. A \in SUBSET B /\ A # B /\ IsFiniteSet(B)
      BY <1>5, <1>6, <2>1, <3>1, FS_Subset
    <3>3. Cardinality(A) < Cardinality(B)
      <4>. HIDE DEF A, B
      <4>1. IsFiniteSet(A) /\ Cardinality(A) =< Cardinality(B) /\ (Cardinality(A) = Cardinality(B) => A = B)
        BY <3>2, FS_Subset
      <4>2. Cardinality(A) \in Nat /\ Cardinality(B) \in Nat
        BY <3>2, <4>1, FS_CardinalityType
      <4>. QED
        BY <3>2, <4>1, <4>2
    <3>4. left[onward(s)] = Cardinality(A) /\ left[s] = Cardinality(B)
      BY <2>1
    <3>. HIDE DEF A, B, left
    <3>5. left[first] =< left[onward(s)] /\ left[s] = left[first] /\ left[first] \in Nat /\ left[onward(s)] \in Nat
      BY <1>7, <1>8, <2>1
    <3>. QED
      BY <3>3, <3>4, <3>5
  <2>3. left[onward(s)] = left[s]
    BY <2>1, <2>2
  <2>. QED
    BY <2>1, <2>2, <2>3
<1>. DEFINE opened == {s \in same : ~(Last(s[1]) \subseteq Image(s[2]))}
            weight == [s \in opened |-> Weight(Last(s[1]))]
            height == [s \in same |-> Len(s[1])]
<1>10. \A s \in opened : weight[s] \in Nat
  <2>1. SUFFICES ASSUME NEW s \in opened PROVE Weight(Last(s[1])) \in Nat
    OBVIOUS
  <2>2. s \in bad /\ UnderWay(g, s[1], s[2]) /\ s[1] # <<>> /\ Last(s[1]) # {}
    BY <1>3, <1>5
  <2>3. Last(s[1]) \in SUBSET Cells(g) /\ \A y, z \in Last(s[1]) : z[1] =< y[1]
    <3>1. s[1] \in Seq(SUBSET Cells(g)) /\ Descends(s[1])
      BY <2>2 DEF UnderWay, IsStackOf
    <3>2. /\ Pending(s[1]) = Pending(Front(s[1])) \cup Last(s[1])
          /\ \A y \in Pending(s[1]), z \in Last(s[1]) : z[1] =< y[1]
      BY <2>2, <3>1, DescendsOff
    <3>. QED
      BY <2>2, <3>1, <3>2, LastOf
  <2>. DEFINE focus == Last(s[1])
  <2>. HIDE DEF focus
  <2>4. \E n \in Nat : \A x \in focus : x[1] = n
    <3>1. focus \subseteq Nat \X Nat /\ focus # {} /\ \A y, z \in focus : z[1] =< y[1]
      BY <1>6, <2>2, <2>3 DEF focus
    <3>. QED
      BY <3>1
  <2>5. Weight(focus) \in Nat
    BY <2>2, <2>3, <2>4, WeightIs DEF focus
  <2>. QED
    BY <2>5 DEF focus
<1>11. opened = {}
  <2>1. SUFFICES ASSUME opened # {} PROVE FALSE
    OBVIOUS
  <2>2. PICK s \in opened : \A t \in opened : weight[s] =< weight[t]
    <3>. HIDE DEF opened, weight
    <3>. QED
      BY <1>10, <2>1, LeastBy
  <2>3. s \in same /\ s \in bad /\ onward(s) \in same /\ Image(onward(s)[2]) = Image(s[2])
    BY <1>9
  <2>4. ~(Last(s[1]) \subseteq Image(s[2]))
    OBVIOUS
  <2>5. /\ ~(Last(onward(s)[1]) \subseteq Image(s[2]))
        /\ Weight(Last(onward(s)[1])) < Weight(Last(s[1]))
    BY <1>4, <2>3, <2>4 DEF Advances
  <2>6. onward(s) \in opened
    BY <2>3, <2>5
  <2>7. weight[s] = Weight(Last(s[1])) /\ weight[onward(s)] = Weight(Last(onward(s)[1]))
    BY <2>6
  <2>. HIDE DEF opened, weight
  <2>. QED
    BY <1>10, <2>2, <2>5, <2>6, <2>7
<1>12. \A s \in same : height[s] \in Nat
  <2>1. \A s \in same : s[1] \in Seq(SUBSET Cells(g))
    BY <1>5 DEF UnderWay, IsStackOf
  <2>. QED
    BY <2>1
<1>13. PICK s \in same : \A t \in same : height[s] =< height[t]
  <2>1. first \in same
    OBVIOUS
  <2>. HIDE DEF same, height
  <2>. QED
    BY <1>12, <2>1, LeastBy
<1>14. s \in bad /\ onward(s) \in same /\ Image(onward(s)[2]) = Image(s[2]) /\ Last(s[1]) \subseteq Image(s[2])
  BY <1>9, <1>11
<1>15. onward(s)[1] = Front(s[1])
  BY <1>4, <1>14 DEF Advances
<1>16. Len(Front(s[1])) = Len(s[1]) - 1 /\ Len(s[1]) \in Nat
  <2>1. s[1] \in Seq(SUBSET Cells(g)) /\ s[1] # <<>>
    BY <1>3, <1>5, <1>14 DEF UnderWay, IsStackOf
  <2>. QED
    BY <2>1, LastOf
<1>17. height[onward(s)] = Len(s[1]) - 1 /\ height[s] = Len(s[1])
  BY <1>14, <1>15, <1>16
<1>. HIDE DEF same, height
<1>. QED
  BY <1>13, <1>14, <1>16, <1>17

----------------------------------------------------------------------------
(* A list of cells as a shape of its own.                                  *)

Remapped(map, faces) == [c \in DOMAIN map |-> {x \in DOMAIN map : map[x] \in faces[map[c]]}]

\* The cells of a list that has the faces of each are a shape in this one.
LEMMA RemapIs ==
    ASSUME NEW g, IsShape(g), NEW list \in Seq(Cells(g)), OneToOne(list), Closed(g, Image(list)), NEW normal
    PROVE  LET e == remap_adjacency(g, list, normal)
           IN  IsEmbedding(e) /\ e.cod = g /\ Image(e.map) = Image(list) /\ e.dom.normal = normal
<1>. DEFINE N == Len(list)
            earlier(i) == {j \in 1 .. i - 1 : list[j][1] = list[i][1]}
            all(k) == {j \in 1 .. N : list[j][1] = k}
            new == [i \in DOMAIN list |-> <<list[i][1], Cardinality(earlier(i))>>]
            map == [c \in Image(new) |-> list[Preimage(new, c)]]
            dom == [in |-> Remapped(map, g.in), out |-> Remapped(map, g.out), normal |-> normal]
            e == remap_adjacency(g, list, normal)
<1>1. e = Embedding(dom, g, map)
  <2>. DEFINE news == Table(new)
              maps == Table([c \in Image(news) |-> list[Preimage(news, c)]])
              remapped(faces) == Table([c \in DOMAIN maps |-> {x \in DOMAIN maps : maps[x] \in faces[maps[c]]}])
  <2>1. e = Embedding([in |-> remapped(g.in), out |-> remapped(g.out), normal |-> normal], g, maps)
    BY DEF remap_adjacency
  <2>2. news = new
    BY TableIs
  <2>. HIDE DEF new, news
  <2>3. maps = [c \in Image(news) |-> list[Preimage(news, c)]]
    BY TableIs
  <2>4. maps = map
    BY <2>2, <2>3
  <2>. HIDE DEF map, maps
  <2>5. remapped(g.in) = Remapped(maps, g.in) /\ remapped(g.out) = Remapped(maps, g.out)
    BY TableIs DEF Remapped
  <2>. HIDE DEF remapped, e
  <2>. QED
    BY <2>1, <2>4, <2>5
<1>2. N \in Nat /\ DOMAIN list = 1 .. N /\ \A i \in 1 .. N : list[i] \in Cells(g)
  OBVIOUS
<1>3. /\ Cells(g) \subseteq Nat \X Nat
      /\ g.in \in [Cells(g) -> SUBSET Cells(g)] /\ g.out \in [Cells(g) -> SUBSET Cells(g)]
      /\ \A c \in Cells(g) : \A x \in g.in[c] \cup g.out[c] : x[1] = c[1] - 1
  BY DEF IsShape, Graded, Cells
<1>. HIDE DEF N
<1>4. \A i, j \in 1 .. N : list[i] = list[j] => i = j
  BY <1>2 DEF OneToOne
<1>5. ASSUME NEW i \in 1 .. N
      PROVE  /\ Cardinality(earlier(i)) \in Nat
             /\ \A T : IsFiniteSet(T) /\ earlier(i) \cup {i} \subseteq T => Cardinality(earlier(i)) < Cardinality(T)
  <2>1. 1 \in Int /\ i - 1 \in Int
    BY <1>2
  <2>2. IsFiniteSet(1 .. i - 1)
    BY <2>1, FS_Interval
  <2>3. IsFiniteSet(earlier(i)) /\ i \notin earlier(i)
    BY <2>2, FS_Subset
  <2>. HIDE DEF earlier
  <2>4. ASSUME NEW T, IsFiniteSet(T), earlier(i) \cup {i} \subseteq T PROVE Cardinality(earlier(i)) < Cardinality(T)
    <3>1. earlier(i) \in SUBSET T /\ earlier(i) # T
      BY <2>3, <2>4
    <3>2. Cardinality(earlier(i)) =< Cardinality(T) /\ (Cardinality(earlier(i)) = Cardinality(T) => earlier(i) = T)
      BY <2>4, <3>1, FS_Subset
    <3>3. Cardinality(earlier(i)) \in Nat /\ Cardinality(T) \in Nat
      BY <2>3, <2>4, FS_CardinalityType
    <3>. QED
      BY <3>1, <3>2, <3>3
  <2>. QED
    BY <2>3, <2>4, FS_CardinalityType
<1>6. \A k : IsFiniteSet(all(k))
  <2>1. 1 \in Int /\ N \in Int
    BY <1>2
  <2>2. IsFiniteSet(1 .. N)
    BY <2>1, FS_Interval
  <2>. QED
    BY <2>2, FS_Subset
<1>7. ASSUME NEW i \in 1 .. N, NEW j \in 1 .. N, list[i][1] = list[j][1], i < j
      PROVE  Cardinality(earlier(i)) < Cardinality(earlier(j))
  <2>1. earlier(i) \cup {i} \subseteq earlier(j)
    BY <1>2, <1>7
  <2>2. IsFiniteSet(earlier(j))
    <3>1. earlier(j) \subseteq all(list[j][1])
      BY <1>2
    <3>. QED
      BY <1>6, <3>1, FS_Subset
  <2>. HIDE DEF earlier
  <2>. QED
    BY <1>5, <2>1, <2>2
<1>8. ASSUME NEW i \in 1 .. N PROVE Cardinality(earlier(i)) < Cardinality(all(list[i][1]))
  <2>1. earlier(i) \cup {i} \subseteq all(list[i][1])
    BY <1>2
  <2>. HIDE DEF earlier, all
  <2>. QED
    BY <1>5, <1>6, <2>1
<1>9. DOMAIN new = 1 .. N /\ \A i \in 1 .. N : new[i] = <<list[i][1], Cardinality(earlier(i))>>
  BY <1>2
<1>. HIDE DEF earlier, all
<1>10. OneToOne(new)
  <2>1. SUFFICES ASSUME NEW i \in 1 .. N, NEW j \in 1 .. N, new[i] = new[j] PROVE i = j
    BY <1>9 DEF OneToOne
  <2>2. list[i][1] = list[j][1] /\ Cardinality(earlier(i)) = Cardinality(earlier(j))
    BY <1>9, <2>1
  <2>3. Cardinality(earlier(i)) \in Nat
    BY <1>5
  <2>4. ~(i < j) /\ ~(j < i)
    BY <1>7, <2>2, <2>3
  <2>. QED
    BY <2>4
<1>11. DOMAIN map = Image(new) /\ \A i \in 1 .. N : map[new[i]] = list[i]
  <2>1. \A i \in 1 .. N : Preimage(new, new[i]) = i /\ new[i] \in Image(new)
    BY <1>9, <1>10, PreimageIs DEF Image
  <2>. HIDE DEF new
  <2>. QED
    BY <2>1
<1>12. Image(new) = {new[i] : i \in 1 .. N}
  BY <1>9 DEF Image
<1>. HIDE DEF new, map
<1>13. \A c \in DOMAIN map : \E i \in 1 .. N : c = new[i] /\ map[c] = list[i]
  BY <1>11, <1>12
<1>14. /\ OneToOne(map) /\ \A c \in DOMAIN map : map[c] \in Cells(g) /\ map[c][1] = c[1] /\ c \in Nat \X Nat
  <2>1. OneToOne(map)
    BY <1>4, <1>13 DEF OneToOne
  <2>2. ASSUME NEW c \in DOMAIN map PROVE map[c] \in Cells(g) /\ map[c][1] = c[1] /\ c \in Nat \X Nat
    <3>1. PICK i \in 1 .. N : c = new[i] /\ map[c] = list[i]
      BY <1>13
    <3>2. c = <<list[i][1], Cardinality(earlier(i))>> /\ list[i] \in Nat \X Nat
      BY <1>2, <1>3, <1>9, <3>1
    <3>. QED
      BY <1>2, <1>5, <3>1, <3>2
  <2>. QED
    BY <2>1, <2>2
<1>15. Image(map) = Image(list)
  <2>1. Image(list) = {list[i] : i \in 1 .. N}
    BY <1>2 DEF Image
  <2>2. \A i \in 1 .. N : new[i] \in DOMAIN map /\ map[new[i]] = list[i]
    BY <1>11, <1>12
  <2>3. Image(map) \subseteq Image(list)
    BY <1>13, <2>1 DEF Image
  <2>4. Image(list) \subseteq Image(map)
    <3>1. SUFFICES ASSUME NEW i \in 1 .. N PROVE list[i] \in Image(map)
      BY <2>1
    <3>. QED
      BY <2>2 DEF Image
  <2>. QED
    BY <2>3, <2>4
<1>16. /\ Cells(dom) = DOMAIN map /\ dom.in = Remapped(map, g.in) /\ dom.out = Remapped(map, g.out)
       /\ dom.normal = normal
  BY DEF Cells, Remapped
<1>. HIDE DEF dom
<1>17. ASSUME NEW faces, faces \in [Cells(g) -> SUBSET Cells(g)], \A c \in Image(list) : faces[c] \subseteq Image(list),
              \A c \in Cells(g) : \A x \in faces[c] : x[1] = c[1] - 1
       PROVE  LET f == Remapped(map, faces)
              IN  f \in [DOMAIN map -> SUBSET DOMAIN map] /\ Graded(f) /\ Follows(map, f, faces)
  <2>. DEFINE f == Remapped(map, faces)
  <2>1. f \in [DOMAIN map -> SUBSET DOMAIN map] /\ DOMAIN f = DOMAIN map
        /\ \A c \in DOMAIN map : f[c] = {x \in DOMAIN map : map[x] \in faces[map[c]]}
    BY DEF Remapped
  <2>. HIDE DEF f
  <2>2. Graded(f)
    <3>1. SUFFICES ASSUME NEW c \in DOMAIN map, NEW x \in f[c] PROVE x[1] = c[1] - 1
      BY <2>1 DEF Graded
    <3>2. x \in DOMAIN map /\ map[x] \in faces[map[c]]
      BY <2>1, <3>1
    <3>3. map[x][1] = map[c][1] - 1
      BY <1>14, <1>17, <3>2
    <3>. QED
      BY <1>14, <3>2, <3>3
  <2>3. Follows(map, f, faces)
    <3>1. SUFFICES ASSUME NEW c \in DOMAIN map PROVE faces[map[c]] = ImageOf(map, f[c])
      BY DEF Follows
    <3>2. faces[map[c]] \subseteq Image(map)
      <4>1. map[c] \in Image(list)
        BY <1>15 DEF Image
      <4>. QED
        BY <1>15, <1>17, <4>1
    <3>3. \A y \in faces[map[c]] : \E x \in DOMAIN map : y = map[x]
      BY <3>2 DEF Image
    <3>. QED
      BY <2>1, <3>3 DEF ImageOf
  <2>. QED
    BY <2>1, <2>2, <2>3 DEF f
<1>18. /\ dom.in \in [Cells(dom) -> SUBSET Cells(dom)] /\ Graded(dom.in) /\ Follows(map, dom.in, g.in)
       /\ dom.out \in [Cells(dom) -> SUBSET Cells(dom)] /\ Graded(dom.out) /\ Follows(map, dom.out, g.out)
  <2>1. \A c \in Image(list) : g.in[c] \subseteq Image(list) /\ g.out[c] \subseteq Image(list)
    BY DEF Closed
  <2>2. \A c \in Cells(g) : (\A x \in g.in[c] : x[1] = c[1] - 1) /\ (\A x \in g.out[c] : x[1] = c[1] - 1)
    BY <1>3
  <2>. QED
    BY <1>3, <1>16, <1>17, <2>1, <2>2
<1>19. IsFiniteSet(Cells(dom)) /\ Cells(dom) \subseteq Nat \X Nat
  <2>1. new \in Surjection(1 .. N, Image(new))
    BY <1>9, <1>12 DEF Surjection, new
  <2>2. 1 \in Int /\ N \in Int
    BY <1>2
  <2>3. IsFiniteSet(1 .. N)
    BY <2>2, FS_Interval
  <2>4. IsFiniteSet(Image(new))
    BY <2>1, <2>3, FS_Surjection
  <2>. QED
    BY <1>11, <1>14, <1>16, <2>4
<1>20. Numbered(dom)
  <2>1. SUFFICES ASSUME NEW c \in Cells(dom) PROVE c[2] < Cardinality(Level(dom, c[1]))
    BY DEF Numbered
  <2>2. PICK i \in 1 .. N : c = new[i]
    BY <1>13, <1>16, <2>1
  <2>. DEFINE k == list[i][1]
              T == Level(dom, k)
              f == [j \in all(k) |-> new[j]]
  <2>3. c[1] = k /\ c[2] = Cardinality(earlier(i)) /\ Cardinality(earlier(i)) < Cardinality(all(k))
    BY <1>8, <1>9, <2>2
  <2>4. all(k) \subseteq 1 .. N /\ \A j \in 1 .. N : j \in all(k) <=> new[j][1] = k
    BY <1>9 DEF all
  <2>5. T = {new[j] : j \in all(k)}
    <3>1. Cells(dom) = {new[j] : j \in 1 .. N}
      BY <1>11, <1>12, <1>16
    <3>. QED
      BY <2>4, <3>1 DEF Level
  <2>6. \A j, m \in all(k) : new[j] = new[m] => j = m
    BY <1>9, <1>10, <2>4 DEF OneToOne
  <2>. HIDE DEF T, k
  <2>7. f \in Bijection(all(k), T)
    BY <2>5, <2>6 DEF Bijection, Injection, Surjection, IsInjective
  <2>. HIDE DEF f
  <2>8. Cardinality(T) = Cardinality(all(k))
    BY <1>6, <2>7, FS_Bijection DEF ExistsBijection
  <2>. QED
    BY <2>3, <2>8 DEF T
<1>21. IsShape(dom)
  BY <1>18, <1>19, <1>20, NumberedIsContiguous DEF IsShape
<1>22. Embeds(map, dom, g)
  <2>1. map \in [Cells(dom) -> Cells(g)]
    <3>1. map = [c \in DOMAIN map |-> map[c]]
      BY DEF map
    <3>. QED
      BY <1>14, <1>16, <3>1
  <2>. QED
    BY <1>14, <1>16, <1>18, <2>1 DEF Embeds
<1>23. e.dom = dom /\ e.cod = g /\ e.map = map
  BY <1>1 DEF Embedding
<1>. HIDE DEF e
<1>24. IsEmbedding(e)
  BY <1>21, <1>22, <1>23 DEF IsEmbedding
<1>. QED
  BY <1>15, <1>16, <1>23, <1>24 DEF e

----------------------------------------------------------------------------
(* What a traversal returns.                                               *)

LEMMA EmptyIs ==
    ASSUME NEW g, IsShape(g)
    PROVE  IsEmbedding(Embedding(empty, g, <<>>)) /\ Image(<<>>) = {}
<1>1. DOMAIN <<>> = {}
  OBVIOUS
<1>2. Image(<<>>) = {}
  BY <1>1 DEF Image
<1>3. \A T : <<>> \in [{} -> T]
  <2>1. <<>> = [x \in {} |-> x]
    BY <1>1
  <2>. QED
    BY <2>1
<1>4. empty.in = <<>> /\ empty.out = <<>>
  BY DEF empty
<1>5. Cells(empty) = {}
  BY <1>1, <1>4 DEF Cells
<1>6. \A k : Level(empty, k) = {}
  BY <1>5 DEF Level
<1>7. IsShape(empty)
  <2>1. IsFiniteSet({}) /\ Cardinality({}) = 0
    BY FS_EmptySet
  <2>2. Graded(<<>>)
    BY <1>1 DEF Graded
  <2>3. \A k \in Nat : Level(empty, k) = {<<k, i>> : i \in 0 .. Cardinality(Level(empty, k)) - 1}
    BY <1>6, <2>1
  <2>. QED
    BY <1>3, <1>4, <1>5, <2>1, <2>2, <2>3 DEF IsShape
<1>8. Embeds(<<>>, empty, g)
  <2>1. OneToOne(<<>>) /\ \A from, to : Follows(<<>>, from, to)
    BY <1>1 DEF OneToOne, Follows
  <2>. QED
    BY <1>3, <1>5, <2>1 DEF Embeds
<1>9. IsEmbedding([dom |-> empty, cod |-> g, map |-> <<>>])
  BY <1>7, <1>8 DEF IsEmbedding
<1>. QED
  BY <1>2, <1>9 DEF Embedding

\* Where the cells of no focus run in circles, a traversal of foci ends, and what
\* it returns is a shape, numbered without gaps and embedded in the one that
\* is traversed: what the stack names, with all that is below it, and nothing
\* more. Every slot of the maps is written, and every face has been given its
\* number when a cell that has it is (traverse).
THEOREM Traversal ==
    ASSUME NEW g, IsShape(g), HasInputs(g),
           NEW stack, IsStackOf(g, stack), NEW normal
    PROVE  LET e == traverse(g, stack, normal)
           IN  /\ IsEmbedding(e) /\ e.cod = g
               /\ Closed(g, Image(e.map)) /\ Pending(stack) \subseteq Image(e.map)
               /\ \A D : Closed(g, D) /\ Pending(stack) \subseteq D => Image(e.map) \subseteq D
<1>. DEFINE e == traverse(g, stack, normal)
            Good(x) == /\ IsEmbedding(x) /\ x.cod = g
                       /\ Closed(g, Image(x.map)) /\ Pending(stack) \subseteq Image(x.map)
                       /\ \A D : Closed(g, D) /\ Pending(stack) \subseteq D => Image(x.map) \subseteq D
<1>. SUFFICES Good(e)
  OBVIOUS
<1>. HIDE DEF e
<1>1. CASE Dim(g) < 0 \/ stack = <<>>
  <2>1. e = Embedding(empty, g, <<>>)
    BY <1>1 DEF traverse, e
  <2>2. Pending(stack) = {}
    <3>1. CASE stack = <<>>
      BY <3>1, EmptyIs DEF Pending
    <3>2. CASE Dim(g) < 0
      <4>1. Cells(g) = {}
        <5>1. IsFiniteSet(Cells(g)) /\ Cells(g) \subseteq Nat \X Nat
          BY DEF IsShape
        <5>2. Cells(g) # {} => Dim(g) \in Nat
          BY <5>1, DimIs
        <5>. QED
          BY <3>2, <5>2
      <4>2. \A i \in DOMAIN stack : stack[i] = {}
        BY <4>1 DEF IsStackOf
      <4>. QED
        BY <4>2 DEF Pending, Image
    <3>. QED
      BY <1>1, <3>1, <3>2
  <2>3. e.map = <<>> /\ e.cod = g
    BY <2>1 DEF Embedding
  <2>4. Image(e.map) = {} /\ IsEmbedding(e)
    BY <2>1, <2>3, EmptyIs
  <2>5. Closed(g, {})
    BY DEF Closed
  <2>. QED
    BY <2>2, <2>3, <2>4, <2>5
<1>2. CASE ~(Dim(g) < 0 \/ stack = <<>>)
  <2>. DEFINE list == Marked(g, stack)
              h == CHOOSE x : Marking(g, x)
  <2>1. e = remap_adjacency(g, list, normal)
    BY <1>2 DEF traverse, e
  <2>2. list = h[<<stack, <<>>>>]
    BY DEF Marked, Marking, States
  <2>3. Marking(g, h)
    BY MarkingIs
  <2>4. UnderWay(g, stack, <<>>)
    <3>1. <<>> \in Seq(Cells(g)) /\ OneToOne(<<>>) /\ Image(<<>>) = {}
      BY EmptyIs DEF OneToOne
    <3>. QED
      BY <3>1 DEF UnderWay, IsStackOf
  <2>5. <<stack, <<>>>> \in States(g)
    <3>1. <<>> \in Seq(Cells(g))
      OBVIOUS
    <3>. QED
      BY <3>1 DEF States, IsStackOf
  <2>. HIDE DEF h, list
  <2>6. Traversed(g, stack, <<>>, list)
    <3>. DEFINE s == <<stack, <<>>>>
    <3>1. Traversed(g, s[1], s[2], h[s])
      <4>1. UnderWay(g, s[1], s[2])
        BY <2>4
      <4>. HIDE DEF s
      <4>. QED
        BY <2>3, <2>5, <4>1, TraversalEnds DEF s
    <3>. QED
      BY <2>2, <3>1
  <2>7. Met(stack, <<>>) = Pending(stack)
    BY EmptyIs DEF Met
  <2>8. /\ list \in Seq(Cells(g)) /\ OneToOne(list) /\ Closed(g, Image(list))
        /\ Pending(stack) \subseteq Image(list)
        /\ \A D : Closed(g, D) /\ Pending(stack) \subseteq D => Image(list) \subseteq D
    BY <2>6, <2>7 DEF Traversed
  <2>9. IsEmbedding(e) /\ e.cod = g /\ Image(e.map) = Image(list)
    BY <2>1, <2>8, RemapIs
  <2>. QED
    BY <2>8, <2>9
<1>. QED
  BY <1>1, <1>2

\* The dimensions from k down to 0, one after the other.
IsStack(g, s, k) ==
    /\ IsStackOf(g, s) /\ Len(s) = k + 1
    /\ \A i \in 1 .. k + 1 : \A c \in s[i] : c[1] = k + 1 - i

LEMMA EitherSide ==
    ASSUME NEW g, NEW sign, NEW k
    PROVE  extremal(g, sign, k) = extremal(g, "in", k) \/ extremal(g, sign, k) = extremal(g, "out", k)
  BY DEF extremal, Opposite

LEMMA StackIs ==
    ASSUME NEW g, IsShape(g), NEW sign, NEW k \in Int, k >= -1, k =< Dim(g)
    PROVE  IsStack(g, build_stack_paste(sign, g, k), k)
<1>. DEFINE s == build_stack_paste(sign, g, k)
            side(i) == IF i = 1 THEN sign ELSE "in"
<1>1. s = [i \in 1 .. k + 1 |-> extremal(g, side(i), k + 1 - i)]
  BY DEF build_stack_paste
<1>. HIDE DEF s, side
<1>2. k + 1 \in Nat
  OBVIOUS
<1>3. \A i \in 1 .. k + 1 : extremal(g, side(i), k + 1 - i) \in SUBSET Cells(g)
  BY DEF extremal, Level
<1>4. s \in Seq(SUBSET Cells(g)) /\ Len(s) = k + 1 /\ DOMAIN s = 1 .. k + 1
  BY <1>1, <1>2, <1>3
<1>5. \A i \in 1 .. k + 1 : \A c \in s[i] : c[1] = k + 1 - i
  BY <1>1 DEF extremal, Level
<1>6. Descends(s)
  <2>1. SUFFICES ASSUME NEW i \in 1 .. k + 1, NEW j \in 1 .. k + 1, i =< j, NEW x \in s[i], NEW y \in s[j]
                 PROVE  y[1] =< x[1]
    BY <1>4 DEF Descends
  <2>2. x[1] = k + 1 - i /\ y[1] = k + 1 - j
    BY <1>5
  <2>. QED
    BY <2>1, <2>2
<1>7. ASSUME NEW i \in 1 .. k + 1 PROVE IsFocus(g, s[i])
  <2>1. s[i] = extremal(g, "in", k + 1 - i) \/ s[i] = extremal(g, "out", k + 1 - i)
    BY <1>1, EitherSide
  <2>2. k + 1 - i \in 0 .. Dim(g)
    BY DimIs DEF IsShape
  <2>3. s[i] \in Sides(g, k + 1 - i)
    BY <2>1 DEF Sides
  <2>. QED
    BY <2>2, <2>3, SidesAreFoci
<1>8. \A F \in Image(s) : IsFocus(g, F)
  BY <1>4, <1>7 DEF Image
<1>. QED
  BY <1>4, <1>5, <1>6, <1>8 DEF s, IsStack, IsStackOf

LEMMA CellStackIs ==
    ASSUME NEW g, IsShape(g), ~(Dim(g) < 0)
    PROVE  IsStackOf(g, build_stack_cell_n(g))
<1>. DEFINE s == build_stack_cell_n(g)
            d == Dim(g)
            below == build_stack_paste("in", g, d - 1)
            outs == extremal(g, "out", d - 1)
<1>1. d \in Nat
  BY DimIs DEF IsShape
<1>2. s = IF d = 0 THEN <<>> ELSE <<outs>> \o below
  BY DEF build_stack_cell_n
<1>3. /\ IsStackOf(g, below) /\ below \in Seq(SUBSET Cells(g)) /\ Len(below) = d
      /\ \A i \in 1 .. d : \A c \in below[i] : c[1] = d - i
  <2>. DEFINE m == d - 1
  <2>1. m \in Int /\ m >= -1 /\ m + 1 = d /\ m =< Dim(g) /\ below = build_stack_paste("in", g, m)
    BY <1>1
  <2>. HIDE DEF d, m, below
  <2>2. IsStack(g, below, m)
    BY <2>1, StackIs
  <2>. QED
    BY <2>1, <2>2 DEF IsStack, IsStackOf
<1>4. outs \in SUBSET Cells(g) /\ \A c \in outs : c[1] = d - 1
  BY DEF extremal, Level
<1>7. d # 0 => IsFocus(g, outs)
  <2>1. SUFFICES ASSUME d # 0 PROVE IsFocus(g, outs)
    OBVIOUS
  <2>2. d - 1 \in 0 .. Dim(g)
    BY <1>1, <2>1
  <2>. QED
    BY <2>2, SidesAreFoci DEF Sides
<1>. HIDE DEF s, d, below, outs
<1>5. CASE d = 0
  <2>1. s = <<>> /\ DOMAIN <<>> = {} /\ <<>> \in Seq(SUBSET Cells(g))
    BY <1>2, <1>5
  <2>. QED
    BY <2>1 DEF Descends, IsStackOf, Image, s
<1>6. CASE d # 0
  <2>1. s = <<outs>> \o below
    BY <1>2, <1>6
  <2>2. <<outs>> \in Seq(SUBSET Cells(g)) /\ Len(<<outs>>) = 1
    BY <1>4
  <2>3. s \in Seq(SUBSET Cells(g)) /\ Len(s) = d + 1 /\ s[1] = outs /\ \A i \in 2 .. d + 1 : s[i] = below[i - 1]
    BY <1>1, <1>3, <2>1, <2>2
  <2>4. DOMAIN s = 1 .. d + 1
    BY <2>3
  <2>5. \A i \in 2 .. d + 1 : \A c \in s[i] : c[1] = d - (i - 1)
    BY <1>1, <1>3, <2>3
  <2>6. Descends(s)
    <3>1. SUFFICES ASSUME NEW i \in 1 .. d + 1, NEW j \in 1 .. d + 1, i =< j, NEW x \in s[i], NEW y \in s[j]
                   PROVE  y[1] =< x[1]
      BY <2>4 DEF Descends
    <3>2. (i = 1 => x[1] = d - 1) /\ (j = 1 => y[1] = d - 1)
      BY <1>4, <2>3
    <3>3. (i # 1 => x[1] = d - (i - 1)) /\ (j # 1 => y[1] = d - (j - 1))
      BY <1>1, <2>5
    <3>. QED
      BY <1>1, <3>1, <3>2, <3>3
  <2>7. Image(s) \subseteq {outs} \cup Image(below)
    <3>1. SUFFICES ASSUME NEW i \in 1 .. d + 1 PROVE s[i] \in {outs} \cup Image(below)
      BY <2>4 DEF Image
    <3>2. CASE i = 1
      BY <2>3, <3>2
    <3>3. CASE i # 1
      <4>1. i \in 2 .. d + 1 /\ i - 1 \in DOMAIN below
        BY <1>1, <1>3, <3>3
      <4>. QED
        BY <2>3, <4>1 DEF Image
    <3>. QED
      BY <3>2, <3>3
  <2>. QED
    BY <1>3, <1>6, <1>7, <2>3, <2>6, <2>7 DEF s, IsStackOf
<1>. QED
  BY <1>5, <1>6

LEMMA LowerIs ==
    ASSUME NEW k \in Int, NEW d \in Int
    PROVE  Min({k, d}) = IF k =< d THEN k ELSE d
<1>1. \E x \in {k, d} : \A y \in {k, d} : x =< y
  OBVIOUS
<1>2. Min({k, d}) \in {k, d} /\ \A y \in {k, d} : Min({k, d}) =< y
  BY <1>1 DEF Min
<1>. QED
  BY <1>2

\* A boundary as it is taken for pasting, of whatever dimension and side, or
\* for making a cell, is a shape embedded in the one it is a boundary of, with
\* all that is below the cells it is made of (boundary_traverse).
THEOREM BoundaryIsEmbedded ==
    ASSUME NEW g, IsShape(g), HasInputs(g), NEW sign, NEW k \in Nat
    PROVE  LET e == boundary_traverse(sign, k, g)
           IN  /\ IsEmbedding(e) /\ e.cod = g /\ Closed(g, Image(e.map))
               /\ sign # "both" => extremal(g, sign, Min({k, Dim(g)})) \subseteq Image(e.map)
<1>. DEFINE e == boundary_traverse(sign, k, g)
            m == Min({k, Dim(g)})
            stack == IF sign = "both" THEN build_stack_cell_n(g) ELSE build_stack_paste(sign, g, m)
            Good(x) == /\ IsEmbedding(x) /\ x.cod = g /\ Closed(g, Image(x.map))
                       /\ sign # "both" => extremal(g, sign, m) \subseteq Image(x.map)
<1>. SUFFICES Good(e)
  OBVIOUS
<1>1. e = traverse(g, stack, sign # "both")
  BY DEF boundary_traverse
<1>2. Dim(g) \in Int
  BY DimIs DEF IsShape
<1>3. m \in Int /\ (~(Dim(g) < 0) => m >= 0) /\ (Dim(g) < 0 => m = Dim(g))
  BY <1>2, LowerIs
<1>. HIDE DEF e, m
<1>4. CASE Dim(g) < 0
  <2>1. e = Embedding(empty, g, <<>>)
    BY <1>1, <1>4 DEF traverse
  <2>2. Cells(g) = {}
    BY <1>2, <1>4, DimIs DEF IsShape
  <2>3. extremal(g, sign, m) = {}
    BY <2>2 DEF extremal, Level
  <2>4. e.map = <<>> /\ e.cod = g
    BY <2>1 DEF Embedding
  <2>5. IsEmbedding(e) /\ Image(e.map) = {}
    BY <2>1, <2>4, EmptyIs
  <2>6. Closed(g, {})
    BY DEF Closed
  <2>. QED
    BY <2>3, <2>4, <2>5, <2>6
<1>5. CASE ~(Dim(g) < 0)
  <2>1. IsStackOf(g, stack)
    <3>1. CASE sign = "both"
      BY <1>5, <3>1, CellStackIs
    <3>2. CASE sign # "both"
      <4>1. m >= -1 /\ m =< Dim(g)
        BY <1>2, <1>3, <1>5, LowerIs DEF m
      <4>2. IsStack(g, build_stack_paste(sign, g, m), m)
        BY <1>3, <4>1, StackIs
      <4>. QED
        BY <3>2, <4>2 DEF IsStack
    <3>. QED
      BY <3>1, <3>2
  <2>2. sign # "both" => extremal(g, sign, m) \subseteq Pending(stack)
    <3>1. SUFFICES ASSUME sign # "both" PROVE extremal(g, sign, m) \subseteq Pending(stack)
      OBVIOUS
    <3>2. stack = [i \in 1 .. m + 1 |-> extremal(g, IF i = 1 THEN sign ELSE "in", m + 1 - i)]
      BY <3>1 DEF build_stack_paste
    <3>3. 1 \in 1 .. m + 1 /\ m + 1 - 1 = m
      BY <1>3, <1>5
    <3>. HIDE DEF stack
    <3>4. 1 \in DOMAIN stack /\ stack[1] = extremal(g, sign, m)
      BY <3>2, <3>3
    <3>. QED
      BY <3>4 DEF Pending, Image
  <2>. HIDE DEF stack
  <2>3. /\ IsEmbedding(e) /\ e.cod = g
        /\ Closed(g, Image(e.map)) /\ Pending(stack) \subseteq Image(e.map)
    BY <1>1, <2>1, Traversal
  <2>. QED
    BY <2>2, <2>3
<1>. QED
  BY <1>4, <1>5

----------------------------------------------------------------------------
(* Normal forms and isomorphisms.                                          *)

\* An embedding that reaches every cell.
Isomorphism(map, g, h) == Embeds(map, g, h) /\ Image(map) = Cells(h)

LEMMA IdentityIs ==
    ASSUME NEW g, NEW h, IsShape(g), equal(g, h)
    PROVE  Isomorphism(id(g).map, g, h)
<1>. DEFINE m == id(g).map
<1>1. m = [c \in Cells(g) |-> c]
  BY TableIs DEF id, Embedding
<1>2. /\ Cells(h) = Cells(g) /\ h.in = g.in /\ h.out = g.out
      /\ g.in \in [Cells(g) -> SUBSET Cells(g)] /\ g.out \in [Cells(g) -> SUBSET Cells(g)]
  BY DEF equal, Cells, IsShape
<1>. HIDE DEF m
<1>3. m \in [Cells(g) -> Cells(h)] /\ DOMAIN m = Cells(g) /\ \A c \in Cells(g) : m[c] = c
  BY <1>1, <1>2
<1>4. \A S \in SUBSET Cells(g) : ImageOf(m, S) = S
  BY <1>3 DEF ImageOf
<1>5. Follows(m, g.in, h.in) /\ Follows(m, g.out, h.out)
  BY <1>2, <1>3, <1>4 DEF Follows
<1>6. OneToOne(m)
  BY <1>3 DEF OneToOne
<1>7. Image(m) = Cells(h)
  BY <1>2, <1>3 DEF Image
<1>. QED
  BY <1>3, <1>5, <1>6, <1>7 DEF Isomorphism, Embeds, m

\* The normal form of a shape has all of it: a cell that no stack entry names
\* is an output of a cell one dimension above it (normalisation).
THEOREM NormalFormIsIsomorphic ==
    ASSUME NEW g, IsShape(g), HasInputs(g)
    PROVE  LET e == normalisation(g)
           IN  IsShape(e.dom) /\ e.cod = g /\ Isomorphism(e.map, e.dom, g)
<1>. DEFINE e == normalisation(g)
            d == Dim(g)
            stack == build_stack_paste("in", g, d)
            Good(x) == IsShape(x.dom) /\ x.cod = g /\ Isomorphism(x.map, x.dom, g)
<1>. SUFFICES Good(e)
  OBVIOUS
<1>1. CASE g.normal
  <2>1. e = id(g)
    BY <1>1 DEF normalisation
  <2>2. e.dom = g /\ e.cod = g
    BY <2>1 DEF id, Embedding
  <2>3. equal(g, g)
    BY DEF equal
  <2>. HIDE DEF e
  <2>. QED
    BY <2>1, <2>2, <2>3, IdentityIs
<1>2. CASE ~g.normal
  <2>1. e = traverse(g, stack, TRUE)
    BY <1>2 DEF normalisation, build_stack_extremal
  <2>. HIDE DEF e
  <2>2. d \in Int /\ \A c \in Cells(g) : c[1] \in Nat /\ c[1] =< d
    BY DimIs DEF IsShape
  <2>3. CASE d < 0
    <3>1. Cells(g) = {}
      BY <2>2, <2>3
    <3>2. e = Embedding(empty, g, <<>>)
      BY <2>1, <2>3 DEF traverse
    <3>3. e.dom = empty /\ e.cod = g /\ e.map = <<>>
      BY <3>2 DEF Embedding
    <3>4. IsEmbedding(e) /\ Image(e.map) = {}
      BY <3>2, <3>3, EmptyIs
    <3>. QED
      BY <3>1, <3>3, <3>4 DEF Isomorphism, IsEmbedding
  <2>4. CASE ~(d < 0)
    <3>. HIDE DEF d
    <3>1. IsStack(g, stack, d)
      BY <2>2, <2>4, StackIs DEF d
    <3>2. /\ IsEmbedding(e) /\ e.cod = g
          /\ Closed(g, Image(e.map)) /\ Pending(stack) \subseteq Image(e.map)
      BY <2>1, <3>1, Traversal DEF IsStack
    <3>. DEFINE I == Image(e.map)
                bad == Cells(g) \ I
                height == [c \in bad |-> d - c[1]]
    <3>3. \A k \in 0 .. d : extremal(g, "in", k) \subseteq I
      <4>1. SUFFICES ASSUME NEW k \in 0 .. d PROVE extremal(g, "in", k) \subseteq Pending(stack)
        BY <3>2
      <4>2. d + 1 - k \in 1 .. d + 1 /\ d + 1 - (d + 1 - k) = k
        BY <2>2, <2>4
      <4>3. stack[d + 1 - k] = extremal(g, "in", k)
        BY <4>2 DEF build_stack_paste
      <4>4. DOMAIN stack = 1 .. d + 1
        BY DEF build_stack_paste
      <4>. HIDE DEF stack
      <4>. QED
        BY <4>2, <4>3, <4>4 DEF Pending, Image
    <3>4. bad = {}
      <4>1. SUFFICES ASSUME bad # {} PROVE FALSE
        OBVIOUS
      <4>2. height \in [bad -> Nat]
        BY <2>2
      <4>. HIDE DEF height
      <4>3. PICK c \in bad : \A x \in bad : height[c] =< height[x]
        BY <4>1, <4>2, LeastBy
      <4>4. c \in Cells(g) /\ c \notin I /\ c[1] \in 0 .. d
        BY <2>2, <4>3
      <4>5. c \notin extremal(g, "in", c[1])
        BY <3>3, <4>4
      <4>6. PICK x \in Cells(g) : x[1] = c[1] + 1 /\ c \in g.out[x]
        BY <4>4, <4>5 DEF extremal, cofaces_of, faces_of, Level, Opposite
      <4>7. x \notin I
        BY <3>2, <4>4, <4>6 DEF Closed
      <4>8. x \in bad /\ height[x] = d - (c[1] + 1) /\ height[c] = d - c[1]
        BY <4>6, <4>7, <4>3 DEF height
      <4>. QED
        BY <2>2, <4>3, <4>4, <4>8
    <3>5. I \subseteq Cells(g)
      BY <3>2 DEF Image, IsEmbedding, Embeds
    <3>. QED
      BY <3>2, <3>4, <3>5 DEF Isomorphism, IsEmbedding
  <2>. QED
    BY <2>3, <2>4
<1>. QED
  BY <1>1, <1>2

LEMMA FollowsThrough ==
    ASSUME NEW a, NEW b, NEW m, NEW C, NEW from, NEW to, NEW faces,
           OneToOne(a), DOMAIN a = C, DOMAIN b = C, faces \in [C -> SUBSET C],
           DOMAIN m = Image(a), \A z \in C : m[a[z]] = b[z],
           Follows(a, faces, from), Follows(b, faces, to)
    PROVE  Follows(m, from, to)
<1>1. SUFFICES ASSUME NEW c \in DOMAIN m PROVE to[m[c]] = ImageOf(m, from[c])
  BY DEF Follows
<1>2. PICK z \in C : c = a[z]
  BY DEF Image
<1>3. m[c] = b[z] /\ faces[z] \subseteq C
  BY <1>2
<1>4. to[b[z]] = ImageOf(b, faces[z]) /\ from[a[z]] = ImageOf(a, faces[z])
  BY <1>2 DEF Follows
<1>5. ImageOf(m, ImageOf(a, faces[z])) = {m[a[y]] : y \in faces[z]}
  BY DEF ImageOf
<1>6. {m[a[y]] : y \in faces[z]} = {b[y] : y \in faces[z]}
  BY <1>3
<1>. QED
  BY <1>2, <1>3, <1>4, <1>5, <1>6 DEF ImageOf

LEMMA ThroughIs ==
    ASSUME NEW nu, NEW nv, NEW g, NEW h, IsShape(nu.dom), equal(nu.dom, nv.dom),
           nu.cod = g, Isomorphism(nu.map, nu.dom, g), Isomorphism(nv.map, nv.dom, h)
    PROVE  Isomorphism(Through(nu, nv), g, h)
<1>. DEFINE a == nu.map
            b == nv.map
            m == Through(nu, nv)
            C == Cells(nu.dom)
<1>1. /\ nv.dom.in = nu.dom.in /\ nv.dom.out = nu.dom.out /\ Cells(nv.dom) = C
      /\ nu.dom.in \in [C -> SUBSET C] /\ nu.dom.out \in [C -> SUBSET C]
  BY DEF equal, Cells, IsShape
<1>2. /\ a \in [C -> Cells(g)] /\ OneToOne(a) /\ Image(a) = Cells(g)
      /\ \A x \in C : a[x][1] = x[1]
      /\ Follows(a, nu.dom.in, g.in) /\ Follows(a, nu.dom.out, g.out)
  BY DEF Isomorphism, Embeds
<1>3. /\ b \in [C -> Cells(h)] /\ OneToOne(b) /\ Image(b) = Cells(h)
      /\ \A x \in C : b[x][1] = x[1]
      /\ Follows(b, nu.dom.in, h.in) /\ Follows(b, nu.dom.out, h.out)
  BY <1>1 DEF Isomorphism, Embeds
<1>4. m = [c \in Cells(g) |-> b[Preimage(a, c)]]
  BY TableIs DEF Through
<1>. HIDE DEF m, a, b
<1>5. \A z \in C : a[z] \in Cells(g) /\ Preimage(a, a[z]) = z
  BY <1>2, PreimageIs
<1>6. DOMAIN m = Cells(g) /\ \A z \in C : m[a[z]] = b[z]
  BY <1>4, <1>5
<1>7. \A c \in Cells(g) : \E z \in C : c = a[z] /\ m[c] = b[z]
  BY <1>2, <1>6 DEF Image
<1>. HIDE DEF C
<1>8. m \in [Cells(g) -> Cells(h)] /\ (\A c \in Cells(g) : m[c][1] = c[1])
  <2>1. \A c \in Cells(g) : m[c] \in Cells(h) /\ m[c][1] = c[1]
    BY <1>2, <1>3, <1>7
  <2>2. m = [c \in Cells(g) |-> m[c]]
    BY <1>4
  <2>. QED
    BY <2>1, <2>2
<1>9. OneToOne(m)
  <2>1. \A y, z \in C : b[y] = b[z] => y = z
    BY <1>3 DEF OneToOne
  <2>. QED
    BY <1>6, <1>7, <2>1 DEF OneToOne
<1>10. Image(m) = Cells(h)
  <2>1. Image(m) \subseteq Cells(h)
    BY <1>8 DEF Image
  <2>2. ASSUME NEW y \in Cells(h) PROVE y \in Image(m)
    <3>1. PICK z \in C : y = b[z]
      BY <1>3 DEF Image
    <3>2. a[z] \in DOMAIN m /\ m[a[z]] = y
      BY <1>5, <1>6, <3>1
    <3>. QED
      BY <3>2 DEF Image
  <2>. QED
    BY <2>1, <2>2
<1>11. Follows(m, g.in, h.in) /\ Follows(m, g.out, h.out)
  <2>1. DOMAIN a = C /\ DOMAIN b = C /\ DOMAIN m = Image(a)
    BY <1>2, <1>3, <1>6
  <2>. QED
    BY <1>1, <1>2, <1>3, <1>6, <2>1, FollowsThrough DEF C
<1>. QED
  BY <1>8, <1>9, <1>10, <1>11 DEF Isomorphism, Embeds, m

\* What the search for an isomorphism finds is one: it takes each shape to its
\* normal form, and from the one to the other through that (find_isomorphism).
THEOREM FoundIsIsomorphism ==
    ASSUME NEW u, NEW v, IsShape(u), IsShape(v), HasInputs(u), HasInputs(v),
           find_isomorphism(u, v) # <<>>
    PROVE  Isomorphism(find_isomorphism(u, v), u, v)
<1>1. CASE equal(u, v)
  <2>1. find_isomorphism(u, v) = id(u).map
    BY <1>1 DEF find_isomorphism
  <2>. QED
    BY <1>1, <2>1, IdentityIs
<1>2. CASE ~equal(u, v)
  <2>. DEFINE nu == normalisation(u)
              nv == normalisation(v)
  <2>1. find_isomorphism(u, v) = Through(nu, nv)
    BY <1>2 DEF find_isomorphism
  <2>2. /\ IsShape(nu.dom) /\ nu.cod = u /\ Isomorphism(nu.map, nu.dom, u)
        /\ IsShape(nv.dom) /\ nv.cod = v /\ Isomorphism(nv.map, nv.dom, v)
    BY NormalFormIsIsomorphic
  <2>. HIDE DEF nu, nv
  <2>3. equal(nu.dom, nv.dom)
    BY <2>1 DEF Through
  <2>. QED
    BY <2>1, <2>2, <2>3, ThroughIs
<1>. QED
  BY <1>1, <1>2

----------------------------------------------------------------------------
(* Closures, and the parts of a shape they are.                            *)

\* f has the faces of one dimension after the other, from the highest down.
Closing(p, S, f, n) ==
    f = [i \in 0 .. n |-> IF i = 0 THEN S ELSE FacesAdded(p, f[i - 1], Dim(p) + 1 - i)]

LEMMA ClosingRuns == ASSUME NEW p, NEW S, NEW k \in Nat PROVE \E f : Closing(p, S, f, k)
<1>. DEFINE made == {n \in Nat : \E f : Closing(p, S, f, n)}
<1>1. 0 \in made
  <2>. DEFINE g == [i \in 0 .. 0 |-> S]
  <2>1. Closing(p, S, g, 0)
    BY DEF Closing
  <2>. HIDE DEF g
  <2>. QED
    BY <2>1
<1>2. ASSUME NEW n \in Nat, n \in made PROVE n + 1 \in made
  <2>1. PICK f : Closing(p, S, f, n)
    BY <1>2
  <2>. DEFINE v == FacesAdded(p, f[n], Dim(p) + 1 - (n + 1))
              g == OneMore(f, n, v)
  <2>2. DOMAIN f = 0 .. n /\ \A i \in 0 .. n : f[i] = IF i = 0 THEN S ELSE FacesAdded(p, f[i - 1], Dim(p) + 1 - i)
    BY <2>1 DEF Closing
  <2>. HIDE DEF v
  <2>3. /\ g = [i \in 0 .. n + 1 |-> g[i]] /\ g[n + 1] = v /\ g[n] = f[n] /\ \A i \in 0 .. n : g[i] = f[i]
        /\ \A i \in 1 .. n : g[i - 1] = f[i - 1]
    BY <2>2, OneMoreIs
  <2>. HIDE DEF g
  <2>4. ASSUME NEW i \in 0 .. n + 1 PROVE g[i] = IF i = 0 THEN S ELSE FacesAdded(p, g[i - 1], Dim(p) + 1 - i)
    <3>1. CASE i = 0
      <4>1. 0 \in 0 .. n
        OBVIOUS
      <4>2. g[0] = f[0]
        BY <2>3, <4>1
      <4>3. f[0] = S
        BY <2>2, <4>1
      <4>. QED
        BY <3>1, <4>2, <4>3
    <3>2. CASE i \in 1 .. n
      <4>1. i # 0 /\ i \in 0 .. n
        BY <3>2
      <4>2. g[i] = f[i] /\ g[i - 1] = f[i - 1]
        BY <2>3, <3>2, <4>1
      <4>. QED
        BY <2>2, <4>1, <4>2
    <3>3. CASE i = n + 1
      <4>1. i # 0 /\ i - 1 = n
        BY <3>3
      <4>. QED
        BY <2>3, <3>3, <4>1 DEF v
    <3>. QED
      BY <3>1, <3>2, <3>3
  <2>5. Closing(p, S, g, n + 1)
    BY <2>3, <2>4 DEF Closing
  <2>. QED
    BY <2>5
<1>. HIDE DEF made
<1>3. k \in made
  BY <1>1, <1>2, Upwards
<1>. QED
  BY <1>3 DEF made

\* A closure has the faces of what is in it, and no more than that takes.
LEMMA ClosureIs ==
    ASSUME NEW g, IsShape(g), NEW S \in SUBSET Cells(g)
    PROVE  /\ S \subseteq closure(g, S) /\ closure(g, S) \subseteq Cells(g) /\ Closed(g, closure(g, S))
           /\ \A D : Closed(g, D) /\ S \subseteq D => closure(g, S) \subseteq D
<1>. DEFINE d == Dim(g)
            f == CHOOSE h : Closing(g, S, h, d + 1)
            Good(n) == /\ S \subseteq f[n] /\ f[n] \subseteq Cells(g)
                       /\ \A c \in f[n] : c[1] > d - n => g.in[c] \cup g.out[c] \subseteq f[n]
                       /\ \A D : Closed(g, D) /\ S \subseteq D => f[n] \subseteq D
<1>1. d \in Int /\ d + 1 \in Nat
  BY DimIs DEF IsShape
<1>2. \A c \in Cells(g) : c[1] \in Nat /\ c[1] =< d
  BY DimIs DEF IsShape
<1>3. \A c \in Cells(g) : \A x \in g.in[c] \cup g.out[c] : x \in Cells(g) /\ x[1] = c[1] - 1
  BY DEF IsShape, Graded, Cells
<1>4. closure(g, S) = f[d + 1]
  BY DEF closure, Closing
<1>5. DOMAIN f = 0 .. d + 1 /\ \A i \in 0 .. d + 1 : f[i] = IF i = 0 THEN S ELSE FacesAdded(g, f[i - 1], d + 1 - i)
  <2>1. Closing(g, S, f, d + 1)
    BY <1>1, ClosingRuns
  <2>. QED
    BY <2>1 DEF Closing
<1>. HIDE DEF f, d
<1>6. Good(0)
  <2>1. f[0] = S
    <3>1. 0 \in 0 .. d + 1
      BY <1>1
    <3>. QED
      BY <1>5, <3>1
  <2>2. \A c \in S : ~(c[1] > d - 0)
    BY <1>1, <1>2
  <2>. QED
    BY <2>1, <2>2
<1>7. ASSUME NEW n \in Nat, n < d + 1, Good(n) PROVE Good(n + 1)
  <2>. DEFINE T == f[n]
              added == UNION {faces_of(g, "both", c) : c \in {x \in T : x[1] = d - n}}
  <2>1. f[n + 1] = T \cup added
    <3>1. n + 1 \in 0 .. d + 1 /\ n + 1 # 0 /\ (n + 1) - 1 = n /\ d + 1 - (n + 1) = d - n
      BY <1>1, <1>7
    <3>2. f[n + 1] = FacesAdded(g, f[n], d - n)
      BY <1>5, <3>1
    <3>. QED
      BY <3>2 DEF FacesAdded
  <2>2. added = UNION {g.in[c] \cup g.out[c] : c \in {x \in T : x[1] = d - n}}
    BY DEF faces_of
  <2>3. /\ S \subseteq T /\ T \subseteq Cells(g)
        /\ \A c \in T : c[1] > d - n => g.in[c] \cup g.out[c] \subseteq T
        /\ \A D : Closed(g, D) /\ S \subseteq D => T \subseteq D
    BY <1>7
  <2>. HIDE DEF T, added
  <2>4. \A c \in T : c[1] = d - n => g.in[c] \cup g.out[c] \subseteq added
    BY <2>2
  <2>5. \A x \in added : \E c \in T : c[1] = d - n /\ x \in g.in[c] \cup g.out[c]
    BY <2>2
  <2>6. \A x \in added : x \in Cells(g) /\ x[1] = d - n - 1
    BY <1>3, <2>3, <2>5
  <2>7. ASSUME NEW c \in T \cup added, c[1] > d - (n + 1) PROVE g.in[c] \cup g.out[c] \subseteq T \cup added
    <3>1. c \in T /\ c[1] \in Int
      BY <1>1, <1>2, <2>3, <2>6, <2>7
    <3>2. c[1] > d - n \/ c[1] = d - n
      BY <1>1, <2>7, <3>1
    <3>. QED
      BY <2>3, <2>4, <3>1, <3>2
  <2>8. ASSUME NEW D, Closed(g, D), S \subseteq D PROVE T \cup added \subseteq D
    <3>1. T \subseteq D
      BY <2>3, <2>8
    <3>2. added \subseteq D
      BY <2>5, <2>8, <3>1 DEF Closed
    <3>. QED
      BY <3>1, <3>2
  <2>9. S \subseteq T \cup added /\ T \cup added \subseteq Cells(g)
    BY <2>3, <2>6
  <2>. QED
    BY <2>1, <2>7, <2>8, <2>9
<1>8. Good(d + 1)
  <2>. DEFINE done == {n \in Nat : n =< d + 1 => Good(n)}
  <2>. HIDE DEF Good
  <2>1. 0 \in done
    BY <1>6
  <2>2. \A n \in Nat : n \in done => n + 1 \in done
    BY <1>1, <1>7
  <2>. HIDE DEF done
  <2>3. d + 1 \in done
    BY <1>1, <2>1, <2>2, Upwards
  <2>. QED
    BY <1>1, <2>3 DEF done
<1>9. \A c \in f[d + 1] : c[1] > d - (d + 1)
  BY <1>1, <1>2, <1>8
<1>10. Closed(g, f[d + 1])
  BY <1>8, <1>9 DEF Closed
<1>. QED
  BY <1>4, <1>8, <1>10

\* f lists the cells of S below one dimension after the other.
Restricting(p, S, f, n) ==
    f = [i \in 0 .. n |-> IF i = 0 THEN <<>> ELSE f[i - 1] \o Listed(p, i - 1, S)]

LEMMA RestrictingRuns == ASSUME NEW p, NEW S, NEW k \in Nat PROVE \E f : Restricting(p, S, f, k)
<1>. DEFINE made == {n \in Nat : \E f : Restricting(p, S, f, n)}
<1>1. 0 \in made
  <2>. DEFINE g == [i \in 0 .. 0 |-> <<>>]
  <2>1. Restricting(p, S, g, 0)
    BY DEF Restricting
  <2>. HIDE DEF g
  <2>. QED
    BY <2>1
<1>2. ASSUME NEW n \in Nat, n \in made PROVE n + 1 \in made
  <2>1. PICK f : Restricting(p, S, f, n)
    BY <1>2
  <2>. DEFINE v == f[n] \o Listed(p, (n + 1) - 1, S)
              g == OneMore(f, n, v)
  <2>2. DOMAIN f = 0 .. n /\ \A i \in 0 .. n : f[i] = IF i = 0 THEN <<>> ELSE f[i - 1] \o Listed(p, i - 1, S)
    BY <2>1 DEF Restricting
  <2>. HIDE DEF v
  <2>3. /\ g = [i \in 0 .. n + 1 |-> g[i]] /\ g[n + 1] = v /\ g[n] = f[n] /\ \A i \in 0 .. n : g[i] = f[i]
        /\ \A i \in 1 .. n : g[i - 1] = f[i - 1]
    BY <2>2, OneMoreIs
  <2>. HIDE DEF g
  <2>4. ASSUME NEW i \in 0 .. n + 1 PROVE g[i] = IF i = 0 THEN <<>> ELSE g[i - 1] \o Listed(p, i - 1, S)
    <3>1. CASE i = 0
      <4>1. 0 \in 0 .. n
        OBVIOUS
      <4>2. g[0] = f[0]
        BY <2>3, <4>1
      <4>3. f[0] = <<>>
        BY <2>2, <4>1
      <4>. QED
        BY <3>1, <4>2, <4>3
    <3>2. CASE i \in 1 .. n
      <4>1. i # 0 /\ i \in 0 .. n
        BY <3>2
      <4>2. g[i] = f[i] /\ g[i - 1] = f[i - 1]
        BY <2>3, <3>2, <4>1
      <4>. QED
        BY <2>2, <4>1, <4>2
    <3>3. CASE i = n + 1
      <4>1. i # 0 /\ i - 1 = n
        BY <3>3
      <4>. QED
        BY <2>3, <3>3, <4>1 DEF v
    <3>. QED
      BY <3>1, <3>2, <3>3
  <2>5. Restricting(p, S, g, n + 1)
    BY <2>3, <2>4 DEF Restricting
  <2>. QED
    BY <2>5
<1>. HIDE DEF made
<1>3. k \in made
  BY <1>1, <1>2, Upwards
<1>. QED
  BY <1>3 DEF made

\* A part of a shape that has the faces of each of its cells is a shape in it.
LEMMA RestrictionIs ==
    ASSUME NEW g, IsShape(g), NEW S \in SUBSET Cells(g), Closed(g, S)
    PROVE  LET e == restrict_ogposet(g, S)
           IN  IsEmbedding(e) /\ e.cod = g /\ Image(e.map) = S
<1>. DEFINE d == Dim(g)
            keep(k) == {c \in S : c[1] = k}
            first(n) == {c \in S : c[1] < n}
            f == CHOOSE h : Restricting(g, S, h, d + 1)
            Good(n) == f[n] \in Seq(Cells(g)) /\ OneToOne(f[n]) /\ Image(f[n]) = first(n)
<1>1. d \in Int /\ d + 1 \in Nat /\ \A c \in Cells(g) : c[1] \in Nat /\ c[1] =< d
  BY DimIs DEF IsShape
<1>2. restrict_ogposet(g, S) = remap_adjacency(g, f[d + 1], FALSE)
  BY DEF restrict_ogposet, Restricting
<1>3. DOMAIN f = 0 .. d + 1 /\ \A i \in 0 .. d + 1 : f[i] = IF i = 0 THEN <<>> ELSE f[i - 1] \o Listed(g, i - 1, S)
  <2>1. Restricting(g, S, f, d + 1)
    BY <1>1, RestrictingRuns
  <2>. QED
    BY <2>1 DEF Restricting
<1>. HIDE DEF f, d
<1>4. Good(0)
  <2>1. f[0] = <<>>
    <3>1. 0 \in 0 .. d + 1
      BY <1>1
    <3>. QED
      BY <1>3, <3>1
  <2>2. <<>> \in Seq(Cells(g)) /\ OneToOne(<<>>) /\ Image(<<>>) = {}
    BY DEF OneToOne, Image
  <2>3. first(0) = {}
    BY <1>1
  <2>. QED
    BY <2>1, <2>2, <2>3
<1>5. ASSUME NEW n \in Nat, n < d + 1, Good(n) PROVE Good(n + 1)
  <2>. DEFINE s == f[n]
              t == Listed(g, n, S)
  <2>1. f[n + 1] = s \o t
    <3>1. n + 1 \in 0 .. d + 1 /\ n + 1 # 0 /\ (n + 1) - 1 = n
      BY <1>1, <1>5
    <3>. QED
      BY <1>3, <3>1
  <2>2. s \in Seq(Cells(g)) /\ OneToOne(s) /\ Image(s) = first(n)
    BY <1>5
  <2>3. t \in Seq(Cells(g)) /\ OneToOne(t) /\ Image(t) = keep(n)
    <3>1. t \in Seq(S) /\ OneToOne(t) /\ Image(t) = S \cap Level(g, n)
      BY ListedIs
    <3>2. S \cap Level(g, n) = keep(n)
      BY DEF Level
    <3>. HIDE DEF t, keep
    <3>. QED
      BY <3>1, <3>2
  <2>4. first(n + 1) = first(n) \cup keep(n) /\ first(n) \cap keep(n) = {}
    BY <1>1
  <2>. HIDE DEF s, t, keep, first
  <2>5. s \o t \in Seq(Cells(g)) /\ Image(s \o t) = Image(s) \cup Image(t) /\ OneToOne(s \o t)
    BY <2>2, <2>3, <2>4, ListsJoined
  <2>. QED
    BY <2>1, <2>2, <2>3, <2>4, <2>5
<1>6. Good(d + 1)
  <2>. DEFINE done == {n \in Nat : n =< d + 1 => Good(n)}
  <2>. HIDE DEF Good
  <2>1. 0 \in done
    BY <1>4
  <2>2. \A n \in Nat : n \in done => n + 1 \in done
    BY <1>1, <1>5
  <2>. HIDE DEF done
  <2>3. d + 1 \in done
    BY <1>1, <2>1, <2>2, Upwards
  <2>. QED
    BY <1>1, <2>3 DEF done
<1>7. first(d + 1) = S
  BY <1>1
<1>. DEFINE list == f[d + 1]
            e == restrict_ogposet(g, S)
<1>8. list \in Seq(Cells(g)) /\ OneToOne(list) /\ Image(list) = S /\ e = remap_adjacency(g, list, FALSE)
  BY <1>2, <1>6, <1>7
<1>. HIDE DEF list, e
<1>9. Closed(g, Image(list))
  BY <1>8
<1>10. \A normal : LET r == remap_adjacency(g, list, normal)
                   IN  IsEmbedding(r) /\ r.cod = g /\ Image(r.map) = Image(list)
  BY <1>8, <1>9, RemapIs
<1>11. IsEmbedding(e) /\ e.cod = g /\ Image(e.map) = Image(list)
  BY <1>8, <1>10
<1>. QED
  BY <1>8, <1>11 DEF e

----------------------------------------------------------------------------
(* Embeddings one after the other, and what they keep.                     *)

Composed(m, n) == [c \in DOMAIN m |-> n[m[c]]]

LEMMA ComposedIs ==
    ASSUME NEW m, NEW n, NEW f, NEW g, NEW h, IsShape(f), Embeds(m, f, g), Embeds(n, g, h)
    PROVE  Embeds(Composed(m, n), f, h) /\ Image(Composed(m, n)) = ImageOf(n, Image(m))
<1>. DEFINE o == Composed(m, n)
<1>1. /\ m \in [Cells(f) -> Cells(g)] /\ OneToOne(m) /\ \A c \in Cells(f) : m[c] \in Cells(g) /\ m[c][1] = c[1]
      /\ Follows(m, f.in, g.in) /\ Follows(m, f.out, g.out) /\ DOMAIN m = Cells(f)
  BY DEF Embeds
<1>2. /\ n \in [Cells(g) -> Cells(h)] /\ OneToOne(n) /\ \A c \in Cells(g) : n[c] \in Cells(h) /\ n[c][1] = c[1]
      /\ Follows(n, g.in, h.in) /\ Follows(n, g.out, h.out) /\ DOMAIN n = Cells(g)
  BY DEF Embeds
<1>3. o = [c \in Cells(f) |-> n[m[c]]]
  BY <1>1 DEF Composed
<1>. HIDE DEF o
<1>4. DOMAIN o = Cells(f) /\ \A c \in Cells(f) : o[c] = n[m[c]]
  BY <1>3
<1>5. o \in [Cells(f) -> Cells(h)] /\ \A c \in Cells(f) : o[c][1] = c[1]
  BY <1>1, <1>2, <1>3
<1>6. OneToOne(o)
  BY <1>1, <1>2, <1>4 DEF OneToOne
<1>7. \A S \in SUBSET Cells(f) : ImageOf(o, S) = ImageOf(n, ImageOf(m, S))
  BY <1>1, <1>4 DEF ImageOf
<1>8. /\ \A c \in Cells(f) : f.in[c] \in SUBSET Cells(f) /\ f.out[c] \in SUBSET Cells(f)
  BY DEF IsShape
<1>9. Follows(o, f.in, h.in)
  BY <1>1, <1>2, <1>4, <1>7, <1>8 DEF Follows
<1>10. Follows(o, f.out, h.out)
  BY <1>1, <1>2, <1>4, <1>7, <1>8 DEF Follows
<1>11. Image(o) = ImageOf(n, Image(m))
  BY <1>1, <1>4 DEF Image, ImageOf
<1>. QED
  BY <1>5, <1>6, <1>9, <1>10, <1>11 DEF Embeds, o
=============================================================================
