-------------------------- MODULE Diagrams_proofs --------------------------
(***************************************************************************)
(* What gluing makes of shapes and diagrams, of any size and dimension:    *)
(* pushouts (core/pushout.rs), the pastes and cells that are built of them *)
(* (core/diagram.rs), and the rules that are glued where they occur        *)
(* (core/matching.rs).                                                     *)
(***************************************************************************)
EXTENDS Occurrences, Shapes_proofs

----------------------------------------------------------------------------
(* Parts.                                                                  *)

\* g is in h as it stands.
PartOf(g, h) ==
    /\ Cells(g) \subseteq Cells(h)
    /\ \A c \in Cells(g) : h.in[c] = g.in[c] /\ h.out[c] = g.out[c]

\* What span shares with the base.
IsSpan(base, span) ==
    /\ IsShape(span.into_ext.cod) /\ IsShape(span.into_ext.dom)
    /\ equal(span.into_base.dom, span.into_ext.dom)
    /\ Embeds(span.into_base.map, span.into_base.dom, base)
    /\ Embeds(span.into_ext.map, span.into_ext.dom, span.into_ext.cod)

\* inr embeds the extension into the tip, and meets the base in what the span
\* shares.
Glues(base, span, tip, inr) ==
    /\ Embeds(inr, span.into_ext.cod, tip)
    /\ \A z \in Cells(span.into_ext.dom) : inr[span.into_ext.map[z]] = span.into_base.map[z]
    /\ \A c \in Cells(span.into_ext.cod) : inr[c] \in Cells(base) => c \in Image(span.into_ext.map)

----------------------------------------------------------------------------
(* One extension.                                                          *)

\* What of the extension is new, and where it goes.
LEMMA NewPlaces ==
    ASSUME NEW tip, IsShape(tip), NEW span, IsSpan(tip, span), NEW c \in Unshared(span)
    PROVE  /\ c \in Cells(span.into_ext.cod)
           /\ Place(tip, span, c) = <<c[1], Cardinality(Level(tip, c[1])) + Cardinality(Below(Unshared(span), c))>>
           /\ Place(tip, span, c) \in Nat \X Nat
           /\ Place(tip, span, c) \notin Cells(tip)
           /\ \A d \in Unshared(span) : Place(tip, span, c) = Place(tip, span, d) => c = d
<1>. DEFINE U == Unshared(span)
            n == Cardinality(Level(tip, c[1]))
            rank(d) == Cardinality(Below(U, d))
<1>1. /\ U \subseteq Cells(span.into_ext.cod) /\ U \subseteq Nat \X Nat /\ IsFiniteSet(U)
  BY FS_Subset DEF Unshared, IsSpan, IsShape
<1>2. n \in Nat
  BY LevelsAre DEF IsShape
<1>3. ASSUME NEW d \in U
      PROVE  /\ d[1] \in Nat /\ d[2] \in Nat /\ d = <<d[1], d[2]>> /\ rank(d) \in Nat
             /\ Place(tip, span, d) = <<d[1], Cardinality(Level(tip, d[1])) + rank(d)>>
             /\ \A e \in U : e[1] = d[1] /\ d[2] < e[2] => rank(d) < rank(e)
  <2>1. d[1] \in Nat /\ d[2] \in Nat /\ d = <<d[1], d[2]>>
    BY <1>1
  <2>2. Place(tip, span, d) = <<d[1], Cardinality(Level(tip, d[1])) + rank(d)>>
    BY DEF Place, Below
  <2>. HIDE DEF U
  <2>3. rank(d) \in Nat /\ \A e \in U : e[1] = d[1] /\ d[2] < e[2] => rank(d) < rank(e)
    BY <1>1, Ranks
  <2>. QED
    BY <2>1, <2>2, <2>3
<1>4. Place(tip, span, c) = <<c[1], n + rank(c)>> /\ c[1] \in Nat /\ c[2] \in Nat /\ rank(c) \in Nat
  BY <1>3
<1>. HIDE DEF U, n, rank
<1>5. n + rank(c) \in Nat /\ ~(n + rank(c) < n)
  BY <1>2, <1>4
<1>6. Place(tip, span, c) \notin Cells(tip)
  <2>1. \A x \in Cells(tip) : x[1] = c[1] => x[2] < n
    BY ShapeIsNumbered DEF Numbered, n
  <2>. QED
    BY <1>4, <1>5, <2>1
<1>7. ASSUME NEW d \in U, Place(tip, span, c) = Place(tip, span, d) PROVE c = d
  <2>1. /\ d[1] \in Nat /\ d[2] \in Nat /\ d = <<d[1], d[2]>> /\ rank(d) \in Nat
        /\ Place(tip, span, d) = <<d[1], Cardinality(Level(tip, d[1])) + rank(d)>>
    BY <1>3
  <2>2. d[1] = c[1] /\ Cardinality(Level(tip, d[1])) + rank(d) = n + rank(c)
    BY <1>4, <1>7, <2>1
  <2>3. rank(d) = rank(c)
    <3>1. Cardinality(Level(tip, d[1])) = n
      BY <2>2 DEF n
    <3>. QED
      BY <1>2, <1>4, <2>1, <2>2, <3>1
  <2>4. ~(c[2] < d[2]) /\ ~(d[2] < c[2])
    <3>1. c \in U /\ d \in U
      BY DEF U
    <3>2. c[2] < d[2] => rank(c) < rank(d)
      BY <1>3, <2>2, <3>1
    <3>3. d[2] < c[2] => rank(d) < rank(c)
      BY <1>3, <2>2, <3>1
    <3>. QED
      BY <1>4, <2>3, <3>2, <3>3
  <2>5. c[2] = d[2]
    BY <1>4, <2>1, <2>4
  <2>6. c = <<c[1], c[2]>>
    BY <1>3 DEF U
  <2>. QED
    BY <2>1, <2>2, <2>5, <2>6
<1>. QED
  BY <1>1, <1>4, <1>5, <1>6, <1>7 DEF U, n, rank

\* The rest goes where the base has it.
LEMMA SharedPlaces ==
    ASSUME NEW tip, NEW span, IsSpan(tip, span), NEW z \in Cells(span.into_ext.dom)
    PROVE  /\ span.into_ext.map[z] \in Cells(span.into_ext.cod) \ Unshared(span)
           /\ Place(tip, span, span.into_ext.map[z]) = span.into_base.map[z]
           /\ span.into_base.map[z] \in Cells(tip)
<1>. DEFINE e == span.into_ext.map
            b == span.into_base.map
<1>1. /\ e \in [Cells(span.into_ext.dom) -> Cells(span.into_ext.cod)] /\ OneToOne(e)
      /\ b \in [Cells(span.into_base.dom) -> Cells(tip)]
  BY DEF IsSpan, Embeds
<1>2. Cells(span.into_base.dom) = Cells(span.into_ext.dom)
  BY DEF IsSpan, equal, Cells
<1>3. e[z] \in Image(e) /\ Preimage(e, e[z]) = z
  BY <1>1, PreimageIs DEF Image
<1>. QED
  BY <1>1, <1>2, <1>3 DEF Unshared, Place

LEMMA EitherPlace ==
    ASSUME NEW tip, NEW span, IsSpan(tip, span), NEW c \in Cells(span.into_ext.cod), c \notin Unshared(span)
    PROVE  \E z \in Cells(span.into_ext.dom) : c = span.into_ext.map[z]
<1>1. DOMAIN span.into_ext.map = Cells(span.into_ext.dom)
  BY DEF IsSpan, Embeds
<1>. QED
  BY <1>1 DEF Unshared, Image

LEMMA PlacedIs ==
    ASSUME NEW tip, IsShape(tip), NEW span, IsSpan(tip, span)
    PROVE  LET E == Cells(span.into_ext.cod)
               inr == Placed(tip, span)
           IN  /\ inr \in [E -> Nat \X Nat] /\ OneToOne(inr)
               /\ \A c \in E : inr[c][1] = c[1] /\ inr[c] = Place(tip, span, c)
               /\ \A c \in E : inr[c] \in Cells(tip) <=> c \notin Unshared(span)
<1>. DEFINE E == Cells(span.into_ext.cod)
            inr == Placed(tip, span)
            U == Unshared(span)
            e == span.into_ext.map
            b == span.into_base.map
<1>1. inr = [c \in E |-> Place(tip, span, c)]
  BY TableIs DEF Placed
<1>2. /\ \A z \in Cells(span.into_ext.dom) : e[z][1] = z[1] /\ b[z][1] = z[1]
      /\ Cells(tip) \subseteq Nat \X Nat
      /\ \A y, z \in Cells(span.into_ext.dom) : b[y] = b[z] => y = z
  <2>1. Cells(span.into_base.dom) = Cells(span.into_ext.dom)
    BY DEF IsSpan, equal, Cells
  <2>. QED
    BY <2>1 DEF IsSpan, Embeds, IsShape, OneToOne
<1>3. ASSUME NEW c \in E
      PROVE  /\ inr[c] = Place(tip, span, c) /\ inr[c] \in Nat \X Nat /\ inr[c][1] = c[1]
             /\ inr[c] \in Cells(tip) <=> c \notin U
  <2>1. inr[c] = Place(tip, span, c)
    BY <1>1
  <2>. HIDE DEF inr
  <2>2. CASE c \in U
    BY <2>1, <2>2, NewPlaces
  <2>3. CASE c \notin U
    <3>1. PICK z \in Cells(span.into_ext.dom) : c = e[z]
      BY <2>3, EitherPlace
    <3>2. inr[c] = b[z] /\ b[z] \in Cells(tip)
      BY <2>1, <3>1, SharedPlaces
    <3>. QED
      BY <1>2, <2>1, <2>3, <3>1, <3>2
  <2>. QED
    BY <2>2, <2>3
<1>4. ASSUME NEW c \in E, NEW d \in E, inr[c] = inr[d] PROVE c = d
  <2>. HIDE DEF inr
  <2>1. inr[c] = Place(tip, span, c) /\ inr[d] = Place(tip, span, d) /\ (c \in U <=> d \in U)
    BY <1>3, <1>4
  <2>0. Place(tip, span, c) = Place(tip, span, d)
    BY <1>4, <2>1
  <2>2. CASE c \in U
    <3>1. c \in Unshared(span) /\ d \in Unshared(span)
      BY <2>1, <2>2
    <3>. QED
      BY <2>0, <3>1, NewPlaces
  <2>3. CASE c \notin U
    <3>1. PICK y \in Cells(span.into_ext.dom) : c = e[y]
      BY <2>3, EitherPlace
    <3>2. PICK z \in Cells(span.into_ext.dom) : d = e[z]
      BY <2>1, <2>3, EitherPlace
    <3>3. b[y] = b[z]
      <4>1. Place(tip, span, e[y]) = b[y]
        BY SharedPlaces
      <4>2. Place(tip, span, e[z]) = b[z]
        BY SharedPlaces
      <4>. QED
        BY <2>0, <3>1, <3>2, <4>1, <4>2
    <3>. QED
      BY <1>2, <3>1, <3>2, <3>3
  <2>. QED
    BY <2>2, <2>3
<1>. HIDE DEF E, U
<1>5. inr \in [E -> Nat \X Nat] /\ DOMAIN inr = E
  BY <1>1, <1>3
<1>. HIDE DEF inr
<1>. QED
  BY <1>3, <1>4, <1>5 DEF OneToOne, E, U, inr

\* after gives the faces of old to the cells of old, and to those that inr adds
\* the images of theirs.
GivesFaces(after, C, old, new, inr) ==
    /\ after \in [C \cup Image(inr) -> SUBSET (C \cup Image(inr))]
    /\ \A c \in C : after[c] = old[c]
    /\ \A x \in DOMAIN inr : inr[x] \notin C => after[inr[x]] = ImageOf(inr, new[x])

LEMMA FacesAfterAre ==
    ASSUME NEW C, NEW E, NEW old \in [C -> SUBSET C], NEW new \in [E -> SUBSET E],
           NEW inr, DOMAIN inr = E, OneToOne(inr)
    PROVE  GivesFaces(FacesAfter(old, new, inr), C, old, new, inr)
<1>. DEFINE D == C \cup Image(inr)
            after == FacesAfter(old, new, inr)
<1>1. after = [c \in D |-> IF c \in C THEN old[c] ELSE {inr[x] : x \in new[Preimage(inr, c)]}]
  BY TableIs DEF FacesAfter
<1>2. ASSUME NEW c \in C PROVE c \in D /\ after[c] = old[c] /\ old[c] \subseteq D
  BY <1>1
<1>3. ASSUME NEW x \in E, inr[x] \notin C
      PROVE  after[inr[x]] = ImageOf(inr, new[x]) /\ ImageOf(inr, new[x]) \subseteq D
  <2>1. Preimage(inr, inr[x]) = x
    BY PreimageIs
  <2>2. inr[x] \in D
    BY DEF Image
  <2>3. after[inr[x]] = ImageOf(inr, new[x])
    BY <1>1, <1>3, <2>1, <2>2 DEF ImageOf
  <2>4. ImageOf(inr, new[x]) \subseteq D
    BY DEF Image, ImageOf
  <2>. QED
    BY <2>3, <2>4
<1>4. \A c \in D : c \in C \/ \E x \in E : c = inr[x] /\ inr[x] \notin C
  BY DEF Image
<1>5. after = [c \in D |-> after[c]]
  BY <1>1
<1>. HIDE DEF after, D
<1>6. \A c \in D : after[c] \in SUBSET D
  BY <1>2, <1>3, <1>4
<1>7. after \in [D -> SUBSET D]
  BY <1>5, <1>6
<1>. QED
  BY <1>2, <1>3, <1>7 DEF GivesFaces, D, after

After(tip, span) ==
    LET inr == Placed(tip, span)
    IN  [in |-> FacesAfter(tip.in, span.into_ext.cod.in, inr), out |-> FacesAfter(tip.out, span.into_ext.cod.out, inr),
         normal |-> FALSE]

LEMMA AttachIs ==
    ASSUME NEW acc, NEW span
    PROVE  /\ Attach(acc, span).tip = After(acc.tip, span)
           /\ Attach(acc, span).inrs = Append(acc.inrs, Placed(acc.tip, span))
  BY DEF Attach, After

\* What e and b share is what inr has in C.
Meets(inr, C, e, b) ==
    /\ \A z \in DOMAIN e : inr[e[z]] = b[z]
    /\ \A x \in DOMAIN inr : inr[x] \notin C \/ \E z \in DOMAIN e : x = e[z]

\* An embedded cell that is new has the images of its faces for faces, and so
\* has one that is not.
LEMMA FacesFollow ==
    ASSUME NEW C, NEW E, NEW Z, NEW old \in [C -> SUBSET C], NEW new \in [E -> SUBSET E],
           NEW shared \in [Z -> SUBSET Z], NEW inr \in [E -> Nat \X Nat], OneToOne(inr),
           NEW e \in [Z -> E], NEW b \in [Z -> C],
           Follows(e, shared, new), Follows(b, shared, old),
           Meets(inr, C, e, b)
    PROVE  Follows(inr, new, FacesAfter(old, new, inr))
<1>. DEFINE after == FacesAfter(old, new, inr)
<1>0. GivesFaces(after, C, old, new, inr)
  BY FacesAfterAre
<1>1. /\ \A c \in C : after[c] = old[c]
      /\ \A x \in E : inr[x] \notin C => after[inr[x]] = ImageOf(inr, new[x])
  BY <1>0 DEF GivesFaces
<1>. HIDE DEF after
<1>2. ASSUME NEW z \in Z PROVE after[inr[e[z]]] = ImageOf(inr, new[e[z]])
  <2>1. new[e[z]] = ImageOf(e, shared[z]) /\ old[b[z]] = ImageOf(b, shared[z]) /\ shared[z] \subseteq Z
    BY DEF Follows
  <2>2. inr[e[z]] = b[z] /\ \A w \in shared[z] : inr[e[w]] = b[w]
    BY <2>1 DEF Meets
  <2>3. after[inr[e[z]]] = ImageOf(b, shared[z])
    BY <1>1, <2>1, <2>2
  <2>4. ImageOf(inr, ImageOf(e, shared[z])) = ImageOf(b, shared[z])
    BY <2>2 DEF ImageOf
  <2>. QED
    BY <2>1, <2>3, <2>4
<1>3. ASSUME NEW x \in E PROVE after[inr[x]] = ImageOf(inr, new[x])
  <2>1. CASE inr[x] \notin C
    BY <1>1, <2>1
  <2>2. CASE inr[x] \in C
    <3>1. PICK z \in Z : x = e[z]
      BY <2>2 DEF Meets
    <3>. QED
      BY <1>2, <3>1
  <2>. QED
    BY <2>1, <2>2
<1>. QED
  BY <1>3 DEF Follows, after

LEMMA AfterIs ==
    ASSUME NEW tip, IsShape(tip), NEW span, IsSpan(tip, span)
    PROVE  LET r == After(tip, span)
               inr == Placed(tip, span)
           IN  /\ PartOf(tip, r) /\ Glues(tip, span, r, inr)
               /\ Cells(r) = Cells(tip) \cup Image(inr)
               /\ r.in \in [Cells(r) -> SUBSET Cells(r)] /\ r.out \in [Cells(r) -> SUBSET Cells(r)]
<1>. DEFINE r == After(tip, span)
            inr == Placed(tip, span)
            ext == span.into_ext.cod
            E == Cells(ext)
            C == Cells(tip)
            Z == Cells(span.into_ext.dom)
            D == C \cup Image(inr)
            e == span.into_ext.map
            b == span.into_base.map
            shared == span.into_ext.dom
<1>1. /\ inr \in [E -> Nat \X Nat] /\ OneToOne(inr) /\ DOMAIN inr = E
      /\ \A c \in E : inr[c][1] = c[1] /\ inr[c] = Place(tip, span, c)
      /\ \A c \in E : inr[c] \in C <=> c \notin Unshared(span)
  BY PlacedIs
<1>2. /\ tip.in \in [C -> SUBSET C] /\ tip.out \in [C -> SUBSET C]
      /\ ext.in \in [E -> SUBSET E] /\ ext.out \in [E -> SUBSET E]
  BY DEF IsShape, IsSpan
<1>3. r.in = FacesAfter(tip.in, ext.in, inr) /\ r.out = FacesAfter(tip.out, ext.out, inr)
  BY DEF After
<1>. HIDE DEF r, inr, ext, E, C
<1>4. r.in \in [D -> SUBSET D] /\ \A c \in C : r.in[c] = tip.in[c]
  <2>1. GivesFaces(FacesAfter(tip.in, ext.in, inr), C, tip.in, ext.in, inr)
    BY <1>1, <1>2, FacesAfterAre
  <2>. QED
    BY <1>3, <2>1 DEF GivesFaces
<1>5. r.out \in [D -> SUBSET D] /\ \A c \in C : r.out[c] = tip.out[c]
  <2>1. GivesFaces(FacesAfter(tip.out, ext.out, inr), C, tip.out, ext.out, inr)
    BY <1>1, <1>2, FacesAfterAre
  <2>. QED
    BY <1>3, <2>1 DEF GivesFaces
<1>6. Cells(r) = D
  BY <1>4 DEF Cells
<1>7. PartOf(tip, r)
  BY <1>4, <1>5, <1>6 DEF PartOf, C
<1>8. /\ e \in [Z -> E] /\ b \in [Z -> C]
      /\ Follows(e, shared.in, ext.in) /\ Follows(b, shared.in, tip.in)
      /\ Follows(e, shared.out, ext.out) /\ Follows(b, shared.out, tip.out)
  <2>1. Cells(span.into_base.dom) = Z /\ span.into_base.dom.in = shared.in /\ span.into_base.dom.out = shared.out
    BY DEF IsSpan, equal, Cells
  <2>. QED
    BY <2>1 DEF IsSpan, Embeds, ext, E, C
<1>9. \A z \in Z : inr[e[z]] = b[z]
  BY <1>1, <1>8, SharedPlaces
<1>10. Meets(inr, C, e, b)
  <2>1. \A x \in E : inr[x] \notin C \/ \E z \in Z : x = e[z]
    BY <1>1, EitherPlace DEF ext, E
  <2>. QED
    BY <1>1, <1>8, <1>9, <2>1 DEF Meets
<1>11. shared.in \in [Z -> SUBSET Z] /\ shared.out \in [Z -> SUBSET Z]
  BY DEF IsSpan, IsShape
<1>. HIDE DEF Z, e, b, shared
<1>12. Follows(inr, ext.in, r.in)
  <2>1. Follows(inr, ext.in, FacesAfter(tip.in, ext.in, inr))
    BY <1>1, <1>2, <1>8, <1>10, <1>11, FacesFollow
  <2>. QED
    BY <1>3, <2>1
<1>13. Follows(inr, ext.out, r.out)
  <2>1. Follows(inr, ext.out, FacesAfter(tip.out, ext.out, inr))
    BY <1>1, <1>2, <1>8, <1>10, <1>11, FacesFollow
  <2>. QED
    BY <1>3, <2>1
<1>14. inr \in [E -> Cells(r)]
  BY <1>1, <1>6 DEF Image
<1>15. Embeds(inr, ext, r)
  BY <1>1, <1>12, <1>13, <1>14 DEF Embeds, E
<1>16. \A c \in E : inr[c] \in C => c \in Image(e)
  BY <1>1 DEF Unshared, E, ext, e
<1>. QED
  BY <1>4, <1>5, <1>6, <1>7, <1>9, <1>15, <1>16 DEF Glues, r, inr, ext, E, C, Z, e, b, shared

\* Each dimension has as many cells more as the extension adds there.
LEMMA LevelsAfter ==
    ASSUME NEW tip, IsShape(tip), NEW span, IsSpan(tip, span), NEW k
    PROVE  /\ Cardinality(Level(After(tip, span), k))
                  = Cardinality(Level(tip, k)) + Cardinality(At(Unshared(span), k))
           /\ Cardinality(Level(tip, k)) \in Nat /\ Cardinality(At(Unshared(span), k)) \in Nat
<1>. DEFINE r == After(tip, span)
            inr == Placed(tip, span)
            E == Cells(span.into_ext.cod)
            S == Level(tip, k)
            W == At(Unshared(span), k)
            T == ImageOf(inr, W)
            f == [x \in W |-> inr[x]]
<1>1. /\ DOMAIN inr = E /\ OneToOne(inr)
      /\ \A c \in E : inr[c][1] = c[1]
      /\ \A c \in E : inr[c] \in Cells(tip) <=> c \notin Unshared(span)
  BY PlacedIs
<1>2. Cells(r) = Cells(tip) \cup Image(inr)
  BY AfterIs
<1>3. W \subseteq E /\ IsFiniteSet(W) /\ Cardinality(W) \in Nat
  <2>1. W \in SUBSET E
    BY DEF At, Unshared
  <2>2. IsFiniteSet(E)
    BY DEF IsSpan, IsShape
  <2>. HIDE DEF W, E
  <2>. QED
    BY <2>1, <2>2, FS_Subset, FS_CardinalityType
<1>4. IsFiniteSet(S) /\ Cardinality(S) \in Nat /\ S \subseteq Cells(tip)
  BY LevelsAre DEF IsShape
<1>. HIDE DEF inr, E, r
<1>5. Level(r, k) = S \cup T
  BY <1>1, <1>2 DEF Level, At, Unshared, Image, ImageOf, E
<1>6. S \cap T = {}
  BY <1>1, <1>3, <1>4 DEF ImageOf, At
<1>7. f \in Bijection(W, T)
  BY <1>1, <1>3 DEF Bijection, Injection, Surjection, IsInjective, ImageOf, OneToOne
<1>8. IsFiniteSet(T) /\ Cardinality(T) = Cardinality(W)
  BY <1>3, <1>7, FS_Bijection DEF ExistsBijection
<1>. HIDE DEF S, T, W
<1>9. Cardinality(S \cup T) = Cardinality(S) + Cardinality(T) - 0
  BY <1>4, <1>6, <1>8, FS_Union, FS_EmptySet
<1>. QED
  BY <1>3, <1>4, <1>5, <1>8, <1>9 DEF S, W, r

LEMMA GradedAfter ==
    ASSUME NEW tip, IsShape(tip), NEW span, IsSpan(tip, span)
    PROVE  Graded(After(tip, span).in) /\ Graded(After(tip, span).out)
<1>. DEFINE r == After(tip, span)
            inr == Placed(tip, span)
            ext == span.into_ext.cod
<1>1. /\ PartOf(tip, r) /\ Embeds(inr, ext, r)
      /\ Cells(r) = Cells(tip) \cup Image(inr)
      /\ DOMAIN r.in = Cells(r) /\ DOMAIN r.out = Cells(r)
  BY AfterIs DEF Glues
<1>2. /\ DOMAIN inr = Cells(ext) /\ \A c \in Cells(ext) : inr[c][1] = c[1]
      /\ ext.in \in [Cells(ext) -> SUBSET Cells(ext)] /\ Graded(ext.in)
      /\ ext.out \in [Cells(ext) -> SUBSET Cells(ext)] /\ Graded(ext.out)
  <2>1. DOMAIN inr = Cells(ext) /\ \A c \in Cells(ext) : inr[c][1] = c[1]
    BY PlacedIs
  <2>. QED
    BY <2>1 DEF IsSpan, IsShape
<1>3. /\ DOMAIN tip.in = Cells(tip) /\ Graded(tip.in)
      /\ DOMAIN tip.out = Cells(tip) /\ Graded(tip.out)
  BY DEF IsShape
<1>. HIDE DEF r, inr, ext
<1>4. ASSUME NEW c \in Cells(tip)
      PROVE  /\ \A x \in r.in[c] : x[1] = c[1] - 1
             /\ \A x \in r.out[c] : x[1] = c[1] - 1
  BY <1>1, <1>3 DEF PartOf, Graded
<1>5. ASSUME NEW c \in Cells(ext)
      PROVE  /\ \A x \in r.in[inr[c]] : x[1] = inr[c][1] - 1
             /\ \A x \in r.out[inr[c]] : x[1] = inr[c][1] - 1
  <2>1. r.in[inr[c]] = ImageOf(inr, ext.in[c]) /\ r.out[inr[c]] = ImageOf(inr, ext.out[c])
    BY <1>1, <1>2 DEF Embeds, Follows
  <2>2. /\ \A y \in ext.in[c] : y \in Cells(ext) /\ y[1] = c[1] - 1
        /\ \A y \in ext.out[c] : y \in Cells(ext) /\ y[1] = c[1] - 1
    BY <1>2 DEF Graded
  <2>. QED
    BY <1>2, <2>1, <2>2 DEF ImageOf
<1>6. \A c \in Cells(r) : c \in Cells(tip) \/ \E x \in Cells(ext) : c = inr[x]
  BY <1>1, <1>2 DEF Image
<1>. QED
  BY <1>1, <1>4, <1>5, <1>6 DEF Graded, r

LEMMA ShapeAfter ==
    ASSUME NEW tip, IsShape(tip), NEW span, IsSpan(tip, span)
    PROVE  IsShape(After(tip, span))
<1>. DEFINE r == After(tip, span)
            inr == Placed(tip, span)
            E == Cells(span.into_ext.cod)
<1>1. /\ inr \in [E -> Nat \X Nat] /\ DOMAIN inr = E
      /\ \A c \in E : inr[c] = Place(tip, span, c)
      /\ \A c \in E : inr[c] \in Cells(tip) <=> c \notin Unshared(span)
  BY PlacedIs
<1>2. /\ Cells(r) = Cells(tip) \cup Image(inr)
      /\ r.in \in [Cells(r) -> SUBSET Cells(r)] /\ r.out \in [Cells(r) -> SUBSET Cells(r)]
  BY AfterIs
<1>3. Graded(r.in) /\ Graded(r.out)
  BY GradedAfter
<1>. HIDE DEF r, inr
<1>4. Cells(r) \subseteq Nat \X Nat
  BY <1>1, <1>2 DEF Image, IsShape
<1>5. IsFiniteSet(Cells(r))
  <2>1. IsFiniteSet(E) /\ IsFiniteSet(Cells(tip))
    BY DEF IsSpan, IsShape
  <2>. HIDE DEF E
  <2>2. inr \in Surjection(E, Image(inr))
    BY <1>1 DEF Surjection, Image
  <2>3. IsFiniteSet(Image(inr))
    BY <2>1, <2>2, FS_Surjection
  <2>. QED
    BY <1>2, <2>1, <2>3, FS_Union
<1>6. Numbered(r)
  <2>1. SUFFICES ASSUME NEW c \in Cells(r) PROVE c[2] < Cardinality(Level(r, c[1]))
    BY DEF Numbered
  <2>. DEFINE n == Cardinality(Level(tip, c[1]))
              m == Cardinality(At(Unshared(span), c[1]))
  <2>2. Cardinality(Level(r, c[1])) = n + m /\ n \in Nat /\ m \in Nat
    BY LevelsAfter DEF r
  <2>. HIDE DEF n, m
  <2>3. CASE c \in Cells(tip)
    <3>1. c[2] < n
      BY <2>3, ShapeIsNumbered DEF Numbered, n
    <3>2. c[2] \in Nat
      BY <1>4
    <3>. QED
      BY <2>2, <3>1, <3>2
  <2>4. CASE c \notin Cells(tip)
    <3>1. PICK x \in E : c = inr[x]
      BY <1>1, <1>2, <2>4 DEF Image
    <3>2. x \in Unshared(span)
      BY <1>1, <2>4, <3>1
    <3>. DEFINE q == Cardinality(Below(Unshared(span), x))
    <3>3. c = <<x[1], Cardinality(Level(tip, x[1])) + q>>
      BY <1>1, <3>1, <3>2, NewPlaces
    <3>4. Unshared(span) \subseteq Nat \X Nat /\ IsFiniteSet(Unshared(span))
      BY FS_Subset DEF Unshared, IsSpan, IsShape
    <3>5. q \in Nat /\ q < Cardinality(At(Unshared(span), x[1]))
      BY <3>2, <3>4, Ranks
    <3>. HIDE DEF q
    <3>6. c[1] = x[1]
      BY <3>3
    <3>7. c[2] = n + q /\ q < m
      BY <3>3, <3>5, <3>6 DEF n, m
    <3>. QED
      BY <2>2, <3>5, <3>7
  <2>. QED
    BY <2>3, <2>4
<1>7. \A k \in Nat : Level(r, k) = {<<k, i>> : i \in 0 .. Cardinality(Level(r, k)) - 1}
  BY <1>4, <1>5, <1>6, NumberedIsContiguous
<1>. QED
  BY <1>2, <1>3, <1>4, <1>5, <1>7 DEF IsShape, r

----------------------------------------------------------------------------
(* Any number of extensions.                                               *)

LEMMA EmbedsPart ==
    ASSUME NEW map, NEW g, NEW h, NEW tip, Embeds(map, g, h), PartOf(h, tip)
    PROVE  Embeds(map, g, tip)
<1>1. \A x \in Cells(g) : map[x] \in Cells(h)
  BY DEF Embeds
<1>. QED
  BY <1>1 DEF Embeds, PartOf, Follows

LEMMA PartOfPart ==
    ASSUME NEW g, NEW h, NEW tip, PartOf(g, h), PartOf(h, tip)
    PROVE  PartOf(g, tip)
  BY DEF PartOf

LEMMA SpanOfPart ==
    ASSUME NEW base, NEW tip, NEW span, IsSpan(base, span), PartOf(base, tip)
    PROVE  IsSpan(tip, span)
  BY EmbedsPart DEF IsSpan

LEMMA GluesPart ==
    ASSUME NEW base, NEW span, NEW tip, NEW h, NEW inr, Glues(base, span, tip, inr), PartOf(tip, h)
    PROVE  Glues(base, span, h, inr)
  BY EmbedsPart DEF Glues

LEMMA Appended ==
    ASSUME NEW S, NEW s \in Seq(S), NEW x
    PROVE  /\ Len(Append(s, x)) = Len(s) + 1 /\ Append(s, x)[Len(s) + 1] = x
           /\ Append(s, x) \in Seq(S \cup {x})
           /\ \A i \in 1 .. Len(s) : Append(s, x)[i] = s[i]
  OBVIOUS

\* What there is of each extension in the tip.
Union(inrs) == UNION {Image(inrs[i]) : i \in DOMAIN inrs}

IsGlued(base, spans, tip, inrs) ==
    /\ IsShape(tip) /\ PartOf(base, tip)
    /\ \A i \in DOMAIN inrs : Glues(base, spans[i], tip, inrs[i])
    /\ \A i, j \in DOMAIN inrs : i # j => Image(inrs[i]) \cap Image(inrs[j]) \subseteq Cells(base)
    /\ Cells(tip) = Cells(base) \cup Union(inrs)

LEMMA OneMoreGlued ==
    ASSUME NEW base, NEW spans, NEW tip, NEW S, NEW inrs \in Seq(S), IsGlued(base, spans, tip, inrs),
           IsSpan(base, spans[Len(inrs) + 1])
    PROVE  LET span == spans[Len(inrs) + 1]
           IN  IsGlued(base, spans, After(tip, span), Append(inrs, Placed(tip, span)))
<1>. DEFINE m == Len(inrs)
            span == spans[m + 1]
            inr == Placed(tip, span)
            r == After(tip, span)
            more == Append(inrs, inr)
<1>1. /\ DOMAIN inrs = 1 .. m /\ m \in Nat /\ DOMAIN more = 1 .. m + 1
      /\ more[m + 1] = inr /\ \A i \in 1 .. m : more[i] = inrs[i]
  BY Appended
<1>2. IsShape(tip) /\ IsSpan(tip, span)
  BY SpanOfPart DEF IsGlued
<1>3. PartOf(tip, r) /\ Glues(tip, span, r, inr) /\ Cells(r) = Cells(tip) \cup Image(inr)
  BY <1>2, AfterIs
<1>4. IsShape(r)
  BY <1>2, ShapeAfter
<1>. HIDE DEF inr, r, more, span, m
<1>5. PartOf(base, r)
  BY <1>3, PartOfPart DEF IsGlued
<1>6. ASSUME NEW i \in 1 .. m PROVE Glues(base, spans[i], r, more[i]) /\ Image(more[i]) \subseteq Cells(tip)
  <2>1. Glues(base, spans[i], tip, inrs[i]) /\ more[i] = inrs[i]
    BY <1>1 DEF IsGlued
  <2>2. Image(inrs[i]) \subseteq Cells(tip)
    BY <2>1 DEF Glues, Embeds, Image
  <2>. QED
    BY <1>3, <2>1, <2>2, GluesPart
<1>7. Glues(base, span, r, inr)
  <2>1. Cells(base) \subseteq Cells(tip)
    BY DEF IsGlued, PartOf
  <2>. QED
    BY <1>3, <2>1 DEF Glues
<1>8. ASSUME NEW c \in Image(inr), c \in Cells(tip) PROVE c \in Cells(base)
  <2>1. DOMAIN inr = Cells(span.into_ext.cod) /\ DOMAIN span.into_ext.map = Cells(span.into_ext.dom)
    BY <1>2, <1>3 DEF Glues, Embeds, IsSpan
  <2>2. PICK x \in Cells(span.into_ext.cod) : c = inr[x]
    BY <2>1 DEF Image
  <2>3. x \in Image(span.into_ext.map)
    BY <1>3, <1>8, <2>2 DEF Glues
  <2>4. PICK z \in Cells(span.into_ext.dom) : x = span.into_ext.map[z]
    BY <2>1, <2>3 DEF Image
  <2>5. c = span.into_base.map[z]
    BY <1>3, <2>2, <2>4 DEF Glues
  <2>6. span.into_base.map \in [Cells(span.into_ext.dom) -> Cells(base)]
    <3>1. IsSpan(base, span)
      BY DEF span, m
    <3>. QED
      BY <3>1 DEF IsSpan, Embeds, equal, Cells
  <2>. QED
    BY <2>5, <2>6
<1>9. ASSUME NEW i \in 1 .. m + 1, NEW j \in 1 .. m + 1, i # j
      PROVE  Image(more[i]) \cap Image(more[j]) \subseteq Cells(base)
  <2>1. (i \in 1 .. m \/ i = m + 1) /\ (j \in 1 .. m \/ j = m + 1)
    BY <1>1
  <2>2. CASE i \in 1 .. m /\ j \in 1 .. m
    BY <1>1, <1>9, <2>2 DEF IsGlued
  <2>3. CASE i = m + 1 /\ j \in 1 .. m
    BY <1>1, <1>6, <1>8, <2>3
  <2>4. CASE i \in 1 .. m /\ j = m + 1
    BY <1>1, <1>6, <1>8, <2>4
  <2>. QED
    BY <1>9, <2>1, <2>2, <2>3, <2>4
<1>10. Union(more) = Union(inrs) \cup Image(inr)
  <2>1. \A i \in DOMAIN more : (i \in DOMAIN inrs /\ more[i] = inrs[i]) \/ more[i] = inr
    BY <1>1
  <2>2. \A i \in DOMAIN inrs : i \in DOMAIN more /\ more[i] = inrs[i]
    BY <1>1
  <2>3. m + 1 \in DOMAIN more /\ more[m + 1] = inr
    BY <1>1
  <2>. QED
    BY <2>1, <2>2, <2>3 DEF Union
<1>11. Cells(r) = Cells(base) \cup Union(more)
  BY <1>3, <1>10 DEF IsGlued
<1>12. \A i \in 1 .. m + 1 : Glues(base, spans[i], r, more[i])
  BY <1>1, <1>6, <1>7 DEF span
<1>. QED
  BY <1>1, <1>4, <1>5, <1>9, <1>11, <1>12 DEF IsGlued, r, more, inr, span, m

\* A shape on which nothing is glued yet.
Bare(g) == [tip |-> [in |-> g.in, out |-> g.out, normal |-> FALSE], inrs |-> <<>>]

LEMMA BareIs ==
    ASSUME NEW base, IsShape(base), NEW spans
    PROVE  IsGlued(base, spans, Bare(base).tip, Bare(base).inrs)
<1>. DEFINE tip == Bare(base).tip
<1>1. tip.in = base.in /\ tip.out = base.out /\ Bare(base).inrs = <<>>
  BY DEF Bare
<1>. HIDE DEF tip
<1>2. Cells(tip) = Cells(base) /\ \A k : Level(tip, k) = Level(base, k)
  BY <1>1 DEF Cells, Level
<1>3. IsShape(tip)
  BY <1>1, <1>2 DEF IsShape
<1>4. PartOf(base, tip)
  BY <1>1, <1>2 DEF PartOf
<1>5. Union(<<>>) = {} /\ DOMAIN <<>> = {}
  BY DEF Union
<1>. QED
  BY <1>1, <1>2, <1>3, <1>4, <1>5 DEF IsGlued, tip

\* f is the tips after as many extensions, up to n.
Gluing(base, spans, f, n) ==
    f = [i \in 0 .. n |-> IF i = 0 THEN Bare(base) ELSE Attach(f[i - 1], spans[i])]

LEMMA GluingRuns == ASSUME NEW base, NEW spans, NEW k \in Nat PROVE \E f : Gluing(base, spans, f, k)
<1>. DEFINE made == {n \in Nat : \E f : Gluing(base, spans, f, n)}
<1>1. 0 \in made
  <2>. DEFINE g == [i \in 0 .. 0 |-> Bare(base)]
  <2>1. Gluing(base, spans, g, 0)
    BY DEF Gluing
  <2>. HIDE DEF g
  <2>. QED
    BY <2>1
<1>2. ASSUME NEW n \in Nat, n \in made PROVE n + 1 \in made
  <2>1. PICK f : Gluing(base, spans, f, n)
    BY <1>2
  <2>. DEFINE v == Attach(f[n], spans[n + 1])
              g == OneMore(f, n, v)
  <2>2. DOMAIN f = 0 .. n /\ \A i \in 0 .. n : f[i] = IF i = 0 THEN Bare(base) ELSE Attach(f[i - 1], spans[i])
    BY <2>1 DEF Gluing
  <2>. HIDE DEF v
  <2>3. /\ g = [i \in 0 .. n + 1 |-> g[i]] /\ g[n + 1] = v /\ g[n] = f[n] /\ \A i \in 0 .. n : g[i] = f[i]
        /\ \A i \in 1 .. n : g[i - 1] = f[i - 1]
    BY <2>2, OneMoreIs
  <2>. HIDE DEF g
  <2>4. ASSUME NEW i \in 0 .. n + 1 PROVE g[i] = IF i = 0 THEN Bare(base) ELSE Attach(g[i - 1], spans[i])
    <3>1. CASE i = 0
      <4>1. 0 \in 0 .. n
        OBVIOUS
      <4>2. g[0] = f[0]
        BY <2>3, <4>1
      <4>3. f[0] = Bare(base)
        BY <2>2, <4>1
      <4>. QED
        BY <3>1, <4>2, <4>3
    <3>2. CASE i \in 1 .. n
      <4>1. i # 0 /\ i \in 0 .. n
        BY <3>2
      <4>2. g[i] = f[i] /\ g[i - 1] = f[i - 1]
        BY <2>3, <3>2, <4>1
      <4>. QED
        BY <2>2, <4>1, <4>2
    <3>3. CASE i = n + 1
      <4>1. i # 0 /\ i - 1 = n
        BY <3>3
      <4>. QED
        BY <2>3, <3>3, <4>1 DEF v
    <3>. QED
      BY <3>1, <3>2, <3>3
  <2>5. Gluing(base, spans, g, n + 1)
    BY <2>3, <2>4 DEF Gluing
  <2>. QED
    BY <2>5
<1>. HIDE DEF made
<1>3. k \in made
  BY <1>1, <1>2, Upwards
<1>. QED
  BY <1>3 DEF made

\* Whatever extensions are glued to a base along whatever they share with it,
\* the tip is a shape again, numbered without gaps. The base is in it as it
\* stands, each extension is embedded in it, an extension meets the base in
\* what the two share and any other extension only in the base, and nothing
\* else is in it (multi_pushout).
THEOREM MultiPushout ==
    ASSUME NEW base, IsShape(base), NEW S, NEW spans \in Seq(S), \A i \in DOMAIN spans : IsSpan(base, spans[i])
    PROVE  LET p == multi_pushout(base, spans)
           IN  IsGlued(base, spans, p.tip, p.inrs) /\ DOMAIN p.inrs = DOMAIN spans
<1>. DEFINE N == Len(spans)
            glued == CHOOSE h : Gluing(base, spans, h, N)
            Good(n, acc) == /\ IsGlued(base, spans, acc.tip, acc.inrs)
                            /\ acc.inrs \in Seq(Image(acc.inrs)) /\ Len(acc.inrs) = n
<1>1. multi_pushout(base, spans) = glued[N]
  BY DEF multi_pushout, Gluing, Bare
<1>2. N \in Nat /\ DOMAIN spans = 1 .. N
  OBVIOUS
<1>. HIDE DEF N
<1>3. Gluing(base, spans, glued, N)
  BY <1>2, GluingRuns
<1>. HIDE DEF glued
<1>4. glued[0] = Bare(base) /\ \A n \in 1 .. N : glued[n] = Attach(glued[n - 1], spans[n])
  BY <1>2, <1>3 DEF Gluing
<1>5. Good(0, Bare(base))
  <2>1. Bare(base).inrs = <<>>
    BY DEF Bare
  <2>. QED
    BY <2>1, BareIs
<1>6. ASSUME NEW n \in Nat, NEW acc, Good(n, acc), n + 1 \in 1 .. N
      PROVE  Good(n + 1, Attach(acc, spans[n + 1]))
  <2>. DEFINE span == spans[n + 1]
              inr == Placed(acc.tip, span)
              more == Append(acc.inrs, inr)
  <2>1. IsSpan(base, span)
    BY <1>2, <1>6
  <2>2. Attach(acc, span).tip = After(acc.tip, span) /\ Attach(acc, span).inrs = more
    BY AttachIs
  <2>3. IsGlued(base, spans, After(acc.tip, span), more)
    BY <1>6, <2>1, OneMoreGlued
  <2>4. more \in Seq(Image(acc.inrs) \cup {inr}) /\ Len(more) = n + 1
    BY <1>6, Appended
  <2>. HIDE DEF more
  <2>5. more \in Seq(Image(more))
    BY <2>4 DEF Image
  <2>. QED
    BY <2>2, <2>3, <2>4, <2>5
<1>. HIDE DEF Good
<1>. DEFINE good == {n \in Nat : n \in 0 .. N => Good(n, glued[n])}
<1>7. 0 \in good
  BY <1>4, <1>5
<1>8. ASSUME NEW n \in Nat, n \in good PROVE n + 1 \in good
  <2>1. SUFFICES ASSUME n + 1 \in 0 .. N PROVE Good(n + 1, glued[n + 1])
    OBVIOUS
  <2>2. n + 1 \in 1 .. N /\ n \in 0 .. N /\ (n + 1) - 1 = n
    BY <1>2, <2>1
  <2>3. glued[n + 1] = Attach(glued[n], spans[n + 1])
    BY <1>4, <2>2
  <2>4. Good(n, glued[n])
    BY <1>8, <2>2
  <2>. QED
    BY <1>6, <2>2, <2>3, <2>4
<1>. HIDE DEF good
<1>9. N \in good
  BY <1>2, <1>7, <1>8, Upwards
<1>10. Good(N, glued[N])
  BY <1>2, <1>9 DEF good
<1>. QED
  BY <1>1, <1>2, <1>10 DEF Good

----------------------------------------------------------------------------
(* One extension: pushouts.                                                *)

IsPushout(f, g, p) ==
    /\ IsShape(p.tip) /\ Embeds(p.inl, f.cod, p.tip) /\ Embeds(p.inr, g.cod, p.tip)
    /\ \A z \in Cells(f.dom) : p.inl[f.map[z]] = p.inr[g.map[z]]
    /\ \A x \in Cells(f.cod), y \in Cells(g.cod) :
           p.inl[x] = p.inr[y] => \E z \in Cells(f.dom) : x = f.map[z] /\ y = g.map[z]
    /\ Cells(p.tip) = Image(p.inl) \cup Image(p.inr)

OneSpan(b, e) == <<[into_base |-> b, into_ext |-> e]>>

Inclusion(b, e) ==
    LET p == multi_pushout(b.cod, OneSpan(b, e))
    IN  [tip |-> p.tip, inl |-> id(b.cod).map, inr |-> p.inrs[1]]

LEMMA IdIs == \A g : id(g).map = [c \in Cells(g) |-> c] /\ id(g).dom = g /\ id(g).cod = g
  BY TableIs DEF id, Embedding

LEMMA InclusionIs ==
    ASSUME NEW b, NEW e, IsEmbedding(b), IsEmbedding(e), equal(b.dom, e.dom)
    PROVE  IsPushout(b, e, Inclusion(b, e))
<1>. DEFINE span == [into_base |-> b, into_ext |-> e]
            p == multi_pushout(b.cod, OneSpan(b, e))
            i == id(b.cod).map
            r == p.inrs[1]
<1>1. IsSpan(b.cod, span)
  BY DEF IsSpan, IsEmbedding
<1>2. /\ OneSpan(b, e) \in Seq({span}) /\ DOMAIN OneSpan(b, e) = {1} /\ OneSpan(b, e)[1] = span
      /\ Len(OneSpan(b, e)) = 1
  BY DEF OneSpan
<1>3. IsGlued(b.cod, OneSpan(b, e), p.tip, p.inrs) /\ DOMAIN p.inrs = {1}
  <2>1. IsShape(b.cod) /\ \A k \in DOMAIN OneSpan(b, e) : IsSpan(b.cod, OneSpan(b, e)[k])
    BY <1>1, <1>2 DEF IsEmbedding
  <2>. QED
    BY <1>2, <2>1, MultiPushout
<1>4. i = [c \in Cells(b.cod) |-> c]
  BY IdIs
<1>5. Inclusion(b, e).tip = p.tip /\ Inclusion(b, e).inl = i /\ Inclusion(b, e).inr = r
  BY DEF Inclusion
<1>. HIDE DEF p, i
<1>6. Glues(b.cod, span, p.tip, r)
  BY <1>2, <1>3 DEF IsGlued
<1>7. /\ IsShape(p.tip) /\ PartOf(b.cod, p.tip) /\ Embeds(r, e.cod, p.tip)
      /\ Cells(p.tip) = Cells(b.cod) \cup Image(r)
  BY <1>3, <1>6 DEF IsGlued, Glues, Union
<1>8. Embeds(i, b.cod, p.tip)
  <2>1. /\ \A c \in Cells(b.cod) : i[c] = c /\ b.cod.in[c] \subseteq Cells(b.cod) /\ b.cod.out[c] \subseteq Cells(b.cod)
        /\ DOMAIN i = Cells(b.cod)
    BY <1>4 DEF IsEmbedding, IsShape
  <2>2. \A T \in SUBSET Cells(b.cod) : ImageOf(i, T) = T
    BY <2>1 DEF ImageOf
  <2>3. i \in [Cells(b.cod) -> Cells(p.tip)]
    BY <1>4, <1>7
  <2>4. Follows(i, b.cod.in, p.tip.in) /\ Follows(i, b.cod.out, p.tip.out)
    BY <1>7, <2>1, <2>2 DEF Follows, PartOf
  <2>. QED
    BY <2>1, <2>3, <2>4 DEF Embeds, OneToOne
<1>9. Image(i) = Cells(b.cod)
  BY <1>4 DEF Image
<1>10. Cells(b.dom) = Cells(e.dom) /\ b.map \in [Cells(b.dom) -> Cells(b.cod)] /\ e.map \in [Cells(e.dom) -> Cells(e.cod)]
  BY DEF equal, Cells, IsEmbedding, Embeds
<1>11. \A z \in Cells(b.dom) : i[b.map[z]] = r[e.map[z]]
  BY <1>4, <1>6, <1>10 DEF Glues
<1>12. ASSUME NEW x \in Cells(b.cod), NEW y \in Cells(e.cod), i[x] = r[y]
       PROVE  \E z \in Cells(b.dom) : x = b.map[z] /\ y = e.map[z]
  <2>1. r[y] = x
    BY <1>4, <1>12
  <2>2. y \in Image(e.map)
    BY <1>6, <2>1 DEF Glues
  <2>3. PICK z \in Cells(e.dom) : y = e.map[z]
    BY <1>10, <2>2 DEF Image
  <2>4. r[e.map[z]] = b.map[z]
    BY <1>6, <2>3 DEF Glues
  <2>. QED
    BY <1>10, <2>1, <2>3, <2>4
<1>. QED
  BY <1>5, <1>7, <1>8, <1>9, <1>11, <1>12 DEF IsPushout

LEMMA Swapped ==
    ASSUME NEW f, NEW g, NEW p, IsPushout(g, f, p), equal(f.dom, g.dom),
           NEW q, q.tip = p.tip, q.inl = p.inr, q.inr = p.inl
    PROVE  IsPushout(f, g, q)
<1>1. Cells(f.dom) = Cells(g.dom)
  BY DEF equal, Cells
<1>. QED
  BY <1>1 DEF IsPushout

\* The pushout of two embeddings of the same shape, whichever of the two is
\* the larger, commutes, embeds both sides, which meet in what they share and
\* nowhere else, and has no other cells (pushout).
THEOREM Pushout ==
    ASSUME NEW f, NEW g, IsEmbedding(f), IsEmbedding(g), equal(f.dom, g.dom)
    PROVE  IsPushout(f, g, pushout(f, g))
<1>1. equal(g.dom, f.dom)
  BY DEF equal
<1>2. CASE Cardinality(Cells(f.cod)) >= Cardinality(Cells(g.cod))
  <2>1. pushout(f, g) = Inclusion(f, g)
    BY <1>2 DEF pushout, Inclusion, OneSpan
  <2>. QED
    BY <2>1, InclusionIs
<1>3. CASE ~(Cardinality(Cells(f.cod)) >= Cardinality(Cells(g.cod)))
  <2>1. /\ pushout(f, g).tip = Inclusion(g, f).tip /\ pushout(f, g).inl = Inclusion(g, f).inr
        /\ pushout(f, g).inr = Inclusion(g, f).inl
    BY <1>3 DEF pushout, Inclusion, OneSpan
  <2>2. IsPushout(g, f, Inclusion(g, f))
    BY <1>1, InclusionIs
  <2>. QED
    BY <2>1, <2>2, Swapped
<1>. QED
  BY <1>2, <1>3

----------------------------------------------------------------------------
(* Pastes and cells.                                                       *)

\* Every cell of the shape has a label, and every dimension a history.
IsMade(d) ==
    /\ IsShape(d.shape) /\ well_formed(d)
    /\ d.labels = [c \in Cells(d.shape) |-> d.labels[c]]

\* u is in d, labels and all, where map puts it.
HasPart(d, u, map) ==
    /\ Embeds(map, u.shape, d.shape)
    /\ \A c \in Cells(u.shape) : d.labels[map[c]] = u.labels[c]

\* f and g share what the embeddings e and h take from one shape.
MeetIn(e, h, inl, inr) ==
    \A x \in DOMAIN inl, y \in DOMAIN inr :
        inl[x] = inr[y] <=> \E z \in DOMAIN e.map : x = e.map[z] /\ y = h.map[z]

\* d is u and v, which meet in what e and h share, and nothing else.
IsPasteOf(d, u, v, e, h) ==
    /\ IsMade(d)
    /\ \E inl, inr : /\ HasPart(d, u, inl) /\ HasPart(d, v, inr)
                     /\ MeetIn(e, h, inl, inr)
                     /\ Cells(d.shape) = Image(inl) \cup Image(inr)

\* d is u and v, which meet in what e and h share, and a cell from the one to
\* the other.
IsCellOf(d, tag, k, u, v, e, h) ==
    LET top == <<k + 1, 0>>
    IN  /\ IsMade(d) /\ d.labels[top] = tag
        /\ \E inl, inr : /\ HasPart(d, u, inl) /\ HasPart(d, v, inr)
                         /\ MeetIn(e, h, inl, inr)
                         /\ top \notin Image(inl) \cup Image(inr)
                         /\ Cells(d.shape) = Image(inl) \cup Image(inr) \cup {top}
                         /\ d.shape.in[top] = {x \in Image(inl) : x[1] = k}
                         /\ d.shape.out[top] = {x \in Image(inr) : x[1] = k}

LEMMA MeetInShared ==
    ASSUME NEW e, NEW h, NEW p, IsEmbedding(e), IsEmbedding(h), equal(e.dom, h.dom), IsPushout(e, h, p)
    PROVE  MeetIn(e, h, p.inl, p.inr)
  BY DEF MeetIn, IsPushout, IsEmbedding, Embeds, equal, Cells

LEMMA LabelsMerged ==
    ASSUME NEW u, NEW v, NEW e, NEW h, NEW p, IsEmbedding(e), IsEmbedding(h), e.cod = u.shape, h.cod = v.shape,
           SameLabelled(u, e, v, h), IsPushout(e, h, p)
    PROVE  LET labels == merge_pushout_labels(p, u, v)
           IN  /\ labels = [c \in Cells(p.tip) |-> labels[c]]
               /\ \A x \in Cells(u.shape) : labels[p.inl[x]] = u.labels[x]
               /\ \A y \in Cells(v.shape) : labels[p.inr[y]] = v.labels[y]
<1>. DEFINE labels == merge_pushout_labels(p, u, v)
            of(c) == IF c \in Image(p.inr) THEN v.labels[Preimage(p.inr, c)] ELSE u.labels[Preimage(p.inl, c)]
<1>1. labels = [c \in Cells(p.tip) |-> of(c)]
  BY TableIs DEF merge_pushout_labels
<1>2. /\ p.inl \in [Cells(u.shape) -> Cells(p.tip)] /\ OneToOne(p.inl)
      /\ p.inr \in [Cells(v.shape) -> Cells(p.tip)] /\ OneToOne(p.inr)
  BY DEF IsPushout, Embeds
<1>3. \A z \in Cells(e.dom) : u.labels[e.map[z]] = v.labels[h.map[z]]
  <2>1. DOMAIN e.map = Cells(e.dom) /\ DOMAIN h.map = Cells(e.dom)
    BY DEF IsEmbedding, Embeds, SameLabelled, equal, Cells
  <2>2. [c \in DOMAIN e.map |-> u.labels[e.map[c]]] = [c \in DOMAIN h.map |-> v.labels[h.map[c]]]
    BY TableIs DEF SameLabelled, pullback_labels
  <2>3. ASSUME NEW z \in Cells(e.dom) PROVE u.labels[e.map[z]] = v.labels[h.map[z]]
    <3>1. [c \in Cells(e.dom) |-> u.labels[e.map[c]]][z] = [c \in Cells(e.dom) |-> v.labels[h.map[c]]][z]
      BY <2>1, <2>2
    <3>. QED
      BY <3>1
  <2>. QED
    BY <2>3
<1>4. ASSUME NEW y \in Cells(v.shape) PROVE of(p.inr[y]) = v.labels[y]
  BY <1>2, PreimageIs DEF Image
<1>5. ASSUME NEW x \in Cells(u.shape) PROVE of(p.inl[x]) = u.labels[x]
  <2>1. CASE p.inl[x] \notin Image(p.inr)
    BY <1>2, <2>1, PreimageIs
  <2>2. CASE p.inl[x] \in Image(p.inr)
    <3>1. PICK y \in Cells(v.shape) : p.inl[x] = p.inr[y]
      BY <1>2, <2>2 DEF Image
    <3>2. PICK z \in Cells(e.dom) : x = e.map[z] /\ y = h.map[z]
      BY <3>1 DEF IsPushout
    <3>3. of(p.inr[y]) = v.labels[y]
      BY <1>4
    <3>. HIDE DEF of
    <3>. QED
      BY <1>3, <3>1, <3>2, <3>3
  <2>. QED
    BY <2>1, <2>2
<1>6. labels = [c \in Cells(p.tip) |-> labels[c]] /\ \A c \in Cells(p.tip) : labels[c] = of(c)
  BY <1>1
<1>. HIDE DEF labels, of
<1>. QED
  BY <1>2, <1>4, <1>5, <1>6 DEF labels

LEMMA DiagramIs ==
    ASSUME NEW shape, NEW labels, NEW history
    PROVE  LET d == Diagram(shape, labels, history)
           IN  d.shape = shape /\ d.labels = labels /\ d.history = history
  BY TableIs DEF Diagram

\* What pasting makes of two diagrams, if it does not fail, has each of them
\* in it, shape and labels; they meet in the boundary they are pasted along
\* and nowhere else, and there is nothing else in it (Diagram::paste).
THEOREM PasteKeepsBoth ==
    ASSUME NEW u, NEW v, IsMade(u), IsMade(v), NEW k,
           NEW e, NEW h, IsEmbedding(e), IsEmbedding(h), e.cod = u.shape, h.cod = v.shape,
           PastedAlong(e, h, k, u, v) # Failed
    PROVE  IsPasteOf(PastedAlong(e, h, k, u, v), u, v, e, h)
<1>. DEFINE p == pushout(e, h)
            d == PastedAlong(e, h, k, u, v)
<1>1. SameLabelled(u, e, v, h)
  BY DEF PastedAlong
<1>2. d = PastedOver(p, k, u, v)
  BY <1>1 DEF PastedAlong
<1>3. IsPushout(e, h, p)
  BY <1>1, Pushout DEF SameLabelled
<1>. HIDE DEF p, d
<1>4. /\ d.shape = p.tip /\ d.labels = merge_pushout_labels(p, u, v) /\ DOMAIN d.history = 0 .. Dim(p.tip)
  BY <1>2, DiagramIs DEF PastedOver
<1>5. /\ d.labels = [c \in Cells(p.tip) |-> d.labels[c]]
      /\ \A x \in Cells(u.shape) : d.labels[p.inl[x]] = u.labels[x]
      /\ \A y \in Cells(v.shape) : d.labels[p.inr[y]] = v.labels[y]
  BY <1>1, <1>3, <1>4, LabelsMerged
<1>6. HasPart(d, u, p.inl) /\ HasPart(d, v, p.inr)
  BY <1>3, <1>4, <1>5 DEF HasPart, IsPushout
<1>7. MeetIn(e, h, p.inl, p.inr)
  BY <1>1, <1>3, MeetInShared DEF SameLabelled
<1>8. d.labels # <<>>
  <2>1. PICK x \in Cells(u.shape) : TRUE
    BY DEF IsMade, well_formed
  <2>2. p.inl[x] \in DOMAIN d.labels
    BY <1>3, <1>5 DEF IsPushout, Embeds
  <2>. QED
    BY <2>2
<1>9. IsMade(d)
  BY <1>3, <1>4, <1>5, <1>8 DEF IsMade, well_formed, IsPushout
<1>10. Cells(d.shape) = Image(p.inl) \cup Image(p.inr)
  BY <1>3, <1>4 DEF IsPushout
<1>. QED
  BY <1>6, <1>7, <1>9, <1>10 DEF d, IsPasteOf

\* g is f and a value at top.
IsTopped(g, f, top, value) ==
    /\ DOMAIN g = DOMAIN f \cup {top} /\ g = [c \in DOMAIN g |-> g[c]]
    /\ g[top] = value /\ \A c \in DOMAIN f : g[c] = f[c]

LEMMA WithTopIs ==
    ASSUME NEW f, NEW d, NEW value, <<d + 1, 0>> \notin DOMAIN f
    PROVE  IsTopped(WithTop(f, d, value), f, <<d + 1, 0>>, value)
<1>. DEFINE top == <<d + 1, 0>>
            g == WithTop(f, d, value)
<1>1. g = [c \in DOMAIN f \cup {top} |-> IF c = top THEN value ELSE f[c]]
  BY TableIs DEF WithTop
<1>. HIDE DEF g, top
<1>2. DOMAIN g = DOMAIN f \cup {top} /\ \A c \in DOMAIN f \cup {top} : g[c] = IF c = top THEN value ELSE f[c]
  BY <1>1
<1>3. g = [c \in DOMAIN g |-> g[c]]
  BY <1>1
<1>4. top \notin DOMAIN f
  BY DEF top
<1>. QED
  BY <1>2, <1>3, <1>4 DEF IsTopped, g, top

LEMMA CellShapeIs ==
    ASSUME NEW d \in Nat, NEW p, IsShape(p.tip), \A c \in Cells(p.tip) : c[1] =< d,
           Image(p.inl) \subseteq Cells(p.tip), Image(p.inr) \subseteq Cells(p.tip)
    PROVE  LET r == build_cell_shape(d, p)
               top == <<d + 1, 0>>
           IN  /\ IsShape(r) /\ PartOf(p.tip, r) /\ Dim(r) = d + 1
               /\ top \notin Cells(p.tip) /\ Cells(r) = Cells(p.tip) \cup {top}
               /\ r.in[top] = {x \in Image(p.inl) : x[1] = d}
               /\ r.out[top] = {x \in Image(p.inr) : x[1] = d}
<1>. DEFINE r == build_cell_shape(d, p)
            top == <<d + 1, 0>>
            C == Cells(p.tip)
            left == {x \in Image(p.inl) : x[1] = d}
            right == {x \in Image(p.inr) : x[1] = d}
<1>1. /\ C \subseteq Nat \X Nat /\ IsFiniteSet(C) /\ top \notin C
      /\ p.tip.in \in [C -> SUBSET C] /\ p.tip.out \in [C -> SUBSET C]
      /\ Graded(p.tip.in) /\ Graded(p.tip.out) /\ top[1] = d + 1 /\ top[2] = 0 /\ top \in Nat \X Nat
  BY DEF IsShape
<1>2. r.in = WithTop(p.tip.in, d, left) /\ r.out = WithTop(p.tip.out, d, right)
  BY DEF build_cell_shape
<1>3. left \subseteq C /\ right \subseteq C /\ (\A x \in left : x[1] = d) /\ (\A x \in right : x[1] = d)
  OBVIOUS
<1>. HIDE DEF r, left, right, C, top
<1>4. /\ DOMAIN r.in = C \cup {top} /\ r.in = [c \in DOMAIN r.in |-> r.in[c]]
      /\ r.in[top] = left /\ \A c \in C : r.in[c] = p.tip.in[c]
  <2>1. <<d + 1, 0>> \notin DOMAIN p.tip.in
    BY <1>1 DEF top
  <2>2. IsTopped(WithTop(p.tip.in, d, left), p.tip.in, <<d + 1, 0>>, left)
    BY <2>1, WithTopIs
  <2>3. IsTopped(r.in, p.tip.in, top, left)
    BY <1>2, <2>2 DEF top
  <2>. QED
    BY <1>1, <2>3 DEF IsTopped
<1>5. /\ DOMAIN r.out = C \cup {top} /\ r.out = [c \in DOMAIN r.out |-> r.out[c]]
      /\ r.out[top] = right /\ \A c \in C : r.out[c] = p.tip.out[c]
  <2>1. <<d + 1, 0>> \notin DOMAIN p.tip.out
    BY <1>1 DEF top
  <2>2. IsTopped(WithTop(p.tip.out, d, right), p.tip.out, <<d + 1, 0>>, right)
    BY <2>1, WithTopIs
  <2>3. IsTopped(r.out, p.tip.out, top, right)
    BY <1>2, <2>2 DEF top
  <2>. QED
    BY <1>1, <2>3 DEF IsTopped
<1>6. Cells(r) = C \cup {top}
  BY <1>4 DEF Cells
<1>7. r.in \in [Cells(r) -> SUBSET Cells(r)] /\ r.out \in [Cells(r) -> SUBSET Cells(r)]
  <2>1. \A c \in C : p.tip.in[c] \in SUBSET C /\ p.tip.out[c] \in SUBSET C
    BY <1>1
  <2>2. \A c \in C \cup {top} : r.in[c] \in SUBSET (C \cup {top})
    BY <1>3, <1>4, <2>1
  <2>3. \A c \in C \cup {top} : r.out[c] \in SUBSET (C \cup {top})
    BY <1>3, <1>5, <2>1
  <2>. QED
    BY <1>4, <1>5, <1>6, <2>2, <2>3
<1>8. Graded(r.in) /\ Graded(r.out)
  <2>1. \A c \in C : /\ \A x \in p.tip.in[c] : x[1] = c[1] - 1
                     /\ \A x \in p.tip.out[c] : x[1] = c[1] - 1
    BY <1>1 DEF Graded
  <2>2. (d + 1) - 1 = d
    OBVIOUS
  <2>. QED
    BY <1>1, <1>3, <1>4, <1>5, <2>1, <2>2 DEF Graded
<1>9. Cells(r) \subseteq Nat \X Nat /\ IsFiniteSet(Cells(r))
  BY <1>1, <1>6, FS_AddElement
<1>10. Numbered(r)
  <2>1. SUFFICES ASSUME NEW c \in Cells(r) PROVE c[2] < Cardinality(Level(r, c[1]))
    BY DEF Numbered
  <2>2. CASE c \in C
    <3>1. c[1] # d + 1 /\ c[1] \in Nat
      BY <1>1, <2>2 DEF C
    <3>2. Level(r, c[1]) = Level(p.tip, c[1])
      BY <1>1, <1>6, <3>1 DEF Level, C
    <3>. QED
      BY <2>2, <3>2, ShapeIsNumbered DEF Numbered, C
  <2>3. CASE c = top
    <3>1. Level(r, d + 1) = {top}
      <4>1. \A x \in C : x[1] # d + 1
        BY <1>1 DEF C
      <4>. QED
        BY <1>1, <1>6, <4>1 DEF Level
    <3>2. Cardinality({top}) = 1
      BY FS_Singleton
    <3>3. Level(r, c[1]) = {top} /\ c[2] = 0
      BY <1>1, <2>3, <3>1
    <3>. HIDE DEF top
    <3>4. Cardinality(Level(r, c[1])) = 1
      BY <3>2, <3>3
    <3>. QED
      BY <3>3, <3>4
  <2>. QED
    BY <1>6, <2>2, <2>3
<1>11. IsShape(r)
  BY <1>7, <1>8, <1>9, <1>10, NumberedIsContiguous DEF IsShape
<1>12. Dim(r) = d + 1
  <2>1. \A x \in Cells(r) : x[1] =< top[1]
    BY <1>1, <1>6 DEF C
  <2>. QED
    BY <1>1, <1>6, <1>9, <2>1, DimIs
<1>13. PartOf(p.tip, r)
  BY <1>4, <1>5, <1>6 DEF PartOf, C
<1>. QED
  BY <1>1, <1>4, <1>5, <1>6, <1>11, <1>12, <1>13 DEF r, top, C, left, right

\* The cell that is made of two diagrams of the same dimension, if making it
\* does not fail, has each of them in it, shape and labels; they meet in the
\* boundary they share and nowhere else; and there is one cell more, with the
\* label it was made with, a dimension above theirs, whose input faces are the
\* top cells of the one and whose output faces are the top cells of the other
\* (Diagram::cell_n, build_cell_shape).
THEOREM CellHasItsSides ==
    ASSUME NEW u, NEW v, IsMade(u), IsMade(v), Dim(u.shape) = Dim(v.shape), NEW tag,
           NEW e, NEW h, IsEmbedding(e), IsEmbedding(h), e.cod = u.shape, h.cod = v.shape,
           CellAlong(e, h, top_dim(u), tag, u, v) # Failed
    PROVE  IsCellOf(CellAlong(e, h, top_dim(u), tag, u, v), tag, top_dim(u), u, v, e, h)
<1>. DEFINE k == top_dim(u)
            top == <<k + 1, 0>>
            p == pushout(e, h)
            merged == merge_pushout_labels(p, u, v)
            d == CellAlong(e, h, k, tag, u, v)
<1>1. SameLabelled(u, e, v, h)
  BY DEF CellAlong
<1>2. d = CellOver(p, k, tag, u, v)
  BY <1>1 DEF CellAlong
<1>3. IsPushout(e, h, p)
  BY <1>1, Pushout DEF SameLabelled
<1>4. /\ k \in Nat
      /\ \A x \in Cells(u.shape) : x[1] \in Nat /\ x[1] =< k
      /\ \A y \in Cells(v.shape) : y[1] \in Nat /\ y[1] =< k
  <2>1. /\ Cells(u.shape) \subseteq Nat \X Nat /\ IsFiniteSet(Cells(u.shape))
        /\ Cells(v.shape) \subseteq Nat \X Nat /\ IsFiniteSet(Cells(v.shape))
    BY DEF IsMade, IsShape
  <2>2. /\ Dim(u.shape) \in Int /\ \A x \in Cells(u.shape) : x[1] =< Dim(u.shape)
        /\ \A y \in Cells(v.shape) : y[1] =< Dim(u.shape)
    BY <2>1, DimIs
  <2>3. /\ {Dim(u.shape), 0} \subseteq Int /\ IsFiniteSet({Dim(u.shape), 0})
        /\ {Dim(u.shape), 0} # {}
    <3>1. {Dim(u.shape), 0} = {Dim(u.shape)} \cup {0}
      OBVIOUS
    <3>2. IsFiniteSet({Dim(u.shape)})
      BY FS_Singleton
    <3>3. IsFiniteSet({Dim(u.shape)} \cup {0})
      BY <3>2, FS_AddElement
    <3>. QED
      BY <2>2, <3>1, <3>3
  <2>4. Max({Dim(u.shape), 0}) \in {Dim(u.shape), 0} /\ \A y \in {Dim(u.shape), 0} : y =< Max({Dim(u.shape), 0})
    BY <2>3, MaxIs
  <2>5. k = Max({Dim(u.shape), 0})
    BY DEF top_dim
  <2>. HIDE DEF k
  <2>6. k \in Int /\ Dim(u.shape) =< k /\ 0 =< k
    BY <2>2, <2>4, <2>5
  <2>. QED
    BY <2>1, <2>2, <2>6
<1>. HIDE DEF k, p
<1>5. /\ Image(p.inl) \subseteq Cells(p.tip) /\ Image(p.inr) \subseteq Cells(p.tip)
      /\ Cells(p.tip) = Image(p.inl) \cup Image(p.inr)
      /\ Embeds(p.inl, u.shape, p.tip) /\ Embeds(p.inr, v.shape, p.tip) /\ IsShape(p.tip)
  BY <1>3 DEF IsPushout
<1>6. \A c \in Cells(p.tip) : c[1] =< k
  <2>1. \A x \in Cells(u.shape) : p.inl[x][1] =< k
    BY <1>4, <1>5 DEF Embeds
  <2>2. \A y \in Cells(v.shape) : p.inr[y][1] =< k
    BY <1>4, <1>5 DEF Embeds
  <2>3. DOMAIN p.inl = Cells(u.shape) /\ DOMAIN p.inr = Cells(v.shape)
    BY <1>5 DEF Embeds
  <2>. QED
    BY <1>5, <2>1, <2>2, <2>3 DEF Image
<1>. DEFINE r == build_cell_shape(k, p)
<1>7. /\ IsShape(r) /\ PartOf(p.tip, r) /\ Dim(r) = k + 1
      /\ top \notin Cells(p.tip) /\ Cells(r) = Cells(p.tip) \cup {top}
      /\ r.in[top] = {x \in Image(p.inl) : x[1] = k}
      /\ r.out[top] = {x \in Image(p.inr) : x[1] = k}
  BY <1>4, <1>5, <1>6, CellShapeIs
<1>8. d.shape = r /\ d.labels = WithTop(merged, k, tag) /\ DOMAIN d.history = 0 .. k + 1
  <2>. HIDE DEF r, merged
  <2>. QED
    BY <1>2, DiagramIs DEF CellOver, r, merged
<1>. HIDE DEF r, d
<1>9. /\ merged = [c \in Cells(p.tip) |-> merged[c]]
      /\ \A x \in Cells(u.shape) : merged[p.inl[x]] = u.labels[x]
      /\ \A y \in Cells(v.shape) : merged[p.inr[y]] = v.labels[y]
  BY <1>1, <1>3, LabelsMerged
<1>. HIDE DEF merged
<1>10. /\ DOMAIN d.labels = Cells(r) /\ d.labels = [c \in DOMAIN d.labels |-> d.labels[c]]
       /\ d.labels[top] = tag /\ \A c \in Cells(p.tip) : d.labels[c] = merged[c]
  <2>1. DOMAIN merged = Cells(p.tip)
    BY <1>9
  <2>2. IsTopped(WithTop(merged, k, tag), merged, <<k + 1, 0>>, tag)
    BY <1>7, <2>1, WithTopIs
  <2>. QED
    BY <1>7, <1>8, <2>1, <2>2 DEF IsTopped
<1>. HIDE DEF top
<1>11. HasPart(d, u, p.inl)
  <2>1. Embeds(p.inl, u.shape, r)
    BY <1>5, <1>7, EmbedsPart
  <2>2. \A x \in Cells(u.shape) : p.inl[x] \in Cells(p.tip)
    BY <1>5 DEF Embeds
  <2>. QED
    BY <1>8, <1>9, <1>10, <2>1, <2>2 DEF HasPart
<1>12. HasPart(d, v, p.inr)
  <2>1. Embeds(p.inr, v.shape, r)
    BY <1>5, <1>7, EmbedsPart
  <2>2. \A y \in Cells(v.shape) : p.inr[y] \in Cells(p.tip)
    BY <1>5 DEF Embeds
  <2>. QED
    BY <1>8, <1>9, <1>10, <2>1, <2>2 DEF HasPart
<1>13. MeetIn(e, h, p.inl, p.inr)
  BY <1>1, <1>3, MeetInShared DEF SameLabelled
<1>14. IsMade(d)
  <2>1. d.labels # <<>>
    BY <1>7, <1>10
  <2>. QED
    BY <1>7, <1>8, <1>10, <2>1 DEF IsMade, well_formed
<1>15. /\ top \notin Image(p.inl) \cup Image(p.inr)
       /\ Cells(d.shape) = Image(p.inl) \cup Image(p.inr) \cup {top}
       /\ d.shape.in[top] = {x \in Image(p.inl) : x[1] = k}
       /\ d.shape.out[top] = {x \in Image(p.inr) : x[1] = k}
  BY <1>5, <1>7, <1>8
<1>. QED
  BY <1>10, <1>11, <1>12, <1>13, <1>14, <1>15 DEF d, top, k, IsCellOf

----------------------------------------------------------------------------
(* The operations themselves, where the cells of neither diagram run in    *)
(* circles.                                                                *)

LEMMA TopIsNat == ASSUME NEW d, IsMade(d) PROVE top_dim(d) \in Nat
<1>1. Dim(d.shape) \in Int
  BY DimIs DEF IsMade, IsShape
<1>2. IsFiniteSet({Dim(d.shape), 0})
  <2>1. IsFiniteSet({0})
    BY FS_Singleton
  <2>2. IsFiniteSet({0} \cup {Dim(d.shape)})
    BY <2>1, FS_AddElement
  <2>3. {0} \cup {Dim(d.shape)} = {Dim(d.shape), 0}
    OBVIOUS
  <2>. QED
    BY <2>2, <2>3
<1>. QED
  BY <1>1, <1>2, MaxIs DEF top_dim

\* Whatever pasting makes of two diagrams has both in it: they meet in what
\* was taken as the output boundary of the one and the input boundary of the
\* other, and nowhere else, and there is nothing else in it (Diagram::paste).
THEOREM PasteIsSound ==
    ASSUME NEW u, NEW v, IsMade(u), IsMade(v), HasInputs(u.shape), HasInputs(v.shape),
           NEW k \in Nat, paste(k, u, v) # Failed
    PROVE  IsPasteOf(paste(k, u, v), u, v, boundary_traverse("out", k, u.shape), boundary_traverse("in", k, v.shape))
<1>. DEFINE e == boundary_traverse("out", k, u.shape)
            h == boundary_traverse("in", k, v.shape)
<1>1. IsShape(u.shape) /\ IsShape(v.shape)
  BY DEF IsMade
<1>2. IsEmbedding(e) /\ e.cod = u.shape /\ IsEmbedding(h) /\ h.cod = v.shape
  BY <1>1, BoundaryIsEmbedded
<1>3. paste(k, u, v) = PastedAlong(e, h, k, u, v)
  BY DEF paste
<1>. HIDE DEF e, h
<1>4. PastedAlong(e, h, k, u, v) # Failed
  BY <1>3
<1>5. IsPasteOf(PastedAlong(e, h, k, u, v), u, v, e, h)
  BY <1>2, <1>4, PasteKeepsBoth
<1>. QED
  BY <1>3, <1>5 DEF e, h

\* A cell that is made of two diagrams has both of them in it, meeting in their
\* common boundary and nowhere else, and one cell more, which goes from the top
\* cells of the one to those of the other (Diagram::cell_n).
THEOREM CellIsSound ==
    ASSUME NEW u, NEW v, IsMade(u), IsMade(v), HasInputs(u.shape), HasInputs(v.shape),
           NEW tag, cell_n(tag, u, v) # Failed
    PROVE  LET k == top_dim(u)
           IN  IsCellOf(cell_n(tag, u, v), tag, k, u, v,
                        boundary_traverse("both", k, u.shape), boundary_traverse("both", k, v.shape))
<1>. DEFINE k == top_dim(u)
            e == boundary_traverse("both", k, u.shape)
            h == boundary_traverse("both", k, v.shape)
<1>1. IsShape(u.shape) /\ IsShape(v.shape)
  BY DEF IsMade
<1>2. k \in Nat
  BY TopIsNat
<1>. HIDE DEF k
<1>3. IsEmbedding(e) /\ e.cod = u.shape /\ IsEmbedding(h) /\ h.cod = v.shape
  BY <1>1, <1>2, BoundaryIsEmbedded
<1>4. Dim(u.shape) = Dim(v.shape) /\ cell_n(tag, u, v) = CellAlong(e, h, k, tag, u, v)
  BY DEF cell_n, k
<1>. HIDE DEF e, h
<1>5. CellAlong(e, h, k, tag, u, v) # Failed
  BY <1>4
<1>6. IsCellOf(CellAlong(e, h, k, tag, u, v), tag, k, u, v, e, h)
  BY <1>3, <1>4, <1>5, CellHasItsSides DEF k
<1>. QED
  BY <1>4, <1>6 DEF e, h, k

\* Two diagrams that are taken for the same up to isomorphism are: there is
\* one between their shapes that keeps the labels (Diagram::isomorphic).
THEOREM IsomorphicIsSound ==
    ASSUME NEW u, NEW v, IsMade(u), IsMade(v), HasInputs(u.shape), HasInputs(v.shape),
           isomorphic(u, v)
    PROVE  \E map : /\ Isomorphism(map, u.shape, v.shape)
                    /\ \A c \in Cells(u.shape) : u.labels[c] = v.labels[map[c]]
<1>1. /\ IsShape(u.shape) /\ IsShape(v.shape)
      /\ DOMAIN u.labels = Cells(u.shape)
  BY DEF IsMade, well_formed
<1>2. CASE SameDiagram(u, v)
  <2>. DEFINE m == id(u.shape).map
  <2>1. Isomorphism(m, u.shape, v.shape)
    BY <1>1, <1>2, IdentityIs DEF SameDiagram
  <2>2. m = [c \in Cells(u.shape) |-> c]
    BY IdIs
  <2>. HIDE DEF m
  <2>3. \A c \in Cells(u.shape) : u.labels[c] = v.labels[m[c]]
    BY <1>2, <2>2 DEF SameDiagram
  <2>. QED
    BY <2>1, <2>3
<1>3. CASE LabelsAgree(u, v, find_isomorphism(u.shape, v.shape))
  <2>. DEFINE m == find_isomorphism(u.shape, v.shape)
  <2>1. m # <<>> /\ u.labels = [c \in DOMAIN m |-> v.labels[m[c]]]
    BY <1>3 DEF LabelsAgree
  <2>. HIDE DEF m
  <2>2. Isomorphism(m, u.shape, v.shape)
    BY <1>1, <2>1, FoundIsIsomorphism DEF m
  <2>3. \A c \in Cells(u.shape) : u.labels[c] = v.labels[m[c]]
    BY <1>1, <2>1
  <2>. QED
    BY <2>2, <2>3
<1>. QED
  BY <1>2, <1>3 DEF isomorphic

----------------------------------------------------------------------------
(* Occurrences.                                                            *)

\* map puts the pattern in the target, labels and all, onto part.
Occurs(pattern, target, map, part) ==
    /\ HasPart(target, pattern, map)
    /\ Image(map) = part

\* No cells, no map.
LEMMA NoneOnto == ASSUME NEW sub PROVE Onto(<<>>, sub) = <<>>
<1>1. DOMAIN <<>> = {}
  OBVIOUS
<1>2. Onto(<<>>, sub) = [c \in {} |-> sub.map[<<>>[c]]]
  BY <1>1 DEF Onto
<1>. QED
  BY <1>2

\* Whatever is found as a match is one: an embedding of the pattern in the
\* target that keeps every label, onto the matched cells and all that is below
\* them, and no more, where neither the pattern nor that part of the target
\* runs in circles (check_match_isomorphism).
THEOREM MatchesAreOccurrences ==
    ASSUME NEW pattern, NEW target, IsShape(pattern.shape), IsShape(target.shape),
           NEW cells \in SUBSET Cells(target.shape), HasInputs(pattern.shape),
           HasInputs(restrict_ogposet(target.shape, closure(target.shape, cells)).dom),
           check_match_isomorphism(pattern, target, cells) # <<>>
    PROVE  Occurs(pattern, target, check_match_isomorphism(pattern, target, cells), closure(target.shape, cells))
<1>. DEFINE part == closure(target.shape, cells)
            sub == restrict_ogposet(target.shape, part)
            iso == find_isomorphism(pattern.shape, sub.dom)
            map == check_match_isomorphism(pattern, target, cells)
<1>1. part \in SUBSET Cells(target.shape) /\ Closed(target.shape, part)
  BY ClosureIs
<1>2. map = MatchOnto(pattern, target, sub)
  BY DEF check_match_isomorphism
<1>8. HasInputs(sub.dom)
  OBVIOUS
<1>. HIDE DEF part, map
<1>3. IsEmbedding(sub) /\ sub.cod = target.shape /\ Image(sub.map) = part
  BY <1>1, RestrictionIs
<1>4. map = MatchingLabels(pattern, target, Onto(iso, sub))
  BY <1>2 DEF MatchOnto
<1>. HIDE DEF sub
<1>5. /\ map # <<>> /\ map = Onto(iso, sub)
      /\ \A c \in DOMAIN map : pattern.labels[c] = target.labels[map[c]]
  BY <1>4 DEF MatchingLabels, map
<1>6. iso # <<>>
  BY <1>5, NoneOnto
<1>7. IsShape(sub.dom) /\ Embeds(sub.map, sub.dom, target.shape)
  BY <1>3 DEF IsEmbedding
<1>9. Isomorphism(iso, pattern.shape, sub.dom)
  BY <1>6, <1>7, <1>8, FoundIsIsomorphism
<1>. HIDE DEF iso
<1>10. map = Composed(iso, sub.map)
  BY <1>5 DEF Onto, Composed
<1>11. Embeds(iso, pattern.shape, sub.dom) /\ Image(iso) = Cells(sub.dom)
  BY <1>9 DEF Isomorphism
<1>12. Embeds(map, pattern.shape, target.shape) /\ Image(map) = ImageOf(sub.map, Cells(sub.dom))
  BY <1>7, <1>10, <1>11, ComposedIs
<1>13. ImageOf(sub.map, Cells(sub.dom)) = part
  BY <1>3, <1>7 DEF Embeds, ImageOf, Image
<1>14. DOMAIN map = Cells(pattern.shape)
  BY <1>12 DEF Embeds
<1>. QED
  BY <1>5, <1>12, <1>13, <1>14 DEF Occurs, HasPart, part, map

\* The generators are diagrams, and neither they nor their sides run in circles.
GeneratorsAreMade == RulesHaveInputs /\ \A t \in DOMAIN classifier : IsMade(classifier[t])

\* The pattern of a rule is the side of the rule that it is embedded as.
LEMMA RuleIs ==
    ASSUME NEW t \in DOMAIN classifier, GeneratorsAreMade, NEW backward \in BOOLEAN, top_dim(classifier[t]) >= 1
    PROVE  LET rule == RulePattern(t, backward)
           IN  /\ rule.name = t /\ IsEmbedding(rule.pattern_to_rewrite)
               /\ rule.pattern_to_rewrite.dom = rule.pattern.shape
               /\ rule.pattern_to_rewrite.cod = classifier[t].shape
               /\ HasInputs(rule.pattern.shape)
               /\ \A z \in Cells(rule.pattern.shape) :
                     rule.pattern.labels[z] = classifier[t].labels[rule.pattern_to_rewrite.map[z]]
<1>. DEFINE d == classifier[t]
            n == top_dim(d) - 1
            sign == IF backward THEN "out" ELSE "in"
            e == boundary_traverse(sign, n, d.shape)
            rule == RulePattern(t, backward)
<1>1. IsMade(d) /\ IsShape(d.shape) /\ HasInputs(d.shape)
  BY DEF GeneratorsAreMade, RulesHaveInputs, IsMade
<1>2. n \in Nat
  BY <1>1, TopIsNat
<1>8. HasInputs(rule.pattern.shape)
  BY DEF GeneratorsAreMade, RulesHaveInputs
<1>3. /\ rule.name = t /\ rule.pattern_to_rewrite = e
      /\ rule.pattern = BoundaryOf(d, sign, n, e)
  BY DEF RulePattern, boundary_normal
<1>. HIDE DEF n, sign, rule
<1>4. IsEmbedding(e) /\ e.cod = d.shape
  BY <1>1, <1>2, BoundaryIsEmbedded
<1>. HIDE DEF e, d
<1>5. rule.pattern.shape = e.dom /\ rule.pattern.labels = pullback_labels(d, e)
  BY <1>3 DEF BoundaryOf, Diagram
<1>6. rule.pattern.labels = [c \in DOMAIN e.map |-> d.labels[e.map[c]]]
  BY <1>5, TableIs DEF pullback_labels
<1>7. DOMAIN e.map = Cells(e.dom) /\ IsShape(e.dom) /\ Embeds(e.map, e.dom, d.shape)
  BY <1>4 DEF IsEmbedding, Embeds
<1>. QED
  BY <1>3, <1>4, <1>5, <1>6, <1>7, <1>8 DEF rule, d

\* An occurrence of a rule of the next dimension in the target.
IsCandidate(x, target) ==
    \E t \in DOMAIN classifier, backward \in BOOLEAN, cells \in SUBSET Level(target.shape, top_dim(target)) :
        LET rule == RulePattern(t, backward)
            map == check_match_isomorphism(rule.pattern, target, cells)
        IN  /\ top_dim(classifier[t]) = top_dim(target) + 1
            /\ map # <<>> /\ x = Candidate(rule, target, map)

\* The span of a candidate, and the labels it meets the target with.
Fitted(x, target) ==
    LET span == [into_base |-> x.iso, into_ext |-> x.rule.pattern_to_rewrite]
    IN  /\ IsSpan(target.shape, span)
        /\ span.into_ext.cod = classifier[x.rule.name].shape
        /\ \A z \in Cells(span.into_ext.dom) :
               classifier[x.rule.name].labels[span.into_ext.map[z]] = target.labels[span.into_base.map[z]]

LEMMA CandidatesFit ==
    ASSUME NEW target, IsMade(target), PartsHaveInputs(target), GeneratorsAreMade, NEW x, IsCandidate(x, target)
    PROVE  Fitted(x, target)
<1>1. PICK t \in DOMAIN classifier, backward \in BOOLEAN, cells \in SUBSET Level(target.shape, top_dim(target)) :
          /\ top_dim(classifier[t]) = top_dim(target) + 1
          /\ check_match_isomorphism(RulePattern(t, backward).pattern, target, cells) # <<>>
          /\ x = Candidate(RulePattern(t, backward), target,
                           check_match_isomorphism(RulePattern(t, backward).pattern, target, cells))
  BY DEF IsCandidate
<1>. DEFINE rule == RulePattern(t, backward)
            e == rule.pattern_to_rewrite
            map == check_match_isomorphism(rule.pattern, target, cells)
<1>2. top_dim(classifier[t]) >= 1
  BY <1>1, TopIsNat
<1>3. /\ rule.name = t /\ IsEmbedding(e) /\ e.dom = rule.pattern.shape /\ e.cod = classifier[t].shape
      /\ HasInputs(rule.pattern.shape)
      /\ \A z \in Cells(rule.pattern.shape) : rule.pattern.labels[z] = classifier[t].labels[e.map[z]]
  BY <1>2, RuleIs
<1>. HIDE DEF rule
<1>4. IsShape(target.shape) /\ IsShape(rule.pattern.shape) /\ map # <<>>
  BY <1>1, <1>3 DEF IsMade, IsEmbedding, rule
<1>13. /\ cells \in SUBSET Cells(target.shape)
       /\ HasInputs(restrict_ogposet(target.shape, closure(target.shape, cells)).dom)
  BY <1>1 DEF PartsHaveInputs, Level
<1>5. Occurs(rule.pattern, target, map, closure(target.shape, cells))
  BY <1>3, <1>4, <1>13, MatchesAreOccurrences
<1>6. x.rule = rule /\ x.iso = Embedding(rule.pattern.shape, target.shape, map)
  BY <1>1 DEF Candidate, rule
<1>. HIDE DEF map
<1>7. x.iso.map = map /\ x.iso.dom = rule.pattern.shape /\ x.iso.cod = target.shape
  BY <1>6 DEF Embedding
<1>8. /\ Embeds(map, rule.pattern.shape, target.shape)
      /\ \A z \in Cells(rule.pattern.shape) : target.labels[map[z]] = rule.pattern.labels[z]
  BY <1>5 DEF Occurs, HasPart
<1>. DEFINE span == [into_base |-> x.iso, into_ext |-> x.rule.pattern_to_rewrite]
<1>9. span.into_base = x.iso /\ span.into_ext = e
  BY <1>6
<1>. HIDE DEF span
<1>10. equal(span.into_base.dom, span.into_ext.dom)
  BY <1>3, <1>7, <1>9 DEF equal
<1>11. IsSpan(target.shape, span)
  BY <1>3, <1>7, <1>8, <1>9, <1>10 DEF IsSpan, IsEmbedding
<1>12. /\ span.into_ext.cod = classifier[x.rule.name].shape
       /\ \A z \in Cells(span.into_ext.dom) :
              classifier[x.rule.name].labels[span.into_ext.map[z]] = target.labels[span.into_base.map[z]]
  BY <1>3, <1>6, <1>7, <1>8, <1>9
<1>. QED
  BY <1>11, <1>12 DEF Fitted, span

\* The rules of a family are glued onto the target where they occur: the tip
\* has the target in it, and each rule, which meets the target in its pattern
\* only, with the same labels, and any other rule of the family only in the
\* target.
StepGlues(target, family, tip, inrs) ==
    /\ DOMAIN inrs = DOMAIN family
    /\ IsGlued(target.shape, SpansOf(family), tip, inrs)
    /\ \A i \in DOMAIN family : \A y \in Cells(classifier[family[i].rule.name].shape) :
           inrs[i][y] \in Cells(target.shape) =>
               classifier[family[i].rule.name].labels[y] = target.labels[inrs[i][y]]

\* Whatever family of candidates a step is made of, what it glues is a shape
\* with the diagram and all the rules in it, and the labels that the diagram
\* and the rules give its cells never contradict each other: a cell of two
\* rules is one of the diagram, and a cell of a rule and the diagram has the
\* same label in both, where no part of the diagram runs in circles that its top
\* cells span (construct_parallel_step).
THEOREM StepGluesTheFamily ==
    ASSUME NEW target, IsMade(target), PartsHaveInputs(target), GeneratorsAreMade,
           NEW S, NEW family \in Seq(S), \A i \in DOMAIN family : IsCandidate(family[i], target)
    PROVE  LET p == multi_pushout(target.shape, SpansOf(family))
           IN  StepGlues(target, family, p.tip, p.inrs)
<1>. DEFINE spans == SpansOf(family)
            p == multi_pushout(target.shape, spans)
            span(i) == [into_base |-> family[i].iso, into_ext |-> family[i].rule.pattern_to_rewrite]
<1>1. spans = [i \in DOMAIN family |-> span(i)]
  BY DEF SpansOf
<1>2. \A i \in DOMAIN family : Fitted(family[i], target)
  BY CandidatesFit
<1>3. \A i \in DOMAIN family :
          /\ IsSpan(target.shape, span(i))
          /\ span(i).into_ext.cod = classifier[family[i].rule.name].shape
          /\ \A z \in Cells(span(i).into_ext.dom) :
                 classifier[family[i].rule.name].labels[span(i).into_ext.map[z]]
                     = target.labels[span(i).into_base.map[z]]
  BY <1>2 DEF Fitted
<1>. HIDE DEF spans, span
<1>4. DOMAIN spans = DOMAIN family /\ \A i \in DOMAIN spans : spans[i] = span(i)
  BY <1>1
<1>5. spans \in Seq({span(i) : i \in DOMAIN family})
  BY <1>1
<1>6. IsShape(target.shape)
  BY DEF IsMade
<1>7. IsGlued(target.shape, spans, p.tip, p.inrs) /\ DOMAIN p.inrs = DOMAIN spans
  BY <1>3, <1>4, <1>5, <1>6, MultiPushout
<1>. HIDE DEF p
<1>8. ASSUME NEW i \in DOMAIN family, NEW y \in Cells(classifier[family[i].rule.name].shape),
             p.inrs[i][y] \in Cells(target.shape)
      PROVE  classifier[family[i].rule.name].labels[y] = target.labels[p.inrs[i][y]]
  <2>1. Glues(target.shape, span(i), p.tip, p.inrs[i])
    BY <1>4, <1>7 DEF IsGlued
  <2>2. y \in Image(span(i).into_ext.map)
    BY <1>3, <1>8, <2>1 DEF Glues
  <2>3. DOMAIN span(i).into_ext.map = Cells(span(i).into_ext.dom)
    BY <1>3 DEF IsSpan, Embeds
  <2>4. PICK z \in Cells(span(i).into_ext.dom) : y = span(i).into_ext.map[z]
    BY <2>2, <2>3 DEF Image
  <2>5. p.inrs[i][y] = span(i).into_base.map[z]
    BY <2>1, <2>4 DEF Glues
  <2>. QED
    BY <1>3, <2>4, <2>5
<1>. QED
  BY <1>4, <1>7, <1>8 DEF StepGlues, spans, p
=============================================================================
