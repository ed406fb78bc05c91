------------------------- MODULE Elaboration_proofs -------------------------
(***************************************************************************)
(* What holds of Elaboration for every program, whatever its expressions   *)
(* stand for.                                                              *)
(***************************************************************************)
EXTENDS Elaboration, Diagrams_proofs

----------------------------------------------------------------------------
(* Numbers and sequences.                                                  *)

IsSeq(s) == s \in Seq(Image(s))

LEMMA SeqIs ==
    ASSUME NEW S, NEW s \in Seq(S)
    PROVE  IsSeq(s) /\ Image(s) \subseteq S
  BY DEF IsSeq, Image

LEMMA Joined ==
    ASSUME NEW S, NEW s \in Seq(S), NEW t \in Seq(S)
    PROVE  /\ s \o t \in Seq(S) /\ Len(s \o t) = Len(s) + Len(t)
           /\ \A i \in 1 .. Len(s) + Len(t) : (s \o t)[i] = IF i =< Len(s) THEN s[i] ELSE t[i - Len(s)]
  OBVIOUS

LEMMA Inserted ==
    ASSUME NEW s, IsSeq(s), NEW p \in 1 .. Len(s) + 1, NEW x
    PROVE  IsSeq(InsertAt(s, p, x)) /\ Image(InsertAt(s, p, x)) = Image(s) \cup {x}
<1>. DEFINE S == Image(s) \cup {x}
            t == InsertAt(s, p, x)
<1>1. s \in Seq(S) /\ Len(s) \in Nat /\ DOMAIN s = 1 .. Len(s)
  BY DEF IsSeq
<1>2. /\ SubSeq(s, 1, p - 1) \in Seq(S) /\ Len(SubSeq(s, 1, p - 1)) = p - 1
      /\ \A i \in 1 .. p - 1 : SubSeq(s, 1, p - 1)[i] = s[i]
  BY <1>1
<1>3. /\ SubSeq(s, p, Len(s)) \in Seq(S) /\ Len(SubSeq(s, p, Len(s))) = Len(s) + 1 - p
      /\ \A i \in 1 .. Len(s) + 1 - p : SubSeq(s, p, Len(s))[i] = s[p + i - 1]
  BY <1>1
<1>4. t \in Seq(S) /\ Len(t) = Len(s) + 1
      /\ \A i \in 1 .. Len(s) + 1 : t[i] = IF i < p THEN s[i] ELSE IF i = p THEN x ELSE s[i - 1]
  <2>. DEFINE a == SubSeq(s, 1, p - 1)
              b == SubSeq(s, p, Len(s))
              m == a \o <<x>>
  <2>1. <<x>> \in Seq(S) /\ Len(<<x>>) = 1 /\ <<x>>[1] = x
    OBVIOUS
  <2>2. a \in Seq(S) /\ Len(a) = p - 1 /\ b \in Seq(S) /\ Len(b) = Len(s) + 1 - p /\ p - 1 \in Nat
    BY <1>1, <1>2, <1>3
  <2>3. t = m \o b
    BY DEF InsertAt
  <2>4. /\ \A i \in 1 .. p - 1 : a[i] = s[i]
        /\ \A i \in 1 .. Len(s) + 1 - p : b[i] = s[p + i - 1]
    BY <1>2, <1>3
  <2>. HIDE DEF a, b, t
  <2>5. m \in Seq(S) /\ Len(m) = p /\ \A i \in 1 .. p : m[i] = IF i < p THEN s[i] ELSE x
    <3>1. m \in Seq(S) /\ Len(m) = Len(a) + 1
          /\ \A i \in 1 .. Len(a) + 1 : m[i] = IF i =< Len(a) THEN a[i] ELSE <<x>>[i - Len(a)]
      BY <2>1, <2>2, Joined
    <3>. HIDE DEF m
    <3>2. Len(a) + 1 = p
      BY <2>2
    <3>3. ASSUME NEW i \in 1 .. p PROVE m[i] = IF i < p THEN s[i] ELSE x
      <4>1. CASE i < p
        <5>1. i =< Len(a) /\ i \in 1 .. p - 1 /\ i \in 1 .. Len(a) + 1
          BY <2>2, <4>1
        <5>. QED
          BY <3>1, <2>4, <4>1, <5>1
      <4>2. CASE i = p
        <5>1. ~(i =< Len(a)) /\ i \in 1 .. Len(a) + 1 /\ i - Len(a) = 1 /\ ~(i < p)
          BY <2>2, <4>2
        <5>. QED
          BY <3>1, <2>1, <5>1
      <4>. QED
        BY <2>2, <4>1, <4>2
    <3>. QED
      BY <3>1, <3>2, <3>3
  <2>. HIDE DEF m
  <2>6. t \in Seq(S) /\ Len(t) = p + Len(b)
        /\ \A i \in 1 .. p + Len(b) : t[i] = IF i =< p THEN m[i] ELSE b[i - p]
    BY <2>2, <2>3, <2>5, Joined
  <2>7. p + Len(b) = Len(s) + 1
    BY <1>1, <2>2
  <2>8. ASSUME NEW i \in 1 .. Len(s) + 1
        PROVE  t[i] = IF i < p THEN s[i] ELSE IF i = p THEN x ELSE s[i - 1]
    <3>1. CASE i =< p
      BY <1>1, <2>5, <2>6, <2>7, <3>1
    <3>2. CASE i > p
      <4>1. i - p \in 1 .. Len(s) + 1 - p /\ p + (i - p) - 1 = i - 1 /\ ~(i =< p)
        BY <1>1, <3>2
      <4>2. t[i] = b[i - p]
        BY <2>6, <2>7, <4>1
      <4>3. b[i - p] = s[i - 1]
        BY <2>4, <4>1
      <4>4. ~(i < p) /\ i # p
        BY <1>1, <3>2
      <4>. QED
        BY <4>2, <4>3, <4>4
    <3>. QED
      BY <1>1, <3>1, <3>2
  <2>. QED
    BY <2>6, <2>7, <2>8
<1>. HIDE DEF t
<1>5. \A i \in 1 .. Len(s) + 1 : t[i] = IF i < p THEN s[i] ELSE IF i = p THEN x ELSE s[i - 1]
  BY <1>4
<1>6. x = t[p] /\ p \in DOMAIN t
  BY <1>1, <1>4, <1>5
<1>7. \A i \in DOMAIN s : \E j \in DOMAIN t : t[j] = s[i]
  <2>. TAKE i \in DOMAIN s
  <2>1. CASE i < p
    BY <1>1, <1>4, <1>5, <2>1
  <2>2. CASE i >= p
    <3>1. i + 1 \in 1 .. Len(s) + 1 /\ ~(i + 1 < p) /\ i + 1 # p /\ (i + 1) - 1 = i
      BY <1>1, <2>2
    <3>. QED
      BY <1>1, <1>4, <1>5, <3>1
  <2>. QED
    BY <1>1, <2>1, <2>2
<1>8. Image(s) \subseteq Image(t) /\ x \in Image(t)
  BY <1>6, <1>7 DEF Image
<1>9. Image(t) \subseteq S
  BY <1>4, SeqIs
<1>10. Image(t) = S
  BY <1>8, <1>9
<1>. QED
  BY <1>4, <1>10 DEF IsSeq, t

\* How many of the positions of a sequence have a property is a position or 0.
LEMMA PlaceIsIn ==
    ASSUME NEW s, IsSeq(s), NEW T, T \subseteq DOMAIN s
    PROVE  Cardinality(T) + 1 \in 1 .. Len(s) + 1
<1>1. Len(s) \in Nat /\ DOMAIN s = 1 .. Len(s)
  BY DEF IsSeq
<1>2. IsFiniteSet(1 .. Len(s)) /\ Cardinality(1 .. Len(s)) = Len(s)
  <2>1. Cardinality(1 .. Len(s)) = IF 1 > Len(s) THEN 0 ELSE Len(s) - 1 + 1
    BY <1>1, FS_Interval
  <2>. QED
    BY <1>1, <2>1, FS_Interval
<1>3. IsFiniteSet(T) /\ Cardinality(T) =< Cardinality(1 .. Len(s))
  BY <1>1, <1>2, FS_Subset
<1>4. Cardinality(T) \in Nat
  BY <1>3, FS_CardinalityType
<1>. QED
  BY <1>1, <1>2, <1>3, <1>4

\* The parts of what is flattened are those of its sequences.
LEMMA Flattened ==
    ASSUME NEW S, NEW ss \in Seq(Seq(S))
    PROVE  FlattenSeq(ss) \in Seq(S)
<1>. DEFINE N == Len(ss)
            Rec(f, n) == f = [i \in 1 .. n |-> IF i = 1 THEN ss[i] ELSE f[i - 1] \o ss[i]]
            made == {n \in Nat : n > 0 => \E f : Rec(f, n)}
            flatten == CHOOSE f : Rec(f, N)
<1>1. N \in Nat /\ \A i \in 1 .. N : ss[i] \in Seq(S)
  OBVIOUS
<1>2. Nat \subseteq made
  <2>1. 0 \in made
    OBVIOUS
  <2>2. ASSUME NEW n \in Nat, n \in made PROVE n + 1 \in made
    <3>1. CASE n = 0
      <4>. DEFINE g == [i \in 1 .. 1 |-> ss[i]]
      <4>1. Rec(g, 1) /\ n + 1 = 1
        BY <3>1
      <4>. HIDE DEF Rec, g
      <4>2. \E f : Rec(f, n + 1)
        BY <4>1, Zenon
      <4>. QED
        BY <4>2
    <3>2. CASE n > 0
      <4>1. PICK f : Rec(f, n)
        BY <2>2, <3>2
      <4>. DEFINE g == [i \in 1 .. n + 1 |-> IF i =< n THEN f[i] ELSE f[n] \o ss[n + 1]]
      <4>2. \A i \in 1 .. n : f[i] = IF i = 1 THEN ss[i] ELSE f[i - 1] \o ss[i]
        BY <4>1
      <4>3. ASSUME NEW i \in 1 .. n + 1 PROVE g[i] = IF i = 1 THEN ss[i] ELSE g[i - 1] \o ss[i]
        <5>1. CASE i =< n
          <6>1. g[i] = f[i] /\ (i # 1 => g[i - 1] = f[i - 1]) /\ i \in 1 .. n
            BY <5>1
          <6>. QED
            BY <4>2, <6>1
        <5>2. CASE i = n + 1
          <6>1. n \in 1 .. n + 1 /\ n + 1 \in 1 .. n + 1 /\ ~(n + 1 =< n) /\ n =< n /\ n + 1 # 1 /\ (n + 1) - 1 = n
            BY <3>2
          <6>2. g[n + 1] = f[n] \o ss[n + 1] /\ g[n] = f[n]
            BY <6>1, Zenon
          <6>. QED
            BY <5>2, <6>1, <6>2, Zenon
        <5>. QED
          BY <5>1, <5>2
      <4>4. g = [i \in 1 .. n + 1 |-> g[i]]
        OBVIOUS
      <4>. HIDE DEF g
      <4>5. Rec(g, n + 1)
        BY <4>3, <4>4
      <4>. HIDE DEF Rec
      <4>6. \E h : Rec(h, n + 1)
        BY <4>5
      <4>. QED
        BY <4>6
    <3>. HIDE DEF made
    <3>. QED
      BY <3>1, <3>2
  <2>. HIDE DEF made
  <2>. QED
    BY <2>1, <2>2, Upwards
<1>3. CASE N = 0
  BY <1>1, <1>3 DEF FlattenSeq
<1>4. CASE N > 0
  <2>1. FlattenSeq(ss) = flatten[N]
    BY <1>1, <1>4 DEF FlattenSeq
  <2>2. \E f : Rec(f, N)
    BY <1>1, <1>2, <1>4
  <2>3. Rec(flatten, N)
    <3>. HIDE DEF Rec
    <3>. QED
      BY <2>2
  <2>. HIDE DEF flatten
  <2>4. \A i \in 1 .. N : flatten[i] = IF i = 1 THEN ss[i] ELSE flatten[i - 1] \o ss[i]
    BY <2>3
  <2>. DEFINE right == {n \in Nat : n \in 1 .. N => flatten[n] \in Seq(S)}
  <2>5. 0 \in right
    OBVIOUS
  <2>6. ASSUME NEW n \in Nat, n \in right PROVE n + 1 \in right
    <3>1. CASE n + 1 \in 1 .. N /\ n > 0
      <4>1. n \in 1 .. N /\ (n + 1) - 1 = n
        BY <1>1, <3>1
      <4>2. flatten[n + 1] = flatten[n] \o ss[n + 1]
        <5>1. n + 1 # 1
          BY <4>1
        <5>. QED
          BY <2>4, <3>1, <4>1, <5>1, Zenon
      <4>3. flatten[n] \in Seq(S) /\ ss[n + 1] \in Seq(S)
        BY <1>1, <2>6, <3>1, <4>1
      <4>4. flatten[n + 1] \in Seq(S)
        BY <4>2, <4>3, Joined, Zenon
      <4>. QED
        BY <4>4
    <3>2. CASE n + 1 \in 1 .. N /\ n = 0
      BY <1>1, <2>4, <3>2
    <3>. QED
      BY <3>1, <3>2
  <2>. HIDE DEF right
  <2>7. N \in right
    BY <1>1, <2>5, <2>6, Upwards
  <2>. QED
    BY <1>1, <1>4, <2>1, <2>7 DEF right
<1>. QED
  BY <1>1, <1>3, <1>4

----------------------------------------------------------------------------
(* Complexes.                                                              *)

Tables(by_name, by_tag, diagrams, maps, indices) ==
    [by_name |-> by_name, by_tag |-> by_tag, diagrams |-> diagrams, maps |-> maps, indices |-> indices]

IsTables(c) ==
    /\ c = Tables(c.by_name, c.by_tag, c.diagrams, c.maps, c.indices)
    /\ IsSeq(c.by_name)
    /\ \A g \in Image(c.by_name) : IsSeq(g.name)

\* The tables of generators agree; `present` are the cells of the store.
Agrees(c, present) ==
    /\ DOMAIN c.by_tag = Image(GeneratorsOf(c))
    /\ \A g \in Image(c.by_name) : c.by_tag[g.tag] = g.name /\ Named(c, g.name) = {g} /\ g.tag \in present

\* A generator is of the complex, and then a diagram has its name, or of what
\* a map is of; the maps of `coming` are not entered yet.
Filed(c, coming) ==
    \A g \in Image(c.by_name) :
        /\ Len(g.name) = 1 => g.name \in DOMAIN c.diagrams
        /\ Len(g.name) > 1 => <<g.name[1]>> \in DOMAIN c.maps \cup coming

Sound(c, present, coming) == IsTables(c) /\ Agrees(c, present) /\ Filed(c, coming)

\* No generator has the name.
Free(c, name) == Named(c, name) = {}
NoRoot(c) == Free(c, <<>>)

LEMMA TagsOf == ASSUME NEW c PROVE Image(GeneratorsOf(c)) = {g.tag : g \in Image(c.by_name)}
  BY DEF Image, GeneratorsOf

Reindexed(c, by_name, by_tag) == [c EXCEPT !.by_name = by_name, !.by_tag = by_tag]

LEMMA BothIndices ==
    ASSUME NEW b, NEW t, NEW d, NEW m, NEW i, NEW x, NEW y, NEW c, c = Tables(b, t, d, m, i)
    PROVE  Reindexed(c, x, y) = Tables(x, y, d, m, i)
<1>. DEFINE e == [c EXCEPT !.by_name = x]
<1>1. e = Tables(x, t, d, m, i)
  BY DEF Tables
<1>2. Reindexed(c, x, y) = [e EXCEPT !.by_tag = y]
  BY DEF Reindexed
<1>. HIDE DEF e
<1>3. [e EXCEPT !.by_tag = y] = Tables(x, y, d, m, i)
  BY <1>1 DEF Tables
<1>. QED
  BY <1>2, <1>3

\* What is e with the generator.
WithGenerator(e, c, name, tag) ==
    /\ Image(e.by_name) = Image(c.by_name) \cup {Entry(name, tag)}
    /\ DOMAIN e.by_tag = DOMAIN c.by_tag \cup {tag}
    /\ e.diagrams = c.diagrams /\ e.maps = c.maps /\ e.indices = c.indices

LEMMA GeneratorAdded ==
    ASSUME NEW c, NEW present, IsTables(c), Agrees(c, present),
           NEW name, IsSeq(name), Free(c, name), NEW tag, tag \notin DOMAIN c.by_tag
    PROVE  LET d == add_generator(c, name, tag)
           IN  IsTables(d) /\ Agrees(d, present \cup {tag}) /\ WithGenerator(d, c, name, tag)
<1>. DEFINE d == add_generator(c, name, tag)
            new == Entry(name, tag)
<1>1. Entered(c, name, tag) = InsertAt(c.by_name,
          Cardinality({i \in DOMAIN c.by_name : Before(c.by_name[i].name, name)}) + 1, new)
  BY DEF Entered, Free
<1>2. IsSeq(Entered(c, name, tag)) /\ Image(Entered(c, name, tag)) = Image(c.by_name) \cup {new}
  <2>. DEFINE before == {i \in DOMAIN c.by_name : Before(c.by_name[i].name, name)}
              s == c.by_name
              p == Cardinality(before) + 1
  <2>1. before \subseteq DOMAIN s /\ IsSeq(s)
    BY DEF IsTables
  <2>2. Entered(c, name, tag) = InsertAt(s, p, new)
    BY <1>1
  <2>. HIDE DEF before, s, new
  <2>3. p \in 1 .. Len(s) + 1
    BY <2>1, PlaceIsIn
  <2>. HIDE DEF p
  <2>4. IsSeq(InsertAt(s, p, new)) /\ Image(InsertAt(s, p, new)) = Image(s) \cup {new}
    BY <2>1, <2>3, Inserted
  <2>. QED
    BY <2>2, <2>4 DEF s
<1>3. d = Tables(Entered(c, name, tag), With(c.by_tag, tag, name), c.diagrams, c.maps, c.indices)
  <2>1. c = Tables(c.by_name, c.by_tag, c.diagrams, c.maps, c.indices)
    BY DEF IsTables
  <2>. DEFINE x == Entered(c, name, tag)
              y == With(c.by_tag, tag, name)
  <2>2. d = Reindexed(c, x, y)
    BY DEF add_generator, Reindexed
  <2>. HIDE DEF x, y
  <2>3. Reindexed(c, x, y) = Tables(x, y, c.diagrams, c.maps, c.indices)
    BY <2>1, BothIndices
  <2>. QED
    BY <2>2, <2>3 DEF x, y
<1>. HIDE DEF d
<1>. USE DEF Tables
<1>4. Image(d.by_name) = Image(c.by_name) \cup {new} /\ IsSeq(d.by_name)
  BY <1>2, <1>3
<1>5. new.name = name /\ new.tag = tag
  BY DEF Entry
<1>6. IsTables(d)
  BY <1>3, <1>4, <1>5 DEF IsTables
<1>7. DOMAIN d.by_tag = DOMAIN c.by_tag \cup {tag} /\ d.by_tag[tag] = name
      /\ \A t \in DOMAIN c.by_tag : d.by_tag[t] = c.by_tag[t]
  BY <1>3 DEF With
<1>. HIDE DEF new
<1>8. DOMAIN d.by_tag = Image(GeneratorsOf(d))
  BY <1>4, <1>5, <1>7, TagsOf DEF Agrees
<1>9. ASSUME NEW g \in Image(d.by_name)
      PROVE  d.by_tag[g.tag] = g.name /\ Named(d, g.name) = {g} /\ g.tag \in present \cup {tag}
  <2>1. CASE g = new
    <3>1. Named(d, name) = {new}
      BY <1>4, <1>5 DEF Named, Free
    <3>. QED
      BY <1>5, <1>7, <2>1, <3>1
  <2>2. CASE g # new
    <3>1. g \in Image(c.by_name)
      BY <1>4, <2>2
    <3>2. g.tag \in DOMAIN c.by_tag /\ c.by_tag[g.tag] = g.name /\ Named(c, g.name) = {g} /\ g.tag \in present
      BY <3>1, TagsOf DEF Agrees
    <3>3. g.name # name
      BY <3>1 DEF Named, Free
    <3>4. Named(d, g.name) = {g}
      BY <1>4, <1>5, <3>1, <3>2, <3>3 DEF Named
    <3>. QED
      BY <1>7, <3>2, <3>4
  <2>. QED
    BY <2>1, <2>2
<1>10. Agrees(d, present \cup {tag})
  BY <1>8, <1>9 DEF Agrees
<1>11. d.diagrams = c.diagrams /\ d.maps = c.maps /\ d.indices = c.indices
  BY <1>3
<1>. QED
  BY <1>4, <1>6, <1>7, <1>10, <1>11 DEF d, new, WithGenerator

LEMMA OneAdded ==
    ASSUME NEW c, IsTables(c), NEW name, NEW value
    PROVE  /\ add_diagram(c, name, value)
                  = Tables(c.by_name, c.by_tag, With(c.diagrams, name, value), c.maps, c.indices)
           /\ add_map(c, name, value)
                  = Tables(c.by_name, c.by_tag, c.diagrams, With(c.maps, name, value), c.indices)
           /\ add_index(c, name, value)
                  = Tables(c.by_name, c.by_tag, c.diagrams, c.maps, With(c.indices, name, value))
<1>1. c = Tables(c.by_name, c.by_tag, c.diagrams, c.maps, c.indices)
  BY DEF IsTables
<1>. DEFINE x == With(c.diagrams, name, value)
            y == With(c.maps, name, value)
            z == With(c.indices, name, value)
<1>2. /\ add_diagram(c, name, value) = [c EXCEPT !.diagrams = x]
      /\ add_map(c, name, value) = [c EXCEPT !.maps = y]
      /\ add_index(c, name, value) = [c EXCEPT !.indices = z]
  BY DEF add_diagram, add_map, add_index
<1>. HIDE DEF x, y, z
<1>3. [c EXCEPT !.diagrams = x] = Tables(c.by_name, c.by_tag, x, c.maps, c.indices)
  BY <1>1 DEF Tables
<1>4. [c EXCEPT !.maps = y] = Tables(c.by_name, c.by_tag, c.diagrams, y, c.indices)
  BY <1>1 DEF Tables
<1>5. [c EXCEPT !.indices = z] = Tables(c.by_name, c.by_tag, c.diagrams, c.maps, z)
  BY <1>1 DEF Tables
<1>. QED
  BY <1>2, <1>3, <1>4, <1>5 DEF x, y, z

\* What is sound and gets more diagrams, maps or indices is sound.
LEMMA StaysSound ==
    ASSUME NEW c, NEW present, NEW coming, Sound(c, present, coming), NEW d, NEW more, present \subseteq more,
           NEW left, d = Tables(c.by_name, c.by_tag, d.diagrams, d.maps, d.indices),
           DOMAIN c.diagrams \subseteq DOMAIN d.diagrams, DOMAIN c.maps \cup coming \subseteq DOMAIN d.maps \cup left
    PROVE  Sound(d, more, left) /\ \A name : Named(d, name) = Named(c, name)
<1>1. d.by_name = c.by_name /\ d.by_tag = c.by_tag
  BY DEF Tables
<1>2. IsTables(d)
  BY <1>1 DEF IsTables, Sound
<1>3. \A name : Named(d, name) = Named(c, name)
  BY <1>1 DEF Named
<1>4. Agrees(d, more)
  BY <1>1, <1>3, TagsOf DEF Agrees, Sound
<1>5. Filed(d, left)
  BY <1>1 DEF Filed, Sound
<1>. QED
  BY <1>2, <1>3, <1>4, <1>5 DEF Sound

LEMMA BindingsAreSound ==
    ASSUME NEW c, NEW present, Sound(c, present, {}), NEW name, NEW value
    PROVE  /\ Sound(add_diagram(c, name, value), present, {})
           /\ Sound(add_map(c, name, value), present, {})
           /\ Sound(add_index(c, name, value), present, {})
           /\ \A n : /\ Named(add_diagram(c, name, value), n) = Named(c, n)
                    /\ Named(add_map(c, name, value), n) = Named(c, n)
                    /\ Named(add_index(c, name, value), n) = Named(c, n)
<1>. DEFINE d == add_diagram(c, name, value)
            m == add_map(c, name, value)
            i == add_index(c, name, value)
<1>1. /\ d = Tables(c.by_name, c.by_tag, With(c.diagrams, name, value), c.maps, c.indices)
      /\ m = Tables(c.by_name, c.by_tag, c.diagrams, With(c.maps, name, value), c.indices)
      /\ i = Tables(c.by_name, c.by_tag, c.diagrams, c.maps, With(c.indices, name, value))
  BY OneAdded DEF Sound
<1>. HIDE DEF d, m, i
<1>2. Sound(d, present, {}) /\ \A n : Named(d, n) = Named(c, n)
  <2>1. d.diagrams = With(c.diagrams, name, value) /\ d.maps = c.maps /\ d.indices = c.indices
    BY <1>1 DEF Tables
  <2>. QED
    BY <1>1, <2>1, StaysSound DEF With
<1>3. Sound(m, present, {}) /\ \A n : Named(m, n) = Named(c, n)
  <2>1. m.maps = With(c.maps, name, value) /\ m.diagrams = c.diagrams /\ m.indices = c.indices
    BY <1>1 DEF Tables
  <2>. QED
    BY <1>1, <2>1, StaysSound DEF With
<1>4. Sound(i, present, {}) /\ \A n : Named(i, n) = Named(c, n)
  <2>1. i.indices = With(c.indices, name, value) /\ i.maps = c.maps /\ i.diagrams = c.diagrams
    BY <1>1 DEF Tables
  <2>. QED
    BY <1>1, <2>1, StaysSound DEF With
<1>. QED
  BY <1>2, <1>3, <1>4 DEF d, m, i

----------------------------------------------------------------------------
(* What is included.                                                       *)

IsPart(P) == IsSeq(P) /\ Len(P) = 1

\* A name that is qualified tells of what, and of which name.
LEMMA Qualified ==
    ASSUME NEW P, IsPart(P), NEW m, IsSeq(m)
    PROVE  LET q == qualify_name(P, m)
           IN  /\ IsSeq(q) /\ Len(q) = Len(m) + 1 /\ <<q[1]>> = P
               /\ Len(q) = 1 => q = P
               /\ \A i \in 1 .. Len(m) : q[i + 1] = m[i]
<1>. DEFINE q == qualify_name(P, m)
            S == Image(P) \cup Image(m)
<1>1. P \in Seq(S) /\ m \in Seq(S) /\ Len(P) = 1 /\ Len(m) \in Nat
  BY DEF IsPart, IsSeq
<1>2. q = P \o m
  BY DEF qualify_name
<1>. HIDE DEF q, S
<1>3. q \in Seq(S) /\ Len(q) = 1 + Len(m)
      /\ \A i \in 1 .. 1 + Len(m) : q[i] = IF i =< 1 THEN P[i] ELSE m[i - 1]
  BY <1>1, <1>2, Joined
<1>4. q[1] = P[1]
  BY <1>1, <1>3
<1>5. P = <<P[1]>>
  BY <1>1
<1>6. IsSeq(q)
  BY <1>3, SeqIs
<1>7. Len(q) = 1 => q = <<q[1]>>
  BY <1>3
<1>8. ASSUME NEW i \in 1 .. Len(m) PROVE q[i + 1] = m[i]
  <2>1. i + 1 \in 1 .. 1 + Len(m) /\ ~(i + 1 =< 1) /\ (i + 1) - 1 = i
    BY <1>1
  <2>. QED
    BY <1>3, <2>1
<1>. QED
  BY <1>1, <1>3, <1>4, <1>5, <1>6, <1>7, <1>8 DEF q

LEMMA QualifiedApart ==
    ASSUME NEW P, IsPart(P), NEW m, IsSeq(m), NEW n, IsSeq(n), qualify_name(P, m) = qualify_name(P, n)
    PROVE  m = n
<1>1. Len(m) \in Nat /\ Len(n) \in Nat /\ m \in Seq(Image(m)) /\ n \in Seq(Image(n))
  BY DEF IsSeq
<1>2. /\ Len(qualify_name(P, m)) = Len(m) + 1 /\ \A i \in 1 .. Len(m) : qualify_name(P, m)[i + 1] = m[i]
      /\ Len(qualify_name(P, n)) = Len(n) + 1 /\ \A i \in 1 .. Len(n) : qualify_name(P, n)[i + 1] = n[i]
  BY Qualified
<1>3. Len(m) = Len(n)
  BY <1>1, <1>2
<1>4. \A i \in 1 .. Len(m) : m[i] = n[i]
  BY <1>2, <1>3
<1>. QED
  BY <1>1, <1>3, <1>4
\* f is the complexes after as many insertions, up to n.
Inserting(c, gs, f, n) ==
    f = [i \in 0 .. n |-> IF i = 0 THEN c ELSE InsertByTag(f[i - 1], gs[i])]

LEMMA InsertedRuns == ASSUME NEW c, NEW gs, NEW k \in Nat PROVE \E f : Inserting(c, gs, f, k)
<1>. DEFINE made == {n \in Nat : \E f : Inserting(c, gs, f, n)}
<1>1. 0 \in made
  <2>. DEFINE g == [i \in 0 .. 0 |-> c]
  <2>1. Inserting(c, gs, g, 0)
    BY DEF Inserting
  <2>. HIDE DEF g
  <2>. QED
    BY <2>1
<1>2. ASSUME NEW n \in Nat, n \in made PROVE n + 1 \in made
  <2>1. PICK f : Inserting(c, gs, f, n)
    BY <1>2
  <2>. DEFINE v == InsertByTag(f[n], gs[n + 1])
              g == OneMore(f, n, v)
  <2>2. DOMAIN f = 0 .. n /\ \A i \in 0 .. n : f[i] = IF i = 0 THEN c ELSE InsertByTag(f[i - 1], gs[i])
    BY <2>1 DEF Inserting
  <2>. HIDE DEF v
  <2>3. /\ g = [i \in 0 .. n + 1 |-> g[i]] /\ g[n + 1] = v /\ g[n] = f[n] /\ \A i \in 0 .. n : g[i] = f[i]
        /\ \A i \in 1 .. n : g[i - 1] = f[i - 1]
    BY <2>2, OneMoreIs
  <2>. HIDE DEF g
  <2>4. ASSUME NEW i \in 0 .. n + 1 PROVE g[i] = IF i = 0 THEN c ELSE InsertByTag(g[i - 1], gs[i])
    <3>1. CASE i = 0
      <4>1. 0 \in 0 .. n
        OBVIOUS
      <4>2. g[0] = f[0]
        BY <2>3, <4>1
      <4>3. f[0] = c
        BY <2>2, <4>1
      <4>. QED
        BY <3>1, <4>2, <4>3
    <3>2. CASE i \in 1 .. n
      <4>1. i # 0 /\ i \in 0 .. n
        BY <3>2
      <4>2. g[i] = f[i] /\ g[i - 1] = f[i - 1]
        BY <2>3, <3>2, <4>1
      <4>. QED
        BY <2>2, <4>1, <4>2
    <3>3. CASE i = n + 1
      <4>1. i # 0 /\ i - 1 = n
        BY <3>3
      <4>. QED
        BY <2>3, <3>3, <4>1 DEF v
    <3>. QED
      BY <3>1, <3>2, <3>3
  <2>5. Inserting(c, gs, g, n + 1)
    BY <2>3, <2>4 DEF Inserting
  <2>. QED
    BY <2>5
<1>. HIDE DEF made
<1>3. k \in made
  BY <1>1, <1>2, Upwards
<1>. QED
  BY <1>3 DEF made

Prefixed(c, P, skip) ==
    {Entry(qualify_name(P, g.name), g.tag) : g \in {g \in Image(c.by_name) : skip => g.name # <<>>}}

LEMMA PrefixedAre ==
    ASSUME NEW c, IsTables(c), NEW P, NEW skip \in BOOLEAN
    PROVE  prefixed_generators(c, P, skip) \in Seq(Prefixed(c, P, skip))
<1>. DEFINE S == Prefixed(c, P, skip)
            parts == [i \in DOMAIN c.by_name |->
                         IF skip /\ c.by_name[i].name = <<>> THEN <<>>
                         ELSE <<Entry(qualify_name(P, c.by_name[i].name), c.by_name[i].tag)>>]
<1>1. DOMAIN c.by_name = 1 .. Len(c.by_name) /\ Len(c.by_name) \in Nat
  BY DEF IsTables, IsSeq
<1>2. ASSUME NEW i \in DOMAIN c.by_name PROVE parts[i] \in Seq(S)
  <2>. DEFINE g == c.by_name[i]
              e == Entry(qualify_name(P, g.name), g.tag)
  <2>1. g \in Image(c.by_name)
    BY DEF Image
  <2>2. CASE skip /\ g.name = <<>>
    <3>1. parts[i] = <<>>
      BY <2>2
    <3>. HIDE DEF S
    <3>. QED
      BY <3>1
  <2>3. CASE ~(skip /\ g.name = <<>>)
    <3>1. e \in S
      <4>. HIDE DEF g
      <4>. QED
        BY <2>1, <2>3 DEF Prefixed
    <3>2. parts[i] = <<e>>
      BY <2>3
    <3>. HIDE DEF e, S
    <3>. QED
      BY <3>1, <3>2
  <2>. QED
    BY <2>2, <2>3
<1>3. parts = [i \in 1 .. Len(c.by_name) |-> parts[i]]
  BY <1>1
<1>4. prefixed_generators(c, P, skip) = FlattenSeq(parts)
  BY DEF prefixed_generators
<1>. HIDE DEF parts, S
<1>5. parts \in Seq(Seq(S))
  <2>. DEFINE N == Len(c.by_name)
              T == Seq(S)
  <2>1. N \in Nat /\ parts = [i \in 1 .. N |-> parts[i]] /\ \A i \in 1 .. N : parts[i] \in T
    BY <1>1, <1>2, <1>3
  <2>. HIDE DEF N, T
  <2>2. parts \in [1 .. N -> T]
    BY <2>1
  <2>3. parts \in Seq(T)
    BY <2>1, <2>2
  <2>. QED
    BY <2>3 DEF T
<1>. QED
  BY <1>4, <1>5, Flattened DEF S

\* A name that is free is free for what it qualifies.
LEMMA QualifiedFree ==
    ASSUME NEW c, Filed(c, {}), NEW P, IsPart(P), ~name_in_use(c, P), NEW m, IsSeq(m)
    PROVE  Free(c, qualify_name(P, m))
<1>. DEFINE q == qualify_name(P, m)
<1>1. /\ Len(q) = Len(m) + 1 /\ <<q[1]>> = P
      /\ Len(q) = 1 => q = P
  BY Qualified
<1>2. Len(m) \in Nat
  BY DEF IsSeq
<1>. HIDE DEF q
<1>3. SUFFICES ASSUME NEW h \in Image(c.by_name), h.name = q PROVE FALSE
  BY DEF Free, Named, q
<1>4. P \notin DOMAIN c.diagrams /\ P \notin DOMAIN c.maps
  BY DEF name_in_use
<1>5. CASE Len(q) = 1
  BY <1>1, <1>3, <1>4, <1>5 DEF Filed
<1>6. CASE Len(q) > 1
  BY <1>1, <1>3, <1>4, <1>6 DEF Filed
<1>. QED
  BY <1>1, <1>2, <1>5, <1>6

LEMMA QualifiedAdded ==
    ASSUME NEW d, NEW present, NEW P, Sound(d, present, {P}), IsPart(P), NEW m, IsSeq(m), m # <<>>,
           Free(d, qualify_name(P, m)), NEW tag, tag \notin DOMAIN d.by_tag
    PROVE  LET e == add_generator(d, qualify_name(P, m), tag)
           IN  Sound(e, present \cup {tag}, {P}) /\ WithGenerator(e, d, qualify_name(P, m), tag)
<1>. DEFINE q == qualify_name(P, m)
            e == add_generator(d, q, tag)
<1>1. IsSeq(q) /\ Len(q) > 1 /\ <<q[1]>> = P
  <2>1. Len(m) \in Nat /\ Len(m) # 0
    BY DEF IsSeq
  <2>. QED
    BY <2>1, Qualified
<1>2. Free(d, q) /\ IsTables(d) /\ Agrees(d, present)
  BY DEF Sound
<1>. HIDE DEF q
<1>3. IsTables(e) /\ Agrees(e, present \cup {tag}) /\ WithGenerator(e, d, q, tag)
  BY <1>1, <1>2, GeneratorAdded
<1>. HIDE DEF e
<1>4. Filed(e, {P})
  <2>1. Filed(d, {P})
    BY DEF Sound
  <2>2. Entry(q, tag).name = q
    BY DEF Entry
  <2>3. ASSUME NEW g \in Image(e.by_name)
        PROVE  /\ Len(g.name) = 1 => g.name \in DOMAIN e.diagrams
               /\ Len(g.name) > 1 => <<g.name[1]>> \in DOMAIN e.maps \cup {P}
    <3>1. CASE g \in Image(d.by_name)
      BY <1>3, <2>1, <3>1 DEF Filed, WithGenerator
    <3>2. CASE g = Entry(q, tag)
      BY <1>1, <2>2, <3>2
    <3>. QED
      BY <1>3, <3>1, <3>2 DEF WithGenerator
  <2>. QED
    BY <2>3 DEF Filed
<1>. QED
  BY <1>3, <1>4 DEF Sound, e, q

SameRoot(d, c) == Named(d, <<>>) = Named(c, <<>>)

\* What is included comes whole, under names of its own.
LEMMA Insertions ==
    ASSUME NEW c, NEW present, Sound(c, present, {}), NEW P, IsPart(P), ~name_in_use(c, P),
           NEW source, Sound(source, present, {}), NEW skip \in BOOLEAN, skip \/ NoRoot(source), NEW f
    PROVE  LET d == add_map(insert_generators_by_tag(c, prefixed_generators(source, P, skip)), P, f)
           IN  Sound(d, present, {}) /\ SameRoot(d, c)
<1>. DEFINE gs == prefixed_generators(source, P, skip)
            S == Prefixed(source, P, skip)
            N == Len(gs)
            inserted == CHOOSE h : Inserting(c, gs, h, N)
            So(d) == /\ Sound(d, present, {P})
                     /\ d.diagrams = c.diagrams /\ d.maps = c.maps /\ d.indices = c.indices
                     /\ Image(c.by_name) \subseteq Image(d.by_name)
                     /\ Image(d.by_name) \subseteq Image(c.by_name) \cup S
<1>1. gs \in Seq(S)
  BY PrefixedAre DEF Sound
<1>2. insert_generators_by_tag(c, gs) = inserted[N]
  BY DEF insert_generators_by_tag, Inserting
<1>. HIDE DEF gs, S
<1>3. N \in Nat /\ \A n \in 1 .. N : gs[n] \in S
  BY <1>1
<1>. HIDE DEF N
<1>4. Inserting(c, gs, inserted, N)
  BY <1>3, InsertedRuns
<1>. HIDE DEF inserted
<1>5. inserted[0] = c /\ \A n \in 1 .. N : inserted[n] = InsertByTag(inserted[n - 1], gs[n])
  BY <1>3, <1>4 DEF Inserting
<1>6. So(c)
  BY DEF Sound, Filed
<1>7. ASSUME NEW d, So(d), NEW g \in S PROVE So(InsertByTag(d, g))
  <2>1. CASE g.tag \in DOMAIN d.by_tag
    BY <1>7, <2>1 DEF InsertByTag
  <2>2. CASE g.tag \notin DOMAIN d.by_tag
    <3>1. PICK s \in Image(source.by_name) : g = Entry(qualify_name(P, s.name), s.tag) /\ (skip => s.name # <<>>)
      BY <1>7 DEF S, Prefixed
    <3>2. g.name = qualify_name(P, s.name) /\ g.tag = s.tag
      BY <3>1 DEF Entry
    <3>3. IsSeq(s.name) /\ s.name # <<>> /\ s.tag \in present
      BY <3>1 DEF Sound, IsTables, Agrees, NoRoot, Free, Named
    <3>4. ASSUME NEW h \in Image(d.by_name), h.name = g.name PROVE FALSE
      <4>1. CASE h \in Image(c.by_name)
        <5>1. Free(c, g.name)
          BY <3>2, <3>3, QualifiedFree DEF Sound
        <5>. QED
          BY <3>4, <4>1, <5>1 DEF Free, Named
      <4>2. CASE h \in S
        <5>1. PICK r \in Image(source.by_name) : h = Entry(qualify_name(P, r.name), r.tag)
          BY <4>2 DEF S, Prefixed
        <5>2. h.name = qualify_name(P, r.name) /\ h.tag = r.tag
          BY <5>1 DEF Entry
        <5>3. IsSeq(r.name)
          BY DEF Sound, IsTables
        <5>4. r.name = s.name
          BY <3>2, <3>3, <3>4, <5>2, <5>3, QualifiedApart
        <5>5. r = s
          BY <5>4 DEF Sound, Agrees, Named
        <5>6. h.tag \in DOMAIN d.by_tag
          BY <1>7, TagsOf DEF Sound, Agrees
        <5>. QED
          BY <2>2, <3>2, <5>2, <5>5, <5>6
      <4>. QED
        BY <1>7, <4>1, <4>2
    <3>5. Free(d, qualify_name(P, s.name))
      BY <3>2, <3>4 DEF Free, Named
    <3>. DEFINE e == add_generator(d, qualify_name(P, s.name), s.tag)
    <3>6. InsertByTag(d, g) = e
      BY <2>2, <3>2 DEF InsertByTag
    <3>7. Sound(e, present \cup {s.tag}, {P}) /\ WithGenerator(e, d, qualify_name(P, s.name), s.tag)
      <4>1. Sound(d, present, {P}) /\ s.tag \notin DOMAIN d.by_tag
        BY <1>7, <2>2, <3>2
      <4>. QED
        BY <3>3, <3>5, <4>1, QualifiedAdded
    <3>8. present \cup {s.tag} = present
      BY <3>3
    <3>. HIDE DEF e
    <3>. QED
      BY <1>7, <3>1, <3>6, <3>7, <3>8 DEF WithGenerator
  <2>. QED
    BY <2>1, <2>2
<1>. HIDE DEF So
<1>. DEFINE good == {n \in Nat : n \in 0 .. N => So(inserted[n])}
<1>8. 0 \in good
  BY <1>5, <1>6
<1>9. ASSUME NEW n \in Nat, n \in good PROVE n + 1 \in good
  <2>1. SUFFICES ASSUME n + 1 \in 0 .. N PROVE So(inserted[n + 1])
    OBVIOUS
  <2>2. n + 1 \in 1 .. N /\ n \in 0 .. N /\ (n + 1) - 1 = n
    BY <1>3, <2>1
  <2>3. inserted[n + 1] = InsertByTag(inserted[n], gs[n + 1])
    BY <1>5, <2>2
  <2>4. So(inserted[n]) /\ gs[n + 1] \in S
    BY <1>3, <1>9, <2>2
  <2>. QED
    BY <1>7, <2>3, <2>4
<1>. HIDE DEF good
<1>10. N \in good
  BY <1>3, <1>8, <1>9, Upwards
<1>11. So(inserted[N])
  BY <1>3, <1>10 DEF good
<1>. DEFINE i == inserted[N]
            d == add_map(i, P, f)
<1>12. So(i)
  BY <1>11
<1>. HIDE DEF i
<1>13. d = Tables(i.by_name, i.by_tag, i.diagrams, With(i.maps, P, f), i.indices)
  BY <1>12, OneAdded DEF So, Sound
<1>. HIDE DEF d
<1>14. Sound(d, present, {}) /\ \A n : Named(d, n) = Named(i, n)
  <2>1. d.diagrams = i.diagrams /\ d.maps = With(i.maps, P, f) /\ d.indices = i.indices
    BY <1>13 DEF Tables
  <2>2. DOMAIN i.maps \cup {P} \subseteq DOMAIN d.maps \cup {}
    BY <2>1 DEF With
  <2>. QED
    BY <1>12, <1>13, <2>1, <2>2, StaysSound DEF So
<1>15. Named(i, <<>>) = Named(c, <<>>)
  <2>1. ASSUME NEW g \in S PROVE g.name # <<>>
    <3>1. PICK s \in Image(source.by_name) : g = Entry(qualify_name(P, s.name), s.tag)
      BY <2>1 DEF S, Prefixed
    <3>2. IsSeq(s.name)
      BY DEF Sound, IsTables
    <3>3. g.name = qualify_name(P, s.name)
      BY <3>1 DEF Entry
    <3>4. Len(qualify_name(P, s.name)) = Len(s.name) + 1 /\ Len(s.name) \in Nat
      BY <3>2, Qualified DEF IsSeq
    <3>. QED
      BY <3>3, <3>4
  <2>. QED
    BY <1>12, <2>1 DEF So, Named
<1>. QED
  BY <1>2, <1>14, <1>15 DEF d, i, gs, SameRoot

----------------------------------------------------------------------------
(* What is attached.                                                       *)

\* f is the tags in order, up to n.
Sorting(tags, f, n) ==
    f = [i \in 0 .. n |-> IF i = 0 THEN <<>> ELSE InOrder(f[i - 1], tags[i])]

LEMMA SortedRuns == ASSUME NEW tags, NEW k \in Nat PROVE \E f : Sorting(tags, f, k)
<1>. DEFINE made == {n \in Nat : \E f : Sorting(tags, f, n)}
<1>1. 0 \in made
  <2>. DEFINE g == [i \in 0 .. 0 |-> <<>>]
  <2>1. Sorting(tags, g, 0)
    BY DEF Sorting
  <2>. HIDE DEF g
  <2>. QED
    BY <2>1
<1>2. ASSUME NEW n \in Nat, n \in made PROVE n + 1 \in made
  <2>1. PICK f : Sorting(tags, f, n)
    BY <1>2
  <2>. DEFINE v == InOrder(f[n], tags[n + 1])
              g == OneMore(f, n, v)
  <2>2. DOMAIN f = 0 .. n /\ \A i \in 0 .. n : f[i] = IF i = 0 THEN <<>> ELSE InOrder(f[i - 1], tags[i])
    BY <2>1 DEF Sorting
  <2>. HIDE DEF v
  <2>3. /\ g = [i \in 0 .. n + 1 |-> g[i]] /\ g[n + 1] = v /\ g[n] = f[n] /\ \A i \in 0 .. n : g[i] = f[i]
        /\ \A i \in 1 .. n : g[i - 1] = f[i - 1]
    BY <2>2, OneMoreIs
  <2>. HIDE DEF g
  <2>4. ASSUME NEW i \in 0 .. n + 1 PROVE g[i] = IF i = 0 THEN <<>> ELSE InOrder(g[i - 1], tags[i])
    <3>1. CASE i = 0
      <4>1. 0 \in 0 .. n
        OBVIOUS
      <4>2. g[0] = f[0]
        BY <2>3, <4>1
      <4>3. f[0] = <<>>
        BY <2>2, <4>1
      <4>. QED
        BY <3>1, <4>2, <4>3
    <3>2. CASE i \in 1 .. n
      <4>1. i # 0 /\ i \in 0 .. n
        BY <3>2
      <4>2. g[i] = f[i] /\ g[i - 1] = f[i - 1]
        BY <2>3, <3>2, <4>1
      <4>. QED
        BY <2>2, <4>1, <4>2
    <3>3. CASE i = n + 1
      <4>1. i # 0 /\ i - 1 = n
        BY <3>3
      <4>. QED
        BY <2>3, <3>3, <4>1 DEF v
    <3>. QED
      BY <3>1, <3>2, <3>3
  <2>5. Sorting(tags, g, n + 1)
    BY <2>3, <2>4 DEF Sorting
  <2>. QED
    BY <2>5
<1>. HIDE DEF made
<1>3. k \in made
  BY <1>1, <1>2, Upwards
<1>. QED
  BY <1>3 DEF made

LEMMA SortedAre ==
    ASSUME NEW c, IsTables(c)
    PROVE  IsSeq(sorted_generators(c)) /\ Image(sorted_generators(c)) \subseteq Image(GeneratorsOf(c))
<1>. DEFINE tags == GeneratorsOf(c)
            N == Len(tags)
            sorted == CHOOSE h : Sorting(tags, h, N)
            S == Image(tags)
            So(s) == IsSeq(s) /\ Image(s) \subseteq S
<1>1. sorted_generators(c) = sorted[N]
  BY DEF sorted_generators, Sorting
<1>2. N \in Nat /\ \A n \in 1 .. N : tags[n] \in S
  <2>1. DOMAIN c.by_name = 1 .. Len(c.by_name) /\ Len(c.by_name) \in Nat
    BY DEF IsTables, IsSeq
  <2>2. tags = [i \in 1 .. Len(c.by_name) |-> c.by_name[i].tag]
    BY <2>1 DEF GeneratorsOf
  <2>. HIDE DEF tags
  <2>3. N = Len(c.by_name)
    BY <2>1, <2>2
  <2>. QED
    BY <2>1, <2>2, <2>3 DEF Image
<1>. HIDE DEF tags, N, S
<1>3. Sorting(tags, sorted, N)
  BY <1>2, SortedRuns
<1>. HIDE DEF sorted
<1>4. sorted[0] = <<>> /\ \A n \in 1 .. N : sorted[n] = InOrder(sorted[n - 1], tags[n])
  BY <1>2, <1>3 DEF Sorting
<1>5. So(<<>>)
  BY DEF IsSeq, Image
<1>6. ASSUME NEW s, So(s), NEW tag \in S PROVE So(InOrder(s, tag))
  <2>. DEFINE T == {i \in DOMAIN s : dim_of(s[i]) =< dim_of(tag)}
              k == Cardinality(T) + 1
  <2>1. T \subseteq DOMAIN s
    OBVIOUS
  <2>2. InOrder(s, tag) = InsertAt(s, k, tag)
    BY DEF InOrder
  <2>. HIDE DEF T
  <2>3. k \in 1 .. Len(s) + 1
    BY <1>6, <2>1, PlaceIsIn
  <2>. HIDE DEF k
  <2>4. IsSeq(InsertAt(s, k, tag)) /\ Image(InsertAt(s, k, tag)) = Image(s) \cup {tag}
    BY <1>6, <2>3, Inserted
  <2>. QED
    BY <1>6, <2>2, <2>4
<1>. HIDE DEF So
<1>. DEFINE good == {n \in Nat : n \in 0 .. N => So(sorted[n])}
<1>7. 0 \in good
  BY <1>4, <1>5
<1>8. ASSUME NEW n \in Nat, n \in good PROVE n + 1 \in good
  <2>1. SUFFICES ASSUME n + 1 \in 0 .. N PROVE So(sorted[n + 1])
    OBVIOUS
  <2>2. n + 1 \in 1 .. N /\ n \in 0 .. N /\ (n + 1) - 1 = n
    BY <1>2, <2>1
  <2>3. sorted[n + 1] = InOrder(sorted[n], tags[n + 1])
    BY <1>4, <2>2
  <2>4. So(sorted[n]) /\ tags[n + 1] \in S
    BY <1>2, <1>8, <2>2
  <2>. QED
    BY <1>6, <2>3, <2>4
<1>. HIDE DEF good
<1>9. N \in good
  BY <1>2, <1>7, <1>8, Upwards
<1>10. So(sorted[N])
  BY <1>2, <1>9 DEF good
<1>. QED
  BY <1>1, <1>10 DEF So, S, tags

Fields == {"scope", "map", "prefix", "names", "next", "data", "classifiers", "failed"}
IsAttachment(acc) == acc = [k \in Fields |-> acc[k]]

Recorded(acc, next, data) == [acc EXCEPT !.next = next, !.data = data]
Entering(acc, c, classifiers, map) == [acc EXCEPT !.scope = c, !.classifiers = classifiers, !.map = map]
Stopped(acc) == [acc EXCEPT !.failed = TRUE]

LEMMA RecordedIs ==
    ASSUME NEW acc, IsAttachment(acc), NEW x, NEW y
    PROVE  LET r == Recorded(acc, x, y)
           IN  /\ IsAttachment(r) /\ r.scope = acc.scope /\ r.map = acc.map /\ r.prefix = acc.prefix
               /\ r.names = acc.names /\ r.next = x /\ r.data = y /\ r.classifiers = acc.classifiers
  BY DEF IsAttachment, Recorded, Fields

LEMMA EnteringIs ==
    ASSUME NEW acc, IsAttachment(acc), NEW x, NEW y, NEW z
    PROVE  LET r == Entering(acc, x, y, z)
           IN  /\ IsAttachment(r) /\ r.scope = x /\ r.map = z /\ r.prefix = acc.prefix
               /\ r.names = acc.names /\ r.next = acc.next /\ r.data = acc.data /\ r.classifiers = y
  BY DEF IsAttachment, Entering, Fields

LEMMA StoppedIs ==
    ASSUME NEW acc, IsAttachment(acc)
    PROVE  LET r == Stopped(acc)
           IN  /\ IsAttachment(r) /\ r.scope = acc.scope /\ r.map = acc.map /\ r.prefix = acc.prefix
               /\ r.names = acc.names /\ r.next = acc.next /\ r.data = acc.data /\ r.classifiers = acc.classifiers
  BY DEF IsAttachment, Stopped, Fields

\* Each tag has a name of its own, and none is that of a root.
AreNames(names) ==
    \A tag \in DOMAIN names : /\ IsSeq(names[tag]) /\ names[tag] # <<>>
                             /\ \A other \in DOMAIN names : names[other] = names[tag] => other = tag

LEMMA NamesOf == ASSUME NEW c, NEW present, Sound(c, present, {}), NoRoot(c) PROVE AreNames(c.by_tag)
<1>1. ASSUME NEW tag \in DOMAIN c.by_tag
      PROVE  \E g \in Image(c.by_name) : g.tag = tag /\ c.by_tag[tag] = g.name /\ Named(c, g.name) = {g}
  BY TagsOf DEF Sound, Agrees
<1>2. \A g \in Image(c.by_name) : IsSeq(g.name) /\ g.name # <<>>
  BY DEF Sound, IsTables, NoRoot, Free, Named
<1>3. ASSUME NEW tag \in DOMAIN c.by_tag, NEW other \in DOMAIN c.by_tag, c.by_tag[other] = c.by_tag[tag]
      PROVE  other = tag
  <2>1. PICK g \in Image(c.by_name) : g.tag = tag /\ c.by_tag[tag] = g.name /\ Named(c, g.name) = {g}
    BY <1>1
  <2>2. PICK h \in Image(c.by_name) : h.tag = other /\ c.by_tag[other] = h.name
    BY <1>1, <1>3
  <2>3. h \in Named(c, g.name)
    BY <1>3, <2>1, <2>2 DEF Named
  <2>. QED
    BY <2>1, <2>2, <2>3
<1>. QED
  BY <1>1, <1>2, <1>3 DEF AreNames

\* What was attached to c so far: the cells from n on, each under the name of
\* what it is the image of.
SoFar(acc, c, present, P, names, n) ==
    /\ IsAttachment(acc) /\ acc.prefix = P /\ acc.names = names
    /\ acc.next \in Nat /\ n =< acc.next
    /\ DOMAIN acc.data \subseteq n .. acc.next - 1 /\ DOMAIN acc.classifiers \subseteq DOMAIN acc.data
    /\ Sound(acc.scope, present \cup DOMAIN acc.classifiers, {P})
    /\ Image(c.by_name) \subseteq Image(acc.scope.by_name)
    /\ \A g \in Image(acc.scope.by_name) :
           \/ g \in Image(c.by_name)
           \/ \E tag \in DOMAIN names : tag \in DOMAIN acc.map.table /\ g.name = qualify_name(P, names[tag])

LEMMA CopyAdded ==
    ASSUME NEW c, NEW n \in Nat, NEW present, present \subseteq 0 .. n - 1, Sound(c, present, {}),
           NEW P, IsPart(P), ~name_in_use(c, P), NEW names, AreNames(names),
           NEW acc, SoFar(acc, c, present, P, names, n), NEW tag \in DOMAIN names,
           tag \notin DOMAIN acc.map.table, NEW data, NEW copy
    PROVE  SoFar(AddCopy(acc, tag, data, copy), c, present, P, names, n)
<1>. DEFINE r == Recorded(acc, acc.next + 1, With(acc.data, acc.next, data))
            m == names[tag]
            scoped == add_generator(acc.scope, qualify_name(P, m), acc.next)
            made == With(acc.classifiers, acc.next, copy)
            map == [table |-> With(acc.map.table, tag, copy), cellular |-> acc.map.cellular]
            e == Entering(r, scoped, made, map)
<1>1. IsAttachment(acc) /\ acc.prefix = P /\ acc.names = names /\ acc.next \in Nat /\ n =< acc.next
  BY DEF SoFar
<1>2. /\ IsAttachment(r) /\ r.scope = acc.scope /\ r.map = acc.map /\ r.prefix = P
      /\ r.names = names /\ r.next = acc.next + 1 /\ r.data = With(acc.data, acc.next, data)
      /\ r.classifiers = acc.classifiers
  BY <1>1, RecordedIs
<1>3. AddCopy(acc, tag, data, copy) = IF copy = Failed THEN Stopped(r) ELSE e
  <2>1. [acc EXCEPT !.next = @ + 1, !.data = With(@, acc.next, data)] = r
    BY DEF Recorded
  <2>2. r.scope = acc.scope /\ r.map = acc.map /\ r.classifiers = acc.classifiers
    BY <1>2
  <2>. DEFINE recorded == [acc EXCEPT !.next = @ + 1, !.data = With(@, acc.next, data)]
  <2>3. AddCopy(acc, tag, data, copy)
            = IF copy = Failed THEN [recorded EXCEPT !.failed = TRUE]
              ELSE [recorded EXCEPT
                       !.scope = add_generator(recorded.scope, qualify_name(acc.prefix, acc.names[tag]), acc.next),
                       !.classifiers = With(recorded.classifiers, acc.next, copy),
                       !.map = [table |-> With(recorded.map.table, tag, copy), cellular |-> recorded.map.cellular]]
    BY DEF AddCopy
  <2>4. recorded = r
    BY <2>1
  <2>. HIDE DEF recorded, r
  <2>. QED
    BY <1>1, <2>2, <2>3, <2>4 DEF Stopped, Entering
<1>. HIDE DEF r
<1>4. DOMAIN r.data \subseteq n .. r.next - 1 /\ acc.next \in DOMAIN r.data /\ DOMAIN acc.data \subseteq DOMAIN r.data
      /\ r.next \in Nat /\ n =< r.next
  <2>1. DOMAIN r.data = DOMAIN acc.data \cup {acc.next}
    BY <1>2 DEF With
  <2>2. DOMAIN acc.data \subseteq n .. acc.next - 1
    BY DEF SoFar
  <2>3. n .. acc.next - 1 \subseteq n .. r.next - 1 /\ acc.next \in n .. r.next - 1
    BY <1>1, <1>2
  <2>. QED
    BY <1>1, <1>2, <2>1, <2>2, <2>3
<1>5. CASE copy = Failed
  <2>. DEFINE s == Stopped(r)
  <2>1. /\ IsAttachment(s) /\ s.scope = r.scope /\ s.map = r.map /\ s.prefix = P
        /\ s.names = names /\ s.next = r.next /\ s.data = r.data /\ s.classifiers = r.classifiers
    BY <1>2, StoppedIs
  <2>2. AddCopy(acc, tag, data, copy) = s
    BY <1>3, <1>5
  <2>. HIDE DEF s
  <2>3. SoFar(s, c, present, P, names, n)
    BY <1>2, <1>4, <2>1 DEF SoFar
  <2>. QED
    BY <2>2, <2>3
<1>6. CASE copy # Failed
  <2>. DEFINE D == present \cup DOMAIN acc.classifiers
  <2>1. /\ IsAttachment(e) /\ e.scope = scoped /\ e.map = map /\ e.prefix = P
        /\ e.names = names /\ e.next = r.next /\ e.data = r.data /\ e.classifiers = made
    <3>. HIDE DEF scoped, made, map
    <3>. QED
      BY <1>2, EnteringIs
  <2>2. map.table = With(acc.map.table, tag, copy)
    OBVIOUS
  <2>3. DOMAIN e.map.table = DOMAIN acc.map.table \cup {tag} /\ DOMAIN e.classifiers = DOMAIN acc.classifiers \cup {acc.next}
    BY <2>1, <2>2 DEF With
  <2>4. AddCopy(acc, tag, data, copy) = e
    BY <1>3, <1>6
  <2>. HIDE DEF e, made, map
  <2>5. IsSeq(m) /\ m # <<>> /\ \A other \in DOMAIN names : names[other] = m => other = tag
    BY DEF AreNames
  <2>6. Sound(acc.scope, D, {P})
    BY DEF SoFar
  <2>7. acc.next \notin DOMAIN acc.scope.by_tag
    <3>1. DOMAIN acc.scope.by_tag \subseteq D
      BY <2>6, TagsOf DEF Sound, Agrees
    <3>2. acc.next \notin present
      BY <1>1
    <3>3. DOMAIN acc.classifiers \subseteq n .. acc.next - 1
      BY DEF SoFar
    <3>4. acc.next \notin n .. acc.next - 1
      BY <1>1
    <3>. QED
      BY <3>1, <3>2, <3>3, <3>4
  <2>8. ASSUME NEW g \in Image(acc.scope.by_name), g.name = qualify_name(P, m) PROVE FALSE
    <3>1. CASE g \in Image(c.by_name)
      <4>1. Free(c, g.name)
        BY <2>5, <2>8, QualifiedFree DEF Sound
      <4>. QED
        BY <3>1, <4>1 DEF Free, Named
    <3>2. ASSUME NEW other \in DOMAIN names, other \in DOMAIN acc.map.table, g.name = qualify_name(P, names[other])
          PROVE  FALSE
      <4>1. IsSeq(names[other])
        BY DEF AreNames
      <4>2. names[other] = m
        BY <2>5, <2>8, <3>2, <4>1, QualifiedApart
      <4>. QED
        BY <2>5, <3>2, <4>2
    <3>. QED
      BY <3>1, <3>2 DEF SoFar
  <2>9. Free(acc.scope, qualify_name(P, m))
    BY <2>8 DEF Free, Named
  <2>. HIDE DEF m, D
  <2>10. Sound(scoped, D \cup {acc.next}, {P}) /\ WithGenerator(scoped, acc.scope, qualify_name(P, m), acc.next)
    BY <2>5, <2>6, <2>7, <2>9, QualifiedAdded
  <2>. HIDE DEF scoped
  <2>11. D \cup {acc.next} = present \cup DOMAIN e.classifiers
    BY <2>3 DEF D
  <2>12. Image(scoped.by_name) = Image(acc.scope.by_name) \cup {Entry(qualify_name(P, m), acc.next)}
    BY <2>10 DEF WithGenerator
  <2>13. ASSUME NEW g \in Image(scoped.by_name)
         PROVE  \/ g \in Image(c.by_name)
                \/ \E t \in DOMAIN names : t \in DOMAIN e.map.table /\ g.name = qualify_name(P, names[t])
    <3>1. CASE g = Entry(qualify_name(P, m), acc.next)
      BY <2>3, <3>1 DEF Entry, m
    <3>2. CASE g \in Image(acc.scope.by_name)
      BY <2>3, <3>2 DEF SoFar
    <3>. QED
      BY <2>12, <3>1, <3>2
  <2>14. Image(c.by_name) \subseteq Image(scoped.by_name)
    BY <2>12 DEF SoFar
  <2>15. DOMAIN e.classifiers \subseteq DOMAIN e.data
    BY <1>4, <2>1, <2>3 DEF SoFar
  <2>16. SoFar(e, c, present, P, names, n)
    BY <1>4, <2>1, <2>10, <2>11, <2>13, <2>14, <2>15 DEF SoFar
  <2>. QED
    BY <2>4, <2>16
<1>. QED
  BY <1>5, <1>6

LEMMA AttachedOne ==
    ASSUME NEW c, NEW n \in Nat, NEW present, present \subseteq 0 .. n - 1, Sound(c, present, {}),
           NEW P, IsPart(P), ~name_in_use(c, P), NEW names, AreNames(names),
           NEW acc, SoFar(acc, c, present, P, names, n), NEW tag \in DOMAIN names
    PROVE  SoFar(AttachGenerator(acc, tag), c, present, P, names, n)
<1>. DEFINE data == mapped_cell_data(acc.map, tag)
<1>1. SoFar(Stopped(acc), c, present, P, names, n)
  <2>. DEFINE s == Stopped(acc)
  <2>1. /\ IsAttachment(s) /\ s.scope = acc.scope /\ s.map = acc.map /\ s.prefix = acc.prefix
        /\ s.names = acc.names /\ s.next = acc.next /\ s.data = acc.data /\ s.classifiers = acc.classifiers
    BY StoppedIs DEF SoFar
  <2>. HIDE DEF s
  <2>2. SoFar(s, c, present, P, names, n)
    BY <2>1 DEF SoFar
  <2>. QED
    BY <2>2 DEF s
<1>2. CASE acc.failed \/ is_defined_at(acc.map, tag) \/ Type(tag) \in DOMAIN complexes
  BY <1>2 DEF AttachGenerator
<1>3. CASE ~(acc.failed \/ is_defined_at(acc.map, tag) \/ Type(tag) \in DOMAIN complexes)
  <2>. DEFINE copy == cell(acc.next, data)
  <2>1. SoFar(AddCopy(acc, tag, data, copy), c, present, P, names, n)
    <3>1. tag \notin DOMAIN acc.map.table
      BY <1>3 DEF is_defined_at
    <3>. HIDE DEF data, copy
    <3>. QED
      BY <3>1, CopyAdded
  <2>2. AttachGenerator(acc, tag) = AttachOver(acc, tag, data)
    BY <1>3 DEF AttachGenerator
  <2>3. AttachOver(acc, tag, data) \in {acc, Stopped(acc), AddCopy(acc, tag, data, copy)}
    <3>. HIDE DEF data
    <3>. QED
      BY DEF AttachOver, Stopped
  <2>. HIDE DEF copy, data
  <2>. QED
    BY <1>1, <2>1, <2>2, <2>3
<1>. QED
  BY <1>2, <1>3

\* f is what was attached up to n.
Attaching(start, tags, f, n) ==
    f = [i \in 0 .. n |-> IF i = 0 THEN start ELSE AttachGenerator(f[i - 1], tags[i])]

LEMMA AttachedRuns == ASSUME NEW start, NEW tags, NEW k \in Nat PROVE \E f : Attaching(start, tags, f, k)
<1>. DEFINE made == {n \in Nat : \E f : Attaching(start, tags, f, n)}
<1>1. 0 \in made
  <2>. DEFINE g == [i \in 0 .. 0 |-> start]
  <2>1. Attaching(start, tags, g, 0)
    BY DEF Attaching
  <2>. HIDE DEF g
  <2>. QED
    BY <2>1
<1>2. ASSUME NEW n \in Nat, n \in made PROVE n + 1 \in made
  <2>1. PICK f : Attaching(start, tags, f, n)
    BY <1>2
  <2>. DEFINE v == AttachGenerator(f[n], tags[n + 1])
              g == OneMore(f, n, v)
  <2>2. DOMAIN f = 0 .. n /\ \A i \in 0 .. n : f[i] = IF i = 0 THEN start ELSE AttachGenerator(f[i - 1], tags[i])
    BY <2>1 DEF Attaching
  <2>. HIDE DEF v
  <2>3. /\ g = [i \in 0 .. n + 1 |-> g[i]] /\ g[n + 1] = v /\ g[n] = f[n] /\ \A i \in 0 .. n : g[i] = f[i]
        /\ \A i \in 1 .. n : g[i - 1] = f[i - 1]
    BY <2>2, OneMoreIs
  <2>. HIDE DEF g
  <2>4. ASSUME NEW i \in 0 .. n + 1 PROVE g[i] = IF i = 0 THEN start ELSE AttachGenerator(g[i - 1], tags[i])
    <3>1. CASE i = 0
      <4>1. 0 \in 0 .. n
        OBVIOUS
      <4>2. g[0] = f[0]
        BY <2>3, <4>1
      <4>3. f[0] = start
        BY <2>2, <4>1
      <4>. QED
        BY <3>1, <4>2, <4>3
    <3>2. CASE i \in 1 .. n
      <4>1. i # 0 /\ i \in 0 .. n
        BY <3>2
      <4>2. g[i] = f[i] /\ g[i - 1] = f[i - 1]
        BY <2>3, <3>2, <4>1
      <4>. QED
        BY <2>2, <4>1, <4>2
    <3>3. CASE i = n + 1
      <4>1. i # 0 /\ i - 1 = n
        BY <3>3
      <4>. QED
        BY <2>3, <3>3, <4>1 DEF v
    <3>. QED
      BY <3>1, <3>2, <3>3
  <2>5. Attaching(start, tags, g, n + 1)
    BY <2>3, <2>4 DEF Attaching
  <2>. QED
    BY <2>5
<1>. HIDE DEF made
<1>3. k \in made
  BY <1>1, <1>2, Upwards
<1>. QED
  BY <1>3 DEF made

\* An attachment adds cells that are new under names that are free, failed or not.
LEMMA Attachments ==
    ASSUME next_id \in Nat, NEW present, present \subseteq 0 .. next_id - 1, Sound(scope, present, {}),
           NEW P, IsPart(P), ~name_in_use(scope, P),
           NEW attachment, Sound(attachment, present, {}), NoRoot(attachment), NEW map
    PROVE  SoFar(extend_scope_with_attached_generators(map, P, attachment), scope, present, P,
                 attachment.by_tag, next_id)
<1>. DEFINE tags == sorted_generators(attachment)
            N == Len(tags)
            start == Start(map, P, attachment)
            attached == CHOOSE h : Attaching(start, tags, h, N)
            names == attachment.by_tag
            So(acc) == SoFar(acc, scope, present, P, names, next_id)
<1>1. extend_scope_with_attached_generators(map, P, attachment) = attached[N]
  BY DEF extend_scope_with_attached_generators, Attaching
<1>2. AreNames(names)
  BY NamesOf
<1>3. N \in Nat /\ \A n \in 1 .. N : tags[n] \in DOMAIN names
  <2>1. IsSeq(tags) /\ Image(tags) \subseteq DOMAIN names
    BY SortedAre DEF Sound, Agrees
  <2>. HIDE DEF tags, names
  <2>2. N \in Nat /\ \A n \in 1 .. N : tags[n] \in Image(tags)
    BY <2>1 DEF IsSeq
  <2>. QED
    BY <2>1, <2>2
<1>4. So(start)
  <2>1. /\ start.scope = scope /\ start.prefix = P /\ start.names = names /\ start.next = next_id
        /\ DOMAIN start.data = {} /\ DOMAIN start.classifiers = {}
    BY DEF Start
  <2>2. IsAttachment(start)
    BY DEF Start, IsAttachment, Fields
  <2>3. Sound(scope, present, {P})
    BY DEF Sound, Filed
  <2>4. present \cup DOMAIN start.classifiers = present
    BY <2>1
  <2>. HIDE DEF start, names
  <2>. QED
    BY <2>1, <2>2, <2>3, <2>4 DEF SoFar
<1>. HIDE DEF tags, N, start, names
<1>5. Attaching(start, tags, attached, N)
  BY <1>3, AttachedRuns
<1>. HIDE DEF attached
<1>6. attached[0] = start /\ \A n \in 1 .. N : attached[n] = AttachGenerator(attached[n - 1], tags[n])
  BY <1>3, <1>5 DEF Attaching
<1>7. ASSUME NEW acc, So(acc), NEW tag \in DOMAIN names PROVE So(AttachGenerator(acc, tag))
  BY <1>2, <1>7, AttachedOne
<1>. HIDE DEF So
<1>. DEFINE good == {n \in Nat : n \in 0 .. N => So(attached[n])}
<1>8. 0 \in good
  BY <1>4, <1>6
<1>9. ASSUME NEW n \in Nat, n \in good PROVE n + 1 \in good
  <2>1. SUFFICES ASSUME n + 1 \in 0 .. N PROVE So(attached[n + 1])
    OBVIOUS
  <2>2. n + 1 \in 1 .. N /\ n \in 0 .. N /\ (n + 1) - 1 = n
    BY <1>3, <2>1
  <2>3. attached[n + 1] = AttachGenerator(attached[n], tags[n + 1])
    BY <1>6, <2>2
  <2>4. So(attached[n]) /\ tags[n + 1] \in DOMAIN names
    BY <1>3, <1>9, <2>2
  <2>. QED
    BY <1>7, <2>3, <2>4
<1>. HIDE DEF good
<1>10. N \in good
  BY <1>3, <1>8, <1>9, Upwards
<1>11. So(attached[N])
  BY <1>3, <1>10 DEF good
<1>. QED
  BY <1>1, <1>11 DEF So, names

----------------------------------------------------------------------------
(* The invariant. An identifier that is not given yet is of nothing; each  *)
(* complex is sound in the store; the type of the root has no generator,   *)
(* and no other complex than a module's has a root.                        *)

Present == DOMAIN classifier \cap DOMAIN cell_data

Counted ==
    /\ next_id \in Nat /\ errors \in Nat /\ "kind" \in DOMAIN frame
    /\ DOMAIN classifier \subseteq 0 .. next_id - 1 /\ DOMAIN cell_data \subseteq 0 .. next_id - 1

AllSound ==
    /\ Sound(scope, Present, {}) /\ NoRoot(scope)
    /\ \A k \in DOMAIN complexes : Sound(complexes[k], Present, {}) /\ (k[1] = "type" => NoRoot(complexes[k]))

Rooted ==
    /\ ThisModule \in DOMAIN complexes
    /\ \E g \in Named(current_module_scope, <<>>) :
           /\ Named(current_module_scope, <<>>) = {g}
           /\ Type(g.tag) \in DOMAIN complexes /\ complexes[Type(g.tag)].by_name = <<>>

FrameInv ==
    /\ frame.kind # "none" => Rooted
    /\ frame.kind = "type" => ~name_in_use(current_module_scope, <<frame.block.name>>)

IInv == Counted /\ AllSound /\ FrameInv

----------------------------------------------------------------------------
(* What a step keeps of it.                                                *)

LEMMA EmptyIsSound == \A present : Sound(Complex, present, {}) /\ NoRoot(Complex) /\ Complex.by_name = <<>>
<1>. TAKE present
<1>1. Complex.by_name = <<>> /\ Complex.by_tag = <<>>
  BY DEF Complex
<1>2. Complex = Tables(Complex.by_name, Complex.by_tag, Complex.diagrams, Complex.maps, Complex.indices)
  BY DEF Complex, Tables
<1>. HIDE DEF Complex
<1>3. Image(Complex.by_name) = {}
  BY <1>1 DEF Image
<1>4. IsTables(Complex)
  BY <1>1, <1>2, <1>3 DEF IsTables, IsSeq
<1>5. Agrees(Complex, present)
  BY <1>1, <1>3, TagsOf DEF Agrees
<1>6. Filed(Complex, {})
  BY <1>3 DEF Filed
<1>7. NoRoot(Complex)
  BY <1>3 DEF NoRoot, Free, Named
<1>. QED
  BY <1>1, <1>4, <1>5, <1>6, <1>7 DEF Sound

LEMMA MoreIsSound ==
    ASSUME NEW c, NEW present, NEW more, present \subseteq more, Sound(c, present, {})
    PROVE  Sound(c, more, {})
  BY DEF Sound, Agrees

LEMMA OnePart == \A x : IsPart(<<x>>)
<1>. TAKE x
<1>1. Image(<<x>>) = {x}
  BY DEF Image
<1>. QED
  BY <1>1 DEF IsPart, IsSeq

\* Every complex stays, or is sound.
LEMMA Kept ==
    /\ IInv /\ Counted' /\ FrameInv' /\ Present \subseteq Present'
    /\ Sound(scope', Present', {}) /\ NoRoot(scope')
    /\ \A k \in DOMAIN complexes' :
           \/ k \in DOMAIN complexes /\ complexes'[k] = complexes[k]
           \/ Sound(complexes'[k], Present', {}) /\ (k[1] = "type" => NoRoot(complexes'[k]))
    => IInv'
<1>. SUFFICES ASSUME IInv, Counted', FrameInv', Present \subseteq Present',
                     Sound(scope', Present', {}), NoRoot(scope'),
                     \A k \in DOMAIN complexes' :
                         \/ k \in DOMAIN complexes /\ complexes'[k] = complexes[k]
                         \/ Sound(complexes'[k], Present', {}) /\ (k[1] = "type" => NoRoot(complexes'[k]))
              PROVE  IInv'
  OBVIOUS
<1>1. ASSUME NEW k \in DOMAIN complexes'
      PROVE  Sound(complexes'[k], Present', {}) /\ (k[1] = "type" => NoRoot(complexes'[k]))
  <2>1. CASE k \in DOMAIN complexes /\ complexes'[k] = complexes[k]
    <3>1. Sound(complexes[k], Present, {}) /\ (k[1] = "type" => NoRoot(complexes[k]))
      BY <2>1 DEF IInv, AllSound
    <3>. QED
      BY <2>1, <3>1, MoreIsSound
  <2>. QED
    BY <2>1
<1>2. AllSound'
  BY <1>1 DEF AllSound
<1>. QED
  BY <1>2 DEF IInv

\* The module that is interpreted keeps its root.
LEMMA StillRooted ==
    /\ IInv /\ Rooted /\ UNCHANGED current
    /\ ThisModule \in DOMAIN complexes' /\ Named(complexes'[ThisModule], <<>>) = Named(current_module_scope, <<>>)
    /\ \A tag \in Present :
           Type(tag) \in DOMAIN complexes =>
               Type(tag) \in DOMAIN complexes' /\ complexes'[Type(tag)].by_name = complexes[Type(tag)].by_name
    => Rooted'
<1>. SUFFICES ASSUME IInv, Rooted, UNCHANGED current, ThisModule \in DOMAIN complexes',
                     Named(complexes'[ThisModule], <<>>) = Named(current_module_scope, <<>>),
                     \A tag \in Present :
                         Type(tag) \in DOMAIN complexes =>
                             /\ Type(tag) \in DOMAIN complexes'
                             /\ complexes'[Type(tag)].by_name = complexes[Type(tag)].by_name
              PROVE  Rooted'
  OBVIOUS
<1>1. ThisModule' = ThisModule /\ current_module_scope' = complexes'[ThisModule]
  BY DEF ThisModule, current_module_scope
<1>2. PICK g \in Named(current_module_scope, <<>>) :
          /\ Named(current_module_scope, <<>>) = {g}
          /\ Type(g.tag) \in DOMAIN complexes /\ complexes[Type(g.tag)].by_name = <<>>
  BY DEF Rooted
<1>3. g.tag \in Present
  <2>1. Agrees(current_module_scope, Present)
    BY DEF IInv, AllSound, Rooted, current_module_scope, Sound
  <2>. QED
    BY <2>1 DEF Agrees, Named
<1>4. Type(g.tag) \in DOMAIN complexes' /\ complexes'[Type(g.tag)].by_name = <<>>
  BY <1>2, <1>3
<1>. QED
  BY <1>1, <1>2, <1>4 DEF Rooted

\* A step of which only the complex of the block is.
LEMMA ScopeOnly ==
    /\ IInv /\ UNCHANGED <<cells, complexes, current>>
    /\ errors' \in Nat /\ "kind" \in DOMAIN frame'
    /\ Sound(scope', Present, {}) /\ NoRoot(scope')
    /\ frame'.kind # "none" => frame.kind # "none"
    /\ frame'.kind = "type" => frame' = frame \/ ~name_in_use(current_module_scope, <<frame'.block.name>>)
    => IInv'
<1>. SUFFICES ASSUME IInv, UNCHANGED <<cells, complexes, current>>,
                     errors' \in Nat, "kind" \in DOMAIN frame', Sound(scope', Present, {}), NoRoot(scope'),
                     frame'.kind # "none" => frame.kind # "none",
                     frame'.kind = "type" => frame' = frame \/ ~name_in_use(current_module_scope, <<frame'.block.name>>)
              PROVE  IInv'
  OBVIOUS
<1>1. Present' = Present /\ ThisModule' = ThisModule /\ current_module_scope' = current_module_scope
  BY DEF Present, cells, ThisModule, current_module_scope
<1>2. Counted'
  BY DEF IInv, Counted, cells
<1>3. Rooted => Rooted'
  BY <1>1 DEF Rooted
<1>4. FrameInv'
  <2>1. frame'.kind # "none" => Rooted'
    BY <1>3 DEF IInv, FrameInv
  <2>2. frame'.kind = "type" => ~name_in_use(current_module_scope', <<frame'.block.name>>)
    BY <1>1 DEF IInv, FrameInv
  <2>. QED
    BY <2>1, <2>2 DEF FrameInv
<1>. QED
  BY <1>1, <1>2, <1>4, Kept

LEMMA ThisModuleIs ==
    ASSUME IInv, frame.kind # "none"
    PROVE  /\ Rooted /\ ThisModule \in DOMAIN complexes /\ Sound(current_module_scope, Present, {})
           /\ current_module_scope = complexes[ThisModule] /\ ThisModule[1] = "module"
<1>1. Rooted /\ ThisModule \in DOMAIN complexes
  BY DEF IInv, FrameInv, Rooted
<1>. QED
  BY <1>1 DEF IInv, AllSound, current_module_scope, ThisModule, Module

LEMMA AddressOfType ==
    ASSUME Rooted, NEW address, interpret_address(address) # NoType
    PROVE  Type(interpret_address(address)) \in DOMAIN complexes
<1>1. CASE address = <<>>
  <2>1. PICK g \in Named(current_module_scope, <<>>) :
            Named(current_module_scope, <<>>) = {g} /\ Type(g.tag) \in DOMAIN complexes
    BY DEF Rooted
  <2>2. interpret_address(address) = g.tag
    BY <1>1, <2>1 DEF interpret_address, resolve_root_owner_type_id
  <2>. QED
    BY <2>1, <2>2
<1>2. CASE address # <<>>
  BY <1>2 DEF interpret_address
<1>. QED
  BY <1>1, <1>2

LEMMA TypeIs ==
    ASSUME IInv, frame.kind # "none", NEW address, interpret_address(address) # NoType
    PROVE  LET c == complexes[Type(interpret_address(address))]
           IN  Type(interpret_address(address)) \in DOMAIN complexes /\ Sound(c, Present, {}) /\ NoRoot(c)
<1>1. Type(interpret_address(address)) \in DOMAIN complexes
  BY AddressOfType, ThisModuleIs
<1>2. Type(interpret_address(address))[1] = "type"
  BY DEF Type
<1>. QED
  BY <1>1, <1>2 DEF IInv, AllSound

\* What an instruction of a body makes of its complex.
IsUpdate(c) == c = Failed \/ (Sound(c, Present, {}) /\ NoRoot(c))

LEMMA Fails == IInv => errors \in Nat /\ errors + 1 \in Nat /\ errors + 1 > errors
  BY DEF IInv, Counted

LEMMA UpdateKeeps ==
    ASSUME IInv, NEW c, IsUpdate(c), Update(c), UNCHANGED <<cells, complexes>>
    PROVE  IInv'
<1>1. frame' = frame /\ current' = current /\ errors' \in Nat /\ scope' \in {scope, c} /\ (scope' = c => c # Failed \/ scope' = scope)
  BY Fails DEF Update, Fail
<1>2. Sound(scope, Present, {}) /\ NoRoot(scope) /\ "kind" \in DOMAIN frame
  BY DEF IInv, AllSound, Counted
<1>3. Sound(scope', Present, {}) /\ NoRoot(scope')
  BY <1>1, <1>2 DEF IsUpdate
<1>. QED
  BY <1>1, <1>2, <1>3, ScopeOnly

LEMMA InitKeeps == Init => IInv
<1>. SUFFICES ASSUME Init PROVE IInv
  OBVIOUS
<1>1. Counted
  BY DEF Init, Counted, NoFrame
<1>2. scope = Complex /\ DOMAIN complexes = {} /\ frame.kind = "none"
  BY DEF Init, NoFrame
<1>3. AllSound
  BY <1>2, EmptyIsSound DEF AllSound
<1>. QED
  BY <1>1, <1>2, <1>3 DEF IInv, FrameInv

LEMMA NextModuleKeeps == IInv /\ next_module => IInv'
<1>. SUFFICES ASSUME IInv, next_module PROVE IInv'
  OBVIOUS
<1>1. Sound(scope, Present, {}) /\ NoRoot(scope) /\ errors \in Nat
  BY DEF IInv, AllSound, Counted
<1>. QED
  BY <1>1, ScopeOnly DEF next_module, NoFrame

LEMMA OmitKeeps == IInv /\ Omit => IInv'
  BY ScopeOnly DEF Omit, IInv, AllSound, Counted

LEMMA OpenTypeKeeps == IInv /\ interpret_type_generator => IInv'
<1>. SUFFICES ASSUME IInv, interpret_type_generator PROVE IInv'
  OBVIOUS
<1>. DEFINE type_id == interpret_address(Instr.address)
<1>1. frame.kind = "module" /\ Sound(scope, Present, {}) /\ NoRoot(scope) /\ "kind" \in DOMAIN frame
  BY DEF interpret_type_generator, Doing, IInv, AllSound, Counted
<1>2. UNCHANGED <<cells, complexes, current>>
  BY DEF interpret_type_generator
<1>3. CASE Refuse
  <2>1. UNCHANGED <<frame, scope>> /\ errors' = errors + 1
    BY <1>3 DEF Refuse, Fail
  <2>. QED
    BY <1>1, <1>2, <2>1, Fails, ScopeOnly
<1>4. CASE ~name_in_use(current_module_scope, InstrName) /\ type_id # NoType /\ Open("type", type_id, Instr)
  <2>1. frame' = [kind |-> "type", owner |-> type_id, block |-> Instr, rest |-> Tail(todo)]
        /\ scope' = complexes[Type(type_id)] /\ errors' = errors
    BY <1>4 DEF Open
  <2>2. Sound(scope', Present, {}) /\ NoRoot(scope')
    BY <1>1, <1>4, <2>1, TypeIs
  <2>3. "kind" \in DOMAIN frame' /\ frame'.block = Instr
    BY <2>1
  <2>4. ~name_in_use(current_module_scope, <<frame'.block.name>>)
    BY <1>4, <2>3 DEF InstrName
  <2>. QED
    BY <1>1, <1>2, <2>1, <2>2, <2>3, <2>4, Fails, ScopeOnly
<1>. QED
  BY <1>3, <1>4 DEF interpret_type_generator

LEMMA OpenLocalKeeps == IInv /\ interpret_local_block => IInv'
<1>. SUFFICES ASSUME IInv, interpret_local_block PROVE IInv'
  OBVIOUS
<1>. DEFINE type_id == interpret_address(Instr.address)
<1>1. frame.kind = "module" /\ Sound(scope, Present, {}) /\ NoRoot(scope) /\ "kind" \in DOMAIN frame
  BY DEF interpret_local_block, Doing, IInv, AllSound, Counted
<1>2. UNCHANGED <<cells, complexes, current>>
  BY DEF interpret_local_block
<1>3. CASE Refuse
  <2>1. UNCHANGED <<frame, scope>> /\ errors' = errors + 1
    BY <1>3 DEF Refuse, Fail
  <2>. QED
    BY <1>1, <1>2, <2>1, Fails, ScopeOnly
<1>4. CASE type_id # NoType /\ Open("extend", type_id, Instr)
  <2>1. frame' = [kind |-> "extend", owner |-> type_id, block |-> Instr, rest |-> Tail(todo)]
        /\ scope' = complexes[Type(type_id)] /\ errors' = errors
    BY <1>4 DEF Open
  <2>2. Sound(scope', Present, {}) /\ NoRoot(scope')
    BY <1>1, <1>4, <2>1, TypeIs
  <2>3. "kind" \in DOMAIN frame' /\ frame'.kind = "extend"
    BY <2>1
  <2>. QED
    BY <1>1, <1>2, <2>1, <2>2, <2>3, Fails, ScopeOnly
<1>. QED
  BY <1>3, <1>4 DEF interpret_local_block

LEMMA LocalBodyKeeps == IInv /\ interpret_local_body => IInv'
<1>. SUFFICES ASSUME IInv, interpret_local_body PROVE IInv'
  OBVIOUS
<1>1. "kind" \in DOMAIN frame /\ Sound(scope, Present, {}) /\ NoRoot(scope) /\ errors \in Nat
  BY DEF IInv, AllSound, Counted
<1>2. frame' = [frame EXCEPT !.kind = "local"] /\ frame.kind = "extend"
      /\ UNCHANGED <<cells, complexes, current, scope, errors>>
  BY DEF interpret_local_body
<1>3. frame'.kind = "local" /\ "kind" \in DOMAIN frame'
  BY <1>1, <1>2
<1>. QED
  BY <1>1, <1>2, <1>3, ScopeOnly

LEMMA EndOfLocalBlockKeeps == IInv /\ EndOfLocalBlock => IInv'
<1>. SUFFICES ASSUME IInv, EndOfLocalBlock PROVE IInv'
  OBVIOUS
<1>1. /\ frame' = ModuleFrame /\ scope' = Complex /\ frame.kind = "local"
      /\ UNCHANGED <<cells, complexes, current, errors>>
  BY DEF EndOfLocalBlock, Leave
<1>2. frame'.kind = "module" /\ "kind" \in DOMAIN frame'
  BY <1>1 DEF ModuleFrame
<1>. QED
  BY <1>1, <1>2, EmptyIsSound, Fails, ScopeOnly

LEMMA ExpandForKeeps == IInv /\ expand_for => IInv'
<1>. SUFFICES ASSUME IInv, expand_for PROVE IInv'
  OBVIOUS
<1>1. errors' \in {errors, errors + 1} /\ UNCHANGED <<cells, complexes, current, frame, scope>>
  BY DEF expand_for, Fail
<1>2. Sound(scope, Present, {}) /\ NoRoot(scope) /\ "kind" \in DOMAIN frame
  BY DEF IInv, AllSound, Counted
<1>. QED
  BY <1>1, <1>2, Fails, ScopeOnly

LEMMA AssertKeeps == IInv /\ interpret_assert => IInv'
<1>. SUFFICES ASSUME IInv, interpret_assert PROVE IInv'
  OBVIOUS
<1>1. errors' \in {errors, errors + 1} /\ UNCHANGED <<cells, complexes, current, frame, scope>>
  BY DEF interpret_assert, Break, Fail
<1>2. Sound(scope, Present, {}) /\ NoRoot(scope) /\ "kind" \in DOMAIN frame
  BY DEF IInv, AllSound, Counted
<1>. QED
  BY <1>1, <1>2, Fails, ScopeOnly

LEMMA RootStays ==
    ASSUME NEW c, NEW d, \A n : Named(d, n) = Named(c, n), NoRoot(c)
    PROVE  NoRoot(d)
  BY DEF NoRoot, Free

LEMMA ComplexIndexKeeps == IInv /\ interpret_complex_index => IInv'
<1>. SUFFICES ASSUME IInv, interpret_complex_index PROVE IInv'
  OBVIOUS
<1>. DEFINE d == add_index(scope, InstrName, Instr.values)
            c == insert_complex_binding(scope, InstrName, d)
<1>1. Update(c) /\ UNCHANGED <<cells, complexes>>
  BY DEF interpret_complex_index
<1>2. Sound(scope, Present, {}) /\ NoRoot(scope)
  BY DEF IInv, AllSound
<1>3. Sound(d, Present, {}) /\ NoRoot(d)
  BY <1>2, BindingsAreSound, RootStays
<1>4. IsUpdate(c)
  BY <1>3 DEF IsUpdate, insert_complex_binding
<1>. HIDE DEF c
<1>. QED
  BY <1>1, <1>4, UpdateKeeps

LEMMA LocalIndexKeeps == IInv /\ interpret_local_index => IInv'
<1>. SUFFICES ASSUME IInv, interpret_local_index PROVE IInv'
  OBVIOUS
<1>. DEFINE d == add_index(scope, InstrName, Instr.values)
<1>1. scope' \in {scope, d} /\ errors' \in {errors, errors + 1} /\ UNCHANGED <<cells, complexes, current, frame>>
  BY DEF interpret_local_index, Break, Fail
<1>2. Sound(scope, Present, {}) /\ NoRoot(scope) /\ "kind" \in DOMAIN frame
  BY DEF IInv, AllSound, Counted
<1>3. Sound(d, Present, {}) /\ NoRoot(d)
  BY <1>2, BindingsAreSound, RootStays
<1>. HIDE DEF d
<1>. QED
  BY <1>1, <1>2, <1>3, Fails, ScopeOnly

\* The names of what is included are a part each, but for the root itself.
LEMMA IncludeNameIs ==
    ASSUME IInv, frame.kind # "none", NEW type_id, NEW name \in IncludeNames(type_id)
    PROVE  IsPart(name) \/ complexes[Type(type_id)].by_name = <<>>
<1>1. CASE "alias" \in DOMAIN Instr
  BY <1>1, OnePart DEF IncludeNames
<1>2. CASE "alias" \notin DOMAIN Instr
  <2>1. PICK g \in Image(current_module_scope.by_name) : g.tag = type_id /\ Len(g.name) < 2 /\ name = g.name
    BY <1>2 DEF IncludeNames
  <2>2. IsSeq(name)
    BY <2>1, ThisModuleIs DEF Sound, IsTables
  <2>3. CASE Len(name) = 1
    BY <2>2, <2>3 DEF IsPart
  <2>4. CASE Len(name) = 0
    <3>1. name = <<>>
      BY <2>2, <2>4 DEF IsSeq
    <3>2. g \in Named(current_module_scope, <<>>)
      BY <2>1, <3>1 DEF Named
    <3>3. complexes[Type(g.tag)].by_name = <<>>
      BY <3>2, ThisModuleIs DEF Rooted
    <3>. QED
      BY <2>1, <3>3
  <2>5. Len(name) \in Nat
    BY <2>2 DEF IsSeq
  <2>6. Len(name) < 2
    BY <2>1
  <2>7. Len(name) = 0 \/ Len(name) = 1
    <3>. DEFINE k == Len(name)
    <3>1. k \in Nat /\ k < 2
      BY <2>5, <2>6
    <3>. HIDE DEF k
    <3>2. k = 0 \/ k = 1
      BY <3>1
    <3>. QED
      BY <3>2 DEF k
  <2>. QED
    BY <2>3, <2>4, <2>7
<1>. QED
  BY <1>1, <1>2

LEMMA NothingInserted ==
    ASSUME NEW c, NEW source, IsTables(source), source.by_name = <<>>, NEW P, NEW skip \in BOOLEAN
    PROVE  insert_generators_by_tag(c, prefixed_generators(source, P, skip)) = c
<1>. DEFINE gs == prefixed_generators(source, P, skip)
            N == Len(gs)
            inserted == CHOOSE h : Inserting(c, gs, h, N)
<1>1. gs \in Seq({})
  <2>1. Prefixed(source, P, skip) = {}
    BY DEF Prefixed, Image
  <2>. QED
    BY <2>1, PrefixedAre
<1>2. insert_generators_by_tag(c, gs) = inserted[N]
  BY DEF insert_generators_by_tag, Inserting
<1>. HIDE DEF gs
<1>3. N = 0
  BY <1>1
<1>. HIDE DEF N
<1>4. Inserting(c, gs, inserted, N)
  BY <1>3, InsertedRuns
<1>. HIDE DEF inserted
<1>5. inserted[0] = c
  BY <1>3, <1>4 DEF Inserting
<1>. QED
  BY <1>2, <1>3, <1>5 DEF gs

LEMMA IncludeKeeps == IInv /\ interpret_include_instr => IInv'
<1>. SUFFICES ASSUME IInv, interpret_include_instr PROVE IInv'
  OBVIOUS
<1>. DEFINE type_id == interpret_address(Instr.address)
            name == CHOOSE name \in IncludeNames(type_id) : TRUE
            source == complexes[Type(type_id)]
            d == Included(type_id, name)
            c == IF type_id = NoType \/ IncludeNames(type_id) = {} THEN Failed ELSE insert_complex_binding(scope, name, d)
<1>1. Update(c) /\ UNCHANGED <<cells, complexes>> /\ frame.kind # "none"
  BY DEF interpret_include_instr, Doing
<1>2. Sound(scope, Present, {}) /\ NoRoot(scope)
  BY DEF IInv, AllSound
<1>3. ASSUME type_id # NoType, IncludeNames(type_id) # {}, ~name_in_use(scope, name)
      PROVE  Sound(d, Present, {}) /\ NoRoot(d)
  <2>. DEFINE f == identity_map(source, Type(type_id))
              gs == prefixed_generators(source, name, FALSE)
  <2>1. Sound(source, Present, {}) /\ NoRoot(source)
    BY <1>1, <1>3, TypeIs
  <2>2. name \in IncludeNames(type_id)
    BY <1>3
  <2>3. d = add_map(insert_generators_by_tag(scope, gs), name, f)
    BY DEF Included
  <2>. HIDE DEF d, f
  <2>4. CASE IsPart(name)
    <3>. HIDE DEF name, source
    <3>1. Sound(d, Present, {}) /\ SameRoot(d, scope)
      BY <1>2, <1>3, <2>1, <2>3, <2>4, Insertions
    <3>. QED
      BY <1>2, <3>1 DEF NoRoot, Free, SameRoot
  <2>5. CASE source.by_name = <<>>
    <3>1. insert_generators_by_tag(scope, gs) = scope
      <4>. HIDE DEF name, source
      <4>. QED
        BY <2>1, <2>5, NothingInserted DEF Sound
    <3>2. d = add_map(scope, name, f)
      BY <2>3, <3>1
    <3>. HIDE DEF name, gs
    <3>. QED
      BY <1>2, <3>2, BindingsAreSound, RootStays
  <2>. HIDE DEF name, type_id
  <2>. QED
    BY <1>1, <2>2, <2>4, <2>5, IncludeNameIs
<1>. HIDE DEF type_id, name, d
<1>4. IsUpdate(c)
  BY <1>3 DEF IsUpdate, insert_complex_binding
<1>. HIDE DEF c
<1>. QED
  BY <1>1, <1>4, UpdateKeeps

Gains(d, c, name, tag) == Image(d.by_name) = Image(c.by_name) \cup {Entry(name, tag)}

\* A generator of the complex itself comes with its diagram.
LEMMA OwnGenerator ==
    ASSUME NEW c, NEW present, Sound(c, present, {}), NEW name, IsSeq(name), Len(name) < 2, Free(c, name),
           NEW tag, tag \notin present, NEW value
    PROVE  LET d == add_diagram(add_generator(c, name, tag), name, value)
           IN  Sound(d, present \cup {tag}, {}) /\ Gains(d, c, name, tag)
<1>. DEFINE e == add_generator(c, name, tag)
            d == add_diagram(e, name, value)
<1>1. IsTables(c) /\ Agrees(c, present) /\ Filed(c, {})
  BY DEF Sound
<1>2. tag \notin DOMAIN c.by_tag
  BY <1>1, TagsOf DEF Agrees
<1>3. IsTables(e) /\ Agrees(e, present \cup {tag}) /\ WithGenerator(e, c, name, tag)
  BY <1>1, <1>2, GeneratorAdded
<1>. HIDE DEF e
<1>4. d = Tables(e.by_name, e.by_tag, With(e.diagrams, name, value), e.maps, e.indices)
  BY <1>3, OneAdded
<1>. HIDE DEF d
<1>5. d.by_name = e.by_name /\ d.by_tag = e.by_tag /\ d.diagrams = With(e.diagrams, name, value)
      /\ d.maps = e.maps /\ d.indices = e.indices
  BY <1>4 DEF Tables
<1>6. Gains(d, c, name, tag)
  BY <1>3, <1>5 DEF WithGenerator, Gains
<1>7. IsTables(d)
  BY <1>3, <1>4, <1>5 DEF IsTables
<1>8. Agrees(d, present \cup {tag})
  <2>1. \A n : Named(d, n) = Named(e, n)
    BY <1>5 DEF Named
  <2>. QED
    BY <1>3, <1>5, <2>1, TagsOf DEF Agrees
<1>9. ASSUME NEW g \in Image(d.by_name)
      PROVE  /\ Len(g.name) = 1 => g.name \in DOMAIN d.diagrams
             /\ Len(g.name) > 1 => <<g.name[1]>> \in DOMAIN d.maps
  <2>1. CASE g = Entry(name, tag)
    <3>1. g.name = name
      BY <2>1 DEF Entry
    <3>2. name \in DOMAIN d.diagrams
      BY <1>5 DEF With
    <3>3. ~(Len(name) > 1)
      <4>. DEFINE k == Len(name)
      <4>1. k \in Nat /\ k < 2
        BY DEF IsSeq
      <4>. HIDE DEF k
      <4>2. ~(k > 1)
        BY <4>1
      <4>. QED
        BY <4>2 DEF k
    <3>. QED
      BY <3>1, <3>2, <3>3
  <2>2. CASE g \in Image(c.by_name)
    <3>1. DOMAIN c.diagrams \subseteq DOMAIN d.diagrams /\ d.maps = c.maps
      BY <1>3, <1>5 DEF With, WithGenerator
    <3>. QED
      BY <1>1, <2>2, <3>1 DEF Filed
  <2>. QED
    BY <1>6, <2>1, <2>2 DEF Gains
<1>10. Filed(d, {})
  BY <1>9 DEF Filed
<1>. QED
  BY <1>6, <1>7, <1>8, <1>10 DEF Sound, d, e

LEMMA PartIsFree ==
    ASSUME NEW c, NEW present, Sound(c, present, {}), NEW P, IsPart(P), ~name_in_use(c, P)
    PROVE  Free(c, P) /\ IsSeq(P) /\ Len(P) < 2 /\ P # <<>>
<1>1. IsSeq(P) /\ Len(P) = 1
  BY DEF IsPart
<1>2. P \notin DOMAIN c.diagrams
  BY DEF name_in_use
<1>3. Free(c, P)
  BY <1>1, <1>2 DEF Sound, Filed, Free, Named
<1>. QED
  BY <1>1, <1>3

LEMMA GainsNoRoot ==
    ASSUME NEW d, NEW c, NEW name, name # <<>>, NEW tag, Gains(d, c, name, tag)
    PROVE  SameRoot(d, c)
  BY DEF Gains, SameRoot, Named, Entry

\* A step in a block that enters cells.
LEMMA CellsKept ==
    /\ IInv /\ UNCHANGED <<complexes, current, frame>> /\ Counted' /\ Present \subseteq Present'
    /\ Sound(scope', Present', {}) /\ NoRoot(scope')
    => IInv'
<1>. SUFFICES ASSUME IInv, UNCHANGED <<complexes, current, frame>>, Counted', Present \subseteq Present',
                     Sound(scope', Present', {}), NoRoot(scope')
              PROVE  IInv'
  OBVIOUS
<1>1. ThisModule' = ThisModule /\ current_module_scope' = current_module_scope
  BY DEF ThisModule, current_module_scope
<1>2. Rooted => Rooted'
  BY <1>1 DEF Rooted
<1>3. FrameInv'
  BY <1>1, <1>2 DEF IInv, FrameInv
<1>. QED
  BY <1>3, Kept

LEMMA OneMoreCell ==
    /\ IInv /\ next_id' = next_id + 1 /\ errors' \in Nat /\ "kind" \in DOMAIN frame'
    /\ DOMAIN classifier' = DOMAIN classifier \cup {next_id} /\ DOMAIN cell_data' = DOMAIN cell_data \cup {next_id}
    => Counted' /\ Present' = Present \cup {next_id} /\ next_id \notin Present
<1>. SUFFICES ASSUME IInv, next_id' = next_id + 1, errors' \in Nat, "kind" \in DOMAIN frame',
                     DOMAIN classifier' = DOMAIN classifier \cup {next_id},
                     DOMAIN cell_data' = DOMAIN cell_data \cup {next_id}
              PROVE  Counted' /\ Present' = Present \cup {next_id} /\ next_id \notin Present
  OBVIOUS
<1>1. next_id \in Nat /\ DOMAIN classifier \subseteq 0 .. next_id - 1 /\ DOMAIN cell_data \subseteq 0 .. next_id - 1
  BY DEF IInv, Counted
<1>2. 0 .. next_id - 1 \subseteq 0 .. next_id' - 1 /\ next_id' \in Nat /\ next_id \in 0 .. next_id' - 1
      /\ next_id \notin 0 .. next_id - 1
  BY <1>1
<1>3. DOMAIN classifier' \subseteq 0 .. next_id' - 1
  BY <1>1, <1>2, Zenon
<1>4. DOMAIN cell_data' \subseteq 0 .. next_id' - 1
  BY <1>1, <1>2, Zenon
<1>5. Counted'
  BY <1>2, <1>3, <1>4 DEF Counted
<1>6. Present' = Present \cup {next_id} /\ next_id \notin Present
  BY <1>1, <1>2 DEF Present
<1>. QED
  BY <1>5, <1>6

LEMMA GeneratorKeeps == IInv /\ interpret_complex_generator => IInv'
<1>. SUFFICES ASSUME IInv, interpret_complex_generator PROVE IInv'
  OBVIOUS
<1>. DEFINE data == interpret_boundaries(scope, Instr.faces)
            new == cell(next_id, data)
            d == add_diagram(add_generator(scope, InstrName, next_id), InstrName, new)
<1>1. GeneratorOver(data) /\ UNCHANGED complexes
  BY DEF interpret_complex_generator
<1>. HIDE DEF data, new
<1>2. IsPart(InstrName)
  BY OnePart DEF InstrName
<1>3. /\ next_id \in Nat /\ errors \in Nat /\ "kind" \in DOMAIN frame
      /\ DOMAIN classifier \subseteq 0 .. next_id - 1 /\ DOMAIN cell_data \subseteq 0 .. next_id - 1
      /\ Sound(scope, Present, {}) /\ NoRoot(scope)
  BY DEF IInv, Counted, AllSound
<1>4. CASE Update(Failed) /\ UNCHANGED cells
  BY <1>1, <1>4, UpdateKeeps DEF IsUpdate
<1>5. CASE /\ ~name_in_use(scope, InstrName) /\ next_id' = next_id + 1
           /\ Update(Failed) /\ UNCHANGED <<classifier, cell_data>>
  <2>1. UNCHANGED <<complexes, current, frame, scope>> /\ errors' = errors + 1
    BY <1>1, <1>5 DEF Update, Fail
  <2>2. Present' = Present
    BY <1>5 DEF Present
  <2>3. 0 .. next_id - 1 \subseteq 0 .. next_id' - 1 /\ next_id' \in Nat
    BY <1>3, <1>5
  <2>4. Counted'
    BY <1>3, <1>5, <2>1, <2>3 DEF Counted
  <2>. QED
    BY <1>3, <2>1, <2>2, <2>4, CellsKept
<1>6. CASE /\ ~name_in_use(scope, InstrName) /\ next_id' = next_id + 1 /\ Update(d)
           /\ classifier' = With(classifier, next_id, new) /\ cell_data' = With(cell_data, next_id, data)
  <2>1. UNCHANGED <<complexes, current, frame>> /\ errors' \in {errors, errors + 1} /\ scope' \in {scope, d}
    BY <1>1, <1>6 DEF Update, Fail
  <2>2. DOMAIN classifier' = DOMAIN classifier \cup {next_id} /\ DOMAIN cell_data' = DOMAIN cell_data \cup {next_id}
    BY <1>6 DEF With
  <2>3. Counted' /\ Present' = Present \cup {next_id} /\ next_id \notin Present
    <3>1. errors' \in Nat
      BY <2>1, Fails
    <3>. QED
      BY <1>3, <1>6, <2>1, <2>2, <3>1, OneMoreCell
  <2>4. Free(scope, InstrName) /\ IsSeq(InstrName) /\ Len(InstrName) < 2 /\ InstrName # <<>>
    BY <1>2, <1>3, <1>6, PartIsFree
  <2>5. Sound(d, Present \cup {next_id}, {}) /\ Gains(d, scope, InstrName, next_id)
    BY <1>3, <2>3, <2>4, OwnGenerator
  <2>. HIDE DEF d
  <2>6. NoRoot(d)
    BY <1>3, <2>4, <2>5, GainsNoRoot DEF NoRoot, Free, SameRoot
  <2>7. Sound(scope, Present', {})
    BY <1>3, <2>3, MoreIsSound
  <2>8. Sound(scope', Present', {}) /\ NoRoot(scope')
    BY <1>3, <2>1, <2>3, <2>5, <2>6, <2>7
  <2>. QED
    BY <2>1, <2>3, <2>8, CellsKept
<1>. QED
  BY <1>1, <1>4, <1>5, <1>6 DEF GeneratorOver, insert_global_cell, EnterCell, new

LEMMA AttachMakes ==
    ASSUME IInv, frame.kind # "none", NEW address, interpret_address(address) # NoType,
           ~name_in_use(scope, InstrName), NEW map
    PROVE  LET attachment == complexes[Type(interpret_address(address))]
           IN  SoFar(extend_scope_with_attached_generators(map, InstrName, attachment), scope, Present, InstrName,
                     attachment.by_tag, next_id)
<1>. DEFINE attachment == complexes[Type(interpret_address(address))]
            P == InstrName
<1>1. Sound(attachment, Present, {}) /\ NoRoot(attachment)
  BY TypeIs
<1>2. IsPart(P)
  BY OnePart DEF InstrName
<1>3. next_id \in Nat /\ Present \subseteq 0 .. next_id - 1 /\ Sound(scope, Present, {})
  BY DEF IInv, Counted, AllSound, Present
<1>4. ~name_in_use(scope, P)
  OBVIOUS
<1>. HIDE DEF P, attachment
<1>5. SoFar(extend_scope_with_attached_generators(map, P, attachment), scope, Present, P, attachment.by_tag, next_id)
  BY <1>1, <1>2, <1>3, <1>4, Attachments
<1>. QED
  BY <1>5 DEF P, attachment

LEMMA AttachKeeps == IInv /\ interpret_attach_instr => IInv'
<1>. SUFFICES ASSUME IInv, interpret_attach_instr PROVE IInv'
  OBVIOUS
<1>. DEFINE type_id == interpret_address(Instr.address)
            domain == Type(type_id)
            attachment == complexes[domain]
            f == AlongMap(domain)
            map == f.map
            P == InstrName
            acc == extend_scope_with_attached_generators(map, P, attachment)
<1>1. UNCHANGED complexes /\ frame.kind # "none"
  BY DEF interpret_attach_instr, Doing
<1>2. IsPart(P)
  BY OnePart DEF InstrName
<1>3. /\ next_id \in Nat /\ errors \in Nat /\ "kind" \in DOMAIN frame
      /\ DOMAIN classifier \subseteq 0 .. next_id - 1 /\ DOMAIN cell_data \subseteq 0 .. next_id - 1
      /\ Sound(scope, Present, {}) /\ NoRoot(scope)
  BY DEF IInv, Counted, AllSound
<1>4. CASE Update(Failed) /\ UNCHANGED cells
  BY <1>1, <1>4, UpdateKeeps DEF IsUpdate
<1>5. CASE type_id # NoType /\ ~name_in_use(scope, P) /\ Attached(acc, domain)
  <2>1. Sound(attachment, Present, {}) /\ NoRoot(attachment)
    BY <1>1, <1>5, TypeIs
  <2>. DEFINE names == attachment.by_tag
  <2>2. SoFar(acc, scope, Present, P, names, next_id)
    <3>1. ~name_in_use(scope, InstrName)
      BY <1>5
    <3>. HIDE DEF map
    <3>. QED
      BY <1>1, <1>5, <3>1, AttachMakes
  <2>3. /\ next_id' = acc.next /\ Update(AttachedScope(acc, domain))
        /\ cell_data' = Over(acc.data, cell_data) /\ classifier' = Over(acc.classifiers, classifier)
    BY <1>5 DEF Attached
  <2>. DEFINE g == EvalMap(domain, acc.map, <<>>)
              d == add_map(acc.scope, P, g)
  <2>4. UNCHANGED <<current, frame>> /\ errors' \in {errors, errors + 1} /\ scope' \in {scope, d}
    <3>1. AttachedScope(acc, domain) \in {Failed, d}
      <4>. HIDE DEF acc, domain
      <4>. QED
        BY DEF AttachedScope
    <3>. HIDE DEF acc, domain, d
    <3>2. UNCHANGED <<current, frame>> /\ errors' \in {errors, errors + 1} /\ scope' \in {scope, AttachedScope(acc, domain)}
          /\ (scope' = scope \/ AttachedScope(acc, domain) # Failed)
      BY <2>3 DEF Update, Fail
    <3>. QED
      BY <3>1, <3>2
  <2>. HIDE DEF acc, names, attachment, map, f, P, domain, g
  <2>5. /\ acc.next \in Nat /\ next_id =< acc.next
        /\ DOMAIN acc.data \subseteq next_id .. acc.next - 1 /\ DOMAIN acc.classifiers \subseteq DOMAIN acc.data
        /\ Sound(acc.scope, Present \cup DOMAIN acc.classifiers, {P})
        /\ Image(scope.by_name) \subseteq Image(acc.scope.by_name)
    BY <2>2 DEF SoFar
  <2>6. DOMAIN classifier' = DOMAIN acc.classifiers \cup DOMAIN classifier
        /\ DOMAIN cell_data' = DOMAIN acc.data \cup DOMAIN cell_data
    BY <2>3 DEF Over
  <2>7. Present \cup DOMAIN acc.classifiers \subseteq Present'
    BY <2>5, <2>6 DEF Present
  <2>8. 0 .. next_id - 1 \subseteq 0 .. next_id' - 1 /\ next_id' \in Nat
        /\ next_id .. acc.next - 1 \subseteq 0 .. next_id' - 1
    BY <1>3, <2>3, <2>5
  <2>9. DOMAIN classifier' \subseteq 0 .. next_id' - 1 /\ DOMAIN cell_data' \subseteq 0 .. next_id' - 1
    BY <1>3, <2>5, <2>6, <2>8, Zenon
  <2>10. errors' \in Nat
    BY <2>4, Fails
  <2>11. Counted'
    BY <1>3, <2>4, <2>8, <2>9, <2>10 DEF Counted
  <2>12. Sound(d, Present', {}) /\ NoRoot(d)
    <3>1. d = Tables(acc.scope.by_name, acc.scope.by_tag, acc.scope.diagrams, With(acc.scope.maps, P, g), acc.scope.indices)
      BY <2>5, OneAdded DEF Sound
    <3>. HIDE DEF d
    <3>2. d.diagrams = acc.scope.diagrams /\ d.maps = With(acc.scope.maps, P, g) /\ d.indices = acc.scope.indices
      BY <3>1 DEF Tables
    <3>3. DOMAIN acc.scope.maps \cup {P} \subseteq DOMAIN d.maps \cup {}
      BY <3>2 DEF With
    <3>4. Sound(d, Present', {}) /\ \A n : Named(d, n) = Named(acc.scope, n)
      BY <2>5, <2>7, <3>1, <3>2, <3>3, StaysSound
    <3>5. NoRoot(acc.scope)
      <4>1. ASSUME NEW h \in Image(acc.scope.by_name) PROVE h.name # <<>>
        <5>1. CASE h \in Image(scope.by_name)
          BY <1>3, <5>1 DEF NoRoot, Free, Named
        <5>2. ASSUME NEW tag \in DOMAIN names, h.name = qualify_name(P, names[tag]) PROVE h.name # <<>>
          <6>1. IsSeq(names[tag])
            BY <2>1, NamesOf DEF AreNames, names
          <6>2. Len(qualify_name(P, names[tag])) = Len(names[tag]) + 1 /\ Len(names[tag]) \in Nat
            BY <1>2, <6>1, Qualified DEF IsSeq
          <6>. QED
            BY <5>2, <6>2
        <5>. QED
          BY <2>2, <5>1, <5>2 DEF SoFar
      <4>. QED
        BY <4>1 DEF NoRoot, Free, Named
    <3>. QED
      BY <3>4, <3>5, RootStays
  <2>. HIDE DEF d
  <2>13. Present \subseteq Present' /\ Sound(scope, Present', {})
    BY <1>3, <2>7, MoreIsSound
  <2>14. Sound(scope', Present', {}) /\ NoRoot(scope')
    BY <1>3, <2>4, <2>12, <2>13
  <2>. QED
    BY <1>1, <2>4, <2>11, <2>13, <2>14, CellsKept
<1>6. CASE type_id = NoType
  BY <1>4, <1>6 DEF interpret_attach_instr
<1>7. CASE type_id # NoType
  <2>1. AttachAlong(f, domain)
    BY <1>7 DEF interpret_attach_instr
  <2>2. (Update(Failed) /\ UNCHANGED cells) \/ (~name_in_use(scope, P) /\ Attached(acc, domain))
    <3>. HIDE DEF f, domain, type_id
    <3>. QED
      BY <2>1 DEF AttachAlong, P, map, attachment
  <2>. HIDE DEF acc, P, domain, type_id
  <2>. QED
    BY <1>4, <1>5, <1>7, <2>2
<1>. QED
  BY <1>6, <1>7

LEMMA BindingIs ==
    ASSUME NEW c, NEW present, Sound(c, present, {}), NEW name, NEW value, value # Failed
    PROVE  LET d == Binding(c, name, value)
           IN  Sound(d, present, {}) /\ (\A n : Named(d, n) = Named(c, n)) /\ d.by_name = c.by_name
<1>. DEFINE d == Binding(c, name, value)
            m == add_map(c, name, value)
            e == add_diagram(c, name, value)
<1>1. d \in {m, e}
  BY DEF Binding
<1>2. m.by_name = c.by_name /\ e.by_name = c.by_name
  <2>1. /\ e = Tables(c.by_name, c.by_tag, With(c.diagrams, name, value), c.maps, c.indices)
        /\ m = Tables(c.by_name, c.by_tag, c.diagrams, With(c.maps, name, value), c.indices)
    BY OneAdded DEF Sound
  <2>. HIDE DEF m, e
  <2>. QED
    BY <2>1 DEF Tables
<1>3. /\ Sound(m, present, {}) /\ (\A n : Named(m, n) = Named(c, n))
      /\ Sound(e, present, {}) /\ (\A n : Named(e, n) = Named(c, n))
  BY BindingsAreSound
<1>. HIDE DEF d, m, e
<1>4. Sound(d, present, {}) /\ (\A n : Named(d, n) = Named(c, n)) /\ d.by_name = c.by_name
  BY <1>1, <1>2, <1>3
<1>. QED
  BY <1>4 DEF d

LEMMA UpdateModuleKeeps ==
    ASSUME IInv, frame.kind = "module", NEW c,
           c = Failed \/ (Sound(c, Present, {}) /\ SameRoot(c, current_module_scope)),
           UpdateModule(c), UNCHANGED cells
    PROVE  IInv'
<1>1. UNCHANGED <<current, frame, scope>> /\ errors' \in Nat
  BY Fails DEF UpdateModule, Fail
<1>2. /\ Rooted /\ ThisModule \in DOMAIN complexes /\ ThisModule[1] = "module"
      /\ current_module_scope = complexes[ThisModule]
  BY ThisModuleIs
<1>3. Sound(scope, Present, {}) /\ NoRoot(scope) /\ "kind" \in DOMAIN frame
  BY DEF IInv, AllSound, Counted
<1>4. CASE UNCHANGED complexes
  BY <1>1, <1>3, <1>4, ScopeOnly
<1>5. CASE c # Failed /\ complexes' = [complexes EXCEPT ![ThisModule] = c]
  <2>1. Present' = Present /\ Counted'
    BY <1>1 DEF Present, cells, IInv, Counted
  <2>2. DOMAIN complexes' = DOMAIN complexes /\ complexes'[ThisModule] = c
        /\ \A k \in DOMAIN complexes : k # ThisModule => complexes'[k] = complexes[k]
    BY <1>2, <1>5
  <2>3. Named(complexes'[ThisModule], <<>>) = Named(current_module_scope, <<>>)
    BY <1>5, <2>2 DEF SameRoot
  <2>4. Rooted'
    <3>1. \A tag : Type(tag) # ThisModule
      BY <1>2 DEF Type
    <3>. QED
      BY <1>1, <1>2, <2>2, <2>3, <3>1, StillRooted
  <2>5. FrameInv'
    BY <1>1, <2>4 DEF FrameInv
  <2>6. \A k \in DOMAIN complexes' :
            \/ k \in DOMAIN complexes /\ complexes'[k] = complexes[k]
            \/ Sound(complexes'[k], Present', {}) /\ (k[1] = "type" => NoRoot(complexes'[k]))
    BY <1>2, <1>5, <2>1, <2>2
  <2>. QED
    BY <1>1, <1>3, <2>1, <2>5, <2>6, Kept
<1>. QED
  BY <1>4, <1>5 DEF UpdateModule

LEMMA TypeIndexKeeps == IInv /\ interpret_type_index => IInv'
<1>. SUFFICES ASSUME IInv, interpret_type_index PROVE IInv'
  OBVIOUS
<1>. DEFINE m == current_module_scope
            d == add_index(m, InstrName, Instr.values)
            c == IF name_in_use(m, InstrName) THEN Failed ELSE d
<1>1. UpdateModule(c) /\ UNCHANGED cells /\ frame.kind = "module"
  BY DEF interpret_type_index, Doing
<1>2. Sound(m, Present, {})
  BY <1>1, ThisModuleIs
<1>3. Sound(d, Present, {}) /\ SameRoot(d, m)
  <2>. HIDE DEF m
  <2>. QED
    BY <1>2, BindingsAreSound DEF SameRoot
<1>. HIDE DEF d
<1>4. c = Failed \/ (Sound(c, Present, {}) /\ SameRoot(c, m))
  BY <1>3
<1>. HIDE DEF c
<1>. QED
  BY <1>1, <1>4, UpdateModuleKeeps

LEMMA IncludeModuleKeeps == IInv /\ interpret_include_module_instr => IInv'
<1>. SUFFICES ASSUME IInv, interpret_include_module_instr PROVE IInv'
  OBVIOUS
<1>. DEFINE m == current_module_scope
            resolutions == Programs[current].resolutions
            file == resolutions[Instr.name]
            alias == <<Instr.alias>>
            source == complexes[Module(file)]
            d == IncludedModule(file, alias)
            c == IF name_in_use(m, alias) THEN Failed
                 ELSE IF Instr.name \notin DOMAIN resolutions THEN Failed
                 ELSE IF Module(file) \notin DOMAIN complexes THEN Failed
                 ELSE d
<1>1. UpdateModule(c) /\ UNCHANGED cells /\ frame.kind = "module"
  BY DEF interpret_include_module_instr, Doing
<1>2. Sound(m, Present, {})
  BY <1>1, ThisModuleIs
<1>3. ASSUME ~name_in_use(m, alias), Module(file) \in DOMAIN complexes
      PROVE  Sound(d, Present, {}) /\ SameRoot(d, m)
  <2>1. Sound(source, Present, {})
    BY <1>3 DEF IInv, AllSound
  <2>2. IsPart(alias)
    BY OnePart
  <2>. DEFINE f == identity_map(source, Module(file))
              gs == prefixed_generators(source, alias, TRUE)
  <2>3. d = add_map(insert_generators_by_tag(m, gs), alias, f)
    BY DEF IncludedModule
  <2>. HIDE DEF d, f, m, source, alias
  <2>. QED
    BY <1>2, <1>3, <2>1, <2>2, <2>3, Insertions
<1>. HIDE DEF d, alias, file, resolutions
<1>4. c = Failed \/ (Sound(c, Present, {}) /\ SameRoot(c, m))
  BY <1>3
<1>. HIDE DEF c
<1>. QED
  BY <1>1, <1>4, UpdateModuleKeeps

LEMMA TypeBindingKeeps ==
    ASSUME IInv, frame.kind = "local", NEW value, insert_type_binding(value), UNCHANGED <<cells, current, frame>>
    PROVE  IInv'
<1>1. Sound(scope, Present, {}) /\ NoRoot(scope) /\ "kind" \in DOMAIN frame
  BY DEF IInv, AllSound, Counted
<1>2. CASE Break
  <2>1. errors' = errors + 1 /\ UNCHANGED <<scope, complexes>>
    BY <1>2 DEF Break, Fail
  <2>. QED
    BY <1>1, <2>1, Fails, ScopeOnly
<1>3. CASE value # Failed /\ ~Break
  <2>. DEFINE k == Type(frame.owner)
              c == complexes[k]
              d == Binding(c, InstrName, value)
              e == Binding(scope, InstrName, value)
  <2>1. scope' = e /\ complexes' = [complexes EXCEPT ![k] = d] /\ errors' = errors
    BY <1>3 DEF insert_type_binding
  <2>2. Sound(e, Present, {}) /\ NoRoot(e)
    BY <1>1, <1>3, BindingIs, RootStays
  <2>3. k \in DOMAIN complexes => Sound(c, Present, {}) /\ NoRoot(c)
    BY DEF IInv, AllSound, Type
  <2>4. k \in DOMAIN complexes => Sound(d, Present, {}) /\ NoRoot(d) /\ d.by_name = c.by_name
    <3>. HIDE DEF c
    <3>. QED
      BY <1>3, <2>3, BindingIs, RootStays
  <2>. HIDE DEF k, c, d, e
  <2>5. DOMAIN complexes' = DOMAIN complexes /\ (k \in DOMAIN complexes => complexes'[k] = d)
        /\ \A j \in DOMAIN complexes : j # k => complexes'[j] = complexes[j]
    BY <2>1
  <2>6. Present' = Present
    BY DEF Present, cells
  <2>7. \A j \in DOMAIN complexes' :
            \/ j \in DOMAIN complexes /\ complexes'[j] = complexes[j]
            \/ Sound(complexes'[j], Present', {}) /\ (j[1] = "type" => NoRoot(complexes'[j]))
    BY <2>4, <2>5, <2>6
  <2>8. \A j \in DOMAIN complexes : complexes'[j].by_name = complexes[j].by_name
    BY <2>4, <2>5 DEF c
  <2>9. /\ Rooted /\ ThisModule \in DOMAIN complexes /\ current_module_scope = complexes[ThisModule]
    BY ThisModuleIs
  <2>10. Named(complexes'[ThisModule], <<>>) = Named(current_module_scope, <<>>)
    BY <2>8, <2>9 DEF Named
  <2>11. Rooted'
    BY <2>5, <2>8, <2>9, <2>10, StillRooted
  <2>12. FrameInv'
    BY <2>11 DEF FrameInv
  <2>13. Counted'
    BY <2>1 DEF IInv, Counted, cells
  <2>. QED
    BY <2>1, <2>2, <2>6, <2>7, <2>12, <2>13, Kept
<1>. QED
  BY <1>2, <1>3 DEF insert_type_binding

LEMMA LetKeeps == IInv /\ interpret_let_diag => IInv'
<1>. SUFFICES ASSUME IInv, interpret_let_diag PROVE IInv'
  OBVIOUS
<1>. DEFINE value == Value(Instr)
<1>1. Bind(value) /\ UNCHANGED cells
  BY DEF interpret_let_diag
<1>. HIDE DEF value
<1>2. CASE UNCHANGED complexes /\ Update(insert_complex_binding(scope, InstrName, Binding(scope, InstrName, value)))
  <2>. DEFINE d == Binding(scope, InstrName, value)
              c == insert_complex_binding(scope, InstrName, d)
  <2>1. Sound(scope, Present, {}) /\ NoRoot(scope)
    BY DEF IInv, AllSound
  <2>2. value = Failed => d = Failed
    BY DEF Binding
  <2>3. value # Failed => Sound(d, Present, {}) /\ NoRoot(d)
    BY <2>1, BindingIs, RootStays
  <2>. HIDE DEF d
  <2>4. IsUpdate(c)
    BY <2>2, <2>3 DEF IsUpdate, insert_complex_binding
  <2>5. Update(c)
    BY <1>2 DEF d
  <2>. HIDE DEF c
  <2>. QED
    BY <1>1, <1>2, <2>4, <2>5, UpdateKeeps
<1>3. CASE frame.kind = "local" /\ insert_type_binding(value) /\ UNCHANGED <<current, frame>>
  BY <1>1, <1>3, TypeBindingKeeps
<1>4. CASE frame.kind = "module" /\ UpdateModule(Binding(current_module_scope, InstrName, value))
  <2>. DEFINE m == current_module_scope
              d == Binding(m, InstrName, value)
  <2>1. Sound(m, Present, {})
    BY <1>4, ThisModuleIs
  <2>2. value = Failed => d = Failed
    BY DEF Binding
  <2>3. value # Failed => Sound(d, Present, {}) /\ SameRoot(d, m)
    <3>. HIDE DEF m
    <3>. QED
      BY <2>1, BindingIs DEF SameRoot
  <2>4. UpdateModule(d)
    BY <1>4
  <2>. HIDE DEF d
  <2>. QED
    BY <1>1, <1>4, <2>2, <2>3, <2>4, UpdateModuleKeeps
<1>. QED
  BY <1>1, <1>2, <1>3, <1>4 DEF Bind

\* What the store has after two complexes are put in.
Puts(g, f, j, x, k, y) ==
    /\ DOMAIN g = DOMAIN f \cup {j, k} /\ g[j] = x /\ g[k] = y
    /\ \A i \in DOMAIN f : i # j /\ i # k => g[i] = f[i]

LEMMA TwoMore ==
    ASSUME NEW f, NEW j, NEW k, j # k, NEW x, NEW y
    PROVE  Puts(With(With(f, j, x), k, y), f, j, x, k, y)
<1>. DEFINE h == With(f, j, x)
            g == With(h, k, y)
<1>1. DOMAIN h = DOMAIN f \cup {j} /\ h[j] = x /\ \A i \in DOMAIN f : i # j => h[i] = f[i]
  BY DEF With
<1>. HIDE DEF h
<1>2. DOMAIN g = DOMAIN h \cup {k} /\ g[k] = y /\ \A i \in DOMAIN h : i # k => g[i] = h[i]
  BY DEF With
<1>. HIDE DEF g
<1>3. /\ DOMAIN g = DOMAIN f \cup {j, k} /\ g[j] = x /\ g[k] = y
      /\ \A i \in DOMAIN f : i # j /\ i # k => g[i] = f[i]
  BY <1>1, <1>2
<1>. QED
  BY <1>3 DEF g, h, Puts

LEMMA EndOfTypeKeeps == IInv /\ EndOfType => IInv'
<1>. SUFFICES ASSUME IInv, EndOfType PROVE IInv'
  OBVIOUS
<1>. DEFINE name == <<frame.block.name>>
            m == current_module_scope
            object == cell0(next_id)
            f == identity_map(scope, Type(next_id))
            x == add_map(scope, name, f)
            y == add_diagram(add_generator(m, name, next_id), name, object)
<1>1. /\ frame.kind = "type" /\ next_id' = next_id + 1 /\ UNCHANGED current
      /\ frame' = ModuleFrame /\ scope' = Complex
  BY DEF EndOfType, Leave
<1>2. frame'.kind = "module" /\ "kind" \in DOMAIN frame'
  BY <1>1 DEF ModuleFrame
<1>3. /\ Rooted /\ ThisModule \in DOMAIN complexes /\ ThisModule[1] = "module" /\ m = complexes[ThisModule]
      /\ Sound(m, Present, {})
  BY <1>1, ThisModuleIs
<1>4. ~name_in_use(m, name)
  BY <1>1 DEF IInv, FrameInv
<1>5. /\ next_id \in Nat /\ errors \in Nat /\ Sound(scope, Present, {}) /\ NoRoot(scope)
      /\ DOMAIN classifier \subseteq 0 .. next_id - 1 /\ DOMAIN cell_data \subseteq 0 .. next_id - 1
  BY DEF IInv, AllSound, Counted
<1>6. Sound(scope', Present', {}) /\ NoRoot(scope')
  BY <1>1, EmptyIsSound
<1>7. CASE Fail /\ UNCHANGED <<classifier, cell_data, complexes>>
  <2>1. Present' = Present
    BY <1>7 DEF Present
  <2>2. errors' \in Nat
    BY <1>7, Fails DEF Fail
  <2>3. 0 .. next_id - 1 \subseteq 0 .. next_id' - 1 /\ next_id' \in Nat
    BY <1>1, <1>5
  <2>4. Counted'
    BY <1>2, <1>5, <1>7, <2>2, <2>3 DEF Counted
  <2>5. ThisModule' = ThisModule /\ current_module_scope' = current_module_scope
    BY <1>1, <1>7 DEF ThisModule, current_module_scope
  <2>6. Rooted'
    BY <1>3, <1>7, <2>5 DEF Rooted
  <2>7. FrameInv'
    BY <1>2, <2>6 DEF FrameInv
  <2>. QED
    BY <1>6, <1>7, <2>1, <2>4, <2>7, Kept
<1>8. CASE /\ complexes' = With(With(complexes, Type(next_id), x), ThisModule, y) /\ UNCHANGED errors
           /\ classifier' = With(classifier, next_id, object) /\ cell_data' = With(cell_data, next_id, <<>>)
  <2>1. DOMAIN classifier' = DOMAIN classifier \cup {next_id} /\ DOMAIN cell_data' = DOMAIN cell_data \cup {next_id}
    BY <1>8 DEF With
  <2>2. Counted' /\ Present' = Present \cup {next_id} /\ next_id \notin Present
    BY <1>1, <1>2, <1>5, <1>8, <2>1, OneMoreCell
  <2>3. Free(m, name) /\ IsSeq(name) /\ Len(name) < 2 /\ name # <<>>
    BY <1>3, <1>4, OnePart, PartIsFree
  <2>4. Sound(x, Present, {}) /\ NoRoot(x)
    <3>. HIDE DEF f
    <3>. QED
      BY <1>5, BindingsAreSound, RootStays
  <2>5. Sound(x, Present', {})
    <3>. HIDE DEF x
    <3>. QED
      BY <2>2, <2>4, MoreIsSound
  <2>6. Sound(y, Present', {}) /\ Gains(y, m, name, next_id)
    <3>. HIDE DEF m, name, object
    <3>. QED
      BY <1>3, <2>2, <2>3, OwnGenerator
  <2>. HIDE DEF x, y
  <2>7. SameRoot(y, m)
    BY <2>3, <2>6, GainsNoRoot
  <2>8. Type(next_id) # ThisModule
    BY <1>3 DEF Type
  <2>9. /\ DOMAIN complexes' = DOMAIN complexes \cup {Type(next_id), ThisModule}
        /\ complexes'[Type(next_id)] = x /\ complexes'[ThisModule] = y
        /\ \A k \in DOMAIN complexes : k # Type(next_id) /\ k # ThisModule => complexes'[k] = complexes[k]
    <3>1. Puts(complexes', complexes, Type(next_id), x, ThisModule, y)
      BY <1>8, <2>8, TwoMore
    <3>. QED
      BY <3>1 DEF Puts
  <2>10. \A k \in DOMAIN complexes' :
             \/ k \in DOMAIN complexes /\ complexes'[k] = complexes[k]
             \/ Sound(complexes'[k], Present', {}) /\ (k[1] = "type" => NoRoot(complexes'[k]))
    BY <1>3, <2>4, <2>5, <2>6, <2>9
  <2>11. \A tag \in Present : Type(tag) # Type(next_id) /\ Type(tag) # ThisModule
    BY <1>3, <2>2 DEF Type
  <2>12. Named(complexes'[ThisModule], <<>>) = Named(m, <<>>)
    BY <2>7, <2>9 DEF SameRoot
  <2>13. Rooted'
    <3>1. ThisModule \in DOMAIN complexes'
      BY <2>9
    <3>2. \A tag \in Present :
              Type(tag) \in DOMAIN complexes =>
                  Type(tag) \in DOMAIN complexes' /\ complexes'[Type(tag)].by_name = complexes[Type(tag)].by_name
      BY <2>9, <2>11
    <3>. QED
      BY <1>1, <1>3, <2>12, <3>1, <3>2, StillRooted
  <2>14. FrameInv'
    BY <1>2, <2>13 DEF FrameInv
  <2>. QED
    BY <1>6, <2>2, <2>10, <2>14, Kept
<1>. QED
  BY <1>7, <1>8 DEF EndOfType

LEMMA InitializeKeeps == IInv /\ initialize_module_context => IInv'
<1>. SUFFICES ASSUME IInv, initialize_module_context PROVE IInv'
  OBVIOUS
<1>. DEFINE file == Programs[current + 1].file
            root == cell0(next_id)
            y == add_diagram(add_generator(Complex, <<>>, next_id), <<>>, root)
<1>1. /\ complexes' = With(With(complexes, Type(next_id), Complex), Module(file), y)
      /\ classifier' = With(classifier, next_id, root) /\ cell_data' = With(cell_data, next_id, <<>>)
      /\ next_id' = next_id + 1 /\ current' = current + 1 /\ frame' = ModuleFrame /\ UNCHANGED <<scope, errors>>
  BY DEF initialize_module_context
<1>2. frame'.kind = "module" /\ "kind" \in DOMAIN frame'
  BY <1>1 DEF ModuleFrame
<1>3. errors \in Nat /\ Sound(scope, Present, {}) /\ NoRoot(scope)
  BY DEF IInv, AllSound, Counted
<1>4. DOMAIN classifier' = DOMAIN classifier \cup {next_id} /\ DOMAIN cell_data' = DOMAIN cell_data \cup {next_id}
  BY <1>1 DEF With
<1>5. Counted' /\ Present' = Present \cup {next_id} /\ next_id \notin Present
  BY <1>1, <1>2, <1>3, <1>4, OneMoreCell
<1>6. Sound(Complex, Present, {}) /\ Free(Complex, <<>>) /\ Complex.by_name = <<>> /\ Sound(Complex, Present', {})
      /\ NoRoot(Complex)
  BY EmptyIsSound DEF NoRoot
<1>7. IsSeq(<<>>) /\ Len(<<>>) < 2
  BY DEF IsSeq
<1>8. Sound(y, Present', {}) /\ Gains(y, Complex, <<>>, next_id)
  <2>. HIDE DEF root
  <2>. QED
    BY <1>5, <1>6, <1>7, OwnGenerator
<1>. HIDE DEF y, file
<1>9. Named(y, <<>>) = {Entry(<<>>, next_id)}
  <2>1. Image(Complex.by_name) = {}
    BY <1>6 DEF Image
  <2>. QED
    BY <1>8, <2>1 DEF Gains, Named, Entry
<1>10. Type(next_id) # Module(file) /\ Module(file)[1] # "type"
  BY DEF Type, Module
<1>11. /\ DOMAIN complexes' = DOMAIN complexes \cup {Type(next_id), Module(file)}
       /\ complexes'[Type(next_id)] = Complex /\ complexes'[Module(file)] = y
       /\ \A k \in DOMAIN complexes : k # Type(next_id) /\ k # Module(file) => complexes'[k] = complexes[k]
  <2>1. Puts(complexes', complexes, Type(next_id), Complex, Module(file), y)
    BY <1>1, <1>10, TwoMore
  <2>. QED
    BY <2>1 DEF Puts
<1>12. \A k \in DOMAIN complexes' :
           \/ k \in DOMAIN complexes /\ complexes'[k] = complexes[k]
           \/ Sound(complexes'[k], Present', {}) /\ (k[1] = "type" => NoRoot(complexes'[k]))
  BY <1>6, <1>8, <1>10, <1>11
<1>13. ThisModule' = Module(file) /\ current_module_scope' = y
  BY <1>1, <1>11 DEF ThisModule, current_module_scope, file
<1>14. Rooted'
  <2>1. Entry(<<>>, next_id).tag = next_id
    BY DEF Entry
  <2>. QED
    BY <1>6, <1>9, <1>11, <1>13, <2>1 DEF Rooted
<1>15. FrameInv'
  BY <1>2, <1>14 DEF FrameInv
<1>16. Sound(scope', Present', {}) /\ NoRoot(scope')
  BY <1>1, <1>3, <1>5, MoreIsSound
<1>. QED
  BY <1>5, <1>12, <1>15, <1>16, Kept

----------------------------------------------------------------------------
(* The theorems.                                                           *)

LEMMA StepKeeps == IInv /\ [Next]_vars => IInv'
<1>. SUFFICES ASSUME IInv, [Next]_vars PROVE IInv'
  OBVIOUS
<1>1. CASE UNCHANGED vars
  <2>1. Present' = Present /\ ThisModule' = ThisModule /\ current_module_scope' = current_module_scope
    BY <1>1 DEF vars, Present, ThisModule, current_module_scope
  <2>2. Counted' /\ AllSound'
    BY <1>1, <2>1 DEF vars, IInv, Counted, AllSound
  <2>3. Rooted => Rooted'
    BY <1>1, <2>1 DEF vars, Rooted
  <2>4. FrameInv'
    BY <1>1, <2>1, <2>3 DEF vars, IInv, FrameInv
  <2>. QED
    BY <2>2, <2>4 DEF IInv
<1>2. CASE Next
  BY <1>2, InitializeKeeps, NextModuleKeeps, OmitKeeps, OpenTypeKeeps, EndOfTypeKeeps, OpenLocalKeeps,
     LocalBodyKeeps, EndOfLocalBlockKeeps, GeneratorKeeps, ComplexIndexKeeps, IncludeKeeps, AttachKeeps,
     LocalIndexKeeps, AssertKeeps, LetKeeps, TypeIndexKeeps, IncludeModuleKeeps, ExpandForKeeps DEF Next
<1>. QED
  BY <1>1, <1>2

\* Whatever a program includes, attaches and names, and whatever its
\* expressions stand for, each complex of the store is sound
\* (global_store.rs, Complex::assert_invariants).
THEOREM Inductive == Spec => []IInv
<1>1. Init => IInv
  BY InitKeeps
<1>2. IInv /\ [Next]_vars => IInv'
  BY StepKeeps
<1>. QED
  BY <1>1, <1>2, PTL DEF Spec

LEMMA SoundAgrees == IInv => IndicesAgree
<1>. SUFFICES ASSUME IInv, NEW c \in Complexes PROVE Agrees(c, Present)
  BY DEF IndicesAgree, Agrees, Present
<1>1. c = scope \/ \E k \in DOMAIN complexes : c = complexes[k]
  BY DEF Complexes, Image
<1>. QED
  BY <1>1 DEF IInv, AllSound, Sound

\* The tables of every complex agree, its generators have one name each and no
\* two of them the same, and each has its cell in the store, however often and
\* in whatever order is included and attached (Complex::assert_invariants,
\* insert_generators_by_tag, extend_scope_with_attached_generators).
THEOREM IndicesCorrect == Spec => []IndicesAgree
<1>1. IInv => IndicesAgree
  BY SoundAgrees
<1>. QED
  BY <1>1, Inductive, PTL

NoTrace == errors' > errors => complexes' = complexes /\ (frame' = frame => scope' = scope)

LEMMA QuietLeavesNoTrace == IInv /\ UNCHANGED errors => NoTrace
  BY DEF IInv, Counted, NoTrace

LEMMA UpdateLeavesNoTrace == ASSUME IInv, UNCHANGED complexes, NEW c, Update(c) PROVE NoTrace
<1>1. CASE c = Failed
  BY <1>1 DEF Update, NoTrace
<1>2. CASE c # Failed
  BY <1>2, QuietLeavesNoTrace DEF Update
<1>. QED
  BY <1>1, <1>2

LEMMA UpdateModuleLeavesNoTrace == ASSUME IInv, NEW c, UpdateModule(c) PROVE NoTrace
<1>1. CASE c = Failed
  BY <1>1 DEF UpdateModule, NoTrace
<1>2. CASE c # Failed
  BY <1>2, QuietLeavesNoTrace DEF UpdateModule
<1>. QED
  BY <1>1, <1>2

LEMMA FailureLeavesNoTrace == IInv /\ [Next]_vars => NoTrace
<1>. SUFFICES ASSUME IInv, [Next]_vars PROVE NoTrace
  OBVIOUS
<1>1. CASE UNCHANGED vars
  BY <1>1, QuietLeavesNoTrace DEF vars
<1>2. CASE initialize_module_context
  BY <1>2, QuietLeavesNoTrace DEF initialize_module_context
<1>3. CASE next_module
  BY <1>3, QuietLeavesNoTrace DEF next_module
<1>4. CASE Omit
  BY <1>4, QuietLeavesNoTrace DEF Omit
<1>5. CASE interpret_type_generator
  BY <1>5, QuietLeavesNoTrace DEF interpret_type_generator, Refuse, Open, NoTrace
<1>6. CASE EndOfType
  <2>1. frame' # frame
    BY <1>6 DEF EndOfType, Leave, ModuleFrame
  <2>2. UNCHANGED errors \/ UNCHANGED complexes
    BY <1>6 DEF EndOfType
  <2>. QED
    BY <2>1, <2>2, QuietLeavesNoTrace DEF NoTrace
<1>7. CASE interpret_local_block
  BY <1>7, QuietLeavesNoTrace DEF interpret_local_block, Refuse, Open, NoTrace
<1>8. CASE interpret_local_body
  BY <1>8, QuietLeavesNoTrace DEF interpret_local_body
<1>9. CASE EndOfLocalBlock
  BY <1>9, QuietLeavesNoTrace DEF EndOfLocalBlock
<1>10. CASE interpret_complex_generator
  <2>1. UNCHANGED complexes /\ \E c : Update(c)
    <3>1. UNCHANGED complexes /\ GeneratorOver(interpret_boundaries(scope, Instr.faces))
      BY <1>10 DEF interpret_complex_generator
    <3>. DEFINE data == interpret_boundaries(scope, Instr.faces)
                new == cell(next_id, data)
                d == add_diagram(add_generator(scope, InstrName, next_id), InstrName, new)
    <3>. HIDE DEF data, new
    <3>2. Update(Failed) \/ EnterCell(data, new)
      BY <3>1 DEF GeneratorOver, insert_global_cell, data, new
    <3>3. EnterCell(data, new) => Update(Failed) \/ Update(d)
      BY DEF EnterCell
    <3>. HIDE DEF d
    <3>. QED
      BY <3>1, <3>2, <3>3
  <2>. QED
    BY <2>1, UpdateLeavesNoTrace
<1>11. CASE interpret_complex_index
  <2>. DEFINE c == insert_complex_binding(scope, InstrName, add_index(scope, InstrName, Instr.values))
  <2>1. UNCHANGED complexes /\ Update(c)
    BY <1>11 DEF interpret_complex_index
  <2>. HIDE DEF c
  <2>. QED
    BY <2>1, UpdateLeavesNoTrace
<1>12. CASE interpret_include_instr
  <2>1. UNCHANGED complexes /\ \E c : Update(c)
    <3>. DEFINE type_id == interpret_address(Instr.address)
                name == CHOOSE name \in IncludeNames(type_id) : TRUE
                c == IF type_id = NoType \/ IncludeNames(type_id) = {} THEN Failed
                     ELSE insert_complex_binding(scope, name, Included(type_id, name))
    <3>1. UNCHANGED complexes /\ Update(c)
      BY <1>12 DEF interpret_include_instr
    <3>. HIDE DEF c
    <3>. QED
      BY <3>1
  <2>. QED
    BY <2>1, UpdateLeavesNoTrace
<1>13. CASE interpret_attach_instr
  <2>1. UNCHANGED complexes /\ \E c : Update(c)
    <3>. DEFINE type_id == interpret_address(Instr.address)
                domain == Type(type_id)
                f == AlongMap(domain)
                acc == extend_scope_with_attached_generators(f.map, InstrName, complexes[domain])
                c == AttachedScope(acc, domain)
    <3>1. Update(Failed) \/ AttachAlong(f, domain)
      BY <1>13 DEF interpret_attach_instr
    <3>. HIDE DEF domain, f
    <3>2. Update(Failed) \/ Update(c)
      BY <3>1 DEF AttachAlong, Attached
    <3>. HIDE DEF c
    <3>. QED
      BY <1>13, <3>2 DEF interpret_attach_instr
  <2>. QED
    BY <2>1, UpdateLeavesNoTrace
<1>14. CASE interpret_local_index
  BY <1>14, QuietLeavesNoTrace DEF interpret_local_index, Break, NoTrace
<1>15. CASE interpret_assert
  BY <1>15, QuietLeavesNoTrace DEF interpret_assert, Break, NoTrace
<1>16. CASE interpret_let_diag
  <2>. DEFINE value == Value(Instr)
              c == insert_complex_binding(scope, InstrName, Binding(scope, InstrName, value))
              d == Binding(current_module_scope, InstrName, value)
  <2>1. \/ UNCHANGED complexes /\ Update(c)
        \/ insert_type_binding(value)
        \/ UpdateModule(d)
    <3>1. Bind(value)
      BY <1>16 DEF interpret_let_diag
    <3>. HIDE DEF value
    <3>. QED
      BY <3>1 DEF Bind
  <2>2. insert_type_binding(value) => NoTrace
    <3>. HIDE DEF value
    <3>. QED
      BY QuietLeavesNoTrace DEF insert_type_binding, Break, NoTrace
  <2>. HIDE DEF c, d, value
  <2>. QED
    BY <2>1, <2>2, UpdateLeavesNoTrace, UpdateModuleLeavesNoTrace
<1>17. CASE interpret_type_index
  <2>. DEFINE c == IF name_in_use(current_module_scope, InstrName) THEN Failed
                   ELSE add_index(current_module_scope, InstrName, Instr.values)
  <2>1. UpdateModule(c)
    BY <1>17 DEF interpret_type_index
  <2>. HIDE DEF c
  <2>. QED
    BY <2>1, UpdateModuleLeavesNoTrace
<1>18. CASE interpret_include_module_instr
  <2>1. \E c : UpdateModule(c)
    <3>. DEFINE resolutions == Programs[current].resolutions
                alias == <<Instr.alias>>
                c == IF name_in_use(current_module_scope, alias) THEN Failed
                     ELSE IF Instr.name \notin DOMAIN resolutions THEN Failed
                     ELSE IF Module(resolutions[Instr.name]) \notin DOMAIN complexes THEN Failed
                     ELSE IncludedModule(resolutions[Instr.name], alias)
    <3>1. UpdateModule(c)
      BY <1>18 DEF interpret_include_module_instr
    <3>. HIDE DEF c
    <3>. QED
      BY <3>1
  <2>. QED
    BY <2>1, UpdateModuleLeavesNoTrace
<1>19. CASE expand_for
  BY <1>19 DEF expand_for, NoTrace
<1>. QED
  BY <1>1, <1>2, <1>3, <1>4, <1>5, <1>6, <1>7, <1>8, <1>9, <1>10, <1>11, <1>12, <1>13, <1>14, <1>15, <1>16,
     <1>17, <1>18, <1>19 DEF Next

\* An instruction that fails, at once or in its last step, leaves the complexes
\* of the store as they were, and that of its block if the block goes on
\* (interpret_attach_instr, insert_global_cell).
THEOREM FailuresLeaveNoTrace == Spec => FailureChangesNothing
<1>1. IInv /\ [Next]_vars => [NoTrace]_vars
  BY FailureLeavesNoTrace
<1>2. Spec => [][NoTrace]_vars
  BY <1>1, Inductive, PTL DEF Spec
<1>. QED
  BY <1>2 DEF FailureChangesNothing, NoTrace

CellsStay ==
    /\ \A tag \in DOMAIN classifier : tag \in DOMAIN classifier' /\ classifier'[tag] = classifier[tag]
    /\ \A tag \in DOMAIN cell_data : tag \in DOMAIN cell_data' /\ cell_data'[tag] = cell_data[tag]

LEMMA NewCellStays ==
    IInv => \A x, y :
        classifier' = With(classifier, next_id, x) /\ cell_data' = With(cell_data, next_id, y) => CellsStay
<1>. SUFFICES ASSUME IInv, NEW x, NEW y, classifier' = With(classifier, next_id, x),
                     cell_data' = With(cell_data, next_id, y)
              PROVE  CellsStay
  OBVIOUS
<1>1. next_id \notin DOMAIN classifier /\ next_id \notin DOMAIN cell_data
  BY DEF IInv, Counted
<1>. QED
  BY <1>1 DEF CellsStay, With

LEMMA StepKeepsCells == IInv /\ [Next]_vars => CellsStay
<1>. SUFFICES ASSUME IInv, [Next]_vars PROVE CellsStay
  OBVIOUS
<1>1. CASE UNCHANGED <<classifier, cell_data>>
  BY <1>1 DEF CellsStay
<1>2. CASE initialize_module_context
  BY <1>2, NewCellStays DEF initialize_module_context
<1>3. CASE EndOfType
  BY <1>1, <1>3, NewCellStays DEF EndOfType
<1>4. CASE interpret_complex_generator
  <2>. DEFINE data == interpret_boundaries(scope, Instr.faces)
              new == cell(next_id, data)
  <2>1. GeneratorOver(data)
    BY <1>4 DEF interpret_complex_generator
  <2>. HIDE DEF data, new
  <2>2. \/ UNCHANGED <<classifier, cell_data>>
        \/ classifier' = With(classifier, next_id, new) /\ cell_data' = With(cell_data, next_id, data)
    BY <2>1 DEF GeneratorOver, insert_global_cell, EnterCell, cells, new
  <2>. QED
    BY <1>1, <2>2, NewCellStays
<1>5. CASE interpret_attach_instr /\ ~UNCHANGED <<classifier, cell_data>>
  <2>. DEFINE type_id == interpret_address(Instr.address)
              domain == Type(type_id)
              attachment == complexes[domain]
              f == AlongMap(domain)
              map == f.map
              names == attachment.by_tag
              acc == extend_scope_with_attached_generators(map, InstrName, attachment)
  <2>1. type_id # NoType /\ frame.kind # "none" /\ AttachAlong(f, domain)
    BY <1>5 DEF interpret_attach_instr, cells, Doing
  <2>2. ~name_in_use(scope, InstrName) /\ Attached(acc, domain)
    <3>. HIDE DEF type_id, domain, f
    <3>. QED
      BY <1>5, <2>1 DEF AttachAlong, cells
  <2>3. SoFar(acc, scope, Present, InstrName, names, next_id)
    <3>. HIDE DEF map
    <3>. QED
      BY <2>1, <2>2, AttachMakes
  <2>. HIDE DEF acc, names
  <2>4. cell_data' = Over(acc.data, cell_data) /\ classifier' = Over(acc.classifiers, classifier)
    BY <2>2 DEF Attached
  <2>5. DOMAIN acc.data \subseteq next_id .. acc.next - 1 /\ DOMAIN acc.classifiers \subseteq DOMAIN acc.data
    BY <2>3 DEF SoFar
  <2>6. /\ next_id \in Nat /\ DOMAIN classifier \subseteq 0 .. next_id - 1
        /\ DOMAIN cell_data \subseteq 0 .. next_id - 1
    BY DEF IInv, Counted
  <2>7. \A i \in next_id .. acc.next - 1 : i \notin 0 .. next_id - 1
    BY <2>6
  <2>8. \A tag \in DOMAIN acc.data : tag \notin DOMAIN classifier /\ tag \notin DOMAIN cell_data
    BY <2>5, <2>6, <2>7, Zenon
  <2>. QED
    BY <2>4, <2>5, <2>8 DEF CellsStay, Over
<1>6. CASE \/ next_module \/ Omit \/ interpret_type_generator \/ interpret_local_block \/ interpret_local_body
           \/ EndOfLocalBlock \/ interpret_complex_index \/ interpret_include_instr \/ interpret_local_index
           \/ interpret_assert \/ interpret_let_diag \/ interpret_type_index \/ interpret_include_module_instr
           \/ expand_for
  BY <1>1, <1>6 DEF cells, next_module, Omit, interpret_type_generator, interpret_local_block, interpret_local_body,
     EndOfLocalBlock, interpret_complex_index, interpret_include_instr, interpret_local_index, interpret_assert,
     interpret_let_diag, interpret_type_index, interpret_include_module_instr, expand_for
<1>7. CASE UNCHANGED vars
  BY <1>1, <1>7 DEF vars
<1>. QED
  BY <1>1, <1>2, <1>3, <1>4, <1>5, <1>6, <1>7 DEF Next

\* A cell of the store is what it was for good, and no identifier is given
\* twice: what maps and diagrams have of it by its tag stays true
\* (global_store.rs, GlobalId::fresh, extend_scope_with_attached_generators).
THEOREM StoreIsAppendOnly == Spec => [][CellsStay]_vars
<1>1. IInv /\ [Next]_vars => [CellsStay]_vars
  BY StepKeepsCells
<1>. QED
  BY <1>1, Inductive, PTL DEF Spec
=============================================================================
