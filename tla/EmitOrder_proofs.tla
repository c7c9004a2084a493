-------------------------- MODULE EmitOrder_proofs --------------------------
EXTENDS EmitOrder, FiniteSetTheorems, SequenceTheorems, WellFoundedInduction, TLAPS

-----------------------------------------------------------------------------
(* Sequences.                                                               *)

\* The least of a set of numbers.
LEMMA Least ==
  ASSUME NEW S, S \subseteq Nat, S # {}
  PROVE  \E n \in S : \A m \in S : n <= m
<1>1. PICK n \in S : \A m \in S : ~ (<<m, n>> \in OpToRel(<, Nat))
  BY NatLessThanWellFounded, WFMin
<1>2. \A m \in S : ~ (m < n)
  BY <1>1 DEF OpToRel
<1> QED
  BY <1>2

LEMMA ElementAt ==
  ASSUME NEW S, NEW s \in Seq(S), NEW i \in 1..Len(s)
  PROVE  s[i] \in Elements(s)
BY DEF Elements

LEMMA ElementsOf ==
  ASSUME NEW S, NEW s \in Seq(S)
  PROVE  /\ Elements(s) \subseteq S
         /\ s = <<>> <=> Elements(s) = {}
         /\ s # <<>> => /\ Head(s) \in Elements(s) /\ Tail(s) \in Seq(S)
                        /\ Elements(s) = {Head(s)} \cup Elements(Tail(s))
         /\ \A x \in S : Append(s, x) \in Seq(S) /\ Elements(Append(s, x)) = Elements(s) \cup {x}
<1>1. Elements(s) \subseteq S /\ (s = <<>> <=> Elements(s) = {})
  BY DEF Elements
<1>2. ASSUME s # <<>>
      PROVE  /\ Head(s) \in Elements(s) /\ Tail(s) \in Seq(S)
             /\ Elements(s) = {Head(s)} \cup Elements(Tail(s))
  <2>1. Len(s) \in Nat \ {0} /\ Head(s) = s[1] /\ Tail(s) \in Seq(S) /\ Len(Tail(s)) = Len(s) - 1
    BY <1>2
  <2>2. \A i \in 1..Len(Tail(s)) : Tail(s)[i] = s[i + 1]
    BY <1>2
  <2>3. ASSUME NEW i \in 1..Len(s) PROVE s[i] \in {Head(s)} \cup Elements(Tail(s))
    <3>1. CASE i = 1
      BY <2>1, <3>1
    <3>2. CASE i # 1
      <4>1. i - 1 \in 1..Len(Tail(s)) /\ (i - 1) + 1 = i
        BY <2>1, <3>2
      <4>2. Tail(s)[i - 1] = s[i]
        BY <2>2, <4>1
      <4>3. Tail(s)[i - 1] \in Elements(Tail(s))
        BY <2>1, <4>1, ElementAt
      <4> QED
        BY <4>2, <4>3
    <3> QED
      BY <3>1, <3>2
  <2>4. ASSUME NEW i \in 1..Len(Tail(s)) PROVE Tail(s)[i] \in Elements(s)
    <3>1. i + 1 \in 1..Len(s)
      BY <2>1
    <3> QED
      BY <2>2, <3>1 DEF Elements
  <2>5. Head(s) \in Elements(s)
    BY <2>1 DEF Elements
  <2>6. Elements(Tail(s)) \subseteq Elements(s)
    BY <2>1, <2>4 DEF Elements
  <2>7. Elements(s) \subseteq {Head(s)} \cup Elements(Tail(s))
    BY <2>3 DEF Elements
  <2> QED
    BY <2>1, <2>5, <2>6, <2>7
<1>3. ASSUME NEW x \in S
      PROVE  Append(s, x) \in Seq(S) /\ Elements(Append(s, x)) = Elements(s) \cup {x}
  <2>1. /\ Append(s, x) \in Seq(S) /\ Len(Append(s, x)) = Len(s) + 1
        /\ \A i \in 1..Len(s) : Append(s, x)[i] = s[i]
        /\ Append(s, x)[Len(s) + 1] = x
    OBVIOUS
  <2> QED
    BY <2>1 DEF Elements
<1> QED
  BY <1>1, <1>2, <1>3

\* The equation by which Keep defines what it has kept of the first entries.
KeptOf(f, s, S, n) ==
  f = [i \in 0..n |->
         IF i = 0 THEN <<>> ELSE IF s[i] \in S THEN Append(f[i - 1], s[i]) ELSE f[i - 1]]

LEMMA KeptExists ==
  ASSUME NEW s, NEW S, NEW n \in Nat
  PROVE  \E f : KeptOf(f, s, S, n)
<1> DEFINE bad == {m \in Nat : ~ \E f : KeptOf(f, s, S, m)}
<1>1. SUFFICES ASSUME bad # {} PROVE FALSE
  OBVIOUS
<1>2. PICK k \in bad : \A m \in bad : k <= m
  BY <1>1, Least
<1>3. CASE k = 0
  <2> DEFINE f == [i \in 0..0 |-> <<>>]
  <2>1. ASSUME NEW i \in 0..0
        PROVE  f[i] = IF i = 0 THEN <<>> ELSE IF s[i] \in S THEN Append(f[i - 1], s[i]) ELSE f[i - 1]
    <3>1. i = 0
      OBVIOUS
    <3> QED
      BY <3>1
  <2>2. KeptOf(f, s, S, 0)
    BY <2>1 DEF KeptOf
  <2> QED
    BY <1>3, <2>2
<1>4. CASE k # 0
  <2>1. k \in Nat /\ k - 1 \in Nat /\ ~ (k <= k - 1)
    BY <1>4
  <2>0. k - 1 \notin bad
    BY <1>2, <2>1
  <2>2. PICK g : KeptOf(g, s, S, k - 1)
    BY <2>0, <2>1
  <2> DEFINE f == [i \in 0..k |-> IF i = k THEN IF s[k] \in S THEN Append(g[k - 1], s[k]) ELSE g[k - 1] ELSE g[i]]
  <2>3. ASSUME NEW i \in 0..k
        PROVE  f[i] = IF i = 0 THEN <<>> ELSE IF s[i] \in S THEN Append(f[i - 1], s[i]) ELSE f[i - 1]
    <3>1. CASE i = k
      <4>1. f[k - 1] = g[k - 1] /\ i # 0
        BY <1>4, <2>1, <3>1
      <4> QED
        BY <3>1, <4>1
    <3>2. CASE i # k
      <4>1. i \in 0..(k - 1)
        BY <2>1, <3>2
      <4>2. g[i] = IF i = 0 THEN <<>> ELSE IF s[i] \in S THEN Append(g[i - 1], s[i]) ELSE g[i - 1]
        BY <2>2, <4>1 DEF KeptOf
      <4>3. i = 0 \/ f[i - 1] = g[i - 1]
        BY <2>1, <4>1
      <4> QED
        BY <3>2, <4>2, <4>3
    <3> QED
      BY <3>1, <3>2
  <2>4. KeptOf(f, s, S, k)
    BY <2>3 DEF KeptOf
  <2> QED
    BY <2>4
<1> QED
  BY <1>3, <1>4

LEMMA KeepKeeps ==
  ASSUME NEW T, NEW s \in Seq(T), NEW S
  PROVE  Keep(s, S) \in Seq(T) /\ Elements(Keep(s, S)) = Elements(s) \cap S
<1> DEFINE f == CHOOSE f : f = [i \in 0..Len(s) |->
             IF i = 0 THEN <<>> ELSE IF s[i] \in S THEN Append(f[i - 1], s[i]) ELSE f[i - 1]]
<1>1. Keep(s, S) = f[Len(s)]
  BY DEF Keep
<1>2. f = [i \in 0..Len(s) |->
             IF i = 0 THEN <<>> ELSE IF s[i] \in S THEN Append(f[i - 1], s[i]) ELSE f[i - 1]]
  <2>1. Len(s) \in Nat
    OBVIOUS
  <2>2. \E g : KeptOf(g, s, S, Len(s))
    BY <2>1, KeptExists
  <2> QED
    BY <2>2 DEF KeptOf
<1> HIDE DEF f
<1> DEFINE Right(i) == f[i] \in Seq(T) /\ Elements(f[i]) = {s[j] : j \in 1..i} \cap S
           bad == {i \in 0..Len(s) : ~ Right(i)}
<1>3. SUFFICES ASSUME bad # {} PROVE FALSE
  <2>1. Len(s) \in 0..Len(s) /\ Elements(s) = {s[j] : j \in 1..Len(s)}
    BY DEF Elements
  <2> QED
    BY <1>1, <2>1
<1>4. PICK n \in bad : \A m \in bad : n <= m
  <2>1. bad \subseteq Nat
    OBVIOUS
  <2> QED
    BY <1>3, <2>1, Least
<1>0. Len(s) \in Nat /\ n \in 0..Len(s) /\ ~ Right(n)
  OBVIOUS
<1>5. n # 0
  <2>1. f[0] = <<>>
    BY <1>0, <1>2
  <2>2. 1..0 = {} /\ Elements(<<>>) = {}
    BY DEF Elements
  <2>3. Right(0)
    BY <2>1, <2>2
  <2> QED
    BY <1>0, <2>3
<1>6. n - 1 \in 0..Len(s) /\ Right(n - 1) /\ s[n] \in T
  <2>1. n - 1 \in 0..Len(s) /\ ~ (n <= n - 1) /\ n \in 1..Len(s)
    BY <1>0, <1>5
  <2>2. n - 1 \notin bad
    BY <1>4, <2>1
  <2> QED
    BY <2>1, <2>2
<1>7. {s[j] : j \in 1..n} = {s[j] : j \in 1..(n - 1)} \cup {s[n]}
  <2>1. \A j : j \in 1..n <=> j \in 1..(n - 1) \/ j = n
    BY <1>0, <1>5
  <2> QED
    BY <2>1
<1>8. f[n] = IF s[n] \in S THEN Append(f[n - 1], s[n]) ELSE f[n - 1]
  BY <1>0, <1>2, <1>5
<1>9. Right(n)
  <2>1. CASE s[n] \in S
    <3>1. f[n] \in Seq(T) /\ Elements(f[n]) = Elements(f[n - 1]) \cup {s[n]}
      BY <1>6, <1>8, <2>1, ElementsOf
    <3> QED
      BY <1>6, <1>7, <2>1, <3>1
  <2>2. CASE s[n] \notin S
    BY <1>6, <1>7, <1>8, <2>2
  <2> QED
    BY <2>1, <2>2
<1> QED
  BY <1>0, <1>9

LEMMA SeqOfElements ==
  ASSUME NEW S, NEW s \in Seq(S), NEW T, Elements(s) \subseteq T
  PROVE  s \in Seq(T)
<1>1. Len(s) \in Nat /\ DOMAIN s = 1..Len(s)
  OBVIOUS
<1>2. \A i \in 1..Len(s) : s[i] \in T
  BY <1>1 DEF Elements
<1>3. s = [i \in 1..Len(s) |-> s[i]]
  OBVIOUS
<1> QED
  BY <1>1, <1>2, <1>3

-----------------------------------------------------------------------------
(* What is read off the headers.                                            *)

LEMMA TypedefsAreFinite == Cardinality(Typedef) \in Nat
<1>1. Typedef \subseteq Elements(Sorted) /\ Len(Sorted) \in Nat /\ DOMAIN Sorted = 1..Len(Sorted)
  BY SortedAssumption
<1>2. IsFiniteSet(1..Len(Sorted))
  BY <1>1, FS_Interval
<1>3. Sorted \in Surjection(1..Len(Sorted), Elements(Sorted))
  <2>1. Sorted \in [1..Len(Sorted) -> Elements(Sorted)]
    <3>1. Sorted = [i \in 1..Len(Sorted) |-> Sorted[i]]
      BY SortedAssumption
    <3>2. \A i \in 1..Len(Sorted) : Sorted[i] \in Elements(Sorted)
      BY <1>1 DEF Elements
    <3> QED
      BY <3>1, <3>2
  <2>2. \A x \in Elements(Sorted) : \E i \in 1..Len(Sorted) : Sorted[i] = x
    BY <1>1 DEF Elements
  <2> QED
    BY <2>1, <2>2 DEF Surjection
<1>4. IsFiniteSet(Elements(Sorted))
  BY <1>2, <1>3, FS_Surjection
<1>5. IsFiniteSet(Typedef)
  BY <1>1, <1>4, FS_Subset
<1> QED
  BY <1>5, FS_CardinalityType

\* The equation by which Base follows a chain of typedefs.
ChainOf(f, w, n, length) ==
  f = [k \in 0..length |->
         IF k = 0 THEN n
         ELSE LET m == f[k - 1]
              IN  IF m \in Typedef /\ w.expr[m].form = "alias" THEN w.expr[m].of ELSE m]

\* A chain ends at once at what is not another name of something.
LEMMA BaseStays ==
  ASSUME NEW w, NEW n, w.expr[n].form # "alias"
  PROVE  Base(w, n) = n
<1> DEFINE f == CHOOSE f : ChainOf(f, w, n, Cardinality(Typedef))
<1>1. Base(w, n) = f[Cardinality(Typedef)]
  BY DEF Base, ChainOf
<1>2. ChainOf(f, w, n, Cardinality(Typedef))
  <2> DEFINE g == [k \in 0..Cardinality(Typedef) |-> n]
  <2>1. ASSUME NEW k \in 0..Cardinality(Typedef)
        PROVE  g[k] = IF k = 0 THEN n
                      ELSE LET m == g[k - 1]
                           IN  IF m \in Typedef /\ w.expr[m].form = "alias" THEN w.expr[m].of ELSE m
    <3>1. k = 0 \/ g[k - 1] = n
      BY TypedefsAreFinite
    <3> QED
      BY <3>1
  <2>2. ChainOf(g, w, n, Cardinality(Typedef))
    BY <2>1 DEF ChainOf
  <2> QED
    BY <2>2
<1> HIDE DEF f
<1> DEFINE bad == {k \in 0..Cardinality(Typedef) : f[k] # n}
<1>3. SUFFICES ASSUME bad # {} PROVE FALSE
  BY <1>1, TypedefsAreFinite
<1>4. PICK k \in bad : \A m \in bad : k <= m
  <2>1. bad \subseteq Nat
    BY TypedefsAreFinite
  <2> QED
    BY <1>3, <2>1, Least
<1>5. k \in 0..Cardinality(Typedef) /\ f[k] # n /\ k # 0
  BY <1>2, TypedefsAreFinite DEF ChainOf
<1>6. k - 1 \in 0..Cardinality(Typedef) /\ k - 1 \notin bad
  BY <1>4, <1>5, TypedefsAreFinite
<1>7. f[k - 1] = n
  BY <1>6
<1>8. f[k] = IF f[k - 1] \in Typedef /\ w.expr[f[k - 1]].form = "alias" THEN w.expr[f[k - 1]].of ELSE f[k - 1]
  BY <1>2, <1>5 DEF ChainOf
<1> QED
  BY <1>5, <1>7, <1>8

-----------------------------------------------------------------------------
(* What the phases go through.                                              *)

LEMMA OrderMacros ==
  ASSUME NEW w \in Worlds
  PROVE  /\ Order(w, "macros") \in Seq(Macro)
         /\ Elements(Order(w, "macros")) = DOMAIN w.macro
<1>1. DOMAIN w.macro \subseteq Macro
  BY WorldsAssumption
<1>2. /\ Keep(Sorted, DOMAIN w.macro) \in Seq(Macro \cup Typedef)
      /\ Elements(Keep(Sorted, DOMAIN w.macro)) = Elements(Sorted) \cap DOMAIN w.macro
  BY SortedAssumption, KeepKeeps
<1>3. Order(w, "macros") = Keep(Sorted, DOMAIN w.macro)
  BY DEF Order
<1>4. Elements(Order(w, "macros")) = DOMAIN w.macro
  BY <1>1, <1>2, <1>3, SortedAssumption
<1> QED
  BY <1>1, <1>2, <1>3, <1>4, SeqOfElements

LEMMA OrderTypedefs ==
  ASSUME NEW w \in Worlds
  PROVE  /\ Order(w, "typedefs") \in Seq(Typedef)
         /\ Elements(Order(w, "typedefs")) = Elements(w.typedefOrder) \ Deferred(w)
<1>1. w.typedefOrder \in Seq(Typedef)
  BY WorldsAssumption
<1>2. /\ Keep(w.typedefOrder, Typedef \ Deferred(w)) \in Seq(Typedef)
      /\ Elements(Keep(w.typedefOrder, Typedef \ Deferred(w)))
           = Elements(w.typedefOrder) \cap (Typedef \ Deferred(w))
  BY <1>1, KeepKeeps
<1>3. Order(w, "typedefs") = Keep(w.typedefOrder, Typedef \ Deferred(w))
  BY DEF Order
<1>4. Elements(w.typedefOrder) \subseteq Typedef
  BY <1>1, ElementsOf
<1> QED
  BY <1>2, <1>3, <1>4

LEMMA OrderLayouts ==
  ASSUME NEW w \in Worlds
  PROVE  /\ Order(w, "layouts") \in Seq(Class)
         /\ Elements(Order(w, "layouts")) = Elements(w.structOrder) \ w.opaque
<1>1. w.structOrder \in Seq(Class)
  BY WorldsAssumption
<1>2. /\ Keep(w.structOrder, Class \ w.opaque) \in Seq(Class)
      /\ Elements(Keep(w.structOrder, Class \ w.opaque))
           = Elements(w.structOrder) \cap (Class \ w.opaque)
  BY <1>1, KeepKeeps
<1>3. Order(w, "layouts") = Keep(w.structOrder, Class \ w.opaque)
  BY DEF Order
<1>4. Elements(w.structOrder) \subseteq Class
  BY <1>1, ElementsOf
<1> QED
  BY <1>2, <1>3, <1>4

\* What a phase resolves is of one kind.
Kind(p) == CASE p = "macros" -> Macro [] p = "typedefs" -> Typedef [] p = "layouts" -> Class

Phases == {"macros", "typedefs", "layouts"}

LEMMA OrderOfKind ==
  ASSUME NEW w \in Worlds, NEW p \in Phases
  PROVE  Order(w, p) \in Seq(Kind(p)) /\ Elements(Order(w, p)) \subseteq Kind(p)
<1>1. Order(w, p) \in Seq(Kind(p))
  BY OrderMacros, OrderTypedefs, OrderLayouts DEF Kind, Phases
<1> QED
  BY <1>1, ElementsOf

LEMMA PendingIs ==
  ASSUME NEW w \in Worlds, NEW p \in Phases, NEW d
  PROVE  Pending(w, p, d) \in Seq(Kind(p)) /\ Elements(Pending(w, p, d)) = Elements(Order(w, p)) \ d
<1>1. /\ Keep(Order(w, p), Elements(Order(w, p)) \ d) \in Seq(Kind(p))
      /\ Elements(Keep(Order(w, p), Elements(Order(w, p)) \ d))
           = Elements(Order(w, p)) \cap (Elements(Order(w, p)) \ d)
  BY OrderOfKind, KeepKeeps
<1> QED
  BY <1>1 DEF Pending

\* The arrays of structs are not made of one another.
LEMMA DeferredNamesNoDeferred ==
  ASSUME NEW w \in Worlds, NEW t \in Deferred(w)
  PROVE  {w.expr[t].of} \cap (Typedef \cup Class)
           \subseteq Elements(Order(w, "typedefs")) \cup Elements(w.structOrder)
<1>1. t \in Elements(w.typedefOrder) /\ Base(w, w.expr[t].of) \in Elements(w.structOrder)
  BY DEF Deferred
<1>2. /\ w.expr[t].of \in Typedef => w.expr[t].of \in Elements(w.typedefOrder)
      /\ {w.expr[t].of} \cap Class \subseteq Elements(w.structOrder)
      /\ w.structOrder \in Seq(Class)
  BY <1>1, WorldsAssumption
<1>3. ASSUME w.expr[t].of \in Typedef PROVE w.expr[t].of \notin Deferred(w)
  <2>1. SUFFICES ASSUME w.expr[t].of \in Deferred(w) PROVE FALSE
    OBVIOUS
  <2>2. w.expr[w.expr[t].of].form = "array"
    BY <2>1 DEF Deferred
  <2>3. Base(w, w.expr[t].of) = w.expr[t].of
    BY <2>2, BaseStays
  <2>4. Elements(w.structOrder) \subseteq Class
    BY <1>2, ElementsOf
  <2> QED
    BY <1>1, <1>3, <2>3, <2>4, NamesApart
<1> QED
  BY <1>2, <1>3, OrderTypedefs

-----------------------------------------------------------------------------
(* The lines of types.py.                                                   *)

Line == [what : {"class", "typedef", "void", "layout"}, of : Typedef \cup Class]

Defining == {"class", "typedef", "void"}

\* What the lines of some kinds are about, all of them and those before line i.
All(o, kinds) == {o[j].of : j \in {k \in DOMAIN o : o[k].what \in kinds}}
Before(o, i, kinds) == {o[j].of : j \in {k \in 1..(i - 1) : o[k].what \in kinds}}

\* Names and Sizes, with their state as parameters.
NamesIn(w, line) ==
  CASE line.what = "typedef" -> {w.expr[line.of].of} \cap (Typedef \cup Class)
    [] line.what = "layout"  -> w.holds[line.of] \cup w.points[line.of]
    [] OTHER -> {}
SizesIn(w, x, line) ==
  CASE line.what = "layout" /\ line.of \notin x -> Seen(w, line.of) \ {line.of}
    [] line.what = "typedef" /\ w.expr[line.of].form = "array" ->
         ({Base(w, w.expr[line.of].of)} \cap Class) \ w.opaque
    [] OTHER -> {}

\* A line uses what earlier lines define and lay out.
Grounded(w, x, line, defined, laid) ==
  NamesIn(w, line) \subseteq defined /\ SizesIn(w, x, line) \subseteq laid

Sound(w, x, o) ==
  \A i \in DOMAIN o : Grounded(w, x, o[i], Before(o, i, Defining), Before(o, i, {"layout"}))

LEMMA SoundIs ==
  Sound(world, warned, out) <=> ImportsCleanly /\ SizesKnown
<1>1. \A i : Defined(i) = Before(out, i, Defining) /\ LaidOut(i) = Before(out, i, {"layout"})
  BY DEF Defined, LaidOut, Defines, Before, Defining
<1>2. \A line : Names(line) = NamesIn(world, line) /\ Sizes(line) = SizesIn(world, warned, line)
  BY DEF Names, NamesIn, Sizes, SizesIn
<1> QED
  BY <1>1, <1>2 DEF Sound, Grounded, ImportsCleanly, SizesKnown

LEMMA SoundMore ==
  ASSUME NEW w, NEW o, NEW x, NEW y, x \subseteq y, Sound(w, x, o)
  PROVE  Sound(w, y, o)
<1>1. \A line : SizesIn(w, y, line) \subseteq SizesIn(w, x, line)
  BY DEF SizesIn
<1> QED
  BY <1>1 DEF Sound, Grounded

LEMMA AllOf ==
  ASSUME NEW o \in Seq(Line), NEW y \in Seq(Line), NEW kinds
  PROVE  All(o \o y, kinds) = All(o, kinds) \cup All(y, kinds)
<1>1. /\ Len(o) \in Nat /\ Len(y) \in Nat /\ Len(o \o y) = Len(o) + Len(y)
      /\ DOMAIN o = 1..Len(o) /\ DOMAIN y = 1..Len(y) /\ DOMAIN (o \o y) = 1..(Len(o) + Len(y))
      /\ \A i \in 1..Len(o) : (o \o y)[i] = o[i]
      /\ \A i \in 1..Len(y) : (o \o y)[Len(o) + i] = y[i]
  OBVIOUS
<1>2. ASSUME NEW k \in DOMAIN (o \o y), (o \o y)[k].what \in kinds
      PROVE  (o \o y)[k].of \in All(o, kinds) \cup All(y, kinds)
  <2>1. CASE k \in 1..Len(o)
    BY <1>1, <1>2, <2>1 DEF All
  <2>2. CASE k \notin 1..Len(o)
    <3>1. k - Len(o) \in 1..Len(y) /\ Len(o) + (k - Len(o)) = k
      BY <1>1, <2>2
    <3>2. (o \o y)[k] = y[k - Len(o)]
      BY <1>1, <3>1
    <3> QED
      BY <1>1, <1>2, <3>1, <3>2 DEF All
  <2> QED
    BY <2>1, <2>2
<1>3. ASSUME NEW k \in DOMAIN o, o[k].what \in kinds
      PROVE  o[k].of \in All(o \o y, kinds)
  <2>1. k \in DOMAIN (o \o y) /\ (o \o y)[k] = o[k]
    BY <1>1
  <2> QED
    BY <1>3, <2>1 DEF All
<1>4. ASSUME NEW k \in DOMAIN y, y[k].what \in kinds
      PROVE  y[k].of \in All(o \o y, kinds)
  <2>1. Len(o) + k \in DOMAIN (o \o y) /\ (o \o y)[Len(o) + k] = y[k]
    BY <1>1
  <2> QED
    BY <1>4, <2>1 DEF All
<1>5. All(o \o y, kinds) \subseteq All(o, kinds) \cup All(y, kinds)
  BY <1>2 DEF All
<1>6. All(o, kinds) \subseteq All(o \o y, kinds) /\ All(y, kinds) \subseteq All(o \o y, kinds)
  BY <1>3, <1>4 DEF All
<1> QED
  BY <1>5, <1>6

LEMMA LinesAre ==
  ASSUME NEW what \in {"class", "typedef", "void", "layout"}, NEW names \in Seq(Typedef \cup Class)
  PROVE  /\ Lines(what, names) \in Seq(Line)
         /\ \A kinds : All(Lines(what, names), kinds) = IF what \in kinds THEN Elements(names) ELSE {}
         /\ \A i \in DOMAIN Lines(what, names) :
              Lines(what, names)[i].what = what /\ Lines(what, names)[i].of \in Elements(names)
<1>1. DOMAIN names = 1..Len(names) /\ Len(names) \in Nat /\ \A i \in 1..Len(names) : names[i] \in Typedef \cup Class
  OBVIOUS
<1>2. /\ DOMAIN Lines(what, names) = DOMAIN names
      /\ \A i \in DOMAIN names : Lines(what, names)[i] = [what |-> what, of |-> names[i]]
  BY DEF Lines
<1>3. Lines(what, names) \in Seq(Line)
  <2>1. \A i \in DOMAIN names : Lines(what, names)[i] \in Line
    BY <1>1, <1>2 DEF Line
  <2>2. Lines(what, names) = [i \in 1..Len(names) |-> Lines(what, names)[i]]
    BY <1>1 DEF Lines
  <2> QED
    BY <1>1, <2>1, <2>2
<1>4. ASSUME NEW kinds
      PROVE  All(Lines(what, names), kinds) = IF what \in kinds THEN Elements(names) ELSE {}
  BY <1>2 DEF All, Elements
<1>5. ASSUME NEW i \in DOMAIN Lines(what, names)
      PROVE  Lines(what, names)[i].what = what /\ Lines(what, names)[i].of \in Elements(names)
  BY <1>2 DEF Elements
<1> QED
  BY <1>3, <1>4, <1>5

LEMMA SoundExtends ==
  ASSUME NEW w, NEW x, NEW o \in Seq(Line), NEW y \in Seq(Line), Sound(w, x, o),
         \A i \in DOMAIN y : Grounded(w, x, y[i], All(o, Defining), All(o, {"layout"}))
  PROVE  Sound(w, x, o \o y)
<1>1. /\ Len(o) \in Nat /\ Len(y) \in Nat
      /\ DOMAIN o = 1..Len(o) /\ DOMAIN y = 1..Len(y) /\ DOMAIN (o \o y) = 1..(Len(o) + Len(y))
      /\ \A i \in 1..Len(o) : (o \o y)[i] = o[i]
      /\ \A i \in 1..Len(y) : (o \o y)[Len(o) + i] = y[i]
  OBVIOUS
<1>2. ASSUME NEW i \in 1..Len(o), NEW kinds
      PROVE  Before(o \o y, i, kinds) = Before(o, i, kinds)
  <2>1. \A k \in 1..(i - 1) : (o \o y)[k] = o[k]
    BY <1>1
  <2> QED
    BY <2>1 DEF Before
<1>3. ASSUME NEW i \in 1..Len(y), NEW kinds
      PROVE  All(o, kinds) \subseteq Before(o \o y, Len(o) + i, kinds)
  <2>1. \A k \in DOMAIN o : k \in 1..(Len(o) + i - 1) /\ (o \o y)[k] = o[k]
    BY <1>1
  <2> QED
    BY <2>1 DEF All, Before
<1>4. ASSUME NEW k \in DOMAIN (o \o y)
      PROVE  Grounded(w, x, (o \o y)[k], Before(o \o y, k, Defining), Before(o \o y, k, {"layout"}))
  <2>1. CASE k \in 1..Len(o)
    <3>1. Grounded(w, x, o[k], Before(o, k, Defining), Before(o, k, {"layout"}))
      BY <1>1, <2>1 DEF Sound
    <3> QED
      BY <1>1, <1>2, <2>1, <3>1
  <2>2. CASE k \notin 1..Len(o)
    <3> DEFINE i == k - Len(o)
    <3>1. i \in 1..Len(y) /\ Len(o) + i = k
      BY <1>1, <2>2
    <3>2. (o \o y)[k] = y[i]
      BY <1>1, <3>1
    <3>3. Grounded(w, x, y[i], All(o, Defining), All(o, {"layout"}))
      BY <1>1, <3>1
    <3>4. /\ All(o, Defining) \subseteq Before(o \o y, Len(o) + i, Defining)
          /\ All(o, {"layout"}) \subseteq Before(o \o y, Len(o) + i, {"layout"})
      BY <1>3, <3>1
    <3> QED
      BY <3>1, <3>2, <3>3, <3>4 DEF Grounded
  <2> QED
    BY <2>1, <2>2
<1> QED
  BY <1>4 DEF Sound

-----------------------------------------------------------------------------
(* The invariant.                                                           *)

\* A pass goes through names of its phase, and visits all that can be resolved
\* unless something was resolved since it began.
Resolving ==
  phase \in Phases =>
    /\ Elements(todo) \subseteq Elements(Order(world, phase))
    /\ progress \/ \A n \in Elements(Order(world, phase)) :
                     n \in done \cup Elements(todo) \/ ~ Ready(world, phase, n, done)
    /\ warned = {}

\* What the phases resolved stands in types.py as a line of its kind, and a
\* phase that is over has left nothing out.
Written ==
  /\ phase = "written" => todo = <<>>
  /\ phase = "macros" => out = <<>> /\ done \subseteq Macro
  /\ phase = "typedefs" => done \subseteq Macro \cup Typedef
  /\ done \cap Typedef \subseteq All(out, {"typedef"})
  /\ done \cap Class \subseteq All(out, {"layout"})
  /\ phase # "macros" => Elements(world.structOrder) \subseteq All(out, {"class"})
  /\ phase \in {"layouts", "written"} =>
       Elements(Order(world, "typedefs")) \subseteq All(out, {"typedef", "void"})

\* What is not resolved when a phase is over could not be.
Spent(p) ==
  \A n \in Elements(Order(world, p)) : n \in done \/ ~ Ready(world, p, n, done)

Over == [macros   |-> {"typedefs", "layouts", "written"},
         typedefs |-> {"layouts", "written"},
         layouts  |-> {"written"}]

Caused == \A p \in Phases : phase \in Over[p] /\ p \notin cut => Spent(p)

IInv == TypeOK /\ Resolving /\ Written /\ Sound(world, warned, out) /\ Caused

LEMMA OrderTyped ==
  ASSUME NEW w \in Worlds, NEW p \in Phases, NEW d
  PROVE  /\ Order(w, p) \in Seq(Macro \cup Typedef \cup Class)
         /\ Pending(w, p, d) \in Seq(Macro \cup Typedef \cup Class)
<1>1. Kind(p) \subseteq Macro \cup Typedef \cup Class
  BY DEF Kind, Phases
<1>2. /\ Order(w, p) \in Seq(Kind(p)) /\ Elements(Order(w, p)) \subseteq Macro \cup Typedef \cup Class
      /\ Pending(w, p, d) \in Seq(Kind(p)) /\ Elements(Pending(w, p, d)) \subseteq Macro \cup Typedef \cup Class
  BY <1>1, OrderOfKind, PendingIs
<1> QED
  BY <1>2, SeqOfElements

\* Resolving a name of another kind helps nothing that was not resolved.
LEMMA StillNotReady ==
  ASSUME NEW w \in Worlds, NEW p \in {"macros", "typedefs"}, NEW d, NEW n, n \notin Kind(p),
         NEW m \in Elements(Order(w, p)), ~ Ready(w, p, m, d)
  PROVE  ~ Ready(w, p, m, d \cup {n})
<1>1. CASE p = "macros"
  <2>1. m \in DOMAIN w.macro /\ n \notin Macro
    BY <1>1, OrderMacros DEF Kind
  <2>2. w.macro[m].uses \subseteq Macro
    BY <2>1, WorldsAssumption
  <2> QED
    BY <1>1, <2>1, <2>2 DEF Ready
<1>2. CASE p = "typedefs"
  <2>1. n \notin Typedef
    BY <1>2 DEF Kind
  <2> QED
    BY <1>2, <2>1 DEF Ready
<1> QED
  BY <1>1, <1>2

-----------------------------------------------------------------------------
(* Lines that are grounded.                                                 *)

LEMMA MoreKinds ==
  ASSUME NEW o
  PROVE  /\ All(o, {"class"}) \subseteq All(o, Defining)
         /\ All(o, {"typedef"}) \subseteq All(o, Defining)
         /\ All(o, {"typedef", "void"}) \subseteq All(o, Defining)
         /\ All(o, {"typedef"}) \subseteq All(o, {"typedef", "void"})
BY DEF All, Defining

LEMMA SeenAreClasses ==
  ASSUME NEW w, NEW c
  PROVE  Seen(w, c) \subseteq Elements(w.structOrder)
BY DEF Seen

LEMMA TypedefGrounded ==
  ASSUME NEW w \in Worlds, NEW x, NEW o, NEW d,
         Elements(w.structOrder) \subseteq All(o, {"class"}),
         d \cap Typedef \subseteq All(o, {"typedef"}),
         NEW n \in Elements(Order(w, "typedefs")), Ready(w, "typedefs", n, d),
         NEW line, line.what = "typedef", line.of = n
  PROVE  Grounded(w, x, line, All(o, Defining), All(o, {"layout"}))
<1>1. n \in Elements(w.typedefOrder) \ Deferred(w)
  BY OrderTypedefs
<1>2. /\ w.expr[n].of # n
      /\ {w.expr[n].of, Base(w, w.expr[n].of)} \cap Class \subseteq Elements(w.structOrder)
  BY <1>1, WorldsAssumption
<1>3. {w.expr[n].of} \cap Typedef \subseteq d
  BY <1>2 DEF Ready
<1>4. NamesIn(w, line) = {w.expr[n].of} \cap (Typedef \cup Class)
  BY DEF NamesIn
<1>5. NamesIn(w, line) \subseteq All(o, Defining)
  BY <1>2, <1>3, <1>4, MoreKinds
<1>6. SizesIn(w, x, line) = {}
  <2>1. ASSUME w.expr[n].form = "array" PROVE {Base(w, w.expr[n].of)} \cap Class = {}
    BY <1>1, <1>2, <2>1 DEF Deferred
  <2> QED
    BY <2>1 DEF SizesIn
<1> QED
  BY <1>5, <1>6 DEF Grounded

LEMMA LayoutGrounded ==
  ASSUME NEW w \in Worlds, NEW x, NEW o, NEW d,
         Elements(w.structOrder) \subseteq All(o, {"class"}),
         Elements(Order(w, "typedefs")) \subseteq All(o, {"typedef", "void"}),
         d \cap Class \subseteq All(o, {"layout"}),
         NEW n \in Elements(Order(w, "layouts")), n \in x \/ Ready(w, "layouts", n, d),
         NEW line, line.what = "layout", line.of = n
  PROVE  Grounded(w, x, line, All(o, Defining), All(o, {"layout"}))
<1>1. n \in Elements(w.structOrder) /\ w.structOrder \in Seq(Class)
  BY OrderLayouts, WorldsAssumption
<1>2. w.holds[n] \cup w.points[n]
        \subseteq (Elements(w.typedefOrder) \ Deferred(w)) \cup Elements(w.structOrder)
  BY <1>1, WorldsAssumption
<1>3. NamesIn(w, line) = w.holds[n] \cup w.points[n]
  BY DEF NamesIn
<1>4. NamesIn(w, line) \subseteq All(o, Defining)
  BY <1>2, <1>3, OrderTypedefs, MoreKinds
<1>5. SizesIn(w, x, line) \subseteq All(o, {"layout"})
  <2>1. CASE n \in x
    BY <2>1 DEF SizesIn
  <2>2. CASE n \notin x
    <3>1. SizesIn(w, x, line) = Seen(w, n) \ {n}
      BY <2>2 DEF SizesIn
    <3>2. Seen(w, n) \ {n} \subseteq d
      BY <2>2 DEF Ready
    <3>3. Seen(w, n) \subseteq Class
      BY <1>1, SeenAreClasses, ElementsOf
    <3> QED
      BY <3>1, <3>2, <3>3
  <2> QED
    BY <2>1, <2>2
<1> QED
  BY <1>4, <1>5 DEF Grounded

LEMMA ArrayGrounded ==
  ASSUME NEW w \in Worlds, NEW x, NEW o,
         Elements(w.structOrder) \subseteq All(o, {"class"}),
         Elements(Order(w, "typedefs")) \subseteq All(o, {"typedef", "void"}),
         Elements(Order(w, "layouts")) \subseteq All(o, {"layout"}),
         NEW t \in Deferred(w), NEW line, line.what = "typedef", line.of = t
  PROVE  Grounded(w, x, line, All(o, Defining), All(o, {"layout"}))
<1>1. NamesIn(w, line) = {w.expr[t].of} \cap (Typedef \cup Class)
  BY DEF NamesIn
<1>2. NamesIn(w, line) \subseteq All(o, Defining)
  BY <1>1, DeferredNamesNoDeferred, MoreKinds
<1>3. Base(w, w.expr[t].of) \in Elements(w.structOrder)
  BY DEF Deferred
<1>4. SizesIn(w, x, line) \subseteq Elements(Order(w, "layouts"))
  BY <1>3, OrderLayouts DEF SizesIn
<1> QED
  BY <1>2, <1>4 DEF Grounded

-----------------------------------------------------------------------------
(* The steps.                                                               *)

LEMMA InitHolds == Init => IInv
<1> SUFFICES ASSUME Init PROVE IInv
  OBVIOUS
<1> USE DEF Init
<1>1. TypeOK
  <2>1. Order(world, "macros") \in Seq(Macro \cup Typedef \cup Class)
    BY OrderTyped DEF Phases
  <2>2. out \in Seq(Line)
    OBVIOUS
  <2>3. pass \in Nat \ {0}
    OBVIOUS
  <2>4. progress \in BOOLEAN
    BY Zenon
  <2>5. /\ world \in Worlds /\ phase \in {"macros", "typedefs", "layouts", "written"}
        /\ todo \in Seq(Macro \cup Typedef \cup Class)
        /\ done \subseteq Macro \cup Typedef \cup Class
        /\ warned \subseteq Class /\ cut \subseteq {"macros", "typedefs", "layouts"}
    BY <2>1
  <2> HIDE DEF Init
  <2> QED
    BY <2>2, <2>3, <2>4, <2>5 DEF TypeOK, Line
<1>2. Resolving
  BY DEF Resolving
<1>3. Written
  BY DEF Written
<1>4. Sound(world, warned, out)
  BY DEF Sound
<1>5. Caused
  BY DEF Caused, Over, Phases
<1> QED
  BY <1>1, <1>2, <1>3, <1>4, <1>5 DEF IInv

\* One line more.
LEMMA OneLine ==
  ASSUME NEW what \in {"typedef", "layout"}, NEW n \in Typedef \cup Class, NEW o \in Seq(Line)
  PROVE  /\ Lines(what, <<n>>) \in Seq(Line)
         /\ o \o Lines(what, <<n>>) \in Seq(Line)
         /\ \A kinds : All(o \o Lines(what, <<n>>), kinds)
                         = All(o, kinds) \cup (IF what \in kinds THEN {n} ELSE {})
         /\ \A i \in DOMAIN Lines(what, <<n>>) :
              Lines(what, <<n>>)[i].what = what /\ Lines(what, <<n>>)[i].of = n
<1> DEFINE names == <<n>>
<1>1. names \in Seq(Typedef \cup Class) /\ Elements(names) = {n}
  BY DEF Elements
<1> HIDE DEF names
<1>2. /\ Lines(what, names) \in Seq(Line)
      /\ \A kinds : All(Lines(what, names), kinds) = IF what \in kinds THEN {n} ELSE {}
      /\ \A i \in DOMAIN Lines(what, names) :
           Lines(what, names)[i].what = what /\ Lines(what, names)[i].of \in {n}
  BY <1>1, LinesAre
<1>3. \A kinds : All(o \o Lines(what, names), kinds)
                   = All(o, kinds) \cup All(Lines(what, names), kinds)
  BY <1>2, AllOf
<1>4. o \o Lines(what, names) \in Seq(Line)
  BY <1>2
<1> QED
  BY <1>2, <1>3, <1>4 DEF names

LEMMA VisitKeeps == IInv /\ Visit => IInv'
<1> SUFFICES ASSUME IInv, Visit PROVE IInv'
  OBVIOUS
<1> DEFINE n == Head(todo)
<1>1. phase \in Phases /\ world \in Worlds /\ todo # <<>> /\ out \in Seq(Line)
  BY DEF IInv, Written, TypeOK, Visit, Phases, Line
<1>2. /\ todo' = Tail(todo) /\ phase' = phase /\ world' = world /\ pass' = pass
      /\ warned' = warned /\ cut' = cut
  BY DEF Visit
<1>3. /\ n \in Elements(todo) /\ Elements(todo) = {n} \cup Elements(todo')
      /\ todo' \in Seq(Macro \cup Typedef \cup Class)
  <2>1. todo \in Seq(Macro \cup Typedef \cup Class)
    BY DEF IInv, TypeOK
  <2> QED
    BY <1>1, <1>2, <2>1, ElementsOf
<1>4. /\ Elements(todo) \subseteq Elements(Order(world, phase))
      /\ warned = {}
      /\ progress \/ \A m \in Elements(Order(world, phase)) :
                       m \in done \cup Elements(todo) \/ ~ Ready(world, phase, m, done)
  BY <1>1 DEF IInv, Resolving
<1>5. n \in Elements(Order(world, phase)) /\ n \in Kind(phase)
  BY <1>1, <1>3, <1>4, OrderOfKind
<1> HIDE DEF n
<1>6. CASE ~ Ready(world, phase, n, done)
  <2>1. done' = done /\ progress' = progress /\ out' = out
    BY <1>6 DEF Visit, n
  <2>2. TypeOK'
    BY <1>2, <1>3, <2>1 DEF IInv, TypeOK
  <2>3. Resolving'
    <3>1. ASSUME ~ progress, NEW m \in Elements(Order(world, phase))
          PROVE  m \in done \cup Elements(todo') \/ ~ Ready(world, phase, m, done)
      BY <1>3, <1>4, <1>6, <3>1
    <3> QED
      BY <1>2, <1>3, <1>4, <2>1, <3>1 DEF Resolving
  <2>4. Written'
    BY <1>1, <1>2, <2>1 DEF IInv, Written, Phases
  <2>5. Sound(world, warned, out)' /\ Caused'
    BY <1>2, <2>1 DEF IInv, Caused, Spent
  <2> QED
    BY <2>2, <2>3, <2>4, <2>5 DEF IInv
<1>7. CASE Ready(world, phase, n, done)
  <2>1. /\ done' = done \cup {n} /\ progress' = TRUE
        /\ out' = CASE phase = "typedefs" -> out \o Lines("typedef", <<n>>)
                    [] phase = "layouts"  -> out \o Lines("layout", <<n>>)
                    [] OTHER -> out
    BY <1>7 DEF Visit, n
  <2>2. Resolving'
    BY <1>2, <1>3, <1>4, <2>1 DEF Resolving
  <2>3. Caused'
    <3>1. ASSUME NEW p \in Phases, phase \in Over[p], p \notin cut
          PROVE  Spent(p)'
      <4>1. Spent(p)
        BY <3>1 DEF IInv, Caused
      <4>2. p \in {"macros", "typedefs"} /\ p # phase
        BY <1>1, <3>1 DEF Over, Phases
      <4>3. n \notin Kind(p)
        BY <1>1, <1>5, <3>1, <4>2, NamesApart DEF Kind, Phases, Over
      <4>4. ASSUME NEW m \in Elements(Order(world, p))
            PROVE  m \in done \cup {n} \/ ~ Ready(world, p, m, done \cup {n})
        BY <1>1, <4>1, <4>2, <4>3, StillNotReady DEF Spent
      <4> QED
        BY <1>2, <2>1, <4>4 DEF Spent
    <3> QED
      BY <1>2, <3>1 DEF Caused
  <2>4. CASE phase = "macros"
    <3>1. n \in Macro /\ out' = out
      BY <1>5, <2>1, <2>4 DEF Kind
    <3>2. TypeOK'
      BY <1>2, <1>3, <2>1, <3>1 DEF IInv, TypeOK
    <3>3. Written'
      BY <1>2, <2>1, <2>4, <3>1, NamesApart DEF IInv, Written
    <3>4. Sound(world, warned, out)'
      BY <1>2, <3>1 DEF IInv
    <3> QED
      BY <2>2, <2>3, <3>2, <3>3, <3>4 DEF IInv
  <2>5. CASE phase = "typedefs"
    <3>1. n \in Typedef /\ n \notin Class /\ out' = out \o Lines("typedef", <<n>>)
      BY <1>5, <2>1, <2>5, NamesApart DEF Kind
    <3>2. /\ out' \in Seq(Line) /\ Lines("typedef", <<n>>) \in Seq(Line)
          /\ \A kinds : All(out', kinds) = All(out, kinds) \cup (IF "typedef" \in kinds THEN {n} ELSE {})
          /\ \A i \in DOMAIN Lines("typedef", <<n>>) :
               Lines("typedef", <<n>>)[i].what = "typedef" /\ Lines("typedef", <<n>>)[i].of = n
      <4>1. n \in Typedef \cup Class /\ out \in Seq(Line) /\ "typedef" \in {"typedef", "layout"}
        BY <1>1, <3>1
      <4>2. /\ Lines("typedef", <<n>>) \in Seq(Line)
            /\ out \o Lines("typedef", <<n>>) \in Seq(Line)
            /\ \A kinds : All(out \o Lines("typedef", <<n>>), kinds)
                            = All(out, kinds) \cup (IF "typedef" \in kinds THEN {n} ELSE {})
            /\ \A i \in DOMAIN Lines("typedef", <<n>>) :
                 Lines("typedef", <<n>>)[i].what = "typedef" /\ Lines("typedef", <<n>>)[i].of = n
        BY <4>1, OneLine, Zenon
      <4> QED
        BY <3>1, <4>2
    <3>3. TypeOK'
      BY <1>2, <1>3, <2>1, <3>1, <3>2 DEF IInv, TypeOK, Line
    <3>4. /\ done \subseteq Macro \cup Typedef
          /\ done \cap Typedef \subseteq All(out, {"typedef"})
          /\ done \cap Class \subseteq All(out, {"layout"})
          /\ Elements(world.structOrder) \subseteq All(out, {"class"})
      BY <2>5 DEF IInv, Written
    <3>5. /\ All(out', {"typedef"}) = All(out, {"typedef"}) \cup {n}
          /\ All(out', {"layout"}) = All(out, {"layout"})
          /\ All(out', {"class"}) = All(out, {"class"})
      BY <3>2
    <3>6. Written'
      BY <1>2, <2>1, <2>5, <3>1, <3>4, <3>5 DEF Written
    <3>7. Sound(world, warned, out)'
      <4>1. \A i \in DOMAIN Lines("typedef", <<n>>) :
               Grounded(world, warned, Lines("typedef", <<n>>)[i], All(out, Defining), All(out, {"layout"}))
        BY <1>1, <1>5, <1>7, <2>5, <3>2, <3>4, TypedefGrounded
      <4>2. Sound(world, warned, out \o Lines("typedef", <<n>>))
        BY <1>1, <3>2, <4>1, SoundExtends DEF IInv
      <4> QED
        BY <1>2, <3>1, <4>2
    <3> QED
      BY <2>2, <2>3, <3>3, <3>6, <3>7 DEF IInv
  <2>6. CASE phase = "layouts"
    <3>1. n \in Class /\ n \notin Typedef /\ out' = out \o Lines("layout", <<n>>)
      BY <1>5, <2>1, <2>6, NamesApart DEF Kind
    <3>2. /\ out' \in Seq(Line) /\ Lines("layout", <<n>>) \in Seq(Line)
          /\ \A kinds : All(out', kinds) = All(out, kinds) \cup (IF "layout" \in kinds THEN {n} ELSE {})
          /\ \A i \in DOMAIN Lines("layout", <<n>>) :
               Lines("layout", <<n>>)[i].what = "layout" /\ Lines("layout", <<n>>)[i].of = n
      <4>1. n \in Typedef \cup Class /\ out \in Seq(Line) /\ "layout" \in {"typedef", "layout"}
        BY <1>1, <3>1
      <4>2. /\ Lines("layout", <<n>>) \in Seq(Line)
            /\ out \o Lines("layout", <<n>>) \in Seq(Line)
            /\ \A kinds : All(out \o Lines("layout", <<n>>), kinds)
                            = All(out, kinds) \cup (IF "layout" \in kinds THEN {n} ELSE {})
            /\ \A i \in DOMAIN Lines("layout", <<n>>) :
                 Lines("layout", <<n>>)[i].what = "layout" /\ Lines("layout", <<n>>)[i].of = n
        BY <4>1, OneLine, Zenon
      <4> QED
        BY <3>1, <4>2
    <3>3. TypeOK'
      BY <1>2, <1>3, <2>1, <3>1, <3>2 DEF IInv, TypeOK, Line
    <3>4. /\ done \cap Typedef \subseteq All(out, {"typedef"})
          /\ done \cap Class \subseteq All(out, {"layout"})
          /\ Elements(world.structOrder) \subseteq All(out, {"class"})
          /\ Elements(Order(world, "typedefs")) \subseteq All(out, {"typedef", "void"})
      BY <2>6 DEF IInv, Written
    <3>5. /\ All(out', {"typedef"}) = All(out, {"typedef"})
          /\ All(out', {"layout"}) = All(out, {"layout"}) \cup {n}
          /\ All(out', {"class"}) = All(out, {"class"})
          /\ All(out', {"typedef", "void"}) = All(out, {"typedef", "void"})
      BY <3>2
    <3>6. Written'
      BY <1>2, <2>1, <2>6, <3>1, <3>4, <3>5 DEF Written
    <3>7. Sound(world, warned, out)'
      <4>1. \A i \in DOMAIN Lines("layout", <<n>>) :
               Grounded(world, warned, Lines("layout", <<n>>)[i], All(out, Defining), All(out, {"layout"}))
        BY <1>1, <1>5, <1>7, <2>6, <3>2, <3>4, LayoutGrounded
      <4>2. Sound(world, warned, out \o Lines("layout", <<n>>))
        BY <1>1, <3>2, <4>1, SoundExtends DEF IInv
      <4> QED
        BY <1>2, <3>1, <4>2
    <3> QED
      BY <2>2, <2>3, <3>3, <3>6, <3>7 DEF IInv
  <2> QED
    BY <1>1, <2>4, <2>5, <2>6 DEF Phases
<1> QED
  BY <1>6, <1>7

LEMMA NextPassKeeps == IInv /\ NextPass => IInv'
<1> SUFFICES ASSUME IInv, NextPass PROVE IInv'
  OBVIOUS
<1>1. phase \in Phases /\ world \in Worlds
  BY DEF IInv, TypeOK, NextPass, Phases
<1>2. /\ pass' = pass + 1 /\ todo' = Pending(world, phase, done) /\ progress' = FALSE
      /\ world' = world /\ phase' = phase /\ done' = done /\ out' = out
      /\ warned' = warned /\ cut' = cut
  BY DEF NextPass
<1>3. /\ todo' \in Seq(Macro \cup Typedef \cup Class)
      /\ Elements(todo') = Elements(Order(world, phase)) \ done
  BY <1>1, <1>2, OrderTyped, PendingIs
<1>4. TypeOK'
  <2>1. pass' \in Nat \ {0}
    BY <1>2 DEF IInv, TypeOK
  <2> QED
    BY <1>2, <1>3, <2>1 DEF IInv, TypeOK
<1>5. Resolving'
  BY <1>1, <1>2, <1>3 DEF IInv, Resolving
<1>6. Written'
  BY <1>1, <1>2 DEF IInv, Written, Phases
<1>7. Sound(world, warned, out)' /\ Caused'
  BY <1>2 DEF IInv, Caused, Spent
<1> QED
  BY <1>4, <1>5, <1>6, <1>7 DEF IInv

\* A phase that ends before its bound, or with nothing pending, has resolved
\* what can be resolved.
LEMMA EndSpends ==
  ASSUME IInv, NEW p \in Phases, EndPhase(p), p \notin cut'
  PROVE  Spent(p)
<1>1. world \in Worlds /\ phase = p /\ Elements(todo) = {}
  BY DEF IInv, TypeOK, EndPhase, Elements
<1>2. CASE ~ progress
  <2>1. \A n \in Elements(Order(world, p)) :
           n \in done \cup Elements(todo) \/ ~ Ready(world, p, n, done)
    BY <1>1, <1>2 DEF IInv, Resolving
  <2> QED
    BY <1>1, <2>1 DEF Spent
<1>3. CASE progress
  <2>1. Pending(world, p, done) = <<>>
    BY <1>3 DEF EndPhase, LastPass
  <2>2. Elements(Order(world, p)) \ done = {}
    BY <1>1, <2>1, PendingIs DEF Elements
  <2> QED
    BY <2>2 DEF Spent
<1> QED
  BY <1>2, <1>3

\* The end of a phase gives up nothing without cause.
LEMMA EndCaused ==
  ASSUME IInv, NEW p \in Phases, EndPhase(p),
         \A q \in Phases : phase' \in Over[q] => phase \in Over[q] \/ q = p
  PROVE  Caused'
<1>1. ASSUME NEW q \in Phases, phase' \in Over[q], q \notin cut' PROVE Spent(q)'
  <2>1. world' = world /\ done' = done /\ q \notin cut
    BY <1>1 DEF EndPhase
  <2>2. Spent(q)
    <3>1. CASE q = p
      BY <1>1, <3>1, EndSpends
    <3>2. CASE q # p
      BY <1>1, <2>1, <3>2 DEF IInv, Caused
    <3> QED
      BY <3>1, <3>2
  <2> QED
    BY <2>1, <2>2 DEF Spent
<1> QED
  BY <1>1 DEF Caused

LEMMA BeginKeeps ==
  ASSUME IInv, NEW p \in Phases, world' = world, Begin(p, world), warned' = {}
  PROVE  /\ pass' \in Nat \ {0} /\ progress' \in BOOLEAN
         /\ todo' \in Seq(Macro \cup Typedef \cup Class)
         /\ Resolving'
<1>1. world \in Worlds
  BY DEF IInv, TypeOK
<1>2. pass' = 1 /\ progress' = FALSE /\ todo' = Order(world, p) /\ phase' = p
  BY DEF Begin
<1>3. todo' \in Seq(Macro \cup Typedef \cup Class)
  BY <1>1, <1>2, OrderTyped
<1>4. Resolving'
  BY <1>2 DEF Resolving
<1>5. pass' \in Nat \ {0}
  BY <1>2
<1>6. progress' \in BOOLEAN
  BY <1>2, Zenon
<1> QED
  BY <1>3, <1>4, <1>5, <1>6

LEMMA EndMacrosKeeps == IInv /\ EndMacros => IInv'
<1> SUFFICES ASSUME IInv, EndMacros PROVE IInv'
  OBVIOUS
<1> DEFINE classes == Lines("class", world.structOrder)
<1>1. world \in Worlds /\ "macros" \in Phases /\ "typedefs" \in Phases
  BY DEF IInv, TypeOK, Phases
<1>2. /\ EndPhase("macros") /\ Begin("typedefs", world) /\ out' = classes /\ warned' = warned
      /\ world' = world /\ done' = done /\ phase = "macros" /\ phase' = "typedefs"
      /\ cut' \subseteq cut \cup {"macros"}
  BY DEF EndMacros, EndPhase, Begin
<1>3. warned = {} /\ done \subseteq Macro
  BY <1>1, <1>2 DEF IInv, Resolving, Written
<1>4. /\ pass' \in Nat \ {0} /\ progress' \in BOOLEAN
      /\ todo' \in Seq(Macro \cup Typedef \cup Class)
      /\ Resolving'
  BY <1>1, <1>2, <1>3, BeginKeeps
<1>5. /\ classes \in Seq(Line)
      /\ All(classes, {"class"}) = Elements(world.structOrder)
      /\ \A i \in DOMAIN classes : classes[i].what = "class"
  <2>1. world.structOrder \in Seq(Class)
    BY <1>1, WorldsAssumption
  <2>2. world.structOrder \in Seq(Typedef \cup Class)
    BY <2>1, ElementsOf, SeqOfElements
  <2>3. /\ classes \in Seq(Line)
        /\ \A kinds : All(classes, kinds) = IF "class" \in kinds THEN Elements(world.structOrder) ELSE {}
        /\ \A i \in DOMAIN classes : classes[i].what = "class"
    BY <2>2, LinesAre
  <2> QED
    BY <2>3
<1> HIDE DEF classes
<1>6. TypeOK'
  BY <1>2, <1>3, <1>4, <1>5 DEF IInv, TypeOK, Line
<1>7. Written'
  BY <1>2, <1>3, <1>5, NamesApart DEF Written
<1>8. Sound(world, warned, out)'
  <2>1. \A i \in DOMAIN classes :
           NamesIn(world, classes[i]) = {} /\ SizesIn(world, warned, classes[i]) = {}
    BY <1>5 DEF NamesIn, SizesIn
  <2>2. Sound(world, warned, classes)
    BY <2>1 DEF Sound, Grounded
  <2> QED
    BY <1>2, <2>2
<1>9. Caused'
  <2>1. \A q \in Phases : phase' \in Over[q] => phase \in Over[q] \/ q = "macros"
    BY <1>2 DEF Over, Phases
  <2> QED
    BY <1>1, <1>2, <2>1, EndCaused
<1> QED
  BY <1>4, <1>6, <1>7, <1>8, <1>9 DEF IInv

LEMMA EndTypedefsKeeps == IInv /\ EndTypedefs => IInv'
<1> SUFFICES ASSUME IInv, EndTypedefs PROVE IInv'
  OBVIOUS
<1> DEFINE left == Pending(world, "typedefs", done)
           voids == Lines("void", left)
<1>1. world \in Worlds /\ "typedefs" \in Phases /\ "layouts" \in Phases /\ out \in Seq(Line)
  BY DEF IInv, TypeOK, Phases, Line
<1>2. /\ EndPhase("typedefs") /\ Begin("layouts", world) /\ out' = out \o voids /\ warned' = warned
      /\ world' = world /\ done' = done /\ phase = "typedefs" /\ phase' = "layouts"
      /\ cut' \subseteq cut \cup {"typedefs"}
  BY DEF EndTypedefs, EndPhase, Begin
<1>3. warned = {}
  BY <1>1, <1>2 DEF IInv, Resolving
<1>4. /\ pass' \in Nat \ {0} /\ progress' \in BOOLEAN
      /\ todo' \in Seq(Macro \cup Typedef \cup Class)
      /\ Resolving'
  BY <1>1, <1>2, <1>3, BeginKeeps
<1>5. left \in Seq(Typedef) /\ Elements(left) = Elements(Order(world, "typedefs")) \ done
  BY <1>1, PendingIs DEF Kind
<1>6. /\ voids \in Seq(Line)
      /\ \A kinds : All(voids, kinds) = IF "void" \in kinds THEN Elements(left) ELSE {}
      /\ \A i \in DOMAIN voids : voids[i].what = "void"
  <2>1. left \in Seq(Typedef \cup Class)
    BY <1>5, ElementsOf, SeqOfElements
  <2> QED
    BY <2>1, LinesAre
<1> HIDE DEF voids, left
<1>7. /\ out' \in Seq(Line)
      /\ \A kinds : All(out', kinds) = All(out, kinds) \cup All(voids, kinds)
  BY <1>1, <1>2, <1>6, AllOf
<1>8. TypeOK'
  BY <1>2, <1>3, <1>4, <1>7 DEF IInv, TypeOK, Line
<1>9. Written'
  <2>1. /\ done \cap Typedef \subseteq All(out, {"typedef"})
        /\ done \cap Class \subseteq All(out, {"layout"})
        /\ Elements(world.structOrder) \subseteq All(out, {"class"})
    BY <1>2 DEF IInv, Written
  <2>2. /\ All(out, {"typedef"}) \subseteq All(out', {"typedef"})
        /\ All(out, {"layout"}) \subseteq All(out', {"layout"})
        /\ All(out, {"class"}) \subseteq All(out', {"class"})
        /\ All(out', {"typedef", "void"}) = All(out, {"typedef", "void"}) \cup Elements(left)
    BY <1>6, <1>7
  <2>3. Elements(Order(world, "typedefs")) \subseteq Typedef
    BY <1>1, OrderOfKind DEF Kind
  <2>4. Elements(Order(world, "typedefs")) \subseteq All(out', {"typedef", "void"})
    BY <1>5, <2>1, <2>2, <2>3, MoreKinds
  <2> QED
    BY <1>2, <2>1, <2>2, <2>4 DEF Written
<1>10. Sound(world, warned, out)'
  <2>1. \A i \in DOMAIN voids : Grounded(world, warned, voids[i], All(out, Defining), All(out, {"layout"}))
    BY <1>6 DEF Grounded, NamesIn, SizesIn
  <2>2. Sound(world, warned, out \o voids)
    BY <1>1, <1>6, <2>1, SoundExtends DEF IInv
  <2> QED
    BY <1>2, <2>2
<1>11. Caused'
  <2>1. \A q \in Phases : phase' \in Over[q] => phase \in Over[q] \/ q = "typedefs"
    BY <1>2 DEF Over, Phases
  <2> QED
    BY <1>1, <1>2, <2>1, EndCaused
<1> QED
  BY <1>4, <1>8, <1>9, <1>10, <1>11 DEF IInv

LEMMA EndLayoutsKeeps == IInv /\ EndLayouts => IInv'
<1> SUFFICES ASSUME IInv, EndLayouts PROVE IInv'
  OBVIOUS
<1> DEFINE left == Pending(world, "layouts", done)
           layouts == Lines("layout", left)
           arrays == Lines("typedef", Keep(Sorted, Deferred(world)))
<1>1. world \in Worlds /\ "layouts" \in Phases /\ out \in Seq(Line)
  BY DEF IInv, TypeOK, Phases, Line
<1>2. /\ EndPhase("layouts") /\ out' = (out \o layouts) \o arrays /\ warned' = Elements(left)
      /\ world' = world /\ done' = done /\ phase = "layouts" /\ phase' = "written"
      /\ pass' = pass /\ todo' = todo /\ progress' = progress /\ todo = <<>>
      /\ cut' \subseteq cut \cup {"layouts"}
  BY DEF EndLayouts, EndPhase
<1>3. /\ warned = {}
      /\ done \cap Typedef \subseteq All(out, {"typedef"})
      /\ done \cap Class \subseteq All(out, {"layout"})
      /\ Elements(world.structOrder) \subseteq All(out, {"class"})
      /\ Elements(Order(world, "typedefs")) \subseteq All(out, {"typedef", "void"})
  BY <1>1, <1>2 DEF IInv, Resolving, Written
<1>4. left \in Seq(Class) /\ Elements(left) = Elements(Order(world, "layouts")) \ done
  BY <1>1, PendingIs DEF Kind
<1>5. /\ layouts \in Seq(Line)
      /\ \A kinds : All(layouts, kinds) = IF "layout" \in kinds THEN Elements(left) ELSE {}
      /\ \A i \in DOMAIN layouts : layouts[i].what = "layout" /\ layouts[i].of \in Elements(left)
  <2>1. left \in Seq(Typedef \cup Class)
    BY <1>4, ElementsOf, SeqOfElements
  <2> QED
    BY <2>1, LinesAre
<1>6. /\ arrays \in Seq(Line)
      /\ \A i \in DOMAIN arrays : arrays[i].what = "typedef" /\ arrays[i].of \in Deferred(world)
  <2> DEFINE names == Keep(Sorted, Deferred(world))
  <2>1. names \in Seq(Macro \cup Typedef) /\ Elements(names) = Elements(Sorted) \cap Deferred(world)
    BY SortedAssumption, KeepKeeps
  <2>2. Deferred(world) \subseteq Typedef
    <3>1. world.typedefOrder \in Seq(Typedef)
      BY <1>1, WorldsAssumption
    <3> QED
      BY <3>1, ElementsOf DEF Deferred
  <2>3. Elements(names) \subseteq Deferred(world) /\ Elements(names) \subseteq Typedef \cup Class
    BY <2>1, <2>2
  <2> HIDE DEF names
  <2>4. names \in Seq(Typedef \cup Class)
    BY <2>1, <2>3, SeqOfElements
  <2>5. /\ Lines("typedef", names) \in Seq(Line)
        /\ \A i \in DOMAIN Lines("typedef", names) :
             /\ Lines("typedef", names)[i].what = "typedef"
             /\ Lines("typedef", names)[i].of \in Elements(names)
    BY <2>4, LinesAre
  <2> QED
    BY <2>3, <2>5 DEF names
<1> HIDE DEF layouts, arrays, left
<1> DEFINE most == out \o layouts
<1>7. /\ most \in Seq(Line)
      /\ \A kinds : All(most, kinds) = All(out, kinds) \cup All(layouts, kinds)
  BY <1>1, <1>5, AllOf
<1>8. Sound(world, Elements(left), most)
  <2>1. \A i \in DOMAIN layouts :
           Grounded(world, Elements(left), layouts[i], All(out, Defining), All(out, {"layout"}))
    BY <1>1, <1>3, <1>4, <1>5, LayoutGrounded
  <2>2. Sound(world, Elements(left), out)
    BY <1>3, SoundMore DEF IInv
  <2> QED
    BY <1>1, <1>5, <2>1, <2>2, SoundExtends
<1>9. /\ Elements(world.structOrder) \subseteq All(most, {"class"})
      /\ Elements(Order(world, "typedefs")) \subseteq All(most, {"typedef", "void"})
      /\ Elements(Order(world, "layouts")) \subseteq All(most, {"layout"})
      /\ All(out, {"layout"}) \subseteq All(most, {"layout"})
      /\ All(out, {"typedef"}) \subseteq All(most, {"typedef"})
  <2>1. Elements(Order(world, "layouts")) \subseteq Class
    BY <1>1, OrderOfKind DEF Kind
  <2>2. All(most, {"layout"}) = All(out, {"layout"}) \cup Elements(left)
    BY <1>5, <1>7
  <2> QED
    BY <1>3, <1>4, <1>7, <2>1, <2>2
<1> HIDE DEF most
<1>10. out' = most \o arrays
  BY <1>2 DEF most
<1>11. /\ out' \in Seq(Line)
       /\ \A kinds : All(out', kinds) = All(most, kinds) \cup All(arrays, kinds)
  BY <1>6, <1>7, <1>10, AllOf
<1>12. TypeOK'
  <2>1. Elements(left) \subseteq Class
    BY <1>4, ElementsOf
  <2> QED
    BY <1>2, <1>11, <2>1 DEF IInv, TypeOK, Line
<1>13. Resolving'
  BY <1>2 DEF Resolving, Phases
<1>14. Written'
  <2>1. /\ done \cap Typedef \subseteq All(out', {"typedef"})
        /\ done \cap Class \subseteq All(out', {"layout"})
        /\ Elements(world.structOrder) \subseteq All(out', {"class"})
        /\ Elements(Order(world, "typedefs")) \subseteq All(out', {"typedef", "void"})
    BY <1>3, <1>9, <1>11
  <2> QED
    BY <1>2, <2>1 DEF Written
<1>15. Sound(world, warned, out)'
  <2>1. \A i \in DOMAIN arrays :
           Grounded(world, Elements(left), arrays[i], All(most, Defining), All(most, {"layout"}))
    BY <1>1, <1>6, <1>9, ArrayGrounded
  <2>2. Sound(world, Elements(left), most \o arrays)
    BY <1>6, <1>7, <1>8, <2>1, SoundExtends
  <2> QED
    BY <1>2, <1>10, <2>2
<1>16. Caused'
  <2>1. \A q \in Phases : phase' \in Over[q] => phase \in Over[q] \/ q = "layouts"
    BY <1>2 DEF Over, Phases
  <2> QED
    BY <1>1, <1>2, <2>1, EndCaused
<1> QED
  BY <1>12, <1>13, <1>14, <1>15, <1>16 DEF IInv

-----------------------------------------------------------------------------
(* Theorems.                                                                *)

LEMMA Invariance == Spec => []IInv
<1>1. IInv /\ [Next]_vars => IInv'
  <2> SUFFICES ASSUME IInv, [Next]_vars PROVE IInv'
    OBVIOUS
  <2>1. CASE UNCHANGED vars
    BY <2>1 DEF vars, IInv, TypeOK, Resolving, Written, Sound, Caused, Spent
  <2> QED
    BY <2>1, VisitKeeps, NextPassKeeps, EndMacrosKeeps, EndTypedefsKeeps, EndLayoutsKeeps DEF Next
<1> QED
  BY <1>1, InitHolds, PTL DEF Spec

\* The variables of emit() keep their types: what is pending in a pass, what
\* is resolved and the lines of types.py are names the headers declare.
THEOREM TypeCorrect == Spec => []TypeOK
<1>1. IInv => TypeOK
  BY DEF IInv
<1> QED
  BY <1>1, Invariance, PTL

\* Importing the generated types.py raises no NameError, whatever the headers
\* declare in whatever order, and however few passes emit() makes: no line
\* names what no line before it defines (gen_bindings.py:873-982).
THEOREM ImportsCleanlyHolds == Spec => []ImportsCleanly
<1>1. IInv => ImportsCleanly
  BY SoundIs DEF IInv
<1> QED
  BY <1>1, Invariance, PTL

\* When types.py is imported, ctypes takes the size of a struct or of an array
\* of structs only after the layouts it depends on were set, but for the
\* structs the WARNING line names (gen_bindings.py:878-896 and 918-982).
THEOREM SizesKnownHolds == Spec => []SizesKnown
<1>1. IInv => SizesKnown
  BY SoundIs DEF IInv
<1> QED
  BY <1>1, Invariance, PTL

\* emit() drops a macro, turns a typedef into void* or reports a struct only
\* if it waits for another that it gives up, unless the loop used up its
\* passes: the order of the headers loses nothing (gen_bindings.py:828-839,
\* 897-915 and 941-955).
THEOREM GivenUpForCauseHolds == Spec => []GivenUpForCause
<1>1. IInv => GivenUpForCause
  <2> SUFFICES ASSUME IInv, NEW p \in Phases, phase \in Over[p], p \notin cut,
                      NEW i \in DOMAIN Order(world, p)
               PROVE  Order(world, p)[i] \in done \/ ~ Ready(world, p, Order(world, p)[i], done)
    BY DEF GivenUpForCause, Over, Phases
  <2>1. Order(world, p)[i] \in Elements(Order(world, p))
    BY DEF Elements
  <2> QED
    BY <2>1 DEF IInv, Caused, Spent
<1> QED
  BY <1>1, Invariance, PTL
=============================================================================
