--------------------------- MODULE Loader_proofs ---------------------------
(***************************************************************************)
(* Theorems about LoadOrder and about Loader, which runs it, for every      *)
(* directory, every dependency graph and every host.                        *)
(*                                                                         *)
(* What is said of _load_order follows from one inductive invariant, IInv.  *)
(* Its parts say what the recursion has established so far: which           *)
(* dependencies a frame has already seen through (FramesExplored), that a   *)
(* frame reaches every frame above it (ChainReaches), and that every file   *)
(* that was entered is needed by a root that sorts no later than anything   *)
(* still to come out (RootedEarly).                                         *)
(*                                                                         *)
(* What is said of a FreeRDP object follows from LoaderInv, which holds     *)
(* IInv.  Its parts say that whatever some order would let the linker open  *)
(* is mapped when its turn is over (Opened, by OpensWhatIsLoadable), that a *)
(* name is attributed to a library that defines it (Attributed, by          *)
(* ShownIsOwnOrClaimed), that nothing a bound handle shows is left out      *)
(* (Bound), and by which rule the last access was served                    *)
(* (ServedAsProvided).                                                      *)
(***************************************************************************)
EXTENDS Loader, Integers, SequenceTheorems, FiniteSetTheorems, WellFoundedInduction, TLAPS

USE DEF Elements

\* Whatever is out of the way of the loop over the roots was entered.
RootsEntered == Files \ todo \subseteq seen \cup visiting

\* A path that was never entered has its iterator at the start.
FreshIterators == \A f \in Files \ (seen \cup visiting) : next[f] = 1

Bookkeeping ==
  /\ seen = Elements(ordered)
  /\ visiting \cap seen = {}
  /\ visiting = Elements(stack)
  /\ \A i, j \in DOMAIN stack : stack[i] = stack[j] => i = j
  /\ \A i, j \in DOMAIN ordered : ordered[i] = ordered[j] => i = j

ChainReaches ==
  \A i, j \in DOMAIN stack : i <= j => Reaches(stack[i], stack[j])

\* A dependency that frame k has looked at is out, is a frame no higher
\* than k, or is the frame that k called.
FramesExplored ==
  \A k \in DOMAIN stack :
    \A n \in 1 .. Len(info[stack[k]].needed) :
      n < next[stack[k]] =>
        \A d \in BySoname(info[stack[k]].needed[n]) :
          \/ d \in seen
          \/ \E m \in DOMAIN stack : m <= k + 1 /\ stack[m] = d

RootedEarly ==
  /\ \A x \in visiting : \E h \in Files :
       Reaches(h, x) /\ \A g \in Files \ seen : SortsBefore(h, g)
  /\ \A i \in DOMAIN ordered : \E h \in Files :
       /\ Reaches(h, ordered[i])
       /\ \A g \in Files \ {ordered[k] : k \in 1 .. i - 1} : SortsBefore(h, g)

ChainEdges == \A i \in 1 .. Len(stack) - 1 : stack[i + 1] \in Deps(stack[i])

IInv ==
  /\ TypeOK
  /\ RootsEntered
  /\ FreshIterators
  /\ Bookkeeping
  /\ ChainEdges
  /\ ChainReaches
  /\ FramesExplored
  /\ RootedEarly
  /\ DependenciesFirst
-----------------------------------------------------------------------------
(***************************************************************************)
(* A sequence with one element more, and with its last element removed: the *)
(* push and the pop of the call stack, and the append to `ordered`.         *)
(***************************************************************************)
LEMMA PushProperties ==
  ASSUME NEW S, NEW s \in Seq(S), NEW e \in S, NEW t, t = Append(s, e)
  PROVE  /\ t \in Seq(S)
         /\ Len(t) = Len(s) + 1
         /\ DOMAIN s = 1 .. Len(s)
         /\ DOMAIN t = DOMAIN s \cup {Len(s) + 1}
         /\ Len(s) + 1 \notin DOMAIN s
         /\ \A i \in DOMAIN s : t[i] = s[i]
         /\ t[Len(s) + 1] = e
OBVIOUS

LEMMA PoppedStack ==
  ASSUME stack \in Seq(Files), stack # << >>
  PROVE  LET t == SubSeq(stack, 1, Len(stack) - 1)
         IN  /\ t \in Seq(Files) /\ Len(t) = Len(stack) - 1
             /\ DOMAIN stack = 1 .. Len(stack) /\ DOMAIN t = DOMAIN stack \ {Len(stack)}
             /\ \A i \in DOMAIN t : t[i] = stack[i]
<1> DEFINE n == Len(stack) - 1
           t == SubSeq(stack, 1, n)
<1>1. n \in Nat /\ Len(stack) = n + 1
  OBVIOUS
<1>2. \A i \in 1 .. n : stack[i] \in Files
  OBVIOUS
<1>3. t = SubSeq(stack, 1, n) /\ n = Len(stack) - 1
  OBVIOUS
<1> HIDE DEF n, t
<1>4. /\ t \in Seq(Files)
      /\ Len(t) = IF 1 <= n THEN n - 1 + 1 ELSE 0
      /\ \A i \in 1 .. n - 1 + 1 : t[i] = stack[1 + i - 1]
  BY <1>1, <1>2, <1>3, SubSeqProperties
<1>5. Len(t) = n
  BY <1>1, <1>4
<1>6. DOMAIN t = 1 .. n /\ DOMAIN stack = 1 .. n + 1
  BY <1>1, <1>4, <1>5, LenProperties
<1>7. \A i \in 1 .. n : i \in 1 .. n - 1 + 1 /\ 1 + i - 1 = i
  BY <1>1
<1>8. \A i \in DOMAIN t : t[i] = stack[i]
  BY <1>4, <1>6, <1>7
<1>9. DOMAIN t = DOMAIN stack \ {Len(stack)}
  BY <1>1, <1>6
<1>10. SubSeq(stack, 1, Len(stack) - 1) = t
  BY <1>3
<1> QED BY <1>1, <1>4, <1>5, <1>6, <1>8, <1>9, <1>10

(***************************************************************************)
(* What a key of by_soname maps to is a file of the listing.                *)
(***************************************************************************)
LEMMA BySonameInFiles == \A name : BySoname(name) \subseteq Files
BY DEF BySoname

\* It maps to one file: Place orders the listing.
LEMMA OneProvider ==
  ASSUME NEW name, NEW f \in BySoname(name), NEW g \in BySoname(name)
  PROVE  f = g
<1>1. f \in Files /\ g \in Files /\ Place[f] <= Place[g] /\ Place[g] <= Place[f]
  BY DEF BySoname
<1>2. Place[f] \in Nat /\ Place[g] \in Nat
  BY <1>1, PlaceAssumption
<1>3. Place[f] = Place[g]
  BY <1>1, <1>2
<1> QED BY <1>1, <1>3, PlaceAssumption

LEMMA DepsInFiles == \A f : Deps(f) \subseteq Files
BY BySonameInFiles DEF Deps

(***************************************************************************)
(* Reachability contains the dependency edges and is reflexive; one more    *)
(* edge may be added at its end.                                            *)
(***************************************************************************)
LEMMA ReachesSelf == ASSUME NEW f \in Files PROVE Reaches(f, f)
BY DEF Reaches, Abstract!ReachedBy

LEMMA ReachesStep ==
  ASSUME NEW f \in Files, NEW g \in Files, NEW d \in Deps(g), Reaches(f, g)
  PROVE  Reaches(f, d)
BY DEF Reaches, Abstract!ReachedBy, Abstract!ClosedUnder, Edges

\* What a frame iterates over.
LEMMA Iterators ==
  ASSUME IInv
  PROVE  \A x \in Files : /\ next[x] \in Nat \ {0}
                         /\ Len(info[x].needed) \in Nat
                         /\ DOMAIN info[x].needed = 1 .. Len(info[x].needed)
<1>1. next \in [Files -> Nat \ {0}] /\ info \in InfoType
  BY DEF IInv, TypeOK
<1> SUFFICES ASSUME NEW x \in Files
             PROVE  /\ next[x] \in Nat \ {0}
                    /\ Len(info[x].needed) \in Nat
                    /\ DOMAIN info[x].needed = 1 .. Len(info[x].needed)
  OBVIOUS
<1>2. info[x].needed \in Seq(Names)
  BY <1>1 DEF InfoType
<1> QED BY <1>1, <1>2

(***************************************************************************)
(* Nothing that depends on info changes, because info does not.             *)
(***************************************************************************)
LEMMA InfoFixed ==
  ASSUME info' = info
  PROVE  /\ \A name : BySoname(name)' = BySoname(name)
         /\ \A f : Deps(f)' = Deps(f)
         /\ Edges' = Edges
         /\ \A f, g : Reaches(f, g)' = Reaches(f, g)
<1>1. \A f : Keys(f)' = Keys(f)
  BY DEF Keys
<1>2. \A name : BySoname(name)' = BySoname(name)
  BY <1>1 DEF BySoname
<1>3. \A f : Deps(f)' = Deps(f)
  BY <1>2 DEF Deps
<1>4. Edges' = Edges
  BY <1>3 DEF Edges
<1>5. \A f, g : Reaches(f, g)' = Reaches(f, g)
  BY <1>4 DEF Reaches, Abstract!ReachedBy, Abstract!ClosedUnder
<1> QED BY <1>2, <1>3, <1>4, <1>5
-----------------------------------------------------------------------------
(***************************************************************************)
(* Type correctness is preserved by each action, and needs nothing but      *)
(* itself.                                                                  *)
(***************************************************************************)
LEMMA TypeInductive == TypeOK /\ [Next]_vars => TypeOK'
<1> SUFFICES ASSUME TypeOK, [Next]_vars PROVE TypeOK'
  OBVIOUS
<1> USE DEF TypeOK
<1>0. ASSUME NEW d \in Files, Enter(d)
      PROVE  visiting' \subseteq Files /\ stack' \in Seq(Files)
  <2>1. CASE d \in seen \cup visiting
    BY <1>0, <2>1 DEF Enter
  <2>2. CASE d \notin seen \cup visiting
    <3>1. visiting' = visiting \cup {d} /\ stack' = Append(stack, d)
      BY <1>0, <2>2 DEF Enter
    <3> QED BY <3>1, PushProperties
  <2> QED BY <2>1, <2>2
<1>1. ASSUME NEW f \in Files, NextRoot(f) PROVE TypeOK'
  BY <1>0, <1>1 DEF NextRoot
<1>2. CASE LookAtDep
  <2>1. Top \in Files
    BY <1>2 DEF LookAtDep, Top
  <2>2. next' \in [Files -> Nat \ {0}]
    BY <1>2, <2>1 DEF LookAtDep
  <2> QED BY <1>0, <1>2, <2>2, BySonameInFiles DEF LookAtDep
<1>3. CASE Return
  <2>1. Top \in Files
    BY <1>3 DEF Return, Top
  <2>2. SubSeq(stack, 1, Len(stack) - 1) \in Seq(Files)
    BY <1>3 DEF Return
  <2> QED BY <1>3, <2>1, <2>2 DEF Return
<1>4. CASE UNCHANGED vars
  BY <1>4 DEF vars
<1> QED BY <1>1, <1>2, <1>3, <1>4 DEF Next

(***************************************************************************)
(* The state of _load_order stays within its types.                         *)
(***************************************************************************)
THEOREM TypeCorrect == Spec => []TypeOK
<1>1. Init => TypeOK
  BY InfosAssumption DEF Init, TypeOK
<1> QED BY <1>1, TypeInductive, PTL DEF Spec
-----------------------------------------------------------------------------
(***************************************************************************)
(* A root: nothing is on the stack, so everything taken from todo is out,   *)
(* and the new root sorts before everything that is not.                    *)
(***************************************************************************)
LEMMA NextRootKeepsIInv ==
  ASSUME IInv, NEW f \in Files, NextRoot(f)
  PROVE  IInv'
<1> USE DEF IInv
<1>1. TypeOK'
  BY TypeInductive DEF Next
<1>2. /\ info' = info /\ next' = next /\ seen' = seen /\ ordered' = ordered
      /\ todo' = todo \ {f} /\ f \in todo /\ stack = << >> /\ Enter(f)
  BY DEF NextRoot
<1>3. visiting = {}
  BY <1>2 DEF Bookkeeping
<1>4. /\ \A name : BySoname(name)' = BySoname(name)
      /\ \A x : Deps(x)' = Deps(x)
      /\ \A x, y : Reaches(x, y)' = Reaches(x, y)
  BY <1>2, InfoFixed
<1>5. DependenciesFirst'
  BY <1>2, <1>4 DEF DependenciesFirst
<1>6. \A x, y : SortsBefore(x, y)' = SortsBefore(x, y)
  BY DEF SortsBefore, Rank
<1>7. CASE f \in seen
  <2>1. stack' = stack /\ visiting' = visiting
    BY <1>2, <1>7 DEF Enter
  <2>2. RootsEntered'
    BY <1>2, <1>7, <2>1 DEF RootsEntered
  <2>3. FreshIterators' /\ Bookkeeping' /\ ChainEdges' /\ ChainReaches' /\ FramesExplored'
    BY <1>2, <1>3, <2>1 DEF FreshIterators, Bookkeeping, ChainEdges, ChainReaches,
                            FramesExplored
  <2>4. RootedEarly'
    BY <1>2, <1>4, <1>6, <2>1 DEF RootedEarly
  <2> QED BY <1>1, <1>5, <2>2, <2>3, <2>4
<1>8. CASE f \notin seen
  <2>1. stack' = Append(stack, f) /\ visiting' = {f}
    BY <1>2, <1>3, <1>8 DEF Enter
  <2>2. /\ Len(stack') = 1
        /\ DOMAIN stack' = {1}
        /\ stack'[1] = f
    BY <1>2, <2>1
  <2>3. RootsEntered'
    BY <1>2, <1>3, <2>1 DEF RootsEntered
  <2>4. FreshIterators'
    BY <1>2, <1>3, <2>1 DEF FreshIterators
  <2>5. Bookkeeping'
    BY <1>2, <1>8, <2>1, <2>2 DEF Bookkeeping
  <2>6. ChainEdges'
    BY <2>2 DEF ChainEdges
  <2>7. ChainReaches'
    BY <1>4, <2>2, ReachesSelf DEF ChainReaches
  <2>8. FramesExplored'
    BY <1>2, <1>3, <1>8, <2>2 DEF FramesExplored, FreshIterators
  <2>9. RootedEarly'
    <3>1. \A g \in Files \ seen : SortsBefore(f, g)
      BY <1>3 DEF NextRoot, RootsEntered
    <3>2. Reaches(f, f)
      BY ReachesSelf
    <3> QED BY <1>2, <1>4, <1>6, <2>1, <3>1, <3>2 DEF RootedEarly
  <2> QED BY <1>1, <1>5, <2>3, <2>4, <2>5, <2>6, <2>7, <2>8, <2>9
<1> QED BY <1>7, <1>8

(***************************************************************************)
(* The dependency d of the innermost frame is entered: the frame reaches    *)
(* it, and so does everything that reaches the frame.                       *)
(***************************************************************************)
LEMMA PushKeepsIInv ==
  ASSUME IInv, stack # << >>, next[Top] <= Len(info[Top].needed),
         info' = info, todo' = todo, seen' = seen, ordered' = ordered,
         next' = [next EXCEPT ![Top] = @ + 1],
         NEW d \in BySoname(info[Top].needed[next[Top]]), d # Top,
         d \notin seen \cup visiting,
         visiting' = visiting \cup {d}, stack' = Append(stack, d), TypeOK'
  PROVE  IInv'
<1> USE DEF IInv
<1> DEFINE len == Len(stack)
<1>1. /\ \A name : BySoname(name)' = BySoname(name)
      /\ \A x : Deps(x)' = Deps(x)
      /\ \A x, y : Reaches(x, y)' = Reaches(x, y)
  BY InfoFixed
<1>2. /\ d \in Files /\ Top \in Files /\ len \in Nat \ {0}
      /\ Top \in visiting
  BY BySonameInFiles DEF TypeOK, Top, Bookkeeping
<1>t. \A x \in Files : /\ next[x] \in Nat \ {0}
                      /\ Len(info[x].needed) \in Nat
                      /\ DOMAIN info[x].needed = 1 .. Len(info[x].needed)
  BY Iterators
<1>3. d \in Deps(Top)
  <2>1. next[Top] \in DOMAIN info[Top].needed
    BY <1>2, <1>t
  <2>2. d \in UNION {BySoname(info[Top].needed[i]) : i \in DOMAIN info[Top].needed}
    BY <2>1
  <2> QED BY <2>2 DEF Deps
<1>4. /\ DOMAIN stack = 1 .. len
      /\ DOMAIN stack' = 1 .. len + 1
      /\ Len(stack') = len + 1
      /\ \A i \in 1 .. len : stack'[i] = stack[i]
      /\ stack'[len] = Top
      /\ stack'[len + 1] = d
      /\ stack[len] = Top
      /\ \A i \in 1 .. len : stack[i] \in Files
  BY <1>2, PushProperties DEF TypeOK, Top
<1>l. len = Len(stack)
  OBVIOUS
<1> HIDE DEF len
<1>5. RootsEntered' /\ DependenciesFirst'
  BY <1>1 DEF RootsEntered, DependenciesFirst
<1>6. FreshIterators'
  BY <1>2 DEF FreshIterators, TypeOK
<1>7. Bookkeeping'
  <2>1. visiting' \cap seen' = {} /\ seen' = Elements(ordered')
    BY DEF Bookkeeping
  <2>2. visiting' = Elements(stack')
    BY <1>2, <1>4 DEF Bookkeeping
  <2>3. \A i, j \in DOMAIN stack' : stack'[i] = stack'[j] => i = j
    BY <1>2, <1>4 DEF Bookkeeping
  <2> QED BY <2>1, <2>2, <2>3 DEF Bookkeeping
<1>8. ChainEdges'
  <2> SUFFICES ASSUME NEW i \in 1 .. len
               PROVE  stack'[i + 1] \in Deps(stack'[i])
    BY <1>1, <1>2, <1>4 DEF ChainEdges
  <2>1. CASE i = len
    BY <1>3, <1>4, <2>1
  <2>2. CASE i # len
    <3>1. i \in 1 .. Len(stack) - 1 /\ i + 1 \in 1 .. len
      BY <1>2, <1>l, <2>2
    <3> QED BY <1>4, <3>1 DEF ChainEdges
  <2> QED BY <2>1, <2>2
<1>9. ChainReaches'
  <2> SUFFICES ASSUME NEW i \in 1 .. len + 1, NEW j \in 1 .. len + 1, i <= j
               PROVE  Reaches(stack'[i], stack'[j])
    BY <1>1, <1>4 DEF ChainReaches
  <2>1. CASE j # len + 1
    BY <1>2, <1>4, <2>1 DEF ChainReaches
  <2>2. CASE i = len + 1
    BY <1>2, <1>4, <2>2, ReachesSelf
  <2>3. CASE i # len + 1 /\ j = len + 1
    <3>1. Reaches(stack[i], Top) /\ stack[i] \in Files
      <4>1. i \in 1 .. len /\ len \in 1 .. len /\ i <= len
        BY <1>2, <2>3
      <4> QED BY <1>4, <4>1 DEF ChainReaches
    <3>2. Reaches(stack[i], d)
      BY <1>2, <1>3, <3>1, ReachesStep
    <3> QED BY <1>2, <1>4, <2>3, <3>2
  <2> QED BY <2>1, <2>2, <2>3
<1>10. FramesExplored'
  <2> SUFFICES ASSUME NEW k \in 1 .. len + 1,
                      NEW n \in 1 .. Len(info[stack'[k]].needed),
                      n < next'[stack'[k]],
                      NEW x \in BySoname(info[stack'[k]].needed[n])
               PROVE  \/ x \in seen
                      \/ \E m \in 1 .. len + 1 : m <= k + 1 /\ stack'[m] = x
    <3> SUFFICES ASSUME NEW k \in DOMAIN stack',
                        NEW n \in (1 .. Len(info[stack[k]].needed))',
                        (n < next[stack[k]])',
                        NEW x \in BySoname(info[stack[k]].needed[n])'
                 PROVE  (\/ x \in seen
                         \/ \E m \in DOMAIN stack : m <= k + 1 /\ stack[m] = x)'
      BY DEF FramesExplored
    <3>1. /\ k \in 1 .. len + 1 /\ n \in 1 .. Len(info[stack'[k]].needed)
          /\ n < next'[stack'[k]] /\ x \in BySoname(info[stack'[k]].needed[n])
      BY <1>1, <1>4
    <3>2. x \in seen \/ \E m \in 1 .. len + 1 : m <= k + 1 /\ stack'[m] = x
      BY <3>1
    <3> QED BY <1>4, <3>2
  <2>1. CASE k = len + 1
    BY <1>2, <1>4, <2>1 DEF FreshIterators, TypeOK
  <2>2. CASE k = len
    <3>1. CASE n = next[Top]
      <4>1. stack'[k] = Top /\ x \in BySoname(info[Top].needed[next[Top]])
        BY <1>4, <2>2, <3>1
      <4>2. x = d
        BY <4>1, OneProvider
      <4>3. len + 1 \in 1 .. len + 1 /\ len + 1 <= k + 1
        BY <1>2, <2>2
      <4> QED BY <1>4, <4>2, <4>3
    <3>2. CASE n # next[Top]
      <4>1. n < next[Top] /\ stack'[k] = stack[len]
        BY <1>2, <1>4, <1>t, <2>2, <3>2 DEF TypeOK
      <4>2. x \in seen \/ \E m \in 1 .. len : m <= len + 1 /\ stack[m] = x
        BY <1>2, <1>4, <4>1 DEF FramesExplored
      <4>3. ASSUME NEW m \in 1 .. len, stack[m] = x
            PROVE  m \in 1 .. len + 1 /\ m <= k + 1 /\ stack'[m] = x
        BY <1>2, <1>4, <2>2, <4>3
      <4> QED BY <4>2, <4>3
    <3> QED BY <3>1, <3>2
  <2>3. CASE k \in 1 .. len - 1
    <3>1. k \in 1 .. len /\ k + 1 <= len /\ k # len
      BY <1>2, <2>3
    <3>2. stack'[k] = stack[k] /\ stack[k] # Top /\ stack[k] \in Files
      BY <1>2, <1>4, <3>1 DEF Bookkeeping
    <3>3. next'[stack'[k]] = next[stack[k]]
      BY <3>2 DEF TypeOK
    <3>4. x \in seen \/ \E m \in 1 .. len : m <= k + 1 /\ stack[m] = x
      BY <1>4, <3>1, <3>2, <3>3 DEF FramesExplored
    <3>5. CASE x \notin seen
      <4>1. PICK m \in 1 .. len : m <= k + 1 /\ stack[m] = x
        BY <3>4, <3>5
      <4>2. m \in 1 .. len + 1 /\ stack'[m] = x
        BY <1>2, <1>4, <4>1
      <4> QED BY <4>1, <4>2
    <3> QED BY <3>5
  <2>4. k = len + 1 \/ k = len \/ k \in 1 .. len - 1
    BY <1>2
  <2> QED BY <2>1, <2>2, <2>3, <2>4
<1>11. RootedEarly'
  <2>1. \A x, y : SortsBefore(x, y)' = SortsBefore(x, y)
    BY DEF SortsBefore, Rank
  <2>2. PICK h \in Files : Reaches(h, Top) /\ \A g \in Files \ seen : SortsBefore(h, g)
    BY <1>2 DEF RootedEarly
  <2>3. Reaches(h, d)
    BY <1>2, <1>3, <2>2, ReachesStep
  <2> QED BY <1>1, <2>1, <2>2, <2>3 DEF RootedEarly
<1> QED BY <1>5, <1>6, <1>7, <1>8, <1>9, <1>10, <1>11

(***************************************************************************)
(* A turn of the loop over the dependencies: the dependency is unknown or   *)
(* already entered, or it is pushed.                                        *)
(***************************************************************************)
LEMMA LookAtDepKeepsIInv ==
  ASSUME IInv, LookAtDep
  PROVE  IInv'
<1> USE DEF IInv
<1> DEFINE len == Len(stack)
           name == info[Top].needed[next[Top]]
<1>1. TypeOK'
  BY TypeInductive DEF Next
<1>2. /\ info' = info /\ todo' = todo /\ seen' = seen /\ ordered' = ordered
      /\ stack # << >> /\ next[Top] <= Len(info[Top].needed)
      /\ next' = [next EXCEPT ![Top] = @ + 1]
  BY DEF LookAtDep
<1>3. CASE \E d \in BySoname(name) : d # Top /\ d \notin seen \cup visiting /\ Enter(d)
  <2>1. PICK d \in BySoname(name) : d # Top /\ d \notin seen \cup visiting /\ Enter(d)
    BY <1>3
  <2>2. visiting' = visiting \cup {d} /\ stack' = Append(stack, d)
    BY <2>1 DEF Enter
  <2> QED BY <1>1, <1>2, <2>1, <2>2, PushKeepsIInv
<1>4. CASE /\ visiting' = visiting /\ stack' = stack
           /\ \A d \in BySoname(name) : d = Top \/ d \in seen \cup visiting
  <2>1. /\ \A x : BySoname(x)' = BySoname(x)
        /\ \A x : Deps(x)' = Deps(x)
        /\ \A x, y : Reaches(x, y)' = Reaches(x, y)
        /\ \A x, y : SortsBefore(x, y)' = SortsBefore(x, y)
    BY <1>2, InfoFixed DEF SortsBefore, Rank
  <2>2. /\ len \in Nat \ {0} /\ DOMAIN stack = 1 .. len /\ stack[len] = Top
        /\ Top \in Files /\ Top \in visiting
        /\ \A i \in 1 .. len : stack[i] \in Files
    BY <1>2 DEF TypeOK, Top, Bookkeeping
  <2>3. FreshIterators'
    BY <1>2, <1>4, <2>2 DEF FreshIterators, TypeOK
  <2>4. FramesExplored'
    <3> HIDE DEF len
    <3> SUFFICES ASSUME NEW k \in DOMAIN stack',
                        NEW n \in (1 .. Len(info[stack[k]].needed))',
                        (n < next[stack[k]])',
                        NEW x \in BySoname(info[stack[k]].needed[n])'
                 PROVE  (\/ x \in seen
                         \/ \E m \in DOMAIN stack : m <= k + 1 /\ stack[m] = x)'
      BY DEF FramesExplored
    <3>0. /\ k \in 1 .. len /\ n \in 1 .. Len(info[stack[k]].needed)
          /\ n < next'[stack[k]] /\ x \in BySoname(info[stack[k]].needed[n])
      BY <1>2, <1>4, <2>1, <2>2
    <3> SUFFICES x \in seen \/ \E m \in 1 .. len : m <= k + 1 /\ stack[m] = x
      BY <1>2, <1>4, <2>2
    <3>1. CASE k = len /\ n = next[Top]
      <4>1. x \in BySoname(name)
        BY <2>2, <3>0, <3>1
      <4>2. x \in seen \/ x \in visiting
        BY <1>4, <2>2, <4>1
      <4>3. ASSUME x \in visiting
            PROVE  \E m \in 1 .. len : stack[m] = x
        BY <2>2, <4>3 DEF Bookkeeping
      <4> QED BY <2>2, <3>1, <4>2, <4>3
    <3>2. CASE ~ (k = len /\ n = next[Top])
      <4>1. n < next[stack[k]]
        <5>1. k # len => stack[k] # Top
          BY <2>2, <3>0 DEF Bookkeeping
        <5>2. \A y \in Files : next[y] \in Nat /\ Len(info[y].needed) \in Nat
          BY Iterators
        <5> QED BY <1>2, <2>2, <3>0, <3>2, <5>1, <5>2 DEF TypeOK
      <4> QED BY <2>2, <3>0, <4>1 DEF FramesExplored
    <3> QED BY <3>1, <3>2
  <2>5. /\ RootsEntered' /\ Bookkeeping'
        /\ ChainEdges' /\ ChainReaches' /\ RootedEarly'
    <3>1. RootsEntered' /\ Bookkeeping'
      BY <1>2, <1>4 DEF RootsEntered, Bookkeeping
    <3>2. ChainEdges' /\ ChainReaches'
      BY <1>2, <1>4, <2>1 DEF ChainEdges, ChainReaches
    <3>3. RootedEarly'
      BY <1>2, <1>4, <2>1 DEF RootedEarly
    <3> QED BY <3>1, <3>2, <3>3
  <2>6. DependenciesFirst'
    BY <1>2, <2>1 DEF DependenciesFirst
  <2> QED BY <1>1, <2>3, <2>4, <2>5, <2>6
<1>5. \A d \in BySoname(name) : \A e \in BySoname(name) : d = e
  BY PlaceAssumption DEF BySoname
<1> QED BY <1>3, <1>4, <1>5 DEF LookAtDep, Enter

(***************************************************************************)
(* A frame that has looked at all its dependencies returns: each of them is *)
(* out, or is a frame below, which reaches it.                              *)
(***************************************************************************)
LEMMA ReturnKeepsIInv ==
  ASSUME IInv, Return
  PROVE  IInv'
<1> USE DEF IInv
<1> DEFINE len == Len(stack)
           out == Len(ordered)
<1>1. TypeOK'
  BY TypeInductive DEF Next
<1>2. /\ info' = info /\ todo' = todo /\ next' = next /\ stack # << >>
      /\ next[Top] > Len(info[Top].needed)
      /\ visiting' = visiting \ {Top} /\ seen' = seen \cup {Top}
      /\ ordered' = Append(ordered, Top)
      /\ stack' = SubSeq(stack, 1, Len(stack) - 1)
  BY DEF Return
<1>3. /\ \A x : BySoname(x)' = BySoname(x)
      /\ \A x : Deps(x)' = Deps(x)
      /\ \A x, y : Reaches(x, y)' = Reaches(x, y)
      /\ \A x, y : SortsBefore(x, y)' = SortsBefore(x, y)
  BY <1>2, InfoFixed DEF SortsBefore, Rank
<1>4. /\ len \in Nat \ {0} /\ out \in Nat
      /\ Top \in Files /\ Top \in visiting /\ Top \notin seen
      /\ \A i \in 1 .. len : stack[i] \in Files
      /\ DOMAIN ordered = 1 .. out
      /\ \A i \in 1 .. out : ordered[i] \in Files
  BY <1>2 DEF TypeOK, Top, Bookkeeping
<1>5. /\ DOMAIN stack = 1 .. len /\ DOMAIN stack' = 1 .. len - 1
      /\ Len(stack') = len - 1
      /\ \A i \in 1 .. len - 1 : stack'[i] = stack[i]
      /\ stack[len] = Top
  <2>1. /\ stack' \in Seq(Files) /\ Len(stack') = len - 1
        /\ DOMAIN stack = 1 .. len /\ DOMAIN stack' = DOMAIN stack \ {len}
        /\ \A i \in DOMAIN stack' : stack'[i] = stack[i]
    <3>1. stack \in Seq(Files)
      BY DEF TypeOK
    <3>2. stack # << >> /\ stack' = SubSeq(stack, 1, Len(stack) - 1)
      BY <1>2
    <3> QED BY <3>1, <3>2, PoppedStack
  <2> QED BY <1>4, <2>1 DEF Top
<1>6. /\ DOMAIN ordered' = 1 .. out + 1
      /\ \A i \in 1 .. out : ordered'[i] = ordered[i]
      /\ ordered'[out + 1] = Top
  BY <1>2, <1>4, PushProperties DEF TypeOK
<1>l. len = Len(stack)
  OBVIOUS
<1> HIDE DEF len, out
<1>7. RootsEntered' /\ FreshIterators'
  BY <1>2 DEF RootsEntered, FreshIterators
<1>8. Bookkeeping'
  <2>1. seen' = Elements(ordered')
    BY <1>2, <1>4, <1>6 DEF Bookkeeping
  <2>2. visiting' \cap seen' = {}
    BY <1>2 DEF Bookkeeping
  <2>3. \A i \in 1 .. len : stack[i] = Top => i = len
    BY <1>4, <1>5 DEF Bookkeeping
  <2>4. visiting' = Elements(stack')
    <3>1. visiting = {stack[i] : i \in 1 .. len}
      BY <1>5 DEF Bookkeeping
    <3>2. \A i \in 1 .. len : i \in 1 .. len - 1 \/ i = len
      BY <1>4
    <3>3. \A i \in 1 .. len - 1 : i \in 1 .. len /\ i # len
      BY <1>4
    <3> QED BY <1>2, <1>5, <2>3, <3>1, <3>2, <3>3
  <2>5. \A i, j \in DOMAIN stack' : stack'[i] = stack'[j] => i = j
    BY <1>4, <1>5 DEF Bookkeeping
  <2>6. \A i, j \in DOMAIN ordered' : ordered'[i] = ordered'[j] => i = j
    BY <1>4, <1>6 DEF Bookkeeping
  <2> QED BY <2>1, <2>2, <2>4, <2>5, <2>6 DEF Bookkeeping
<1>9. ChainEdges'
  BY <1>3, <1>4, <1>5, <1>l DEF ChainEdges
<1>10. ChainReaches'
  BY <1>3, <1>4, <1>5 DEF ChainReaches
<1>11. FramesExplored'
  <2> SUFFICES ASSUME NEW k \in DOMAIN stack',
                      NEW n \in (1 .. Len(info[stack[k]].needed))',
                      (n < next[stack[k]])',
                      NEW x \in BySoname(info[stack[k]].needed[n])'
               PROVE  (\/ x \in seen
                       \/ \E m \in DOMAIN stack : m <= k + 1 /\ stack[m] = x)'
    BY DEF FramesExplored
  <2>0. /\ k \in 1 .. len - 1 /\ n \in 1 .. Len(info[stack[k]].needed)
        /\ n < next[stack[k]] /\ x \in BySoname(info[stack[k]].needed[n])
    BY <1>2, <1>3, <1>5
  <2>1. x \in seen \/ \E m \in 1 .. len : m <= k + 1 /\ stack[m] = x
    <3>1. k \in DOMAIN stack
      BY <1>4, <1>5, <2>0
    <3>2. x \in seen \/ \E m \in DOMAIN stack : m <= k + 1 /\ stack[m] = x
      BY <2>0, <3>1 DEF FramesExplored
    <3> QED BY <1>5, <3>2
  <2>2. ASSUME NEW m \in 1 .. len, m <= k + 1, stack[m] = x
        PROVE  x = Top \/ (m \in 1 .. len - 1 /\ stack'[m] = x)
    BY <1>4, <1>5, <2>2
  <2>3. x \in seen' \/ \E m \in 1 .. len - 1 : m <= k + 1 /\ stack'[m] = x
    <3>1. CASE x \in seen
      BY <1>2, <3>1
    <3>2. CASE \E m \in 1 .. len : m <= k + 1 /\ stack[m] = x
      <4>1. PICK m \in 1 .. len : m <= k + 1 /\ stack[m] = x
        BY <3>2
      <4>2. x = Top \/ (m \in 1 .. len - 1 /\ stack'[m] = x)
        BY <2>2, <4>1
      <4> QED BY <1>2, <4>1, <4>2
    <3> QED BY <2>1, <3>1, <3>2
  <2> QED BY <1>5, <2>3
<1>12. RootedEarly'
  <2>1. ASSUME NEW x \in visiting'
        PROVE  (\E h \in Files :
                  Reaches(h, x) /\ \A g \in Files \ seen : SortsBefore(h, g))'
    BY <1>2, <1>3 DEF RootedEarly
  <2>2. ASSUME NEW i \in DOMAIN ordered'
        PROVE  (\E h \in Files :
                  /\ Reaches(h, ordered[i])
                  /\ \A g \in Files \ {ordered[k] : k \in 1 .. i - 1} : SortsBefore(h, g))'
    <3>1. CASE i \in 1 .. out
      <4>1. {ordered'[k] : k \in 1 .. i - 1} = {ordered[k] : k \in 1 .. i - 1}
        BY <1>4, <1>6, <3>1
      <4>2. PICK h \in Files :
              /\ Reaches(h, ordered[i])
              /\ \A g \in Files \ {ordered[k] : k \in 1 .. i - 1} : SortsBefore(h, g)
        BY <1>4, <3>1 DEF RootedEarly
      <4> QED BY <1>3, <1>6, <3>1, <4>1, <4>2
    <3>2. CASE i = out + 1
      <4>1. {ordered'[k] : k \in 1 .. i - 1} = seen
        <5>1. 1 .. i - 1 = 1 .. out
          BY <1>4, <3>2
        <5> QED BY <1>4, <1>6, <5>1 DEF Bookkeeping
      <4>2. PICK h \in Files : Reaches(h, Top) /\ \A g \in Files \ seen : SortsBefore(h, g)
        BY <1>4 DEF RootedEarly
      <4> QED BY <1>3, <1>6, <3>2, <4>1, <4>2
    <3> QED BY <1>4, <1>6, <3>1, <3>2
  <2> QED BY <2>1, <2>2 DEF RootedEarly
<1>13. DependenciesFirst'
  <2> SUFFICES ASSUME NEW i \in 1 .. out + 1, NEW d \in Deps(ordered'[i])
               PROVE  \/ \E j \in 1 .. i - 1 : ordered'[j] = d
                      \/ Reaches(d, ordered'[i])
    BY <1>3, <1>6 DEF DependenciesFirst
  <2>1. CASE i \in 1 .. out
    <3>1. \/ \E j \in 1 .. i - 1 : ordered[j] = d
          \/ Reaches(d, ordered[i])
      BY <1>4, <1>6, <2>1 DEF DependenciesFirst
    <3> QED BY <1>4, <1>6, <2>1, <3>1
  <2>2. CASE i = out + 1
    <3>1. PICK n \in 1 .. Len(info[Top].needed) : d \in BySoname(info[Top].needed[n])
      <4>1. DOMAIN info[Top].needed = 1 .. Len(info[Top].needed)
        BY <1>4, Iterators
      <4> QED BY <1>6, <2>2, <4>1 DEF Deps
    <3>2. n < next[Top]
      BY <1>2, <1>4, Iterators
    <3>3. d \in seen \/ \E m \in 1 .. len : stack[m] = d
      <4>1. len \in DOMAIN stack /\ stack[len] = Top /\ DOMAIN stack = 1 .. len
        BY <1>4, <1>5
      <4>2. d \in seen \/ \E m \in DOMAIN stack : m <= len + 1 /\ stack[m] = d
        BY <3>1, <3>2, <4>1 DEF FramesExplored
      <4> QED BY <4>1, <4>2
    <3>4. ASSUME d \in seen
          PROVE  \E j \in 1 .. i - 1 : ordered'[j] = d
      <4>1. PICK j \in 1 .. out : ordered[j] = d
        BY <1>4, <3>4 DEF Bookkeeping
      <4> QED BY <1>4, <1>6, <2>2, <4>1
    <3>5. ASSUME NEW m \in 1 .. len, stack[m] = d
          PROVE  Reaches(d, Top)
      BY <1>4, <1>5, <3>5 DEF ChainReaches
    <3> QED BY <1>6, <2>2, <3>3, <3>4, <3>5
  <2> QED BY <1>4, <2>1, <2>2
<1> QED BY <1>1, <1>7, <1>8, <1>9, <1>10, <1>11, <1>12, <1>13
-----------------------------------------------------------------------------
(***************************************************************************)
(* IInv holds initially and every step keeps it.                            *)
(***************************************************************************)
LEMMA InitIInv == Init => IInv
<1> SUFFICES ASSUME Init PROVE IInv
  OBVIOUS
<1>1. TypeOK
  BY InfosAssumption DEF Init, TypeOK
<1>2. RootsEntered /\ FreshIterators /\ Bookkeeping
  BY DEF Init, RootsEntered, FreshIterators, Bookkeeping
<1>3. ChainEdges /\ ChainReaches /\ FramesExplored /\ RootedEarly /\ DependenciesFirst
  BY DEF Init, ChainEdges, ChainReaches, FramesExplored, RootedEarly, DependenciesFirst
<1> QED BY <1>1, <1>2, <1>3 DEF IInv

LEMMA StutterKeepsIInv ==
  ASSUME IInv, UNCHANGED vars
  PROVE  IInv'
<1>1. /\ info' = info /\ todo' = todo /\ stack' = stack /\ next' = next
      /\ visiting' = visiting /\ seen' = seen /\ ordered' = ordered
  BY DEF vars
<1>2. /\ \A x : BySoname(x)' = BySoname(x)
      /\ \A x : Deps(x)' = Deps(x)
      /\ \A x, y : Reaches(x, y)' = Reaches(x, y)
      /\ \A x, y : SortsBefore(x, y)' = SortsBefore(x, y)
  BY <1>1, InfoFixed DEF SortsBefore, Rank
<1>3. TypeOK' /\ RootsEntered' /\ FreshIterators' /\ Bookkeeping'
  BY <1>1 DEF IInv, TypeOK, RootsEntered, FreshIterators, Bookkeeping
<1>4. ChainEdges' /\ ChainReaches' /\ DependenciesFirst'
  BY <1>1, <1>2 DEF IInv, ChainEdges, ChainReaches, DependenciesFirst
<1>5. FramesExplored' /\ RootedEarly'
  BY <1>1, <1>2 DEF IInv, FramesExplored, RootedEarly
<1> QED BY <1>3, <1>4, <1>5 DEF IInv

LEMMA NextIInv == IInv /\ [Next]_vars => IInv'
BY NextRootKeepsIInv, LookAtDepKeepsIInv, ReturnKeepsIInv, StutterKeepsIInv DEF Next

LEMMA IInvHolds == Spec => []IInv
BY InitIInv, NextIInv, PTL DEF Spec

(***************************************************************************)
(* Every dependency inside the directory is loaded before the library       *)
(* needing it, unless the two depend on each other: for every directory,    *)
(* every DT_NEEDED graph and every order of the entries.                    *)
(***************************************************************************)
THEOREM DependenciesFirstHolds == Spec => []DependenciesFirst
<1>1. IInv => DependenciesFirst
  BY DEF IInv
<1> QED BY <1>1, IInvHolds, PTL

(***************************************************************************)
(* No file is listed twice, and when _load_order returns none is missing.   *)
(***************************************************************************)
LEMMA IInvOnce == IInv => EveryFileOnce
<1> SUFFICES ASSUME IInv, Finished PROVE Files \subseteq Elements(ordered)
  BY DEF EveryFileOnce, IInv, Bookkeeping, TypeOK
<1>1. visiting = {}
  BY DEF Finished, IInv, Bookkeeping
<1> QED BY <1>1 DEF Finished, IInv, RootsEntered, Bookkeeping

(***************************************************************************)
(* For every directory: the order is a permutation of its files.            *)
(***************************************************************************)
THEOREM EveryFileOnceHolds == Spec => []EveryFileOnce
BY IInvOnce, IInvHolds, PTL

(***************************************************************************)
(* A file overtakes one that sorts before it only on behalf of a file that  *)
(* needs it and sorts no later.                                             *)
(***************************************************************************)
LEMMA IInvRank == IInv => RankUnlessNeeded
<1> SUFFICES ASSUME IInv, NEW i \in DOMAIN ordered, NEW j \in DOMAIN ordered, i < j
             PROVE  \E h \in Files : /\ SortsBefore(h, ordered[j])
                                     /\ Reaches(h, ordered[i])
  BY DEF RankUnlessNeeded
<1>1. PICK h \in Files :
        /\ Reaches(h, ordered[i])
        /\ \A g \in Files \ {ordered[k] : k \in 1 .. i - 1} : SortsBefore(h, g)
  BY DEF IInv, RootedEarly
<1>2. ordered[j] \in Files /\ \A k \in 1 .. i - 1 : k \in DOMAIN ordered /\ k # j
  BY DEF IInv, TypeOK
<1>3. ordered[j] \notin {ordered[k] : k \in 1 .. i - 1}
  BY <1>2 DEF IInv, Bookkeeping
<1> QED BY <1>1, <1>2, <1>3

(***************************************************************************)
(* For every directory: only a need moves a file before a lower rank.       *)
(***************************************************************************)
THEOREM RankUnlessNeededHolds == Spec => []RankUnlessNeeded
BY IInvRank, IInvHolds, PTL

(***************************************************************************)
(* The visiting set is the call stack, which is a simple dependency chain:  *)
(* visit() never re-enters a path, so a cycle cannot make it recurse on.    *)
(***************************************************************************)
THEOREM StackIsChainHolds == Spec => []StackIsChain
<1>1. IInv => StackIsChain
  BY DEF IInv, StackIsChain, Bookkeeping, ChainEdges
<1> QED BY <1>1, IInvHolds, PTL

(***************************************************************************)
(* The recursive algorithm implements TopoOrder: a Return emits the next    *)
(* file, and every other step leaves what was handed out as it is.          *)
(***************************************************************************)
THEOREM Implements == Spec => ImplementsTopoOrder
<1>1. Init => Abstract!Init
  <2>1. Edges \in [Files -> SUBSET Files]
    BY DepsInFiles DEF Edges
  <2> QED BY <2>1 DEF Init, Abstract!Init
<1>2. IInv /\ IInv' /\ [Next]_vars => [Abstract!Next]_(Abstract!absvars)
  <2> SUFFICES ASSUME IInv, IInv', [Next]_vars
               PROVE  Abstract!Next \/ UNCHANGED Abstract!absvars
    OBVIOUS
  <2>1. CASE UNCHANGED vars \/ LookAtDep \/ \E f \in Files : NextRoot(f)
    <3>1. info' = info /\ ordered' = ordered
      BY <2>1 DEF vars, LookAtDep, NextRoot
    <3>2. Edges' = Edges
      BY <3>1, InfoFixed
    <3> QED BY <3>1, <3>2 DEF Abstract!absvars
  <2>2. CASE Return
    <3>1. info' = info /\ ordered' = Append(ordered, Top)
      BY <2>2 DEF Return
    <3>2. /\ Edges' = Edges
          /\ \A x : Deps(x)' = Deps(x)
          /\ \A x, y : Reaches(x, y)' = Reaches(x, y)
      BY <3>1, InfoFixed
    <3>3. Top \in Files /\ Top \notin Elements(ordered)
      <4>1. Top \in Files /\ Top \in Elements(stack)
        BY <2>2 DEF Return, IInv, TypeOK, Top
      <4> QED BY <4>1 DEF IInv, Bookkeeping
    <3>4. /\ Len(ordered) + 1 \in DOMAIN ordered'
          /\ ordered'[Len(ordered) + 1] = Top
          /\ \A j \in 1 .. Len(ordered) : ordered'[j] = ordered[j]
          /\ DOMAIN ordered = 1 .. Len(ordered)
          /\ Len(ordered) \in Nat
      BY <3>1, <3>3, PushProperties DEF IInv, TypeOK
    <3>5. ASSUME NEW d \in Edges[Top]
          PROVE  d \in Elements(ordered) \/ Reaches(d, Top)
      <4>1. d \in Deps(Top)
        BY <3>3 DEF Edges
      <4>2. \/ \E j \in 1 .. Len(ordered) + 1 - 1 : ordered'[j] = d
            \/ Reaches(d, Top)
        BY <3>2, <3>4, <4>1 DEF IInv, DependenciesFirst
      <4> QED BY <3>4, <4>2
    <3>6. Abstract!Emit(Top)
      BY <3>1, <3>2, <3>3, <3>5 DEF Abstract!Emit, Abstract!Listed, Reaches
    <3> QED BY <3>3, <3>6 DEF Abstract!Next
  <2> QED BY <2>1, <2>2 DEF Next
<1> QED BY <1>1, <1>2, IInvHolds, PTL DEF Spec, ImplementsTopoOrder, Abstract!Spec

HIDE DEF Elements

-----------------------------------------------------------------------------
(* What dlopen and dlsym go through: LeadsTo.                               *)

\* The least of a set of numbers.
LEMMA Least ==
  ASSUME NEW S, S \subseteq Nat, S # {}
  PROVE  \E n \in S : \A m \in S : n <= m
<1>1. PICK n \in S : \A m \in S : ~ (<<m, n>> \in OpToRel(<, Nat))
  BY NatLessThanWellFounded, WFMin
<1>2. \A m \in S : ~ (m < n)
  BY <1>1 DEF OpToRel
<1> QED
  BY <1>2

\* The equation by which LeadsTo goes round after round.
RoundsOf(after, edges, f, last) ==
  after = [n \in 0 .. last |->
             IF n = 0 THEN {f}
             ELSE LET before == after[n - 1] IN before \cup UNION {edges[g] : g \in before}]

LEMMA RoundsExist ==
  ASSUME NEW edges, NEW f, NEW last \in Nat
  PROVE  \E after : RoundsOf(after, edges, f, last)
<1> DEFINE bad == {m \in Nat : ~ \E after : RoundsOf(after, edges, f, m)}
<1>1. SUFFICES ASSUME bad # {} PROVE FALSE
  OBVIOUS
<1>2. PICK k \in bad : \A m \in bad : k <= m
  BY <1>1, Least
<1>3. CASE k = 0
  <2> DEFINE h == [n \in 0 .. 0 |-> {f}]
  <2>1. ASSUME NEW n \in 0 .. 0
        PROVE  h[n] = IF n = 0 THEN {f} ELSE h[n - 1] \cup UNION {edges[g] : g \in h[n - 1]}
    <3>1. n = 0
      OBVIOUS
    <3> QED
      BY <3>1
  <2>2. RoundsOf(h, edges, f, 0)
    BY <2>1 DEF RoundsOf
  <2> QED
    BY <1>3, <2>2
<1>4. CASE k # 0
  <2>1. k \in Nat /\ k - 1 \in Nat /\ ~ (k <= k - 1)
    BY <1>4
  <2>2. k - 1 \notin bad
    BY <1>2, <2>1
  <2>3. PICK b : RoundsOf(b, edges, f, k - 1)
    BY <2>1, <2>2
  <2> DEFINE more == b[k - 1] \cup UNION {edges[g] : g \in b[k - 1]}
             h == [n \in 0 .. k |-> IF n = k THEN more ELSE b[n]]
  <2>4. ASSUME NEW n \in 0 .. k
        PROVE  h[n] = IF n = 0 THEN {f} ELSE h[n - 1] \cup UNION {edges[g] : g \in h[n - 1]}
    <3>1. CASE n = k
      <4>1. h[k - 1] = b[k - 1] /\ n # 0
        BY <1>4, <2>1, <3>1
      <4> QED
        BY <3>1, <4>1
    <3>2. CASE n # k
      <4>1. n \in 0 .. (k - 1)
        BY <2>1, <3>2
      <4>2. b[n] = IF n = 0 THEN {f} ELSE b[n - 1] \cup UNION {edges[g] : g \in b[n - 1]}
        BY <2>3, <4>1 DEF RoundsOf
      <4>3. n = 0 \/ h[n - 1] = b[n - 1]
        BY <2>1, <4>1
      <4> QED
        BY <3>2, <4>2, <4>3
    <3> QED
      BY <3>1, <3>2
  <2>5. RoundsOf(h, edges, f, k)
    BY <2>4 DEF RoundsOf
  <2> QED
    BY <2>5
<1> QED
  BY <1>3, <1>4

LEMMA FilesAreFinite == Cardinality(Files) \in Nat
BY FilesAssumption, FS_CardinalityType

\* LeadsTo is the last of its rounds.
LEMMA LeadsToRounds ==
  ASSUME NEW edges, NEW f
  PROVE  \E after : /\ LeadsTo(edges, f) = after[Cardinality(Files)]
                    /\ after[0] = {f}
                    /\ \A n \in 1 .. Cardinality(Files) :
                         after[n] = after[n - 1] \cup UNION {edges[g] : g \in after[n - 1]}
<1> DEFINE last == Cardinality(Files)
           after == CHOOSE after : RoundsOf(after, edges, f, last)
<1>1. LeadsTo(edges, f) = after[last]
  BY DEF LeadsTo, RoundsOf
<1>2. last \in Nat
  BY FilesAreFinite
<1>3. RoundsOf(after, edges, f, last)
  BY <1>2, RoundsExist
<1> HIDE DEF after, last
<1>4. after[0] = {f}
  BY <1>2, <1>3 DEF RoundsOf
<1>5. ASSUME NEW n \in 1 .. last
      PROVE  after[n] = after[n - 1] \cup UNION {edges[g] : g \in after[n - 1]}
  BY <1>2, <1>3 DEF RoundsOf
<1>6. last = Cardinality(Files)
  BY DEF last
<1> QED
  BY <1>1, <1>4, <1>5, <1>6

\* It holds f, and stays in every set that is closed under the edges.
LEMMA LeadsToClosed ==
  ASSUME NEW edges, NEW f, NEW P, f \in P, \A g \in P : edges[g] \subseteq P
  PROVE  LeadsTo(edges, f) \subseteq P
<1>0. Cardinality(Files) \in Nat
  BY FilesAreFinite
<1>1. PICK after : /\ LeadsTo(edges, f) = after[Cardinality(Files)]
                   /\ after[0] = {f}
                   /\ \A n \in 1 .. Cardinality(Files) :
                         after[n] = after[n - 1] \cup UNION {edges[g] : g \in after[n - 1]}
  BY LeadsToRounds
<1> DEFINE bad == {n \in 0 .. Cardinality(Files) : ~ (after[n] \subseteq P)}
<1>2. SUFFICES ASSUME bad # {} PROVE FALSE
  BY <1>0, <1>1
<1>3. PICK n \in bad : \A m \in bad : n <= m
  <2>1. bad \subseteq Nat
    BY <1>0
  <2> QED
    BY <1>2, <2>1, Least
<1>4. n # 0
  BY <1>1
<1>5. n - 1 \in 0 .. Cardinality(Files) /\ n \in 1 .. Cardinality(Files) /\ n - 1 \notin bad
  BY <1>0, <1>3, <1>4
<1>6. after[n - 1] \subseteq P
  BY <1>5
<1>7. after[n] = after[n - 1] \cup UNION {edges[g] : g \in after[n - 1]}
  BY <1>1, <1>5
<1> QED
  BY <1>6, <1>7

LEMMA LeadsToSelf ==
  ASSUME NEW edges, NEW f
  PROVE  f \in LeadsTo(edges, f)
<1>0. Cardinality(Files) \in Nat
  BY FilesAreFinite
<1>1. PICK after : /\ LeadsTo(edges, f) = after[Cardinality(Files)]
                   /\ after[0] = {f}
                   /\ \A n \in 1 .. Cardinality(Files) :
                         after[n] = after[n - 1] \cup UNION {edges[g] : g \in after[n - 1]}
  BY LeadsToRounds
<1> DEFINE bad == {n \in 0 .. Cardinality(Files) : f \notin after[n]}
<1>2. SUFFICES ASSUME bad # {} PROVE FALSE
  <2>1. Cardinality(Files) \in 0 .. Cardinality(Files)
    BY <1>0
  <2>2. bad = {} => f \in after[Cardinality(Files)]
    BY <2>1
  <2> QED
    BY <1>1, <2>2
<1>3. PICK n \in bad : \A m \in bad : n <= m
  <2>1. bad \subseteq Nat
    BY <1>0
  <2> QED
    BY <1>2, <2>1, Least
<1>4. n # 0
  BY <1>1
<1>5. n - 1 \in 0 .. Cardinality(Files) /\ n \in 1 .. Cardinality(Files) /\ n - 1 \notin bad
  BY <1>0, <1>3, <1>4
<1>6. after[n] = after[n - 1] \cup UNION {edges[g] : g \in after[n - 1]}
  BY <1>1, <1>5
<1> QED
  BY <1>5, <1>6

\* More edges lead to more.
LEMMA LeadsToMonotone ==
  ASSUME NEW few, NEW many \in [Files -> SUBSET Files], NEW f \in Files,
         \A g \in Files : few[g] \subseteq many[g]
  PROVE  LeadsTo(few, f) \subseteq LeadsTo(many, f) /\ LeadsTo(many, f) \subseteq Files
<1>0. Cardinality(Files) \in Nat
  BY FilesAreFinite
<1>1. PICK a : /\ LeadsTo(few, f) = a[Cardinality(Files)]
               /\ a[0] = {f}
               /\ \A n \in 1 .. Cardinality(Files) :
                     a[n] = a[n - 1] \cup UNION {few[g] : g \in a[n - 1]}
  BY LeadsToRounds
<1>2. PICK b : /\ LeadsTo(many, f) = b[Cardinality(Files)]
               /\ b[0] = {f}
               /\ \A n \in 1 .. Cardinality(Files) :
                     b[n] = b[n - 1] \cup UNION {many[g] : g \in b[n - 1]}
  BY LeadsToRounds
<1> DEFINE bad == {n \in 0 .. Cardinality(Files) : ~ (a[n] \subseteq b[n] /\ b[n] \subseteq Files)}
<1>3. SUFFICES ASSUME bad # {} PROVE FALSE
  BY <1>0, <1>1, <1>2
<1>4. PICK n \in bad : \A m \in bad : n <= m
  <2>1. bad \subseteq Nat
    BY <1>0
  <2> QED
    BY <1>3, <2>1, Least
<1>5. n # 0
  BY <1>1, <1>2
<1>6. n - 1 \in 0 .. Cardinality(Files) /\ n \in 1 .. Cardinality(Files) /\ n - 1 \notin bad
  BY <1>0, <1>4, <1>5
<1>7. a[n - 1] \subseteq b[n - 1] /\ b[n - 1] \subseteq Files
  BY <1>6
<1>8. /\ a[n] = a[n - 1] \cup UNION {few[g] : g \in a[n - 1]}
      /\ b[n] = b[n - 1] \cup UNION {many[g] : g \in b[n - 1]}
  BY <1>1, <1>2, <1>6
<1>9. a[n] \subseteq b[n]
  BY <1>7, <1>8
<1>10. b[n] \subseteq Files
  BY <1>7, <1>8
<1> QED
  BY <1>9, <1>10

-----------------------------------------------------------------------------
(* What the names in a directory say, and what the order makes of them.     *)

\* What the constructor works on.
Given == world \in Worlds /\ info = Parsed(world)

LEMMA WorldTypes ==
  ASSUME NEW w \in Worlds
  PROVE  /\ w \in World
         /\ w.soname \in [Files -> Names \cup {NoName}]
         /\ w.needed \in [Files -> Seq(Names)]
         /\ w.exports \in [Files -> SUBSET Functions]
         /\ w.found \in [Elements(Stems) -> Files \cup {NoFile}]
         /\ w.readable \subseteq Files /\ w.broken \subseteq Files
<1>1. w \in World
  BY WorldsAssumption
<1> QED
  BY <1>1 DEF World, Stems

LEMMA RealFiles ==
  /\ \A f \in Files : Real[f] \in Files /\ Real[Real[f]] = Real[f]
  /\ NoFile \notin Files
BY FilesAssumption

\* A name that two files answer to is a name of one file.
LEMMA OneFile ==
  ASSUME world \in Worlds, NEW f \in Files, NEW g \in Files, Real[f] = Real[g]
  PROVE  /\ world.soname[f] = world.soname[g] /\ Needs(f) = Needs(g)
         /\ f \in world.broken <=> g \in world.broken
<1>1. /\ world.soname[f] = world.soname[Real[f]] /\ world.needed[f] = world.needed[Real[f]]
      /\ f \in world.broken <=> Real[f] \in world.broken
  BY NamesAssumption
<1>2. /\ world.soname[g] = world.soname[Real[g]] /\ world.needed[g] = world.needed[Real[g]]
      /\ g \in world.broken <=> Real[g] \in world.broken
  BY NamesAssumption
<1> QED
  BY <1>1, <1>2 DEF Needs

LEMMA LinkNames ==
  ASSUME world \in Worlds, NEW f \in Files
  PROVE  /\ AskedAs(world, f) = {LinkName(f), Base[f]}
         /\ AskedAs(world, f) \cap world.system = {}
         /\ \A g \in Files : AskedAs(world, f) \cap AskedAs(world, g) # {} => Real[f] = Real[g]
BY NamesAssumption DEF AskedAs, LinkName

\* A file the linker knows by a name has it for all the links to it that can
\* be asked for by that name.
LEMMA LinkNameOfLink ==
  ASSUME world \in Worlds, NEW f \in Files, NEW g \in Files, Real[f] = Real[g],
         LinkName(f) \in AskedAs(world, g)
  PROVE  LinkName(g) = LinkName(f)
<1>1. world.soname[f] = world.soname[g]
  BY OneFile
<1>2. CASE world.soname[g] = NoName
  BY <1>2 DEF AskedAs, LinkName
<1>3. CASE world.soname[g] # NoName
  BY <1>1, <1>3 DEF LinkName
<1> QED
  BY <1>2, <1>3

\* A link to a file that can be loaded can be loaded.
LEMMA LoadableLink ==
  ASSUME world \in Worlds, NEW f \in Files, NEW g \in Files, Real[f] = Real[g], Loadable(f)
  PROVE  Loadable(g)
<1>1. PICK S \in SUBSET (Files \ world.broken) :
        f \in S /\ \A x \in S : \A name \in Needs(x) : MetBy(name, S)
  BY DEF Loadable
<1>2. Needs(f) = Needs(g) /\ g \notin world.broken
  BY <1>1, OneFile
<1> DEFINE T == S \cup {g}
<1>3. T \in SUBSET (Files \ world.broken) /\ g \in T
  BY <1>1, <1>2
<1>4. ASSUME NEW x \in T, NEW name \in Needs(x) PROVE MetBy(name, T)
  <2>1. MetBy(name, S)
    BY <1>1, <1>2, <1>4
  <2> QED
    BY <2>1 DEF MetBy
<1> QED
  BY <1>3, <1>4 DEF Loadable

\* What a file that can be loaded needs can be loaded, whichever file has the
\* name it is needed by.
LEMMA LoadableNeeds ==
  ASSUME world \in Worlds, NEW f \in Files, Loadable(f), NEW name \in Needs(f)
  PROVE  \/ name \in world.system
         \/ \E g \in Files : Loadable(g) /\ LinkName(g) = name /\ name \in AskedAs(world, g)
<1>1. PICK S \in SUBSET (Files \ world.broken) :
        f \in S /\ \A x \in S : \A n \in Needs(x) : MetBy(n, S)
  BY DEF Loadable
<1>2. CASE name \in world.system
  BY <1>2
<1>3. CASE name \notin world.system
  <2>1. PICK g \in S : LinkName(g) = name
    BY <1>1, <1>3 DEF MetBy
  <2>2. Loadable(g)
    BY <1>1 DEF Loadable
  <2> QED
    BY <1>1, <2>1, <2>2, LinkNames
<1> QED
  BY <1>2, <1>3

LEMMA LoadableSibling ==
  ASSUME world \in Worlds, NEW f \in Files, Loadable(f), NEW g \in Files, Base[g] \in Needs(f)
  PROVE  Loadable(g)
<1>1. Base[g] \notin world.system
  BY LinkNames
<1>2. PICK h \in Files : Loadable(h) /\ Base[g] \in AskedAs(world, h)
  BY <1>1, LoadableNeeds
<1>3. Real[h] = Real[g]
  BY <1>2, LinkNames
<1> QED
  BY <1>2, <1>3, LoadableLink

\* What _load_order sees of a directory that _elf_dynamic can read.
LEMMA ReadKeys ==
  ASSUME Given, world.readable = Files, NEW f \in Files
  PROVE  /\ Keys(f) = AskedAs(world, f)
         /\ info[f].needed = world.needed[f] /\ world.needed[f] \in Seq(Names)
         /\ Needs(f) = {world.needed[f][k] : k \in 1 .. Len(world.needed[f])}
<1>1. info[f].soname = world.soname[f] /\ info[f].needed = world.needed[f]
  BY DEF Given, Parsed
<1>2. world.needed[f] \in Seq(Names)
  BY WorldTypes DEF Given
<1> QED
  BY <1>1, <1>2 DEF Keys, AskedAs, Needs, Elements

LEMMA DepsAreAsked ==
  ASSUME Given, world.readable = Files, NEW f \in Files
  PROVE  Deps(f) \subseteq Asks(world)[f]
<1> SUFFICES ASSUME NEW d \in Deps(f) PROVE d \in Asks(world)[f]
  OBVIOUS
<1>1. PICK k \in DOMAIN info[f].needed : d \in BySoname(info[f].needed[k])
  BY DEF Deps
<1>2. d \in Files /\ info[f].needed[k] \in Keys(d)
  BY <1>1 DEF BySoname
<1>3. info[f].needed[k] \in AskedAs(world, d) /\ info[f].needed[k] \in Elements(world.needed[f])
  BY <1>1, <1>2, ReadKeys DEF Elements
<1> QED
  BY <1>2, <1>3 DEF Asks

\* So no two files of a directory that can be read wait for each other.
LEMMA NoCycle ==
  ASSUME Given, world.readable = Files, NEW f \in Files, NEW d \in Deps(f), Reaches(d, f)
  PROVE  FALSE
<1> DEFINE S == {x \in Files : Reaches(d, x) /\ Reaches(x, f)}
<1>1. d \in Files /\ d \in S /\ f \in S
  BY DepsInFiles, ReachesSelf
<1>2. PICK x \in S : Asks(world)[x] \cap S = {}
  BY <1>1, LayersAssumption DEF Given
<1>3. CASE x = f
  BY <1>1, <1>2, <1>3, DepsAreAsked
<1>4. CASE x # f
  <2> DEFINE T == {z \in Files : ~ Reaches(z, f)} \cup {x}
  <2>1. SUFFICES ASSUME NEW y \in Deps(x), Reaches(y, f) PROVE FALSE
    <3>1. SUFFICES ASSUME \A y \in Deps(x) : ~ Reaches(y, f) PROVE FALSE
      OBVIOUS
    <3>2. ASSUME NEW z \in T, NEW y \in Deps(z) PROVE y \in T
      <4>1. y \in Files
        BY DepsInFiles
      <4>2. CASE z = x
        BY <3>1, <4>1, <4>2
      <4>3. CASE z # x
        <5>1. z \in Files /\ ~ Reaches(z, f)
          BY <4>3
        <5>2. ~ Reaches(y, f)
          BY <5>1 DEF Reaches, Abstract!ReachedBy, Abstract!ClosedUnder, Edges
        <5> QED
          BY <4>1, <5>2
      <4> QED
        BY <4>2, <4>3
    <3>3. T \in SUBSET Files /\ x \in T /\ Abstract!ClosedUnder(Edges, T)
      BY <3>2 DEF Abstract!ClosedUnder, Edges
    <3>4. f \in T
      BY <3>3 DEF Reaches, Abstract!ReachedBy
    <3> QED
      BY <1>4, <3>4, ReachesSelf
  <2>2. y \in Files /\ Reaches(d, y)
    BY <1>1, DepsInFiles, ReachesStep
  <2>3. y \in S /\ y \in Asks(world)[x]
    BY <2>1, <2>2, DepsAreAsked
  <2> QED
    BY <1>2, <2>3
<1> QED
  BY <1>3, <1>4

\* The directories in which the order matters to the linker.
Layered ==
  \/ world.readable = Files
  \/ /\ world.readable = {}
     /\ \A f \in Files : \A g \in Asks(world)[f] : Layer[Kind[g]] < Layer[Kind[f]]

\* What a file asks for by a name comes out before it, be it by a link.
LEMMA AskedComesBefore ==
  ASSUME Given, IInv, Finished, Layered,
         NEW i \in DOMAIN ordered, NEW g \in Files,
         NEW name \in AskedAs(world, g) \cap Needs(ordered[i])
  PROVE  \E j \in DOMAIN ordered :
           j < i /\ name \in AskedAs(world, ordered[j]) /\ Real[ordered[j]] = Real[g]
<1> DEFINE f == ordered[i]
<1>1. DOMAIN ordered \subseteq Nat /\ \A k \in DOMAIN ordered : ordered[k] \in Files
  BY DEF IInv, TypeOK
<1>2. f \in Files /\ i \in Nat
  BY <1>1
<1>3. CASE world.readable = Files
  <2> DEFINE D == {d \in Files : name \in Keys(d)}
             N == {Place[d] : d \in D}
  <2>1. g \in D
    BY <1>3, ReadKeys
  <2>2. N \subseteq Nat /\ N # {}
    BY <2>1, PlaceAssumption
  <2>3. PICK n \in N : \A m \in N : n <= m
    BY <2>2, Least
  <2>4. PICK d \in D : n = Place[d]
    OBVIOUS
  <2>5. d \in BySoname(name)
    BY <2>3, <2>4 DEF BySoname
  <2>6. name \in AskedAs(world, d) /\ Real[d] = Real[g]
    <3>1. name \in AskedAs(world, d)
      BY <1>3, ReadKeys
    <3> QED
      BY <3>1, LinkNames DEF Given
  <2>7. d # f
    <3>1. name \in Elements(world.needed[f])
      BY DEF Needs
    <3>2. d = f => f \in Asks(world)[f]
      BY <1>2, <2>6, <3>1 DEF Asks
    <3>3. {f} \in SUBSET Files /\ {f} # {}
      BY <1>2
    <3>4. \A S \in SUBSET Files : S # {} => \E x \in S : Asks(world)[x] \cap S = {}
      BY LayersAssumption DEF Given
    <3>5. \E x \in {f} : Asks(world)[x] \cap {f} = {}
      BY <3>3, <3>4
    <3> QED
      BY <3>2, <3>5
  <2>8. d \in Deps(f)
    <3>1. PICK k \in 1 .. Len(world.needed[f]) : name = world.needed[f][k]
      BY <1>2, <1>3, ReadKeys
    <3>2. info[f].needed = world.needed[f] /\ k \in DOMAIN info[f].needed
      BY <1>2, <1>3, <3>1, ReadKeys
    <3> QED
      BY <2>5, <2>7, <3>1, <3>2 DEF Deps
  <2>9. ~ Reaches(d, f)
    BY <1>2, <1>3, <2>8, NoCycle
  <2>10. PICK j \in 1 .. i - 1 : ordered[j] = d
    BY <2>8, <2>9 DEF IInv, DependenciesFirst
  <2>11. j \in DOMAIN ordered /\ j < i
    BY <1>2, <2>10 DEF IInv, TypeOK
  <2> QED
    BY <2>6, <2>10, <2>11
<1>4. CASE world.readable # Files
  <2>1. world.readable = {} /\ \A x \in Files : \A y \in Asks(world)[x] : Layer[Kind[y]] < Layer[Kind[x]]
    BY <1>4 DEF Layered
  <2>2. g \in Asks(world)[f]
    BY <1>2 DEF Asks, Needs
  <2>3. \A x \in Files : Rank(x) = Layer[Kind[x]] /\ Rank(x) \in Nat
    BY KindAssumption DEF Rank, Layer
  <2>4. Rank(g) < Rank(f) /\ Rank(f) \in Nat /\ Rank(g) \in Nat
    BY <1>2, <2>1, <2>2, <2>3
  <2>5. PICK j \in DOMAIN ordered : ordered[j] = g
    BY IInvOnce DEF EveryFileOnce, Elements
  <2>6. j \in Nat /\ j # i
    BY <1>1, <2>4, <2>5
  <2>7. ~ (i < j)
    <3> SUFFICES ASSUME i < j PROVE FALSE
      OBVIOUS
    <3>1. PICK h \in Files : SortsBefore(h, g) /\ Reaches(h, f)
      BY <2>5, IInvRank DEF RankUnlessNeeded
    <3>2. ASSUME NEW x \in Files PROVE Deps(x) = {}
      <4>1. info[x].needed = << >>
        BY <2>1 DEF Given, Parsed
      <4>2. DOMAIN info[x].needed = {}
        BY <4>1
      <4> QED
        BY <4>2 DEF Deps
    <3>3. {h} \in SUBSET Files /\ h \in {h} /\ Abstract!ClosedUnder(Edges, {h})
      BY <3>2 DEF Abstract!ClosedUnder, Edges
    <3>4. f = h
      BY <3>1, <3>3 DEF Reaches, Abstract!ReachedBy
    <3> QED
      BY <2>4, <3>1, <3>4 DEF SortsBefore
  <2> QED
    BY <1>2, <2>5, <2>6, <2>7
<1> QED
  BY <1>3, <1>4

-----------------------------------------------------------------------------
(* What is true of the constructor at every step.                           *)

Sought == world.isdir /\ \A stem \in Elements(Libraries) : world.found[stem] # NoFile

\* What has been established when a loop is entered, and what waits for it.
Phases ==
  /\ pc \in {"order", "preload", "bind", "ready"} => Sought
  /\ pc \in {"preload", "bind", "ready"} => Finished
  /\ pc \in {"find", "order"} => at = 1
  /\ pc \in {"find", "order", "preload"} => libs = << >> /\ lookup = {}
  /\ pc = "ready" => at > Len(Stems)
  /\ pc # "ready" => served = << >>

\* What could be opened is mapped, and what has to be open is.
Opened ==
  /\ pc = "preload" => \A i \in DOMAIN ordered : i < at =>
       /\ Real[ordered[i]] \in Wanted => Real[ordered[i]] \in preloaded
       /\ Loadable(ordered[i]) => ordered[i] \in mapped
  /\ pc \in {"bind", "ready"} => Wanted \subseteq preloaded

\* A library is bound when its turn is over, and what its handle shows is
\* typed and attributed.
Bound ==
  /\ libs \in Seq(Elements(Stems))
  /\ \A i \in DOMAIN libs : WantedFile(libs[i]) \in Files
  /\ pc \in {"bind", "ready"} =>
       /\ \A i \in DOMAIN libs : \A n \in Prototypes \cap Visible(WantedFile(libs[i])) :
            <<libs[i], n>> \in typed /\ n \in Claimed
       /\ \A k \in DOMAIN Stems :
            k < at /\ WantedFile(Stems[k]) # NoFile => Stems[k] \in Elements(libs)

\* A name is attributed once, to a bound library that defines it and has it typed.
Attributed ==
  /\ \A pair \in lookup : /\ pair[2] \in Elements(libs)
                          /\ pair[1] \in world.exports[WantedFile(pair[2])]
                          /\ <<pair[2], pair[1]>> \in typed
  /\ \A pair, other \in lookup : pair[1] = other[1] => pair[2] = other[2]

\* The handles that show n, and what attribute access makes of n.
Raw(n) == {i \in DOMAIN libs : n \in Visible(WantedFile(libs[i]))}

Provides(n, provider) ==
  \/ <<n, provider>> \in lookup
  \/ /\ n \notin Claimed
     /\ \E i \in Raw(n) : (\A j \in Raw(n) : i <= j) /\ provider = libs[i]
  \/ /\ n \notin Claimed /\ Raw(n) = {}
     /\ world.platform = "windows" /\ n \in Prototypes /\ n \in world.kernel32
     /\ provider = "kernel32" /\ n \in cache
  \/ /\ n \notin Claimed /\ Raw(n) = {}
     /\ ~ (world.platform = "windows" /\ n \in Prototypes \cap world.kernel32)
     /\ provider = "AttributeError"

ServedAsProvided ==
  served # << >> =>
    \E n \in Functions : \E provider : served = <<n, provider>> /\ Provides(n, provider)

LoaderInv ==
  /\ Given
  /\ IInv
  /\ LoaderTypeOK
  /\ Phases
  /\ Opened
  /\ Bound
  /\ Attributed
  /\ ServedAsProvided
  /\ RaisesForCause

\* The directory, the host and what the linker would do with them never change.
LEMMA WorldFixed ==
  ASSUME world' = world
  PROVE  /\ Wanted' = Wanted
         /\ \A stem : WantedFile(stem)' = WantedFile(stem)
         /\ \A f : Loadable(f)' <=> Loadable(f)
         /\ Sought' <=> Sought
<1>0. (\A stem : FoundFile(stem)' = FoundFile(stem)) /\ Stems' = Stems
  BY DEF FoundFile, Stems
<1>1. \A stem : WantedFile(stem)' = WantedFile(stem)
  BY <1>0 DEF WantedFile
<1>2. Wanted' = Wanted
  BY <1>0 DEF Wanted
<1>3. ASSUME NEW f PROVE Loadable(f)' <=> Loadable(f)
  BY DEF Loadable, Needs, MetBy, LinkName
<1>4. Sought' <=> Sought
  BY DEF Sought
<1> QED
  BY <1>1, <1>2, <1>3, <1>4

\* Once the libraries are mapped, neither does what their handles show.
LEMMA HandlesFixed ==
  ASSUME world' = world, mapped' = mapped
  PROVE  \A f : Visible(f)' = Visible(f)
<1>1. Resolved' = Resolved
  BY DEF Resolved, LinkName, Needs
<1> QED
  BY <1>1 DEF Visible

LEMMA StemElements ==
  /\ Stems \in Seq(STRING)
  /\ Elements(Libraries) \subseteq Elements(Stems)
  /\ "kernel32" \notin Elements(Stems) /\ "AttributeError" \notin Elements(Stems)
<1>1. Stems \in Seq(STRING)
  BY StemsAssumption DEF Stems
<1>2. ASSUME NEW k \in DOMAIN Libraries PROVE Libraries[k] \in Elements(Stems)
  <2>1. k \in DOMAIN Stems /\ Stems[k] = Libraries[k]
    BY StemsAssumption DEF Stems
  <2> QED
    BY <2>1 DEF Elements
<1> QED
  BY <1>1, <1>2, StemsAssumption DEF Stems, Elements

\* What find_library found is a real file of the directory, or nothing.
LEMMA WantedFiles ==
  ASSUME world \in Worlds
  PROVE  /\ \A stem \in Elements(Stems) :
              /\ FoundFile(stem) = NoFile <=> world.found[stem] = NoFile
              /\ WantedFile(stem) \in {FoundFile(stem), NoFile}
              /\ WantedFile(stem) # NoFile => WantedFile(stem) \in Wanted
         /\ \A f \in Wanted : f \in Files /\ Real[f] = f
<1>1. \A stem \in Elements(Stems) : world.found[stem] \in Files \cup {NoFile}
  BY WorldTypes
<1>2. ASSUME NEW stem \in Elements(Stems)
      PROVE  /\ FoundFile(stem) = NoFile <=> world.found[stem] = NoFile
             /\ FoundFile(stem) # NoFile => /\ FoundFile(stem) \in Files
                                            /\ Real[FoundFile(stem)] = FoundFile(stem)
  BY <1>1, RealFiles DEF FoundFile
<1>3. \A stem : WantedFile(stem) \in {FoundFile(stem), NoFile}
  BY DEF WantedFile
<1> QED
  BY <1>2, <1>3 DEF Wanted

\* dlopen maps files of the directory, f among them.
LEMMA MapsFiles ==
  ASSUME NEW f \in Files
  PROVE  f \in Maps(f) /\ Maps(f) \subseteq Files
<1>1. \A g \in Files : Siblings[g] \subseteq Files
  BY DEF Siblings
<1>2. f \in LeadsTo(Siblings, f) /\ LeadsTo(Siblings, f) \subseteq Files
  BY <1>1, LeadsToClosed, LeadsToSelf
<1> QED
  BY <1>2 DEF Maps, MapsWith

\* A handle shows at least what its own library exports.
LEMMA OwnExports ==
  ASSUME NEW f \in Files, Real[f] = f
  PROVE  world.exports[f] \subseteq Visible(f)
<1>1. f \in LeadsTo(Resolved, f)
  BY LeadsToSelf
<1> QED
  BY <1>1 DEF Visible

-----------------------------------------------------------------------------
(* The order lets every library open that some order would let open.        *)

LEMMA OpensWhatIsLoadable ==
  ASSUME LoaderInv, pc = "preload", at \in DOMAIN ordered, Loadable(ordered[at])
  PROVE  Opens(ordered[at])
<1> DEFINE f == ordered[at]
<1>1. /\ world \in Worlds /\ Given /\ IInv /\ Finished
      /\ \A i \in DOMAIN ordered : ordered[i] \in Files
      /\ \A i \in DOMAIN ordered : i < at /\ Loadable(ordered[i]) => ordered[i] \in mapped
  BY DEF LoaderInv, Given, Phases, Opened, IInv, TypeOK
<1>2. f \in Files /\ at \in Nat /\ DOMAIN ordered \subseteq Nat
  BY <1>1 DEF IInv, TypeOK
<1>3. \A g \in Files : Loadable(g) => g \notin world.broken
  BY DEF Loadable
\* Where the order matters: what a loadable file needs is mapped by then.
<1>4. ASSUME Layered, NEW i \in DOMAIN ordered, i <= at, Loadable(ordered[i]),
             NEW name \in Needs(ordered[i])
      PROVE  MetBy(name, mapped)
  <2>1. CASE name \in world.system
    BY <2>1 DEF MetBy
  <2>2. CASE name \notin world.system
    <3>1. PICK g \in Files : Loadable(g) /\ LinkName(g) = name /\ name \in AskedAs(world, g)
      BY <1>1, <2>2, LoadableNeeds, <1>4
    <3>2. PICK j \in DOMAIN ordered :
            j < i /\ name \in AskedAs(world, ordered[j]) /\ Real[ordered[j]] = Real[g]
      BY <1>1, <1>4, <3>1, AskedComesBefore
    <3>3. ordered[j] \in Files /\ Loadable(ordered[j])
      BY <1>1, <3>1, <3>2, LoadableLink
    <3>4. LinkName(ordered[j]) = name
      BY <1>1, <3>1, <3>2, <3>3, LinkNameOfLink
    <3>5. j < at
      BY <1>2, <1>4, <3>2
    <3>6. ordered[j] \in mapped
      BY <1>1, <3>3, <3>5, <3>2
    <3> QED
      BY <3>4, <3>6 DEF MetBy
  <2> QED
    BY <2>1, <2>2
<1>5. CASE world.platform = "android"
  <2>1. Layered
    BY <1>1, <1>5, LayersAssumption DEF Layered
  <2>2. \A name \in Needs(f) : MetBy(name, mapped)
    BY <1>2, <1>4, <2>1
  <2> QED
    BY <1>2, <1>3, <1>5, <2>2 DEF Opens, OpensBySoname
<1>6. CASE world.platform # "android" /\ Layered
  <2> DEFINE P == {x \in Files : /\ Loadable(x)
                                 /\ \E j \in DOMAIN ordered : j <= at /\ Real[ordered[j]] = Real[x]}
  <2>1. f \in P
    BY <1>2
  <2>2. ASSUME NEW x \in P
        PROVE  \E j \in DOMAIN ordered :
                 j <= at /\ Real[ordered[j]] = Real[x] /\ Loadable(ordered[j]) /\ Needs(ordered[j]) = Needs(x)
    <3>1. PICK j \in DOMAIN ordered : j <= at /\ Real[ordered[j]] = Real[x]
      OBVIOUS
    <3>2. x \in Files /\ Loadable(x) /\ ordered[j] \in Files
      BY <1>1
    <3>3. Loadable(ordered[j]) /\ Needs(ordered[j]) = Needs(x)
      BY <1>1, <3>1, <3>2, LoadableLink, OneFile
    <3> QED
      BY <3>1, <3>3
  <2>3. ASSUME NEW x \in P, NEW y \in Siblings[x] PROVE y \in P
    <3>1. x \in Files /\ Loadable(x) /\ y \in Files /\ Base[y] \in Needs(x)
      BY DEF Siblings
    <3>2. PICK i \in DOMAIN ordered :
            i <= at /\ Real[ordered[i]] = Real[x] /\ Loadable(ordered[i]) /\ Needs(ordered[i]) = Needs(x)
      BY <2>2
    <3>3. Base[y] \in AskedAs(world, y) \cap Needs(ordered[i])
      BY <3>1, <3>2 DEF AskedAs
    <3>4. PICK j \in DOMAIN ordered :
            j < i /\ Base[y] \in AskedAs(world, ordered[j]) /\ Real[ordered[j]] = Real[y]
      BY <1>1, <1>6, <3>1, <3>3, AskedComesBefore
    <3>5. j <= at
      BY <1>2, <3>2, <3>4
    <3>6. Loadable(y)
      BY <1>1, <3>1, LoadableSibling
    <3> QED
      BY <3>1, <3>4, <3>5, <3>6
  <2>4. MapsWith(f) \subseteq P
    BY <2>1, <2>3, LeadsToClosed DEF MapsWith
  <2>5. ASSUME NEW x \in P
        PROVE  x \notin world.broken /\ \A name \in Needs(x) : MetBy(name, mapped)
    <3>1. PICK i \in DOMAIN ordered :
            i <= at /\ Real[ordered[i]] = Real[x] /\ Loadable(ordered[i]) /\ Needs(ordered[i]) = Needs(x)
      BY <2>2
    <3> QED
      BY <1>3, <1>4, <1>6, <3>1
  <2> QED
    BY <1>6, <2>4, <2>5 DEF Opens, OpensByRpath
\* Where it does not: the siblings are found by their file names.
<1>7. CASE world.platform # "android" /\ \A x \in Files : AskedAs(world, x) = {Base[x]}
  <2> DEFINE P == {x \in Files : Loadable(x)}
  <2>1. ASSUME NEW x \in P, NEW y \in Siblings[x] PROVE y \in P
    <3>1. x \in Files /\ Loadable(x) /\ y \in Files /\ Base[y] \in Needs(x)
      BY DEF Siblings
    <3> QED
      BY <1>1, <3>1, LoadableSibling
  <2>2. MapsWith(f) \subseteq P
    BY <1>2, <2>1, LeadsToClosed DEF MapsWith
  <2>3. ASSUME NEW x \in P, NEW name \in Needs(x)
        PROVE  MetBy(name, mapped) \/ \E h \in Siblings[x] : Base[h] = name
    <3>1. CASE name \in world.system
      BY <3>1 DEF MetBy
    <3>2. CASE name \notin world.system
      <4>1. PICK g \in Files : Loadable(g) /\ LinkName(g) = name /\ name \in AskedAs(world, g)
        BY <1>1, <3>2, LoadableNeeds
      <4>2. Base[g] = name
        BY <1>7, <4>1
      <4> QED
        BY <4>1, <4>2 DEF Siblings
    <3> QED
      BY <3>1, <3>2
  <2> QED
    BY <1>3, <1>7, <2>2, <2>3 DEF Opens, OpensByRpath
<1>8. \/ Layered
      \/ world.platform # "android" /\ \A x \in Files : AskedAs(world, x) = {Base[x]}
  BY <1>1, LayersAssumption DEF Layered
<1> QED
  BY <1>5, <1>6, <1>7, <1>8

-----------------------------------------------------------------------------
(* One lemma per step of the constructor and for attribute access.          *)

LEMMA LoaderInitInv == LoaderInit => LoaderInv
<1> SUFFICES ASSUME LoaderInit PROVE LoaderInv
  OBVIOUS
<1> USE DEF LoaderInit
<1>1. Given
  BY DEF Given
<1>2. IInv
  BY InitIInv
<1>3. DOMAIN libs = {} /\ Elements(libs) = {}
  BY DEF Elements
<1>4. LoaderTypeOK
  BY <1>2, <1>3 DEF LoaderTypeOK, IInv
<1>5. Phases
  BY DEF Phases
<1>6. Opened
  BY DEF Opened
<1>7. Bound
  BY <1>3 DEF Bound
<1>8. Attributed
  BY DEF Attributed
<1>9. ServedAsProvided /\ RaisesForCause
  BY DEF ServedAsProvided, RaisesForCause
<1> QED
  BY <1>1, <1>2, <1>4, <1>5, <1>6, <1>7, <1>8, <1>9 DEF LoaderInv

\* What a step that leaves the order alone leaves alone with it.
LEMMA OrderFixed ==
  ASSUME Given, IInv, world' = world, UNCHANGED vars
  PROVE  /\ Given' /\ IInv' /\ TypeOK' /\ (Finished' <=> Finished) /\ ordered' = ordered
<1>1. info' = info /\ ordered' = ordered /\ todo' = todo /\ stack' = stack
  BY DEF vars
<1>2. IInv'
  BY StutterKeepsIInv
<1>3. Given'
  BY <1>1 DEF Given, Parsed
<1> QED
  BY <1>1, <1>2, <1>3 DEF Finished, IInv

\* What binding and attribute access have made, where a step leaves it alone.
LEMMA TablesFixed ==
  ASSUME world' = world, mapped' = mapped, libs' = libs, lookup' = lookup,
         typed' = typed, cache' = cache, served' = served
  PROVE  /\ Attributed => Attributed'
         /\ ServedAsProvided => ServedAsProvided'
<1>1. \A stem : WantedFile(stem)' = WantedFile(stem)
  BY WorldFixed
<1>2. \A f : Visible(f)' = Visible(f)
  BY HandlesFixed
<1>3. Claimed' = Claimed
  BY DEF Claimed
<1>4. \A n : Raw(n)' = Raw(n)
  BY <1>1, <1>2 DEF Raw
<1>5. \A n, provider : Provides(n, provider)' <=> Provides(n, provider)
  BY <1>3, <1>4 DEF Provides
<1>6. Attributed => Attributed'
  BY <1>1 DEF Attributed
<1>7. ServedAsProvided => ServedAsProvided'
  BY <1>5 DEF ServedAsProvided
<1> QED
  BY <1>6, <1>7

\* Without a library bound there is nothing to say of one.
LEMMA NothingBound ==
  ASSUME pc \notin {"bind", "ready"}, libs = << >>, lookup = {}, served = << >>
  PROVE  Bound /\ Attributed /\ ServedAsProvided
<1>1. DOMAIN libs = {} /\ libs \in Seq(Elements(Stems))
  OBVIOUS
<1>2. Bound
  BY <1>1 DEF Bound
<1>3. Attributed
  BY DEF Attributed
<1> QED
  BY <1>2, <1>3 DEF ServedAsProvided

LEMMA FindLibrariesKeeps ==
  ASSUME LoaderInv, FindLibraries
  PROVE  LoaderInv'
<1> USE DEF FindLibraries
<1>1. Given' /\ IInv' /\ TypeOK' /\ ordered' = ordered
  BY OrderFixed DEF LoaderInv
<1>2. LoaderTypeOK'
  BY <1>1 DEF LoaderInv, LoaderTypeOK, Stems
<1>3. /\ libs' = << >> /\ lookup' = {} /\ served' = << >> /\ at' = 1
      /\ pc' \in {"order", "raised"} /\ (pc' = "order" <=> Sought)
  BY DEF LoaderInv, Phases, Sought
<1>4. Sought' <=> Sought
  BY WorldFixed
<1>5. Phases'
  BY <1>3, <1>4 DEF Phases
<1>6. Opened'
  BY <1>3 DEF Opened
<1>7. (Bound /\ Attributed /\ ServedAsProvided)'
  BY <1>3, NothingBound DEF Bound, Attributed, ServedAsProvided
<1>8. RaisesForCause'
  <2>1. \A stem : WantedFile(stem)' = WantedFile(stem)
    BY WorldFixed
  <2>2. \A stem : world.found[stem] = NoFile => WantedFile(stem) = NoFile
    BY DEF WantedFile, FoundFile
  <2> QED
    BY <1>3, <2>1, <2>2 DEF RaisesForCause, Sought
<1> QED
  BY <1>1, <1>2, <1>5, <1>6, <1>7, <1>8 DEF LoaderInv

LEMMA ComputeOrderKeeps ==
  ASSUME LoaderInv, ComputeOrder
  PROVE  LoaderInv'
<1>1. /\ pc = "order" /\ world' = world /\ at' = at /\ mapped' = mapped /\ preloaded' = preloaded
      /\ diagnosis' = diagnosis /\ libs' = libs /\ lookup' = lookup /\ typed' = typed
      /\ cache' = cache /\ served' = served
  BY DEF ComputeOrder
<1>2. \/ Next /\ pc' = "order"
      \/ Finished /\ pc' = "preload" /\ UNCHANGED vars
  BY <1>1 DEF ComputeOrder
<1>3. info' = info
  BY <1>2 DEF Next, NextRoot, LookAtDep, Return, vars
<1>4. Given' /\ IInv' /\ TypeOK'
  <2>1. Given'
    BY <1>1, <1>3 DEF LoaderInv, Given, Parsed
  <2>2. IInv'
    BY <1>2, NextIInv DEF LoaderInv
  <2> QED
    BY <2>1, <2>2 DEF IInv
<1>5. LoaderTypeOK'
  BY <1>1, <1>2, <1>4 DEF LoaderInv, LoaderTypeOK, Stems
<1>6. /\ libs' = << >> /\ lookup' = {} /\ served' = << >> /\ at' = 1
      /\ pc' \in {"order", "preload"}
  BY <1>1, <1>2 DEF LoaderInv, Phases
<1>7. Phases'
  <2>1. Sought'
    BY <1>1, WorldFixed DEF LoaderInv, Phases
  <2>2. pc' = "preload" => Finished'
    BY <1>2, OrderFixed, <1>1 DEF LoaderInv
  <2> QED
    BY <1>6, <2>1, <2>2 DEF Phases
<1>8. Opened'
  <2>1. DOMAIN ordered' \subseteq Nat \ {0}
    BY <1>4 DEF TypeOK
  <2>2. \A i \in DOMAIN ordered' : ~ (i < at')
    BY <1>6, <2>1
  <2> QED
    BY <1>6, <2>2 DEF Opened
<1>9. (Bound /\ Attributed /\ ServedAsProvided)'
  BY <1>6, NothingBound DEF Bound, Attributed, ServedAsProvided
<1>10. RaisesForCause'
  BY <1>6 DEF RaisesForCause
<1> QED
  BY <1>4, <1>5, <1>7, <1>8, <1>9, <1>10 DEF LoaderInv

\* Every library that is looked for is in the order, as the file it is.
LEMMA PreloadDoneKeeps ==
  ASSUME LoaderInv, PreloadDone
  PROVE  LoaderInv'
<1> USE DEF PreloadDone
<1>1. Given' /\ IInv' /\ TypeOK' /\ ordered' = ordered /\ (Finished' <=> Finished)
  BY OrderFixed DEF LoaderInv
<1>2. LoaderTypeOK'
  BY <1>1 DEF LoaderInv, LoaderTypeOK, Stems
<1>3. libs = << >> /\ lookup = {} /\ served = << >> /\ Sought /\ Finished
  BY DEF LoaderInv, Phases
<1>4. Phases'
  BY <1>1, <1>3, WorldFixed DEF Phases
<1>5. Opened'
  <2>1. ASSUME NEW f \in Wanted PROVE f \in preloaded
    <3>1. f \in Files /\ Real[f] = f
      BY WantedFiles DEF LoaderInv, Given
    <3>2. PICK i \in DOMAIN ordered : ordered[i] = f
      BY <1>3, <3>1, IInvOnce DEF LoaderInv, EveryFileOnce, Elements
    <3>3. i < at
      BY DEF LoaderInv, IInv, TypeOK, LoaderTypeOK
    <3> QED
      BY <3>1, <3>2, <3>3 DEF LoaderInv, Opened
  <2> QED
    BY <2>1, WorldFixed DEF Opened
<1>6. Bound'
  <2>1. libs' \in Seq(Elements(Stems)') /\ DOMAIN libs' = {}
    BY <1>3
  <2>2. DOMAIN Stems \subseteq Nat \ {0} /\ Stems' = Stems
    BY StemElements DEF Stems
  <2>3. \A k \in DOMAIN Stems' : ~ (k < at')
    BY <2>2
  <2> QED
    BY <2>1, <2>3 DEF Bound
<1>7. Attributed' /\ ServedAsProvided'
  BY TablesFixed DEF LoaderInv
<1>8. RaisesForCause'
  BY DEF RaisesForCause
<1> QED
  BY <1>1, <1>2, <1>4, <1>5, <1>6, <1>7, <1>8 DEF LoaderInv

LEMMA ExplainSays ==
  \A f : /\ Explain(f) # << >> /\ Explain(f).path = f
         /\ Explain(f).unmet = Elements(info[f].needed) \ UNION {Keys(g) : g \in Files}
<1>1. \A f : /\ Explain(f).path = f /\ "path" \in DOMAIN Explain(f)
             /\ Explain(f).unmet = Elements(info[f].needed) \ UNION {Keys(g) : g \in Files}
  BY DEF Explain
<1>2. "path" \notin DOMAIN << >>
  OBVIOUS
<1> QED
  BY <1>1, <1>2

\* One turn of the preload loop: what does not open could not have.
LEMMA PreloadKeeps ==
  ASSUME LoaderInv, Preload
  PROVE  LoaderInv'
<1> DEFINE f == ordered[at]
<1>1. /\ pc = "preload" /\ at <= Len(ordered) /\ UNCHANGED vars /\ world' = world
      /\ libs' = libs /\ lookup' = lookup /\ typed' = typed /\ cache' = cache /\ served' = served
  BY DEF Preload
<1>2. Given' /\ IInv' /\ TypeOK' /\ ordered' = ordered /\ (Finished' <=> Finished)
  BY <1>1, OrderFixed DEF LoaderInv
<1>3. /\ at \in DOMAIN ordered /\ at \in Nat \ {0} /\ f \in Files /\ Real[f] \in Files
      /\ \A i \in DOMAIN ordered : i \in Nat /\ ordered[i] \in Files
  BY <1>1, RealFiles DEF LoaderInv, LoaderTypeOK, IInv, TypeOK
<1>4. /\ libs' = << >> /\ lookup' = {} /\ served' = << >> /\ Sought /\ Finished
      /\ libs = << >> /\ lookup = {} /\ served = << >> /\ world \in Worlds
  BY <1>1 DEF LoaderInv, Phases, Given
<1>5. \/ /\ Opens(f) /\ mapped' = mapped \cup Maps(f) /\ preloaded' = preloaded \cup {Real[f]}
         /\ at' = at + 1 /\ pc' = pc /\ diagnosis' = diagnosis
      \/ /\ ~ Opens(f) /\ Real[f] \in Wanted /\ pc' = "raised" /\ diagnosis' = Explain(f)
         /\ at' = at /\ mapped' = mapped /\ preloaded' = preloaded
      \/ /\ ~ Opens(f) /\ Real[f] \notin Wanted /\ at' = at + 1
         /\ pc' = pc /\ diagnosis' = diagnosis /\ mapped' = mapped /\ preloaded' = preloaded
  BY DEF Preload
<1>6. LoaderTypeOK'
  <2>1. mapped' \subseteq Files /\ preloaded' \subseteq mapped' \cup {Real[g] : g \in mapped'}
    BY <1>3, <1>5, MapsFiles DEF LoaderInv, LoaderTypeOK
  <2>2. pc' \in {"preload", "raised"} /\ at' \in Nat \ {0}
    BY <1>1, <1>3, <1>5
  <2>3. diagnosis' = << >> \/ diagnosis' \in [path : Files, unmet : SUBSET Names]
    <3>1. info[f].needed \in Seq(Names)
      BY <1>3 DEF LoaderInv, IInv, TypeOK, InfoType
    <3>2. Elements(info[f].needed) \subseteq Names
      BY <3>1 DEF Elements
    <3>3. Explain(f) \in [path : Files, unmet : SUBSET Names]
      BY <1>3, <3>2 DEF Explain
    <3> QED
      BY <1>5, <3>3 DEF LoaderInv, LoaderTypeOK
  <2>4. /\ Elements(libs') \subseteq Elements(Stems) /\ lookup' \subseteq Prototypes \X Elements(Stems)
        /\ typed' \subseteq Elements(Stems) \X Prototypes /\ cache' \subseteq Prototypes
        /\ served' = << >> \/ served'[1] \in Functions
    BY <1>1 DEF LoaderInv, LoaderTypeOK
  <2> QED
    BY <1>2, <2>1, <2>2, <2>3, <2>4 DEF LoaderTypeOK, Stems
<1>7. Phases'
  BY <1>1, <1>2, <1>4, <1>5, WorldFixed DEF Phases
<1>8. Opened'
  <2> SUFFICES ASSUME pc' = "preload", NEW i \in DOMAIN ordered, i < at'
               PROVE  /\ Real[ordered[i]] \in Wanted => Real[ordered[i]] \in preloaded'
                      /\ Loadable(ordered[i]) => ordered[i] \in mapped'
    <3>1. pc' \in {"preload", "raised"}
      BY <1>1, <1>5
    <3>2. pc' = "preload" => at' = at + 1
      BY <1>5
    <3> QED
      BY <1>1, <1>2, <3>1, WorldFixed DEF Opened
  <2>1. at' = at + 1
    BY <1>5
  <2>2. i < at \/ i = at
    BY <1>3, <2>1
  <2>3. CASE i < at
    <3>1. /\ Real[ordered[i]] \in Wanted => Real[ordered[i]] \in preloaded
          /\ Loadable(ordered[i]) => ordered[i] \in mapped
      BY <1>1, <2>3 DEF LoaderInv, Opened
    <3>2. preloaded \subseteq preloaded' /\ mapped \subseteq mapped'
      BY <1>5
    <3> QED
      BY <3>1, <3>2
  <2>4. CASE i = at
    <3>1. CASE Opens(f)
      BY <1>3, <1>5, <2>4, <3>1, MapsFiles
    <3>2. CASE ~ Opens(f)
      BY <1>1, <1>3, <1>5, <2>4, <3>2, OpensWhatIsLoadable
    <3> QED
      BY <3>1, <3>2
  <2> QED
    BY <2>2, <2>3, <2>4
<1>9. (Bound /\ Attributed /\ ServedAsProvided)'
  <2>1. pc' \notin {"bind", "ready"}
    BY <1>1, <1>5
  <2> QED
    BY <1>4, <2>1, NothingBound DEF Bound, Attributed, ServedAsProvided
<1>10. RaisesForCause'
  <2>1. CASE pc' = "raised"
    <3>1. ~ Opens(f) /\ Real[f] \in Wanted /\ diagnosis' = Explain(f)
      BY <1>1, <1>5, <2>1
    <3>2. ~ Loadable(f)
      BY <1>1, <1>3, <3>1, OpensWhatIsLoadable
    <3>3. diagnosis' # << >> /\ diagnosis'.path = f
      BY <3>1, ExplainSays
    <3>4. Wanted' = Wanted /\ \A g : Loadable(g)' <=> Loadable(g)
      BY <1>1, WorldFixed
    <3> QED
      BY <1>1, <1>2, <3>1, <3>2, <3>3, <3>4, WorldFixed DEF RaisesForCause
  <2> QED
    BY <2>1 DEF RaisesForCause
<1> QED
  BY <1>2, <1>6, <1>7, <1>8, <1>9, <1>10 DEF LoaderInv

\* What the handles resolve to is asked for by name.
LEMMA ResolvedIsAsked ==
  /\ Asks(world) \in [Files -> SUBSET Files]
  /\ mapped \subseteq Files => \A f \in Files : Resolved[f] \subseteq Asks(world)[f]
<1>1. Asks(world) \in [Files -> SUBSET Files]
  BY DEF Asks
<1>2. ASSUME mapped \subseteq Files, NEW f \in Files, NEW g \in Resolved[f]
      PROVE  g \in Asks(world)[f]
  <2>1. g \in Files /\ (LinkName(g) \in Needs(f) \/ Base[g] \in Needs(f))
    BY <1>2 DEF Resolved
  <2>2. LinkName(g) \in AskedAs(world, g) /\ Base[g] \in AskedAs(world, g)
    BY DEF AskedAs, LinkName
  <2>3. AskedAs(world, g) \cap Elements(world.needed[f]) # {}
    BY <2>1, <2>2 DEF Needs
  <2> QED
    BY <2>1, <2>3 DEF Asks
<1> QED
  BY <1>1, <1>2

\* A prototype that a handle shows and that its own library does not export
\* has been attributed already.
LEMMA ShownIsOwnOrClaimed ==
  ASSUME LoaderInv, pc = "bind", at \in DOMAIN Stems, WantedFile(Stems[at]) \in preloaded,
         NEW n \in Prototypes \cap Visible(WantedFile(Stems[at])), n \notin Claimed
  PROVE  n \in world.exports[WantedFile(Stems[at])]
<1> DEFINE path == WantedFile(Stems[at])
<1>1. /\ world \in Worlds /\ Sought /\ mapped \subseteq Files /\ at \in Nat
      /\ Stems[at] \in Elements(Stems) /\ DOMAIN Stems = 1 .. Len(Stems) /\ Len(Stems) \in Nat
  BY StemElements DEF LoaderInv, Given, Phases, LoaderTypeOK, Elements
<1>2. path \in Files /\ Real[path] = path
  <2>1. path \in Files
    BY RealFiles DEF LoaderInv, LoaderTypeOK
  <2> QED
    BY <1>1, <2>1, RealFiles, WantedFiles
<1>3. PICK g \in LeadsTo(Resolved, path) : n \in world.exports[Real[g]]
  BY DEF Visible
<1>4. LeadsTo(Resolved, path) \subseteq LeadsTo(Asks(world), path)
  <2>1. \A f \in Files : Resolved[f] \subseteq Asks(world)[f]
    BY <1>1, ResolvedIsAsked
  <2> QED
    BY <1>2, <2>1, ResolvedIsAsked, LeadsToMonotone
<1> DEFINE kept(i) ==
             world.found[Stems[i]] # NoFile /\ \A j \in DOMAIN Stems :
               i < j /\ world.found[Stems[j]] # NoFile =>
                 Real[world.found[Stems[j]]] # Real[world.found[Stems[i]]]
<1>5. /\ kept(at)
      /\ path = Real[world.found[Stems[at]]]
  <2>1. path = FoundFile(Stems[at]) /\ path # NoFile
    BY <1>2, RealFiles DEF WantedFile
  <2>2. world.found[Stems[at]] # NoFile /\ path = Real[world.found[Stems[at]]]
    BY <2>1 DEF FoundFile
  <2>3. ASSUME NEW j \in DOMAIN Stems, at < j, world.found[Stems[j]] # NoFile
        PROVE  Real[world.found[Stems[j]]] # Real[world.found[Stems[at]]]
    <3>1. FoundFile(Stems[j]) # FoundFile(Stems[at])
      BY <2>1, <2>3 DEF WantedFile
    <3> QED
      BY <2>2, <2>3, <3>1 DEF FoundFile
  <2> QED
    BY <2>2, <2>3
<1>6. PICK j \in 1 .. at : kept(j) /\ Real[world.found[Stems[j]]] = Real[g]
  <2>1. world.exports[Real[g]] \cap Prototypes # {}
    BY <1>3
  <2>2. \A stem \in Elements(Libraries) : world.found[stem] # NoFile
    BY <1>1 DEF Sought
  <2>3. \A i \in DOMAIN Stems : kept(i) =>
          \A x \in LeadsTo(Asks(world), Real[world.found[Stems[i]]]) :
            world.exports[Real[x]] \cap Prototypes # {} =>
              \E j \in 1 .. i : kept(j) /\ Real[world.found[Stems[j]]] = Real[x]
    BY <1>1, <2>2, ExportsAssumption DEF Stems
  <2>4. g \in LeadsTo(Asks(world), Real[world.found[Stems[at]]])
    BY <1>3, <1>4, <1>5
  <2> QED
    BY <1>5, <2>1, <2>3, <2>4
<1>7. j \in DOMAIN Stems /\ WantedFile(Stems[j]) = Real[g] /\ Real[g] \in Files
  <2>1. j \in DOMAIN Stems /\ FoundFile(Stems[j]) = Real[g]
    BY <1>1, <1>6 DEF FoundFile
  <2>2. Real[g] \in Files
    <3>1. world.found[Stems[j]] \in Files
      <4>1. Stems[j] \in Elements(Stems)
        BY <2>1 DEF Elements
      <4> QED
        BY <1>1, <1>6, <4>1, WorldTypes
    <3> QED
      BY <1>6, <3>1, RealFiles
  <2>3. ASSUME NEW i \in DOMAIN Stems, NEW k \in DOMAIN Stems,
               i < k, Stems[i] = Stems[j], FoundFile(Stems[k]) = FoundFile(Stems[j])
        PROVE  FALSE
    <3>1. i = j
      BY <2>1, <2>3, StemsAssumption DEF Stems
    <3>2. FoundFile(Stems[k]) # NoFile
      BY <2>1, <2>2, <2>3, RealFiles
    <3>3. world.found[Stems[k]] # NoFile /\ FoundFile(Stems[k]) = Real[world.found[Stems[k]]]
      BY <3>2 DEF FoundFile
    <3> QED
      BY <1>6, <2>1, <2>3, <3>1, <3>3
  <2> QED
    BY <2>1, <2>2, <2>3 DEF WantedFile
<1>8. CASE j = at
  BY <1>3, <1>7, <1>8
<1>9. CASE j # at
  <2>1. j < at
    BY <1>1, <1>9
  <2>2. Stems[j] \in Elements(libs)
    BY <1>6, <1>7, <2>1, RealFiles DEF LoaderInv, Bound
  <2>3. PICK i \in DOMAIN libs : libs[i] = Stems[j]
    BY <2>2 DEF Elements
  <2>4. WantedFile(Stems[j]) \in Files /\ Real[WantedFile(Stems[j])] = WantedFile(Stems[j])
    <3>1. WantedFile(Stems[j]) \in Files
      BY <2>3 DEF LoaderInv, Bound
    <3>2. Stems[j] \in Elements(Stems)
      BY <1>7 DEF Elements
    <3> QED
      BY <1>1, <3>1, <3>2, RealFiles, WantedFiles
  <2>5. n \in Visible(WantedFile(libs[i]))
    BY <1>3, <1>7, <2>3, <2>4, OwnExports
  <2>6. n \in Claimed
    BY <2>3, <2>5 DEF LoaderInv, Bound
  <2> QED
    BY <2>6
<1> QED
  BY <1>8, <1>9

\* One turn of the bind loop.
LEMMA BindKeeps ==
  ASSUME LoaderInv, Bind
  PROVE  LoaderInv'
<1> DEFINE stem == Stems[at]
           path == WantedFile(stem)
           bound == Prototypes \cap Visible(path)
<1>1. /\ pc = "bind" /\ at <= Len(Stems) /\ UNCHANGED vars /\ world' = world
      /\ mapped' = mapped /\ preloaded' = preloaded /\ diagnosis' = diagnosis
      /\ cache' = cache /\ served' = served
  BY DEF Bind
<1>2. Given' /\ IInv' /\ TypeOK' /\ ordered' = ordered /\ (Finished' <=> Finished)
  BY <1>1, OrderFixed DEF LoaderInv
<1>3. /\ at \in DOMAIN Stems /\ at \in Nat \ {0} /\ stem \in Elements(Stems)
      /\ world \in Worlds /\ Sought /\ Finished /\ served = << >>
      /\ preloaded \subseteq Files /\ mapped \subseteq Files /\ Wanted \subseteq preloaded
      /\ DOMAIN Stems = 1 .. Len(Stems) /\ Len(Stems) \in Nat
  <2>1. at \in Nat \ {0} /\ preloaded \subseteq Files /\ mapped \subseteq Files
    BY RealFiles DEF LoaderInv, LoaderTypeOK
  <2>2. Sought /\ Finished /\ served = << >> /\ world \in Worlds
    BY <1>1 DEF LoaderInv, Given, Phases
  <2>3. Wanted \subseteq preloaded
    BY <1>1 DEF LoaderInv, Opened
  <2>4. at \in DOMAIN Stems /\ DOMAIN Stems = 1 .. Len(Stems) /\ Len(Stems) \in Nat
    BY <1>1, <2>1, StemElements
  <2> QED
    BY <2>1, <2>2, <2>3, <2>4 DEF Elements
<1>4. \/ /\ path \notin preloaded /\ at' = at + 1 /\ pc' = pc
         /\ libs' = libs /\ lookup' = lookup /\ typed' = typed
      \/ /\ path \in preloaded /\ libs' = Append(libs, stem)
         /\ typed' = typed \cup {<<stem, n>> : n \in bound}
         /\ world.strict /\ pc' = "raised" /\ at' = at /\ lookup' = lookup
      \/ /\ path \in preloaded /\ libs' = Append(libs, stem)
         /\ typed' = typed \cup {<<stem, n>> : n \in bound}
         /\ lookup' = lookup \cup {<<n, stem>> : n \in bound \ Claimed}
         /\ at' = at + 1 /\ pc' = pc
  BY DEF Bind
<1>5. /\ \A s : WantedFile(s)' = WantedFile(s)
      /\ \A f : Visible(f)' = Visible(f)
      /\ Stems' = Stems /\ Wanted' = Wanted
  BY <1>1, WorldFixed, HandlesFixed DEF Stems
<1>0. stem = Stems[at] /\ path = WantedFile(stem) /\ bound = Prototypes \cap Visible(path)
  OBVIOUS
<1> HIDE DEF stem, path, bound
<1>6. /\ libs \in Seq(Elements(Stems)) /\ libs' \in Seq(Elements(Stems))
      /\ Elements(libs) \subseteq Elements(libs')
      /\ \A i \in DOMAIN libs' : \/ i \in DOMAIN libs /\ libs'[i] = libs[i]
                                 \/ path \in preloaded /\ libs'[i] = stem
      /\ path \in preloaded => stem \in Elements(libs')
  <2>1. libs \in Seq(Elements(Stems))
    BY DEF LoaderInv, Bound
  <2>2. CASE libs' = libs /\ path \notin preloaded
    BY <2>1, <2>2
  <2>3. CASE path \in preloaded /\ libs' = Append(libs, stem)
    <3>1. /\ libs' \in Seq(Elements(Stems)) /\ Len(libs') = Len(libs) + 1
          /\ DOMAIN libs = 1 .. Len(libs)
          /\ DOMAIN libs' = DOMAIN libs \cup {Len(libs) + 1}
          /\ Len(libs) + 1 \notin DOMAIN libs
          /\ \A i \in DOMAIN libs : libs'[i] = libs[i]
          /\ libs'[Len(libs) + 1] = stem
      BY <1>3, <2>1, <2>3, PushProperties
    <3> QED
      BY <2>1, <2>3, <3>1 DEF Elements
  <2> QED
    BY <1>4, <2>2, <2>3
<1>7. /\ lookup \subseteq lookup' /\ typed \subseteq typed' /\ Claimed \subseteq Claimed'
      /\ \A pair \in lookup' :
            \/ pair \in lookup
            \/ /\ path \in preloaded /\ pair[2] = stem /\ pair[1] \in bound /\ pair[1] \notin Claimed
               /\ <<stem, pair[1]>> \in typed'
  BY <1>4 DEF Claimed
<1>8. LoaderTypeOK'
  <2>1. lookup' \subseteq Prototypes \X Elements(Stems) /\ typed' \subseteq Elements(Stems) \X Prototypes
    BY <1>0, <1>3, <1>4 DEF LoaderInv, LoaderTypeOK
  <2>2. Elements(libs') \subseteq Elements(Stems)
    BY <1>6 DEF Elements
  <2>3. pc' \in {"bind", "raised"} /\ at' \in Nat \ {0}
    BY <1>1, <1>3, <1>4
  <2> QED
    BY <1>1, <1>2, <2>1, <2>2, <2>3 DEF LoaderInv, LoaderTypeOK, Stems
<1>9. Phases'
  <2>1. pc' \in {"bind", "raised"}
    BY <1>1, <1>4
  <2> QED
    BY <1>1, <1>2, <1>3, <2>1, WorldFixed DEF Phases
<1>10. Opened'
  <2>1. pc' \in {"bind", "raised"}
    BY <1>1, <1>4
  <2> QED
    BY <1>1, <1>3, <1>5, <2>1 DEF Opened
<1>11. Bound'
  <2>1. \A i \in DOMAIN libs' : WantedFile(libs'[i]) \in Files
    BY <1>0, <1>3, <1>6 DEF LoaderInv, Bound
  <2>2. ASSUME pc' = "bind", NEW i \in DOMAIN libs', NEW n \in Prototypes \cap Visible(WantedFile(libs'[i]))
        PROVE  <<libs'[i], n>> \in typed' /\ n \in Claimed'
    <3>1. CASE i \in DOMAIN libs /\ libs'[i] = libs[i]
      <4>1. <<libs[i], n>> \in typed /\ n \in Claimed
        BY <1>1, <2>2, <3>1 DEF LoaderInv, Bound
      <4> QED
        BY <1>7, <3>1, <4>1
    <3>2. CASE path \in preloaded /\ libs'[i] = stem
      <4>1. n \in bound
        BY <1>0, <2>2, <3>2
      <4>2. <<stem, n>> \in typed'
        BY <1>4, <3>2, <4>1
      <4>3. lookup' = lookup \cup {<<m, stem>> : m \in bound \ Claimed}
        BY <1>4, <2>2, <3>2
      <4>4. n \in Claimed \/ <<n, stem>> \in lookup'
        BY <4>1, <4>3
      <4>5. n \in Claimed'
        BY <1>7, <4>4 DEF Claimed
      <4> QED
        BY <3>2, <4>2, <4>5
    <3> QED
      BY <1>6, <3>1, <3>2
  <2>3. ASSUME pc' = "bind", NEW k \in DOMAIN Stems, k < at', WantedFile(Stems[k]) # NoFile
        PROVE  Stems[k] \in Elements(libs')
    <3>1. at' = at + 1
      BY <1>4, <2>3
    <3>2. CASE k < at
      <4>1. Stems[k] \in Elements(libs)
        BY <1>1, <2>3, <3>2 DEF LoaderInv, Bound
      <4> QED
        BY <1>6, <4>1
    <3>3. CASE k = at
      <4>1. path \in preloaded
        BY <1>0, <1>3, <2>3, <3>3, WantedFiles
      <4> QED
        BY <1>0, <1>6, <3>3, <4>1
    <3> QED
      BY <1>3, <2>3, <3>1, <3>2, <3>3
  <2>4. pc' \in {"bind", "raised"}
    BY <1>1, <1>4
  <2> QED
    BY <1>1, <1>5, <1>6, <2>1, <2>2, <2>3, <2>4 DEF Bound
<1>12. Attributed'
  <2>1. ASSUME NEW pair \in lookup'
        PROVE  /\ pair[2] \in Elements(libs')
               /\ pair[1] \in world.exports[WantedFile(pair[2])]
               /\ <<pair[2], pair[1]>> \in typed'
    <3>1. CASE pair \in lookup
      BY <1>6, <1>7, <3>1 DEF LoaderInv, Attributed
    <3>2. CASE pair \notin lookup
      <4>1. /\ path \in preloaded /\ pair[2] = stem /\ pair[1] \in bound /\ pair[1] \notin Claimed
            /\ <<stem, pair[1]>> \in typed'
        BY <1>7, <3>2
      <4>2. pair[1] \in world.exports[path]
        BY <1>0, <1>1, <1>3, <4>1, ShownIsOwnOrClaimed
      <4> QED
        BY <1>0, <1>6, <4>1, <4>2
    <3> QED
      BY <3>1, <3>2
  <2>2. ASSUME NEW pair \in lookup', NEW other \in lookup', pair[1] = other[1]
        PROVE  pair[2] = other[2]
    <3>1. \A p \in lookup : p[1] \in Claimed
      BY DEF Claimed
    <3>2. CASE pair \in lookup /\ other \in lookup
      BY <2>2, <3>2 DEF LoaderInv, Attributed
    <3>3. CASE pair \in lookup /\ other \notin lookup
      BY <1>7, <2>2, <3>1, <3>3
    <3>4. CASE pair \notin lookup /\ other \in lookup
      BY <1>7, <2>2, <3>1, <3>4
    <3>5. CASE pair \notin lookup /\ other \notin lookup
      <4>1. pair[2] = stem
        BY <1>7, <3>5
      <4>2. other[2] = stem
        BY <1>7, <3>5
      <4> QED
        BY <4>1, <4>2
    <3> QED
      BY <3>2, <3>3, <3>4, <3>5
  <2>3. \A pair \in lookup' : pair[1] \in (world.exports[WantedFile(pair[2])])'
    BY <1>1, <1>5, <2>1
  <2> QED
    BY <2>1, <2>2, <2>3 DEF Attributed
<1>13. ServedAsProvided' /\ RaisesForCause'
  <2>1. pc' = "raised" => world.strict
    BY <1>1, <1>4
  <2> QED
    BY <1>1, <1>3, <2>1 DEF ServedAsProvided, RaisesForCause
<1> QED
  BY <1>2, <1>8, <1>9, <1>10, <1>11, <1>12, <1>13 DEF LoaderInv

\* Every required library was found, opened and bound: the object is ready.
LEMMA BindDoneKeeps ==
  ASSUME LoaderInv, BindDone
  PROVE  LoaderInv'
<1> USE DEF BindDone
<1>1. Given' /\ IInv' /\ TypeOK' /\ ordered' = ordered /\ (Finished' <=> Finished)
  BY OrderFixed DEF LoaderInv
<1>2. /\ Sought /\ Finished /\ served = << >> /\ world \in Worlds
      /\ DOMAIN Stems = 1 .. Len(Stems) /\ Len(Stems) \in Nat /\ at \in Nat
      /\ Elements(Libraries) \subseteq Elements(Stems)
  BY StemElements DEF LoaderInv, Given, Phases, LoaderTypeOK
<1>3. ASSUME NEW stem \in Elements(Libraries), WantedFile(stem) # NoFile PROVE stem \in Elements(libs)
  <2>1. PICK k \in DOMAIN Stems : Stems[k] = stem
    BY <1>2 DEF Elements
  <2>2. k < at
    BY <1>2, <2>1
  <2> QED
    BY <1>3, <2>1, <2>2 DEF LoaderInv, Bound
<1>4. \/ pc' = "ready"
      \/ pc' = "raised" /\ \E stem \in Elements(Libraries) : WantedFile(stem) = NoFile
  BY <1>3
<1>5. LoaderTypeOK'
  BY <1>1, <1>4 DEF LoaderInv, LoaderTypeOK, Stems
<1>6. Phases'
  BY <1>1, <1>2, <1>4, WorldFixed DEF Phases, Stems
<1>7. Opened'
  BY <1>4, WorldFixed DEF LoaderInv, Opened
<1>8. Bound'
  <2>1. /\ \A s : WantedFile(s)' = WantedFile(s)
        /\ \A f : Visible(f)' = Visible(f)
        /\ Stems' = Stems /\ Claimed' = Claimed
    BY WorldFixed, HandlesFixed DEF Stems, Claimed
  <2> QED
    BY <1>4, <2>1 DEF LoaderInv, Bound
<1>9. Attributed' /\ ServedAsProvided'
  BY TablesFixed DEF LoaderInv
<1>10. RaisesForCause'
  BY <1>4, WorldFixed DEF RaisesForCause
<1> QED
  BY <1>1, <1>5, <1>6, <1>7, <1>8, <1>9, <1>10 DEF LoaderInv

\* Attribute access leaves the object alone, but for the kernel32 cache.
LEMMA GetAttrKeeps ==
  ASSUME LoaderInv, NEW n \in Functions, GetAttr(n)
  PROVE  LoaderInv' /\ \E provider : served' = <<n, provider>> /\ Provides(n, provider)'
<1>1. /\ pc = "ready" /\ pc' = pc /\ UNCHANGED vars /\ world' = world /\ at' = at
      /\ mapped' = mapped /\ preloaded' = preloaded /\ diagnosis' = diagnosis
      /\ libs' = libs /\ lookup' = lookup /\ typed' = typed
  BY DEF GetAttr
<1>2. Given' /\ IInv' /\ TypeOK' /\ ordered' = ordered /\ (Finished' <=> Finished)
  BY <1>1, OrderFixed DEF LoaderInv
<1>3. /\ \A s : WantedFile(s)' = WantedFile(s)
      /\ \A f : Visible(f)' = Visible(f)
      /\ Stems' = Stems /\ Wanted' = Wanted /\ Claimed' = Claimed
  BY <1>1, WorldFixed, HandlesFixed DEF Stems, Claimed
<1>4. Raw(n)' = Raw(n)
  BY <1>1, <1>3 DEF Raw
<1>5. \E provider : /\ served' = <<n, provider>>
                    /\ \/ <<n, provider>> \in lookup /\ cache' = cache
                       \/ /\ n \notin Claimed /\ cache' = cache
                          /\ \E i \in Raw(n) : (\A j \in Raw(n) : i <= j) /\ provider = libs[i]
                       \/ /\ n \notin Claimed /\ Raw(n) = {}
                          /\ world.platform = "windows" /\ n \in Prototypes /\ n \in world.kernel32
                          /\ provider = "kernel32" /\ cache' = cache \cup {n}
                       \/ /\ n \notin Claimed /\ Raw(n) = {}
                          /\ ~ (world.platform = "windows" /\ n \in Prototypes \cap world.kernel32)
                          /\ provider = "AttributeError" /\ cache' = cache
  BY DEF GetAttr, Raw
<1>6. PICK provider : /\ served' = <<n, provider>>
                    /\ \/ <<n, provider>> \in lookup /\ cache' = cache
                       \/ /\ n \notin Claimed /\ cache' = cache
                          /\ \E i \in Raw(n) : (\A j \in Raw(n) : i <= j) /\ provider = libs[i]
                       \/ /\ n \notin Claimed /\ Raw(n) = {}
                          /\ world.platform = "windows" /\ n \in Prototypes /\ n \in world.kernel32
                          /\ provider = "kernel32" /\ cache' = cache \cup {n}
                       \/ /\ n \notin Claimed /\ Raw(n) = {}
                          /\ ~ (world.platform = "windows" /\ n \in Prototypes \cap world.kernel32)
                          /\ provider = "AttributeError" /\ cache' = cache
  BY <1>5
<1>7. Provides(n, provider)'
  BY <1>1, <1>3, <1>4, <1>6 DEF Provides
<1>8. ServedAsProvided'
  BY <1>6, <1>7 DEF ServedAsProvided
<1>9. LoaderTypeOK'
  <2>1. cache' \subseteq Prototypes
    BY <1>6 DEF LoaderInv, LoaderTypeOK
  <2>2. served'[1] \in Functions
    BY <1>6
  <2> QED
    BY <1>1, <1>2, <1>3, <2>1, <2>2 DEF LoaderInv, LoaderTypeOK
<1>10. Phases'
  BY <1>1, <1>2, <1>3, WorldFixed DEF LoaderInv, Phases
<1>11. Opened'
  BY <1>1, <1>3 DEF LoaderInv, Opened
<1>12. Bound'
  BY <1>1, <1>3 DEF LoaderInv, Bound
<1>13. Attributed'
  BY <1>1, <1>3 DEF LoaderInv, Attributed
<1>14. RaisesForCause'
  BY <1>1 DEF RaisesForCause
<1> QED
  BY <1>2, <1>6, <1>7, <1>8, <1>9, <1>10, <1>11, <1>12, <1>13, <1>14 DEF LoaderInv

LEMMA LoaderStutterKeeps ==
  ASSUME LoaderInv, UNCHANGED loaderVars
  PROVE  LoaderInv'
<1>1. /\ UNCHANGED vars /\ world' = world /\ pc' = pc /\ at' = at
      /\ mapped' = mapped /\ preloaded' = preloaded /\ diagnosis' = diagnosis
      /\ libs' = libs /\ lookup' = lookup /\ typed' = typed /\ cache' = cache /\ served' = served
  BY DEF loaderVars
<1>2. Given' /\ IInv' /\ TypeOK' /\ ordered' = ordered /\ (Finished' <=> Finished)
  BY <1>1, OrderFixed DEF LoaderInv
<1>3. /\ \A s : WantedFile(s)' = WantedFile(s)
      /\ \A f : Visible(f)' = Visible(f)
      /\ Stems' = Stems /\ Wanted' = Wanted /\ Claimed' = Claimed
      /\ \A f : Loadable(f)' <=> Loadable(f)
  BY <1>1, WorldFixed, HandlesFixed DEF Stems, Claimed
<1>4. LoaderTypeOK'
  BY <1>1, <1>2, <1>3 DEF LoaderInv, LoaderTypeOK
<1>5. Phases'
  BY <1>1, <1>2, <1>3, WorldFixed DEF LoaderInv, Phases
<1>6. Opened'
  BY <1>1, <1>2, <1>3 DEF LoaderInv, Opened
<1>7. Bound'
  BY <1>1, <1>3 DEF LoaderInv, Bound
<1>8. Attributed' /\ ServedAsProvided'
  BY <1>1, TablesFixed DEF LoaderInv
<1>9. RaisesForCause'
  BY <1>1, <1>3 DEF LoaderInv, RaisesForCause
<1> QED
  BY <1>2, <1>4, <1>5, <1>6, <1>7, <1>8, <1>9 DEF LoaderInv

LEMMA LoaderNextInv == LoaderInv /\ [LoaderNext]_loaderVars => LoaderInv'
<1> SUFFICES ASSUME LoaderInv, [LoaderNext]_loaderVars PROVE LoaderInv'
  OBVIOUS
<1>1. CASE FindLibraries
  BY <1>1, FindLibrariesKeeps
<1>2. CASE ComputeOrder
  BY <1>2, ComputeOrderKeeps
<1>3. CASE Preload
  BY <1>3, PreloadKeeps
<1>4. CASE PreloadDone
  BY <1>4, PreloadDoneKeeps
<1>5. CASE Bind
  BY <1>5, BindKeeps
<1>6. CASE BindDone
  BY <1>6, BindDoneKeeps
<1>7. CASE \E n \in Functions : GetAttr(n)
  BY <1>7, GetAttrKeeps
<1>8. CASE UNCHANGED loaderVars
  BY <1>8, LoaderStutterKeeps
<1> QED
  BY <1>1, <1>2, <1>3, <1>4, <1>5, <1>6, <1>7, <1>8 DEF LoaderNext

LEMMA LoaderInvHolds == LoaderSpec => []LoaderInv
BY LoaderInitInv, LoaderNextInv, PTL DEF LoaderSpec

-----------------------------------------------------------------------------
(***************************************************************************)
(* The variables of a FreeRDP object keep their types: what is mapped are   *)
(* files of the directory, what is bound are stems of LIBRARIES or OPTIONAL.*)
(***************************************************************************)
THEOREM LoaderTypeCorrect == LoaderSpec => []LoaderTypeOK
<1>1. LoaderInv => LoaderTypeOK
  BY DEF LoaderInv
<1> QED BY <1>1, LoaderInvHolds, PTL

(***************************************************************************)
(* Of every directory and host: a constructor that is not strict gives up   *)
(* on the file its error names only if no order would have loaded it.       *)
(***************************************************************************)
THEOREM RaisesForCauseHolds == LoaderSpec => []RaisesForCause
<1>1. LoaderInv => RaisesForCause
  BY DEF LoaderInv
<1> QED BY <1>1, LoaderInvHolds, PTL

\* What was said of a library is what _explain says of it at any time.
Diagnosed == diagnosis # << >> => diagnosis.path \in Files /\ diagnosis = Explain(diagnosis.path)

LEMMA DiagnosedNext == LoaderInv /\ Diagnosed /\ [LoaderNext]_loaderVars => Diagnosed'
<1> SUFFICES ASSUME LoaderInv, Diagnosed, [LoaderNext]_loaderVars PROVE Diagnosed'
  OBVIOUS
<1>1. info' = info
  BY DEF LoaderNext, FindLibraries, ComputeOrder, Preload, PreloadDone, Bind, BindDone, GetAttr,
         Next, NextRoot, LookAtDep, Return, vars, loaderVars
<1>2. \A f : Explain(f)' = Explain(f)
  BY <1>1 DEF Explain, Keys
<1>3. \/ diagnosis' = diagnosis
      \/ at \in DOMAIN ordered /\ diagnosis' = Explain(ordered[at])
  <2>1. CASE Preload
    BY <2>1 DEF Preload, LoaderInv, LoaderTypeOK, IInv, TypeOK
  <2> QED
    BY <2>1 DEF LoaderNext, FindLibraries, ComputeOrder, PreloadDone, Bind, BindDone, GetAttr, loaderVars
<1>4. CASE diagnosis' = diagnosis
  BY <1>2, <1>4 DEF Diagnosed
<1>5. CASE at \in DOMAIN ordered /\ diagnosis' = Explain(ordered[at])
  <2>1. diagnosis'.path = ordered[at] /\ ordered[at] \in Files
    BY <1>5, ExplainSays DEF LoaderInv, IInv, TypeOK
  <2> QED
    BY <1>2, <1>5, <2>1 DEF Diagnosed
<1> QED
  BY <1>3, <1>4, <1>5

(***************************************************************************)
(* Of every directory and host: what the error says is NOT in the directory *)
(* is what the library needs and no file there is.                          *)
(***************************************************************************)
THEOREM UnmetIsMissingHolds == LoaderSpec => []UnmetIsMissing
<1>1. LoaderInit => Diagnosed
  BY DEF LoaderInit, Diagnosed
<1>2. LoaderInv /\ Diagnosed => UnmetIsMissing
  <2> SUFFICES ASSUME LoaderInv, Diagnosed, diagnosis # << >> PROVE UnmetIsMissing
    BY DEF UnmetIsMissing
  <2> DEFINE path == diagnosis.path
             present == UNION {Keys(g) : g \in Files}
             missing == {name \in Needs(path) : \A f \in Files : name \notin AskedAs(world, f)}
  <2>1. path \in Files /\ diagnosis.unmet = Elements(info[path].needed) \ present
    BY ExplainSays DEF Diagnosed
  <2>2. world \in Worlds /\ info = Parsed(world)
    BY DEF LoaderInv, Given
  <2>3. CASE path \notin world.readable
    <3>1. info[path].needed = << >>
      BY <2>1, <2>2, <2>3 DEF Parsed
    <3>2. Elements(info[path].needed) = {}
      BY <3>1 DEF Elements
    <3> QED
      BY <2>1, <2>3, <3>2 DEF UnmetIsMissing
  <2>4. CASE path \in world.readable
    <3>1. Elements(info[path].needed) = Needs(path)
      BY <2>1, <2>2, <2>4 DEF Parsed, Needs
    <3>2. ASSUME NEW g \in Files PROVE Keys(g) = AskedAs(world, g)
      <4>1. CASE g \in world.readable
        BY <2>2, <4>1 DEF Keys, AskedAs, Parsed
      <4>2. CASE g \notin world.readable
        <5>1. AskedAs(world, g) = {Base[g]}
          BY <2>2, <2>4, <4>2, LayersAssumption
        <5>2. info[g].soname = NoName
          BY <2>2, <4>2 DEF Parsed
        <5> QED
          BY <5>1, <5>2 DEF Keys
      <4> QED
        BY <4>1, <4>2
    <3>3. ASSUME NEW name PROVE name \in present <=> \E f \in Files : name \in AskedAs(world, f)
      BY <3>2
    <3>4. diagnosis.unmet = missing
      BY <2>1, <3>1, <3>3
    <3> QED
      BY <2>4, <3>4 DEF UnmetIsMissing
  <2> QED
    BY <2>3, <2>4
<1> QED BY <1>1, <1>2, DiagnosedNext, LoaderInvHolds, PTL DEF LoaderSpec

\* What a bound library exports is among what its handle shows.
LEMMA BoundExports ==
  ASSUME LoaderInv, NEW i \in DOMAIN libs
  PROVE  world.exports[WantedFile(libs[i])] \subseteq Visible(WantedFile(libs[i]))
<1>1. WantedFile(libs[i]) \in Files /\ libs[i] \in Elements(Stems) /\ world \in Worlds
  BY DEF LoaderInv, Bound, Given
<1>2. Real[WantedFile(libs[i])] = WantedFile(libs[i])
  BY <1>1, RealFiles, WantedFiles
<1> QED
  BY <1>1, <1>2, OwnExports

(***************************************************************************)
(* library_of() is honest: a name is attributed to a library that defines   *)
(* it, and a ready object has attributed all that its libraries define.     *)
(***************************************************************************)
THEOREM AttributionHonestHolds == LoaderSpec => []AttributionHonest
<1>1. LoaderInv => AttributionHonest
  <2> SUFFICES ASSUME LoaderInv PROVE AttributionHonest
    OBVIOUS
  <2>1. \A pair \in lookup : pair[1] \in world.exports[WantedFile(pair[2])]
    BY DEF LoaderInv, Attributed
  <2>2. ASSUME pc = "ready", NEW stem \in Elements(libs),
               NEW n \in world.exports[WantedFile(stem)] \cap Prototypes
        PROVE  n \in Claimed
    <3>1. PICK i \in DOMAIN libs : libs[i] = stem
      BY DEF Elements
    <3>2. n \in Prototypes \cap Visible(WantedFile(libs[i]))
      BY <3>1, BoundExports
    <3> QED
      BY <2>2, <3>2 DEF LoaderInv, Bound
  <2> QED
    BY <2>1, <2>2 DEF AttributionHonest
<1> QED BY <1>1, LoaderInvHolds, PTL

(***************************************************************************)
(* A prototype is served with its argument types, whichever of the four     *)
(* ways of __getattr__ serves it, and an AttributeError is never said of a  *)
(* name that a bound library defines.                                       *)
(***************************************************************************)
THEOREM ServesTypedHolds == LoaderSpec => []ServesTyped
<1>1. LoaderInv => ServesTyped
  <2> SUFFICES ASSUME LoaderInv, served # << >> PROVE ServesTyped
    BY DEF ServesTyped
  <2>1. PICK n \in Functions : \E provider : served = <<n, provider>> /\ Provides(n, provider)
    BY DEF LoaderInv, ServedAsProvided
  <2>2. PICK provider : served = <<n, provider>> /\ Provides(n, provider)
    BY <2>1
  <2>3. /\ served[1] = n /\ served[2] = provider /\ pc = "ready"
        /\ Elements(libs) \subseteq Elements(Stems)
    BY <2>2 DEF LoaderInv, Phases, LoaderTypeOK
  <2>4. ASSUME <<n, provider>> \in lookup
        PROVE  <<provider, n>> \in typed /\ provider # "AttributeError"
    <3>1. provider \in Elements(libs) /\ <<provider, n>> \in typed
      BY <2>4 DEF LoaderInv, Attributed
    <3> QED
      BY <2>3, <3>1, StemElements
  <2>5. ASSUME n \notin Claimed, NEW i \in Raw(n), provider = libs[i]
        PROVE  n \notin Prototypes /\ provider # "AttributeError"
    <3>1. i \in DOMAIN libs /\ n \in Visible(WantedFile(libs[i]))
      BY DEF Raw
    <3>2. n \notin Prototypes
      BY <2>3, <2>5, <3>1 DEF LoaderInv, Bound
    <3>3. provider \in Elements(libs)
      BY <2>5, <3>1 DEF Elements
    <3> QED
      BY <2>3, <3>2, <3>3, StemElements
  <2>6. ASSUME Raw(n) = {}, NEW stem \in Elements(libs)
        PROVE  n \notin world.exports[WantedFile(stem)]
    <3>1. PICK i \in DOMAIN libs : libs[i] = stem
      BY DEF Elements
    <3>2. n \notin Visible(WantedFile(libs[i]))
      BY <2>6 DEF Raw
    <3> QED
      BY <3>1, <3>2, BoundExports
  <2>7. n \in Prototypes => \/ <<provider, n>> \in typed
                            \/ provider = "kernel32" /\ n \in cache
                            \/ provider = "AttributeError"
    BY <2>2, <2>4, <2>5 DEF Provides
  <2>8. provider = "AttributeError" => Raw(n) = {}
    BY <2>2, <2>4, <2>5 DEF Provides
  <2> QED
    BY <2>3, <2>6, <2>7, <2>8 DEF ServesTyped
<1> QED BY <1>1, LoaderInvHolds, PTL

(***************************************************************************)
(* Two accesses to one name get the same provider: the rules of __getattr__ *)
(* leave one choice, and nothing they read changes once an object is ready. *)
(***************************************************************************)
THEOREM StableProviderHolds == LoaderSpec => StableProvider
<1>1. LoaderInv /\ [LoaderNext]_loaderVars =>
        [served # << >> /\ served'[1] = served[1] => served'[2] = served[2]]_loaderVars
  <2> SUFFICES ASSUME LoaderInv, LoaderNext, served # << >>, served'[1] = served[1]
               PROVE  served'[2] = served[2]
    OBVIOUS
  <2>1. pc = "ready"
    BY DEF LoaderInv, Phases
  <2>2. CASE served' = served
    BY <2>2
  <2>3. CASE \E n \in Functions : GetAttr(n)
    <3>1. PICK n \in Functions : GetAttr(n)
      BY <2>3
    <3>2. PICK after : served' = <<n, after>> /\ Provides(n, after)'
      BY <3>1, GetAttrKeeps
    <3>3. PICK m \in Functions : \E before : served = <<m, before>> /\ Provides(m, before)
      BY DEF LoaderInv, ServedAsProvided
    <3>4. PICK before : served = <<m, before>> /\ Provides(m, before)
      BY <3>3
    <3>5. m = n /\ served[2] = before /\ served'[2] = after
      BY <3>2, <3>4
    <3>6. /\ world' = world /\ mapped' = mapped /\ libs' = libs /\ lookup' = lookup
      BY <3>1 DEF GetAttr
    <3>7. Claimed' = Claimed /\ Raw(n)' = Raw(n)
      <4>1. /\ \A s : WantedFile(s)' = WantedFile(s)
            /\ \A f : Visible(f)' = Visible(f)
        BY <3>6, WorldFixed, HandlesFixed
      <4> QED
        BY <3>6, <4>1 DEF Claimed, Raw
    <3>8. \/ <<n, after>> \in lookup
          \/ /\ n \notin Claimed
             /\ \E i \in Raw(n) : (\A j \in Raw(n) : i <= j) /\ after = libs[i]
          \/ /\ n \notin Claimed /\ Raw(n) = {}
             /\ world.platform = "windows" /\ n \in Prototypes /\ n \in world.kernel32
             /\ after = "kernel32"
          \/ /\ n \notin Claimed /\ Raw(n) = {}
             /\ ~ (world.platform = "windows" /\ n \in Prototypes \cap world.kernel32)
             /\ after = "AttributeError"
      BY <3>2, <3>6, <3>7 DEF Provides
    <3>9. Provides(n, before)
      BY <3>4, <3>5
    <3>10. \A p : <<n, p>> \in lookup => n \in Claimed
      BY DEF Claimed
    <3>11. CASE n \in Claimed
      <4>1. <<n, after>> \in lookup /\ <<n, before>> \in lookup
        BY <3>8, <3>9, <3>11 DEF Provides
      <4>2. \A p, q : <<n, p>> \in lookup /\ <<n, q>> \in lookup => p = q
        BY DEF LoaderInv, Attributed
      <4> QED
        BY <3>5, <4>1, <4>2
    <3>12. CASE n \notin Claimed /\ Raw(n) = {}
      BY <3>5, <3>8, <3>9, <3>10, <3>12 DEF Provides
    <3>13. CASE n \notin Claimed /\ Raw(n) # {}
      <4>1. PICK i \in Raw(n) : (\A j \in Raw(n) : i <= j) /\ after = libs[i]
        BY <3>8, <3>10, <3>13
      <4>2. PICK k \in Raw(n) : (\A j \in Raw(n) : k <= j) /\ before = libs[k]
        BY <3>9, <3>10, <3>13 DEF Provides
      <4>3. i <= k /\ k <= i /\ i \in Nat /\ k \in Nat
        BY <4>1, <4>2 DEF Raw, LoaderInv, Bound
      <4>4. i = k
        BY <4>3
      <4> QED
        BY <3>5, <4>1, <4>2, <4>4
    <3> QED
      BY <3>11, <3>12, <3>13
  <2> QED
    BY <2>1, <2>2, <2>3 DEF LoaderNext, FindLibraries, ComputeOrder, Preload, PreloadDone,
                            Bind, BindDone
<1> QED BY <1>1, LoaderInvHolds, PTL DEF LoaderSpec, StableProvider
=============================================================================
