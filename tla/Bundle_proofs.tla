---------------------------- MODULE Bundle_proofs ----------------------------
(***************************************************************************)
(* Theorems about Bundle, for every set of names and every world.            *)
(*                                                                         *)
(* The heart of the invariant is Looked: whatever a file this walk answers   *)
(* for needs and the walk may copy has been seen, or is still in the list    *)
(* `deps` of the file being looked at.  When queue and deps are empty, what  *)
(* has been seen and may be copied is in the package (SeenIsIn), so the walk *)
(* may return.  Settled carries the result of the first walk over the second.*)
(***************************************************************************)
EXTENDS Bundle, TLAPS

walked == roots \cup copied

Looked ==
  \A f \in walked \ queue : world.needs[f] \cap Available(pc) \subseteq seen \cup deps

SeenIsIn ==
  /\ package \subseteq seen
  /\ seen \cap Available(pc) \subseteq package

\* Only files of the package are walked, and only for what they need.
WalkedIsIn ==
  /\ queue \subseteq walked /\ walked \subseteq package
  /\ deps \subseteq UNION {world.needs[f] : f \in walked}

\* The part of the package that the current walk does not answer for.
Settled ==
  /\ pc = "install" => walked = package
  /\ pc = "executables" =>
       \A f \in package \ walked :
         world.needs[f] \cap Available("executables") \subseteq package

IInv ==
  /\ TypeOK
  /\ Walking => Looked /\ SeenIsIn /\ WalkedIsIn /\ Settled
  /\ PackageClosed
-----------------------------------------------------------------------------
LEMMA WorldTypes ==
  ASSUME TypeOK
  PROVE  /\ world.format \in {"elf", "pe"}
         /\ world.needs \in [Names -> SUBSET Names]
         /\ world.prefix \subseteq Names /\ world.extra \subseteq Names
         /\ world.exes \subseteq Names
BY DEF TypeOK, World

\* The second walk may copy no more than the first.
LEMMA FewerAvailable == Available("executables") \subseteq Available("install")
BY DEF Available

THEOREM InitInvariant == Init => IInv
<1> SUFFICES ASSUME Init PROVE IInv
  OBVIOUS
<1>1. world \in World
  BY WorldsAssumption DEF Init
<1>2. world.staged \subseteq Names
  BY <1>1 DEF World
<1>3. TypeOK
  BY <1>1, <1>2 DEF Init, TypeOK
<1>4. Looked /\ SeenIsIn /\ WalkedIsIn /\ Settled
  BY DEF Init, Looked, SeenIsIn, WalkedIsIn, Settled, walked, Walking
<1>5. PackageClosed
  BY DEF Init, PackageClosed
<1> QED
  BY <1>3, <1>4, <1>5 DEF IInv

LEMMA PopStep ==
  ASSUME IInv, NEW f \in Names, Pop(f)
  PROVE  IInv'
<1>1. /\ Walking /\ deps = {} /\ f \in queue /\ queue' = queue \ {f}
      /\ deps' = world.needs[f]
      /\ UNCHANGED <<world, pc, package, roots, seen, copied>>
  BY DEF Pop
<1>2. TypeOK /\ Looked /\ SeenIsIn /\ WalkedIsIn /\ Settled
  BY <1>1 DEF IInv
<1>3. TypeOK'
  BY <1>1, <1>2, WorldTypes DEF TypeOK
<1>4. Looked'
  BY <1>1, <1>2 DEF Looked, walked, Available
<1>5. SeenIsIn'
  BY <1>1, <1>2 DEF SeenIsIn, Available
<1>6. WalkedIsIn'
  BY <1>1, <1>2 DEF WalkedIsIn, walked
<1>7. Settled'
  BY <1>1, <1>2 DEF Settled, walked, Available
<1>8. PackageClosed'
  BY <1>1 DEF IInv, PackageClosed, Available
<1> QED
  BY <1>3, <1>4, <1>5, <1>6, <1>7, <1>8 DEF IInv

LEMMA SkipStep ==
  ASSUME IInv, NEW d \in Names, Skip(d)
  PROVE  IInv'
<1>1. /\ Walking /\ d \in deps /\ deps' = deps \ {d}
      /\ d \in seen \/ d \notin Available(pc)
      /\ seen \subseteq seen' /\ seen' \subseteq seen \cup {d}
      /\ UNCHANGED <<world, pc, package, roots, queue, copied>>
  BY DEF Skip
<1>2. TypeOK /\ Looked /\ SeenIsIn /\ WalkedIsIn /\ Settled
  BY <1>1 DEF IInv
<1>3. TypeOK'
  BY <1>1, <1>2 DEF TypeOK
<1>4. Available(pc)' = Available(pc)
  BY <1>1 DEF Available
<1>5. Looked'
  <2> SUFFICES ASSUME NEW f \in walked \ queue, NEW n \in world.needs[f], n \in Available(pc)
               PROVE  n \in seen' \cup deps'
    BY <1>1, <1>4 DEF Looked, walked
  <2>1. n \in seen \cup deps
    BY <1>2 DEF Looked
  <2> QED
    BY <1>1, <2>1
<1>6. SeenIsIn'
  BY <1>1, <1>2, <1>4 DEF SeenIsIn
<1>7. WalkedIsIn'
  BY <1>1, <1>2 DEF WalkedIsIn, walked
<1>8. Settled'
  BY <1>1, <1>2 DEF Settled, walked, Available
<1>9. PackageClosed'
  BY <1>1 DEF IInv, PackageClosed, Available
<1> QED
  BY <1>3, <1>5, <1>6, <1>7, <1>8, <1>9 DEF IInv

LEMMA CopyInStep ==
  ASSUME IInv, NEW d \in Names, CopyIn(d)
  PROVE  IInv'
<1>1. /\ Walking /\ d \in deps /\ deps' = deps \ {d}
      /\ d \notin seen /\ d \in Available(pc) /\ d \notin world.foreign
      /\ seen' = seen \cup {d} /\ package' = package \cup {d}
      /\ copied' = copied \cup {d} /\ queue' = queue \cup {d}
      /\ UNCHANGED <<world, pc, roots>>
  BY DEF CopyIn
<1>2. TypeOK /\ Looked /\ SeenIsIn /\ WalkedIsIn /\ Settled
  BY <1>1 DEF IInv
<1>3. TypeOK'
  BY <1>1, <1>2 DEF TypeOK
<1>4. Available(pc)' = Available(pc) /\ walked' = walked \cup {d}
  BY <1>1 DEF Available, walked
<1>5. Looked'
  <2> SUFFICES ASSUME NEW f \in walked' \ queue', NEW n \in world.needs[f], n \in Available(pc)
               PROVE  n \in seen' \cup deps'
    BY <1>1, <1>4 DEF Looked
  <2>1. f \in walked \ queue
    BY <1>1, <1>4
  <2>2. n \in seen \cup deps
    BY <1>2, <2>1 DEF Looked
  <2> QED
    BY <1>1, <2>2
<1>6. SeenIsIn'
  BY <1>1, <1>2, <1>4 DEF SeenIsIn
<1>7. WalkedIsIn'
  <2>1. queue' \subseteq walked' /\ walked' \subseteq package'
    BY <1>1, <1>2, <1>4 DEF WalkedIsIn
  <2>2. deps' \subseteq UNION {world.needs[f] : f \in walked'}
    BY <1>1, <1>2, <1>4 DEF WalkedIsIn
  <2> QED
    BY <1>1, <2>1, <2>2 DEF WalkedIsIn
<1>8. Settled'
  BY <1>1, <1>2, <1>4 DEF Settled, Available
<1>9. PackageClosed'
  BY <1>1 DEF IInv, PackageClosed, Walking
<1> QED
  BY <1>3, <1>5, <1>6, <1>7, <1>8, <1>9 DEF IInv

\* A walk with nothing left to look at has copied all it may.
LEMMA WalkComplete ==
  ASSUME IInv, Walking, queue \cup deps = {}
  PROVE  \A f \in walked : world.needs[f] \cap Available(pc) \subseteq package
BY DEF IInv, Looked, SeenIsIn

LEMMA StageExecutablesStep ==
  ASSUME IInv, StageExecutables
  PROVE  IInv'
<1>1. /\ pc = "install" /\ queue \cup deps = {}
      /\ pc' = "executables" /\ package' = package \cup world.exes
      /\ roots' = world.exes /\ queue' = world.exes /\ seen' = package'
      /\ copied' = {}
      /\ UNCHANGED <<world, deps>>
  BY DEF StageExecutables
<1>2. Walking /\ TypeOK /\ Settled
  BY <1>1 DEF IInv, Walking
<1>3. TypeOK'
  BY <1>1, <1>2, WorldTypes DEF TypeOK
<1>4. Looked' /\ SeenIsIn' /\ WalkedIsIn'
  BY <1>1 DEF Looked, SeenIsIn, WalkedIsIn, walked
<1>5. Settled'
  <2>1. \A f \in package : world.needs[f] \cap Available("install") \subseteq package
    BY <1>1, <1>2, WalkComplete DEF Settled
  <2>2. walked' = world.exes /\ Available("executables")' = Available("executables")
    BY <1>1 DEF walked, Available
  <2>3. \A f \in package' \ walked' :
          world.needs[f] \cap Available("executables") \subseteq package'
    BY <1>1, <2>1, <2>2, FewerAvailable
  <2> QED
    BY <1>1, <2>2, <2>3 DEF Settled
<1>6. PackageClosed'
  BY <1>1 DEF PackageClosed
<1> QED
  BY <1>3, <1>4, <1>5, <1>6 DEF IInv

LEMMA FinishStep ==
  ASSUME IInv, Finish
  PROVE  IInv'
<1>1. /\ queue \cup deps = {} /\ pc \in {"install", "executables"} /\ pc' = "done"
      /\ UNCHANGED <<world, package, roots, queue, seen, copied, deps>>
  BY DEF Finish
<1>2. Walking /\ TypeOK /\ Settled
  BY <1>1 DEF IInv, Walking
<1>3. \A f \in walked : world.needs[f] \cap Available(pc) \subseteq package
  BY <1>2, <1>1, WalkComplete
<1>4. \A f \in package : world.needs[f] \cap Available("executables") \subseteq package
  <2>1. CASE pc = "install"
    BY <2>1, <1>2, <1>3, FewerAvailable DEF Settled
  <2>2. CASE pc = "executables"
    BY <2>2, <1>2, <1>3 DEF Settled
  <2> QED
    BY <1>1, <2>1, <2>2
<1>5. PackageClosed'
  BY <1>1, <1>4 DEF PackageClosed, Available
<1>6. TypeOK' /\ ~ Walking'
  BY <1>1, <1>2 DEF IInv, TypeOK, Walking
<1> QED
  BY <1>5, <1>6 DEF IInv

LEMMA FailStep ==
  ASSUME IInv, pc' = "failed",
         UNCHANGED <<world, package, roots, queue, seen, copied, deps>>
  PROVE  IInv'
BY DEF IInv, TypeOK, PackageClosed, Walking

LEMMA StutterStep ==
  ASSUME IInv, UNCHANGED vars
  PROVE  IInv'
BY DEF IInv, TypeOK, Looked, SeenIsIn, WalkedIsIn, Settled, walked, Available,
       PackageClosed, Walking, vars

THEOREM NextInvariant == IInv /\ [Next]_vars => IInv'
<1> SUFFICES ASSUME IInv, [Next]_vars PROVE IInv'
  OBVIOUS
<1>1. CASE \E f \in Names : Pop(f) \/ Skip(f) \/ CopyIn(f)
  BY <1>1, PopStep, SkipStep, CopyInStep
<1>2. CASE \E f \in Names : Refuse(f)
  BY <1>2, FailStep DEF Refuse
<1>3. CASE StageExecutables
  BY <1>3, StageExecutablesStep
<1>4. CASE Finish
  BY <1>4, FinishStep
<1>5. CASE Stop
  BY <1>5, FailStep DEF Stop
<1>6. CASE Done \/ UNCHANGED vars
  BY <1>6, StutterStep DEF Done
<1> QED
  BY <1>1, <1>2, <1>3, <1>4, <1>5, <1>6 DEF Next, Step

THEOREM Invariant == Spec => []IInv
BY InitInvariant, NextInvariant, PTL DEF Spec
-----------------------------------------------------------------------------
(***************************************************************************)
(* Every reachable state of the two walks has its types.                     *)
(***************************************************************************)
THEOREM TypeCorrect == Spec => []TypeOK
<1>1. IInv => TypeOK
  BY DEF IInv
<1> QED
  BY <1>1, Invariant, PTL

(***************************************************************************)
(* Whatever the package held before, whatever needs what and however the     *)
(* libraries depend on each other in circles: when the build has walked its  *)
(* package, it is closed under what the deps prefix can provide.             *)
(***************************************************************************)
THEOREM PackageClosedHolds == Spec => []PackageClosed
<1>1. IInv => PackageClosed
  BY DEF IInv
<1> QED
  BY <1>1, Invariant, PTL

-----------------------------------------------------------------------------
(***************************************************************************)
(* The work list implements Closure.                                         *)
(***************************************************************************)
LEMMA AbstractWanted ==
  ASSUME IInv, Walking
  PROVE  Abstract!Wanted =
           ((UNION {world.needs[f] : f \in walked}) \cap Available(pc)) \ package
BY DEF Abstract!Wanted, walked, Walking

THEOREM InitRefines == Init => Abstract!Init
<1> SUFFICES ASSUME Init PROVE Abstract!Init
  OBVIOUS
<1>1. TypeOK
  BY InitInvariant DEF IInv
<1>2. \A walk \in {"install", "executables"} : Available(walk) \subseteq Names
  BY <1>1, WorldTypes DEF Available
<1>3. [walk \in {"install", "executables"} |-> Available(walk)]
        \in [{"install", "executables"} -> SUBSET Names]
  BY <1>2
<1> QED
  BY <1>1, <1>3, WorldTypes DEF Abstract!Init, Init, TypeOK

THEOREM StepRefines == IInv /\ [Next]_vars => [Abstract!Next]_(Abstract!absvars)
<1> SUFFICES ASSUME IInv, [Next]_vars
             PROVE  [Abstract!Next]_(Abstract!absvars)
  OBVIOUS
<1> USE DEF Abstract!absvars
<1>1. ASSUME UNCHANGED <<world, pc, package, roots, copied>>
      PROVE  UNCHANGED Abstract!absvars
  BY <1>1 DEF Available
<1>2. ASSUME NEW d \in Names, CopyIn(d) PROVE Abstract!Copy(d)
  <2>1. /\ Walking /\ d \in deps /\ d \notin seen /\ d \in Available(pc)
        /\ package' = package \cup {d} /\ copied' = copied \cup {d}
        /\ UNCHANGED <<world, pc, roots>>
    BY <1>2 DEF CopyIn
  <2>2. d \in Abstract!Wanted
    <3>1. deps \subseteq UNION {world.needs[f] : f \in walked} /\ package \subseteq seen
      BY <2>1 DEF IInv, SeenIsIn, WalkedIsIn
    <3>2. d \in ((UNION {world.needs[f] : f \in walked}) \cap Available(pc)) \ package
      BY <2>1, <3>1
    <3> QED
      BY <2>1, <3>2, AbstractWanted
  <2>3. (roots \cup copied)' = (roots \cup copied) \cup {d}
    BY <2>1
  <2>4. UNCHANGED <<world.needs, [walk \in {"install", "executables"} |-> Available(walk)], pc>>
    BY <2>1 DEF Available
  <2> QED
    BY <2>1, <2>2, <2>3, <2>4 DEF Abstract!Copy, Walking
<1>3. ASSUME Walking, queue \cup deps = {} PROVE Abstract!Wanted = {}
  <2>1. \A f \in walked : world.needs[f] \cap Available(pc) \subseteq package
    BY <1>3, WalkComplete
  <2>2. ((UNION {world.needs[f] : f \in walked}) \cap Available(pc)) \ package = {}
    BY <2>1
  <2> QED
    BY <1>3, <2>2, AbstractWanted
<1>4. ASSUME StageExecutables PROVE Abstract!Executables(world.exes)
  <2>1. pc = "install" /\ Walking /\ queue \cup deps = {}
    BY <1>4 DEF StageExecutables, Walking
  <2>2. Abstract!Wanted = {}
    BY <2>1, <1>3
  <2>3. (roots \cup copied)' = world.exes
    BY <1>4 DEF StageExecutables
  <2>4. UNCHANGED <<world.needs, [walk \in {"install", "executables"} |-> Available(walk)]>>
    BY <1>4 DEF StageExecutables, Available
  <2> QED
    BY <1>4, <2>1, <2>2, <2>3, <2>4 DEF StageExecutables, Abstract!Executables
<1>5. ASSUME Finish PROVE Abstract!Finish
  <2>1. pc \in {"install", "executables"} /\ Walking /\ queue \cup deps = {}
    BY <1>5 DEF Finish, Walking
  <2>2. Abstract!Wanted = {}
    BY <2>1, <1>3
  <2>3. UNCHANGED <<world.needs, [walk \in {"install", "executables"} |-> Available(walk)],
                    package, roots \cup copied>>
    BY <1>5 DEF Finish, Available
  <2> QED
    BY <1>5, <2>1, <2>2, <2>3 DEF Finish, Abstract!Finish
<1>6. ASSUME Walking, pc' = "failed", UNCHANGED <<world, package, roots, copied>>
      PROVE  Abstract!Fail
  <2>1. UNCHANGED <<world.needs, [walk \in {"install", "executables"} |-> Available(walk)],
                    package, roots \cup copied>>
    BY <1>6 DEF Available
  <2> QED
    BY <1>6, <2>1 DEF Abstract!Fail, Walking
<1>7. CASE \E f \in Names : Pop(f) \/ Skip(f)
  BY <1>7, <1>1 DEF Pop, Skip
<1>8. CASE \E f \in Names : CopyIn(f)
  BY <1>8, <1>2 DEF Abstract!Next
<1>9. CASE \E f \in Names : Refuse(f)
  BY <1>9, <1>6 DEF Refuse, Abstract!Next
<1>10. CASE StageExecutables
  <2>1. world.exes \in SUBSET Names
    BY WorldTypes DEF IInv
  <2> QED
    BY <1>10, <1>4, <2>1 DEF Abstract!Next
<1>11. CASE Finish
  BY <1>11, <1>5 DEF Abstract!Next
<1>12. CASE Stop
  BY <1>12, <1>6 DEF Stop, Abstract!Next
<1>13. CASE Done \/ UNCHANGED vars
  BY <1>13, <1>1 DEF Done, vars
<1> QED
  BY <1>7, <1>8, <1>9, <1>10, <1>11, <1>12, <1>13 DEF Next, Step

THEOREM Implements == Spec => ImplementsClosure
<1>1. Spec => Abstract!Init /\ [][Abstract!Next]_(Abstract!absvars)
  BY InitRefines, StepRefines, Invariant, PTL DEF Spec
<1> QED
  BY <1>1, PTL DEF ImplementsClosure, Abstract!Spec
=============================================================================
