--------------------------- MODULE LoadOnce_proofs ---------------------------
(***************************************************************************)
(* Theorems about LoadOnce, for every set of threads and any number of calls. *)
(*                                                                         *)
(* Neither property is inductive.  That no explicitly built object becomes   *)
(* the default rests on what a thread carries from its construction to its   *)
(* store (Carried): the object in its hands was built with the argument its  *)
(* own call has, however many objects other threads have built in between.  *)
(***************************************************************************)
EXTENDS LoadOnce, SequenceTheorems, TLAPS

\* The objects anyone has are among those constructed.
Constructed ==
  /\ default # None => default \in 1 .. Len(built)
  /\ \A t \in Threads : api[t] # None => api[t] \in 1 .. Len(built)

\* Between lines 393 and 396 a call holds the object it has constructed.
Carried ==
  \A t \in Threads : pc[t] = "store" => api[t] # None /\ built[api[t]] = explicit[t]

IInv == TypeOK /\ Constructed /\ Carried /\ ExplicitStaysPrivate /\ SuccessIsRemembered
-----------------------------------------------------------------------------
LEMMA NotAnObject == \A i \in Nat : i # None
BY NoneAssumption

THEOREM InitInvariant == Init => IInv
<1> SUFFICES ASSUME Init PROVE IInv
  OBVIOUS
<1>1. built = << >> /\ built \in Seq(BOOLEAN) /\ Len(built) = 0
  BY EmptySeq, IsASeq DEF Init
<1>2. TypeOK
  BY <1>1, MaxObjectsAssumption DEF Init, TypeOK, MaxCalls
<1>3. Constructed /\ Carried /\ ExplicitStaysPrivate /\ SuccessIsRemembered
  BY DEF Init, Constructed, Carried, ExplicitStaysPrivate, SuccessIsRemembered
<1> QED
  BY <1>2, <1>3 DEF IInv

\* A call begins with nothing in its hands.
LEMMA CallStep == ASSUME IInv, NEW t \in Threads, Call(t) PROVE IInv'
<1> USE DEF IInv, Call
<1>1. TypeOK'
  BY MaxObjectsAssumption DEF TypeOK, MaxCalls
<1>2. Constructed'
  BY DEF TypeOK, Constructed
<1>3. Carried'
  BY DEF TypeOK, Carried
<1>4. ExplicitStaysPrivate' /\ SuccessIsRemembered'
  BY DEF TypeOK, ExplicitStaysPrivate, SuccessIsRemembered
<1> QED
  BY <1>1, <1>2, <1>3, <1>4

\* What is returned at line 392 is the default, which was built without one.
LEMMA CheckStep == ASSUME IInv, NEW t \in Threads, Check(t) PROVE IInv'
<1> USE DEF IInv, Check
<1>1. TypeOK'
  BY DEF TypeOK
<1>2. Constructed'
  BY DEF TypeOK, Constructed
<1>3. Carried'
  BY DEF TypeOK, Carried
<1>4. ExplicitStaysPrivate' /\ SuccessIsRemembered'
  BY DEF TypeOK, ExplicitStaysPrivate, SuccessIsRemembered
<1> QED
  BY <1>1, <1>2, <1>3, <1>4

\* A new object does not change what is known of the older ones.
LEMMA ConstructStep == ASSUME IInv, NEW t \in Threads, Construct(t) PROVE IInv'
<1> USE DEF IInv
<1>1. CASE /\ Len(built) < MaxObjects
           /\ built' = Append(built, explicit[t])
           /\ api' = [api EXCEPT ![t] = Len(built) + 1]
           /\ pc' = [pc EXCEPT ![t] = "store"]
  <2>1. explicit[t] \in BOOLEAN /\ built \in Seq(BOOLEAN) /\ Len(built) \in Nat
    BY LenProperties DEF TypeOK
  <2>2. /\ built' \in Seq(BOOLEAN)
        /\ Len(built') = Len(built) + 1
        /\ \A i \in 1 .. Len(built) : built'[i] = built[i]
        /\ built'[Len(built) + 1] = explicit[t]
    BY <1>1, <2>1, AppendProperties
  <2>3. UNCHANGED <<default, explicit, calls>>
    BY DEF Construct
  <2>4. Len(built) + 1 \in Objects /\ Len(built) + 1 # None
    BY <1>1, <2>1, NotAnObject, MaxObjectsAssumption DEF Objects
  <2>5. TypeOK'
    BY <1>1, <2>1, <2>2, <2>3, <2>4, MaxObjectsAssumption DEF TypeOK
  <2>6. Constructed'
    BY <1>1, <2>1, <2>2, <2>3 DEF TypeOK, Constructed
  <2>7. Carried'
    BY <1>1, <2>1, <2>2, <2>3, <2>4 DEF TypeOK, Constructed, Carried
  <2>8. ExplicitStaysPrivate' /\ SuccessIsRemembered'
    BY <1>1, <2>1, <2>2, <2>3 DEF TypeOK, Constructed, ExplicitStaysPrivate, SuccessIsRemembered
  <2> QED
    BY <2>5, <2>6, <2>7, <2>8
<1>2. CASE /\ pc' = [pc EXCEPT ![t] = "failed"]
           /\ UNCHANGED <<built, api>>
  BY <1>2 DEF Construct, TypeOK, Constructed, Carried, ExplicitStaysPrivate, SuccessIsRemembered
<1> QED
  BY <1>1, <1>2 DEF Construct

\* The default is replaced, if at all, by an object of a call without a directory.
LEMMA StoreStep == ASSUME IInv, NEW t \in Threads, Store(t) PROVE IInv'
<1> USE DEF IInv, Store
<1>1. TypeOK'
  BY DEF TypeOK
<1>2. Constructed'
  BY DEF TypeOK, Constructed
<1>3. Carried'
  BY DEF TypeOK, Carried
<1>4. ExplicitStaysPrivate' /\ SuccessIsRemembered'
  BY DEF TypeOK, Carried, ExplicitStaysPrivate, SuccessIsRemembered
<1> QED
  BY <1>1, <1>2, <1>3, <1>4

LEMMA LeaveStep == ASSUME IInv, NEW t \in Threads, Leave(t) PROVE IInv'
BY DEF IInv, Leave, TypeOK, Constructed, Carried, ExplicitStaysPrivate, SuccessIsRemembered

THEOREM NextInvariant == IInv /\ [Next]_vars => IInv'
<1> SUFFICES ASSUME IInv, [Next]_vars PROVE IInv'
  OBVIOUS
<1>1. CASE UNCHANGED vars
  BY <1>1 DEF vars, IInv, TypeOK, Constructed, Carried, ExplicitStaysPrivate, SuccessIsRemembered
<1>2. CASE Next
  BY <1>2, CallStep, CheckStep, ConstructStep, StoreStep, LeaveStep DEF Next
<1> QED
  BY <1>1, <1>2

THEOREM Invariance == Spec => []IInv
BY InitInvariant, NextInvariant, PTL DEF Spec
-----------------------------------------------------------------------------
(* Every reachable state of load() has its types, for any number of threads
   and objects.                                                             *)
THEOREM TypeCorrect == Spec => []TypeOK
<1>1. IInv => TypeOK
  BY DEF IInv
<1> QED
  BY <1>1, Invariance, PTL

(* However the threads in load() interleave, no object built from an explicit
   libs_dir becomes the default or is handed to a call without one.         *)
THEOREM ExplicitStaysPrivateHolds == Spec => []ExplicitStaysPrivate
<1>1. IInv => ExplicitStaysPrivate
  BY DEF IInv
<1> QED
  BY <1>1, Invariance, PTL

(* Once some call without a libs_dir has returned, _default is set for every
   later one, whatever other calls raised meanwhile.                        *)
THEOREM SuccessIsRememberedHolds == Spec => []SuccessIsRemembered
<1>1. IInv => SuccessIsRemembered
  BY DEF IInv
<1> QED
  BY <1>1, Invariance, PTL
-----------------------------------------------------------------------------
(* A default, once set, is never taken away: load() forgets nothing that it
   has promised, and only a call without a libs_dir replaces what is there. *)
DefaultOnlyReplaced ==
  [][default' # default =>
       /\ default' # None
       /\ \E t \in Threads : pc[t] = "store" /\ ~ explicit[t] /\ default' = api[t]]_vars

(* Proved from Carried: the object a call stores is never None.             *)
THEOREM DefaultOnlyReplacedHolds == Spec => DefaultOnlyReplaced
<1>1. IInv /\ [Next]_vars =>
        [default' # default =>
           /\ default' # None
           /\ \E t \in Threads : pc[t] = "store" /\ ~ explicit[t] /\ default' = api[t]]_vars
  <2> SUFFICES ASSUME IInv, Next, default' # default
               PROVE  /\ default' # None
                      /\ \E t \in Threads :
                           pc[t] = "store" /\ ~ explicit[t] /\ default' = api[t]
    BY DEF vars
  <2>1. PICK t \in Threads : Store(t)
    BY DEF Next, Call, Check, Construct, Leave
  <2> QED
    BY <2>1 DEF Store, IInv, Carried
<1> QED
  BY <1>1, Invariance, PTL DEF Spec, DefaultOnlyReplaced
=============================================================================
