------------------------------ MODULE LoadOnce ------------------------------
(***************************************************************************)
(* load() of pyfreerdpnative/_loader.py:385-396, called by several threads. *)
(*                                                                         *)
(* The function reads the module global _default, constructs a FreeRDP      *)
(* object (a long call: it opens every library of a directory), and stores  *)
(* the object in _default.  There is no lock, and the interpreter may       *)
(* switch threads between any two of these steps and within the             *)
(* construction.  The construction itself is Loader's; here it succeeds or  *)
(* raises.                                                                  *)
(***************************************************************************)
EXTENDS Naturals, Sequences

CONSTANTS
  Threads,
  None,        \* the Python None
  MaxObjects   \* bound: how many objects a behaviour constructs
               \* (and, with it, how many calls it makes)

ASSUME MaxObjectsAssumption == MaxObjects \in Nat
ASSUME NoneAssumption == None \notin Nat

VARIABLES
  default,     \* _default
  pc,          \* where each thread is in load()
  explicit,    \* the thread's call has a libs_dir argument
  api,         \* the object the thread's call has constructed or returns
  built,       \* for each object constructed so far: built with a libs_dir
  calls        \* number of calls made so far

vars == <<default, pc, explicit, api, built, calls>>

Objects == 1 .. MaxObjects
MaxCalls == MaxObjects + 1

Init ==
  /\ default = None
  /\ pc = [t \in Threads |-> "idle"]
  /\ explicit = [t \in Threads |-> FALSE]
  /\ api = [t \in Threads |-> None]
  /\ built = << >>
  /\ calls = 0

\* load(libs_dir) or load()
Call(t) ==
  /\ pc[t] = "idle"
  /\ calls < MaxCalls
  /\ calls' = calls + 1
  /\ \E dir \in BOOLEAN : explicit' = [explicit EXCEPT ![t] = dir]
  /\ pc' = [pc EXCEPT ![t] = "check"]
  /\ api' = [api EXCEPT ![t] = None]
  /\ UNCHANGED <<default, built>>

\* Lines 391-392.
Check(t) ==
  /\ pc[t] = "check"
  /\ \/ /\ ~ explicit[t] /\ default # None
        /\ api' = [api EXCEPT ![t] = default]
        /\ pc' = [pc EXCEPT ![t] = "returned"]
     \/ /\ explicit[t] \/ default = None
        /\ pc' = [pc EXCEPT ![t] = "construct"]
        /\ UNCHANGED api
  /\ UNCHANGED <<default, explicit, built, calls>>

\* Line 393: FreeRDP(libs_dir) returns a new object, or raises.
Construct(t) ==
  /\ pc[t] = "construct"
  /\ \/ /\ Len(built) < MaxObjects
        /\ built' = Append(built, explicit[t])
        /\ api' = [api EXCEPT ![t] = Len(built) + 1]
        /\ pc' = [pc EXCEPT ![t] = "store"]
     \/ /\ pc' = [pc EXCEPT ![t] = "failed"]
        /\ UNCHANGED <<built, api>>
  /\ UNCHANGED <<default, explicit, calls>>

\* Mistakes: `global _default` is missing; an explicit directory is stored too.
Store_local(t) ==
  /\ pc[t] = "store"
  /\ pc' = [pc EXCEPT ![t] = "returned"]
  /\ UNCHANGED <<default, explicit, api, built, calls>>

Store_always(t) ==
  /\ pc[t] = "store"
  /\ default' = api[t]
  /\ pc' = [pc EXCEPT ![t] = "returned"]
  /\ UNCHANGED <<explicit, api, built, calls>>

\* Lines 394-396.
Store(t) ==
  /\ pc[t] = "store"
  /\ default' = IF explicit[t] THEN default ELSE api[t]
  /\ pc' = [pc EXCEPT ![t] = "returned"]
  /\ UNCHANGED <<explicit, api, built, calls>>

\* The caller goes on, keeping what it was given.
Leave(t) ==
  /\ pc[t] \in {"returned", "failed"}
  /\ pc' = [pc EXCEPT ![t] = "idle"]
  /\ UNCHANGED <<default, explicit, api, built, calls>>

Next == \E t \in Threads : Call(t) \/ Check(t) \/ Construct(t) \/ Store(t) \/ Leave(t)

Spec == Init /\ [][Next]_vars
-----------------------------------------------------------------------------
TypeOK ==
  /\ default \in Objects \cup {None}
  /\ pc \in [Threads -> {"idle", "check", "construct", "store", "returned", "failed"}]
  /\ explicit \in [Threads -> BOOLEAN]
  /\ api \in [Threads -> Objects \cup {None}]
  /\ built \in Seq(BOOLEAN) /\ Len(built) <= MaxObjects
  /\ calls \in 0 .. MaxCalls

(***************************************************************************)
(* A library loaded from an explicit directory is private to its caller:    *)
(* it never becomes the default that load() hands to everyone else.         *)
(***************************************************************************)
ExplicitStaysPrivate ==
  /\ default # None => ~ built[default]
  /\ \A t \in Threads :
       pc[t] = "returned" /\ ~ explicit[t] => api[t] # None /\ ~ built[api[t]]

(***************************************************************************)
(* Once a call of load() has returned an object there is a default, however *)
(* other calls fail or race: no later call of load() can raise.             *)
(***************************************************************************)
SuccessIsRemembered ==
  \A t \in Threads : pc[t] = "returned" /\ ~ explicit[t] => default # None

(***************************************************************************)
(* The docstring of load(), "Load (once)": every call of load() that        *)
(* succeeds returns the same object.                                        *)
(***************************************************************************)
LoadedOnce ==
  \A i, j \in DOMAIN built : ~ built[i] /\ ~ built[j] => i = j
=============================================================================
