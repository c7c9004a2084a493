------------------------------ MODULE Closure ------------------------------
(***************************************************************************)
(* What the two dependency walks of a host build promise (build_freerdp.py: *)
(* 2359-2520): files are added to the package only because a file of it      *)
(* needs them and a library directory has them, and a walk returns only      *)
(* when nothing of the kind is left to add.                                 *)
(*                                                                         *)
(* The first walk starts from everything in the package, the second from     *)
(* the executables that were put there after the first.  Bundle implements   *)
(* this with a work list and a set of names it has seen.                     *)
(***************************************************************************)
CONSTANT Names     \* the base names of files

VARIABLES
  needs,           \* needs[f]: the names f's dynamic section or import table lists
  libs,            \* the names the walk may copy, per walk
  phase,           \* "install", "executables", "done" or "failed"
  package,         \* the files in _libs
  walked           \* the files this walk answers for: its roots and its copies

absvars == <<needs, libs, phase, package, walked>>

Wanted == ((UNION {needs[f] : f \in walked}) \cap libs[phase]) \ package

Init ==
  /\ needs \in [Names -> SUBSET Names]
  /\ libs \in [{"install", "executables"} -> SUBSET Names]
  /\ phase = "install"
  /\ package \in SUBSET Names
  /\ walked = package

Copy(f) ==
  /\ phase \in {"install", "executables"}
  /\ f \in Wanted
  /\ package' = package \cup {f}
  /\ walked' = walked \cup {f}
  /\ UNCHANGED <<needs, libs, phase>>

\* The walk returns, and the executables are put into the package.
Executables(E) ==
  /\ phase = "install"
  /\ Wanted = {}
  /\ phase' = "executables"
  /\ package' = package \cup E
  /\ walked' = E
  /\ UNCHANGED <<needs, libs>>

Finish ==
  /\ phase \in {"install", "executables"}
  /\ Wanted = {}
  /\ phase' = "done"
  /\ UNCHANGED <<needs, libs, package, walked>>

Fail ==
  /\ phase \in {"install", "executables"}
  /\ phase' = "failed"
  /\ UNCHANGED <<needs, libs, package, walked>>

Next ==
  \/ \E f \in Names : Copy(f)
  \/ \E E \in SUBSET Names : Executables(E)
  \/ Finish
  \/ Fail

Spec == Init /\ [][Next]_absvars
=============================================================================
