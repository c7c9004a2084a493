----------------------------- MODULE TopoOrder -----------------------------
(***************************************************************************)
(* What _load_order (pyfreerdpnative/_loader.py:177-225) promises to the    *)
(* loader: it hands out every file of the directory exactly once, and a     *)
(* file only after each of the directory's files it depends on.  Only a     *)
(* dependency cycle excuses the opposite order.                             *)
(*                                                                         *)
(* The module fixes no algorithm: any file whose dependencies are out may   *)
(* be the next one.  LoadOrder implements it.                               *)
(***************************************************************************)
EXTENDS Sequences, Naturals

CONSTANT
  Files           \* the paths of one _libs directory

VARIABLES
  edges,          \* edges[f]: the files of the directory that f depends on
  out             \* the files handed out so far, in order

absvars == <<edges, out>>

Listed == {out[i] : i \in DOMAIN out}

\* A set of files that contains everything its members depend on.
ClosedUnder(e, S) == \A x \in S : e[x] \subseteq S

\* g is reached from f along zero or more edges: g is in every closed set
\* that holds f.  (Stated with sets instead of paths, so that it can be
\* proved about without recursion.)
ReachedBy(e, f, g) ==
  \A S \in SUBSET Files : f \in S /\ ClosedUnder(e, S) => g \in S

Init ==
  /\ edges \in [Files -> SUBSET Files]
  /\ out = << >>

Emit(f) ==
  /\ f \notin Listed
  /\ \A d \in edges[f] : d \in Listed \/ ReachedBy(edges, d, f)
  /\ out' = Append(out, f)
  /\ UNCHANGED edges

Next == \E f \in Files : Emit(f)

Spec == Init /\ [][Next]_absvars
=============================================================================
