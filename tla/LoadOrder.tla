----------------------------- MODULE LoadOrder -----------------------------
(***************************************************************************)
(* _load_order(libs_dir, files) of pyfreerdpnative/_loader.py:177-225.      *)
(*                                                                         *)
(* The function parses every file of _libs (`info`), indexes the files by   *)
(* the names another library may ask for (`by_soname`), sorts them by a     *)
(* fallback rank, and runs the recursive visit() from each.  The recursion  *)
(* is modelled with its call stack explicit: one action per step of the     *)
(* loop over the roots, one per dependency that a frame looks at, and one   *)
(* per return.  A path is entered at most once, so the position of its      *)
(* `for dep in ...` iterator is kept per path (`next`), not per frame.      *)
(***************************************************************************)
EXTENDS Sequences, Naturals

CONSTANTS
  Files,      \* the regular files of the directory, by path
  Names,      \* the names a DT_NEEDED or DT_SONAME entry can hold
  NoName,     \* no DT_SONAME: not ELF, unreadable, or the tag is missing
  Base,       \* Base[f]: os.path.basename(f)
  Place,      \* Place[f]: where Base[f] comes when base names are sorted
  Kind,       \* Kind[f]: what rank() recognises the base name as
  Infos       \* what _elf_dynamic can return for the files: a set of
              \* functions from Files to [soname, needed] records

InfoType ==
  [Files -> [soname : Names \cup {NoName}, needed : Seq(Names)]]

ASSUME BaseAssumption  == NoName \notin Names /\ Base \in [Files -> Names]
ASSUME PlaceAssumption ==
  /\ Place \in [Files -> Nat]
  /\ \A f, g \in Files : Place[f] = Place[g] => f = g
ASSUME KindAssumption  ==
  Kind \in [Files -> {"winpr", "freerdp", "upper", "other"}]
ASSUME InfosAssumption == Infos \subseteq InfoType

VARIABLES
  info,       \* info[f]: the (soname, needed) pair of f
  todo,       \* the files that `for path in files` has still to reach
  stack,      \* the active calls of visit(), outermost first
  next,       \* next[f]: index of the dependency f's frame looks at next
  visiting,
  seen,
  ordered

vars == <<info, todo, stack, next, visiting, seen, ordered>>
-----------------------------------------------------------------------------
\* The keys under which line 188-189 enter f into by_soname.
Keys(f) == {IF info[f].soname = NoName THEN Base[f] ELSE info[f].soname, Base[f]}

\* by_soname is filled in listing order with setdefault: the first file that
\* has the key keeps it.  The set is empty when no file has it.
BySoname(name) ==
  {f \in Files : /\ name \in Keys(f)
                 /\ \A g \in Files : name \in Keys(g) => Place[f] <= Place[g]}

\* A mistake: no fallback rank.
Rank_none(f) == IF f \in Files THEN 0 ELSE 1

\* rank() and the sort of line 207: by rank, then by base name.
Rank(f) == CASE Kind[f] = "other"   -> 0
             [] Kind[f] = "winpr"   -> 1
             [] Kind[f] = "freerdp" -> 2
             [] Kind[f] = "upper"   -> 3

SortsBefore(f, g) ==
  \/ Rank(f) < Rank(g)
  \/ Rank(f) = Rank(g) /\ Place[f] <= Place[g]

\* The files visit(f) recurses into: lines 215-218, which skip f itself.
Deps(f) ==
  (UNION {BySoname(info[f].needed[i]) : i \in DOMAIN info[f].needed}) \ {f}

Elements(s) == {s[i] : i \in DOMAIN s}

Top == stack[Len(stack)]
-----------------------------------------------------------------------------
Init ==
  /\ info \in Infos
  /\ todo = Files
  /\ stack = << >>
  /\ next = [f \in Files |-> 1]
  /\ visiting = {}
  /\ seen = {}
  /\ ordered = << >>

\* Mistakes in visit(): a finished path is entered again; a path on the stack
\* is entered again; a cycle is an error.
Enter_finished(f) ==
  IF f \in visiting
  THEN UNCHANGED <<visiting, stack>>
  ELSE visiting' = visiting \cup {f} /\ stack' = Append(stack, f)

Enter_active(f) ==
  IF f \in seen
  THEN UNCHANGED <<visiting, stack>>
  ELSE visiting' = visiting \cup {f} /\ stack' = Append(stack, f)

Enter_rejectsCycle(f) ==
  /\ f \notin visiting
  /\ IF f \in seen
     THEN UNCHANGED <<visiting, stack>>
     ELSE visiting' = visiting \cup {f} /\ stack' = Append(stack, f)

\* A call visit(f), up to its loop: it returns at once for a path that is
\* finished or is on the stack.
Enter(f) ==
  IF f \in seen \cup visiting
  THEN UNCHANGED <<visiting, stack>>
  ELSE /\ visiting' = visiting \cup {f}
       /\ stack' = Append(stack, f)

\* A mistake: the roots are taken in listing order, unsorted.
NextRoot_unsorted(f) ==
  /\ stack = << >>
  /\ f \in todo
  /\ \A g \in todo : Place[f] <= Place[g]
  /\ todo' = todo \ {f}
  /\ Enter(f)
  /\ UNCHANGED <<info, next, seen, ordered>>

\* One turn of `for path in files: visit(path)`; todo is taken in sort order.
NextRoot(f) ==
  /\ stack = << >>
  /\ f \in todo
  /\ \A g \in todo : SortsBefore(f, g)
  /\ todo' = todo \ {f}
  /\ Enter(f)
  /\ UNCHANGED <<info, next, seen, ordered>>

\* Mistakes: a name that nothing provides ends the loop; the name is visited
\* in place of the path it stands for.
LookAtDep_break ==
  /\ stack # << >>
  /\ next[Top] <= Len(info[Top].needed)
  /\ LET targets == BySoname(info[Top].needed[next[Top]]) \ {Top}
     IN  \/ /\ targets = {}
            /\ next' = [next EXCEPT ![Top] = Len(info[Top].needed) + 1]
            /\ UNCHANGED <<visiting, stack>>
         \/ /\ next' = [next EXCEPT ![Top] = @ + 1]
            /\ \E target \in targets : Enter(target)
  /\ UNCHANGED <<info, todo, seen, ordered>>

LookAtDep_byName ==
  /\ stack # << >>
  /\ next[Top] <= Len(info[Top].needed)
  /\ next' = [next EXCEPT ![Top] = @ + 1]
  /\ Enter(info[Top].needed[next[Top]])
  /\ UNCHANGED <<info, todo, seen, ordered>>

\* One turn of `for dep in info[path][1]` in the innermost frame.
LookAtDep ==
  /\ stack # << >>
  /\ next[Top] <= Len(info[Top].needed)
  /\ next' = [next EXCEPT ![Top] = @ + 1]
  /\ LET targets == BySoname(info[Top].needed[next[Top]]) \ {Top}
     IN  \/ targets = {} /\ UNCHANGED <<visiting, stack>>
         \/ \E target \in targets : Enter(target)
  /\ UNCHANGED <<info, todo, seen, ordered>>

\* A mistake: the frame returns before its last dependency.
Return_early ==
  /\ stack # << >>
  /\ next[Top] >= Len(info[Top].needed)
  /\ visiting' = visiting \ {Top}
  /\ seen' = seen \cup {Top}
  /\ ordered' = Append(ordered, Top)
  /\ stack' = SubSeq(stack, 1, Len(stack) - 1)
  /\ UNCHANGED <<info, todo, next>>

\* The innermost frame has seen all its dependencies: lines 219-221.
Return ==
  /\ stack # << >>
  /\ next[Top] > Len(info[Top].needed)
  /\ visiting' = visiting \ {Top}
  /\ seen' = seen \cup {Top}
  /\ ordered' = Append(ordered, Top)
  /\ stack' = SubSeq(stack, 1, Len(stack) - 1)
  /\ UNCHANGED <<info, todo, next>>

Next ==
  \/ \E f \in Files : NextRoot(f)
  \/ LookAtDep
  \/ Return

\* A single thread runs the function and nothing in it blocks.
Spec == Init /\ [][Next]_vars /\ WF_vars(Next)

Finished == todo = {} /\ stack = << >>
-----------------------------------------------------------------------------
TypeOK ==
  /\ info \in InfoType
  /\ todo \subseteq Files
  /\ stack \in Seq(Files)
  /\ next \in [Files -> Nat \ {0}]
  /\ visiting \subseteq Files
  /\ seen \subseteq Files
  /\ ordered \in Seq(Files)

Edges == [f \in Files |-> Deps(f)]

Abstract == INSTANCE TopoOrder WITH edges <- Edges, out <- ordered

Reaches(f, g) == Abstract!ReachedBy(Edges, f, g)

(***************************************************************************)
(* The docstring of _load_order: "every dependency inside libs_dir is       *)
(* loaded before the library needing it".  A dependency may follow its      *)
(* dependent only if it depends on it in turn.                              *)
(***************************************************************************)
DependenciesFirst ==
  \A i \in DOMAIN ordered : \A d \in Deps(ordered[i]) :
    \/ \E j \in 1 .. i - 1 : ordered[j] = d
    \/ Reaches(d, ordered[i])

(***************************************************************************)
(* When the function returns, `ordered` is a permutation of the listing:    *)
(* the preload loop (line 277) opens every file, and none twice.            *)
(***************************************************************************)
EveryFileOnce ==
  /\ \A i, j \in DOMAIN ordered : ordered[i] = ordered[j] => i = j
  /\ Finished => Elements(ordered) = Files

(***************************************************************************)
(* The fallback rank (lines 191-205) decides between files that dependencies*)
(* do not order: f comes out before a g that sorts before it only when f is *)
(* needed, perhaps indirectly, by some h that sorts no later than g.        *)
(***************************************************************************)
RankUnlessNeeded ==
  \A i, j \in DOMAIN ordered :
    i < j => \E h \in Files : /\ SortsBefore(h, ordered[j])
                              /\ Reaches(h, ordered[i])

(***************************************************************************)
(* `visiting` is the call stack: every frame was entered because the frame  *)
(* below it needs it, and no path is on the stack twice.  This is what      *)
(* keeps visit() from recursing without end along a cycle.                  *)
(***************************************************************************)
StackIsChain ==
  /\ visiting = Elements(stack)
  /\ \A i, j \in DOMAIN stack : stack[i] = stack[j] => i = j
  /\ \A i \in 1 .. Len(stack) - 1 : stack[i + 1] \in Deps(stack[i])

(***************************************************************************)
(* _load_order returns, whatever the dependencies are, cycles included.     *)
(***************************************************************************)
Terminates == <>Finished

(***************************************************************************)
(* Every step appends a file whose dependencies are out, or none: the       *)
(* recursive algorithm implements TopoOrder.                                *)
(***************************************************************************)
ImplementsTopoOrder == Abstract!Spec
=============================================================================
