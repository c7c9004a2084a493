------------------------------ MODULE EmitOrder ------------------------------
(***************************************************************************)
(* emit() of scripts/gen_bindings.py: the order in which the generator     *)
(* writes what it parsed from the C headers into _core/constants.py and    *)
(* _core/types.py.  Three loops of the same shape retry what is pending    *)
(* until nothing moves or their passes are used up: the macros, the        *)
(* typedefs, and the layouts of the structs.  types.py is executed from    *)
(* top to bottom when the package is imported, and ctypes takes the size   *)
(* of a type at the line that uses it, so the order is the correctness.    *)
(*                                                                         *)
(* `world` is the Emitter after the headers were parsed.  Text is left out *)
(* of a declaration except for the names in it and where they stand.       *)
(***************************************************************************)
EXTENDS Naturals, Sequences, FiniteSets

CONSTANTS
    Macro, Typedef, Class,  \* the names, and the classes of structs and unions
    Sorted,                 \* the names of Macro and Typedef as sorted() puts them
    Worlds,                 \* what the headers may declare
    Passes                  \* Passes[phase]: the bound of that phase's loop

Elements(s) == {s[i] : i \in DOMAIN s}

ASSUME NamesApart ==
    /\ Macro \cap Typedef = {} /\ Macro \cap Class = {} /\ Typedef \cap Class = {}
ASSUME SortedAssumption ==
    Sorted \in Seq(Macro \cup Typedef) /\ Elements(Sorted) = Macro \cup Typedef
ASSUME PassesPositive ==
    Passes \in [{"macros", "typedefs", "layouts"} -> Nat \ {0}]

VARIABLES
    world,      \* macro, typedefOrder, expr, structOrder, opaque, holds, points, quoted
    phase,      \* "macros", "typedefs", "layouts", then "written"
    pass,       \* the number of the pass, from 1
    todo,       \* what this pass has not visited yet
    progress,   \* this pass resolved something
    done,       \* known, emitted and done: what the phases resolved
    out,        \* the lines of types.py
    warned,     \* the structs the WARNING line names
    cut         \* the phases that ended at their bound while still progressing

vars == <<world, phase, pass, todo, progress, done, out, warned, cut>>

-----------------------------------------------------------------------------
(* What the generator reads off a declaration.                             *)

\* What s has of S, in the order of s.
Keep(s, S) ==
    LET kept[i \in 0..Len(s)] ==
            IF i = 0 THEN <<>>
            ELSE IF s[i] \in S THEN Append(kept[i - 1], s[i]) ELSE kept[i - 1]
    IN  kept[Len(s)]

\* Where a chain of typedefs that are plain names ends.
Base(w, n) ==
    LET step[k \in 0..Cardinality(Typedef)] ==
            IF k = 0 THEN n
            ELSE LET m == step[k - 1]
                 IN  IF m \in Typedef /\ w.expr[m].form = "alias" THEN w.expr[m].of ELSE m
    IN  step[Cardinality(Typedef)]

\* A mistake: no typedef waits for the layout of the struct it is an array of.
Deferred_mistake(w) == {}

\* is_struct_array: the typedefs that wait until the struct has its layout.
Deferred(w) ==
    {t \in Elements(w.typedefOrder) :
        w.expr[t].form = "array" /\ Base(w, w.expr[t].of) \in Elements(w.structOrder)}

\* The headers declare what they refer to, and no field is an array of structs
\* by a typedef: such a field would name what types.py defines last.
ASSUME WorldsAssumption ==
    \A w \in Worlds :
        LET typedefs == Elements(w.typedefOrder)
            classes  == Elements(w.structOrder)
        IN  /\ DOMAIN w.macro \subseteq Macro
            /\ \A m \in DOMAIN w.macro : w.macro[m].uses \subseteq Macro
            /\ w.typedefOrder \in Seq(Typedef) /\ w.structOrder \in Seq(Class)
            /\ \A t \in typedefs :
                 /\ w.expr[t].of # t
                 /\ w.expr[t].of \in Typedef => w.expr[t].of \in typedefs
                 /\ {w.expr[t].of, Base(w, w.expr[t].of)} \cap Class \subseteq classes
            /\ \A c \in classes :
                 w.holds[c] \cup w.points[c] \subseteq (typedefs \ Deferred(w)) \cup classes

\* by_value_deps: the classes named in the fields outside POINTER and
\* CFUNCTYPE, straight or through one typedef.  The name of an ALIGN64 field
\* stands in quotes inside the text of its type and is read as well.
Seen(w, c) ==
    LET named == w.holds[c] \cup w.quoted[c]
        classes == Elements(w.structOrder)
    IN  (named \cap classes) \cup
        {w.expr[t].of : t \in {u \in named \cap Elements(w.typedefOrder) :
                                  w.expr[u].form = "alias" /\ w.expr[u].of \in classes}}

\* What a phase goes through, in the order of its first pass.
Order(w, p) ==
    CASE p = "macros"   -> Keep(Sorted, DOMAIN w.macro)
      [] p = "typedefs" -> Keep(w.typedefOrder, Typedef \ Deferred(w))
      [] p = "layouts"  -> Keep(w.structOrder, Class \ w.opaque)

\* A mistake: a typedef is written although one it names is deferred.
Ready_mistake(w, p, n, d) ==
    CASE p = "macros"   -> w.macro[n].kind # "call"
      [] p = "typedefs" -> {w.expr[n].of} \cap Typedef \subseteq d \cup Deferred(w)
      [] p = "layouts"  -> Seen(w, n) \ {n} \subseteq d

\* The condition under which a visit resolves n, d being resolved already:
\* eval_macro gives a literal; every typedef referred to was emitted; every
\* class held by value has its layout.
Ready(w, p, n, d) ==
    CASE p = "macros" ->
            \/ w.macro[n].kind = "string"
            \/ /\ w.macro[n].kind = "int"
               /\ \A u \in w.macro[n].uses : u \in d /\ w.macro[u].kind = "int"
      [] p = "typedefs" -> {w.expr[n].of} \cap (Typedef \ {n}) \subseteq d
      [] p = "layouts"  -> Seen(w, n) \ {n} \subseteq d

\* A mistake: what is left after the last pass is forgotten.
Pending_mistake(w, p, d) == <<>>

\* pending: what a phase has not resolved, d being resolved.
Pending(w, p, d) == Keep(Order(w, p), Elements(Order(w, p)) \ d)

Lines(what, names) == [i \in DOMAIN names |-> [what |-> what, of |-> names[i]]]

-----------------------------------------------------------------------------
Begin(p, w) ==
    /\ phase' = p
    /\ pass' = 1
    /\ todo' = Order(w, p)
    /\ progress' = FALSE

Init ==
    /\ world \in Worlds
    /\ phase = "macros" /\ pass = 1 /\ progress = FALSE
    /\ todo = Order(world, "macros")
    /\ done = {} /\ out = <<>> /\ warned = {} /\ cut = {}

\* One turn of the inner loop of a phase.
Visit ==
    /\ todo # <<>>
    /\ todo' = Tail(todo)
    /\ LET n == Head(todo)
       IN  IF Ready(world, phase, n, done)
           THEN /\ done' = done \cup {n}
                /\ progress' = TRUE
                /\ out' = CASE phase = "typedefs" -> out \o Lines("typedef", <<n>>)
                            [] phase = "layouts"  -> out \o Lines("layout", <<n>>)
                            [] OTHER -> out
           ELSE UNCHANGED <<done, progress, out>>
    /\ UNCHANGED <<world, phase, pass, warned, cut>>

\* A mistake: one pass over the declarations is thought to be enough.
LastPass_mistake(p) == TRUE

\* The conditions under which the outer loop of a phase ends after this pass.
LastPass(p) ==
    \/ ~progress
    \/ pass = Passes[p]
    \/ p = "layouts" /\ Pending(world, p, done) = <<>>

NextPass ==
    /\ phase # "written" /\ todo = <<>> /\ ~LastPass(phase)
    /\ pass' = pass + 1
    /\ todo' = Pending(world, phase, done)
    /\ progress' = FALSE
    /\ UNCHANGED <<world, phase, done, out, warned, cut>>

EndPhase(p) ==
    /\ phase = p /\ todo = <<>> /\ LastPass(p)
    /\ cut' = IF progress /\ pass = Passes[p] /\ Pending(world, p, done) # <<>>
              THEN cut \cup {p} ELSE cut
    /\ UNCHANGED <<world, done>>

\* constants.py is written: what is left has no value and is dropped.
\* types.py begins with an empty class for every struct.
EndMacros ==
    /\ EndPhase("macros")
    /\ out' = Lines("class", world.structOrder)
    /\ Begin("typedefs", world)
    /\ UNCHANGED warned

\* The typedefs that are left become void pointers.
EndTypedefs ==
    /\ EndPhase("typedefs")
    /\ out' = out \o Lines("void", Pending(world, "typedefs", done))
    /\ Begin("layouts", world)
    /\ UNCHANGED warned

\* The layouts that are left are reported as cyclic and written as they are;
\* the arrays of structs come last.
EndLayouts ==
    /\ EndPhase("layouts")
    /\ LET left == Pending(world, "layouts", done)
       IN  /\ warned' = Elements(left)
           /\ out' = out \o Lines("layout", left)
                         \o Lines("typedef", Keep(Sorted, Deferred(world)))
    /\ phase' = "written"
    /\ UNCHANGED <<pass, todo, progress>>

Next == Visit \/ NextPass \/ EndMacros \/ EndTypedefs \/ EndLayouts

Spec == Init /\ [][Next]_vars /\ WF_vars(Next)

-----------------------------------------------------------------------------
(* Properties.                                                             *)

Defines(line) == line.what \in {"class", "typedef", "void"}
LaidOut(i) == {out[j].of : j \in {k \in 1..(i - 1) : out[k].what = "layout"}}
Defined(i) == {out[j].of : j \in {k \in 1..(i - 1) : Defines(out[k])}}
Names(line) ==
    CASE line.what = "typedef" -> {world.expr[line.of].of} \cap (Typedef \cup Class)
      [] line.what = "layout"  -> world.holds[line.of] \cup world.points[line.of]
      [] OTHER -> {}
Sizes(line) ==
    CASE line.what = "layout" /\ line.of \notin warned -> Seen(world, line.of) \ {line.of}
      [] line.what = "typedef" /\ world.expr[line.of].form = "array" ->
           ({Base(world, world.expr[line.of].of)} \cap Class) \ world.opaque
      [] OTHER -> {}

TypeOK ==
    /\ world \in Worlds
    /\ phase \in {"macros", "typedefs", "layouts", "written"}
    /\ pass \in Nat \ {0} /\ progress \in BOOLEAN
    /\ todo \in Seq(Macro \cup Typedef \cup Class)
    /\ done \subseteq Macro \cup Typedef \cup Class
    /\ out \in Seq([what : {"class", "typedef", "void", "layout"}, of : Typedef \cup Class])
    /\ warned \subseteq Class
    /\ cut \subseteq {"macros", "typedefs", "layouts"}

\* Importing types.py raises no NameError: a line names only what an earlier
\* line defined, whichever typedefs were deferred or given up.
ImportsCleanly == \A i \in DOMAIN out : Names(out[i]) \subseteq Defined(i)

\* ctypes takes a size once, when a type is used by value: a struct is laid
\* out after every struct it was seen to hold, unless the WARNING names it,
\* and an array of structs is made after the layout of its element
\* (gen_bindings.py:878-880 and :916).
SizesKnown == \A i \in DOMAIN out : Sizes(out[i]) \subseteq LaidOut(i)

\* A declaration is given up (a macro dropped, a typedef turned into void*, a
\* struct reported) only when it waits for another that is given up or that
\* has no value, unless the phase ran out of passes: nothing that could be
\* resolved is lost to the order the headers declare things in.
GivenUpForCause ==
    LET after == [macros   |-> {"typedefs", "layouts", "written"},
                  typedefs |-> {"layouts", "written"},
                  layouts  |-> {"written"}]
    IN  \A p \in DOMAIN after : phase \in after[p] /\ p \notin cut =>
            LET names == Order(world, p)
            IN  \A i \in DOMAIN names :
                    names[i] \in done \/ ~Ready(world, p, names[i], done)

\* The generator ends, and every struct that has fields has a layout then.
Finishes ==
    <>(phase = "written" /\
       \A i \in DOMAIN world.structOrder :
           world.structOrder[i] \in LaidOut(Len(out) + 1) \cup world.opaque)
==============================================================================
