---------------------------- MODULE MCEmitOrder ----------------------------
(***************************************************************************)
(* Instances of EmitOrder: headers with three macros, headers with three     *)
(* typedefs and two structs, headers with four structs one of which is       *)
(* opaque, each with every way its declarations can refer to one another     *)
(* that C allows: a typedef does not lead back to itself, a struct is not    *)
(* held by value before it is complete.                                      *)
(***************************************************************************)
EXTENDS EmitOrder, TLC

CONSTANTS m1, m2, m3, t1, t2, t3, c1, c2, c3, c4

SomeMacros   == {m1, m2, m3}
SomeTypedefs == {t1, t2, t3}
SomeClasses  == {c1, c2, c3, c4}
SomeSorted   == <<m1, m2, m3, t1, t2, t3>>
SomePasses   == [macros |-> 3, typedefs |-> 2, layouts |-> 2]

None(S) == [x \in S |-> {}]
Is(form, of) == [form |-> form, of |-> of]

Nothing ==
  [macro |-> <<>>, typedefOrder |-> <<>>, structOrder |-> <<>>, opaque |-> {},
   expr |-> [t \in SomeTypedefs |-> Is("alias", "base")],
   holds |-> None(SomeClasses), points |-> None(SomeClasses), quoted |-> None(SomeClasses)]

Bodies == {[kind |-> "call", uses |-> {}], [kind |-> "string", uses |-> {}]}
          \cup [kind : {"int"}, uses : SUBSET SomeMacros]

MacroWorlds == {[Nothing EXCEPT !.macro = b] : b \in [SomeMacros -> Bodies]}

\* A typedef may come before the one it names: a second translation unit
\* declares a name again, and it keeps its first place.
Leads(e, t, u) == \/ e[t].of = u
                  \/ e[t].of \in SomeTypedefs /\ e[e[t].of].of = u
                  \/ /\ e[t].of \in SomeTypedefs /\ e[e[t].of].of \in SomeTypedefs
                     /\ e[e[e[t].of].of].of = u

\* c2 holds one typedef that is no array, and c1 points to another.
TypedefWorlds ==
  {[Nothing EXCEPT !.typedefOrder = <<t1, t2, t3>>, !.expr = e,
                   !.structOrder = <<c2, c1>>,
                   !.holds = [None(SomeClasses) EXCEPT ![c2] = {h}],
                   !.points = [None(SomeClasses) EXCEPT ![c1] = {p}]] :
     h \in {c1, t1}, p \in {c2, t3},
     e \in {f \in [SomeTypedefs -> {Is(m, o) : m \in {"alias", "pointer", "array"},
                                               o \in SomeTypedefs \cup {c1, "base"}}] :
              /\ \A t \in SomeTypedefs : ~Leads(f, t, t)
              \* No field is an array of structs by a typedef.
              /\ \A t \in {t1, t3} : f[t].form = "array" => f[t].of = "base"}}

\* c4 is opaque, t1 names it, t2 names c3; an ALIGN64 field of c2 may have the
\* name of t1, as AadAuthHelper has in rdp_settings.
StructExpr == (t1 :> Is("alias", c4)) @@ (t2 :> Is("alias", c3)) @@ (t3 :> Is("pointer", c1))
Ranks == {(c1 :> 1) @@ (c2 :> 2) @@ (c3 :> 3), (c1 :> 3) @@ (c2 :> 2) @@ (c3 :> 1),
          (c1 :> 2) @@ (c2 :> 3) @@ (c3 :> 1), (c1 :> 2) @@ (c2 :> 1) @@ (c3 :> 3)}
\* C completes a struct before another holds it.
Completes(h) ==
  \E rank \in Ranks : \A c \in {c1, c2, c3} : \A n \in h[c] \ {t3} :
     rank[IF n = t2 THEN c3 ELSE n] < rank[c]

Holdings ==
  {h \in {(c1 :> a) @@ (c2 :> b) @@ (c3 :> d) :
             a \in SUBSET {c2, c3, t2}, b \in SUBSET {c1, c3, t3}, d \in SUBSET {c1, c2}} :
     Completes(h)}

StructWorlds ==
  {[Nothing EXCEPT !.typedefOrder = <<t1, t2, t3>>, !.expr = StructExpr,
                   !.structOrder = <<c1, c2, c4, c3>>, !.opaque = {c4},
                   !.holds = h @@ (c4 :> {}),
                   !.quoted = [None(SomeClasses) EXCEPT ![c2] = q]] :
     h \in Holdings, q \in {{}, {t1}}}

SomeWorlds == MacroWorlds \cup TypedefWorlds \cup StructWorlds
=============================================================================
