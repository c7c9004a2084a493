------------------------------ MODULE MCBundle ------------------------------
(***************************************************************************)
(* Instances of Bundle: a FreeRDP library, two libraries of the deps prefix, *)
(* one that is in the extra directories of a unix build or is a system DLL   *)
(* on Windows, and an executable.  Cycles, self-references, leftovers of     *)
(* earlier builds and DLLs of a wrong machine are among the worlds.          *)
(***************************************************************************)
EXTENDS Bundle, TLC

CONSTANTS core, codec, util, ssl, tool

AllNames == {core, codec, util, ssl, tool}
Runtime == {ssl}

Below(c, d, u, s, t) ==
  (core :> c) @@ (codec :> d) @@ (util :> u) @@ (ssl :> s) @@ (tool :> t)

Graphs ==
  {Below(c, d, u, s, t) :
     c \in SUBSET {codec, ssl}, d \in SUBSET {util, ssl}, u \in {{}, {util, codec}},
     s \in {{}, {util}}, t \in {{}, {core}, {util}, {core, ssl}}}

\* <<format, extra, foreign>>
Rules == {<<"elf", {}, {}>>, <<"elf", {ssl}, {}>>, <<"pe", {}, {}>>, <<"pe", {}, {codec}>>}

SomeWorlds ==
  {[format |-> r[1], needs |-> g, prefix |-> p, extra |-> r[2], foreign |-> r[3],
    exes |-> e, staged |-> {core} \cup l] :
     r \in Rules, g \in Graphs, p \in {{codec, util}, {codec, util, ssl}},
     e \in {{}, {tool}}, l \in {{}, {util}, {tool}, {codec, tool}}}
=============================================================================
