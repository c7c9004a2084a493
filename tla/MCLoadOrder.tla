---------------------------- MODULE MCLoadOrder ----------------------------
(***************************************************************************)
(* An instance of LoadOrder.  A directory is given by the base names of its *)
(* files in sorted order; Infos ranges over the ways the files may depend   *)
(* on each other and be named.                                              *)
(***************************************************************************)
EXTENDS LoadOrder, SequencesExt

CONSTANTS alias, f1, s1, w1, absent

\* libfreerdp3.so, libfreerdp3.so.3, libfreerdp-server3, libwinpr3: the
\* listing is sorted by base name, which is not the order to load them in.
MCFiles == {alias, f1, s1, w1}
MCPlace == (s1 :> 1) @@ (alias :> 2) @@ (f1 :> 3) @@ (w1 :> 4)
MCKind  == (alias :> "freerdp") @@ (f1 :> "freerdp") @@ (s1 :> "upper") @@ (w1 :> "winpr")
MCBase  == [f \in MCFiles |-> f]
MCNames == MCFiles \cup {absent}

\* Every dependency graph on the four files, cycles included.
EveryGraph ==
  {[f \in MCFiles |-> [soname |-> NoName, needed |-> SetToSeq(e[f])]] :
     e \in {g \in [MCFiles -> SUBSET MCFiles] : \A f \in MCFiles : f \notin g[f]}}

\* The unversioned name is a symlink: both have the DT_SONAME and DT_NEEDED of
\* the one file they are.  Entries come in any order and may name the file
\* itself, or something the directory does not hold.
AnyTwo == {s \in UNION {[1 .. n -> {alias, f1, w1, absent}] : n \in 0 .. 2} :
             Len(s) = 2 => s[1] # s[2]}
OneLibraryTwoNames ==
  {[f \in MCFiles |->
      CASE f \in {alias, f1} -> [soname |-> own, needed |-> e]
        [] f = w1            -> [soname |-> other, needed |-> d]
        [] f = s1            -> [soname |-> s1, needed |-> <<f1, w1>>]] :
     own \in {NoName, f1}, other \in {NoName, w1}, e \in AnyTwo, d \in AnyTwo}

MCInfos == EveryGraph \cup OneLibraryTwoNames
=============================================================================
