------------------------ MODULE SonameRewrite_proofs ------------------------
(***************************************************************************)
(* Theorems about SonameRewrite, for any number of libraries, every           *)
(* dependency graph and every sequence of stagings and interrupted runs.      *)
(*                                                                         *)
(* Two loops, one invariant each: while files are renamed, those that are     *)
(* still to be renamed are exactly the ones in the directory with a plain     *)
(* name (Renaming); while entries are replaced, the files that were visited   *)
(* name nothing that was renamed (Replacing).  Whole adds what is known when  *)
(* everything was staged: then old files of other runs do not survive.        *)
(***************************************************************************)
EXTENDS SonameRewrite, WellFoundedInduction, TLAPS

\* What the directory looks like, whatever happened to it.
Directory ==
  /\ files \in [DOMAIN files -> [soname : Names, needs : SUBSET Names]]
  /\ \A n \in DOMAIN files : n[2] = 1 => n[1] \notin Own

Plain == {n \in DOMAIN files : Renamable(n)}

\* The names the loop of lines 3031-3033 has still to rename.
Left == IF sonamePc = "soname" THEN unvisited \ {First(unvisited)} ELSE unvisited

Renaming ==
  /\ sonamePc # "idle" => \A m \in mapping : Renamable(m)
  /\ sonamePc \in {"rename", "soname"} => unvisited \subseteq mapping /\ Plain = Left
  /\ sonamePc = "soname" => unvisited # {} /\ Suffixed(First(unvisited)) \in DOMAIN files

\* The loop of lines 3035-3043.
Replacing ==
  sonamePc \in {"read", "replace"} =>
    /\ Plain = {} /\ unvisited \subseteq DOMAIN files
    /\ \A n \in DOMAIN files \ unvisited : files[n].needs \cap mapping = {}
    /\ sonamePc = "replace" => unvisited # {} /\ needed = files[First(unvisited)].needs \cap mapping

Outcomes ==
  /\ outcome # "none" => sonamePc = "idle"
  /\ outcome = "failed" => ~ whole

\* A library as it is staged needs only names without the suffix.
Staged(n) == n \in DOMAIN files /\ files[n].needs \subseteq {Standard(d) : d \in Libs}

WholeIdle ==
  /\ outcome = "none" => \A l \in Libs : Staged(Standard(l)) /\ files[Standard(l)].soname = Standard(l)
  /\ outcome = "returned" => Uniquified

WholeRenaming ==
  /\ \A l \in Own : Staged(Standard(l)) /\ files[Standard(l)].soname = Standard(l)
  /\ \A m \in Left : Staged(m)
  /\ \A m \in mapping \ Left :
       /\ Staged(Suffixed(m))
       /\ m \in unvisited \/ files[Suffixed(m)].soname = Suffixed(m)

WholeReplacing ==
  /\ \A l \in Own : Standard(l) \in DOMAIN files
  /\ \A m \in mapping : Suffixed(m) \in DOMAIN files
  /\ \A n \in DOMAIN files : files[n].soname = n /\ files[n].needs \subseteq DOMAIN files \cup mapping

Whole ==
  whole =>
    /\ sonamePc = "idle" => WholeIdle
    /\ sonamePc # "idle" => mapping = {Standard(l) : l \in Libs \ Own}
    /\ sonamePc \in {"rename", "soname"} => WholeRenaming
    /\ sonamePc \in {"read", "replace"} => WholeReplacing

IInv == SonameTypeOK /\ Directory /\ Renaming /\ Replacing /\ Outcomes /\ Whole
-----------------------------------------------------------------------------
(* Names.                                                                   *)

LEMMA NamesArePairs ==
  ASSUME NEW n \in Names
  PROVE  n = <<n[1], n[2]>> /\ n[1] \in Libs /\ n[2] \in {0, 1}
BY DEF Names

LEMMA RenamableNames ==
  ASSUME NEW n \in Names, Renamable(n)
  PROVE  /\ n = Standard(n[1]) /\ n[1] \in Libs \ Own
         /\ Suffixed(n) = Unique(n[1]) /\ Suffixed(n) \in Names
         /\ Suffixed(n) # n /\ ~ Renamable(Suffixed(n))
         /\ Suffixed(n)[1] = n[1] /\ Suffixed(n)[2] = 1
<1>1. n = <<n[1], 0>> /\ n[1] \in Libs /\ n[1] \notin Own
  BY NamesArePairs DEF Renamable
<1>2. Suffixed(n) = <<n[1], 1>>
  BY <1>1 DEF Suffixed
<1>3. <<n[1], 1>> \in Names
  BY <1>1 DEF Names
<1> QED
  BY <1>1, <1>2, <1>3 DEF Standard, Unique, Renamable

LEMMA StandardNames ==
  ASSUME NEW l \in Libs
  PROVE  /\ Standard(l) \in Names /\ Standard(l)[1] = l /\ Standard(l)[2] = 0
         /\ Renamable(Standard(l)) <=> l \notin Own
BY DEF Standard, Names, Renamable

LEMMA SuffixedOnce ==
  ASSUME NEW m \in Names, NEW n \in Names, Renamable(m), Renamable(n), Suffixed(m) = Suffixed(n)
  PROVE  m = n
BY RenamableNames

\* The order of sorted() has a first element in every set of names: the key
\* below is a natural number and grows with the order.
LEMMA FirstIsOne ==
  ASSUME NEW names, names \subseteq Names, names # {}
  PROVE  First(names) \in names
<1> DEFINE key(n) == 2 * n[1] + (1 - n[2])
           keys == {key(n) : n \in names}
<1>1. \A n \in Names : n[1] \in Nat /\ n[2] \in {0, 1} /\ key(n) \in Nat
  BY NamesArePairs, LibCountAssumption DEF Libs
<1>2. keys \subseteq Nat /\ keys # {}
  BY <1>1
<1>3. PICK k \in keys : \A j \in keys : ~ (<<j, k>> \in OpToRel(<, Nat))
  <2> HIDE DEF keys
  <2> QED
    BY <1>2, NatLessThanWellFounded, WFMin
<1>4. \A j \in keys : ~ (j < k)
  BY <1>2, <1>3 DEF OpToRel
<1>5. PICK m \in names : k = key(m)
  OBVIOUS
<1>6. ASSUME NEW n \in names \ {m} PROVE SortsBefore(m, n)
  <2>1. ~ (key(n) < key(m))
    BY <1>4, <1>5
  <2>2. m \in Names /\ n \in Names /\ m # n
    OBVIOUS
  <2>3. m[1] # n[1] \/ m[2] # n[2]
    BY <2>2, NamesArePairs
  <2>4. /\ m[1] \in Nat /\ n[1] \in Nat /\ m[2] \in {0, 1} /\ n[2] \in {0, 1}
    BY <1>1, <2>2
  <2> QED
    BY <2>1, <2>3, <2>4 DEF SortsBefore
<1> QED
  BY <1>6 DEF First

LEMMA FreshFile ==
  ASSUME graph \in [Libs -> SUBSET Libs], NEW l \in Libs
  PROVE  /\ Fresh(l) \in [soname : Names, needs : SUBSET Names]
         /\ Fresh(l).soname = Standard(l)
         /\ Fresh(l).needs \subseteq {Standard(d) : d \in Libs}
<1>1. graph[l] \subseteq Libs
  OBVIOUS
<1> QED
  BY <1>1, StandardNames DEF Fresh
-----------------------------------------------------------------------------
THEOREM InitInvariant == SonameInit => IInv
<1> SUFFICES ASSUME SonameInit PROVE IInv
  OBVIOUS
<1>1. DOMAIN files = {} /\ files \in [DOMAIN files -> [soname : Names, needs : SUBSET Names]]
  BY DEF SonameInit
<1>2. rewriteRuns \in 0 .. MaxRewrites
  BY MaxRewritesAssumption DEF SonameInit
<1>3. SonameTypeOK
  BY <1>1, <1>2 DEF SonameInit, SonameTypeOK
<1>4. Directory /\ Renaming /\ Replacing /\ Outcomes /\ Whole
  BY <1>1 DEF SonameInit, Directory, Renaming, Replacing, Outcomes, Whole
<1> QED
  BY <1>3, <1>4 DEF IInv

LEMMA GraphType == ASSUME IInv PROVE graph \in [Libs -> SUBSET Libs]
BY GraphsAssumption DEF IInv, SonameTypeOK

\* Staging everything makes the directory whole: each library is there as
\* built, whatever old names are there beside it.
LEMMA StageStep == ASSUME IInv, NEW S \in Stagings, Stage(S) PROVE IInv'
<1> USE DEF IInv, Stage
<1> DEFINE new == {Standard(l) : l \in S}
<1>1. S \subseteq Libs
  BY StagingsAssumption
<1>2. \A n \in new : n[1] \in S /\ n = Standard(n[1]) /\ n \in Names /\ n[2] = 0
  BY <1>1, StandardNames
<1>3. /\ DOMAIN files' = DOMAIN files \cup new
      /\ \A n \in new : files'[n] = Fresh(n[1])
      /\ \A n \in DOMAIN files \ new : files'[n] = files[n]
  OBVIOUS
<1> HIDE DEF new
<1>4. ASSUME NEW n \in DOMAIN files' PROVE files'[n] \in [soname : Names, needs : SUBSET Names]
  <2>1. CASE n \in new
    BY <1>1, <1>2, <1>3, <2>1, FreshFile, GraphType
  <2>2. CASE n \notin new
    BY <1>3, <1>4, <2>2 DEF Directory
  <2> QED
    BY <2>1, <2>2
<1>5. files' \in [DOMAIN files' -> [soname : Names, needs : SUBSET Names]]
  BY <1>4
<1>6. SonameTypeOK' /\ Directory'
  BY <1>2, <1>3, <1>4, <1>5 DEF SonameTypeOK, Directory
<1>7. Renaming' /\ Replacing' /\ Outcomes'
  BY DEF Renaming, Replacing, Outcomes
<1>8. Whole'
  <2>1. SUFFICES ASSUME S = Libs, NEW l \in Libs
                 PROVE  /\ Standard(l) \in DOMAIN files'
                        /\ files'[Standard(l)].needs \subseteq {Standard(d) : d \in Libs}
                        /\ files'[Standard(l)].soname = Standard(l)
    BY DEF Whole, WholeIdle, Staged
  <2>2. Standard(l) \in new /\ files'[Standard(l)] = Fresh(l)
    BY <1>3, <2>1, StandardNames DEF new
  <2> QED
    BY <1>3, <2>2, FreshFile, GraphType
<1> QED
  BY <1>6, <1>7, <1>8

\* In a directory that is unique already there is nothing to map, and
\* otherwise every plain name of a vendored library is to be replaced.
LEMMA StartStep == ASSUME IInv, StartRewrite PROVE IInv'
<1> USE DEF IInv, StartRewrite
<1>1. mapping' = Plain /\ Plain \subseteq Names
  BY DEF Plain, SonameTypeOK
<1>2. rewriteRuns' \in 0 .. MaxRewrites
  <2>1. rewriteRuns \in 0 .. MaxRewrites /\ rewriteRuns < MaxRewrites /\ rewriteRuns' = rewriteRuns + 1
    BY DEF SonameTypeOK
  <2> HIDE DEF IInv, StartRewrite
  <2> QED
    BY <2>1, MaxRewritesAssumption
<1>3. SonameTypeOK' /\ Directory'
  BY <1>1, <1>2 DEF SonameTypeOK, Directory
<1>4. Renaming' /\ Replacing' /\ Outcomes'
  BY <1>1 DEF Renaming, Replacing, Outcomes, Plain, Left
<1>5. Whole'
  <2>1. SUFFICES ASSUME whole, WholeIdle
                 PROVE  /\ sonamePc' = "idle" => Uniquified'
                        /\ sonamePc' # "idle" => mapping' = {Standard(l) : l \in Libs \ Own} /\ WholeRenaming'
    BY DEF Whole, WholeIdle
  <2>2. CASE outcome = "returned"
    <3>1. Uniquified
      BY <2>1, <2>2 DEF WholeIdle
    <3>2. Plain = {}
      BY <3>1 DEF Uniquified, Plain, Renamable, Unique
    <3> QED
      BY <1>1, <3>1, <3>2 DEF Uniquified
  <2>3. CASE outcome = "none"
    <3>1. \A l \in Libs : Staged(Standard(l)) /\ files[Standard(l)].soname = Standard(l)
      BY <2>1, <2>3 DEF WholeIdle
    <3>2. Plain = {Standard(l) : l \in Libs \ Own}
      <4>1. ASSUME NEW n \in Plain PROVE n \in {Standard(l) : l \in Libs \ Own}
        BY <1>1, RenamableNames DEF Plain
      <4>2. ASSUME NEW l \in Libs \ Own PROVE Standard(l) \in Plain
        BY <3>1, StandardNames DEF Plain, Staged
      <4> QED
        BY <4>1, <4>2
    <3>3. sonamePc' = "idle" => Uniquified'
      <4>1. SUFFICES ASSUME Plain = {} PROVE Uniquified
        BY <1>1 DEF Uniquified
      <4>2. \A l \in Libs : l \in Own
        BY <3>2, <4>1
      <4>3. ASSUME NEW n \in DOMAIN files PROVE n[1] \in Own /\ n = Standard(n[1])
        BY <4>2, NamesArePairs DEF SonameTypeOK, Directory, Standard
      <4> QED
        BY <3>1, <4>3, OwnAssumption DEF Uniquified, Staged
    <3>4. sonamePc' # "idle" => WholeRenaming'
      <4>1. SUFFICES ASSUME sonamePc' = "rename" PROVE WholeRenaming'
        OBVIOUS
      <4>2. Left' = Plain /\ mapping' \ Left' = {}
        BY <1>1, <4>1 DEF Left
      <4>3. \A m \in Plain : Staged(m)
        BY <3>1, <3>2
      <4> QED
        BY <3>1, <4>2, <4>3, OwnAssumption DEF WholeRenaming, Staged
    <3> QED
      BY <1>1, <3>2, <3>3, <3>4
  <2>4. outcome # "failed"
    BY <2>1 DEF Outcomes
  <2> QED
    BY <2>2, <2>3, <2>4 DEF SonameTypeOK
<1> QED
  BY <1>3, <1>4, <1>5

\* os.rename: one plain name less, and whatever had the new name is gone.
LEMMA RenameStep == ASSUME IInv, Rename PROVE IInv'
<1> USE DEF IInv, Rename
<1> DEFINE old == First(unvisited)
           new == Suffixed(old)
<1>1. unvisited \subseteq mapping /\ Plain = unvisited /\ unvisited \subseteq Names /\ \A m \in mapping : m \in Names /\ Renamable(m)
  BY DEF Renaming, Left, SonameTypeOK
<1>2. old \in unvisited /\ old \in DOMAIN files /\ old \in Names /\ Renamable(old)
  BY <1>1, FirstIsOne DEF Plain
<1>3. /\ new \in Names /\ new # old /\ ~ Renamable(new) /\ new = Unique(old[1])
      /\ new[1] \notin Own /\ new[2] = 1
  BY <1>2, RenamableNames
<1>4. /\ DOMAIN files' = (DOMAIN files \ {old}) \cup {new}
      /\ files'[new] = files[old]
      /\ \A n \in DOMAIN files \ {old, new} : files'[n] = files[n]
      /\ files' \in [DOMAIN files' -> {files'[n] : n \in DOMAIN files'}]
  OBVIOUS
<1>5. sonamePc = "rename" /\ sonamePc' = "soname" /\ UNCHANGED <<graph, whole, mapping, unvisited, needed, outcome, rewriteRuns>>
  OBVIOUS
<1>6. First(unvisited)' = old /\ Suffixed(First(unvisited))' = new
  BY <1>5
<1> HIDE DEF old, new, Rename
<1>7. \A n \in DOMAIN files' : files'[n] \in [soname : Names, needs : SUBSET Names]
  BY <1>2, <1>4 DEF Directory
<1>8. SonameTypeOK'
  BY <1>2, <1>3, <1>4, <1>5, <1>7 DEF SonameTypeOK
<1>9. Directory'
  BY <1>3, <1>4, <1>7 DEF Directory
<1>10. Left' = unvisited \ {old} /\ Left = unvisited
  BY <1>5, <1>6 DEF Left
<1>11. Plain' = unvisited \ {old}
  BY <1>1, <1>3, <1>4 DEF Plain
<1>12. Renaming'
  BY <1>1, <1>2, <1>4, <1>5, <1>6, <1>10, <1>11 DEF Renaming
<1>13. Replacing' /\ Outcomes'
  BY <1>5 DEF Replacing, Outcomes
<1>14. Whole'
  <2>1. SUFFICES ASSUME whole, WholeRenaming, mapping = {Standard(l) : l \in Libs \ Own}
                 PROVE  WholeRenaming'
    BY <1>5 DEF Whole
  <2>2. ASSUME NEW l \in Own
        PROVE  Staged(Standard(l))' /\ (files[Standard(l)].soname = Standard(l))'
    <3>1. l \in Libs /\ Standard(l) # new /\ Standard(l) # old
      BY <1>2, <1>3, OwnAssumption, StandardNames
    <3> QED
      BY <1>4, <2>1, <3>1 DEF WholeRenaming, Staged
  <2>3. ASSUME NEW m \in Left' PROVE Staged(m)'
    <3>1. m \in Left /\ m # old /\ m # new
      BY <1>1, <1>3, <1>10, <2>3
    <3> QED
      BY <1>4, <2>1, <3>1 DEF WholeRenaming, Staged
  <2>4. ASSUME NEW m \in mapping \ Left'
        PROVE  /\ Staged(Suffixed(m))'
               /\ m \in unvisited \/ (files[Suffixed(m)].soname = Suffixed(m))'
    <3>1. CASE m = old
      BY <1>2, <1>4, <1>10, <2>1, <3>1 DEF WholeRenaming, Staged, new
    <3>2. CASE m # old
      <4>1. m \in mapping \ Left /\ m \notin unvisited
        BY <1>10, <2>4, <3>2
      <4>2. Suffixed(m) # new /\ Suffixed(m) # old
        BY <1>1, <1>2, <2>4, <3>2, SuffixedOnce, RenamableNames DEF new
      <4> QED
        BY <1>4, <2>1, <4>1, <4>2 DEF WholeRenaming, Staged
    <3> QED
      BY <3>1, <3>2
  <2> QED
    BY <1>5, <2>2, <2>3, <2>4 DEF WholeRenaming
<1> QED
  BY <1>8, <1>9, <1>12, <1>13, <1>14

LEMMA SetSonameStep == ASSUME IInv, SetSoname PROVE IInv'
<1> USE DEF IInv, SetSoname
<1> DEFINE old == First(unvisited)
           new == Suffixed(old)
<1>1. unvisited \subseteq mapping /\ Plain = unvisited \ {old} /\ unvisited # {} /\ unvisited \subseteq Names /\ new \in DOMAIN files
      /\ \A m \in mapping : m \in Names /\ Renamable(m)
  BY DEF Renaming, Left, SonameTypeOK
<1>2. old \in unvisited /\ old \in Names /\ Renamable(old)
  BY <1>1, FirstIsOne
<1>3. new \in Names /\ ~ Renamable(new) /\ new[1] \notin Own
  BY <1>2, RenamableNames
<1>4. /\ DOMAIN files' = DOMAIN files
      /\ files'[new] = [files[new] EXCEPT !.soname = new]
      /\ \A n \in DOMAIN files \ {new} : files'[n] = files[n]
      /\ files' \in [DOMAIN files' -> {files'[n] : n \in DOMAIN files'}]
  BY <1>1
<1>5. files[new] \in [soname : Names, needs : SUBSET Names]
  BY <1>1 DEF Directory
<1>6. files'[new].soname = new /\ files'[new].needs = files[new].needs
      /\ files'[new] \in [soname : Names, needs : SUBSET Names]
  BY <1>3, <1>4, <1>5
<1>7. /\ sonamePc = "soname" /\ sonamePc' = "rename" /\ unvisited' = unvisited \ {old}
      /\ UNCHANGED <<graph, whole, mapping, needed, outcome, rewriteRuns>>
  OBVIOUS
<1> HIDE DEF old, new, SetSoname
<1>8. \A n \in DOMAIN files' : files'[n] \in [soname : Names, needs : SUBSET Names]
  BY <1>4, <1>6 DEF Directory
<1>9. SonameTypeOK' /\ Directory'
  BY <1>4, <1>7, <1>8 DEF SonameTypeOK, Directory
<1>10. Left' = unvisited \ {old} /\ Left = unvisited \ {old}
  BY <1>7 DEF Left, old
<1>11. Plain' = Plain
  BY <1>4 DEF Plain
<1>12. Renaming'
  BY <1>1, <1>7, <1>10, <1>11 DEF Renaming
<1>13. Replacing' /\ Outcomes'
  BY <1>7 DEF Replacing, Outcomes
<1>14. \A n : Staged(n) => Staged(n)'
  BY <1>4, <1>6 DEF Staged
<1>15. Whole'
  <2>1. SUFFICES ASSUME whole, WholeRenaming, mapping = {Standard(l) : l \in Libs \ Own}
                 PROVE  WholeRenaming'
    BY <1>7 DEF Whole
  <2>2. ASSUME NEW l \in Own
        PROVE  Staged(Standard(l))' /\ (files[Standard(l)].soname = Standard(l))'
    <3>1. Standard(l) # new
      BY <1>3, OwnAssumption, StandardNames
    <3> QED
      BY <1>4, <1>14, <2>1, <3>1 DEF WholeRenaming, Staged
  <2>3. \A m \in Left' : Staged(m)'
    BY <1>10, <1>14, <2>1 DEF WholeRenaming
  <2>4. ASSUME NEW m \in mapping \ Left'
        PROVE  Staged(Suffixed(m))' /\ (files[Suffixed(m)].soname = Suffixed(m))'
    <3>1. Staged(Suffixed(m)) /\ m \in mapping \ Left
      BY <1>10, <2>1, <2>4 DEF WholeRenaming
    <3>2. CASE m = old
      BY <1>6, <1>14, <3>1, <3>2 DEF new
    <3>3. CASE m # old
      <4>1. m \notin unvisited
        BY <1>10, <3>1, <3>3
      <4>2. Suffixed(m) # new
        BY <1>1, <1>2, <3>1, <3>3, SuffixedOnce DEF new
      <4> QED
        BY <1>4, <1>14, <2>1, <3>1, <4>1, <4>2 DEF WholeRenaming, Staged
    <3> QED
      BY <3>2, <3>3
  <2> QED
    BY <1>7, <2>2, <2>3, <2>4 DEF WholeRenaming
<1> QED
  BY <1>9, <1>12, <1>13, <1>15

\* Between the loops: no plain name of a vendored library is left, so in a
\* whole directory every file is Unique or the project's own.
LEMMA ListAgainStep == ASSUME IInv, ListAgain PROVE IInv'
<1> USE DEF IInv, ListAgain
<1>1. Plain = {} /\ Left = {} /\ \A m \in mapping : m \in Names /\ Renamable(m)
  BY DEF Renaming, Left, SonameTypeOK
<1>2. SonameTypeOK' /\ Directory' /\ Outcomes'
  BY DEF SonameTypeOK, Directory, Outcomes
<1>3. Renaming' /\ Replacing'
  BY <1>1 DEF Renaming, Replacing, Plain
<1>4. Whole'
  <2>1. SUFFICES ASSUME whole, WholeRenaming, mapping = {Standard(l) : l \in Libs \ Own}
                 PROVE  WholeReplacing
    BY DEF Whole, WholeReplacing
  <2>2. \A l \in Own : Standard(l) \in DOMAIN files /\ files[Standard(l)].soname = Standard(l)
    BY <2>1 DEF WholeRenaming, Staged
  <2>3. \A m \in mapping : Suffixed(m) \in DOMAIN files /\ files[Suffixed(m)].soname = Suffixed(m)
    BY <1>1, <2>1 DEF WholeRenaming, Staged
  <2>4. ASSUME NEW n \in DOMAIN files
        PROVE  \/ n[1] \in Own /\ n = Standard(n[1])
               \/ \E m \in mapping : n = Suffixed(m)
    <3>1. n \in Names /\ n = <<n[1], n[2]>> /\ n[1] \in Libs /\ n[2] \in {0, 1}
      BY NamesArePairs DEF SonameTypeOK
    <3>2. CASE n[2] = 0
      BY <1>1, <3>1, <3>2 DEF Plain, Renamable, Standard
    <3>3. CASE n[2] = 1
      <4>1. n[1] \notin Own
        BY <3>3 DEF Directory
      <4>2. Standard(n[1]) \in mapping
        BY <2>1, <3>1, <4>1
      <4>3. n = Suffixed(Standard(n[1]))
        BY <3>1, <3>3 DEF Suffixed, Standard
      <4> QED
        BY <4>2, <4>3
    <3> QED
      BY <3>1, <3>2, <3>3
  <2>5. ASSUME NEW n \in DOMAIN files
        PROVE  files[n].soname = n /\ Staged(n)
    <3>1. CASE n[1] \in Own /\ n = Standard(n[1])
      BY <2>1, <3>1 DEF WholeRenaming
    <3>2. CASE \E m \in mapping : n = Suffixed(m)
      BY <1>1, <2>1, <3>2 DEF WholeRenaming
    <3> QED
      BY <2>4, <3>1, <3>2
  <2>6. \A l \in Libs : Standard(l) \in DOMAIN files \cup mapping
    BY <2>1, <2>2
  <2>7. \A n \in DOMAIN files : files[n].needs \subseteq DOMAIN files \cup mapping
    BY <2>5, <2>6 DEF Staged
  <2> QED
    BY <2>2, <2>3, <2>5, <2>7 DEF WholeReplacing
<1> QED
  BY <1>2, <1>3, <1>4

LEMMA ReadNeededStep == ASSUME IInv, ReadNeeded PROVE IInv'
<1> USE DEF IInv, ReadNeeded
<1>1. First(unvisited) \in unvisited
  BY FirstIsOne DEF SonameTypeOK
<1>2. First(unvisited)' = First(unvisited)
  OBVIOUS
<1>3. SonameTypeOK' /\ Directory' /\ Outcomes'
  BY <1>1 DEF SonameTypeOK, Directory, Outcomes
<1>4. Renaming' /\ Replacing'
  BY <1>2 DEF Renaming, Replacing, Plain
<1>5. Whole'
  BY DEF Whole, WholeReplacing
<1> QED
  BY <1>3, <1>4, <1>5

\* One patchelf --replace-needed: the entry goes from a name that is mapped
\* to one that is not, and that the directory has.
LEMMA ReplaceNeededStep == ASSUME IInv, ReplaceNeeded PROVE IInv'
<1> USE DEF IInv, ReplaceNeeded
<1> DEFINE file == First(unvisited)
           old == First(needed)
           new == Suffixed(old)
<1>1. /\ Plain = {} /\ unvisited \subseteq DOMAIN files /\ unvisited # {} /\ unvisited \subseteq Names
      /\ \A n \in DOMAIN files \ unvisited : files[n].needs \cap mapping = {}
      /\ needed = files[file].needs \cap mapping /\ needed # {}
      /\ \A m \in mapping : m \in Names /\ Renamable(m)
  BY DEF Replacing, Renaming, SonameTypeOK
<1>2. file \in unvisited /\ file \in DOMAIN files
  BY <1>1, FirstIsOne
<1>3. old \in needed /\ old \in mapping /\ old \in files[file].needs /\ old \in Names /\ Renamable(old)
  <2>1. needed \subseteq Names
    BY DEF SonameTypeOK
  <2> QED
    BY <1>1, <2>1, FirstIsOne
<1>4. new \in Names /\ ~ Renamable(new)
  BY <1>3, RenamableNames
<1>5. new \notin mapping
  BY <1>1, <1>4
<1>6. /\ DOMAIN files' = DOMAIN files
      /\ files'[file] = [files[file] EXCEPT !.needs = (@ \ {old}) \cup {new}]
      /\ \A n \in DOMAIN files \ {file} : files'[n] = files[n]
      /\ files' \in [DOMAIN files' -> {files'[n] : n \in DOMAIN files'}]
  BY <1>2
<1>7. files[file] \in [soname : Names, needs : SUBSET Names]
  BY <1>2 DEF Directory
<1>8. /\ files'[file].needs = (files[file].needs \ {old}) \cup {new}
      /\ files'[file].soname = files[file].soname
      /\ files'[file] \in [soname : Names, needs : SUBSET Names]
  BY <1>4, <1>6, <1>7
<1>9. /\ sonamePc = "replace" /\ needed' = needed \ {old}
      /\ UNCHANGED <<graph, whole, sonamePc, mapping, unvisited, outcome, rewriteRuns>>
  OBVIOUS
<1>10. First(unvisited)' = file
  BY <1>9
<1> HIDE DEF file, old, new, ReplaceNeeded
<1>11. \A n \in DOMAIN files' : files'[n] \in [soname : Names, needs : SUBSET Names]
  BY <1>6, <1>8 DEF Directory
<1>12. SonameTypeOK' /\ Directory' /\ Outcomes'
  BY <1>6, <1>9, <1>11 DEF SonameTypeOK, Directory, Outcomes
<1>13. Renaming'
  BY <1>9 DEF Renaming
<1>14. Replacing'
  <2>1. Plain' = {}
    BY <1>1, <1>6 DEF Plain
  <2>2. needed' = files'[file].needs \cap mapping
    BY <1>1, <1>5, <1>8, <1>9
  <2>3. \A n \in DOMAIN files' \ unvisited : files'[n].needs \cap mapping = {}
    BY <1>1, <1>2, <1>6
  <2> QED
    BY <1>1, <1>6, <1>9, <1>10, <2>1, <2>2, <2>3 DEF Replacing
<1>15. Whole'
  <2>1. SUFFICES ASSUME whole, WholeReplacing PROVE WholeReplacing'
    BY <1>9 DEF Whole
  <2>2. new \in DOMAIN files
    BY <1>3, <2>1 DEF WholeReplacing, new
  <2>3. ASSUME NEW n \in DOMAIN files
        PROVE  files'[n].soname = n /\ files'[n].needs \subseteq DOMAIN files \cup mapping
    BY <1>6, <1>8, <2>1, <2>2 DEF WholeReplacing
  <2> QED
    BY <1>6, <1>9, <2>1, <2>3 DEF WholeReplacing
<1> QED
  BY <1>12, <1>13, <1>14, <1>15

LEMMA NextFileStep == ASSUME IInv, NextFile PROVE IInv'
<1> USE DEF IInv, NextFile
<1>1. SonameTypeOK' /\ Directory' /\ Outcomes'
  BY DEF SonameTypeOK, Directory, Outcomes
<1>2. Renaming' /\ Replacing'
  BY DEF Renaming, Replacing, Plain
<1>3. Whole'
  BY DEF Whole, WholeReplacing
<1> QED
  BY <1>1, <1>2, <1>3

LEMMA FinishStep == ASSUME IInv, FinishRewrite PROVE IInv'
<1> USE DEF IInv, FinishRewrite
<1>1. SonameTypeOK' /\ Directory' /\ Outcomes'
  BY DEF SonameTypeOK, Directory, Outcomes
<1>2. Renaming' /\ Replacing'
  BY DEF Renaming, Replacing
<1>3. Whole'
  <2>1. SUFFICES ASSUME whole, WholeReplacing PROVE Uniquified'
    BY DEF Whole, WholeIdle
  <2>2. \A n \in DOMAIN files : files[n].needs \cap mapping = {}
    BY DEF Leftovers
  <2>3. \A n \in DOMAIN files : n[1] \notin Own => n = Unique(n[1])
    BY NamesArePairs DEF Replacing, Plain, Renamable, Unique, SonameTypeOK
  <2> QED
    BY <2>1, <2>2, <2>3 DEF WholeReplacing, Uniquified
<1> QED
  BY <1>1, <1>2, <1>3

LEMMA FailStep == ASSUME IInv, FailRewrite PROVE IInv'
<1> USE DEF IInv, FailRewrite
<1>1. SonameTypeOK' /\ Directory' /\ Outcomes'
  BY DEF SonameTypeOK, Directory, Outcomes
<1>2. Renaming' /\ Replacing' /\ Whole'
  BY DEF Renaming, Replacing, Whole
<1> QED
  BY <1>1, <1>2

LEMMA StutterStep == ASSUME IInv, UNCHANGED sonameVars PROVE IInv'
<1> USE DEF IInv, sonameVars
<1>1. SonameTypeOK' /\ Directory' /\ Outcomes'
  BY DEF SonameTypeOK, Directory, Outcomes
<1>2. Left' = Left /\ Plain' = Plain /\ First(unvisited)' = First(unvisited) /\ \A n : Staged(n)' = Staged(n)
  BY DEF Left, Plain, Staged
<1>3. Renaming' /\ Replacing'
  BY <1>2 DEF Renaming, Replacing
<1>4. Whole'
  BY <1>2 DEF Whole, WholeIdle, WholeRenaming, WholeReplacing, Uniquified
<1> QED
  BY <1>1, <1>3, <1>4

THEOREM NextInvariant == IInv /\ [SonameNext]_sonameVars => IInv'
<1> SUFFICES ASSUME IInv, [SonameNext]_sonameVars PROVE IInv'
  OBVIOUS
<1>1. CASE UNCHANGED sonameVars
  BY <1>1, StutterStep
<1>2. ASSUME NEW S \in Stagings, Stage(S) PROVE IInv'
  BY <1>2, StageStep
<1>3. CASE StartRewrite \/ Rename \/ SetSoname \/ ListAgain
  BY <1>3, StartStep, RenameStep, SetSonameStep, ListAgainStep
<1>4. CASE ReadNeeded \/ ReplaceNeeded \/ NextFile \/ FinishRewrite \/ FailRewrite
  BY <1>4, ReadNeededStep, ReplaceNeededStep, NextFileStep, FinishStep, FailStep
<1> QED
  BY <1>1, <1>2, <1>3, <1>4 DEF SonameNext

THEOREM Invariance == SonameSpec => []IInv
BY InitInvariant, NextInvariant, PTL DEF SonameSpec
-----------------------------------------------------------------------------
(* Every reachable state of uniquify_sonames has its types; in particular no
   name ever carries the suffix twice.                                      *)
THEOREM TypeCorrect == SonameSpec => []SonameTypeOK
<1>1. IInv => SonameTypeOK
  BY DEF IInv
<1> QED
  BY <1>1, Invariance, PTL

(* For any libraries and dependencies, and after any history of interrupted
   runs and partial stagings: a run that returns over a directory in which
   everything was staged leaves no plain name and no dangling entry.        *)
THEOREM RunUniquifiesHolds == SonameSpec => []RunUniquifies
<1>1. IInv => RunUniquifies
  BY DEF IInv, Outcomes, Whole, WholeIdle, RunUniquifies
<1> QED
  BY <1>1, Invariance, PTL

(* The check of lines 3044-3052 never fires, in any directory.              *)
THEOREM NothingLeftOverHolds == SonameSpec => []NothingLeftOver
<1>1. IInv => NothingLeftOver
  BY DEF IInv, Replacing, NothingLeftOver, Leftovers
<1> QED
  BY <1>1, Invariance, PTL

\* In a converted directory there is no plain name to rename and no entry to
\* replace, and the DT_SONAME that would be set is there already.
LEMMA ConvertedStep ==
  ASSUME IInv, [SonameNext]_sonameVars, Uniquified, sonamePc # "idle" PROVE files' = files
<1>1. Plain = {}
  BY DEF Uniquified, Plain, Renamable, Unique
<1>2. CASE Rename
  BY <1>1, <1>2 DEF Rename, IInv, Renaming, Left
<1>3. CASE SetSoname
  <2> DEFINE new == Suffixed(First(unvisited))
  <2>1. new \in DOMAIN files
    BY <1>3 DEF SetSoname, IInv, Renaming
  <2>2. files[new].soname = new /\ files[new] \in [soname : Names, needs : SUBSET Names]
        /\ files \in [DOMAIN files -> [soname : Names, needs : SUBSET Names]]
    BY <2>1 DEF Uniquified, IInv, Directory
  <2>3. files' = [files EXCEPT ![new].soname = new]
    BY <1>3 DEF SetSoname
  <2> HIDE DEF new
  <2>4. [files[new] EXCEPT !.soname = new] = files[new]
    BY <2>2
  <2> QED
    BY <2>1, <2>2, <2>3, <2>4
<1>4. CASE ReplaceNeeded
  <2>1. /\ needed # {} /\ needed = files[First(unvisited)].needs \cap mapping
        /\ First(unvisited) \in DOMAIN files
        /\ \A m \in mapping : Renamable(m)
    <3>1. unvisited # {} /\ unvisited \subseteq DOMAIN files /\ unvisited \subseteq Names
      BY <1>4 DEF ReplaceNeeded, IInv, Replacing, SonameTypeOK
    <3> QED
      BY <1>4, <3>1, FirstIsOne DEF ReplaceNeeded, IInv, Replacing, Renaming
  <2>2. files[First(unvisited)].needs \subseteq DOMAIN files
    BY <2>1 DEF Uniquified
  <2> QED
    BY <1>1, <2>1, <2>2 DEF Plain
<1>5. CASE UNCHANGED sonameVars \/ ListAgain \/ ReadNeeded \/ NextFile \/ FinishRewrite \/ FailRewrite
  BY <1>5 DEF sonameVars, ListAgain, ReadNeeded, NextFile, FinishRewrite, FailRewrite
<1> QED
  BY <1>2, <1>3, <1>4, <1>5 DEF SonameNext, Stage, StartRewrite

(* A run over a converted directory never changes a file, not even for a
   moment.                                                                  *)
THEOREM ConvertedOnceHolds == SonameSpec => ConvertedOnce
<1>1. IInv /\ [SonameNext]_sonameVars => [Uniquified /\ sonamePc # "idle" => files' = files]_sonameVars
  BY ConvertedStep
<1> QED
  BY <1>1, Invariance, PTL DEF SonameSpec, ConvertedOnce
=============================================================================
