---------------------------- MODULE Reruns_proofs ----------------------------
(***************************************************************************)
(* Theorems about the two scripts that are run again over what earlier runs  *)
(* left behind: Wheels (package_wheels.py over dist) and DepsPrefix          *)
(* (build_deps.py over its prefix and cache).  No theorem speaks of both.    *)
(***************************************************************************)
EXTENDS Wheels, DepsPrefix, WellFoundedInduction, TLAPS

-----------------------------------------------------------------------------
(* Wheels: package_wheels.py.                                               *)

\* The artifact has what a wheel of its platform needs.
Wheeled(e) == e.libs /\ WheelAsked(opts, e.tag)

Remaining == {todo[i] : i \in DOMAIN todo}

\* The file of the wheel of e holds what this run put there for e or for an
\* artifact that ends in the same file.
InFile(e) ==
  /\ FileOf(opts, e) \in DOMAIN dist
  /\ dist[FileOf(opts, e)] \in made
  /\ FileOf(opts, dist[FileOf(opts, e)]) = FileOf(opts, e)

\* What the loop has passed of the variants of this run is in dist.
Shipped ==
  pc \in {"package", "done"} =>
    /\ chosen = Chosen(opts)
    /\ \A e \in chosen :
         \/ e \in Remaining
         \/ Wheeled(e) => InFile(e)

LoopDone == pc = "done" => todo = <<>>

IInv == entries \in Worlds /\ TypeOK /\ Shipped /\ LoopDone

\* The least of a set of numbers.
LEMMA Least ==
  ASSUME NEW S, S \subseteq Nat, S # {}
  PROVE  \E n \in S : \A m \in S : n <= m
<1>1. PICK n \in S : \A m \in S : ~ (<<m, n>> \in OpToRel(<, Nat))
  BY NatLessThanWellFounded, WFMin
<1>2. \A m \in S : ~ (m < n)
  BY <1>1 DEF OpToRel
<1> QED
  BY <1>2

\* The ranks of the editions, in numbers.
LEMMA Ranks ==
  /\ ProfileRank["full"] = 0 /\ ProfileRank["minimal"] = 1 /\ ProfileRank["none"] = 9
  /\ EditionRank["media"] = 0 /\ EditionRank["ffmpeg"] = 1
  /\ EditionRank["openh264"] = 2 /\ EditionRank["standard"] = 3 /\ EditionRank["none"] = 9
BY DEF ProfileRank, EditionRank

\* A rank is a number, and one of less than a hundred is that of an artifact
\* of the profile and the edition asked for.
LEMMA RankIsNat ==
  ASSUME NEW o \in Options, NEW e \in Entry
  PROVE  /\ ProfileRank[e.profile] \in 0..1
         /\ ProfileRank[ProfileOf(e)] \in 0..9
         /\ EditionOf(e) \in Editions \cup {None}
         /\ EditionRank[EditionOf(e)] \in 0..9
         /\ Rank(o, e) \in Nat
         /\ Rank(o, e) < 100 <=> ProfileOf(e) = o.profile /\ EditionOf(e) = o.edition
<1>1. ProfileRank[e.profile] \in 0..1 /\ ProfileRank[ProfileOf(e)] \in 0..9
  BY Ranks DEF Entry, Profiles, ProfileOf, None
<1>2. EditionOf(e) \in Editions \cup {None}
  BY DEF EditionOf, Entry
<1>3. EditionRank[EditionOf(e)] \in 0..9
  BY <1>2, Ranks DEF Editions, None
<1> DEFINE p == ProfileRank[ProfileOf(e)]
           d == EditionRank[EditionOf(e)]
           exact == ProfileOf(e) = o.profile /\ EditionOf(e) = o.edition
<1>4. p \in 0..9 /\ d \in 0..9
  BY <1>1, <1>3
<1>5. Rank(o, e) = (IF exact THEN 0 ELSE 100) + 10 * p + d
  BY DEF Rank
<1> HIDE DEF p, d, exact
<1>6. CASE exact
  <2>1. Rank(o, e) = 10 * p + d
    BY <1>4, <1>5, <1>6
  <2>2. Rank(o, e) \in Nat /\ Rank(o, e) < 100
    BY <1>4, <2>1
  <2> QED
    BY <1>1, <1>2, <1>3, <1>6, <2>2 DEF exact
<1>7. CASE ~exact
  <2>1. Rank(o, e) = 100 + 10 * p + d
    BY <1>4, <1>5, <1>7
  <2>2. Rank(o, e) \in Nat /\ ~(Rank(o, e) < 100)
    BY <1>4, <2>1
  <2> QED
    BY <1>1, <1>2, <1>3, <1>7, <2>2 DEF exact
<1> QED
  BY <1>6, <1>7

LEMMA ArtifactsAreEntries ==
  ASSUME entries \in Seq(Entry)
  PROVE  /\ DOMAIN entries \subseteq Nat
         /\ \A i \in DOMAIN entries : entries[i] \in Entry
         /\ Artifacts \subseteq Entry
<1>1. DOMAIN entries = 1..Len(entries) /\ Len(entries) \in Nat
  OBVIOUS
<1>2. \A i \in DOMAIN entries : entries[i] \in Entry
  OBVIOUS
<1> QED
  BY <1>1, <1>2 DEF Artifacts

LEMMA ChosenAreCandidates ==
  ASSUME NEW o PROVE Chosen(o) \subseteq Candidates /\ Candidates \subseteq Artifacts
BY DEF Chosen, Candidates

\* The packages of two editions of a profile have different names.
LEMMA PackageNames ==
  ASSUME NEW p \in Profiles, NEW q \in Profiles, NEW d \in Editions, NEW f \in Editions,
         PackageName(p, d) = PackageName(q, f)
  PROVE  p = q /\ d = f
<1>1. p = q
  BY DEF PackageName, Profiles
<1> DEFINE usual == IF p = "full" THEN "media" ELSE "standard"
<1>2. (IF d \in {None, usual} THEN "default" ELSE d) = (IF f \in {None, usual} THEN "default" ELSE f)
  BY <1>1 DEF PackageName, Profiles
<1>3. d # None /\ f # None /\ d # "default" /\ f # "default"
  BY DEF Editions, None
<1> QED
  BY <1>1, <1>2, <1>3

\* Two artifacts of a run end in one file only if one of them is an archive:
\* with --all-variants because the package names of directories differ,
\* otherwise because one is chosen for each tag.
LEMMA FileOfApart ==
  ASSUME entries \in Worlds, NEW o \in Options, NEW e \in Chosen(o), NEW d \in Chosen(o),
         FileOf(o, e) = FileOf(o, d)
  PROVE  e = d \/ (o.allVariants /\ (e.shape # "directory" \/ d.shape # "directory"))
<1>1. entries \in Seq(Entry)
  BY WorldsAssumption
<1>2. e \in Candidates /\ d \in Candidates
  BY ChosenAreCandidates
<1>3. e.tag = d.tag /\ e.tag # None
  BY <1>2 DEF FileOf, Candidates
<1>4. CASE o.allVariants
  <2> SUFFICES ASSUME e.shape = "directory", d.shape = "directory" PROVE e = d
    BY <1>4
  <2>1. PICK i \in DOMAIN entries : e = entries[i]
    BY <1>2 DEF Candidates, Artifacts
  <2>2. PICK j \in DOMAIN entries : d = entries[j]
    BY <1>2 DEF Candidates, Artifacts
  <2>3. ASSUME i # j PROVE FALSE
    <3>1. <<e.profile, e.edition>> # <<d.profile, d.edition>>
      BY <1>3, <2>1, <2>2, <2>3, OneEachAssumption
    <3>2. e \in Entry /\ d \in Entry
      BY <1>1, <2>1, <2>2, ArtifactsAreEntries
    <3>3. PackageName(e.profile, e.edition) = PackageName(d.profile, d.edition)
      BY <1>4 DEF FileOf, ProfileOf, EditionOf
    <3>4. e.profile \in Profiles /\ e.edition \in Editions /\ d.profile \in Profiles /\ d.edition \in Editions
      BY <3>2 DEF Entry
    <3> QED
      BY <3>1, <3>3, <3>4, PackageNames
  <2> QED
    BY <2>1, <2>2, <2>3
<1>5. CASE ~o.allVariants
  <2> DEFINE Before(j, k) == \/ Rank(o, entries[j]) < Rank(o, entries[k])
                             \/ Rank(o, entries[j]) = Rank(o, entries[k]) /\ j <= k
  <2>1. PICK i \in DOMAIN entries :
          e = entries[i] /\ \A k \in DOMAIN entries : entries[k].tag = e.tag => Before(i, k)
    BY <1>5 DEF Chosen
  <2>2. PICK j \in DOMAIN entries :
          d = entries[j] /\ \A k \in DOMAIN entries : entries[k].tag = d.tag => Before(j, k)
    BY <1>5 DEF Chosen
  <2>3. Before(i, j) /\ Before(j, i)
    BY <1>3, <2>1, <2>2
  <2>4. Rank(o, entries[i]) \in Nat /\ Rank(o, entries[j]) \in Nat /\ i \in Nat /\ j \in Nat
    BY <1>1, ArtifactsAreEntries, RankIsNat
  <2>5. i = j
    BY <2>3, <2>4
  <2> QED
    BY <2>1, <2>2, <2>5
<1> QED
  BY <1>4, <1>5

\* The artifact choose_variants keeps of a tag that has any: of the smallest
\* rank.
LEMMA ATagHasAChosen ==
  ASSUME entries \in Seq(Entry), NEW o \in Options, ~o.allVariants,
         NEW t \in Tags, \E e \in Artifacts : e.tag = t
  PROVE  \E e \in Chosen(o) : e.tag = t /\ \A d \in Artifacts : d.tag = t => Rank(o, e) <= Rank(o, d)
<1> DEFINE I == {i \in DOMAIN entries : entries[i].tag = t}
           R == {Rank(o, entries[i]) : i \in I}
<1>1. DOMAIN entries \subseteq Nat /\ \A i \in DOMAIN entries : entries[i] \in Entry
  BY ArtifactsAreEntries
<1>2. R \subseteq Nat
  BY <1>1, RankIsNat
<1>3. R # {}
  BY DEF Artifacts
<1>4. PICK r \in R : \A m \in R : r <= m
  BY <1>2, <1>3, Least
<1> DEFINE J == {i \in I : Rank(o, entries[i]) = r}
<1>5. J \subseteq Nat /\ J # {}
  BY <1>1, <1>4
<1>6. PICK j \in J : \A m \in J : j <= m
  BY <1>5, Least
<1>7. \A k \in I : r <= Rank(o, entries[k]) /\ Rank(o, entries[k]) \in Nat
  BY <1>2, <1>4
<1>8. \A k \in I : \/ Rank(o, entries[j]) < Rank(o, entries[k])
                   \/ Rank(o, entries[j]) = Rank(o, entries[k]) /\ j <= k
  <2> SUFFICES ASSUME NEW k \in I, ~(Rank(o, entries[j]) < Rank(o, entries[k]))
               PROVE  Rank(o, entries[j]) = Rank(o, entries[k]) /\ j <= k
    OBVIOUS
  <2>1. Rank(o, entries[j]) = r
    BY <1>6
  <2>2. Rank(o, entries[k]) = r
    BY <1>2, <1>7, <2>1
  <2>3. k \in J
    BY <2>2
  <2> QED
    BY <1>6, <2>1, <2>2, <2>3
<1>9. entries[j].tag = t /\ j \in DOMAIN entries
  BY <1>6
<1>10. entries[j] \in Candidates
  BY <1>9, TagsAssumption DEF Candidates, Artifacts
<1>11. entries[j] \in Chosen(o)
  BY <1>8, <1>9, <1>10 DEF Chosen
<1>12. \A d \in Artifacts : d.tag = t => Rank(o, entries[j]) <= Rank(o, d)
  <2> SUFFICES ASSUME NEW d \in Artifacts, d.tag = t PROVE Rank(o, entries[j]) <= Rank(o, d)
    OBVIOUS
  <2>1. PICK k \in I : d = entries[k]
    BY DEF Artifacts
  <2> QED
    BY <1>6, <1>7, <2>1
<1> QED
  BY <1>9, <1>11, <1>12

\* The names of two artifacts of a readable platform say what they are.
LEMMA TwoAreDirectories ==
  ASSUME NEW t, Readable(t), NEW e \in Of(t), NEW d \in Of(t), e # d
  PROVE  /\ EditionOf(e) = e.edition /\ EditionOf(d) = d.edition
         /\ ProfileOf(e) = e.profile /\ ProfileOf(d) = d.profile
<1>1. e.shape = "directory" /\ d.shape = "directory"
  BY DEF Readable
<1> QED
  BY <1>1 DEF EditionOf, ProfileOf

\* Of a readable platform the smallest rank is that of the best variant: an
\* unwanted one ranks behind every wanted one.
LEMMA SmallestRankIsBest ==
  ASSUME NEW o \in Options, NEW t \in Tags, NEW e \in Of(t),
         entries \in Seq(Entry), Readable(t),
         \A d \in Of(t) : Rank(o, e) <= Rank(o, d)
  PROVE  e \in BestOf(o, t)
<1>2. Of(t) \subseteq Entry /\ e \in Entry
  BY ArtifactsAreEntries DEF Of
<1>3. \A d \in Of(t) : /\ Rank(o, d) \in Nat
                       /\ Rank(o, d) < 100 <=> ProfileOf(d) = o.profile /\ EditionOf(d) = o.edition
  BY <1>2, RankIsNat
<1>4. CASE Asked(o, t) # {}
  <2>1. PICK a \in Of(t) : a.profile = o.profile /\ a.edition = o.edition
    BY <1>4 DEF Asked
  <2>2. CASE a = e
    BY <1>4, <2>1, <2>2 DEF Asked, BestOf
  <2>3. CASE a # e
    <3>1. /\ EditionOf(e) = e.edition /\ EditionOf(a) = a.edition
          /\ ProfileOf(e) = e.profile /\ ProfileOf(a) = a.profile
      BY <2>3, TwoAreDirectories
    <3>2. Rank(o, a) < 100 /\ Rank(o, e) <= Rank(o, a) /\ Rank(o, a) \in Nat /\ Rank(o, e) \in Nat
      BY <1>3, <2>1, <3>1
    <3>3. Rank(o, e) < 100
      BY <3>2
    <3>4. e.profile = o.profile /\ e.edition = o.edition
      BY <1>3, <3>1, <3>3
    <3> QED
      BY <1>4, <3>4 DEF Asked, BestOf
  <2> QED
    BY <2>2, <2>3
<1>5. CASE Asked(o, t) = {}
  <2> DEFINE Better(d) == \/ ProfileRank[e.profile] < ProfileRank[d.profile]
                          \/ /\ e.profile = d.profile
                             /\ EditionRank[e.edition] <= EditionRank[d.edition]
  <2> SUFFICES ASSUME NEW d \in Of(t) PROVE Better(d)
    BY <1>5 DEF BestOf
  <2>1. d \in Entry
    BY <1>2
  <2>2. EditionRank[e.edition] \in 0..9 /\ EditionRank[d.edition] \in 0..9
    BY <1>2, <2>1, Ranks DEF Entry, Editions
  <2>3. CASE d = e
    BY <2>2, <2>3
  <2>4. CASE d # e
    <3>1. /\ EditionOf(e) = e.edition /\ EditionOf(d) = d.edition
          /\ ProfileOf(e) = e.profile /\ ProfileOf(d) = d.profile
      BY <2>4, TwoAreDirectories
    <3>2. /\ ~(e.profile = o.profile /\ e.edition = o.edition)
          /\ ~(d.profile = o.profile /\ d.edition = o.edition)
      BY <1>5 DEF Asked
    <3>3. /\ Rank(o, e) = 100 + 10 * ProfileRank[e.profile] + EditionRank[e.edition]
          /\ Rank(o, d) = 100 + 10 * ProfileRank[d.profile] + EditionRank[d.edition]
      BY <3>1, <3>2 DEF Rank
    <3> DEFINE p == ProfileRank[e.profile]   q == ProfileRank[d.profile]
               r == EditionRank[e.edition]   s == EditionRank[d.edition]
    <3>4. p \in 0..1 /\ q \in 0..1
      BY <1>2, <2>1, RankIsNat
    <3>5. r \in 0..9 /\ s \in 0..9
      BY <2>2
    <3>6. 100 + 10 * p + r <= 100 + 10 * q + s
      BY <3>3
    <3>7. p = q => e.profile = d.profile
      BY <1>2, <2>1, Ranks DEF Entry, Profiles
    <3>8. Better(d) <=> p < q \/ (e.profile = d.profile /\ r <= s)
      OBVIOUS
    <3>9. p < q \/ (p = q /\ r <= s)
      <4> HIDE DEF p, q, r, s
      <4> QED
        BY <3>4, <3>5, <3>6
    <3> QED
      BY <3>7, <3>8, <3>9
  <2> QED
    BY <2>3, <2>4
<1> QED
  BY <1>4, <1>5

-----------------------------------------------------------------------------
(* The invariant.                                                           *)

LEMMA InitInvariant == Init => IInv
<1> SUFFICES ASSUME Init PROVE IInv
  OBVIOUS
<1>1. entries \in Worlds /\ entries \in Seq(Entry)
  BY WorldsAssumption DEF Init
<1>2. opts \in Options
  BY DEF Init, Options, Profiles, Editions
<1>3. runs \in 0..MaxRuns
  BY MaxRunsAssumption DEF Init
<1>4. todo \in Seq(Entry)
  BY DEF Init
<1>5. TypeOK
  BY <1>1, <1>2, <1>3, <1>4 DEF Init, TypeOK
<1> QED
  BY <1>1, <1>5 DEF Init, IInv, Shipped, LoopDone

\* A run begins with every entry before it, whatever dist holds.
LEMMA StartStep == ASSUME IInv, NEW o \in Options, Start(o) PROVE IInv'
<1> USE DEF IInv, Start
<1>1. entries' = entries /\ dist' = dist /\ made' = {} /\ archived' = archived
  OBVIOUS
<1>2. Artifacts' = Artifacts /\ Candidates' = Candidates
  BY <1>1 DEF Artifacts, Candidates
<1>3. Chosen(o)' = Chosen(o)
  BY <1>1, <1>2 DEF Chosen
<1>4. CASE entries = <<>>
  <2>1. pc' = "failed" /\ todo' = todo /\ chosen' = chosen
    BY <1>4
  <2>2. TypeOK'
    BY <1>1, <1>2, <2>1, MaxRunsAssumption DEF TypeOK
  <2> QED
    BY <1>1, <2>1, <2>2 DEF Shipped, LoopDone
<1>5. CASE entries # <<>>
  <2>1. pc' = "package" /\ todo' = entries /\ chosen' = Chosen(o) /\ opts' = o
    BY <1>5
  <2>2. chosen' \subseteq Artifacts
    BY <2>1, ChosenAreCandidates
  <2>3. TypeOK'
    BY <1>1, <1>2, <2>1, <2>2, MaxRunsAssumption DEF TypeOK
  <2>4. chosen' = Chosen(opts)'
    BY <1>3, <2>1 DEF Chosen, Rank
  <2>5. Remaining' = Artifacts
    BY <2>1 DEF Remaining, Artifacts
  <2>6. Shipped'
    BY <2>2, <2>4, <2>5 DEF Shipped
  <2> QED
    BY <1>1, <2>1, <2>3, <2>6 DEF LoopDone
<1> QED
  BY <1>4, <1>5

\* The loop goes to the next entry.
LEMMA NextEntry ==
  ASSUME todo \in Seq(Entry), todo # <<>>, todo' = Tail(todo)
  PROVE  /\ todo' \in Seq(Entry)
         /\ Remaining \subseteq {Head(todo)} \cup Remaining'
         /\ Head(todo) \in Remaining
<1>1. /\ Len(todo) \in Nat \ {0} /\ DOMAIN todo = 1..Len(todo) /\ Head(todo) = todo[1]
      /\ todo' \in Seq(Entry) /\ Len(todo') = Len(todo) - 1 /\ DOMAIN todo' = 1..Len(todo')
      /\ \A i \in 1..Len(todo') : todo'[i] = todo[i + 1]
  OBVIOUS
<1>2. ASSUME NEW i \in DOMAIN todo, i # 1 PROVE todo[i] \in Remaining'
  <2>1. i - 1 \in DOMAIN todo' /\ todo'[i - 1] = todo[i]
    BY <1>1, <1>2
  <2> QED
    BY <2>1 DEF Remaining
<1>3. 1 \in DOMAIN todo
  BY <1>1
<1>4. ASSUME NEW x \in Remaining PROVE x \in {Head(todo)} \cup Remaining'
  <2>1. PICK i \in DOMAIN todo : x = todo[i]
    BY DEF Remaining
  <2> QED
    BY <1>1, <1>2, <2>1
<1> QED
  BY <1>1, <1>3, <1>4 DEF Remaining

LEMMA SkipStep == ASSUME IInv, Skip PROVE IInv'
<1> USE DEF IInv, Skip
<1>1. todo' \in Seq(Entry) /\ Remaining \subseteq {Head(todo)} \cup Remaining'
  BY NextEntry DEF TypeOK
<1>2. Artifacts' = Artifacts /\ Candidates' = Candidates
  BY DEF Artifacts, Candidates
<1>3. TypeOK'
  BY <1>1, <1>2 DEF TypeOK
<1>4. Chosen(opts)' = Chosen(opts)
  BY <1>2 DEF Chosen, Rank
<1>5. ASSUME NEW e \in chosen
      PROVE  e \in Remaining' \/ (Wheeled(e)' => InFile(e)')
  <2>1. e # Head(todo)
    OBVIOUS
  <2>2. e \in Remaining \/ (Wheeled(e) => InFile(e))
    BY DEF Shipped
  <2>3. (Wheeled(e)' <=> Wheeled(e)) /\ (InFile(e)' <=> InFile(e))
    BY DEF FileOf, Wheeled, WheelAsked, InFile
  <2> QED
    BY <1>1, <2>1, <2>2, <2>3
<1>6. Shipped'
  BY <1>4, <1>5 DEF Shipped
<1> QED
  BY <1>3, <1>6 DEF LoopDone

\* The wheel of an entry takes its file, which then holds one of this run.
LEMMA PackageStep == ASSUME IInv, Package PROVE IInv'
<1> USE DEF IInv
<1> DEFINE h == Head(todo)
           file == FileOf(opts, h)
<1>0. /\ pc = "package" /\ todo # <<>> /\ h \in chosen /\ todo' = Tail(todo)
      /\ entries' = entries /\ opts' = opts /\ runs' = runs /\ pc' = pc /\ chosen' = chosen
  BY DEF Package
<1>1. todo' \in Seq(Entry) /\ Remaining \subseteq {h} \cup Remaining'
  BY <1>0, NextEntry DEF TypeOK
<1>2. Artifacts' = Artifacts /\ Candidates' = Candidates
  BY <1>0 DEF Artifacts, Candidates
<1>3. chosen = Chosen(opts) /\ h \in Candidates /\ h \in Artifacts
  BY <1>0, ChosenAreCandidates DEF Shipped
<1>4. archived' \subseteq {e \in Artifacts : e.tag \in Mobile}
  BY <1>3 DEF Package, TypeOK
<1>5. \/ /\ Wheeled(h) /\ made' = made \cup {h}
         /\ dist' = [f \in DOMAIN dist \cup {file} |-> IF f = file THEN h ELSE dist[f]]
      \/ ~Wheeled(h) /\ dist' = dist /\ made' = made
  BY DEF Package, Wheeled, WheelAsked
<1>6. made' \subseteq chosen
  BY <1>0, <1>5 DEF TypeOK
<1>7. \A f \in DOMAIN dist' : dist'[f] \in Candidates
  BY <1>3, <1>5 DEF TypeOK
<1>8. TypeOK'
  BY <1>0, <1>1, <1>2, <1>4, <1>6, <1>7 DEF TypeOK
<1>9. Chosen(opts)' = Chosen(opts)
  BY <1>0, <1>2 DEF Chosen, Rank
<1>10. opts \in Options
  BY DEF TypeOK
<1>11. ASSUME NEW e \in chosen
       PROVE  e \in Remaining' \/ (Wheeled(e)' => InFile(e)')
  <2>1. /\ Wheeled(e)' <=> Wheeled(e)
        /\ \A x : FileOf(opts, x)' = FileOf(opts, x) /\ FileOf(opts', x) = FileOf(opts, x)
    BY <1>0 DEF FileOf, Wheeled, WheelAsked
  <2>2. /\ InFile(e)' <=> /\ FileOf(opts, e) \in DOMAIN dist'
                          /\ dist'[FileOf(opts, e)] \in made'
                          /\ FileOf(opts, dist'[FileOf(opts, e)]) = FileOf(opts, e)
    BY <1>0, <2>1 DEF InFile
  <2>3. CASE e = h
    BY <1>5, <2>1, <2>2, <2>3
  <2>4. CASE e # h
    <3>1. e \in Remaining \/ (Wheeled(e) => InFile(e))
      BY <1>0 DEF Shipped
    <3>2. ASSUME Wheeled(h), InFile(e) PROVE InFile(e)'
      <4>1. /\ made' = made \cup {h}
            /\ dist' = [f \in DOMAIN dist \cup {file} |-> IF f = file THEN h ELSE dist[f]]
        BY <1>5, <3>2
      <4> QED
        BY <2>2, <3>2, <4>1 DEF InFile
    <3>3. ASSUME ~Wheeled(h), InFile(e) PROVE InFile(e)'
      BY <1>5, <2>2, <3>3 DEF InFile
    <3> QED
      BY <1>1, <2>1, <2>4, <3>1, <3>2, <3>3
  <2> QED
    BY <2>3, <2>4
<1>12. Shipped'
  BY <1>0, <1>3, <1>9, <1>11 DEF Shipped
<1> QED
  BY <1>0, <1>8, <1>12 DEF LoopDone

LEMMA EndStep == ASSUME IInv, CommandFails \/ Finish PROVE IInv'
<1> USE DEF IInv
<1>0. /\ pc = "package"
      /\ UNCHANGED <<entries, opts, runs, todo, chosen, made, archived, dist>>
      /\ pc' = "failed" \/ (pc' = "done" /\ todo = <<>>)
  BY DEF CommandFails, Finish
<1>1. Artifacts' = Artifacts /\ Candidates' = Candidates /\ Remaining' = Remaining
  BY <1>0 DEF Artifacts, Candidates, Remaining
<1>2. TypeOK'
  BY <1>0, <1>1 DEF TypeOK
<1>3. Chosen(opts)' = Chosen(opts)
  BY <1>0, <1>1 DEF Chosen, Rank
<1>4. Shipped'
  BY <1>0, <1>1, <1>3 DEF Shipped, FileOf, Wheeled, WheelAsked, InFile
<1> QED
  BY <1>0, <1>2, <1>4 DEF LoopDone

LEMMA StepInvariant == IInv /\ [Next]_vars => IInv'
<1> SUFFICES ASSUME IInv, [Next]_vars PROVE IInv'
  OBVIOUS
<1>1. CASE UNCHANGED vars
  <2>1. Artifacts' = Artifacts /\ Candidates' = Candidates /\ Remaining' = Remaining
    BY <1>1 DEF vars, Artifacts, Candidates, Remaining
  <2>2. Chosen(opts)' = Chosen(opts)
    BY <1>1, <2>1 DEF vars, Chosen, Rank
  <2>3. TypeOK' /\ Shipped'
    BY <1>1, <2>1, <2>2 DEF IInv, vars, TypeOK, Shipped, FileOf, Wheeled, WheelAsked, InFile
  <2> QED
    BY <1>1, <2>3 DEF IInv, vars, LoopDone
<1>2. CASE Next
  BY <1>2, StartStep, SkipStep, PackageStep, EndStep DEF Next
<1> QED
  BY <1>1, <1>2

LEMMA Invariant == Spec => []IInv
BY InitInvariant, StepInvariant, PTL DEF Spec

\* Every reachable state of the packaging has its types: what is chosen and
\* what is in dist are artifacts of this directory.
THEOREM WheelsTypeCorrect == Spec => []TypeOK
<1>1. IInv => TypeOK
  BY DEF IInv
<1> QED
  BY <1>1, Invariant, PTL

\* After any number of runs, with any options, over what the earlier ones
\* left in dist, and after any of them failed: the wheel of a platform with one
\* artifact or with directories holds the variant asked for, or the best there is.
THEOREM BestVariantShippedHolds == Spec => []BestVariantShipped
<1>1. IInv => BestVariantShipped
  <2> SUFFICES ASSUME IInv, pc = "done", ~opts.allVariants, NEW t \in Tags, Readable(t),
                      Of(t) # {}, WheelAsked(opts, t), \A e \in BestOf(opts, t) : e.libs
               PROVE  /\ <<<<"full", "default">>, t>> \in DOMAIN dist
                      /\ dist[<<<<"full", "default">>, t>>] \in BestOf(opts, t)
    BY DEF BestVariantShipped, ShipsBest
  <2>1. entries \in Worlds /\ entries \in Seq(Entry) /\ opts \in Options /\ t \in Tags
    BY WorldsAssumption DEF IInv, TypeOK
  <2>2. PICK e \in Chosen(opts) :
          e.tag = t /\ \A d \in Artifacts : d.tag = t => Rank(opts, e) <= Rank(opts, d)
    BY <2>1, ATagHasAChosen DEF Of
  <2>3. e \in Of(t)
    BY <2>2, ChosenAreCandidates DEF Of
  <2>4. e \in BestOf(opts, t)
    BY <2>1, <2>2, <2>3, SmallestRankIsBest DEF Of
  <2>5. Wheeled(e)
    BY <2>2, <2>4 DEF Wheeled
  <2>6. Remaining = {}
    BY DEF IInv, LoopDone, Remaining
  <2>7. InFile(e)
    BY <2>2, <2>5, <2>6 DEF IInv, Shipped
  <2>8. dist[FileOf(opts, e)] \in Chosen(opts)
    BY <2>7 DEF InFile, IInv, TypeOK, Shipped
  <2>9. dist[FileOf(opts, e)] = e
    BY <2>1, <2>2, <2>7, <2>8, FileOfApart DEF InFile
  <2>10. FileOf(opts, e) = <<<<"full", "default">>, t>>
    BY <2>2 DEF FileOf
  <2> QED
    BY <2>4, <2>7, <2>9, <2>10 DEF InFile
<1> QED
  BY <1>1, Invariant, PTL

\* With --all-variants no wheel of a directory replaces that of another, however
\* many runs came before and whatever file names they used: what is lost is
\* lost because of an archive.
THEOREM LostToArchivesOnlyHolds == Spec => []LostToArchivesOnly
<1>1. IInv => LostToArchivesOnly
  <2> SUFFICES ASSUME IInv, pc = "done", opts.allVariants,
                      NEW e \in Artifacts, e.tag # None, Wheeled(e)
               PROVE  /\ FileOf(opts, e) \in DOMAIN dist
                      /\ dist[FileOf(opts, e)] \in made
                      /\ \/ dist[FileOf(opts, e)] = e
                         \/ e.shape # "directory"
                         \/ dist[FileOf(opts, e)].shape # "directory"
    BY DEF LostToArchivesOnly, Wheeled
  <2>1. e \in Chosen(opts)
    BY DEF Chosen, Candidates
  <2>2. Remaining = {}
    BY DEF IInv, LoopDone, Remaining
  <2>3. InFile(e)
    BY <2>1, <2>2 DEF IInv, Shipped
  <2>4. dist[FileOf(opts, e)] \in Chosen(opts)
    BY <2>3 DEF InFile, IInv, TypeOK, Shipped
  <2>5. entries \in Worlds /\ opts \in Options
    BY DEF IInv, TypeOK
  <2>6. \/ dist[FileOf(opts, e)] = e
        \/ e.shape # "directory" \/ dist[FileOf(opts, e)].shape # "directory"
    BY <2>1, <2>3, <2>4, <2>5, FileOfApart DEF InFile
  <2> QED
    BY <2>3, <2>6 DEF InFile
<1> QED
  BY <1>1, Invariant, PTL

-----------------------------------------------------------------------------
(* DepsPrefix: build_deps.py and what build_freerdp.py makes of its prefix. *)
(*                                                                         *)
(* What a run knows of the prefix is what it has done itself: every clause   *)
(* of DepsInv speaks of the components this run has finished or begun, and   *)
(* none of what it found.  That is why an interruption, which leaves the     *)
(* prefix in any state, breaks nothing: the next run has all to build again.  *)

\* This run has not been given up.
Alive == Running \/ phase = "done"

\* The loop of main ends when nothing is left to build, and not before.
LoopEnds ==
  /\ phase \in {"fetch", "install"} => unbuilt # {}
  /\ phase \in {"rpaths", "manifest", "done"} => unbuilt = {}

\* What the builders that returned have installed is there.
Installed ==
  /\ parts \subseteq UNION {PartsOf[c] : c \in Wanted(edition)}
  /\ Alive => \A c \in only \ unbuilt : PartsOf[c] \subseteq parts
  /\ phase = "install" => fresh \subseteq PartsOf[Current] \cap parts
  /\ completed => \A c \in Wanted(edition) : PartsOf[c] \subseteq parts

\* The FFmpeg that this run has installed is the one its components ask for.
Wrapped ==
  /\ Alive /\ "ffmpeg" \in only \ unbuilt => wrapper = ("openh264" \in only)
  /\ phase = "install" /\ "avcodec" \in fresh => wrapper = ("openh264" \in only)

\* After fix_prefix_rpaths nothing is installed any more.
Fixed ==
  /\ phase \in {"manifest", "done"} => parts # {} /\ parts \subseteq relocated
  /\ phase = "done" => manifest = only

DepsInv == DepsTypeOK /\ LoopEnds /\ Installed /\ Wrapped /\ Fixed

LEMMA PartsOfComponents ==
  /\ PartsOf["libusb"] = {"usb"}
  /\ PartsOf["openh264"] = {"h264"}
  /\ PartsOf["ffmpeg"] = {"avcodec", "swscale", "avutil"}
  /\ Parts = {"usb", "h264", "avcodec", "swscale", "avutil"}
BY DEF PartsOf, Parts, Components

LEMMA WantedOfEditions ==
  /\ Wanted("ffmpeg") = {"libusb", "ffmpeg"}
  /\ Wanted("openh264") = {"libusb", "openh264"}
  /\ Wanted("media") = {"libusb", "openh264", "ffmpeg"}
BY DEF Wanted, Components

\* While something is left to build, Current is one of it.
LEMMA CurrentIsLeft ==
  ASSUME DepsTypeOK, unbuilt # {}
  PROVE  /\ Current \in unbuilt /\ Current \in only /\ Current \in Wanted(edition)
         /\ Current \in Components
         /\ PartsOf[Current] \subseteq Parts
BY WantedOfEditions, PartsOfComponents DEF DepsTypeOK, Current, Components, Parts

THEOREM DepsInitInvariant == DepsInit => DepsInv
<1> SUFFICES ASSUME DepsInit PROVE DepsInv
  OBVIOUS
<1>0. tries \in 0..MaxTries
  BY MaxTriesAssumption DEF DepsInit
<1>1. wrapper \in BOOLEAN
  BY DEF DepsInit
<1>2. archive \in [Components -> {"absent", "good", "bad"}]
  BY DEF DepsInit
<1>3. freerdp.state = "none"
  BY DEF DepsInit
<1>4. DepsTypeOK
  BY <1>0, <1>1, <1>2, <1>3, PartsOfComponents DEF DepsInit, DepsTypeOK
<1>5. LoopEnds /\ Installed /\ Wrapped /\ Fixed
  BY <1>3 DEF DepsInit, LoopEnds, Installed, Alive, Running, Wrapped, Fixed
<1> QED
  BY <1>4, <1>5 DEF DepsInv

\* A run begins with everything it shall build still to be built.
LEMMA DepsStartStep == ASSUME DepsInv, NEW asked, StartBuild(asked) PROVE DepsInv'
<1> USE DEF DepsInv, StartBuild
<1>1. DepsTypeOK'
  BY MaxTriesAssumption DEF DepsTypeOK
<1>2. LoopEnds'
  BY DEF LoopEnds
<1>3. Installed' /\ Wrapped'
  BY DEF Installed, Wrapped
<1>4. Fixed'
  BY DEF Fixed
<1> QED
  BY <1>1, <1>2, <1>3, <1>4

LEMMA DepsDownloadStep == ASSUME DepsInv, Download PROVE DepsInv'
<1> USE DEF DepsInv, Download
<1>1. DepsTypeOK' /\ LoopEnds'
  BY DEF DepsTypeOK, LoopEnds
<1>2. Installed' /\ Wrapped' /\ Fixed'
  BY DEF Installed, Alive, Running, Wrapped, Fixed, Current
<1> QED
  BY <1>1, <1>2

LEMMA DepsUnpackStep == ASSUME DepsInv, Unpack PROVE DepsInv'
<1> USE DEF DepsInv, Unpack
<1>1. DepsTypeOK' /\ LoopEnds'
  BY DEF DepsTypeOK, LoopEnds
<1>2. Installed' /\ Wrapped' /\ Fixed'
  BY DEF Installed, Alive, Running, Wrapped, Fixed, Current
<1> QED
  BY <1>1, <1>2

\* One file of the current component: nothing that was finished is undone,
\* and only ffmpeg has an avcodec to configure.
LEMMA DepsInstallStep == ASSUME DepsInv, NEW p \in Parts, Install(p) PROVE DepsInv'
<1> USE DEF DepsInv, Install
<1>1. /\ Current \in unbuilt /\ Current \in Wanted(edition) /\ Current \in Components
      /\ PartsOf[Current] \subseteq Parts
  BY CurrentIsLeft DEF LoopEnds
<1>2. Current' = Current
  BY DEF Current
<1>3. DepsTypeOK' /\ LoopEnds'
  <2>1. wrapper' \in BOOLEAN
    <3>1. CASE p = "avcodec"
      BY <3>1
    <3>2. CASE p # "avcodec"
      BY <3>2 DEF DepsTypeOK
    <3> QED
      BY <3>1, <3>2
  <2> QED
    BY <2>1 DEF DepsTypeOK, LoopEnds
<1>4. Installed'
  BY <1>1, <1>2 DEF Installed, Alive, Running
<1>5. Wrapped'
  <2>1. p = "avcodec" => Current = "ffmpeg"
    BY <1>1, PartsOfComponents DEF Components
  <2> QED
    BY <1>1, <2>1 DEF Wrapped, Alive, Running
<1>6. Fixed'
  BY DEF Fixed
<1> QED
  BY <1>3, <1>4, <1>5, <1>6

\* The builder returns when every file of its component is installed.
LEMMA DepsBuiltStep == ASSUME DepsInv, Built PROVE DepsInv'
<1> USE DEF DepsInv, Built
<1>1. Current \in unbuilt /\ Current \in only
  BY CurrentIsLeft DEF LoopEnds
<1>2. DepsTypeOK' /\ LoopEnds'
  BY DEF DepsTypeOK, LoopEnds
<1>3. Installed'
  BY <1>1 DEF Installed, Alive, Running
<1>4. Wrapped'
  BY PartsOfComponents DEF Wrapped, Alive, Running
<1>5. Fixed'
  BY DEF Fixed
<1> QED
  BY <1>2, <1>3, <1>4, <1>5

LEMMA DepsFixRpathStep == ASSUME DepsInv, NEW p \in Parts, FixRpath(p) PROVE DepsInv'
<1> USE DEF DepsInv, FixRpath
<1>1. DepsTypeOK' /\ LoopEnds'
  BY DEF DepsTypeOK, LoopEnds
<1>2. Installed' /\ Wrapped' /\ Fixed'
  BY DEF Installed, Alive, Running, Wrapped, Fixed
<1> QED
  BY <1>1, <1>2

LEMMA DepsFixDoneStep == ASSUME DepsInv, FixDone PROVE DepsInv'
<1> USE DEF DepsInv, FixDone
<1>1. DepsTypeOK' /\ LoopEnds'
  BY DEF DepsTypeOK, LoopEnds
<1>2. Installed' /\ Wrapped' /\ Fixed'
  BY DEF Installed, Alive, Running, Wrapped, Fixed
<1> QED
  BY <1>1, <1>2

\* Of a whole run nothing is left to build now, so all of it is there.
LEMMA DepsWriteManifestStep == ASSUME DepsInv, WriteManifest PROVE DepsInv'
<1> USE DEF DepsInv, WriteManifest
<1>1. DepsTypeOK' /\ LoopEnds'
  BY WantedOfEditions DEF DepsTypeOK, LoopEnds, Components
<1>2. Installed'
  BY DEF Installed, LoopEnds, Alive, Running
<1>3. Wrapped' /\ Fixed'
  BY DEF Alive, Running, Wrapped, Fixed
<1> QED
  BY <1>1, <1>2, <1>3

LEMMA DepsInterruptStep == ASSUME DepsInv, Interrupt PROVE DepsInv'
<1> USE DEF DepsInv, Interrupt
<1>1. DepsTypeOK' /\ LoopEnds'
  BY DEF DepsTypeOK, LoopEnds
<1>2. Installed' /\ Wrapped' /\ Fixed'
  BY DEF Installed, Alive, Running, Wrapped, Fixed
<1> QED
  BY <1>1, <1>2

LEMMA DepsConfigureStep == ASSUME DepsInv, Configure PROVE DepsInv'
<1> USE DEF DepsInv, Configure
<1>1. DepsTypeOK' /\ LoopEnds'
  BY DEF DepsTypeOK, LoopEnds
<1>2. Installed' /\ Wrapped' /\ Fixed'
  BY DEF Installed, Alive, Running, Wrapped, Fixed, Current
<1> QED
  BY <1>1, <1>2

THEOREM DepsNextInvariant == DepsInv /\ [DepsNext]_depsVars => DepsInv'
<1> SUFFICES ASSUME DepsInv, [DepsNext]_depsVars PROVE DepsInv'
  OBVIOUS
<1>1. CASE UNCHANGED depsVars
  BY <1>1 DEF depsVars, DepsInv, DepsTypeOK, LoopEnds, Installed, Alive, Running, Wrapped, Fixed, Current
<1>2. CASE DepsNext
  BY <1>2, DepsStartStep, DepsDownloadStep, DepsUnpackStep, DepsInstallStep, DepsBuiltStep,
     DepsFixRpathStep, DepsFixDoneStep, DepsWriteManifestStep, DepsInterruptStep, DepsConfigureStep DEF DepsNext
<1> QED
  BY <1>1, <1>2

THEOREM DepsInvariance == DepsSpec => []DepsInv
BY DepsInitInvariant, DepsNextInvariant, PTL DEF DepsSpec

(* Every reachable state of the prefix and its runs has its types.          *)
THEOREM DepsTypeCorrect == DepsSpec => []DepsTypeOK
<1>1. DepsInv => DepsTypeOK
  BY DEF DepsInv
<1> QED
  BY <1>1, DepsInvariance, PTL

(* For any number of runs, killed, failed or restricted by --only at any
   file: one run of all components that ends repairs the prefix completely. *)
THEOREM RerunCompletesHolds == DepsSpec => []RerunCompletes
<1>1. DepsInv => RerunCompletes
  <2> SUFFICES ASSUME DepsInv, phase = "done", only = Wanted(edition)
               PROVE  /\ parts = UNION {PartsOf[c] : c \in Wanted(edition)}
                      /\ relocated = parts
                      /\ "avcodec" \in parts => (wrapper <=> edition = "media")
                      /\ manifest = Wanted(edition)
                      /\ Accepted /\ CacheComplete
    BY DEF RerunCompletes
  <2>1. parts = UNION {PartsOf[c] : c \in Wanted(edition)}
    BY DEF DepsInv, LoopEnds, Installed, Alive
  <2>2. relocated = parts /\ manifest = Wanted(edition)
    BY DEF DepsInv, DepsTypeOK, Fixed
  <2>3. edition \in {"ffmpeg", "openh264", "media"}
    BY DEF DepsInv, DepsTypeOK
  <2>4. "ffmpeg" \in Wanted(edition) => (wrapper <=> "openh264" \in Wanted(edition))
    BY DEF DepsInv, LoopEnds, Wrapped, Alive
  <2>5. "avcodec" \in parts => (wrapper <=> edition = "media")
    BY <2>1, <2>3, <2>4, WantedOfEditions, PartsOfComponents
  <2>6. Accepted /\ CacheComplete
    BY <2>1, <2>3, WantedOfEditions, PartsOfComponents
       DEF Accepted, CacheComplete, HasFfmpeg, HasOpenh264
  <2> QED
    BY <2>1, <2>2, <2>5, <2>6
<1> QED
  BY <1>1, DepsInvariance, PTL

(* For any number of runs: from the end of the first whole run on, FreeRDP is
   configured against all of the edition, whatever is killed, fails or builds
   a part of it later. *)
THEOREM StaysCompleteHolds == DepsSpec => StaysComplete
<1> DEFINE All == UNION {PartsOf[c] : c \in Wanted(edition)}
           Step == completed /\ freerdp' # freerdp =>
                     freerdp'.state = "configured" /\ All \subseteq freerdp'.parts
<1>1. DepsInv /\ [DepsNext]_depsVars => [Step]_depsVars
  <2> SUFFICES ASSUME DepsInv, [DepsNext]_depsVars, completed, freerdp' # freerdp
               PROVE  freerdp'.state = "configured" /\ All \subseteq freerdp'.parts
    OBVIOUS
  <2>1. Configure
    BY DEF depsVars, DepsNext, StartBuild, Download, Unpack, Install, Built, FixRpath, FixDone,
           WriteManifest, Interrupt
  <2>2. parts = All
    BY DEF DepsInv, Installed
  <2>3. edition \in {"ffmpeg", "openh264", "media"}
    BY DEF DepsInv, DepsTypeOK
  <2>4. Accepted /\ CacheComplete
    BY <2>2, <2>3, WantedOfEditions, PartsOfComponents
       DEF Accepted, CacheComplete, HasFfmpeg, HasOpenh264
  <2> QED
    BY <2>1, <2>2, <2>4 DEF Configure
<1> QED
  BY <1>1, DepsInvariance, PTL DEF DepsSpec, StaysComplete
=============================================================================
