------------------------------- MODULE Wheels -------------------------------
(***************************************************************************)
(* scripts/package_wheels.py: the artifacts of a build, one directory or     *)
(* archive per platform, profile and edition, become wheels in dist.  The    *)
(* file name of a wheel holds the package name and the platform tag and       *)
(* nothing else, a wheel that is made again replaces the file of its name,    *)
(* and dist is not cleaned: the script may run again, with other options,     *)
(* after it finished or after one of the commands it calls failed.            *)
(***************************************************************************)
EXTENDS Naturals, Sequences

CONSTANTS
  Tags,       \* wheel platform tags
  Mobile,     \* the tags of Android and iOS
  Worlds,     \* what the artifacts directory may hold, in the order of sorted()
  MaxRuns     \* bound: the number of runs of the script

Profiles == {"full", "minimal"}
Editions == {"media", "ffmpeg", "openh264", "standard"}
None == "none"

\* An entry of the artifacts directory: the tag of its platform (None when
\* the name has none), what it was built as, the form of its name, whether a
\* _libs is found in it.  A "directory" is <platform>-<profile>-<edition>, an
\* "archive" the same with a suffix, as the workflow attaches them to a release
\* (build-freerdp.yml:2260), a "release" <platform>-<profile> with a suffix, as
\* BUILD.md:453 names those.
Entry == [tag : Tags \cup {None}, profile : Profiles, edition : Editions,
          shape : {"directory", "archive", "release"}, libs : BOOLEAN]

ASSUME TagsAssumption == Mobile \subseteq Tags /\ None \notin Tags
ASSUME WorldsAssumption == \A w \in Worlds : w \in Seq(Entry)
ASSUME MaxRunsAssumption == MaxRuns \in Nat

\* One artifact per platform, profile and edition (:90-91).
ASSUME OneEachAssumption ==
  \A w \in Worlds : \A i, j \in DOMAIN w :
    i # j /\ w[i].tag = w[j].tag /\ w[i].tag # None =>
      <<w[i].profile, w[i].edition>> # <<w[j].profile, w[j].edition>>

Options == [allVariants : BOOLEAN, profile : Profiles, edition : Editions,
            mobile : {"wheel", "archive", "both"}]

VARIABLES
  entries,    \* the artifacts directory
  opts,       \* the options of the run
  runs,
  pc,
  todo,       \* the entries the loop has not reached
  chosen,     \* the entries that represent their tags in this run
  made,       \* the entries this run made a wheel of
  archived,   \* mobile archives in dist
  dist        \* wheels in dist: <<package, tag>> |-> the entry whose _libs it holds

vars == <<entries, opts, runs, pc, todo, chosen, made, archived, dist>>

-----------------------------------------------------------------------------
\* variant_of: the profile is read before another part of the name, the edition
\* there or at its end, where an archive has its suffix.
ProfileOf(e) == IF e.shape = "release" THEN None ELSE e.profile
EditionOf(e) == IF e.shape = "directory" THEN e.edition ELSE None

\* A mistake: the edition is not part of the name of a minimal package.
PackageName_mistake(profile, edition) ==
  <<IF profile = "minimal" THEN "minimal" ELSE "full",
    IF profile = "minimal" \/ edition \in {None, "media"} THEN "default" ELSE edition>>

\* package_name: <<"full", "default">> stands for pyfreerdpnative.
PackageName(profile, edition) ==
  LET kind  == IF profile = "minimal" THEN "minimal" ELSE "full"
      usual == IF kind = "full" THEN "media" ELSE "standard"
  IN  <<kind, IF edition \in {None, usual} THEN "default" ELSE edition>>

FileOf(o, e) ==
  <<IF o.allVariants THEN PackageName(ProfileOf(e), EditionOf(e)) ELSE <<"full", "default">>, e.tag>>

ProfileRank == [full |-> 0, minimal |-> 1, none |-> 9]
EditionRank == [media |-> 0, ffmpeg |-> 1, openh264 |-> 2, standard |-> 3, none |-> 9]

\* A mistake: the rank of the variant counts before what was asked for.
Rank_mistake(o, e) ==
  100 * ProfileRank[ProfileOf(e)] + 10 * EditionRank[EditionOf(e)]
    + (IF ProfileOf(e) = o.profile /\ EditionOf(e) = o.edition THEN 0 ELSE 1)

\* The tuples choose_variants compares, as numbers in the same order.
Rank(o, e) ==
  (IF ProfileOf(e) = o.profile /\ EditionOf(e) = o.edition THEN 0 ELSE 100)
    + 10 * ProfileRank[ProfileOf(e)] + EditionRank[EditionOf(e)]

Artifacts == {entries[i] : i \in DOMAIN entries}
Candidates == {e \in Artifacts : e.tag # None}

\* choose_variants: the first of the smallest rank of each tag.
Chosen(o) ==
  IF o.allVariants THEN Candidates
  ELSE {entries[i] : i \in {j \in DOMAIN entries :
          /\ entries[j] \in Candidates
          /\ \A k \in DOMAIN entries : entries[k].tag = entries[j].tag =>
                \/ Rank(o, entries[j]) < Rank(o, entries[k])
                \/ Rank(o, entries[j]) = Rank(o, entries[k]) /\ j <= k}}

-----------------------------------------------------------------------------
Init ==
  /\ entries \in Worlds
  /\ opts = [allVariants |-> FALSE, profile |-> "full", edition |-> "media", mobile |-> "both"]
  /\ runs = 0 /\ pc = "idle"
  /\ todo = <<>> /\ chosen = {} /\ made = {} /\ archived = {}
  /\ dist = [f \in {} |-> None]

\* main up to its loop: the candidates of every tag and the ones that win.
Start(o) ==
  /\ pc # "package" /\ runs < MaxRuns
  /\ opts' = o /\ runs' = runs + 1
  /\ IF entries = <<>> THEN pc' = "failed" /\ UNCHANGED <<todo, chosen>>
     ELSE pc' = "package" /\ todo' = entries /\ chosen' = Chosen(o)
  /\ made' = {}
  /\ UNCHANGED <<entries, archived, dist>>

\* The entry has no tag, or another variant won its tag.
Skip ==
  /\ pc = "package" /\ todo # <<>> /\ Head(todo) \notin chosen
  /\ todo' = Tail(todo)
  /\ UNCHANGED <<entries, opts, runs, pc, chosen, made, archived, dist>>

\* The archive of a mobile artifact, the wheel of any: wheel_with_libs moves
\* the file to dist whatever is there, and an entry without _libs is left out.
Package ==
  /\ pc = "package" /\ todo # <<>> /\ Head(todo) \in chosen
  /\ todo' = Tail(todo)
  /\ LET e == Head(todo)
         wheel == e.libs /\ (e.tag \in Mobile => opts.mobile # "archive")
     IN  /\ archived' = IF e.tag \in Mobile /\ opts.mobile # "wheel"
                        THEN archived \cup {e} ELSE archived
         /\ IF wheel
            THEN /\ dist' = [f \in DOMAIN dist \cup {FileOf(opts, e)} |->
                               IF f = FileOf(opts, e) THEN e ELSE dist[f]]
                 /\ made' = made \cup {e}
            ELSE UNCHANGED <<dist, made>>
  /\ UNCHANGED <<entries, opts, runs, pc, chosen>>

\* A command fails, or an archive cannot be read: the script ends there.
CommandFails ==
  /\ pc = "package"
  /\ pc' = "failed"
  /\ UNCHANGED <<entries, opts, runs, todo, chosen, made, archived, dist>>

\* The end of main: a run that made no wheel fails.
Finish ==
  /\ pc = "package" /\ todo = <<>>
  /\ pc' = IF made = {} THEN "failed" ELSE "done"
  /\ UNCHANGED <<entries, opts, runs, todo, chosen, made, archived, dist>>

Next == \/ \E o \in Options : Start(o)
        \/ Skip \/ Package \/ CommandFails \/ Finish

Spec == Init /\ [][Next]_vars

-----------------------------------------------------------------------------
TypeOK ==
  /\ entries \in Seq(Entry) /\ opts \in Options /\ runs \in 0..MaxRuns
  /\ pc \in {"idle", "package", "done", "failed"}
  /\ todo \in Seq(Entry)
  /\ chosen \subseteq Artifacts /\ made \subseteq chosen
  /\ archived \subseteq {e \in Artifacts : e.tag \in Mobile}
  /\ \A f \in DOMAIN dist : dist[f] \in Candidates

\* The artifacts of a tag, those the command line asked for, the best of them.
Of(t) == {e \in Artifacts : e.tag = t}
Asked(o, t) == {e \in Of(t) : e.profile = o.profile /\ e.edition = o.edition}
BestOf(o, t) ==
  IF Asked(o, t) # {} THEN Asked(o, t)
  ELSE {e \in Of(t) : \A d \in Of(t) :
          \/ ProfileRank[e.profile] < ProfileRank[d.profile]
          \/ /\ e.profile = d.profile
             /\ EditionRank[e.edition] <= EditionRank[d.edition]}

\* The options have a wheel made of the entries of the tag.
WheelAsked(o, t) == t \in Mobile => o.mobile # "archive"

\* The one wheel of the tag holds an artifact that is the best of the tag.
ShipsBest(t) ==
  LET file == <<<<"full", "default">>, t>>
  IN  Of(t) # {} /\ WheelAsked(opts, t) /\ (\A e \in BestOf(opts, t) : e.libs) =>
        file \in DOMAIN dist /\ dist[file] \in BestOf(opts, t)

\* No choice is to be made for the tag, or every name says what was built.
Readable(t) == \A e, d \in Of(t) : e = d \/ (e.shape = "directory" /\ d.shape = "directory")

\* After a run, the wheel of a tag holds the variant the command line asked
\* for when the artifacts have it, and the best ranked of those there are
\* otherwise, whatever the order of the entries, however odd the other
\* entries are, and whatever an earlier run left in dist, provided the tag
\* has one artifact or has directories (choose_variants, :147-167).
BestVariantShipped ==
  pc = "done" /\ ~opts.allVariants => \A t \in Tags : Readable(t) => ShipsBest(t)

\* With --all-variants a wheel is lost to another one of the same run only if
\* one of the two artifacts is an archive, whose name hides the edition
\* (variant_of, :97-102): two directories never share a file name, and no
\* file still holds what an earlier run put there.
LostToArchivesOnly ==
  pc = "done" /\ opts.allVariants =>
    \A e \in Artifacts :
      e.tag # None /\ e.libs /\ WheelAsked(opts, e.tag) =>
        LET f == FileOf(opts, e)
        IN  /\ f \in DOMAIN dist /\ dist[f] \in made
            /\ dist[f] = e \/ e.shape # "directory" \/ dist[f].shape # "directory"

\* What the help of --all-variants promises (:369-370), "package every
\* (profile, edition) artifact as its own pip package": of two archives
\* <platform>-<profile>-<edition>.zip, as the release job makes them, the second
\* wheel replaces the first (:345-346).
EveryVariantShipped ==
  pc = "done" /\ opts.allVariants =>
    \A e \in Artifacts :
      e.tag # None /\ e.libs /\ WheelAsked(opts, e.tag) =>
        FileOf(opts, e) \in DOMAIN dist /\ dist[FileOf(opts, e)] = e
=============================================================================
