-------------------------- MODULE HostBuild_proofs --------------------------
(***************************************************************************)
(* Theorems about HostBuild, for every set of configurations and any number  *)
(* of builds.                                                               *)
(*                                                                         *)
(* Neither the prefix nor _libs is cleaned, so a step finds files of builds   *)
(* that ran with other configurations or not to their end.  The invariant     *)
(* says what a build may rely on all the same: how far its own loops have     *)
(* come (Collected, ExecutablesStaged), and what its walks have made true of  *)
(* every file in the directory, its own or not (DepsClosed, Vendored, Fixed). *)
(***************************************************************************)
EXTENDS HostBuild, TLAPS

\* The executables a full build takes over (2565-2618).
Staging == (DOMAIN prefix \cap Executables) \cup DepsTools(cfg)

Walks == {"executables", "walk executables"}
Staged == {"helpers", "load", "done"}
Copied == {"walk", "vendor"} \cup Walks \cup Staged

\* Where a file of _libs is copied from.
Origin(f) == IF f = DevLink THEN "freerdp" ELSE f
Source(f) == IF f \in Executables THEN prefix[f] ELSE cfg

\* Every file stems from a build that was started, or is torn.
Owned ==
  /\ \A f \in DOMAIN prefix : prefix[f] \in used
  /\ \A f \in DOMAIN libs : libs[f] \in used \cup {Torn}
  /\ hostPc # "idle" => cfg \in used
  /\ used = {} => DOMAIN prefix = {} /\ DOMAIN libs = {}

\* As long as one configuration was built, there is nothing foreign.
OnlyItsOwn ==
  \A c \in Configs : used = {c} => DOMAIN prefix \subseteq Produces(c) /\ DOMAIN libs \subseteq PackageFor(c)

\* cmake --install, then the copy of the libraries.
Installed(done) == \A f \in done : f \in DOMAIN prefix /\ prefix[f] = cfg
Taken(done) == \A f \in done : f \in DOMAIN libs /\ libs[f] = prefix[Origin(f)]

Collected ==
  /\ hostPc = "install" => pending \subseteq Produces(cfg) /\ Installed(Produces(cfg) \ pending)
  /\ hostPc \in {"copy"} \cup Copied => Installed(Produces(cfg))
  /\ hostPc = "copy" => pending \subseteq Found /\ Taken(Found \ pending)
  /\ hostPc \in Copied => Taken(Found)

\* Then the executables and the helper.
TakenOver(done) == \A f \in done : f \in DOMAIN libs /\ libs[f] = Source(f)

ExecutablesStaged ==
  /\ hostPc \in Walks => cfg.profile = "full"
  /\ hostPc = "walk" => walked = DOMAIN libs
  /\ hostPc = "executables" => pending \subseteq walked /\ walked = Staging /\ TakenOver(Staging \ pending)
  /\ hostPc = "walk executables" => Staging \subseteq walked /\ walked \subseteq DOMAIN libs
  /\ hostPc \in {"walk executables"} \cup Staged /\ cfg.profile = "full" => TakenOver(Staging)
  /\ hostPc \in {"load", "done"} /\ Helper \in DOMAIN prefix =>
       Helper \in DOMAIN libs /\ libs[Helper] = prefix[Helper]

\* What the deps prefix has of the needs of f is in the directory.
Closed(f) == Needs(f, libs[f]) \cap InDeps(cfg) \subseteq DOMAIN libs

DepsClosed ==
  /\ hostPc \in {"vendor"} \cup Staged => \A f \in DOMAIN libs : Closed(f)
  /\ hostPc \in Walks => \A f \in DOMAIN libs \ walked : Closed(f)

\* And what the machine has of the needs of a shared object.
Vendored ==
  hostPc \in Walks \cup Staged =>
    \A f \in DOMAIN libs \cap SharedObjects : Needs(f, libs[f]) \cap SystemLibs \subseteq DOMAIN libs

Fixed ==
  /\ hostPc \in Staged => DOMAIN libs \cap SharedObjects \subseteq rpathSet
  /\ hostPc \in Walks \cup Staged => Patchable

IInv ==
  /\ HostTypeOK /\ Owned /\ OnlyItsOwn /\ Collected /\ ExecutablesStaged
  /\ DepsClosed /\ Vendored /\ Fixed /\ NoBrowserBundled
-----------------------------------------------------------------------------
(* The tables of the model.                                                 *)

LEMMA NeedsOf ==
  ASSUME NEW c, c # Torn, NEW f, NEW x
  PROVE  x \in Needs(f, c) <=>
           \/ x = "icu" /\ f \in {"freerdp", "freerdp dev"}
           \/ x = "codec" /\ f \in {"freerdp", "freerdp dev"} /\ "codec" \in InDeps(c)
           \/ x = "freerdp" /\ f \in {"shadow", "proxy", "module", "helper"}
           \/ x = "webkit" /\ f = "helper"
           \/ x = "filter" /\ f = "tool"
           \/ x = "util" /\ f \in {"codec", "filter"}
<1>1. f \in {"freerdp", "freerdp dev"} => Needs(f, c) = {"icu"} \cup (InDeps(c) \cap {"codec"})
  BY DEF Needs, Helper, DepsTool, DevLink
<1>2. f \in {"shadow", "proxy", "module"} => Needs(f, c) = {"freerdp"}
  BY DEF Needs, Helper, DepsTool, DevLink
<1>3. /\ f = "helper" => Needs(f, c) = {"freerdp", "webkit"}
      /\ f = "tool" => Needs(f, c) = {"filter"}
  BY DEF Needs, Helper, DepsTool, DevLink
<1>4. f \in {"codec", "filter"} => Needs(f, c) = {"util"}
  BY DEF Needs, Helper, DepsTool, DevLink
<1>5. f \notin {"freerdp", "freerdp dev", "shadow", "proxy", "module", "helper", "tool", "codec", "filter"}
        => Needs(f, c) = {}
  BY DEF Needs, Helper, DepsTool, DevLink
<1> QED
  BY <1>1, <1>2, <1>3, <1>4, <1>5

LEMMA DepsNeedUtil ==
  ASSUME NEW c, NEW f, c # Torn, f \in {"codec", "util", "filter"}
  PROVE  Needs(f, c) \cap SystemLibs = {}
<1>1. ASSUME NEW x \in Needs(f, c) PROVE x = "util"
  <2>1. f \notin {"freerdp", "freerdp dev", "shadow", "proxy", "module", "helper", "tool"}
    OBVIOUS
  <2>2. x \in Needs(f, c)
    BY <1>1
  <2> QED
    BY <2>1, <2>2, NeedsOf
<1> QED
  BY <1>1 DEF SystemLibs

\* What readelf and ldd make of a torn file.
LEMMA NeedsOfTorn == ASSUME NEW f PROVE Needs(f, Torn) = {}
BY DEF Needs

LEMMA InDepsOf ==
  ASSUME NEW c, NEW x
  PROVE  x \in InDeps(c) <=> c.edition = "media" /\ x \in {"codec", "util", "filter"}
BY DEF InDeps, DepsLibs

\* A dropped component is never freerdp itself.
LEMMA ProducesOf ==
  ASSUME NEW c \in Configs
  PROVE  /\ "freerdp" \in Produces(c)
         /\ Produces(c) \subseteq {"freerdp", "shadow", "proxy", "module", "helper"}
         /\ c.profile # "full" => Produces(c) = {"freerdp"}
         /\ c.profile \in {"minimal", "full"} /\ c.edition \in {"standard", "media"}
         /\ c # Torn
BY ConfigsAssumption
   DEF Config, Produces, Promised, PromisedLibs, PromisedExes, PromisedModules, Helper

LEMMA ShippedOf ==
  ASSUME NEW c \in Configs
  PROVE  Shipped(c) = Produces(c) \cup (IF c.profile = "full" THEN {"freerdp dev"} ELSE {})
BY DEF Shipped, DevLink

LEMMA ShippedNames ==
  ASSUME NEW c \in Configs
  PROVE  /\ "freerdp" \in Shipped(c)
         /\ Shipped(c) \subseteq {"freerdp", "freerdp dev", "shadow", "proxy", "module", "helper"}
BY ProducesOf, ShippedOf

\* The package of an undisturbed build, file by file.
LEMMA PackageOf ==
  ASSUME NEW c \in Configs
  PROVE  PackageFor(c) = Shipped(c) \cup {"icu"}
                        \cup (IF c.edition = "media" THEN {"codec", "util"} ELSE {})
                        \cup (IF c.edition = "media" /\ c.profile = "full" THEN {"tool", "filter"} ELSE {})
<1> DEFINE made  == Shipped(c) \cup (IF c.profile = "full" THEN DepsTools(c) ELSE {})
           inner == made \cup ((UNION {Needs(f, c) : f \in made}) \cap InDeps(c))
           deps  == inner \cup ((UNION {Needs(f, c) : f \in inner}) \cap InDeps(c))
<1>0. c # Torn
  BY ProducesOf
<1>1. PackageFor(c) = deps \cup ((UNION {Needs(f, c) : f \in deps \cap SharedObjects}) \cap SystemLibs)
  BY DEF PackageFor
<1>2. made = Shipped(c) \cup (IF c.edition = "media" /\ c.profile = "full" THEN {"tool"} ELSE {})
  BY DEF DepsTools, DepsTool
<1>3. inner = made \cup (IF c.edition = "media" THEN {"codec"} ELSE {})
                   \cup (IF c.edition = "media" /\ c.profile = "full" THEN {"filter"} ELSE {})
  <2> HIDE DEF made
  <2>1. "freerdp" \in made /\ "codec" \notin made /\ "filter" \notin made
    BY <1>2, ShippedNames
  <2>2. "tool" \in made <=> c.edition = "media" /\ c.profile = "full"
    BY <1>2, ShippedNames
  <2>3. ASSUME NEW f \in made, NEW x \in Needs(f, c), x \in InDeps(c)
        PROVE  c.edition = "media" /\ (x = "codec" \/ (x = "filter" /\ f = "tool"))
    <3>1. c.edition = "media" /\ x \in {"codec", "util", "filter"}
      BY <2>3, InDepsOf
    <3>2. f # "codec" /\ f # "filter"
      BY <2>1
    <3> QED
      BY <1>0, <3>1, <3>2, NeedsOf
  <2>4. c.edition = "media" => "codec" \in Needs("freerdp", c) /\ "codec" \in InDeps(c)
    BY <1>0, NeedsOf, InDepsOf
  <2>5. c.edition = "media" => "filter" \in Needs("tool", c) /\ "filter" \in InDeps(c)
    BY <1>0, NeedsOf, InDepsOf
  <2> QED
    BY <2>1, <2>2, <2>3, <2>4, <2>5
<1>4. deps = inner \cup (IF c.edition = "media" THEN {"util"} ELSE {})
  <2> HIDE DEF made, inner
  <2>1. c.edition = "media" => "codec" \in inner
    BY <1>3
  <2>2. "tool" \in inner => "filter" \in inner
    BY <1>2, <1>3, ShippedNames
  <2>3. ASSUME NEW f \in inner, NEW x \in Needs(f, c), x \in InDeps(c)
        PROVE  c.edition = "media" /\ x \in inner \cup {"util"}
    <3>1. c.edition = "media" /\ x \in {"codec", "util", "filter"}
      BY <2>3, InDepsOf
    <3>2. x = "filter" => f = "tool"
      BY <1>0, NeedsOf
    <3> QED
      BY <2>1, <2>2, <3>1, <3>2
  <2>4. c.edition = "media" => "util" \in Needs("codec", c) /\ "util" \in InDeps(c)
    BY <1>0, NeedsOf, InDepsOf
  <2> QED
    BY <2>1, <2>3, <2>4
<1>5. (UNION {Needs(f, c) : f \in deps \cap SharedObjects}) \cap SystemLibs = {"icu"}
  <2> HIDE DEF made, inner, deps
  <2>1. "freerdp" \in deps \cap SharedObjects
    BY <1>2, <1>3, <1>4, ProducesOf, ShippedOf DEF SharedObjects, CoreLibs
  <2>2. "helper" \notin SharedObjects
    BY DEF SharedObjects, CoreLibs, DepsLibs, SystemLibs, DevLink
  <2>3. ASSUME NEW f \in deps \cap SharedObjects, NEW x \in Needs(f, c) \cap SystemLibs PROVE x = "icu"
    BY <1>0, <2>2, <2>3, NeedsOf DEF SystemLibs
  <2>4. "icu" \in Needs("freerdp", c) \cap SystemLibs
    BY <1>0, NeedsOf DEF SystemLibs
  <2> QED
    BY <2>1, <2>3, <2>4
<1> HIDE DEF made, inner, deps
<1> QED
  BY <1>1, <1>2, <1>3, <1>4, <1>5

\* The kinds of files do not overlap.
LEMMA Kinds ==
  /\ CoreLibs = {"freerdp", "freerdp dev", "shadow", "module"} /\ Executables = {"proxy"}
  /\ Helper = "helper" /\ DepsTool = "tool" /\ DepsLibs = {"codec", "util", "filter"}
  /\ SystemLibs = {"icu", "webkit"} /\ DevLink = "freerdp dev"
  /\ SharedObjects = {"freerdp", "freerdp dev", "shadow", "module", "codec", "util", "filter", "icu", "webkit"}
  /\ Files = SharedObjects \cup {"proxy", "helper", "tool"}
BY DEF CoreLibs, Executables, Helper, DepsTool, DepsLibs, SystemLibs, DevLink, SharedObjects, Files

-----------------------------------------------------------------------------
(* The initial state, and the steps in the order of the flow.               *)

THEOREM InitInvariant == HostInit => IInv
<1> SUFFICES ASSUME HostInit PROVE IInv
  OBVIOUS
<1>1. DOMAIN prefix = {} /\ DOMAIN libs = {}
  BY DEF HostInit, Empty
<1>2. HostTypeOK
  BY <1>1, MaxBuildsAssumption DEF HostInit, HostTypeOK
<1>3. Owned /\ OnlyItsOwn /\ NoBrowserBundled
  BY <1>1 DEF HostInit, Owned, OnlyItsOwn, NoBrowserBundled
<1>4. Collected /\ ExecutablesStaged /\ DepsClosed /\ Vendored /\ Fixed
  BY DEF HostInit, Collected, ExecutablesStaged, DepsClosed, Vendored, Fixed, Copied, Walks, Staged
<1> QED
  BY <1>2, <1>3, <1>4 DEF IInv

\* With a second configuration nothing is claimed of what belongs to whom;
\* with the first, the directories are still empty.
LEMMA StartStep == ASSUME IInv, NEW c \in Configs, StartHost(c) PROVE IInv'
<1> USE DEF IInv, StartHost
<1>1. Produces(c) \subseteq Files
  BY ProducesOf, Kinds
<1>2. HostTypeOK'
  <2>1. builds' \in 0 .. MaxBuilds
    <3>1. builds \in 0 .. MaxBuilds /\ builds < MaxBuilds /\ builds' = builds + 1
      BY DEF HostTypeOK
    <3> HIDE DEF IInv, StartHost
    <3> QED
      BY <3>1, MaxBuildsAssumption
  <2>2. used' \subseteq Configs /\ pending' \cup walked' \subseteq Files
    BY <1>1 DEF HostTypeOK
  <2> QED
    BY <2>1, <2>2 DEF HostTypeOK
<1>3. Owned' /\ NoBrowserBundled'
  BY DEF Owned, NoBrowserBundled
<1>4. OnlyItsOwn'
  <2>1. SUFFICES ASSUME NEW d \in Configs, used' = {d}
                 PROVE  DOMAIN prefix \subseteq Produces(d) /\ DOMAIN libs \subseteq PackageFor(d)
    BY DEF OnlyItsOwn
  <2>2. CASE used = {}
    BY <2>2 DEF Owned
  <2>3. CASE used # {}
    <3>1. used = {d}
      BY <2>1, <2>3
    <3> QED
      BY <3>1 DEF OnlyItsOwn
  <2> QED
    BY <2>2, <2>3
<1>5. Collected'
  BY DEF Collected, Installed, Copied, Walks, Staged
<1>6. ExecutablesStaged' /\ DepsClosed' /\ Vendored' /\ Fixed'
  BY DEF ExecutablesStaged, DepsClosed, Vendored, Fixed, Walks, Staged
<1> QED
  BY <1>2, <1>3, <1>4, <1>5, <1>6

LEMMA InstallStep == ASSUME IInv, NEW f \in Files, InstallFile(f) PROVE IInv'
<1> USE DEF IInv, InstallFile
<1>1. /\ DOMAIN prefix' = DOMAIN prefix \cup {f}
      /\ prefix'[f] = cfg
      /\ \A g \in DOMAIN prefix \ {f} : prefix'[g] = prefix[g]
  BY DEF Put
<1>2. HostTypeOK'
  BY <1>1 DEF HostTypeOK
<1>3. Owned' /\ NoBrowserBundled'
  BY <1>1 DEF Owned, NoBrowserBundled
<1>4. OnlyItsOwn'
  BY <1>1 DEF Owned, OnlyItsOwn, Collected
<1>5. Collected'
  BY <1>1 DEF Collected, Installed, Copied, Walks, Staged
<1>6. ExecutablesStaged' /\ DepsClosed' /\ Vendored' /\ Fixed'
  BY DEF ExecutablesStaged, DepsClosed, Vendored, Fixed, Walks, Staged
<1> QED
  BY <1>2, <1>3, <1>4, <1>5, <1>6

LEMMA VerifyStep == ASSUME IInv, Verify PROVE IInv'
<1> USE DEF IInv, Verify
<1>1. HostTypeOK'
  BY Kinds DEF HostTypeOK, Found
<1>2. Owned' /\ OnlyItsOwn' /\ NoBrowserBundled'
  BY DEF Owned, OnlyItsOwn, NoBrowserBundled
<1>3. Collected'
  BY DEF Collected, Installed, Taken, Found, Copied, Walks, Staged
<1>4. ExecutablesStaged' /\ DepsClosed' /\ Vendored' /\ Fixed'
  BY DEF ExecutablesStaged, DepsClosed, Vendored, Fixed, Walks, Staged
<1> QED
  BY <1>1, <1>2, <1>3, <1>4

\* What the walks look for is found in the deps prefix.
LEMMA WantedOf ==
  ASSUME IInv, NEW f \in WalkWants, hostPc \in {"walk", "walk executables"}
  PROVE  /\ f \in {"codec", "util", "filter"} /\ f \notin DOMAIN libs
         /\ \A d \in Configs : used = {d} => f \in PackageFor(d)
<1>1. f \in InDeps(cfg) /\ f \notin DOMAIN libs
  BY DEF WalkWants
<1>2. f \in {"codec", "util", "filter"}
  BY <1>1, InDepsOf
<1>3. PICK g \in walked : f \in Needs(g, libs[g])
  BY DEF WalkWants
<1>4. g \in DOMAIN libs /\ g \in Files /\ libs[g] # Torn
  BY <1>3, NeedsOfTorn DEF IInv, HostTypeOK, ExecutablesStaged
<1>5. ASSUME NEW d \in Configs, used = {d} PROVE f \in PackageFor(d)
  <2>1. cfg = d /\ g \in PackageFor(d)
    BY <1>4, <1>5 DEF IInv, Owned, OnlyItsOwn
  <2>2. d.edition = "media"
    BY <1>1, <2>1, InDepsOf
  <2>3. f = "filter" => g = "tool"
    BY <1>3, <1>4, NeedsOf
  <2>4. g = "tool" => d.profile = "full"
    BY <2>1, PackageOf, ProducesOf, ShippedOf
  <2> QED
    BY <1>2, <2>2, <2>3, <2>4, PackageOf
<1> QED
  BY <1>1, <1>2, <1>5

\* No shared object needs the browser engine, only the helper does.
LEMMA SystemWantedOf ==
  ASSUME NEW f \in SystemWanted
  PROVE  f = "icu" /\ f \notin DOMAIN libs
<1>1. PICK g \in DOMAIN libs \cap SharedObjects : f \in Needs(g, libs[g]) \cap SystemLibs
  BY DEF SystemWanted
<1>2. libs[g] # Torn
  BY <1>1, NeedsOfTorn
<1>3. g # "helper"
  BY <1>1, Kinds
<1>4. f = "icu"
  <2>1. f \in Needs(g, libs[g]) /\ f \in {"icu", "webkit"}
    BY <1>1 DEF SystemLibs
  <2> QED
    BY <1>2, <1>3, <2>1, NeedsOf
<1> QED
  BY <1>4 DEF SystemWanted

\* A staged executable is one that this walk will look at.
LEMMA StagedOf ==
  ASSUME IInv, hostPc = "executables", NEW f \in pending
  PROVE  /\ f \in Staging /\ f \in {"proxy", "tool"} /\ Source(f) \in used
         /\ \A d \in Configs : used = {d} => f \in PackageFor(d)
<1>1. f \in Staging /\ cfg.profile = "full" /\ f \in {"proxy", "tool"}
  BY Kinds DEF IInv, ExecutablesStaged, Staging, DepsTools, Walks
<1>2. f = "proxy" => f \in DOMAIN prefix
  BY <1>1, Kinds DEF Staging, DepsTools
<1>3. f = "tool" => cfg.edition = "media"
  BY <1>1, Kinds DEF Staging, DepsTools
<1>4. Source(f) \in used
  BY <1>1, <1>2, Kinds DEF IInv, Owned, Source
<1>5. ASSUME NEW d \in Configs, used = {d} PROVE f \in PackageFor(d)
  <2>1. cfg = d
    BY <1>5 DEF IInv, Owned
  <2>2. f = "proxy" => f \in Shipped(d)
    BY <1>2, <1>5 DEF IInv, OnlyItsOwn, Shipped
  <2> QED
    BY <1>1, <1>3, <2>1, <2>2, PackageOf
<1> QED
  BY <1>1, <1>4, <1>5

LEMMA ArtifactOf ==
  ASSUME IInv, hostPc = "copy", NEW f \in pending
  PROVE  /\ f \in CoreLibs /\ prefix[Origin(f)] \in used
         /\ \A d \in Configs : used = {d} => f \in PackageFor(d)
<1>1. f \in Found /\ "freerdp" \in DOMAIN prefix
  BY ProducesOf DEF IInv, HostTypeOK, Collected, Installed
<1>2. f \in CoreLibs /\ Origin(f) \in DOMAIN prefix
  BY <1>1, Kinds DEF Found, Origin
<1>3. ASSUME NEW d \in Configs, used = {d} PROVE f \in PackageFor(d)
  <2>1. cfg = d
    BY <1>3 DEF IInv, Owned
  <2>2. f \in Shipped(d)
    BY <1>1, <1>3, <2>1, Kinds DEF IInv, OnlyItsOwn, Found, Shipped
  <2> QED
    BY <2>2, PackageOf
<1> QED
  BY <1>2, <1>3 DEF IInv, Owned

\* Whatever step copies a file, it may.
LEMMA CopyingOf ==
  ASSUME IInv, NEW f \in Files, Copying(f)
  PROVE  /\ f # "webkit" /\ hostPc # "idle" /\ cfg \in used
         /\ \A d \in Configs : used = {d} => f \in PackageFor(d)
<1>1. hostPc # "idle" /\ cfg \in used
  BY DEF Copying, IInv, Owned
<1>2. CASE hostPc = "copy" /\ f \in pending
  BY <1>1, <1>2, ArtifactOf, Kinds
<1>3. CASE hostPc = "executables" /\ f \in pending
  BY <1>1, <1>3, StagedOf
<1>4. CASE hostPc \in {"walk", "walk executables"} /\ f \in WalkWants
  BY <1>1, <1>4, WantedOf
<1>5. CASE hostPc = "vendor" /\ f \in SystemWanted
  <2>1. f = "icu"
    BY <1>5, SystemWantedOf
  <2> QED
    BY <1>1, <2>1, PackageOf
<1>6. CASE hostPc = "helpers" /\ f = Helper /\ Helper \in DOMAIN prefix
  <2>1. \A d \in Configs : used = {d} => f \in Shipped(d)
    BY <1>6 DEF IInv, OnlyItsOwn, Shipped
  <2> QED
    BY <1>1, <1>6, <2>1, PackageOf, Kinds
<1> QED
  BY <1>2, <1>3, <1>4, <1>5, <1>6 DEF Copying

\* What copying one file into _libs keeps, whichever step does it, and
\* whether or not the copy is whole.
LEMMA CopyFacts ==
  ASSUME IInv, NEW f \in Files, Copying(f), NEW c \in used \cup {Torn}, libs' = Put(libs, f, c),
         rpathSet' \subseteq rpathSet \cup {f}, UNCHANGED <<cfg, used, builds, prefix>>,
         hostPc' \in {hostPc, "load", "failed"}, pending' \cup walked' \subseteq Files
  PROVE  /\ HostTypeOK' /\ Owned' /\ OnlyItsOwn' /\ NoBrowserBundled'
         /\ DOMAIN libs' = DOMAIN libs \cup {f}
         /\ libs'[f] = c
         /\ \A g \in DOMAIN libs \ {f} : libs'[g] = libs[g]
<1>1. /\ DOMAIN libs' = DOMAIN libs \cup {f}
      /\ libs'[f] = c
      /\ \A g \in DOMAIN libs \ {f} : libs'[g] = libs[g]
  BY DEF Put
<1>2. /\ f # "webkit" /\ hostPc # "idle" /\ hostPc' # "idle" /\ cfg \in used
      /\ \A d \in Configs : used = {d} => f \in PackageFor(d)
  BY CopyingOf
<1>3. HostTypeOK'
  BY <1>1 DEF IInv, HostTypeOK
<1>4. Owned'
  BY <1>1, <1>2 DEF IInv, Owned
<1>5. OnlyItsOwn' /\ NoBrowserBundled'
  BY <1>1, <1>2 DEF IInv, OnlyItsOwn, NoBrowserBundled
<1> QED
  BY <1>1, <1>3, <1>4, <1>5

LEMMA CopyArtifactStep == ASSUME IInv, NEW f \in Files, CopyArtifact(f) PROVE IInv'
<1> USE DEF CopyArtifact, CopyFile
<1>1. f \in CoreLibs /\ prefix[Origin(f)] \in used
  BY ArtifactOf
<1>2. /\ HostTypeOK' /\ Owned' /\ OnlyItsOwn' /\ NoBrowserBundled'
      /\ DOMAIN libs' = DOMAIN libs \cup {f}
      /\ libs'[f] = prefix[Origin(f)]
      /\ \A g \in DOMAIN libs \ {f} : libs'[g] = libs[g]
  <2>1. Copying(f) /\ pending' \cup walked' \subseteq Files
    BY DEF Copying, IInv, HostTypeOK
  <2>2. libs' = Put(libs, f, prefix[Origin(f)])
    BY DEF Origin
  <2> QED
    BY <1>1, <2>1, <2>2, CopyFacts
<1>3. Collected'
  BY <1>2 DEF IInv, Collected, Installed, Taken, Found, Origin, Copied, Walks, Staged
<1>4. ExecutablesStaged' /\ DepsClosed' /\ Vendored' /\ Fixed'
  BY DEF ExecutablesStaged, DepsClosed, Vendored, Fixed, Walks, Staged
<1> QED
  BY <1>2, <1>3, <1>4 DEF IInv

\* What a later copy leaves of the earlier loops: none copies a library of
\* FreeRDP, and only staging copies an executable.
LEMMA LaterCopy ==
  ASSUME IInv, hostPc \in Copied, hostPc' \in Copied, NEW f, f \notin CoreLibs,
         UNCHANGED <<cfg, prefix>>, DOMAIN libs' = DOMAIN libs \cup {f},
         \A g \in DOMAIN libs \ {f} : libs'[g] = libs[g]
  PROVE  /\ Collected'
         /\ \A done : f \notin done /\ TakenOver(done) => TakenOver(done)'
<1>1. Found' = Found /\ f \notin Found
  BY Kinds DEF Found
<1>2. Collected'
  BY <1>1 DEF IInv, Collected, Installed, Taken, Origin, Copied, Walks, Staged
<1>3. ASSUME NEW done, f \notin done, TakenOver(done) PROVE TakenOver(done)'
  BY <1>3 DEF TakenOver, Source
<1> QED
  BY <1>2, <1>3

LEMMA WalkPackageStep == ASSUME IInv, WalkPackage PROVE IInv'
<1> USE DEF IInv, WalkPackage
<1>1. HostTypeOK' /\ Owned' /\ OnlyItsOwn' /\ NoBrowserBundled'
  BY DEF HostTypeOK, Owned, OnlyItsOwn, NoBrowserBundled
<1>2. Collected'
  BY DEF Collected, Installed, Taken, Found, Copied, Walks, Staged
<1>3. ExecutablesStaged' /\ DepsClosed' /\ Vendored' /\ Fixed'
  BY DEF ExecutablesStaged, DepsClosed, Vendored, Fixed, Walks, Staged
<1> QED
  BY <1>1, <1>2, <1>3

\* A walk copies what is needed and missing; what it copies it walks.
LEMMA BundleStep == ASSUME IInv, NEW f \in Files, Bundle(f) PROVE IInv'
<1> USE DEF Bundle, CopyFile
<1>1. f \in {"codec", "util", "filter"} /\ f \notin DOMAIN libs
  BY WantedOf
<1>2. cfg \in used /\ cfg # Torn
  BY ProducesOf DEF IInv, Owned, HostTypeOK
<1>3. /\ HostTypeOK' /\ Owned' /\ OnlyItsOwn' /\ NoBrowserBundled'
      /\ DOMAIN libs' = DOMAIN libs \cup {f}
      /\ libs'[f] = cfg
      /\ \A g \in DOMAIN libs \ {f} : libs'[g] = libs[g]
  <2>1. Copying(f) /\ pending' \cup walked' \subseteq Files
    BY DEF Copying, IInv, HostTypeOK
  <2> QED
    BY <1>2, <2>1, CopyFacts
<1>4. /\ Collected'
      /\ \A done : f \notin done /\ TakenOver(done) => TakenOver(done)'
  <2>1. hostPc \in Copied /\ hostPc' \in Copied /\ f \notin CoreLibs
    BY <1>1, Kinds DEF Copied, Walks
  <2> QED
    BY <1>3, <2>1, LaterCopy
<1>5. ExecutablesStaged'
  <2>1. f \notin Staging /\ Staging' = Staging
    BY <1>1, Kinds DEF Staging, DepsTools
  <2>2. TakenOver(Staging) => TakenOver(Staging)'
    BY <1>4, <2>1
  <2> QED
    BY <1>3, <2>1, <2>2 DEF IInv, ExecutablesStaged, Walks, Staged
<1>6. DepsClosed'
  BY <1>3 DEF IInv, DepsClosed, Closed, Walks, Staged
<1>7. Vendored'
  <2>1. Needs(f, cfg) \cap SystemLibs = {}
    <3>1. f \in {"codec", "util", "filter"} /\ cfg # Torn
      BY <1>1, <1>2
    <3> QED
      BY <3>1, DepsNeedUtil
  <2> QED
    BY <1>3, <2>1 DEF IInv, Vendored, Walks, Staged
<1>8. Fixed'
  BY <1>2, <1>3 DEF IInv, Fixed, Patchable, Walks, Staged
<1> QED
  BY <1>3, <1>4, <1>5, <1>6, <1>7, <1>8 DEF IInv

\* A walk is over when the needs of what it has walked are met.
LEMMA WalkIsClosed ==
  ASSUME WalkWants = {}, NEW f \in walked
  PROVE  Closed(f)
BY DEF WalkWants, Closed

LEMMA StartVendorStep == ASSUME IInv, StartVendor PROVE IInv'
<1> USE DEF IInv, StartVendor
<1>1. HostTypeOK' /\ Owned' /\ OnlyItsOwn' /\ NoBrowserBundled'
  BY DEF HostTypeOK, Owned, OnlyItsOwn, NoBrowserBundled
<1>2. Collected' /\ ExecutablesStaged'
  BY DEF Collected, Installed, Taken, Found, ExecutablesStaged, Copied, Walks, Staged
<1>3. \A f \in DOMAIN libs : Closed(f)
  BY WalkIsClosed DEF ExecutablesStaged
<1>4. DepsClosed' /\ Vendored' /\ Fixed'
  BY <1>3 DEF DepsClosed, Closed, Vendored, Fixed, Walks, Staged
<1> QED
  BY <1>1, <1>2, <1>4

LEMMA VendorStep == ASSUME IInv, NEW f \in Files, Vendor(f) PROVE IInv'
<1> USE DEF Vendor, CopyFile
<1>1. f = "icu" /\ f \notin DOMAIN libs
  BY SystemWantedOf
<1>2. cfg \in used /\ cfg # Torn
  BY ProducesOf DEF IInv, Owned, HostTypeOK
<1>3. /\ HostTypeOK' /\ Owned' /\ OnlyItsOwn' /\ NoBrowserBundled'
      /\ DOMAIN libs' = DOMAIN libs \cup {f}
      /\ libs'[f] = cfg
      /\ \A g \in DOMAIN libs \ {f} : libs'[g] = libs[g]
  <2>1. Copying(f) /\ pending' \cup walked' \subseteq Files
    BY DEF Copying, IInv, HostTypeOK
  <2> QED
    BY <1>2, <2>1, CopyFacts
<1>4. Collected'
  <2>1. hostPc \in Copied /\ hostPc' \in Copied /\ f \notin CoreLibs
    BY <1>1, Kinds DEF Copied
  <2> QED
    BY <1>3, <2>1, LaterCopy
<1>5. ExecutablesStaged'
  BY DEF ExecutablesStaged, Walks, Staged
<1>6. DepsClosed'
  <2>1. Needs(f, cfg) = {}
    BY <1>1, <1>2, NeedsOf
  <2> QED
    BY <1>3, <2>1 DEF IInv, DepsClosed, Closed, Walks, Staged
<1>7. Vendored' /\ Fixed'
  BY DEF Vendored, Fixed, Walks, Staged
<1> QED
  BY <1>3, <1>4, <1>5, <1>6, <1>7 DEF IInv

\* No shared object is left that needs a library of the machine.
LEMMA VendorIsClosed ==
  ASSUME SystemWanted = {}, NEW f \in DOMAIN libs \cap SharedObjects
  PROVE  Needs(f, libs[f]) \cap SystemLibs \subseteq DOMAIN libs
BY DEF SystemWanted

LEMMA FixRpathStep == ASSUME IInv, FixPackageRpath PROVE IInv'
<1> USE DEF IInv, FixPackageRpath
<1>1. Staging \subseteq Files
  BY Kinds DEF Staging, DepsTools
<1>2. HostTypeOK'
  BY <1>1 DEF HostTypeOK, Staging
<1>3. Owned' /\ OnlyItsOwn' /\ NoBrowserBundled'
  BY DEF Owned, OnlyItsOwn, NoBrowserBundled
<1>4. Collected'
  BY DEF Collected, Installed, Taken, Found, Copied, Walks, Staged
<1>5. ExecutablesStaged'
  BY DEF ExecutablesStaged, TakenOver, Staging, Walks, Staged
<1>6. DepsClosed'
  BY DEF DepsClosed, Closed, Walks, Staged
<1>7. Vendored'
  BY VendorIsClosed DEF Vendored
<1>8. Fixed'
  BY DEF Fixed, Patchable, Staged
<1> QED
  BY <1>2, <1>3, <1>4, <1>5, <1>6, <1>7, <1>8

LEMMA StageExecutableStep == ASSUME IInv, NEW f \in Files, StageExecutable(f) PROVE IInv'
<1> USE DEF StageExecutable, CopyFile
<1>1. f \in Staging /\ f \in {"proxy", "tool"} /\ Source(f) \in used
  BY StagedOf
<1>2. f \notin SharedObjects /\ f \notin CoreLibs
  BY <1>1, Kinds
<1>3. /\ HostTypeOK' /\ Owned' /\ OnlyItsOwn' /\ NoBrowserBundled'
      /\ DOMAIN libs' = DOMAIN libs \cup {f}
      /\ libs'[f] = Source(f)
      /\ \A g \in DOMAIN libs \ {f} : libs'[g] = libs[g]
  <2>1. Copying(f) /\ pending' \cup walked' \subseteq Files
    BY DEF Copying, IInv, HostTypeOK
  <2>2. libs' = Put(libs, f, Source(f))
    BY DEF Source
  <2> QED
    BY <1>1, <2>1, <2>2, CopyFacts
<1>4. /\ Collected'
      /\ \A done : f \notin done /\ TakenOver(done) => TakenOver(done)'
  <2>1. hostPc \in Copied /\ hostPc' \in Copied
    BY DEF Copied, Walks
  <2> QED
    BY <1>2, <1>3, <2>1, LaterCopy
<1>5. ExecutablesStaged'
  <2>1. TakenOver(Staging \ pending)
    BY DEF IInv, ExecutablesStaged
  <2>2. TakenOver((Staging \ pending) \ {f})
    BY <2>1 DEF TakenOver
  <2>3. TakenOver((Staging \ pending) \ {f})'
    BY <1>3, <2>2 DEF TakenOver, Source, Staging, DepsTools
  <2>4. TakenOver(Staging \ pending)'
    BY <1>3, <2>3 DEF TakenOver, Source
  <2>5. Staging' = Staging
    BY DEF Staging, DepsTools
  <2> QED
    BY <2>4, <2>5 DEF IInv, ExecutablesStaged, Walks, Staged
<1>6. DepsClosed'
  <2>1. f \in walked
    BY <1>1 DEF IInv, ExecutablesStaged
  <2> QED
    BY <1>3, <2>1 DEF IInv, DepsClosed, Closed, Walks, Staged
<1>7. Vendored'
  BY <1>2, <1>3 DEF IInv, Vendored, Walks, Staged
<1>8. Fixed'
  BY <1>2, <1>3 DEF IInv, Fixed, Patchable, Walks, Staged
<1> QED
  BY <1>3, <1>4, <1>5, <1>6, <1>7, <1>8 DEF IInv

LEMMA WalkExecutablesStep == ASSUME IInv, WalkExecutables PROVE IInv'
<1> USE DEF IInv, WalkExecutables
<1>1. TakenOver(Staging) /\ Staging = walked
  BY DEF ExecutablesStaged
<1>2. walked \subseteq DOMAIN libs
  BY <1>1 DEF TakenOver
<1>3. HostTypeOK' /\ Owned' /\ OnlyItsOwn' /\ NoBrowserBundled'
  BY <1>2 DEF HostTypeOK, Owned, OnlyItsOwn, NoBrowserBundled
<1>4. Collected'
  BY DEF Collected, Installed, Taken, Found, Copied, Walks, Staged
<1>5. ExecutablesStaged'
  BY <1>1, <1>2 DEF ExecutablesStaged, TakenOver, Source, Walks, Staged, Staging
<1>6. DepsClosed' /\ Vendored'
  BY DEF DepsClosed, Closed, Vendored, Walks, Staged
<1>7. Fixed'
  BY DEF Fixed, Patchable, Walks, Staged
<1> QED
  BY <1>3, <1>4, <1>5, <1>6, <1>7

\* The second walk has met the needs of all that the first had not seen.
LEMMA FixRpathAgainStep == ASSUME IInv, FixRpathAgain PROVE IInv'
<1> USE DEF IInv, FixRpathAgain
<1>1. HostTypeOK' /\ Owned' /\ OnlyItsOwn' /\ NoBrowserBundled'
  BY DEF HostTypeOK, Owned, OnlyItsOwn, NoBrowserBundled
<1>2. Collected'
  BY DEF Collected, Installed, Taken, Found, Copied, Walks, Staged
<1>3. ExecutablesStaged'
  BY DEF ExecutablesStaged, TakenOver, Source, Walks, Staged, Staging
<1>4. \A f \in DOMAIN libs : Closed(f)
  BY WalkIsClosed DEF DepsClosed, Walks
<1>5. DepsClosed' /\ Vendored'
  BY <1>4 DEF DepsClosed, Closed, Vendored, Walks, Staged
<1>6. Fixed'
  BY DEF Fixed, Patchable, Walks, Staged
<1> QED
  BY <1>1, <1>2, <1>3, <1>5, <1>6

\* The helper comes last: it needs nothing of the deps prefix, and what it
\* needs of the machine is nobody's concern any more.
LEMMA StageHelpersStep == ASSUME IInv, StageHelpers PROVE IInv'
<1> USE DEF StageHelpers
<1>1. CASE Helper \notin DOMAIN prefix
  <2>1. HostTypeOK' /\ Owned' /\ OnlyItsOwn' /\ NoBrowserBundled'
    BY <1>1 DEF IInv, HostTypeOK, Owned, OnlyItsOwn, NoBrowserBundled
  <2>2. Collected'
    BY <1>1 DEF IInv, Collected, Installed, Taken, Found, Copied, Walks, Staged
  <2>3. ExecutablesStaged'
    BY <1>1 DEF IInv, ExecutablesStaged, TakenOver, Source, Walks, Staged, Staging
  <2>4. DepsClosed' /\ Vendored' /\ Fixed'
    BY <1>1 DEF IInv, DepsClosed, Closed, Vendored, Fixed, Patchable, Walks, Staged
  <2> QED
    BY <2>1, <2>2, <2>3, <2>4 DEF IInv
<1>2. CASE Helper \in DOMAIN prefix
  <2>1. Copying(Helper) /\ Helper \in Files /\ prefix[Helper] \in used
    BY <1>2, Kinds DEF Copying, IInv, Owned
  <2>2. Helper \notin SharedObjects /\ Helper \notin CoreLibs
    BY Kinds
  <2>3. prefix[Helper] # Torn
    BY <1>2, ProducesOf DEF IInv, HostTypeOK
  <2>4. /\ HostTypeOK' /\ Owned' /\ OnlyItsOwn' /\ NoBrowserBundled'
        /\ DOMAIN libs' = DOMAIN libs \cup {Helper}
        /\ libs'[Helper] = prefix[Helper]
        /\ \A g \in DOMAIN libs \ {Helper} : libs'[g] = libs[g]
    <3>1. pending' \cup walked' \subseteq Files
      BY DEF IInv, HostTypeOK
    <3> QED
      BY <1>2, <2>1, <3>1, CopyFacts
  <2>5. /\ Collected'
        /\ \A done : Helper \notin done /\ TakenOver(done) => TakenOver(done)'
    <3>1. hostPc \in Copied /\ hostPc' \in Copied
      BY DEF Copied, Staged
    <3> QED
      BY <2>2, <2>4, <3>1, LaterCopy
  <2>6. ExecutablesStaged'
    <3>1. Helper \notin Staging /\ Staging' = Staging
      BY Kinds DEF Staging, DepsTools
    <3>2. TakenOver(Staging) => TakenOver(Staging)'
      BY <2>5, <3>1
    <3> QED
      BY <2>4, <3>1, <3>2 DEF IInv, ExecutablesStaged, Walks, Staged
  <2>7. DepsClosed'
    <3>1. Needs(Helper, prefix[Helper]) \cap InDeps(cfg) = {}
      <4>1. \A x \in Needs("helper", prefix[Helper]) : x \in {"freerdp", "webkit"}
        BY <2>3, NeedsOf
      <4>2. \A x \in InDeps(cfg) : x \in {"codec", "util", "filter"}
        BY InDepsOf
      <4> QED
        BY <4>1, <4>2 DEF Helper
    <3> QED
      BY <2>4, <3>1 DEF IInv, DepsClosed, Closed, Walks, Staged
  <2>8. Vendored'
    BY <2>2, <2>4 DEF IInv, Vendored, Walks, Staged
  <2>9. Fixed'
    BY <1>2, <2>2, <2>4 DEF IInv, Fixed, Patchable, Walks, Staged
  <2> QED
    BY <2>4, <2>5, <2>6, <2>7, <2>8, <2>9 DEF IInv
<1> QED
  BY <1>1, <1>2

LEMMA FinishStep == ASSUME IInv, FinishBuild PROVE IInv'
<1> USE DEF IInv, FinishBuild
<1>1. HostTypeOK' /\ Owned' /\ OnlyItsOwn' /\ NoBrowserBundled'
  BY DEF HostTypeOK, Owned, OnlyItsOwn, NoBrowserBundled
<1>2. Collected'
  BY DEF Collected, Installed, Taken, Found, Copied, Walks, Staged
<1>3. ExecutablesStaged'
  BY DEF ExecutablesStaged, TakenOver, Source, Walks, Staged, Staging
<1>4. DepsClosed' /\ Vendored' /\ Fixed'
  BY DEF DepsClosed, Closed, Vendored, Fixed, Patchable, Walks, Staged
<1> QED
  BY <1>1, <1>2, <1>3, <1>4

LEMMA FailStep == ASSUME IInv, FailBuild PROVE IInv'
<1> USE DEF IInv, FailBuild
<1>1. HostTypeOK' /\ Owned' /\ OnlyItsOwn' /\ NoBrowserBundled'
  BY DEF HostTypeOK, Owned, OnlyItsOwn, NoBrowserBundled, Building
<1>2. Collected' /\ ExecutablesStaged'
  BY DEF Collected, ExecutablesStaged, Copied, Walks, Staged
<1>3. DepsClosed' /\ Vendored' /\ Fixed'
  BY DEF DepsClosed, Vendored, Fixed, Walks, Staged
<1> QED
  BY <1>1, <1>2, <1>3

\* A torn copy leaves a torn file under the name that it would have had.
LEMMA TornCopyStep == ASSUME IInv, NEW f \in Files, TornCopy(f) PROVE IInv'
<1> USE DEF TornCopy, CopyFile
<1>1. HostTypeOK' /\ Owned' /\ OnlyItsOwn' /\ NoBrowserBundled'
  <2>1. pending' \cup walked' \subseteq Files
    BY DEF IInv, HostTypeOK
  <2> QED
    BY <2>1, CopyFacts
<1>2. Collected' /\ ExecutablesStaged'
  BY DEF Collected, ExecutablesStaged, Copied, Walks, Staged
<1>3. DepsClosed' /\ Vendored' /\ Fixed'
  BY DEF DepsClosed, Vendored, Fixed, Walks, Staged
<1> QED
  BY <1>1, <1>2, <1>3 DEF IInv

LEMMA StutterStep == ASSUME IInv, UNCHANGED hostVars PROVE IInv'
<1> USE DEF IInv, hostVars
<1>1. HostTypeOK' /\ Owned' /\ OnlyItsOwn' /\ NoBrowserBundled'
  BY DEF HostTypeOK, Owned, OnlyItsOwn, NoBrowserBundled
<1>2. Collected'
  BY DEF Collected, Installed, Taken, Found
<1>3. ExecutablesStaged'
  BY DEF ExecutablesStaged, TakenOver, Source, Staging
<1>4. DepsClosed' /\ Vendored' /\ Fixed'
  BY DEF DepsClosed, Closed, Vendored, Fixed, Patchable
<1> QED
  BY <1>1, <1>2, <1>3, <1>4

THEOREM NextInvariant == IInv /\ [HostNext]_hostVars => IInv'
<1> SUFFICES ASSUME IInv, [HostNext]_hostVars PROVE IInv'
  OBVIOUS
<1>1. CASE UNCHANGED hostVars
  BY <1>1, StutterStep
<1>2. ASSUME NEW c \in Configs, StartHost(c) PROVE IInv'
  BY <1>2, StartStep
<1>3. ASSUME NEW f \in Files, \/ InstallFile(f) \/ CopyArtifact(f) \/ Bundle(f) \/ Vendor(f)
                              \/ StageExecutable(f) \/ TornCopy(f)
      PROVE  IInv'
  BY <1>3, InstallStep, CopyArtifactStep, BundleStep, VendorStep, StageExecutableStep, TornCopyStep
<1>4. CASE Verify \/ WalkPackage \/ StartVendor \/ FixPackageRpath \/ WalkExecutables
  BY <1>4, VerifyStep, WalkPackageStep, StartVendorStep, FixRpathStep, WalkExecutablesStep
<1>5. CASE FixRpathAgain \/ StageHelpers \/ FinishBuild \/ FailBuild \/ Rest
  BY <1>5, FixRpathAgainStep, StageHelpersStep, FinishStep, FailStep, StutterStep DEF Rest
<1> QED
  BY <1>1, <1>2, <1>3, <1>4, <1>5 DEF HostNext

THEOREM Invariance == HostSpec => []IInv
BY InitInvariant, NextInvariant, PTL DEF HostSpec
-----------------------------------------------------------------------------
(* Every reachable state of the host flow has its types.                    *)
THEOREM TypeCorrect == HostSpec => []HostTypeOK
<1>1. IInv => HostTypeOK
  BY DEF IInv
<1> QED
  BY <1>1, Invariance, PTL

\* What this build has made is in the directory, and is this build's.
LEMMA NothingStale ==
  ASSUME IInv, hostPc = "done", NEW f \in Shipped(cfg)
  PROVE  f \in DOMAIN libs /\ libs[f] = cfg
<1>1. cfg \in Configs /\ Installed(Produces(cfg)) /\ Taken(Found)
  BY DEF IInv, HostTypeOK, Collected, Copied, Staged
<1>2. f \in {"freerdp", "freerdp dev", "shadow", "proxy", "module", "helper"}
  BY <1>1, ProducesOf, ShippedOf
<1>3. CASE f \in CoreLibs
  <2>1. f \in Found /\ Origin(f) \in Produces(cfg)
    BY <1>1, <1>3, ProducesOf, Kinds DEF Shipped, Found, Origin, Installed
  <2> QED
    BY <1>1, <2>1 DEF Taken, Installed
<1>4. CASE f = "proxy"
  <2>1. f \in Produces(cfg) /\ cfg.profile = "full"
    BY <1>1, <1>4, ProducesOf, Kinds DEF Shipped
  <2>2. TakenOver(Staging) /\ f \in Staging /\ prefix[f] = cfg
    BY <1>1, <1>4, <2>1, Kinds DEF IInv, ExecutablesStaged, Staged, Staging, Installed
  <2> QED
    BY <1>4, <2>2, Kinds DEF TakenOver, Source
<1>5. CASE f = "helper"
  <2>1. f \in Produces(cfg) /\ f = Helper
    BY <1>1, <1>5, Kinds DEF Shipped
  <2> QED
    BY <1>1, <2>1 DEF IInv, ExecutablesStaged, Installed
<1> QED
  BY <1>2, <1>3, <1>4, <1>5, Kinds

\* The invariant of a finished build with one configuration, read backwards.
LEMMA NothingMissing ==
  ASSUME IInv, hostPc = "done", used = {cfg}
  PROVE  DOMAIN libs = PackageFor(cfg) /\ \A f \in DOMAIN libs : libs[f] = cfg
<1>1. cfg \in Configs /\ cfg # Torn /\ \A f \in DOMAIN libs : libs[f] \in {cfg, Torn}
  BY ProducesOf DEF IInv, HostTypeOK, Owned
<1>2. DOMAIN libs \subseteq PackageFor(cfg)
  BY <1>1 DEF IInv, OnlyItsOwn
<1>3. \A f \in Shipped(cfg) : f \in DOMAIN libs /\ libs[f] = cfg
  BY NothingStale
<1>4. \A f \in DOMAIN libs \cap SharedObjects : libs[f] = cfg
  BY <1>1 DEF IInv, Fixed, Patchable, Staged
<1>5. ASSUME cfg.edition = "media", cfg.profile = "full"
      PROVE  "tool" \in DOMAIN libs /\ libs["tool"] = cfg
  <2>1. TakenOver(Staging) /\ "tool" \in Staging
    BY <1>5, Kinds DEF IInv, ExecutablesStaged, Staged, Staging, DepsTools
  <2> QED
    BY <2>1, Kinds DEF TakenOver, Source
<1>6. ASSUME NEW f \in DOMAIN libs PROVE libs[f] = cfg
  <2>1. f \in Shipped(cfg) \/ f \in SharedObjects
          \/ (f = "tool" /\ cfg.edition = "media" /\ cfg.profile = "full")
    BY <1>1, <1>2, PackageOf, Kinds
  <2> QED
    BY <1>3, <1>4, <1>5, <2>1
<1>7. "freerdp" \in DOMAIN libs
  BY <1>1, <1>3, ProducesOf, ShippedOf
<1>8. "icu" \in DOMAIN libs
  <2>1. "freerdp" \in DOMAIN libs \cap SharedObjects /\ libs["freerdp"] = cfg /\ "icu" \in SystemLibs
    BY <1>6, <1>7, Kinds
  <2>2. Needs("freerdp", libs["freerdp"]) \cap SystemLibs \subseteq DOMAIN libs
    BY <2>1 DEF IInv, Vendored, Staged
  <2>3. "icu" \in Needs("freerdp", libs["freerdp"])
    BY <1>1, <2>1, NeedsOf
  <2> QED
    BY <2>1, <2>2, <2>3
<1>9. \A f \in DOMAIN libs : Needs(f, cfg) \cap InDeps(cfg) \subseteq DOMAIN libs
  BY <1>6 DEF IInv, DepsClosed, Closed, Staged
<1>10. cfg.edition = "media" => {"codec", "util"} \subseteq DOMAIN libs
  <2>1. SUFFICES ASSUME cfg.edition = "media" PROVE {"codec", "util"} \subseteq DOMAIN libs
    OBVIOUS
  <2>2. {"codec", "util"} \subseteq InDeps(cfg)
    BY <2>1, InDepsOf
  <2>3. "codec" \in Needs("freerdp", cfg) /\ "util" \in Needs("codec", cfg)
    BY <1>1, <2>2, NeedsOf
  <2> QED
    BY <1>7, <1>9, <2>2, <2>3
<1>11. cfg.edition = "media" /\ cfg.profile = "full" => {"tool", "filter"} \subseteq DOMAIN libs
  <2>1. SUFFICES ASSUME cfg.edition = "media", cfg.profile = "full"
                 PROVE {"tool", "filter"} \subseteq DOMAIN libs
    OBVIOUS
  <2>2. "filter" \in Needs("tool", cfg) /\ "filter" \in InDeps(cfg)
    BY <1>1, <2>1, NeedsOf, InDepsOf
  <2> QED
    BY <1>5, <1>9, <2>1, <2>2
<1>12. PackageFor(cfg) \subseteq DOMAIN libs
  BY <1>1, <1>3, <1>8, <1>10, <1>11, PackageOf
<1> QED
  BY <1>2, <1>6, <1>12

(* Whatever killed or failed earlier builds of the same configuration, at any
   file, within its copy too, and any number of times, a build that finishes
   leaves the package of an undisturbed one, no file more and no file less,
   and every one whole.                                                     *)
THEOREM RetryCompletesHolds == HostSpec => []RetryCompletes
<1>1. IInv => RetryCompletes
  BY NothingMissing DEF RetryCompletes
<1> QED
  BY <1>1, Invariance, PTL

(* For every mixture of configurations built into the same directory, every
   shared object of a finished build is relocatable, and what it needs of
   FreeRDP itself, of the deps prefix and of the machine lies next to it.    *)
THEOREM RelocatableHolds == HostSpec => []Relocatable
<1>1. IInv => Relocatable
  <2> SUFFICES ASSUME IInv, hostPc = "done", NEW f \in DOMAIN libs \cap SharedObjects
               PROVE  /\ f \in rpathSet
                      /\ Needs(f, libs[f]) \cap ({"freerdp"} \cup InDeps(cfg) \cup SystemLibs)
                           \subseteq DOMAIN libs
    BY DEF Relocatable
  <2>1. cfg \in Configs
    BY DEF IInv, HostTypeOK
  <2>5. "freerdp" \in DOMAIN libs
    BY <2>1, NothingStale, ProducesOf, ShippedOf
  <2>2. f \in rpathSet
    BY DEF IInv, Fixed, Staged
  <2>3. Needs(f, libs[f]) \cap InDeps(cfg) \subseteq DOMAIN libs
    BY DEF IInv, DepsClosed, Closed, Staged
  <2>4. Needs(f, libs[f]) \cap SystemLibs \subseteq DOMAIN libs
    BY DEF IInv, Vendored, Staged
  <2> QED
    BY <2>2, <2>3, <2>4, <2>5
<1> QED
  BY <1>1, Invariance, PTL

(* Whatever lies in the prefix and in _libs when a build starts, what CMake
   has built is what a finished build ships under those names.              *)
THEOREM BuiltIsFreshHolds == HostSpec => []BuiltIsFresh
<1>1. IInv => BuiltIsFresh
  BY NothingStale DEF BuiltIsFresh
<1> QED
  BY <1>1, Invariance, PTL

(* No build ever copies the browser engine, although every later build finds
   the helper that needs it in the directory it walks.                      *)
THEOREM NoBrowserBundledHolds == HostSpec => []NoBrowserBundled
<1>1. IInv => NoBrowserBundled
  BY DEF IInv
<1> QED
  BY <1>1, Invariance, PTL
=============================================================================
