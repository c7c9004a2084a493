----------------------------- MODULE HostBuild -----------------------------
(***************************************************************************)
(* The host flow of scripts/build_freerdp.py:3623-3953 on Linux, run again   *)
(* and again: build and install FreeRDP into a prefix, collect the artifacts, *)
(* verify them, copy them into pyfreerdpnative/_libs, walk their dependencies, *)
(* vendor system libraries, make everything relocatable, stage the            *)
(* executables and the AAD helpers, and load the result.                     *)
(*                                                                         *)
(* The build directory is removed before every build.  The prefix (a fixed    *)
(* directory under the temporary directory) and _libs are not: both keep      *)
(* what earlier builds, finished or not, of this or another profile left.     *)
(*                                                                         *)
(* The files are one of each kind the flow tells apart.  A file's content is  *)
(* the configuration it was built with or copied under, or Torn when the      *)
(* copy was killed half way: shutil.copy2 writes under the final name.        *)
(***************************************************************************)
EXTENDS FiniteSets, Naturals

CONSTANTS
  Configs,      \* the configurations built, see Config
  Torn,         \* the content of a file whose copy broke off
  MaxBuilds     \* bound: the number of builds

\* libfreerdp3.so.3, whose unversioned link libfreerdp3.so becomes a file of
\* its own when it is copied; "module" is a proxy module, in a subdirectory.
DevLink     == "freerdp dev"
CoreLibs    == {"freerdp", DevLink, "shadow", "module"}    \* from <prefix>/lib
Executables == {"proxy"}                  \* installed to <prefix>/bin
Helper      == "helper"                   \* installed to <prefix>/libexec
DepsLibs    == {"codec", "util", "filter"}        \* <deps_prefix>/lib
DepsTool    == "tool"                     \* <deps_prefix>/bin
SystemLibs  == {"icu", "webkit"}          \* not in LINUX_BASELINE_LIBS

Files == CoreLibs \cup Executables \cup {Helper} \cup DepsLibs \cup {DepsTool} \cup SystemLibs
SharedObjects == CoreLibs \cup DepsLibs \cup SystemLibs

\* profile and edition as on the command line; what CMake disables in
\* silence because a dependency of it is missing; whether a browser engine for
\* the helper is found; --skip-verify.
Config == [profile : {"minimal", "full"}, edition : {"standard", "media"},
           dropped : SUBSET {"shadow", "proxy"}, engine : BOOLEAN, verify : BOOLEAN]

ASSUME ConfigsAssumption == Configs \subseteq Config /\ Torn \notin Configs
ASSUME MaxBuildsAssumption == MaxBuilds \in Nat

\* expected_libs, expected_executables and PROXY_MODULES (407-424, 2523-2548,
\* 2681-2704).
PromisedLibs(c) == IF c.profile = "full" THEN {"freerdp", "shadow"} ELSE {"freerdp"}
PromisedExes(c) == IF c.profile = "full" THEN {"proxy"} ELSE {}
PromisedModules(c) == IF c.profile = "full" THEN {"module"} ELSE {}
Promised(c) == PromisedLibs(c) \cup PromisedExes(c) \cup PromisedModules(c)

\* profile_options (353-404) and what the machine lacks.
Produces(c) ==
  (Promised(c) \ (c.dropped \cup IF "proxy" \in c.dropped THEN {"module"} ELSE {}))
    \cup IF c.profile = "full" /\ c.engine THEN {Helper} ELSE {}

\* soname_only (2655-2678), for every profile but full: the unversioned link
\* stays behind.
Shipped(c) == Produces(c) \cup IF c.profile = "full" THEN {DevLink} ELSE {}

\* The deps prefix of the edition (3861-3874 refuse any other).
InDeps(c) == IF c.edition = "media" THEN DepsLibs ELSE {}
DepsTools(c) == IF c.edition = "media" THEN {DepsTool} ELSE {}

\* The needs of a file built as c says; readelf and ldd reject a torn one.
Needs(f, c) ==
  IF c = Torn THEN {} ELSE
  CASE f \in {"freerdp", DevLink} -> {"icu"} \cup (InDeps(c) \cap {"codec"})
    [] f \in {"shadow", "proxy", "module"} -> {"freerdp"}
    [] f = Helper -> {"freerdp", "webkit"}
    [] f = DepsTool -> {"filter"}
    [] f \in {"codec", "filter"} -> {"util"}
    [] OTHER -> {}

VARIABLES
  cfg,        \* the configuration of the current or last build
  used,       \* the configurations of all builds so far
  builds,
  hostPc,
  pending,       \* files the current loop has still to handle
  prefix,     \* the install prefix: file |-> the configuration it was built with
  libs,       \* _libs: file |-> the configuration of its content
  walked,     \* the roots and the copies of the current dependency walk
  rpathSet   \* the files of _libs whose rpath has been set since they were copied

hostVars == <<cfg, used, builds, hostPc, pending, prefix, libs, walked, rpathSet>>

Put(dir, f, c) == [g \in DOMAIN dir \cup {f} |-> IF g = f THEN c ELSE dir[g]]
Empty == [f \in {} |-> {}]

Building == hostPc \notin {"idle", "done", "failed"}

HostInit ==
  /\ cfg \in Configs /\ used = {} /\ builds = 0
  /\ hostPc = "idle"
  /\ pending = {} /\ walked = {} /\ rpathSet = {}
  /\ prefix = Empty /\ libs = Empty

\* main() up to build_host, whose build directory is new; nothing else is
\* cleaned.  Configuring and compiling change nothing that is kept.
StartHost(c) ==
  /\ ~ Building /\ builds < MaxBuilds
  /\ builds' = builds + 1 /\ used' = used \cup {c} /\ cfg' = c
  /\ pending' = Produces(c)
  /\ hostPc' = "install"
  /\ UNCHANGED <<prefix, libs, walked, rpathSet>>

\* cmake --install, file by file.
InstallFile(f) ==
  /\ hostPc = "install" /\ f \in pending
  /\ prefix' = Put(prefix, f, cfg)
  /\ pending' = pending \ {f}
  /\ UNCHANGED <<cfg, used, builds, hostPc, libs, walked, rpathSet>>

\* What is copied to _libs.
Found ==
  (DOMAIN prefix \cap CoreLibs) \cup IF cfg.profile = "full" THEN {DevLink} ELSE {}

\* collect_host_artifacts and verify_artifacts (1924-2018): the libraries
\* found in the prefix must include what the profile promises.
Verify ==
  /\ hostPc = "install" /\ pending = {}
  /\ cfg.verify => PromisedLibs(cfg) \subseteq DOMAIN prefix
  /\ hostPc' = "copy"
  /\ pending' = Found
  /\ UNCHANGED <<cfg, used, builds, prefix, libs, walked, rpathSet>>

CopyFile(f, c) ==
  /\ libs' = Put(libs, f, c)
  /\ rpathSet' = rpathSet \ {f}

\* A mistake: a file that is already there is not copied again.
CopyArtifact_keeps(f) ==
  /\ hostPc = "copy" /\ f \in pending
  /\ IF f \in DOMAIN libs THEN UNCHANGED <<libs, rpathSet>>
     ELSE CopyFile(f, prefix[IF f = DevLink THEN "freerdp" ELSE f])
  /\ pending' = pending \ {f}
  /\ UNCHANGED <<cfg, used, builds, hostPc, prefix, walked>>

\* install_into_package, lines 2735-2748: a link is copied as what it names.
CopyArtifact(f) ==
  /\ hostPc = "copy" /\ f \in pending
  /\ CopyFile(f, prefix[IF f = DevLink THEN "freerdp" ELSE f])
  /\ pending' = pending \ {f}
  /\ UNCHANGED <<cfg, used, builds, hostPc, prefix, walked>>

\* A mistake: only what this build has copied is walked.
WalkPackage_new ==
  /\ hostPc = "copy" /\ pending = {}
  /\ hostPc' = "walk"
  /\ walked' = DOMAIN prefix \cap CoreLibs
  /\ UNCHANGED <<cfg, used, builds, pending, prefix, libs, rpathSet>>

\* Line 2773: bundle_unix_runtime_deps over everything in _libs.
WalkPackage ==
  /\ hostPc = "copy" /\ pending = {}
  /\ hostPc' = "walk"
  /\ walked' = DOMAIN libs
  /\ UNCHANGED <<cfg, used, builds, pending, prefix, libs, rpathSet>>

\* What a walk has still to copy (Bundle implements this, see Closure).
WalkWants == ((UNION {Needs(f, libs[f]) : f \in walked}) \cap InDeps(cfg)) \ DOMAIN libs

Bundle(f) ==
  /\ hostPc \in {"walk", "walk executables"} /\ f \in WalkWants
  /\ CopyFile(f, cfg)
  /\ walked' = walked \cup {f}
  /\ UNCHANGED <<cfg, used, builds, hostPc, pending, prefix>>

\* A mistake: executables are looked at too.
SystemWanted_executables ==
  ((UNION {Needs(f, libs[f]) : f \in DOMAIN libs}) \cap SystemLibs) \ DOMAIN libs

\* vendor_linux_system_libs (2129-2190): the system libraries that shared
\* objects need; ldd names them through any number of libraries, here there
\* is one.  Executables are not looked at.
SystemWanted ==
  ((UNION {Needs(f, libs[f]) : f \in DOMAIN libs \cap SharedObjects}) \cap SystemLibs)
    \ DOMAIN libs

StartVendor ==
  /\ hostPc = "walk" /\ WalkWants = {}
  /\ hostPc' = "vendor"
  /\ UNCHANGED <<cfg, used, builds, pending, prefix, libs, walked, rpathSet>>

Vendor(f) ==
  /\ hostPc = "vendor" /\ f \in SystemWanted
  /\ CopyFile(f, cfg)
  /\ UNCHANGED <<cfg, used, builds, hostPc, pending, prefix, walked>>

\* patchelf fails on a torn file, and the build with it.
Patchable == \A f \in DOMAIN libs \cap SharedObjects : libs[f] # Torn

\* _fix_rpath (2193-2230) over every shared object of _libs; then the
\* executables of both prefixes, if the profile has them (2565-2618).
FixPackageRpath ==
  /\ hostPc = "vendor" /\ SystemWanted = {} /\ Patchable
  /\ rpathSet' = rpathSet \cup (DOMAIN libs \cap SharedObjects)
  /\ \/ /\ cfg.profile = "full"
        /\ pending' = (DOMAIN prefix \cap Executables) \cup DepsTools(cfg)
        /\ walked' = pending'
        /\ hostPc' = "executables"
     \/ /\ cfg.profile # "full"
        /\ hostPc' = "helpers"
        /\ UNCHANGED <<pending, walked>>
  /\ UNCHANGED <<cfg, used, builds, prefix, libs>>

StageExecutable(f) ==
  /\ hostPc = "executables" /\ f \in pending
  /\ CopyFile(f, IF f \in Executables THEN prefix[f] ELSE cfg)
  /\ pending' = pending \ {f}
  /\ UNCHANGED <<cfg, used, builds, hostPc, prefix, walked>>

\* Lines 2602-2606: $ORIGIN for the executables that were staged.
WalkExecutables ==
  /\ hostPc = "executables" /\ pending = {}
  /\ rpathSet' = rpathSet \cup walked
  /\ hostPc' = "walk executables"
  /\ UNCHANGED <<cfg, used, builds, pending, prefix, libs, walked>>

\* A mistake: what the second walk copied keeps the rpath it came with.
FixRpathAgain_skipped ==
  /\ hostPc = "walk executables" /\ WalkWants = {}
  /\ UNCHANGED rpathSet
  /\ cfg.verify => PromisedExes(cfg) \cup PromisedModules(cfg) \subseteq DOMAIN libs
  /\ hostPc' = "helpers"
  /\ UNCHANGED <<cfg, used, builds, pending, prefix, libs, walked>>

\* Line 2622, verify_executables and verify_proxy_modules (3934-3940).
FixRpathAgain ==
  /\ hostPc = "walk executables" /\ WalkWants = {} /\ Patchable
  /\ rpathSet' = rpathSet \cup (DOMAIN libs \cap SharedObjects)
  /\ cfg.verify => PromisedExes(cfg) \cup PromisedModules(cfg) \subseteq DOMAIN libs
  /\ hostPc' = "helpers"
  /\ UNCHANGED <<cfg, used, builds, pending, prefix, libs, walked>>

\* stage_aad_helpers([prefix], out) (544-583): last, and without a walk.
StageHelpers ==
  /\ hostPc = "helpers"
  /\ \/ /\ Helper \in DOMAIN prefix
        /\ libs' = Put(libs, Helper, prefix[Helper])
        /\ rpathSet' = rpathSet \cup {Helper}
     \/ /\ Helper \notin DOMAIN prefix
        /\ UNCHANGED <<libs, rpathSet>>
  /\ hostPc' = "load"
  /\ UNCHANGED <<cfg, used, builds, pending, prefix, walked>>

\* The file in which find_library (_loader.py:66-83) and verify_loadable find
\* libfreerdp3: the shortest name, which is the first in order too.
Opened == IF DevLink \in DOMAIN libs THEN DevLink ELSE "freerdp"

\* Opening it from the directory alone.
Loads ==
  /\ Opened \in DOMAIN libs
  /\ \A f \in {Opened} \cup Needs(Opened, libs[Opened]) :
       /\ f \in DOMAIN libs \cap rpathSet
       /\ Needs(f, libs[f]) \subseteq DOMAIN libs

\* What verify_media_linked looks at is the first libfreerdp3 of the listing,
\* which has no order.
MediaLinked ==
  \E f \in {"freerdp", DevLink} \cap DOMAIN libs :
    InDeps(cfg) \cap {"codec"} \subseteq Needs(f, libs[f])

\* verify_loadable and verify_media_linked (2233-2273, 3308-3345).
FinishBuild ==
  /\ hostPc = "load"
  /\ cfg.verify => Loads /\ MediaLinked
  /\ hostPc' = "done"
  /\ UNCHANGED <<cfg, used, builds, pending, prefix, libs, walked, rpathSet>>

\* A step that raises (a command that fails, a verification that does not
\* hold), or a build that is interrupted.
FailBuild ==
  /\ Building
  /\ hostPc' = "failed"
  /\ pending' = {}
  /\ UNCHANGED <<cfg, used, builds, prefix, libs, walked, rpathSet>>

\* The steps that copy f next.
Copying(f) ==
  \/ hostPc \in {"copy", "executables"} /\ f \in pending
  \/ hostPc \in {"walk", "walk executables"} /\ f \in WalkWants
  \/ hostPc = "vendor" /\ f \in SystemWanted
  \/ hostPc = "helpers" /\ f = Helper /\ Helper \in DOMAIN prefix

\* The build is killed, or the disk is full, within such a copy.
TornCopy(f) ==
  /\ Copying(f)
  /\ CopyFile(f, Torn)
  /\ hostPc' = "failed"
  /\ pending' = {}
  /\ UNCHANGED <<cfg, used, builds, prefix, walked>>

\* The bound is reached.
Rest == ~ Building /\ builds = MaxBuilds /\ UNCHANGED hostVars

HostNext ==
  \/ \E c \in Configs : StartHost(c)
  \/ \E f \in Files : \/ InstallFile(f) \/ CopyArtifact(f) \/ Bundle(f) \/ Vendor(f)
                      \/ StageExecutable(f) \/ TornCopy(f)
  \/ Verify \/ WalkPackage \/ StartVendor \/ FixPackageRpath \/ WalkExecutables
  \/ FixRpathAgain \/ StageHelpers \/ FinishBuild \/ FailBuild \/ Rest

HostSpec == HostInit /\ [][HostNext]_hostVars
-----------------------------------------------------------------------------
HostTypeOK ==
  /\ cfg \in Configs /\ used \subseteq Configs /\ builds \in 0 .. MaxBuilds
  /\ hostPc \in {"idle", "install", "copy", "walk", "vendor", "executables",
             "walk executables", "helpers", "load", "done", "failed"}
  /\ pending \cup walked \subseteq Files /\ rpathSet \subseteq DOMAIN libs
  /\ DOMAIN prefix \subseteq Files /\ \A f \in DOMAIN prefix : prefix[f] \in Configs
  /\ DOMAIN libs \subseteq Files /\ \A f \in DOMAIN libs : libs[f] \in Configs \cup {Torn}

\* What one build of c leaves in an empty directory.
PackageFor(c) ==
  LET made  == Shipped(c) \cup (IF c.profile = "full" THEN DepsTools(c) ELSE {})
      inner == made \cup ((UNION {Needs(f, c) : f \in made}) \cap InDeps(c))
      deps  == inner \cup ((UNION {Needs(f, c) : f \in inner}) \cap InDeps(c))
  IN deps \cup ((UNION {Needs(f, c) : f \in deps \cap SharedObjects}) \cap SystemLibs)

(***************************************************************************)
(* A build that was interrupted or failed at any step, within a copy too,    *)
(* can be run again: as long as only one configuration has been built, a     *)
(* build that returns leaves exactly the package that an undisturbed one     *)
(* leaves, every file of it whole.                                          *)
(***************************************************************************)
RetryCompletes ==
  hostPc = "done" /\ used = {cfg} =>
    DOMAIN libs = PackageFor(cfg) /\ \A f \in DOMAIN libs : libs[f] = cfg

(***************************************************************************)
(* Whatever builds ran before, a build that returns leaves every shared      *)
(* object of the directory relocatable, those it only found there included,  *)
(* and next to it what FreeRDP, the deps prefix of this build and the        *)
(* machine have of its needs; the loader (_loader.py) opens them all.        *)
(***************************************************************************)
Relocatable ==
  hostPc = "done" => \A f \in DOMAIN libs \cap SharedObjects :
    /\ f \in rpathSet
    /\ Needs(f, libs[f]) \cap ({"freerdp"} \cup InDeps(cfg) \cup SystemLibs) \subseteq DOMAIN libs

(***************************************************************************)
(* Although neither the prefix nor _libs is cleaned, what this build has     *)
(* made is what it ships: no library, module, executable or helper that      *)
(* CMake built is an older build's, whatever was there and however it got    *)
(* there.                                                                   *)
(***************************************************************************)
BuiltIsFresh ==
  hostPc = "done" => \A f \in Shipped(cfg) : f \in DOMAIN libs /\ libs[f] = cfg

(***************************************************************************)
(* Line 3941, "after every dependency walk, so no browser engine is          *)
(* bundled": not in this build, and not in the next one, whose walks find the *)
(* helper already in the directory.                                         *)
(***************************************************************************)
NoBrowserBundled == "webkit" \notin DOMAIN libs

=============================================================================
