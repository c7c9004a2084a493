------------------------------- MODULE Bundle -------------------------------
(***************************************************************************)
(* The dependency walks of a host build: bundle_unix_runtime_deps and        *)
(* bundle_windows_runtime_deps (scripts/build_freerdp.py:2359-2520), as      *)
(* install_into_package (2727-2779) calls one over everything in _libs and   *)
(* stage_executables (2565-2633) calls it again with roots=staged.           *)
(*                                                                         *)
(* The two functions are one work list with different rules.  "elf" skips    *)
(* files whose headers cannot be read, and a name without a file in the      *)
(* library directories is not remembered.  "pe" never copies a name with a   *)
(* system prefix, remembers every name, and refuses a DLL of another         *)
(* machine.  The order in which the list is worked off makes no difference   *)
(* to the result and is left open.                                          *)
(***************************************************************************)
EXTENDS FiniteSets

CONSTANTS
  Names,       \* the base names of files (lower case on Windows)
  SystemDlls,  \* those that begin with one of _WIN_SYSTEM_DLL_PREFIXES
  Worlds       \* the possible surroundings of a build, see World below

\* What a build finds: the needs of every file, the names in the library
\* directories of the deps prefix, the allowed names in extra_libdirs (unix
\* only, first walk only), the files of another machine (Windows only), the
\* executables to stage, and the files already in _libs.
World == [format : {"elf", "pe"}, needs : [Names -> SUBSET Names],
          prefix : SUBSET Names, extra : SUBSET Names, foreign : SUBSET Names,
          exes : SUBSET Names, staged : SUBSET Names]

ASSUME WorldsAssumption ==
  /\ Worlds \subseteq World
  /\ \A w \in Worlds : /\ w.format = "pe" => w.extra = {}
                       /\ w.format = "elf" => w.foreign = {}

VARIABLES
  world,
  pc,          \* "install" and "executables" walk; "done"; "failed"
  package,     \* the files of _libs
  roots,       \* the files the walk began with
  queue, seen, copied,
  deps         \* the names of the current file that are still to be looked at

vars == <<world, pc, package, roots, queue, seen, copied, deps>>

Walking == pc \in {"install", "executables"}

\* `available` of the two walks; what "pe" skips by prefix is not available.
Available(walk) ==
  (world.prefix \cup IF walk = "install" THEN world.extra ELSE {})
    \ (IF world.format = "pe" THEN SystemDlls ELSE {})

\* install_into_package has copied the artifacts next to whatever earlier
\* builds left in the directory.
Init ==
  /\ world \in Worlds
  /\ pc = "install"
  /\ package = world.staged
  /\ roots = package /\ queue = package /\ seen = package
  /\ copied = {} /\ deps = {}

\* queue.pop(), and the needs of the file read from its headers; a file that
\* readelf or otool rejects has none.
Pop(f) ==
  /\ Walking /\ deps = {}
  /\ f \in queue
  /\ queue' = queue \ {f}
  /\ deps' = world.needs[f]
  /\ UNCHANGED <<world, pc, package, roots, seen, copied>>

\* Lines 2394-2401 ("pe") and 2489-2490 ("elf"): nothing to copy.
Skip(d) ==
  /\ Walking /\ d \in deps
  /\ d \in seen \/ d \notin Available(pc)
  /\ deps' = deps \ {d}
  /\ seen' = IF world.format = "pe" /\ d \notin SystemDlls THEN seen \cup {d} ELSE seen
  /\ UNCHANGED <<world, pc, package, roots, queue, copied>>

\* A mistake: names are not remembered.
CopyIn_unseen(d) ==
  /\ Walking /\ d \in deps
  /\ d \in Available(pc) /\ d \notin world.foreign
  /\ UNCHANGED seen
  /\ package' = package \cup {d}
  /\ copied' = copied \cup {d}
  /\ queue' = queue \cup {d}
  /\ deps' = deps \ {d}
  /\ UNCHANGED <<world, pc, roots>>

\* A mistake: a copied library is not itself looked at.
CopyIn_shallow(d) ==
  /\ Walking /\ d \in deps
  /\ d \notin seen /\ d \in Available(pc) /\ d \notin world.foreign
  /\ seen' = seen \cup {d}
  /\ package' = package \cup {d}
  /\ copied' = copied \cup {d}
  /\ deps' = deps \ {d}
  /\ UNCHANGED <<world, pc, roots, queue>>

\* Lines 2407-2409 and 2491-2496.
CopyIn(d) ==
  /\ Walking /\ d \in deps
  /\ d \notin seen /\ d \in Available(pc) /\ d \notin world.foreign
  /\ seen' = seen \cup {d}
  /\ package' = package \cup {d}
  /\ copied' = copied \cup {d}
  /\ queue' = queue \cup {d}
  /\ deps' = deps \ {d}
  /\ UNCHANGED <<world, pc, roots>>

\* Lines 2402-2405: a SystemExit, with the package as it is; the next build
\* finds it half filled (world.staged).
Refuse(d) ==
  /\ Walking /\ d \in deps
  /\ d \notin seen /\ d \in Available(pc) /\ d \in world.foreign
  /\ pc' = "failed"
  /\ UNCHANGED <<world, package, roots, queue, seen, copied, deps>>

\* A header that pe_imports cannot parse, or a copy that raises.
Stop ==
  /\ Walking /\ queue \cup deps # {}
  /\ pc' = "failed"
  /\ UNCHANGED <<world, package, roots, queue, seen, copied, deps>>

\* A mistake: the second walk has seen only its roots, and copies over files
\* of the package.
StageExecutables_unseen ==
  /\ pc = "install" /\ queue \cup deps = {} /\ world.exes # {}
  /\ pc' = "executables"
  /\ package' = package \cup world.exes
  /\ roots' = world.exes
  /\ queue' = world.exes
  /\ seen' = world.exes
  /\ copied' = {}
  /\ UNCHANGED <<world, deps>>

\* A mistake: the list of executables is appended to the queue as one element.
StageExecutables_append ==
  /\ pc = "install" /\ queue \cup deps = {} /\ world.exes # {}
  /\ pc' = "executables"
  /\ package' = package \cup world.exes
  /\ roots' = world.exes
  /\ queue' = {world.exes}
  /\ seen' = package'
  /\ copied' = {}
  /\ UNCHANGED <<world, deps>>

\* The walk over everything returns and the executables are staged.
StageExecutables ==
  /\ pc = "install" /\ queue \cup deps = {} /\ world.exes # {}
  /\ pc' = "executables"
  /\ package' = package \cup world.exes
  /\ roots' = world.exes
  /\ queue' = world.exes
  /\ seen' = package'
  /\ copied' = {}
  /\ UNCHANGED <<world, deps>>

Finish ==
  /\ queue \cup deps = {}
  /\ pc = "executables" \/ (pc = "install" /\ world.exes = {})
  /\ pc' = "done"
  /\ UNCHANGED <<world, package, roots, queue, seen, copied, deps>>

Done == pc \in {"done", "failed"} /\ UNCHANGED vars

Step ==
  \/ \E f \in Names : Pop(f) \/ Skip(f) \/ CopyIn(f) \/ Refuse(f)
  \/ StageExecutables
  \/ Finish

Next == Step \/ Stop \/ Done

Spec == Init /\ [][Next]_vars /\ WF_vars(Step)
-----------------------------------------------------------------------------
TypeOK ==
  /\ world \in World
  /\ pc \in {"install", "executables", "done", "failed"}
  /\ package \cup roots \cup queue \cup seen \cup copied \cup deps \subseteq Names

(***************************************************************************)
(* The docstring, "so the directory is loadable as-is": when the build has   *)
(* walked its package, everything that a file of the package needs and the   *)
(* deps prefix has is in the package, also for what earlier builds left      *)
(* there (half filled if they were refused or stopped), for what the walks   *)
(* copied, and for the executables that came after the first walk.           *)
(***************************************************************************)
PackageClosed ==
  pc = "done" =>
    \A f \in package : world.needs[f] \cap Available("executables") \subseteq package

(***************************************************************************)
(* The package is only ever extended by what one of its files needs and a    *)
(* library directory has, and a walk returns only when it is through.        *)
(***************************************************************************)
Abstract == INSTANCE Closure WITH
  needs  <- world.needs,
  libs   <- [walk \in {"install", "executables"} |-> Available(walk)],
  phase  <- pc,
  walked <- roots \cup copied

ImplementsClosure == Abstract!Spec

(***************************************************************************)
(* The walks end, whatever cycles there are among the libraries.             *)
(***************************************************************************)
WalksEnd == <>(pc \in {"done", "failed"})
=============================================================================
