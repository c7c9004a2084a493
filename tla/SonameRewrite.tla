---------------------------- MODULE SonameRewrite ----------------------------
(***************************************************************************)
(* uniquify_sonames() of scripts/build_freerdp.py:3001-3054 and the staging  *)
(* that precedes it on Android.                                             *)
(*                                                                         *)
(* A directory holds FreeRDP's own libraries and vendored ones.  A run gives *)
(* every vendored library a second name (libcrypto.so becomes                *)
(* libcrypto-pyfrdp.so, file and DT_SONAME) and rewrites the DT_NEEDED       *)
(* entries of every library.  The directory is changed in place, one         *)
(* os.rename or patchelf at a time, and the mapping of old to new names      *)
(* lives in the process only: a run that is interrupted leaves whatever it   *)
(* had done, and the build directory is not cleaned before the next one.     *)
(***************************************************************************)
EXTENDS Naturals, FiniteSets

CONSTANTS
  LibCount,   \* the libraries are numbered in the order of their names
  Own,        \* those with a prefix of OWN_LIB_PREFIXES
  Graphs,     \* the possible dependencies: functions from Libs to SUBSET Libs
  Stagings,   \* the sets of libraries that one staging copies
  MaxRewrites     \* bound: how often uniquify_sonames is called

Libs == 1 .. LibCount

ASSUME LibCountAssumption == LibCount \in Nat
ASSUME OwnAssumption == Own \subseteq Libs
ASSUME GraphsAssumption == Graphs \subseteq [Libs -> SUBSET Libs]
ASSUME StagingsAssumption == Stagings \subseteq SUBSET Libs
ASSUME MaxRewritesAssumption == MaxRewrites \in Nat

\* A name is a library and the number of times SONAME_SUFFIX is in it.
Standard(l) == <<l, 0>>
Unique(l)   == <<l, 1>>
Suffixed(n) == <<n[1], n[2] + 1>>

VARIABLES
  graph,    \* the dependencies the libraries were linked with
  files,    \* the directory: name of a file |-> its DT_SONAME and DT_NEEDED
  whole,    \* everything has been staged and no run was interrupted since
  sonamePc,       \* the step of uniquify_sonames
  mapping,  \* the names to replace (each by its Suffixed name)
  unvisited,     \* names the current loop has still to visit
  needed,   \* DT_NEEDED of the file being rewritten, as read from it
  outcome,  \* how the last run ended, since the last staging
  rewriteRuns

sonameVars == <<graph, files, whole, sonamePc, mapping, unvisited, needed, outcome, rewriteRuns>>

Fresh(l) == [soname |-> Standard(l), needs |-> {Standard(d) : d \in graph[l]}]

\* sorted(): "-pyfrdp.so" comes before ".so".
SortsBefore(m, n) == m[1] < n[1] \/ (m[1] = n[1] /\ m[2] > n[2])
First(names) == CHOOSE m \in names : \A n \in names \ {m} : SortsBefore(m, n)

SonameInit ==
  /\ graph \in Graphs
  /\ files = [n \in {} |-> Fresh(n[1])]
  /\ whole = FALSE
  /\ sonamePc = "idle"
  /\ mapping = {} /\ unvisited = {} /\ needed = {}
  /\ outcome = "none"
  /\ rewriteRuns = 0

\* build_android() and the copy of OpenSSL after it: the target directory is
\* neither cleaned nor are its files compared, copies simply replace them.
Stage(S) ==
  /\ sonamePc = "idle"
  /\ files' = [n \in DOMAIN files \cup {Standard(l) : l \in S} |->
                 IF n \in {Standard(l) : l \in S} THEN Fresh(n[1]) ELSE files[n]]
  /\ whole' = (S = Libs)
  /\ outcome' = "none"
  /\ UNCHANGED <<graph, sonamePc, mapping, unvisited, needed, rewriteRuns>>

\* A mistake: names that already carry the suffix are not skipped.
Renamable_again(n) == n[1] \notin Own

\* Lines 3023-3026: the vendored libraries that still have their own name.
Renamable(n) == n[1] \notin Own /\ n[2] = 0

\* Lines 3020-3029.
StartRewrite ==
  /\ sonamePc = "idle" /\ rewriteRuns < MaxRewrites
  /\ rewriteRuns' = rewriteRuns + 1
  /\ mapping' = {n \in DOMAIN files : Renamable(n)}
  /\ unvisited' = mapping'
  /\ \/ mapping' = {} /\ sonamePc' = "idle" /\ outcome' = "returned"
     \/ mapping' # {} /\ sonamePc' = "rename" /\ outcome' = "none"
  /\ UNCHANGED <<graph, files, whole, needed>>

\* Line 3032: os.rename, which replaces a file that has the new name.
Rename ==
  /\ sonamePc = "rename" /\ unvisited # {}
  /\ LET old == First(unvisited)
     IN files' = [n \in (DOMAIN files \ {old}) \cup {Suffixed(old)} |->
                    IF n = Suffixed(old) THEN files[old] ELSE files[n]]
  /\ sonamePc' = "soname"
  /\ UNCHANGED <<graph, whole, mapping, unvisited, needed, outcome, rewriteRuns>>

\* A mistake: the file gets its new name but keeps its DT_SONAME.
SetSoname_kept ==
  /\ sonamePc = "soname"
  /\ unvisited' = unvisited \ {First(unvisited)}
  /\ sonamePc' = "rename"
  /\ UNCHANGED <<graph, files, whole, mapping, needed, outcome, rewriteRuns>>

\* Line 3033.
SetSoname ==
  /\ sonamePc = "soname"
  /\ LET new == Suffixed(First(unvisited))
     IN files' = [files EXCEPT ![new].soname = new]
  /\ unvisited' = unvisited \ {First(unvisited)}
  /\ sonamePc' = "rename"
  /\ UNCHANGED <<graph, whole, mapping, needed, outcome, rewriteRuns>>

\* A mistake: the loop goes over the names listed before the renames.
ListAgain_stale ==
  /\ sonamePc = "rename" /\ unvisited = {}
  /\ unvisited' = DOMAIN files \ {Suffixed(n) : n \in mapping}
  /\ sonamePc' = "read"
  /\ UNCHANGED <<graph, files, whole, mapping, needed, outcome, rewriteRuns>>

\* Line 3035: the names are listed again, after the renames.
ListAgain ==
  /\ sonamePc = "rename" /\ unvisited = {}
  /\ unvisited' = DOMAIN files
  /\ sonamePc' = "read"
  /\ UNCHANGED <<graph, files, whole, mapping, needed, outcome, rewriteRuns>>

\* Lines 3039-3042: the entries of one file, read once.
ReadNeeded ==
  /\ sonamePc = "read" /\ unvisited # {}
  /\ needed' = files[First(unvisited)].needs \cap mapping
  /\ sonamePc' = "replace"
  /\ UNCHANGED <<graph, files, whole, mapping, unvisited, outcome, rewriteRuns>>

\* Line 3043, in the order of the mapping.
ReplaceNeeded ==
  /\ sonamePc = "replace" /\ needed # {}
  /\ LET old == First(needed)
     IN /\ files' = [files EXCEPT ![First(unvisited)].needs = (@ \ {old}) \cup {Suffixed(old)}]
        /\ needed' = needed \ {old}
  /\ UNCHANGED <<graph, whole, sonamePc, mapping, unvisited, outcome, rewriteRuns>>

NextFile ==
  /\ sonamePc = "replace" /\ needed = {}
  /\ unvisited' = unvisited \ {First(unvisited)}
  /\ sonamePc' = "read"
  /\ UNCHANGED <<graph, files, whole, mapping, needed, outcome, rewriteRuns>>

\* Lines 3044-3052: the check for entries that still name a renamed library.
Leftovers == {n \in DOMAIN files : files[n].needs \cap mapping # {}}

FinishRewrite ==
  /\ sonamePc = "read" /\ unvisited = {} /\ Leftovers = {}
  /\ sonamePc' = "idle" /\ outcome' = "returned"
  /\ mapping' = {}
  /\ UNCHANGED <<graph, files, whole, unvisited, needed, rewriteRuns>>

\* A patchelf that fails (run() raises), the SystemExit of lines 3051-3052
\* when there are Leftovers, or a killed process.
FailRewrite ==
  /\ sonamePc # "idle"
  /\ sonamePc' = "idle" /\ outcome' = "failed"
  /\ whole' = FALSE
  /\ mapping' = {} /\ unvisited' = {} /\ needed' = {}
  /\ UNCHANGED <<graph, files, rewriteRuns>>

SonameNext ==
  \/ \E S \in Stagings : Stage(S)
  \/ StartRewrite \/ Rename \/ SetSoname \/ ListAgain \/ ReadNeeded \/ ReplaceNeeded \/ NextFile
  \/ FinishRewrite \/ FailRewrite

SonameSpec == SonameInit /\ [][SonameNext]_sonameVars
-----------------------------------------------------------------------------
Names == Libs \X (0 .. 1)

SonameTypeOK ==
  /\ graph \in Graphs
  /\ DOMAIN files \subseteq Names
  /\ \A n \in DOMAIN files : files[n].soname \in Names /\ files[n].needs \subseteq Names
  /\ whole \in BOOLEAN
  /\ sonamePc \in {"idle", "rename", "soname", "read", "replace"}
  /\ outcome \in {"none", "returned", "failed"}
  /\ mapping \cup unvisited \cup needed \subseteq Names
  /\ rewriteRuns \in 0 .. MaxRewrites

\* Every vendored library has its unique name and no other, every file has the
\* DT_SONAME Android will look for, and every DT_NEEDED entry names a file.
Uniquified ==
  /\ \A n \in DOMAIN files : (n[1] \notin Own => n = Unique(n[1])) /\ files[n].soname = n
  /\ \A n \in DOMAIN files : files[n].needs \subseteq DOMAIN files

(***************************************************************************)
(* After everything has been staged, a run that returns leaves a directory  *)
(* in which nothing collides and nothing dangles, whatever interrupted runs *)
(* and partial stagings had left in it before.                              *)
(***************************************************************************)
RunUniquifies == outcome = "returned" /\ whole => Uniquified

(***************************************************************************)
(* The check of lines 3044-3052 never fires: when every file has been        *)
(* visited no entry names a renamed library, even in files that were renamed *)
(* in the same run.                                                         *)
(***************************************************************************)
NothingLeftOver == sonamePc = "read" /\ unvisited = {} => Leftovers = {}

(***************************************************************************)
(* A run over a directory that is already converted changes nothing in it,  *)
(* not even for a moment: the suffix is never added twice.                   *)
(***************************************************************************)
ConvertedOnce == [][Uniquified /\ sonamePc # "idle" => files' = files]_sonameVars
=============================================================================
