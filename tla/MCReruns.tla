------------------------------ MODULE MCReruns ------------------------------
(***************************************************************************)
(* The four scripts' flows that are run again over what earlier runs left:    *)
(* build_deps.py over its prefix and cache, a host build over its install     *)
(* prefix and _libs, the renaming of sonames over the staged directory of an  *)
(* Android build, and package_wheels.py over dist.  They have no state in     *)
(* common, so this instance is their sum and not their product: "flow" says   *)
(* which one a behaviour is about, and the others stay where they begin.      *)
(***************************************************************************)
EXTENDS DepsPrefix, MCHostBuild, MCSonameRewrite, MCWheels

VARIABLE flow

rerunsVars == <<flow, depsVars, hostVars, sonameVars, vars>>

\* The state in which a flow waits that the behaviour is not about.
DepsRest   == DepsInit /\ edition = "media" /\ system = {}
HostRest   == HostInit /\ cfg = Full
SonameRest == SonameInit /\ graph = [l \in Libs |-> {}]
WheelsRest == Init /\ entries = <<>>

RerunsInit ==
  \/ flow = "deps"    /\ DepsInit /\ HostRest /\ SonameRest /\ WheelsRest
  \/ flow = "host"    /\ DepsRest /\ HostInit /\ SonameRest /\ WheelsRest
  \/ flow = "sonames" /\ DepsRest /\ HostRest /\ SonameInit /\ WheelsRest
  \/ flow = "wheels"  /\ DepsRest /\ HostRest /\ SonameRest /\ Init

RerunsNext ==
  \/ flow = "deps"    /\ DepsNext   /\ UNCHANGED <<flow, hostVars, sonameVars, vars>>
  \/ flow = "host"    /\ HostNext   /\ UNCHANGED <<flow, depsVars, sonameVars, vars>>
  \/ flow = "sonames" /\ SonameNext /\ UNCHANGED <<flow, depsVars, hostVars, vars>>
  \/ flow = "wheels"  /\ Next       /\ UNCHANGED <<flow, depsVars, hostVars, sonameVars>>

RerunsSpec == RerunsInit /\ [][RerunsNext]_rerunsVars
=============================================================================
