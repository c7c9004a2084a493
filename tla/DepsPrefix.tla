----------------------------- MODULE DepsPrefix -----------------------------
(***************************************************************************)
(* scripts/build_deps.py on a Linux host, run again and again over the same  *)
(* download cache and the same prefix, and what build_freerdp.py makes of    *)
(* that prefix.  A run may be killed, or one of its commands may fail, at     *)
(* any moment; nothing is cleaned up then, and the next run starts from what  *)
(* is there.  Components are installed file by file, in an order that is      *)
(* theirs, so the prefix may hold a part of one.                              *)
(***************************************************************************)
EXTENDS Naturals

CONSTANTS
  MaxTries    \* bound: the number of runs of build_deps.py

ASSUME MaxTriesAssumption == MaxTries \in Nat

Components == {"libusb", "openh264", "ffmpeg"}

\* "avutil" stands for the libraries of FFmpeg that no check of either script
\* looks at: avutil, swresample and avformat.
PartsOf == [libusb |-> {"usb"}, openh264 |-> {"h264"}, ffmpeg |-> {"avcodec", "swscale", "avutil"}]
Parts == UNION {PartsOf[c] : c \in Components}

Wanted(edition) ==
  CASE edition = "ffmpeg"   -> {"libusb", "ffmpeg"}
    [] edition = "openh264" -> {"libusb", "openh264"}
    [] edition = "media"    -> Components

VARIABLES
  edition,    \* of the prefix: its label ends in it
  system,     \* what of FFmpeg the machine has outside the prefix
  tries,
  phase,
  only,       \* the components of this run
  unbuilt,    \* those whose builder has not returned
  fresh,      \* the files the current builder has installed
  archive,    \* the download cache: component |-> "absent", "good" or "bad"
  parts,      \* files of the prefix
  wrapper,    \* the FFmpeg of the prefix was configured with libopenh264
  relocated,  \* files of the prefix whose rpath is set
  manifest,   \* the components DEPS-MANIFEST.txt lists, {} before it is written
  completed,  \* a whole run has ended
  freerdp     \* the last configure of FreeRDP and the prefix it saw

depsVars == <<edition, system, tries, phase, only, unbuilt, fresh, archive, parts, wrapper,
          relocated, manifest, completed, freerdp>>

Running == phase \in {"fetch", "install", "rpaths", "manifest"}

DepsInit ==
  /\ edition \in {"ffmpeg", "openh264", "media"}
  /\ system \in {{}, {"swscale"}, {"avcodec", "swscale"}}
  /\ tries = 0 /\ phase = "idle" /\ only = {} /\ unbuilt = {} /\ fresh = {}
  /\ archive = [c \in Components |-> "absent"]
  /\ parts = {} /\ wrapper = FALSE /\ relocated = {} /\ manifest = {}
  /\ completed = FALSE /\ freerdp = [state |-> "none", parts |-> {}]

-----------------------------------------------------------------------------
(* build_deps.py.                                                          *)

\* main: --only leaves out components, and cannot add one to the edition.
StartBuild(asked) ==
  /\ ~Running /\ tries < MaxTries
  /\ tries' = tries + 1
  /\ only' = asked \cap Wanted(edition)
  /\ unbuilt' = only'
  /\ phase' = IF only' = {} THEN "rpaths" ELSE "fetch"
  /\ UNCHANGED <<edition, system, fresh, archive, parts, wrapper, relocated, manifest,
                 completed, freerdp>>

\* The order of the builders in main; ffmpeg links openh264.
Current == IF "libusb" \in unbuilt THEN "libusb"
           ELSE IF "openh264" \in unbuilt THEN "openh264" ELSE "ffmpeg"

\* download: a file that is in the cache is not looked at.  A new one gets its
\* name when it is complete, or when the connection ended early.
Download ==
  /\ phase = "fetch" /\ archive[Current] = "absent"
  /\ \E got \in {"good", "bad"} : archive' = [archive EXCEPT ![Current] = got]
  /\ UNCHANGED <<edition, system, tries, phase, only, unbuilt, fresh, parts, wrapper, relocated,
                 manifest, completed, freerdp>>

\* The rest of fetch_source: the hash of every version is pinned, a mismatch
\* ends the run, and the sources are extracted anew.
Unpack ==
  /\ phase = "fetch" /\ archive[Current] # "absent"
  /\ phase' = IF archive[Current] = "good" THEN "install" ELSE "failed"
  /\ fresh' = {}
  /\ UNCHANGED <<edition, system, tries, only, unbuilt, archive, parts, wrapper, relocated,
                 manifest, completed, freerdp>>

\* A mistake: a builder begins with removing what an earlier one installed.
Install_clean(p) ==
  /\ phase = "install" /\ p \in PartsOf[Current] \ fresh
  /\ fresh' = fresh \cup {p}
  /\ parts' = (IF fresh = {} THEN parts \ PartsOf[Current] ELSE parts) \cup {p}
  /\ relocated' = (relocated \ {p}) \cap parts'
  /\ wrapper' = IF p = "avcodec" THEN "openh264" \in only ELSE wrapper
  /\ UNCHANGED <<edition, system, tries, phase, only, unbuilt, archive, manifest, completed,
                 freerdp>>

\* make install of the component, a file at a time; a new file has no rpath.
\* FFmpeg is configured for libopenh264 if this run builds that too.
Install(p) ==
  /\ phase = "install" /\ p \in PartsOf[Current] \ fresh
  /\ fresh' = fresh \cup {p}
  /\ parts' = parts \cup {p}
  /\ relocated' = relocated \ {p}
  /\ wrapper' = IF p = "avcodec" THEN "openh264" \in only ELSE wrapper
  /\ UNCHANGED <<edition, system, tries, phase, only, unbuilt, archive, manifest, completed,
                 freerdp>>

\* A mistake: a component is taken for built when one of its files is there.
Built_mistake ==
  /\ phase = "install" /\ PartsOf[Current] \cap parts # {}
  /\ unbuilt' = unbuilt \ {Current}
  /\ phase' = IF unbuilt' = {} THEN "rpaths" ELSE "fetch"
  /\ UNCHANGED <<edition, system, tries, only, fresh, archive, parts, wrapper, relocated,
                 manifest, completed, freerdp>>

\* The builder returns.
Built ==
  /\ phase = "install" /\ fresh = PartsOf[Current]
  /\ unbuilt' = unbuilt \ {Current}
  /\ phase' = IF unbuilt' = {} THEN "rpaths" ELSE "fetch"
  /\ UNCHANGED <<edition, system, tries, only, fresh, archive, parts, wrapper, relocated,
                 manifest, completed, freerdp>>

\* fix_prefix_rpaths goes through every file of the prefix, older ones too,
\* and fails when there is no lib directory.
FixRpath(p) ==
  /\ phase = "rpaths" /\ p \in parts \ relocated
  /\ relocated' = relocated \cup {p}
  /\ UNCHANGED <<edition, system, tries, phase, only, unbuilt, fresh, archive, parts, wrapper,
                 manifest, completed, freerdp>>

FixDone ==
  /\ phase = "rpaths" /\ parts \subseteq relocated
  /\ phase' = IF parts = {} THEN "failed" ELSE "manifest"
  /\ UNCHANGED <<edition, system, tries, only, unbuilt, fresh, archive, parts, wrapper, relocated,
                 manifest, completed, freerdp>>

WriteManifest ==
  /\ phase = "manifest"
  /\ manifest' = only
  /\ completed' = (completed \/ only = Wanted(edition))
  /\ phase' = "done"
  /\ UNCHANGED <<edition, system, tries, only, unbuilt, fresh, archive, parts, wrapper, relocated,
                 freerdp>>

\* The run is killed, or a download, a build command or patchelf fails.
Interrupt ==
  /\ Running
  /\ phase' = "failed"
  /\ UNCHANGED <<edition, system, tries, only, unbuilt, fresh, archive, parts, wrapper, relocated,
                 manifest, completed, freerdp>>

-----------------------------------------------------------------------------
(* build_freerdp.py with --deps-prefix auto and the edition of the prefix.  *)

\* deps_has: a pkg-config file, or any file of lib with the name.
HasFfmpeg == "avcodec" \in parts
HasOpenh264 == "h264" \in parts

\* The check of main (3867-3874).
Accepted ==
  /\ HasFfmpeg = (edition \in {"ffmpeg", "media"})
  /\ HasOpenh264 = (edition \in {"openh264", "media"})

\* media_options asks CMake for what deps_has saw, CMake finds libraries in
\* the prefix and on the machine, and verify_media_cache reads what it found.
CacheComplete == HasFfmpeg => {"avcodec", "swscale"} \subseteq parts \cup system

Configure ==
  /\ ~Running /\ tries > 0
  /\ freerdp' = [state |-> IF ~Accepted THEN "refused"
                           ELSE IF CacheComplete THEN "configured" ELSE "failed",
                 parts |-> parts]
  /\ UNCHANGED <<edition, system, tries, phase, only, unbuilt, fresh, archive, parts, wrapper,
                 relocated, manifest, completed>>

DepsNext ==
  \/ \E asked \in {Components} \cup {{c} : c \in Components} : StartBuild(asked)
  \/ Download \/ Unpack \/ Built \/ FixDone \/ WriteManifest \/ Interrupt
  \/ \E p \in Parts : Install(p) \/ FixRpath(p)
  \/ Configure

DepsSpec == DepsInit /\ [][DepsNext]_depsVars

-----------------------------------------------------------------------------
DepsTypeOK ==
  /\ edition \in {"ffmpeg", "openh264", "media"} /\ system \subseteq Parts
  /\ tries \in 0..MaxTries
  /\ phase \in {"idle", "fetch", "install", "rpaths", "manifest", "done", "failed"}
  /\ only \subseteq Wanted(edition) /\ unbuilt \subseteq only
  /\ archive \in [Components -> {"absent", "good", "bad"}]
  /\ fresh \subseteq Parts /\ relocated \subseteq parts /\ parts \subseteq Parts
  /\ wrapper \in BOOLEAN /\ manifest \subseteq Components
  /\ completed \in BOOLEAN
  /\ freerdp.state \in {"none", "refused", "failed", "configured"}

\* Running build_deps.py again is the way out of every interruption: a run of
\* all components that ends leaves a prefix FreeRDP accepts, complete,
\* relocatable, with the FFmpeg of its edition and a manifest that says so,
\* whatever killed, failed or --only runs left there before.
RerunCompletes ==
  phase = "done" /\ only = Wanted(edition) =>
    /\ parts = UNION {PartsOf[c] : c \in Wanted(edition)}
    /\ relocated = parts
    /\ "avcodec" \in parts => (wrapper <=> edition = "media")
    /\ manifest = Wanted(edition)
    /\ Accepted /\ CacheComplete

\* Builders install over what is there and delete nothing.  So once a whole run
\* has ended, the prefix of the edition is accepted, and whatever runs are
\* killed, fail or build a part of it later, FreeRDP is configured against all
\* of it.  Before that, a prefix with one file of each library in question is
\* accepted too (3867-3874).
StaysComplete ==
  [][completed /\ freerdp' # freerdp =>
       /\ freerdp'.state = "configured"
       /\ UNION {PartsOf[c] : c \in Wanted(edition)} \subseteq freerdp'.parts]_depsVars
=============================================================================
