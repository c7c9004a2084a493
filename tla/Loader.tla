------------------------------- MODULE Loader -------------------------------
(***************************************************************************)
(* FreeRDP.__init__ and attribute access of pyfreerdpnative/_loader.py:     *)
(* find the libraries, order the whole directory (LoadOrder, whose          *)
(* variables and actions are used as they are), preload it,                 *)
(* and bind the prototypes of functions.py to the libraries that were       *)
(* found, in a fixed order.                                                 *)
(*                                                                         *)
(* The dynamic linker is not part of the repository.  It is modelled from   *)
(* what the comments and code of _loader.py rely on: every linker satisfies *)
(* a dependency that is already mapped under its soname; an rpath           *)
(* ($ORIGIN, @loader_path, add_dll_directory) also finds siblings by file   *)
(* name, Android's never does; dlsym on a handle also searches the          *)
(* dependencies of its library.                                             *)
(***************************************************************************)
EXTENDS LoadOrder, FiniteSets

CONSTANTS
  Real,        \* Real[f]: os.path.realpath(f), itself a member of Files
  Libraries,   \* LIBRARIES: the required stems, in bind order
  Optional,    \* OPTIONAL: stems bound if present, after the required ones
  NoFile,      \* find_library found nothing
  Functions,   \* names a caller may ask for
  Prototypes,  \* the keys of PROTOTYPES
  Worlds       \* the directories and hosts to consider: records of
               \*   platform  "rpath", "android" or "windows"
               \*   isdir     the directory exists
               \*   found     stem -> what find_library returns
               \*   soname    file -> its real DT_SONAME, or NoName
               \*   needed    file -> its real DT_NEEDED entries
               \*   readable  the files that _elf_dynamic can parse
               \*   broken    the files the linker rejects by themselves
               \*   system    the names the system provides
               \*   exports   real file -> the Functions it defines
               \*   kernel32  what kernel32 exports (Windows)
               \*   strict    the argument of the constructor

VARIABLES
  world,       \* the directory, host and arguments of this run; never changes
  pc,          \* where the constructor is
  at,          \* index of the loop the constructor is in
  mapped,      \* files the linker has mapped into the process
  preloaded,   \* keys of `preloaded`: real files dlopen gave a handle for
  diagnosis,   \* what _explain said: the path, and the unmet names
  libs,        \* keys of self.libs, in insertion order
  lookup,      \* self._lookup: function name -> stem, as a set of pairs
  typed,       \* <<stem, name>>: prototypes attached to a library's function
  cache,       \* keys of _win32_cache
  served       \* the last attribute access: <<name, provider>>

loaderVars == <<vars, world, pc, at, mapped, preloaded, diagnosis, libs,
                lookup, typed, cache, served>>

\* What _elf_dynamic returns: nothing for a file it cannot parse.
Parsed(w) ==
  [f \in Files |->
     IF f \in w.readable THEN [soname |-> w.soname[f], needed |-> w.needed[f]]
                         ELSE [soname |-> NoName, needed |-> << >>]]

ParsedInfos == {Parsed(w) : w \in Worlds}

ASSUME ParsedAssumption == Infos = ParsedInfos

\* f and everything it leads to by edges, in as many rounds as there are files.
LeadsTo(edges, f) ==
  LET after[n \in 0 .. Cardinality(Files)] ==
        IF n = 0 THEN {f}
        ELSE LET before == after[n - 1] IN before \cup UNION {edges[g] : g \in before}
  IN  after[Cardinality(Files)]

-----------------------------------------------------------------------------
(* What is taken for granted of a directory and of its libraries.           *)

ASSUME FilesAssumption ==
  /\ IsFiniteSet(Files) /\ NoFile \notin Files
  /\ Real \in [Files -> Files] /\ \A f \in Files : Real[Real[f]] = Real[f]

ASSUME StemsAssumption ==
  /\ Libraries \in Seq(STRING) /\ Optional \in Seq(STRING)
  /\ {"kernel32", "AttributeError"} \cap Elements(Libraries \o Optional) = {}
  /\ LET stems == Libraries \o Optional
     IN  \A i, j \in DOMAIN stems : stems[i] = stems[j] => i = j

World ==
  [platform : {"rpath", "android", "windows"}, isdir : BOOLEAN,
   found : [Elements(Libraries \o Optional) -> Files \cup {NoFile}],
   soname : [Files -> Names \cup {NoName}], needed : [Files -> Seq(Names)],
   readable : SUBSET Files, broken : SUBSET Files, system : SUBSET Names,
   exports : [Files -> SUBSET Functions], kernel32 : SUBSET Functions, strict : BOOLEAN]

ASSUME WorldsAssumption == Worlds \subseteq World

\* The names by which another file may ask for f, and the files that f asks
\* for, whatever the linker makes of the names.
AskedAs(w, f) == {IF w.soname[f] = NoName THEN Base[f] ELSE w.soname[f], Base[f]}
Asks(w) ==
  [f \in Files |-> {g \in Files : AskedAs(w, g) \cap Elements(w.needed[f]) # {}}]

\* A link is the file it points to, no two files answer to one name, and the
\* directory holds nothing the system has under that name.
ASSUME NamesAssumption ==
  \A w \in Worlds : \A f \in Files :
    /\ w.soname[f] = w.soname[Real[f]] /\ w.needed[f] = w.needed[Real[f]]
    /\ f \in w.broken <=> Real[f] \in w.broken
    /\ AskedAs(w, f) \cap w.system = {}
    /\ \A g \in Files : AskedAs(w, f) \cap AskedAs(w, g) # {} => Real[f] = Real[g]

\* The layers of the FreeRDP libraries.
Layer == [other |-> 0, winpr |-> 1, freerdp |-> 2, upper |-> 3]

\* No file needs itself in the end.  Where _elf_dynamic reads nothing, the
\* files of a directory ask for lower layers only, or are known by their file
\* names, which is all that an rpath wants.
ASSUME LayersAssumption ==
  \A w \in Worlds : LET asks == Asks(w) IN
    /\ \A S \in SUBSET Files : S # {} => \E f \in S : asks[f] \cap S = {}
    /\ \/ w.readable = Files
       \/ w.readable = {} /\ \A f \in Files : \A g \in asks[f] : Layer[Kind[g]] < Layer[Kind[f]]
       \/ w.platform # "android" /\ \A f \in Files : AskedAs(w, f) = {Base[f]}

\* Of stems that are links to one file, `wanted` keeps the last.  What exports
\* prototypes and is asked for by a library so kept, directly or not, is the
\* library of a stem that is kept and listed no later.
ASSUME ExportsAssumption ==
  \A w \in Worlds : (\A stem \in Elements(Libraries) : w.found[stem] # NoFile) =>
    LET asks == Asks(w)
        stems == Libraries \o Optional
        path(i) == w.found[stems[i]]
        kept(i) == path(i) # NoFile /\ \A j \in DOMAIN stems :
                     i < j /\ path(j) # NoFile => Real[path(j)] # Real[path(i)]
    IN  \A i \in DOMAIN stems : kept(i) =>
          \A g \in LeadsTo(asks, Real[path(i)]) :
            w.exports[Real[g]] \cap Prototypes # {} =>
              \E j \in 1 .. i : kept(j) /\ Real[path(j)] = Real[g]

-----------------------------------------------------------------------------
\* A mistake: the extras are bound first.
Stems_extrasFirst == Optional \o Libraries

Stems == Libraries \o Optional

\* The real path of what find_library found, and the keys of `wanted`.
FoundFile(stem) ==
  IF world.found[stem] = NoFile THEN NoFile ELSE Real[world.found[stem]]
Wanted == {FoundFile(stem) : stem \in Elements(Stems)} \ {NoFile}

\* by_stem: `wanted` inverted.  A later stem has taken a file over.
WantedFile(stem) ==
  IF \E i, j \in DOMAIN Stems :
       i < j /\ Stems[i] = stem /\ FoundFile(Stems[j]) = FoundFile(stem)
  THEN NoFile ELSE FoundFile(stem)
-----------------------------------------------------------------------------
\* The dynamic linker.
LinkName(f) == IF world.soname[f] = NoName THEN Base[f] ELSE world.soname[f]
Needs(f) == Elements(world.needed[f])

MetBy(name, files) == name \in world.system \/ \E g \in files : LinkName(g) = name

\* The siblings an rpath finds for f, by file name.
Siblings == [f \in Files |-> {g \in Files : Base[g] \in Needs(f)}]

\* f and all siblings it needs, directly or not: what dlopen(f) maps.
MapsWith(f) == LeadsTo(Siblings, f)

\* dlopen with an rpath: f and its siblings are sound and miss nothing.
OpensByRpath(f) ==
  \A g \in MapsWith(f) :
    /\ g \notin world.broken
    /\ \A name \in Needs(g) : MetBy(name, mapped) \/ \E h \in Siblings[g] : Base[h] = name

\* dlopen where only what is mapped already counts.
OpensBySoname(f) ==
  f \notin world.broken /\ \A name \in Needs(f) : MetBy(name, mapped)

Opens(f) == \/ Real[f] \in preloaded
            \/ world.platform = "android" /\ OpensBySoname(f)
            \/ world.platform # "android" /\ OpensByRpath(f)

Maps(f) == IF world.platform = "android" THEN {f} ELSE MapsWith(f)

\* The functions dlsym finds through the handle of f.  GetProcAddress, on
\* Windows, looks at f alone.
Resolved ==
  [f \in Files |->
     {g \in mapped : /\ world.platform # "windows"
                     /\ LinkName(g) \in Needs(f) \/ Base[g] \in Needs(f)}]
Visible(f) ==
  UNION {world.exports[Real[g]] : g \in LeadsTo(Resolved, f)}
-----------------------------------------------------------------------------
LoaderInit ==
  /\ world \in Worlds
  /\ info = Parsed(world)
  /\ Init
  /\ pc = "find"
  /\ at = 1
  /\ mapped = {}
  /\ preloaded = {}
  /\ diagnosis = << >>
  /\ libs = << >>
  /\ lookup = {}
  /\ typed = {}
  /\ cache = {}
  /\ served = << >>

\* Lines 232-260: the directory and every required library must be there.
FindLibraries ==
  /\ pc = "find"
  /\ pc' = IF /\ world.isdir
              /\ \A stem \in Elements(Libraries) : world.found[stem] # NoFile
           THEN "order" ELSE "raised"
  /\ UNCHANGED <<vars, world, at, mapped, preloaded, diagnosis,
                 libs, lookup, typed, cache, served>>

\* Line 274: the call of _load_order runs to its end.
ComputeOrder ==
  /\ pc = "order"
  /\ \/ Next /\ pc' = pc
     \/ Finished /\ pc' = "preload" /\ UNCHANGED vars
  /\ UNCHANGED <<world, at, mapped, preloaded, diagnosis, libs,
                 lookup, typed, cache, served>>

\* A mistake: a library is known by its file name only.
Explain_fileNames(path) ==
  [path |-> path, unmet |-> Elements(info[path].needed) \ {Base[f] : f \in Files}]

\* _explain: the needed names that no file of the directory answers to.
Explain(path) ==
  LET present == UNION {Keys(f) : f \in Files}
  IN  [path |-> path, unmet |-> Elements(info[path].needed) \ present]

\* A mistake: a library that does not open is tried again.
Preload_retries ==
  /\ pc = "preload"
  /\ at <= Len(ordered)
  /\ Opens(ordered[at])
  /\ mapped' = mapped \cup Maps(ordered[at])
  /\ preloaded' = preloaded \cup {Real[ordered[at]]}
  /\ at' = at + 1
  /\ UNCHANGED <<vars, world, pc, diagnosis, libs, lookup, typed, cache, served>>

\* Lines 277-283: one turn of the preload loop.
Preload ==
  /\ pc = "preload"
  /\ at <= Len(ordered)
  /\ LET path == ordered[at]
     IN  \/ /\ Opens(path)
            /\ mapped' = mapped \cup Maps(path)
            /\ preloaded' = preloaded \cup {Real[path]}
            /\ at' = at + 1
            /\ UNCHANGED <<pc, diagnosis>>
         \/ /\ ~ Opens(path)
            /\ Real[path] \in Wanted
            /\ pc' = "raised"
            /\ diagnosis' = Explain(path)
            /\ UNCHANGED <<at, mapped, preloaded>>
         \/ /\ ~ Opens(path)
            /\ Real[path] \notin Wanted
            /\ at' = at + 1
            /\ UNCHANGED <<pc, diagnosis, mapped, preloaded>>
  /\ UNCHANGED <<vars, world, libs, lookup, typed, cache, served>>

PreloadDone ==
  /\ pc = "preload"
  /\ at > Len(ordered)
  /\ pc' = "bind"
  /\ at' = 1
  /\ UNCHANGED <<vars, world, mapped, preloaded, diagnosis, libs,
                 lookup, typed, cache, served>>

Claimed == {pair[1] : pair \in lookup}

\* Lines 290-301: one turn of the bind loop.  bind() types what the handle
\* shows; setdefault keeps a name for the stem that had it first.  A strict
\* bind raises at the first name that is missing: what it typed until then is
\* lost with the object, and typed says too much there.
Bind ==
  /\ pc = "bind"
  /\ at <= Len(Stems)
  /\ LET stem == Stems[at]
         path == WantedFile(stem)
         bound == Prototypes \cap Visible(path)
     IN  \/ /\ path \notin preloaded
            /\ at' = at + 1
            /\ UNCHANGED <<pc, libs, lookup, typed>>
         \/ /\ path \in preloaded
            /\ libs' = Append(libs, stem)
            /\ typed' = typed \cup {<<stem, n>> : n \in bound}
            /\ \/ /\ world.strict /\ bound # Prototypes
                  /\ pc' = "raised"
                  /\ UNCHANGED <<at, lookup>>
               \/ /\ ~ world.strict \/ bound = Prototypes
                  /\ lookup' = lookup \cup {<<n, stem>> : n \in bound \ Claimed}
                  /\ at' = at + 1
                  /\ UNCHANGED pc
  /\ UNCHANGED <<vars, world, mapped, preloaded, diagnosis, cache, served>>

\* Lines 302-305: a required library without a handle is an error.
BindDone ==
  /\ pc = "bind"
  /\ at > Len(Stems)
  /\ pc' = IF Elements(Libraries) \subseteq Elements(libs) THEN "ready" ELSE "raised"
  /\ UNCHANGED <<vars, world, at, mapped, preloaded, diagnosis,
                 libs, lookup, typed, cache, served>>

\* Mistakes: the kernel32 function is returned before its prototype is
\* attached; any bound library may serve a name that is no prototype.
GetAttr_untyped(n) ==
  /\ pc = "ready"
  /\ n \notin Claimed /\ n \in Prototypes \cap world.kernel32
  /\ world.platform = "windows"
  /\ served' = <<n, "kernel32">>
  /\ UNCHANGED <<vars, world, pc, at, mapped, preloaded, diagnosis,
                 libs, lookup, typed, cache>>

GetAttr_anyLibrary(n) ==
  /\ pc = "ready"
  /\ n \notin Claimed
  /\ \E i \in DOMAIN libs : /\ n \in Visible(WantedFile(libs[i]))
                            /\ served' = <<n, libs[i]>>
  /\ UNCHANGED <<vars, world, pc, at, mapped, preloaded, diagnosis,
                 libs, lookup, typed, cache>>

\* __getattr__: the library in _lookup; else the first bound library whose
\* handle has the name; else, on Windows, kernel32; else AttributeError.
GetAttr(n) ==
  /\ pc = "ready"
  /\ LET raw == {i \in DOMAIN libs : n \in Visible(WantedFile(libs[i]))}
     IN  \/ \E stem \in Elements(libs) : /\ <<n, stem>> \in lookup
                                         /\ served' = <<n, stem>>
                                         /\ UNCHANGED cache
         \/ /\ n \notin Claimed
            /\ \E i \in raw : (\A j \in raw : i <= j) /\ served' = <<n, libs[i]>>
            /\ UNCHANGED cache
         \/ /\ n \notin Claimed /\ raw = {}
            /\ world.platform = "windows" /\ n \in Prototypes
            /\ n \in world.kernel32
            /\ served' = <<n, "kernel32">>
            /\ cache' = cache \cup {n}
         \/ /\ n \notin Claimed /\ raw = {}
            /\ ~ (world.platform = "windows" /\ n \in Prototypes \cap world.kernel32)
            /\ served' = <<n, "AttributeError">>
            /\ UNCHANGED cache
  /\ UNCHANGED <<vars, world, pc, at, mapped, preloaded, diagnosis,
                 libs, lookup, typed>>

LoaderNext ==
  \/ FindLibraries
  \/ ComputeOrder
  \/ Preload
  \/ PreloadDone
  \/ Bind
  \/ BindDone
  \/ \E n \in Functions : GetAttr(n)

Construct == FindLibraries \/ ComputeOrder \/ Preload \/ PreloadDone \/ Bind \/ BindDone

\* The constructor is one synchronous call; attribute access is up to the user.
LoaderSpec == LoaderInit /\ [][LoaderNext]_loaderVars /\ WF_loaderVars(Construct)
-----------------------------------------------------------------------------
LoaderTypeOK ==
  /\ TypeOK
  /\ pc \in {"find", "order", "preload", "bind", "ready", "raised"}
  /\ at \in Nat \ {0}
  /\ mapped \subseteq Files
  /\ preloaded \subseteq mapped \cup {Real[f] : f \in mapped}
  /\ diagnosis = << >> \/ diagnosis \in [path : Files, unmet : SUBSET Names]
  /\ Elements(libs) \subseteq Elements(Stems)
  /\ lookup \subseteq Prototypes \X Elements(Stems)
  /\ typed \subseteq Elements(Stems) \X Prototypes
  /\ cache \subseteq Prototypes
  /\ served = << >> \/ served[1] \in Functions

\* A library can be loaded at all: it belongs to a set of sound files whose
\* needs the system and the set itself meet, whatever the order.
Loadable(f) ==
  \E S \in SUBSET (Files \ world.broken) :
    f \in S /\ \A g \in S : \A name \in Needs(g) : MetBy(name, S)

(***************************************************************************)
(* The comment at lines 285-288: binding in LIBRARIES + OPTIONAL order      *)
(* keeps library_of() honest, although the handle of a library shows the    *)
(* symbols of its dependencies too.  Every name is attributed to a library  *)
(* that defines it, and no name a bound library defines is left out.        *)
(***************************************************************************)
AttributionHonest ==
  /\ \A pair \in lookup : pair[1] \in world.exports[WantedFile(pair[2])]
  /\ pc = "ready" => \A stem \in Elements(libs) :
       world.exports[WantedFile(stem)] \cap Prototypes \subseteq Claimed

(***************************************************************************)
(* The comment at lines 262-267: preloading dependencies first makes the    *)
(* bundled libraries work under a linker that never searches a directory.   *)
(* Once the libraries are found, a constructor that is not strict gives up  *)
(* only on the file its error names, a library of LIBRARIES or OPTIONAL     *)
(* that could not have been loaded in any order, or because a required stem *)
(* is a link to the file of a later one, which has taken it (:260, :289).   *)
(* That OPTIONAL counts here is a disagreement: OptionalNotRequired.        *)
(***************************************************************************)
RaisesForCause ==
  pc = "raised" =>
    \/ ~ world.isdir
    \/ \E stem \in Elements(Libraries) : WantedFile(stem) = NoFile
    \/ world.strict
    \/ /\ diagnosis # << >> /\ Real[diagnosis.path] \in Wanted
       /\ ~ Loadable(diagnosis.path)

(***************************************************************************)
(* "NOT in this directory: ..." (:321) is said of the right names: of what  *)
(* the library that failed needs, and only of what no file of the directory *)
(* is, by DT_SONAME or by file name, links included.  Where the header can  *)
(* be read, no such name is left out.                                       *)
(***************************************************************************)
UnmetIsMissing ==
  diagnosis # << >> =>
    LET path == diagnosis.path
        missing == {name \in Needs(path) : \A f \in Files : name \notin AskedAs(world, f)}
    IN  diagnosis.unmet = IF path \in world.readable THEN missing ELSE {}

(***************************************************************************)
(* Of OPTIONAL: "Loaded if present so that the core libraries can resolve   *)
(* them; never required." (:26-27)  A constructor that is not strict gives  *)
(* up for want of a library of LIBRARIES only.                              *)
(***************************************************************************)
OptionalNotRequired ==
  pc = "raised" =>
    \/ ~ world.isdir \/ world.strict
    \/ \E stem \in Elements(Libraries) :
         WantedFile(stem) = NoFile \/ ~ Loadable(WantedFile(stem))

(***************************************************************************)
(* __getattr__ serves a header prototype only with its argument types       *)
(* attached, from the library or from kernel32, and says "not exported by   *)
(* any loaded FreeRDP library" only of a name that none of them defines.    *)
(***************************************************************************)
ServesTyped ==
  served # << >> =>
    /\ served[1] \in Prototypes =>
         \/ <<served[2], served[1]>> \in typed
         \/ served[2] = "kernel32" /\ served[1] \in cache
         \/ served[2] = "AttributeError"
    /\ served[2] = "AttributeError" =>
         \A stem \in Elements(libs) : served[1] \notin world.exports[WantedFile(stem)]

(***************************************************************************)
(* A prototype keeps its provider: once an object is ready, two accesses to *)
(* the same name get the same function.                                     *)
(***************************************************************************)
StableProvider ==
  [][served # << >> /\ served'[1] = served[1] => served'[2] = served[2]]_loaderVars

(***************************************************************************)
(* The constructor returns or raises.                                       *)
(***************************************************************************)
Settles == <>(pc \in {"ready", "raised"})
=============================================================================
