# A TLA+ model of PyFreeRdpNative

PyFreeRdpNative ships ctypes bindings for FreeRDP 3: a generator turns the C
headers into Python modules, build scripts produce the shared libraries for
each platform, a packager puts both into wheels, and at run time a loader opens
the libraries and attaches the prototypes.  This directory models the parts of
it that hold state or run an algorithm somebody could get wrong, checks them
with TLC on small instances and proves every safety property that holds,
with TLAPS, for every value of the constants: those of the load order, the
loader, the default instance, the dependency build, the configuration of a
build, its flow, its dependency walks, the sonames, the order in which the
generator writes types, and the wheels.

Line numbers in the modules are those of the source at the modelled commit.

## The system and its parts

| Part | Source | State it keeps | Operations | Correct when | Status |
|---|---|---|---|---|---|
| Load order | `pyfreerdpnative/_loader.py:88-225` | `info`, `by_soname`, `ordered`, `seen`, `visiting`, the call stack | parse, index, rank, `visit` | every file once, dependencies first, it returns | modelled, proved |
| Loader | `_loader.py:231-375` | `libs`, `_lookup`, prototypes attached to handles, `_win32_cache`, what the process has mapped | constructor, attribute access | symbols credited to their library, raises only for a cause, access stable and typed | modelled, proved |
| Default instance | `_loader.py:385-396` | the global `_default` | `load` | one object | modelled, proved |
| Library search | `_loader.py:35-77` | none; reads the directory and `$PYFREERDP_LIBS` | `default_libs_dir`, `find_library` | the right file of the stem, and no other stem's | not modelled: its results are inputs of `Loader` |
| Azure AD helper | `pyfreerdpnative/aad.py` | none; reads the installed Qt runtimes | `qt_runtimes`, `helper` | a usable runtime is found if there is one, none too old is chosen | not modelled: one pass over a listing |
| Examples | `pyfreerdpnative/examples/` | an rdpContext and its connection | connect, close, screenshot, diagnose | what is connected is disconnected, what is created is freed | not modelled: scripts that end the process |
| Binding generator, emission | `scripts/gen_bindings.py:820-1023` | known constants, pending definitions, the lines so far | resolve macros, order typedefs and structs, defer arrays | nothing is used before it is complete | modelled, proved |
| Binding generator, parsing | `gen_bindings.py:484-806` | tables of types and origins | one visitor per C construct | layouts equal the compiler's | not modelled: a table of cases |
| Regeneration | `gen_bindings.py:1425-1756` | the package directory | mirror headers, keep hand-written entries | hand-written files survive, no stale module does | not modelled: rewrites text, file by file |
| Dependency build | `scripts/build_deps.py` | download cache, source trees, install prefix, manifest | download, verify, extract, build, fix rpaths | the prefix of an edition holds that edition | modelled for Linux, proved |
| Build configuration | `scripts/build_freerdp.py:339-424, 637-1154, 1262-1337, 1626-1716, 1820-2021, 3844-3930` | none; CMake's cache | profiles, channels, CMake options, expected outputs | what is expected is what was asked for | modelled for host builds, proved |
| Dependency walks | `build_freerdp.py:2359-2520` | `queue`, `seen`, `copied`, the package | copy what is needed, again for executables | the package is closed | modelled, proved |
| Host build flow | `build_freerdp.py:1626-2018, 2129-2273, 2565-2779, 3308-3345, 3897-3953` | install prefix, `_libs` | install, verify, copy, walk, vendor, relocate, stage, load | a retry completes, a build ships what it made | modelled for Linux, proved |
| Android sonames | `build_freerdp.py:2955-3054` | the staged directory | `uniquify_sonames` | no colliding and no dangling name | modelled, proved |
| Mobile builds, apps | `build_freerdp.py:2861-3604` | build trees | drive cmake, gradle, xcodebuild | what they run succeeds | not modelled: they run other programs |
| Wheels | `scripts/package_wheels.py` | the unpacked artifacts, the output directory | unpack, choose variants, retag | one wheel per variant and platform, the best where there is one | modelled, proved |
| Validation | `scripts/validate_build.py` | `RESULTS` | one smoke test per feature | it reports what it sees | not modelled: observes other programs |
| Generated bindings | `pyfreerdpnative/_core`, `freerdp/`, `winpr/` | none | declarations only | | not modelled: data |
| Workflows | `.github/` | CI runners | matrix builds, regeneration, release | | not modelled |

How they interact: the generator writes `_core/functions.py`, whose
`PROTOTYPES` and `bind()` the loader uses; `build_deps.py` fills a
prefix of third-party libraries, which the host build links against and walks;
`build_freerdp.py` fills `_libs` (on Android giving vendored libraries unique
sonames), which the loader orders and opens; the packager copies each built
`_libs` into a wheel.  The loader is the only part that runs in the user's
process, next to the dynamic linker, other threads and other copies of the
same third-party libraries.  Between the parts there are only files: each
module below models the files its part shares with the next.

What is hard about each part, line by line, is the `hazards` list of
`PROJECT.json`.  In short:

* **Loader.** Android's linker resolves a dependency only if it is already
  mapped under its soname, so the order of the preload decides whether
  anything works; files may be unreadable, symlinked, cyclic; a failure in the
  middle is swallowed or fatal depending on who failed; `dlsym` shows the
  symbols of dependencies, so the bind order decides who is credited with a
  function; `load()` has no lock.
* **Builds.** Interrupted and repeated runs over directories nobody cleans; a
  worklist that follows dependencies across three prefixes; option lists in
  which the last definition wins; checks whose expectation is computed
  separately from what they check.
* **Generator.** Fixpoints capped at a number of passes, and an order in which
  every by-value field type must be complete before the struct that holds it.

## Modules

| Module | Models | Instances |
|---|---|---|
| `TopoOrder` | abstract: hand out every file once, dependencies first | refined by `LoadOrder` |
| `LoadOrder` | `_load_order` with the recursion's stack explicit | `MCLoadOrder` |
| `Loader` | `FreeRDP.__init__`, `__getattr__`; extends `LoadOrder` | `MCLoader` |
| `Loader_proofs` | the theorems about `LoadOrder` and `Loader` | |
| `LoadOnce` | `load()` under threads | `MCLoadOnce` |
| `LoadOnce_proofs` | the theorems about `LoadOnce` | |
| `Closure` | abstract: a package grows by what it needs until nothing is wanted | refined by `Bundle` |
| `Bundle` | the work lists of `bundle_unix_runtime_deps` and `bundle_windows_runtime_deps` | `MCBundle` |
| `Bundle_proofs` | the theorems about `Bundle` | |
| `HostBuild` | the host flow on Linux, interrupted and repeated, around the walks | `MCHostBuild`, `MCReruns` |
| `HostBuild_proofs` | the theorems about `HostBuild` | |
| `SonameRewrite` | `uniquify_sonames` and the staging before it | `MCSonameRewrite`, `MCReruns` |
| `SonameRewrite_proofs` | the theorems about `SonameRewrite` | |
| `EmitOrder` | `emit`: macros, typedefs, struct layouts, deferred arrays | `MCEmitOrder` |
| `EmitOrder_proofs` | the theorems about `EmitOrder` | |
| `DepsPrefix` | `build_deps.py` on Linux, interrupted and repeated, and the checks of `build_freerdp.py` on its prefix | `MCReruns` |
| `BuildConfig` | the options of a host build, the channels, the checks of CMake's cache and of the installed libraries | `MCBuildConfig` |
| `BuildConfig_proofs` | the theorems about `BuildConfig` | |
| `Wheels` | `main` of `package_wheels.py` over a dist directory that earlier runs filled | `MCWheels`, `MCReruns` |
| `Reruns_proofs` | the theorems about `Wheels` and `DepsPrefix`, the two scripts that run again over what earlier runs left | |

Definitions of the form `Name_mistake` are deliberate mistakes: a plausible
slip in the code that the definition `Name` models.  They are part of no
specification; put in place of `Name` they make the property named in
`PROJECT.json` fail, which is how we know that the property says something.

### LoadOrder and TopoOrder

`TopoOrder` is the promise in the docstring: each file handed out exactly once,
and after everything it depends on, unless the two depend on each other.
Reachability is stated with closed sets rather than paths so that it needs no
recursion and can be proved about.

`LoadOrder` follows the code: `Init` is the state at line 209, with `info` any
member of `Infos`; `NextRoot` is a turn of the loop at line 223, `LookAtDep` a
turn of the loop at 215 in the innermost frame, `Return` lines 219-221.
`Enter` is a call up to its loop, with the early return of line 212.  The
position of a frame's iterator is kept per path (`next`), which is sound
because a path is entered once; `StackIsChain` shows it.  `Keys` and
`BySoname` are the index of lines 183-189: a file answers to its soname and to
its base name, and the first file in listing order keeps a key.

### Loader

One action per stage of the constructor: `FindLibraries` (232-260),
`ComputeOrder` (the call of `_load_order`, step by step), `Preload` (one
`ctypes.CDLL` of 277-283), `Bind` (one stem of 290-301), `BindDone` (302-305);
then `GetAttr` for `__getattr__` and `_win32_function`.

The environment of a run is the record `world`: the platform, what
`find_library` returns, the real soname, needs and exports of each file, which
headers can be parsed, which files the linker rejects.  It is chosen in `Init`
and never changes.  `info`, by contrast, is what `_elf_dynamic` returned, which
is empty for a file it cannot parse (every PE or Mach-O file, and an unreadable
ELF file).

`wanted` is keyed by the real path (260) and inverted later (289), so of two
stems whose files are links to one the later keeps it: `FoundFile` is what
`find_library` returned, `WantedFile` what the stem is left with.  A required
stem that has lost its file raises at 302-305, and `RaisesForCause` names that
case.  `diagnosis` is what `_explain` says of the file that did not open.

The dynamic linker is external.  It is modelled from what the code and its
comments rely on: a dependency that is mapped under its soname is satisfied;
under an rpath siblings are found by file name and mapped too, all or nothing;
on Android they are not; `dlsym` on a handle searches the library and its
dependencies, `GetProcAddress` the library alone.

`Loader` extends `LoadOrder` and uses its variables and its `Next` as they are;
what both have is called `LoaderInit`, `LoaderNext`, `LoaderSpec`,
`LoaderTypeOK` here.  What the properties take for granted of a directory is
said in named assumptions, in words of the directory alone and never of the
model's state:

* `FilesAssumption`, `WorldsAssumption`, `StemsAssumption`: the directory is
  finite, `realpath` is idempotent, no stem is listed twice or is called
  `kernel32`.
  `ParsedAssumption`: `Infos`, the constant of `LoadOrder`, is what
  `_elf_dynamic` makes of the worlds.
* `NamesAssumption`: a link has the contents of what it points to, two files
  that answer to one name are one file, and no file answers to a name the
  system provides.  The build's soname handling is there to make this so
  (`SonameRewrite`).
* `LayersAssumption`: no set of files needs itself in a circle.  Where
  `_elf_dynamic` can read the files nothing more is asked.  Where it reads none
  of them, either each file needs only files of a lower layer (`Layer`: others,
  WinPR, FreeRDP, the libraries above it, as the comment at 191-195 has it), or
  the linker has an rpath and the files are known by their file names, which is
  PE and Mach-O.
* `ExportsAssumption`: what exports prototypes and is needed, directly or not,
  by a library of `LIBRARIES + OPTIONAL` is listed there no later than what
  needs it, among the stems that keep their file.  The comment at 285-288 chooses the order of the tuples for that.

### LoadOnce

Each thread is at one of the steps of `load()`; the interpreter may switch
between any two.  Construction is one step here (`Loader` has its inside) that
succeeds or raises.  A thread keeps what it got and may call again.

### Closure and Bundle

A host build makes `_libs` loadable by itself: everything that a file there
needs and that the deps prefix provides is copied next to it, and so on.
`Closure` is that promise, without a work list: `Copy` adds one wanted file,
`Finish` is allowed when nothing is wanted.  A second walk starts from the
executables only (`Executables`), with fewer directories to take from.

`Bundle` is the code: `Pop` is the head of the `while queue` loop, `Skip`,
`CopyIn` and `Refuse` are the ways a turn of `for dep` ends, `StageExecutables`
is the call of `stage_executables` between the walks.  The two platform
functions share the module because they share the shape; `world.format`
selects the rules in which they differ ("pe": system prefixes, remembering
every name, the machine check).  The walk pops the newest file; the model pops
any, which includes that order.  A copy of the walk is one step here, as if it
could not be cut short; `HostBuild` has the copies that are.  `world.staged` is what the directory holds at
the first walk, leftovers of earlier builds included.

### HostBuild

One step per file that is written and one per stage boundary, so that
`FailBuild`, which is both a step that raises and an interruption, can strike
between any two.  `StartHost` is `main` with a configuration `c`; `InstallFile`
is `cmake --install`; `Verify` is `collect_host_artifacts` with
`verify_artifacts`; `CopyArtifact`, `WalkPackage`, `Bundle`, `StartVendor`,
`Vendor`, `FixPackageRpath` are the body of `install_into_package`;
`StageExecutable`, `WalkExecutables`, `FixRpathAgain` that of
`stage_executables`, `verify_executables` and `verify_proxy_modules`;
`StageHelpers` is `stage_aad_helpers`; `FinishBuild` is `verify_loadable` and
`verify_media_linked`.  Here the walk is one copy of `Closure` at a time: the
module `Bundle` shows that the code does no more and no less.

`prefix` and `libs` are functions from the files present to the configuration
they were built with, because neither directory is cleaned: the default prefix
is a fixed directory under the temporary directory (3899), and `_libs` is
created when absent and copied over when not (2732).  The build directory is
new for each build (1641), so it is no state of the model.  `shutil.copy2`
writes under the final name, so a copy that is killed leaves a truncated file
that the walk takes as present (2489): `TornCopy` leaves the content `Torn` in
place of any copy, and `patchelf` then refuses the file.

A configuration has a profile, an edition, what CMake drops in silence
(`dropped`), whether a browser engine is found, and whether the checks run
(`verify`, from `--skip-verify`).  `Promised` is what the checks expect,
`Produces` what CMake really builds.  There is one file of each kind the flow
treats differently: a core library every profile has, its unversioned link,
which the full profile copies as a file of its own and `soname_only` leaves out
of the others (`DevLink`), one library that a profile may lose, a proxy module,
an executable, a tool of the deps prefix, the AAD helper, three deps libraries
of which two need the third and one only the tool needs, and two system
libraries of which one comes only with the helper.

### SonameRewrite

`files` maps the name of a file to the DT_SONAME and DT_NEEDED in it; a name is
a library and the number of suffixes it carries, so the conversion is modelled
by what it does to names.  `Stage` is the copying of `build_android` (any
subset may be staged again by a later call).  Each `os.rename` and each
`patchelf` is a step (`Rename`, `SetSoname`, `ReplaceNeeded`), each listing and
reading too (`ListAgain`, `ReadNeeded`), and `FailRewrite` can strike between any two.
The mapping is a variable of the process: `FailRewrite` forgets it, the directory
keeps what was done.

### EmitOrder

`types.py` is executed from top to bottom when the package is imported, and
ctypes takes the size of a type at the line that uses it, so the order of the
lines is their correctness.  `emit` finds it with three loops of one shape:
go through what is pending, write what has nothing to wait for, repeat until a
pass changes nothing or the passes are used up.  `Visit` is a turn of the inner
loop of whichever phase is running, `NextPass` a turn of the outer loop, and
`EndMacros`, `EndTypedefs`, `EndLayouts` what follows each.  `Ready` is the
condition of each phase, `Deferred` is `is_struct_array`, `Seen` is
`by_value_deps`.

`world` is the `Emitter` after parsing: for each declaration the names in its
text and where they stand (`holds` by value, `points` behind a pointer,
`quoted` as the name of an ALIGN64 field, which stands in quotes inside the
text of a type).  `out` is `types.py` line by line: the empty class of a struct,
a typedef, a typedef given up as `void*`, a layout.  `cut` remembers the phases
that ran out of passes while still getting on, which is the one case in which
something resolvable may be given up.

`WorldsAssumption` says which headers are meant.  They declare what they refer
to (the parser makes a void pointer of a type it does not know), and no field
has a type that is a typedef of an array of structs: such a typedef is written
after all layouts, so a field that names it would fail.  `types.py` has two of
them, and no field uses either.  `Keep` and `Base` are recursive functions
rather than `RECURSIVE` operators or `SelectSeq`, so that they can be proved
about.

### DepsPrefix

One step per file and stage again: `Download`, `Unpack` (the hash, then the
sources), `Install` (one file of `make install`), `Built`, `FixRpath`,
`FixDone`, `WriteManifest`.  `Interrupt` can strike between any two, and
nothing is cleaned up.  `StartBuild` is `main` with `--only` or without; `unbuilt` is
what the loop over the components has left, and `Current` picks the one that is
next in the order of the code.  The specification is `DepsSpec`, with
`DepsInit`, `DepsNext` and the bound `MaxTries` on its runs.
`Configure` is what `build_freerdp.py` does with the prefix afterwards: the
check in `main`, the choice of options by `deps_has`, CMake's search in the
prefix and then on the machine (`system`), and `verify_media_cache`.  libusb
and OpenH264 are a file each.  FFmpeg is three, because `deps_has` looks for one
(libavcodec), CMake uses another (libswscale), and nothing looks for the rest
(libavutil, which stands for libswresample and libavformat too).  A file of
`make install` appears whole.  `wrapper` says whether the FFmpeg in the prefix
was configured with libopenh264, which depends on what else the run built and
shows in no file name.  `completed` is history: a whole run has ended.

### BuildConfig

Two records chosen in `Init`: the command line `cmd` and the machine `host`.
An option list is a function from keys to on or off, and `Dedupe` combines
lists so that the last one that names a key wins, as `dedupe_defines` does.
Each source of options is an operator (`Common`, `SideOptions`,
`ProfileOptions`, `PlatformOptions`, `MediaOptions`, `ExecutableOptions`,
`ChannelOptions`, `Probe`, `KerberosOptions`, and the cairo rule of
`build_host`), and `Options` lists them in the order of the code.  `Expected`,
`MediaVerified`, `KerberosVerified` and `Promised` are the checks, each
computed from the command line again as in the code and not from `Options`.
`Table` is `CHANNELS` with one row of each kind: static, dynamic and device
channels, halves that exist on one side only, on by default or not, limited to
a platform, on request, with a library of their own, with extra switches.
`TableAssumption` says what of the table the checks rely on: the two transports
and the two channels of the media editions are in it, the transports are static,
and no row has an extra switch that one of the checks or probes looks at
(`Checked`; the one extra switch of the real table is CUPS).  What `PYFREERDP_EXTRA_CMAKE` sets
comes last and may say anything, so most properties name it as a cause.
`ChannelsAsAsked` says nothing of a build with `--no-channels` whose own
switches turn channels on again: the script then compares nothing.

CMake and FreeRDP's build files are external: a channel needs its transport
and a half needs its side, the option of a missing library is dropped for
channels and fatal for the features in `Required`, and an unknown name has no
entry in the cache.  This is what the comments of the script say
(816-823, 1039-1042, 1068-1073, 1262-1277).  It may also turn a feature off by
itself: `host.drops` is a set of `Droppable` features, those of which
`verify_media_cache` and `verify_artifacts` say that this happens, and neither
the cache nor the products have what is dropped.  Which library was missing
stays open.  A real cache also keeps the
user's value of an option nobody declared, so a check that reads it may see
less than the model's does.

### Wheels

`Start` is `main` up to the loop, with any options; `Skip` and `Package` are
the ways a turn of the loop goes, `Finish` what follows.  A wheel's file name
is the pair of package name and platform tag and nothing else; `dist` is a
function from those pairs to the artifact whose `_libs` the file holds, so a
wheel that replaces another is visible.  `dist` outlives a run.
An artifact is a directory, an archive `<platform>-<profile>-<edition>.zip` as
a CI run leaves it, or an archive that a release names (`shape`).  `ProfileOf`
and `EditionOf` are what `variant_of` reads in such a name: the edition is
looked for at its end, which an archive's suffix hides.  `OneEachAssumption`
says what the comment at 90-91 says of the artifacts: one for each platform,
profile and edition.  It does not exclude several archives of one platform,
whose editions cannot be told apart.  `BestVariantShipped` and
`LostToArchivesOnly` say how far that reaches, and run `wheels_replaced` shows
what it does.

### MCReruns

Dependencies, host builds, Android sonames and wheels have one question in
common: a script is run again over what its earlier runs left.  They share no
state, so `MCReruns` puts the four specifications side by side: `flow` says
which one a behaviour is about, and the variables of the others stay as they
began.  The states are the sum of theirs and not the product.

## Runs

Each run of `PROJECT.json` is `tlc -config <cfg> <module>`.

| Run | What it covers | What it shows |
|---|---|---|
| `load_order` | four files, all 4096 dependency graphs on them; and one library under two names, with DT_SONAMEs, repeated, missing and self-naming entries in any order | order, completeness, rank, the shape of the stack, termination, refinement of `TopoOrder` |
| `loader` | layered dependency graphs on six files (one a symlink), three linkers, readable or unreadable headers, one broken library or none; and DT_SONAMEs that are no file names, a missing directory, missing libraries, system names, two stems linked to one file, strict binding, kernel32 | attribution, causes of failure, the error says of the failing file only what is missing, typed and stable access, settling |
| `loader_optional` | the instances of `loader` | *violated*: an optional library that does not open ends the constructor |
| `load_once_race` | two threads | *violated*: two objects |
| `load_once_threads` | three threads, three objects, four calls | what holds without a lock |
| `bundle` | 16384 worlds over five names: both formats, cycles, leftovers, a DLL of the wrong machine, packages it left half-filled, a directory only the first walk sees | closed again, refinement of `Closure`, the walks end |
| `reruns` | `build_deps.py`: three runs over one prefix and cache, whole or `--only`, three editions, three machines; host builds: three builds of four configurations in any order, killed within a copy too; sonames: three libraries, all 64 dependency graphs, any partial staging, two runs; wheels: two runs with any options over combinations of directories and archives of two platforms, a stray entry, artifacts without `_libs`; each run killed or failing anywhere | a whole run repairs the prefix, and from then on FreeRDP is configured against all of it; a retry completes the package, and a build ships its own files, relocatable, without a browser engine; names become unique and are converted once; every platform gets the variant asked for or the best there is |
| `host_build_dropped` | a full build, then one in which CMake dropped the shadow server | *violated*: the build passes its checks |
| `wheels_replaced` | the wheels of `reruns`, one run | *violated*: with `--all-variants` one archive's wheel replaces another's |
| `emit` | every way three macros, three typedefs over two structs, or four structs (one opaque) can refer to each other in C | `types.py` imports without a NameError, sizes are known when taken, only what waits for something unresolvable is given up, the generator ends |
| `config` | four profiles, three platforms, combinations of enabled and disabled channels, deps prefixes, missing libraries, features that CMake drops, the user's own switches | the channels are those asked for, CMake does not stop, one scaler, builds are refused or incomplete for a known cause only |
| `config_promises` | the instances of `config` | *violated*: a full build on a Linux without Wayland, and any server-only build, is refused as incomplete |

**Bounds.** Four files give every cycle up to length four and every way a
dependency can contradict the rank; a property of `LoadOrder` relates at most
three files.  The layers of `MCLoader` are those of the real libraries with one
member each, and a symlink.  `MaxObjects` bounds how many objects `LoadOnce`
constructs, and `MaxCalls` the calls; a race takes two of each.  `MCBundle` has
one name per role and a chain of three, which is as long as a difference
between a one-level and a full walk needs.  `MaxBuilds = 3` lets two builds
with different contents precede the one a property speaks of.  `MaxRewrites = 2` and
`MaxRuns = 2` are an interrupted run and the one after it.  The passes of `MCEmitOrder` are
as many as most of its graphs need and fewer than some do, so both ways of
ending a phase occur; a struct can be wrong only relative to what it holds and
what that is a typedef of, which takes three of one kind.  `MaxTries = 3` of
`DepsPrefix` lets two runs that were partial in different ways precede the one
that must repair the prefix.  `MCBuildConfig` takes every pair of an enabled
and a disabled set of channels, and every other choice with and without an
enabled channel, on every machine; a clash of sources takes two of them, and a
third that hides it.  `MCWheels` has up to four directories of one platform, which
are all that `Rank` tells apart by either component, and up to three variants
as directories and archives mixed.

**Deadlock** is not checked where the program ends: `_load_order` returns, a
constructor may have raised, and the number of `load()` calls is bounded.
`Bundle` has an explicit step for having ended (`Done`) and is checked.  The
generator, the configuration of a build, `build_deps.py` and the packager are
scripts that end, so `emit`, `config` and `reruns` do not check it.

**Fairness.** `_load_order`, the constructor and the dependency walks are
synchronous, run by one thread and never wait, so weak fairness of their steps
says only that the process is scheduled.  It excludes `Stop` of `Bundle`: an
exception may end a walk but nothing makes it.  `emit` is one function that waits for nothing (`WF_vars(Next)`).
`LoadOnce`, `HostBuild`, `SonameRewrite`, `DepsPrefix`, `BuildConfig` and
`Wheels` claim safety only and assume no fairness: nothing makes a thread call
`load()`, and an interrupted build need not be run again.

## Findings

1. `load()` is documented to load once.  Two threads that call it first get two
   objects (`load_once_race`).  `load_once_threads` shows what is left: an
   explicit directory stays private, and a success is never forgotten.
2. `_loader.py:26-27` says of the optional libraries that they are "never
   required".  They are in `wanted` like the others, so one that is there and
   does not open ends the constructor although everything required opens
   (`loader_optional`).  `RaisesForCause` counts it as a cause for that reason.
3. The docstring of `verify_artifacts` says that it "prevents shipping a wheel
   where CMake silently dropped server support".  It reads an install prefix
   that keeps what earlier builds installed, so a library this build lacks
   passes when an earlier one had it (`host_build_dropped`).  `BuiltIsFresh` is
   what holds: what the build did make is what it ships.
4. `BUILD.md:27` says that Wayland is detected and not required.
   `cmake_options_for` does detect it, but `expected_libs` demands `libuwac` of
   every full build on Linux, so `verify_artifacts` ends a build without
   Wayland as incomplete, after it was compiled (`config_promises`).
5. The help of `--profile` offers `server-only`.  `EXPECTED_LIBS` demands
   `freerdp-shadow` of it and `profile_options` turns WITH_SHADOW off, so every
   such build ends as incomplete unless the user's own switches turn it on (the
   same run and property: TLC's trace shows the Wayland case, and
   `IncompleteForCause`, proved, has these two besides dropped features and
   the user's own switches).
6. `--all-variants` is to package every variant.  `variant_of` does not see the
   edition in the name of an archive, so two archives of a platform and profile
   end in one file name and the second wheel replaces the first
   (`wheels_replaced`).  `LostToArchivesOnly` shows that directories are safe.

### What the code does not promise

Facts a reader of the properties should know, read in the code while modelling
it.  No run states them; the properties above are worded around them.

* `_explain` looks one level deep: when a dependency of a dependency is
  missing it says that every dependency is present and blames the loader.
* `_explain` takes a header that was not parsed for one without needs, so of a
  PE or Mach-O file it says that every dependency is present, whatever is
  missing.  `UnmetIsMissing` says what it may say in each case.
* After an interrupted `uniquify_sonames` the next run computes its mapping
  from what still lacks the suffix and leaves the entries that name the others.
  Staging everything again repairs it (`RunUniquifies`).
* `_libs` is never wiped, against `BUILD.md:157-158`.  What an earlier build of
  another profile left stays, `libfreerdp3.so` for one, which a minimal build
  does not write and the loader prefers to the new `libfreerdp3.so.3`
  (`soname_only`, 2655-2678).  `Relocatable` and `BuiltIsFresh` hold
  nevertheless.
* `by_value_deps` looks through one typedef while fields reach structs through
  two, and reads the quoted name of an ALIGN64 field as a type.
  `types.py:5049` therefore reports `rdp_settings` as cyclic, and it is laid
  out without waiting; everything it holds happens to be laid out before.
* A truncated archive in the download cache is never fetched again
  (`build_deps.py:199`): every retry fails on its hash.
* The check of the edition (3867-3874) and `verify_media_cache` look for
  libavcodec, libswscale and OpenH264 only.  A prefix that lacks libusb,
  libavutil, libswresample or libavformat, as an interrupted run leaves it, is
  accepted, although `BUILD.md:165-166` says that a prefix that does not match
  the edition is refused.  `StaysComplete` says from when on this cannot happen.
* `--only ffmpeg` builds an FFmpeg without libopenh264 in a prefix of the media
  edition (`build_deps.py:1066`), and nothing notices.  `RerunCompletes` speaks
  of whole runs.
* Disabling a channel that the deps prefix enables, as `--disable-channel
  urbdrc`, ends as "listed as both", while `verify_channel_cache` recommends
  `--disable-channel`.
* `package_wheels.py` chooses the variant of a platform before it knows that
  the artifact unpacks.  Of several archives of a platform it keeps the first in
  sorted order, not the edition asked for, because `variant_of` does not see
  it; `BestVariantShipped` says nothing of that case.  A run with `--mobile archive` over
  mobile artifacts alone ends with "no wheels were produced".

## Proofs

### Loader_proofs: the load order

For every directory, every `Infos` and from the four named assumptions of
`LoadOrder` alone (base names are names, `Place` is injective, `Kind` has four
values, `Infos` is well typed):

* `TypeCorrect`: `Spec => []TypeOK`;
* `StackIsChainHolds`, `EveryFileOnceHolds`, `DependenciesFirstHolds`,
  `RankUnlessNeededHolds`: the four invariants of run `load_order`;
* `Implements`: `Spec => ImplementsTopoOrder`, so the recursion refines the
  abstract order for every directory and not just for the instance.

The argument: none of the four is inductive alone.  What makes `Return` safe is
a fact about the frame that returns: every dependency it has already looked at
is in `seen` or on the stack, and whatever is on the stack below it reaches it.
The inductive invariant `IInv` states this for every frame and every file in
`seen`, together with the coupling of `seen` to `ordered` and of `todo` to
both, and the sort order of the roots for `RankUnlessNeeded`.  Each action has
its lemma; `Implements` then reads the guard of `TopoOrder!Emit` off `IInv`.

### Loader_proofs: the loader

For every directory, every host, every platform and any number of accesses,
from the named assumptions of `LoadOrder` and `Loader`:

* `LoaderTypeCorrect`, `RaisesForCauseHolds`, `UnmetIsMissingHolds`,
  `AttributionHonestHolds`, `ServesTypedHolds`;
* `StableProviderHolds`, the action property.

`LoaderInv` holds `IInv`, so that whatever is proved of the order can be used
where its result is.  `RaisesForCause` compares one loop over one order with
all orders there could be: `Loadable` asks only for *some* set of files that
satisfies itself.  `OpensWhatIsLoadable` is the step between the two.  If a file
is loadable, then so is whatever in the directory has a name that it needs
(`LoadableNeeds`, `LoadableLink`); `AskedComesBefore` says that the order has
that file earlier, perhaps under the name of a link: by `DependenciesFirst`
and the absence of circles where the headers were read (`NoCycle`), by
`RankUnlessNeeded` and the layers where they were not.  `Opened` says that
earlier loadable files are mapped, so nothing the linker asks for is missing.
`UnmetIsMissing` follows from `Diagnosed`, that a diagnosis is what `_explain`
makes of one file of the directory, and from what the index of the order knows
of the names (`ExplainSays`).

`AttributionHonest` needs a fact about two libraries at a time: when a handle
shows a prototype that its own library does not export, then the library that
does was bound before, so the name is taken (`ShownIsOwnOrClaimed`, from
`ExportsAssumption`; `LeadsToMonotone` compares what the linker resolves with
what the files ask for).  `ServedAsProvided` remembers of the last access which
of the four rules of `__getattr__` it went by; `ServesTyped` and
`StableProvider` follow because the rules exclude each other and because nothing
they read changes once the object is ready.

What the linker closes over is the recursive function in `LeadsTo`, as many
rounds as there are files.  What is needed of it goes by the least round that
would fail (`LeadsToClosed`, `LeadsToSelf`, `LeadsToMonotone`), after
`RoundsExist` has shown that the equation has a solution.

### Bundle_proofs

For every set of names, every dependency graph, every content of the directory
and of the library directories, from `WorldsAssumption` alone (the worlds are
well typed; only unix walks have extra directories, only Windows refuses
machines):

* `TypeCorrect`, `PackageClosedHolds`;
* `Implements`: `Spec => ImplementsClosure`.

`PackageClosed` speaks of the end only.  The invariant behind it has four
parts.  `Looked`: what a file that the walk is done with needs and the walk may
copy has been seen, or is still to be looked at.  `SeenIsIn`: what has been
seen and may be copied is in the package.  `WalkedIsIn`: the walk only handles
files of the package, for the refinement.  `Settled` carries the result of the
first walk over the second, which starts from the executables alone: every
file that was there before is closed under what the second walk may copy,
because those names are among the first walk's.  That is the hazard the
property is for.

### LoadOnce_proofs

For every set of threads and any number of calls, from `MaxObjectsAssumption`
and `NoneAssumption`:

* `TypeCorrect`, `ExplicitStaysPrivateHolds`, `SuccessIsRememberedHolds`;
* `DefaultOnlyReplacedHolds`, an action property: a default is never taken back,
  only replaced by an object that a call without a directory has constructed.

A thread that stores into `_default` does not look at what it holds.  What makes
the store harmless is `Carried`: from its construction to its store a call holds
an object that was built with this call's own argument, however many objects
other threads have built in between; `Constructed` says that whatever anyone
holds was built at all.

### Reruns_proofs: DepsPrefix

For any number of runs, from `MaxTriesAssumption`:

* `DepsTypeCorrect`, `RerunCompletesHolds`;
* `StaysCompleteHolds`, the action property.

Nothing can be said of the prefix a run finds: an interruption leaves it in any
state.  So every clause of the invariant speaks of what this run has finished
itself, the components in `only \ unbuilt` and the files in `fresh`: they are
installed (`Installed`), FFmpeg has the wrapper that this run's choice of
components asks for (`Wrapped`), and after the last component everything is
relocated (`LoopEnds`, `Fixed`).  An interruption ends `Alive`,
and every clause becomes empty; the next `StartBuild` has all of `only` to build.
The one clause that outlives a run is about files alone: after a whole run
everything is there, and no step removes any (`Installed`).

### Reruns_proofs: Wheels

For any artifacts of which each platform has one per profile and edition
(`OneEachAssumption`), any options and any number of runs over one `dist`, from
`WorldsAssumption`, `TagsAssumption` and `MaxRunsAssumption`:

* `WheelsTypeCorrect`, `BestVariantShippedHolds`, `LostToArchivesOnlyHolds`.

`Shipped` splits the artifacts that the run has chosen: each is still to come,
or its file in `dist` holds what this run put there for it or for another that
ends in the same file (`InFile`).  The second half is what a later turn changes,
by writing the same file again; so the work is in showing which chosen
artifacts share a file name: with `--all-variants` no two directories, because
package names tell profile and edition apart (`PackageNames`), without it none,
because one is chosen for each platform.  That
there is one to choose, and that it is the variant asked for whenever there is
one, is arithmetic on the ranks (`RankIsNat`) and their least element.

### HostBuild_proofs

For every set of configurations and any number of builds, from
`ConfigsAssumption` and `MaxBuildsAssumption`:

* `TypeCorrect`, `RetryCompletesHolds`, `RelocatableHolds`, `BuiltIsFreshHolds`,
  `NoBrowserBundledHolds`.

Neither the prefix nor `_libs` is cleaned, so a step meets files of builds with
other configurations.  `Owned` and `OnlyItsOwn` say where the files can come
from.  `Collected` and `ExecutablesStaged` say how far this build's loops have
come, with what is still in `pending`, and that what they have taken over is
this build's; they give completeness and `BuiltIsFresh`.  `DepsClosed`,
`Vendored` and `Fixed` hold for every file in the directory, whichever build left
it there, because the walks start from the directory and not from a list of what
was copied; they give `Relocatable`, which asks of every library there that its needs are
next to it.  `RetryCompletes` speaks
of a sequence of builds of one configuration, and follows because `PackageFor` (what
such a build should leave) is computed in the proof for each configuration.

### SonameRewrite_proofs

For any number of libraries, every dependency graph and every sequence of
stagings and interrupted runs, from the five named assumptions of
`SonameRewrite`:

* `TypeCorrect`, `RunUniquifiesHolds`, `NothingLeftOverHolds`;
* `ConvertedOnceHolds`, the action property.

`Renaming` couples the loop to the directory: the plain names that are left in
it are those still in `unvisited`, which makes the final listing see only renamed
files.  `Replacing` says that no file already visited names anything renamed.
Both hold for any directory.  `Whole` adds what is known after a full staging:
that the mapping names every library that is to be renamed, and so that every
entry either stays or is replaced by a name that is there.  Without it an entry
may dangle, and after an interrupted run it does.

### BuildConfig_proofs

For every table of channels, every set of command lines and every machine, from
`TableAssumption`, `CommandLinesAssumption` and `MachinesAssumption`:

* `TypeCorrect`, `ChannelsAsAskedHolds`, `RefusedForCauseHolds`,
  `ConfigureGoesThroughHolds`, `OneScalerHolds`, `IncompleteForCauseHolds`: all
  five invariants of run `config`, whatever features CMake drops.

The inductive invariant is short (`Outcomes`: how each outcome came about), since
the script goes straight through.  The work is in the list of options.
`LastWins` and `FromASource` say what `dedupe_defines` returns, whatever the
lists are; the `...Say` lemmas say which keys each source names and what it says
of them; `Mentions` and `Decides` turn a question about a switch into one about
which source speaks of it last.  From these, `ScalersAndCodecs`,
`DisplaysAndKerberos`, `SidesAndServers` and `ChannelsStand` say what the eleven
sources come to, and `ExpectationsMet`, `CodecsVerified`, `NothingAborts` and
`PromisesKept` compare that with what the checks compute on their own.

### EmitOrder_proofs

For all headers that satisfy `WorldsAssumption`, in any order, any number of
declarations and any bounds on the passes, from `NamesApart`,
`SortedAssumption` and `WorldsAssumption`:

* `TypeCorrect`, `ImportsCleanlyHolds`, `SizesKnownHolds`,
  `GivenUpForCauseHolds`: all three invariants of run `emit`.

A line is `Grounded` if what it names is defined and what it takes the size of
is laid out; `types.py` is `Sound` if each line is grounded by those before it.
`SoundExtends` says that lines grounded by what is there can be appended.  What
is needed for that at each step is `Written`: what the phases resolved stands in
`types.py` as a line of its kind, and no phase leaves anything of an earlier one
out.  `Resolving` and `Caused` carry `GivenUpForCause`: a pass that has resolved
nothing has only gone past names that are not ready, and resolving names of a
later phase makes none of them ready (`StillNotReady`).  That the deferred
arrays can be written in any order is `DeferredNamesNoDeferred`: an array of
structs is never made of another one, because the chain that `is_struct_array`
follows stops at what is not a plain name (`BaseStays`).

`KeepKeeps` and `BaseStays` are about recursive functions.  They are proved by
the least index at which they would fail; `KeptExists` shows first that the
equation has a solution.

### Only model-checked

Liveness (`Terminates`, `Settles`, `WalksEnd`, `Finishes`): the
prover has no rule for fairness here.  The five violated properties are refuted
by TLC's counterexamples.  Every other property that a run checks is a theorem.

The runs list the properties of behaviour; the type invariants are theorems
(`TypeCorrect`, `LoaderTypeCorrect`, `DepsTypeCorrect`, `WheelsTypeCorrect`).
The theorems about `DepsPrefix`, `HostBuild`, `SonameRewrite` and `Wheels` are
about each specification on its own; `MCReruns` only puts them side by side.

## What is left out

* The bytes of ELF headers: `_elf_dynamic` appears as its result, which may be
  "nothing" for any file.
* What is inside the FreeRDP libraries.  A function is a name that some
  libraries export.
* Directories that change while they are being listed or opened.
* In `Loader`, the order of `self.libs` under Python 2, which the file still
  supports: a plain dict (238), whose `values()` (336) have no order there.
* In `Bundle`, the rewriting of macOS install names after the walk (2500-2520),
  the machine that each walk computes anew from the directory (2386; it is one
  per world here), and the recursive listing of what was staged, without its
  symlinks (2465-2470).
* In `HostBuild`, everything before the installation (CMake's options are
  `BuildConfig`), the Windows and macOS variants of the steps, the extra
  directories for Kerberos and OpenSSL, and the rounds of
  `vendor_linux_system_libs` (ldd lists needs transitively, so the first round
  finds all).  Libraries that only executables pull in from the deps prefix are
  taken to need no system library to be vendored: FFmpeg is configured without
  autodetection.
* In the fallback case (no header readable) directories are layered
  (`LayersAssumption`): two third-party libraries never need each other.  With
  such a need the fallback rank orders the two by name, and Android's linker may
  refuse one.
* Directories in which `_elf_dynamic` reads some headers and not others, where
  an rpath does not find every file by its name (so on Android in any case):
  the order then follows neither the needs nor the layers alone.
* In `EmitOrder`, the text of the lines, the enum members and `functions.py`
  (straight loops whose order does not matter), and what parsing makes of a
  declaration.
* In `DepsPrefix`, files that are torn within an installation, vcpkg on Windows
  and the cross builds; where sources are
  looked for when an archive unpacks under another name.
* In `BuildConfig`, options that one source sets and nothing checks, the choice
  of SDL, AAD helpers and toolchains, the mobile targets, `--skip-verify` (it is
  in `HostBuild`), and proxy libraries: `verify_artifacts` does not look for a
  proxy that CMake dropped, the checks of executables and modules in
  `HostBuild` do.
* In `Wheels`, the tags themselves (`platform_of`, `mobile_tag`) and the
  contents of a wheel other than its `_libs`.

### Not modelled

* *Generated bindings.*  `_core/types.py`, `constants.py`, `functions.py`,
  `winpr/error.py` and the mirrors under `freerdp/` and `winpr/` are some
  48,000 of the repository's 57,000 lines.  They are declarations, without
  state or control flow; the order in which `types.py` has them is `EmitOrder`.
  So the share of all lines that the models stand for stays small however
  much of the program is modelled.
* *Parsing (`Emitter`)*, *regeneration*, *source patches*: translations of text
  to text, node by node and file by file.
* *Library search*, *AAD helper selection*, *Python 2 check*: single passes
  over a listing, whose results are inputs elsewhere.
* *Mobile builds and apps*, *validation*, *workflows*, *examples*: they run
  other programs (CMake, gradle, xcodebuild, FreeRDP) one after the other and
  end when one fails.

## Plan

Done: the loader (`LoadOrder`, `Loader`, `LoadOnce`), the staging of a build
(`Bundle`, `HostBuild`, `SonameRewrite`), the generator's order (`EmitOrder`),
and the way from dependencies to wheels (`DepsPrefix`, `BuildConfig`,
`Wheels`); a proof of each safety and action property that a run checks.  What
would come next:

1. The Windows and macOS steps of `HostBuild`, which differ in how a library
   finds its siblings.
2. The rounds of `vendor_linux_system_libs` and the libraries that only
   executables pull in from the deps prefix.
3. Directories that `_elf_dynamic` reads in part (see above): whether the rank
   should take part in the order of the files it could not read.
