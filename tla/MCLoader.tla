------------------------------ MODULE MCLoader ------------------------------
(***************************************************************************)
(* An instance of Loader: the four-layer stack of the FreeRDP libraries (a  *)
(* third-party library, winpr, freerdp with its unversioned symlink,        *)
(* server, and the optional rdtk), in two families of directories.  Layered *)
(* has every subset of the dependencies that layering allows; Named has     *)
(* DT_SONAMEs that are not file names, the ways the search for the          *)
(* libraries ends, and strict binding.                                      *)
(***************************************************************************)
EXTENDS Loader, TLC, SequencesExt

CONSTANTS c1, f0, f1, r1, s1, w1, wname, absent

MCFiles == {c1, f0, f1, r1, s1, w1}
MCNames == MCFiles \cup {wname, absent}
\* libcrypto.so, libfreerdp-server3.so, libfreerdp3.so -> libfreerdp3.so.3,
\* libfreerdp3.so.3, librdtk0.so, libwinpr3.so
MCPlace == (c1 :> 1) @@ (s1 :> 2) @@ (f0 :> 3) @@ (f1 :> 4) @@ (r1 :> 5) @@ (w1 :> 6)
MCKind  == (c1 :> "other") @@ (s1 :> "upper") @@ (f0 :> "freerdp")
             @@ (f1 :> "freerdp") @@ (r1 :> "upper") @@ (w1 :> "winpr")
MCBase  == [f \in MCFiles |-> f]
MCReal  == [MCBase EXCEPT ![f0] = f1]

MCLibraries  == <<"winpr3", "freerdp3", "freerdp-server3">>
MCOptional   == <<"rdtk0">>
MCPrototypes == {"Stream_New", "freerdp_connect", "shadow_init", "rdtk_engine_new",
                 "CreateEventA", "unshipped"}
MCFunctions  == MCPrototypes \cup {"private"}
MCExports    == (w1 :> {"Stream_New"}) @@ (f1 :> {"freerdp_connect", "private"})
                  @@ (s1 :> {"shadow_init"}) @@ (r1 :> {"rdtk_engine_new"})
                  @@ (c1 :> {}) @@ (f0 :> {})

\* find_library prefers the shortest name.
AllFound == ("winpr3" :> w1) @@ ("freerdp3" :> f0)
              @@ ("freerdp-server3" :> s1) @@ ("rdtk0" :> r1)

Subsets(S) == {SetToSeq(T) : T \in SUBSET S}

\* Lower layers only; winpr or crypto may need what the directory lacks.
LayeredNeeds ==
  {(c1 :> c) @@ (w1 :> w) @@ (f0 :> f) @@ (f1 :> f) @@ (s1 :> s) @@ (r1 :> <<w1>>) :
     c \in Subsets({absent}), w \in Subsets({c1, absent}),
     f \in Subsets({c1, w1}), s \in Subsets({f1, w1})}

\* PE files are not parsed; an ELF file may be unreadable.
Hosts == {<<"rpath", MCFiles>>, <<"android", MCFiles>>, <<"android", {}>>, <<"windows", {}>>}

\* Only kernel32 has CreateEventA on Windows; elsewhere winpr defines it.
ExportsWith(e) == [MCExports EXCEPT ![w1] = @ \cup e]
CreateEvent    == {"CreateEventA"}

LayeredWorlds ==
  {[platform |-> h[1], isdir |-> TRUE, found |-> AllFound,
    soname |-> [MCBase EXCEPT ![f0] = f1],
    needed |-> n, readable |-> h[2], broken |-> broken, system |-> system,
    exports |-> ExportsWith(IF h[1] = "windows" THEN {} ELSE CreateEvent),
    kernel32 |-> CreateEvent, strict |-> FALSE] :
     h \in Hosts, n \in LayeredNeeds, broken \in {{}, {c1}, {r1}}, system \in {{}, {absent}}}

\* Every subset of the real dependencies, asked for by DT_SONAME.
NamedNeeds ==
  {(c1 :> << >>) @@ (w1 :> w) @@ (f0 :> f) @@ (f1 :> f) @@ (s1 :> s) @@ (r1 :> <<wname>>) :
     w \in {<< >>, <<c1>>}, f \in {<<wname>>, <<c1, wname>>, <<wname, c1>>},
     s \in {<<f1>>, <<wname, f1>>, <<f1, wname>>}}

NamedWorlds ==
  {[platform |-> p, isdir |-> d, found |-> [AllFound EXCEPT !["freerdp3"] = f, !["freerdp-server3"] = server],
    soname |-> (c1 :> NoName) @@ (w1 :> wname) @@ (f0 :> f1) @@ (f1 :> f1)
                 @@ (s1 :> s1) @@ (r1 :> r1),
    needed |-> n, readable |-> MCFiles, broken |-> b, system |-> {},
    exports |-> ExportsWith(e), kernel32 |-> CreateEvent \ e, strict |-> s] :
     p \in {"rpath", "android", "windows"}, d \in BOOLEAN, f \in {f0, NoFile},
     n \in NamedNeeds, e \in SUBSET CreateEvent, s \in BOOLEAN, b \in {{}, {c1}},
     \* The server's library, or a link to freerdp's.
     server \in {s1, f0}}

MCWorlds == LayeredWorlds \cup NamedWorlds

\* What _elf_dynamic can return.
MCInfos == ParsedInfos
=============================================================================
