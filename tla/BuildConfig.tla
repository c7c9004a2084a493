----------------------------- MODULE BuildConfig -----------------------------
(***************************************************************************)
(* How scripts/build_freerdp.py turns a command line into the options of a  *)
(* host build: nine sources of -D switches of which the last one wins,       *)
(* channels that the user, the profile, the platform and the deps prefix     *)
(* all have a say in, and checks of what CMake made of it.                   *)
(***************************************************************************)
EXTENDS Naturals, Sequences, FiniteSets

CONSTANTS
  Table,         \* CHANNELS: name |-> [type, halves, default, platforms, onRequest, needs, with]
  CommandLines,  \* [profile, enable, disable, channels, krb5, executables, shadow, extra]
  Machines       \* [os, deps: what the deps prefix has, has: what the machine has,
                 \*  drops: what CMake turns off there by itself]

VARIABLES
  cmd, host,
  pc,     \* "start", "configured", "building", "done"; or "refused", "aborted", "incomplete"
  cache   \* what CMake made of the options: CMakeCache.txt

vars == <<cmd, host, pc, cache>>

Halves == {"client", "server"}
\* What the checks look at and what CMake looks for.
Checked ==
  {"CHANNELS", "CLIENT_CHANNELS", "SERVER_CHANNELS", "CAIRO", "FFMPEG", "DSP_FFMPEG", "SWSCALE",
   "OPENH264", "X11", "WAYLAND", "KRB5", "CLIENT_COMMON", "SERVER", "SHADOW", "PROXY",
   "UNICODE_BUILTIN"}

\* The transports are static; a channel's extra switches (only printer has one,
\* CUPS) are its own affair.
ASSUME TableAssumption ==
  /\ {"drdynvc", "rdpdr", "urbdrc", "rdpecam"} \subseteq DOMAIN Table
  /\ Table["drdynvc"].type = "static" /\ Table["rdpdr"].type = "static"
  /\ \A n \in DOMAIN Table :
       Table[n].type \in {"static", "dynamic", "device"} /\ Table[n].with \cap Checked = {}
ASSUME CommandLinesAssumption ==
  \A c \in CommandLines :
    /\ c.profile \in {"minimal", "full", "client-only", "server-only"}
    /\ \A k \in DOMAIN c.extra : k[1] \in {"WITH", "channel"} \cup Halves /\ c.extra[k] \in BOOLEAN
\* Features CMake may silently disable for want of a dependency no option of
\* the script speaks of, by the messages of the two checks that look for that.
Droppable ==
  {"CLIENT_COMMON", "SERVER", "SHADOW", "PROXY", "FFMPEG", "DSP_FFMPEG", "SWSCALE", "OPENH264"}
ASSUME MachinesAssumption ==
  \A m \in Machines : m.os \in {"Linux", "Darwin", "Windows"} /\ m.drops \subseteq Droppable

\* PROFILE_SIDES.
Sides == CASE cmd.profile = "client-only" -> {"client"}
           [] cmd.profile = "server-only" -> {"server"}
           [] OTHER -> Halves
Full == cmd.profile = "full"
Has(lib) == lib \in host.has \cup host.deps

\* Options: functions from keys, <<"WITH", name>> or <<"channel" or a half, channel>>.
On(names)  == [k \in {<<"WITH", n>> : n \in names} |-> TRUE]
Off(names) == [k \in {<<"WITH", n>> : n \in names} |-> FALSE]
Switch(names, value) == IF value THEN On(names) ELSE Off(names)

\* A mistake: the first source that says something about a key wins.
Dedupe_mistake(sources) ==
  [k \in UNION {DOMAIN sources[i] : i \in DOMAIN sources} |->
     LET i == CHOOSE i \in DOMAIN sources :
                k \in DOMAIN sources[i] /\ \A j \in 1..(i - 1) : k \notin DOMAIN sources[j]
     IN sources[i][k]]

\* dedupe_defines.
Dedupe(sources) ==
  [k \in UNION {DOMAIN sources[i] : i \in DOMAIN sources} |->
     LET i == CHOOSE i \in DOMAIN sources :
                k \in DOMAIN sources[i] /\ \A j \in (i + 1)..Len(sources) : k \notin DOMAIN sources[j]
     IN sources[i][k]]

-----------------------------------------------------------------------------
(* Channels.                                                               *)

\* media_channels.
MediaChannels ==
  {n \in {"urbdrc"} : "usb" \in host.deps}
  \cup {n \in {"rdpecam"} : host.os \in {"Linux", "Darwin"} /\ "ffmpeg" \in host.deps}

\* What main passes on: the user's channels and those of the deps prefix.
Enabled == cmd.enable \cup MediaChannels
Clash == cmd.channels /\ Enabled \cap cmd.disable # {}

\* resolve_channels: the halves of a channel that are built.
Resolve(n, enable) ==
  IF n \notin DOMAIN Table THEN IF n \in enable THEN Sides ELSE {}
  ELSE LET spec == Table[n]  forced == n \in enable IN
       IF n \in cmd.disable \/ ~(forced \/ (spec.default /\ host.os \in spec.platforms)) THEN {}
       ELSE (Sides \cap spec.halves) \ (IF forced THEN {} ELSE spec.onRequest)

\* Switches of the channels: the channel's own, and its halves' if it is on.
ChannelSwitches(enable) ==
  LET names == DOMAIN Table \cup enable \cup cmd.disable
      on == {n \in names : Resolve(n, enable) # {}} IN
  [k \in {<<"channel", n>> : n \in names} \cup (Halves \X on) |->
     IF k[1] = "channel" THEN k[2] \in on ELSE k[1] \in Resolve(k[2], enable)]

ChannelOptions ==
  IF ~cmd.channels THEN Off({"CHANNELS", "CLIENT_CHANNELS", "SERVER_CHANNELS"})
  ELSE Dedupe(<<On({"CHANNELS"}), Switch({"CLIENT_CHANNELS"}, "client" \in Sides),
                Switch({"SERVER_CHANNELS"}, "server" \in Sides), ChannelSwitches(Enabled),
                On(UNION {Table[n].with : n \in {m \in DOMAIN Table : "client" \in Resolve(m, Enabled)}})>>)

-----------------------------------------------------------------------------
(* The other sources, in the order in which they are appended.             *)

Common == Dedupe(<<Off({"SAMPLE", "FFMPEG", "DSP_FFMPEG", "SWSCALE", "OPENH264"}), On({"CAIRO"})>>)
SideOptions == Dedupe(<<Switch({"CLIENT", "CLIENT_COMMON"}, "client" \in Sides),
                        Switch({"SERVER"}, "server" \in Sides)>>)

\* FULL_PLATFORM, and --no-windows-shadow.
ShadowBuilds == host.os = "Linux" \/ (host.os = "Windows" /\ cmd.shadow)
ProfileOptions ==
  Dedupe(<<Switch({"SHADOW"}, Full /\ ShadowBuilds), Switch({"PROXY", "SAMPLE", "WINPR_TOOLS"}, Full)>>)

PlatformOptions ==
  CASE host.os = "Linux"   -> Dedupe(<<Switch({"X11"}, Full /\ Has("x11")),
                                       Switch({"WAYLAND"}, Full /\ Has("wayland")), Off({"CUPS"})>>)
    [] host.os = "Darwin"  -> Off({"X11", "WAYLAND"})
    [] host.os = "Windows" -> Off({"X11", "WAYLAND", "CAIRO"})

MediaOptions ==
  Dedupe(<<Switch({"FFMPEG", "DSP_FFMPEG", "SWSCALE"}, "ffmpeg" \in host.deps),
           IF "ffmpeg" \in host.deps THEN Off({"CAIRO"}) ELSE <<>>,
           Switch({"OPENH264"}, "openh264" \in host.deps)>>)

ExecutableOptions ==
  IF cmd.executables \/ Full THEN On({"WINPR_TOOLS"} \cup {o \in {"SAMPLE"} : "server" \in Sides}) ELSE <<>>

\* A mistake: cairo is looked for on Linux only.
Probe_mistake ==
  Dedupe(<<IF host.os = "Linux" /\ ~Has("cairo") THEN Off({"CAIRO"}) ELSE <<>>,
           IF host.os = "Linux" /\ ~Has("icu") THEN On({"UNICODE_BUILTIN"}) ELSE <<>>>>)

\* host_dependency_probe: cairo, and ICU for the unicode layer of winpr.
Probe ==
  Dedupe(<<IF host.os # "Windows" /\ ~Has("cairo") THEN Off({"CAIRO"}) ELSE <<>>,
           IF host.os = "Linux" /\ ~Has("icu") THEN On({"UNICODE_BUILTIN"}) ELSE <<>>>>)

\* krb5_options: refused where it is demanded and absent.
KerberosRefused ==
  /\ ~Has("krb5") /\ cmd.krb5 # "off"
  /\ (host.os = "Linux" /\ Full) \/ (host.os # "Windows" /\ cmd.krb5 = "on")
Kerberos == Has("krb5") /\ cmd.krb5 # "off" /\ (host.os = "Linux" \/ cmd.krb5 = "on")
KerberosOptions == IF host.os = "Windows" THEN <<>> ELSE Switch({"KRB5"}, Kerberos)

\* What build_host passes to cmake; PYFREERDP_EXTRA_CMAKE comes after it all.
Options ==
  Dedupe(<<Common, SideOptions, ProfileOptions, PlatformOptions, MediaOptions, ExecutableOptions,
           ChannelOptions, Probe, KerberosOptions,
           IF "ffmpeg" \in host.deps THEN Off({"CAIRO"}) ELSE <<>>, cmd.extra>>)

-----------------------------------------------------------------------------
(* CMake over FreeRDP, as the comments of the script describe it.          *)

IsOn(opts, key) == key \in DOMAIN opts /\ opts[key]
Transport == [static |-> "none", dynamic |-> "drdynvc", device |-> "rdpdr"]

\* A channel needs its transport, a half its side, and the client half its library.
CMakeChannel(opts, n) ==
  /\ IsOn(opts, <<"WITH", "CHANNELS">>) /\ IsOn(opts, <<"channel", n>>)
  /\ Table[n].type = "static" \/ IsOn(opts, <<"channel", Transport[Table[n].type]>>)
CMakeHalf(opts, h, n) ==
  /\ CMakeChannel(opts, n) /\ IsOn(opts, <<h, n>>)
  /\ IsOn(opts, <<"WITH", IF h = "client" THEN "CLIENT_CHANNELS" ELSE "SERVER_CHANNELS">>)
  /\ h = "client" => \A lib \in Table[n].needs : Has(lib)

\* Names FreeRDP does not have get no entry; a feature may be off that was asked for.
CMakeCache(opts) ==
  [k \in {k \in DOMAIN opts : k[1] # "WITH" => k[2] \in DOMAIN Table} |->
     CASE k[1] = "WITH"    -> opts[k] /\ k[2] \notin host.drops
       [] k[1] = "channel" -> CMakeChannel(opts, k[2])
       [] k[1] \in Halves  -> CMakeHalf(opts, k[1], k[2])]

\* Features that are required where they are on.
Required == [CAIRO |-> "cairo", SWSCALE |-> "ffmpeg", FFMPEG |-> "ffmpeg", OPENH264 |-> "openh264",
             X11 |-> "x11", WAYLAND |-> "wayland", KRB5 |-> "krb5"]
Aborts(opts) ==
  \/ \E o \in DOMAIN Required : IsOn(opts, <<"WITH", o>>) /\ ~Has(Required[o])
  \/ host.os = "Linux" /\ ~IsOn(opts, <<"WITH", "UNICODE_BUILTIN">>) /\ ~Has("icu")

-----------------------------------------------------------------------------
(* The run of the script.                                                  *)

Init == cmd \in CommandLines /\ host \in Machines /\ pc = "start" /\ cache = <<>>

\* main, then build_host up to the cmake command.
Refuse ==
  /\ pc = "start"
  /\ Clash \/ KerberosRefused
  /\ pc' = "refused"
  /\ UNCHANGED <<cmd, host, cache>>

Configure ==
  /\ pc = "start" /\ ~Clash /\ ~KerberosRefused
  /\ IF Aborts(Options) THEN pc' = "aborted" /\ UNCHANGED cache
     ELSE pc' = "configured" /\ cache' = CMakeCache(Options)
  /\ UNCHANGED <<cmd, host>>

\* A mistake: the expectation forgets the channels that the deps prefix enables.
Expected_mistake == ChannelSwitches(cmd.enable)

\* expected_channel_cache, computed apart from the options.
Expected == ChannelSwitches(cmd.enable \cup MediaChannels)

\* A mistake: only the channels are compared, not their halves.
ChannelsVerified_mistake ==
  \A k \in DOMAIN Expected :
    k[1] = "channel" => IF k \in DOMAIN cache THEN cache[k] = Expected[k] ELSE ~Expected[k]

\* verify_channel_cache: what has no entry must not be wanted.
ChannelsVerified ==
  \A k \in DOMAIN Expected : IF k \in DOMAIN cache THEN cache[k] = Expected[k] ELSE ~Expected[k]

\* verify_media_cache.
MediaVerified ==
  /\ \A o \in {"FFMPEG", "DSP_FFMPEG", "SWSCALE"} : IsOn(cache, <<"WITH", o>>) = ("ffmpeg" \in host.deps)
  /\ IsOn(cache, <<"WITH", "OPENH264">>) = ("openh264" \in host.deps)

KerberosVerified == IsOn(cache, <<"WITH", "KRB5">>) = Kerberos

VerifyConfiguration ==
  /\ pc = "configured"
  /\ LET verified == /\ cmd.channels => ChannelsVerified
                     /\ host.deps \cap {"ffmpeg", "openh264"} # {} => MediaVerified
                     /\ host.os # "Windows" => KerberosVerified
     IN pc' = IF verified THEN "building" ELSE "refused"
  /\ UNCHANGED <<cmd, host, cache>>

\* The library families the build installs; the proxy and the shadow server
\* are parts of the server.
Products ==
  {"winpr", "freerdp"}
  \cup {l \in {"freerdp-client"} : IsOn(cache, <<"WITH", "CLIENT_COMMON">>)}
  \cup {l \in {"freerdp-server"} : IsOn(cache, <<"WITH", "SERVER">>)}
  \cup {l \in {"freerdp-server-proxy"} : IsOn(cache, <<"WITH", "SERVER">>) /\ IsOn(cache, <<"WITH", "PROXY">>)}
  \cup {l \in {"freerdp-shadow", "freerdp-shadow-subsystem"} :
          IsOn(cache, <<"WITH", "SERVER">>) /\ IsOn(cache, <<"WITH", "SHADOW">>)}
  \cup {l \in {"uwac"} : IsOn(cache, <<"WITH", "WAYLAND">>)}

\* A mistake: the shadow server is promised on every platform.
Promised_mistake ==
  {"freerdp", "winpr"} \cup {l \in {"freerdp-client"} : "client" \in Sides}
  \cup {l \in {"freerdp-server"} : "server" \in Sides}
  \cup {l \in {"freerdp-shadow", "freerdp-shadow-subsystem"} : Full}

\* EXPECTED_LIBS and expected_libs.
Promised ==
  {"freerdp", "winpr"}
  \cup {l \in {"freerdp-client"} : "client" \in Sides}
  \cup {l \in {"freerdp-server"} : "server" \in Sides}
  \cup {l \in {"freerdp-shadow"} : cmd.profile = "server-only" \/ (Full /\ ShadowBuilds)}
  \cup {l \in {"freerdp-shadow-subsystem"} : Full /\ ShadowBuilds}
  \cup {l \in {"uwac"} : Full /\ host.os = "Linux"}

\* The names in which a stem is found: a stem is searched for as a substring.
NamesWith(stem) ==
  {stem} \cup CASE stem = "freerdp" -> {"freerdp-client", "freerdp-server", "freerdp-shadow"}
                [] stem = "freerdp-server" -> {"freerdp-server-proxy"}
                [] stem = "freerdp-shadow" -> {"freerdp-shadow-subsystem"}
                [] OTHER -> {}

\* cmake --build, --install, and verify_artifacts.
Build ==
  /\ pc = "building"
  /\ pc' = IF \A stem \in Promised : NamesWith(stem) \cap Products # {} THEN "done" ELSE "incomplete"
  /\ UNCHANGED <<cmd, host, cache>>

Next == Refuse \/ Configure \/ VerifyConfiguration \/ Build
Spec == Init /\ [][Next]_vars

-----------------------------------------------------------------------------
TypeOK ==
  /\ cmd \in CommandLines /\ host \in Machines
  /\ pc \in {"start", "configured", "building", "done", "refused", "aborted", "incomplete"}
  /\ \A k \in DOMAIN cache : cache[k] \in BOOLEAN

Configured == pc \in {"building", "done", "incomplete"}
Built(n) == {h \in Halves : IsOn(cache, <<h, n>>)}

\* Once the configuration is verified, the channels are the ones asked for,
\* whichever of the user, the profile, the platform and the deps prefix had
\* the last word: a disabled channel is in neither library, an enabled one in
\* every library of the profile that can have it, with its transport and the
\* switch of its library; a channel of another platform is there on request
\* only; and with --no-channels there is none, unless the user's own switches
\* turn channels on again: then nothing is compared.
ChannelsAsAsked ==
  Configured /\ (cmd.channels \/ DOMAIN cmd.extra = {}) => \A n \in DOMAIN Table :
    /\ (~cmd.channels \/ n \in cmd.disable) => Built(n) = {}
    /\ cmd.channels /\ n \in cmd.enable => Built(n) = Table[n].halves \cap Sides
    /\ Built(n) # {} =>
         /\ host.os \in Table[n].platforms \/ n \in cmd.enable \cup MediaChannels
         /\ Table[n].type # "static" => cache[<<"channel", Transport[Table[n].type]>>]
    /\ "client" \in Built(n) =>
         \A o \in Table[n].with : IsOn(cache, <<"WITH", o>>) \/ <<"WITH", o>> \in DOMAIN cmd.extra

\* What was asked for and CMake turned off.
Dropped == {o \in host.drops : IsOn(Options, <<"WITH", o>>)}

Wants(n) == cmd.channels /\ Resolve(n, Enabled) # {}

\* The checks after configure, whose expectations are computed apart from the
\* options, refuse a build only for a reason the user can act on: a channel
\* both asked for and disabled, a transport that is off under a channel that
\* needs it, a channel FreeRDP does not have, a library that is not there, a
\* codec that CMake dropped, or switches of the user's own.
RefusedForCause ==
  pc = "refused" =>
    \/ Clash
    \/ \E n \in DOMAIN Table : Wants(n) /\ Table[n].type # "static" /\ ~Wants(Transport[Table[n].type])
    \/ cmd.enable \ DOMAIN Table # {}
    \/ \E n \in DOMAIN Table : "client" \in Resolve(n, Enabled) /\ \E lib \in Table[n].needs : ~Has(lib)
    \/ ~Has("krb5")
    \/ Dropped \cap {"FFMPEG", "DSP_FFMPEG", "SWSCALE", "OPENH264"} # {}
    \/ DOMAIN cmd.extra # {}

\* CMake never stops for an optional library that is not there: every feature
\* that requires one has been switched off by one of the sources, and no later
\* source switches it on again, unless the user's own switches do.
ConfigureGoesThrough == pc = "aborted" => DOMAIN cmd.extra # {}

\* Images are scaled by one library: FFmpeg's when the deps prefix has it, and
\* cairo otherwise, although six sources set one switch or the other, and
\* although CMake may drop the one that was asked for.
OneScaler ==
  Configured /\ DOMAIN cmd.extra = {} =>
    /\ cache[<<"WITH", "SWSCALE">>] = ("ffmpeg" \in host.deps)
    /\ cache[<<"WITH", "CAIRO">>] =
         ("ffmpeg" \notin host.deps /\ host.os # "Windows" /\ Has("cairo"))

\* verify_artifacts, which derives what it expects from the profile and not
\* from the options, ends a build for the cause its message names, a feature
\* that CMake dropped (:2016-2019), or because the user's switches turned one
\* off.  The two other causes are disagreements of its table with the options
\* (see ProfilesCanBeBuilt).
IncompleteForCause ==
  pc = "incomplete" =>
    \/ Dropped \cap {"CLIENT_COMMON", "SERVER", "SHADOW"} # {}
    \/ DOMAIN cmd.extra # {}
    \/ cmd.profile = "server-only"
    \/ Full /\ host.os = "Linux" /\ ~Has("wayland")

\* scripts/BUILD.md:27: "Wayland and X11 are **detected**, not required"; and
\* the help of --profile (:3641-3642): "client-only/server-only: library-only
\* variants of minimal".  So no build that passed the checks of its
\* configuration is incomplete for want of them, or because of its profile:
\* not when CMake dropped nothing and the user set no switches.
ProfilesCanBeBuilt == DOMAIN cmd.extra = {} /\ Dropped = {} => pc # "incomplete"
=============================================================================
