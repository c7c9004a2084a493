------------------------- MODULE BuildConfig_proofs -------------------------
(***************************************************************************)
(* Theorems about BuildConfig, for every table of channels, every set of      *)
(* command lines and every machine.                                         *)
(*                                                                         *)
(* The invariant only says how each outcome came about (Outcomes).  The work   *)
(* is in what the options come to: which source speaks last about a key       *)
(* (LastWins, Decides), what each source says (...Say), and from these what    *)
(* eleven sources make of the switches the checks look at, which the checks    *)
(* compute in another way (ExpectationsMet, CodecsVerified, PromisesKept).     *)
(***************************************************************************)
EXTENDS BuildConfig, WellFoundedInduction, TLAPS

\* All sources of build_host, in order.
Sources ==
  <<Common, SideOptions, ProfileOptions, PlatformOptions, MediaOptions, ExecutableOptions,
    ChannelOptions, Probe, KerberosOptions,
    IF "ffmpeg" \in host.deps THEN Off({"CAIRO"}) ELSE <<>>, cmd.extra>>

\* A list of switches of the build, and of no channel.
Plain(opts, names) ==
  /\ \A o : <<"WITH", o>> \in DOMAIN opts <=> o \in names
  /\ \A k \in DOMAIN opts : k[1] = "WITH" /\ opts[k] \in BOOLEAN

\* The names that the sources mention which depend on the machine.
PlatformNames ==
  {"X11", "WAYLAND"} \cup (IF host.os = "Linux" THEN {"CUPS"} ELSE {})
                     \cup (IF host.os = "Windows" THEN {"CAIRO"} ELSE {})
NoCairo == IF "ffmpeg" \in host.deps THEN {"CAIRO"} ELSE {}
MediaNames == {"FFMPEG", "DSP_FFMPEG", "SWSCALE", "OPENH264"} \cup NoCairo
ExecutableNames ==
  IF cmd.executables \/ Full THEN {"WINPR_TOOLS"} \cup {o \in {"SAMPLE"} : "server" \in Sides} ELSE {}
ProbeNames ==
  (IF host.os # "Windows" /\ ~ Has("cairo") THEN {"CAIRO"} ELSE {})
    \cup (IF host.os = "Linux" /\ ~ Has("icu") THEN {"UNICODE_BUILTIN"} ELSE {})
KerberosNames == IF host.os = "Windows" THEN {} ELSE {"KRB5"}

\* The switches that the channels bring.
ChannelExtras == UNION {Table[n].with : n \in {m \in DOMAIN Table : "client" \in Resolve(m, Enabled)}}

\* The three checks of build_host.
Verified ==
  /\ cmd.channels => ChannelsVerified
  /\ host.deps \cap {"ffmpeg", "openh264"} # {} => MediaVerified
  /\ host.os # "Windows" => KerberosVerified

\* How each outcome came about.
Outcomes ==
  /\ pc \in {"configured", "building", "done", "incomplete"} => cache = CMakeCache(Options) /\ ~ Clash
  /\ pc \in {"building", "done", "incomplete"} => Verified
  /\ pc = "refused" => Clash \/ KerberosRefused \/ (cache = CMakeCache(Options) /\ ~ Verified)
  /\ pc = "aborted" => Aborts(Options)
  /\ pc = "incomplete" => \E stem \in Promised : NamesWith(stem) \cap Products = {}

IInv == TypeOK /\ Outcomes
-----------------------------------------------------------------------------
(* Lists of options.                                                        *)

\* The last source that names a key decides it.
LEMMA LastWins ==
  ASSUME NEW sources, NEW k, Len(sources) \in Nat, DOMAIN sources = 1..Len(sources)
  PROVE  \A i \in 1..Len(sources) :
           k \in DOMAIN sources[i] /\ (\A j \in (i + 1)..Len(sources) : k \notin DOMAIN sources[j])
             => k \in DOMAIN Dedupe(sources) /\ Dedupe(sources)[k] = sources[i][k]
<1> DEFINE P(m) == k \in DOMAIN sources[m] /\ \A j \in (m + 1)..Len(sources) : k \notin DOMAIN sources[j]
<1> SUFFICES ASSUME NEW i \in 1..Len(sources), P(i)
             PROVE  k \in DOMAIN Dedupe(sources) /\ Dedupe(sources)[k] = sources[i][k]
  OBVIOUS
<1>2. \A m \in 1..Len(sources) : P(m) => m = i
  <2> TAKE m \in 1..Len(sources)
  <2> HAVE P(m)
  <2>1. ~ (m < i) /\ ~ (i < m)
    OBVIOUS
  <2> QED
    BY <2>1
<1>3. (CHOOSE m \in DOMAIN sources : P(m)) = i
  <2>1. P(i)
    OBVIOUS
  <2> HIDE DEF P
  <2> QED
    BY <1>2, <2>1
<1>4. k \in DOMAIN Dedupe(sources)
  BY DEF Dedupe
<1> QED
  BY <1>3, <1>4 DEF Dedupe

\* And every key stems from a source.
LEMMA FromASource ==
  ASSUME NEW sources, NEW n \in Nat, DOMAIN sources = 1..n, Len(sources) = n,
         NEW k \in DOMAIN Dedupe(sources)
  PROVE  \E i \in 1..n : k \in DOMAIN sources[i] /\ Dedupe(sources)[k] = sources[i][k]
<1> DEFINE P(m) == k \in DOMAIN sources[m] /\ \A j \in (m + 1)..Len(sources) : k \notin DOMAIN sources[j]
           back == {n - i : i \in {j \in 1..n : k \in DOMAIN sources[j]}}
<1>1. back \subseteq Nat /\ back # {}
  BY DEF Dedupe
<1>2. PICK d \in back : \A e \in back : ~ (<<e, d>> \in OpToRel(<, Nat))
  <2> HIDE DEF back
  <2> QED
    BY <1>1, NatLessThanWellFounded, WFMin
<1>3. PICK i \in 1..n : k \in DOMAIN sources[i] /\ d = n - i
  OBVIOUS
<1>4. ASSUME NEW j \in (i + 1)..n PROVE k \notin DOMAIN sources[j]
  <2> SUFFICES ASSUME k \in DOMAIN sources[j] PROVE FALSE
    OBVIOUS
  <2>1. n - j \in back /\ n - j < d
    BY <1>3
  <2>2. n - j \in Nat /\ d \in Nat
    BY <1>1, <2>1
  <2>3. <<n - j, d>> \in OpToRel(<, Nat)
    BY <2>1, <2>2 DEF OpToRel
  <2> QED
    BY <1>2, <2>1, <2>3
<1>5. \A j \in (i + 1)..Len(sources) : k \notin DOMAIN sources[j]
  BY <1>4
<1>6. /\ i \in 1..Len(sources)
      /\ \A m \in 1..Len(sources) :
           k \in DOMAIN sources[m] /\ (\A j \in (m + 1)..Len(sources) : k \notin DOMAIN sources[j])
             => k \in DOMAIN Dedupe(sources) /\ Dedupe(sources)[k] = sources[m][k]
  BY LastWins
<1> QED
  BY <1>3, <1>5, <1>6

LEMMA Pair ==
  ASSUME NEW a, NEW b, NEW k
  PROVE  /\ k \in DOMAIN Dedupe(<<a, b>>) <=> k \in DOMAIN a \cup DOMAIN b
         /\ k \in DOMAIN b => Dedupe(<<a, b>>)[k] = b[k]
         /\ k \in DOMAIN a \ DOMAIN b => Dedupe(<<a, b>>)[k] = a[k]
<1>1. SUFFICES ASSUME NEW s, s = <<a, b>>
               PROVE  /\ k \in DOMAIN Dedupe(s) <=> k \in DOMAIN a \cup DOMAIN b
                      /\ k \in DOMAIN b => Dedupe(s)[k] = b[k]
                      /\ k \in DOMAIN a \ DOMAIN b => Dedupe(s)[k] = a[k]
  OBVIOUS
<1>2. DOMAIN s = 1..2 /\ Len(s) = 2 /\ s[1] = a /\ s[2] = b
  BY <1>1
<1>3. k \in DOMAIN Dedupe(s) <=> k \in DOMAIN a \cup DOMAIN b
  BY <1>2 DEF Dedupe
<1>4. \A i \in 1..2 : k \in DOMAIN s[i] /\ (\A j \in (i + 1)..2 : k \notin DOMAIN s[j])
                       => Dedupe(s)[k] = s[i][k]
  <2>1. Len(s) \in Nat /\ DOMAIN s = 1..Len(s)
    BY <1>2
  <2>2. \A i \in 1..Len(s) :
          k \in DOMAIN s[i] /\ (\A j \in (i + 1)..Len(s) : k \notin DOMAIN s[j])
            => k \in DOMAIN Dedupe(s) /\ Dedupe(s)[k] = s[i][k]
    BY <2>1, LastWins
  <2> QED
    BY <1>2, <2>2
<1>5. k \in DOMAIN s[2] => Dedupe(s)[k] = s[2][k]
  BY <1>4
<1>6. k \in DOMAIN s[1] /\ k \notin DOMAIN s[2] => Dedupe(s)[k] = s[1][k]
  BY <1>4
<1> QED
  BY <1>2, <1>3, <1>5, <1>6

LEMMA Triple ==
  ASSUME NEW a, NEW b, NEW c, NEW k
  PROVE  /\ k \in DOMAIN Dedupe(<<a, b, c>>) <=> k \in DOMAIN a \cup DOMAIN b \cup DOMAIN c
         /\ k \in DOMAIN c => Dedupe(<<a, b, c>>)[k] = c[k]
         /\ k \in DOMAIN b \ DOMAIN c => Dedupe(<<a, b, c>>)[k] = b[k]
         /\ k \in DOMAIN a \ (DOMAIN b \cup DOMAIN c) => Dedupe(<<a, b, c>>)[k] = a[k]
<1>1. SUFFICES ASSUME NEW s, s = <<a, b, c>>
               PROVE  /\ k \in DOMAIN Dedupe(s) <=> k \in DOMAIN a \cup DOMAIN b \cup DOMAIN c
                      /\ k \in DOMAIN c => Dedupe(s)[k] = c[k]
                      /\ k \in DOMAIN b \ DOMAIN c => Dedupe(s)[k] = b[k]
                      /\ k \in DOMAIN a \ (DOMAIN b \cup DOMAIN c) => Dedupe(s)[k] = a[k]
  OBVIOUS
<1>2. DOMAIN s = 1..3 /\ Len(s) = 3 /\ s[1] = a /\ s[2] = b /\ s[3] = c
  BY <1>1
<1>3. k \in DOMAIN Dedupe(s) <=> k \in DOMAIN a \cup DOMAIN b \cup DOMAIN c
  BY <1>2 DEF Dedupe
<1>4. \A i \in 1..3 : k \in DOMAIN s[i] /\ (\A j \in (i + 1)..3 : k \notin DOMAIN s[j])
                       => Dedupe(s)[k] = s[i][k]
  <2>1. Len(s) \in Nat /\ DOMAIN s = 1..Len(s)
    BY <1>2
  <2>2. \A i \in 1..Len(s) :
          k \in DOMAIN s[i] /\ (\A j \in (i + 1)..Len(s) : k \notin DOMAIN s[j])
            => k \in DOMAIN Dedupe(s) /\ Dedupe(s)[k] = s[i][k]
    BY <2>1, LastWins
  <2> QED
    BY <1>2, <2>2
<1>5. k \in DOMAIN s[3] => Dedupe(s)[k] = s[3][k]
  BY <1>4
<1>6. k \in DOMAIN s[2] /\ k \notin DOMAIN s[3] => Dedupe(s)[k] = s[2][k]
  BY <1>4
<1>7. k \in DOMAIN s[1] /\ k \notin DOMAIN s[2] /\ k \notin DOMAIN s[3] => Dedupe(s)[k] = s[1][k]
  BY <1>4
<1> QED
  BY <1>2, <1>3, <1>5, <1>6, <1>7

LEMMA BehindEach ==
  /\ {1, 2, 3, 4, 5} \subseteq 1..5
  /\ (5 + 1)..5 = {} /\ (4 + 1)..5 \subseteq {5} /\ (3 + 1)..5 \subseteq {4, 5}
  /\ (2 + 1)..5 \subseteq {3, 4, 5} /\ (1 + 1)..5 \subseteq {2, 3, 4, 5}
<1>1. {1, 2, 3, 4, 5} \subseteq 1..5
  OBVIOUS
<1>2. (5 + 1)..5 = {}
  OBVIOUS
<1>3. (4 + 1)..5 \subseteq {5}
  OBVIOUS
<1>4. (3 + 1)..5 \subseteq {4, 5}
  OBVIOUS
<1>5. (2 + 1)..5 \subseteq {3, 4, 5}
  OBVIOUS
<1>6. (1 + 1)..5 \subseteq {2, 3, 4, 5}
  OBVIOUS
<1> QED
  BY <1>1, <1>2, <1>3, <1>4, <1>5, <1>6

LEMMA Five ==
  ASSUME NEW a, NEW b, NEW c, NEW d, NEW e, NEW k
  PROVE  /\ k \in DOMAIN Dedupe(<<a, b, c, d, e>>) <=> k \in DOMAIN a \cup DOMAIN b \cup DOMAIN c \cup DOMAIN d \cup DOMAIN e
         /\ k \in DOMAIN e => Dedupe(<<a, b, c, d, e>>)[k] = e[k]
         /\ k \in DOMAIN d \ DOMAIN e => Dedupe(<<a, b, c, d, e>>)[k] = d[k]
         /\ k \in DOMAIN c \ (DOMAIN d \cup DOMAIN e) => Dedupe(<<a, b, c, d, e>>)[k] = c[k]
         /\ k \in DOMAIN b \ (DOMAIN c \cup DOMAIN d \cup DOMAIN e) => Dedupe(<<a, b, c, d, e>>)[k] = b[k]
         /\ k \in DOMAIN a \ (DOMAIN b \cup DOMAIN c \cup DOMAIN d \cup DOMAIN e) => Dedupe(<<a, b, c, d, e>>)[k] = a[k]
<1>1. SUFFICES ASSUME NEW s, s = <<a, b, c, d, e>>
               PROVE  /\ k \in DOMAIN Dedupe(s) <=> k \in DOMAIN a \cup DOMAIN b \cup DOMAIN c \cup DOMAIN d \cup DOMAIN e
                      /\ k \in DOMAIN e => Dedupe(s)[k] = e[k]
                      /\ k \in DOMAIN d \ DOMAIN e => Dedupe(s)[k] = d[k]
                      /\ k \in DOMAIN c \ (DOMAIN d \cup DOMAIN e) => Dedupe(s)[k] = c[k]
                      /\ k \in DOMAIN b \ (DOMAIN c \cup DOMAIN d \cup DOMAIN e) => Dedupe(s)[k] = b[k]
                      /\ k \in DOMAIN a \ (DOMAIN b \cup DOMAIN c \cup DOMAIN d \cup DOMAIN e) => Dedupe(s)[k] = a[k]
  OBVIOUS
<1>2. DOMAIN s = 1..5 /\ Len(s) = 5 /\ s[1] = a /\ s[2] = b /\ s[3] = c /\ s[4] = d /\ s[5] = e
  BY <1>1
<1>3. k \in DOMAIN Dedupe(s) <=> k \in DOMAIN a \cup DOMAIN b \cup DOMAIN c \cup DOMAIN d \cup DOMAIN e
  BY <1>2 DEF Dedupe
<1>4. \A i \in 1..5 : k \in DOMAIN s[i] /\ (\A j \in (i + 1)..5 : k \notin DOMAIN s[j])
                       => Dedupe(s)[k] = s[i][k]
  <2>1. Len(s) \in Nat /\ DOMAIN s = 1..Len(s)
    BY <1>2
  <2>2. \A i \in 1..Len(s) :
          k \in DOMAIN s[i] /\ (\A j \in (i + 1)..Len(s) : k \notin DOMAIN s[j])
            => k \in DOMAIN Dedupe(s) /\ Dedupe(s)[k] = s[i][k]
    BY <2>1, LastWins
  <2> QED
    BY <1>2, <2>2
<1>5. k \in DOMAIN s[5] => Dedupe(s)[k] = s[5][k]
  BY <1>4, BehindEach
<1>6. k \in DOMAIN s[4] \ DOMAIN s[5] => Dedupe(s)[k] = s[4][k]
  BY <1>4, BehindEach
<1>7. k \in DOMAIN s[3] /\ k \notin DOMAIN s[4] /\ k \notin DOMAIN s[5] => Dedupe(s)[k] = s[3][k]
  BY <1>4, BehindEach
<1>8. k \in DOMAIN s[2] /\ k \notin DOMAIN s[3] /\ k \notin DOMAIN s[4] /\ k \notin DOMAIN s[5]
        => Dedupe(s)[k] = s[2][k]
  BY <1>4, BehindEach
<1>9. k \in DOMAIN s[1] /\ (\A j \in {2, 3, 4, 5} : k \notin DOMAIN s[j]) => Dedupe(s)[k] = s[1][k]
  BY <1>4, BehindEach
<1> QED
  BY <1>2, <1>3, <1>5, <1>6, <1>7, <1>8, <1>9

-----------------------------------------------------------------------------
(* The sources, one by one.                                                 *)

LEMMA SwitchIsPlain ==
  ASSUME NEW names
  PROVE  /\ Plain(On(names), names) /\ Plain(Off(names), names)
         /\ \A o \in names : On(names)[<<"WITH", o>>] = TRUE /\ Off(names)[<<"WITH", o>>] = FALSE
<1> DEFINE keys == {<<"WITH", n>> : n \in names}
<1>1. \A o : <<"WITH", o>> \in keys <=> o \in names
  OBVIOUS
<1>2. \A k \in keys : k[1] = "WITH"
  OBVIOUS
<1> HIDE DEF keys
<1>3. On(names) = [k \in keys |-> TRUE] /\ Off(names) = [k \in keys |-> FALSE]
  BY DEF On, Off, keys
<1>4. Plain(On(names), names) /\ \A o \in names : On(names)[<<"WITH", o>>] = TRUE
  BY <1>1, <1>2, <1>3 DEF Plain
<1>5. DOMAIN Off(names) = keys /\ \A k \in keys : Off(names)[k] = FALSE
  BY <1>3
<1>6. Plain(Off(names), names) /\ \A o \in names : Off(names)[<<"WITH", o>>] = FALSE
  BY <1>1, <1>2, <1>5 DEF Plain
<1> QED
  BY <1>4, <1>6

LEMMA NothingIsPlain == Plain(<<>>, {})
BY DEF Plain

LEMMA PairIsPlain ==
  ASSUME NEW a, NEW b, NEW A, NEW B, Plain(a, A), Plain(b, B)
  PROVE  Plain(Dedupe(<<a, b>>), A \cup B)
<1>1. \A o : <<"WITH", o>> \in DOMAIN Dedupe(<<a, b>>) <=> o \in A \cup B
  BY Pair DEF Plain
<1>2. ASSUME NEW k \in DOMAIN Dedupe(<<a, b>>)
      PROVE  k[1] = "WITH" /\ Dedupe(<<a, b>>)[k] \in BOOLEAN
  <2>1. k \in DOMAIN b \/ k \in DOMAIN a \ DOMAIN b
    BY Pair
  <2> QED
    BY <2>1, Pair DEF Plain
<1> QED
  BY <1>1, <1>2 DEF Plain

LEMMA TripleIsPlain ==
  ASSUME NEW a, NEW b, NEW c, NEW A, NEW B, NEW C, Plain(a, A), Plain(b, B), Plain(c, C)
  PROVE  Plain(Dedupe(<<a, b, c>>), A \cup B \cup C)
<1>1. \A o : <<"WITH", o>> \in DOMAIN Dedupe(<<a, b, c>>) <=> o \in A \cup B \cup C
  BY Triple DEF Plain
<1>2. ASSUME NEW k \in DOMAIN Dedupe(<<a, b, c>>)
      PROVE  k[1] = "WITH" /\ Dedupe(<<a, b, c>>)[k] \in BOOLEAN
  <2>1. \/ k \in DOMAIN c \/ k \in DOMAIN b \ DOMAIN c
        \/ k \in DOMAIN a \ (DOMAIN b \cup DOMAIN c)
    BY Triple
  <2> QED
    BY <2>1, Triple DEF Plain
<1> QED
  BY <1>1, <1>2 DEF Plain

LEMMA CommonSays ==
  /\ Plain(Common, {"SAMPLE", "FFMPEG", "DSP_FFMPEG", "SWSCALE", "OPENH264", "CAIRO"})
  /\ Common[<<"WITH", "CAIRO">>] = TRUE
<1>1. PICK a, b : /\ a = Off({"SAMPLE", "FFMPEG", "DSP_FFMPEG", "SWSCALE", "OPENH264"}) /\ b = On({"CAIRO"})
                 /\ Common = Dedupe(<<a, b>>)
  BY DEF Common
<1>2. /\ Plain(a, {"SAMPLE", "FFMPEG", "DSP_FFMPEG", "SWSCALE", "OPENH264"})
      /\ Plain(b, {"CAIRO"}) /\ b[<<"WITH", "CAIRO">>] = TRUE
  BY <1>1, SwitchIsPlain
<1>3. Plain(Common, {"SAMPLE", "FFMPEG", "DSP_FFMPEG", "SWSCALE", "OPENH264"} \cup {"CAIRO"})
  BY <1>1, <1>2, PairIsPlain
<1>4. <<"WITH", "CAIRO">> \in DOMAIN b
  BY <1>2 DEF Plain
<1>5. {"SAMPLE", "FFMPEG", "DSP_FFMPEG", "SWSCALE", "OPENH264"} \cup {"CAIRO"}
        = {"SAMPLE", "FFMPEG", "DSP_FFMPEG", "SWSCALE", "OPENH264", "CAIRO"}
  OBVIOUS
<1> QED
  BY <1>1, <1>2, <1>3, <1>4, <1>5, Pair

LEMMA SideSays ==
  /\ Plain(SideOptions, {"CLIENT", "CLIENT_COMMON", "SERVER"})
  /\ SideOptions[<<"WITH", "CLIENT_COMMON">>] <=> "client" \in Sides
  /\ SideOptions[<<"WITH", "SERVER">>] <=> "server" \in Sides
<1>1. PICK a, b : /\ a = Switch({"CLIENT", "CLIENT_COMMON"}, "client" \in Sides)
                 /\ b = Switch({"SERVER"}, "server" \in Sides)
                 /\ SideOptions = Dedupe(<<a, b>>)
  BY DEF SideOptions
<1>2. /\ Plain(a, {"CLIENT", "CLIENT_COMMON"}) /\ (a[<<"WITH", "CLIENT_COMMON">>] <=> "client" \in Sides)
      /\ Plain(b, {"SERVER"}) /\ (b[<<"WITH", "SERVER">>] <=> "server" \in Sides)
  BY <1>1, SwitchIsPlain DEF Switch
<1>3. Plain(SideOptions, {"CLIENT", "CLIENT_COMMON"} \cup {"SERVER"})
  BY <1>1, <1>2, PairIsPlain
<1>4. /\ <<"WITH", "SERVER">> \in DOMAIN b
      /\ <<"WITH", "CLIENT_COMMON">> \in DOMAIN a \ DOMAIN b
  BY <1>2 DEF Plain
<1>5. {"CLIENT", "CLIENT_COMMON"} \cup {"SERVER"} = {"CLIENT", "CLIENT_COMMON", "SERVER"}
  OBVIOUS
<1> QED
  BY <1>1, <1>2, <1>3, <1>4, <1>5, Pair

LEMMA ProfileSays ==
  /\ Plain(ProfileOptions, {"SHADOW", "PROXY", "SAMPLE", "WINPR_TOOLS"})
  /\ ProfileOptions[<<"WITH", "SHADOW">>] <=> Full /\ ShadowBuilds
  /\ ProfileOptions[<<"WITH", "PROXY">>] <=> Full
<1>1. PICK a, b : /\ a = Switch({"SHADOW"}, Full /\ ShadowBuilds)
                 /\ b = Switch({"PROXY", "SAMPLE", "WINPR_TOOLS"}, Full)
                 /\ ProfileOptions = Dedupe(<<a, b>>)
  BY DEF ProfileOptions
<1>2. /\ Plain(a, {"SHADOW"}) /\ (a[<<"WITH", "SHADOW">>] <=> Full /\ ShadowBuilds)
      /\ Plain(b, {"PROXY", "SAMPLE", "WINPR_TOOLS"}) /\ (b[<<"WITH", "PROXY">>] <=> Full)
  BY <1>1, SwitchIsPlain DEF Switch
<1>3. Plain(ProfileOptions, {"SHADOW"} \cup {"PROXY", "SAMPLE", "WINPR_TOOLS"})
  BY <1>1, <1>2, PairIsPlain
<1>4. /\ <<"WITH", "PROXY">> \in DOMAIN b
      /\ <<"WITH", "SHADOW">> \in DOMAIN a \ DOMAIN b
  BY <1>2 DEF Plain
<1>5. {"SHADOW"} \cup {"PROXY", "SAMPLE", "WINPR_TOOLS"} = {"SHADOW", "PROXY", "SAMPLE", "WINPR_TOOLS"}
  OBVIOUS
<1> QED
  BY <1>1, <1>2, <1>3, <1>4, <1>5, Pair

LEMMA PlatformSays ==
  ASSUME host.os \in {"Linux", "Darwin", "Windows"}
  PROVE  /\ Plain(PlatformOptions, PlatformNames)
         /\ PlatformOptions[<<"WITH", "X11">>] <=> host.os = "Linux" /\ Full /\ Has("x11")
         /\ PlatformOptions[<<"WITH", "WAYLAND">>] <=> host.os = "Linux" /\ Full /\ Has("wayland")
         /\ host.os = "Windows" => PlatformOptions[<<"WITH", "CAIRO">>] = FALSE
<1>1. CASE host.os = "Linux"
  <2>1. PICK a, b, c : /\ a = Switch({"X11"}, Full /\ Has("x11")) /\ b = Switch({"WAYLAND"}, Full /\ Has("wayland"))
                       /\ c = Off({"CUPS"}) /\ PlatformOptions = Dedupe(<<a, b, c>>)
    BY <1>1 DEF PlatformOptions
  <2>2. /\ Plain(a, {"X11"}) /\ (a[<<"WITH", "X11">>] <=> Full /\ Has("x11"))
        /\ Plain(b, {"WAYLAND"}) /\ (b[<<"WITH", "WAYLAND">>] <=> Full /\ Has("wayland"))
        /\ Plain(c, {"CUPS"})
    BY <2>1, SwitchIsPlain DEF Switch
  <2>3. Plain(PlatformOptions, {"X11"} \cup {"WAYLAND"} \cup {"CUPS"})
    BY <2>1, <2>2, TripleIsPlain
  <2>4. /\ <<"WITH", "X11">> \in DOMAIN a \ (DOMAIN b \cup DOMAIN c)
        /\ <<"WITH", "WAYLAND">> \in DOMAIN b \ DOMAIN c
    BY <2>2 DEF Plain
  <2>5. /\ PlatformOptions[<<"WITH", "X11">>] <=> Full /\ Has("x11")
        /\ PlatformOptions[<<"WITH", "WAYLAND">>] <=> Full /\ Has("wayland")
    BY <2>1, <2>2, <2>4, Triple
  <2>6. PlatformNames = {"X11"} \cup {"WAYLAND"} \cup {"CUPS"}
    BY <1>1 DEF PlatformNames
  <2> QED
    BY <1>1, <2>3, <2>5, <2>6
<1>2. CASE host.os = "Darwin"
  <2>1. PlatformOptions = Off({"X11", "WAYLAND"}) /\ PlatformNames = {"X11", "WAYLAND"}
    BY <1>2 DEF PlatformOptions, PlatformNames
  <2> QED
    BY <1>2, <2>1, SwitchIsPlain
<1>3. CASE host.os = "Windows"
  <2>1. PlatformOptions = Off({"X11", "WAYLAND", "CAIRO"}) /\ PlatformNames = {"X11", "WAYLAND", "CAIRO"}
    BY <1>3 DEF PlatformOptions, PlatformNames
  <2> QED
    BY <1>3, <2>1, SwitchIsPlain
<1> QED
  BY <1>1, <1>2, <1>3

LEMMA NoCairoSays ==
  LET opts == IF "ffmpeg" \in host.deps THEN Off({"CAIRO"}) ELSE <<>>
  IN  Plain(opts, NoCairo) /\ ("ffmpeg" \in host.deps => opts[<<"WITH", "CAIRO">>] = FALSE)
BY SwitchIsPlain, NothingIsPlain DEF NoCairo

LEMMA MediaSays ==
  /\ Plain(MediaOptions, MediaNames)
  /\ \A o \in {"FFMPEG", "DSP_FFMPEG", "SWSCALE"} : MediaOptions[<<"WITH", o>>] <=> "ffmpeg" \in host.deps
  /\ MediaOptions[<<"WITH", "OPENH264">>] <=> "openh264" \in host.deps
<1> DEFINE F == {"FFMPEG", "DSP_FFMPEG", "SWSCALE"}
           a == Switch(F, "ffmpeg" \in host.deps)
           b == IF "ffmpeg" \in host.deps THEN Off({"CAIRO"}) ELSE <<>>
           c == Switch({"OPENH264"}, "openh264" \in host.deps)
<1>1. MediaOptions = Dedupe(<<a, b, c>>)
  BY DEF MediaOptions
<1>2. Plain(b, NoCairo)
  BY SwitchIsPlain, NothingIsPlain DEF NoCairo
<1>3. Plain(a, F) /\ \A o \in F : a[<<"WITH", o>>] <=> "ffmpeg" \in host.deps
  <2>1. IF "ffmpeg" \in host.deps THEN a = On(F) ELSE a = Off(F)
    BY DEF Switch
  <2> HIDE DEF a, F
  <2> QED
    BY <2>1, SwitchIsPlain
<1>4. Plain(c, {"OPENH264"}) /\ (c[<<"WITH", "OPENH264">>] <=> "openh264" \in host.deps)
  <2>1. IF "openh264" \in host.deps THEN c = On({"OPENH264"}) ELSE c = Off({"OPENH264"})
    BY DEF Switch
  <2> HIDE DEF c
  <2> QED
    BY <2>1, SwitchIsPlain
<1> HIDE DEF a, b, c
<1>5. Plain(MediaOptions, F \cup NoCairo \cup {"OPENH264"})
  BY <1>1, <1>2, <1>3, <1>4, TripleIsPlain
<1>6. /\ \A o \in F : <<"WITH", o>> \in DOMAIN a \ (DOMAIN b \cup DOMAIN c)
      /\ <<"WITH", "OPENH264">> \in DOMAIN c
  BY <1>2, <1>3, <1>4 DEF Plain, NoCairo
<1>7. /\ \A o \in F : MediaOptions[<<"WITH", o>>] = a[<<"WITH", o>>]
      /\ MediaOptions[<<"WITH", "OPENH264">>] = c[<<"WITH", "OPENH264">>]
  <2> HIDE DEF F
  <2> QED
    BY <1>1, <1>6, Triple
<1>8. MediaNames = F \cup NoCairo \cup {"OPENH264"}
  BY DEF MediaNames
<1> QED
  BY <1>3, <1>4, <1>5, <1>7, <1>8

LEMMA ExecutablesSay == Plain(ExecutableOptions, ExecutableNames)
<1>1. CASE cmd.executables \/ Full
  BY <1>1, SwitchIsPlain DEF ExecutableOptions, ExecutableNames
<1>2. CASE ~ (cmd.executables \/ Full)
  BY <1>2, NothingIsPlain DEF ExecutableOptions, ExecutableNames
<1> QED
  BY <1>1, <1>2

LEMMA ProbeSays ==
  /\ Plain(Probe, ProbeNames)
  /\ "CAIRO" \in ProbeNames => Probe[<<"WITH", "CAIRO">>] = FALSE
  /\ "UNICODE_BUILTIN" \in ProbeNames => Probe[<<"WITH", "UNICODE_BUILTIN">>] = TRUE
<1>1. PICK a, b, A, B :
        /\ a = (IF host.os # "Windows" /\ ~ Has("cairo") THEN Off({"CAIRO"}) ELSE <<>>)
        /\ A = (IF host.os # "Windows" /\ ~ Has("cairo") THEN {"CAIRO"} ELSE {})
        /\ b = (IF host.os = "Linux" /\ ~ Has("icu") THEN On({"UNICODE_BUILTIN"}) ELSE <<>>)
        /\ B = (IF host.os = "Linux" /\ ~ Has("icu") THEN {"UNICODE_BUILTIN"} ELSE {})
  OBVIOUS
<1>2. Probe = Dedupe(<<a, b>>) /\ ProbeNames = A \cup B
  BY <1>1 DEF Probe, ProbeNames
<1>3. /\ Plain(a, A) /\ A \subseteq {"CAIRO"}
      /\ "CAIRO" \in A => a[<<"WITH", "CAIRO">>] = FALSE
  BY <1>1, SwitchIsPlain, NothingIsPlain
<1>4. /\ Plain(b, B) /\ B \subseteq {"UNICODE_BUILTIN"}
      /\ "UNICODE_BUILTIN" \in B => b[<<"WITH", "UNICODE_BUILTIN">>] = TRUE
  BY <1>1, SwitchIsPlain, NothingIsPlain
<1>5. "CAIRO" \in ProbeNames => Probe[<<"WITH", "CAIRO">>] = FALSE
  <2>1. "CAIRO" \in ProbeNames => "CAIRO" \in A /\ "CAIRO" \notin B
    BY <1>2, <1>4
  <2>2. "CAIRO" \in A => <<"WITH", "CAIRO">> \in DOMAIN a
    BY <1>3 DEF Plain
  <2>3. "CAIRO" \notin B => <<"WITH", "CAIRO">> \notin DOMAIN b
    BY <1>4 DEF Plain
  <2> QED
    BY <1>2, <1>3, <2>1, <2>2, <2>3, Pair
<1>6. "UNICODE_BUILTIN" \in ProbeNames => Probe[<<"WITH", "UNICODE_BUILTIN">>] = TRUE
  <2>1. "UNICODE_BUILTIN" \in ProbeNames => "UNICODE_BUILTIN" \in B
    BY <1>2, <1>3
  <2>2. "UNICODE_BUILTIN" \in B => <<"WITH", "UNICODE_BUILTIN">> \in DOMAIN b
    BY <1>4 DEF Plain
  <2> QED
    BY <1>2, <1>4, <2>1, <2>2, Pair
<1> QED
  BY <1>2, <1>3, <1>4, <1>5, <1>6, PairIsPlain

LEMMA KerberosSays ==
  /\ Plain(KerberosOptions, KerberosNames)
  /\ host.os # "Windows" => (KerberosOptions[<<"WITH", "KRB5">>] <=> Kerberos)
<1>1. CASE host.os = "Windows"
  BY <1>1, NothingIsPlain DEF KerberosOptions, KerberosNames
<1>2. CASE host.os # "Windows"
  BY <1>2, SwitchIsPlain DEF KerberosOptions, KerberosNames, Switch
<1> QED
  BY <1>1, <1>2

LEMMA ExtrasAreUnchecked == ChannelExtras \cap Checked = {}
BY TableAssumption DEF ChannelExtras

\* A channel has a key when it is known, enabled or disabled, its halves when
\* it is on.
LEMMA ChannelsSay ==
  ASSUME NEW enable
  PROVE  /\ \A k \in DOMAIN ChannelSwitches(enable) :
              k[1] \in {"channel"} \cup Halves /\ ChannelSwitches(enable)[k] \in BOOLEAN
         /\ \A n \in DOMAIN Table \cup enable \cup cmd.disable :
              /\ <<"channel", n>> \in DOMAIN ChannelSwitches(enable)
              /\ ChannelSwitches(enable)[<<"channel", n>>] <=> Resolve(n, enable) # {}
         /\ \A n : \A h \in Halves :
              /\ <<h, n>> \in DOMAIN ChannelSwitches(enable)
                   <=> n \in DOMAIN Table \cup enable \cup cmd.disable /\ Resolve(n, enable) # {}
              /\ <<h, n>> \in DOMAIN ChannelSwitches(enable) =>
                   (ChannelSwitches(enable)[<<h, n>>] <=> h \in Resolve(n, enable))
         /\ \A k \in DOMAIN ChannelSwitches(enable) :
              k = <<k[1], k[2]>> /\ k[2] \in DOMAIN Table \cup enable \cup cmd.disable
<1> DEFINE names == DOMAIN Table \cup enable \cup cmd.disable
           on == {n \in names : Resolve(n, enable) # {}}
           keys == {<<"channel", n>> : n \in names} \cup (Halves \X on)
           value(k) == IF k[1] = "channel" THEN k[2] \in on ELSE k[1] \in Resolve(k[2], enable)
<1>1. ChannelSwitches(enable) = [k \in keys |-> value(k)]
  BY DEF ChannelSwitches
<1>2. \A n \in names : <<"channel", n>> \in keys
  OBVIOUS
<1>3. \A n : \A h \in Halves : <<h, n>> \in keys <=> n \in on
  BY DEF Halves
<1>4. \A k \in keys : k[1] \in {"channel"} \cup Halves
  OBVIOUS
<1>5. ASSUME NEW k \in keys PROVE value(k) \in BOOLEAN
  <2>1. CASE k[1] = "channel"
    BY <2>1
  <2>2. CASE k[1] # "channel"
    BY <2>2
  <2> QED
    BY <2>1, <2>2
<1>6. \A n \in names : value(<<"channel", n>>) <=> Resolve(n, enable) # {}
  OBVIOUS
<1>7. \A n \in on : \A h \in Halves : value(<<h, n>>) <=> h \in Resolve(n, enable)
  BY DEF Halves
<1>8. \A k \in keys : k = <<k[1], k[2]>> /\ k[2] \in names
  OBVIOUS
<1>9. DOMAIN ChannelSwitches(enable) = keys /\ \A k \in keys : ChannelSwitches(enable)[k] = value(k)
  <2> HIDE DEF keys, value
  <2> QED
    BY <1>1
<1> HIDE DEF keys, value
<1> QED
  BY <1>2, <1>3, <1>4, <1>5, <1>6, <1>7, <1>8, <1>9

\* The channels have the last word in their own list.
LEMMA ChannelOptionsSay ==
  ASSUME cmd.channels
  PROVE  /\ \A k \in DOMAIN ChannelOptions :
              (k[1] = "WITH" \/ k \in DOMAIN Expected) /\ ChannelOptions[k] \in BOOLEAN
         /\ \A o : <<"WITH", o>> \in DOMAIN ChannelOptions
                      <=> o \in {"CHANNELS", "CLIENT_CHANNELS", "SERVER_CHANNELS"} \cup ChannelExtras
         /\ ChannelOptions[<<"WITH", "CHANNELS">>] = TRUE
         /\ ChannelOptions[<<"WITH", "CLIENT_CHANNELS">>] <=> "client" \in Sides
         /\ ChannelOptions[<<"WITH", "SERVER_CHANNELS">>] <=> "server" \in Sides
         /\ \A o \in ChannelExtras : ChannelOptions[<<"WITH", o>>] = TRUE
         /\ \A k \in DOMAIN Expected : k \in DOMAIN ChannelOptions /\ ChannelOptions[k] = Expected[k]
<1>1. PICK a, b, c, d, e :
        /\ a = On({"CHANNELS"}) /\ b = Switch({"CLIENT_CHANNELS"}, "client" \in Sides)
        /\ c = Switch({"SERVER_CHANNELS"}, "server" \in Sides) /\ d = Expected /\ e = On(ChannelExtras)
        /\ ChannelOptions = Dedupe(<<a, b, c, d, e>>)
  BY DEF ChannelOptions, Expected, Enabled, ChannelExtras
<1>2. /\ Plain(a, {"CHANNELS"}) /\ a[<<"WITH", "CHANNELS">>] = TRUE
      /\ Plain(b, {"CLIENT_CHANNELS"}) /\ (b[<<"WITH", "CLIENT_CHANNELS">>] <=> "client" \in Sides)
      /\ Plain(c, {"SERVER_CHANNELS"}) /\ (c[<<"WITH", "SERVER_CHANNELS">>] <=> "server" \in Sides)
  BY <1>1, SwitchIsPlain DEF Switch
<1>3. Plain(e, ChannelExtras) /\ \A o \in ChannelExtras : e[<<"WITH", o>>] = TRUE
  BY <1>1, SwitchIsPlain
<1>4. \A k \in DOMAIN d : k[1] \in {"channel"} \cup Halves /\ d[k] \in BOOLEAN
  BY <1>1, ChannelsSay DEF Expected
<1>5. \A k \in DOMAIN d : k[1] # "WITH"
  BY <1>4 DEF Halves
<1>6. \A k \in DOMAIN a \cup DOMAIN b \cup DOMAIN c \cup DOMAIN e : k[1] = "WITH"
  BY <1>2, <1>3 DEF Plain
<1>7. {"CHANNELS", "CLIENT_CHANNELS", "SERVER_CHANNELS"} \cap ChannelExtras = {}
  BY ExtrasAreUnchecked DEF Checked
<1>8. ASSUME NEW k \in DOMAIN ChannelOptions
      PROVE  (k[1] = "WITH" \/ k \in DOMAIN Expected) /\ ChannelOptions[k] \in BOOLEAN
  <2>1. k \in DOMAIN a \cup DOMAIN b \cup DOMAIN c \cup DOMAIN d \cup DOMAIN e
    BY <1>1, Five
  <2>2. k[1] = "WITH" \/ k \in DOMAIN Expected
    BY <1>1, <1>6, <2>1
  <2>3. \A f \in {a, b, c, d, e} : k \in DOMAIN f => f[k] \in BOOLEAN
    BY <1>2, <1>3, <1>4 DEF Plain
  <2>4. \E f \in {a, b, c, d, e} : k \in DOMAIN f /\ ChannelOptions[k] = f[k]
    BY <1>1, <2>1, Five
  <2> QED
    BY <2>2, <2>3, <2>4
<1>9. ASSUME NEW o
      PROVE  <<"WITH", o>> \in DOMAIN ChannelOptions
               <=> o \in {"CHANNELS", "CLIENT_CHANNELS", "SERVER_CHANNELS"} \cup ChannelExtras
  <2>1. <<"WITH", o>> \notin DOMAIN d
    BY <1>5
  <2>2. <<"WITH", o>> \in DOMAIN ChannelOptions
          <=> <<"WITH", o>> \in DOMAIN a \cup DOMAIN b \cup DOMAIN c \cup DOMAIN d \cup DOMAIN e
    BY <1>1, Five
  <2> QED
    BY <1>2, <1>3, <2>1, <2>2 DEF Plain
<1>10. /\ ChannelOptions[<<"WITH", "CHANNELS">>] = a[<<"WITH", "CHANNELS">>]
       /\ ChannelOptions[<<"WITH", "CLIENT_CHANNELS">>] = b[<<"WITH", "CLIENT_CHANNELS">>]
       /\ ChannelOptions[<<"WITH", "SERVER_CHANNELS">>] = c[<<"WITH", "SERVER_CHANNELS">>]
  <2>1. /\ <<"WITH", "CHANNELS">> \in DOMAIN a \ (DOMAIN b \cup DOMAIN c \cup DOMAIN d \cup DOMAIN e)
        /\ <<"WITH", "CLIENT_CHANNELS">> \in DOMAIN b \ (DOMAIN c \cup DOMAIN d \cup DOMAIN e)
        /\ <<"WITH", "SERVER_CHANNELS">> \in DOMAIN c \ (DOMAIN d \cup DOMAIN e)
    BY <1>2, <1>3, <1>5, <1>7 DEF Plain
  <2> QED
    BY <1>1, <2>1, Five
<1>11. \A o \in ChannelExtras : ChannelOptions[<<"WITH", o>>] = TRUE
  <2> TAKE o \in ChannelExtras
  <2>1. <<"WITH", o>> \in DOMAIN e
    BY <1>3 DEF Plain
  <2> QED
    BY <1>1, <1>3, <2>1, Five
<1>12. ASSUME NEW k \in DOMAIN Expected
       PROVE  k \in DOMAIN ChannelOptions /\ ChannelOptions[k] = Expected[k]
  <2>1. k \in DOMAIN d \ DOMAIN e
    BY <1>1, <1>5, <1>6
  <2> QED
    BY <1>1, <2>1, Five
<1> QED
  BY <1>2, <1>8, <1>9, <1>10, <1>11, <1>12
-----------------------------------------------------------------------------
(* All sources together.                                                    *)

LEMMA SourcesInOrder ==
  /\ DOMAIN Sources = 1..11 /\ Len(Sources) = 11 /\ Options = Dedupe(Sources)
  /\ Sources[1] = Common /\ Sources[2] = SideOptions /\ Sources[3] = ProfileOptions
  /\ Sources[4] = PlatformOptions /\ Sources[5] = MediaOptions /\ Sources[6] = ExecutableOptions
  /\ Sources[7] = ChannelOptions /\ Sources[8] = Probe /\ Sources[9] = KerberosOptions
  /\ Sources[10] = (IF "ffmpeg" \in host.deps THEN Off({"CAIRO"}) ELSE <<>>) /\ Sources[11] = cmd.extra
BY DEF Sources, Options

\* A source decides what no later one mentions.
LEMMA Decides ==
  ASSUME NEW k
  PROVE  \A i \in 1..11 :
           k \in DOMAIN Sources[i] /\ (\A j \in (i + 1)..11 : k \notin DOMAIN Sources[j])
             => k \in DOMAIN Options /\ Options[k] = Sources[i][k]
<1>1. PICK s : s = Sources
  OBVIOUS
<1>2. Len(s) = 11 /\ DOMAIN s = 1..11 /\ Options = Dedupe(s)
  BY <1>1, SourcesInOrder
<1>3. Len(s) \in Nat /\ DOMAIN s = 1..Len(s)
  BY <1>2
<1>4. \A i \in 1..Len(s) :
        k \in DOMAIN s[i] /\ (\A j \in (i + 1)..Len(s) : k \notin DOMAIN s[j])
          => k \in DOMAIN Dedupe(s) /\ Dedupe(s)[k] = s[i][k]
  BY <1>3, LastWins
<1> QED
  BY <1>1, <1>2, <1>4

LEMMA NoChannels ==
  ASSUME ~ cmd.channels
  PROVE  /\ Plain(ChannelOptions, {"CHANNELS", "CLIENT_CHANNELS", "SERVER_CHANNELS"})
         /\ ChannelOptions[<<"WITH", "CHANNELS">>] = FALSE
BY SwitchIsPlain DEF ChannelOptions

\* Which source mentions which switch.
LEMMA Mentions ==
  ASSUME cmd \in CommandLines, host \in Machines, NEW o
  PROVE  LET In(i) == <<"WITH", o>> \in DOMAIN Sources[i] IN
         /\ In(1) <=> o \in {"SAMPLE", "FFMPEG", "DSP_FFMPEG", "SWSCALE", "OPENH264", "CAIRO"}
         /\ In(2) <=> o \in {"CLIENT", "CLIENT_COMMON", "SERVER"}
         /\ In(3) <=> o \in {"SHADOW", "PROXY", "SAMPLE", "WINPR_TOOLS"}
         /\ In(4) <=> o \in PlatformNames
         /\ In(5) <=> o \in MediaNames
         /\ In(6) <=> o \in ExecutableNames
         /\ In(7) <=> o \in {"CHANNELS", "CLIENT_CHANNELS", "SERVER_CHANNELS"}
                          \cup (IF cmd.channels THEN ChannelExtras ELSE {})
         /\ In(8) <=> o \in ProbeNames
         /\ In(9) <=> o \in KerberosNames
         /\ In(10) <=> o \in NoCairo
         /\ In(11) <=> <<"WITH", o>> \in DOMAIN cmd.extra
<1>1. /\ <<"WITH", o>> \in DOMAIN Common <=> o \in {"SAMPLE", "FFMPEG", "DSP_FFMPEG", "SWSCALE", "OPENH264", "CAIRO"}
      /\ <<"WITH", o>> \in DOMAIN SideOptions <=> o \in {"CLIENT", "CLIENT_COMMON", "SERVER"}
      /\ <<"WITH", o>> \in DOMAIN ProfileOptions <=> o \in {"SHADOW", "PROXY", "SAMPLE", "WINPR_TOOLS"}
  BY CommonSays, SideSays, ProfileSays DEF Plain
<1>2. /\ <<"WITH", o>> \in DOMAIN PlatformOptions <=> o \in PlatformNames
      /\ <<"WITH", o>> \in DOMAIN MediaOptions <=> o \in MediaNames
      /\ <<"WITH", o>> \in DOMAIN ExecutableOptions <=> o \in ExecutableNames
  BY PlatformSays, MediaSays, ExecutablesSay, MachinesAssumption DEF Plain
<1>3. <<"WITH", o>> \in DOMAIN ChannelOptions
        <=> o \in {"CHANNELS", "CLIENT_CHANNELS", "SERVER_CHANNELS"}
                  \cup (IF cmd.channels THEN ChannelExtras ELSE {})
  <2>1. CASE cmd.channels
    BY <2>1, ChannelOptionsSay
  <2>2. CASE ~ cmd.channels
    BY <2>2, NoChannels DEF Plain
  <2> QED
    BY <2>1, <2>2
<1>4. /\ <<"WITH", o>> \in DOMAIN Probe <=> o \in ProbeNames
      /\ <<"WITH", o>> \in DOMAIN KerberosOptions <=> o \in KerberosNames
      /\ <<"WITH", o>> \in DOMAIN Sources[10] <=> o \in NoCairo
  BY ProbeSays, KerberosSays, NoCairoSays, SourcesInOrder DEF Plain
<1> QED
  BY <1>1, <1>2, <1>3, <1>4, SourcesInOrder

\* Every option is a switch of the build or of a channel, on or off.
LEMMA OptionsTyped ==
  ASSUME cmd \in CommandLines, host \in Machines
  PROVE  \A k \in DOMAIN Options :
           k[1] \in {"WITH", "channel"} \cup Halves /\ Options[k] \in BOOLEAN
<1> TAKE k \in DOMAIN Options
<1>1. PICK i \in 1..11 : k \in DOMAIN Sources[i] /\ Options[k] = Sources[i][k]
  <2>1. Len(Sources) = 11 /\ DOMAIN Sources = 1..11 /\ Options = Dedupe(Sources)
    BY SourcesInOrder
  <2>2. PICK n \in Nat : n = 11
    OBVIOUS
  <2>3. DOMAIN Sources = 1..n /\ Len(Sources) = n /\ k \in DOMAIN Dedupe(Sources)
    BY <2>1, <2>2
  <2>4. \E i \in 1..n : k \in DOMAIN Sources[i] /\ Dedupe(Sources)[k] = Sources[i][k]
    BY <2>3, FromASource
  <2> QED
    BY <2>1, <2>2, <2>4
<1> DEFINE Typed(opts) == k \in DOMAIN opts => k[1] \in {"WITH", "channel"} \cup Halves /\ opts[k] \in BOOLEAN
<1>2. \A opts, names : Plain(opts, names) => Typed(opts)
  BY DEF Plain
<1>3. Typed(ChannelOptions)
  <2>1. CASE cmd.channels
    BY <2>1, ChannelOptionsSay, ChannelsSay DEF Expected
  <2>2. CASE ~ cmd.channels
    BY <1>2, <2>2, NoChannels
  <2> QED
    BY <2>1, <2>2
<1>4. Typed(cmd.extra)
  BY CommandLinesAssumption
<1> HIDE DEF Typed
<1>5. Typed(Common) /\ Typed(SideOptions) /\ Typed(ProfileOptions)
  BY <1>2, CommonSays, SideSays, ProfileSays
<1>6. Typed(PlatformOptions) /\ Typed(MediaOptions) /\ Typed(ExecutableOptions)
  BY <1>2, PlatformSays, MediaSays, ExecutablesSay, MachinesAssumption
<1>7. Typed(Probe) /\ Typed(KerberosOptions) /\ Typed(Sources[10])
  BY <1>2, ProbeSays, KerberosSays, NoCairoSays, SourcesInOrder
<1>8. Typed(Sources[i])
  BY <1>3, <1>4, <1>5, <1>6, <1>7, SourcesInOrder
<1> QED
  BY <1>1, <1>8 DEF Typed

\* What the named switches come to, unless the user sets some.
LEMMA ScalersAndCodecs ==
  ASSUME cmd \in CommandLines, host \in Machines, DOMAIN cmd.extra = {}
  PROVE  /\ \A o \in {"FFMPEG", "DSP_FFMPEG", "SWSCALE", "OPENH264", "CAIRO"} : <<"WITH", o>> \in DOMAIN Options
         /\ \A o \in {"FFMPEG", "DSP_FFMPEG", "SWSCALE"} :
              Options[<<"WITH", o>>] <=> "ffmpeg" \in host.deps
         /\ Options[<<"WITH", "OPENH264">>] <=> "openh264" \in host.deps
         /\ Options[<<"WITH", "CAIRO">>]
              <=> "ffmpeg" \notin host.deps /\ host.os # "Windows" /\ Has("cairo")
<1>1. ASSUME NEW o \in {"FFMPEG", "DSP_FFMPEG", "SWSCALE", "OPENH264"}
      PROVE  <<"WITH", o>> \in DOMAIN Options /\ Options[<<"WITH", o>>] = MediaOptions[<<"WITH", o>>]
  <2>1. o \in MediaNames /\ o \notin NoCairo /\ o \notin ExecutableNames
        /\ o \notin ProbeNames /\ o \notin KerberosNames
    BY DEF MediaNames, NoCairo, ExecutableNames, ProbeNames, KerberosNames
  <2>2. o \notin {"CHANNELS", "CLIENT_CHANNELS", "SERVER_CHANNELS"} /\ o \notin ChannelExtras
    BY ExtrasAreUnchecked DEF Checked
  <2>3. <<"WITH", o>> \in DOMAIN Sources[5] /\ \A j \in 6..11 : <<"WITH", o>> \notin DOMAIN Sources[j]
    BY <2>1, <2>2, Mentions
  <2>4. 5 \in 1..11 /\ 5 + 1 = 6
    OBVIOUS
  <2> QED
    BY <2>3, <2>4, Decides, SourcesInOrder
<1>2. "CAIRO" \notin ExecutableNames /\ "CAIRO" \notin KerberosNames /\ "CAIRO" \notin ChannelExtras
  BY ExtrasAreUnchecked DEF ExecutableNames, KerberosNames, Checked
<1>3. CASE "ffmpeg" \in host.deps
  <2>1. "CAIRO" \in NoCairo
    BY <1>3 DEF NoCairo
  <2>2. <<"WITH", "CAIRO">> \in DOMAIN Sources[10] /\ \A j \in 11..11 : <<"WITH", "CAIRO">> \notin DOMAIN Sources[j]
    BY <2>1, Mentions
  <2>3. <<"WITH", "CAIRO">> \in DOMAIN Options /\ Options[<<"WITH", "CAIRO">>] = FALSE
    <3>1. 10 \in 1..11 /\ 10 + 1 = 11
      OBVIOUS
    <3> QED
      BY <1>3, <2>2, <3>1, Decides, SourcesInOrder, NoCairoSays
  <2> QED
    BY <1>1, <1>3, <2>3, MediaSays
<1>4. CASE "ffmpeg" \notin host.deps /\ host.os # "Windows" /\ ~ Has("cairo")
  <2>1. "CAIRO" \in ProbeNames /\ "CAIRO" \notin NoCairo
    BY <1>4 DEF ProbeNames, NoCairo
  <2>2. <<"WITH", "CAIRO">> \in DOMAIN Sources[8] /\ \A j \in 9..11 : <<"WITH", "CAIRO">> \notin DOMAIN Sources[j]
    BY <1>2, <2>1, Mentions
  <2>3. <<"WITH", "CAIRO">> \in DOMAIN Options /\ Options[<<"WITH", "CAIRO">>] = FALSE
    <3>1. 8 \in 1..11 /\ 8 + 1 = 9
      OBVIOUS
    <3> QED
      BY <2>1, <2>2, <3>1, Decides, SourcesInOrder, ProbeSays
  <2> QED
    BY <1>1, <1>4, <2>3, MediaSays
<1>5. CASE "ffmpeg" \notin host.deps /\ host.os = "Windows"
  <2>1. "CAIRO" \in PlatformNames /\ "CAIRO" \notin NoCairo /\ "CAIRO" \notin ProbeNames /\ "CAIRO" \notin MediaNames
    BY <1>5 DEF PlatformNames, ProbeNames, NoCairo, MediaNames
  <2>2. <<"WITH", "CAIRO">> \in DOMAIN Sources[4] /\ \A j \in 5..11 : <<"WITH", "CAIRO">> \notin DOMAIN Sources[j]
    BY <1>2, <2>1, Mentions
  <2>3. <<"WITH", "CAIRO">> \in DOMAIN Options /\ Options[<<"WITH", "CAIRO">>] = FALSE
    <3>1. 4 \in 1..11 /\ 4 + 1 = 5
      OBVIOUS
    <3> QED
      BY <1>5, <2>2, <3>1, Decides, SourcesInOrder, PlatformSays, MachinesAssumption
  <2> QED
    BY <1>1, <1>5, <2>3, MediaSays
<1>6. CASE "ffmpeg" \notin host.deps /\ host.os # "Windows" /\ Has("cairo")
  <2>1. /\ "CAIRO" \notin PlatformNames /\ "CAIRO" \notin NoCairo
        /\ "CAIRO" \notin ProbeNames /\ "CAIRO" \notin MediaNames
    BY <1>6 DEF PlatformNames, ProbeNames, NoCairo, MediaNames
  <2>2. <<"WITH", "CAIRO">> \in DOMAIN Sources[1] /\ \A j \in 2..11 : <<"WITH", "CAIRO">> \notin DOMAIN Sources[j]
    BY <1>2, <2>1, Mentions
  <2>3. <<"WITH", "CAIRO">> \in DOMAIN Options /\ Options[<<"WITH", "CAIRO">>] = TRUE
    <3>1. 1 \in 1..11 /\ 1 + 1 = 2
      OBVIOUS
    <3> QED
      BY <2>2, <3>1, Decides, SourcesInOrder, CommonSays
  <2> QED
    BY <1>1, <1>6, <2>3, MediaSays
<1> QED
  BY <1>3, <1>4, <1>5, <1>6

LEMMA DisplaysAndKerberos ==
  ASSUME cmd \in CommandLines, host \in Machines, DOMAIN cmd.extra = {}
  PROVE  /\ IsOn(Options, <<"WITH", "X11">>) <=> host.os = "Linux" /\ Full /\ Has("x11")
         /\ <<"WITH", "WAYLAND">> \in DOMAIN Options
         /\ Options[<<"WITH", "WAYLAND">>] <=> host.os = "Linux" /\ Full /\ Has("wayland")
         /\ host.os # "Windows" => (IsOn(Options, <<"WITH", "KRB5">>) <=> Kerberos)
         /\ host.os = "Windows" => ~ IsOn(Options, <<"WITH", "KRB5">>)
<1>1. ASSUME NEW o \in {"X11", "WAYLAND"}
      PROVE  <<"WITH", o>> \in DOMAIN Options /\ Options[<<"WITH", o>>] = PlatformOptions[<<"WITH", o>>]
  <2>1. /\ o \in PlatformNames /\ o \notin MediaNames /\ o \notin NoCairo /\ o \notin ExecutableNames
        /\ o \notin ProbeNames /\ o \notin KerberosNames
    BY DEF PlatformNames, MediaNames, NoCairo, ExecutableNames, ProbeNames, KerberosNames
  <2>2. o \notin {"CHANNELS", "CLIENT_CHANNELS", "SERVER_CHANNELS"} /\ o \notin ChannelExtras
    BY ExtrasAreUnchecked DEF Checked
  <2>3. <<"WITH", o>> \in DOMAIN Sources[4] /\ \A j \in 5..11 : <<"WITH", o>> \notin DOMAIN Sources[j]
    BY <2>1, <2>2, Mentions
  <2>4. 4 \in 1..11 /\ 4 + 1 = 5
    OBVIOUS
  <2> QED
    BY <2>3, <2>4, Decides, SourcesInOrder
<1>2. "KRB5" \notin NoCairo /\ "KRB5" \notin ChannelExtras
  BY ExtrasAreUnchecked DEF NoCairo, Checked
<1>3. CASE host.os # "Windows"
  <2>1. <<"WITH", "KRB5">> \in DOMAIN Sources[9] /\ \A j \in 10..11 : <<"WITH", "KRB5">> \notin DOMAIN Sources[j]
    BY <1>2, <1>3, Mentions DEF KerberosNames
  <2>2. 9 \in 1..11 /\ 9 + 1 = 10
    OBVIOUS
  <2>3. <<"WITH", "KRB5">> \in DOMAIN Options /\ Options[<<"WITH", "KRB5">>] = KerberosOptions[<<"WITH", "KRB5">>]
    BY <2>1, <2>2, Decides, SourcesInOrder
  <2> QED
    BY <1>1, <1>3, <2>3, KerberosSays, PlatformSays, MachinesAssumption DEF IsOn
<1>4. CASE host.os = "Windows"
  <2>1. /\ "KRB5" \notin PlatformNames /\ "KRB5" \notin MediaNames /\ "KRB5" \notin ExecutableNames
        /\ "KRB5" \notin ProbeNames /\ "KRB5" \notin KerberosNames
    BY <1>4 DEF PlatformNames, MediaNames, NoCairo, ExecutableNames, ProbeNames, KerberosNames
  <2>2. \A i \in 1..11 : <<"WITH", "KRB5">> \notin DOMAIN Sources[i]
    BY <1>2, <2>1, Mentions
  <2>3. <<"WITH", "KRB5">> \notin DOMAIN Options
    BY <2>2, SourcesInOrder DEF Dedupe
  <2> QED
    BY <1>1, <1>4, <2>3, PlatformSays, MachinesAssumption DEF IsOn
<1> QED
  BY <1>3, <1>4

LEMMA SidesAndServers ==
  ASSUME cmd \in CommandLines, host \in Machines, DOMAIN cmd.extra = {}
  PROVE  /\ IsOn(Options, <<"WITH", "CLIENT_COMMON">>) <=> "client" \in Sides
         /\ IsOn(Options, <<"WITH", "SERVER">>) <=> "server" \in Sides
         /\ IsOn(Options, <<"WITH", "SHADOW">>) <=> Full /\ ShadowBuilds
<1>1. ASSUME NEW o \in {"CLIENT_COMMON", "SERVER", "SHADOW"}
      PROVE  /\ o \notin PlatformNames /\ o \notin MediaNames /\ o \notin NoCairo /\ o \notin ExecutableNames
             /\ o \notin ProbeNames /\ o \notin KerberosNames /\ o \notin ChannelExtras
  BY ExtrasAreUnchecked DEF Checked, PlatformNames, MediaNames, NoCairo, ExecutableNames, ProbeNames, KerberosNames
<1>2. ASSUME NEW o \in {"CLIENT_COMMON", "SERVER"}
      PROVE  <<"WITH", o>> \in DOMAIN Options /\ Options[<<"WITH", o>>] = SideOptions[<<"WITH", o>>]
  <2>1. <<"WITH", o>> \in DOMAIN Sources[2] /\ \A j \in 3..11 : <<"WITH", o>> \notin DOMAIN Sources[j]
    BY <1>1, Mentions
  <2>2. 2 \in 1..11 /\ 2 + 1 = 3
    OBVIOUS
  <2> QED
    BY <2>1, <2>2, Decides, SourcesInOrder
<1>3. <<"WITH", "SHADOW">> \in DOMAIN Options /\ Options[<<"WITH", "SHADOW">>] = ProfileOptions[<<"WITH", "SHADOW">>]
  <2>1. /\ <<"WITH", "SHADOW">> \in DOMAIN Sources[3]
        /\ \A j \in 4..11 : <<"WITH", "SHADOW">> \notin DOMAIN Sources[j]
    BY <1>1, Mentions
  <2>2. 3 \in 1..11 /\ 3 + 1 = 4
    OBVIOUS
  <2> QED
    BY <2>1, <2>2, Decides, SourcesInOrder
<1> QED
  BY <1>2, <1>3, SideSays, ProfileSays DEF IsOn

\* The channels' own list stands as it is.
LEMMA ChannelsStand ==
  ASSUME cmd \in CommandLines, host \in Machines
  PROVE  /\ DOMAIN cmd.extra = {} /\ cmd.channels =>
              /\ \A k \in DOMAIN Expected : k \in DOMAIN Options /\ Options[k] = Expected[k]
              /\ IsOn(Options, <<"WITH", "CHANNELS">>)
              /\ IsOn(Options, <<"WITH", "CLIENT_CHANNELS">>) <=> "client" \in Sides
              /\ IsOn(Options, <<"WITH", "SERVER_CHANNELS">>) <=> "server" \in Sides
         /\ DOMAIN cmd.extra = {} /\ ~ cmd.channels => ~ IsOn(Options, <<"WITH", "CHANNELS">>)
         /\ \A o \in ChannelExtras :
              cmd.channels /\ <<"WITH", o>> \notin DOMAIN cmd.extra => IsOn(Options, <<"WITH", o>>)
<1> DEFINE Unsaid(k) == \A j \in 8..11 : k \notin DOMAIN Sources[j]
<1>1. 7 \in 1..11 /\ 7 + 1 = 8
  OBVIOUS
<1>2. \A k : Unsaid(k) /\ k \in DOMAIN ChannelOptions =>
               k \in DOMAIN Options /\ Options[k] = ChannelOptions[k]
  BY <1>1, Decides, SourcesInOrder
<1>3. ASSUME DOMAIN cmd.extra = {}, NEW k, k[1] # "WITH" PROVE Unsaid(k)
  <2>1. /\ k \notin DOMAIN Probe /\ k \notin DOMAIN KerberosOptions
        /\ k \notin DOMAIN Sources[10] /\ k \notin DOMAIN cmd.extra
    BY <1>3, ProbeSays, KerberosSays, NoCairoSays, SourcesInOrder DEF Plain
  <2> QED
    BY <2>1, SourcesInOrder
<1>4. ASSUME NEW o \in {"CHANNELS", "CLIENT_CHANNELS", "SERVER_CHANNELS"} \cup ChannelExtras,
             <<"WITH", o>> \notin DOMAIN cmd.extra
      PROVE  Unsaid(<<"WITH", o>>)
  <2>1. o \notin ProbeNames /\ o \notin KerberosNames /\ o \notin NoCairo
    BY ExtrasAreUnchecked DEF Checked, ProbeNames, KerberosNames, NoCairo
  <2> QED
    BY <1>4, <2>1, Mentions
<1> HIDE DEF Unsaid
<1>5. ASSUME DOMAIN cmd.extra = {}, cmd.channels
      PROVE  /\ \A k \in DOMAIN Expected : k \in DOMAIN Options /\ Options[k] = Expected[k]
             /\ IsOn(Options, <<"WITH", "CHANNELS">>)
             /\ IsOn(Options, <<"WITH", "CLIENT_CHANNELS">>) <=> "client" \in Sides
             /\ IsOn(Options, <<"WITH", "SERVER_CHANNELS">>) <=> "server" \in Sides
  <2>1. \A k \in DOMAIN Expected : k[1] # "WITH"
    BY ChannelsSay DEF Expected, Halves
  <2>2. \A k \in DOMAIN Expected : k \in DOMAIN Options /\ Options[k] = Expected[k]
    BY <1>2, <1>3, <1>5, <2>1, ChannelOptionsSay
  <2>3. \A o \in {"CHANNELS", "CLIENT_CHANNELS", "SERVER_CHANNELS"} :
          <<"WITH", o>> \in DOMAIN Options /\ Options[<<"WITH", o>>] = ChannelOptions[<<"WITH", o>>]
    BY <1>2, <1>4, <1>5, ChannelOptionsSay
  <2> QED
    BY <1>5, <2>2, <2>3, ChannelOptionsSay DEF IsOn
<1>6. ASSUME DOMAIN cmd.extra = {}, ~ cmd.channels PROVE ~ IsOn(Options, <<"WITH", "CHANNELS">>)
  BY <1>2, <1>4, <1>6, NoChannels DEF IsOn, Plain
<1>7. ASSUME NEW o \in ChannelExtras, cmd.channels, <<"WITH", o>> \notin DOMAIN cmd.extra
      PROVE  IsOn(Options, <<"WITH", o>>)
  BY <1>2, <1>4, <1>7, ChannelOptionsSay DEF IsOn
<1> QED
  BY <1>5, <1>6, <1>7
-----------------------------------------------------------------------------
(* What CMake makes of the options.                                         *)

LEMMA CacheAt ==
  ASSUME NEW opts
  PROVE  /\ DOMAIN CMakeCache(opts) = {k \in DOMAIN opts : k[1] # "WITH" => k[2] \in DOMAIN Table}
         /\ \A k \in DOMAIN CMakeCache(opts) :
              /\ k[1] = "WITH" => (CMakeCache(opts)[k] <=> opts[k] /\ k[2] \notin host.drops)
              /\ k[1] = "channel" => (CMakeCache(opts)[k] <=> CMakeChannel(opts, k[2]))
              /\ k[1] \in Halves => (CMakeCache(opts)[k] <=> CMakeHalf(opts, k[1], k[2]))
<1> DEFINE keys == {k \in DOMAIN opts : k[1] # "WITH" => k[2] \in DOMAIN Table}
           value(k) == CASE k[1] = "WITH"    -> opts[k] /\ k[2] \notin host.drops
                         [] k[1] = "channel" -> CMakeChannel(opts, k[2])
                         [] k[1] \in Halves  -> CMakeHalf(opts, k[1], k[2])
<1>1. CMakeCache(opts) = [k \in keys |-> value(k)]
  BY DEF CMakeCache
<1>2. ASSUME NEW k, k[1] = "WITH" PROVE value(k) <=> opts[k] /\ k[2] \notin host.drops
  BY <1>2 DEF Halves
<1>3. ASSUME NEW k, k[1] = "channel" PROVE value(k) <=> CMakeChannel(opts, k[2])
  <2>1. k[1] # "WITH" /\ k[1] \notin Halves
    BY <1>3 DEF Halves
  <2> QED
    BY <1>3, <2>1
<1>4. ASSUME NEW k, k[1] \in Halves PROVE value(k) <=> CMakeHalf(opts, k[1], k[2])
  <2>1. k[1] # "WITH" /\ k[1] # "channel"
    BY <1>4 DEF Halves
  <2> QED
    BY <1>4, <2>1
<1> HIDE DEF keys, value
<1>5. DOMAIN CMakeCache(opts) = keys /\ \A k \in keys : CMakeCache(opts)[k] = value(k)
  BY <1>1
<1> QED
  BY <1>2, <1>3, <1>4, <1>5 DEF keys

LEMMA CacheIsBoolean ==
  ASSUME cmd \in CommandLines, host \in Machines
  PROVE  \A k \in DOMAIN CMakeCache(Options) : CMakeCache(Options)[k] \in BOOLEAN
<1> DEFINE value(k) == CASE k[1] = "WITH"    -> Options[k] /\ k[2] \notin host.drops
                         [] k[1] = "channel" -> CMakeChannel(Options, k[2])
                         [] k[1] \in Halves  -> CMakeHalf(Options, k[1], k[2])
<1>1. SUFFICES ASSUME NEW k \in DOMAIN CMakeCache(Options) PROVE CMakeCache(Options)[k] \in BOOLEAN
  OBVIOUS
<1>2. k \in DOMAIN Options /\ CMakeCache(Options)[k] = value(k)
  BY DEF CMakeCache
<1>3. k[1] \in {"WITH", "channel"} \cup Halves /\ Options[k] \in BOOLEAN
  BY <1>2, OptionsTyped
<1>4. CASE k[1] = "WITH"
  <2>1. value(k) = (Options[k] /\ k[2] \notin host.drops)
    BY <1>4 DEF Halves
  <2> QED
    BY <1>2, <1>3, <2>1
<1>5. CASE k[1] = "channel"
  <2>1. k[1] # "WITH" /\ k[1] \notin Halves
    BY <1>5 DEF Halves
  <2>2. value(k) = CMakeChannel(Options, k[2])
    BY <1>5, <2>1
  <2>3. CMakeChannel(Options, k[2]) \in BOOLEAN
    BY DEF CMakeChannel
  <2> QED
    BY <1>2, <2>2, <2>3
<1>6. CASE k[1] \in Halves
  <2>1. k[1] # "WITH" /\ k[1] # "channel"
    BY <1>6 DEF Halves
  <2>2. value(k) = CMakeHalf(Options, k[1], k[2])
    BY <1>6, <2>1
  <2>3. CMakeHalf(Options, k[1], k[2]) \in BOOLEAN
    BY DEF CMakeHalf
  <2> QED
    BY <1>2, <2>2, <2>3
<1> QED
  BY <1>3, <1>4, <1>5, <1>6

LEMMA CacheOfSwitches ==
  ASSUME cache = CMakeCache(Options), NEW o
  PROVE  /\ <<"WITH", o>> \in DOMAIN cache <=> <<"WITH", o>> \in DOMAIN Options
         /\ <<"WITH", o>> \in DOMAIN Options =>
              (cache[<<"WITH", o>>] <=> Options[<<"WITH", o>>] /\ o \notin host.drops)
         /\ IsOn(cache, <<"WITH", o>>) <=> IsOn(Options, <<"WITH", o>>) /\ o \notin host.drops
<1>1. /\ <<"WITH", o>> \in DOMAIN cache <=> <<"WITH", o>> \in DOMAIN Options
      /\ <<"WITH", o>> \in DOMAIN Options =>
           (cache[<<"WITH", o>>] <=> Options[<<"WITH", o>>] /\ o \notin host.drops)
  <2> DEFINE k == <<"WITH", o>>
  <2>1. k[1] = "WITH" /\ k[2] = o
    OBVIOUS
  <2> HIDE DEF k
  <2>2. /\ k \in DOMAIN cache <=> k \in DOMAIN Options
        /\ k \in DOMAIN Options => (cache[k] <=> Options[k] /\ o \notin host.drops)
    BY <2>1, CacheAt
  <2> QED
    BY <2>2 DEF k
<1> QED
  BY <1>1 DEF IsOn

\* No switch that a channel brings, and none but a droppable one, is dropped.
LEMMA DropsAreChecked ==
  ASSUME host \in Machines
  PROVE  host.drops \subseteq Droppable /\ Droppable \subseteq Checked
BY MachinesAssumption DEF Droppable, Checked

\* A switch that was not dropped is what the options say.
LEMMA NotDropped ==
  ASSUME cache = CMakeCache(Options), NEW o, o \notin Dropped
  PROVE  IsOn(cache, <<"WITH", o>>) <=> IsOn(Options, <<"WITH", o>>)
BY CacheOfSwitches DEF Dropped

LEMMA CacheOfChannels ==
  ASSUME cache = CMakeCache(Options), NEW n
  PROVE  /\ <<"channel", n>> \in DOMAIN cache <=> n \in DOMAIN Table /\ <<"channel", n>> \in DOMAIN Options
         /\ <<"channel", n>> \in DOMAIN cache => (cache[<<"channel", n>>] <=> CMakeChannel(Options, n))
         /\ \A h \in Halves :
              /\ <<h, n>> \in DOMAIN cache <=> n \in DOMAIN Table /\ <<h, n>> \in DOMAIN Options
              /\ <<h, n>> \in DOMAIN cache => (cache[<<h, n>>] <=> CMakeHalf(Options, h, n))
<1>1. \A h \in Halves : h # "WITH" /\ h # "channel"
  BY DEF Halves
<1>2. ASSUME NEW h \in Halves \cup {"channel"}
      PROVE  <<h, n>> \in DOMAIN cache <=> n \in DOMAIN Table /\ <<h, n>> \in DOMAIN Options
  <2> DEFINE k == <<h, n>>
  <2>1. k[1] # "WITH" /\ k[2] = n
    BY <1>1
  <2> HIDE DEF k
  <2>2. k \in DOMAIN cache <=> n \in DOMAIN Table /\ k \in DOMAIN Options
    BY <2>1, CacheAt
  <2> QED
    BY <2>2 DEF k
<1>3. <<"channel", n>> \in DOMAIN cache => (cache[<<"channel", n>>] <=> CMakeChannel(Options, n))
  <2> DEFINE k == <<"channel", n>>
  <2>1. k[1] = "channel" /\ k[2] = n
    OBVIOUS
  <2> HIDE DEF k
  <2>2. k \in DOMAIN cache => (cache[k] <=> CMakeChannel(Options, n))
    BY <2>1, CacheAt
  <2> QED
    BY <2>2 DEF k
<1>4. ASSUME NEW h \in Halves
      PROVE  <<h, n>> \in DOMAIN cache => (cache[<<h, n>>] <=> CMakeHalf(Options, h, n))
  <2> DEFINE k == <<h, n>>
  <2>1. k[1] = h /\ k[2] = n
    OBVIOUS
  <2> HIDE DEF k
  <2>2. k \in DOMAIN cache => (cache[k] <=> CMakeHalf(Options, h, n))
    BY <2>1, CacheAt
  <2> QED
    BY <2>2 DEF k
<1> QED
  BY <1>2, <1>3, <1>4

\* What is checked decides which halves are built, whoever set the options.
LEMMA ExpectedSays ==
  /\ \A n \in DOMAIN Table \cup Enabled \cup cmd.disable :
       <<"channel", n>> \in DOMAIN Expected /\ (Expected[<<"channel", n>>] <=> Resolve(n, Enabled) # {})
  /\ \A n : \A h \in Halves :
       /\ <<h, n>> \in DOMAIN Expected
            <=> n \in DOMAIN Table \cup Enabled \cup cmd.disable /\ Resolve(n, Enabled) # {}
       /\ <<h, n>> \in DOMAIN Expected => (Expected[<<h, n>>] <=> h \in Resolve(n, Enabled))
  /\ \A k \in DOMAIN Expected :
       /\ k = <<k[1], k[2]>> /\ k[1] \in {"channel"} \cup Halves
       /\ k[2] \in DOMAIN Table \cup Enabled \cup cmd.disable
<1>1. Expected = ChannelSwitches(Enabled)
  BY DEF Expected, Enabled
<1> QED
  BY <1>1, ChannelsSay

LEMMA BuiltAsResolved ==
  ASSUME cache = CMakeCache(Options), ChannelsVerified, NEW n \in DOMAIN Table
  PROVE  Built(n) = Resolve(n, Enabled)
<1>1. Resolve(n, Enabled) \subseteq Halves
  BY DEF Resolve, Sides, Halves
<1>2. ASSUME NEW h \in Halves
      PROVE  IsOn(cache, <<h, n>>) <=> h \in Resolve(n, Enabled)
  <2>1. CASE Resolve(n, Enabled) = {}
    <3>1. <<"channel", n>> \in DOMAIN Expected /\ ~ Expected[<<"channel", n>>]
      BY <2>1, ExpectedSays
    <3>2. ~ IsOn(cache, <<"channel", n>>)
      BY <3>1 DEF ChannelsVerified, IsOn
    <3>3. IsOn(cache, <<h, n>>) => CMakeChannel(Options, n) /\ <<"channel", n>> \in DOMAIN cache
      BY CacheOfChannels DEF IsOn, CMakeHalf, CMakeChannel
    <3> QED
      BY <2>1, <3>2, <3>3, CacheOfChannels DEF IsOn
  <2>2. CASE Resolve(n, Enabled) # {}
    <3>1. /\ <<h, n>> \in DOMAIN Expected
          /\ Expected[<<h, n>>] <=> h \in Resolve(n, Enabled)
      BY <2>2, ExpectedSays
    <3> QED
      BY <3>1 DEF ChannelsVerified, IsOn
  <2> QED
    BY <2>1, <2>2
<1> QED
  BY <1>1, <1>2 DEF Built

LEMMA TransportIsOn ==
  ASSUME cache = CMakeCache(Options), NEW n \in DOMAIN Table, Built(n) # {}, Table[n].type # "static"
  PROVE  cache[<<"channel", Transport[Table[n].type]>>]
<1> DEFINE t == Transport[Table[n].type]
<1>1. t \in DOMAIN Table /\ Table[t].type = "static"
  BY TableAssumption DEF Transport
<1>2. PICK h \in Halves : IsOn(cache, <<h, n>>)
  BY DEF Built
<1>3. CMakeChannel(Options, n)
  BY <1>2, CacheOfChannels DEF IsOn, CMakeHalf
<1>4. IsOn(Options, <<"WITH", "CHANNELS">>) /\ IsOn(Options, <<"channel", t>>)
  BY <1>3 DEF CMakeChannel
<1> HIDE DEF t
<1>5. CMakeChannel(Options, t) /\ <<"channel", t>> \in DOMAIN Options
  BY <1>1, <1>4 DEF CMakeChannel, IsOn
<1> QED
  BY <1>1, <1>5, CacheOfChannels DEF t
-----------------------------------------------------------------------------
(* The invariant.                                                           *)

\* Nothing that is computed from the command line and the machine changes.
LEMMA Frame ==
  ASSUME UNCHANGED <<cmd, host>>
  PROVE  /\ Options' = Options
         /\ CMakeCache(Options)' = CMakeCache(Options)
         /\ Aborts(Options)' <=> Aborts(Options)
         /\ Clash' <=> Clash
         /\ KerberosRefused' <=> KerberosRefused
         /\ Promised' = Promised
<1>1. Options' = Options
  BY DEF Options, Common, SideOptions, ProfileOptions, PlatformOptions, MediaOptions, ExecutableOptions,
         ChannelOptions, Probe, KerberosOptions, Sides, Halves, Full, Has, Kerberos, MediaChannels, Enabled,
         Clash, Resolve, ChannelSwitches, ShadowBuilds
<1>2. CMakeCache(Options)' = CMakeCache(Options)
  BY <1>1 DEF CMakeCache, CMakeChannel, CMakeHalf, Has, IsOn
<1>3. Aborts(Options)' <=> Aborts(Options)
  BY <1>1 DEF Aborts, IsOn, Has
<1>4. Clash' <=> Clash
  BY DEF Clash, Enabled, MediaChannels
<1>5. KerberosRefused' <=> KerberosRefused
  BY DEF KerberosRefused, Has, Full
<1>6. Promised' = Promised
  BY DEF Promised, Sides, Full, ShadowBuilds, Halves
<1> QED
  BY <1>1, <1>2, <1>3, <1>4, <1>5, <1>6

LEMMA CacheFrame ==
  ASSUME UNCHANGED <<cmd, host, cache>>
  PROVE  /\ Verified' <=> Verified
         /\ Products' = Products
<1>1. Expected' = Expected
  BY DEF Expected, ChannelSwitches, Resolve, Sides, Halves, MediaChannels
<1>2. ChannelsVerified' <=> ChannelsVerified
  BY <1>1 DEF ChannelsVerified
<1>3. MediaVerified' <=> MediaVerified
  BY DEF MediaVerified, IsOn
<1>4. KerberosVerified' <=> KerberosVerified
  BY DEF KerberosVerified, IsOn, Kerberos, Has
<1> QED
  BY <1>2, <1>3, <1>4 DEF Verified, Products, IsOn

LEMMA InitInvariant == Init => IInv
BY DEF Init, IInv, TypeOK, Outcomes

LEMMA RefuseKeeps == ASSUME IInv, Refuse PROVE IInv'
<1>1. TypeOK'
  BY DEF IInv, TypeOK, Refuse
<1>2. Outcomes'
  BY Frame DEF Refuse, Outcomes
<1> QED
  BY <1>1, <1>2 DEF IInv

LEMMA ConfigureKeeps == ASSUME IInv, Configure PROVE IInv'
<1>1. CASE Aborts(Options)
  <2>1. TypeOK'
    BY <1>1 DEF IInv, TypeOK, Configure
  <2>2. Outcomes'
    BY <1>1, Frame DEF Configure, Outcomes
  <2> QED
    BY <2>1, <2>2 DEF IInv
<1>2. CASE ~ Aborts(Options)
  <2>1. pc' = "configured" /\ cache' = CMakeCache(Options) /\ UNCHANGED <<cmd, host>> /\ ~ Clash
    BY <1>2 DEF Configure
  <2>2. \A k \in DOMAIN cache' : cache'[k] \in BOOLEAN
    BY <2>1, CacheIsBoolean DEF IInv, TypeOK
  <2>3. TypeOK'
    BY <2>1, <2>2 DEF IInv, TypeOK
  <2>4. Outcomes'
    BY <2>1, Frame DEF Outcomes
  <2> QED
    BY <2>3, <2>4 DEF IInv
<1> QED
  BY <1>1, <1>2

LEMMA VerifyConfigurationKeeps == ASSUME IInv, VerifyConfiguration PROVE IInv'
<1>1. pc' = (IF Verified THEN "building" ELSE "refused") /\ UNCHANGED <<cmd, host, cache>> /\ pc = "configured"
  BY DEF VerifyConfiguration, Verified
<1>2. TypeOK'
  BY <1>1 DEF IInv, TypeOK
<1>3. Outcomes'
  BY <1>1, Frame, CacheFrame DEF IInv, Outcomes
<1> QED
  BY <1>2, <1>3 DEF IInv

LEMMA BuildKeeps == ASSUME IInv, Build PROVE IInv'
<1>1. TypeOK'
  BY DEF IInv, TypeOK, Build
<1>2. (\E stem \in Promised : NamesWith(stem) \cap Products = {})'
        <=> \E stem \in Promised : NamesWith(stem) \cap Products = {}
  BY Frame, CacheFrame DEF Build
<1>3. Outcomes'
  BY <1>2, Frame, CacheFrame DEF IInv, Outcomes, Build
<1> QED
  BY <1>1, <1>3 DEF IInv

LEMMA Invariance == Spec => []IInv
<1>1. ASSUME IInv, [Next]_vars PROVE IInv'
  <2>1. CASE Refuse
    BY <1>1, <2>1, RefuseKeeps
  <2>2. CASE Configure
    BY <1>1, <2>2, ConfigureKeeps
  <2>3. CASE VerifyConfiguration
    BY <1>1, <2>3, VerifyConfigurationKeeps
  <2>4. CASE Build
    BY <1>1, <2>4, BuildKeeps
  <2>5. CASE UNCHANGED vars
    <3>1. TypeOK'
      BY <1>1, <2>5 DEF IInv, TypeOK, vars
    <3>2. (\E stem \in Promised : NamesWith(stem) \cap Products = {})'
            <=> \E stem \in Promised : NamesWith(stem) \cap Products = {}
      BY <2>5, Frame, CacheFrame DEF vars
    <3>3. Outcomes'
      BY <1>1, <2>5, <3>2, Frame, CacheFrame DEF IInv, Outcomes, vars
    <3> QED
      BY <3>1, <3>3 DEF IInv
  <2> QED
    BY <1>1, <2>1, <2>2, <2>3, <2>4, <2>5 DEF Next
<1> QED
  BY <1>1, InitInvariant, PTL DEF Spec

\* A run leaves every variable where the types have it: a cache entry is a
\* Boolean, whichever source had the last word.
THEOREM TypeCorrect == Spec => []TypeOK
BY Invariance, PTL DEF IInv

-----------------------------------------------------------------------------
(* Without switches of the user's own.                                      *)

LEMMA NothingAborts ==
  ASSUME cmd \in CommandLines, host \in Machines, DOMAIN cmd.extra = {}
  PROVE  ~ Aborts(Options)
<1>1. ASSUME NEW o \in DOMAIN Required, IsOn(Options, <<"WITH", o>>) PROVE Has(Required[o])
  <2>1. CASE o \in {"SWSCALE", "FFMPEG"}
    <3>1. Required[o] = "ffmpeg"
      BY <2>1 DEF Required
    <3>2. "ffmpeg" \in host.deps
      BY <1>1, <2>1, ScalersAndCodecs DEF IsOn
    <3> QED
      BY <3>1, <3>2 DEF Has
  <2>2. CASE o = "OPENH264"
    <3>1. "openh264" \in host.deps
      BY <1>1, <2>2, ScalersAndCodecs DEF IsOn
    <3> QED
      BY <2>2, <3>1 DEF Has, Required
  <2>3. CASE o = "CAIRO"
    <3>1. Has("cairo")
      BY <1>1, <2>3, ScalersAndCodecs DEF IsOn
    <3> QED
      BY <2>3, <3>1 DEF Required
  <2>4. CASE o = "X11"
    <3>1. Has("x11")
      BY <1>1, <2>4, DisplaysAndKerberos
    <3> QED
      BY <2>4, <3>1 DEF Required
  <2>5. CASE o = "WAYLAND"
    <3>1. Has("wayland")
      BY <1>1, <2>5, DisplaysAndKerberos DEF IsOn
    <3> QED
      BY <2>5, <3>1 DEF Required
  <2>6. CASE o = "KRB5"
    <3>1. Kerberos
      BY <1>1, <2>6, DisplaysAndKerberos
    <3> QED
      BY <2>6, <3>1 DEF Required, Kerberos
  <2> QED
    BY <2>1, <2>2, <2>3, <2>4, <2>5, <2>6 DEF Required
<1>2. ASSUME host.os = "Linux", ~ Has("icu") PROVE IsOn(Options, <<"WITH", "UNICODE_BUILTIN">>)
  <2>1. "UNICODE_BUILTIN" \in ProbeNames
    BY <1>2 DEF ProbeNames
  <2>2. "UNICODE_BUILTIN" \notin KerberosNames /\ "UNICODE_BUILTIN" \notin NoCairo
    BY DEF KerberosNames, NoCairo
  <2>3. /\ <<"WITH", "UNICODE_BUILTIN">> \in DOMAIN Sources[8]
        /\ \A j \in 9..11 : <<"WITH", "UNICODE_BUILTIN">> \notin DOMAIN Sources[j]
    BY <2>1, <2>2, Mentions
  <2>4. 8 \in 1..11 /\ 8 + 1 = 9
    OBVIOUS
  <2> QED
    BY <2>1, <2>3, <2>4, Decides, SourcesInOrder, ProbeSays DEF IsOn
<1> QED
  BY <1>1, <1>2 DEF Aborts

\* Whatever the profile promises is built where nothing of it was dropped, but
\* for two cases.
LEMMA PromisesKept ==
  ASSUME cmd \in CommandLines, host \in Machines, DOMAIN cmd.extra = {}, cache = CMakeCache(Options),
         Dropped \cap {"CLIENT_COMMON", "SERVER", "SHADOW"} = {},
         cmd.profile # "server-only", ~ (Full /\ host.os = "Linux" /\ ~ Has("wayland")),
         NEW stem \in Promised
  PROVE  NamesWith(stem) \cap Products # {}
<1>1. stem \in NamesWith(stem)
  BY DEF NamesWith
<1>2. stem \in Products
  <2>0. /\ IsOn(cache, <<"WITH", "CLIENT_COMMON">>) <=> "client" \in Sides
        /\ IsOn(cache, <<"WITH", "SERVER">>) <=> "server" \in Sides
        /\ IsOn(cache, <<"WITH", "SHADOW">>) <=> Full /\ ShadowBuilds
    BY SidesAndServers, NotDropped
  <2>1. /\ "client" \in Sides => "freerdp-client" \in Products
        /\ "server" \in Sides => "freerdp-server" \in Products
        /\ Full /\ ShadowBuilds => {"freerdp-shadow", "freerdp-shadow-subsystem"} \subseteq Products
    <3>1. Full => "server" \in Sides
      BY DEF Full, Sides, Halves
    <3> QED
      BY <2>0, <3>1 DEF Products
  <2>2. Full /\ host.os = "Linux" => "uwac" \in Products
    <3>1. "WAYLAND" \notin host.drops
      BY DropsAreChecked DEF Droppable
    <3> QED
      BY <3>1, DisplaysAndKerberos, CacheOfSwitches DEF Products, IsOn
  <2>3. {"freerdp", "winpr"} \subseteq Products
    BY DEF Products
  <2> QED
    BY <2>1, <2>2, <2>3 DEF Promised
<1> QED
  BY <1>1, <1>2

\* What is expected of the channels is what CMake makes of them, unless one
\* lacks its transport, its library, or a place in the table.
LEMMA ExpectationsMet ==
  ASSUME cmd \in CommandLines, host \in Machines, DOMAIN cmd.extra = {}, cache = CMakeCache(Options),
         cmd.channels, cmd.enable \subseteq DOMAIN Table,
         \A n \in DOMAIN Table : Wants(n) /\ Table[n].type # "static" => Wants(Transport[Table[n].type]),
         \A n \in DOMAIN Table : "client" \in Resolve(n, Enabled) => \A lib \in Table[n].needs : Has(lib)
  PROVE  ChannelsVerified
<1> SUFFICES ASSUME NEW k \in DOMAIN Expected
             PROVE  IF k \in DOMAIN cache THEN cache[k] = Expected[k] ELSE ~ Expected[k]
  BY DEF ChannelsVerified
<1> DEFINE h == k[1]  n == k[2]
<1>1. k = <<h, n>> /\ h \in {"channel"} \cup Halves /\ n \in DOMAIN Table \cup Enabled \cup cmd.disable
  BY ExpectedSays
<1>2. k \in DOMAIN Options /\ Options[k] = Expected[k]
  BY ChannelsStand
<1>3. Enabled \subseteq DOMAIN Table
  BY TableAssumption DEF Enabled, MediaChannels
<1>4. /\ h = "channel" => (Expected[k] <=> Resolve(n, Enabled) # {})
      /\ h \in Halves => Resolve(n, Enabled) # {} /\ (Expected[k] <=> h \in Resolve(n, Enabled))
  <2>1. h = "channel" => (Expected[<<h, n>>] <=> Resolve(n, Enabled) # {})
    BY <1>1, ExpectedSays
  <2>2. h \in Halves => Resolve(n, Enabled) # {} /\ (Expected[<<h, n>>] <=> h \in Resolve(n, Enabled))
    BY <1>1, ExpectedSays
  <2> QED
    BY <1>1, <2>1, <2>2
<1> HIDE DEF h, n
<1>5. CASE n \notin DOMAIN Table
  <2>1. Resolve(n, Enabled) = {}
    BY <1>3, <1>5 DEF Resolve
  <2>2. h = "channel" /\ ~ Expected[k]
    BY <1>1, <1>4, <2>1
  <2>3. k \notin DOMAIN cache
    BY <1>1, <1>5, <2>2, CacheOfChannels
  <2> QED
    BY <2>2, <2>3
<1>6. CASE n \in DOMAIN Table
  <2>1. k \in DOMAIN cache
    BY <1>1, <1>2, <1>6, CacheOfChannels
  <2>2. Wants(n) => CMakeChannel(Options, n)
    <3> SUFFICES ASSUME Wants(n) PROVE CMakeChannel(Options, n)
      OBVIOUS
    <3>1. \A m \in DOMAIN Table : Wants(m) => IsOn(Options, <<"channel", m>>)
      BY ExpectedSays, ChannelsStand DEF Wants, IsOn
    <3>2. Table[n].type # "static" => Transport[Table[n].type] \in DOMAIN Table
      BY <1>6, TableAssumption DEF Transport
    <3>3. Table[n].type # "static" => IsOn(Options, <<"channel", Transport[Table[n].type]>>)
      BY <1>6, <3>1, <3>2
    <3> QED
      BY <1>6, <3>1, <3>3, ChannelsStand DEF CMakeChannel
  <2>3. cache[k] <=> Expected[k]
    <3>1. CASE h = "channel"
      <4>1. cache[k] <=> CMakeChannel(Options, n)
        BY <1>1, <2>1, <3>1, CacheOfChannels
      <4>2. CMakeChannel(Options, n) => Options[k]
        BY <1>1, <3>1 DEF CMakeChannel, IsOn
      <4> QED
        BY <1>2, <1>4, <2>2, <3>1, <4>1, <4>2 DEF Wants
    <3>2. CASE h \in Halves
      <4>1. cache[k] <=> CMakeHalf(Options, h, n)
        BY <1>1, <2>1, <3>2, CacheOfChannels
      <4>2. CMakeHalf(Options, h, n) => Options[k]
        BY <1>1, <3>2 DEF CMakeHalf, IsOn
      <4>3. ASSUME h \in Resolve(n, Enabled) PROVE CMakeHalf(Options, h, n)
        <5>1. h \in Sides
          BY <1>6, <4>3 DEF Resolve
        <5>2. IsOn(Options, <<"WITH", IF h = "client" THEN "CLIENT_CHANNELS" ELSE "SERVER_CHANNELS">>)
          BY <3>2, <5>1, ChannelsStand DEF Halves
        <5>3. IsOn(Options, <<h, n>>)
          BY <1>1, <1>2, <1>4, <3>2, <4>3 DEF IsOn
        <5>4. CMakeChannel(Options, n)
          BY <2>2, <4>3 DEF Wants
        <5>5. h = "client" => \A lib \in Table[n].needs : Has(lib)
          BY <1>6, <4>3
        <5> QED
          BY <5>2, <5>3, <5>4, <5>5 DEF CMakeHalf
      <4> QED
        BY <1>2, <1>4, <3>2, <4>1, <4>2, <4>3
    <3> QED
      BY <1>1, <3>1, <3>2
  <2>4. cache[k] \in BOOLEAN /\ Expected[k] \in BOOLEAN
    BY <1>2, <2>1, CacheIsBoolean, OptionsTyped
  <2> QED
    BY <2>1, <2>3, <2>4
<1> QED
  BY <1>5, <1>6

\* The checks of the codecs and of Kerberos compare what the sources said.
LEMMA CodecsVerified ==
  ASSUME cmd \in CommandLines, host \in Machines, DOMAIN cmd.extra = {}, cache = CMakeCache(Options),
         Dropped \cap {"FFMPEG", "DSP_FFMPEG", "SWSCALE", "OPENH264"} = {}
  PROVE  MediaVerified /\ (host.os # "Windows" => KerberosVerified)
<1>1. ASSUME NEW o \in {"FFMPEG", "DSP_FFMPEG", "SWSCALE"}
      PROVE  IsOn(cache, <<"WITH", o>>) <=> "ffmpeg" \in host.deps
  BY ScalersAndCodecs, NotDropped DEF IsOn
<1>2. IsOn(cache, <<"WITH", "OPENH264">>) <=> "openh264" \in host.deps
  BY ScalersAndCodecs, NotDropped DEF IsOn
<1>3. host.os # "Windows" => (IsOn(cache, <<"WITH", "KRB5">>) <=> Kerberos)
  <2>1. "KRB5" \notin host.drops
    BY DropsAreChecked DEF Droppable
  <2> QED
    BY <2>1, DisplaysAndKerberos, CacheOfSwitches
<1>4. \A k : IsOn(cache, k) \in BOOLEAN
  BY DEF IsOn
<1>5. Kerberos \in BOOLEAN
  BY DEF Kerberos
<1>6. MediaVerified
  BY <1>1, <1>2, <1>4 DEF MediaVerified
<1> QED
  BY <1>3, <1>4, <1>5, <1>6 DEF KerberosVerified

\* With --no-channels, and nothing of the user's own, no half is built.
LEMMA NothingBuilt ==
  ASSUME cmd \in CommandLines, host \in Machines, DOMAIN cmd.extra = {}, ~ cmd.channels,
         cache = CMakeCache(Options), NEW n
  PROVE  Built(n) = {}
<1>1. \A m : ~ CMakeChannel(Options, m)
  BY ChannelsStand DEF CMakeChannel
<1>2. \A h \in Halves : ~ IsOn(cache, <<h, n>>)
  BY <1>1, CacheOfChannels DEF IsOn, CMakeHalf
<1> QED
  BY <1>2 DEF Built

-----------------------------------------------------------------------------
(* The properties.                                                          *)

\* For every table of channels, command line and machine: what a verified
\* configuration builds of a channel is what was asked for it, whoever spoke
\* last, with its transport and the switch of its library.
THEOREM ChannelsAsAskedHolds == Spec => []ChannelsAsAsked
<1>1. ASSUME IInv PROVE ChannelsAsAsked
  <2> SUFFICES ASSUME Configured, cmd.channels \/ DOMAIN cmd.extra = {}, NEW n \in DOMAIN Table
               PROVE  /\ (~ cmd.channels \/ n \in cmd.disable) => Built(n) = {}
                      /\ cmd.channels /\ n \in cmd.enable => Built(n) = Table[n].halves \cap Sides
                      /\ Built(n) # {} =>
                           /\ host.os \in Table[n].platforms \/ n \in cmd.enable \cup MediaChannels
                           /\ Table[n].type # "static" => cache[<<"channel", Transport[Table[n].type]>>]
                      /\ "client" \in Built(n) =>
                           \A o \in Table[n].with : IsOn(cache, <<"WITH", o>>) \/ <<"WITH", o>> \in DOMAIN cmd.extra
    BY DEF ChannelsAsAsked
  <2>1. /\ cmd \in CommandLines /\ host \in Machines
        /\ cache = CMakeCache(Options) /\ ~ Clash /\ Verified
    BY <1>1 DEF IInv, TypeOK, Outcomes, Configured
  <2>2. CASE ~ cmd.channels
    <3>1. Built(n) = {}
      BY <2>1, <2>2, NothingBuilt
    <3> QED
      BY <2>2, <3>1
  <2>3. CASE cmd.channels
    <3>1. Built(n) = Resolve(n, Enabled)
      BY <2>1, <2>3, BuiltAsResolved DEF Verified
    <3>2. n \in cmd.disable => Built(n) = {}
      BY <3>1 DEF Resolve
    <3>3. n \in cmd.enable => Built(n) = Table[n].halves \cap Sides
      <4> SUFFICES ASSUME n \in cmd.enable PROVE Built(n) = Table[n].halves \cap Sides
        OBVIOUS
      <4>1. n \in Enabled /\ n \notin cmd.disable
        BY <2>1, <2>3 DEF Enabled, Clash
      <4>2. Resolve(n, Enabled) = (Sides \cap Table[n].halves) \ {}
        BY <4>1 DEF Resolve
      <4> QED
        BY <3>1, <4>2
    <3>4. ASSUME Built(n) # {}
          PROVE  /\ host.os \in Table[n].platforms \/ n \in cmd.enable \cup MediaChannels
                 /\ Table[n].type # "static" => cache[<<"channel", Transport[Table[n].type]>>]
      <4>1. host.os \in Table[n].platforms \/ n \in cmd.enable \cup MediaChannels
        BY <3>1, <3>4 DEF Resolve, Enabled
      <4> QED
        BY <2>1, <3>4, <4>1, TransportIsOn
    <3>5. ASSUME "client" \in Built(n), NEW o \in Table[n].with
          PROVE  IsOn(cache, <<"WITH", o>>) \/ <<"WITH", o>> \in DOMAIN cmd.extra
      <4>1. o \in ChannelExtras
        BY <3>1, <3>5 DEF ChannelExtras
      <4>2. IsOn(Options, <<"WITH", o>>) \/ <<"WITH", o>> \in DOMAIN cmd.extra
        BY <2>1, <2>3, <4>1, ChannelsStand
      <4> QED
        BY <2>1, <4>1, <4>2, CacheOfSwitches, DropsAreChecked, ExtrasAreUnchecked
    <3> QED
      BY <2>3, <3>2, <3>3, <3>4, <3>5
  <2> QED
    BY <2>2, <2>3
<1> QED
  BY <1>1, Invariance, PTL

\* A build is refused for a reason the user can act on: whatever the two
\* computations of the channels, they agree where none of the reasons is given.
THEOREM RefusedForCauseHolds == Spec => []RefusedForCause
<1>1. ASSUME IInv PROVE RefusedForCause
  <2> SUFFICES ASSUME pc = "refused", ~ Clash,
                      \A n \in DOMAIN Table :
                        Wants(n) /\ Table[n].type # "static" => Wants(Transport[Table[n].type]),
                      cmd.enable \subseteq DOMAIN Table,
                      \A n \in DOMAIN Table :
                        "client" \in Resolve(n, Enabled) => \A lib \in Table[n].needs : Has(lib),
                      Has("krb5"), DOMAIN cmd.extra = {},
                      Dropped \cap {"FFMPEG", "DSP_FFMPEG", "SWSCALE", "OPENH264"} = {}
               PROVE  FALSE
    BY DEF RefusedForCause
  <2>1. cmd \in CommandLines /\ host \in Machines
    BY <1>1 DEF IInv, TypeOK
  <2>2. ~ KerberosRefused
    BY DEF KerberosRefused
  <2>3. cache = CMakeCache(Options) /\ ~ Verified
    BY <1>1, <2>2 DEF IInv, Outcomes
  <2>4. cmd.channels => ChannelsVerified
    BY <2>1, <2>3, ExpectationsMet
  <2>5. MediaVerified /\ (host.os # "Windows" => KerberosVerified)
    BY <2>1, <2>3, CodecsVerified
  <2> QED
    BY <2>3, <2>4, <2>5 DEF Verified
<1> QED
  BY <1>1, Invariance, PTL

\* CMake stops for a missing library only where the user's own switches ask
\* for it.
THEOREM ConfigureGoesThroughHolds == Spec => []ConfigureGoesThrough
<1>1. ASSUME IInv PROVE ConfigureGoesThrough
  BY <1>1, NothingAborts DEF IInv, TypeOK, Outcomes, ConfigureGoesThrough
<1> QED
  BY <1>1, Invariance, PTL

\* Six sources, one scaler: FFmpeg's where the deps prefix has it, cairo where
\* it does not and the machine has cairo.
THEOREM OneScalerHolds == Spec => []OneScaler
<1>1. ASSUME IInv PROVE OneScaler
  <2> SUFFICES ASSUME Configured, DOMAIN cmd.extra = {}
               PROVE  /\ cache[<<"WITH", "SWSCALE">>] = ("ffmpeg" \in host.deps)
                      /\ cache[<<"WITH", "CAIRO">>] =
                           ("ffmpeg" \notin host.deps /\ host.os # "Windows" /\ Has("cairo"))
    BY DEF OneScaler
  <2>1. cmd \in CommandLines /\ host \in Machines /\ cache = CMakeCache(Options)
    BY <1>1 DEF IInv, TypeOK, Outcomes, Configured
  <2>2. /\ \A o \in {"SWSCALE", "CAIRO"} : <<"WITH", o>> \in DOMAIN cache
        /\ cache[<<"WITH", "SWSCALE">>] <=> "ffmpeg" \in host.deps
        /\ cache[<<"WITH", "CAIRO">>] <=> "ffmpeg" \notin host.deps /\ host.os # "Windows" /\ Has("cairo")
    <3>1. \A o \in {"SWSCALE", "CAIRO"} : <<"WITH", o>> \in DOMAIN cache
      BY <2>1, ScalersAndCodecs, CacheOfSwitches
    <3>2. "CAIRO" \notin host.drops
      BY <2>1, DropsAreChecked DEF Droppable
    <3>3. cache[<<"WITH", "CAIRO">>] <=> "ffmpeg" \notin host.deps /\ host.os # "Windows" /\ Has("cairo")
      BY <2>1, <3>2, ScalersAndCodecs, CacheOfSwitches
    <3>4. CASE "ffmpeg" \in host.deps
      <4>1. MediaVerified
        BY <1>1, <3>4 DEF IInv, Outcomes, Configured, Verified
      <4>2. IsOn(cache, <<"WITH", "SWSCALE">>) = ("ffmpeg" \in host.deps)
        BY <4>1 DEF MediaVerified
      <4> QED
        BY <3>1, <3>3, <3>4, <4>2 DEF IsOn
    <3>5. CASE "ffmpeg" \notin host.deps
      <4>1. ~ cache[<<"WITH", "SWSCALE">>]
        BY <2>1, <3>5, ScalersAndCodecs, CacheOfSwitches
      <4> QED
        BY <3>1, <3>3, <3>5, <4>1
    <3> QED
      BY <3>4, <3>5
  <2>3. cache[<<"WITH", "SWSCALE">>] \in BOOLEAN /\ cache[<<"WITH", "CAIRO">>] \in BOOLEAN
    BY <1>1, <2>2 DEF IInv, TypeOK
  <2> QED
    BY <2>2, <2>3
<1> QED
  BY <1>1, Invariance, PTL

\* A configuration that passes its checks lacks a promised library because CMake
\* dropped its feature, or in two cases where the promise is not asked for.
THEOREM IncompleteForCauseHolds == Spec => []IncompleteForCause
<1>1. ASSUME IInv PROVE IncompleteForCause
  <2> SUFFICES ASSUME pc = "incomplete", cmd.profile # "server-only",
                      ~ (Full /\ host.os = "Linux" /\ ~ Has("wayland")), DOMAIN cmd.extra = {},
                      Dropped \cap {"CLIENT_COMMON", "SERVER", "SHADOW"} = {}
               PROVE  FALSE
    BY DEF IncompleteForCause
  <2>1. /\ cmd \in CommandLines /\ host \in Machines /\ cache = CMakeCache(Options)
        /\ \E stem \in Promised : NamesWith(stem) \cap Products = {}
    BY <1>1 DEF IInv, TypeOK, Outcomes
  <2> QED
    BY <2>1, PromisesKept
<1> QED
  BY <1>1, Invariance, PTL
=============================================================================
