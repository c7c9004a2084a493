---------------------------- MODULE MCBuildConfig ----------------------------
(* One channel of every kind of row in CHANNELS, and command lines that      *)
(* combine what can conflict.                                                *)
EXTENDS BuildConfig, TLC

Everywhere == {"Linux", "Darwin", "Windows"}
Both == {"client", "server"}
Row(type, halves, default) ==
  [type |-> type, halves |-> halves, default |-> default, platforms |-> Everywhere,
   onRequest |-> {}, needs |-> {}, with |-> {}]

MCTable ==
  [drdynvc |-> Row("static", Both, TRUE), rdpdr |-> Row("static", Both, TRUE),
   rdpsnd |-> Row("static", Both, TRUE), rdpgfx |-> Row("dynamic", Both, TRUE),
   drive |-> Row("device", {"client"}, TRUE),
   serial |-> [Row("device", {"client"}, TRUE) EXCEPT !.platforms = {"Linux"}],
   telemetry |-> Row("dynamic", {"server"}, TRUE), gfxredir |-> Row("dynamic", {"server"}, FALSE),
   rdpecam |-> [Row("dynamic", Both, TRUE) EXCEPT !.onRequest = {"client"}, !.needs = {"ffmpeg"}],
   urbdrc |-> [Row("dynamic", {"client"}, FALSE) EXCEPT !.needs = {"usb"}],
   printer |-> [Row("device", {"client"}, FALSE) EXCEPT !.needs = {"cups"}, !.with = {"CUPS"}]]

Profiles == {"minimal", "full", "client-only", "server-only"}
Plain == [profile |-> "minimal", enable |-> {}, disable |-> {}, channels |-> TRUE, krb5 |-> "policy",
          executables |-> FALSE, shadow |-> TRUE, extra |-> <<>>]
Extras == {<<>>, <<"WITH", "SHADOW">> :> TRUE, <<"WITH", "CUPS">> :> FALSE, <<"WITH", "CAIRO">> :> TRUE,
           <<"channel", "rdpgfx">> :> FALSE,
           \* What overrides --no-channels.
           [k \in {<<"WITH", "CHANNELS">>, <<"WITH", "CLIENT_CHANNELS">>,
                   <<"channel", "serial">>, <<"channel", "rdpdr">>, <<"client", "serial">>} |-> TRUE]}
Enables == {{}, {"printer"}, {"urbdrc"}, {"rdpecam", "serial"}, {"gfxredir"}, {"rdpgfx"}, {"vnc"}}
Disables == {{}, {"drdynvc"}, {"rdpdr"}, {"urbdrc"}, {"rdpecam"}, {"rdpgfx"}, {"vnc"}}

\* Channels in every combination, and the other choices with and without a channel.
MCCommandLines ==
  {[Plain EXCEPT !.profile = p, !.enable = e, !.disable = d] :
     p \in Profiles, e \in Enables, d \in Disables}
  \cup {[Plain EXCEPT !.profile = p, !.enable = e, !.channels = c, !.shadow = s, !.extra = o] :
          p \in Profiles, e \in {{}, {"printer"}}, c \in BOOLEAN, s \in BOOLEAN, o \in Extras}
  \cup {[Plain EXCEPT !.profile = p, !.krb5 = k, !.executables = x] :
          p \in Profiles, k \in {"on", "off"}, x \in BOOLEAN}

Libraries == {"cairo", "wayland", "x11", "krb5", "cups", "icu"}
Prefixes == {{}, {"usb", "openh264"}, {"usb", "ffmpeg", "openh264"}, {"ffmpeg"}}
MCMachines ==
  [os : Everywhere, deps : Prefixes, drops : {{}},
   has : {Libraries, {}} \cup {Libraries \ {l} : l \in {"cairo", "wayland", "krb5", "icu"}}]
  \cup [os : Everywhere, deps : Prefixes, has : {Libraries},
        drops : {{"SERVER"}, {"SHADOW"}, {"SWSCALE", "FFMPEG"}, {"OPENH264"}}]
=============================================================================
