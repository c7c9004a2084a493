------------------------------ MODULE MCWheels ------------------------------
(***************************************************************************)
(* Instances of Wheels: a desktop and an Android platform with any of three   *)
(* variants each, a stray entry, artifacts without _libs, and directories and *)
(* archives of one platform side by side.                                     *)
(***************************************************************************)
EXTENDS Wheels

CONSTANTS linux, android

AllTags == {linux, android}
Phones == {android}

Artifact(t, p, e, s, l) == [tag |-> t, profile |-> p, edition |-> e, shape |-> s, libs |-> l]
Dir(t, p, e) == Artifact(t, p, e, "directory", TRUE)

Universe(t) == <<Dir(t, "full", "ffmpeg"), Dir(t, "full", "media"),
                 Dir(t, "minimal", "ffmpeg"), Dir(t, "minimal", "standard")>>
\* Any of the four, one of them perhaps without a _libs.
Some(t) ==
  UNION {LET kept == SelectSeq(Universe(t), LAMBDA e : e \in s)
         IN  {kept} \cup {[kept EXCEPT ![i].libs = FALSE] : i \in DOMAIN kept} :
           s \in SUBSET {Universe(t)[i] : i \in 1..4}}
\* Three variants, each absent, a directory or an archive.
Mixed(t) ==
  LET Forms(p, e, shapes) == {<<>>} \cup {<<Artifact(t, p, e, s, TRUE)>> : s \in shapes}
  IN  {f \o d \o g : f \in Forms("full", "ffmpeg", {"directory", "archive"}),
                    d \in Forms("full", "media", {"archive", "release"}),
                    g \in Forms("minimal", "ffmpeg", {"archive"})}
Alone(t) == {<<Artifact(t, "full", "ffmpeg", "archive", FALSE)>>}
Few(t) == {<<>>, <<Dir(t, "full", "media"), Dir(t, "minimal", "standard")>>}
Stray == {<<>>, <<Artifact(None, "full", "media", "directory", TRUE)>>}

SomeWorlds == {a \o l \o s : a \in Few(android), l \in Some(linux) \cup Mixed(linux) \cup Alone(linux), s \in Stray}
=============================================================================
