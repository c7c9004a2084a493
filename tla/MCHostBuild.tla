---------------------------- MODULE MCHostBuild ----------------------------
(***************************************************************************)
(* Instances of HostBuild: one configuration repeated, and two that          *)
(* alternate.                                                               *)
(***************************************************************************)
EXTENDS HostBuild

Minimal == [profile |-> "minimal", edition |-> "standard", dropped |-> {},
            engine |-> FALSE, verify |-> TRUE]
Full    == [Minimal EXCEPT !.profile = "full", !.edition = "media", !.engine = TRUE]
FullNoShadow == [Full EXCEPT !.dropped = {"shadow"}]
FullNoProxyUnchecked == [Full EXCEPT !.dropped = {"proxy"}, !.verify = FALSE]

FullTwice  == {Full, FullNoShadow}
AnyConfig  == {Minimal, Full, FullNoShadow, FullNoProxyUnchecked}
=============================================================================
