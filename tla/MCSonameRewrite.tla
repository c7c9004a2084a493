--------------------------- MODULE MCSonameRewrite ---------------------------
(***************************************************************************)
(* Instances of SonameRewrite: libcrypto (1), libssl (2) and the library     *)
(* libwinpr3 (3), in that order of names, with every way in which they can   *)
(* need each other.                                                         *)
(***************************************************************************)
EXTENDS SonameRewrite

WinPR == {3}
AllGraphs == {g \in [Libs -> SUBSET Libs] : \A l \in Libs : l \notin g[l]}
Everything == {Libs}
AnyPart == SUBSET Libs
=============================================================================
