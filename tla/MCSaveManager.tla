---------------------------- MODULE MCSaveManager ----------------------------
(* Instances of SaveManager for TLC. *)
EXTENDS SaveManager
==============================================================================
