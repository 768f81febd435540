-------------------------- MODULE MCChatPlayground --------------------------
(***************************************************************************)
(* Instances of ChatPlayground for TLC.                                    *)
(***************************************************************************)
EXTENDS ChatPlayground, TLC
=============================================================================
