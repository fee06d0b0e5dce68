------------------------------ MODULE MCScript -------------------------------
(***************************************************************************)
(* Reports of four groups, one of which gives no commands.                 *)
(***************************************************************************)
EXTENDS Script

CONSTANTS t1, t2, t3

MCLines == <<1, 0, 2, 1>>
=============================================================================
