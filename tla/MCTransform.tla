----------------------------- MODULE MCTransform -----------------------------
(***************************************************************************)
(* Programs that write up to two units to pipes of one unit.               *)
(***************************************************************************)
EXTENDS Transform
=============================================================================
