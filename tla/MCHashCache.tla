----------------------------- MODULE MCHashCache -----------------------------
(***************************************************************************)
(* Two files under two paths, which may change places.                     *)
(***************************************************************************)
EXTENDS HashCache, TLC

CONSTANTS p, q, i, j, w1, w2

MCInode0 == (p :> i) @@ (q :> j)
MCSymmetry == Permutations(Workers)
=============================================================================
