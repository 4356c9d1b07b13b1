------------------------------- MODULE MC_Dmp -------------------------------
(***************************************************************************)
(* Small instance of Dmp for TLC.  Sizes and the allocation ceiling are    *)
(* scaled so that the hard limit is 2 (config size 1) or 1 (config size 2) *)
(* and the threshold 1 or 0: both fee rules fire within three messages.    *)
(***************************************************************************)
EXTENDS Dmp, TLC

CONSTANTS p1, p2, m1, m2

MCParas == {p1, p2}
MCParasOne == {p1}
MCPayloads == {m1, m2}
MCPayloadSize == (m1 :> 1) @@ (m2 :> 2)

\* Both paras play the same role: the spec is symmetric in ParaId.
MCSymmetry == Permutations(MCParas)

=============================================================================
