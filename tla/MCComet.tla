------------------------------ MODULE MCComet -------------------------------
(* Two ctokens, two blocks of up to two logs.                               *)
EXTENDS Comet, TLC

MCSymmetry == Permutations(Ctokens)
=============================================================================
