--------------------------- MODULE MCHealthFactor ---------------------------
(* Two ctokens whose prices and rates are far apart, balances that cover a  *)
(* seizure and that do not, one that lost transfers have made negative.     *)
EXTENDS HealthFactor, TLC

MCCols == {-1, 5, 40}
MCSymmetry == Permutations(Ctokens)
=============================================================================
