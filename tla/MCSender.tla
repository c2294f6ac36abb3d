------------------------------ MODULE MCSender ------------------------------
(* Two users, two accounts, of a bundle's liquidations one is taken.  The    *)
(* first two amounts are within 10% of each other; a profit of 2 reaches the *)
(* floor, two of 1 do so together.                                           *)
EXTENDS Sender, TLC

MCAccounts == <<"acc1", "acc2">>

MCProfits == {1, 2}

MCSymmetry == Permutations(Users)
=============================================================================
