--------------------------- MODULE MCSupervision ----------------------------
(* Two of the four light-node subscriptions, which are alike.               *)
EXTENDS Supervision
=============================================================================
