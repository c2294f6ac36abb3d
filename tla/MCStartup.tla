----------------------------- MODULE MCStartup ------------------------------
(* Small instances of Startup: the contents only have to tell a block from  *)
(* the one that replaces it.                                                *)
EXTENDS Startup

CONSTANTS c1, c2
=============================================================================
