------------------------------ MODULE MCOnChain ------------------------------
(***************************************************************************)
(* Instances of OnChain for TLC.                                           *)
(***************************************************************************)
EXTENDS OnChain

CONSTANTS p1, p2, h1, h2
==============================================================================
