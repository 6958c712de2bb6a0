------------------------------ MODULE MCNetwork ------------------------------
(***************************************************************************)
(* Configurations of the nodes for the run of Network.                     *)
(***************************************************************************)
EXTENDS Network, TLC

CONSTANTS A, B, C

\* A knows B and B knows C and C knows A.
Ring == (A :> <<B>>) @@ (B :> <<C>>) @@ (C :> <<A>>)

\* Who broadcasts a block.
Senders == (A :> 0) @@ (B :> 1) @@ (C :> 0)
=============================================================================
