----------------------------- MODULE AgreedChain -----------------------------
(***************************************************************************)
(* What the validators promise together: one chain. Each height is decided *)
(* once, by one block whose parent is the block decided below it.          *)
(***************************************************************************)
EXTENDS Integers

CONSTANTS
  MaxHeight,  \* bound: the heights looked at
  Genesis     \* the block of height 0, as a record [block, prev]

VARIABLE decided  \* decided[h] : the blocks stored at height h by some node,
                  \* each as a record [block, prev] with its parent

Init == decided = [h \in 0 .. MaxHeight |-> IF h = 0 THEN {Genesis} ELSE {}]

Decide(h) ==
  /\ decided[h] = {}
  /\ \E link \in decided'[h] :
       /\ decided' = [decided EXCEPT ![h] = {link}]
       /\ \E below \in decided[h - 1] : link.prev = below.block

Next == \E h \in 1 .. MaxHeight : Decide(h)

Spec == Init /\ [][Next]_decided
=============================================================================
