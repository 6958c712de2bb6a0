----------------------------- MODULE MCValidator -----------------------------
(***************************************************************************)
(* Transactions and calls for the runs of Validator. With three nodes,     *)
(* node 1 leads height 1 and node 2 height 2 in round 0.                   *)
(***************************************************************************)
EXTENDS Validator

Tx(payload, sender, nonce) == [payload |-> payload, sender |-> sender, nonce |-> nonce]

A1 == Tx("transfer1", "alice", 1)
A2 == Tx("transfer2", "alice", 2)
B1 == Tx("transfer3", "bob", 1)
Bad == Tx("overdraft", "bob", 1)

AllTxs == {A1, A2, B1, Bad}
NoTxs == {}
BadTxs == {Bad}

\* Two nodes are sent transactions of the same sender, one of them the same.
SteadySubmissions == {<<1, A1>>, <<1, A2>>, <<2, A1>>, <<2, B1>>}

\* Node 1 has two transactions of one sender, and node 2 is sent the later one too.
FaultySubmissions == {<<1, A1>>, <<1, A2>>, <<2, A2>>}

\* Two nodes (node 1 leads height 1, node 0 height 2): the same transaction is
\* sent to both, and one that is refused to node 1.
ViewSubmissions == {<<0, A1>>, <<1, A1>>, <<1, Bad>>}

\* One good transaction for each of the first two leaders.
TwoSubmissions == {<<1, A1>>, <<2, B1>>}

\* The leader of height 1 has a good transaction and a refused one.
RefusedSubmissions == {<<1, A1>>, <<1, Bad>>}

\* A client sends one transaction to the leaders of height 1 in rounds 0 and 1.
TwiceSubmissions == {<<1, A1>>, <<2, A1>>}

\* The leader of height 1 has two transactions, which may go to two blocks.
DiscardSubmissions == {<<1, A1>>, <<1, A2>>}

\* A node without peers.
SoloSubmissions == {<<0, A1>>, <<0, A2>>, <<0, B1>>, <<0, Bad>>}
=============================================================================
