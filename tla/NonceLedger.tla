----------------------------- MODULE NonceLedger -----------------------------
(***************************************************************************)
(* What the validators need to know of the state machine (rc-state): which *)
(* transactions a node executes, in terms of the nonces of the senders.    *)
(* check_and_update_nonce writes the nonce before the payload is looked    *)
(* at, and nothing rolls it back when the payload is refused.              *)
(*                                                                         *)
(* Payloads are abstract: a refused one fails in its module whatever the   *)
(* state (a transfer without funds, say) and any other succeeds and        *)
(* commutes with the rest, so the state root sees which payloads took      *)
(* effect and the nonces, and not their order. StateMachine has the        *)
(* payloads themselves.                                                    *)
(***************************************************************************)
EXTENDS Integers, Sequences, SequencesExt

CONSTANTS
  Txs,      \* the transactions clients sign: records [payload, sender, nonce]
  Refused   \* those whose payload its module refuses

ASSUME TxsAssumption ==
  /\ \A tx \in Txs : tx = [payload |-> tx.payload, sender |-> tx.sender, nonce |-> tx.nonce]
  /\ \A tx \in Txs : tx.nonce \in Nat
  /\ Refused \subseteq Txs

Senders == {tx.sender : tx \in Txs}

\* done is the sequence of the transactions that took effect.
EmptyState == [nonce |-> [a \in Senders |-> 0], done |-> <<>>]

NonceFresh_AllowsEqual(s, tx) == tx.nonce >= s.nonce[tx.sender]

NonceFresh(s, tx) == tx.nonce > s.nonce[tx.sender]

SetNonce(s, tx) == [s EXCEPT !.nonce[tx.sender] = tx.nonce]

\* execute returns Ok.
Succeeds(s, tx) == NonceFresh(s, tx) /\ tx \notin Refused

\* The state execute leaves behind, whatever it returns.
Execute(s, tx) ==
  IF ~NonceFresh(s, tx) THEN s
  ELSE IF tx \in Refused THEN SetNonce(s, tx)
  ELSE [SetNonce(s, tx) EXCEPT !.done = Append(@, tx)]

\* The states along the execution of txs from s: ExecuteAll(s, txs)[i] is the
\* state after the first i of them.
ExecuteAll(s, txs) ==
  LET after[i \in 0 .. Len(txs)] ==
        IF i = 0 THEN s ELSE Execute(after[i - 1], txs[i])
  IN  after

\* valid_txs of the proposer: those that succeeded, in order.
Valid(s, txs) ==
  LET kept[i \in 0 .. Len(txs)] ==
        IF i = 0 THEN <<>>
        ELSE IF Succeeds(ExecuteAll(s, txs)[i - 1], txs[i])
             THEN Append(kept[i - 1], txs[i])
             ELSE kept[i - 1]
  IN  kept[Len(txs)]

\* What a crash in the middle of executing txs may leave on disk: some of them
\* executed, and perhaps the nonce of the next one.
CrashStates(s, txs) ==
  LET after == ExecuteAll(s, txs)
  IN  {after[i] : i \in 0 .. Len(txs)}
        \union {SetNonce(after[i - 1], txs[i]) :
                  i \in {j \in 1 .. Len(txs) : NonceFresh(after[j - 1], txs[j])}}

\* compute_state_root covers the nonces and the records of the payloads.
StateRoot(s) == [nonce |-> s.nonce, done |-> ToSet(s.done)]
=============================================================================
