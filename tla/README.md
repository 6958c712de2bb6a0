# A TLA+ development of routinechain

routinechain is a small permissioned blockchain written in Rust: a fixed set of
validators rotates as leaders, the leader of a height executes the submitted
transactions, proposes a block and waits for the signatures of the others, and
a state machine keeps participants, settlements, escrows, disputes and the RCW
token. This directory holds a formal model of it, the TLC runs that check the
model on small instances and the TLAPS proofs about it. Paths below are relative
to `src/crates/`.

## 1. Inventory

| component | state it keeps | operations | how it interacts |
|---|---|---|---|
| view change, `rc-consensus/src/lib.rs:119-183` | `round`, `view_change_votes` | leader rotation, `request_view_change`, `receive_view_change`, `reset_round` | called by the main loop; votes are broadcast |
| signing and finality, `rc-consensus/src/lib.rs:201-355` | none (keys, peers) | `verify_and_sign`, `verify_block_signature`, `is_finalized` | called by the main loop and `handle_proposal` |
| transport, `rc-consensus/src/lib.rs:358-479` | connection count, bounded channel | `send_to_peer`, `broadcast`, `listen`, the reader tasks | one TCP connection per message, one attempt, no order |
| peer discovery, `rc-node/src/main.rs:173-183,232-245`, `add_peer` | the peer list | handshake at start, answer to a new peer | adds the peers that the leader rotation counts |
| main loop, `rc-node/src/main.rs:56-479` | `pending_block`, `last_block_time_ms`, pending transactions, drained proposals | steps 1 to 8 of a tick, `handle_proposal` | everything meets here |
| store, `rc-store/src/lib.rs` | blocks, latest height, records, nonces | `put_block`, getters and setters, `compute_state_root` | written by the loop and the state machine |
| state machine, `rc-state/src/lib.rs` | the store | `execute`, `check_and_update_nonce`, `apply_block` | called with own pools and with proposals |
| state modules, `rc-state/src/modules/` | participants, settlements, escrows, disputes, balances, anchors | one function per transaction type | called by `execute` |
| trust score, `rc-types/src/state.rs:117-178` | none | `compute_trust_score` | read by RPC and events |
| RPC server, `rc-rpc/src/lib.rs` | none | `submit_tx` and queries | sends into the channel the loop drains |
| types, cryptography, command line, deployment | none | serialization, hashing, key files, containers | |

Hard behaviours: a block is *pending* over several ticks while votes,
signatures, proposals and transactions arrive; followers store a block before
the proposer knows that it will; the proposer executes before it proposes and
does not undo; messages may be lost and reordered and nothing is retransmitted; a
process may be killed between any two writes; a node's round, timer and
height move at different times. `PROJECT.json` lists the hazards line by line
with the properties that speak of them.

What makes each part correct: a round is entered only on a majority of real
votes and only climbs (view change); with a majority running, rounds advance
(view change); a stored block carries the signatures it needs, the nodes store
one chain, the state is what the headers say, no transaction takes effect twice,
the tip survives a kill (loop and store); rewards are paid once, RCW is
conserved, settled escrows and resolved disputes stay so, also where a
transaction is killed half-way (state modules); a loss does not raise a score
and a success does not lower it (trust score); sending loops, full channels and
taken slots do not block each other for good, and all nodes end up with the same
peers (transport and discovery).

## 2. Modules

| module | models |
|---|---|
| `ViewChange` | rounds and votes of all nodes; heights move as the loop moves them |
| `ViewChangeLive` | the same while no block is decided, with fairness |
| `NonceLedger` | operators: what executing transactions does to nonces and which take effect |
| `AgreedChain` | abstract specification: one chain, each height decided once |
| `Validator` | the nodes: main loop, messages, disk and kills; uses `ViewChange` (INSTANCE) and `NonceLedger` |
| `MCValidator` | transactions and calls for the runs of `Validator` |
| `StateMachine` | all transaction types of `rc-state` |
| `StateKills` | `StateMachine` with a process killed between two writes of a transaction |
| `TrustScore` | operators: `compute_trust_score` of a profile |
| `StateScores` | the scores of the profiles that `StateKills` reaches |
| `MCStateMachine` | accounts, nonce budgets and pasts for the runs of the three |
| `Network` | connections, slots and channels between the main loops, and peer discovery |
| `MCNetwork` | a configuration of three nodes for `Network` |
| `ViewChangeProofs` | theorems about `ViewChange` |
| `StateProofs`, `BooksProofs` | theorems about `StateKills`: its records; its sums and counts |
| `ScoreProofs` | theorems about the scores (`TrustScore`, `StateScores`) |
| `NetworkProofs` | theorems about `Network` |
| `LedgerProofs` | lemmas on the recursive functions of `NonceLedger` |
| `ValidatorProofs` | theorems about one node's store, nonces and pool, and the refinement of `ViewChange` |
| `ChainProofs` | theorems about the chain of a lone node, the refinement of `AgreedChain`, and state roots |

Definitions named `X_Something` next to `X` are mutated forms of `X`, each a
plausible bug; `PROJECT.json` says which property each one breaks. They are used
by no specification.

### ViewChange

`round[n]` and `votes[n]` are the fields of `Consensus`; `voted` is every
`ViewChange` message broadcast, kept so that any copy may be read late, again or
never. `RequestViewChange` is step 6.5 of the loop with `request_view_change` and
the broadcast that follows it whatever it returned; `ReceiveViewChange` is
`receive_view_change`, which counts votes of any height and adopts only higher
rounds. `FinalizeOwn` moves the height and resets the round (the proposer),
`ApplyProposal` moves the height only (a follower: the code resets nothing
there). Heights in `ApplyProposal` and `FinalizeOwn` are arbitrary, more than
the loop does, so the theorems do not depend on the rest of the node. A node is
its index in the sorted list of node ids; membership is the one of the
configuration files.

### Validator

A tick runs through `pc`: `"drain"` (steps 1 and 2), then step 3, then
`"proposals"` (step 4), then the timer (6.5) and `"produce"` (7 and 8).

| action | code |
|---|---|
| `Submit` | `submit_tx`, the RPC channel and step 5 |
| `RecvPropose`, `RecvSign`, `RecvViewChange` | step 2, one message |
| `FinalizePending`, `DiscardPending` | step 3 |
| `AcceptProposal`, `RejectProposal` | `handle_proposal` with `verify_and_sign` and `apply_block` |
| `VoteViewChange` | step 6.5 |
| `Produce` | step 8 with its guards of step 7, all four outcomes (no valid transaction, stored at once, pending, no peers) |
| `EndTick` | the `continue`s |
| `Crash`, `CrashInPut`, `CrashInApply`, `CrashInProduce` | a kill between handlers, between the two writes of `put_block`, and in the middle of executing a block or the pool |

Abstractions, and why they lose nothing the properties look at:

- A block is its index in `headers`; equal index means equal hash. Signatures are
  pairs of node and block: `verify_block_signature` checks against the header of
  the pending block.
- The main loop of a node is sequential and its mutexes guard only data the loop
  itself uses, so a handler is one step, except where a kill shows the middle.
- The RPC channel, `incoming_txs` and `pending_txs` are one sequence, because
  the loop moves all of them to the next before it looks at any. A transaction
  may be submitted only during a drain, which is no restriction: one that comes
  later waits for the next drain. The `SubmitTx` message is handled by the code
  but sent by none of it.
- Signatures are broadcast; only the proposer can count them, so the other copies
  are left out.
- A message that is never received is a lost message; any may be overtaken.
  Messages to a node that was restarted stay receivable, which is more than TCP
  gives.
- Clocks: the view change timer and the signature wait may expire in any tick.
  Timestamps of blocks are left out here.
- The code writes `EMPTY_HASH` as the state root of genesis; the model writes
  the root of the empty state. No proposal is a genesis block, so the exception
  of `apply_block` for `EMPTY_HASH` never applies.
- The state root is order-insensitive in the payloads (it is over the records,
  not their history).
- A kill while a payload executes leaves its nonce or nonce and effect; the
  single writes of a payload are split in `StateKills`, where a transaction has
  an effect to split.
- The peers are those of the configuration files. `Echo` is what discovery adds:
  a node with a peer that it found by a handshake and whose address is `0.0.0.0`,
  the default of `listen_address`, sends to itself what it sends to that peer
  (`Reached`); `Network` shows how it comes to that. Such a node stores its own
  block as a follower, may store the next one before the signatures on its own
  arrive, and then step 3 stores its own once more and `put_block` lowers
  `latest_height` again. `StateIsOfTip` therefore speaks of the other nodes.
- `ReplacedOnlyByOwn` looks at the proposer of the block that is stored, not at the
  handler that stores it: step 3 is the only place that may overwrite.
- Input of faulty or foreign nodes is not modelled: nodes run this code.

### StateMachine

One action per transaction type, with the guards, rewards and profile updates of
its module function; `NonceOnly` is a transaction the module refuses (its nonce is
used all the same) and `participant::update`. `minted` and `spent` are history.
Left out: metadata, hashes, amounts of escrows and settlements, creation times
(no guard reads them), and the `Funded` state of an escrow, which no code sets.
Balances are `earned + purchased`; nothing credits `purchased`. A vote is kept in
a set of votes: an arbiter has one vote, so the set is the list up to order, and
only counts are read. `MaxNonce` bounds how many transactions an account sends.
`MintToBoth` credits one party after the other, so that a party that is both gets
both rewards; the same with the profiles (`BothSucceeded`).

### StateKills

`execute` writes the nonce and then, key by key, what the transaction changes; it
does not use `StoreBatch`, and a restart rolls nothing back. `Killed...` is a
transaction of which only the first few writes were made, in the order of the
code. In the store a kill is one step, since nothing else runs between the writes
of one transaction. Kills before the first and after the last of these writes are
`NonceOnly` and the whole transaction. `paid` counts the rewards of each escrow.
The RCW in circulation is counted coin by coin (`Coins`), which is the sum of the
balances and lends itself to proof.
`SupplyConserved` turns into an inequality after a kill (a killed transfer
destroys RCW), `OpenDisputesCounted` may miss one dispute per kill, everything
else holds as it stands. What does not hold after a kill, and is stated by no
document: a killed `vote` leaves the dispute open with the reward paid, so the
next vote pays it again.

### TrustScore and StateScores

`TrustScore` has the five parts, the maturity factor and the cut to 16 bits with the
rounding of the code. A participant of a checked instance sends few transactions,
too few for a second tier of anything. `StateScores` therefore reads each profile
together with a *past*, a number of settlements with a volume and a time; these
commute with what the instance does to a profile, so the sum is a profile that the
state machine reaches. The pasts of the run stand just below and just above
the bounds of the tiers, so that one more transaction crosses them. The properties
assume ratings of at most 5 on average (`OnScale`), for the reason run `rating`
gives. `SettlingNeverHurts` also assumes that time does not go back, from one
proposer's clock to the next one's; where it does the part for longevity falls.
Two things follow from the code and contradict no document: a *failed* tenth
transaction raises the score, by the maturity factor; and the unit of a day
(`state.rs:152`) is seconds while the timestamps of blocks are milliseconds.

### Network

A main loop either has something to send (`sending`, one entry per peer, in order) or
drains and broadcasts. `Connect` and `ConnectFails` are `send_to_peer` with its
5 s for connecting; a message in `Large` is being written until it is read or its
connection is closed, since there is no time limit for writing. `Accept` and `Reject` are
the listener with `MAX_CONNECTIONS`, `Read` and `ReadTimeout` the reader task with
its 10 s, `Deliver` the wait for room in the channel, during which the slot
is kept, and `DropGuard` the end of the task. `Drain` is step 2 with `add_peer`
and the answer; `BroadcastBlock` stands for all the main loop broadcasts. Nobody
is killed here, and a lost handshake is recorded in `lost`. A node without peers
starts no listener; it is not part of a network. An address is the node it belongs
to or `0.0.0.0`, which is whoever connects to it. A connection carries the peer that
its sender meant (`peer`) beside the node it reaches (`to`), for these may differ:
two sends of one handshake to two peers at `0.0.0.0` are two connections.

## 3. Runs

Passing runs:

| run | instance | shows |
|---|---|---|
| `view_change` | 3 nodes, 1 height, 2 rounds | rounds are backed by authentic majorities, climbed one by one, fall only to 0 |
| `view_change_live` | 3 nodes, 2 running and starting in one round, 0 or 1; 2 rounds | every round is reached |
| `steady` | 3 nodes, one of them (the first leader) an `Echo`, quorum 2, 2 heights, 4 calls of 3 transactions; messages reordered and, for safety, lost | the nodes implement `AgreedChain`; state, headers and tip fit together; without losses the first block is decided |
| `faults` | 3 nodes, 2 heights, 1 discarded block, 1 kill | stored blocks are signed, nonces in order, tip stored, accepted transactions kept, nothing replaced by a proposal |
| `views` | 2 nodes, 2 heights, 1 round, 1 discard, 1 kill, a refused transaction | the same with view changes; the loop's view change refines `ViewChange` |
| `solo` | 1 node, 3 heights, 2 kills | the chain is linked |
| `state` | 2 accounts that may be arbiters, 1 escrow, 2 dispute ids, threshold 2, expiry, all transaction types, 1 kill; 6 pasts | settling is final, disputed escrows are frozen, resolutions are made once and by distinct arbiters, rewards are paid once, RCW is conserved or lost by the kill, scores move the right way |
| `network` | 3 nodes that know each other in a ring, one at `0.0.0.0`, 1 slot, room for 1 message, a large block | main loops get back to their ticks, slots are freed, handshakes end, all nodes know each other unless a handshake was lost |

Why the bounds are enough for the cases: two heights make a block with a decided
parent and a next leader; three nodes with quorum 2 make a proposer, a follower
that hears of a block and one that does not; two rounds make a vote for a round
above the next one; one discard and one kill each make a height proposed twice.
The nonce budgets of `state` (4 and 3 transactions) let an escrow be settled, disputed
or expired in any order, a dispute be resolved, raised again and voted on again,
and a killed transaction be sent again. In `network` one slot and one place make
every limit bind at once: the block is written to a node whose only slot may be taken by
a reader that waits for its channel, while that node sends too.
Deadlock is not checked where the bounds stop the model: once all calls are made
and handled nothing is left to do.

In `views`, two nodes have a quorum of both: with three nodes and view changes the
agreement properties fail (below), and the properties of the run are those that
hold of one node's store whatever the others do.

Violation runs, each under only the fault it names:

| run | property | what happens |
|---|---|---|
| `genesis` | `FirstBlockDecided` | each node made its own genesis block (`rc-node/src/main.rs:89`); every first proposal is rejected |
| `refused` | `RootIsAfterBlock` | the nonce of a refused transaction is in the proposer's state root and in no block (`rc-state/src/lib.rs:53`) |
| `rating` | `RatingHelps` | ratings go up to 500 but count as up to 5, so the score leaves its 16 bits and a first rating lowers it (`rc-types/src/state.rs:177`) |
| `discard` | `Agreement` | followers stored a block the proposer discarded (`rc-node/src/main.rs:271`); another one is stored at its height |

Six configurations beside these show, one fault each, further ways in which the nodes
differ from what one would like to state; TLC finds each property violated
(`tlc -config <configuration>.cfg MCValidator`, and `ViewChangeLive` for the first):

| configuration | property | what happens |
|---|---|---|
| `ViewChangeStale` | `RoundsAdvance` | a proposer that stored its block is back in round 0 while its followers keep round 1 (`rc-node/src/main.rs:467`); when the third node stops, one votes for round 1 and the other for round 2 for ever, and no leader is replaced any more |
| `ValidatorKilled` | `Agreement` | a killed proposer forgets a block its followers stored, as one that discards it does (`rc-node/src/main.rs:192`) |
| `ValidatorOvertaken` | `NeverReplaced` | after a view change step 3 overwrites the block another leader had stored there (`rc-node/src/main.rs:254`) |
| `ValidatorStaleRound` | `RoundIsOfNextHeight` | a follower that stores a block does not reset its round (`rc-node/src/main.rs:467`), against the comment of `reset_round` (`rc-consensus/src/lib.rs:179`) |
| `ValidatorEcho` | `StoredBlocksSigned` | a proposer that discovered a peer at `0.0.0.0` gets its own proposal, accepts it as a follower and stores it before anyone else signed it (`rc-node/src/main.rs:242,462`) |
| `ValidatorBehind` | `FollowersCatchUp` | a proposal that arrives before its parent is dropped for good (`rc-node/src/main.rs:450`) |

These are the conditions under which the code does not keep one chain that goes on:
`steady` says that without them it is one, even where a proposer's own proposal
comes back to it.

Two more behaviours worth knowing, which no document of the repository denies: a
dispute leaves its escrow `Disputed` also when it is resolved, so it can never be
released or refunded; and `settlement::record` overwrites a record of the same
id and pays the reward again.

## 4. Fairness

`TickFairness` is weak fairness of the steps of each node's loop, which
`tokio::time::interval` keeps ticking, and of the delivery of each kind of message to
each node. The second is a network without losses; the code does not enforce it (one
attempt per message), so the liveness properties are conditional on it, and
`FollowersCatchUp` fails even so. No fairness is assumed of `Submit`, of kills or of
the view change timer in `Validator`. Discarding is fair where it is enabled:
the wait is compared with a clock in every tick.
`Network` assumes that the tasks of a started node run: its listener binds and takes
what arrives, its readers read or run into their 10 s, its main loop connects or
runs into its 5 s, and drains. Nothing forces a node to start or to have a block. No
action is assumed to succeed where it may fail: `WF` is of `Read \/ ReadTimeout` and of
`Connect \/ ConnectFails` together.
`NoBlockFairness` is the same for `ViewChange`, for the nodes in `Live`, which must
be a majority for `RoundsAdvance`; the timer of a node that sees no block expires.

## 5. Proofs

TLAPS checks eight modules in full, for every value of the constants that satisfies
the assumptions the modules declare (`NAssumption`, `StateAssumption`, ...). These say
what the configuration says: counts are natural numbers, peer lists name other
nodes once. `NullAssumption` says that `Null`, which stands for a missing record, is
none. Every safety property that a passing run checks is stated by a theorem, and
`PROJECT.json` lists which.

Each proof is an inductive invariant, what a step may do to one part of the state
(an entry of a store, a node), and the properties as consequences.

**View change** (`ViewChangeProofs`).
`RoundInv == TypeOK /\ VotesAuthentic /\ CurrentRoundBacked /\ RoundLadder`.
That a node adopts a round on a majority in *its* table says something about the
votes broadcast only if the table is authentic; `RoundLadder` needs
`CurrentRoundBacked`, since a node votes for the round above its own. The
arithmetic is that `N \div 2 + 1` of `N` nodes are more than half.

**Records** (`StateProofs`, under `KillSpec`, so with kills between any two writes).
`RecordsInv == RefsOK /\ SuccessWithinTotal /\ VotesOpen /\ ResolvedByArbiters`.
`RefsOK` is needed because the code reads through references: a vote looks up the
escrow of its dispute and the profiles of both parties. `VotesOpen` (an unresolved
dispute is below the threshold, and has no vote before the phase of voting) makes
"exactly the threshold" in `ResolvedByArbiters` inductive. Whatever the transaction and
wherever it is killed, a step does to one profile, escrow or dispute one of few
things (`ProfileStep`, `EscrowStep`, `DisputeStep`); the action properties
`SettledForGood`, `DisputedIsFrozen` and `ResolutionStands` follow from these.
`EscrowPaidOnce` needs `PaidInv`: only a released escrow has been paid. That is the
order of the writes in `escrow::release`.

**Books** (`BooksProofs`). `SupplyConserved` by the lemmas on what `Minted` and `Moved` do to
the number of coins, also where sender and recipient, or buyer and seller, are the
same account. `OpenDisputesCounted` from `CountsInv`, which adds that an account has
finitely many open disputes, as the set of ids may be infinite.

**Scores** (`ScoreProofs`). With the divisions as they round: each of the five parts is at
most 10000 and moves the right way, the maturity factor does not turn it round, and
the cut to 16 bits then changes nothing. The hypothesis `OnScale` is in the properties
themselves, and run `rating` shows what happens without it.

**Network** (`NetworkProofs`).
`NetInv == TypeOK /\ IsFiniteSet(conns) /\ PeersDistinct /\ SendsInv /\ SlotsCounted`.
Connections are a set, so the slot count needs that a send never makes a connection
that is there already. This is `SendsInv`: at most one connection per send, none for
a message still waiting in `sending`, and only to peers the sender knows, which is why
a newly found peer has none.

**Ledger** (`LedgerProofs`). What executing any sequence of transactions does to nonces,
effects and the pool (`Final`, `Valid`, `CrashStates`, ...). TLAPS cannot use an induction theorem
that takes a predicate; these lemmas use that a nonempty set of natural numbers has a
least element, applied to the lengths for which the claim fails (`Induction`).

**Nodes** (`ValidatorProofs`). `ValInv` has a part for what is between the nodes
(`WorldInv`: a block above genesis has its proposer's signature, a message is about a
block that exists, a signature in a message was made) and one for each part of a node:
what is stored has its signatures (`StoreInv`), a pending block is the node's own
and its collected signatures were made for it (`PendingInv`), what waits as a proposal
comes from another node, or the node is an `Echo` (`ProposalsInv`). Blocks and
signatures are only added (`Grows`), so what is known of a block stays true. All
kills, `put_block`'s two writes included, are steps of this invariant.
`BlocksStaySigned` has the hypothesis `Echo = {}`: without it the property is false
(`ValidatorEcho`). `ViewChangeImplemented` maps every step of the nodes to a step of
`ViewChange`, so the theorems of the first module hold of the validators.

**Chain** (`ChainProofs`). The hypotheses name the faults left out, and each of them is
needed: the runs and configurations of section 3 show the violation without it.

- `SoloChainLinked`: a node alone (`Solo`), any number of kills. The strengthening
  (`SoloInv`) is that at most one half-stored block is above the latest height.
- `OneChain`: with a shared genesis and no discard, kill or view change (`Faultless`)
  the nodes implement `AgreedChain`; messages may be lost and overtake each other and
  nodes may reach themselves. `OneChainInv`: one block per height, by the leader of the
  height, on the one below (`OneBlockInv`); stored heights have no gap (`FilledInv`); a
  leader has stored all it proposed except for the pending block (`ProposedInv`). The
  last one is what keeps it from proposing a height twice. `Agreement` and
  `NeverReplaced` follow, which the violation run and a configuration refute otherwise.
- `StateStaysOfTip` and `RootsAreAfterBlocks`: if also no transaction is refused
  (`Undisturbed`). `StatesInv`: a node is in the state of its pending block or of the
  highest one it stored (`AtTop`), and a block leads from the root of its parent to its
  own, and from its own nowhere else (`Leads`). The second half is needed for the
  proposer, which executes a block before it proposes it, and, as an `Echo`, again as
  a follower: executing it twice changes nothing (`AgainNothing`).

Proving changed the project in two places. `StateIsOfTip` turned out not to hold of
nodes that reach themselves, which the run had missed because the second leader and not
the first was the `Echo`; `steady` now has the first one. And
connections in `Network` did not carry the peer they were meant for, so that two sends
became one where two peers share the address `0.0.0.0`.

Only model-checked: all liveness (`RoundsAdvance`, `FirstBlockDecided`, `SendsReturn`,
`SlotsFreed`, `DiscoveryEnds`, `SameNodes`), which TLAPS cannot do. The violations are
TLC's.

## 6. Not modelled, and the plan

Not modelled: cryptography and serialization (hashes injective, signatures
unforgeable), the command line and deployment (input and output), RocksDB errors, the
queries of the RPC server that only read and format, `propose_block` and `StoreBatch`,
which no code calls, and the length of a day against the clock of the blocks. Nodes that
disagree on their peers are in `Network` (a lost handshake) but not composed with
`Validator`, which has one membership.

The order was view change, loop, store and nonces, then the state modules, since
what can go wrong between nodes is what tests hardly reach; then kills inside a
transaction, the trust score, the transport and discovery, then the proofs of their
safety. Next:

1. `Network`: the safety half of `SameNodes`, that the nodes know each other once all are
   up and no handshake is under way or was lost.
2. `ChainProofs`: agreement where only nodes without a pending block are killed, if
   TLC confirms it.
3. `Validator` with several memberships, for the nodes that lost a handshake.

## 7. Running

In this directory:

    tlc -workers 2 -config ValidatorFaults.cfg MCValidator
    tlapm ViewChangeProofs.tla     # and StateProofs, BooksProofs, ScoreProofs, NetworkProofs,
                                   # LedgerProofs, ValidatorProofs, ChainProofs

The module and configuration of every run are in `PROJECT.json`.
