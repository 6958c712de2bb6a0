------------------------------ MODULE Validator ------------------------------
(***************************************************************************)
(* The validators of routinechain: the block production loop of            *)
(* crates/rc-node/src/main.rs, the messages of rc-consensus between the    *)
(* nodes and what each node has on disk.                                   *)
(*                                                                         *)
(* A tick of the loop is: drain the RPC channel and the messages, finalize *)
(* or discard the pending block, handle the proposals that were drained,   *)
(* vote for a view change if the timer expired, and produce a block if     *)
(* leader. The steps of one node between two of its sends touch only its   *)
(* own state, so each handler is one action; the points where a crash can  *)
(* leave a handler half done on disk have actions of their own.            *)
(*                                                                         *)
(* A block is identified by its index in headers (distinct blocks have     *)
(* distinct hashes), so a hash is compared by comparing indices. Time is   *)
(* not modelled: the view change timer and the signature wait may expire   *)
(* in any tick.                                                            *)
(***************************************************************************)
EXTENDS NonceLedger, FiniteSets

CONSTANTS
  N,              \* number of nodes in the configuration files
  MinSignatures,  \* consensus.min_signatures
  SharedGenesis,  \* TRUE: the nodes start from copies of one data directory
  Echo,           \* the nodes that reach themselves at a peer's address, 0.0.0.0
  Submissions,    \* the calls <<node, transaction>> of rc_submitTx
  MaxHeight,      \* bound: highest block height
  MaxRound,       \* bound: highest view change round; 0 turns the timer off
  MaxDiscards,    \* bound: how many pending blocks time out
  MaxCrashes      \* bound: how many times a process is killed and restarted

Node == 0 .. N - 1

ASSUME ValidatorAssumption ==
  /\ N \in Nat \ {0} /\ MinSignatures \in Nat \ {0}
  /\ SharedGenesis \in BOOLEAN /\ Echo \subseteq Node
  /\ Submissions \subseteq Node \X Txs
  /\ MaxHeight \in Nat \ {0} /\ {MaxRound, MaxDiscards, MaxCrashes} \subseteq Nat

VARIABLES
  \* the store of each node
  chain,      \* chain[n][h] : the block at height h, NoBlock if none
  latest,     \* latest[n] : latest_height
  app,        \* app[n] : the rest of the store, what the state root is over
  \* the memory of each node
  pool,       \* pool[n] : the RPC channel and pending_txs, in order
  pending,    \* pending[n] : pending_block, NoBlock if none
  sigs,       \* sigs[n] : the nodes whose valid signature is on pending_block
  proposals,  \* proposals[n] : the proposals drained in this tick, in order
  pc,         \* pc[n] : "drain", "proposals" or "produce", the part of the tick
  round,      \* Consensus::round
  votes,      \* Consensus::view_change_votes
  \* the world outside the nodes
  headers,    \* every block ever built; a block is its index here
  net,        \* Propose and Sign messages under way; a lost one stays here
  voted,      \* ViewChange messages broadcast so far
  signed,     \* <<node, block>> for every signature ever made (history)
  todo,       \* the calls of Submissions still to be made
  discards,   \* number of pending blocks that timed out
  crashes     \* number of restarts

storeVars == <<chain, latest, app>>
viewVars == <<round, votes, voted>>
boundVars == <<discards, crashes>>
vars == <<chain, latest, app, pool, pending, sigs, proposals, pc, round, votes,
          headers, net, voted, signed, todo, discards, crashes>>

NoBlock == 0

VC == INSTANCE ViewChange WITH
        MaxHeight <- MaxHeight + 1,
        height <- [n \in Node |-> latest[n] + 1]

\* main.rs: a node without peers needs only its own signature.
Quorum == IF N = 1 THEN 1 ELSE MinSignatures

GenesisOf(n) == IF SharedGenesis THEN 1 ELSE n + 1

Height(b) == headers[b].height

\* Where the broadcasts of n arrive, if they do. A peer that came by a handshake
\* has the address it listens on; for 0.0.0.0, the default, that is n itself
\* (module Network).
Reached(n) == (Node \ {n}) \union (Echo \intersect {n})

\* Messages: a proposal, and a signature on a block. A signature is broadcast
\* but counts only at a node whose pending block it verifies against, which is
\* the proposer: the copies to the others are left out.
ProposeMsgs(b, from) == {[type |-> "Propose", block |-> b, to |-> m] : m \in Reached(from)}
SignMsg(b, from) == [type |-> "Sign", block |-> b, from |-> from, to |-> headers[b].proposer]

\* is_finalized: enough unique valid signatures.
IsFinalized_OneShort(signers) == Cardinality(signers) >= Quorum - 1

IsFinalized(signers) == Cardinality(signers) >= Quorum

-----------------------------------------------------------------------------
Init ==
  /\ headers = [i \in 1 .. (IF SharedGenesis THEN 1 ELSE N) |->
                  [height |-> 0, prev |-> NoBlock, txs |-> <<>>,
                   root |-> StateRoot(EmptyState), proposer |-> i - 1]]
  /\ chain = [n \in Node |-> [h \in 0 .. MaxHeight |-> IF h = 0 THEN GenesisOf(n) ELSE NoBlock]]
  /\ latest = [n \in Node |-> 0]
  /\ app = [n \in Node |-> EmptyState]
  /\ pool = [n \in Node |-> <<>>]
  /\ pending = [n \in Node |-> NoBlock]
  /\ sigs = [n \in Node |-> {}]
  /\ proposals = [n \in Node |-> <<>>]
  /\ pc = [n \in Node |-> "drain"]
  /\ round = [n \in Node |-> 0]
  /\ votes = [n \in Node |-> {}]
  /\ net = {}
  /\ voted = {}
  /\ signed = {}
  /\ todo = Submissions
  /\ discards = 0
  /\ crashes = 0

Enqueue_UnlessPending(n, tx) == IF pending[n] = NoBlock THEN Append(pool[n], tx) ELSE pool[n]

Enqueue(n, tx) == Append(pool[n], tx)

\* submit_tx accepts a signed transaction into the channel to the main loop.
\* One that arrives after the channel was drained waits for the next tick, so
\* it may as well arrive during the next drain.
Submit(n, tx) ==
  /\ <<n, tx>> \in todo
  /\ pc[n] = "drain"
  /\ todo' = todo \ {<<n, tx>>}
  /\ pool' = [pool EXCEPT ![n] = Enqueue(n, tx)]
  /\ UNCHANGED <<storeVars, pending, sigs, proposals, pc, viewVars, headers, net, signed, boundVars>>

\* Step 2, Propose: kept for step 4.
RecvPropose(n) ==
  \E m \in net :
    /\ m.type = "Propose" /\ m.to = n
    /\ pc[n] = "drain"
    /\ net' = net \ {m}
    /\ proposals' = [proposals EXCEPT ![n] = Append(@, m.block)]
    /\ UNCHANGED <<storeVars, pool, pending, sigs, pc, viewVars, headers, signed, todo, boundVars>>

SignatureCounts_AnyAtHeight(n, m) ==
  pending[n] # NoBlock /\ Height(m.block) = Height(pending[n])

\* verify_block_signature checks the signature against the header of the
\* pending block, so one made for another block of the same height fails.
SignatureCounts(n, m) ==
  /\ pending[n] # NoBlock
  /\ Height(m.block) = Height(pending[n])
  /\ m.block = pending[n]

\* Step 2, Sign: a signature on the pending block is kept, any other is dropped.
RecvSign(n) ==
  \E m \in net :
    /\ m.type = "Sign" /\ m.to = n
    /\ pc[n] = "drain"
    /\ net' = net \ {m}
    /\ sigs' = [sigs EXCEPT ![n] = IF SignatureCounts(n, m) THEN @ \union {m.from} ELSE @]
    /\ UNCHANGED <<storeVars, pool, pending, proposals, pc, viewVars, headers, signed, todo, boundVars>>

\* Step 2, ViewChange.
DrainedVotes_AsOwn(n) == {[vote EXCEPT !.node_id = n] : vote \in voted}

DrainedVotes(n) == {vote \in voted : n \in Reached(vote.node_id)}

RecvViewChange(n) ==
  \E vote \in DrainedVotes(n) :
    /\ pc[n] = "drain"
    /\ UNCHANGED <<storeVars, pool, pending, sigs, proposals, pc, headers, net, signed, todo, boundVars>>
    /\ VC!ReceiveViewChange(n, vote)

\* put_block: block b at height h, then latest_height, whatever was there.
PutBlock(n, h, b) ==
  /\ chain' = [chain EXCEPT ![n][h] = b]
  /\ latest' = [latest EXCEPT ![n] = h]

\* put_block killed between its two writes.
TornPut_HeightFirst(n, h, b) ==
  /\ latest' = [latest EXCEPT ![n] = h]
  /\ UNCHANGED chain

TornPut(n, h, b) ==
  /\ chain' = [chain EXCEPT ![n][h] = b]
  /\ UNCHANGED latest

\* pending_block = None.
ClearPending(n) ==
  /\ pending' = [pending EXCEPT ![n] = NoBlock]
  /\ sigs' = [sigs EXCEPT ![n] = {}]

\* Step 3: the pending block has enough signatures.
FinalizePending(n) ==
  /\ pc[n] = "drain"
  /\ pending[n] # NoBlock /\ IsFinalized(sigs[n])
  /\ PutBlock(n, Height(pending[n]), pending[n])
  /\ VC!ResetRound(n)
  /\ ClearPending(n)
  /\ pc' = [pc EXCEPT ![n] = "proposals"]
  /\ UNCHANGED <<app, pool, proposals, headers, net, signed, todo, boundVars>>

\* Step 3: the pending block waited too long for signatures. What its
\* transactions did to the state stays.
DiscardPending(n) ==
  /\ discards < MaxDiscards
  /\ pc[n] = "drain"
  /\ pending[n] # NoBlock /\ ~IsFinalized(sigs[n])
  /\ ClearPending(n)
  /\ pc' = [pc EXCEPT ![n] = "proposals"]
  /\ discards' = discards + 1
  /\ UNCHANGED <<storeVars, pool, proposals, viewVars, headers, net, signed, todo, crashes>>

\* Step 4 begins: the messages are drained and step 3 has nothing (more) to do.
AtProposals(n) ==
  \/ pc[n] = "proposals"
  \/ pc[n] = "drain" /\ ~(pending[n] # NoBlock /\ IsFinalized(sigs[n]))

Acceptable_NoForkCheck(n, b) ==
  LET h == Height(b)
  IN  /\ chain[n][h - 1] # NoBlock
      /\ headers[b].prev = chain[n][h - 1]
      /\ headers[b].proposer = VC!LeaderForHeightRound(h, round[n])

Acceptable_LeaderOfParent(n, b) ==
  LET h == Height(b)
  IN  /\ chain[n][h] = NoBlock
      /\ chain[n][h - 1] # NoBlock
      /\ headers[b].prev = chain[n][h - 1]
      /\ headers[b].proposer = VC!LeaderForHeightRound(h - 1, round[n])

\* handle_proposal and verify_and_sign accept block b: no block at its height,
\* its parent is the block stored below, and its proposer is the leader of the
\* height in the round this node is in.
Acceptable(n, b) ==
  LET h == Height(b)
  IN  /\ chain[n][h] = NoBlock
      /\ chain[n][h - 1] # NoBlock
      /\ headers[b].prev = chain[n][h - 1]
      /\ headers[b].proposer = VC!LeaderForHeightRound(h, round[n])

RejectProposal(n) ==
  /\ AtProposals(n) /\ proposals[n] # <<>>
  /\ ~Acceptable(n, Head(proposals[n]))
  /\ proposals' = [proposals EXCEPT ![n] = Tail(@)]
  /\ pc' = [pc EXCEPT ![n] = "proposals"]
  /\ UNCHANGED <<storeVars, pool, pending, sigs, viewVars, headers, net, signed, todo, boundVars>>

\* The state after the transactions of block b.
AfterBlock(n, b) == ExecuteAll(app[n], headers[b].txs)[Len(headers[b].txs)]

\* The signature on the head of the proposals is made and broadcast.
SignHead(n) ==
  LET b == Head(proposals[n])
  IN  /\ AtProposals(n) /\ proposals[n] # <<>>
      /\ Acceptable(n, b)
      /\ signed' = signed \union {<<n, b>>}
      /\ net' = net \union {SignMsg(b, n)}
      /\ UNCHANGED headers

\* The node signs, then executes the transactions. Only then is the state root
\* compared: on a match the block is stored (apply_block), otherwise what the
\* transactions did stays all the same.
AcceptProposal(n) ==
  LET b == Head(proposals[n])
  IN  /\ SignHead(n)
      /\ app' = [app EXCEPT ![n] = AfterBlock(n, b)]
      /\ \/ StateRoot(AfterBlock(n, b)) = headers[b].root /\ PutBlock(n, Height(b), b)
         \/ StateRoot(AfterBlock(n, b)) # headers[b].root /\ UNCHANGED <<chain, latest>>
      /\ proposals' = [proposals EXCEPT ![n] = Tail(@)]
      /\ pc' = [pc EXCEPT ![n] = "proposals"]
      /\ UNCHANGED <<pool, pending, sigs, viewVars, todo, boundVars>>

\* The proposals are handled and no block of this node is pending (step 6).
AtTimer_IgnoresPending(n) == AtProposals(n) /\ proposals[n] = <<>>

AtTimer(n) == AtProposals(n) /\ proposals[n] = <<>> /\ pending[n] = NoBlock

\* Step 6.5: the view change timer has expired.
VoteViewChange(n) ==
  /\ N > 1
  /\ AtTimer(n)
  /\ pc' = [pc EXCEPT ![n] = "produce"]
  /\ UNCHANGED <<storeVars, pool, pending, sigs, proposals, headers, net, signed, todo, boundVars>>
  /\ VC!RequestViewChange(n)

\* Step 7: this node leads the next height and has transactions.
MayProduce(n) ==
  /\ latest[n] < MaxHeight
  /\ VC!IsLeader(n, latest[n] + 1)
  /\ pool[n] # <<>>

AtProduce(n) == pc[n] = "produce" \/ AtTimer(n)

AfterPool(n) == ExecuteAll(app[n], pool[n])[Len(pool[n])]

\* The block above the latest one, of the transactions of the pool that succeed.
HeaderOf_RootBefore(n) ==
  [height |-> latest[n] + 1, prev |-> chain[n][latest[n]],
   txs |-> Valid(app[n], pool[n]), root |-> StateRoot(app[n]), proposer |-> n]

HeaderOf_ParentAbove(n) ==
  [height |-> latest[n] + 1, prev |-> chain[n][latest[n] + 1],
   txs |-> Valid(app[n], pool[n]), root |-> StateRoot(AfterPool(n)), proposer |-> n]

HeaderOf(n) ==
  [height |-> latest[n] + 1, prev |-> chain[n][latest[n]],
   txs |-> Valid(app[n], pool[n]), root |-> StateRoot(AfterPool(n)), proposer |-> n]

\* The block is broadcast to the peers with the signature of its proposer. Its
\* index is NewBlock.
NewBlock == Len(headers) + 1

Propose(n) ==
  /\ headers' = Append(headers, HeaderOf(n))
  /\ net' = net \union ProposeMsgs(NewBlock, n)
  /\ signed' = signed \union {<<n, NewBlock>>}

\* Step 8: execute the pool, drop what fails, and propose the rest. A block
\* that needs no other signature is stored at once, any other waits for them.
Produce(n) ==
  /\ AtProduce(n) /\ MayProduce(n)
  /\ app' = [app EXCEPT ![n] = AfterPool(n)]
  /\ pool' = [pool EXCEPT ![n] = <<>>]
  /\ pc' = [pc EXCEPT ![n] = "drain"]
  /\ UNCHANGED <<proposals, todo, boundVars>>
  /\ \/ /\ Valid(app[n], pool[n]) = <<>>
        /\ UNCHANGED <<chain, latest, pending, sigs, viewVars, headers, net, signed>>
     \/ /\ Valid(app[n], pool[n]) # <<>>
        /\ Propose(n)
        /\ \/ /\ IsFinalized({n})
              /\ PutBlock(n, latest[n] + 1, NewBlock)
              /\ VC!ResetRound(n)
              /\ UNCHANGED <<pending, sigs>>
           \/ /\ ~IsFinalized({n})
              /\ pending' = [pending EXCEPT ![n] = NewBlock]
              /\ sigs' = [sigs EXCEPT ![n] = {n}]
              /\ UNCHANGED <<chain, latest, viewVars>>

\* The tick ends without a block: one is pending, or this node is not the
\* leader or has no transactions.
EndTick(n) ==
  /\ \/ pc[n] = "produce" /\ ~MayProduce(n)
     \/ pc[n] = "proposals" /\ proposals[n] = <<>> /\ (pending[n] # NoBlock \/ ~MayProduce(n))
  /\ pc' = [pc EXCEPT ![n] = "drain"]
  /\ UNCHANGED <<storeVars, pool, pending, sigs, proposals, viewVars, headers, net, signed, todo, boundVars>>

-----------------------------------------------------------------------------
\* The process is killed and restarted: everything in memory is gone.
Restart(n) ==
  /\ crashes < MaxCrashes
  /\ crashes' = crashes + 1
  /\ pool' = [pool EXCEPT ![n] = <<>>]
  /\ ClearPending(n)
  /\ proposals' = [proposals EXCEPT ![n] = <<>>]
  /\ pc' = [pc EXCEPT ![n] = "drain"]
  /\ VC!ResetRound(n)
  /\ UNCHANGED <<todo, discards>>

\* Killed between two handlers.
Crash(n) == Restart(n) /\ UNCHANGED <<storeVars, headers, net, signed>>

\* Killed in put_block, between the block and latest_height: the pending block
\* of step 3, a proposal whose state root matched, or an own block that needs
\* no other signature; that one perhaps before put_block, once it is broadcast.
CrashInPut(n) ==
  /\ Restart(n)
  /\ \/ /\ pc[n] = "drain" /\ pending[n] # NoBlock /\ IsFinalized(sigs[n])
        /\ TornPut(n, Height(pending[n]), pending[n])
        /\ UNCHANGED <<app, headers, net, signed>>
     \/ /\ SignHead(n)
        /\ LET b == Head(proposals[n])
           IN  /\ StateRoot(AfterBlock(n, b)) = headers[b].root
               /\ TornPut(n, Height(b), b)
               /\ app' = [app EXCEPT ![n] = AfterBlock(n, b)]
     \/ /\ AtProduce(n) /\ MayProduce(n)
        /\ Valid(app[n], pool[n]) # <<>> /\ IsFinalized({n})
        /\ Propose(n)
        /\ app' = [app EXCEPT ![n] = AfterPool(n)]
        /\ TornPut(n, latest[n] + 1, NewBlock) \/ UNCHANGED <<chain, latest>>

\* Killed while executing the transactions of a proposal it has signed.
CrashInApply(n) ==
  /\ SignHead(n)
  /\ Restart(n)
  /\ \E s \in CrashStates(app[n], headers[Head(proposals[n])].txs) :
       app' = [app EXCEPT ![n] = s]
  /\ UNCHANGED <<chain, latest>>

\* Killed while executing its own pool, before anything is broadcast.
CrashInProduce(n) ==
  /\ AtProduce(n) /\ MayProduce(n)
  /\ Restart(n)
  /\ \E s \in CrashStates(app[n], pool[n]) : app' = [app EXCEPT ![n] = s]
  /\ UNCHANGED <<chain, latest, headers, net, signed>>

Next ==
  \E n \in Node :
    \/ \E tx \in Txs : Submit(n, tx)
    \/ RecvPropose(n)
    \/ RecvSign(n)
    \/ RecvViewChange(n)
    \/ FinalizePending(n)
    \/ DiscardPending(n)
    \/ RejectProposal(n)
    \/ AcceptProposal(n)
    \/ VoteViewChange(n)
    \/ Produce(n)
    \/ EndTick(n)
    \/ Crash(n)
    \/ CrashInPut(n)
    \/ CrashInApply(n)
    \/ CrashInProduce(n)

Spec == Init /\ [][Next]_vars

-----------------------------------------------------------------------------
Blocks == 1 .. Len(headers)

SignersOf(b) == {m \in Node : <<m, b>> \in signed}

\* Type invariant.
TypeOK ==
  LET Block == Blocks \union {NoBlock}
      AppState == [nonce : [Senders -> Nat], done : Seq(Txs)]
  IN  /\ chain \in [Node -> [0 .. MaxHeight -> Block]]
      /\ latest \in [Node -> 0 .. MaxHeight]
      /\ app \in [Node -> AppState]
      /\ pool \in [Node -> Seq(Txs)]
      /\ pending \in [Node -> Block]
      /\ sigs \in [Node -> SUBSET Node]
      /\ proposals \in [Node -> Seq(Blocks)]
      /\ pc \in [Node -> {"drain", "proposals", "produce"}]
      /\ VC!TypeOK
      /\ \A b \in Blocks :
           /\ headers[b].height \in 0 .. MaxHeight
           /\ headers[b].prev \in Block
           /\ headers[b].height > 0 => headers[b].prev # NoBlock
           /\ headers[b].txs \in Seq(Txs)
           /\ headers[b].proposer \in Node
      /\ signed \subseteq Node \X Blocks
      /\ todo \subseteq Submissions
      /\ discards \in 0 .. MaxDiscards
      /\ crashes \in 0 .. MaxCrashes

\* A node stores a block of its own only with the signatures of a quorum of
\* distinct nodes that each made one for this very block, not for another one
\* it proposed at the same height; and it stores a block of another node only
\* with the proposer's signature and its own (is_finalized, put_block).
StoredBlocksSigned ==
  \A n \in Node, h \in 1 .. MaxHeight :
    LET b == chain[n][h]
    IN  b # NoBlock =>
          /\ Height(b) = h
          /\ {n, headers[b].proposer} \subseteq SignersOf(b)
          /\ headers[b].proposer = n => Cardinality(SignersOf(b)) >= Quorum

\* Replay protection: on no node does a transaction take effect twice, or after
\* a later one of its sender, through discarded blocks, blocks proposed again,
\* resubmissions and restarts (check_and_update_nonce).
NoncesUsedInOrder ==
  \A n \in Node : \A i, j \in DOMAIN app[n].done :
    /\ i < j
    /\ app[n].done[i].sender = app[n].done[j].sender
    => app[n].done[i].nonce < app[n].done[j].nonce

\* The latest height always has its block, also after a crash in put_block:
\* the next proposal needs it as its parent (main.rs step 8).
TipStored == \A n \in Node : chain[n][latest[n]] # NoBlock

\* A transaction that rc_submitTx accepted is not forgotten as long as the
\* process runs: it is in the pool until it is executed or found stale, and
\* then the nonce of its sender is past it.
AcceptedNotForgotten ==
  crashes = 0 =>
    \A n \in Node, tx \in Txs :
      <<n, tx>> \in Submissions \ todo =>
        \/ \E i \in DOMAIN pool[n] : pool[n][i] = tx
        \/ app[n].nonce[tx.sender] >= tx.nonce

\* A block that was stored is only ever replaced by a block of this very node,
\* when its pending block is finalized: handle_proposal replaces none.
ReplacedOnlyByOwn ==
  [][\A n \in Node, h \in 1 .. MaxHeight :
       chain[n][h] # NoBlock /\ chain'[n][h] # chain[n][h] =>
         headers'[chain'[n][h]].proposer = n]_vars

\* The view change between the validators is the one of ViewChange.
FollowsViewChange == VC!Spec

\* The nodes store one chain: at no height do two of them have different
\* blocks, and each block extends the one all agree on below it.
Link(b) == [block |-> b, prev |-> headers[b].prev]

Chain == INSTANCE AgreedChain WITH
           Genesis <- [block |-> 1, prev |-> NoBlock],
           decided <- [h \in 0 .. MaxHeight |->
                         {Link(chain[n][h]) : n \in {m \in Node : chain[m][h] # NoBlock}}]

ImplementsAgreedChain == Chain!Spec

\* Between blocks the state of a node is the one the header of its latest block
\* commits to (BlockHeader::state_root: state after applying this block). A node
\* that reaches itself is left out: it stores its own block as a follower, may
\* store the next one before the signatures on its own arrive, and then
\* put_block sets latest_height back to the own block.
StateIsOfTip ==
  \A n \in Node \ Echo :
    pending[n] = NoBlock => StateRoot(app[n]) = headers[chain[n][latest[n]]].root

\* BlockHeader::state_root is the state after applying this block: a node that
\* is where the block says it starts, gets to where the block says it ends.
RootIsAfterBlock ==
  \A n \in Node, b \in Blocks :
    LET parent == headers[b].prev
    IN  /\ parent # NoBlock
        /\ chain[n][latest[n]] = parent
        /\ pending[n] = NoBlock
        /\ StateRoot(app[n]) = headers[parent].root
        => StateRoot(AfterBlock(n, b)) = headers[b].root

\* No two nodes store different blocks at one height.
Agreement ==
  \A n, m \in Node, h \in 1 .. MaxHeight :
    chain[n][h] # NoBlock /\ chain[m][h] # NoBlock => chain[n][h] = chain[m][h]

\* Every block up to the latest is there and names the block stored below it as
\* its parent (BlockHeader::prev_hash), also where a block was stored again
\* after a kill in put_block or over the block of another node.
ChainLinked ==
  \A n \in Node : \A h \in 1 .. latest[n] :
    chain[n][h] # NoBlock /\ headers[chain[n][h]].prev = chain[n][h - 1]

\* A node that has a block at a height keeps it ("reject block if we already
\* have one at this height").
NeverReplaced ==
  [][\A n \in Node, h \in 1 .. MaxHeight :
       chain[n][h] # NoBlock => chain'[n][h] = chain[n][h]]_vars

\* A node above round 0 was voted there for the height it is about to decide:
\* the round of a decided height does not outlive it (reset_round).
RoundIsOfNextHeight ==
  \A n \in Node : round[n] > 0 =>
    2 * Cardinality(VC!Voters(voted, latest[n] + 1, round[n])) > N

-----------------------------------------------------------------------------
\* Fairness: every process keeps ticking and every message is delivered in the
\* end. The code does not retransmit, so this is a network without losses; it
\* may still reorder, since each message has a connection of its own.
TickFairness ==
  \A n \in Node :
    /\ WF_vars(RecvPropose(n))
    /\ WF_vars(RecvSign(n))
    /\ WF_vars(FinalizePending(n))
    /\ WF_vars(DiscardPending(n))
    /\ WF_vars(RejectProposal(n))
    /\ WF_vars(AcceptProposal(n))
    /\ WF_vars(Produce(n))
    /\ WF_vars(EndTick(n))

FairSpec == Spec /\ TickFairness

\* What is proposed at height h is stored at height h by some node.
Decided(h) == (\E b \in Blocks : Height(b) = h) ~> (\E n \in Node : chain[n][h] # NoBlock)

FirstBlockDecided == Decided(1)

\* A block stored by one node is stored, or another at its height, by them all.
FollowersCatchUp ==
  \A h \in 1 .. MaxHeight :
    (\E n \in Node : chain[n][h] # NoBlock) ~> (\A n \in Node : chain[n][h] # NoBlock)
=============================================================================
