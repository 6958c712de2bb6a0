----------------------------- MODULE ChainProofs -----------------------------
(***************************************************************************)
(* Theorems about the chains of the validators that hold only without some *)
(* of the faults: what a node without peers stores, whatever kills it; and *)
(* that the nodes agree on one chain, and on the state, as long as no      *)
(* block times out, no timer expires and nobody is killed.                 *)
(***************************************************************************)
EXTENDS ValidatorProofs

Filled(n, h) == chain[n][h] # NoBlock

\* What put_block writes, whole or half.
LEMMA PutCells ==
  ASSUME ValInv, NEW n \in Node, NEW h \in 1 .. MaxHeight, NEW b, PutBlock(n, h, b) \/ TornPut(n, h, b)
  PROVE  \A m \in Node, k \in 0 .. MaxHeight : chain'[m][k] = IF m = n /\ k = h THEN b ELSE chain[m][k]
<1>1. chain \in [Node -> [0 .. MaxHeight -> Nat]] /\ chain' = [chain EXCEPT ![n][h] = b] /\ h \in 0 .. MaxHeight
  BY DEF PutBlock, TornPut, ValInv, StoreInv
<1> DEFINE row == [chain[n] EXCEPT ![h] = b]
<1>2. chain[n] \in [0 .. MaxHeight -> Nat] /\ chain' = [chain EXCEPT ![n] = row]
  BY <1>1
<1>3. \A k \in 0 .. MaxHeight : row[k] = IF k = h THEN b ELSE chain[n][k]
  BY <1>1, <1>2
<1> HIDE DEF row
<1>4. \A m \in Node : chain'[m] = IF m = n THEN row ELSE chain[m]
  BY <1>1, <1>2
<1> QED
  BY <1>3, <1>4

LEMMA PutLatest ==
  ASSUME ValInv, NEW n \in Node, NEW h \in 1 .. MaxHeight, NEW b, PutBlock(n, h, b)
  PROVE  \A m \in Node : latest'[m] = IF m = n THEN h ELSE latest[m]
BY DEF PutBlock, ValInv, StoreInv

-----------------------------------------------------------------------------
\* A node without peers.
Solo == N = 1 /\ Echo = {}

\* Nothing arrives and nothing waits; what is stored names the block below it,
\* and at most one block, half stored, is above the latest.
SoloChain ==
  \A n \in Node, h \in 1 .. MaxHeight :
    /\ h <= latest[n] => Filled(n, h)
    /\ Filled(n, h) => h <= latest[n] + 1 /\ headers[chain[n][h]].prev = chain[n][h - 1]

SoloInv ==
  /\ net = {} /\ \A n \in Node : proposals[n] = <<>> /\ pending[n] = NoBlock
  /\ SoloChain

LEMMA SoloExtend ==
  ASSUME Solo, ValInv, SoloChain, NEW n \in Node, MayProduce(n), Propose(n), NEW b, b = NewBlock, NEW h, h = latest[n] + 1,
         PutBlock(n, h, b) \/ TornPut(n, h, b) \/ UNCHANGED <<chain, latest>>
  PROVE  SoloChain' /\ net' = net
<1>1. Node = {0} /\ Node \ {n} = {} /\ n = 0
  BY DEF Solo, Node
<1>2. net' = net
  BY <1>1 DEF Propose, ProposeMsgs, Reached, Solo
<1>3. /\ Grows /\ headers'[b] = HeaderOf(n) /\ h \in 1 .. MaxHeight /\ MaxHeight \in Nat
  BY ProposeKeepsWorld, ValidatorAssumption
<1>4. latest[n] \in 0 .. MaxHeight /\ headers'[b].prev = chain[n][latest[n]] /\ latest[n] = h - 1
  BY <1>3 DEF HeaderOf, ValInv, StoreInv
<1>5. \A k \in 0 .. MaxHeight : chain[n][k] \in Blocks \/ chain[n][k] = NoBlock
  BY DEF ValInv, StoreInv
<1>6. b # NoBlock
  BY LenProperties DEF ValInv, WorldInv, NewBlock, NoBlock
<1>7. ASSUME NEW k \in 1 .. MaxHeight
      PROVE  /\ k <= latest'[n] => Filled(n, k)'
             /\ Filled(n, k)' => k <= latest'[n] + 1 /\ headers'[chain'[n][k]].prev = chain'[n][k - 1]
  <2>1. /\ k \in 0 .. MaxHeight /\ k - 1 \in 0 .. MaxHeight /\ k - 1 # k
        /\ k <= latest[n] => Filled(n, k)
        /\ Filled(n, k) => /\ k <= latest[n] + 1 /\ headers[chain[n][k]].prev = chain[n][k - 1]
                           /\ headers'[chain[n][k]] = headers[chain[n][k]]
    BY <1>3, <1>5 DEF SoloChain, Filled, Grows
  <2>2. CASE UNCHANGED <<chain, latest>>
    BY <2>1, <2>2 DEF Filled
  <2>3. CASE PutBlock(n, h, b) \/ TornPut(n, h, b)
    <3>1. \A j \in 0 .. MaxHeight : chain'[n][j] = IF j = h THEN b ELSE chain[n][j]
      BY <1>3, <2>3, PutCells
    <3>2. latest'[n] = latest[n] \/ (latest'[n] = h /\ PutBlock(n, h, b))
      BY <1>3, <2>3, PutLatest DEF TornPut
    <3>3. Filled(n, k)' <=> k = h \/ Filled(n, k)
      BY <1>6, <2>1, <3>1 DEF Filled
    <3>4. k <= latest'[n] => Filled(n, k)'
      BY <1>3, <1>4, <2>1, <3>2, <3>3
    <3>5. CASE k = h
      BY <1>3, <1>4, <2>1, <3>1, <3>2, <3>4, <3>5
    <3>6. CASE k # h /\ Filled(n, k)
      <4>1. k - 1 # h /\ k <= latest'[n] + 1
        BY <1>3, <1>4, <2>1, <3>2, <3>6
      <4> QED
        BY <2>1, <3>1, <3>4, <3>6, <4>1
    <3> QED
      BY <3>3, <3>4, <3>5, <3>6
  <2> QED
    BY <2>2, <2>3
<1> QED
  BY <1>1, <1>2, <1>7 DEF SoloChain, Filled

LEMMA SoloStep ==
  ASSUME Solo, ValInv, SoloInv, Next
  PROVE  SoloInv'
<1> USE DEF storeVars, viewVars, boundVars
<1>1. PICK n \in Node :
        \/ \E tx \in Txs : Submit(n, tx)
        \/ RecvPropose(n) \/ RecvSign(n) \/ RecvViewChange(n)
        \/ FinalizePending(n) \/ DiscardPending(n)
        \/ RejectProposal(n) \/ AcceptProposal(n)
        \/ VoteViewChange(n) \/ Produce(n) \/ EndTick(n)
        \/ Crash(n) \/ CrashInPut(n) \/ CrashInApply(n) \/ CrashInProduce(n)
  BY DEF Next
<1>2. net = {} /\ proposals[n] = <<>> /\ pending[n] = NoBlock /\ ~SignHead(n)
  BY DEF SoloInv, SignHead
<1>3. ~RecvPropose(n) /\ ~RecvSign(n)
  BY <1>2 DEF RecvPropose, RecvSign
<1>4. ~FinalizePending(n) /\ ~DiscardPending(n)
  BY <1>2 DEF FinalizePending, DiscardPending
<1>5. ~RejectProposal(n) /\ ~AcceptProposal(n) /\ ~CrashInApply(n)
  BY <1>2 DEF RejectProposal, AcceptProposal, CrashInApply
<1>6. IsFinalized({n})
  <2>1. Cardinality({n}) = 1 /\ Quorum = 1
    BY FS_Singleton DEF Solo, Quorum
  <2> QED
    BY <2>1 DEF IsFinalized
\* The store and the world stay as they are, or a block is proposed.
<1>7. \/ UNCHANGED <<chain, latest, headers, net>>
      \/ /\ MayProduce(n) /\ Propose(n)
         /\ \/ PutBlock(n, latest[n] + 1, NewBlock) \/ TornPut(n, latest[n] + 1, NewBlock)
            \/ UNCHANGED <<chain, latest>>
  <2>1. CASE \E tx \in Txs : Submit(n, tx)
    BY <2>1 DEF Submit
  <2>2. CASE RecvViewChange(n) \/ VoteViewChange(n) \/ EndTick(n)
    BY <2>2 DEF RecvViewChange, VoteViewChange, EndTick
  <2>3. CASE Produce(n)
    BY <1>6, <2>3 DEF Produce
  <2>4. CASE Crash(n) \/ CrashInProduce(n)
    BY <2>4 DEF Crash, CrashInProduce
  <2>5. CASE CrashInPut(n)
    BY <1>2, <2>5 DEF CrashInPut
  <2> QED
    BY <1>1, <1>3, <1>4, <1>5, <2>1, <2>2, <2>3, <2>4, <2>5
\* The memory stays as it is, or is lost.
<1>8. \/ UNCHANGED <<pending, proposals>>
      \/ ClearPending(n) /\ proposals' = [proposals EXCEPT ![n] = <<>>]
  <2>1. CASE \E tx \in Txs : Submit(n, tx)
    BY <2>1 DEF Submit
  <2>2. CASE RecvViewChange(n) \/ VoteViewChange(n) \/ EndTick(n)
    BY <2>2 DEF RecvViewChange, VoteViewChange, EndTick
  <2>3. CASE Produce(n)
    BY <1>6, <2>3 DEF Produce
  <2>4. CASE Crash(n) \/ CrashInProduce(n) \/ CrashInPut(n)
    BY <2>4 DEF Crash, CrashInProduce, CrashInPut, Restart
  <2> QED
    BY <1>1, <1>3, <1>4, <1>5, <2>1, <2>2, <2>3, <2>4
<1>9. \A m \in Node : proposals'[m] = <<>> /\ pending'[m] = NoBlock
  BY <1>8 DEF SoloInv, ClearPending, ValInv, PendingInv, ProposalsInv
<1>10. SoloChain' /\ net' = net
  <2>1. CASE UNCHANGED <<chain, latest, headers, net>>
    BY <2>1 DEF SoloInv, SoloChain, Filled
  <2>2. CASE /\ MayProduce(n) /\ Propose(n)
             /\ \/ PutBlock(n, latest[n] + 1, NewBlock) \/ TornPut(n, latest[n] + 1, NewBlock)
                \/ UNCHANGED <<chain, latest>>
    <3>1. PICK b, h : b = NewBlock /\ h = latest[n] + 1
      OBVIOUS
    <3>2. PutBlock(n, h, b) \/ TornPut(n, h, b) \/ UNCHANGED <<chain, latest>>
      BY <2>2, <3>1
    <3> QED
      BY <2>2, <3>1, <3>2, SoloExtend DEF SoloInv
  <2> QED
    BY <1>7, <2>1, <2>2
<1> QED
  BY <1>2, <1>9, <1>10 DEF SoloInv

\* A node without peers keeps a chain without holes, where every block names
\* the one below it, whatever it is killed in: what put_block left half done is
\* overwritten by the next block.
THEOREM SoloChainLinked == Solo => (Spec => []ChainLinked)
<1> SUFFICES ASSUME Solo PROVE Spec => []ChainLinked
  OBVIOUS
<1>1. Init => SoloInv
  <2> SUFFICES ASSUME Init PROVE SoloInv
    OBVIOUS
  <2>1. \A n \in Node, h \in 1 .. MaxHeight : ~(h <= latest[n]) /\ ~Filled(n, h)
    BY DEF Init, Filled
  <2> QED
    BY <2>1 DEF Init, SoloInv, SoloChain
<1>2. ValInv /\ SoloInv /\ [Next]_vars => SoloInv'
  <2> SUFFICES ASSUME ValInv, SoloInv, [Next]_vars PROVE SoloInv'
    OBVIOUS
  <2>1. CASE Next
    BY <2>1, SoloStep
  <2>2. CASE UNCHANGED vars
    BY <2>2 DEF vars, SoloInv, SoloChain, Filled
  <2> QED
    BY <2>1, <2>2
<1>3. ValInv /\ SoloInv => ChainLinked
  <2> SUFFICES ASSUME ValInv, SoloInv, NEW n \in Node, NEW h \in 1 .. latest[n]
               PROVE  chain[n][h] # NoBlock /\ headers[chain[n][h]].prev = chain[n][h - 1]
    BY DEF ChainLinked
  <2>1. h \in 1 .. MaxHeight /\ h <= latest[n]
    BY ValidatorAssumption DEF ValInv, StoreInv
  <2> QED
    BY <2>1 DEF SoloInv, SoloChain, Filled
<1> QED
  BY <1>1, <1>2, <1>3, InitValInv, StepKeepsValInv, PTL DEF Spec

-----------------------------------------------------------------------------
\* No block times out, no timer expires, nobody is killed.
Faultless == SharedGenesis /\ MaxRound = 0 /\ MaxDiscards = 0 /\ MaxCrashes = 0

\* There is one block for each height, by the leader of the height, on top of
\* the one of the height below.
OneBlockInv ==
  /\ 1 \in Blocks /\ Height(1) = 0 /\ headers[1].prev = NoBlock
  /\ \A b, c \in Blocks : Height(b) = Height(c) => b = c
  /\ \A b \in Blocks : Height(b) > 0 =>
       /\ headers[b].proposer = Height(b) % N
       /\ headers[b].prev \in Blocks /\ Height(headers[b].prev) = Height(b) - 1

\* A node stores no block before the one below it.
FilledInv ==
  /\ \A n \in Node : chain[n][0] = 1
  /\ \A n \in Node, h \in 0 .. MaxHeight : Filled(n, h) => \A k \in 0 .. h : Filled(n, k)

\* A node proposes no block before it has stored all it proposed before.
ProposedInv ==
  /\ \A n \in Node, b \in Blocks : Height(b) > 0 /\ headers[b].proposer = n =>
       IF pending[n] = NoBlock THEN Height(b) <= latest[n]
       ELSE /\ Height(b) <= Height(pending[n])
            /\ b # pending[n] => Height(b) <= latest[n]
  /\ \A n \in Node : pending[n] # NoBlock => Filled(n, Height(pending[n]) - 1)

OneChainInv ==
  /\ OneBlockInv /\ FilledInv /\ ProposedInv
  /\ \A n \in Node : pc[n] # "produce"

\* Node n stores block b on top of the one below it.
Stores(n, h, b) ==
  /\ h \in 1 .. MaxHeight /\ b \in Blocks' /\ headers'[b].height = h
  /\ Filled(n, h - 1) /\ headers'[b].prev = chain[n][h - 1]
  /\ PutBlock(n, h, b)

\* The steps without a fault: nothing of interest, the pending block is stored,
\* a proposal is stored, or a new block is proposed, and perhaps stored.
FinalizesOwn(n, h, b) ==
  /\ Stores(n, h, b) /\ UNCHANGED headers
  /\ pending[n] = b /\ pending' = [pending EXCEPT ![n] = NoBlock]

AppliesOther(n, h, b) == Stores(n, h, b) /\ UNCHANGED <<headers, pending>> /\ ~Filled(n, h)

ProposesNext(n, h, b) ==
  /\ h = latest[n] + 1 /\ b = NewBlock
  /\ pending[n] = NoBlock /\ MayProduce(n) /\ Propose(n)
  /\ \/ Stores(n, h, b) /\ UNCHANGED pending
     \/ pending' = [pending EXCEPT ![n] = b] /\ UNCHANGED <<chain, latest>>

FaultlessStep(n) ==
  \/ UNCHANGED <<chain, latest, headers, pending>>
  \/ \E h, b : FinalizesOwn(n, h, b) \/ AppliesOther(n, h, b) \/ ProposesNext(n, h, b)

\* A block at a height it has is the one a node would find there.
LEMMA StoredThere ==
  ASSUME ValInv, OneChainInv, NEW n \in Node, NEW h \in 0 .. MaxHeight, Filled(n, h)
  PROVE  /\ chain[n][h] \in Blocks /\ Height(chain[n][h]) = h
         /\ \A b \in Blocks : Height(b) = h => chain[n][h] = b
<1>1. chain[n][h] \in Blocks
  BY DEF ValInv, StoreInv, Filled
<1>2. Height(chain[n][h]) = h
  <2>1. CASE h = 0
    BY <2>1 DEF OneChainInv, OneBlockInv, FilledInv
  <2>2. CASE h # 0
    <3>1. h \in 1 .. MaxHeight
      BY <2>2
    <3> QED
      BY <3>1 DEF ValInv, StoreInv, Filled, StoredOK
  <2> QED
    BY <2>1, <2>2
<1> QED
  BY <1>1, <1>2 DEF OneChainInv, OneBlockInv

LEMMA TipFilled ==
  ASSUME ValInv, OneChainInv, NEW n \in Node
  PROVE  /\ latest[n] \in 0 .. MaxHeight /\ Filled(n, latest[n])
         /\ \A h \in 0 .. MaxHeight : ~Filled(n, h) => latest[n] < h
<1>1. latest[n] \in 0 .. MaxHeight /\ Filled(n, latest[n])
  BY DEF ValInv, StoreInv, TipStored, Filled
<1>2. \A h \in 0 .. latest[n] : Filled(n, h)
  BY <1>1 DEF OneChainInv, FilledInv
<1> QED
  BY <1>1, <1>2

LEMMA FinalizeFaultless ==
  ASSUME ValInv, OneChainInv, NEW n \in Node, FinalizePending(n)
  PROVE  \E h, b : FinalizesOwn(n, h, b)
<1>1. PICK b, h : b = pending[n] /\ h = Height(b)
  OBVIOUS
<1>2. /\ pending[n] # NoBlock /\ IsFinalized(sigs[n]) /\ UNCHANGED headers
      /\ PutBlock(n, h, b) /\ pending' = [pending EXCEPT ![n] = NoBlock]
  BY <1>1 DEF FinalizePending, ClearPending
<1>3. b \in Blocks /\ h \in 1 .. MaxHeight
  BY <1>1, <1>2, PendingFinal
<1>4. Filled(n, h - 1) /\ headers[b].prev \in Blocks /\ Height(headers[b].prev) = h - 1
  BY <1>1, <1>2, <1>3 DEF OneChainInv, ProposedInv, OneBlockInv
<1>5. headers[b].prev = chain[n][h - 1]
  <2>1. h - 1 \in 0 .. MaxHeight
    BY <1>3, ValidatorAssumption
  <2> QED
    BY <1>4, <2>1, StoredThere
<1>6. Blocks' = Blocks
  BY <1>2 DEF Blocks
<1> QED
  BY <1>1, <1>2, <1>3, <1>4, <1>5, <1>6 DEF FinalizesOwn, Stores, Height

LEMMA AcceptFaultless ==
  ASSUME ValInv, OneChainInv, NEW n \in Node, AcceptProposal(n)
  PROVE  \/ UNCHANGED <<chain, latest, headers, pending>>
         \/ \E h, b : AppliesOther(n, h, b)
<1>1. PICK b, h : b = Head(proposals[n]) /\ h = Height(b)
  OBVIOUS
<1>2. SignHead(n) /\ UNCHANGED <<headers, pending>> /\ (PutBlock(n, h, b) \/ UNCHANGED <<chain, latest>>)
  BY <1>1 DEF AcceptProposal, SignHead
<1>3. b \in Blocks' /\ h \in 1 .. MaxHeight
  BY <1>1, <1>2, AcceptedFinal
<1>4. ~Filled(n, h) /\ Filled(n, h - 1) /\ headers[b].prev = chain[n][h - 1]
  BY <1>1, <1>2 DEF SignHead, Acceptable, Filled
<1> QED
  BY <1>1, <1>2, <1>3, <1>4 DEF AppliesOther, Stores, Height

LEMMA ProduceFaultless ==
  ASSUME ValInv, OneChainInv, NEW n \in Node, Produce(n)
  PROVE  \/ UNCHANGED <<chain, latest, headers, pending>>
         \/ \E h, b : ProposesNext(n, h, b)
<1>1. PICK b, h : b = NewBlock /\ h = latest[n] + 1
  OBVIOUS
<1>2. MayProduce(n) /\ pending[n] = NoBlock
  BY DEF Produce, AtProduce, AtTimer, OneChainInv
<1>3. \/ UNCHANGED <<chain, latest, headers, pending>>
      \/ Propose(n) /\ PutBlock(n, h, b) /\ UNCHANGED pending
      \/ Propose(n) /\ pending' = [pending EXCEPT ![n] = b] /\ UNCHANGED <<chain, latest>>
  BY <1>1 DEF Produce
<1>4. ASSUME Propose(n), PutBlock(n, h, b) PROVE Stores(n, h, b)
  <2>1. /\ b \in Blocks' /\ headers'[b] = HeaderOf(n) /\ h \in 1 .. MaxHeight
        /\ headers'[b].height = h
    BY <1>1, <1>2, <1>4, ProposeKeepsWorld
  <2>2. headers'[b].prev = chain[n][latest[n]] /\ h - 1 = latest[n] /\ Filled(n, latest[n])
    BY <1>1, <2>1, TipFilled DEF HeaderOf
  <2> QED
    BY <1>4, <2>1, <2>2 DEF Stores
<1> QED
  BY <1>1, <1>2, <1>3, <1>4 DEF ProposesNext

\* None of the faults is left.
LEMMA NoFault ==
  ASSUME Faultless, ValInv, VC!TypeOK, Next
  PROVE  \E n \in Node :
           \/ \E tx \in Txs : Submit(n, tx)
           \/ RecvPropose(n) \/ RecvSign(n) \/ RecvViewChange(n)
           \/ FinalizePending(n) \/ RejectProposal(n) \/ AcceptProposal(n)
           \/ Produce(n) \/ EndTick(n)
<1>1. PICK n \in Node :
        \/ \E tx \in Txs : Submit(n, tx)
        \/ RecvPropose(n) \/ RecvSign(n) \/ RecvViewChange(n)
        \/ FinalizePending(n) \/ DiscardPending(n)
        \/ RejectProposal(n) \/ AcceptProposal(n)
        \/ VoteViewChange(n) \/ Produce(n) \/ EndTick(n)
        \/ Crash(n) \/ CrashInPut(n) \/ CrashInApply(n) \/ CrashInProduce(n)
  BY DEF Next
<1>2. ~DiscardPending(n)
  BY DEF DiscardPending, Faultless, ValInv, CountersInv
<1>3. ~Crash(n) /\ ~CrashInPut(n) /\ ~CrashInApply(n) /\ ~CrashInProduce(n)
  <2>1. ~Restart(n)
    BY DEF Restart, Faultless, ValInv, CountersInv
  <2> QED
    BY <2>1 DEF Crash, CrashInPut, CrashInApply, CrashInProduce
<1>4. ~VoteViewChange(n)
  <2>1. round[n] \in 0 .. MaxRound
    BY DEF VC!TypeOK, VC!Node, Node
  <2>2. ~(round[n] < MaxRound)
    BY <2>1 DEF Faultless
  <2> QED
    BY <2>2 DEF VoteViewChange, VC!RequestViewChange
<1> QED
  BY <1>1, <1>2, <1>3, <1>4

LEMMA FaultlessSteps ==
  ASSUME Faultless, ValInv, VC!TypeOK, OneChainInv, Next
  PROVE  \E n \in Node : FaultlessStep(n) /\ \A m \in Node : pc'[m] # "produce"
<1> USE DEF storeVars, viewVars, boundVars
<1>1. PICK n \in Node :
        \/ \E tx \in Txs : Submit(n, tx)
        \/ RecvPropose(n) \/ RecvSign(n) \/ RecvViewChange(n)
        \/ FinalizePending(n) \/ RejectProposal(n) \/ AcceptProposal(n)
        \/ Produce(n) \/ EndTick(n)
  BY NoFault
<1>2. FaultlessStep(n)
  <2>1. CASE \E tx \in Txs : Submit(n, tx)
    BY <2>1 DEF Submit, FaultlessStep
  <2>2. CASE RecvPropose(n) \/ RecvSign(n) \/ RecvViewChange(n)
    BY <2>2 DEF RecvPropose, RecvSign, RecvViewChange, FaultlessStep
  <2>3. CASE RejectProposal(n) \/ EndTick(n)
    BY <2>3 DEF RejectProposal, EndTick, FaultlessStep
  <2> QED
    BY <1>1, <2>1, <2>2, <2>3, FinalizeFaultless, AcceptFaultless, ProduceFaultless DEF FaultlessStep
<1>3. pc' = pc \/ pc' = [pc EXCEPT ![n] = "drain"] \/ pc' = [pc EXCEPT ![n] = "proposals"]
  BY <1>1 DEF Submit, RecvPropose, RecvSign, RecvViewChange, FinalizePending,
     RejectProposal, AcceptProposal, Produce, EndTick
<1>4. \A m \in Node : pc'[m] # "produce"
  BY <1>3 DEF OneChainInv, ValInv, CountersInv
<1> QED
  BY <1>2, <1>4

\* In round 0 the next height of a node that may produce is its turn, and no
\* block has this height yet: it would be of this node.
LEMMA NextIsFree ==
  ASSUME Faultless, ValInv, VC!TypeOK, OneChainInv, NEW n \in Node, pending[n] = NoBlock, MayProduce(n),
         NEW h, h = latest[n] + 1
  PROVE  n = h % N /\ \A c \in Blocks : Height(c) # h
<1>1. latest[n] \in 0 .. MaxHeight /\ MaxHeight \in Nat /\ h \in Nat /\ h > 0 /\ h > latest[n]
  BY TipFilled, ValidatorAssumption
<1>2. n = h % N
  <2>1. round[n] = 0 /\ N \in Nat \ {0}
    BY ValidatorAssumption DEF VC!TypeOK, VC!Node, Node, Faultless
  <2>2. n = (h + round[n]) % N
    BY DEF MayProduce, VC!IsLeader, VC!LeaderForHeightRound
  <2>3. h + 0 = h
    BY <1>1
  <2> QED
    BY <2>1, <2>2, <2>3
<1>3. ASSUME NEW c \in Blocks, Height(c) = h PROVE FALSE
  <2>1. headers[c].proposer = n /\ Height(c) > 0
    BY <1>1, <1>2, <1>3 DEF OneChainInv, OneBlockInv
  <2>2. Height(c) <= latest[n]
    BY <2>1 DEF OneChainInv, ProposedInv
  <2> QED
    BY <1>1, <1>3, <2>2
<1> QED
  BY <1>2, <1>3

LEMMA OneBlockKept ==
  ASSUME Faultless, ValInv, VC!TypeOK, OneChainInv, Grows, NEW n \in Node, FaultlessStep(n)
  PROVE  OneBlockInv'
<1>1. OneBlockInv
  BY DEF OneChainInv
<1>2. CASE UNCHANGED headers
  BY <1>1, <1>2 DEF OneBlockInv, Blocks, Height
<1>3. ASSUME NEW h, NEW b, ProposesNext(n, h, b) PROVE OneBlockInv'
  <2>1. h = latest[n] + 1 /\ b = NewBlock /\ pending[n] = NoBlock /\ MayProduce(n) /\ Propose(n)
    BY <1>3 DEF ProposesNext
  <2>2. /\ h \in 1 .. MaxHeight /\ b \in Blocks' /\ headers'[b] = HeaderOf(n)
        /\ headers'[b].height = h /\ headers'[b].proposer = n
    BY <2>1, ProposeKeepsWorld
  <2>3. /\ Blocks' = Blocks \union {b} /\ \A c \in Blocks : headers'[c] = headers[c] /\ headers[c].height \in 0 .. MaxHeight
    <3>1. headers \in Seq(Header) /\ HeaderOf(n) \in Header
      <4>1. headers' \in Seq(Header)
        BY <2>1, ProposeKeepsWorld DEF WorldInv
      <4>2. headers'[b] \in Header
        BY <2>2, <4>1, ElementOfSeq DEF Blocks
      <4> QED
        BY <2>2, <4>2 DEF ValInv, WorldInv
    <3>2. Len(headers') = b /\ b = Len(headers) + 1 /\ Len(headers) \in Nat
      BY <2>1, <3>1, AppendProperties, LenProperties DEF Propose, NewBlock
    <3>3. 1 .. b = (1 .. Len(headers)) \union {b}
      BY <3>2
    <3>4. \A c \in Blocks : headers[c].height \in 0 .. MaxHeight
      BY HeaderType DEF ValInv, Header
    <3> QED
      BY <3>2, <3>3, <3>4 DEF Blocks, Grows
  <2>4. n = h % N
    BY <2>1, NextIsFree
  <2>5. \A c \in Blocks : Height(c) # h
    BY <2>1, NextIsFree
  <2>6. headers'[b].prev \in Blocks /\ headers[headers'[b].prev].height = h - 1
    <3>1. headers'[b].prev = chain[n][latest[n]] /\ latest[n] = h - 1
      BY <2>1, <2>2, TipFilled DEF HeaderOf
    <3> QED
      BY <3>1, TipFilled, StoredThere DEF Height
  <2>7. \A c \in Blocks : headers[c].height > 0 =>
          /\ headers[c].proposer = headers[c].height % N
          /\ headers[c].prev \in Blocks /\ headers[headers[c].prev].height = headers[c].height - 1
    BY <1>1 DEF OneBlockInv, Height
  <2>8. \A c, d \in Blocks' : headers'[c].height = headers'[d].height => c = d
    BY <1>1, <2>2, <2>3, <2>5 DEF OneBlockInv, Height
  <2>9. \A c \in Blocks' : headers'[c].height > 0 =>
          /\ headers'[c].proposer = headers'[c].height % N
          /\ headers'[c].prev \in Blocks' /\ headers'[headers'[c].prev].height = headers'[c].height - 1
    <3>1. ASSUME NEW c \in Blocks, headers'[c].height > 0
          PROVE  /\ headers'[c].proposer = headers'[c].height % N
                 /\ headers'[c].prev \in Blocks' /\ headers'[headers'[c].prev].height = headers'[c].height - 1
      BY <2>3, <2>7, <3>1
    <3>2. /\ headers'[b].proposer = headers'[b].height % N
          /\ headers'[b].prev \in Blocks' /\ headers'[headers'[b].prev].height = headers'[b].height - 1
      BY <2>2, <2>3, <2>4, <2>6
    <3> QED
      BY <2>3, <3>1, <3>2
  <2>10. 1 \in Blocks' /\ headers'[1].height = 0 /\ headers'[1].prev = NoBlock
    BY <1>1, <2>3 DEF OneBlockInv, Height
  <2> QED
    BY <2>8, <2>9, <2>10 DEF OneBlockInv, Height, NoBlock
<1> QED
  BY <1>2, <1>3 DEF FaultlessStep, FinalizesOwn, AppliesOther

LEMMA StoresFilled ==
  ASSUME ValInv, OneChainInv, WorldInv', NEW n \in Node, NEW h, NEW b, Stores(n, h, b)
  PROVE  /\ h \in 1 .. MaxHeight
         /\ \A m \in Node, k \in 0 .. MaxHeight : chain'[m][k] = IF m = n /\ k = h THEN b ELSE chain[m][k]
         /\ \A m \in Node : latest'[m] = IF m = n THEN h ELSE latest[m]
         /\ \A m \in Node, k \in 0 .. MaxHeight : Filled(m, k)' <=> Filled(m, k) \/ (m = n /\ k = h)
<1>1. /\ h \in 1 .. MaxHeight /\ PutBlock(n, h, b) /\ b # NoBlock
  BY DEF Stores, Blocks, NoBlock
<1>2. \A m \in Node, k \in 0 .. MaxHeight : chain'[m][k] = IF m = n /\ k = h THEN b ELSE chain[m][k]
  BY <1>1, PutCells
<1> QED
  BY <1>1, <1>2, PutLatest DEF Filled

LEMMA FilledKept ==
  ASSUME ValInv, OneChainInv, WorldInv', NEW n \in Node,
         UNCHANGED <<chain, latest>> \/ \E h, b : Stores(n, h, b)
  PROVE  FilledInv'
<1>1. FilledInv
  BY DEF OneChainInv
<1>2. CASE UNCHANGED <<chain, latest>>
  BY <1>1, <1>2 DEF FilledInv, Filled
<1>3. ASSUME NEW h, NEW b, Stores(n, h, b) PROVE FilledInv'
  <2>1. /\ h \in 1 .. MaxHeight /\ MaxHeight \in Nat
        /\ \A m \in Node, k \in 0 .. MaxHeight : chain'[m][k] = IF m = n /\ k = h THEN b ELSE chain[m][k]
        /\ \A m \in Node, k \in 0 .. MaxHeight : Filled(m, k)' <=> Filled(m, k) \/ (m = n /\ k = h)
        /\ Filled(n, h - 1)
    BY <1>3, StoresFilled, ValidatorAssumption DEF Stores
  <2>2. \A m \in Node : chain'[m][0] = 1
    BY <1>1, <2>1 DEF FilledInv
  <2>3. ASSUME NEW m \in Node, NEW k \in 0 .. MaxHeight, Filled(m, k)', NEW j \in 0 .. k PROVE Filled(m, j)'
    <3>1. j \in 0 .. MaxHeight
      BY <2>1
    <3>2. CASE Filled(m, k)
      BY <1>1, <2>1, <3>1, <3>2 DEF FilledInv
    <3>3. CASE m = n /\ k = h
      <4>1. h - 1 \in 0 .. MaxHeight /\ (j = h \/ j \in 0 .. h - 1)
        BY <2>1, <3>3
      <4>2. j \in 0 .. h - 1 => Filled(n, j)
        BY <1>1, <2>1, <4>1 DEF FilledInv
      <4> QED
        BY <2>1, <3>1, <3>3, <4>1, <4>2
    <3> QED
      BY <2>1, <2>3, <3>2, <3>3
  <2> QED
    BY <2>2, <2>3 DEF FilledInv, Filled
<1> QED
  BY <1>2, <1>3

\* Node m has pending block p and latest height l: may it have proposed c?
MayHaveProposed(p, l, c) ==
  IF p = NoBlock THEN Height(c) <= l
  ELSE Height(c) <= Height(p) /\ (c # p => Height(c) <= l)

LEMMA ProposedKept ==
  ASSUME ValInv, OneChainInv, WorldInv', Grows, NEW n \in Node, FaultlessStep(n)
  PROVE  ProposedInv'
<1>1. /\ \A m \in Node, c \in Blocks : headers[c].height > 0 /\ headers[c].proposer = m =>
           MayHaveProposed(pending[m], latest[m], c)
      /\ \A m \in Node : pending[m] # NoBlock =>
           /\ pending[m] \in Blocks /\ headers[pending[m]].height \in 1 .. MaxHeight
           /\ Filled(m, headers[pending[m]].height - 1)
  <2>1. \A m \in Node : pending[m] # NoBlock => pending[m] \in Blocks /\ headers[pending[m]].height > 0
    BY DEF ValInv, PendingInv, PendingOK, Height
  <2>2. \A c \in Blocks : headers[c].height \in 0 .. MaxHeight
    BY HeaderType DEF ValInv, Header
  <2>3. \A k \in 0 .. MaxHeight : k > 0 => k \in 1 .. MaxHeight
    OBVIOUS
  <2> QED
    BY <2>1, <2>2, <2>3 DEF OneChainInv, ProposedInv, MayHaveProposed, Height
<1>2. /\ MaxHeight \in Nat /\ \A m \in Node : latest[m] \in 0 .. MaxHeight
      /\ \A c \in Blocks : c \in Blocks' /\ headers'[c] = headers[c] /\ headers[c].height \in 0 .. MaxHeight
  BY HeaderType, ValidatorAssumption, TipFilled DEF ValInv, Header, Grows
<1>3. pending \in [Node -> Nat] /\ NoBlock = 0 /\ NoBlock \notin Blocks
  BY DEF ValInv, PendingInv, NoBlock, Blocks
<1>4. CASE UNCHANGED <<chain, latest, headers, pending>>
  BY <1>4 DEF OneChainInv, ProposedInv, Filled, Height, Blocks
<1>5. ASSUME NEW h, NEW b, FinalizesOwn(n, h, b) \/ AppliesOther(n, h, b) PROVE ProposedInv'
  <2>1. /\ h \in 1 .. MaxHeight /\ Blocks' = Blocks /\ headers' = headers /\ Stores(n, h, b)
        /\ \A m \in Node : latest'[m] = IF m = n THEN h ELSE latest[m]
        /\ \A m \in Node, k \in 0 .. MaxHeight : Filled(m, k) => Filled(m, k)'
    BY <1>5, StoresFilled DEF FinalizesOwn, AppliesOther, Blocks
  <2>2. b \in Blocks /\ headers[b].height = h
    BY <2>1 DEF Stores
  <2>3. \A m \in Node : pending'[m] = pending[m] \/ pending'[m] = NoBlock
    BY <1>3, <1>5 DEF FinalizesOwn, AppliesOther
  <2>4. \A m \in Node : pending'[m] # NoBlock => chain'[m][headers[pending'[m]].height - 1] # NoBlock
    <3>1. \A k \in 1 .. MaxHeight : k - 1 \in 0 .. MaxHeight
      BY <1>2
    <3>2. \A m \in Node, k \in 0 .. MaxHeight : Filled(m, k) => chain'[m][k] # NoBlock
      BY <2>1 DEF Filled
    <3> QED
      BY <1>1, <2>3, <3>1, <3>2
  <2>5. ASSUME NEW m \in Node, NEW c \in Blocks, headers[c].height > 0, headers[c].proposer = m
        PROVE  IF pending'[m] = NoBlock THEN headers[c].height <= latest'[m]
               ELSE /\ headers[c].height <= headers[pending'[m]].height
                    /\ c # pending'[m] => headers[c].height <= latest'[m]
    <3>1. /\ MayHaveProposed(pending[m], latest[m], c)
          /\ headers[c].height \in Nat /\ latest[m] \in Nat /\ h \in Nat
      BY <1>1, <1>2, <2>1, <2>5
    <3>2. CASE m # n
      <4>1. pending'[m] = pending[m] /\ latest'[m] = latest[m]
        BY <1>3, <1>5, <2>1, <3>2 DEF FinalizesOwn, AppliesOther
      <4> QED
        BY <3>1, <4>1 DEF MayHaveProposed, Height
    <3>3. CASE m = n /\ FinalizesOwn(n, h, b)
      <4>1. pending[n] = b /\ pending'[n] = NoBlock /\ latest'[n] = h /\ b # NoBlock
        BY <1>3, <2>1, <2>2, <3>3 DEF FinalizesOwn
      <4>2. headers[c].height <= h
        BY <2>2, <3>1, <3>3, <4>1 DEF MayHaveProposed, Height
      <4> QED
        BY <3>3, <4>1, <4>2
    <3>4. CASE m = n /\ AppliesOther(n, h, b)
      <4>1. pending'[n] = pending[n] /\ latest'[n] = h /\ ~Filled(n, h) /\ h \in 0 .. MaxHeight
        BY <2>1, <3>4 DEF AppliesOther
      <4>2. latest[n] < h
        BY <4>1, TipFilled
      <4>3. headers[c].height <= latest[n] => headers[c].height <= h
        BY <3>1, <3>4, <4>2
      <4> QED
        BY <3>1, <3>4, <4>1, <4>3 DEF MayHaveProposed, Height
    <3> QED
      BY <1>5, <3>2, <3>3, <3>4
  <2> QED
    BY <2>1, <2>4, <2>5 DEF ProposedInv, Filled, Height, NoBlock
<1>6. ASSUME NEW h, NEW b, ProposesNext(n, h, b) PROVE ProposedInv'
  <2>1. h = latest[n] + 1 /\ b = NewBlock /\ pending[n] = NoBlock /\ MayProduce(n) /\ Propose(n)
    BY <1>6 DEF ProposesNext
  <2>2. /\ h \in 1 .. MaxHeight /\ b \in Blocks' /\ headers'[b].height = h /\ headers'[b].proposer = n
    BY <2>1, ProposeKeepsWorld
  <2>3. \A c \in Blocks' : c = b \/ c \in Blocks
    <3>1. headers' = Append(headers, HeaderOf(n)) /\ headers \in Seq(Header) /\ b = Len(headers) + 1
      BY <2>1 DEF Propose, ValInv, WorldInv, NewBlock
    <3>2. Len(headers') = Len(headers) + 1 /\ Len(headers) \in Nat
      BY <3>1, LenProperties, AppendProperties
    <3> QED
      BY <3>1, <3>2 DEF Blocks
  <2>4. b \notin Blocks /\ b # NoBlock
    BY <2>1, LenProperties DEF ValInv, WorldInv, Blocks, NewBlock, NoBlock
  <2>5. /\ \A m \in Node : m # n => pending'[m] = pending[m] /\ latest'[m] = latest[m]
        /\ \/ latest'[n] = h /\ pending'[n] = NoBlock
           \/ latest'[n] = latest[n] /\ pending'[n] = b
        /\ \A m \in Node, k \in 0 .. MaxHeight : Filled(m, k) => chain'[m][k] # NoBlock
    <3>1. CASE Stores(n, h, b) /\ UNCHANGED pending
      BY <2>1, <3>1, StoresFilled DEF Filled
    <3>2. CASE pending' = [pending EXCEPT ![n] = b] /\ UNCHANGED <<chain, latest>>
      BY <1>3, <3>2 DEF Filled
    <3> QED
      BY <1>6, <3>1, <3>2 DEF ProposesNext
  <2>6. ASSUME NEW m \in Node, pending'[m] # NoBlock PROVE chain'[m][headers'[pending'[m]].height - 1] # NoBlock
    <3>1. CASE m # n
      <4>1. /\ pending'[m] = pending[m] /\ headers'[pending[m]] = headers[pending[m]]
            /\ headers[pending[m]].height - 1 \in 0 .. MaxHeight
            /\ Filled(m, headers[pending[m]].height - 1)
        BY <1>1, <1>2, <2>5, <2>6, <3>1
      <4> QED
        BY <2>5, <4>1
    <3>2. CASE m = n
      <4>1. pending'[n] = b /\ h - 1 = latest[n] /\ latest[n] \in 0 .. MaxHeight /\ Filled(n, latest[n])
        BY <2>1, <2>2, <2>5, <2>6, <3>2, TipFilled
      <4>2. chain'[n][h - 1] # NoBlock
        BY <2>5, <4>1
      <4> QED
        BY <2>2, <3>2, <4>1, <4>2
    <3> QED
      BY <3>1, <3>2
  <2>7. ASSUME NEW m \in Node, NEW c \in Blocks', headers'[c].height > 0, headers'[c].proposer = m
        PROVE  IF pending'[m] = NoBlock THEN headers'[c].height <= latest'[m]
               ELSE /\ headers'[c].height <= headers'[pending'[m]].height
                    /\ c # pending'[m] => headers'[c].height <= latest'[m]
    <3>1. CASE c = b
      <4>1. m = n /\ headers'[c].height = h /\ h <= h
        BY <2>2, <2>7, <3>1
      <4> QED
        BY <2>2, <2>4, <2>5, <3>1, <4>1
    <3>2. CASE c # b
      <4>1. /\ c \in Blocks /\ headers'[c] = headers[c]
            /\ MayHaveProposed(pending[m], latest[m], c)
            /\ headers[c].height \in Nat /\ latest[m] \in Nat
        BY <1>1, <1>2, <2>3, <2>7, <3>2
      <4>2. CASE m # n
        <5>1. pending[m] # NoBlock => headers'[pending[m]] = headers[pending[m]]
          BY <1>1, <1>2
        <5> QED
          BY <2>5, <4>1, <4>2, <5>1 DEF MayHaveProposed, Height
      <4>3. CASE m = n
        <5>1. headers[c].height <= latest[n]
          BY <2>1, <4>1, <4>3 DEF MayHaveProposed, Height
        <5>2. headers[c].height <= h
          BY <2>1, <4>1, <4>3, <5>1
        <5> QED
          BY <2>2, <2>4, <2>5, <3>2, <4>1, <4>3, <5>1, <5>2
      <4> QED
        BY <4>2, <4>3
    <3> QED
      BY <3>1, <3>2
  <2> QED
    BY <2>6, <2>7 DEF ProposedInv, Filled, Height, NoBlock
<1> QED
  BY <1>4, <1>5, <1>6 DEF FaultlessStep

LEMMA OneChainKept ==
  ASSUME Faultless, ValInv, VC!TypeOK, OneChainInv, Next
  PROVE  OneChainInv' /\ \E n \in Node : FaultlessStep(n)
<1>1. PICK n \in Node : FaultlessStep(n) /\ \A m \in Node : pc'[m] # "produce"
  BY FaultlessSteps
<1>2. WorldInv' /\ Grows
  <2>1. PICK m \in Node : NodeStep(m)
    BY NextIsNodeStep
  <2> QED
    BY <2>1, WorldKept DEF NodeStep
<1>3. UNCHANGED <<chain, latest>> \/ \E h, b : Stores(n, h, b)
  BY <1>1 DEF FaultlessStep, FinalizesOwn, AppliesOther, ProposesNext
<1> QED
  BY <1>1, <1>2, <1>3, OneBlockKept, FilledKept, ProposedKept DEF OneChainInv

-----------------------------------------------------------------------------
\* What the validators have decided, as AgreedChain sees it.
DecidedBlocks ==
  [h \in 0 .. MaxHeight |-> {Link(chain[n][h]) : n \in {m \in Node : chain[m][h] # NoBlock}}]

LEMMA DecideIsNext ==
  ASSUME NEW h \in 1 .. MaxHeight, NEW link, NEW below \in DecidedBlocks[h - 1],
         DecidedBlocks[h] = {}, DecidedBlocks' = [DecidedBlocks EXCEPT ![h] = {link}],
         link \in DecidedBlocks'[h], link.prev = below.block
  PROVE  Chain!Next
BY DEF Chain!Next, Chain!Decide, DecidedBlocks

\* What is decided at a height while no block is stored there.
LEMMA SameCell ==
  ASSUME ValInv, Grows, NEW k \in 0 .. MaxHeight, \A m \in Node : chain'[m][k] = chain[m][k]
  PROVE  DecidedBlocks'[k] = DecidedBlocks[k]
<1>1. \A m \in Node : chain[m][k] # NoBlock =>
        headers'[chain'[m][k]].prev = headers[chain[m][k]].prev /\ chain'[m][k] = chain[m][k]
  BY DEF ValInv, StoreInv, Grows
<1>2. {m \in Node : chain'[m][k] # NoBlock} = {m \in Node : chain[m][k] # NoBlock}
  OBVIOUS
<1> QED
  BY <1>1, <1>2 DEF DecidedBlocks, Link

\* There is no other block of its height.
LEMMA OnlyOneStored ==
  ASSUME ValInv, OneChainInv, OneChainInv', Grows, NEW n \in Node, NEW h, NEW b, Stores(n, h, b)
  PROVE  \A m \in Node : chain[m][h] # NoBlock => chain[m][h] = b /\ headers[b].prev = headers'[b].prev
<1> SUFFICES ASSUME NEW m \in Node, chain[m][h] # NoBlock
             PROVE  chain[m][h] = b /\ headers[b].prev = headers'[b].prev
  OBVIOUS
<1>1. h \in 0 .. MaxHeight /\ b \in Blocks' /\ headers'[b].height = h
  BY ValidatorAssumption DEF Stores
<1>2. chain[m][h] \in Blocks /\ headers[chain[m][h]].height = h
  BY <1>1, StoredThere DEF Filled, Height
<1>3. chain[m][h] \in Blocks' /\ headers'[chain[m][h]] = headers[chain[m][h]]
  BY <1>2 DEF Grows
<1>4. \A c, d \in Blocks' : headers'[c].height = headers'[d].height => c = d
  BY DEF OneChainInv, OneBlockInv, Height
<1> QED
  BY <1>1, <1>2, <1>3, <1>4

LEMMA StoreDecides ==
  ASSUME ValInv, OneChainInv, OneChainInv', Grows, WorldInv', NEW n \in Node, NEW h, NEW b, Stores(n, h, b)
  PROVE  Chain!Next \/ UNCHANGED DecidedBlocks
<1> DEFINE link == [block |-> b, prev |-> headers'[b].prev]
<1>1. /\ h \in 1 .. MaxHeight /\ MaxHeight \in Nat /\ b # NoBlock
      /\ b \in Blocks' /\ headers'[b].height = h /\ headers'[b].prev = chain[n][h - 1] /\ Filled(n, h - 1)
      /\ \A m \in Node, k \in 0 .. MaxHeight : chain'[m][k] = IF m = n /\ k = h THEN b ELSE chain[m][k]
  BY SMTT(30), StoresFilled, ValidatorAssumption DEF Stores, NoBlock, Blocks
<1>2. h \in 0 .. MaxHeight /\ h - 1 \in 0 .. MaxHeight
  BY <1>1
<1>3. \A k \in 0 .. MaxHeight : k # h => DecidedBlocks'[k] = DecidedBlocks[k]
  <2> SUFFICES ASSUME NEW k \in 0 .. MaxHeight, k # h PROVE DecidedBlocks'[k] = DecidedBlocks[k]
    OBVIOUS
  <2>1. \A m \in Node : chain'[m][k] = chain[m][k]
    BY <1>1
  <2> QED
    BY <2>1, SameCell
<1>4. \A m \in Node : chain[m][h] # NoBlock => chain[m][h] = b /\ headers[b].prev = headers'[b].prev
  BY OnlyOneStored
<1>5. DecidedBlocks'[h] = {link}
  <2>1. \A m \in Node : chain'[m][h] # NoBlock => chain'[m][h] = b
    BY <1>1, <1>2, <1>4
  <2>2. n \in Node /\ chain'[n][h] = b
    BY <1>1, <1>2
  <2> QED
    BY <1>1, <1>2, <2>1, <2>2 DEF DecidedBlocks, Link
<1>6. DecidedBlocks[h] = {} \/ DecidedBlocks[h] = {link}
  BY <1>2, <1>4 DEF DecidedBlocks, Link
<1>7. PICK below \in DecidedBlocks[h - 1] : link.prev = below.block
  <2>1. n \in {m \in Node : chain[m][h - 1] # NoBlock}
    BY <1>1 DEF Filled
  <2>2. Link(chain[n][h - 1]) \in DecidedBlocks[h - 1]
    BY <1>2, <2>1 DEF DecidedBlocks
  <2>3. Link(chain[n][h - 1]).block = chain[n][h - 1] /\ link.prev = headers'[b].prev
    BY DEF Link
  <2> QED
    BY <1>1, <2>2, <2>3
<1>8. DecidedBlocks = [k \in 0 .. MaxHeight |-> DecidedBlocks[k]] /\ DecidedBlocks' = [k \in 0 .. MaxHeight |-> DecidedBlocks'[k]]
  BY DEF DecidedBlocks
<1>9. link \in DecidedBlocks'[h]
  BY <1>5
<1> HIDE DEF link
<1>10. CASE DecidedBlocks[h] = {}
  <2>1. DecidedBlocks' = [DecidedBlocks EXCEPT ![h] = {link}]
    BY <1>2, <1>3, <1>5, <1>8
  <2> QED
    BY <1>1, <1>7, <1>9, <1>10, <2>1, DecideIsNext
<1>11. CASE DecidedBlocks[h] = {link}
  BY <1>2, <1>3, <1>5, <1>8, <1>11
<1> QED
  BY <1>6, <1>10, <1>11

LEMMA StepDecides ==
  ASSUME Faultless, ValInv, VC!TypeOK, OneChainInv, Next
  PROVE  Chain!Next \/ UNCHANGED DecidedBlocks
<1>1. OneChainInv' /\ \E n \in Node : FaultlessStep(n)
  BY OneChainKept
<1>2. WorldInv' /\ Grows
  <2>1. PICK m \in Node : NodeStep(m)
    BY NextIsNodeStep
  <2> QED
    BY <2>1, WorldKept DEF NodeStep
<1>3. PICK n \in Node : FaultlessStep(n)
  BY <1>1
<1>4. UNCHANGED chain \/ \E h, b : Stores(n, h, b)
  BY <1>3 DEF FaultlessStep, FinalizesOwn, AppliesOther, ProposesNext
<1>5. CASE UNCHANGED chain
  <2>1. \A k \in 0 .. MaxHeight : DecidedBlocks'[k] = DecidedBlocks[k]
    BY <1>2, <1>5, SameCell
  <2>2. DecidedBlocks = [k \in 0 .. MaxHeight |-> DecidedBlocks[k]] /\ DecidedBlocks' = [k \in 0 .. MaxHeight |-> DecidedBlocks'[k]]
    BY DEF DecidedBlocks
  <2> QED
    BY <2>1, <2>2
<1> QED
  BY <1>1, <1>2, <1>4, <1>5, StoreDecides

LEMMA InitHeaders ==
  ASSUME Faultless, Init
  PROVE  /\ Blocks = {1}
         /\ headers[1] = [height |-> 0, prev |-> NoBlock, txs |-> <<>>, root |-> StateRoot(EmptyState), proposer |-> 0]
<1> DEFINE genesis(i) == [height |-> 0, prev |-> NoBlock, txs |-> <<>>, root |-> StateRoot(EmptyState), proposer |-> i - 1]
<1>1. headers = [i \in 1 .. 1 |-> genesis(i)]
  BY DEF Init, Faultless
<1>2. headers = <<genesis(1)>>
  BY <1>1
<1> QED
  BY <1>2 DEF Blocks

LEMMA InitOneChain ==
  ASSUME Faultless, Init
  PROVE  OneChainInv /\ Chain!Init
<1>1. Blocks = {1} /\ headers[1].height = 0 /\ headers[1].prev = NoBlock
  BY InitHeaders
<1>2. MaxHeight \in Nat /\ 0 \in Node
  BY ValidatorAssumption DEF Node
<1>3. /\ \A n \in Node : pc[n] = "drain" /\ pending[n] = NoBlock
      /\ \A n \in Node, h \in 0 .. MaxHeight : chain[n][h] = IF h = 0 THEN 1 ELSE NoBlock
  BY DEF Init, Faultless, GenesisOf
<1>4. OneBlockInv
  BY <1>1 DEF OneBlockInv, Height
<1>5. FilledInv
  BY <1>2, <1>3 DEF FilledInv, Filled, NoBlock
<1>6. ProposedInv
  BY <1>1, <1>3 DEF ProposedInv, Height
<1>7. Chain!Init
  <2>1. \A h \in 0 .. MaxHeight : DecidedBlocks[h] = IF h = 0 THEN {[block |-> 1, prev |-> NoBlock]} ELSE {}
    <3>1. \A h \in 0 .. MaxHeight : h # 0 => {m \in Node : chain[m][h] # NoBlock} = {}
      BY <1>3
    <3>2. {m \in Node : chain[m][0] # NoBlock} = Node /\ \A m \in Node : Link(chain[m][0]) = [block |-> 1, prev |-> NoBlock]
      BY <1>1, <1>2, <1>3 DEF Link, NoBlock
    <3> QED
      BY <1>2, <3>1, <3>2 DEF DecidedBlocks
  <2> QED
    BY <2>1 DEF Chain!Init, DecidedBlocks
<1> QED
  BY <1>3, <1>4, <1>5, <1>6, <1>7 DEF OneChainInv

LEMMA OneChainInvariance == Faultless => (Spec => []OneChainInv)
<1> SUFFICES ASSUME Faultless PROVE Spec => []OneChainInv
  OBVIOUS
<1>1. Init => OneChainInv
  BY InitOneChain
<1>2. ValInv /\ VC!TypeOK /\ OneChainInv /\ [Next]_vars => OneChainInv'
  <2> SUFFICES ASSUME ValInv, VC!TypeOK, OneChainInv, [Next]_vars PROVE OneChainInv'
    OBVIOUS
  <2>1. CASE Next
    BY <2>1, OneChainKept
  <2>2. CASE UNCHANGED vars
    BY <2>2 DEF vars, OneChainInv, OneBlockInv, FilledInv, ProposedInv, Filled, Height, Blocks
  <2> QED
    BY <2>1, <2>2
<1> QED
  BY <1>1, <1>2, ValInvariance, ViewsTyped, PTL DEF Spec

\* As long as no block times out, no timer expires and nobody is killed, the
\* validators store one chain, in any number, with any quorum and even where
\* they reach themselves: each height is decided once, on top of the one below.
THEOREM OneChain == Faultless => (Spec => ImplementsAgreedChain)
<1> SUFFICES ASSUME Faultless PROVE Spec => Chain!Spec
  BY DEF ImplementsAgreedChain
<1>1. Init => Chain!Init
  BY InitOneChain
<1>2. ValInv /\ VC!TypeOK /\ OneChainInv /\ [Next]_vars => [Chain!Next]_DecidedBlocks
  <2> SUFFICES ASSUME ValInv, VC!TypeOK, OneChainInv, [Next]_vars PROVE Chain!Next \/ UNCHANGED DecidedBlocks
    OBVIOUS
  <2>1. CASE Next
    BY <2>1, StepDecides
  <2>2. CASE UNCHANGED vars
    BY <2>2 DEF vars, DecidedBlocks, Link
  <2> QED
    BY <2>1, <2>2
<1> QED
  BY <1>1, <1>2, ValInvariance, ViewsTyped, OneChainInvariance, PTL DEF Spec, Chain!Spec, DecidedBlocks

-----------------------------------------------------------------------------
\* No two nodes ever have different blocks at one height.
THEOREM OneChainAgreement == Faultless => (Spec => []Agreement)
<1> SUFFICES ASSUME Faultless PROVE Spec => []Agreement
  OBVIOUS
<1>1. ValInv /\ OneChainInv => Agreement
  <2> SUFFICES ASSUME ValInv, OneChainInv, NEW n \in Node, NEW m \in Node, NEW h \in 1 .. MaxHeight,
                      chain[n][h] # NoBlock, chain[m][h] # NoBlock
               PROVE  chain[n][h] = chain[m][h]
    BY DEF Agreement
  <2>1. h \in 0 .. MaxHeight
    BY ValidatorAssumption
  <2> QED
    BY <2>1, StoredThere DEF Filled
<1> QED
  BY <1>1, ValInvariance, OneChainInvariance, PTL

\* And no node ever replaces a block: where it stores a second one, as it may
\* when it reaches itself, that is the same block again.
THEOREM OneChainKeepsBlocks == Faultless => (Spec => NeverReplaced)
<1> SUFFICES ASSUME Faultless PROVE Spec => NeverReplaced
  OBVIOUS
<1> DEFINE Kept == \A n \in Node, h \in 1 .. MaxHeight : chain[n][h] # NoBlock => chain'[n][h] = chain[n][h]
<1>1. ValInv /\ VC!TypeOK /\ OneChainInv /\ [Next]_vars => [Kept]_vars
  <2> SUFFICES ASSUME ValInv, VC!TypeOK, OneChainInv, Next PROVE Kept
    OBVIOUS
  <2>1. OneChainInv' /\ \E n \in Node : FaultlessStep(n)
    BY OneChainKept
  <2>2. WorldInv' /\ Grows
    <3>1. PICK m \in Node : NodeStep(m)
      BY NextIsNodeStep
    <3> QED
      BY <3>1, WorldKept DEF NodeStep
  <2>3. UNCHANGED chain \/ \E n \in Node : \E h, b : Stores(n, h, b)
    BY <2>1 DEF FaultlessStep, FinalizesOwn, AppliesOther, ProposesNext
  <2>4. ASSUME NEW n \in Node, NEW h, NEW b, Stores(n, h, b) PROVE Kept
    <3>1. /\ h \in 1 .. MaxHeight /\ MaxHeight \in Nat
          /\ \A m \in Node, k \in 0 .. MaxHeight : chain'[m][k] = IF m = n /\ k = h THEN b ELSE chain[m][k]
      BY <2>2, <2>4, StoresFilled, ValidatorAssumption
    <3>2. chain[n][h] # NoBlock => chain[n][h] = b
      BY <2>1, <2>2, <2>4, <3>1, OnlyOneStored
    <3> QED
      BY <3>1, <3>2
  <2> QED
    BY <2>3, <2>4
<1> QED
  BY <1>1, ValInvariance, ViewsTyped, OneChainInvariance, PTL DEF Spec, NeverReplaced

-----------------------------------------------------------------------------
\* Moreover no payload is refused.
Undisturbed == Faultless /\ Refused = {}

\* A node that does not reach itself has nothing above its latest height, and a
\* pending block only at the next one.
UpToTip ==
  \A n \in Node \ Echo :
    /\ \A h \in 0 .. MaxHeight : Filled(n, h) => h <= latest[n]
    /\ pending[n] # NoBlock => Height(pending[n]) = latest[n] + 1

\* The highest block that a node has stored, which need not be its latest one.
Top(n, h) == Filled(n, h) /\ (h < MaxHeight => ~Filled(n, h + 1))

\* The state of a node is that of its pending block, where it has not stored
\* that one itself, or else of the highest one it has stored.
StateOfTop(n, h) ==
  IF pending[n] # NoBlock /\ Height(pending[n]) = h + 1 THEN StateRoot(app[n]) = headers[pending[n]].root
  ELSE StateRoot(app[n]) = headers[chain[n][h]].root

AtTop(n) == \E h \in 0 .. MaxHeight : Top(n, h) /\ StateOfTop(n, h)

\* A block leads from the state root of its parent to its own, and from there
\* nowhere else.
LeadsFrom(b, root) ==
  \A s \in Ledger : StateRoot(s) = root => StateRoot(Final(s, headers[b].txs)) = headers[b].root

Leads(b) == Height(b) > 0 => LeadsFrom(b, headers[headers[b].prev].root) /\ LeadsFrom(b, headers[b].root)

StatesInv == UpToTip /\ (\A n \in Node : AtTop(n)) /\ \A b \in Blocks : Leads(b)

LEMMA OthersStay ==
  ASSUME ValInv, OneChainInv, Grows, NEW m \in Node, AtTop(m),
         chain'[m] = chain[m], pending'[m] = pending[m], app'[m] = app[m]
  PROVE  AtTop(m)'
<1>1. PICK h \in 0 .. MaxHeight : Top(m, h) /\ StateOfTop(m, h)
  BY DEF AtTop
<1>2. headers'[chain[m][h]] = headers[chain[m][h]]
  BY <1>1, StoredThere DEF Grows, Top
<1>3. pending[m] # NoBlock => headers'[pending[m]] = headers[pending[m]]
  BY DEF ValInv, PendingInv, PendingOK, Grows
<1>4. Top(m, h)' /\ StateOfTop(m, h)'
  BY <1>1, <1>2, <1>3 DEF Top, StateOfTop, Filled, Height, NoBlock
<1> QED
  BY <1>4 DEF AtTop

LEMMA OldBlocksLead ==
  ASSUME ValInv, OneChainInv, Grows, NEW b \in Blocks, Leads(b)
  PROVE  Leads(b)'
<1>1. headers'[b] = headers[b] /\ (headers[b].height > 0 => headers'[headers[b].prev] = headers[headers[b].prev])
  BY DEF Grows, OneChainInv, OneBlockInv, Height
<1> QED
  BY <1>1 DEF Leads, LeadsFrom, Height

\* The top is one height, with everything below it.
LEMMA OneTop ==
  ASSUME ValInv, OneChainInv, NEW n \in Node, NEW g \in 0 .. MaxHeight, Top(n, g)
  PROVE  \A h \in 0 .. MaxHeight : Filled(n, h) <=> h <= g
<1>1. \A h \in 0 .. MaxHeight : Filled(n, h) => \A k \in 0 .. h : Filled(n, k)
  BY DEF OneChainInv, FilledInv
<1>2. ASSUME NEW h \in 0 .. MaxHeight, Filled(n, h), h > g PROVE FALSE
  <2>1. g < MaxHeight /\ g + 1 \in 0 .. h
    BY <1>2, ValidatorAssumption
  <2> QED
    BY <1>1, <1>2, <2>1 DEF Top
<1>3. ASSUME NEW h \in 0 .. MaxHeight, h <= g PROVE Filled(n, h)
  <2>1. h \in 0 .. g
    BY <1>3
  <2> QED
    BY <1>1, <2>1 DEF Top
<1> QED
  BY <1>2, <1>3

\* Nothing else happens at the other nodes.
Elsewhere(n) == \A m \in Node : m # n => pending'[m] = pending[m] /\ app'[m] = app[m]

LEMMA RestSettles ==
  ASSUME ValInv, OneChainInv, StatesInv, Grows, NEW n \in Node,
         \A m \in Node : m # n => chain'[m] = chain[m] /\ latest'[m] = latest[m],
         Elsewhere(n), AtTop(n)',
         n \notin Echo => /\ \A h \in 0 .. MaxHeight : Filled(n, h)' => h <= latest'[n]
                          /\ pending'[n] # NoBlock => headers'[pending'[n]].height = latest'[n] + 1
  PROVE  UpToTip' /\ \A m \in Node : AtTop(m)'
<1>1. ASSUME NEW m \in Node, m # n PROVE AtTop(m)'
  BY <1>1, OthersStay DEF StatesInv, Elsewhere
<1>2. ASSUME NEW m \in Node \ Echo, m # n
      PROVE  /\ \A h \in 0 .. MaxHeight : Filled(m, h)' => h <= latest'[m]
             /\ pending'[m] # NoBlock => headers'[pending'[m]].height = latest'[m] + 1
  <2>1. pending[m] # NoBlock => headers'[pending[m]] = headers[pending[m]]
    BY DEF ValInv, PendingInv, PendingOK, Grows
  <2>2. /\ \A h \in 0 .. MaxHeight : Filled(m, h) => h <= latest[m]
        /\ pending[m] # NoBlock => headers[pending[m]].height = latest[m] + 1
    BY <1>2 DEF StatesInv, UpToTip, Height
  <2> QED
    BY <1>2, <2>1, <2>2 DEF Elsewhere, Filled
<1>3. UpToTip'
  BY <1>2 DEF UpToTip, Height, NoBlock
<1> QED
  BY <1>1, <1>3

\* A node stores the next block above its top, and its state is the one there.
LEMMA StoreSettles ==
  ASSUME ValInv, OneChainInv, StatesInv, Grows, WorldInv', NEW n \in Node, NEW h, NEW b, Stores(n, h, b),
         ~Filled(n, h), Elsewhere(n), StateRoot(app'[n]) = headers'[b].root,
         n \notin Echo => h = latest[n] + 1 /\ pending'[n] = NoBlock,
         pending'[n] # NoBlock => headers'[pending'[n]].height # h + 1
  PROVE  UpToTip' /\ \A m \in Node : AtTop(m)'
<1>1. /\ h \in 1 .. MaxHeight /\ MaxHeight \in Nat
      /\ \A m \in Node, k \in 0 .. MaxHeight : chain'[m][k] = IF m = n /\ k = h THEN b ELSE chain[m][k]
      /\ \A m \in Node : latest'[m] = IF m = n THEN h ELSE latest[m]
      /\ \A m \in Node, k \in 0 .. MaxHeight : Filled(m, k)' <=> Filled(m, k) \/ (m = n /\ k = h)
  BY StoresFilled, ValidatorAssumption
<1>2. \A m \in Node : m # n => chain'[m] = chain[m] /\ latest'[m] = latest[m]
  BY <1>1 DEF Stores, PutBlock, ValInv, StoreInv
<1>3. AtTop(n)'
  <2>1. h \in 0 .. MaxHeight /\ chain'[n][h] = b /\ Filled(n, h)'
    BY <1>1
  <2>2. h < MaxHeight => ~Filled(n, h + 1)'
    <3> SUFFICES ASSUME h < MaxHeight, Filled(n, h + 1)' PROVE FALSE
      OBVIOUS
    <3>1. h + 1 \in 0 .. MaxHeight /\ h + 1 # h /\ h \in 0 .. h + 1
      BY <1>1
    <3>2. Filled(n, h + 1)
      BY <1>1, <3>1
    <3> QED
      BY <3>1, <3>2 DEF OneChainInv, FilledInv
  <2>3. Top(n, h)' /\ StateOfTop(n, h)'
    BY <2>1, <2>2 DEF Top, StateOfTop, Height, NoBlock, Filled
  <2> QED
    BY <2>1, <2>3 DEF AtTop
<1>4. ASSUME n \notin Echo, NEW k \in 0 .. MaxHeight, Filled(n, k)' PROVE k <= latest'[n]
  <2>1. Filled(n, k) => k <= latest[n]
    BY <1>4 DEF StatesInv, UpToTip
  <2>2. latest[n] \in 0 .. MaxHeight
    BY TipFilled
  <2> QED
    BY <1>1, <1>4, <2>1, <2>2
<1> QED
  BY <1>2, <1>3, <1>4, RestSettles

LEMMA FinalizeSettles ==
  ASSUME ValInv, OneChainInv, OneChainInv', StatesInv, Grows, WorldInv', NEW n \in Node, FinalizePending(n)
  PROVE  StatesInv'
<1>1. PICK h, b : FinalizesOwn(n, h, b)
  BY FinalizeFaultless
<1>2. /\ Stores(n, h, b) /\ headers' = headers /\ pending[n] = b /\ pending' = [pending EXCEPT ![n] = NoBlock]
      /\ app' = app /\ b \in Blocks /\ Blocks' = Blocks /\ headers[b].height = h
  BY <1>1 DEF FinalizesOwn, FinalizePending, Stores, Blocks
<1>3. b # NoBlock /\ pending'[n] = NoBlock /\ Elsewhere(n)
  BY <1>2 DEF Blocks, NoBlock, ValInv, PendingInv, Elsewhere
<1>4. PICK g \in 0 .. MaxHeight : Top(n, g) /\ StateOfTop(n, g)
  BY DEF StatesInv, AtTop
<1>5. /\ h \in 1 .. MaxHeight /\ MaxHeight \in Nat /\ Filled(n, h - 1)
      /\ \A m \in Node, k \in 0 .. MaxHeight : chain'[m][k] = IF m = n /\ k = h THEN b ELSE chain[m][k]
      /\ \A m \in Node : latest'[m] = IF m = n THEN h ELSE latest[m]
      /\ \A m \in Node, k \in 0 .. MaxHeight : Filled(m, k)' <=> Filled(m, k) \/ (m = n /\ k = h)
  BY <1>2, StoresFilled, ValidatorAssumption DEF Stores
<1>6. h - 1 <= g /\ (Filled(n, h) <=> h <= g)
  BY <1>4, <1>5, OneTop
<1>7. n \notin Echo => h = latest[n] + 1 /\ ~Filled(n, h)
  <2> SUFFICES ASSUME n \notin Echo PROVE h = latest[n] + 1 /\ ~Filled(n, h)
    OBVIOUS
  <2>1. h = latest[n] + 1 /\ (Filled(n, h) => h <= latest[n]) /\ latest[n] \in 0 .. MaxHeight
    BY <1>2, <1>3, <1>5, TipFilled DEF StatesInv, UpToTip, Height
  <2> QED
    BY <2>1
<1>8. \A c \in Blocks' : Leads(c)'
  BY <1>2, OldBlocksLead DEF StatesInv
<1>9. CASE ~Filled(n, h)
  <2>1. h = g + 1
    BY <1>5, <1>6, <1>9
  <2>2. StateRoot(app'[n]) = headers'[b].root
    BY <1>2, <1>3, <1>4, <2>1 DEF StateOfTop, Height
  <2> QED
    BY <1>2, <1>3, <1>7, <1>8, <1>9, <2>2, StoreSettles DEF StatesInv
\* It has stored the block before, as a follower.
<1>10. CASE Filled(n, h)
  <2>1. n \in Echo
    BY <1>7, <1>10
  <2>2. chain[n][h] = b
    BY <1>2, <1>10, OnlyOneStored DEF Filled
  <2>3. /\ \A k \in 0 .. MaxHeight : chain'[n][k] = chain[n][k]
        /\ \A k \in 0 .. MaxHeight : Filled(n, k)' <=> Filled(n, k)
    BY <1>5, <1>10, <2>2
  <2>4. Top(n, g)'
    <3>1. g < MaxHeight => g + 1 \in 0 .. MaxHeight
      BY <1>5
    <3> QED
      BY <1>4, <2>3, <3>1 DEF Top, Filled, NoBlock
  <2>5. StateOfTop(n, g)'
    <3>1. headers[b].height # g + 1
      BY <1>2, <1>5, <1>6, <1>10
    <3>2. StateRoot(app[n]) = headers[chain[n][g]].root
      BY <1>2, <1>4, <3>1 DEF StateOfTop, Height
    <3> QED
      BY <1>2, <1>3, <2>3, <3>2 DEF StateOfTop, NoBlock
  <2>6. AtTop(n)'
    BY <2>4, <2>5 DEF AtTop
  <2>7. \A m \in Node : m # n => chain'[m] = chain[m] /\ latest'[m] = latest[m]
    BY <1>2, <1>5 DEF Stores, PutBlock, ValInv, StoreInv
  <2> QED
    BY <1>3, <1>8, <2>1, <2>6, <2>7, RestSettles DEF StatesInv
<1> QED
  BY <1>9, <1>10

LEMMA AcceptSettles ==
  ASSUME Undisturbed, ValInv, OneChainInv, StatesInv, Grows, WorldInv', NEW n \in Node, AcceptProposal(n)
  PROVE  StatesInv'
<1>1. PICK b, h, s : b = Head(proposals[n]) /\ h = Height(b) /\ s = AfterBlock(n, b)
  OBVIOUS
<1>2. /\ SignHead(n) /\ headers' = headers /\ pending' = pending /\ app' = [app EXCEPT ![n] = s]
      /\ \/ StateRoot(s) = headers[b].root /\ PutBlock(n, h, b)
         \/ StateRoot(s) # headers[b].root
  BY <1>1 DEF AcceptProposal, SignHead
<1>3. /\ b \in Blocks /\ h \in 1 .. MaxHeight /\ headers[b].txs \in Seq(Txs) /\ ProposalOK(n, b)
      /\ chain[n][h] = NoBlock /\ chain[n][h - 1] # NoBlock /\ headers[b].prev = chain[n][h - 1]
  BY <1>1, <1>2, AcceptedFinal, HeadOfProposals DEF SignHead, Acceptable, ValInv
<1>4. MaxHeight \in Nat /\ h \in 0 .. MaxHeight /\ h - 1 \in 0 .. MaxHeight /\ ~Filled(n, h) /\ Filled(n, h - 1)
  BY <1>3, ValidatorAssumption DEF Filled
<1>5. PICK g \in 0 .. MaxHeight : Top(n, g) /\ StateOfTop(n, g)
  BY DEF StatesInv, AtTop
<1>6. h = g + 1
  <2>1. h - 1 <= g /\ ~(h <= g)
    BY <1>4, <1>5, OneTop
  <2> QED
    BY <1>4, <2>1
<1>7. ASSUME pending[n] # NoBlock, Height(pending[n]) = h PROVE pending[n] = b /\ headers[b].proposer = n
  BY <1>1, <1>3, <1>7 DEF ValInv, PendingInv, PendingOK, OneChainInv, OneBlockInv
\* The state is the one below the block or, on a node that proposed it, the one
\* after it.
<1>8. StateRoot(s) = headers[b].root
  <2>1. s = Final(app[n], headers[b].txs) /\ Height(b) > 0 /\ app[n] \in Ledger
    BY <1>1, <1>3 DEF AfterBlock, Final, ValInv, LedgerInv
  <2>2. Leads(b)
    BY <1>3 DEF StatesInv
  <2>3. \/ StateRoot(app[n]) = headers[headers[b].prev].root
        \/ StateRoot(app[n]) = headers[b].root
    <3>1. h - 1 = g
      BY <1>5, <1>6
    <3> QED
      BY <1>3, <1>5, <1>6, <1>7, <3>1 DEF StateOfTop
  <2> QED
    BY <2>1, <2>2, <2>3 DEF Leads, LeadsFrom
<1>9. n \notin Echo => h = latest[n] + 1 /\ pending[n] = NoBlock
  <2> SUFFICES ASSUME n \notin Echo PROVE h = latest[n] + 1 /\ pending[n] = NoBlock
    OBVIOUS
  <2>1. h = latest[n] + 1
    <3>1. h - 1 <= latest[n] /\ latest[n] \in 0 .. MaxHeight /\ latest[n] < h
      BY <1>4, TipFilled DEF StatesInv, UpToTip
    <3> QED
      BY <1>4, <3>1
  <2>2. pending[n] # NoBlock => Height(pending[n]) = h
    BY <2>1 DEF StatesInv, UpToTip
  <2> QED
    BY <1>3, <1>7, <2>1, <2>2 DEF ProposalOK
<1>10. pending[n] # NoBlock => headers[pending[n]].height # h + 1
  <2>1. pending[n] # NoBlock => Filled(n, headers[pending[n]].height - 1)
    BY DEF OneChainInv, ProposedInv, Height
  <2>2. (h + 1) - 1 = h
    BY <1>4
  <2> QED
    BY <1>4, <2>1, <2>2
<1>11. Blocks' = Blocks /\ Stores(n, h, b)
  BY <1>1, <1>2, <1>3, <1>4, <1>8 DEF Stores, Blocks, Height
<1>12. Elsewhere(n) /\ app'[n] = s /\ pending'[n] = pending[n] /\ StateRoot(app'[n]) = headers'[b].root
  BY <1>2, <1>8 DEF Elsewhere, ValInv, LedgerInv
<1>13. \A c \in Blocks' : Leads(c)'
  BY <1>11, OldBlocksLead DEF StatesInv
<1>14. pending'[n] # NoBlock => headers'[pending'[n]].height # h + 1
  BY <1>2, <1>10
<1>15. n \notin Echo => h = latest[n] + 1 /\ pending'[n] = NoBlock
  BY <1>9, <1>12
<1> QED
  BY <1>4, <1>11, <1>12, <1>13, <1>14, <1>15, StoreSettles DEF StatesInv

LEMMA FinalEmpty ==
  ASSUME NEW s \in Ledger
  PROVE  Final(s, <<>>) = s /\ <<>> \in Seq(Txs)
<1>1. s \in AppState /\ <<>> \in Seq(Txs) /\ Len(<<>>) = 0
  BY DEF Ledger
<1> QED
  BY <1>1, ExecuteAllSteps DEF Final

LEMMA ProduceSettles ==
  ASSUME Undisturbed, ValInv, VC!TypeOK, OneChainInv, StatesInv, Grows, WorldInv', NEW n \in Node, Produce(n)
  PROVE  StatesInv'
<1>1. PICK b, h, s, v : b = NewBlock /\ h = latest[n] + 1 /\ s = AfterPool(n) /\ v = Valid(app[n], pool[n])
  OBVIOUS
<1>2. MayProduce(n) /\ pending[n] = NoBlock /\ app' = [app EXCEPT ![n] = s]
  BY <1>1 DEF Produce, AtProduce, AtTimer, OneChainInv
<1>3. \/ v = <<>> /\ UNCHANGED <<chain, latest, pending, headers>>
      \/ Propose(n) /\ PutBlock(n, h, b) /\ UNCHANGED pending
      \/ Propose(n) /\ pending' = [pending EXCEPT ![n] = b] /\ UNCHANGED <<chain, latest>>
  BY <1>1 DEF Produce
<1>4. app'[n] = s /\ \A m \in Node : m # n => app'[m] = app[m]
  BY <1>2 DEF ValInv, LedgerInv
<1>5. /\ app[n] \in Ledger /\ pool[n] \in Seq(Txs) /\ s = Final(app[n], pool[n]) /\ v \in Seq(Txs)
      /\ latest[n] \in 0 .. MaxHeight /\ Filled(n, latest[n])
      /\ chain[n][latest[n]] \in Blocks
  BY <1>1, PoolLedger, ValidType, TipFilled, StoredThere DEF AfterPool, Final, Ledger
\* Its latest block is its top: it has no block at its next height.
<1>6. latest[n] < MaxHeight /\ h \in 0 .. MaxHeight /\ ~Filled(n, h)
  <2>1. latest[n] < MaxHeight /\ h \in 0 .. MaxHeight
    BY <1>1, <1>2, <1>5, ValidatorAssumption DEF MayProduce
  <2>2. \A c \in Blocks : Height(c) # h
    BY <1>1, <1>2, NextIsFree DEF Undisturbed
  <2> QED
    BY <2>1, <2>2, StoredThere
<1>7. Top(n, latest[n]) /\ StateRoot(app[n]) = headers[chain[n][latest[n]]].root
  <2>1. PICK g \in 0 .. MaxHeight : Top(n, g) /\ StateOfTop(n, g)
    BY DEF StatesInv, AtTop
  <2>2. latest[n] <= g /\ ~(h <= g)
    BY <1>5, <1>6, <2>1, OneTop
  <2>3. g = latest[n]
    BY <1>1, <1>5, <2>2
  <2> QED
    BY <1>2, <2>1, <2>3 DEF StateOfTop
\* The block leads from the same root as what is in the pool.
<1>8. \A t \in Ledger : StateRoot(t) = StateRoot(app[n]) => StateRoot(Final(t, v)) = StateRoot(s)
  BY <1>1, <1>5, KeptSameRoot DEF Undisturbed
<1>9. \A t \in Ledger : StateRoot(t) = StateRoot(s) => StateRoot(Final(t, v)) = StateRoot(s)
  <2>1. StateRoot(Final(app[n], v)) = StateRoot(s)
    BY <1>5, <1>8
  <2> QED
    BY <1>5, <2>1, AgainNothing
<1>10. CASE v = <<>> /\ UNCHANGED <<chain, latest, pending, headers>>
  <2>1. StateRoot(s) = StateRoot(app[n])
    BY <1>5, <1>8, <1>10, FinalEmpty
  <2>2. StateOfTop(n, latest[n])' /\ Top(n, latest[n])'
    BY <1>2, <1>4, <1>7, <1>10, <2>1 DEF StateOfTop, Top, Filled, NoBlock
  <2>3. AtTop(n)' /\ Elsewhere(n) /\ Blocks' = Blocks
    BY <1>4, <1>5, <1>10, <2>2 DEF AtTop, Elsewhere, Blocks
  <2>4. n \notin Echo => /\ \A k \in 0 .. MaxHeight : Filled(n, k)' => k <= latest'[n]
                         /\ pending'[n] = NoBlock
    BY <1>2, <1>10 DEF StatesInv, UpToTip, Filled
  <2> QED
    BY <1>10, <2>3, <2>4, RestSettles, OldBlocksLead DEF StatesInv
<1>11. ASSUME Propose(n) PROVE /\ b \in Blocks' /\ headers'[b] = HeaderOf(n) /\ headers'[b].height = h /\ h \in 1 .. MaxHeight
                               /\ headers'[b].root = StateRoot(s) /\ \A c \in Blocks' : Leads(c)'
  <2>1. /\ b \in Blocks' /\ headers'[b] = HeaderOf(n) /\ headers'[b].height = h /\ h \in 1 .. MaxHeight
    BY <1>1, <1>2, <1>11, ProposeKeepsWorld
  <2>2. headers'[b].root = StateRoot(s) /\ headers'[b].txs = v /\ headers'[b].prev = chain[n][latest[n]]
    BY <1>1, <2>1 DEF HeaderOf
  <2>3. headers'[chain[n][latest[n]]].root = StateRoot(app[n])
    BY <1>5, <1>7 DEF Grows
  <2>4. Leads(b)'
    BY <1>8, <1>9, <2>2, <2>3 DEF Leads, LeadsFrom
  <2>5. \A c \in Blocks' : c = b \/ c \in Blocks
    <3>1. headers' = Append(headers, HeaderOf(n)) /\ headers \in Seq(Header) /\ b = Len(headers) + 1
      BY <1>1, <1>11 DEF Propose, ValInv, WorldInv, NewBlock
    <3>2. Len(headers') = Len(headers) + 1 /\ Len(headers) \in Nat
      BY <3>1, LenProperties, AppendProperties
    <3> QED
      BY <3>1, <3>2 DEF Blocks
  <2> QED
    BY <2>1, <2>2, <2>4, <2>5, OldBlocksLead DEF StatesInv
<1>12. CASE Propose(n) /\ PutBlock(n, h, b) /\ UNCHANGED pending
  <2>1. h - 1 = latest[n]
    BY <1>1, <1>5
  <2>2. Stores(n, h, b)
    BY <1>5, <1>11, <1>12, <2>1 DEF Stores, HeaderOf
  <2>3. Elsewhere(n) /\ pending'[n] = NoBlock /\ StateRoot(app'[n]) = headers'[b].root
    BY <1>2, <1>4, <1>11, <1>12 DEF Elsewhere
  <2> QED
    BY <1>1, <1>6, <1>11, <1>12, <2>2, <2>3, StoreSettles DEF StatesInv
<1>13. CASE Propose(n) /\ pending' = [pending EXCEPT ![n] = b] /\ UNCHANGED <<chain, latest>>
  <2>1. pending'[n] = b /\ b # NoBlock /\ Elsewhere(n)
    BY <1>4, <1>11, <1>13 DEF ValInv, PendingInv, Elsewhere, Blocks, NoBlock
  <2>2. StateOfTop(n, latest[n])' /\ Top(n, latest[n])'
    BY <1>1, <1>4, <1>7, <1>11, <1>13, <2>1 DEF StateOfTop, Top, Height, Filled, NoBlock
  <2>3. AtTop(n)'
    BY <1>5, <1>13, <2>2 DEF AtTop
  <2>4. n \notin Echo => /\ \A k \in 0 .. MaxHeight : Filled(n, k)' => k <= latest'[n]
                         /\ headers'[pending'[n]].height = latest'[n] + 1
    BY <1>1, <1>11, <1>13, <2>1 DEF StatesInv, UpToTip, Filled
  <2> QED
    BY <1>11, <1>13, <2>1, <2>3, <2>4, RestSettles DEF StatesInv
<1> QED
  BY <1>3, <1>10, <1>12, <1>13

LEMMA StatesKept ==
  ASSUME Undisturbed, ValInv, VC!TypeOK, OneChainInv, StatesInv, Next
  PROVE  StatesInv'
<1> USE DEF storeVars, viewVars, boundVars
<1>1. WorldInv' /\ Grows /\ OneChainInv'
  <2>1. PICK m \in Node : NodeStep(m)
    BY NextIsNodeStep
  <2> QED
    BY <2>1, WorldKept, OneChainKept DEF NodeStep, Undisturbed
<1>2. PICK n \in Node :
        \/ \E tx \in Txs : Submit(n, tx)
        \/ RecvPropose(n) \/ RecvSign(n) \/ RecvViewChange(n)
        \/ FinalizePending(n) \/ RejectProposal(n) \/ AcceptProposal(n)
        \/ Produce(n) \/ EndTick(n)
  BY NoFault DEF Undisturbed
<1>3. CASE \/ \E tx \in Txs : Submit(n, tx)
           \/ RecvPropose(n) \/ RecvSign(n) \/ RecvViewChange(n) \/ RejectProposal(n) \/ EndTick(n)
  <2>1. UNCHANGED <<chain, latest, headers, pending, app>>
    BY <1>3 DEF Submit, RecvPropose, RecvSign, RecvViewChange, RejectProposal, EndTick
  <2>2. Blocks' = Blocks /\ \A b \in Blocks : Leads(b)'
    BY <1>1, <2>1, OldBlocksLead DEF Blocks, StatesInv
  <2>3. UpToTip' /\ \A m \in Node : AtTop(m)'
    BY <2>1 DEF StatesInv, UpToTip, AtTop, Top, StateOfTop, Filled, Height
  <2> QED
    BY <2>2, <2>3 DEF StatesInv
<1> QED
  BY <1>1, <1>2, <1>3, FinalizeSettles, AcceptSettles, ProduceSettles

LEMMA StatesInvariance == Undisturbed => (Spec => []StatesInv)
<1> SUFFICES ASSUME Undisturbed PROVE Spec => []StatesInv
  OBVIOUS
<1> Faultless
  BY DEF Undisturbed
<1>1. Init => StatesInv
  <2> SUFFICES ASSUME Init PROVE StatesInv
    OBVIOUS
  <2>1. /\ \A n \in Node : pending[n] = NoBlock /\ latest[n] = 0 /\ chain[n][0] = 1 /\ app[n] = EmptyState
        /\ \A n \in Node, h \in 0 .. MaxHeight : chain[n][h] = IF h = 0 THEN 1 ELSE NoBlock
    BY ValidatorAssumption DEF Init, Faultless, GenesisOf
  <2>2. Blocks = {1} /\ headers[1].height = 0 /\ headers[1].root = StateRoot(EmptyState)
    BY InitHeaders
  <2>3. MaxHeight \in Nat /\ 0 \in 0 .. MaxHeight /\ 0 + 1 # 0 /\ (0 < MaxHeight => 0 + 1 \in 0 .. MaxHeight)
    BY ValidatorAssumption
  <2>4. \A n \in Node : Top(n, 0) /\ StateOfTop(n, 0)
    BY <2>1, <2>2, <2>3 DEF Top, StateOfTop, Filled, NoBlock
  <2>5. UpToTip
    BY <2>1 DEF UpToTip, Filled
  <2> QED
    BY <2>2, <2>3, <2>4, <2>5 DEF StatesInv, AtTop, Leads, Height
<1>2. ValInv /\ VC!TypeOK /\ OneChainInv /\ StatesInv /\ [Next]_vars => StatesInv'
  <2> SUFFICES ASSUME ValInv, VC!TypeOK, OneChainInv, StatesInv, [Next]_vars PROVE StatesInv'
    OBVIOUS
  <2>1. CASE Next
    BY <2>1, StatesKept
  <2>2. CASE UNCHANGED vars
    BY <2>2 DEF vars, StatesInv, UpToTip, AtTop, Top, StateOfTop, Leads, LeadsFrom, Filled, Height, Blocks
  <2> QED
    BY <2>1, <2>2
<1> QED
  BY <1>1, <1>2, ValInvariance, ViewsTyped, OneChainInvariance, PTL DEF Spec

\* Without faults, and where every payload in a block succeeds, the state of a
\* node that does not reach itself is, between blocks, the one its latest block
\* commits to, also where other nodes reach themselves.
THEOREM StateStaysOfTip == Undisturbed => (Spec => []StateIsOfTip)
<1> SUFFICES ASSUME Undisturbed PROVE Spec => []StateIsOfTip
  OBVIOUS
<1> Faultless
  BY DEF Undisturbed
<1>1. ValInv /\ OneChainInv /\ StatesInv => StateIsOfTip
  <2> SUFFICES ASSUME ValInv, OneChainInv, StatesInv, NEW n \in Node \ Echo, pending[n] = NoBlock
               PROVE  StateRoot(app[n]) = headers[chain[n][latest[n]]].root
    BY DEF StateIsOfTip
  <2>1. PICK g \in 0 .. MaxHeight : Top(n, g) /\ StateOfTop(n, g)
    BY DEF StatesInv, AtTop
  <2>2. latest[n] <= g /\ g <= latest[n] /\ latest[n] \in 0 .. MaxHeight
    BY <2>1, OneTop, TipFilled DEF StatesInv, UpToTip, Top
  <2>3. g = latest[n]
    BY <2>2
  <2> QED
    BY <2>1, <2>3 DEF StateOfTop
<1> QED
  BY <1>1, ValInvariance, OneChainInvariance, StatesInvariance, PTL

\* And a node that is where a block starts gets to where the block says it ends.
THEOREM RootsAreAfterBlocks == Undisturbed => (Spec => []RootIsAfterBlock)
<1> SUFFICES ASSUME Undisturbed PROVE Spec => []RootIsAfterBlock
  OBVIOUS
<1> Faultless
  BY DEF Undisturbed
<1>1. ValInv /\ OneChainInv /\ StatesInv => RootIsAfterBlock
  <2> SUFFICES ASSUME ValInv, OneChainInv, StatesInv, NEW n \in Node, NEW b \in Blocks, headers[b].prev # NoBlock,
                      StateRoot(app[n]) = headers[headers[b].prev].root
               PROVE  StateRoot(AfterBlock(n, b)) = headers[b].root
    BY DEF RootIsAfterBlock
  <2>1. Height(b) > 0
    <3>1. 1 \in Blocks /\ Height(b) \in 0 .. MaxHeight
      BY HeaderType DEF ValInv, Header, Height, OneChainInv, OneBlockInv
    <3>2. Height(b) = 0 => b = 1
      BY DEF OneChainInv, OneBlockInv
    <3> QED
      BY <3>1, <3>2 DEF OneChainInv, OneBlockInv
  <2>2. app[n] \in Ledger /\ AfterBlock(n, b) = Final(app[n], headers[b].txs)
    BY DEF ValInv, LedgerInv, AfterBlock, Final
  <2> QED
    BY <2>1, <2>2 DEF StatesInv, Leads, LeadsFrom
<1> QED
  BY <1>1, ValInvariance, OneChainInvariance, StatesInvariance, PTL
=============================================================================
