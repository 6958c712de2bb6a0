--------------------------- MODULE ValidatorProofs ---------------------------
(***************************************************************************)
(* Theorems about Validator, for any number of nodes, any number of        *)
(* signatures, any transactions and any number of timeouts and kills.      *)
(*                                                                         *)
(* The inductive invariant has a part for the world between the nodes and  *)
(* one for each part of a node. A step of node n does to each of them one  *)
(* of a few things, named below (WorldStep, StoreStep, ...). Blocks and    *)
(* signatures are only ever added (Grows), so that what is known of a      *)
(* block stays true.                                                       *)
(***************************************************************************)
EXTENDS Validator, LedgerProofs, FiniteSetTheorems

Header == [height : 0 .. MaxHeight, prev : Nat, txs : Seq(Txs),
           root : {StateRoot(s) : s \in AppState}, proposer : Node]

\* A block above the genesis names a parent and has its proposer's signature.
HeaderOK(b) ==
  /\ headers[b].prev \in Blocks \union {NoBlock}
  /\ headers[b].height > 0 => headers[b].prev # NoBlock /\ <<headers[b].proposer, b>> \in signed

\* What arrives at node n as a proposal.
ProposalOK(n, b) ==
  /\ b \in Blocks /\ Height(b) > 0
  /\ n \notin Echo => headers[b].proposer # n

Messages ==
  [type : {"Propose"}, block : Blocks, to : Node]
    \union [type : {"Sign"}, block : Blocks, from : Node, to : Node]

MessageOK(m) ==
  /\ m.type = "Propose" => ProposalOK(m.to, m.block)
  /\ m.type = "Sign" => <<m.from, m.block>> \in signed

WorldInv ==
  /\ headers \in Seq(Header) /\ signed \subseteq Node \X Blocks /\ net \subseteq Messages
  /\ \A b \in Blocks : HeaderOK(b)
  /\ \A m \in net : MessageOK(m)

\* Block b may be what node n has at height h.
StoredOK(n, h, b) ==
  /\ b \in Blocks /\ Height(b) = h
  /\ {n, headers[b].proposer} \subseteq SignersOf(b)
  /\ headers[b].proposer = n /\ n \notin Echo => Cardinality(SignersOf(b)) >= Quorum

StoreInv ==
  /\ chain \in [Node -> [0 .. MaxHeight -> Nat]] /\ latest \in [Node -> 0 .. MaxHeight]
  /\ \A n \in Node, h \in 0 .. MaxHeight : chain[n][h] \in Blocks \union {NoBlock}
  /\ \A n \in Node, h \in 1 .. MaxHeight : chain[n][h] # NoBlock => StoredOK(n, h, chain[n][h])
  /\ TipStored

\* Block b may be the pending block of node n, with the signatures of S.
PendingOK(n, b, S) ==
  /\ b \in Blocks /\ Height(b) > 0 /\ headers[b].proposer = n
  /\ n \in S /\ S \subseteq SignersOf(b)

PendingInv ==
  /\ pending \in [Node -> Nat] /\ sigs \in [Node -> SUBSET Node]
  /\ \A n \in Node : pending[n] # NoBlock => PendingOK(n, pending[n], sigs[n])

ProposalsInv ==
  /\ proposals \in [Node -> Seq(Nat)]
  /\ \A n \in Node : \A i \in DOMAIN proposals[n] : ProposalOK(n, proposals[n][i])

LedgerInv == app \in [Node -> Ledger] /\ pool \in [Node -> Seq(Txs)]

CountersInv ==
  /\ pc \in [Node -> {"drain", "proposals", "produce"}] /\ todo \subseteq Submissions
  /\ discards \in 0 .. MaxDiscards /\ crashes \in 0 .. MaxCrashes

\* The inductive invariant.
ValInv == WorldInv /\ StoreInv /\ PendingInv /\ ProposalsInv /\ LedgerInv /\ CountersInv

-----------------------------------------------------------------------------
\* Blocks and signatures are only added.
Grows ==
  /\ Blocks \subseteq Blocks' /\ signed \subseteq signed'
  /\ \A b \in Blocks : headers'[b] = headers[b]

LEMMA NodeFinite == IsFiniteSet(Node) /\ Quorum \in Nat
<1>1. N \in Nat /\ MinSignatures \in Nat
  BY ValidatorAssumption
<1> QED
  BY <1>1, FS_Interval DEF Node, Quorum

LEMMA SignersGrow ==
  ASSUME Grows, NEW b
  PROVE  /\ SignersOf(b) \subseteq SignersOf(b)'
         /\ Cardinality(SignersOf(b)) \in Nat /\ Cardinality(SignersOf(b)') \in Nat
         /\ Cardinality(SignersOf(b)) <= Cardinality(SignersOf(b)')
<1>1. SignersOf(b) \subseteq SignersOf(b)' /\ SignersOf(b)' \subseteq Node
  BY DEF SignersOf, Grows
<1>2. IsFiniteSet(SignersOf(b)')
  BY <1>1, NodeFinite, FS_Subset
<1>3. IsFiniteSet(SignersOf(b)) /\ Cardinality(SignersOf(b)) <= Cardinality(SignersOf(b)')
  BY <1>1, <1>2, FS_Subset
<1> QED
  BY <1>1, <1>2, <1>3, FS_CardinalityType

LEMMA HeaderType ==
  ASSUME WorldInv, NEW b \in Blocks
  PROVE  headers[b] \in Header
<1>1. headers \in Seq(Header)
  BY DEF WorldInv
<1> QED
  BY <1>1, ElementOfSeq DEF Blocks

\* What is known of a block stays true.
LEMMA KnownStays ==
  ASSUME Grows
  PROVE  /\ \A n \in Node, b \in Blocks : ProposalOK(n, b) => ProposalOK(n, b)'
         /\ \A n \in Node, h \in 0 .. MaxHeight, b \in Blocks : StoredOK(n, h, b) => StoredOK(n, h, b)'
         /\ \A n \in Node, b \in Blocks, S \in SUBSET Node : PendingOK(n, b, S) => PendingOK(n, b, S)'
<1>1. \A n \in Node, b \in Blocks : ProposalOK(n, b) => ProposalOK(n, b)'
  BY DEF Grows, ProposalOK, Height
<1>2. ASSUME NEW n \in Node, NEW h \in 0 .. MaxHeight, NEW b \in Blocks, StoredOK(n, h, b) PROVE StoredOK(n, h, b)'
  <2>1. b \in Blocks /\ b \in Blocks' /\ headers'[b] = headers[b]
    BY <1>2 DEF StoredOK, Grows
  <2>2. {n, headers[b].proposer} \subseteq SignersOf(b)'
    BY <1>2, SignersGrow DEF StoredOK
  <2>3. headers[b].proposer = n /\ n \notin Echo => Cardinality(SignersOf(b)') >= Quorum
    <3>1. ASSUME headers[b].proposer = n /\ n \notin Echo PROVE Cardinality(SignersOf(b)') >= Quorum
      <4>1. Cardinality(SignersOf(b)) >= Quorum
        BY <1>2, <3>1 DEF StoredOK
      <4> QED
        BY <4>1, SignersGrow, NodeFinite
    <3> QED
      BY <3>1
  <2> QED
    BY <1>2, <2>1, <2>2, <2>3 DEF StoredOK, Height, Quorum
<1>3. ASSUME NEW n \in Node, NEW b \in Blocks, NEW S \in SUBSET Node, PendingOK(n, b, S) PROVE PendingOK(n, b, S)'
  <2>1. b \in Blocks' /\ headers'[b] = headers[b] /\ SignersOf(b) \subseteq SignersOf(b)'
    BY <1>3, SignersGrow DEF PendingOK, Grows
  <2> QED
    BY <1>3, <2>1 DEF PendingOK, Height
<1> QED
  BY <1>1, <1>2, <1>3
-----------------------------------------------------------------------------
\* The world between the nodes: nothing new, a signature, or a block.
WorldStep(n) ==
  \/ UNCHANGED <<headers, signed>> /\ net' \subseteq net
  \/ SignHead(n)
  \/ MayProduce(n) /\ Propose(n)

LEMMA HeadOfProposals ==
  ASSUME ProposalsInv, NEW n \in Node, proposals[n] # <<>>
  PROVE  ProposalOK(n, Head(proposals[n])) /\ Tail(proposals[n]) \in Seq(Nat)
         /\ \A i \in DOMAIN Tail(proposals[n]) : ProposalOK(n, Tail(proposals[n])[i])
<1> DEFINE s == proposals[n]
<1>1. s \in Seq(Nat) /\ \A i \in DOMAIN s : ProposalOK(n, s[i])
  BY DEF ProposalsInv
<1>2. Len(s) \in Nat \ {0} /\ DOMAIN s = 1 .. Len(s) /\ Head(s) = s[1]
  BY <1>1, EmptySeq, LenProperties
<1>3. Tail(s) \in Seq(Nat) /\ Len(Tail(s)) = Len(s) - 1 /\ \A i \in 1 .. Len(Tail(s)) : Tail(s)[i] = s[i + 1]
  BY <1>1, HeadTailProperties
<1>4. DOMAIN Tail(s) = 1 .. Len(s) - 1
  BY <1>3, LenProperties
<1>5. \A i \in 1 .. Len(s) - 1 : i + 1 \in 1 .. Len(s)
  BY <1>2
<1> QED
  BY SMTT(30), <1>1, <1>2, <1>3, <1>4, <1>5

LEMMA SignKeepsWorld ==
  ASSUME ValInv, NEW n \in Node, SignHead(n)
  PROVE  WorldInv' /\ Grows /\ <<n, Head(proposals[n])>> \in signed'
<1> DEFINE b == Head(proposals[n])
<1>1. ProposalOK(n, b)
  BY HeadOfProposals DEF ValInv, SignHead
<1>2. WorldInv /\ headers' = headers /\ signed' = signed \union {<<n, b>>} /\ net' = net \union {SignMsg(b, n)}
  BY DEF SignHead, ValInv
<1> HIDE DEF b
<1>3. b \in Blocks /\ headers[b].proposer \in Node
  BY <1>1, <1>2, HeaderType DEF ProposalOK, Header
<1>4. Blocks' = Blocks /\ Grows
  BY <1>2 DEF Grows, Blocks
<1>5. SignMsg(b, n) \in Messages /\ \A m \in net' : m = SignMsg(b, n) => MessageOK(m)'
  BY <1>2, <1>3 DEF SignMsg, Messages, MessageOK
<1>6. \A m \in net : MessageOK(m)'
  BY <1>2, <1>4 DEF WorldInv, MessageOK, ProposalOK, Height
<1>7. \A c \in Blocks : HeaderOK(c)'
  BY <1>2, <1>4 DEF WorldInv, HeaderOK
<1>8. Messages' = Messages
  BY <1>4 DEF Messages
<1>9. net' \subseteq Messages /\ \A m \in net' : MessageOK(m)'
  BY <1>2, <1>5, <1>6 DEF WorldInv
<1>10. signed' \subseteq Node \X Blocks
  BY <1>2, <1>3 DEF WorldInv
<1>11. WorldInv'
  BY <1>2, <1>4, <1>7, <1>8, <1>9, <1>10 DEF WorldInv
<1> QED
  BY <1>2, <1>4, <1>11 DEF b

\* A block that is proposed extends the latest block of its proposer.
LEMMA ProposeKeepsWorld ==
  ASSUME ValInv, NEW n \in Node, MayProduce(n), Propose(n), NEW b, b = NewBlock
  PROVE  /\ WorldInv' /\ Grows
         /\ b \in Blocks' /\ headers'[b] = HeaderOf(n) /\ headers'[b].proposer = n
         /\ headers'[b].height = latest[n] + 1 /\ latest[n] + 1 \in 1 .. MaxHeight
         /\ <<n, b>> \in signed'
<1> DEFINE h == HeaderOf(n)
<1>1. WorldInv /\ headers \in Seq(Header)
  BY DEF ValInv, WorldInv
<1>2. headers' = Append(headers, h) /\ net' = net \union ProposeMsgs(b, n) /\ signed' = signed \union {<<n, b>>}
  BY DEF Propose
<1>3. Len(headers) \in Nat /\ b = Len(headers) + 1 /\ Blocks = 1 .. Len(headers) /\ b \notin Blocks
  BY <1>1, LenProperties DEF NewBlock, Blocks
<1>4. /\ latest[n] \in 0 .. MaxHeight /\ latest[n] < MaxHeight /\ chain[n][latest[n]] \in Blocks
      /\ app[n] \in Ledger /\ pool[n] \in Seq(Txs) /\ MaxHeight \in Nat
  BY ValidatorAssumption DEF ValInv, StoreInv, TipStored, LedgerInv, MayProduce
<1>5. h \in Header /\ h.prev \in Blocks /\ h.height = latest[n] + 1 /\ h.height \in 1 .. MaxHeight /\ h.proposer = n
  <2>1. latest[n] + 1 \in 1 .. MaxHeight
    BY <1>4
  <2>2. Valid(app[n], pool[n]) \in Seq(Txs)
    BY <1>4, ValidType DEF Ledger
  <2>3. StateRoot(AfterPool(n)) \in {StateRoot(s) : s \in AppState}
    <3>1. Len(pool[n]) \in 0 .. Len(pool[n])
      BY <1>4, LenProperties
    <3>2. AfterPool(n) \in AppState
      BY <1>4, <3>1, ExecuteAllLedger DEF AfterPool, Ledger
    <3> QED
      BY <3>2
  <2>4. chain[n][latest[n]] \in Nat /\ latest[n] + 1 \in 0 .. MaxHeight
    BY <1>3, <1>4, <2>1
  <2> QED
    BY <1>4, <2>1, <2>2, <2>3, <2>4 DEF HeaderOf, Header
<1> HIDE DEF h
<1>6. /\ headers' \in Seq(Header) /\ Len(headers') = b
      /\ \A c \in Blocks : headers'[c] = headers[c]
      /\ headers'[b] = h
  BY <1>1, <1>2, <1>3, <1>5, AppendProperties
<1>7. Blocks' = Blocks \union {b}
  <2>1. Blocks' = 1 .. b
    BY <1>6 DEF Blocks
  <2> QED
    BY <1>3, <2>1
<1>8. Grows
  BY <1>2, <1>6, <1>7 DEF Grows
<1>9. ProposeMsgs(b, n) \subseteq Messages' /\ \A m \in ProposeMsgs(b, n) : MessageOK(m)'
  <2>1. ASSUME NEW m \in ProposeMsgs(b, n) PROVE m \in Messages' /\ MessageOK(m)'
    <3>1. PICK k \in Reached(n) : m = [type |-> "Propose", block |-> b, to |-> k]
      BY DEF ProposeMsgs
    <3>2. k \in Node /\ (k \notin Echo => k # n)
      BY <3>1 DEF Reached
    <3>3. ProposalOK(k, b)'
      BY <1>5, <1>6, <1>7, <3>2 DEF ProposalOK, Height
    <3> QED
      BY <1>7, <3>1, <3>2, <3>3 DEF Messages, MessageOK
  <2> QED
    BY <2>1
<1>10. \A m \in net : m \in Messages' /\ MessageOK(m)'
  <2>1. ASSUME NEW m \in net PROVE m \in Messages' /\ MessageOK(m)'
    <3>1. m \in Messages /\ MessageOK(m)
      BY <1>1 DEF WorldInv
    <3>2. m \in Messages'
      BY <1>7, <3>1 DEF Messages
    <3>3. m.type = "Propose" => m.to \in Node /\ m.block \in Blocks /\ ProposalOK(m.to, m.block)
      BY <3>1 DEF Messages, MessageOK, ProposalOK
    <3>4. m.type = "Propose" => ProposalOK(m.to, m.block)'
      BY <1>8, <3>3, KnownStays
    <3> QED
      BY <1>2, <3>1, <3>2, <3>4 DEF MessageOK
  <2> QED
    BY <2>1
<1>11. \A c \in Blocks' : HeaderOK(c)'
  <2>1. \A c \in Blocks : HeaderOK(c)'
    BY <1>1, <1>2, <1>6, <1>7 DEF WorldInv, HeaderOK
  <2>2. HeaderOK(b)'
    <3>1. headers'[b].prev \in Blocks /\ headers'[b].proposer = n /\ <<n, b>> \in signed'
      BY <1>2, <1>5, <1>6
    <3>2. NoBlock \notin Blocks
      BY <1>3 DEF NoBlock
    <3> QED
      BY <1>7, <3>1, <3>2 DEF HeaderOK
  <2> QED
    BY <1>7, <2>1, <2>2
<1>12. signed' \subseteq Node \X Blocks'
  BY <1>1, <1>2, <1>7 DEF WorldInv
<1>13. WorldInv'
  BY <1>2, <1>6, <1>9, <1>10, <1>11, <1>12 DEF WorldInv
<1> QED
  BY <1>2, <1>5, <1>6, <1>7, <1>8, <1>13 DEF h

LEMMA WorldKept ==
  ASSUME ValInv, NEW n \in Node, WorldStep(n)
  PROVE  WorldInv' /\ Grows
<1>1. CASE UNCHANGED <<headers, signed>> /\ net' \subseteq net
  BY <1>1 DEF ValInv, WorldInv, Grows, Blocks, HeaderOK, Messages, MessageOK, ProposalOK, Height
<1>2. CASE SignHead(n)
  BY <1>2, SignKeepsWorld
<1>3. CASE MayProduce(n) /\ Propose(n)
  <2>1. ASSUME NEW b, b = NewBlock PROVE WorldInv' /\ Grows
    BY <1>3, <2>1, ProposeKeepsWorld
  <2> QED
    BY <2>1
<1> QED
  BY <1>1, <1>2, <1>3 DEF WorldStep
-----------------------------------------------------------------------------
\* The store of node n: nothing new, or a block at the height it has, on top of
\* one that was stored there only if it is a block of n.
StoreStep(n) ==
  \/ UNCHANGED <<chain, latest>>
  \/ \E h \in 1 .. MaxHeight, b \in Blocks' :
       /\ StoredOK(n, h, b)'
       /\ chain[n][h] = NoBlock \/ headers'[b].proposer = n
       /\ PutBlock(n, h, b) \/ TornPut(n, h, b)

\* Node m has block c at height h after the step.
StoreAfter(m, h, c) ==
  /\ c \in Blocks' \union {NoBlock}
  /\ h > 0 /\ c # NoBlock => StoredOK(m, h, c)'
  /\ c = NoBlock => chain[m][h] = NoBlock
  /\ h > 0 /\ chain[m][h] # NoBlock /\ c # chain[m][h] => headers'[c].proposer = m

LEMMA StoreKept ==
  ASSUME ValInv, Grows, WorldInv', NEW n \in Node, StoreStep(n)
  PROVE  /\ StoreInv'
         /\ \A m \in Node, h \in 1 .. MaxHeight :
              chain[m][h] # NoBlock /\ chain'[m][h] # chain[m][h] => headers'[chain'[m][h]].proposer = m
<1>1. /\ chain \in [Node -> [0 .. MaxHeight -> Nat]] /\ latest \in [Node -> 0 .. MaxHeight]
      /\ MaxHeight \in Nat /\ NoBlock = 0 /\ NoBlock \notin Blocks
      /\ \A m \in Node, h \in 0 .. MaxHeight : chain[m][h] \in Blocks \union {NoBlock}
      /\ \A m \in Node, h \in 1 .. MaxHeight : chain[m][h] # NoBlock => StoredOK(m, h, chain[m][h])
      /\ \A m \in Node : chain[m][latest[m]] # NoBlock
  <2>1. /\ chain \in [Node -> [0 .. MaxHeight -> Nat]] /\ latest \in [Node -> 0 .. MaxHeight]
        /\ \A m \in Node, h \in 0 .. MaxHeight : chain[m][h] \in Blocks \union {NoBlock}
    BY DEF ValInv, StoreInv
  <2>2. \A m \in Node, h \in 1 .. MaxHeight : chain[m][h] # NoBlock => StoredOK(m, h, chain[m][h])
    BY DEF ValInv, StoreInv
  <2>3. \A m \in Node : chain[m][latest[m]] # NoBlock
    BY DEF ValInv, StoreInv, TipStored
  <2>4. MaxHeight \in Nat /\ NoBlock = 0 /\ NoBlock \notin Blocks
    BY ValidatorAssumption DEF NoBlock, Blocks
  <2> QED
    BY <2>1, <2>2, <2>3, <2>4
<1>2. Blocks' \subseteq Nat /\ Blocks \subseteq Blocks' /\ NoBlock \notin Blocks'
  BY DEF Grows, Blocks, NoBlock
\* What was stored may stay.
<1>3. ASSUME NEW m \in Node, NEW h \in 0 .. MaxHeight, NEW c, c = chain[m][h] PROVE StoreAfter(m, h, c)
  <2>1. c \in Blocks \union {NoBlock}
    BY <1>1, <1>3
  <2>2. h > 0 /\ c # NoBlock => StoredOK(m, h, c) /\ c \in Blocks
    BY <1>1, <1>3, <2>1
  <2>3. h > 0 /\ c # NoBlock => StoredOK(m, h, c)'
    BY <2>2, KnownStays
  <2> QED
    BY <1>2, <1>3, <2>1, <2>3 DEF StoreAfter
<1>4. /\ chain' \in [Node -> [0 .. MaxHeight -> Nat]] /\ latest' \in [Node -> 0 .. MaxHeight]
      /\ \A m \in Node, h \in 0 .. MaxHeight, c \in Nat : c = chain'[m][h] => StoreAfter(m, h, c)
      /\ \A m \in Node : chain'[m][latest'[m]] # NoBlock
  <2>1. CASE UNCHANGED <<chain, latest>>
    BY <1>1, <1>3, <2>1
  <2>2. ASSUME NEW h \in 1 .. MaxHeight, NEW b \in Blocks', StoredOK(n, h, b)',
               chain[n][h] = NoBlock \/ headers'[b].proposer = n,
               PutBlock(n, h, b) \/ TornPut(n, h, b)
        PROVE  /\ chain' \in [Node -> [0 .. MaxHeight -> Nat]] /\ latest' \in [Node -> 0 .. MaxHeight]
               /\ \A m \in Node, k \in 0 .. MaxHeight, c \in Nat : c = chain'[m][k] => StoreAfter(m, k, c)
               /\ \A m \in Node : chain'[m][latest'[m]] # NoBlock
    <3> DEFINE row == [chain[n] EXCEPT ![h] = b]
    <3>1. chain[n] \in [0 .. MaxHeight -> Nat] /\ h \in 0 .. MaxHeight /\ b \in Nat /\ b # NoBlock
      BY <1>1, <1>2, <2>2
    <3>2. row \in [0 .. MaxHeight -> Nat] /\ row[h] = b /\ \A k \in 0 .. MaxHeight : k # h => row[k] = chain[n][k]
      BY <3>1
    <3>3. chain' = [chain EXCEPT ![n] = row] /\ (latest' = latest \/ latest' = [latest EXCEPT ![n] = h])
      BY <2>2 DEF PutBlock, TornPut
    <3> HIDE DEF row
    <3>4. chain' \in [Node -> [0 .. MaxHeight -> Nat]] /\ chain'[n] = row /\ \A m \in Node : m # n => chain'[m] = chain[m]
      BY <1>1, <3>2, <3>3
    <3>5. latest' \in [Node -> 0 .. MaxHeight]
      BY <1>1, <3>1, <3>3
    <3>6. StoreAfter(n, h, b)
      BY <2>2, <3>1 DEF StoreAfter
    <3>7. ASSUME NEW m \in Node, NEW k \in 0 .. MaxHeight, NEW c \in Nat, c = chain'[m][k]
          PROVE  StoreAfter(m, k, c)
      <4>1. CASE m # n
        BY <1>3, <3>4, <3>7, <4>1
      <4>2. CASE m = n /\ k # h
        BY <1>3, <3>2, <3>4, <3>7, <4>2
      <4>3. CASE m = n /\ k = h
        <5>1. c = b
          BY <3>2, <3>4, <3>7, <4>3
        <5> QED
          BY <3>6, <4>3, <5>1
      <4> QED
        BY <4>1, <4>2, <4>3
    <3>8. ASSUME NEW m \in Node PROVE chain'[m][latest'[m]] # NoBlock
      <4>1. CASE m # n
        BY <1>1, <3>3, <3>4, <4>1
      <4>2. CASE m = n /\ latest'[n] = h
        BY <3>1, <3>2, <3>4, <4>2
      <4>3. CASE m = n /\ latest'[n] # h
        <5>1. latest'[n] = latest[n] /\ latest[n] \in 0 .. MaxHeight
          BY <1>1, <3>3, <4>3
        <5> QED
          BY <1>1, <3>2, <3>4, <4>3, <5>1
      <4> QED
        BY <4>1, <4>2, <4>3
    <3> QED
      BY <3>4, <3>5, <3>7, <3>8
  <2> QED
    BY <2>1, <2>2 DEF StoreStep
<1>5. TipStored'
  BY <1>4 DEF TipStored, NoBlock
<1>6. ASSUME NEW m \in Node, NEW h \in 0 .. MaxHeight
      PROVE  /\ chain'[m][h] \in Blocks' \union {NoBlock}
             /\ h > 0 /\ chain'[m][h] # NoBlock => StoredOK(m, h, chain[m][h])'
             /\ h > 0 /\ chain[m][h] # NoBlock /\ chain'[m][h] # chain[m][h] => headers'[chain'[m][h]].proposer = m
  <2>1. PICK c \in Nat : c = chain'[m][h]
    BY <1>4
  <2>2. StoreAfter(m, h, c)
    BY <1>4, <2>1
  <2>3. h > 0 /\ c # NoBlock => StoredOK(m, h, chain[m][h])'
    BY <2>1, <2>2 DEF StoreAfter, StoredOK, Height, SignersOf
  <2> QED
    BY <2>1, <2>2, <2>3 DEF StoreAfter
<1>7. \A h \in 1 .. MaxHeight : h \in 0 .. MaxHeight /\ h > 0
  BY <1>1
<1>8. /\ \A m \in Node, h \in 0 .. MaxHeight : chain'[m][h] \in Blocks' \union {NoBlock}
      /\ \A m \in Node, h \in 1 .. MaxHeight : chain'[m][h] # NoBlock => StoredOK(m, h, chain[m][h])'
      /\ \A m \in Node, h \in 1 .. MaxHeight :
           chain[m][h] # NoBlock /\ chain'[m][h] # chain[m][h] => headers'[chain'[m][h]].proposer = m
  BY <1>6, <1>7
<1> QED
  BY <1>4, <1>5, <1>8 DEF StoreInv, NoBlock
-----------------------------------------------------------------------------
\* The pending block of node n: as it was, none, or one with signatures made.
PendingStep(n) ==
  \/ UNCHANGED <<pending, sigs>>
  \/ ClearPending(n)
  \/ \E b \in Blocks', S \in SUBSET Node :
       /\ PendingOK(n, b, S)'
       /\ pending' = [pending EXCEPT ![n] = b] /\ sigs' = [sigs EXCEPT ![n] = S]

LEMMA PendingKept ==
  ASSUME ValInv, Grows, NEW n \in Node, PendingStep(n)
  PROVE  PendingInv'
<1>1. /\ pending \in [Node -> Nat] /\ sigs \in [Node -> SUBSET Node] /\ NoBlock = 0
      /\ \A m \in Node : pending[m] # NoBlock => PendingOK(m, pending[m], sigs[m])
      /\ Blocks' \subseteq Nat
  BY DEF ValInv, PendingInv, NoBlock, Blocks
\* What was pending may stay.
<1>2. ASSUME NEW m \in Node, NEW b, NEW S, b = pending[m], S = sigs[m], b # NoBlock
      PROVE  PendingOK(m, b, S)'
  <2>1. PendingOK(m, b, S) /\ S \in SUBSET Node
    BY <1>1, <1>2
  <2>2. b \in Blocks
    BY <2>1 DEF PendingOK
  <2> QED
    BY <2>1, <2>2, KnownStays
<1>3. /\ pending' \in [Node -> Nat] /\ sigs' \in [Node -> SUBSET Node]
      /\ \A m \in Node, b \in Nat, S \in SUBSET Node :
           b = pending'[m] /\ S = sigs'[m] /\ b # NoBlock => PendingOK(m, b, S)'
  <2>1. CASE UNCHANGED <<pending, sigs>>
    BY <1>1, <1>2, <2>1
  <2>2. CASE ClearPending(n)
    <3>1. /\ pending' = [pending EXCEPT ![n] = NoBlock] /\ sigs' = [sigs EXCEPT ![n] = {}]
      BY <2>2 DEF ClearPending
    <3>2. pending' \in [Node -> Nat] /\ sigs' \in [Node -> SUBSET Node] /\ pending'[n] = NoBlock
      BY <1>1, <3>1
    <3>3. \A m \in Node : m # n => pending'[m] = pending[m] /\ sigs'[m] = sigs[m]
      BY <1>1, <3>1
    <3> QED
      BY <1>2, <3>2, <3>3
  <2>3. ASSUME NEW b \in Blocks', NEW S \in SUBSET Node, PendingOK(n, b, S)',
               pending' = [pending EXCEPT ![n] = b], sigs' = [sigs EXCEPT ![n] = S]
        PROVE  /\ pending' \in [Node -> Nat] /\ sigs' \in [Node -> SUBSET Node]
               /\ \A m \in Node, c \in Nat, T \in SUBSET Node :
                    c = pending'[m] /\ T = sigs'[m] /\ c # NoBlock => PendingOK(m, c, T)'
    <3>1. pending' \in [Node -> Nat] /\ sigs' \in [Node -> SUBSET Node] /\ pending'[n] = b /\ sigs'[n] = S
      BY <1>1, <2>3
    <3>2. \A m \in Node : m # n => pending'[m] = pending[m] /\ sigs'[m] = sigs[m]
      BY <1>1, <2>3
    <3> QED
      BY <1>2, <2>3, <3>1, <3>2
  <2> QED
    BY <2>1, <2>2, <2>3 DEF PendingStep
<1>4. ASSUME NEW m \in Node, pending'[m] # NoBlock PROVE PendingOK(m, pending[m], sigs[m])'
  <2>1. PICK b \in Nat, S \in SUBSET Node : b = pending'[m] /\ S = sigs'[m]
    BY <1>3
  <2>2. PendingOK(m, b, S)'
    BY <1>3, <1>4, <2>1
  <2> QED
    BY <2>1, <2>2 DEF PendingOK, Height, SignersOf
<1> QED
  BY <1>3, <1>4 DEF PendingInv, NoBlock

\* The proposals of node n that are left to handle.
ProposalsStep(n) ==
  \/ UNCHANGED proposals
  \/ \E s \in Seq(Nat) :
       /\ proposals' = [proposals EXCEPT ![n] = s]
       /\ \A i \in DOMAIN s : ProposalOK(n, s[i])'

LEMMA ProposalsKept ==
  ASSUME ValInv, Grows, NEW n \in Node, ProposalsStep(n)
  PROVE  ProposalsInv'
<1>1. /\ proposals \in [Node -> Seq(Nat)]
      /\ \A m \in Node : \A i \in DOMAIN proposals[m] : ProposalOK(m, proposals[m][i])
  BY DEF ValInv, ProposalsInv
<1>2. ASSUME NEW m \in Node, NEW i \in DOMAIN proposals[m], NEW b, b = proposals[m][i]
      PROVE  ProposalOK(m, b)'
  <2>1. ProposalOK(m, b) /\ b \in Blocks
    BY <1>1, <1>2 DEF ProposalOK
  <2> QED
    BY <2>1, KnownStays
<1>3. /\ proposals' \in [Node -> Seq(Nat)]
      /\ \A m \in Node : \A i \in DOMAIN proposals'[m] : \A b : b = proposals'[m][i] => ProposalOK(m, b)'
  <2>1. CASE UNCHANGED proposals
    BY <1>1, <1>2, <2>1
  <2>2. ASSUME NEW s \in Seq(Nat), proposals' = [proposals EXCEPT ![n] = s], \A i \in DOMAIN s : ProposalOK(n, s[i])'
        PROVE  /\ proposals' \in [Node -> Seq(Nat)]
               /\ \A m \in Node : \A i \in DOMAIN proposals'[m] : \A b : b = proposals'[m][i] => ProposalOK(m, b)'
    <3>1. proposals' \in [Node -> Seq(Nat)] /\ proposals'[n] = s /\ \A m \in Node : m # n => proposals'[m] = proposals[m]
      BY <1>1, <2>2
    <3> QED
      BY <1>2, <2>2, <3>1
  <2> QED
    BY <2>1, <2>2 DEF ProposalsStep
<1>4. ASSUME NEW m \in Node, NEW i \in DOMAIN proposals'[m] PROVE ProposalOK(m, proposals[m][i])'
  <2>1. ASSUME NEW b, b = proposals'[m][i] PROVE ProposalOK(m, b)'
    BY <1>3, <2>1
  <2> QED
    BY <2>1 DEF ProposalOK, Height
<1> QED
  BY <1>3, <1>4 DEF ProposalsInv

\* The state and the pool of node n.
LedgerStep(n) ==
  /\ UNCHANGED app \/ \E s \in Ledger : app' = [app EXCEPT ![n] = s]
  /\ UNCHANGED pool \/ \E q \in Seq(Txs) : pool' = [pool EXCEPT ![n] = q]

LEMMA LedgerKept ==
  ASSUME ValInv, NEW n \in Node, LedgerStep(n)
  PROVE  LedgerInv'
BY DEF ValInv, LedgerInv, LedgerStep

\* The round of node n and its latest height: what the view change sees.
ViewStep(n) ==
  \/ /\ UNCHANGED latest \/ \E h \in 1 .. MaxHeight : latest' = [latest EXCEPT ![n] = h]
     /\ UNCHANGED viewVars \/ VC!ResetRound(n)
  \/ /\ UNCHANGED latest
     /\ VC!RequestViewChange(n) \/ \E vote \in voted : VC!ReceiveViewChange(n, vote)

\* A step of node n.
NodeStep(n) ==
  /\ WorldStep(n) /\ StoreStep(n) /\ PendingStep(n) /\ ProposalsStep(n) /\ LedgerStep(n)
  /\ CountersInv' /\ ViewStep(n)

LEMMA NodeStepKeeps ==
  ASSUME ValInv, NEW n \in Node, NodeStep(n)
  PROVE  ValInv'
<1>1. WorldInv' /\ Grows
  BY WorldKept DEF NodeStep
<1>2. StoreInv' /\ PendingInv' /\ ProposalsInv' /\ LedgerInv' /\ CountersInv'
  BY <1>1, StoreKept, PendingKept, ProposalsKept, LedgerKept DEF NodeStep
<1> QED
  BY <1>1, <1>2 DEF ValInv
-----------------------------------------------------------------------------
\* The actions are such steps.
LEMMA SubmitStep ==
  ASSUME ValInv, NEW n \in Node, NEW tx \in Txs, Submit(n, tx)
  PROVE  NodeStep(n)
<1> USE DEF Submit, storeVars, viewVars, boundVars
<1>1. WorldStep(n) /\ StoreStep(n) /\ PendingStep(n) /\ ProposalsStep(n) /\ ViewStep(n)
  BY DEF WorldStep, StoreStep, PendingStep, ProposalsStep, ViewStep
<1>2. LedgerStep(n)
  <2>1. Append(pool[n], tx) \in Seq(Txs)
    BY AppendProperties DEF ValInv, LedgerInv
  <2> QED
    BY <2>1 DEF LedgerStep, Enqueue
<1>3. CountersInv'
  BY DEF ValInv, CountersInv
<1> QED
  BY <1>1, <1>2, <1>3 DEF NodeStep

LEMMA RecvProposeStep ==
  ASSUME ValInv, NEW n \in Node, RecvPropose(n)
  PROVE  NodeStep(n)
<1> USE DEF storeVars, viewVars, boundVars
<1>1. WorldStep(n) /\ StoreStep(n) /\ PendingStep(n) /\ LedgerStep(n) /\ ViewStep(n)
  BY DEF RecvPropose, WorldStep, StoreStep, PendingStep, LedgerStep, ViewStep
<1>2. ProposalsStep(n)
  <2>1. PICK m \in net : m.type = "Propose" /\ m.to = n /\ proposals' = [proposals EXCEPT ![n] = Append(@, m.block)]
    BY DEF RecvPropose
  <2>2. ProposalOK(n, m.block)
    BY <2>1 DEF ValInv, WorldInv, MessageOK
  <2>3. m.block \in Blocks /\ m.block \in Nat
    BY <2>2 DEF ProposalOK, Blocks
  <2> DEFINE s == proposals[n]
  <2>4. PICK t, k : t = Append(s, m.block) /\ k = Len(s)
    OBVIOUS
  <2>5. s \in Seq(Nat) /\ \A i \in DOMAIN s : ProposalOK(n, s[i]) /\ s[i] \in Blocks
    BY DEF ValInv, ProposalsInv, ProposalOK
  <2>6. /\ t \in Seq(Nat) /\ DOMAIN t = 1 .. k + 1 /\ DOMAIN s = 1 .. k
        /\ \A i \in 1 .. k : t[i] = s[i]
        /\ t[k + 1] = m.block /\ k \in Nat
    BY <2>3, <2>5, <2>4, AppendProperties, LenProperties
  <2>7. proposals' = [proposals EXCEPT ![n] = t]
    BY <2>1, <2>4 DEF ValInv, ProposalsInv
  <2> HIDE DEF s
  <2>8. \A i \in DOMAIN t : t[i] \in Blocks /\ ProposalOK(n, t[i])
    BY <2>2, <2>3, <2>5, <2>6
  <2>9. Grows
    BY DEF RecvPropose, Grows, Blocks
  <2>10. \A i \in DOMAIN t : ProposalOK(n, t[i])'
    BY <2>8, <2>9, KnownStays
  <2> QED
    BY <2>6, <2>7, <2>10 DEF ProposalsStep
<1>3. CountersInv'
  BY DEF RecvPropose, ValInv, CountersInv
<1> QED
  BY <1>1, <1>2, <1>3 DEF NodeStep

LEMMA RecvSignStep ==
  ASSUME ValInv, NEW n \in Node, RecvSign(n)
  PROVE  NodeStep(n)
<1> USE DEF RecvSign, storeVars, viewVars, boundVars
<1>1. WorldStep(n) /\ StoreStep(n) /\ ProposalsStep(n) /\ LedgerStep(n) /\ ViewStep(n)
  BY DEF WorldStep, StoreStep, ProposalsStep, LedgerStep, ViewStep
<1>2. PendingStep(n)
  <2>1. PICK m \in net : m.type = "Sign"
                         /\ sigs' = [sigs EXCEPT ![n] = IF SignatureCounts(n, m) THEN @ \union {m.from} ELSE @]
    OBVIOUS
  <2>2. /\ pending \in [Node -> Nat] /\ sigs \in [Node -> SUBSET Node]
        /\ UNCHANGED <<pending, headers, signed>>
        /\ pending[n] # NoBlock => PendingOK(n, pending[n], sigs[n])
    BY DEF ValInv, PendingInv
  <2>3. CASE ~SignatureCounts(n, m)
    <3>1. sigs' = sigs
      BY <2>1, <2>2, <2>3
    <3> QED
      BY <2>2, <3>1 DEF PendingStep
  <2>4. CASE SignatureCounts(n, m)
    <3>1. PICK b, S : b = pending[n] /\ S = sigs[n] \union {m.from}
      OBVIOUS
    <3>2. b # NoBlock /\ m.block = b /\ PendingOK(n, b, sigs[n])
      BY <2>2, <2>4, <3>1 DEF SignatureCounts
    <3>3. <<m.from, b>> \in signed /\ signed \subseteq Node \X Blocks
      BY <2>1, <3>2 DEF ValInv, WorldInv, MessageOK
    <3>4. S \in SUBSET Node /\ PendingOK(n, b, S)
      BY <2>2, <3>1, <3>2, <3>3 DEF PendingOK, SignersOf
    <3>5. b \in Blocks /\ Blocks' = Blocks
      BY <2>2, <3>4 DEF PendingOK, Blocks
    <3>6. PendingOK(n, b, S)'
      BY <2>2, <3>4 DEF PendingOK, SignersOf, Height, Blocks
    <3>7. pending' = [pending EXCEPT ![n] = b]
      BY <2>2, <3>1
    <3>8. sigs' = [sigs EXCEPT ![n] = S]
      BY <2>1, <2>2, <2>4, <3>1
    <3> QED
      BY <3>4, <3>5, <3>6, <3>7, <3>8 DEF PendingStep
  <2> QED
    BY <2>3, <2>4
<1>3. CountersInv'
  BY DEF ValInv, CountersInv
<1> QED
  BY <1>1, <1>2, <1>3 DEF NodeStep

LEMMA RecvViewChangeStep ==
  ASSUME ValInv, NEW n \in Node, RecvViewChange(n)
  PROVE  NodeStep(n)
<1> USE DEF RecvViewChange, storeVars, boundVars
<1>1. WorldStep(n) /\ StoreStep(n) /\ PendingStep(n) /\ ProposalsStep(n) /\ LedgerStep(n)
  BY DEF WorldStep, StoreStep, PendingStep, ProposalsStep, LedgerStep
<1>2. ViewStep(n)
  <2>1. PICK vote \in DrainedVotes(n) : VC!ReceiveViewChange(n, vote) /\ UNCHANGED latest
    OBVIOUS
  <2> QED
    BY <2>1 DEF ViewStep, DrainedVotes
<1>3. CountersInv'
  BY DEF ValInv, CountersInv
<1> QED
  BY <1>1, <1>2, <1>3 DEF NodeStep

\* A pending block with enough signatures may be stored.
LEMMA PendingFinal ==
  ASSUME ValInv, NEW n \in Node, pending[n] # NoBlock, IsFinalized(sigs[n]), NEW b, b = pending[n]
  PROVE  b \in Blocks /\ Height(b) \in 1 .. MaxHeight /\ StoredOK(n, Height(b), b) /\ headers[b].proposer = n
<1>1. PendingOK(n, b, sigs[n])
  BY DEF ValInv, PendingInv
<1>2. b \in Blocks /\ Height(b) > 0 /\ headers[b].proposer = n /\ n \in SignersOf(b) /\ sigs[n] \subseteq SignersOf(b)
  BY <1>1 DEF PendingOK
<1>3. Height(b) \in 1 .. MaxHeight
  <2>1. Height(b) \in 0 .. MaxHeight /\ MaxHeight \in Nat
    BY <1>2, HeaderType, ValidatorAssumption DEF ValInv, Header, Height
  <2> QED
    BY <1>2, <2>1
<1>4. Cardinality(SignersOf(b)) >= Quorum
  <2>1. SignersOf(b) \subseteq Node
    BY DEF SignersOf
  <2>2. IsFiniteSet(SignersOf(b))
    BY <2>1, NodeFinite, FS_Subset
  <2>3. /\ Cardinality(sigs[n]) <= Cardinality(SignersOf(b))
        /\ Cardinality(sigs[n]) \in Nat /\ Cardinality(SignersOf(b)) \in Nat
    BY <1>2, <2>2, FS_Subset, FS_CardinalityType
  <2> QED
    BY <2>3, NodeFinite DEF IsFinalized
<1> QED
  BY <1>2, <1>3, <1>4 DEF StoredOK

\* A proposal that was accepted may be stored, once it is signed.
LEMMA AcceptedFinal ==
  ASSUME ValInv, NEW n \in Node, SignHead(n), NEW b, b = Head(proposals[n])
  PROVE  /\ b \in Blocks /\ b \in Blocks' /\ Height(b) \in 1 .. MaxHeight /\ StoredOK(n, Height(b), b)'
         /\ chain[n][Height(b)] = NoBlock /\ headers[b].txs \in Seq(Txs) /\ AfterBlock(n, b) \in Ledger
<1>1. ProposalOK(n, b) /\ Acceptable(n, b) /\ headers' = headers
  BY HeadOfProposals DEF ValInv, SignHead
<1>2. b \in Blocks /\ Height(b) > 0 /\ headers[b] \in Header /\ HeaderOK(b)
      /\ (n \notin Echo => headers[b].proposer # n)
  BY <1>1, HeaderType DEF ProposalOK, ValInv, WorldInv
<1>3. <<n, b>> \in signed' /\ Grows
  BY SignKeepsWorld
<1>4. Height(b) \in 1 .. MaxHeight
  <2>1. Height(b) \in 0 .. MaxHeight /\ MaxHeight \in Nat
    BY <1>2, ValidatorAssumption DEF Header, Height
  <2> QED
    BY <1>2, <2>1
<1>5. b \in Blocks'
  BY <1>2, <1>3 DEF Grows
<1>6. {n, headers[b].proposer} \subseteq SignersOf(b)'
  <2>1. <<headers[b].proposer, b>> \in signed /\ headers[b].proposer \in Node
    BY <1>2 DEF HeaderOK, Header, Height
  <2> QED
    BY <1>3, <2>1 DEF SignersOf, Grows
<1>7. StoredOK(n, Height(b), b)'
  <2>1. PICK h : h = Height(b)
    OBVIOUS
  <2>2. StoredOK(n, h, b)'
    BY <1>1, <1>2, <1>5, <1>6, <2>1 DEF StoredOK, Height
  <2> QED
    BY <1>1, <2>1, <2>2 DEF StoredOK, Height
<1>8. headers[b].txs \in Seq(Txs) /\ app[n] \in Ledger
  BY <1>2 DEF Header, ValInv, LedgerInv
<1>9. AfterBlock(n, b) \in Ledger
  <2>1. Len(headers[b].txs) \in 0 .. Len(headers[b].txs)
    BY <1>8, LenProperties
  <2> QED
    BY <1>8, <2>1, ExecuteAllLedger DEF AfterBlock
<1> QED
  BY <1>1, <1>2, <1>4, <1>5, <1>7, <1>8, <1>9 DEF Acceptable

\* What the proposer's own pool leaves behind.
LEMMA PoolLedger ==
  ASSUME ValInv, NEW n \in Node
  PROVE  app[n] \in Ledger /\ pool[n] \in Seq(Txs) /\ AfterPool(n) \in Ledger
<1>1. app[n] \in Ledger /\ pool[n] \in Seq(Txs)
  BY DEF ValInv, LedgerInv
<1>2. Len(pool[n]) \in 0 .. Len(pool[n])
  BY <1>1, LenProperties
<1> QED
  BY <1>1, <1>2, ExecuteAllLedger DEF AfterPool

\* A new block: it may be pending, and stored if it needs no other signature.
LEMMA NewBlockFinal ==
  ASSUME ValInv, NEW n \in Node, MayProduce(n), Propose(n), NEW b, b = NewBlock
  PROVE  /\ b \in Blocks' /\ headers'[b].proposer = n /\ latest[n] + 1 \in 1 .. MaxHeight
         /\ PendingOK(n, b, {n})'
         /\ \A h : h = latest[n] + 1 /\ IsFinalized({n}) => StoredOK(n, h, b)'
<1>1. /\ WorldInv' /\ b \in Blocks' /\ headers'[b].proposer = n /\ headers'[b].height = latest[n] + 1
      /\ latest[n] + 1 \in 1 .. MaxHeight /\ <<n, b>> \in signed'
  BY ProposeKeepsWorld
<1>2. {n} \subseteq SignersOf(b)'
  BY <1>1 DEF SignersOf
<1>3. PendingOK(n, b, {n})'
  BY <1>1, <1>2 DEF PendingOK, Height
<1>4. ASSUME NEW h, h = latest[n] + 1, IsFinalized({n}) PROVE StoredOK(n, h, b)'
  <2>1. SignersOf(b)' \subseteq Node
    BY DEF SignersOf
  <2>2. IsFiniteSet(SignersOf(b)')
    BY <2>1, NodeFinite, FS_Subset
  <2>3. /\ Cardinality({n}) <= Cardinality(SignersOf(b)')
        /\ Cardinality({n}) \in Nat /\ Cardinality(SignersOf(b)') \in Nat
    BY <1>2, <2>2, FS_Subset, FS_CardinalityType
  <2>4. Cardinality(SignersOf(b)') >= Quorum
    BY <1>4, <2>3, NodeFinite DEF IsFinalized
  <2> QED
    BY <1>1, <1>2, <1>4, <2>4 DEF StoredOK, Height, Quorum
<1> QED
  BY <1>1, <1>3, <1>4

LEMMA FinalizeStep ==
  ASSUME ValInv, NEW n \in Node, FinalizePending(n)
  PROVE  NodeStep(n)
<1> USE DEF FinalizePending, boundVars
<1>1. PICK b, h : b = pending[n] /\ h = Height(b)
  OBVIOUS
<1>2. b \in Blocks /\ h \in 1 .. MaxHeight /\ StoredOK(n, h, b) /\ headers[b].proposer = n
  BY <1>1, PendingFinal
<1>3. UNCHANGED <<headers, net, signed>> /\ Blocks' = Blocks
  BY DEF Blocks
<1>4. WorldStep(n) /\ ProposalsStep(n) /\ LedgerStep(n)
  BY DEF WorldStep, ProposalsStep, LedgerStep
<1>5. StoreStep(n)
  <2>1. StoredOK(n, h, b)'
    BY <1>2, <1>3 DEF StoredOK, Height, SignersOf
  <2>2. PutBlock(n, h, b)
    BY <1>1
  <2> QED
    BY <1>2, <1>3, <2>1, <2>2 DEF StoreStep
<1>6. PendingStep(n)
  BY DEF PendingStep
<1>7. ViewStep(n)
  <2>1. latest' = [latest EXCEPT ![n] = h]
    BY <1>1 DEF PutBlock
  <2> QED
    BY <1>2, <2>1 DEF ViewStep
<1>8. CountersInv'
  BY DEF ValInv, CountersInv
<1> QED
  BY <1>4, <1>5, <1>6, <1>7, <1>8 DEF NodeStep

LEMMA DiscardStep ==
  ASSUME ValInv, NEW n \in Node, DiscardPending(n)
  PROVE  NodeStep(n)
<1> USE DEF DiscardPending, storeVars, viewVars
<1>1. WorldStep(n) /\ StoreStep(n) /\ PendingStep(n) /\ ProposalsStep(n) /\ LedgerStep(n) /\ ViewStep(n)
  BY DEF WorldStep, StoreStep, PendingStep, ProposalsStep, LedgerStep, ViewStep
<1>2. CountersInv'
  BY ValidatorAssumption DEF ValInv, CountersInv
<1> QED
  BY <1>1, <1>2 DEF NodeStep

\* The head of the proposals is handled.
LEMMA TailStep ==
  ASSUME ValInv, Grows, NEW n \in Node, proposals[n] # <<>>,
         proposals' = [proposals EXCEPT ![n] = Tail(@)]
  PROVE  ProposalsStep(n)
<1>1. PICK t : t = Tail(proposals[n])
  OBVIOUS
<1>2. t \in Seq(Nat) /\ \A i \in DOMAIN t : t[i] \in Blocks /\ ProposalOK(n, t[i])
  BY <1>1, HeadOfProposals DEF ValInv, ProposalOK
<1>3. \A i \in DOMAIN t : ProposalOK(n, t[i])'
  BY <1>2, KnownStays
<1>4. proposals' = [proposals EXCEPT ![n] = t]
  BY <1>1 DEF ValInv, ProposalsInv
<1> QED
  BY <1>2, <1>3, <1>4 DEF ProposalsStep

LEMMA RejectStep ==
  ASSUME ValInv, NEW n \in Node, RejectProposal(n)
  PROVE  NodeStep(n)
<1> USE DEF RejectProposal, storeVars, viewVars, boundVars
<1>1. WorldStep(n) /\ StoreStep(n) /\ PendingStep(n) /\ LedgerStep(n) /\ ViewStep(n)
  BY DEF WorldStep, StoreStep, PendingStep, LedgerStep, ViewStep
<1>2. ProposalsStep(n)
  BY <1>1, WorldKept, TailStep
<1>3. CountersInv'
  BY DEF ValInv, CountersInv
<1> QED
  BY <1>1, <1>2, <1>3 DEF NodeStep

LEMMA AcceptStep ==
  ASSUME ValInv, NEW n \in Node, AcceptProposal(n)
  PROVE  NodeStep(n)
<1> USE DEF viewVars, boundVars
<1>1. PICK b, h : b = Head(proposals[n]) /\ h = Height(b)
  OBVIOUS
<1>2. /\ SignHead(n) /\ app' = [app EXCEPT ![n] = AfterBlock(n, b)]
      /\ PutBlock(n, h, b) \/ UNCHANGED <<chain, latest>>
      /\ proposals' = [proposals EXCEPT ![n] = Tail(@)]
      /\ pc' = [pc EXCEPT ![n] = "proposals"]
      /\ UNCHANGED <<pool, pending, sigs, viewVars, todo, boundVars>>
  BY <1>1 DEF AcceptProposal
<1>3. /\ b \in Blocks' /\ h \in 1 .. MaxHeight /\ StoredOK(n, Height(b), b)'
      /\ chain[n][h] = NoBlock /\ AfterBlock(n, b) \in Ledger
  BY <1>1, <1>2, AcceptedFinal
<1>4. StoredOK(n, h, b)'
  BY <1>1, <1>2, <1>3 DEF StoredOK, SignHead, Height
<1>5. WorldStep(n) /\ PendingStep(n)
  BY <1>2 DEF WorldStep, PendingStep
<1>6. StoreStep(n)
  BY <1>2, <1>3, <1>4 DEF StoreStep
<1>7. ProposalsStep(n)
  BY <1>2, <1>5, WorldKept, TailStep DEF SignHead
<1>8. LedgerStep(n)
  BY <1>2, <1>3 DEF LedgerStep
<1>9. ViewStep(n)
  BY <1>2, <1>3 DEF ViewStep, PutBlock
<1>10. CountersInv'
  BY <1>2 DEF ValInv, CountersInv
<1> QED
  BY <1>5, <1>6, <1>7, <1>8, <1>9, <1>10 DEF NodeStep

LEMMA VoteStep ==
  ASSUME ValInv, NEW n \in Node, VoteViewChange(n)
  PROVE  NodeStep(n)
<1> USE DEF VoteViewChange, storeVars, boundVars
<1>1. WorldStep(n) /\ StoreStep(n) /\ PendingStep(n) /\ ProposalsStep(n) /\ LedgerStep(n) /\ ViewStep(n)
  BY DEF WorldStep, StoreStep, PendingStep, ProposalsStep, LedgerStep, ViewStep
<1>2. CountersInv'
  BY DEF ValInv, CountersInv
<1> QED
  BY <1>1, <1>2 DEF NodeStep

LEMMA EndTickStep ==
  ASSUME ValInv, NEW n \in Node, EndTick(n)
  PROVE  NodeStep(n)
<1> USE DEF EndTick, storeVars, viewVars, boundVars
<1>1. WorldStep(n) /\ StoreStep(n) /\ PendingStep(n) /\ ProposalsStep(n) /\ LedgerStep(n) /\ ViewStep(n)
  BY DEF WorldStep, StoreStep, PendingStep, ProposalsStep, LedgerStep, ViewStep
<1>2. CountersInv'
  BY DEF ValInv, CountersInv
<1> QED
  BY <1>1, <1>2 DEF NodeStep

LEMMA ProduceStep ==
  ASSUME ValInv, NEW n \in Node, Produce(n)
  PROVE  NodeStep(n)
<1> USE DEF viewVars, boundVars
<1>1. PICK b, h : b = NewBlock /\ h = latest[n] + 1
  OBVIOUS
<1>2. /\ MayProduce(n) /\ app' = [app EXCEPT ![n] = AfterPool(n)] /\ pool' = [pool EXCEPT ![n] = <<>>]
      /\ pc' = [pc EXCEPT ![n] = "drain"] /\ UNCHANGED <<proposals, todo, boundVars>>
  BY DEF Produce
<1>3. \/ UNCHANGED <<chain, latest, pending, sigs, viewVars, headers, net, signed>>
      \/ /\ Propose(n) /\ IsFinalized({n})
         /\ PutBlock(n, h, b) /\ VC!ResetRound(n) /\ UNCHANGED <<pending, sigs>>
      \/ /\ Propose(n)
         /\ pending' = [pending EXCEPT ![n] = b] /\ sigs' = [sigs EXCEPT ![n] = {n}]
         /\ UNCHANGED <<chain, latest, viewVars>>
  BY <1>1 DEF Produce
<1>4. ASSUME Propose(n)
      PROVE  /\ b \in Blocks' /\ headers'[b].proposer = n /\ h \in 1 .. MaxHeight
             /\ PendingOK(n, b, {n})'
             /\ IsFinalized({n}) => StoredOK(n, h, b)'
  BY <1>1, <1>2, <1>4, NewBlockFinal
<1>5. WorldStep(n)
  BY <1>2, <1>3 DEF WorldStep
<1>6. StoreStep(n)
  BY <1>3, <1>4 DEF StoreStep
<1>7. PendingStep(n)
  BY <1>3, <1>4 DEF PendingStep
<1>8. ProposalsStep(n)
  BY <1>2 DEF ProposalsStep
<1>9. LedgerStep(n)
  <2>1. AfterPool(n) \in Ledger /\ <<>> \in Seq(Txs)
    BY PoolLedger
  <2> QED
    BY <1>2, <2>1 DEF LedgerStep
<1>10. ViewStep(n)
  BY <1>3, <1>4 DEF ViewStep, PutBlock
<1>11. CountersInv'
  BY <1>2 DEF ValInv, CountersInv
<1> QED
  BY <1>5, <1>6, <1>7, <1>8, <1>9, <1>10, <1>11 DEF NodeStep

\* What is left of the memory of a killed process.
LEMMA RestartStep ==
  ASSUME ValInv, Grows, NEW n \in Node, Restart(n)
  PROVE  /\ PendingStep(n) /\ ProposalsStep(n) /\ CountersInv' /\ VC!ResetRound(n)
         /\ \E q \in Seq(Txs) : pool' = [pool EXCEPT ![n] = q]
<1> USE DEF Restart
<1>1. PendingStep(n) /\ VC!ResetRound(n)
  BY DEF PendingStep
<1>2. <<>> \in Seq(Txs) /\ <<>> \in Seq(Nat) /\ DOMAIN <<>> = {}
  OBVIOUS
<1>3. ProposalsStep(n)
  BY <1>2 DEF ProposalsStep
<1>4. CountersInv'
  BY ValidatorAssumption DEF ValInv, CountersInv
<1> QED
  BY <1>1, <1>2, <1>3, <1>4

LEMMA CrashStep ==
  ASSUME ValInv, NEW n \in Node, Crash(n)
  PROVE  NodeStep(n)
<1> USE DEF Crash, storeVars
<1>1. WorldStep(n) /\ StoreStep(n)
  BY DEF WorldStep, StoreStep
<1>2. PendingStep(n) /\ ProposalsStep(n) /\ CountersInv' /\ VC!ResetRound(n)
      /\ (\E q \in Seq(Txs) : pool' = [pool EXCEPT ![n] = q])
  BY <1>1, WorldKept, RestartStep
<1>3. LedgerStep(n) /\ ViewStep(n)
  BY <1>2 DEF LedgerStep, ViewStep
<1> QED
  BY <1>1, <1>2, <1>3 DEF NodeStep

LEMMA CrashInPutStep ==
  ASSUME ValInv, NEW n \in Node, CrashInPut(n)
  PROVE  NodeStep(n)
<1>1. WorldStep(n) /\ StoreStep(n) /\ UNCHANGED latest
      /\ (UNCHANGED app \/ \E s \in Ledger : app' = [app EXCEPT ![n] = s])
  <2>1. CASE /\ pending[n] # NoBlock /\ IsFinalized(sigs[n])
             /\ TornPut(n, Height(pending[n]), pending[n])
             /\ UNCHANGED <<app, headers, net, signed>>
    <3>1. PICK b, h : b = pending[n] /\ h = Height(b)
      OBVIOUS
    <3>2. b \in Blocks /\ h \in 1 .. MaxHeight /\ StoredOK(n, h, b) /\ headers[b].proposer = n
      BY <2>1, <3>1, PendingFinal
    <3>3. b \in Blocks' /\ StoredOK(n, h, b)' /\ headers'[b].proposer = n
      BY <2>1, <3>2 DEF StoredOK, Height, SignersOf, Blocks
    <3>4. TornPut(n, h, b)
      BY <2>1, <3>1
    <3> QED
      BY <2>1, <3>2, <3>3, <3>4 DEF WorldStep, StoreStep, TornPut
  <2>2. CASE /\ SignHead(n)
             /\ LET b == Head(proposals[n])
                IN  /\ StateRoot(AfterBlock(n, b)) = headers[b].root
                    /\ TornPut(n, Height(b), b)
                    /\ app' = [app EXCEPT ![n] = AfterBlock(n, b)]
    <3>1. PICK b, h : b = Head(proposals[n]) /\ h = Height(b)
      OBVIOUS
    <3>2. SignHead(n) /\ TornPut(n, h, b) /\ app' = [app EXCEPT ![n] = AfterBlock(n, b)]
      BY <2>2, <3>1
    <3>3. /\ b \in Blocks' /\ h \in 1 .. MaxHeight /\ StoredOK(n, Height(b), b)'
          /\ chain[n][h] = NoBlock /\ AfterBlock(n, b) \in Ledger
      BY <3>1, <3>2, AcceptedFinal
    <3>4. StoredOK(n, h, b)'
      BY <3>1, <3>2, <3>3 DEF StoredOK, SignHead, Height
    <3>5. WorldStep(n) /\ StoreStep(n)
      BY <3>2, <3>3, <3>4 DEF WorldStep, StoreStep
    <3> QED
      BY <3>2, <3>3, <3>5 DEF TornPut
  <2>3. CASE /\ MayProduce(n) /\ IsFinalized({n}) /\ Propose(n)
             /\ app' = [app EXCEPT ![n] = AfterPool(n)]
             /\ TornPut(n, latest[n] + 1, NewBlock) \/ UNCHANGED <<chain, latest>>
    <3>1. PICK b, h : b = NewBlock /\ h = latest[n] + 1
      OBVIOUS
    <3>2. /\ b \in Blocks' /\ headers'[b].proposer = n /\ h \in 1 .. MaxHeight
          /\ StoredOK(n, h, b)'
      BY <2>3, <3>1, NewBlockFinal
    <3>3. TornPut(n, h, b) \/ UNCHANGED <<chain, latest>>
      BY <2>3, <3>1
    <3>4. WorldStep(n)
      BY <2>3 DEF WorldStep
    <3>5. StoreStep(n) /\ UNCHANGED latest
      BY <3>2, <3>3 DEF StoreStep, TornPut
    <3>6. AfterPool(n) \in Ledger
      BY PoolLedger
    <3> QED
      BY <2>3, <3>4, <3>5, <3>6
  <2> QED
    BY <2>1, <2>2, <2>3 DEF CrashInPut
<1>2. PendingStep(n) /\ ProposalsStep(n) /\ CountersInv' /\ VC!ResetRound(n)
      /\ (\E q \in Seq(Txs) : pool' = [pool EXCEPT ![n] = q])
  BY <1>1, WorldKept, RestartStep DEF CrashInPut
<1>3. LedgerStep(n) /\ ViewStep(n)
  BY <1>1, <1>2 DEF LedgerStep, ViewStep
<1> QED
  BY <1>1, <1>2, <1>3 DEF NodeStep

LEMMA CrashInApplyStep ==
  ASSUME ValInv, NEW n \in Node, CrashInApply(n)
  PROVE  NodeStep(n)
<1>1. PICK b : b = Head(proposals[n])
  OBVIOUS
<1>2. /\ SignHead(n) /\ Restart(n) /\ UNCHANGED <<chain, latest>>
      /\ \E s \in CrashStates(app[n], headers[b].txs) : app' = [app EXCEPT ![n] = s]
  BY <1>1 DEF CrashInApply
<1>3. WorldStep(n) /\ StoreStep(n)
  BY <1>2 DEF WorldStep, StoreStep
<1>4. PendingStep(n) /\ ProposalsStep(n) /\ CountersInv' /\ VC!ResetRound(n)
      /\ (\E q \in Seq(Txs) : pool' = [pool EXCEPT ![n] = q])
  BY <1>2, <1>3, WorldKept, RestartStep
<1>5. \E s \in Ledger : app' = [app EXCEPT ![n] = s]
  <2>1. headers[b].txs \in Seq(Txs) /\ app[n] \in Ledger
    BY <1>1, <1>2, AcceptedFinal, PoolLedger
  <2> QED
    BY <1>2, <2>1, CrashStatesLedger
<1>6. LedgerStep(n) /\ ViewStep(n)
  BY <1>2, <1>4, <1>5 DEF LedgerStep, ViewStep
<1> QED
  BY <1>3, <1>4, <1>6 DEF NodeStep

LEMMA CrashInProduceStep ==
  ASSUME ValInv, NEW n \in Node, CrashInProduce(n)
  PROVE  NodeStep(n)
<1>1. /\ Restart(n) /\ UNCHANGED <<chain, latest, headers, net, signed>>
      /\ \E s \in CrashStates(app[n], pool[n]) : app' = [app EXCEPT ![n] = s]
  BY DEF CrashInProduce
<1>2. WorldStep(n) /\ StoreStep(n)
  BY <1>1 DEF WorldStep, StoreStep
<1>3. PendingStep(n) /\ ProposalsStep(n) /\ CountersInv' /\ VC!ResetRound(n)
      /\ (\E q \in Seq(Txs) : pool' = [pool EXCEPT ![n] = q])
  BY <1>1, <1>2, WorldKept, RestartStep
<1>4. \E s \in Ledger : app' = [app EXCEPT ![n] = s]
  BY <1>1, PoolLedger, CrashStatesLedger
<1>5. LedgerStep(n) /\ ViewStep(n)
  BY <1>1, <1>3, <1>4 DEF LedgerStep, ViewStep
<1> QED
  BY <1>2, <1>3, <1>5 DEF NodeStep

LEMMA NextIsNodeStep == ValInv /\ Next => \E n \in Node : NodeStep(n)
<1> SUFFICES ASSUME ValInv, Next PROVE \E n \in Node : NodeStep(n)
  OBVIOUS
<1>1. PICK n \in Node :
        \/ \E tx \in Txs : Submit(n, tx)
        \/ RecvPropose(n) \/ RecvSign(n) \/ RecvViewChange(n)
        \/ FinalizePending(n) \/ DiscardPending(n)
        \/ RejectProposal(n) \/ AcceptProposal(n)
        \/ VoteViewChange(n) \/ Produce(n) \/ EndTick(n)
        \/ Crash(n) \/ CrashInPut(n) \/ CrashInApply(n) \/ CrashInProduce(n)
  BY DEF Next
<1>2. NodeStep(n)
  BY <1>1, SubmitStep, RecvProposeStep, RecvSignStep, RecvViewChangeStep, FinalizeStep, DiscardStep,
     RejectStep, AcceptStep, VoteStep, ProduceStep, EndTickStep,
     CrashStep, CrashInPutStep, CrashInApplyStep, CrashInProduceStep
<1> QED
  BY <1>2

-----------------------------------------------------------------------------
LEMMA InitValInv == Init => ValInv
<1> SUFFICES ASSUME Init PROVE ValInv
  OBVIOUS
<1> DEFINE count == IF SharedGenesis THEN 1 ELSE N
           genesis(i) == [height |-> 0, prev |-> NoBlock, txs |-> <<>>,
                          root |-> StateRoot(EmptyState), proposer |-> i - 1]
<1>1. EmptyState \in Ledger /\ EmptyState \in AppState
  BY DEF EmptyState, Ledger, AppState, InOrder
<1>2. /\ N \in Nat /\ N >= 1 /\ MaxHeight \in Nat /\ MaxHeight >= 1
      /\ count \in Nat /\ count >= 1 /\ count <= N
  BY ValidatorAssumption
<1>3. \A i \in 1 .. count : genesis(i) \in Header
  <2>1. \A i \in 1 .. count : i - 1 \in Node
    BY <1>2 DEF Node
  <2>2. NoBlock \in Nat /\ 0 \in 0 .. MaxHeight /\ <<>> \in Seq(Txs)
    BY <1>2 DEF NoBlock
  <2> QED
    BY <1>1, <2>1, <2>2 DEF Header
<1>4. headers = [i \in 1 .. count |-> genesis(i)]
  BY DEF Init
<1> HIDE DEF count
<1>5. headers \in Seq(Header) /\ Len(headers) = count
  <2> HIDE DEF genesis
  <2> QED
    BY <1>2, <1>3, <1>4
<1>6. Blocks = 1 .. count /\ \A b \in Blocks : headers[b] = genesis(b)
  BY <1>4, <1>5 DEF Blocks
<1>7. WorldInv
  <2>1. \A b \in Blocks : headers[b].prev = NoBlock /\ headers[b].height = 0
    <3>1. \A i : genesis(i).prev = NoBlock /\ genesis(i).height = 0
      OBVIOUS
    <3> HIDE DEF genesis
    <3> QED
      BY <1>6, <3>1
  <2>2. \A b \in Blocks : HeaderOK(b)
    BY <2>1 DEF HeaderOK
  <2> QED
    BY <1>5, <2>2 DEF Init, WorldInv
<1>8. StoreInv
  <2>1. \A n \in Node : GenesisOf(n) \in Blocks /\ GenesisOf(n) \in Nat /\ GenesisOf(n) # NoBlock
    BY <1>2, <1>6 DEF GenesisOf, Node, NoBlock, count
  <2>2. /\ chain = [n \in Node |-> [h \in 0 .. MaxHeight |-> IF h = 0 THEN GenesisOf(n) ELSE NoBlock]]
        /\ latest = [n \in Node |-> 0] /\ NoBlock \in Nat /\ 0 \in 0 .. MaxHeight
    BY <1>2 DEF Init, NoBlock
  <2>3. \A h \in 1 .. MaxHeight : h # 0 /\ h \in 0 .. MaxHeight
    OBVIOUS
  <2> QED
    BY <2>1, <2>2, <2>3 DEF StoreInv, TipStored
<1>9. PendingInv /\ ProposalsInv
  BY DEF Init, PendingInv, ProposalsInv, NoBlock
<1>10. LedgerInv
  BY <1>1 DEF Init, LedgerInv
<1>11. CountersInv
  BY ValidatorAssumption DEF Init, CountersInv
<1> QED
  BY <1>7, <1>8, <1>9, <1>10, <1>11 DEF ValInv

LEMMA StepKeepsValInv == ValInv /\ [Next]_vars => ValInv'
<1> SUFFICES ASSUME ValInv, [Next]_vars PROVE ValInv'
  OBVIOUS
<1>1. CASE Next
  BY <1>1, NextIsNodeStep, NodeStepKeeps
<1>2. CASE UNCHANGED vars
  <2>1. WorldStep(0) /\ StoreStep(0) /\ PendingStep(0) /\ ProposalsStep(0) /\ LedgerStep(0) /\ ViewStep(0)
    BY <1>2 DEF vars, WorldStep, StoreStep, PendingStep, ProposalsStep, LedgerStep, ViewStep, viewVars
  <2>2. CountersInv' /\ 0 \in Node
    BY <1>2, ValidatorAssumption DEF vars, ValInv, CountersInv, Node
  <2> QED
    BY <2>1, <2>2, NodeStepKeeps DEF NodeStep
<1> QED
  BY <1>1, <1>2

\* The inductive invariant holds throughout.
THEOREM ValInvariance == Spec => []ValInv
BY InitValInv, StepKeepsValInv, PTL DEF Spec

\* Whatever a node is killed in, the block of its latest height is stored
\* (put_block writes the block first).
THEOREM TipStaysStored == Spec => []TipStored
<1>1. ValInv => TipStored
  BY DEF ValInv, StoreInv
<1> QED
  BY <1>1, ValInvariance, PTL

\* Where no node reaches itself at a peer's address, a node stores a block of
\* its own only with the signatures of a quorum on this very block, and one of
\* another node only with its proposer's and its own (is_finalized, put_block).
\* A node that does reach itself accepts its own proposal as a follower would,
\* without the quorum: the configuration ValidatorEcho shows what follows.
THEOREM BlocksStaySigned == Echo = {} => (Spec => []StoredBlocksSigned)
<1> SUFFICES ASSUME Echo = {} PROVE Spec => []StoredBlocksSigned
  OBVIOUS
<1>1. ValInv => StoredBlocksSigned
  BY DEF ValInv, StoreInv, StoredOK, StoredBlocksSigned
<1> QED
  BY <1>1, ValInvariance, PTL

\* A block that a node has stored is only ever replaced by a block of this very
\* node: handle_proposal rejects a height that has a block, and only put_block
\* of an own block does not look.
THEOREM OwnReplacedOnly == Spec => ReplacedOnlyByOwn
<1> DEFINE Kept == \A n \in Node, h \in 1 .. MaxHeight :
                     chain[n][h] # NoBlock /\ chain'[n][h] # chain[n][h] =>
                       headers'[chain'[n][h]].proposer = n
<1>1. ValInv /\ [Next]_vars => [Kept]_vars
  <2> SUFFICES ASSUME ValInv, Next PROVE Kept
    BY DEF vars
  <2>1. PICK n \in Node : NodeStep(n)
    BY NextIsNodeStep
  <2> QED
    BY <2>1, WorldKept, StoreKept DEF NodeStep
<1>2. ValInv /\ [Next]_vars => ValInv'
  BY StepKeepsValInv
<1> QED
  BY <1>1, InitValInv, <1>2, PTL DEF Spec, ReplacedOnlyByOwn

\* Replay protection holds on every node, through discarded blocks, blocks
\* proposed again, resubmissions and kills: a transaction never takes effect
\* twice or after a later one of its sender (check_and_update_nonce).
THEOREM NoncesInOrder == Spec => []NoncesUsedInOrder
<1>1. ValInv => NoncesUsedInOrder
  BY DEF ValInv, LedgerInv, Ledger, InOrder, NoncesUsedInOrder
<1> QED
  BY <1>1, ValInvariance, PTL

-----------------------------------------------------------------------------
\* Transaction tx is in the pool of node m, or its nonce is used up there.
Remembered(m, tx) ==
  \/ \E i \in DOMAIN pool[m] : pool[m][i] = tx
  \/ app[m].nonce[tx.sender] >= tx.nonce

LEMMA NonceType ==
  ASSUME NEW s \in Ledger, NEW tx \in Txs
  PROVE  s.nonce[tx.sender] \in Nat /\ tx.nonce \in Nat /\ tx.sender \in Senders
BY TxType DEF Ledger, AppState

\* A transaction that is taken into the pool is remembered.
LEMMA SubmitRemembers ==
  ASSUME ValInv, NEW n \in Node, NEW tx \in Txs, Submit(n, tx),
         NEW m \in Node, NEW ux \in Txs, Remembered(m, ux) \/ (m = n /\ ux = tx)
  PROVE  Remembered(m, ux)'
<1> DEFINE q == pool[n]
           r == Append(q, tx)
<1>1. pool \in [Node -> Seq(Txs)] /\ pool' = [pool EXCEPT ![n] = r] /\ app' = app
  BY DEF ValInv, LedgerInv, Submit, Enqueue, storeVars
<1>2. /\ q \in Seq(Txs) /\ DOMAIN q = 1 .. Len(q) /\ DOMAIN r = 1 .. Len(q) + 1 /\ Len(q) \in Nat
      /\ \A i \in 1 .. Len(q) : r[i] = q[i]
      /\ r[Len(q) + 1] = tx
  BY <1>1, AppendProperties, LenProperties
<1>3. pool'[n] = r /\ (m # n => pool'[m] = pool[m])
  BY <1>1
<1>4. \A i \in DOMAIN q : i \in DOMAIN r /\ r[i] = q[i]
  BY <1>2
<1>5. Len(q) + 1 \in DOMAIN r
  BY <1>2
<1> HIDE DEF r
<1>6. CASE m # n
  BY <1>1, <1>3, <1>6 DEF Remembered
<1>7. CASE m = n /\ ux = tx
  BY <1>2, <1>3, <1>5, <1>7 DEF Remembered
<1>8. CASE m = n /\ Remembered(m, ux)
  BY <1>1, <1>3, <1>4, <1>8 DEF Remembered
<1> QED
  BY <1>6, <1>7, <1>8

\* To execute a block forgets nothing: nonces only grow.
LEMMA AcceptRemembers ==
  ASSUME ValInv, NEW n \in Node, AcceptProposal(n),
         NEW m \in Node, NEW tx \in Txs, Remembered(m, tx)
  PROVE  Remembered(m, tx)'
<1>1. PICK b : b = Head(proposals[n])
  OBVIOUS
<1>2. SignHead(n) /\ app' = [app EXCEPT ![n] = AfterBlock(n, b)] /\ pool' = pool
  BY <1>1 DEF AcceptProposal
<1>3. headers[b].txs \in Seq(Txs) /\ AfterBlock(n, b) \in Ledger /\ app \in [Node -> Ledger]
  BY <1>1, <1>2, AcceptedFinal DEF ValInv, LedgerInv
<1>4. NoncesGrow(app[n], AfterBlock(n, b))
  <2>1. Len(headers[b].txs) \in 0 .. Len(headers[b].txs)
    BY <1>3, LenProperties
  <2> QED
    BY <1>3, <2>1, ExecuteAllLedger DEF AfterBlock
<1>5. app'[n] = AfterBlock(n, b) /\ (m # n => app'[m] = app[m])
  BY <1>2, <1>3
<1>6. CASE m # n
  BY <1>2, <1>5, <1>6 DEF Remembered
<1>7. CASE m = n
  <2>1. /\ app[n].nonce[tx.sender] \in Nat /\ tx.nonce \in Nat
        /\ app'[n].nonce[tx.sender] \in Nat
        /\ app[n].nonce[tx.sender] <= app'[n].nonce[tx.sender]
    BY <1>3, <1>4, <1>5, NonceType DEF NoncesGrow
  <2> QED
    BY <1>2, <1>7, <2>1 DEF Remembered
<1> QED
  BY <1>6, <1>7

\* To empty the pool forgets nothing: every transaction in it was executed or
\* found stale, and either way its nonce is used up.
LEMMA ProduceRemembers ==
  ASSUME ValInv, NEW n \in Node, Produce(n),
         NEW m \in Node, NEW tx \in Txs, Remembered(m, tx)
  PROVE  Remembered(m, tx)'
<1> DEFINE q == pool[n]
           s == AfterPool(n)
<1>1. /\ app' = [app EXCEPT ![n] = s] /\ pool' = [pool EXCEPT ![n] = <<>>]
      /\ app \in [Node -> Ledger] /\ pool \in [Node -> Seq(Txs)]
  BY DEF Produce, ValInv, LedgerInv
<1>2. q \in Seq(Txs) /\ s \in Ledger /\ app[n] \in Ledger /\ DOMAIN q = 1 .. Len(q)
  BY <1>1, PoolLedger, LenProperties
<1>3. NoncesGrow(app[n], s) /\ \A j \in 1 .. Len(q) : q[j].nonce <= s.nonce[q[j].sender]
  <2>1. Len(q) \in 0 .. Len(q)
    BY <1>2, LenProperties
  <2> QED
    BY <1>2, <2>1, ExecuteAllLedger DEF AfterPool
<1>4. app'[n] = s /\ (m # n => app'[m] = app[m] /\ pool'[m] = pool[m])
  BY <1>1
<1> HIDE DEF s
<1>5. CASE m # n
  BY <1>4, <1>5 DEF Remembered
<1>6. CASE m = n
  <2>1. /\ app[n].nonce[tx.sender] \in Nat /\ tx.nonce \in Nat
        /\ s.nonce[tx.sender] \in Nat
        /\ app[n].nonce[tx.sender] <= s.nonce[tx.sender]
    BY <1>2, <1>3, NonceType DEF NoncesGrow
  <2>2. (\E i \in DOMAIN q : q[i] = tx) => tx.nonce <= s.nonce[tx.sender]
    BY <1>2, <1>3
  <2>3. (\E i \in DOMAIN q : q[i] = tx) \/ app[n].nonce[tx.sender] >= tx.nonce
    BY <1>6 DEF Remembered
  <2>4. s.nonce[tx.sender] >= tx.nonce
    BY <2>1, <2>2, <2>3
  <2> QED
    BY <1>4, <1>6, <2>4 DEF Remembered
<1> QED
  BY <1>5, <1>6

LEMMA StepRemembers ==
  ASSUME ValInv, Next, crashes' = 0, NEW m \in Node, NEW tx \in Txs,
         Remembered(m, tx) \/ <<m, tx>> \in todo \ todo'
  PROVE  Remembered(m, tx)'
<1> USE DEF storeVars, viewVars, boundVars
<1>1. PICK n \in Node :
        \/ \E ux \in Txs : Submit(n, ux)
        \/ RecvPropose(n) \/ RecvSign(n) \/ RecvViewChange(n)
        \/ FinalizePending(n) \/ DiscardPending(n)
        \/ RejectProposal(n) \/ AcceptProposal(n)
        \/ VoteViewChange(n) \/ Produce(n) \/ EndTick(n)
        \/ Restart(n)
  BY DEF Next, Crash, CrashInPut, CrashInApply, CrashInProduce
<1>2. CASE \E ux \in Txs : Submit(n, ux)
  <2>1. PICK ux \in Txs : Submit(n, ux)
    BY <1>2
  <2>2. <<m, tx>> \in todo \ todo' => m = n /\ tx = ux
    BY <2>1 DEF Submit
  <2> QED
    BY <2>1, <2>2, SubmitRemembers
<1>3. CASE UNCHANGED <<pool, app, todo>>
  BY <1>3 DEF Remembered
<1>4. RecvPropose(n) \/ RecvSign(n) \/ RecvViewChange(n) => UNCHANGED <<pool, app, todo>>
  BY DEF RecvPropose, RecvSign, RecvViewChange
<1>5. FinalizePending(n) \/ DiscardPending(n) \/ RejectProposal(n) => UNCHANGED <<pool, app, todo>>
  BY DEF FinalizePending, DiscardPending, RejectProposal
<1>6. VoteViewChange(n) \/ EndTick(n) => UNCHANGED <<pool, app, todo>>
  BY DEF VoteViewChange, EndTick
<1>7. CASE AcceptProposal(n)
  <2>1. todo' = todo
    BY <1>7 DEF AcceptProposal
  <2> QED
    BY <1>7, <2>1, AcceptRemembers
<1>8. CASE Produce(n)
  <2>1. todo' = todo
    BY <1>8 DEF Produce
  <2> QED
    BY <1>8, <2>1, ProduceRemembers
<1>9. ~Restart(n)
  <2> SUFFICES ASSUME Restart(n) PROVE FALSE
    OBVIOUS
  <2>1. crashes' = crashes + 1 /\ crashes \in Nat
    BY ValidatorAssumption DEF Restart, ValInv, CountersInv
  <2> QED
    BY <2>1
<1> QED
  BY <1>1, <1>2, <1>3, <1>4, <1>5, <1>6, <1>7, <1>8, <1>9

\* As long as no process was killed, a transaction that rc_submitTx accepted is
\* in the pool of its node until the nonce of its sender is past it, whatever
\* other nodes propose and however often a block is discarded.
THEOREM AcceptedStay == Spec => []AcceptedNotForgotten
<1> DEFINE Kept == crashes = 0 => \A n \in Node, tx \in Txs :
                     <<n, tx>> \in Submissions \ todo => Remembered(n, tx)
<1>1. Init => Kept
  BY DEF Init
<1>2. ValInv /\ Kept /\ [Next]_vars => Kept'
  <2> SUFFICES ASSUME ValInv, Kept, [Next]_vars, crashes' = 0,
                      NEW n \in Node, NEW tx \in Txs, <<n, tx>> \in Submissions \ todo'
               PROVE  Remembered(n, tx)'
    OBVIOUS
  <2>1. crashes = 0
    <3>1. crashes' = crashes \/ crashes' = crashes + 1
      BY ZenonT(60) DEF Next, vars, boundVars, Submit, RecvPropose, RecvSign, RecvViewChange, FinalizePending,
         DiscardPending, RejectProposal, AcceptProposal, VoteViewChange, Produce, EndTick,
         Crash, CrashInPut, CrashInApply, CrashInProduce, Restart
    <3>2. crashes \in Nat
      BY ValidatorAssumption DEF ValInv, CountersInv
    <3> QED
      BY <3>1, <3>2
  <2>2. Remembered(n, tx) \/ <<n, tx>> \in todo \ todo'
    BY <2>1
  <2>3. CASE Next
    BY <2>2, <2>3, StepRemembers
  <2>4. CASE UNCHANGED vars
    BY <2>2, <2>4 DEF vars, Remembered
  <2> QED
    BY <2>3, <2>4
<1>3. Kept => AcceptedNotForgotten
  BY DEF AcceptedNotForgotten, Remembered
<1>4. Spec => []Kept
  <2> HIDE DEF Kept
  <2> QED
    BY <1>1, <1>2, InitValInv, StepKeepsValInv, PTL DEF Spec
<1> QED
  BY <1>3, <1>4, PTL

-----------------------------------------------------------------------------
\* The view change between the validators is the one of ViewChange, where node
\* n is about to decide the height above its latest one.
LEMMA HeightMoves ==
  ASSUME ValInv, NEW n \in Node, NEW h \in 1 .. MaxHeight, latest' = [latest EXCEPT ![n] = h]
  PROVE  [m \in Node |-> latest'[m] + 1] = [[m \in Node |-> latest[m] + 1] EXCEPT ![n] = h + 1]
<1>1. latest \in [Node -> 0 .. MaxHeight]
  BY DEF ValInv, StoreInv
<1> DEFINE before == [m \in Node |-> latest[m] + 1]
           after == [before EXCEPT ![n] = h + 1]
<1>2. \A m \in Node : latest'[m] + 1 = IF m = n THEN h + 1 ELSE latest[m] + 1
  BY <1>1
<1>3. \A m \in Node : after[m] = IF m = n THEN h + 1 ELSE latest[m] + 1
  OBVIOUS
<1>4. after = [m \in Node |-> after[m]]
  OBVIOUS
<1>5. \A m \in Node : after[m] = latest'[m] + 1
  BY <1>2, <1>3
<1> HIDE DEF after
<1>6. after = [m \in Node |-> latest'[m] + 1]
  BY <1>4, <1>5
<1> QED
  BY <1>6 DEF after

LEMMA ViewStepFollows ==
  ASSUME ValInv, NEW n \in Node, ViewStep(n)
  PROVE  [VC!Next]_(VC!vcVars)
<1>1. VC!Node = Node
  BY DEF VC!Node, Node
<1>2. CASE \E h \in 1 .. MaxHeight : latest' = [latest EXCEPT ![n] = h]
  <2>1. PICK h \in 1 .. MaxHeight : latest' = [latest EXCEPT ![n] = h]
    BY <1>2
  <2>2. [m \in Node |-> latest'[m] + 1] = [[m \in Node |-> latest[m] + 1] EXCEPT ![n] = h + 1]
    BY <2>1, HeightMoves
  <2>3. h + 1 \in 1 .. MaxHeight + 1
    BY ValidatorAssumption
  <2>4. CASE VC!ResetRound(n)
    <3>1. VC!FinalizeOwn(n, h + 1)
      BY <2>2, <2>4 DEF VC!FinalizeOwn
    <3> QED
      BY <1>1, <2>3, <3>1 DEF VC!Next
  <2>5. CASE UNCHANGED viewVars
    <3>1. VC!ApplyProposal(n, h + 1)
      BY <2>2, <2>5 DEF VC!ApplyProposal, viewVars
    <3> QED
      BY <1>1, <2>3, <3>1 DEF VC!Next
  <2>6. CASE \/ VC!RequestViewChange(n)
             \/ \E vote \in voted : VC!ReceiveViewChange(n, vote)
    BY <1>1, <2>6 DEF VC!Next
  <2> QED
    BY <2>4, <2>5, <2>6 DEF ViewStep
<1>3. CASE UNCHANGED latest
  <2>1. [m \in Node |-> latest'[m] + 1] = [m \in Node |-> latest[m] + 1]
    BY <1>3
  <2>2. CASE UNCHANGED viewVars
    BY <2>1, <2>2 DEF VC!vcVars, viewVars
  <2>3. CASE VC!ResetRound(n)
    <3>1. VC!Restart(n)
      BY <2>1, <2>3 DEF VC!Restart
    <3> QED
      BY <1>1, <3>1 DEF VC!Next
  <2>4. CASE \/ VC!RequestViewChange(n)
             \/ \E vote \in voted : VC!ReceiveViewChange(n, vote)
    BY <1>1, <2>4 DEF VC!Next
  <2> QED
    BY <1>2, <2>2, <2>3, <2>4 DEF ViewStep
<1> QED
  BY <1>2, <1>3 DEF ViewStep

\* The validators implement the view change: among blocks, signatures and
\* kills, a node's round and votes change only by a vote of its timer, a vote
\* received, reset_round or a restart, and its height only by a stored block.
THEOREM ViewChangeImplemented == Spec => FollowsViewChange
<1>1. Init => VC!Init
  <2> SUFFICES ASSUME Init PROVE VC!Init
    OBVIOUS
  <2>1. VC!Node = Node
    BY DEF VC!Node, Node
  <2>2. [n \in Node |-> latest[n] + 1] = [n \in Node |-> 1]
    BY DEF Init
  <2> QED
    BY <2>1, <2>2 DEF Init, VC!Init
<1>2. ValInv /\ [Next]_vars => [VC!Next]_(VC!vcVars)
  <2> SUFFICES ASSUME ValInv, [Next]_vars PROVE [VC!Next]_(VC!vcVars)
    OBVIOUS
  <2>1. CASE Next
    <3>1. PICK n \in Node : NodeStep(n)
      BY <2>1, NextIsNodeStep
    <3> QED
      BY <3>1, ViewStepFollows DEF NodeStep
  <2>2. CASE UNCHANGED vars
    BY <2>2 DEF vars, VC!vcVars
  <2> QED
    BY <2>1, <2>2
<1> QED
  BY <1>1, <1>2, InitValInv, StepKeepsValInv, PTL DEF Spec, FollowsViewChange, VC!Spec

-----------------------------------------------------------------------------
\* What is proved of ViewChange, for the view change between the validators.
VCP == INSTANCE ViewChangeProofs WITH
         MaxHeight <- MaxHeight + 1,
         height <- [n \in Node |-> latest[n] + 1]

LEMMA SameViewChange ==
  /\ VC!Init => VCP!Init
  /\ [VC!Next]_(VC!vcVars) => [VCP!Next]_(VCP!vcVars)
<1>1. VC!Init => VCP!Init
  BY DEF VC!Init, VCP!Init, VC!Node, VCP!Node
<1>2. VC!Next => VCP!Next
  <2>1. \A n, vote : VC!Tally(n, vote) = VCP!Tally(n, vote) /\ VC!OwnVote(n) = VCP!OwnVote(n)
    BY DEF VC!Tally, VCP!Tally, VC!OwnVote, VCP!OwnVote
  <2>2. \A vs, h, r : VC!Voters(vs, h, r) = VCP!Voters(vs, h, r) /\ VC!RetainFrom(vs, h) = VCP!RetainFrom(vs, h)
    BY DEF VC!Voters, VCP!Voters, VC!RetainFrom, VCP!RetainFrom, VC!Node, VCP!Node
  <2>3. \A n, vote : /\ VC!Completes(n, vote) <=> VCP!Completes(n, vote)
                     /\ VC!Adopts(n, vote) <=> VCP!Adopts(n, vote)
    <3> SUFFICES ASSUME NEW n, NEW vote
                 PROVE  /\ VC!Completes(n, vote) <=> VCP!Completes(n, vote)
                        /\ VC!Adopts(n, vote) <=> VCP!Adopts(n, vote)
      OBVIOUS
    <3>1. VC!Voters(VC!Tally(n, vote), vote.height, vote.round) = VCP!Voters(VCP!Tally(n, vote), vote.height, vote.round)
      BY <2>1, <2>2
    <3>2. VC!Completes(n, vote) <=> VCP!Completes(n, vote)
      <4>1. \A S : VC!Cardinality(S) = VCP!Cardinality(S)
        BY DEF VC!Cardinality, VCP!Cardinality
      <4>2. VC!Threshold = VCP!Threshold
        BY DEF VC!Threshold, VCP!Threshold
      <4> QED
        BY <3>1, <4>1, <4>2 DEF VC!Completes, VCP!Completes
    <3> QED
      BY <3>2 DEF VC!Adopts, VCP!Adopts
  <2>4. \A n : VC!RequestViewChange(n) => VCP!RequestViewChange(n)
    BY <2>1, <2>2, <2>3 DEF VC!RequestViewChange, VCP!RequestViewChange, VC!CountVote, VCP!CountVote
  <2>5. \A n, vote : VC!ReceiveViewChange(n, vote) => VCP!ReceiveViewChange(n, vote)
    BY <2>1, <2>2, <2>3 DEF VC!ReceiveViewChange, VCP!ReceiveViewChange, VC!CountVote, VCP!CountVote
  <2>6. \A n, h : /\ VC!FinalizeOwn(n, h) => VCP!FinalizeOwn(n, h)
                  /\ VC!ApplyProposal(n, h) => VCP!ApplyProposal(n, h)
                  /\ VC!Restart(n) => VCP!Restart(n)
    BY DEF VC!FinalizeOwn, VCP!FinalizeOwn, VC!ApplyProposal, VCP!ApplyProposal, VC!Restart, VCP!Restart,
       VC!ResetRound, VCP!ResetRound
  <2> QED
    BY <2>4, <2>5, <2>6 DEF VC!Next, VCP!Next, VC!Node, VCP!Node
<1>3. UNCHANGED VC!vcVars => UNCHANGED VCP!vcVars
  BY DEF VC!vcVars, VCP!vcVars
<1> QED
  BY <1>1, <1>2, <1>3

LEMMA ViewsTyped == Spec => []VC!TypeOK
<1>1. N \in Nat \ {0} /\ MaxHeight + 1 \in Nat \ {0} /\ MaxRound \in Nat
  BY ValidatorAssumption
<1>2. VCP!Spec => []VCP!TypeOK
  BY <1>1, VCP!TypeCorrect
<1>3. VCP!TypeOK => VC!TypeOK
  BY DEF VC!TypeOK, VCP!TypeOK, VC!Node, VCP!Node
<1>4. Spec => VC!Spec
  BY ViewChangeImplemented DEF FollowsViewChange
<1>5. (VC!Init => VCP!Init) /\ ([VC!Next]_(VC!vcVars) => [VCP!Next]_(VCP!vcVars))
  BY SameViewChange
<1>6. VC!Spec => VCP!Spec
  BY <1>5, PTL DEF VC!Spec, VCP!Spec
<1> QED
  BY <1>2, <1>3, <1>4, <1>6, PTL

\* Every variable keeps its type (the view change's follow from ViewChange).
THEOREM ValidatorTypeCorrect == Spec => []TypeOK
<1>1. ValInv /\ VC!TypeOK => TypeOK
  <2> SUFFICES ASSUME ValInv, VC!TypeOK PROVE TypeOK
    OBVIOUS
  <2>1. /\ chain \in [Node -> [0 .. MaxHeight -> Blocks \union {NoBlock}]]
        /\ latest \in [Node -> 0 .. MaxHeight]
    <3>1. /\ chain \in [Node -> [0 .. MaxHeight -> Nat]] /\ latest \in [Node -> 0 .. MaxHeight]
          /\ \A n \in Node, h \in 0 .. MaxHeight : chain[n][h] \in Blocks \union {NoBlock}
      BY DEF ValInv, StoreInv
    <3>2. \A n \in Node : chain[n] \in [0 .. MaxHeight -> Blocks \union {NoBlock}]
      BY <3>1
    <3> QED
      BY <3>1, <3>2
  <2>2. app \in [Node -> [nonce : [Senders -> Nat], done : Seq(Txs)]] /\ pool \in [Node -> Seq(Txs)]
    BY DEF ValInv, LedgerInv, Ledger, AppState
  <2>3. pending \in [Node -> Blocks \union {NoBlock}] /\ sigs \in [Node -> SUBSET Node]
    BY DEF ValInv, PendingInv, PendingOK
  <2>4. proposals \in [Node -> Seq(Blocks)]
    <3>1. proposals \in [Node -> Seq(Nat)]
          /\ \A n \in Node : \A i \in DOMAIN proposals[n] : proposals[n][i] \in Blocks
      BY DEF ValInv, ProposalsInv, ProposalOK
    <3>2. ASSUME NEW n \in Node PROVE proposals[n] \in Seq(Blocks)
      <4>1. /\ proposals[n] \in [1 .. Len(proposals[n]) -> Nat] /\ Len(proposals[n]) \in Nat
            /\ \A i \in 1 .. Len(proposals[n]) : proposals[n][i] \in Blocks
        BY <3>1, LenProperties
      <4>2. proposals[n] \in [1 .. Len(proposals[n]) -> Blocks]
        BY <4>1
      <4> QED
        BY <4>1, <4>2, SeqDef
    <3> QED
      BY <3>1, <3>2
  <2>5. \A b \in Blocks :
          /\ headers[b].height \in 0 .. MaxHeight
          /\ headers[b].prev \in Blocks \union {NoBlock}
          /\ headers[b].height > 0 => headers[b].prev # NoBlock
          /\ headers[b].txs \in Seq(Txs)
          /\ headers[b].proposer \in Node
    BY HeaderType DEF ValInv, WorldInv, HeaderOK, Header
  <2>6. /\ signed \subseteq Node \X Blocks /\ todo \subseteq Submissions
        /\ pc \in [Node -> {"drain", "proposals", "produce"}]
        /\ discards \in 0 .. MaxDiscards /\ crashes \in 0 .. MaxCrashes
    BY DEF ValInv, WorldInv, CountersInv
  <2> QED
    BY <2>1, <2>2, <2>3, <2>4, <2>5, <2>6 DEF TypeOK
<1> QED
  BY <1>1, ValInvariance, ViewsTyped, PTL
=============================================================================
