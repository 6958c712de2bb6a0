---------------------------- MODULE LedgerProofs ----------------------------
(***************************************************************************)
(* What executing transactions does to the state of a node, for any        *)
(* sequences of transactions: lemmas about the recursive functions of      *)
(* NonceLedger. Induction is done with the least element of a set of       *)
(* natural numbers: the lengths for which the claim fails have none.       *)
(***************************************************************************)
EXTENDS NonceLedger, SequenceTheorems, WellFoundedInduction, TLAPS

LEMMA LeastElement ==
  ASSUME NEW T, T \subseteq Nat, T # {}
  PROVE  \E m \in T : \A k \in T : m <= k
<1> DEFINE R == OpToRel(<, Nat)
<1>1. IsWellFoundedOn(R, Nat)
  BY NatLessThanWellFounded
<1>2. \A x, y \in Nat : x < y => <<x, y>> \in R
  BY DEF OpToRel
<1> HIDE DEF R
<1>3. \E m \in T : \A k \in T : ~(<<k, m>> \in R)
  BY <1>1, WFMin
<1>4. \A x, y \in Nat : ~(x < y) => y <= x
  OBVIOUS
<1> QED
  BY <1>2, <1>3, <1>4

\* Induction: a set of numbers up to n with 0 and, with each below n, the next.
LEMMA Induction ==
  ASSUME NEW n \in Nat, NEW T, 0 \in T,
         \A i \in 1 .. n : i - 1 \in T => i \in T
  PROVE  0 .. n \subseteq T
<1> DEFINE U == (0 .. n) \ T
<1> SUFFICES ASSUME U # {} PROVE FALSE
  OBVIOUS
<1>1. PICK m \in U : \A k \in U : m <= k
  <2>1. U \subseteq Nat
    OBVIOUS
  <2> HIDE DEF U
  <2> QED
    BY <2>1, LeastElement
<1>2. m \in 1 .. n /\ m - 1 \in 0 .. n /\ ~(m <= m - 1)
  OBVIOUS
<1>3. m - 1 \notin U
  BY <1>1, <1>2
<1> QED
  BY <1>2, <1>3

\* A function that takes n steps through S from s, each by G, exists: f[i] is
\* where it is after i steps.
IsStep(G, n, S) == G \in [S \X (1 .. n) -> S]

FollowsSteps(f, G, n, S, s) ==
  /\ f \in [0 .. n -> S] /\ f[0] = s
  /\ \A i \in 1 .. n : f[i] = G[<<f[i - 1], i>>]

LEMMA Recursion ==
  ASSUME NEW n \in Nat, NEW S, NEW s \in S, NEW G, IsStep(G, n, S)
  PROVE  \E f : FollowsSteps(f, G, n, S, s)
<1> USE DEF IsStep, FollowsSteps
<1> DEFINE Steps(f, k) == FollowsSteps(f, G, k, S, s)
           T == {k \in 0 .. n : \E f : Steps(f, k)}
<1>1. 0 \in T
  <2> DEFINE f == [i \in 0 .. 0 |-> s]
  <2>1. f \in [0 .. 0 -> S] /\ f[0] = s /\ \A i \in 1 .. 0 : FALSE
    OBVIOUS
  <2> HIDE DEF f
  <2>2. Steps(f, 0)
    BY <2>1
  <2> QED
    BY <2>2
<1>2. ASSUME NEW m \in 1 .. n, m - 1 \in T PROVE m \in T
  <2>1. PICK f : Steps(f, m - 1)
    BY <1>2
  <2> DEFINE g == [i \in 0 .. m |-> IF i = m THEN G[<<f[m - 1], m>>] ELSE f[i]]
  <2>2. f[m - 1] \in S
    BY <2>1
  <2>3. g \in [0 .. m -> S]
    <3>1. G[<<f[m - 1], m>>] \in S
      BY <2>2
    <3>2. \A i \in 0 .. m : i = m \/ i \in 0 .. m - 1
      OBVIOUS
    <3>3. \A i \in 0 .. m - 1 : f[i] \in S
      BY <2>1
    <3> HIDE DEF Steps
    <3> QED
      BY <3>1, <3>2, <3>3
  <2>4. g[0] = s
    BY <2>1
  <2>5. ASSUME NEW i \in 1 .. m PROVE g[i] = G[<<g[i - 1], i>>]
    <3>1. i - 1 \in 0 .. m /\ i - 1 # m
      OBVIOUS
    <3>2. g[i - 1] = f[i - 1]
      BY <3>1
    <3>3. CASE i = m
      <4>1. g[m] = G[<<f[m - 1], m>>]
        OBVIOUS
      <4> QED
        BY <3>2, <3>3, <4>1
    <3>4. CASE i # m
      <4>1. i \in 1 .. m - 1 /\ g[i] = f[i]
        BY <3>4
      <4> QED
        BY <2>1, <3>2, <4>1
    <3> QED
      BY <3>3, <3>4
  <2> HIDE DEF g
  <2>6. Steps(g, m)
    BY <2>3, <2>4, <2>5
  <2> QED
    BY <2>6
<1>3. n \in T
  <2> HIDE DEF T
  <2>1. 0 .. n \subseteq T
    BY <1>1, <1>2, Induction
  <2> QED
    BY <2>1
<1> QED
  BY <1>3

-----------------------------------------------------------------------------
\* One transaction.
AppState == [nonce : [Senders -> Nat], done : Seq(Txs)]

LEMMA TxType ==
  ASSUME NEW tx \in Txs
  PROVE  tx.sender \in Senders /\ tx.nonce \in Nat
BY TxsAssumption DEF Senders

LEMMA ExecuteFields ==
  ASSUME NEW s \in AppState, NEW tx \in Txs
  PROVE  /\ Execute(s, tx) \in AppState
         /\ Execute(s, tx).nonce = IF NonceFresh(s, tx) THEN [s.nonce EXCEPT ![tx.sender] = tx.nonce] ELSE s.nonce
         /\ Execute(s, tx).done = IF Succeeds(s, tx) THEN Append(s.done, tx) ELSE s.done
<1> DEFINE t == SetNonce(s, tx)
<1>1. t \in AppState /\ t.nonce = [s.nonce EXCEPT ![tx.sender] = tx.nonce] /\ t.done = s.done
  BY TxType DEF SetNonce, AppState
<1> HIDE DEF t
<1>2. Append(s.done, tx) \in Seq(Txs)
  BY AppendProperties DEF AppState
<1>3. CASE ~NonceFresh(s, tx)
  BY <1>3 DEF Execute, Succeeds
<1>4. CASE NonceFresh(s, tx) /\ tx \in Refused
  <2>1. Execute(s, tx) = t
    BY <1>4 DEF Execute, t
  <2> QED
    BY <1>1, <1>4, <2>1 DEF Succeeds
<1>5. CASE NonceFresh(s, tx) /\ tx \notin Refused
  <2>1. Execute(s, tx) = [t EXCEPT !.done = Append(@, tx)]
    BY <1>5 DEF Execute, t
  <2>2. Execute(s, tx) = [t EXCEPT !.done = Append(s.done, tx)]
    BY <1>1, <2>1
  <2>3. Execute(s, tx) \in AppState /\ Execute(s, tx).nonce = t.nonce /\ Execute(s, tx).done = Append(s.done, tx)
    BY <1>1, <1>2, <2>2 DEF AppState
  <2> QED
    BY <1>1, <1>5, <2>3 DEF Succeeds
<1> QED
  BY <1>3, <1>4, <1>5

\* What replay protection keeps: the transactions that took effect are in the
\* order of their nonces, and the nonce of each sender is past them.
InOrder(s) ==
  /\ \A i \in DOMAIN s.done : s.done[i].nonce <= s.nonce[s.done[i].sender]
  /\ \A i, j \in DOMAIN s.done :
       i < j /\ s.done[i].sender = s.done[j].sender => s.done[i].nonce < s.done[j].nonce

Ledger == {s \in AppState : InOrder(s)}

\* No nonce goes back from s to t.
NoncesGrow(s, t) == \A a \in Senders : s.nonce[a] <= t.nonce[a]

LEMMA ExecuteKeepsLedger ==
  ASSUME NEW s \in Ledger, NEW tx \in Txs
  PROVE  /\ Execute(s, tx) \in Ledger /\ NoncesGrow(s, Execute(s, tx))
         /\ tx.nonce <= Execute(s, tx).nonce[tx.sender]
         /\ NonceFresh(s, tx) => SetNonce(s, tx) \in Ledger
<1> DEFINE t == Execute(s, tx)
<1>1. s \in AppState /\ InOrder(s) /\ tx.sender \in Senders /\ tx.nonce \in Nat
  BY TxType DEF Ledger
<1>2. /\ t \in AppState
      /\ t.nonce = IF NonceFresh(s, tx) THEN [s.nonce EXCEPT ![tx.sender] = tx.nonce] ELSE s.nonce
      /\ t.done = IF Succeeds(s, tx) THEN Append(s.done, tx) ELSE s.done
  BY <1>1, ExecuteFields
<1> HIDE DEF t
<1>3. /\ s.nonce \in [Senders -> Nat] /\ t.nonce \in [Senders -> Nat] /\ s.done \in Seq(Txs)
      /\ DOMAIN s.done = 1 .. Len(s.done) /\ Len(s.done) \in Nat
  BY <1>1, <1>2, LenProperties DEF AppState
<1>4. \A i \in DOMAIN s.done : s.done[i] \in Txs /\ s.done[i].sender \in Senders /\ s.done[i].nonce \in Nat
  <2>1. \A i \in DOMAIN s.done : s.done[i] \in Txs
    BY <1>3
  <2> QED
    BY <2>1, TxType
<1>5. NoncesGrow(s, t) /\ tx.nonce <= t.nonce[tx.sender]
  BY <1>1, <1>2, <1>3 DEF NoncesGrow, NonceFresh
<1>6. \A i \in DOMAIN s.done : s.done[i].nonce <= t.nonce[s.done[i].sender]
  <2>1. ASSUME NEW i \in DOMAIN s.done PROVE s.done[i].nonce <= t.nonce[s.done[i].sender]
    <3>1. s.done[i].nonce <= s.nonce[s.done[i].sender]
      BY <1>1 DEF InOrder
    <3>2. s.nonce[s.done[i].sender] <= t.nonce[s.done[i].sender]
      BY <1>4, <1>5 DEF NoncesGrow
    <3> QED
      BY <1>3, <1>4, <3>1, <3>2
  <2> QED
    BY <2>1
<1>7. InOrder(t)
  <2>1. CASE ~Succeeds(s, tx)
    BY <1>1, <1>2, <1>6, <2>1 DEF InOrder
  <2>2. CASE Succeeds(s, tx)
    <3> DEFINE k == Len(s.done) + 1
    <3>1. /\ t.done = Append(s.done, tx) /\ DOMAIN t.done = 1 .. k
          /\ \A i \in DOMAIN s.done : t.done[i] = s.done[i]
          /\ t.done[k] = tx
      BY <1>2, <1>3, <2>2, AppendProperties, LenProperties
    <3>2. \A i \in DOMAIN t.done : i \in DOMAIN s.done \/ i = k
      BY <1>3, <3>1
    <3>3. \A i \in DOMAIN t.done : t.done[i].nonce <= t.nonce[t.done[i].sender]
      BY <1>5, <1>6, <3>1, <3>2
    <3>4. ASSUME NEW i \in DOMAIN t.done, NEW j \in DOMAIN t.done, i < j, t.done[i].sender = t.done[j].sender
          PROVE  t.done[i].nonce < t.done[j].nonce
      <4>1. i \in DOMAIN s.done /\ t.done[i] = s.done[i]
        BY <1>3, <3>1, <3>4
      <4>2. CASE j = k
        <5>1. t.done[j] = tx /\ s.done[i].sender = tx.sender
          BY <3>1, <3>4, <4>1, <4>2
        <5>2. s.done[i].nonce <= s.nonce[tx.sender] /\ s.nonce[tx.sender] < tx.nonce
          BY <1>1, <1>3, <2>2, <4>1, <5>1 DEF InOrder, Succeeds, NonceFresh
        <5> QED
          BY <1>1, <1>3, <1>4, <4>1, <5>1, <5>2
      <4>3. CASE j # k
        BY <1>1, <3>1, <3>2, <3>4, <4>1, <4>3 DEF InOrder
      <4> QED
        BY <4>2, <4>3
    <3> QED
      BY <3>3, <3>4 DEF InOrder
  <2> QED
    BY <2>1, <2>2
<1>8. ASSUME NonceFresh(s, tx) PROVE SetNonce(s, tx) \in Ledger
  <2> DEFINE u == SetNonce(s, tx)
  <2>1. u \in AppState /\ u.nonce = [s.nonce EXCEPT ![tx.sender] = tx.nonce] /\ u.done = s.done
    BY <1>1 DEF SetNonce, AppState
  <2> HIDE DEF u
  <2>2. u.nonce = t.nonce
    BY <1>2, <1>8, <2>1
  <2>3. InOrder(u)
    BY <1>1, <1>6, <2>1, <2>2 DEF InOrder
  <2> QED
    BY <2>1, <2>3 DEF Ledger, u
<1> QED
  BY <1>2, <1>5, <1>7, <1>8 DEF Ledger, t

-----------------------------------------------------------------------------
\* The states along the execution of a sequence of transactions: ExecuteAll is
\* defined by recursion, and the function that satisfies its equation exists.
LEMMA ExecuteAllSteps ==
  ASSUME NEW s \in AppState, NEW txs \in Seq(Txs)
  PROVE  /\ ExecuteAll(s, txs)[0] = s
         /\ \A i \in 1 .. Len(txs) : ExecuteAll(s, txs)[i] = Execute(ExecuteAll(s, txs)[i - 1], txs[i])
<1> DEFINE n == Len(txs)
           Along(f) == f = [i \in 0 .. n |-> IF i = 0 THEN s ELSE Execute(f[i - 1], txs[i])]
           G == [x \in AppState \X (1 .. n) |-> Execute(x[1], txs[x[2]])]
           E == ExecuteAll(s, txs)
<1>1. n \in Nat /\ \A i \in 1 .. n : txs[i] \in Txs
  BY LenProperties, ElementOfSeq
<1>2. IsStep(G, n, AppState)
  BY <1>1, ExecuteFields DEF IsStep
<1>3. \A x \in AppState, i \in 1 .. n : G[<<x, i>>] = Execute(x, txs[i])
  OBVIOUS
<1>4. E = CHOOSE f : Along(f)
  BY DEF ExecuteAll
<1> HIDE DEF G, E, n
<1>5. PICK f : f \in [0 .. n -> AppState] /\ f[0] = s /\ \A i \in 1 .. n : f[i] = G[<<f[i - 1], i>>]
  <2>1. \E f : FollowsSteps(f, G, n, AppState, s)
    BY <1>1, <1>2, Recursion
  <2> QED
    BY <2>1 DEF FollowsSteps
<1>6. \A i \in 0 .. n : f[i] = IF i = 0 THEN s ELSE Execute(f[i - 1], txs[i])
  <2>1. ASSUME NEW i \in 0 .. n, i # 0 PROVE f[i] = Execute(f[i - 1], txs[i])
    <3>1. i \in 1 .. n /\ i - 1 \in 0 .. n
      BY <1>1, <2>1
    <3>2. f[i - 1] \in AppState
      BY <1>5, <3>1
    <3> QED
      BY <1>3, <1>5, <3>1, <3>2
  <2> QED
    BY <1>5, <2>1
<1>7. Along(f)
  <2>1. f = [i \in 0 .. n |-> f[i]]
    BY <1>5
  <2> QED
    BY <1>6, <2>1
<1>8. Along(E)
  <2> HIDE DEF Along
  <2> QED
    BY <1>4, <1>7
<1>9. E[0] = s /\ \A i \in 1 .. n : E[i] = Execute(E[i - 1], txs[i])
  BY <1>1, <1>8
<1> QED
  BY <1>9 DEF E, n

LEMMA ExecuteAllLedger ==
  ASSUME NEW s \in Ledger, NEW txs \in Seq(Txs)
  PROVE  \A i \in 0 .. Len(txs) :
           /\ ExecuteAll(s, txs)[i] \in Ledger /\ NoncesGrow(s, ExecuteAll(s, txs)[i])
           /\ \A j \in 1 .. i : txs[j].nonce <= ExecuteAll(s, txs)[i].nonce[txs[j].sender]
<1> DEFINE n == Len(txs)
           E == ExecuteAll(s, txs)
           T == {i \in 0 .. n : /\ E[i] \in Ledger /\ NoncesGrow(s, E[i])
                                /\ \A j \in 1 .. i : txs[j].nonce <= E[i].nonce[txs[j].sender]}
<1>1. n \in Nat /\ \A i \in 1 .. n : txs[i] \in Txs /\ txs[i].sender \in Senders /\ txs[i].nonce \in Nat
  BY LenProperties, ElementOfSeq, TxType
<1>2. E[0] = s /\ \A i \in 1 .. n : E[i] = Execute(E[i - 1], txs[i])
  BY ExecuteAllSteps DEF Ledger
<1> HIDE DEF n, E
<1>3. \A t \in Ledger : t.nonce \in [Senders -> Nat]
  BY DEF Ledger, AppState
<1>4. 0 \in T
  BY <1>1, <1>2, <1>3 DEF NoncesGrow
<1>5. ASSUME NEW i \in 1 .. n, i - 1 \in T PROVE i \in T
  <2>1. E[i - 1] \in Ledger /\ NoncesGrow(s, E[i - 1]) /\ E[i] = Execute(E[i - 1], txs[i])
    BY <1>2, <1>5
  <2>2. E[i] \in Ledger /\ NoncesGrow(E[i - 1], E[i]) /\ txs[i].nonce <= E[i].nonce[txs[i].sender]
    BY <1>1, <2>1, ExecuteKeepsLedger
  <2>3. NoncesGrow(s, E[i])
    <3>1. ASSUME NEW a \in Senders PROVE s.nonce[a] <= E[i].nonce[a]
      <4>1. s.nonce[a] \in Nat /\ E[i - 1].nonce[a] \in Nat /\ E[i].nonce[a] \in Nat
        BY <1>3, <2>1, <2>2
      <4>2. s.nonce[a] <= E[i - 1].nonce[a] /\ E[i - 1].nonce[a] <= E[i].nonce[a]
        BY <2>1, <2>2 DEF NoncesGrow
      <4> QED
        BY <4>1, <4>2
    <3> QED
      BY <3>1 DEF NoncesGrow
  <2>4. ASSUME NEW j \in 1 .. i, j # i PROVE txs[j].nonce <= E[i].nonce[txs[j].sender]
    <3>1. j \in 1 .. i - 1 /\ j \in 1 .. n
      BY <1>1, <2>4
    <3>2. txs[j].nonce <= E[i - 1].nonce[txs[j].sender]
      BY <1>5, <3>1
    <3>3. E[i - 1].nonce[txs[j].sender] <= E[i].nonce[txs[j].sender]
      BY <1>1, <2>2, <3>1 DEF NoncesGrow
    <3>4. txs[j].nonce \in Nat /\ E[i - 1].nonce[txs[j].sender] \in Nat /\ E[i].nonce[txs[j].sender] \in Nat
      BY <1>1, <1>3, <2>1, <2>2, <3>1
    <3> QED
      BY <3>2, <3>3, <3>4
  <2>5. i \in 0 .. n
    OBVIOUS
  <2> QED
    BY <2>2, <2>3, <2>4, <2>5
<1>6. 0 .. n \subseteq T
  <2> HIDE DEF T
  <2> QED
    BY <1>1, <1>4, <1>5, Induction
<1> QED
  BY <1>6 DEF n, E

\* What a kill in the middle of executing leaves behind.
LEMMA CrashStatesLedger ==
  ASSUME NEW s \in Ledger, NEW txs \in Seq(Txs), NEW t \in CrashStates(s, txs)
  PROVE  t \in Ledger
<1> DEFINE E == ExecuteAll(s, txs)
<1>1. Len(txs) \in Nat /\ \A i \in 1 .. Len(txs) : txs[i] \in Txs
  BY LenProperties, ElementOfSeq
<1>2. \A i \in 0 .. Len(txs) : E[i] \in Ledger
  BY ExecuteAllLedger
<1>3. \/ \E i \in 0 .. Len(txs) : t = E[i]
      \/ \E i \in 1 .. Len(txs) : NonceFresh(E[i - 1], txs[i]) /\ t = SetNonce(E[i - 1], txs[i])
  BY DEF CrashStates
<1> HIDE DEF E
<1>4. ASSUME NEW i \in 1 .. Len(txs), NonceFresh(E[i - 1], txs[i]), t = SetNonce(E[i - 1], txs[i])
      PROVE  t \in Ledger
  <2>1. E[i - 1] \in Ledger
    BY <1>1, <1>2
  <2> QED
    BY <1>1, <1>4, <2>1, ExecuteKeepsLedger
<1> QED
  BY <1>2, <1>3, <1>4

\* K[i] is what a proposer keeps of the first i transactions.
KeepsValid(K, s, txs) ==
  /\ K[0] = <<>> /\ Valid(s, txs) = K[Len(txs)]
  /\ \A i \in 0 .. Len(txs) : K[i] \in Seq(Txs)
  /\ \A i \in 1 .. Len(txs) :
       K[i] = IF Succeeds(ExecuteAll(s, txs)[i - 1], txs[i]) THEN Append(K[i - 1], txs[i]) ELSE K[i - 1]

LEMMA ValidSteps ==
  ASSUME NEW s \in AppState, NEW txs \in Seq(Txs)
  PROVE  \E K : KeepsValid(K, s, txs)
<1> DEFINE n == Len(txs)
           E == ExecuteAll(s, txs)
           Keeps(f) == f = [i \in 0 .. n |->
                              IF i = 0 THEN <<>>
                              ELSE IF Succeeds(E[i - 1], txs[i]) THEN Append(f[i - 1], txs[i]) ELSE f[i - 1]]
           G == [x \in Seq(Txs) \X (1 .. n) |->
                   IF Succeeds(E[x[2] - 1], txs[x[2]]) THEN Append(x[1], txs[x[2]]) ELSE x[1]]
           K == CHOOSE f : Keeps(f)
<1>1. n \in Nat /\ \A i \in 1 .. n : txs[i] \in Txs
  BY LenProperties, ElementOfSeq
<1>2. Valid(s, txs) = K[n]
  BY DEF Valid
<1> HIDE DEF E
<1>3. \A x \in Seq(Txs), i \in 1 .. n :
        G[<<x, i>>] = IF Succeeds(E[i - 1], txs[i]) THEN Append(x, txs[i]) ELSE x
  OBVIOUS
<1>4. IsStep(G, n, Seq(Txs))
  <2>1. \A x \in Seq(Txs), i \in 1 .. n : Append(x, txs[i]) \in Seq(Txs)
    BY <1>1, AppendProperties
  <2> QED
    BY <2>1 DEF IsStep
<1> HIDE DEF G, n
<1>5. PICK f : f \in [0 .. n -> Seq(Txs)] /\ f[0] = <<>> /\ \A i \in 1 .. n : f[i] = G[<<f[i - 1], i>>]
  <2>1. <<>> \in Seq(Txs)
    OBVIOUS
  <2>2. \E f : FollowsSteps(f, G, n, Seq(Txs), <<>>)
    BY <1>1, <1>4, <2>1, Recursion
  <2> QED
    BY <2>2 DEF FollowsSteps
<1>6. Keeps(f)
  <2>1. ASSUME NEW i \in 0 .. n, i # 0
        PROVE  f[i] = IF Succeeds(E[i - 1], txs[i]) THEN Append(f[i - 1], txs[i]) ELSE f[i - 1]
    <3>1. i \in 1 .. n /\ i - 1 \in 0 .. n
      BY <1>1, <2>1
    <3>2. f[i - 1] \in Seq(Txs)
      BY <1>5, <3>1
    <3> QED
      BY <1>3, <1>5, <3>1, <3>2
  <2>2. \A i \in 0 .. n : f[i] = IF i = 0 THEN <<>>
                                 ELSE IF Succeeds(E[i - 1], txs[i]) THEN Append(f[i - 1], txs[i]) ELSE f[i - 1]
    BY <1>5, <2>1
  <2>3. f = [i \in 0 .. n |-> f[i]]
    BY <1>5
  <2> QED
    BY <2>2, <2>3
<1>7. Keeps(K)
  <2> HIDE DEF Keeps
  <2> QED
    BY <1>6
<1> HIDE DEF K
<1>8. K[0] = <<>> /\ 0 \in 0 .. n
  BY <1>1, <1>7
<1>9. ASSUME NEW i \in 1 .. n
      PROVE  K[i] = IF Succeeds(E[i - 1], txs[i]) THEN Append(K[i - 1], txs[i]) ELSE K[i - 1]
  <2>1. i \in 0 .. n /\ i # 0
    OBVIOUS
  <2> QED
    BY <1>7, <2>1
<1> DEFINE T == {i \in 0 .. n : K[i] \in Seq(Txs)}
<1>10. ASSUME NEW i \in 1 .. n, i - 1 \in T PROVE i \in T
  <2>1. i \in 0 .. n /\ K[i - 1] \in Seq(Txs)
    BY <1>10
  <2>2. Append(K[i - 1], txs[i]) \in Seq(Txs)
    BY <1>1, <2>1, AppendProperties
  <2>3. K[i] \in Seq(Txs)
    BY <1>9, <2>1, <2>2
  <2> QED
    BY <2>1, <2>3
<1>11. 0 .. n \subseteq T
  <2>1. <<>> \in Seq(Txs)
    OBVIOUS
  <2>2. 0 \in T
    BY <1>8, <2>1
  <2> HIDE DEF T
  <2> QED
    BY <1>1, <1>10, <2>2, Induction
<1>12. \A i \in 0 .. n : K[i] \in Seq(Txs)
  BY <1>11
<1> HIDE DEF T
<1>13. KeepsValid(K, s, txs)
  BY <1>2, <1>8, <1>9, <1>12 DEF KeepsValid, E, n
<1> QED
  BY <1>13

\* The transactions a proposer keeps are among those it has.
LEMMA ValidType ==
  ASSUME NEW s \in AppState, NEW txs \in Seq(Txs)
  PROVE  Valid(s, txs) \in Seq(Txs)
<1>1. PICK K : KeepsValid(K, s, txs)
  BY ValidSteps
<1>2. Len(txs) \in 0 .. Len(txs)
  BY LenProperties
<1> QED
  BY <1>1, <1>2 DEF KeepsValid

-----------------------------------------------------------------------------
\* The state after all of txs.
Final(s, txs) == ExecuteAll(s, txs)[Len(txs)]

LEMMA FinalLedger ==
  ASSUME NEW s \in Ledger, NEW txs \in Seq(Txs)
  PROVE  Final(s, txs) \in Ledger
<1>1. Len(txs) \in 0 .. Len(txs)
  BY LenProperties
<1> QED
  BY <1>1, ExecuteAllLedger DEF Final

LEMMA FinalAppend ==
  ASSUME NEW s \in Ledger, NEW txs \in Seq(Txs), NEW tx \in Txs
  PROVE  Final(s, Append(txs, tx)) = Execute(Final(s, txs), tx)
<1> DEFINE n == Len(txs)
           more == Append(txs, tx)
           E == ExecuteAll(s, txs)
           F == ExecuteAll(s, more)
           T == {i \in 0 .. n : F[i] = E[i]}
<1>1. /\ n \in Nat /\ more \in Seq(Txs) /\ Len(more) = n + 1 /\ more[n + 1] = tx
      /\ \A i \in 1 .. n : more[i] = txs[i]
  BY AppendProperties, LenProperties
<1>2. E[0] = s /\ \A i \in 1 .. n : E[i] = Execute(E[i - 1], txs[i])
  BY ExecuteAllSteps DEF Ledger
<1>3. F[0] = s /\ \A i \in 1 .. Len(more) : F[i] = Execute(F[i - 1], more[i])
  BY <1>1, ExecuteAllSteps DEF Ledger
<1>4. Final(s, txs) = E[n] /\ Final(s, more) = F[Len(more)]
  BY DEF Final
<1> HIDE DEF E, F, n, more
<1>5. 0 \in T
  BY <1>1, <1>2, <1>3
<1>6. \A i \in 1 .. n : i - 1 \in T => i \in T
  BY <1>1, <1>2, <1>3
<1>7. 0 .. n \subseteq T
  <2> HIDE DEF T
  <2> QED
    BY <1>1, <1>5, <1>6, Induction
<1>8. F[n] = E[n] /\ n + 1 \in 1 .. n + 1 /\ (n + 1) - 1 = n
  BY <1>1, <1>7
<1>9. F[n + 1] = Execute(F[n], tx)
  BY <1>1, <1>3, <1>8
<1>10. Final(s, more) = Execute(Final(s, txs), tx)
  BY <1>1, <1>4, <1>8, <1>9
<1> QED
  BY <1>10 DEF more

\* Nodes with the same state root have the same one after a transaction.
LEMMA SameRootStep ==
  ASSUME NEW s \in AppState, NEW t \in AppState, StateRoot(s) = StateRoot(t), NEW tx \in Txs
  PROVE  StateRoot(Execute(s, tx)) = StateRoot(Execute(t, tx))
<1> DEFINE x == Execute(s, tx)
           y == Execute(t, tx)
<1>1. s.nonce = t.nonce /\ ToSet(s.done) = ToSet(t.done)
  BY DEF StateRoot
<1>2. (NonceFresh(s, tx) <=> NonceFresh(t, tx)) /\ (Succeeds(s, tx) <=> Succeeds(t, tx))
  BY <1>1 DEF NonceFresh, Succeeds
<1>3. /\ x.nonce = IF NonceFresh(s, tx) THEN [s.nonce EXCEPT ![tx.sender] = tx.nonce] ELSE s.nonce
      /\ x.done = IF Succeeds(s, tx) THEN Append(s.done, tx) ELSE s.done
  BY ExecuteFields
<1>4. /\ y.nonce = IF NonceFresh(t, tx) THEN [t.nonce EXCEPT ![tx.sender] = tx.nonce] ELSE t.nonce
      /\ y.done = IF Succeeds(t, tx) THEN Append(t.done, tx) ELSE t.done
  BY ExecuteFields
<1> HIDE DEF x, y
<1>5. ASSUME NEW d \in Seq(Txs) PROVE ToSet(Append(d, tx)) = ToSet(d) \union {tx}
  <2> DEFINE e == Append(d, tx)
  <2>1. /\ DOMAIN d = 1 .. Len(d) /\ DOMAIN e = 1 .. Len(d) + 1 /\ Len(d) \in Nat
        /\ e[Len(d) + 1] = tx
        /\ \A i \in 1 .. Len(d) : e[i] = d[i]
    BY AppendProperties, LenProperties
  <2> HIDE DEF e
  <2>2. Len(d) + 1 \in DOMAIN e /\ \A i \in DOMAIN d : i \in DOMAIN e /\ e[i] = d[i]
    BY <2>1
  <2>3. \A i \in DOMAIN e : i \in DOMAIN d \/ i = Len(d) + 1
    BY <2>1
  <2>4. ToSet(e) = {e[i] : i \in DOMAIN e} /\ ToSet(d) = {d[i] : i \in DOMAIN d}
    BY DEF ToSet
  <2>5. ToSet(e) = ToSet(d) \union {tx}
    BY <2>1, <2>2, <2>3, <2>4
  <2> QED
    BY <2>5 DEF e
<1>6. s.done \in Seq(Txs) /\ t.done \in Seq(Txs)
  BY DEF AppState
<1>7. x.nonce = y.nonce
  BY <1>1, <1>2, <1>3, <1>4
<1>8. ToSet(x.done) = ToSet(y.done)
  BY <1>1, <1>2, <1>3, <1>4, <1>5, <1>6
<1>9. StateRoot(x) = StateRoot(y)
  BY <1>7, <1>8 DEF StateRoot
<1> QED
  BY <1>9 DEF x, y

\* Where no payload is refused, a node that executes the transactions a
\* proposer kept gets to the state root the proposer got to with all of its
\* pool, if the two started from the same state root.
LEMMA KeptSameRoot ==
  ASSUME Refused = {}, NEW s \in Ledger, NEW t \in Ledger, StateRoot(s) = StateRoot(t),
         NEW txs \in Seq(Txs)
  PROVE  StateRoot(Final(s, Valid(t, txs))) = StateRoot(Final(t, txs))
<1> DEFINE n == Len(txs)
           E == ExecuteAll(t, txs)
<1>1. PICK K : KeepsValid(K, t, txs)
  BY ValidSteps DEF Ledger
<1>2. /\ n \in Nat /\ \A i \in 1 .. n : txs[i] \in Txs
      /\ E[0] = t /\ \A i \in 1 .. n : E[i] = Execute(E[i - 1], txs[i])
  BY LenProperties, ElementOfSeq, ExecuteAllSteps DEF Ledger
<1>3. /\ K[0] = <<>> /\ Valid(t, txs) = K[n]
      /\ \A i \in 0 .. n : K[i] \in Seq(Txs)
      /\ \A i \in 1 .. n : K[i] = IF Succeeds(E[i - 1], txs[i]) THEN Append(K[i - 1], txs[i]) ELSE K[i - 1]
  BY <1>1 DEF KeepsValid
<1>4. \A i \in 0 .. n : E[i] \in Ledger
  BY ExecuteAllLedger
<1>5. Final(t, txs) = E[n]
  BY DEF Final
<1> HIDE DEF n, E
<1> DEFINE T == {i \in 0 .. n : StateRoot(Final(s, K[i])) = StateRoot(E[i])}
<1>6. 0 \in T
  <2>1. <<>> \in Seq(Txs) /\ Len(<<>>) = 0
    OBVIOUS
  <2>2. Final(s, <<>>) = s
    BY <2>1, ExecuteAllSteps DEF Final, Ledger
  <2> QED
    BY <1>2, <1>3, <2>2
<1>7. ASSUME NEW i \in 1 .. n, i - 1 \in T PROVE i \in T
  <2>1. i \in 0 .. n /\ i - 1 \in 0 .. n /\ txs[i] \in Txs /\ K[i - 1] \in Seq(Txs)
    BY <1>2, <1>3
  <2> DEFINE a == Final(s, K[i - 1])
             b == E[i - 1]
  <2>2. a \in Ledger /\ b \in Ledger /\ StateRoot(a) = StateRoot(b) /\ E[i] = Execute(b, txs[i])
    BY <1>2, <1>4, <1>7, <2>1, FinalLedger
  <2>3. CASE Succeeds(b, txs[i])
    <3>1. K[i] = Append(K[i - 1], txs[i])
      BY <1>3, <2>3
    <3>2. Final(s, K[i]) = Execute(a, txs[i])
      BY <2>1, <3>1, FinalAppend
    <3> HIDE DEF a, b
    <3>3. StateRoot(Execute(a, txs[i])) = StateRoot(Execute(b, txs[i]))
      BY <2>1, <2>2, SameRootStep DEF Ledger
    <3> QED
      BY <2>1, <2>2, <3>2, <3>3
  <2>4. CASE ~Succeeds(b, txs[i])
    <3>1. K[i] = K[i - 1]
      BY <1>3, <2>4
    <3> HIDE DEF b
    <3>2. Execute(b, txs[i]) = b
      BY <2>4 DEF Execute, Succeeds
    <3> QED
      BY <2>1, <2>2, <3>1, <3>2
  <2> QED
    BY <2>3, <2>4
<1>8. 0 .. n \subseteq T
  <2> HIDE DEF T
  <2> QED
    BY <1>2, <1>6, <1>7, Induction
<1>9. StateRoot(Final(s, K[n])) = StateRoot(E[n])
  BY <1>2, <1>8
<1> QED
  BY <1>3, <1>5, <1>9

\* Executing a sequence a second time, from where it leads, changes nothing:
\* its nonces are all used.
LEMMA AgainNothing ==
  ASSUME NEW s \in Ledger, NEW t \in Ledger, NEW txs \in Seq(Txs), StateRoot(t) = StateRoot(Final(s, txs))
  PROVE  Final(t, txs) = t
<1> DEFINE n == Len(txs)
           F == ExecuteAll(t, txs)
           T == {i \in 0 .. n : F[i] = t}
<1>1. n \in Nat /\ \A i \in 1 .. n : txs[i] \in Txs /\ txs[i].sender \in Senders /\ txs[i].nonce \in Nat
  BY LenProperties, ElementOfSeq, TxType
<1>2. F[0] = t /\ \A i \in 1 .. n : F[i] = Execute(F[i - 1], txs[i])
  BY ExecuteAllSteps DEF Ledger
<1>3. t.nonce = Final(s, txs).nonce /\ t.nonce \in [Senders -> Nat]
  BY DEF StateRoot, Ledger, AppState
<1>4. \A i \in 1 .. n : txs[i].nonce <= t.nonce[txs[i].sender]
  <2>1. n \in 0 .. n
    BY <1>1
  <2> QED
    BY <1>3, <2>1, ExecuteAllLedger DEF Final
<1>5. Final(t, txs) = F[n]
  BY DEF Final
<1> HIDE DEF n, F
<1>6. \A i \in 1 .. n : Execute(t, txs[i]) = t
  <2>1. \A i \in 1 .. n : ~NonceFresh(t, txs[i])
    BY <1>1, <1>3, <1>4 DEF NonceFresh
  <2> QED
    BY <2>1 DEF Execute
<1>7. 0 \in T /\ \A i \in 1 .. n : i - 1 \in T => i \in T
  BY <1>1, <1>2, <1>6
<1>8. 0 .. n \subseteq T
  <2> HIDE DEF T
  <2> QED
    BY <1>1, <1>7, Induction
<1>9. F[n] = t
  BY <1>1, <1>8
<1> QED
  BY <1>5, <1>9
=============================================================================
