---------------------------- MODULE NetworkProofs ----------------------------
(***************************************************************************)
(* Theorems about Network, for any nodes, configurations, addresses and    *)
(* limits. The heart is that no message is sent twice to one peer: then    *)
(* the connections of a listener can be told apart, and its count of slots *)
(* is right.                                                               *)
(***************************************************************************)
EXTENDS Network, SequenceTheorems, FiniteSetTheorems, TLAPS

Message == [type : {"Handshake", "Block"}, node_id : Node, nr : Nat]
Address == Node \union {Unspecified}
Send == [peer : Node, to : Address, msg : Message]
Conn == [from : Node, peer : Node, to : Node, msg : Message, state : {"arriving", "reading", "waiting"}]

SameSend(c, d) == c.from = d.from /\ c.peer = d.peer /\ c.msg = d.msg

\* A connection is known by its sender, the peer and the message.
OnePerSend == \A c, d \in conns : SameSend(c, d) => c = d

\* The main loop has one message left for a peer at most.
OnePerPeer ==
  \A n \in Node : \A i, j \in DOMAIN sending[n] : sending[n][i].peer = sending[n][j].peer => i = j

\* What is left to send has no connection, but for the one that is written to.
IsOf(c, n, send) == c.from = n /\ c.peer = send.peer /\ c.msg = send.msg

Unsent ==
  \A n \in Node : \A i \in DOMAIN sending[n] : \A c \in conns :
    IsOf(c, n, sending[n][i]) => i = 1 /\ c \in Writing(n)

WritesHead == \A n \in Node : \A c \in Writing(n) : sending[n] # <<>> /\ IsOf(c, n, sending[n][1])

\* Messages go to peers, no later block is sent, and nothing by a node that is off.
Known(n, peer, msg) == peer \in Ids(n) /\ msg.nr <= blocks[n]

SentIsKnown ==
  \A n \in Node :
    /\ \A c \in conns : c.from = n => Known(n, c.peer, c.msg)
    /\ \A i \in DOMAIN sending[n] : Known(n, sending[n][i].peer, sending[n][i].msg)
    /\ phase[n] = "off" => sending[n] = <<>> /\ \A c \in conns : c.from # n

SendsInv == OnePerSend /\ OnePerPeer /\ Unsent /\ WritesHead /\ SentIsKnown

\* The inductive invariant.
NetInv == TypeOK /\ IsFiniteSet(conns) /\ PeersDistinct /\ SendsInv /\ SlotsCounted

-----------------------------------------------------------------------------
\* What is left once the first message is sent.
LEMMA TailOfSends ==
  ASSUME NEW S, NEW s \in Seq(S), s # <<>>
  PROVE  /\ Tail(s) \in Seq(S) /\ Head(s) = s[1] /\ s[1] \in S /\ 1 \in DOMAIN s
         /\ \A i \in DOMAIN Tail(s) : i \in Nat /\ i # 0 /\ i + 1 \in DOMAIN s /\ Tail(s)[i] = s[i + 1]
<1>1. Len(s) \in Nat \ {0} /\ DOMAIN s = 1 .. Len(s)
  BY EmptySeq, LenProperties
<1>2. Tail(s) \in Seq(S) /\ Len(Tail(s)) = Len(s) - 1 /\ \A i \in 1 .. Len(Tail(s)) : Tail(s)[i] = s[i + 1]
  BY HeadTailProperties
<1>3. DOMAIN Tail(s) = 1 .. Len(s) - 1
  BY <1>2, LenProperties
<1>4. s[1] \in S /\ Head(s) = s[1]
  BY <1>1, ElementOfSeq
<1> QED
  BY <1>1, <1>2, <1>3, <1>4

\* The messages of a broadcast go to distinct peers, one each.
LEMMA BroadcastSends ==
  ASSUME NEW list \in Seq([id : Node, address : Address]), NEW msg \in Message
  PROVE  /\ Broadcast(list, msg) \in Seq(Send)
         /\ DOMAIN Broadcast(list, msg) = DOMAIN list
         /\ \A i \in DOMAIN list : /\ Broadcast(list, msg)[i].peer = list[i].id
                                   /\ Broadcast(list, msg)[i].to = list[i].address
                                   /\ Broadcast(list, msg)[i].msg = msg
<1>1. Len(list) \in Nat /\ DOMAIN list = 1 .. Len(list)
  BY LenProperties
<1>2. \A i \in 1 .. Len(list) : list[i] \in [id : Node, address : Address]
  BY ElementOfSeq
<1>3. Broadcast(list, msg) = [i \in 1 .. Len(list) |-> [peer |-> list[i].id, to |-> list[i].address, msg |-> msg]]
  BY <1>1 DEF Broadcast
<1>4. Broadcast(list, msg) \in [1 .. Len(list) -> Send]
  BY <1>2, <1>3 DEF Send
<1>5. Broadcast(list, msg) \in Seq(Send)
  BY <1>1, <1>4
<1> QED
  BY <1>1, <1>3, <1>5

LEMMA HandshakeType ==
  ASSUME NEW n \in Node
  PROVE  Handshake(n) \in Message /\ Handshake(n).type = "Handshake" /\ Handshake(n).nr = 0
BY DEF Handshake, Message

LEMMA BlockMsgType ==
  ASSUME NEW n \in Node, NEW nr \in Nat
  PROVE  BlockMsg(n, nr) \in Message /\ BlockMsg(n, nr).type = "Block" /\ BlockMsg(n, nr).nr = nr
BY DEF BlockMsg, Message

\* The connection with another state.
LEMMA ConnMoved ==
  ASSUME NEW c \in Conn, NEW state \in {"reading", "waiting"}
  PROVE  LET d == [c EXCEPT !.state = state]
         IN  /\ d \in Conn /\ d.from = c.from /\ d.peer = c.peer /\ d.to = c.to /\ d.msg = c.msg
             /\ d.state = state
BY DEF Conn

\* A main loop writes to one connection at a time.
LEMMA OneWriting ==
  ASSUME SendsInv, NEW n \in Node, NEW c \in Writing(n), NEW d \in Writing(n)
  PROVE  c = d
<1>1. c \in conns /\ d \in conns /\ IsOf(c, n, sending[n][1]) /\ IsOf(d, n, sending[n][1])
  BY DEF SendsInv, WritesHead, Writing
<1>2. SameSend(c, d)
  BY <1>1 DEF IsOf, SameSend
<1> QED
  BY <1>1, <1>2 DEF SendsInv, OnePerSend

-----------------------------------------------------------------------------
\* The steps of a listener and its tasks: connection c moves on or is closed,
\* and its sender goes on once a message it was still writing is read or cut.
LEMMA ConnMoves ==
  ASSUME TypeOK, SendsInv, UNCHANGED <<phase, peers, blocks>>, NEW c \in conns,
         NEW state \in {"reading", "waiting"},
         conns' \subseteq (conns \ {c}) \union {[c EXCEPT !.state = state]},
         \/ /\ sending' = sending
            /\ c \in Writing(c.from) => state = "reading"
            /\ state = "reading" => c.state = "arriving"
         \/ /\ c.state \in {"arriving", "reading"} /\ IsLarge(c.msg)
            /\ [c EXCEPT !.state = state] \in conns' => state = "waiting"
            /\ sending' = [sending EXCEPT ![c.from] = Tail(@)]
  PROVE  SendsInv'
<1> DEFINE d == [c EXCEPT !.state = state]
<1>1. /\ conns \subseteq Conn /\ c \in Conn /\ c.from \in Node
      /\ sending \in [Node -> Seq(Send)]
  BY DEF TypeOK, Conn, Message, Send, Address
<1>2. d \in Conn /\ d.from = c.from /\ d.peer = c.peer /\ d.msg = c.msg /\ d.state = state
  BY <1>1, ConnMoved
<1> HIDE DEF d
<1>3. conns' \subseteq (conns \ {c}) \union {d}
  BY DEF d
\* Each connection after the step is, but for its state, one of those before.
<1>4. ASSUME NEW x \in conns'
      PROVE  \E y \in conns : SameSend(x, y) /\ (x = y \/ (x = d /\ y = c))
  BY <1>2, <1>3, <1>4 DEF SameSend
<1>5. OnePerSend'
  <2>1. ASSUME NEW x \in conns', NEW y \in conns', SameSend(x, y) PROVE x = y
    <3>1. x \in conns /\ y \in conns => x = y
      BY <2>1 DEF SendsInv, OnePerSend
    <3>2. \A z \in conns : SameSend(z, d) \/ SameSend(d, z) => z = c
      BY <1>2 DEF SendsInv, OnePerSend, SameSend
    <3> QED
      BY <1>3, <2>1, <3>1, <3>2
  <2> QED
    BY <2>1 DEF OnePerSend, SameSend
<1>6. CASE /\ sending' = sending
           /\ c \in Writing(c.from) => state = "reading"
           /\ state = "reading" => c.state = "arriving"
  <2>1. OnePerPeer'
    BY <1>6 DEF SendsInv, OnePerPeer
  <2>2. c \in Writing(c.from) /\ d \in conns' => d \in Writing(c.from)'
    BY <1>2, <1>6 DEF Writing
  <2>3. ASSUME NEW n \in Node, NEW x \in Writing(n)
        PROVE  x \in conns' /\ x # c => x \in Writing(n)'
    BY <2>3 DEF Writing
  <2>4. ASSUME NEW n \in Node, NEW i \in DOMAIN sending[n], NEW x \in conns', IsOf(x, n, sending[n][i])
        PROVE  i = 1 /\ x \in Writing(n)'
    <3>1. PICK y \in conns : SameSend(x, y) /\ (x = y \/ (x = d /\ y = c))
      BY <1>4
    <3>2. IsOf(y, n, sending[n][i])
      BY <2>4, <3>1 DEF IsOf, SameSend
    <3>3. i = 1 /\ y \in Writing(n)
      BY <3>2 DEF SendsInv, Unsent
    <3>4. n = x.from /\ n = y.from
      BY <2>4, <3>2 DEF IsOf
    <3>5. CASE x = y /\ x # c
      BY <2>3, <3>3, <3>5
    <3>6. CASE x = d /\ y = c
      BY <2>2, <3>3, <3>4, <3>6
    <3> QED
      BY <1>3, <3>1, <3>3, <3>5, <3>6
  <2>5. Unsent'
    BY <1>6, <2>4 DEF Unsent, IsOf
  <2>6. ASSUME NEW n \in Node, NEW x \in Writing(n)' PROVE sending[n] # <<>> /\ IsOf(x, n, sending[n][1])
    <3>1. x \in conns' /\ x.state \in {"arriving", "reading"} /\ x.from = n /\ IsLarge(x.msg)
      BY <2>6 DEF Writing, IsLarge
    <3>2. PICK y \in conns : SameSend(x, y) /\ (x = y \/ (x = d /\ y = c))
      BY <1>4, <3>1
    <3>3. y \in Writing(n) \/ (x = d /\ y = c)
      BY <3>1, <3>2 DEF Writing
    <3>4. CASE y \in Writing(n)
      BY <3>2, <3>4 DEF SendsInv, WritesHead, IsOf, SameSend
    <3>5. CASE x = d /\ y = c /\ c \notin Writing(n)
      BY <1>2, <1>6, <3>1, <3>5 DEF Writing, IsLarge
    <3> QED
      BY <3>3, <3>4, <3>5
  <2>7. WritesHead'
    BY <1>6, <2>6 DEF WritesHead, IsOf
  <2>8. SentIsKnown'
    BY <1>4, <1>6 DEF SendsInv, SentIsKnown, Known, Ids, SameSend
  <2> QED
    BY <1>5, <2>1, <2>5, <2>7, <2>8 DEF SendsInv
<1>7. CASE /\ c.state \in {"arriving", "reading"} /\ IsLarge(c.msg)
           /\ d \in conns' => state = "waiting"
           /\ sending' = [sending EXCEPT ![c.from] = Tail(@)]
  <2>1. c \in Writing(c.from)
    BY <1>7 DEF Writing
  <2>2. sending[c.from] # <<>> /\ IsOf(c, c.from, sending[c.from][1])
    BY <1>1, <2>1 DEF SendsInv, WritesHead
  <2>3. \A n \in Node : n # c.from => sending'[n] = sending[n]
    BY <1>1, <1>7
  <2>4. /\ sending'[c.from] = Tail(sending[c.from]) /\ sending[c.from] \in Seq(Send)
        /\ 1 \in DOMAIN sending[c.from]
        /\ \A i \in DOMAIN sending'[c.from] :
             /\ i \in Nat /\ i # 0 /\ i + 1 \in DOMAIN sending[c.from]
             /\ sending'[c.from][i] = sending[c.from][i + 1]
    BY <1>1, <1>7, <2>2, TailOfSends
  <2>5. ASSUME NEW n \in Node, NEW x \in Writing(n)' PROVE n # c.from /\ x \in Writing(n)
    <3>1. x \in conns' /\ x.state \in {"arriving", "reading"} /\ x.from = n /\ IsLarge(x.msg)
      BY <2>5 DEF Writing, IsLarge
    <3>2. x \in conns /\ x # c
      BY <1>2, <1>3, <1>7, <3>1
    <3>3. x \in Writing(n)
      BY <3>1, <3>2 DEF Writing
    <3> QED
      BY <2>1, <3>2, <3>3, OneWriting
  <2>6. OnePerPeer'
    <3>1. ASSUME NEW n \in Node, NEW i \in DOMAIN sending'[n], NEW j \in DOMAIN sending'[n],
                 sending'[n][i].peer = sending'[n][j].peer
          PROVE  i = j
      <4>1. CASE n # c.from
        BY <2>3, <3>1, <4>1 DEF SendsInv, OnePerPeer
      <4>2. CASE n = c.from
        <5> DEFINE s == sending[c.from]
        <5>1. /\ i \in Nat /\ i + 1 \in DOMAIN s /\ sending'[n][i] = s[i + 1]
              /\ j \in Nat /\ j + 1 \in DOMAIN s /\ sending'[n][j] = s[j + 1]
          BY <2>4, <3>1, <4>2
        <5>2. \A k, l \in DOMAIN s : s[k].peer = s[l].peer => k = l
          BY <1>1 DEF SendsInv, OnePerPeer
        <5> HIDE DEF s
        <5>3. i + 1 = j + 1
          BY <3>1, <5>1, <5>2
        <5> QED
          BY <5>1, <5>3
      <4> QED
        BY <4>1, <4>2
    <3> QED
      BY <3>1 DEF OnePerPeer
  <2>7. ASSUME NEW n \in Node, NEW i \in DOMAIN sending'[n], NEW x \in conns', IsOf(x, n, sending'[n][i])
        PROVE  i = 1 /\ x \in Writing(n)'
    <3>1. PICK y \in conns : SameSend(x, y) /\ (x = y \/ (x = d /\ y = c))
      BY <1>4
    <3>2. IsOf(y, n, sending'[n][i]) /\ y.from = n
      BY <2>7, <3>1 DEF IsOf, SameSend
    <3>3. CASE n = c.from
      <4>1. i \in Nat /\ i # 0 /\ i + 1 \in DOMAIN sending[n] /\ IsOf(y, n, sending[n][i + 1])
        BY <2>4, <3>2, <3>3
      <4>2. i + 1 = 1
        BY <4>1 DEF SendsInv, Unsent
      <4> QED
        BY <4>1, <4>2
    <3>4. CASE n # c.from
      <4>1. i = 1 /\ y \in Writing(n)
        BY <2>3, <3>2, <3>4 DEF SendsInv, Unsent
      <4>2. x = y
        BY <3>1, <3>2, <3>4
      <4> QED
        BY <4>1, <4>2 DEF Writing
    <3> QED
      BY <3>3, <3>4
  <2>8. Unsent'
    BY <2>7 DEF Unsent, IsOf
  <2>9. WritesHead'
    BY <2>3, <2>5 DEF SendsInv, WritesHead, IsOf
  <2>10. SentIsKnown'
    <3>1. ASSUME NEW n \in Node, NEW x \in conns', x.from = n PROVE Known(n, x.peer, x.msg)
      BY <1>4, <3>1 DEF SendsInv, SentIsKnown, SameSend
    <3>2. ASSUME NEW n \in Node, NEW i \in DOMAIN sending'[n]
          PROVE  Known(n, sending'[n][i].peer, sending'[n][i].msg)
      <4>1. \E j \in DOMAIN sending[n] : sending'[n][i] = sending[n][j]
        <5>1. CASE n # c.from
          BY <2>3, <3>2, <5>1
        <5>2. CASE n = c.from
          BY <2>4, <3>2, <5>2
        <5> QED
          BY <5>1, <5>2
      <4> QED
        BY <4>1 DEF SendsInv, SentIsKnown
    <3>3. ASSUME NEW n \in Node, phase[n] = "off"
          PROVE  sending'[n] = <<>> /\ \A x \in conns' : x.from # n
      <4>1. n # c.from /\ sending[n] = <<>> /\ \A y \in conns : y.from # n
        BY <3>3 DEF SendsInv, SentIsKnown
      <4> QED
        BY <1>4, <2>3, <4>1 DEF SameSend
    <3> QED
      BY <3>1, <3>2, <3>3 DEF SentIsKnown, Known, Ids
  <2> QED
    BY <1>5, <2>6, <2>8, <2>9, <2>10 DEF SendsInv
<1> QED
  BY <1>6, <1>7 DEF d

\* A main loop with nothing left to send starts to send a message to each of a
\* list of peers, none of whom has it on a connection already.
StartsToSend(n, list, msg) ==
  /\ sending[n] = <<>> /\ sending' = [sending EXCEPT ![n] = Broadcast(list, msg)]
  /\ conns' = conns
  /\ \A i, j \in DOMAIN list : list[i].id = list[j].id => i = j
  /\ \A i \in DOMAIN list : /\ list[i].id \in Ids(n)'
                            /\ \A c \in conns : c.from = n /\ c.peer = list[i].id => c.msg # msg
  /\ msg.nr <= blocks'[n]
  /\ \A m \in Node : /\ Ids(m) \subseteq Ids(m)' /\ blocks'[m] \in {blocks[m], blocks[m] + 1}
                     /\ phase'[m] = "off" => phase[m] = "off" /\ m # n

LEMMA NewSends ==
  ASSUME TypeOK, SendsInv, NEW n \in Node,
         NEW list \in Seq([id : Node, address : Address]), NEW msg \in Message,
         StartsToSend(n, list, msg)
  PROVE  SendsInv'
<1> USE DEF StartsToSend
<1> DEFINE new == Broadcast(list, msg)
<1>1. /\ conns \subseteq Conn /\ sending \in [Node -> Seq(Send)]
      /\ \A m \in Node : blocks[m] \in Nat
      /\ \A m \in Message : m.nr \in Nat
      /\ \A c \in Conn : c.msg \in Message
      /\ \A s \in Send : s.msg \in Message
  BY DEF TypeOK, Conn, Message, Send, Address
<1>2. /\ DOMAIN new = DOMAIN list
      /\ \A i \in DOMAIN list : new[i].peer = list[i].id /\ new[i].msg = msg
  <2>1. /\ Broadcast(list, msg) \in Seq(Send)
        /\ DOMAIN Broadcast(list, msg) = DOMAIN list
        /\ \A i \in DOMAIN list : /\ Broadcast(list, msg)[i].peer = list[i].id
                                  /\ Broadcast(list, msg)[i].to = list[i].address
                                  /\ Broadcast(list, msg)[i].msg = msg
    BY BroadcastSends
  <2> QED
    BY <2>1
<1> HIDE DEF new
<1>3. sending'[n] = new /\ \A m \in Node : m # n => sending'[m] = sending[m]
  <2>1. sending' = [sending EXCEPT ![n] = new]
    BY DEF new
  <2> QED
    BY <1>1, <2>1
<1>4. OnePerSend'
  BY DEF SendsInv, OnePerSend
<1>5. OnePerPeer'
  <2>1. ASSUME NEW m \in Node, NEW i \in DOMAIN sending'[m], NEW j \in DOMAIN sending'[m],
               sending'[m][i].peer = sending'[m][j].peer
        PROVE  i = j
    <3>1. CASE m # n
      BY <1>3, <2>1, <3>1 DEF SendsInv, OnePerPeer
    <3>2. CASE m = n
      BY <1>2, <1>3, <2>1, <3>2
    <3> QED
      BY <3>1, <3>2
  <2> QED
    BY <2>1 DEF OnePerPeer
<1>6. \A m \in Node : Writing(m)' = Writing(m)
  BY DEF Writing
<1>7. Unsent'
  <2>1. ASSUME NEW m \in Node, NEW i \in DOMAIN sending'[m], NEW c \in conns, IsOf(c, m, sending'[m][i])
        PROVE  i = 1 /\ c \in Writing(m)
    <3>1. m # n
      BY <1>2, <1>3, <2>1 DEF IsOf
    <3> QED
      BY <1>3, <2>1, <3>1 DEF SendsInv, Unsent
  <2> QED
    BY <1>6, <2>1 DEF Unsent, IsOf
<1>8. WritesHead'
  <2>1. \A m \in Node : Writing(m) # {} => m # n
    BY DEF SendsInv, WritesHead
  <2> QED
    BY <1>3, <1>6, <2>1 DEF SendsInv, WritesHead, IsOf
<1>9. SentIsKnown'
  <2>1. ASSUME NEW m \in Node, NEW peer, NEW msg2 \in Message, Known(m, peer, msg2)
        PROVE  Known(m, peer, msg2)'
    <3>1. blocks[m] \in Nat /\ msg2.nr \in Nat /\ msg2.nr <= blocks[m] /\ peer \in Ids(m)
      BY <1>1, <2>1 DEF Known
    <3>2. blocks'[m] = blocks[m] \/ blocks'[m] = blocks[m] + 1
      OBVIOUS
    <3> QED
      BY <3>1, <3>2 DEF Known
  <2>2. ASSUME NEW m \in Node, NEW c \in conns, c.from = m PROVE Known(m, c.peer, c.msg)'
    BY <1>1, <2>1, <2>2 DEF SendsInv, SentIsKnown
  <2>3. ASSUME NEW m \in Node, NEW i \in DOMAIN sending'[m]
        PROVE  sending'[m][i].peer \in Ids(m)' /\ sending'[m][i].msg.nr <= blocks'[m]
    <3>1. CASE m # n
      <4>1. sending'[m] = sending[m] /\ sending[m] \in Seq(Send)
        BY <1>1, <1>3, <3>1
      <4>2. sending[m][i].msg \in Message
        BY <1>1, <2>3, <4>1, LenProperties, ElementOfSeq
      <4>3. Known(m, sending[m][i].peer, sending[m][i].msg)
        BY <2>3, <4>1 DEF SendsInv, SentIsKnown
      <4> DEFINE peer == sending[m][i].peer
                 msg2 == sending[m][i].msg
      <4>4. \A x, y : x = peer /\ y = msg2 => x \in Ids(m)' /\ y.nr <= blocks'[m]
        <5>1. ASSUME NEW x, NEW y \in Message, Known(m, x, y) PROVE x \in Ids(m)' /\ y.nr <= blocks'[m]
          BY <2>1, <5>1 DEF Known
        <5> QED
          BY <4>2, <4>3, <5>1
      <4> QED
        BY <4>1, <4>4
    <3>2. CASE m = n
      BY <1>2, <1>3, <2>3, <3>2
    <3> QED
      BY <3>1, <3>2
  <2>4. ASSUME NEW m \in Node, phase'[m] = "off" PROVE sending'[m] = <<>> /\ \A c \in conns : c.from # m
    BY <1>3, <2>4 DEF SendsInv, SentIsKnown
  <2> QED
    BY <2>2, <2>3, <2>4 DEF SentIsKnown, Known
<1> QED
  BY <1>4, <1>5, <1>7, <1>8, <1>9 DEF SendsInv

\* The main loop is done with its first message, without a connection.
LEMMA SendDropped ==
  ASSUME TypeOK, SendsInv, NEW n \in Node, sending[n] # <<>>, Writing(n) = {},
         sending' = [sending EXCEPT ![n] = Tail(@)], UNCHANGED <<phase, peers, blocks, conns>>
  PROVE  SendsInv'
<1>1. sending \in [Node -> Seq(Send)]
  BY DEF TypeOK, Message, Send, Address
<1>2. \A m \in Node : m # n => sending'[m] = sending[m]
  BY <1>1
<1>3. /\ sending'[n] = Tail(sending[n]) /\ sending[n] \in Seq(Send) /\ 1 \in DOMAIN sending[n]
      /\ \A i \in DOMAIN sending'[n] :
           i \in Nat /\ i # 0 /\ i + 1 \in DOMAIN sending[n] /\ sending'[n][i] = sending[n][i + 1]
  BY <1>1, TailOfSends
<1>4. OnePerSend' /\ (\A m \in Node : Writing(m)' = Writing(m))
  BY DEF SendsInv, OnePerSend, Writing
<1>5. ASSUME NEW m \in Node, NEW i \in DOMAIN sending'[m], NEW j \in DOMAIN sending'[m],
             sending'[m][i].peer = sending'[m][j].peer
      PROVE  i = j
  <2>1. CASE m # n
    BY <1>2, <1>5, <2>1 DEF SendsInv, OnePerPeer
  <2>2. CASE m = n
    <3> DEFINE s == sending[n]
    <3>1. /\ i \in Nat /\ i + 1 \in DOMAIN s /\ sending'[m][i] = s[i + 1]
          /\ j \in Nat /\ j + 1 \in DOMAIN s /\ sending'[m][j] = s[j + 1]
      BY <1>3, <1>5, <2>2
    <3>2. \A k, l \in DOMAIN s : s[k].peer = s[l].peer => k = l
      BY DEF SendsInv, OnePerPeer
    <3> HIDE DEF s
    <3>3. i + 1 = j + 1
      BY <1>5, <3>1, <3>2
    <3> QED
      BY <3>1, <3>3
  <2> QED
    BY <2>1, <2>2
<1>6. ASSUME NEW m \in Node, NEW i \in DOMAIN sending'[m], NEW c \in conns, IsOf(c, m, sending'[m][i])
      PROVE  i = 1 /\ c \in Writing(m)
  <2>1. CASE m # n
    BY <1>2, <1>6, <2>1 DEF SendsInv, Unsent
  <2>2. CASE m = n
    <3>1. i \in Nat /\ i # 0 /\ i + 1 \in DOMAIN sending[n] /\ IsOf(c, n, sending[n][i + 1])
      BY <1>3, <1>6, <2>2
    <3> QED
      BY <3>1 DEF SendsInv, Unsent
  <2> QED
    BY <2>1, <2>2
<1>7. WritesHead'
  BY <1>2, <1>4 DEF SendsInv, WritesHead, IsOf
<1>8. SentIsKnown'
  <2>1. ASSUME NEW m \in Node, NEW i \in DOMAIN sending'[m]
        PROVE  Known(m, sending'[m][i].peer, sending'[m][i].msg)
    <3>1. \E j \in DOMAIN sending[m] : sending'[m][i] = sending[m][j]
      <4>1. CASE m # n
        BY <1>2, <2>1, <4>1
      <4>2. CASE m = n
        BY <1>3, <2>1, <4>2
      <4> QED
        BY <4>1, <4>2
    <3> QED
      BY <3>1 DEF SendsInv, SentIsKnown
  <2>2. ASSUME NEW m \in Node, phase[m] = "off" PROVE sending'[m] = <<>> /\ \A c \in conns : c.from # m
    BY <1>2, <2>2 DEF SendsInv, SentIsKnown
  <2>3. \A m \in Node : \A c \in conns : c.from = m => Known(m, c.peer, c.msg)
    BY DEF SendsInv, SentIsKnown
  <2> QED
    BY <2>1, <2>2, <2>3 DEF SentIsKnown, Known, Ids
<1> QED
  BY <1>4, <1>5, <1>6, <1>7, <1>8 DEF SendsInv, OnePerPeer, Unsent, IsOf

\* A main loop gets a connection for its first message, and writes to it as
\* long as the message is large and not read.
LEMMA ConnectKeepsSends ==
  ASSUME TypeOK, SendsInv, NEW n \in Node, Connect(n)
  PROVE  SendsInv'
<1> DEFINE s == sending[n]
           c == [from |-> n, peer |-> s[1].peer, to |-> Reached(n, s[1].to), msg |-> s[1].msg,
                 state |-> "arriving"]
<1>1. /\ conns \subseteq Conn /\ sending \in [Node -> Seq(Send)]
  BY DEF TypeOK, Conn, Message, Send, Address
<1>2. /\ s \in Seq(Send) /\ Head(s) = s[1] /\ s[1] \in Send /\ 1 \in DOMAIN s
      /\ \A i \in DOMAIN Tail(s) : i \in Nat /\ i # 0 /\ i + 1 \in DOMAIN s /\ Tail(s)[i] = s[i + 1]
  BY <1>1, TailOfSends DEF Connect
<1>3. /\ Writing(n) = {} /\ conns' = conns \union {c}
      /\ sending' = IF IsLarge(s[1].msg) THEN sending ELSE [sending EXCEPT ![n] = Tail(s)]
      /\ UNCHANGED <<phase, peers, blocks>>
  BY <1>2 DEF Connect
<1>4. /\ c.from = n /\ c.peer = s[1].peer /\ c.msg = s[1].msg /\ c.state = "arriving"
  OBVIOUS
<1> HIDE DEF c
<1>5. /\ \A m \in Node : m # n => sending'[m] = sending[m]
      /\ sending'[n] = IF IsLarge(s[1].msg) THEN s ELSE Tail(s)
  BY <1>1, <1>3
\* The messages left over, as messages left before.
<1>6. ASSUME NEW m \in Node, NEW i \in DOMAIN sending'[m]
      PROVE  \E j \in DOMAIN sending[m] :
               /\ sending'[m][i] = sending[m][j]
               /\ \/ j = i /\ (m = n => IsLarge(s[1].msg))
                  \/ m = n /\ i \in Nat /\ i # 0 /\ j = i + 1
  <2>1. CASE m # n \/ IsLarge(s[1].msg)
    BY <1>5, <1>6, <2>1
  <2>2. CASE m = n /\ ~IsLarge(s[1].msg)
    BY <1>2, <1>5, <1>6, <2>2
  <2> QED
    BY <2>1, <2>2
\* Nothing on a connection is like the first message.
<1>7. \A d \in conns : ~IsOf(d, n, s[1])
  BY <1>2, <1>3 DEF SendsInv, Unsent
<1>8. OnePerSend'
  <2>1. \A d \in conns : ~SameSend(c, d) /\ ~SameSend(d, c)
    BY <1>4, <1>7 DEF SameSend, IsOf
  <2> QED
    BY <1>3, <2>1 DEF SendsInv, OnePerSend, SameSend
<1>9. ASSUME NEW m \in Node, NEW i \in DOMAIN sending'[m], NEW j \in DOMAIN sending'[m],
             sending'[m][i].peer = sending'[m][j].peer
      PROVE  i = j
  <2>1. CASE m # n \/ IsLarge(s[1].msg)
    BY <1>5, <1>9, <2>1 DEF SendsInv, OnePerPeer
  <2>2. CASE m = n /\ ~IsLarge(s[1].msg)
    <3>1. /\ i \in Nat /\ i + 1 \in DOMAIN s /\ sending'[m][i] = s[i + 1]
          /\ j \in Nat /\ j + 1 \in DOMAIN s /\ sending'[m][j] = s[j + 1]
      BY <1>2, <1>5, <1>9, <2>2
    <3>2. \A k, l \in DOMAIN s : s[k].peer = s[l].peer => k = l
      BY DEF SendsInv, OnePerPeer
    <3> HIDE DEF s
    <3>3. i + 1 = j + 1
      BY <1>9, <3>1, <3>2
    <3> QED
      BY <3>1, <3>3
  <2> QED
    BY <2>1, <2>2
<1>10. \A m \in Node : Writing(m) \subseteq Writing(m)'
  BY <1>3 DEF Writing, IsLarge
<1>11. ASSUME NEW m \in Node, NEW i \in DOMAIN sending'[m], NEW d \in conns', IsOf(d, m, sending'[m][i])
       PROVE  i = 1 /\ d \in Writing(m)'
  <2>1. PICK j \in DOMAIN sending[m] :
           /\ sending'[m][i] = sending[m][j]
           /\ \/ j = i /\ (m = n => IsLarge(s[1].msg))
              \/ m = n /\ i \in Nat /\ i # 0 /\ j = i + 1
    BY <1>6, <1>11
  <2>2. CASE d \in conns
    <3>1. j = 1 /\ d \in Writing(m)
      BY <1>11, <2>1, <2>2 DEF SendsInv, Unsent
    <3>2. m # n
      BY <1>3, <3>1
    <3> QED
      BY <1>10, <2>1, <3>1, <3>2
  <2>3. CASE d = c
    <3>1. c.from = m /\ c.peer = sending'[m][i].peer
      BY <1>11, <2>3 DEF IsOf
    <3>2. m = n /\ s[1].peer = s[j].peer
      BY <1>4, <2>1, <3>1
    <3>3. \A k, l \in DOMAIN s : s[k].peer = s[l].peer => k = l
      BY DEF SendsInv, OnePerPeer
    <3>4. j = 1
      BY <1>2, <2>1, <3>2, <3>3
    <3>5. IsLarge(s[1].msg) /\ i = 1
      <4> HIDE DEF s
      <4>1. \/ i = 1 /\ IsLarge(s[1].msg)
            \/ i \in Nat /\ i # 0 /\ 1 = i + 1
        BY <2>1, <3>2, <3>4
      <4> QED
        BY <4>1
    <3>6. c \in conns'
      BY <1>3
    <3> QED
      BY <1>4, <2>3, <3>2, <3>5, <3>6 DEF Writing, IsLarge
  <2> QED
    BY <1>3, <2>2, <2>3
<1>12. ASSUME NEW m \in Node, NEW d \in Writing(m)'
       PROVE  sending'[m] # <<>> /\ IsOf(d, m, sending'[m][1])
  <2>1. d \in conns' /\ d.from = m /\ IsLarge(d.msg) /\ d.state \in {"arriving", "reading"}
    BY <1>12 DEF Writing, IsLarge
  <2>2. CASE d \in conns
    <3>1. d \in Writing(m) /\ m # n
      BY <1>3, <2>1, <2>2 DEF Writing
    <3> QED
      BY <1>5, <3>1 DEF SendsInv, WritesHead
  <2>3. CASE d = c
    <3>1. m = n /\ IsLarge(s[1].msg) /\ sending'[n] = s
      BY <1>4, <1>5, <2>1, <2>3
    <3>2. s # <<>>
      BY DEF Connect
    <3> QED
      BY <1>4, <2>3, <3>1, <3>2 DEF IsOf
  <2> QED
    BY <1>3, <2>1, <2>2, <2>3
<1>13. SentIsKnown'
  <2>1. ASSUME NEW m \in Node, NEW i \in DOMAIN sending'[m]
        PROVE  Known(m, sending'[m][i].peer, sending'[m][i].msg)
    BY <1>6, <2>1 DEF SendsInv, SentIsKnown
  <2>2. ASSUME NEW m \in Node, NEW d \in conns', d.from = m PROVE Known(m, d.peer, d.msg)
    BY <1>2, <1>3, <1>4, <2>2 DEF SendsInv, SentIsKnown
  <2>3. ASSUME NEW m \in Node, phase[m] = "off" PROVE sending'[m] = <<>> /\ \A d \in conns' : d.from # m
    <3>1. sending[m] = <<>> /\ \A d \in conns : d.from # m
      BY <2>3 DEF SendsInv, SentIsKnown
    <3>2. m # n
      BY <3>1 DEF Connect
    <3> QED
      BY <1>3, <1>4, <1>5, <3>1, <3>2
  <2> QED
    BY <1>3, <2>1, <2>2, <2>3 DEF SentIsKnown, Known, Ids
<1> QED
  BY <1>8, <1>9, <1>11, <1>12, <1>13 DEF SendsInv, OnePerPeer, Unsent, WritesHead, IsOf

-----------------------------------------------------------------------------
\* The connections that take a slot of the listener of n.
Taken(n) == {c \in conns : c.to = n /\ c.state # "arriving"}

LEMMA TakenFinite ==
  ASSUME IsFiniteSet(conns), NEW n \in Node
  PROVE  IsFiniteSet(Taken(n)) /\ Cardinality(Taken(n)) \in Nat
BY FS_Subset, FS_CardinalityType DEF Taken

\* A task that ends gives back a slot that was counted.
LEMMA SlotGivenBack ==
  ASSUME NetInv, NEW n \in Node, NEW c \in conns, c.to = n, c.state # "arriving",
         conns' = conns \ {c}, DropGuard(n)
  PROVE  SlotsCounted' /\ slots' \in [Node -> 0 .. MaxConnections]
<1>1. slots \in [Node -> 0 .. MaxConnections] /\ MaxConnections \in Nat
  BY NetworkAssumption DEF NetInv, TypeOK
<1>2. \A m \in Node : /\ IsFiniteSet(Taken(m)) /\ Cardinality(Taken(m)) \in Nat
                      /\ slots[m] = Cardinality(Taken(m))
  BY TakenFinite DEF NetInv, SlotsCounted, Taken
<1>3. Taken(n)' = Taken(n) \ {c} /\ c \in Taken(n)
  BY DEF Taken
<1>4. \A m \in Node : m # n => Taken(m)' = Taken(m)
  BY DEF Taken
<1>5. Cardinality(Taken(n)') = Cardinality(Taken(n)) - 1
  BY ZenonT(60), <1>2, <1>3, FS_RemoveElement
<1>6. IsFiniteSet(Taken(n)')
  BY <1>2, <1>3, FS_RemoveElement
<1>7. Cardinality(Taken(n)') \in Nat
  BY <1>6, FS_CardinalityType
<1>8. slots' = [slots EXCEPT ![n] = slots[n] - 1]
  BY DEF DropGuard
<1>9. slots[n] - 1 = Cardinality(Taken(n)') /\ slots[n] \in 0 .. MaxConnections
  BY <1>1, <1>2, <1>5
<1>10. slots[n] - 1 \in 0 .. MaxConnections
  BY <1>1, <1>7, <1>9
<1>11. slots' \in [Node -> 0 .. MaxConnections]
  BY <1>1, <1>8, <1>10
<1>12. \A m \in Node : slots'[m] = Cardinality(Taken(m)')
  BY <1>1, <1>2, <1>4, <1>8, <1>9
<1> QED
  BY <1>11, <1>12 DEF SlotsCounted, Taken

\* An accepted connection is a new one among those that take a slot.
LEMMA SlotTaken ==
  ASSUME NetInv, NEW n \in Node, NEW c \in conns, c.to = n, c.state = "arriving",
         slots[n] < MaxConnections, slots' = [slots EXCEPT ![n] = @ + 1], conns' = Become(c, "reading")
  PROVE  SlotsCounted' /\ slots' \in [Node -> 0 .. MaxConnections]
<1> DEFINE d == [c EXCEPT !.state = "reading"]
<1>1. slots \in [Node -> 0 .. MaxConnections] /\ MaxConnections \in Nat /\ c \in Conn
  BY NetworkAssumption DEF NetInv, TypeOK, Conn, Message
<1>2. \A m \in Node : /\ IsFiniteSet(Taken(m)) /\ Cardinality(Taken(m)) \in Nat
                      /\ slots[m] = Cardinality(Taken(m))
  BY TakenFinite DEF NetInv, SlotsCounted, Taken
<1>3. SameSend(c, d) /\ d.to = n /\ d.state = "reading" /\ d # c
  BY <1>1, ConnMoved DEF SameSend
<1> HIDE DEF d
<1>4. d \notin conns
  BY <1>3 DEF NetInv, SendsInv, OnePerSend
<1>5. conns' = (conns \ {c}) \union {d}
  BY DEF Become, d
<1>6. Taken(n)' = Taken(n) \union {d} /\ d \notin Taken(n)
  BY <1>3, <1>4, <1>5 DEF Taken
<1>7. \A m \in Node : m # n => Taken(m)' = Taken(m)
  BY <1>3, <1>5 DEF Taken
<1>8. Cardinality(Taken(n)') = Cardinality(Taken(n)) + 1
  <2>1. IsFiniteSet(Taken(n))
    BY <1>2
  <2>2. Cardinality(Taken(n) \union {d}) = Cardinality(Taken(n)) + 1
    BY <1>6, <2>1, FS_AddElement
  <2> QED
    BY <1>6, <2>2
<1>9. slots' \in [Node -> 0 .. MaxConnections]
  <2>1. slots[n] \in 0 .. MaxConnections
    BY <1>1
  <2>2. slots[n] + 1 \in 0 .. MaxConnections
    BY <1>1, <2>1
  <2> QED
    BY <1>1, <2>2
<1>10. \A m \in Node : slots'[m] = Cardinality(Taken(m)')
  BY <1>1, <1>2, <1>7, <1>8
<1> QED
  BY <1>9, <1>10 DEF SlotsCounted, Taken

\* A connection that is read keeps its slot.
LEMMA SlotKept ==
  ASSUME NetInv, NEW n \in Node, NEW c \in conns, c.to = n, c.state = "reading",
         slots' = slots, conns' = Become(c, "waiting")
  PROVE  SlotsCounted'
<1> DEFINE d == [c EXCEPT !.state = "waiting"]
<1>1. c \in Conn
  BY DEF NetInv, TypeOK, Conn, Message
<1>2. \A m \in Node : IsFiniteSet(Taken(m)) /\ Cardinality(Taken(m)) \in Nat /\ slots[m] = Cardinality(Taken(m))
  BY TakenFinite DEF NetInv, SlotsCounted, Taken
<1>3. SameSend(c, d) /\ d.to = n /\ d.state = "waiting" /\ d # c
  BY <1>1, ConnMoved DEF SameSend
<1> HIDE DEF d
<1>4. d \notin conns
  BY <1>3 DEF NetInv, SendsInv, OnePerSend
<1>5. conns' = (conns \ {c}) \union {d}
  BY DEF Become, d
<1>6. /\ Taken(n)' = (Taken(n) \ {c}) \union {d} /\ c \in Taken(n) /\ d \notin Taken(n) \ {c}
      /\ \A m \in Node : m # n => Taken(m)' = Taken(m)
  BY <1>3, <1>4, <1>5 DEF Taken
<1>7. IsFiniteSet(Taken(n) \ {c}) /\ Cardinality(Taken(n) \ {c}) = Cardinality(Taken(n)) - 1
  BY <1>2, <1>6, FS_RemoveElement
<1>8. Cardinality(Taken(n)') = Cardinality(Taken(n) \ {c}) + 1
  BY SMTT(30), <1>6, <1>7, FS_AddElement
<1>9. Cardinality(Taken(n)') = Cardinality(Taken(n))
  BY <1>2, <1>7, <1>8
<1>10. \A m \in Node : slots'[m] = Cardinality(Taken(m)')
  BY <1>2, <1>6, <1>9
<1> QED
  BY <1>10 DEF SlotsCounted, Taken

\* The other steps leave the connections that take slots alone.
LEMMA SlotsAlone ==
  ASSUME NetInv, slots' = slots,
         \A c : c.state # "arriving" => (c \in conns' <=> c \in conns)
  PROVE  SlotsCounted'
<1>1. \A n \in Node : Taken(n)' = Taken(n)
  BY DEF Taken
<1> QED
  BY <1>1 DEF NetInv, SlotsCounted, Taken

-----------------------------------------------------------------------------
\* The address of a node and the node reached at an address.
LEMMA Addresses ==
  /\ \A n \in Node : ListenAddress(n) \in Address
  /\ \A n \in Node, address \in Address : Reached(n, address) \in Node
BY DEF ListenAddress, Reached, Address

\* One more peer.
LEMMA PeerAdded ==
  ASSUME NEW S, NEW list \in Seq(S), NEW peer \in S
  PROVE  /\ Append(list, peer) \in Seq(S)
         /\ DOMAIN Append(list, peer) = 1 .. Len(list) + 1 /\ DOMAIN list = 1 .. Len(list) /\ Len(list) \in Nat
         /\ \A i \in DOMAIN list : Append(list, peer)[i] = list[i]
         /\ Append(list, peer)[Len(list) + 1] = peer
BY LenProperties, AppendProperties

\* The sender of a connection that is read or cut goes on.
LEMMA AfterWriteType ==
  ASSUME TypeOK, SendsInv, NEW c \in conns, c.state \in {"arriving", "reading"}
  PROVE  AfterWrite(c) \in [Node -> Seq(Send)]
<1>1. sending \in [Node -> Seq(Send)] /\ c \in Conn
  BY DEF TypeOK, Conn, Message, Send, Address
<1>2. CASE IsLarge(c.msg)
  <2>1. c \in Writing(c.from) /\ c.from \in Node
    BY <1>1, <1>2 DEF Writing, Conn
  <2>2. sending[c.from] # <<>>
    BY <2>1 DEF SendsInv, WritesHead
  <2>3. Tail(sending[c.from]) \in Seq(Send)
    BY <1>1, <2>1, <2>2, TailOfSends
  <2> QED
    BY <1>1, <1>2, <2>3 DEF AfterWrite
<1>3. CASE ~IsLarge(c.msg)
  BY <1>1, <1>3 DEF AfterWrite
<1> QED
  BY <1>2, <1>3

\* The connections after a step of a listener or its tasks.
LEMMA MovedType ==
  ASSUME conns \subseteq Conn, IsFiniteSet(conns), NEW c \in conns, NEW state \in {"reading", "waiting"}
  PROVE  /\ Become(c, state) \subseteq Conn /\ IsFiniteSet(Become(c, state))
         /\ conns \ {c} \subseteq Conn /\ IsFiniteSet(conns \ {c})
<1>1. [c EXCEPT !.state = state] \in Conn
  BY ConnMoved
<1>2. IsFiniteSet(conns \ {c})
  BY FS_RemoveElement
<1>3. IsFiniteSet(Become(c, state))
  BY <1>2, FS_AddElement DEF Become
<1> QED
  BY <1>1, <1>2, <1>3 DEF Become

\* What each action keeps.
LEMMA StartKeeps ==
  ASSUME NetInv, NEW n \in Node, Start(n)
  PROVE  NetInv'
<1>1. TypeOK /\ SendsInv /\ phase[n] = "off" /\ phase \in [Node -> {"off", "starting", "up"}]
  BY DEF NetInv, TypeOK, Start
<1>2. /\ peers[n] \in Seq([id : Node, address : Address]) /\ sending \in [Node -> Seq(Send)]
      /\ sending[n] = <<>> /\ \A c \in conns : c.from # n
      /\ \A i, j \in DOMAIN peers[n] : peers[n][i].id = peers[n][j].id => i = j
      /\ blocks \in [Node -> Nat]
  BY <1>1 DEF NetInv, TypeOK, Address, Send, Message, SendsInv, SentIsKnown, PeersDistinct
<1>3. Handshake(n) \in Message /\ Handshake(n).nr <= blocks[n]
  BY <1>2, HandshakeType
<1>4. SendsInv'
  <2>1. conns' = conns /\ sending' = [sending EXCEPT ![n] = Broadcast(peers[n], Handshake(n))]
    BY DEF Start
  <2>2. \A m \in Node : /\ Ids(m) \subseteq Ids(m)' /\ blocks'[m] \in {blocks[m], blocks[m] + 1}
                        /\ phase'[m] = "off" => phase[m] = "off" /\ m # n
    BY <1>1 DEF Start, Ids
  <2>3. \A i \in DOMAIN peers[n] : /\ peers[n][i].id \in Ids(n)'
                                   /\ \A c \in conns : c.from = n /\ c.peer = peers[n][i].id => c.msg # Handshake(n)
    BY <1>2 DEF Start, Ids
  <2>4. Handshake(n).nr <= blocks'[n]
    BY <1>3 DEF Start
  <2>5. StartsToSend(n, peers[n], Handshake(n))
    BY <1>2, <2>1, <2>2, <2>3, <2>4 DEF StartsToSend
  <2> QED
    BY <1>1, <1>2, <1>3, <2>5, NewSends
<1>5. TypeOK'
  <2>1. Broadcast(peers[n], Handshake(n)) \in Seq(Send)
    BY <1>2, <1>3, BroadcastSends
  <2>2. sending' \in [Node -> Seq(Send)]
    BY <1>2, <2>1 DEF Start
  <2> QED
    BY <1>1, <2>2 DEF Start, TypeOK, Send, Address, Message
<1>6. IsFiniteSet(conns') /\ PeersDistinct'
  BY DEF NetInv, Start, PeersDistinct, Ids
<1>7. SlotsCounted'
  BY DEF NetInv, Start, SlotsCounted
<1> QED
  BY <1>4, <1>5, <1>6, <1>7 DEF NetInv

LEMMA ListenKeeps ==
  ASSUME NetInv, NEW n \in Node, Listen(n)
  PROVE  NetInv'
<1> USE DEF NetInv, Listen
<1>1. TypeOK'
  BY DEF TypeOK
<1>2. SendsInv'
  <2>1. OnePerSend' /\ OnePerPeer' /\ Unsent' /\ WritesHead'
    BY DEF SendsInv, OnePerSend, OnePerPeer, Unsent, WritesHead, Writing
  <2>2. \A m \in Node : phase'[m] = "off" => phase[m] = "off"
    BY DEF TypeOK
  <2>3. SentIsKnown'
    BY <2>2 DEF SendsInv, SentIsKnown, Known, Ids
  <2> QED
    BY <2>1, <2>3 DEF SendsInv
<1>3. PeersDistinct' /\ SlotsCounted' /\ IsFiniteSet(conns')
  BY DEF PeersDistinct, Ids, SlotsCounted
<1> QED
  BY <1>1, <1>2, <1>3

LEMMA ConnectKeeps ==
  ASSUME NetInv, NEW n \in Node, Connect(n)
  PROVE  NetInv'
<1> DEFINE s == sending[n]
           c == [from |-> n, peer |-> s[1].peer, to |-> Reached(n, s[1].to), msg |-> s[1].msg,
                 state |-> "arriving"]
<1>1. /\ TypeOK /\ SendsInv /\ conns \subseteq Conn /\ sending \in [Node -> Seq(Send)]
  BY DEF NetInv, TypeOK, Conn, Message, Send, Address
<1>2. /\ s \in Seq(Send) /\ Tail(s) \in Seq(Send) /\ Head(s) = s[1] /\ s[1] \in Send
  BY <1>1, TailOfSends DEF Connect
<1>3. /\ conns' = conns \union {c}
      /\ sending' = IF IsLarge(s[1].msg) THEN sending ELSE [sending EXCEPT ![n] = Tail(s)]
      /\ UNCHANGED <<phase, peers, blocks, slots, channel, lost>>
  BY <1>2 DEF Connect
<1>4. c \in Conn
  BY <1>2, Addresses DEF Send, Conn
<1>5. SendsInv'
  BY <1>1, ConnectKeepsSends
<1>6. TypeOK'
  <2>1. sending' \in [Node -> Seq(Send)]
    BY <1>1, <1>2, <1>3
  <2>2. conns' \subseteq Conn
    BY <1>1, <1>3, <1>4
  <2> QED
    BY <1>1, <1>3, <2>1, <2>2 DEF TypeOK, Send, Address, Message, Conn
<1>7. IsFiniteSet(conns') /\ PeersDistinct'
  BY <1>3, FS_AddElement DEF NetInv, PeersDistinct, Ids
<1>8. SlotsCounted'
  BY <1>3, SlotsAlone
<1> QED
  BY <1>5, <1>6, <1>7, <1>8 DEF NetInv

LEMMA ConnectFailsKeeps ==
  ASSUME NetInv, NEW n \in Node, ConnectFails(n)
  PROVE  NetInv'
<1>1. /\ TypeOK /\ SendsInv /\ sending \in [Node -> Seq(Send)] /\ sending[n] # <<>> /\ Writing(n) = {}
      /\ sending' = [sending EXCEPT ![n] = Tail(@)]
      /\ UNCHANGED <<phase, peers, blocks, conns, slots, channel>>
      /\ lost' \in BOOLEAN
  BY DEF NetInv, TypeOK, Message, Send, Address, ConnectFails
<1>2. SendsInv'
  BY <1>1, SendDropped
<1>3. sending' \in [Node -> Seq(Send)]
  BY <1>1, TailOfSends
<1>4. TypeOK'
  BY <1>1, <1>3 DEF TypeOK, Send, Address, Message
<1>5. IsFiniteSet(conns')
  BY <1>1 DEF NetInv
<1>6. PeersDistinct'
  BY <1>1 DEF NetInv, PeersDistinct, Ids
<1>7. SlotsCounted'
  BY <1>1 DEF NetInv, SlotsCounted
<1> QED
  BY <1>2, <1>4, <1>5, <1>6, <1>7 DEF NetInv

LEMMA AcceptKeeps ==
  ASSUME NetInv, NEW n \in Node, Accept(n)
  PROVE  NetInv'
<1>1. PICK c \in conns : /\ c.to = n /\ c.state = "arriving" /\ slots[n] < MaxConnections
                         /\ slots' = [slots EXCEPT ![n] = @ + 1] /\ conns' = Become(c, "reading")
                         /\ UNCHANGED <<phase, peers, sending, blocks, channel, lost>>
  BY DEF Accept
<1>2. TypeOK /\ SendsInv /\ conns \subseteq Conn /\ IsFiniteSet(conns)
  BY DEF NetInv, TypeOK, Conn, Message
<1>3. SlotsCounted' /\ slots' \in [Node -> 0 .. MaxConnections]
  BY <1>1, SlotTaken
<1>4. conns' \subseteq Conn /\ IsFiniteSet(conns')
  BY <1>1, <1>2, MovedType
<1>5. SendsInv'
  BY <1>1, <1>2, ConnMoves DEF Become
<1>6. TypeOK'
  BY <1>1, <1>2, <1>3, <1>4 DEF TypeOK, Conn, Message
<1>7. PeersDistinct'
  BY <1>1 DEF NetInv, PeersDistinct, Ids
<1> QED
  BY <1>3, <1>4, <1>5, <1>6, <1>7 DEF NetInv

\* A connection is closed, or its message is read.
LEMMA AfterWriteKeeps ==
  ASSUME NetInv, NEW c \in conns, c.state \in {"arriving", "reading"},
         conns' = conns \ {c} \/ conns' = Become(c, "waiting"),
         sending' = AfterWrite(c), slots' \in [Node -> 0 .. MaxConnections], SlotsCounted', lost' \in BOOLEAN,
         UNCHANGED <<phase, peers, blocks, channel>>
  PROVE  NetInv'
<1>1. TypeOK /\ SendsInv /\ conns \subseteq Conn /\ IsFiniteSet(conns)
  BY DEF NetInv, TypeOK, Conn, Message
<1>2. sending' \in [Node -> Seq(Send)]
  BY <1>1, AfterWriteType
<1>3. conns' \subseteq Conn /\ IsFiniteSet(conns')
  BY <1>1, MovedType
<1>4. conns' \subseteq (conns \ {c}) \union {[c EXCEPT !.state = "waiting"]}
  BY DEF Become
<1>5. SendsInv'
  <2>1. CASE IsLarge(c.msg)
    <3>1. sending' = [sending EXCEPT ![c.from] = Tail(@)]
      BY <2>1 DEF AfterWrite
    <3> QED
      BY <1>1, <1>4, <2>1, <3>1, ConnMoves
  <2>2. CASE ~IsLarge(c.msg)
    <3>1. sending' = sending /\ c \notin Writing(c.from)
      BY <2>2 DEF AfterWrite, Writing
    <3> QED
      BY <1>1, <1>4, <3>1, ConnMoves
  <2> QED
    BY <2>1, <2>2
<1>6. TypeOK'
  BY <1>1, <1>2, <1>3 DEF TypeOK, Conn, Message, Send, Address
<1>7. PeersDistinct'
  BY DEF NetInv, PeersDistinct, Ids
<1> QED
  BY <1>3, <1>5, <1>6, <1>7 DEF NetInv

LEMMA RejectKeeps ==
  ASSUME NetInv, NEW n \in Node, Reject(n)
  PROVE  NetInv'
<1>1. PICK c \in conns : /\ c.to = n /\ c.state = "arriving" /\ conns' = conns \ {c}
                         /\ sending' = AfterWrite(c)
                         /\ lost' = (lost \/ c.msg.type = "Handshake")
                         /\ UNCHANGED <<phase, peers, blocks, slots, channel>>
  BY DEF Reject
<1>2. lost' \in BOOLEAN /\ slots' \in [Node -> 0 .. MaxConnections]
  BY <1>1 DEF NetInv, TypeOK
<1>3. SlotsCounted'
  BY <1>1, SlotsAlone
<1> QED
  BY <1>1, <1>2, <1>3, AfterWriteKeeps

LEMMA ReadKeeps ==
  ASSUME NetInv, NEW n \in Node, Read(n) \/ ReadTimeout(n)
  PROVE  NetInv'
<1>1. CASE Read(n)
  <2>1. PICK c \in conns : /\ c.to = n /\ c.state = "reading" /\ conns' = Become(c, "waiting")
                           /\ sending' = AfterWrite(c)
                           /\ UNCHANGED <<phase, peers, blocks, slots, channel, lost>>
    BY <1>1 DEF Read
  <2>2. lost' \in BOOLEAN /\ slots' \in [Node -> 0 .. MaxConnections]
    BY <2>1 DEF NetInv, TypeOK
  <2>3. SlotsCounted'
    BY <2>1, SlotKept
  <2> QED
    BY <2>1, <2>2, <2>3, AfterWriteKeeps
<1>2. CASE ReadTimeout(n)
  <2>1. PICK c \in conns : /\ c.to = n /\ c.state = "reading" /\ conns' = conns \ {c}
                           /\ sending' = AfterWrite(c) /\ DropGuard(n)
                           /\ lost' = (lost \/ c.msg.type = "Handshake")
                           /\ UNCHANGED <<phase, peers, blocks, channel>>
    BY <1>2 DEF ReadTimeout
  <2>2. lost' \in BOOLEAN
    BY <2>1 DEF NetInv, TypeOK
  <2>3. SlotsCounted' /\ slots' \in [Node -> 0 .. MaxConnections]
    BY <2>1, SlotGivenBack
  <2> QED
    BY <2>1, <2>2, <2>3, AfterWriteKeeps
<1> QED
  BY <1>1, <1>2

LEMMA DeliverKeeps ==
  ASSUME NetInv, NEW n \in Node, Deliver(n)
  PROVE  NetInv'
<1>1. PICK c \in conns : /\ c.to = n /\ c.state = "waiting" /\ conns' = conns \ {c} /\ DropGuard(n)
                         /\ channel' = [channel EXCEPT ![n] = Append(@, c.msg)]
                         /\ UNCHANGED <<phase, peers, sending, blocks, lost>>
  BY DEF Deliver
<1>2. /\ TypeOK /\ SendsInv /\ conns \subseteq Conn /\ IsFiniteSet(conns)
      /\ channel \in [Node -> Seq(Message)] /\ c.msg \in Message
  BY DEF NetInv, TypeOK, Conn, Message
<1>3. SlotsCounted' /\ slots' \in [Node -> 0 .. MaxConnections]
  BY <1>1, SlotGivenBack
<1>4. conns' \subseteq Conn /\ IsFiniteSet(conns')
  BY <1>1, <1>2, MovedType
<1>5. c \notin Writing(c.from)
  BY <1>1 DEF Writing
<1>6. SendsInv'
  BY <1>1, <1>2, <1>5, ConnMoves
<1>7. channel' \in [Node -> Seq(Message)]
  BY <1>1, <1>2, PeerAdded
<1>8. TypeOK'
  BY <1>1, <1>2, <1>3, <1>4, <1>7 DEF TypeOK, Conn, Message
<1>9. PeersDistinct'
  BY <1>1 DEF NetInv, PeersDistinct, Ids
<1> QED
  BY <1>3, <1>4, <1>6, <1>8, <1>9 DEF NetInv

LEMMA BroadcastBlockKeeps ==
  ASSUME NetInv, NEW n \in Node, BroadcastBlock(n)
  PROVE  NetInv'
<1> DEFINE msg == BlockMsg(n, blocks[n] + 1)
<1>1. /\ TypeOK /\ SendsInv /\ sending \in [Node -> Seq(Send)] /\ blocks \in [Node -> Nat]
      /\ conns \subseteq Conn /\ peers[n] \in Seq([id : Node, address : Address])
      /\ \A i, j \in DOMAIN peers[n] : peers[n][i].id = peers[n][j].id => i = j
      /\ \A m \in Node : blocks[m] <= MaxBlocks[m]
      /\ MaxBlocks \in [Node -> Nat]
  BY NetworkAssumption DEF NetInv, TypeOK, Address, Send, Message, Conn, PeersDistinct
<1>2. /\ phase[n] # "off" /\ sending[n] = <<>> /\ blocks[n] < MaxBlocks[n]
      /\ blocks' = [blocks EXCEPT ![n] = @ + 1]
      /\ sending' = [sending EXCEPT ![n] = Broadcast(peers[n], msg)]
      /\ UNCHANGED <<phase, peers, conns, slots, channel, lost>>
  BY DEF BroadcastBlock
<1>3. msg \in Message /\ msg.nr = blocks[n] + 1
  BY <1>1, BlockMsgType
<1> HIDE DEF msg
<1>4. blocks' \in [Node -> Nat] /\ blocks'[n] = blocks[n] + 1 /\ \A m \in Node : m # n => blocks'[m] = blocks[m]
  BY <1>1, <1>2
\* No connection has a block of this number yet.
<1>5. \A c \in conns : c.from = n => c.msg # msg
  <2>1. ASSUME NEW c \in conns, c.from = n, c.msg = msg PROVE FALSE
    <3>1. c.msg.nr <= blocks[n]
      BY <2>1 DEF NetInv, SendsInv, SentIsKnown, Known
    <3> QED
      BY <1>1, <1>3, <2>1, <3>1
  <2> QED
    BY <2>1
<1>6. SendsInv'
  <2>1. \A m \in Node : /\ Ids(m) \subseteq Ids(m)' /\ blocks'[m] \in {blocks[m], blocks[m] + 1}
                        /\ phase'[m] = "off" => phase[m] = "off" /\ m # n
    BY <1>2, <1>4 DEF Ids
  <2>2. msg.nr <= blocks'[n]
    BY <1>1, <1>3, <1>4
  <2>3. \A i \in DOMAIN peers[n] : /\ peers[n][i].id \in Ids(n)'
                                   /\ \A c \in conns : c.from = n /\ c.peer = peers[n][i].id => c.msg # msg
    BY <1>2, <1>5 DEF Ids
  <2>4. conns' = conns /\ sending' = [sending EXCEPT ![n] = Broadcast(peers[n], msg)]
    BY <1>2
  <2>5. /\ TypeOK /\ SendsInv /\ sending[n] = <<>> /\ msg \in Message
        /\ peers[n] \in Seq([id : Node, address : Address])
        /\ \A i, j \in DOMAIN peers[n] : peers[n][i].id = peers[n][j].id => i = j
    BY <1>1, <1>2, <1>3
  <2>6. StartsToSend(n, peers[n], msg)
    BY <2>1, <2>2, <2>3, <2>4, <2>5 DEF StartsToSend
  <2> QED
    BY <2>5, <2>6, NewSends
<1>7. TypeOK'
  <2>1. Broadcast(peers[n], msg) \in Seq(Send)
    BY <1>1, <1>3, BroadcastSends
  <2>2. sending' \in [Node -> Seq(Send)]
    BY <1>1, <1>2, <2>1
  <2>3. \A m \in Node : blocks'[m] <= MaxBlocks[m]
    BY <1>1, <1>2, <1>4
  <2> QED
    BY <1>1, <1>2, <1>4, <2>2, <2>3 DEF TypeOK, Send, Address, Message
<1>8. IsFiniteSet(conns') /\ PeersDistinct' /\ SlotsCounted'
  BY <1>2 DEF NetInv, PeersDistinct, Ids, SlotsCounted
<1> QED
  BY <1>6, <1>7, <1>8 DEF NetInv
\* A peer is added that is not the node itself and not known: the handshake in
\* answer is the first message it is sent.
TakesPeer(n, peer) ==
  /\ phase[n] # "off" /\ sending[n] = <<>> /\ IsNewPeer(n, peer.id)
  /\ channel' \in [Node -> Seq(Message)]
  /\ peers' = [peers EXCEPT ![n] = Append(@, peer)]
  /\ sending' = [sending EXCEPT ![n] = Broadcast(<<peer>>, Handshake(n))]
  /\ UNCHANGED <<phase, blocks, conns, slots, lost>>

LEMMA NewPeerKeeps ==
  ASSUME NetInv, NEW n \in Node, NEW peer \in [id : Node, address : Address], TakesPeer(n, peer)
  PROVE  NetInv'
<1> DEFINE P == [id : Node, address : Address]
           list == peers[n]
           new == Append(list, peer)
<1>1. /\ TypeOK /\ SendsInv /\ PeersDistinct /\ sending \in [Node -> Seq(Send)] /\ blocks \in [Node -> Nat]
      /\ peers \in [Node -> Seq(P)] /\ list \in Seq(P)
  BY DEF NetInv, TypeOK, Address, Send, Message
<1>2. /\ new \in Seq(P)
      /\ DOMAIN new = 1 .. Len(list) + 1 /\ DOMAIN list = 1 .. Len(list) /\ Len(list) \in Nat
      /\ \A i \in DOMAIN list : new[i] = list[i]
      /\ new[Len(list) + 1] = peer
  <2>1. list \in Seq(P) /\ peer \in P
    BY <1>1
  <2> HIDE DEF P, list
  <2> QED
    BY <2>1, PeerAdded
<1>3. peers' = [peers EXCEPT ![n] = new] /\ peers'[n] = new /\ \A m \in Node : m # n => peers'[m] = peers[m]
  BY <1>1 DEF TakesPeer
<1>4. peer.id # n /\ \A i \in DOMAIN list : list[i].id # peer.id /\ list[i].id # n
  BY <1>1 DEF TakesPeer, IsNewPeer, Ids, PeersDistinct
<1>5. \A i, j \in DOMAIN list : list[i].id = list[j].id => i = j
  BY <1>1 DEF PeersDistinct
<1> HIDE DEF list, new
<1>6. Ids(n)' = Ids(n) \union {peer.id} /\ \A m \in Node : m # n => Ids(m)' = Ids(m)
  <2>1. Ids(n) = {list[i].id : i \in DOMAIN list}
    BY DEF Ids, list
  <2>2. Ids(n)' = {new[i].id : i \in DOMAIN new}
    BY <1>3 DEF Ids
  <2>3. \A i : i \in DOMAIN new <=> i \in DOMAIN list \/ i = Len(list) + 1
    BY <1>2
  <2>4. Ids(n)' = Ids(n) \union {peer.id}
    BY <1>2, <2>1, <2>2, <2>3
  <2>5. ASSUME NEW m \in Node, m # n PROVE Ids(m)' = Ids(m)
    BY <1>3, <2>5 DEF Ids
  <2> QED
    BY <2>4, <2>5
<1>7. PeersDistinct'
  <2>1. ASSUME NEW m \in Node, m # n
        PROVE  m \notin Ids(m)' /\ \A i, j \in DOMAIN peers'[m] : peers'[m][i].id = peers'[m][j].id => i = j
    BY <1>1, <1>3, <1>6, <2>1 DEF PeersDistinct
  <2>2. n \notin Ids(n)'
    BY <1>1, <1>4, <1>6 DEF PeersDistinct
  <2>3. ASSUME NEW i \in DOMAIN new, NEW j \in DOMAIN new, new[i].id = new[j].id PROVE i = j
    <3>1. /\ i \in DOMAIN list \/ i = Len(list) + 1
          /\ j \in DOMAIN list \/ j = Len(list) + 1
      BY <1>2
    <3> QED
      BY <1>2, <1>4, <1>5, <2>3, <3>1
  <2>4. \A i, j \in DOMAIN peers'[n] : peers'[n][i].id = peers'[n][j].id => i = j
    BY <1>3, <2>3
  <2> QED
    BY <2>1, <2>2, <2>4 DEF PeersDistinct
\* No connection goes to the new peer yet.
<1>8. SendsInv'
  <2>1. \A c \in conns : c.from = n => c.peer # peer.id
    BY <1>1 DEF SendsInv, SentIsKnown, Known, TakesPeer, IsNewPeer
  <2>2. ASSUME NEW one \in Seq([id : Node, address : Address]), one = <<peer>> PROVE SendsInv'
    <3>1. DOMAIN one = {1} /\ one[1] = peer
      BY <2>2, LenProperties
    <3>2. conns' = conns /\ sending' = [sending EXCEPT ![n] = Broadcast(one, Handshake(n))]
      BY <2>2 DEF TakesPeer
    <3>3. \A m \in Node : /\ Ids(m) \subseteq Ids(m)' /\ blocks'[m] \in {blocks[m], blocks[m] + 1}
                          /\ phase'[m] = "off" => phase[m] = "off" /\ m # n
      BY <1>1, <1>6 DEF TakesPeer
    <3>4. \A i \in DOMAIN one :
            /\ one[i].id \in Ids(n)'
            /\ \A c \in conns : c.from = n /\ c.peer = one[i].id => c.msg # Handshake(n)
      BY <1>6, <2>1, <3>1
    <3>5. Handshake(n) \in Message /\ Handshake(n).nr <= blocks'[n]
      BY <1>1, HandshakeType DEF TakesPeer
    <3>6. \A i, j \in DOMAIN one : one[i].id = one[j].id => i = j
      BY <3>1
    <3>7. TypeOK /\ SendsInv /\ sending[n] = <<>>
      BY <1>1 DEF TakesPeer
    <3>8. StartsToSend(n, one, Handshake(n))
      BY <3>2, <3>3, <3>4, <3>5, <3>6, <3>7 DEF StartsToSend
    <3> QED
      BY <3>5, <3>7, <3>8, NewSends
  <2>3. <<peer>> \in Seq([id : Node, address : Address])
    OBVIOUS
  <2> QED
    BY <2>2, <2>3
<1>9. TypeOK'
  <2>1. Broadcast(<<peer>>, Handshake(n)) \in Seq(Send)
    <3>1. <<peer>> \in Seq(P)
      OBVIOUS
    <3> QED
      BY <3>1, HandshakeType, BroadcastSends
  <2>2. sending' \in [Node -> Seq(Send)]
    BY <1>1, <2>1 DEF TakesPeer
  <2>3. peers' \in [Node -> Seq(P)]
    BY <1>1, <1>2, <1>3
  <2> QED
    BY <1>1, <2>2, <2>3 DEF TakesPeer, TypeOK, Send, Address, Message
<1>10. IsFiniteSet(conns') /\ SlotsCounted'
  BY DEF TakesPeer, NetInv, SlotsCounted
<1> QED
  BY <1>7, <1>8, <1>9, <1>10 DEF NetInv

LEMMA DrainKeeps ==
  ASSUME NetInv, NEW n \in Node, Drain(n)
  PROVE  NetInv'
<1> DEFINE msg == Head(channel[n])
           peer == [id |-> msg.node_id, address |-> ListenAddress(msg.node_id)]
<1>1. /\ phase[n] # "off" /\ sending[n] = <<>> /\ channel[n] # <<>>
      /\ channel' = [channel EXCEPT ![n] = Tail(@)]
      /\ UNCHANGED <<phase, blocks, conns, slots, lost>>
      /\ \/ /\ IsNewPeer(n, msg.node_id)
            /\ peers' = [peers EXCEPT ![n] = Append(@, peer)]
            /\ sending' = [sending EXCEPT ![n] = Broadcast(<<peer>>, Handshake(n))]
         \/ UNCHANGED <<peers, sending>>
  BY DEF Drain
<1>2. channel \in [Node -> Seq(Message)]
  BY DEF NetInv, TypeOK, Message
<1>3. Tail(channel[n]) \in Seq(Message) /\ msg \in Message
  BY <1>1, <1>2, TailOfSends
<1>4. channel' \in [Node -> Seq(Message)]
  BY <1>1, <1>2, <1>3
<1>5. peer \in [id : Node, address : Address] /\ peer.id = msg.node_id
  BY <1>3, Addresses DEF Message
<1> HIDE DEF msg, peer
<1>6. CASE /\ IsNewPeer(n, msg.node_id)
           /\ peers' = [peers EXCEPT ![n] = Append(@, peer)]
           /\ sending' = [sending EXCEPT ![n] = Broadcast(<<peer>>, Handshake(n))]
  <2>1. TakesPeer(n, peer)
    BY <1>1, <1>4, <1>5, <1>6 DEF TakesPeer
  <2> QED
    BY <1>5, <2>1, NewPeerKeeps
<1>7. CASE UNCHANGED <<peers, sending>>
  <2>1. UNCHANGED <<phase, peers, sending, blocks, conns, slots, lost>>
    BY <1>1, <1>7
  <2>2. TypeOK'
    BY <1>4, <2>1 DEF NetInv, TypeOK, Message
  <2>3. SendsInv'
    BY <2>1 DEF NetInv, SendsInv, OnePerSend, OnePerPeer, Unsent, WritesHead, Writing, SentIsKnown, Known, Ids
  <2>4. IsFiniteSet(conns') /\ PeersDistinct' /\ SlotsCounted'
    BY <2>1 DEF NetInv, PeersDistinct, Ids, SlotsCounted
  <2> QED
    BY <2>2, <2>3, <2>4 DEF NetInv
<1> QED
  BY <1>1, <1>6, <1>7

-----------------------------------------------------------------------------
LEMMA InitNetInv == Init => NetInv
<1> SUFFICES ASSUME Init PROVE NetInv
  OBVIOUS
<1>1. /\ Config \in [Node -> Seq(Node)]
      /\ \A n \in Node : /\ IsInjective(Config[n])
                         /\ \A i \in DOMAIN Config[n] : Config[n][i] \in Node /\ Config[n][i] # n
  <2>1. \A n \in Node : Config[n] \in Seq(Node)
    BY NetworkAssumption
  <2>2. \A n \in Node : \A i \in DOMAIN Config[n] : Config[n][i] \in Node
    BY <2>1
  <2> QED
    BY <2>2, NetworkAssumption
<1>2. /\ phase = [n \in Node |-> "off"] /\ sending = [n \in Node |-> <<>>]
      /\ blocks = [n \in Node |-> 0] /\ conns = {} /\ slots = [n \in Node |-> 0]
      /\ channel = [n \in Node |-> <<>>] /\ lost = FALSE
      /\ peers = [n \in Node |-> [i \in DOMAIN Config[n] |-> [id |-> Config[n][i], address |-> Config[n][i]]]]
  BY DEF Init
<1>3. \A n \in Node : /\ DOMAIN peers[n] = DOMAIN Config[n]
                      /\ \A i \in DOMAIN Config[n] : peers[n][i].id = Config[n][i]
  BY <1>2
<1>4. peers \in [Node -> Seq([id : Node, address : Address])]
  <2> DEFINE P == [id : Node, address : Address]
  <2>1. ASSUME NEW n \in Node PROVE peers[n] \in Seq(P)
    <3>1. Config[n] \in Seq(Node)
      BY <1>1
    <3>2. Len(Config[n]) \in Nat /\ DOMAIN Config[n] = 1 .. Len(Config[n])
      BY <3>1, LenProperties
    <3>3. peers[n] = [i \in 1 .. Len(Config[n]) |-> [id |-> Config[n][i], address |-> Config[n][i]]]
      BY <1>2, <3>2
    <3>4. peers[n] \in [1 .. Len(Config[n]) -> P]
      BY <1>1, <3>2, <3>3 DEF Address
    <3> HIDE DEF P
    <3> QED
      BY <3>2, <3>4
  <2> QED
    BY <1>2, <2>1
<1>5. PeersDistinct
  <2>1. \A n \in Node : n \notin Ids(n)
    BY <1>1, <1>3 DEF Ids
  <2>2. \A n \in Node : \A i, j \in DOMAIN peers[n] : peers[n][i].id = peers[n][j].id => i = j
    BY <1>1, <1>3 DEF IsInjective
  <2> QED
    BY <2>1, <2>2 DEF PeersDistinct
<1>6. TypeOK
  <2>1. slots \in [Node -> 0 .. MaxConnections] /\ \A n \in Node : blocks[n] <= MaxBlocks[n]
    BY <1>2, NetworkAssumption
  <2>2. /\ sending \in [Node -> Seq([peer : Node, to : Node \union {Unspecified},
                                    msg : [type : {"Handshake", "Block"}, node_id : Node, nr : Nat]])]
        /\ channel \in [Node -> Seq([type : {"Handshake", "Block"}, node_id : Node, nr : Nat])]
    BY <1>2
  <2>3. phase \in [Node -> {"off", "starting", "up"}] /\ blocks \in [Node -> Nat] /\ lost \in BOOLEAN
    BY <1>2
  <2>4. conns = {}
    BY <1>2
  <2> QED
    BY <1>4, <2>1, <2>2, <2>3, <2>4 DEF TypeOK, Address
<1>7. SendsInv
  BY <1>2 DEF SendsInv, OnePerSend, OnePerPeer, Unsent, WritesHead, Writing, SentIsKnown
<1>8. IsFiniteSet(conns) /\ SlotsCounted
  <2>1. \A n \in Node : {c \in conns : c.to = n /\ c.state # "arriving"} = {}
    BY <1>2
  <2> QED
    BY <1>2, <2>1, FS_EmptySet DEF SlotsCounted
<1> QED
  BY <1>5, <1>6, <1>7, <1>8 DEF NetInv

LEMMA StepKeepsNetInv == NetInv /\ [Next]_vars => NetInv'
<1> SUFFICES ASSUME NetInv, [Next]_vars PROVE NetInv'
  OBVIOUS
<1>1. CASE UNCHANGED vars
  <2>1. UNCHANGED <<phase, peers, sending, blocks, conns, slots, channel, lost>>
    BY <1>1 DEF vars
  <2>2. TypeOK' /\ PeersDistinct' /\ SlotsCounted'
    BY ZenonT(60), <2>1 DEF NetInv, TypeOK, PeersDistinct, Ids, SlotsCounted
  <2>3. SendsInv'
    BY <2>1 DEF NetInv, SendsInv, OnePerSend, OnePerPeer, Unsent, WritesHead, Writing, SentIsKnown, Known, Ids
  <2> QED
    BY <2>1, <2>2, <2>3 DEF NetInv
<1>2. ASSUME NEW n \in Node, Start(n) PROVE NetInv'
  BY <1>2, StartKeeps
<1>3. ASSUME NEW n \in Node, Listen(n) PROVE NetInv'
  BY <1>3, ListenKeeps
<1>4. ASSUME NEW n \in Node, Connect(n) PROVE NetInv'
  BY <1>4, ConnectKeeps
<1>5. ASSUME NEW n \in Node, ConnectFails(n) PROVE NetInv'
  BY <1>5, ConnectFailsKeeps
<1>6. ASSUME NEW n \in Node, Accept(n) PROVE NetInv'
  BY <1>6, AcceptKeeps
<1>7. ASSUME NEW n \in Node, Reject(n) PROVE NetInv'
  BY <1>7, RejectKeeps
<1>8. ASSUME NEW n \in Node, Read(n) \/ ReadTimeout(n) PROVE NetInv'
  BY <1>8, ReadKeeps
<1>9. ASSUME NEW n \in Node, Deliver(n) PROVE NetInv'
  BY <1>9, DeliverKeeps
<1>10. ASSUME NEW n \in Node, Drain(n) PROVE NetInv'
  BY <1>10, DrainKeeps
<1>11. ASSUME NEW n \in Node, BroadcastBlock(n) PROVE NetInv'
  BY <1>11, BroadcastBlockKeeps
<1> QED
  BY <1>1, <1>2, <1>3, <1>4, <1>5, <1>6, <1>7, <1>8, <1>9, <1>10, <1>11 DEF Next

\* The inductive invariant holds of every run: in particular no message is sent
\* twice to one peer, and a main loop writes at most to the connection of the
\* first of its sends (broadcast, send_to_peer).
THEOREM NetInvariance == Spec => []NetInv
<1> QED
  BY InitNetInv, StepKeepsNetInv, PTL DEF Spec

\* The transport stays within its types: no listener has more than
\* MAX_CONNECTIONS slots taken, or fewer than none (listen, ConnectionGuard).
THEOREM NetworkTypeCorrect == Spec => []TypeOK
<1>1. NetInv => TypeOK
  BY DEF NetInv
<1> QED
  BY <1>1, NetInvariance, PTL

\* No node becomes its own peer or lists a peer twice, whatever handshakes
\* arrive and however late (add_peer).
THEOREM PeersStayDistinct == Spec => []PeersDistinct
<1>1. NetInv => PeersDistinct
  BY DEF NetInv
<1> QED
  BY <1>1, NetInvariance, PTL

\* The listener's count of slots is the number of tasks that run, whether they
\* end by delivering their message or by a timeout (listen, ConnectionGuard).
THEOREM SlotsStayCounted == Spec => []SlotsCounted
<1>1. NetInv => SlotsCounted
  BY DEF NetInv
<1> QED
  BY <1>1, NetInvariance, PTL
=============================================================================
