------------------------------- MODULE Network -------------------------------
(***************************************************************************)
(* The transport between the nodes and the discovery of peers: every       *)
(* message has a TCP connection of its own, made by the main loop of the   *)
(* sender, accepted by the listener task of the receiver and read by a     *)
(* task of its own, which puts the message into the bounded channel that   *)
(* the receiver's main loop drains.                                        *)
(*                                                                         *)
(* A main loop does one thing at a time: while it sends, to one peer after *)
(* the other, it drains nothing. A connection that is accepted by the      *)
(* kernel but not yet by the listener is "arriving". The kernel takes a    *)
(* small message whole before anyone reads it; writing a large one goes on *)
(* until it is read.                                                       *)
(*                                                                         *)
(* Validator has the same messages on a network without these limits; here *)
(* a block stands for all that the main loop broadcasts in its ticks, and  *)
(* no process is killed.                                                   *)
(***************************************************************************)
EXTENDS Naturals, Sequences, SequencesExt, FiniteSets

CONSTANTS
  Node,            \* ids of the nodes
  Config,          \* Config[n] : the peers in the configuration of n, in order
  Wildcard,        \* the nodes whose listen_address is 0.0.0.0
  Large,           \* the message types that do not fit the kernel's buffers
  MaxConnections,  \* MAX_CONNECTIONS
  Capacity,        \* capacity of the message channel
  MaxBlocks        \* bound: MaxBlocks[n] is how many blocks n broadcasts

ASSUME NetworkAssumption ==
  /\ Config \in [Node -> Seq(Node)]
  /\ \A n \in Node :
       /\ Config[n] # <<>> /\ IsInjective(Config[n])
       /\ \A i \in DOMAIN Config[n] : Config[n][i] # n
  /\ Wildcard \subseteq Node
  /\ Large \subseteq {"Handshake", "Block"}
  /\ MaxConnections \in Nat \ {0} /\ Capacity \in Nat \ {0}
  /\ MaxBlocks \in [Node -> Nat]

VARIABLES
  phase,    \* phase[n] : "off", "starting" (not listening yet) or "up"
  peers,    \* peers[n] : Consensus::peers, records [id, address]
  sending,  \* sending[n] : what the main loop has left to send, records [peer, to, msg]
  blocks,   \* blocks[n] : number of blocks broadcast
  conns,    \* connections, records [from, peer, to, msg, state]: peer is whom the
            \* sender means and to the node that it reaches at the address
  slots,    \* slots[n] : active_connections of the listener
  channel,  \* channel[n] : the messages for the main loop
  lost      \* TRUE once a handshake did not arrive (history)

vars == <<phase, peers, sending, blocks, conns, slots, channel, lost>>

Handshake(n) == [type |-> "Handshake", node_id |-> n, nr |-> 0]
BlockMsg(n, nr) == [type |-> "Block", node_id |-> n, nr |-> nr]

\* The address n sends in its handshakes, and the node that m reaches at an
\* address: 0.0.0.0 is m itself.
Unspecified == "0.0.0.0"
ListenAddress(n) == IF n \in Wildcard THEN Unspecified ELSE n
Reached(m, address) == IF address = Unspecified THEN m ELSE address

Ids(n) == {peers[n][i].id : i \in DOMAIN peers[n]}

\* broadcast: one send per peer, in the order of the list.
Broadcast(list, msg) ==
  [i \in DOMAIN list |-> [peer |-> list[i].id, to |-> list[i].address, msg |-> msg]]

Init ==
  /\ phase = [n \in Node |-> "off"]
  /\ peers = [n \in Node |-> [i \in DOMAIN Config[n] |-> [id |-> Config[n][i], address |-> Config[n][i]]]]
  /\ sending = [n \in Node |-> <<>>]
  /\ blocks = [n \in Node |-> 0]
  /\ conns = {}
  /\ slots = [n \in Node |-> 0]
  /\ channel = [n \in Node |-> <<>>]
  /\ lost = FALSE

\* start_node spawns the listener and broadcasts its handshake. Until the task
\* has bound its port, connections to it are refused.
Start(n) ==
  /\ phase[n] = "off"
  /\ phase' = [phase EXCEPT ![n] = "starting"]
  /\ sending' = [sending EXCEPT ![n] = Broadcast(peers[n], Handshake(n))]
  /\ UNCHANGED <<peers, blocks, conns, slots, channel, lost>>

Listen(n) ==
  /\ phase[n] = "starting"
  /\ phase' = [phase EXCEPT ![n] = "up"]
  /\ UNCHANGED <<peers, sending, blocks, conns, slots, channel, lost>>

-----------------------------------------------------------------------------
\* send_to_peer, in the main loop of n.

IsLarge(msg) == msg.type \in Large

\* The connections the main loop of n is still writing to: at most one.
Writing(n) == {c \in conns : c.from = n /\ IsLarge(c.msg) /\ c.state \in {"arriving", "reading"}}

\* What the sender of c has left once c is read or closed.
AfterWrite(c) == IF IsLarge(c.msg) THEN [sending EXCEPT ![c.from] = Tail(@)] ELSE sending

Connect(n) ==
  LET send == Head(sending[n])
      to == Reached(n, send.to)
  IN  /\ sending[n] # <<>> /\ Writing(n) = {}
      /\ phase[to] = "up"
      /\ conns' = conns \union {[from |-> n, peer |-> send.peer, to |-> to, msg |-> send.msg,
                                state |-> "arriving"]}
      /\ sending' = IF IsLarge(send.msg) THEN sending ELSE [sending EXCEPT ![n] = Tail(@)]
      /\ UNCHANGED <<phase, peers, blocks, slots, channel, lost>>

\* Nobody listens at the address, or no answer comes for 5 s. One attempt only.
ConnectFails(n) ==
  /\ sending[n] # <<>> /\ Writing(n) = {}
  /\ lost' = (lost \/ Head(sending[n]).msg.type = "Handshake")
  /\ sending' = [sending EXCEPT ![n] = Tail(@)]
  /\ UNCHANGED <<phase, peers, blocks, conns, slots, channel>>

-----------------------------------------------------------------------------
\* listen: the listener task of n.

Become(c, state) == (conns \ {c}) \union {[c EXCEPT !.state = state]}

Accept_OverLimit(n) ==
  \E c \in conns :
    /\ c.to = n /\ c.state = "arriving"
    /\ slots[n] <= MaxConnections
    /\ slots' = [slots EXCEPT ![n] = @ + 1]
    /\ conns' = Become(c, "reading")
    /\ UNCHANGED <<phase, peers, sending, blocks, channel, lost>>

Accept(n) ==
  \E c \in conns :
    /\ c.to = n /\ c.state = "arriving"
    /\ slots[n] < MaxConnections
    /\ slots' = [slots EXCEPT ![n] = @ + 1]
    /\ conns' = Become(c, "reading")
    /\ UNCHANGED <<phase, peers, sending, blocks, channel, lost>>

\* All slots are taken: the connection is closed at once.
Reject_Never(n) ==
  /\ conns = {} /\ slots[n] >= MaxConnections
  /\ UNCHANGED vars

Reject(n) ==
  \E c \in conns :
    /\ c.to = n /\ c.state = "arriving"
    /\ slots[n] >= MaxConnections
    /\ conns' = conns \ {c}
    /\ sending' = AfterWrite(c)
    /\ lost' = (lost \/ c.msg.type = "Handshake")
    /\ UNCHANGED <<phase, peers, blocks, slots, channel>>

\* The tasks that read the connections of n.

\* The guard of a connection is dropped when its task ends, however it ends.
DropGuard(n) == slots' = [slots EXCEPT ![n] = @ - 1]

Read(n) ==
  \E c \in conns :
    /\ c.to = n /\ c.state = "reading"
    /\ conns' = Become(c, "waiting")
    /\ sending' = AfterWrite(c)
    /\ UNCHANGED <<phase, peers, blocks, slots, channel, lost>>

\* Not all of the message came within 10 s.
ReadTimeout_KeepsSlot(n) ==
  \E c \in conns :
    /\ c.to = n /\ c.state = "reading"
    /\ conns' = conns \ {c}
    /\ sending' = AfterWrite(c)
    /\ lost' = (lost \/ c.msg.type = "Handshake")
    /\ UNCHANGED <<phase, peers, blocks, slots, channel>>

ReadTimeout(n) ==
  \E c \in conns :
    /\ c.to = n /\ c.state = "reading"
    /\ conns' = conns \ {c}
    /\ sending' = AfterWrite(c)
    /\ DropGuard(n)
    /\ lost' = (lost \/ c.msg.type = "Handshake")
    /\ UNCHANGED <<phase, peers, blocks, channel>>

\* The task waits for room in the channel and keeps its slot meanwhile.
Deliver(n) ==
  \E c \in conns :
    /\ c.to = n /\ c.state = "waiting"
    /\ Len(channel[n]) < Capacity
    /\ channel' = [channel EXCEPT ![n] = Append(@, c.msg)]
    /\ conns' = conns \ {c}
    /\ DropGuard(n)
    /\ UNCHANGED <<phase, peers, sending, blocks, lost>>

-----------------------------------------------------------------------------
\* The main loop of n.

\* add_peer takes neither the node itself nor a peer it knows.
IsNewPeer_Known(n, id) == id # n

IsNewPeer_Self(n, id) == id \notin Ids(n)

IsNewPeer(n, id) == id # n /\ id \notin Ids(n)

Drain_AnswersAll(n) ==
  LET msg == Head(channel[n])
      peer == [id |-> msg.node_id, address |-> ListenAddress(msg.node_id)]
      handshake == msg.type = "Handshake"
  IN  /\ phase[n] # "off" /\ sending[n] = <<>>
      /\ channel[n] # <<>>
      /\ channel' = [channel EXCEPT ![n] = Tail(@)]
      /\ peers' = IF handshake /\ IsNewPeer(n, peer.id) THEN [peers EXCEPT ![n] = Append(@, peer)] ELSE peers
      /\ sending' = IF handshake THEN [sending EXCEPT ![n] = Broadcast(<<peer>>, Handshake(n))]
                    ELSE sending
      /\ UNCHANGED <<phase, blocks, conns, slots, lost>>

Drain_Forgets(n) ==
  LET msg == Head(channel[n])
      peer == [id |-> msg.node_id, address |-> ListenAddress(msg.node_id)]
  IN  /\ phase[n] # "off" /\ sending[n] = <<>>
      /\ channel[n] # <<>>
      /\ channel' = [channel EXCEPT ![n] = Tail(@)]
      /\ sending' = IF msg.type = "Handshake" /\ IsNewPeer(n, msg.node_id)
                    THEN [sending EXCEPT ![n] = Broadcast(<<peer>>, Handshake(n))]
                    ELSE sending
      /\ UNCHANGED <<phase, peers, blocks, conns, slots, lost>>

\* Step 2 drains one message: a handshake of a new peer is answered.
Drain(n) ==
  LET msg == Head(channel[n])
      peer == [id |-> msg.node_id, address |-> ListenAddress(msg.node_id)]
  IN  /\ phase[n] # "off" /\ sending[n] = <<>>
      /\ channel[n] # <<>>
      /\ channel' = [channel EXCEPT ![n] = Tail(@)]
      /\ \/ /\ msg.type = "Handshake" /\ IsNewPeer(n, msg.node_id)
            /\ peers' = [peers EXCEPT ![n] = Append(@, peer)]
            /\ sending' = [sending EXCEPT ![n] = Broadcast(<<peer>>, Handshake(n))]
         \/ /\ ~(msg.type = "Handshake" /\ IsNewPeer(n, msg.node_id))
            /\ UNCHANGED <<peers, sending>>
      /\ UNCHANGED <<phase, blocks, conns, slots, lost>>

\* Steps 4 to 8 broadcast proposals, signatures and votes.
BroadcastBlock(n) ==
  /\ phase[n] # "off" /\ sending[n] = <<>>
  /\ blocks[n] < MaxBlocks[n]
  /\ blocks' = [blocks EXCEPT ![n] = @ + 1]
  /\ sending' = [sending EXCEPT ![n] = Broadcast(peers[n], BlockMsg(n, blocks[n] + 1))]
  /\ UNCHANGED <<phase, peers, conns, slots, channel, lost>>

Next ==
  \E n \in Node :
    \/ Start(n) \/ Listen(n)
    \/ Connect(n) \/ ConnectFails(n)
    \/ Accept(n) \/ Reject(n)
    \/ Read(n) \/ ReadTimeout(n) \/ Deliver(n)
    \/ Drain(n) \/ BroadcastBlock(n)

\* The tasks of a node that is started run, and both timeouts expire. Nothing
\* makes a node start or have a block to send.
Fairness ==
  \A n \in Node :
    /\ WF_vars(Listen(n))
    /\ WF_vars(Connect(n) \/ ConnectFails(n))
    /\ WF_vars(Accept(n) \/ Reject(n))
    /\ WF_vars(Read(n) \/ ReadTimeout(n))
    /\ WF_vars(Deliver(n))
    /\ WF_vars(Drain(n))

Spec == Init /\ [][Next]_vars /\ Fairness

-----------------------------------------------------------------------------
\* Type invariant.
TypeOK ==
  LET Message == [type : {"Handshake", "Block"}, node_id : Node, nr : Nat]
      Address == Node \union {Unspecified}
  IN  /\ phase \in [Node -> {"off", "starting", "up"}]
      /\ peers \in [Node -> Seq([id : Node, address : Address])]
      /\ sending \in [Node -> Seq([peer : Node, to : Address, msg : Message])]
      /\ blocks \in [Node -> Nat]
      /\ \A n \in Node : blocks[n] <= MaxBlocks[n]
      /\ conns \subseteq [from : Node, peer : Node, to : Node, msg : Message,
                          state : {"arriving", "reading", "waiting"}]
      /\ slots \in [Node -> 0 .. MaxConnections]
      /\ channel \in [Node -> Seq(Message)]
      /\ lost \in BOOLEAN

\* No node is its own peer or has a peer twice, whatever handshakes arrive, its
\* own among them: a node listed twice would lead twice as often for one node
\* as for the others (add_peer, leader_for_height_round).
PeersDistinct ==
  \A n \in Node :
    /\ n \notin Ids(n)
    /\ \A i, j \in DOMAIN peers[n] : peers[n][i].id = peers[n][j].id => i = j

\* The listener's count is the number of tasks that read a connection or wait
\* for room in the channel (ConnectionGuard).
SlotsCounted ==
  \A n \in Node : slots[n] = Cardinality({c \in conns : c.to = n /\ c.state # "arriving"})

\* A main loop that sends gets back to its ticks, though it has no timeout for
\* writing and the receivers may be sending at the same time, to it or, behind
\* the address 0.0.0.0, to themselves (send_to_peer, broadcast).
SendsReturn == \A n \in Node : sending[n] # <<>> ~> sending[n] = <<>>

\* A listener that turns connections away takes them again (MAX_CONNECTIONS).
SlotsFreed == \A n \in Node : slots[n] = MaxConnections ~> slots[n] < MaxConnections

\* The handshakes and their answers come to an end.
DiscoveryEnds ==
  <>[](\A n \in Node : sending[n] = <<>> /\ channel[n] = <<>>)

\* If each two nodes are in the configuration of at least one of them, all
\* nodes are up and no handshake is lost, then all nodes have the same list of
\* nodes in the end, and so agree on who leads (all_node_ids).
SameNodes ==
  <>[](/\ \A n \in Node : phase[n] = "up"
       /\ ~lost
       => \A n \in Node : Ids(n) \union {n} = Node)
=============================================================================
