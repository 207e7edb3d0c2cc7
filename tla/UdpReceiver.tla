---------------------------- MODULE UdpReceiver ----------------------------
(***************************************************************************)
(* UDPReceiver and MulticastReceiver of the market data system: an owner   *)
(* starts and stops one; its thread blocks in recvfrom or recvmsg and      *)
(* hands each datagram to the message handler.  The network delivers,      *)
(* drops, repeats and reorders before the socket; a datagram is known by   *)
(* the order in which it arrives there.                                    *)
(***************************************************************************)
EXTENDS Integers, Sequences, FiniteSets

CONSTANTS
  Fds,          \* descriptors the kernel can hand out
  NoFd,         \* -1
  Sizes,        \* lengths of the datagrams
  MAX_PACKET_SIZE,
  MaxPackets    \* bound: datagrams that arrive

ASSUME UdpConstants ==
  /\ NoFd \notin Fds /\ IsFiniteSet(Fds)
  /\ Sizes \subseteq Nat /\ MAX_PACKET_SIZE \in Nat
  /\ MaxPackets \in Nat

VARIABLES
  multicast,  \* whether the object is a MulticastReceiver
  running,    \* running_
  fd,         \* socket_fd_
  open,       \* descriptors the kernel holds open for this program
  failed,     \* whether the owner's last call was a start() that failed
  lost,       \* descriptors that a start() after a failed one wrote over
  owner,      \* whether the owner is inside stop()
  thread,     \* where receiver_thread_ is
  arrived,    \* sizes of the datagrams that reached a socket of this object
  socket,     \* those in the socket's receive queue, by number
  packet,     \* what the last receive put into receive_buffer_
  handled,    \* what onMessage was given, in order
  discarded,  \* how many went with a socket that was closed
  stats       \* stats_

descriptors == <<fd, open, failed, lost>>
udpVars == <<multicast, running, descriptors, owner, thread, arrived, socket,
             packet, handled, discarded, stats>>
network == <<arrived, socket, discarded>>
output == <<packet, handled, stats>>

NoPacket == [number |-> 0, length |-> 0]
Least(a, b) == IF a < b THEN a ELSE b
-----------------------------------------------------------------------------
UdpInit ==
  /\ multicast \in BOOLEAN
  /\ running = FALSE /\ fd = NoFd /\ open = {}
  /\ failed = FALSE /\ lost = {}
  /\ owner = "idle" /\ thread = "none"
  /\ arrived = <<>> /\ socket = <<>> /\ discarded = 0
  /\ packet = NoPacket /\ handled = <<>>
  /\ stats = [received |-> 0, dropped |-> 0, errors |-> 0]

(* start() looks at running_ only, and writes over socket_fd_.             *)
MayStart ==
  /\ owner = "idle" /\ ~running
  /\ lost' = lost \cup (IF failed THEN {fd} \ {NoFd} ELSE {})

(* No socket, or one that cannot be set up and stays in socket_fd_.        *)
StartFails ==
  /\ MayStart
  /\ \/ fd' = NoFd /\ UNCHANGED open
     \/ \E f \in Fds \ open : fd' = f /\ open' = open \cup {f}
  /\ failed' = TRUE
  /\ UNCHANGED <<multicast, running, owner, thread, network, output>>

StartSucceeds ==
  /\ MayStart
  /\ \E f \in Fds \ open : fd' = f /\ open' = open \cup {f}
  /\ failed' = FALSE
  /\ running' = TRUE /\ thread' = "test"
  /\ UNCHANGED <<multicast, owner, network, output>>

StopBegins ==
  /\ owner = "idle" /\ thread # "terminated"
  /\ owner' = "joining" /\ running' = FALSE /\ failed' = FALSE
  /\ UNCHANGED <<multicast, fd, open, lost, thread, network, output>>

(* Mutant: stop() leaves the socket to the next start().                   *)
StopKeepsSocket ==
  /\ owner = "joining" /\ thread \in {"none", "ended"}
  /\ thread' = "none" /\ fd' = NoFd
  /\ discarded' = discarded + Len(socket) /\ socket' = <<>>
  /\ owner' = "idle"
  /\ UNCHANGED <<multicast, running, open, failed, lost, arrived, output>>

(* join() returns when the thread function has; then the socket goes with  *)
(* what it still holds.                                                    *)
StopJoins ==
  /\ owner = "joining" /\ thread \in {"none", "ended"}
  /\ thread' = "none"
  /\ open' = open \ {fd} /\ fd' = NoFd
  /\ discarded' = discarded + Len(socket) /\ socket' = <<>>
  /\ owner' = "idle"
  /\ UNCHANGED <<multicast, running, failed, lost, arrived, output>>
-----------------------------------------------------------------------------
(* Mutant: the loop does not look whether it should end.                   *)
LoopForever ==
  /\ thread = "test"
  /\ thread' = "receive"
  /\ UNCHANGED <<multicast, running, descriptors, owner, network, output>>

TestRunning ==
  /\ thread = "test"
  /\ thread' = IF running THEN "receive" ELSE "ended"
  /\ UNCHANGED <<multicast, running, descriptors, owner, network, output>>

(* A receive blocks until there is a datagram; the buffer takes as much of *)
(* it as fits.                                                             *)
Receive ==
  /\ thread = "receive" /\ socket # <<>>
  /\ packet' = [number |-> Head(socket),
                length |-> Least(arrived[Head(socket)], MAX_PACKET_SIZE)]
  /\ socket' = Tail(socket)
  /\ thread' = "received"
  /\ UNCHANGED <<multicast, running, descriptors, owner, arrived, handled,
                 discarded, stats>>

(* It may also fail or be interrupted: the loop goes on.                   *)
ReceiveFails ==
  /\ thread = "receive"
  /\ thread' = "test"
  /\ UNCHANGED <<multicast, running, descriptors, owner, network, output>>

Truncated == arrived[packet.number] > MAX_PACKET_SIZE

(* Mutant: the multicast loop counts a truncated packet and handles it.    *)
CountTruncated ==
  /\ thread = "received" /\ multicast /\ Truncated
  /\ stats' = [stats EXCEPT !.dropped = @ + 1]
  /\ thread' = "handle"
  /\ UNCHANGED <<multicast, running, descriptors, owner, network, packet, handled>>

(* recvmsg tells the multicast receiver of a truncated packet.             *)
DropTruncated ==
  /\ thread = "received" /\ multicast /\ Truncated
  /\ stats' = [stats EXCEPT !.dropped = @ + 1]
  /\ thread' = "test"
  /\ UNCHANGED <<multicast, running, descriptors, owner, network, packet, handled>>

(* processPacket counts, ...                                               *)
CountPacket ==
  /\ thread = "received" /\ ~(multicast /\ Truncated)
  /\ stats' = [stats EXCEPT !.received = @ + 1]
  /\ thread' = "handle"
  /\ UNCHANGED <<multicast, running, descriptors, owner, network, packet, handled>>

(* ... gives the packet to the handler, and catches what it throws.        *)
Handle ==
  /\ thread = "handle"
  /\ handled' = Append(handled, packet)
  /\ \E throws \in BOOLEAN :
       stats' = IF throws THEN [stats EXCEPT !.errors = @ + 1] ELSE stats
  /\ thread' = "test"
  /\ UNCHANGED <<multicast, running, descriptors, owner, network, packet>>

(* What is not caught ends the program: anything the handler throws that   *)
(* is no std::exception; and a multicast packet with a hardware timestamp, *)
(* which is recorded first in metrics_, whose latency_buffer_ never gets   *)
(* an element.                                                             *)
HandlingCrashes ==
  /\ thread = "handle"
  /\ thread' = "terminated"
  /\ UNCHANGED <<multicast, running, descriptors, owner, network, output>>
-----------------------------------------------------------------------------
(* The network.  A socket that a failed start() left is never read.        *)
Arrives(size) ==
  /\ thread \notin {"none", "terminated"} /\ Len(arrived) < MaxPackets
  /\ arrived' = Append(arrived, size)
  /\ socket' = Append(socket, Len(arrived'))
  /\ UNCHANGED <<multicast, running, descriptors, owner, thread, discarded, output>>
-----------------------------------------------------------------------------
OwnerStep == StartFails \/ StartSucceeds \/ StopBegins \/ StopJoins

ThreadStep ==
  \/ TestRunning \/ Receive
  \/ DropTruncated \/ CountPacket \/ Handle \/ HandlingCrashes

UdpNext ==
  \/ OwnerStep \/ ThreadStep \/ ReceiveFails
  \/ \E size \in Sizes : Arrives(size)

UdpSpec == UdpInit /\ [][UdpNext]_udpVars

(* The thread runs when it is not blocked, and join() returns when it can; *)
(* nothing makes a blocked receive fail.                                   *)
UdpFairness == WF_udpVars(ThreadStep) /\ WF_udpVars(StopJoins)
-----------------------------------------------------------------------------
(* Across starts that fail, stops and restarts the descriptors open are    *)
(* socket_fd_ and those that a start() wrote over which the owner called   *)
(* after a failed one without stop() between them: no other call loses     *)
(* one, and none is closed twice.  A thread has socket_fd_ open as long as *)
(* it runs; and when stop() has returned there is no thread left.          *)
DescriptorsAccountedFor ==
  /\ open = lost \cup ({fd} \ {NoFd}) /\ fd \notin lost
  /\ thread # "none" => fd \in open
  /\ owner = "idle" /\ ~running => thread = "none"

(* The handler is given datagrams in the order they arrived, none twice,   *)
(* also when an earlier one made it throw.  Only the unicast receiver      *)
(* gives it the beginning of one that did not fit.                         *)
HandledInOrder ==
  \A k \in 1 .. Len(handled) :
    LET size == arrived[handled[k].number] IN
      /\ k > 1 => handled[k - 1].number < handled[k].number
      /\ handled[k].length = size \/ (~multicast /\ size > handled[k].length)

(* The statistics account for every datagram that reached the socket:      *)
(* those received, dropped, or discarded with a socket, and what is still  *)
(* in the socket or in the thread's hands.                                 *)
InHand == IF thread = "received" THEN 1 ELSE 0

StatsAccountForAll ==
  /\ Len(arrived) =
       stats.received + stats.dropped + discarded + Len(socket) + InHand
  /\ stats.received =
       Len(handled) + IF thread \in {"handle", "terminated"} THEN 1 ELSE 0
  /\ stats.errors <= Len(handled)

(* Each datagram is accounted for, and handled at most once, in order.     *)
EachDatagramOnce == HandledInOrder /\ StatsAccountForAll

(* stop() returns, whatever the thread is doing and however often receives *)
(* fail, unless the thread stays blocked for want of one more packet.      *)
StopNeedsOnePacket ==
  [](owner = "joining" =>
       <>(\/ owner = "idle" \/ thread = "terminated"
          \/ [](thread = "receive" /\ socket = <<>>)))
=============================================================================
