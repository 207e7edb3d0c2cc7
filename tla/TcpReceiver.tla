---------------------------- MODULE TcpReceiver ----------------------------
(***************************************************************************)
(* TCPReceiver of the market data system: an owner starts and stops it; a  *)
(* receiver thread polls a non-blocking socket, cuts the byte stream into  *)
(* lines for the message handler, and reconnects when the connection       *)
(* breaks.  The peer and the kernel are the environment: they connect,     *)
(* send lines, close or reset.  Alerts and statistics are outputs only and *)
(* left out.                                                               *)
(***************************************************************************)
EXTENDS Integers, Sequences, FiniteSets, SequencesExt

CONSTANTS
  Fds,          \* descriptors the kernel can hand out
  NoFd,         \* -1
  Sizes,        \* lengths of the lines the peer sends
  MaxLines,     \* bound: lines sent on one connection
  MAX_BUFFER_SIZE,
  HandlerMayThrow  \* whether onMessage may throw (its stoull can)

ASSUME ReceiverConstants ==
  /\ NoFd \notin Fds
  /\ IsFiniteSet(Fds)
  /\ Sizes \subseteq Nat
  /\ MaxLines \in Nat
  /\ MAX_BUFFER_SIZE \in Nat \ {0}
  /\ HandlerMayThrow \in BOOLEAN

VARIABLES
  running,    \* running_
  connected,  \* connected_
  fd,         \* socket_fd_
  open,       \* descriptors the kernel holds open for this program
  failed,     \* whether the owner's last call was a start() that failed
  lost,       \* descriptors that a start() after a failed one wrote over
  owner,      \* whether the owner is inside stop()
  thread,     \* where receiver_thread_ is
  hangup,     \* whether poll reported POLLERR or POLLHUP
  buffer,     \* message_buffer
  link,       \* state of the connection, as the kernel knows it
  wire,       \* bytes sent and not yet received
  lines,      \* sizes of the lines sent on this connection
  delivered   \* what onMessage was given on this connection

stream == <<wire, lines, delivered>>
retries == <<failed, lost>>
socket == <<connected, fd, open, retries, link>>
vars == <<running, socket, owner, thread, hangup, buffer, stream>>

(* Byte j of line k is <<k, j>>; the newline is a byte of no line.         *)
NL == <<0, 0>>
Text(k, size) == [j \in 1 .. size |-> <<k, j>>]
Loop == {"test", "poll", "receive", "deliver", "hangup"}
Reconnecting == {"retest", "close", "connect", "sleep"}
-----------------------------------------------------------------------------
Init ==
  /\ running = FALSE /\ connected = FALSE
  /\ fd = NoFd /\ open = {} /\ failed = FALSE /\ lost = {}
  /\ owner = "idle" /\ thread = "none"
  /\ hangup = FALSE /\ buffer = <<>>
  /\ link = "none" /\ wire = <<>> /\ lines = <<>> /\ delivered = <<>>

(* connect() fails without a socket, or with one that it leaves open.      *)
ConnectFails ==
  /\ \/ fd' = NoFd /\ UNCHANGED open
     \/ \E f \in Fds \ open : fd' = f /\ open' = open \cup {f}
  /\ UNCHANGED <<connected, link>>

(* It succeeds as soon as the connection is under way.                     *)
ConnectBegins ==
  /\ \E f \in Fds \ open : fd' = f /\ open' = open \cup {f}
  /\ connected' = TRUE
  /\ link' \in {"connecting", "up"}
  /\ wire' = <<>> /\ lines' = <<>> /\ delivered' = <<>>

(* start() looks at running_ only, and connect() writes over socket_fd_.   *)
MayStart ==
  /\ owner = "idle" /\ ~running
  /\ lost' = lost \cup (IF failed THEN {fd} \ {NoFd} ELSE {})

StartFails ==
  /\ MayStart
  /\ ConnectFails
  /\ failed' = TRUE
  /\ UNCHANGED <<running, owner, thread, hangup, buffer, stream>>

StartSucceeds ==
  /\ MayStart
  /\ ConnectBegins
  /\ failed' = FALSE
  /\ running' = TRUE
  /\ thread' = "test" /\ buffer' = <<>>
  /\ UNCHANGED <<owner, hangup>>

StopBegins ==
  /\ owner = "idle" /\ thread # "terminated"
  /\ owner' = "joining" /\ running' = FALSE /\ failed' = FALSE
  /\ UNCHANGED <<connected, fd, open, lost, link, thread, hangup, buffer, stream>>

(* join() returns once the thread function has; the socket goes last.      *)
StopJoins ==
  /\ owner = "joining" /\ thread \in {"none", "ended"}
  /\ thread' = "none"
  /\ open' = open \ {fd} /\ fd' = NoFd
  /\ connected' = FALSE /\ link' = "none"
  /\ owner' = "idle"
  /\ UNCHANGED <<running, retries, hangup, buffer, stream>>
-----------------------------------------------------------------------------
Goto(label) == thread' = label

TestRunning ==
  /\ thread = "test"
  /\ Goto(IF running THEN "poll" ELSE "retest")
  /\ UNCHANGED <<running, socket, owner, hangup, buffer, stream>>

(* What poll has to report.                                                *)
Ready == wire # <<>> \/ link \in {"closed", "reset"}

(* Timeout, or EINTR at any time.                                          *)
PollIdle ==
  /\ thread = "poll"
  /\ Goto("test")
  /\ UNCHANGED <<running, socket, owner, hangup, buffer, stream>>

PollFails ==
  /\ thread = "poll"
  /\ Goto("retest")
  /\ UNCHANGED <<running, socket, owner, hangup, buffer, stream>>

(* Linux may also report a socket readable that then has nothing to read.  *)
PollReady ==
  /\ thread = "poll" /\ (Ready \/ link = "up")
  /\ hangup' = (link = "reset")
  /\ thread' \in {"receive"} \cup (IF link = "reset" THEN {"hangup"} ELSE {})
  /\ UNCHANGED <<running, socket, owner, buffer, stream>>

(* receiveData: recv finds bytes, or nothing yet, ...                      *)
ReceiveBytes ==
  /\ thread = "receive"
  /\ \E n \in 1 .. Len(wire) :
       /\ n <= MAX_BUFFER_SIZE
       /\ buffer' = buffer \o SubSeq(wire, 1, n)
       /\ wire' = SubSeq(wire, n + 1, Len(wire))
  /\ Goto("deliver")
  /\ UNCHANGED <<running, socket, owner, hangup, lines, delivered>>

ReceiveNothing ==
  /\ thread = "receive" /\ wire = <<>> /\ link \in {"connecting", "up"}
  /\ Goto("hangup")
  /\ UNCHANGED <<running, socket, owner, hangup, buffer, stream>>

(* ... or fails, or finds the stream at its end.                           *)
ReceiveFails ==
  /\ thread = "receive"
  /\ link = "reset" \/ (link = "closed" /\ wire = <<>>)
  /\ Goto("retest")
  /\ UNCHANGED <<running, socket, owner, hangup, buffer, stream>>

(* Mutant: one message for each call of recv.                              *)
DeliverOnce ==
  /\ thread = "deliver" /\ Contains(buffer, NL)
  /\ LET pos == SelectInSeq(buffer, LAMBDA b : b = NL)
     IN  /\ delivered' = Append(delivered, SubSeq(buffer, 1, pos - 1))
         /\ buffer' = SubSeq(buffer, pos + 1, Len(buffer))
  /\ Goto("hangup")
  /\ UNCHANGED <<running, socket, owner, hangup, wire, lines>>

(* Everything up to a newline is a message, handed over and erased.        *)
Deliver ==
  /\ thread = "deliver" /\ Contains(buffer, NL)
  /\ LET pos == SelectInSeq(buffer, LAMBDA b : b = NL)
     IN  /\ delivered' = Append(delivered, SubSeq(buffer, 1, pos - 1))
         /\ buffer' = SubSeq(buffer, pos + 1, Len(buffer))
  /\ UNCHANGED <<running, socket, owner, thread, hangup, wire, lines>>

(* Nothing catches what the handler throws: the program is terminated.     *)
HandlerThrows ==
  /\ HandlerMayThrow
  /\ thread = "deliver" /\ Contains(buffer, NL)
  /\ Goto("terminated")
  /\ UNCHANGED <<running, socket, owner, hangup, buffer, stream>>

(* Mutant: the buffer is dropped when it is merely full.                   *)
ForgetFullBuffer ==
  /\ thread = "deliver" /\ ~Contains(buffer, NL)
  /\ buffer' = IF Len(buffer) >= MAX_BUFFER_SIZE THEN <<>> ELSE buffer
  /\ Goto("hangup")
  /\ UNCHANGED <<running, socket, owner, hangup, stream>>

(* What is left without a newline stays, unless it has become too long.    *)
KeepRest ==
  /\ thread = "deliver" /\ ~Contains(buffer, NL)
  /\ buffer' = IF Len(buffer) > MAX_BUFFER_SIZE THEN <<>> ELSE buffer
  /\ Goto("hangup")
  /\ UNCHANGED <<running, socket, owner, hangup, stream>>

TestHangup ==
  /\ thread = "hangup"
  /\ Goto(IF hangup THEN "retest" ELSE "test")
  /\ UNCHANGED <<running, socket, owner, hangup, buffer, stream>>

(* Mutant: reconnecting does not look whether it should stop.              *)
ReconnectAnyway ==
  /\ thread = "retest"
  /\ Goto("close")
  /\ UNCHANGED <<running, socket, owner, hangup, buffer, stream>>

(* reconnect(): its loop runs while running_.                              *)
TestReconnect ==
  /\ thread = "retest"
  /\ Goto(IF running THEN "close" ELSE "ended")
  /\ UNCHANGED <<running, socket, owner, hangup, buffer, stream>>

(* Mutant: the broken socket is not closed.                                *)
ForgetSocket ==
  /\ thread = "close"
  /\ connected' = FALSE /\ link' = "none"
  /\ Goto("connect")
  /\ UNCHANGED <<running, fd, open, retries, owner, hangup, buffer, stream>>

CloseSocket ==
  /\ thread = "close"
  /\ open' = open \ {fd}
  /\ connected' = FALSE /\ link' = "none"
  /\ Goto("connect")
  /\ UNCHANGED <<running, fd, retries, owner, hangup, buffer, stream>>

ReconnectFails ==
  /\ thread = "connect"
  /\ ConnectFails
  /\ Goto("sleep")
  /\ UNCHANGED <<running, retries, owner, hangup, buffer, stream>>

(* The loop is left, reconnect() returns, and so does runReceiveLoop().    *)
ReconnectSucceeds ==
  /\ thread = "connect"
  /\ ConnectBegins
  /\ Goto("ended")
  /\ UNCHANGED <<running, retries, owner, hangup, buffer>>

WakeUp ==
  /\ thread = "sleep"
  /\ Goto("retest")
  /\ UNCHANGED <<running, socket, owner, hangup, buffer, stream>>
-----------------------------------------------------------------------------
(* The kernel and the peer.  A reset may or may not lose what is unread.   *)
LinkChanges ==
  /\ \/ link = "connecting" /\ link' \in {"up", "reset"}
     \/ link = "up" /\ link' \in {"closed", "reset"}
  /\ wire' \in {wire} \cup (IF link' = "reset" THEN {<<>>} ELSE {})
  /\ UNCHANGED <<running, connected, fd, open, retries, owner, thread, hangup,
                 buffer, lines, delivered>>

PeerSends(size) ==
  /\ link = "up" /\ Len(lines) < MaxLines
  /\ lines' = Append(lines, size)
  /\ wire' = Append(wire \o Text(Len(lines'), size), NL)
  /\ UNCHANGED <<running, socket, owner, thread, hangup, buffer, delivered>>
-----------------------------------------------------------------------------
OwnerStep == StartFails \/ StartSucceeds \/ StopBegins \/ StopJoins

ThreadStep ==
  \/ TestRunning \/ PollIdle \/ PollFails \/ PollReady
  \/ ReceiveBytes \/ ReceiveNothing \/ ReceiveFails
  \/ Deliver \/ HandlerThrows \/ KeepRest \/ TestHangup
  \/ TestReconnect \/ CloseSocket \/ ReconnectFails \/ ReconnectSucceeds
  \/ WakeUp

Next ==
  \/ OwnerStep \/ ThreadStep
  \/ LinkChanges \/ \E size \in Sizes : PeerSends(size)

Spec == Init /\ [][Next]_vars

(* The thread runs, stop() goes on once it can, and poll is not            *)
(* interrupted for ever while there is something to read.                  *)
Fairness == WF_vars(ThreadStep) /\ WF_vars(StopJoins) /\ SF_vars(PollReady)

FairSpec == Spec /\ Fairness
-----------------------------------------------------------------------------
(* The descriptors open are socket_fd_ and those that a start() wrote over *)
(* which the owner called after a failed one without stop() between them:  *)
(* none is lost by a failed reconnect or by a stop in the middle of one,   *)
(* and none is used or closed twice.  (In reconnect() the number is stale  *)
(* between close and connect.)  When stop() has returned nothing is left   *)
(* running or connected.                                                   *)
DescriptorOwned ==
  /\ open = lost \cup (IF thread = "connect" THEN {} ELSE {fd} \ {NoFd})
  /\ fd \notin lost
  /\ owner = "idle" /\ ~running =>
       thread \in {"none", "terminated"} /\ ~connected

(* However recv cuts the stream, each newline makes one message, in order: *)
(* the line that was sent if it fits the buffer, and otherwise the end of  *)
(* that line, with nothing of another one in it.  What is kept between two *)
(* receives never grows beyond MAX_BUFFER_SIZE.                            *)
LinesInOrder ==
  /\ thread \notin {"deliver", "terminated"} => Len(buffer) <= MAX_BUFFER_SIZE
  /\ Len(delivered) <= Len(lines)
  /\ \A k \in 1 .. Len(delivered) :
       /\ IsSuffix(delivered[k], Text(k, lines[k]))
       /\ lines[k] <= MAX_BUFFER_SIZE => Len(delivered[k]) = lines[k]

(* stop() returns, whatever the thread is doing when it is called.         *)
StopReturns == owner = "joining" ~> owner = "idle" \/ thread = "terminated"

(* A line sent to a receiver that is in its loop is delivered unless the   *)
(* loop is left, the connection breaks, or the receiver is stopped.        *)
LineIsDelivered ==
  \A k \in 1 .. MaxLines :
    Len(lines) >= k /\ thread \in Loop ~>
      \/ Len(delivered) >= k
      \/ ~running \/ link # "up" \/ thread = "terminated"

(* A receiver that is running and has a connection receives on it.         *)
ConnectedIsServed ==
  running /\ connected ~> thread \in Loop \/ ~running \/ ~connected
=============================================================================
