----------------------------- MODULE Connection -----------------------------
(***************************************************************************)
(* One TCP connection of src/src/connection.cpp, from the moment its       *)
(* socket was accepted to its destruction.  The network thread runs the    *)
(* completion handlers; the dispatcher sends, disconnects and, when the    *)
(* server goes down, closes every socket under the handlers' feet.  Each   *)
(* method holds connectionLock, so a method with all it calls is one step; *)
(* it is written as an operator from one state of the object to the next.  *)
(*                                                                         *)
(* Boost.Asio and the peer are external.  An operation that was started    *)
(* completes at most once; when the socket is closed or the peer is gone   *)
(* it completes with an error.  Cancelling a timer does not call back a    *)
(* handler that is already in the queue.                                   *)
(***************************************************************************)
EXTENDS Naturals, Sequences

CONSTANTS MaxPackets,    \* bound: packets the peer sends
          MaxSends,      \* bound: messages the connection accepts
          Starts         \* the outcomes of starting an operation: \subseteq BOOLEAN

ASSUME ConnectionAssumption == /\ MaxPackets \in Nat
                               /\ MaxSends \in Nat
                               /\ Starts \subseteq BOOLEAN /\ Starts # {}

VARIABLES conn,          \* the object, see Fresh
          stage,         \* where ServicePort::onAccept stands with it
          link,          \* whether the peer can still be reached
          late,          \* timers whose handler is queued without an error
          packets        \* packets received so far

cVars == <<conn, stage, link, late, packets>>

Fresh == [closed     |-> FALSE,
          open       |-> TRUE,         \* socket.is_open()
          registered |-> TRUE,         \* in ConnectionManager::connections
          protocol   |-> FALSE,        \* protocol is set
          first      |-> FALSE,        \* receivedFirst
          queue      |-> << >>,        \* messageQueue
          accepted   |-> 0,            \* messages that ever got into it
          prepared   |-> << >>,        \* messages given to onSendMessage
          read       |-> "none",       \* the read that was started, and its result
          write      |-> "none",       \* the same for the write
          readTimer  |-> FALSE,        \* armed
          writeTimer |-> FALSE,
          posted     |-> << >>]        \* what was handed to the dispatcher

CInit == /\ conn = Fresh
         /\ stage = "new"
         /\ link = "up"
         /\ late = {}
         /\ packets = 0
-----------------------------------------------------------------------------
(* The methods.                                                            *)

Post(c, task) == [c EXCEPT !.posted = Append(@, task)]

CloseSocket(c) ==
    IF c.open THEN [c EXCEPT !.open = FALSE, !.readTimer = FALSE, !.writeTimer = FALSE]
              ELSE c

\* if (closed) return; before release() is posted.
Released_Again(c) == FALSE

Released(c) == c.closed

\* Connection::close.  With messages left and no force the socket stays
\* open, for onWriteOperation or the destructor to close.
Close(c, force) ==
    LET d == [c EXCEPT !.registered = FALSE]
        e == [(IF d.protocol THEN Post(d, "release") ELSE d) EXCEPT !.closed = TRUE]
    IN  CASE Released(d)                 -> d
          [] ~Released(d) /\ (d.queue = << >> \/ force) -> CloseSocket(e)
          [] OTHER                       -> e

\* The read timer is armed and a read is started, or an exception closes.
Watch_Not(c) == c

Watch(c) == [c EXCEPT !.readTimer = TRUE]

StartRead(c, what, ok) == IF ok THEN [Watch(c) EXCEPT !.read = what]
                                ELSE Close(c, TRUE)

InternalSend(c, m, ok) ==
    LET d == [c EXCEPT !.prepared = Append(@, m)]
    IN  IF ok THEN [d EXCEPT !.writeTimer = TRUE, !.write = "pending"]
              ELSE Close(d, TRUE)

NoPendingWrite_IfNotWriting(c) == c.write # "pending"

NoPendingWrite(c) == c.queue = << >>

Send(c, ok) ==
    LET m == c.accepted + 1
        d == [c EXCEPT !.queue = Append(@, m), !.accepted = m]
    IN  CASE c.closed                     -> c
          [] ~c.closed /\ NoPendingWrite(c) -> InternalSend(d, m, ok)
          [] OTHER                        -> d
-----------------------------------------------------------------------------
(* The network thread: ServicePort::onAccept, then the handlers.           *)

Pending(c) == c.read \in {"header", "body"}

\* accept(protocol): without the lock; the dispatcher may be first to use it.
AcceptProtocol == /\ stage = "new"
                  /\ conn' = Post([conn EXCEPT !.protocol = TRUE], "onConnect")
                  /\ stage' = "accepting"
                  /\ UNCHANGED <<link, late, packets>>

Accept == /\ stage \in {"new", "accepting"}
          /\ \E ok \in Starts : conn' = StartRead(conn, "header", ok)
          /\ stage' = "accepted"
          /\ UNCHANGED <<link, late, packets>>

\* The address is banned or has connected too often.
Reject == /\ stage = "new"
          /\ conn' = Close(conn, TRUE)
          /\ stage' = "accepted"
          /\ UNCHANGED <<link, late, packets>>

\* readTimer.cancel(), at the head of both read handlers.
TakeRead == [conn EXCEPT !.read = "none", !.readTimer = FALSE]

\* The rate limit closes gently, a bad length by force.
ParseHeader ==
    /\ conn.read = "header ok"
    /\ IF conn.closed
       THEN conn' = TakeRead
       ELSE \/ conn' = Close(TakeRead, FALSE)
            \/ conn' = Close(TakeRead, TRUE)
            \/ \E ok \in Starts : conn' = StartRead(TakeRead, "body", ok)
    /\ UNCHANGED <<stage, link, late, packets>>

ReadError == /\ conn.read = "error"
             /\ conn' = Close(TakeRead, TRUE)
             /\ UNCHANGED <<stage, link, late, packets>>

\* What the protocol makes of a packet: a task for the dispatcher, nothing
\* at all, a disconnection, or one with a last message.
Deliver(c, ok) == {Post(c, "packet"), c, Close(c, FALSE), Close(Send(c, ok), FALSE)}

\* Another packet is waited for even when the protocol has disconnected.
\* The first packet may name a protocol that nobody serves here.
ParsePacket ==
    /\ conn.read = "body ok"
    /\ IF conn.closed
       THEN conn' = TakeRead
       ELSE \/ /\ ~conn.first /\ ~conn.protocol
               /\ conn' = Close([TakeRead EXCEPT !.first = TRUE], TRUE)
            \/ \E sent, started \in Starts :
                 \E c \in Deliver([TakeRead EXCEPT !.first = TRUE, !.protocol = TRUE], sent) :
                     conn' = StartRead(c, "header", started)
    /\ UNCHANGED <<stage, link, late, packets>>

\* What is left of the queue after a write.
Written_Kept(queue) == queue

Written(queue) == Tail(queue)

\* The queue has run empty: a connection closed meanwhile is cut off now.
Drained_Open(c) == c

Drained(c) == IF c.closed THEN CloseSocket(c) ELSE c

OnWriteOperation ==
    /\ conn.write \in {"ok", "error"}
    /\ LET c == [conn EXCEPT !.write = "none", !.writeTimer = FALSE,
                             !.queue = Written(@)]
       IN  \/ /\ conn.write = "error"
              /\ conn' = Close([c EXCEPT !.queue = << >>], TRUE)
           \/ /\ conn.write = "ok" /\ c.queue # << >>
              /\ \E ok \in Starts : conn' = InternalSend(c, Head(c.queue), ok)
           \/ /\ conn.write = "ok" /\ c.queue = << >>
              /\ conn' = Drained(c)
    /\ UNCHANGED <<stage, link, late, packets>>

HandleTimeout(t) == /\ t \in late
                    /\ late' = late \ {t}
                    /\ conn' = IF stage = "destroyed" THEN conn ELSE Close(conn, TRUE)
                    /\ UNCHANGED <<stage, link, packets>>

\* Outstanding operations and the manager hold the only references.
Destroy == /\ stage = "accepted"
           /\ ~conn.registered /\ conn.read = "none" /\ conn.write = "none"
           /\ conn' = CloseSocket(conn)
           /\ stage' = "destroyed"
           /\ UNCHANGED <<link, late, packets>>
-----------------------------------------------------------------------------
(* The dispatcher, through the protocol; it holds a weak reference.        *)

DispatcherSends == /\ conn.protocol /\ stage # "destroyed"
                   /\ conn.accepted < MaxSends
                   /\ \E ok \in Starts : conn' = Send(conn, ok)
                   /\ UNCHANGED <<stage, link, late, packets>>

\* onConnect only sends, so nobody disconnects before the first packet.
Disconnect == /\ conn.protocol /\ conn.first /\ stage # "destroyed"
              /\ conn' = Close(conn, FALSE)
              /\ UNCHANGED <<stage, link, late, packets>>

\* ConnectionManager::closeAll, from Game::shutdown: no connectionLock, no
\* timer cancelled, closed not set.
CloseAll == /\ conn.registered
            /\ conn' = [conn EXCEPT !.open = FALSE, !.registered = FALSE]
            /\ UNCHANGED <<stage, link, late, packets>>
-----------------------------------------------------------------------------
(* Asio and the peer.                                                      *)

Reachable == conn.open /\ link = "up"

Arrived == [header |-> "header ok", body |-> "body ok"]

ReadArrives == /\ Pending(conn) /\ Reachable
               /\ packets < MaxPackets
               /\ conn' = [conn EXCEPT !.read = Arrived[@]]
               /\ packets' = IF conn.read = "body" THEN packets + 1 ELSE packets
               /\ UNCHANGED <<stage, link, late>>

\* The peer has nothing more to say: end of file.
ReadEnds == /\ Pending(conn) /\ Reachable
            /\ conn' = [conn EXCEPT !.read = "error"]
            /\ UNCHANGED <<stage, link, late, packets>>

ReadFails == /\ Pending(conn) /\ ~Reachable
             /\ conn' = [conn EXCEPT !.read = "error"]
             /\ UNCHANGED <<stage, link, late, packets>>

WriteDrains == /\ conn.write = "pending" /\ Reachable
               /\ conn' = [conn EXCEPT !.write = "ok"]
               /\ UNCHANGED <<stage, link, late, packets>>

WriteFails == /\ conn.write = "pending" /\ ~Reachable
              /\ conn' = [conn EXCEPT !.write = "error"]
              /\ UNCHANGED <<stage, link, late, packets>>

TimerExpires(t) ==
    /\ CASE t = "read"  -> conn.readTimer  /\ conn' = [conn EXCEPT !.readTimer = FALSE]
         [] t = "write" -> conn.writeTimer /\ conn' = [conn EXCEPT !.writeTimer = FALSE]
    /\ late' = late \cup {t}
    /\ UNCHANGED <<stage, link, packets>>

PeerLost == /\ link = "up"
            /\ link' = "down"
            /\ UNCHANGED <<conn, stage, late, packets>>
-----------------------------------------------------------------------------
Timer == {"read", "write"}

NetworkThread == \/ Accept \/ ParseHeader \/ ParsePacket \/ ReadError
                 \/ OnWriteOperation \/ Destroy

Asio == ReadFails \/ WriteFails \/ \E t \in Timer : TimerExpires(t)

CNext == \/ AcceptProtocol \/ Reject \/ NetworkThread \/ Asio
         \/ \E t \in Timer : HandleTimeout(t)
         \/ DispatcherSends \/ Disconnect \/ CloseAll
         \/ ReadArrives \/ ReadEnds \/ WriteDrains \/ PeerLost

\* The network thread runs what is ready, timers expire, and an operation on
\* a socket that is closed or cut off fails.  The peer owes us nothing.
CFairness == /\ WF_cVars(NetworkThread)
             /\ \A t \in Timer : WF_cVars(HandleTimeout(t)) /\ WF_cVars(TimerExpires(t))
             /\ WF_cVars(ReadFails) /\ WF_cVars(WriteFails)

CSpec == CInit /\ [][CNext]_cVars /\ CFairness
-----------------------------------------------------------------------------
CTypeOK ==
    /\ conn \in [closed : BOOLEAN, open : BOOLEAN, registered : BOOLEAN,
                 protocol : BOOLEAN, first : BOOLEAN,
                 queue : Seq(Nat), accepted : Nat, prepared : Seq(Nat),
                 read : {"none", "header", "body", "header ok", "body ok", "error"},
                 write : {"none", "pending", "ok", "error"},
                 readTimer : BOOLEAN, writeTimer : BOOLEAN,
                 posted : Seq({"onConnect", "packet", "release"})]
    /\ Len(conn.posted) <= MaxPackets + 2
    /\ stage \in {"new", "accepting", "accepted", "destroyed"}
    /\ link \in {"up", "down"}
    /\ late \in SUBSET Timer
    /\ packets \in 0..MaxPackets

\* onWriteOperation pops the queue without looking: as long as a write is
\* outstanding its message must be in front.  And while the connection is
\* not closed a message in the queue is never left without a write.
WriteOwnsFront ==
    /\ conn.write # "none" => /\ conn.queue # << >>
                              /\ conn.prepared # << >>
                              /\ conn.prepared[Len(conn.prepared)] = Head(conn.queue)
    /\ ~conn.closed /\ conn.queue # << >> => conn.write # "none"

\* Whoever sends, each message is given its length and encrypted once, and
\* in the order the messages were accepted: the cipher text of a packet
\* that was prepared twice is garbage to the client.
PreparedOnceInOrder ==
    /\ conn.prepared = [i \in 1..Len(conn.prepared) |-> i]
    /\ Len(conn.prepared) <= conn.accepted

\* The dispatcher frees the player in release(): exactly one is posted for a
\* closed connection with a protocol, and nothing of this protocol after it.
ReleaseIsLast ==
    LET released == {i \in 1..Len(conn.posted) : conn.posted[i] = "release"}
    IN  released = IF conn.closed /\ conn.protocol THEN {Len(conn.posted)} ELSE {}

\* A connection nobody closed still has a read outstanding, so some handler
\* will see the peer go; and the timer of an operation in progress is armed
\* or has a handler in the queue, whatever close, timeout and closeAll did.
NeverUnwatched ==
    stage = "accepted" /\ ~conn.closed =>
        /\ conn.read # "none"
        /\ Pending(conn) => conn.readTimer \/ "read" \in late
        /\ conn.write = "pending" => conn.writeTimer \/ "write" \in late

\* Connection::close leaves a socket with messages in the queue open, "will
\* be closed by the destructor or onWriteOperation".  The peer owes us
\* nothing: if a closed connection keeps its socket for ever, then over one
\* write that the peer never takes, or that could not be started (the write
\* timer does not help, its close() finds closed set); never when all is
\* written, or when the peer is gone.
Stuck == conn.queue # << >> /\ conn.write \in {"none", "pending"} /\ Reachable

LingersOnlyOnAWrite == <>[](conn.closed /\ conn.open) => <>[]Stuck
=============================================================================
