------------------------------- MODULE Session -------------------------------
(***************************************************************************)
(* lib/session: channels multiplexed over one secure connection.  On each  *)
(* side run the broker goroutine, which owns the maps of open channels and *)
(* of waiting calls, the readHandler goroutine, which reads the connection *)
(* and hands every message to the broker, one handler goroutine per        *)
(* channel, and the goroutines that call OpenChannel, AcceptChannel, Close *)
(* and the methods of a Channel.  They meet on unbuffered Go channels: a   *)
(* send and its receive are one step, enabled when both are waiting.       *)
(*                                                                         *)
(* A call is a record [side, op, protocol, n]; the Channel a call returns  *)
(* is named by the call.                                                   *)
(***************************************************************************)
EXTENDS Integers, Sequences, FiniteSets

CONSTANTS Calls,        \* the calls of OpenChannel and AcceptChannel made
          MaxWrites,    \* messages written to the Channel of each call
          Closers,      \* the sides that may call Session.Close
          ClosableCalls,\* the calls whose Channel may be closed
          Breakable     \* the sides whose connection may fail to read

Sides == {"initiator", "responder"}
Peer(s) == IF s = "initiator" THEN "responder" ELSE "initiator"

ASSUME CallsAssumption ==
    /\ \A c \in Calls : /\ c.side \in Sides /\ c.op \in {"open", "accept"}
                        /\ c.protocol \in Nat \ {0}
    /\ MaxWrites \in [Calls -> Nat]
    /\ Closers \subseteq Sides /\ Breakable \subseteq Sides
    /\ ClosableCalls \subseteq Calls

VARIABLES
    nextId,   \* ChannelFactory.nextId of each side
    call,     \* where each OpenChannel or AcceptChannel is
    id,       \* the channel ID of each call, 0 before it has one
    opens,    \* the broker's opens: accepting calls waiting for an Open
    accepts,  \* the broker's accepts: opening calls waiting for an Accept
    channels, \* the broker's channels: calls whose Channel is registered
    broker,   \* where each broker is: at its select or in the middle of a case
    hand,     \* the message readHandler is handing to the broker
    net,      \* messages on their way to each side
    conn,     \* whether each side's connection is "open" or "closed"
    done,     \* whether Session.Close was called
    queue,    \* the queue of each channel's handler
    life,     \* of each channel: "closing" once done is closed, "closed" once
              \* its handler has returned
    sent,     \* messages written to each channel
    got       \* what Channel.Read returned so far

callVars    == <<nextId, call, id>>
mapVars     == <<opens, accepts, channels>>
channelVars == <<queue, life, sent, got>>
vars == <<callVars, mapVars, broker, hand, net, conn, done, channelVars>>

CallStates == {"idle", "register", "write", "wait", "attach", "ok", "ErrClosed", "failed"}

Open(i, p)    == [type |-> "Open", id |-> i, protocol |-> p]
Accept(i)     == [type |-> "Accept", id |-> i]
Close(i)      == [type |-> "Close", id |-> i]
Data(i, p, k) == [type |-> "Data", id |-> i, protocol |-> p, k |-> k]

Selecting == [at |-> "select"]

FirstIdSame(s) == 1

\* NewChannelFactory: odd IDs for the initiator, even ones for the responder.
FirstId(s) == IF s = "initiator" THEN 1 ELSE 2

Init ==
    /\ nextId = [s \in Sides |-> FirstId(s)]
    /\ call = [c \in Calls |-> "idle"] /\ id = [c \in Calls |-> 0]
    /\ opens = {} /\ accepts = {} /\ channels = {}
    /\ broker = [s \in Sides |-> Selecting]
    /\ hand = [s \in Sides |-> <<>>] /\ net = [s \in Sides |-> <<>>]
    /\ conn = [s \in Sides |-> "open"] /\ done = [s \in Sides |-> FALSE]
    /\ queue = [c \in Calls |-> <<>>] /\ life = [c \in Calls |-> "open"]
    /\ sent = [c \in Calls |-> 0] /\ got = [c \in Calls |-> <<>>]

-----------------------------------------------------------------------------
(* What the actions share                                                  *)

\* A panic in any goroutine ends the process.
Up(s) == broker[s].at \notin {"panic", "read error"}

Dies(s, reason) ==
    /\ broker' = [broker EXCEPT ![s] = [at |-> reason]]
    /\ conn' = [conn EXCEPT ![s] = "closed"]

AtSelect(s) == broker[s] = Selecting

Go(c, state) == call' = [call EXCEPT ![c] = state]

\* The registered Channel of side s with this ID, as a set.
Registered(s, i) == {c \in channels : c.side = s /\ id[c] = i}

\* secure.Conn.Write: an error once this side closed the connection; after
\* the peer closed it the write may still succeed, and the message is lost.
CanSend(s)  == conn[s] = "open"
MayFail(s)  == conn[s] = "closed" \/ conn[Peer(s)] = "closed"
Send(s, m)  ==
    net' = IF conn[Peer(s)] = "open" THEN [net EXCEPT ![Peer(s)] = Append(@, m)]
                                     ELSE net

-----------------------------------------------------------------------------
(* OpenChannel and AcceptChannel                                           *)

InProgress(c) == call[c] \notin {"idle", "ok", "ErrClosed", "failed"}

\* "we cannot accept a channel with the same protocol multiple times": the
\* users of a session accept the channels of a protocol one after the other.
MayStart(c) ==
    c.op = "accept" =>
        \A d \in Calls : d.op = "accept" /\ d.side = c.side /\ d.protocol = c.protocol
                            => ~InProgress(d)

\* OpenChannel takes the next ID, AcceptChannel makes its channel.
Start(c) ==
    /\ Up(c.side) /\ call[c] = "idle" /\ MayStart(c)
    /\ Go(c, "register")
    /\ IF c.op = "open"
       THEN /\ id' = [id EXCEPT ![c] = nextId[c.side]]
            /\ nextId' = [nextId EXCEPT ![c.side] = @ + 2]
       ELSE UNCHANGED <<id, nextId>>
    /\ UNCHANGED <<mapVars, broker, hand, net, conn, done, channelVars>>

\* s.waitAccept <- ..., received by the broker.
RegisterOpen(c) ==
    /\ Up(c.side) /\ c.op = "open" /\ call[c] = "register" /\ AtSelect(c.side)
    /\ IF \/ \E d \in accepts : d.side = c.side /\ id[d] = id[c]
          \/ Registered(c.side, id[c]) # {}
       THEN Dies(c.side, "panic") /\ UNCHANGED <<accepts, call>>
       ELSE /\ accepts' = accepts \cup {c}
            /\ Go(c, "write")
            /\ UNCHANGED <<broker, conn>>
    /\ UNCHANGED <<nextId, id, opens, channels, hand, net, done, channelVars>>

\* s.waitOpen <- ..., received by the broker.
RegisterAccept(c) ==
    /\ Up(c.side) /\ c.op = "accept" /\ call[c] = "register" /\ AtSelect(c.side)
    /\ IF \E d \in opens : d.side = c.side /\ d.protocol = c.protocol
       THEN Dies(c.side, "panic") /\ UNCHANGED <<opens, call>>
       ELSE /\ opens' = opens \cup {c}
            /\ Go(c, "wait")
            /\ UNCHANGED <<broker, conn>>
    /\ UNCHANGED <<nextId, id, accepts, channels, hand, net, done, channelVars>>

\* OpenChannel writes Open and waits, AcceptChannel writes Accept and then
\* registers its Channel.
WriteHandshake(c) ==
    /\ Up(c.side) /\ call[c] = "write"
    /\ \/ /\ CanSend(c.side)
          /\ \/ c.op = "open" /\ Send(c.side, Open(id[c], c.protocol)) /\ Go(c, "wait")
             \/ c.op = "accept" /\ Send(c.side, Accept(id[c])) /\ Go(c, "attach")
       \/ /\ MayFail(c.side)
          /\ Go(c, "failed")
          /\ UNCHANGED net
    /\ UNCHANGED <<nextId, id, mapVars, broker, hand, conn, done, channelVars>>

AbandonsAcceptOnly(c) == done[c.side] /\ c.op = "accept"

\* case <-s.done in the select of OpenChannel and AcceptChannel.
Abandons(c) == done[c.side]

GiveUp(c) ==
    /\ Up(c.side) /\ call[c] = "wait" /\ Abandons(c)
    /\ Go(c, "ErrClosed")
    /\ UNCHANGED <<nextId, id, mapVars, broker, hand, net, conn, done, channelVars>>

\* case <-accepted: the broker has closed it and deleted the entry.
SeeAccepted(c) ==
    /\ Up(c.side) /\ c.op = "open" /\ call[c] = "wait" /\ c \notin accepts
    /\ Go(c, "attach")
    /\ UNCHANGED <<nextId, id, mapVars, broker, hand, net, conn, done, channelVars>>

\* s.channels <- ch, received by the broker; the call returns.
Attach(c) ==
    /\ Up(c.side) /\ call[c] = "attach" /\ AtSelect(c.side)
    /\ IF Registered(c.side, id[c]) # {}
       THEN Dies(c.side, "panic") /\ UNCHANGED <<channels, call>>
       ELSE /\ channels' = channels \cup {c}
            /\ Go(c, "ok")
            /\ UNCHANGED <<broker, conn>>
    /\ UNCHANGED <<nextId, id, opens, accepts, hand, net, done, channelVars>>

-----------------------------------------------------------------------------
(* readHandler and broker                                                  *)

\* conn.Read.  A Close message is ignored.  When this side closed the
\* connection, or the peer did and everything is read, readHandler returns
\* without a word: nothing below is enabled for it any more.
ReadHandler(s) ==
    /\ Up(s) /\ conn[s] = "open" /\ hand[s] = <<>> /\ net[s] # <<>>
    /\ net' = [net EXCEPT ![s] = Tail(@)]
    /\ hand' = [hand EXCEPT ![s] = IF Head(net[s]).type = "Close" THEN <<>>
                                   ELSE <<Head(net[s])>>]
    /\ UNCHANGED <<callVars, mapVars, broker, conn, done, channelVars>>

\* conn.Read returns any other error.
ReadHandlerPanic(s) ==
    /\ s \in Breakable /\ Up(s) /\ hand[s] = <<>> /\ conn[s] = "open"
    /\ Dies(s, "read error")
    /\ UNCHANGED <<callVars, mapVars, hand, net, done, channelVars>>

\* The broker at its select receives the message of this type.
Takes(s, type) ==
    /\ Up(s) /\ AtSelect(s)
    /\ hand[s] # <<>> /\ hand[s][1].type = type
    /\ hand' = [hand EXCEPT ![s] = <<>>]
    /\ UNCHANGED <<callVars, net, conn, done, channelVars>>

\* protocol.Id(message.Type()): the type of the session message, which is
\* ChannelMessageTypeOpen, and not the channel type the message carries.
OpenProtocol(m) == 1

\* case open := <-s.inOpen
BrokerOpen(s) ==
    /\ Takes(s, "Open")
    /\ LET m == hand[s][1]
           waiting == {c \in opens : c.side = s /\ c.protocol = OpenProtocol(m)}
       IN broker' = IF Registered(s, m.id) # {} \/ waiting = {} THEN broker
                    ELSE [broker EXCEPT ![s] = [at |-> "opened", id |-> m.id,
                                                call |-> CHOOSE c \in waiting : TRUE]]
    /\ UNCHANGED mapVars

OpensKept(c) == opens

\* delete(opens, open.protocolId)
OpensWithout(c) == opens \ {c}

\* opened <- open.channelId, received by AcceptChannel; no way out on done.
BrokerOpened(s) ==
    /\ Up(s) /\ broker[s].at = "opened"
    /\ LET c == broker[s].call IN
       /\ call[c] = "wait"
       /\ Go(c, "write")
       /\ id' = [id EXCEPT ![c] = broker[s].id]
       /\ opens' = OpensWithout(c)
    /\ broker' = [broker EXCEPT ![s] = Selecting]
    /\ UNCHANGED <<nextId, accepts, channels, hand, net, conn, done, channelVars>>

AnyWaitingFor(s, i) == {c \in accepts : c.side = s}
NoneWaitingFor(s, i) == {}

\* accepts[channelId]
WaitingFor(s, i) == {c \in accepts : c.side = s /\ id[c] = i}

\* case channelId := <-s.inAccept
BrokerAccept(s) ==
    /\ Takes(s, "Accept")
    /\ LET m == hand[s][1] IN
       accepts' = IF Registered(s, m.id) # {} THEN accepts
                  ELSE accepts \ WaitingFor(s, m.id)
    /\ UNCHANGED <<opens, channels, broker>>

\* case data := <-s.data: without a registered Channel it is discarded; a
\* message of another protocol than the Channel's may fail to decode.
BrokerData(s) ==
    /\ Takes(s, "Data")
    /\ LET m == hand[s][1] IN
       \/ /\ \A c \in Registered(s, m.id) : c.protocol # m.protocol
          /\ UNCHANGED broker
       \/ \E c \in Registered(s, m.id) :
             broker' = [broker EXCEPT ![s] = [at |-> "deliver", call |-> c, k |-> m.k]]
    /\ UNCHANGED mapVars

EnqueueFront(q, k)   == <<k>> \o q
EnqueueBounded(q, k) == IF Len(q) >= 1 THEN q ELSE Append(q, k)
EnqueueNothing(q, k) == q

\* queue = append(queue, message)
Enqueue(q, k) == Append(q, k)

\* case ch.in <- message, received by the channel's handler while it runs.
BrokerDeliver(s) ==
    /\ Up(s) /\ broker[s].at = "deliver"
    /\ LET c == broker[s].call IN
       /\ life[c] # "closed"
       /\ queue' = [queue EXCEPT ![c] = Enqueue(@, broker[s].k)]
    /\ broker' = [broker EXCEPT ![s] = Selecting]
    /\ UNCHANGED <<callVars, mapVars, hand, net, conn, done, life, sent, got>>

\* case <-s.done, at the select (which closes the connection) or while
\* delivering (which does not).
BrokerDone(s) ==
    /\ Up(s) /\ done[s]
    /\ broker[s].at \in {"select", "deliver"}
    /\ conn' = IF AtSelect(s) THEN [conn EXCEPT ![s] = "closed"] ELSE conn
    /\ broker' = [broker EXCEPT ![s] = [at |-> "stopped"]]
    /\ UNCHANGED <<callVars, mapVars, hand, net, done, channelVars>>

-----------------------------------------------------------------------------
(* Session.Close and the methods of a Channel                              *)

\* close(s.done)
SessionClose(s) ==
    /\ Up(s) /\ s \in Closers /\ ~done[s]
    /\ done' = [done EXCEPT ![s] = TRUE]
    /\ UNCHANGED <<callVars, mapVars, broker, hand, net, conn, channelVars>>

\* return s.conn.Close()
SessionCloseConn(s) ==
    /\ Up(s) /\ done[s] /\ conn[s] = "open"
    /\ conn' = [conn EXCEPT ![s] = "closed"]
    /\ UNCHANGED <<callVars, mapVars, broker, hand, net, done, channelVars>>

\* Channel.Write of the next message.
Write(c) ==
    /\ Up(c.side) /\ call[c] = "ok" /\ life[c] = "open" /\ CanSend(c.side)
    /\ sent[c] < MaxWrites[c]
    /\ sent' = [sent EXCEPT ![c] = @ + 1]
    /\ Send(c.side, Data(id[c], c.protocol, sent'[c]))
    /\ UNCHANGED <<callVars, mapVars, broker, hand, conn, done, queue, life, got>>

\* Channel.Read receives c.next from the channel's handler while it runs.
Read(c) ==
    /\ Up(c.side) /\ call[c] = "ok" /\ life[c] # "closed" /\ queue[c] # <<>>
    /\ got' = [got EXCEPT ![c] = Append(@, Head(queue[c]))]
    /\ queue' = [queue EXCEPT ![c] = Tail(@)]
    /\ UNCHANGED <<callVars, mapVars, broker, hand, net, conn, done, life, sent>>

\* Channel.Close: done is closed and a Close message is written, or fails to
\* be.  The Channel stays in the broker's map.
ChannelClose(c) ==
    /\ Up(c.side) /\ c \in ClosableCalls /\ call[c] = "ok" /\ life[c] = "open"
    /\ life' = [life EXCEPT ![c] = "closing"]
    /\ IF CanSend(c.side) THEN Send(c.side, Close(id[c])) ELSE UNCHANGED net
    /\ UNCHANGED <<callVars, mapVars, broker, hand, conn, done, queue, sent, got>>

\* case <-c.done in the channel's handler: it returns and its queue is lost.
HandlerDone(c) ==
    /\ Up(c.side) /\ life[c] = "closing"
    /\ life' = [life EXCEPT ![c] = "closed"]
    /\ queue' = [queue EXCEPT ![c] = <<>>]
    /\ UNCHANGED <<callVars, mapVars, broker, hand, net, conn, done, sent, got>>

-----------------------------------------------------------------------------
CallStep(c) ==
    \/ Start(c) \/ RegisterOpen(c) \/ RegisterAccept(c) \/ WriteHandshake(c)
    \/ GiveUp(c) \/ SeeAccepted(c) \/ Attach(c)

BrokerStep(s) ==
    \/ BrokerOpen(s) \/ BrokerOpened(s) \/ BrokerAccept(s) \/ BrokerData(s)
    \/ BrokerDeliver(s) \/ BrokerDone(s)

Next ==
    \/ \E c \in Calls : CallStep(c) \/ Write(c) \/ Read(c) \/ ChannelClose(c) \/ HandlerDone(c)
    \/ \E s \in Sides : \/ BrokerStep(s) \/ ReadHandler(s) \/ ReadHandlerPanic(s)
                        \/ SessionClose(s) \/ SessionCloseConn(s)

Spec == Init /\ [][Next]_vars

\* Every goroutine that can go on does: the calls, the broker, readHandler,
\* the channels' handlers, the rest of Session.Close, and the Loop that keeps
\* reading a Channel.  Nothing makes a user write, or close anything.
Fairness ==
    /\ \A c \in Calls : /\ WF_vars(CallStep(c)) /\ WF_vars(Read(c))
                         /\ WF_vars(HandlerDone(c))
    /\ \A s \in Sides : /\ WF_vars(BrokerStep(s)) /\ WF_vars(ReadHandler(s))
                        /\ WF_vars(SessionCloseConn(s))

FairSpec == Spec /\ Fairness

-----------------------------------------------------------------------------
(* Properties                                                              *)

BrokerStates ==
    {Selecting, [at |-> "stopped"], [at |-> "panic"], [at |-> "read error"]}
      \cup [at : {"opened"}, call : Calls, id : Nat]
      \cup [at : {"deliver"}, call : Calls, k : Nat]
Messages ==
    [type : {"Open"}, id : Nat, protocol : Nat]
      \cup [type : {"Accept", "Close"}, id : Nat]
      \cup [type : {"Data"}, id : Nat, protocol : Nat, k : Nat]

\* Types of the state of the calls, the brokers and the channels.
TypeOK ==
    /\ nextId \in [Sides -> Nat]
    /\ call \in [Calls -> CallStates]
    /\ id \in [Calls -> Nat]
    /\ opens \subseteq {c \in Calls : c.op = "accept"}
    /\ accepts \subseteq {c \in Calls : c.op = "open"}
    /\ channels \subseteq Calls
    /\ broker \in [Sides -> BrokerStates]
    /\ hand \in [Sides -> Seq(Messages)] /\ net \in [Sides -> Seq(Messages)]
    /\ conn \in [Sides -> {"open", "closed"}] /\ done \in [Sides -> BOOLEAN]
    /\ queue \in [Calls -> Seq(Nat)]
    /\ life \in [Calls -> {"open", "closing", "closed"}]
    /\ sent \in [Calls -> Nat] /\ got \in [Calls -> Seq(Nat)]

\* The two ends of a channel: calls on either side with the same ID.
Linked(c, d) == c.side # d.side /\ id[c] = id[d] /\ id[c] # 0

\* "this way initiator and responder will never collide" (session.proto): no
\* two channels of one side ever have the same ID, whoever opened them, and
\* every channel of one side faces at most one of the other.
IdsUnique ==
    \A c, d \in Calls : c # d /\ c.side = d.side /\ id[c] = id[d] => id[c] = 0

\* OpenChannel returns only when an AcceptChannel of the peer has taken the
\* channel and written its Accept; the two then share the ID.
OpenMeansAccepted ==
    \A c \in Calls : c.op = "open" /\ call[c] \in {"attach", "ok"} =>
        \E d \in Calls : /\ d.op = "accept" /\ Linked(c, d)
                         /\ call[d] \in {"attach", "ok"}

\* The state stays well-formed and none of the broker's assertions fails until
\* Session.Close: no ID is registered twice and no two calls wait for the same
\* Open or the same Accept.  (The entry of an AcceptChannel that Close released
\* stays in opens, so a later one fails the assertion of case <-s.waitOpen if
\* the broker's select takes it before <-s.done.)
BrokerNeverPanics == TypeOK /\ \A s \in Sides : broker[s].at = "panic" => done[s]

\* The two ends of a channel when they speak the same protocol.  (The broker
\* accepts an Open of another protocol, and then a message may fail to decode.)
SameProtocol(c, d) == Linked(c, d) /\ c.protocol = d.protocol

\* The messages on their way to side s: held by readHandler, sent.
Flight(s) == hand[s] \o net[s]

\* The positions in q of the data for the channel with this ID.
DataAt(q, i) == {j \in 1 .. Len(q) : q[j].type = "Data" /\ q[j].id = i}

\* The data in q for the channel with this ID is the messages with the numbers
\* after `from` up to `to`: in order, nothing twice, no gap.
Carries(q, i, from, to) ==
    /\ \A j \in DataAt(q, i) : q[j].k \in from + 1 .. to
    /\ \A j, l \in DataAt(q, i) : j < l => q[j].k < q[l].k
    /\ \A k \in from + 1 .. to : \E j \in DataAt(q, i) : q[j].k = k

\* The messages in q are the ones after the nth: in order, nothing twice, no gap.
Follows(q, n) == \A k \in 1 .. Len(q) : q[k] = n + k

\* What has reached the channel's handler, oldest first: read by d's user,
\* queued, held by the broker.
Delivering(d) == broker[d.side].at = "deliver" /\ broker[d.side].call = d
Delivered(d)  ==
    got[d] \o queue[d] \o (IF Delivering(d) THEN <<broker[d.side].k>> ELSE <<>>)

\* The numbers of the messages for d that are not lost.
Arriving(d) ==
    {Delivered(d)[j] : j \in 1 .. Len(Delivered(d))}
      \cup {Flight(d.side)[j].k : j \in DataAt(Flight(d.side), id[d])}

\* Nobody closed anything d depends on: the Channel, a session, a connection.
SessionsOpen == \A s \in Sides : ~done[s] /\ conn[s] = "open"
Undisturbed(d) == life[d] = "open" /\ SessionsOpen

\* What the two ends see of a channel is a stream with at most its beginning
\* missing: in order, nothing twice, no gap, and the last message written is
\* the last to arrive.
StreamIntact ==
    \A c, d \in Calls : SameProtocol(c, d) /\ Undisturbed(d) =>
        \E lost \in 0 .. sent[c] :
            /\ Follows(Delivered(d), lost)
            /\ lost + Len(Delivered(d)) <= sent[c]
            /\ Carries(Flight(d.side), id[d], lost + Len(Delivered(d)), sent[c])

\* Once its Channel is registered with the broker, no message on its way to
\* it is lost, as long as nobody closes anything.
RegisteredLosesNothing ==
    [][\A c, d \in Calls : SameProtocol(c, d) /\ d \in channels /\ Undisturbed(d)'
           => Arriving(d) \subseteq Arriving(d)']_vars

\* An Open that the broker gets while an AcceptChannel of its protocol waits
\* leads to a channel on both sides, unless a session is closed meanwhile.
WaitedOpenIsEstablished ==
    \A c, d \in Calls :
        (/\ c.op = "open" /\ c.side # d.side /\ d \in opens
         /\ AtSelect(d.side) /\ hand[d.side] = <<Open(id[c], d.protocol)>>)
        ~> (call[c] = "ok" /\ call[d] = "ok" /\ id[c] = id[d]) \/ ~SessionsOpen

\* What is written to a Channel whose other end is registered is read, unless
\* this end or a session is closed meanwhile.
RegisteredDelivers ==
    \A c, d \in Calls : \A k \in 1 .. MaxWrites[c] :
        (SameProtocol(c, d) /\ d \in channels /\ k \in Arriving(d))
        ~> (\E j \in 1 .. Len(got[d]) : got[d][j] = k) \/ ~Undisturbed(d)

\* Whatever is closed or fails, what a Channel's user reads is a run of
\* consecutive messages of the other end: in order, nothing twice, no gap.
ReadsInOrder ==
    \A c, d \in Calls : SameProtocol(c, d) =>
        \E lost \in 0 .. sent[c] :
            /\ Follows(got[d], lost)
            /\ lost + Len(got[d]) <= sent[c]

\* Session.Close releases the calls that wait for the peer, unless the process
\* dies first.
WaitersReleased ==
    \A c \in Calls :
        (done[c.side] /\ call[c] = "wait") ~> (call[c] # "wait" \/ ~Up(c.side))

-----------------------------------------------------------------------------
(* What the documentation says and the code does not do                    *)

\* "only now is it guaranteed that messages on this channel will reach the
\* other device" (session.proto, Accept): the other end of a channel gets all
\* that is written to it after the Accept, as long as nobody closes anything.
AcceptedReachesPeer ==
    \A c, d \in Calls : Linked(c, d) /\ call[c] = "ok" /\ Undisturbed(d) =>
        1 .. sent[c] \subseteq Arriving(d)

\* "AcceptChannel blocks until the peer opens a channel with the given
\* protocol" (session.go): when the peer has, it returns.
AcceptReturns ==
    \A c, d \in Calls :
        (/\ c.op = "open" /\ d.op = "accept" /\ c.side # d.side /\ c.protocol = d.protocol
         /\ call[c] = "wait" /\ call[d] = "wait")
        ~> call[d] = "ok"

\* "with the given protocol" (session.go): the two ends of an accepted
\* channel speak the same protocol.
AcceptedProtocol ==
    \A c, d \in Calls : Linked(c, d) => c.protocol = d.protocol

\* "will be discarded by the receiver if that channel has been closed"
\* (session.proto, Data): the broker gets rid of every message it received.
ClosedDiscards ==
    \A s \in Sides : broker[s].at = "deliver" ~> broker[s].at # "deliver"

\* "Close closes all its channels and the underlying connection" (session.go).
CloseClosesChannels ==
    \A c \in Calls : (done[c.side] /\ call[c] = "ok") ~> life[c] = "closed"

\* "closes a channel with a specific ID" (session.proto, Close): the other end
\* of a closed channel does not stay open.
CloseReachesPeer ==
    \A c, d \in Calls : (Linked(c, d) /\ life[c] = "closed") ~> life[d] # "open"

\* "blocks until the peer opens a channel with the given protocol or an
\* unrecoverable error occurs" (session.go): no call outlives Session.Close.
CloseEndsCalls ==
    \A c \in Calls : (done[c.side] /\ InProgress(c)) ~> ~InProgress(c)

-----------------------------------------------------------------------------
(* Inductive invariants                                                    *)

\* The IDs the ChannelFactory of side s hands out.
OwnId(s, i) == \E n \in 0 .. i : i = FirstId(s) + 2 * n

\* An Open with this ID was written to side s.
OpenSent(s, i) ==
    \E c \in Calls : /\ c.op = "open" /\ c.side = Peer(s) /\ id[c] = i
                     /\ call[c] \notin {"idle", "register", "write"}

\* An AcceptChannel of the peer has written its Accept with this ID to side s.
AcceptSent(s, i) ==
    \E d \in Calls : /\ d.op = "accept" /\ d.side = Peer(s) /\ id[d] = i
                     /\ call[d] \in {"attach", "ok"}

\* An opening call owns an ID of its side from Start on; an accepting call has
\* one of the peer's from BrokerOpened on.
OpenIdInv(c) ==
    IF call[c] = "idle" THEN id[c] = 0
    ELSE OwnId(c.side, id[c]) /\ id[c] < nextId[c.side]
AcceptIdInv(c) ==
    IF call[c] \in {"write", "attach", "ok", "failed"}
    THEN OpenSent(c.side, id[c]) ELSE id[c] = 0
SameOp(c, d) == c # d /\ c.side = d.side /\ c.op = d.op
IdInv ==
    /\ \A s \in Sides : OwnId(s, nextId[s])
    /\ \A c \in Calls : IF c.op = "open" THEN OpenIdInv(c) ELSE AcceptIdInv(c)
    /\ \A c, d \in Calls : SameOp(c, d) /\ id[c] = id[d] => id[c] = 0

\* The Opens and Accepts on their way to side s were written, and no Open is
\* there twice or has been taken by an AcceptChannel before.
Written(s, q) ==
    \A k \in 1 .. Len(q) : /\ q[k].type = "Open" => OpenSent(s, q[k].id)
                           /\ q[k].type = "Accept" => AcceptSent(s, q[k].id)
Once(q) ==
    \A j, k \in 1 .. Len(q) :
        q[j].type = "Open" /\ q[k].type = "Open" /\ q[j].id = q[k].id => j = k
AcceptTook(s, i) == \E d \in Calls : d.op = "accept" /\ d.side = s /\ id[d] = i
BrokerTook(s, i) == broker[s].at = "opened" /\ broker[s].id = i
Untaken(s, q) ==
    \A k \in 1 .. Len(q) : q[k].type = "Open" =>
        ~AcceptTook(s, q[k].id) /\ ~BrokerTook(s, q[k].id)
BrokerInv(s) ==
    /\ broker[s].at = "panic" => done[s]
    /\ broker[s].at = "opened" =>
         /\ broker[s].call.op = "accept" /\ broker[s].call.side = s
         /\ OpenSent(s, broker[s].id) /\ ~AcceptTook(s, broker[s].id)
InTransit(s, q) == Written(s, q) /\ Once(q) /\ Untaken(s, q)
FlightInv ==
    \A s \in Sides : Len(hand[s]) \in {0, 1} /\ BrokerInv(s) /\ InTransit(s, Flight(s))

\* What the broker's maps say of the calls in them.
MapInv ==
    /\ \A c \in channels : call[c] = "ok"
    /\ \A c \in accepts : call[c] \in {"write", "wait", "ErrClosed", "failed"}
    /\ \A c \in opens : call[c] \in {"wait", "ErrClosed"}
    /\ \A c \in Calls : call[c] = "ErrClosed" => done[c.side]
    /\ \A c, d \in Calls : SameOp(c, d) /\ c.op = "accept" /\ c.protocol = d.protocol
                           => ~InProgress(c) \/ ~InProgress(d)
    /\ \A c \in Calls : c.op = "open" /\ call[c] \in {"write", "wait", "attach", "ok"}
                        => c \in accepts \/ AcceptSent(c.side, id[c])

SessionInv == IdInv /\ FlightInv /\ MapInv

\* Only a call that has returned writes, only a registered Channel is
\* delivered to or read, and a broker leaves its loop when its session or its
\* connection is closed.
ChannelInv ==
    /\ \A c \in Calls : sent[c] # 0 => call[c] = "ok"
    /\ \A d \in Calls : d \notin channels => got[d] = <<>> /\ queue[d] = <<>>
    /\ \A s \in Sides :
         /\ broker[s].at = "deliver" => broker[s].call \in channels /\ broker[s].call.side = s
         /\ ~Up(s) => conn[s] = "closed"
         /\ broker[s].at = "stopped" => done[s]

\* The data on its way to side s was written by a Channel of the peer.
WroteData(s, m) ==
    \E c \in Calls : /\ c.side = Peer(s) /\ id[c] = m.id /\ c.protocol = m.protocol
                     /\ sent[c] # 0
AllWritten(s, q) == \A j \in 1 .. Len(q) : q[j].type = "Data" => WroteData(s, q[j])
DataInv == \A s \in Sides : AllWritten(s, Flight(s))

\* What is written to d goes through its handler in order: the first `lost`
\* messages found no Channel, the ones after them up to `from` were handed on
\* by readHandler, and the ones up to `to` are on their way.  Once d's handler
\* or broker has ended, what was handed on may be missing at the end.
Running(d) == life[d] # "closed" /\ Up(d.side) /\ broker[d.side].at # "stopped"
Stream(c, d, lost, from, to) ==
    LET last == lost + Len(got[d]) + Len(queue[d]) IN
    /\ last <= from /\ from <= to /\ to <= sent[c]
    /\ conn[d.side] = "open" => to = sent[c]
    /\ Carries(Flight(d.side), id[d], from, to)
    /\ Follows(got[d], lost) /\ Follows(queue[d], lost + Len(got[d]))
    /\ Running(d) => IF Delivering(d) THEN broker[d.side].k = from /\ from = last + 1
                                      ELSE from = last
StreamInv ==
    \A c, d \in Calls : SameProtocol(c, d) =>
        \E lost, from, to \in 0 .. sent[c] : Stream(c, d, lost, from, to)
=============================================================================
