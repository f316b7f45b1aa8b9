---------------------------- MODULE SessionProofs ----------------------------
(***************************************************************************)
(* Proofs about session for any set of OpenChannel and AcceptChannel calls,*)
(* any number of messages and whatever is closed or fails: channel IDs do  *)
(* not collide, an opened channel is an accepted one, and the broker's     *)
(* assertions hold until Session.Close.                                    *)
(***************************************************************************)
EXTENDS Session, TLAPS

\* The seconds each prover may take for a step.
USE SMTT(15), ZenonT(15)

-----------------------------------------------------------------------------
(* Sequences                                                               *)

\* A queue that is not empty has a first element and a rest.
LEMMA FirstAndRest ==
    ASSUME NEW S, NEW q \in Seq(S), q # <<>>
    PROVE  /\ Len(q) \in Nat \ {0} /\ Head(q) \in S /\ Tail(q) \in Seq(S)
           /\ Len(Tail(q)) = Len(q) - 1
           /\ \A k \in 1 .. Len(Tail(q)) : Tail(q)[k] = q[k + 1]
OBVIOUS

\* What is taken from a queue is a queue of one element, the first.
LEMMA TakenFirst ==
    ASSUME NEW S, NEW q \in Seq(S), q # <<>>
    PROVE  1 \in 1 .. Len(q) /\ Head(q) \in S /\ <<Head(q)>> \in Seq(S)
<1>1. Len(q) \in Nat \ {0} /\ Head(q) \in S  BY FirstAndRest, Zenon
<1>2. 1 \in 1 .. Len(q)  BY <1>1
<1>3. \A x \in S : <<x>> \in Seq(S)  OBVIOUS
<1>. QED  BY <1>1, <1>2, <1>3, Zenon

\* What is put at the end of a queue follows what it held.
LEMMA PutLast ==
    ASSUME NEW S, NEW q \in Seq(S), NEW m \in S
    PROVE  /\ Len(q) \in Nat /\ Len(Append(q, m)) = Len(q) + 1
           /\ Append(q, m)[Len(q) + 1] = m
           /\ \A k \in 1 .. Len(q) : Append(q, m)[k] = q[k]
OBVIOUS

\* Sequences of one length with the same elements.
LEMMA SameElements ==
    ASSUME NEW S, NEW q \in Seq(S), NEW r \in Seq(S), Len(q) = Len(r),
           \A k \in 1 .. Len(q) : q[k] = r[k]
    PROVE  q = r
OBVIOUS

\* One sequence after another.
LEMMA Joined ==
    ASSUME NEW S, NEW q \in Seq(S), NEW r \in Seq(S)
    PROVE  /\ Len(q) \in Nat /\ Len(r) \in Nat
           /\ q \o r \in Seq(S) /\ Len(q \o r) = Len(q) + Len(r)
           /\ \A k \in 1 .. Len(q) + Len(r) :
                 (q \o r)[k] = IF k <= Len(q) THEN q[k] ELSE r[k - Len(q)]
OBVIOUS

\* The empty sequence before another.
LEMMA JoinedToNothing == ASSUME NEW S, NEW q \in Seq(S) PROVE <<>> \o q = q
OBVIOUS

-----------------------------------------------------------------------------
(* Types                                                                   *)

\* What the types say of the fields of messages and of the broker's state.
LEMMA MessageTypes ==
    /\ \A m \in Messages : m.id \in Nat /\ m.type \in {"Open", "Accept", "Close", "Data"}
    /\ \A m \in Messages : m.type = "Data" => m.k \in Nat
    /\ \A i, p, k \in Nat : /\ Open(i, p) \in Messages /\ Accept(i) \in Messages
                            /\ Close(i) \in Messages /\ Data(i, p, k) \in Messages
BY DEF Messages, Open, Accept, Close, Data

LEMMA BrokerTypes ==
    \A b \in BrokerStates :
        /\ b.at = "opened" => b.call \in Calls /\ b.id \in Nat
        /\ b.at = "deliver" => b.call \in Calls /\ b.k \in Nat
<1> SUFFICES ASSUME NEW b \in BrokerStates
             PROVE  /\ b.at = "opened" => b.call \in Calls /\ b.id \in Nat
                    /\ b.at = "deliver" => b.call \in Calls /\ b.k \in Nat
  OBVIOUS
<1>1. ASSUME NEW a, b = [at |-> a], a \in {"select", "stopped", "panic", "read error"}
      PROVE  b.at \notin {"opened", "deliver"}
  BY Zenon, <1>1
<1>2. CASE b \in [at : {"opened"}, call : Calls, id : Nat]  BY <1>2
<1>3. CASE b \in [at : {"deliver"}, call : Calls, k : Nat]  BY <1>3
<1>. QED  BY Zenon, <1>1, <1>2, <1>3 DEF BrokerStates, Selecting

LEMMA SendTypes ==
    ASSUME net \in [Sides -> Seq(Messages)], NEW s \in Sides, NEW m \in Messages, Send(s, m)
    PROVE  net' \in [Sides -> Seq(Messages)]
<1>1. Peer(s) \in Sides  BY DEF Sides, Peer
<1>2. Append(net[Peer(s)], m) \in Seq(Messages)  BY <1>1
<1>. QED  BY <1>1, <1>2 DEF Send

-----------------------------------------------------------------------------
(* Types                                                                   *)

\* The steps of OpenChannel and AcceptChannel keep the types.
LEMMA CallTypes == ASSUME TypeOK, NEW c \in Calls, CallStep(c) PROVE TypeOK'
<1> USE DEF callVars, mapVars, channelVars, Go
<1>a. c.side \in Sides /\ c.op \in {"open", "accept"} /\ c.protocol \in Nat
  BY CallsAssumption
<1>b. ASSUME Dies(c.side, "panic")
      PROVE  broker' \in [Sides -> BrokerStates] /\ conn' \in [Sides -> {"open", "closed"}]
  <2>1. [at |-> "panic"] \in BrokerStates  BY DEF BrokerStates
  <2>. QED  BY Zenon, <1>b, <2>1 DEF Dies, TypeOK
<1>c. UNCHANGED <<broker, conn>> =>
         broker' \in [Sides -> BrokerStates] /\ conn' \in [Sides -> {"open", "closed"}]
  BY DEF TypeOK
<1>d. ASSUME NEW state \in CallStates, Go(c, state) PROVE call' \in [Calls -> CallStates]
  BY <1>d DEF TypeOK
<1>e. UNCHANGED call => call' \in [Calls -> CallStates]  BY DEF TypeOK
<1>f. {"register", "write", "wait", "attach", "ok", "ErrClosed", "failed"} \subseteq CallStates
  BY DEF CallStates
<1>1. CASE Start(c)
  <2>1. call' \in [Calls -> CallStates]  BY Zenon, <1>1, <1>d, <1>f DEF Start
  <2>2. CASE c.op = "open"
    <3>1. nextId[c.side] \in Nat /\ nextId[c.side] + 2 \in Nat  BY <1>a DEF TypeOK
    <3>2. id' \in [Calls -> Nat]  BY Zenon, <1>1, <2>2, <3>1 DEF Start, TypeOK
    <3>3. nextId' \in [Sides -> Nat]  BY Zenon, <1>1, <2>2, <3>1 DEF Start, TypeOK
    <3>. QED  BY <1>1, <2>1, <3>2, <3>3, Zenon DEF Start, TypeOK
  <2>3. CASE c.op # "open"  BY <1>1, <2>1, <2>3 DEF Start, TypeOK
  <2>. QED  BY <2>2, <2>3
<1>2. CASE RegisterOpen(c)
  <2>1. /\ broker' \in [Sides -> BrokerStates] /\ conn' \in [Sides -> {"open", "closed"}]
        /\ call' \in [Calls -> CallStates]
    BY <1>2, <1>b, <1>c, <1>d, <1>e, <1>f DEF RegisterOpen
  <2>2. accepts' \subseteq {d \in Calls : d.op = "open"}
    <3>1. c.op = "open" /\ (accepts' = accepts \/ accepts' = accepts \cup {c})
      BY <1>2 DEF RegisterOpen
    <3>. QED  BY <3>1 DEF TypeOK
  <2>. QED  BY <1>2, <2>1, <2>2, Zenon DEF RegisterOpen, TypeOK
<1>3. CASE RegisterAccept(c)
  <2>1. /\ broker' \in [Sides -> BrokerStates] /\ conn' \in [Sides -> {"open", "closed"}]
        /\ call' \in [Calls -> CallStates]
    BY <1>3, <1>b, <1>c, <1>d, <1>e, <1>f DEF RegisterAccept
  <2>2. opens' \subseteq {d \in Calls : d.op = "accept"}
    <3>1. c.op = "accept" /\ (opens' = opens \/ opens' = opens \cup {c})
      BY <1>3 DEF RegisterAccept
    <3>. QED  BY <3>1 DEF TypeOK
  <2>. QED  BY Zenon, <1>3, <2>1, <2>2 DEF RegisterAccept, TypeOK
<1>4. CASE WriteHandshake(c)
  <2>1. net' \in [Sides -> Seq(Messages)]
    BY Zenon, <1>4, <1>a, SendTypes, MessageTypes DEF WriteHandshake, TypeOK
  <2>2. call' \in [Calls -> CallStates]
    BY Zenon, <1>4, <1>d, <1>f DEF WriteHandshake
  <2>. QED  BY <1>4, <2>1, <2>2 DEF WriteHandshake, TypeOK
<1>5. CASE GiveUp(c)  BY Zenon, <1>5, <1>d, <1>f DEF GiveUp, TypeOK
<1>6. CASE SeeAccepted(c)  BY <1>6, <1>d, <1>f DEF SeeAccepted, TypeOK
<1>7. CASE Attach(c)
  <2>1. /\ broker' \in [Sides -> BrokerStates] /\ conn' \in [Sides -> {"open", "closed"}]
        /\ call' \in [Calls -> CallStates]
    BY <1>7, <1>b, <1>c, <1>d, <1>e, <1>f DEF Attach
  <2>2. channels' \subseteq Calls
    <3>1. channels' = channels \/ channels' = channels \cup {c}  BY <1>7 DEF Attach
    <3>. QED  BY <3>1 DEF TypeOK
  <2>. QED  BY <1>7, <2>1, <2>2 DEF Attach, TypeOK
<1>. QED  BY <1>1, <1>2, <1>3, <1>4, <1>5, <1>6, <1>7 DEF CallStep

\* So do the steps of the methods of a Channel and of its handler.
LEMMA ChannelTypes ==
    ASSUME TypeOK, NEW c \in Calls,
           Write(c) \/ Read(c) \/ ChannelClose(c) \/ HandlerDone(c)
    PROVE  TypeOK'
<1> USE DEF callVars, mapVars, channelVars
<1>a. c.side \in Sides /\ c.protocol \in Nat  BY CallsAssumption
<1>1. CASE Write(c)
  <2>1. sent' \in [Calls -> Nat]  BY <1>1 DEF Write, TypeOK
  <2>2. Data(id[c], c.protocol, sent'[c]) \in Messages
    BY Zenon, <2>1, <1>a, MessageTypes DEF TypeOK
  <2>3. net' \in [Sides -> Seq(Messages)]  BY <1>1, <1>a, <2>2, SendTypes DEF Write, TypeOK
  <2>. QED  BY Zenon, <1>1, <2>1, <2>3 DEF Write, TypeOK
<1>2. CASE Read(c)
  <2>1. queue[c] \in Seq(Nat) /\ queue[c] # <<>> /\ got[c] \in Seq(Nat)
    BY <1>2 DEF Read, TypeOK
  <2>2. Head(queue[c]) \in Nat /\ Tail(queue[c]) \in Seq(Nat)  BY <2>1
  <2>3. Append(got[c], Head(queue[c])) \in Seq(Nat)  BY <2>1, <2>2
  <2>. QED  BY Zenon, <1>2, <2>2, <2>3 DEF Read, TypeOK
<1>3. CASE ChannelClose(c)
  <2>1. net' \in [Sides -> Seq(Messages)]
    BY Zenon, <1>3, <1>a, SendTypes, MessageTypes DEF ChannelClose, TypeOK
  <2>. QED  BY <1>3, <2>1 DEF ChannelClose, TypeOK
<1>4. CASE HandlerDone(c)  BY <1>4 DEF HandlerDone, TypeOK
<1>. QED  BY <1>1, <1>2, <1>3, <1>4

\* And those of the broker, of readHandler and of Session.Close.
LEMMA SideTypes ==
    ASSUME TypeOK, NEW s \in Sides,
           \/ BrokerStep(s) \/ ReadHandler(s) \/ ReadHandlerPanic(s)
           \/ SessionClose(s) \/ SessionCloseConn(s)
    PROVE  TypeOK'
<1> USE DEF callVars, mapVars, channelVars
<1>a. broker[s] \in BrokerStates /\ Selecting \in BrokerStates
  BY Zenon DEF TypeOK, BrokerStates
<1>b. hand[s] # <<>> => hand[s][1] \in Messages  BY DEF TypeOK
<1>c. <<>> \in Seq(Messages)  OBVIOUS
<1>1. CASE BrokerOpen(s)
  <2>1. hand' \in [Sides -> Seq(Messages)]  BY <1>1, <1>c DEF BrokerOpen, Takes, TypeOK
  <2> DEFINE waiting == {c \in opens : c.side = s /\ c.protocol = OpenProtocol(hand[s][1])}
             opened == [at |-> "opened", id |-> hand[s][1].id,
                        call |-> CHOOSE c \in waiting : TRUE]
  <2>2. waiting # {} => opened \in BrokerStates
    <3> SUFFICES ASSUME waiting # {} PROVE opened \in BrokerStates  OBVIOUS
    <3>1. (CHOOSE c \in waiting : TRUE) \in Calls  BY DEF TypeOK
    <3> HIDE DEF waiting
    <3>2. hand[s][1].id \in Nat  BY <1>1, <1>b, MessageTypes DEF BrokerOpen, Takes
    <3>. QED  BY Zenon, <3>1, <3>2 DEF BrokerStates
  <2>3. broker' = broker \/ (waiting # {} /\ broker' = [broker EXCEPT ![s] = opened])
    BY <1>1 DEF BrokerOpen
  <2> HIDE DEF opened, waiting
  <2>4. broker' \in [Sides -> BrokerStates]  BY Zenon, <2>2, <2>3 DEF TypeOK
  <2>. QED  BY Zenon, <1>1, <2>1, <2>4 DEF BrokerOpen, Takes, TypeOK
<1>2. CASE BrokerOpened(s)
  <2>1. broker[s].call \in Calls /\ broker[s].id \in Nat
    BY <1>2, <1>a, BrokerTypes DEF BrokerOpened
  <2>2. call' \in [Calls -> CallStates] /\ id' \in [Calls -> Nat]
    BY <1>2, <2>1 DEF BrokerOpened, Go, TypeOK, CallStates
  <2>3. opens' \subseteq opens  BY <1>2 DEF BrokerOpened, OpensWithout
  <2>4. broker' \in [Sides -> BrokerStates]  BY <1>2, <1>a DEF BrokerOpened, TypeOK
  <2>. QED  BY Zenon, <1>2, <2>2, <2>3, <2>4 DEF BrokerOpened, TypeOK
<1>3. CASE BrokerAccept(s)
  <2>1. hand' \in [Sides -> Seq(Messages)]  BY <1>3, <1>c DEF BrokerAccept, Takes, TypeOK
  <2>2. accepts' \subseteq accepts  BY <1>3 DEF BrokerAccept
  <2>. QED  BY <1>3, <2>1, <2>2 DEF BrokerAccept, Takes, TypeOK
<1>4. CASE BrokerData(s)
  <2>1. hand' \in [Sides -> Seq(Messages)]  BY <1>4, <1>c DEF BrokerData, Takes, TypeOK
  <2>2. hand[s][1].k \in Nat  BY <1>4, <1>b, MessageTypes DEF BrokerData, Takes
  <2>3. \A c \in channels : [at |-> "deliver", call |-> c, k |-> hand[s][1].k] \in BrokerStates
    BY Zenon, <2>2 DEF BrokerStates, TypeOK
  <2>4. broker' \in [Sides -> BrokerStates]
    <3>1. \/ UNCHANGED broker
          \/ \E c \in channels :
                broker' = [broker EXCEPT ![s] = [at |-> "deliver", call |-> c, k |-> hand[s][1].k]]
      BY Zenon, <1>4 DEF BrokerData, Registered
    <3>2. broker \in [Sides -> BrokerStates]  BY Zenon DEF TypeOK
    <3>3. \A r \in BrokerStates : [broker EXCEPT ![s] = r] \in [Sides -> BrokerStates]  BY <3>2
    <3>. QED  BY Zenon, <2>3, <3>1, <3>2, <3>3
  <2>. QED  BY <1>4, <2>1, <2>4 DEF BrokerData, Takes, TypeOK
<1>5. CASE BrokerDeliver(s)
  <2>1. broker[s].call \in Calls /\ broker[s].k \in Nat
    BY <1>5, <1>a, BrokerTypes DEF BrokerDeliver
  <2>2. Enqueue(queue[broker[s].call], broker[s].k) \in Seq(Nat)
    BY <2>1 DEF Enqueue, TypeOK
  <2>. QED  BY Zenon, <1>5, <1>a, <2>1, <2>2 DEF BrokerDeliver, TypeOK
<1>6. CASE BrokerDone(s)
  <2>1. [at |-> "stopped"] \in BrokerStates  BY DEF BrokerStates
  <2>. QED  BY <1>6, <2>1 DEF BrokerDone, TypeOK
<1>7. CASE ReadHandler(s)
  <2>1. net[s] \in Seq(Messages) /\ net[s] # <<>>  BY <1>7 DEF ReadHandler, TypeOK
  <2>2. Tail(net[s]) \in Seq(Messages) /\ <<Head(net[s])>> \in Seq(Messages)
    BY <2>1, FirstAndRest, TakenFirst, Zenon
  <2>. QED  BY Zenon, <1>7, <1>c, <2>2 DEF ReadHandler, TypeOK
<1>8. CASE ReadHandlerPanic(s)
  <2>1. [at |-> "read error"] \in BrokerStates  BY Zenon DEF BrokerStates
  <2>. QED  BY Zenon, <1>8, <2>1 DEF ReadHandlerPanic, Dies, TypeOK
<1>9. CASE SessionClose(s)  BY <1>9 DEF SessionClose, TypeOK
<1>10. CASE SessionCloseConn(s)  BY <1>10 DEF SessionCloseConn, TypeOK
<1>. QED  BY <1>1, <1>2, <1>3, <1>4, <1>5, <1>6, <1>7, <1>8, <1>9, <1>10 DEF BrokerStep

\* The state of the session is always well-formed, whatever is opened,
\* accepted, written, closed or fails.
THEOREM WellTyped == Spec => []TypeOK
<1>1. Init => TypeOK
  <2> SUFFICES ASSUME Init PROVE TypeOK  OBVIOUS
  <2>1. Selecting \in BrokerStates  BY DEF BrokerStates
  <2>. QED  BY <2>1 DEF Init, TypeOK, FirstId, CallStates, Sides
<1>2. TypeOK /\ [Next]_vars => TypeOK'
  <2> SUFFICES ASSUME TypeOK, [Next]_vars PROVE TypeOK'  OBVIOUS
  <2>1. CASE UNCHANGED vars
    BY <2>1 DEF TypeOK, vars, callVars, mapVars, channelVars
  <2>. QED  BY <2>1, CallTypes, ChannelTypes, SideTypes DEF Next
<1>. QED  BY <1>1, <1>2, PTL DEF Spec

-----------------------------------------------------------------------------
(* What no step takes back                                                 *)

\* Where the steps of OpenChannel and AcceptChannel after Start take a call.
Moves(c) ==
    \/ call[c] = "register" /\ c.op = "open" /\ Go(c, "write")
    \/ call[c] = "register" /\ c.op = "accept" /\ Go(c, "wait")
    \/ call[c] = "write" /\ c.op = "open" /\ (Go(c, "wait") \/ Go(c, "failed"))
    \/ call[c] = "write" /\ c.op = "accept" /\ (Go(c, "attach") \/ Go(c, "failed"))
    \/ call[c] = "wait" /\ Go(c, "ErrClosed") /\ done[c.side]
    \/ call[c] = "wait" /\ c.op = "open" /\ Go(c, "attach") /\ c \notin accepts
    \/ call[c] = "attach" /\ Go(c, "ok")

LEMMA CallMoves ==
    ASSUME NEW c \in Calls,
           \/ RegisterOpen(c) \/ RegisterAccept(c) \/ WriteHandshake(c)
           \/ GiveUp(c) \/ SeeAccepted(c) \/ Attach(c)
    PROVE  UNCHANGED <<nextId, id, done>> /\ (UNCHANGED call \/ Moves(c))
<1>1. CASE RegisterOpen(c)  BY <1>1, Zenon DEF RegisterOpen, Moves
<1>2. CASE RegisterAccept(c)  BY <1>2, Zenon DEF RegisterAccept, Moves
<1>3. CASE WriteHandshake(c)
  <2>1. c.op \in {"open", "accept"}  BY CallsAssumption
  <2>. QED  BY <1>3, <2>1, Zenon DEF WriteHandshake, Moves
<1>4. CASE GiveUp(c)  BY <1>4 DEF GiveUp, Abandons, Moves
<1>5. CASE SeeAccepted(c)  BY <1>5 DEF SeeAccepted, Moves
<1>6. CASE Attach(c)  BY <1>6, Zenon DEF Attach, Moves
<1>. QED  BY <1>1, <1>2, <1>3, <1>4, <1>5, <1>6

\* A call that has written its Open or its Accept stays past that point and
\* keeps its ID.
Keeps ==
    /\ \A c \in Calls : c.op = "open" /\ call[c] \notin {"idle", "register", "write"} =>
           id'[c] = id[c] /\ call'[c] \notin {"idle", "register", "write"}
    /\ \A d \in Calls : d.op = "accept" /\ call[d] \in {"attach", "ok"} =>
           id'[d] = id[d] /\ call'[d] \in {"attach", "ok"}

LEMMA Kept ==
    ASSUME Keeps, NEW s, NEW i
    PROVE  (OpenSent(s, i) => OpenSent(s, i)') /\ (AcceptSent(s, i) => AcceptSent(s, i)')
<1>1. OpenSent(s, i) => OpenSent(s, i)'
  BY DEF Keeps, OpenSent
<1>2. AcceptSent(s, i) => AcceptSent(s, i)'
  BY DEF Keeps, AcceptSent
<1>. QED  BY <1>1, <1>2

\* Only the steps of the two calls, and the broker handing an Open to
\* AcceptChannel, change where a call is or its ID.
LEMMA WhoMoves ==
    ASSUME [Next]_vars
    PROVE  \/ UNCHANGED callVars
           \/ \E c \in Calls : Start(c)
           \/ \E c \in Calls : \/ RegisterOpen(c) \/ RegisterAccept(c) \/ WriteHandshake(c)
                              \/ GiveUp(c) \/ SeeAccepted(c) \/ Attach(c)
           \/ \E s \in Sides : BrokerOpened(s)
<1> USE DEF callVars
<1>1. \A c \in Calls : Write(c) \/ Read(c) \/ ChannelClose(c) \/ HandlerDone(c) => UNCHANGED callVars
  BY Zenon DEF Write, Read, ChannelClose, HandlerDone
<1>2. \A s \in Sides : \/ BrokerOpen(s) \/ BrokerAccept(s) \/ BrokerData(s) \/ BrokerDeliver(s)
                      \/ BrokerDone(s) \/ ReadHandler(s) \/ ReadHandlerPanic(s)
                      \/ SessionClose(s) \/ SessionCloseConn(s) => UNCHANGED callVars
  BY Zenon DEF BrokerOpen, BrokerAccept, BrokerData, BrokerDeliver, BrokerDone, ReadHandler,
         ReadHandlerPanic, SessionClose, SessionCloseConn, Takes
<1>3. UNCHANGED vars => UNCHANGED callVars  BY DEF vars
<1>. QED  BY <1>1, <1>2, <1>3 DEF Next, CallStep, BrokerStep

LEMMA Keeping == ASSUME TypeOK, FlightInv, [Next]_vars PROVE Keeps
<1> USE DEF callVars, mapVars, channelVars
<1>t. call \in [Calls -> CallStates] /\ id \in [Calls -> Nat] /\ broker \in [Sides -> BrokerStates]
  BY DEF TypeOK
<1>1. CASE UNCHANGED callVars  BY <1>1 DEF Keeps
<1>2. ASSUME NEW c \in Calls, Start(c) PROVE Keeps
  <2>1. call[c] = "idle" /\ call' = [call EXCEPT ![c] = "register"]
    BY <1>2 DEF Start, Go
  <2>2. \A d \in Calls : d # c => id'[d] = id[d]  BY <1>2, <1>t DEF Start
  <2>. QED  BY <1>t, <2>1, <2>2 DEF Keeps
<1>3. ASSUME NEW c \in Calls,
             \/ RegisterOpen(c) \/ RegisterAccept(c) \/ WriteHandshake(c)
             \/ GiveUp(c) \/ SeeAccepted(c) \/ Attach(c)
      PROVE  Keeps
  <2>1. UNCHANGED id  BY <1>3, CallMoves
  <2>2. CASE UNCHANGED call  BY <2>1, <2>2 DEF Keeps
  <2>3. CASE ~UNCHANGED call
    <3>1. Moves(c)  BY <1>3, <2>3, CallMoves
    <3>2. \A d \in Calls : d # c => call'[d] = call[d]  BY <1>t, <3>1 DEF Go, Moves
    <3>3. c.op = "open" /\ call[c] \notin {"idle", "register", "write"} =>
             call'[c] \notin {"idle", "register", "write"}
      BY <1>t, <3>1 DEF Go, Moves
    <3>4. c.op = "accept" /\ call[c] \in {"attach", "ok"} => call'[c] \in {"attach", "ok"}
      BY <1>t, <3>1 DEF Go, Moves
    <3>. QED  BY <2>1, <3>2, <3>3, <3>4 DEF Keeps
  <2>. QED  BY <2>2, <2>3
<1>4. ASSUME NEW s \in Sides, BrokerOpened(s) PROVE Keeps
  <2> DEFINE c == broker[s].call
  <2>1. c.op = "accept" /\ call[c] = "wait"
    BY <1>4, Zenon DEF BrokerOpened, FlightInv, BrokerInv
  <2>2. \A d \in Calls : d # c => id'[d] = id[d] /\ call'[d] = call[d]
    BY <1>4, <1>t DEF BrokerOpened, Go
  <2> HIDE DEF c
  <2>. QED  BY <2>1, <2>2 DEF Keeps
<1>. QED  BY <1>1, <1>2, <1>3, <1>4, WhoMoves

-----------------------------------------------------------------------------
(* IDs                                                                     *)

LEMMA OwnIds ==
    ASSUME NEW s \in Sides, NEW i \in Nat, OwnId(s, i)
    PROVE  i # 0 /\ OwnId(s, i + 2) /\ ~OwnId(Peer(s), i)
<1>1. PICK n \in 0 .. i : i = FirstId(s) + 2 * n  BY DEF OwnId
<1>2. FirstId(s) \in {1, 2} /\ FirstId(Peer(s)) \in {1, 2} /\ FirstId(s) # FirstId(Peer(s))
  BY DEF FirstId, Peer, Sides
<1>3. i + 2 = FirstId(s) + 2 * (n + 1) /\ n + 1 \in 0 .. i + 2  BY <1>1, <1>2
<1>4. ASSUME NEW m \in 0 .. i, i = FirstId(Peer(s)) + 2 * m PROVE FALSE
  BY <1>1, <1>2, <1>4
<1>. QED  BY <1>1, <1>2, <1>3, <1>4 DEF OwnId

\* Every step keeps the IDs apart: those of opening calls come from the
\* side's factory, those of accepting calls from an Open of the peer that no
\* other call took.
LEMMA IdSteps == ASSUME TypeOK, IdInv, FlightInv, [Next]_vars PROVE IdInv'
<1>t. /\ call \in [Calls -> CallStates] /\ id \in [Calls -> Nat]
      /\ broker \in [Sides -> BrokerStates] /\ nextId \in [Sides -> Nat]
  BY DEF TypeOK
<1>c. \A c \in Calls : c.side \in Sides /\ c.op \in {"open", "accept"}  BY CallsAssumption
<1>k. \A s, i : OpenSent(s, i) => OpenSent(s, i)'  BY Keeping, Kept
<1>1. CASE UNCHANGED callVars
  BY <1>1 DEF IdInv, OpenIdInv, AcceptIdInv, OpenSent, callVars
<1>2. ASSUME NEW c \in Calls, Start(c) PROVE IdInv'
  <2>1. call[c] = "idle" /\ call' = [call EXCEPT ![c] = "register"]
    BY <1>2 DEF Start, Go
  <2>2. CASE c.op = "open"
    <3> DEFINE i == nextId[c.side]
    <3>1. id' = [id EXCEPT ![c] = i] /\ nextId' = [nextId EXCEPT ![c.side] = i + 2]
      BY <1>2, <2>2, Zenon DEF Start
    <3>2. i \in Nat /\ OwnId(c.side, i) /\ i # 0 /\ OwnId(c.side, i + 2)
      BY <1>t, <1>c, OwnIds DEF IdInv
    <3> HIDE DEF i
    <3>3. \A s \in Sides : OwnId(s, nextId[s])'
      BY <1>t, <3>1, <3>2 DEF IdInv
    <3>4. ASSUME NEW d \in Calls PROVE (IF d.op = "open" THEN OpenIdInv(d) ELSE AcceptIdInv(d))'
      <4>1. CASE d = c  BY <1>t, <1>c, <2>1, <2>2, <3>1, <3>2, <4>1 DEF OpenIdInv
      <4>2. CASE d # c /\ d.op = "open"
        <5>1. OpenIdInv(d)  BY <4>2 DEF IdInv
        <5>2. id'[d] = id[d] /\ call'[d] = call[d]  BY <1>t, <2>1, <3>1, <4>2
        <5>3. nextId'[d.side] >= nextId[d.side]  BY <1>t, <1>c, <3>1, <3>2 DEF i
        <5>4. nextId'[d.side] \in Nat  BY <1>t, <1>c, <3>1, <3>2
        <5>. QED  BY <1>t, <1>c, <4>2, <5>1, <5>2, <5>3, <5>4 DEF OpenIdInv
      <4>3. CASE d # c /\ d.op # "open"
        <5>1. AcceptIdInv(d)  BY <4>3 DEF IdInv
        <5>2. id'[d] = id[d] /\ call'[d] = call[d]  BY <1>t, <2>1, <3>1, <4>3
        <5>. QED  BY <1>k, <4>3, <5>1, <5>2 DEF AcceptIdInv
      <4>. QED  BY <4>1, <4>2, <4>3
    <3>5. ASSUME NEW d \in Calls, d # c, d.op = "open", d.side = c.side PROVE id[d] # i
      <4>1. OpenIdInv(d)  BY <3>5 DEF IdInv
      <4>. QED  BY <1>t, <3>2, <3>5, <4>1 DEF OpenIdInv, i
    <3>6. ASSUME NEW d \in Calls, NEW e \in Calls, SameOp(d, e), id'[d] = id'[e]
          PROVE  id'[d] = 0
      <4>1. SameOp(d, e) /\ id[d] = id[e] => id[d] = 0  BY DEF IdInv
      <4>. QED  BY <1>t, <2>2, <3>1, <3>5, <3>6, <4>1 DEF SameOp
    <3>. QED  BY <3>3, <3>4, <3>6, Zenon DEF IdInv, SameOp
  <2>3. CASE c.op # "open"
    <3>1. UNCHANGED <<id, nextId>>  BY <1>2, <2>3, Zenon DEF Start
    <3>2. ASSUME NEW d \in Calls PROVE (IF d.op = "open" THEN OpenIdInv(d) ELSE AcceptIdInv(d))'
      <4>1. IF d.op = "open" THEN OpenIdInv(d) ELSE AcceptIdInv(d)  BY Zenon DEF IdInv
      <4>2. CASE d = c  BY <1>t, <2>1, <2>3, <3>1, <4>1, <4>2 DEF AcceptIdInv
      <4>3. CASE d # c
        <5>1. call'[d] = call[d]  BY <1>t, <2>1, <4>3
        <5>. QED  BY <1>k, <3>1, <4>1, <5>1 DEF OpenIdInv, AcceptIdInv
      <4>. QED  BY <4>2, <4>3
    <3>. QED  BY <3>1, <3>2 DEF IdInv, SameOp
  <2>. QED  BY <2>2, <2>3
<1>3. ASSUME NEW c \in Calls,
             \/ RegisterOpen(c) \/ RegisterAccept(c) \/ WriteHandshake(c)
             \/ GiveUp(c) \/ SeeAccepted(c) \/ Attach(c)
      PROVE  IdInv'
  <2>1. UNCHANGED <<id, nextId>> /\ (UNCHANGED call \/ Moves(c))  BY <1>3, CallMoves
  <2>2. ASSUME NEW d \in Calls PROVE (IF d.op = "open" THEN OpenIdInv(d) ELSE AcceptIdInv(d))'
    <3>1. IF d.op = "open" THEN OpenIdInv(d) ELSE AcceptIdInv(d)  BY DEF IdInv
    <3>2. /\ call'[d] = "idle" <=> call[d] = "idle"
          /\ d.op # "open" => (call'[d] \in {"write", "attach", "ok", "failed"}
                                 <=> call[d] \in {"write", "attach", "ok", "failed"})
      BY <1>t, <2>1 DEF Moves, Go
    <3>. QED  BY <1>k, <2>1, <3>1, <3>2, Zenon DEF OpenIdInv, AcceptIdInv
  <2>. QED  BY <2>1, <2>2, Zenon DEF IdInv, SameOp
<1>4. ASSUME NEW s \in Sides, BrokerOpened(s) PROVE IdInv'
  <2>1. PICK c \in Calls, i \in Nat : c = broker[s].call /\ i = broker[s].id
    BY <1>4, <1>t, BrokerTypes DEF BrokerOpened
  <2>2. c.op = "accept" /\ c.side = s /\ OpenSent(s, i) /\ ~AcceptTook(s, i)
    BY <1>4, <2>1, Zenon DEF BrokerOpened, FlightInv, BrokerInv
  <2>3. id' = [id EXCEPT ![c] = i] /\ call' = [call EXCEPT ![c] = "write"] /\ nextId' = nextId
    BY <1>4, <2>1 DEF BrokerOpened, Go
  <2>4. ASSUME NEW d \in Calls PROVE (IF d.op = "open" THEN OpenIdInv(d) ELSE AcceptIdInv(d))'
    <3>1. IF d.op = "open" THEN OpenIdInv(d) ELSE AcceptIdInv(d)  BY DEF IdInv
    <3>2. CASE d = c
      <4>1. id'[d] = i /\ call'[d] = "write"  BY <1>t, <2>1, <2>3, <3>2
      <4>2. OpenSent(s, i)'  BY <1>k, <2>2
      <4>3. OpenSent(d.side, id[d])'  BY <2>2, <3>2, <4>1, <4>2, Zenon DEF OpenSent
      <4>. QED  BY <2>2, <3>2, <4>1, <4>3 DEF AcceptIdInv
    <3>3. CASE d # c
      <4>1. call'[d] = call[d] /\ id'[d] = id[d]  BY <1>t, <2>3, <3>3
      <4>. QED  BY <1>k, <2>3, <3>1, <4>1, Zenon DEF OpenIdInv, AcceptIdInv
    <3>. QED  BY <3>2, <3>3
  <2>5. ASSUME NEW d \in Calls, NEW e \in Calls, SameOp(d, e), id'[d] = id'[e]
        PROVE  id'[d] = 0
    <3>1. SameOp(d, e) /\ id[d] = id[e] => id[d] = 0  BY DEF IdInv
    <3>2. \A f \in Calls : f # c /\ f.op = "accept" /\ f.side = s => id[f] # i
      BY <2>2 DEF AcceptTook
    <3>. QED  BY <1>t, <2>1, <2>2, <2>3, <2>5, <3>1, <3>2, Zenon DEF SameOp
  <2>. QED  BY <2>3, <2>4, <2>5 DEF IdInv, SameOp
<1>. QED  BY <1>1, <1>2, <1>3, <1>4, WhoMoves

-----------------------------------------------------------------------------
(* Messages on their way                                                   *)

LEMMA AppendConcat ==
    ASSUME NEW h \in Seq(Messages), NEW n \in Seq(Messages), NEW m \in Messages
    PROVE  h \o Append(n, m) = Append(h \o n, m)
OBVIOUS

LEMMA HeadConcat ==
    ASSUME NEW h \in Seq(Messages), NEW n \in Seq(Messages), h # <<>>, Len(h) \in {0, 1}
    PROVE  /\ h \o n \in Seq(Messages) /\ h \o n # <<>> /\ (h \o n)[1] = h[1]
           /\ Tail(h \o n) = n
<1> DEFINE q == h \o n
<1>1. Len(h) # 0 /\ Len(n) \in Nat  OBVIOUS
<1>2. Len(h) = 1  BY <1>1
<1>3. /\ q \in Seq(Messages) /\ Len(q) = Len(h) + Len(n)
      /\ \A k \in 1 .. Len(h) + Len(n) : q[k] = IF k <= Len(h) THEN h[k] ELSE n[k - Len(h)]
  BY Joined
<1> HIDE DEF q
<1>4. Len(q) = 1 + Len(n) /\ q[1] = h[1]  BY <1>1, <1>2, <1>3
<1>5. q # <<>>  BY <1>1, <1>4
<1>6. /\ Tail(q) \in Seq(Messages) /\ Len(Tail(q)) = Len(q) - 1
      /\ \A k \in 1 .. Len(Tail(q)) : Tail(q)[k] = q[k + 1]
  BY <1>3, <1>5, FirstAndRest
<1>7. ASSUME NEW k \in 1 .. Len(Tail(q)) PROVE Tail(q)[k] = n[k]
  <2>1. Tail(q)[k] = q[k + 1]  BY <1>6
  <2>2. k + 1 \in 1 .. 1 + Len(n) /\ ~(k + 1 <= 1) /\ (k + 1) - 1 = k
    BY <1>1, <1>4, <1>6
  <2>3. q[k + 1] = n[k]  BY <1>2, <1>3, <2>2
  <2>. QED  BY <2>1, <2>3
<1>8. Len(Tail(q)) = Len(n)  BY <1>1, <1>4, <1>6
<1>9. Tail(q) = n  BY <1>6, <1>7, <1>8, SameElements
<1>. QED  BY <1>3, <1>4, <1>5, <1>9 DEF q

LEMMA FlightOfSend ==
    ASSUME TypeOK, NEW t \in Sides, NEW m \in Messages, Send(t, m), UNCHANGED hand,
           NEW s \in Sides
    PROVE  \/ Flight(s)' = Flight(s)
           \/ s = Peer(t) /\ Flight(s)' = Append(Flight(s), m)
<1>1. hand[s] \in Seq(Messages) /\ net[s] \in Seq(Messages)  BY DEF TypeOK
<1>2. net'[s] = net[s] \/ (s = Peer(t) /\ net'[s] = Append(net[s], m))
  BY DEF Send, TypeOK
<1>3. hand[s] \o Append(net[s], m) = Append(hand[s] \o net[s], m)  BY Zenon, <1>1, AppendConcat
<1>. QED  BY Zenon, <1>2, <1>3 DEF Flight

LEMMA FlightOfTake ==
    ASSUME TypeOK, NEW s \in Sides, hand[s] # <<>>, Len(hand[s]) \in {0, 1}
    PROVE  /\ Flight(s) \in Seq(Messages) /\ Flight(s) # <<>> /\ Flight(s)[1] = hand[s][1]
           /\ Tail(Flight(s)) = <<>> \o net[s]
<1>1. hand[s] \in Seq(Messages) /\ net[s] \in Seq(Messages)  BY DEF TypeOK
<1>2. /\ hand[s] \o net[s] \in Seq(Messages) /\ hand[s] \o net[s] # <<>>
      /\ (hand[s] \o net[s])[1] = hand[s][1] /\ Tail(hand[s] \o net[s]) = net[s]
  BY Zenon, <1>1, HeadConcat
<1>3. <<>> \o net[s] = net[s]  BY <1>1, JoinedToNothing
<1>. QED  BY Zenon, <1>2, <1>3 DEF Flight

LEMMA FlightOfRead ==
    ASSUME TypeOK, NEW s \in Sides, ReadHandler(s)
    PROVE  /\ Flight(s) \in Seq(Messages) /\ Flight(s) # <<>>
           /\ Flight(s)' = Flight(s) \/ Flight(s)' = Tail(Flight(s))
           /\ Len(hand'[s]) \in {0, 1}
<1>1. net[s] \in Seq(Messages) /\ net[s] # <<>> /\ hand[s] = <<>>
  BY DEF TypeOK, ReadHandler
<1>2. Flight(s) = net[s]  BY <1>1, JoinedToNothing DEF Flight
<1>3. net'[s] = Tail(net[s]) /\ (hand'[s] = <<>> \/ hand'[s] = <<Head(net[s])>>)
  BY DEF ReadHandler, TypeOK
<1>4. Tail(net[s]) \in Seq(Messages) /\ Head(net[s]) \in Messages  BY <1>1
<1>5. <<>> \o Tail(net[s]) = Tail(net[s])  BY <1>4, JoinedToNothing
<1>6. <<Head(net[s])>> \o Tail(net[s]) = net[s]
  <2> DEFINE x == <<Head(net[s])>> \o Tail(net[s])
  <2>1. x \in Seq(Messages) /\ Len(x) = Len(net[s])  BY <1>1, <1>4
  <2>2. \A k \in 1 .. Len(x) : x[k] = net[s][k]  BY <1>1, <1>4
  <2> HIDE DEF x
  <2>3. x = net[s]  BY <1>1, <2>1, <2>2, SameElements
  <2>. QED  BY <2>3 DEF x
<1>7. Flight(s)' = hand'[s] \o net'[s]  BY DEF Flight
<1>8. Flight(s)' = net[s] \/ Flight(s)' = Tail(net[s])  BY Zenon, <1>3, <1>5, <1>6, <1>7
<1>9. Len(hand'[s]) \in {0, 1}
  <2>1. \A m : Len(<<m>>) = 1  OBVIOUS
  <2>2. Len(<<>>) = 0  OBVIOUS
  <2>. QED  BY Zenon, <1>3, <2>1, <2>2
<1>. QED  BY <1>1, <1>2, <1>8, <1>9

LEMMA TransitTail ==
    ASSUME NEW s, NEW q \in Seq(Messages), q # <<>>, InTransit(s, q)
    PROVE  /\ InTransit(s, Tail(q))
           /\ \A k \in 1 .. Len(Tail(q)) :
                  Tail(q)[k].type = "Open" /\ q[1].type = "Open" => Tail(q)[k].id # q[1].id
<1>1. Len(q) \in Nat \ {0} /\ Len(Tail(q)) = Len(q) - 1  BY FirstAndRest
<1>2. \A k \in 1 .. Len(Tail(q)) : Tail(q)[k] = q[k + 1] /\ k + 1 \in 1 .. Len(q)
  BY <1>1, FirstAndRest
<1>3. Written(s, Tail(q)) /\ Untaken(s, Tail(q))
  BY <1>2, Zenon DEF InTransit, Written, Untaken
<1>4. Once(Tail(q))  BY <1>1, <1>2 DEF InTransit, Once
<1>5. 1 \in 1 .. Len(q) /\ \A k \in 1 .. Len(Tail(q)) : k + 1 # 1  BY <1>1
<1>. QED  BY <1>2, <1>3, <1>4, <1>5 DEF InTransit, Once

LEMMA TransitAppend ==
    ASSUME NEW s, NEW q \in Seq(Messages), NEW m \in Messages, InTransit(s, q)',
           m.type = "Accept" => AcceptSent(s, m.id)',
           m.type = "Open" =>
               /\ OpenSent(s, m.id)' /\ ~AcceptTook(s, m.id)' /\ ~BrokerTook(s, m.id)'
               /\ \A k \in 1 .. Len(q) : q[k].type = "Open" => q[k].id # m.id
    PROVE  InTransit(s, Append(q, m))'
<1> DEFINE r == Append(q, m)
<1>1. /\ Len(q) \in Nat /\ Len(r) = Len(q) + 1 /\ r[Len(q) + 1] = m
      /\ \A k \in 1 .. Len(q) : r[k] = q[k]
  <2>1. Len(q) \in Nat /\ Len(r) = Len(q) + 1  BY PutLast
  <2>2. r[Len(q) + 1] = m  BY PutLast
  <2>3. \A k \in 1 .. Len(q) : r[k] = q[k]  BY PutLast
  <2>. QED  BY <2>1, <2>2, <2>3, Zenon
<1>2. \A k \in 1 .. Len(r) : k \in 1 .. Len(q) \/ k = Len(q) + 1  BY <1>1
<1> HIDE DEF r
<1>3. Written(s, r)'  BY <1>1, <1>2, Zenon DEF InTransit, Written
<1>4. Untaken(s, r)'  BY <1>1, <1>2, Zenon DEF InTransit, Untaken
<1>5. Once(r)  BY Zenon, <1>1, <1>2 DEF InTransit, Once
<1>. QED  BY <1>3, <1>4, <1>5, Zenon DEF InTransit, r

LEMMA TransitKept ==
    ASSUME Keeps, NEW s, NEW q, InTransit(s, q), Untaken(s, q)'
    PROVE  InTransit(s, q)'
<1>1. Written(s, q)'  BY Kept, Zenon DEF InTransit, Written
<1>. QED  BY <1>1 DEF InTransit

-----------------------------------------------------------------------------
(* The broker's assertions                                                 *)

LEMMA Unique == ASSUME TypeOK, IdInv PROVE IdsUnique
<1> SUFFICES ASSUME NEW c \in Calls, NEW d \in Calls, c # d, c.side = d.side,
                    id[c] = id[d], id[c] # 0
             PROVE  FALSE
  BY DEF IdsUnique
<1>t. id \in [Calls -> Nat] /\ \A e \in Calls : e.side \in Sides /\ e.op \in {"open", "accept"}
  BY CallsAssumption DEF TypeOK
<1>1. \A e \in Calls : e.op = "open" /\ id[e] # 0 => OwnId(e.side, id[e])
  BY Zenon DEF IdInv, OpenIdInv
<1>2. \A e \in Calls : e.op # "open" /\ id[e] # 0 => OpenSent(e.side, id[e])
  BY Zenon DEF IdInv, AcceptIdInv
<1>3. \A s, j : OpenSent(s, j) /\ j # 0 => OwnId(Peer(s), j)  BY Zenon, <1>1 DEF OpenSent
<1>4. c.op # d.op  BY Zenon DEF IdInv, SameOp
<1>5. OwnId(c.side, id[c]) /\ OwnId(Peer(c.side), id[c])
  BY <1>t, <1>1, <1>2, <1>3, <1>4
<1>. QED  BY <1>t, <1>5, OwnIds

\* Registering a call or a Channel finds no other with its ID; registering an
\* AcceptChannel finds another of its protocol only after Session.Close.
LEMMA NoPanic ==
    ASSUME TypeOK, IdInv, MapInv, NEW c \in Calls
    PROVE  /\ RegisterOpen(c) \/ Attach(c) => UNCHANGED broker
           /\ RegisterAccept(c) => UNCHANGED broker \/
                 (done[c.side] /\ broker' = [broker EXCEPT ![c.side] = [at |-> "panic"]])
<1>t. /\ \A e \in Calls : e.side \in Sides /\ e.op \in {"open", "accept"}
      /\ id \in [Calls -> Nat] /\ nextId \in [Sides -> Nat]
      /\ channels \subseteq Calls /\ accepts \subseteq Calls /\ opens \subseteq Calls
      /\ \A e \in opens : e.op = "accept"
  BY CallsAssumption DEF TypeOK
<1>u. \A d \in Calls : c # d /\ c.side = d.side /\ id[c] = id[d] => id[c] = 0
  BY Unique DEF IdsUnique
<1>z. call[c] \in {"register", "attach"} /\ (c.op = "open" \/ call[c] = "attach") => id[c] # 0
  <2>1. \A e \in Calls : e.op = "open" /\ call[e] # "idle" => id[e] # 0
    BY <1>t, OwnIds, Zenon DEF IdInv, OpenIdInv
  <2>2. \A s, j : OpenSent(s, j) => j # 0  BY <2>1 DEF OpenSent
  <2>. QED  BY <2>1, <2>2, Zenon DEF IdInv, AcceptIdInv
<1>1. ASSUME RegisterOpen(c) PROVE UNCHANGED broker
  <2>1. call[c] = "register" /\ id[c] # 0  BY <1>1, <1>z, Zenon DEF RegisterOpen
  <2>2. c \notin accepts /\ c \notin channels  BY <2>1, Zenon DEF MapInv
  <2>3. ~\E d \in accepts : d.side = c.side /\ id[d] = id[c]  BY <1>t, <1>u, <2>1, <2>2
  <2>4. Registered(c.side, id[c]) = {}  BY <1>t, <1>u, <2>1, <2>2 DEF Registered
  <2>. QED  BY <1>1, <2>3, <2>4, Zenon DEF RegisterOpen
<1>2. ASSUME Attach(c) PROVE UNCHANGED broker
  <2>1. call[c] = "attach" /\ id[c] # 0  BY <1>2, <1>z, Zenon DEF Attach
  <2>2. c \notin channels  BY <2>1, Zenon DEF MapInv
  <2>3. Registered(c.side, id[c]) = {}  BY <1>t, <1>u, <2>1, <2>2 DEF Registered
  <2>. QED  BY Zenon, <1>2, <2>3 DEF Attach
<1>3. ASSUME RegisterAccept(c), ~UNCHANGED broker
      PROVE  done[c.side] /\ broker' = [broker EXCEPT ![c.side] = [at |-> "panic"]]
  <2>1. PICK d \in opens : d.side = c.side /\ d.protocol = c.protocol
    BY <1>3, Zenon DEF RegisterAccept
  <2>2. call[c] = "register" /\ c.op = "accept"  BY <1>3 DEF RegisterAccept
  <2>3. c # d /\ d \in Calls /\ call[d] \in {"wait", "ErrClosed"} /\ d.op = "accept"
    BY <1>t, <2>2, Zenon DEF MapInv
  <2>4. ~InProgress(d)  BY <2>1, <2>2, <2>3, Zenon DEF MapInv, SameOp, InProgress
  <2>5. done[c.side]  BY <2>1, <2>3, <2>4, Zenon DEF MapInv, InProgress
  <2>. QED  BY <1>3, <2>5, Zenon DEF RegisterAccept, Dies
<1>. QED  BY <1>1, <1>2, <1>3, Zenon

-----------------------------------------------------------------------------
(* Steps and the messages on their way                                     *)

LEMMA NewFlight ==
    ASSUME NEW s, NEW q, q = Flight(s)', InTransit(s, q)'
    PROVE  InTransit(s, Flight(s))'
<1>1. Written(s, q)' /\ Once(q)' /\ Untaken(s, q)'  BY Zenon DEF InTransit
<1>2. Written(s, Flight(s))'  BY <1>1, Zenon DEF Written, OpenSent, AcceptSent
<1>3. Once(Flight(s))'  BY <1>1, Zenon DEF Once
<1>4. Untaken(s, Flight(s))'  BY <1>1, Zenon DEF Untaken, AcceptTook, BrokerTook
<1>. QED  BY Zenon, <1>2, <1>3, <1>4 DEF InTransit

\* The broker holds no Open, and has not failed an assertion before Close.
Passive(s) == broker[s].at # "opened" /\ (broker[s].at = "panic" => done[s])

\* What the broker took from AcceptChannels stays as it is in a step that
\* gives no accepting call an ID and no Open to the broker.
LEMMA SideKept ==
    ASSUME Keeps, FlightInv, NEW s \in Sides, done[s] => done'[s],
           broker'[s] = broker[s] \/ Passive(s)',
           \A d \in Calls : d.op = "accept" => id'[d] = id[d]
    PROVE  BrokerInv(s)' /\ \A q : InTransit(s, q) => InTransit(s, q)'
<1>1. \A i : AcceptTook(s, i)' => AcceptTook(s, i)  BY DEF AcceptTook
<1>2. \A i : BrokerTook(s, i)' => BrokerTook(s, i)  BY DEF BrokerTook, Passive
<1>3. BrokerInv(s)'
  <2>1. CASE Passive(s)'  BY <2>1, Zenon DEF BrokerInv, Passive
  <2>2. CASE broker'[s] = broker[s]
    <3>1. BrokerInv(s)  BY DEF FlightInv
    <3>2. broker'[s].at = "panic" => done'[s]  BY <2>2, <3>1, Zenon DEF BrokerInv
    <3>3. ASSUME broker'[s].at = "opened"
          PROVE  /\ broker'[s].call.op = "accept" /\ broker'[s].call.side = s
                 /\ OpenSent(s, broker[s].id)' /\ ~AcceptTook(s, broker[s].id)'
      <4>1. PICK i : i = broker[s].id /\ i = broker'[s].id  BY <2>2
      <4>2. OpenSent(s, i)' /\ ~AcceptTook(s, i)'
        <5>1. OpenSent(s, broker[s].id) /\ ~AcceptTook(s, broker[s].id)
          BY Zenon, <2>2, <3>1, <3>3 DEF BrokerInv
        <5>2. OpenSent(s, i) /\ ~AcceptTook(s, i)  BY Zenon, <4>1, <5>1
        <5>. QED  BY Zenon, <5>2, <1>1, Kept
      <4>3. OpenSent(s, broker[s].id)' /\ ~AcceptTook(s, broker[s].id)'
        BY <4>1, <4>2, Zenon DEF OpenSent, AcceptTook
      <4>. QED  BY <2>2, <3>1, <3>3, <4>3, Zenon DEF BrokerInv
    <3>. QED  BY <3>2, <3>3, Zenon DEF BrokerInv
  <2>. QED  BY <2>1, <2>2, Zenon
<1>4. ASSUME NEW q, InTransit(s, q) PROVE InTransit(s, q)'
  <2>1. Untaken(s, q)'  BY Zenon, <1>1, <1>2, <1>4 DEF InTransit, Untaken
  <2>. QED  BY Zenon, <1>4, <2>1, TransitKept
<1>. QED  BY <1>3, <1>4, Zenon

\* A side to which nothing was written and which read nothing.
LEMMA SideQuiet ==
    ASSUME Keeps, FlightInv, NEW s \in Sides, done[s] => done'[s],
           broker'[s] = broker[s] \/ Passive(s)',
           \A d \in Calls : d.op = "accept" => id'[d] = id[d],
           hand'[s] = hand[s], Flight(s)' = Flight(s)
    PROVE  (Len(hand[s]) \in {0, 1} /\ BrokerInv(s) /\ InTransit(s, Flight(s)))'
<1>1. PICK q : q = Flight(s) /\ q = Flight(s)'  OBVIOUS
<1>2. InTransit(s, q)  BY <1>1, Zenon DEF FlightInv
<1>3. BrokerInv(s)' /\ InTransit(s, q)'  BY <1>2, SideKept, Zenon
<1>4. InTransit(s, Flight(s))'  BY <1>1, <1>3, NewFlight, Zenon
<1>5. (Len(hand[s]) \in {0, 1})'  BY Zenon DEF FlightInv
<1>. QED  BY <1>3, <1>4, <1>5, Zenon

\* A side that got this message.
LEMMA SideSent ==
    ASSUME TypeOK, Keeps, FlightInv, NEW s \in Sides, NEW m \in Messages, UNCHANGED <<broker, done>>,
           \A d \in Calls : d.op = "accept" => id'[d] = id[d],
           hand'[s] = hand[s], Flight(s)' = Append(Flight(s), m),
           m.type = "Accept" => AcceptSent(s, m.id)',
           m.type = "Open" => /\ OpenSent(s, m.id)' /\ ~AcceptTook(s, m.id)
                              /\ ~OpenSent(s, m.id)
    PROVE  (Len(hand[s]) \in {0, 1} /\ BrokerInv(s) /\ InTransit(s, Flight(s)))'
<1>0. Flight(s) \in Seq(Messages)  BY Zenon, Joined DEF Flight, TypeOK
<1>1. PICK q \in Seq(Messages) : q = Flight(s) /\ Append(q, m) = Flight(s)'  BY Zenon, <1>0
<1>2. InTransit(s, q)  BY Zenon, <1>1 DEF FlightInv
<1>3. BrokerInv(s)' /\ InTransit(s, q)'  BY Zenon, <1>2, SideKept
<1>4. ASSUME m.type = "Open"
      PROVE  /\ OpenSent(s, m.id)' /\ ~AcceptTook(s, m.id)' /\ ~BrokerTook(s, m.id)'
             /\ \A k \in 1 .. Len(q) : q[k].type = "Open" => q[k].id # m.id
  <2>1. ~AcceptTook(s, m.id)'  BY Zenon, <1>4 DEF AcceptTook
  <2>2. ~BrokerTook(s, m.id)
    BY <1>4, Zenon DEF FlightInv, BrokerInv, BrokerTook
  <2>3. ~BrokerTook(s, m.id)'  BY <2>2, Zenon DEF BrokerTook
  <2>4. \A k \in 1 .. Len(q) : q[k].type = "Open" => q[k].id # m.id
    BY <1>2, <1>4, Zenon DEF InTransit, Written
  <2>. QED  BY Zenon, <1>4, <2>1, <2>3, <2>4
<1>5. InTransit(s, Append(q, m))'  BY Zenon, <1>3, <1>4, TransitAppend
<1>6. PICK r : r = Append(q, m)  BY Zenon
<1>7. InTransit(s, Flight(s))'
  <2>1. InTransit(s, r)'
    BY Zenon, <1>5, <1>6 DEF InTransit, Written, Once, Untaken
  <2>. QED  BY Zenon, <1>1, <1>6, <2>1, NewFlight
<1>8. (Len(hand[s]) \in {0, 1})'  BY Zenon DEF FlightInv
<1>. QED  BY Zenon, <1>3, <1>7, <1>8

\* The sides after a message was written, or lost because the peer is gone.
LEMMA SendSteps ==
    ASSUME TypeOK, Keeps, FlightInv, NEW t \in Sides, NEW m \in Messages, Send(t, m),
           UNCHANGED <<hand, broker, done>>,
           \A d \in Calls : d.op = "accept" => id'[d] = id[d],
           m.type = "Accept" => AcceptSent(Peer(t), m.id)',
           m.type = "Open" => /\ OpenSent(Peer(t), m.id)' /\ ~AcceptTook(Peer(t), m.id)
                              /\ ~OpenSent(Peer(t), m.id)
    PROVE  FlightInv'
<1>1. ASSUME NEW s \in Sides
      PROVE  (Len(hand[s]) \in {0, 1} /\ BrokerInv(s) /\ InTransit(s, Flight(s)))'
  <2>1. CASE Flight(s)' = Flight(s)  BY Zenon, <2>1, SideQuiet
  <2>2. CASE s = Peer(t) /\ Flight(s)' = Append(Flight(s), m)
    <3>1. m.type = "Accept" => AcceptSent(s, m.id)'  BY Zenon, <2>2
    <3>2. m.type = "Open" => /\ OpenSent(s, m.id)' /\ ~AcceptTook(s, m.id) /\ ~OpenSent(s, m.id)
      BY <2>2, Zenon
    <3>. QED  BY Zenon, <2>2, <3>1, <3>2, SideSent
  <2>. QED  BY Zenon, <2>1, <2>2, FlightOfSend
<1>. QED  BY Zenon, <1>1 DEF FlightInv

\* A side whose broker took the message readHandler held, and kept no Open.
LEMMA SideTook ==
    ASSUME TypeOK, Keeps, FlightInv, NEW s \in Sides, hand[s] # <<>>, hand'[s] = <<>>,
           UNCHANGED <<callVars, net, done>>, broker'[s] = broker[s] \/ Passive(s)'
    PROVE  (Len(hand[s]) \in {0, 1} /\ BrokerInv(s) /\ InTransit(s, Flight(s)))'
<1>1. /\ Flight(s) \in Seq(Messages) /\ Flight(s) # <<>>
      /\ Tail(Flight(s)) = <<>> \o net[s]
  BY FlightOfTake, Zenon DEF FlightInv
<1>2. Flight(s)' = <<>> \o net[s]  BY DEF Flight
<1>3. PICK q : q = Tail(Flight(s)) /\ q = Flight(s)'  BY <1>1, <1>2
<1>4. InTransit(s, Tail(Flight(s)))  BY <1>1, TransitTail, Zenon DEF FlightInv
<1>5. InTransit(s, q)  BY <1>3, <1>4
<1>6. BrokerInv(s)' /\ InTransit(s, q)'  BY <1>5, SideKept, Zenon DEF callVars
<1>7. InTransit(s, Flight(s))'  BY <1>3, <1>6, NewFlight, Zenon
<1>8. (Len(hand[s]) \in {0, 1})'  OBVIOUS
<1>. QED  BY <1>6, <1>7, <1>8

\* The steps that move no message, and of which no accepting call gets an ID.
LEMMA QuietSteps ==
    ASSUME TypeOK, Keeps, FlightInv, UNCHANGED <<hand, net>>,
           \A s \in Sides : (done[s] => done'[s]) /\ (broker'[s] = broker[s] \/ Passive(s)'),
           \A d \in Calls : d.op = "accept" => id'[d] = id[d]
    PROVE  FlightInv'
<1>1. ASSUME NEW s \in Sides
      PROVE  (Len(hand[s]) \in {0, 1} /\ BrokerInv(s) /\ InTransit(s, Flight(s)))'
  <2>1. Flight(s)' = Flight(s)  BY DEF Flight
  <2>. QED  BY <2>1, SideQuiet, Zenon
<1>. QED  BY <1>1, Zenon DEF FlightInv

LEMMA CallFlight ==
    ASSUME TypeOK, IdInv, MapInv, FlightInv, Keeps, NEW c \in Calls, CallStep(c)
    PROVE  FlightInv'
<1> USE DEF callVars, mapVars, channelVars
<1>t. /\ c.side \in Sides /\ c.op \in {"open", "accept"} /\ c.protocol \in Nat
      /\ id \in [Calls -> Nat] /\ call \in [Calls -> CallStates]
      /\ broker \in [Sides -> BrokerStates] /\ id[c] \in Nat
      /\ Peer(c.side) \in Sides /\ Peer(Peer(c.side)) = c.side
  BY CallsAssumption, Zenon DEF TypeOK, Sides, Peer
<1>1. CASE Start(c)
  <2>1. \A d \in Calls : d.op = "accept" => id'[d] = id[d]  BY <1>1, <1>t DEF Start
  <2>. QED  BY Zenon, <1>1, <2>1, QuietSteps DEF Start
<1>2. CASE RegisterOpen(c) \/ Attach(c)
  <2>1. UNCHANGED broker  BY <1>2, NoPanic, Zenon
  <2>. QED  BY Zenon, <1>2, <2>1, QuietSteps DEF RegisterOpen, Attach
<1>3. CASE RegisterAccept(c)
  <2>1. UNCHANGED <<hand, net, id, done>>  BY Zenon, <1>3 DEF RegisterAccept
  <2>2. ASSUME NEW s \in Sides PROVE broker'[s] = broker[s] \/ Passive(s)'
    <3>1. \/ UNCHANGED broker
          \/ done[c.side] /\ broker' = [broker EXCEPT ![c.side] = [at |-> "panic"]]
      BY <1>3, NoPanic, Zenon
    <3>2. broker'[s] = broker[s] \/ (done[s] /\ broker'[s] = [at |-> "panic"])
      BY <1>t, <3>1, Zenon
    <3>3. [at |-> "panic"].at = "panic" /\ "panic" # "opened"  OBVIOUS
    <3>. QED  BY <2>1, <3>2, <3>3, Zenon DEF Passive
  <2>. QED  BY <2>1, <2>2, QuietSteps
<1>4. CASE GiveUp(c) \/ SeeAccepted(c)
  BY <1>4, QuietSteps, Zenon DEF GiveUp, SeeAccepted
<1>5. CASE WriteHandshake(c)
  <2>1. UNCHANGED <<hand, id, broker, done>> /\ call[c] = "write"  BY Zenon, <1>5 DEF WriteHandshake
  <2>2. CASE UNCHANGED net  BY <2>1, <2>2, QuietSteps
  <2>3. CASE c.op = "open" /\ Send(c.side, Open(id[c], c.protocol)) /\ Go(c, "wait")
    <3>1. PICK m \in Messages : m = Open(id[c], c.protocol) /\ m.type = "Open" /\ m.id = id[c]
      BY Zenon, <1>t, MessageTypes DEF Open
    <3>2. OpenSent(Peer(c.side), m.id)'
      BY <1>t, <2>1, <2>3, <3>1 DEF OpenSent, Go
    <3>3. id[c] # 0
      <4>1. OpenIdInv(c)  BY <2>3, Zenon DEF IdInv
      <4>2. OwnId(c.side, id[c])  BY <2>1, <4>1, Zenon DEF OpenIdInv
      <4>. QED  BY <1>t, <4>2, OwnIds
    <3>4. ~OpenSent(Peer(c.side), m.id)
      BY Zenon, <1>t, <2>1, <2>3, <3>1, <3>3 DEF OpenSent, IdInv, SameOp
    <3>5. ~AcceptTook(Peer(c.side), m.id)
      BY <3>1, <3>3, <3>4, Zenon DEF AcceptTook, IdInv, AcceptIdInv
    <3>6. Send(c.side, m)  BY <2>3, <3>1
    <3>. QED  BY <1>t, <2>1, <3>1, <3>2, <3>4, <3>5, <3>6, SendSteps
  <2>4. CASE c.op = "accept" /\ Send(c.side, Accept(id[c])) /\ Go(c, "attach")
    <3>1. PICK m \in Messages : m = Accept(id[c]) /\ m.type = "Accept" /\ m.id = id[c]
      BY Zenon, <1>t, MessageTypes DEF Accept
    <3>2. AcceptSent(Peer(c.side), m.id)'
      BY <1>t, <2>1, <2>4, <3>1 DEF AcceptSent, Go
    <3>3. Send(c.side, m)  BY <2>4, <3>1, Zenon
    <3>. QED  BY <1>t, <2>1, <3>1, <3>2, <3>3, SendSteps
  <2>. QED  BY Zenon, <1>5, <2>2, <2>3, <2>4 DEF WriteHandshake
<1>. QED  BY <1>1, <1>2, <1>3, <1>4, <1>5 DEF CallStep

LEMMA ChannelFlight ==
    ASSUME TypeOK, FlightInv, Keeps, NEW c \in Calls,
           Write(c) \/ Read(c) \/ ChannelClose(c) \/ HandlerDone(c)
    PROVE  FlightInv'
<1> USE DEF callVars, mapVars, channelVars
<1>t. /\ c.side \in Sides /\ c.protocol \in Nat /\ id[c] \in Nat
  BY CallsAssumption DEF TypeOK
<1>1. CASE Write(c)
  <2>1. sent'[c] \in Nat
    <3>1. sent \in [Calls -> Nat] /\ sent' = [sent EXCEPT ![c] = sent[c] + 1]
      BY Zenon, <1>1 DEF Write, TypeOK
    <3>. QED  BY <3>1
  <2>2. PICK m \in Messages : m = Data(id[c], c.protocol, sent'[c]) /\ m.type = "Data"
    <3>1. Data(id[c], c.protocol, sent'[c]) \in Messages  BY Zenon, <1>t, <2>1, MessageTypes
    <3>2. Data(id[c], c.protocol, sent'[c]).type = "Data"  BY Zenon DEF Data
    <3>. QED  BY Zenon, <3>1, <3>2
  <2>3. Send(c.side, m) /\ UNCHANGED <<hand, broker, done, id>>  BY Zenon, <1>1, <2>2 DEF Write
  <2>. QED  BY Zenon, <1>t, <2>2, <2>3, SendSteps
<1>2. CASE Read(c) \/ HandlerDone(c)  BY Zenon, <1>2, QuietSteps DEF Read, HandlerDone
<1>3. CASE ChannelClose(c)
  <2>1. PICK m \in Messages : m = Close(id[c]) /\ m.type = "Close"
    BY Zenon, <1>t, MessageTypes DEF Close
  <2>2. UNCHANGED <<hand, broker, done, id>> /\ (Send(c.side, m) \/ UNCHANGED net)
    BY Zenon, <1>3, <2>1 DEF ChannelClose
  <2>3. CASE Send(c.side, m)  BY Zenon, <1>t, <2>1, <2>2, <2>3, SendSteps
  <2>4. CASE UNCHANGED net  BY Zenon, <2>2, <2>4, QuietSteps
  <2>. QED  BY <2>2, <2>3, <2>4
<1>. QED  BY <1>1, <1>2, <1>3

LEMMA SideFlight ==
    ASSUME TypeOK, FlightInv, Keeps, NEW t \in Sides,
           \/ BrokerStep(t) \/ ReadHandler(t) \/ ReadHandlerPanic(t)
           \/ SessionClose(t) \/ SessionCloseConn(t)
    PROVE  FlightInv'
<1> USE DEF callVars, mapVars, channelVars
<1> DEFINE SideInv(s) == Len(hand[s]) \in {0, 1} /\ BrokerInv(s) /\ InTransit(s, Flight(s))
<1>t. /\ broker \in [Sides -> BrokerStates] /\ hand \in [Sides -> Seq(Messages)]
      /\ net \in [Sides -> Seq(Messages)] /\ id \in [Calls -> Nat] /\ opens \subseteq Calls
      /\ (\A c \in opens : c.op = "accept")
  BY DEF TypeOK
<1>1. CASE BrokerDeliver(t) \/ BrokerDone(t) \/ ReadHandlerPanic(t) \/ SessionClose(t)
           \/ SessionCloseConn(t)
  <2>1. UNCHANGED <<hand, net, id>>
    BY Zenon, <1>1 DEF BrokerDeliver, BrokerDone, ReadHandlerPanic, SessionClose, SessionCloseConn
  <2>2. ASSUME NEW s \in Sides
        PROVE  (done[s] => done'[s]) /\ (broker'[s] = broker[s] \/ Passive(s)')
    <3>1. done[s] => done'[s]
      BY Zenon, <1>1 DEF BrokerDeliver, BrokerDone, ReadHandlerPanic, SessionClose, SessionCloseConn,
                  TypeOK
    <3>2. \/ broker'[s] = broker[s] \/ broker'[s] = Selecting
          \/ broker'[s] = [at |-> "stopped"] \/ broker'[s] = [at |-> "read error"]
      BY Zenon, <1>1, <1>t DEF BrokerDeliver, BrokerDone, ReadHandlerPanic, Dies, SessionClose,
                        SessionCloseConn
    <3>3. \A a : [at |-> a].at = a  OBVIOUS
    <3>4. broker'[s] = broker[s] \/ broker'[s].at \in {"select", "stopped", "read error"}
      BY Zenon, <3>2, <3>3 DEF Selecting
    <3>. QED  BY Zenon, <3>1, <3>4 DEF Passive
  <2>. QED  BY <2>1, <2>2, QuietSteps
<1>2. CASE BrokerAccept(t) \/ BrokerData(t)
  <2>1. /\ hand[t] # <<>> /\ hand' = [hand EXCEPT ![t] = <<>>]
        /\ UNCHANGED <<callVars, net, done>>
    BY Zenon, <1>2 DEF BrokerAccept, BrokerData, Takes
  <2>2. ASSUME NEW s \in Sides PROVE broker'[s] = broker[s] \/ (s = t /\ Passive(s)')
    <3>1. CASE BrokerAccept(t)  BY <3>1, Zenon DEF BrokerAccept
    <3>2. CASE BrokerData(t)
      <4>1. UNCHANGED broker \/ \E c : broker' = [broker EXCEPT ![t] =
                [at |-> "deliver", call |-> c, k |-> hand[t][1].k]]
        BY <3>2, Zenon DEF BrokerData
      <4>2. broker'[s] = broker[s] \/ (s = t /\ broker'[s].at = "deliver")
        <5>1. CASE UNCHANGED broker  BY <5>1, Zenon
        <5>2. ASSUME NEW c, broker' = [broker EXCEPT ![t] =
                         [at |-> "deliver", call |-> c, k |-> hand[t][1].k]]
              PROVE  broker'[s] = broker[s] \/ (s = t /\ broker'[s].at = "deliver")
          <6>1. PICK y : y = [at |-> "deliver", call |-> c, k |-> hand[t][1].k]  BY Zenon
          <6>2. y.at = "deliver"  BY <6>1, Zenon
          <6>3. broker'[s] = IF s = t THEN y ELSE broker[s]  BY <1>t, <5>2, <6>1, Zenon
          <6>. QED  BY <6>2, <6>3, Zenon
        <5>. QED  BY <4>1, <5>1, <5>2, Zenon
      <4>. QED  BY <4>2, Zenon DEF Passive
    <3>. QED  BY <1>2, <3>1, <3>2, Zenon
  <2>3. SideInv(t)'  BY <1>t, <2>1, <2>2, SideTook, Zenon
  <2>4. ASSUME NEW s \in Sides, s # t PROVE SideInv(s)'
    <3>1. hand'[s] = hand[s] /\ Flight(s)' = Flight(s)  BY <1>t, <2>1, <2>4 DEF Flight
    <3>. QED  BY Zenon, <2>1, <2>2, <2>4, <3>1, SideQuiet
  <2>. QED  BY <2>3, <2>4 DEF FlightInv
<1>3. CASE ReadHandler(t)
  <2>1. UNCHANGED <<callVars, broker, done>>  BY <1>3, Zenon DEF ReadHandler
  <2>2. SideInv(t)'
    <3>1. /\ Flight(t) \in Seq(Messages) /\ Flight(t) # <<>>
          /\ Flight(t)' = Flight(t) \/ Flight(t)' = Tail(Flight(t))
          /\ Len(hand'[t]) \in {0, 1}
      BY <1>3, FlightOfRead
    <3>2. InTransit(t, Flight(t)) /\ InTransit(t, Tail(Flight(t)))
      BY <3>1, TransitTail, Zenon DEF FlightInv
    <3>3. PICK q : q = Flight(t)' /\ InTransit(t, q)  BY Zenon, <3>1, <3>2
    <3>4. BrokerInv(t)' /\ InTransit(t, q)'  BY Zenon, <2>1, <3>3, SideKept
    <3>5. InTransit(t, Flight(t))'  BY <3>3, <3>4, NewFlight
    <3>. QED  BY <3>1, <3>4, <3>5
  <2>3. ASSUME NEW s \in Sides, s # t PROVE SideInv(s)'
    <3>1. hand'[s] = hand[s] /\ net'[s] = net[s]  BY <1>3, <1>t, <2>3, Zenon DEF ReadHandler
    <3>2. Flight(s)' = Flight(s)  BY Zenon, <3>1 DEF Flight
    <3>. QED  BY Zenon, <2>1, <2>3, <3>1, <3>2, SideQuiet
  <2>. QED  BY <2>2, <2>3 DEF FlightInv
<1>4. CASE BrokerOpen(t)
  <2>1. /\ hand[t] # <<>> /\ hand' = [hand EXCEPT ![t] = <<>>] /\ hand[t][1].type = "Open"
        /\ UNCHANGED <<callVars, net, done>>
    BY Zenon, <1>4 DEF BrokerOpen, Takes
  <2>2. CASE UNCHANGED broker
    <3>1. SideInv(t)'  BY Zenon, <1>t, <2>1, <2>2, SideTook
    <3>2. ASSUME NEW s \in Sides, s # t PROVE SideInv(s)'
      <4>1. hand'[s] = hand[s] /\ Flight(s)' = Flight(s)  BY Zenon, <1>t, <2>1, <3>2 DEF Flight
      <4>. QED  BY Zenon, <2>1, <2>2, <3>2, <4>1, SideQuiet
    <3>. QED  BY <3>1, <3>2 DEF FlightInv
  <2>3. ASSUME NEW c \in opens, c.side = t,
               broker' = [broker EXCEPT ![t] = [at |-> "opened", id |-> hand[t][1].id, call |-> c]]
        PROVE  FlightInv'
    <3>1. PICK i : i = hand[t][1].id  BY Zenon
    <3>2. broker'[t] = [at |-> "opened", id |-> i, call |-> c]  BY <1>t, <2>3, <3>1, Zenon
    <3>3. /\ Flight(t) \in Seq(Messages) /\ Flight(t) # <<>> /\ Flight(t)[1] = hand[t][1]
          /\ Tail(Flight(t)) = <<>> \o net[t]
      BY Zenon, <2>1, FlightOfTake DEF FlightInv
    <3>4. Flight(t)' = <<>> \o net[t]  BY <1>t, <2>1, Zenon DEF Flight
    <3>5. InTransit(t, Flight(t))  BY DEF FlightInv
    <3>6. 1 \in 1 .. Len(Flight(t))  BY <3>3, TakenFirst, Zenon
    <3>7. OpenSent(t, i) /\ ~AcceptTook(t, i)
      BY Zenon, <2>1, <3>1, <3>3, <3>5, <3>6 DEF InTransit, Written, Untaken
    <3>8. OpenSent(t, i)' /\ ~AcceptTook(t, i)'
      BY Zenon, <2>1, <3>7 DEF OpenSent, AcceptTook
    <3>9. BrokerInv(t)'
      <4>1. OpenSent(t, broker[t].id)' /\ ~AcceptTook(t, broker[t].id)'
        <5>1. broker'[t].id = i
          <6>1. PICK y : y = [at |-> "opened", id |-> i, call |-> c]  BY Zenon
          <6>2. y.id = i  BY <6>1
          <6>. QED  BY <3>2, <6>1, <6>2, Zenon
        <5>2. PICK j : j = i /\ j = broker'[t].id  BY <5>1, Zenon
        <5>. QED  BY Zenon, <3>8, <5>2 DEF OpenSent, AcceptTook
      <4>. QED  BY Zenon, <1>t, <2>3, <3>2, <4>1 DEF BrokerInv
    <3>10. PICK q : q = Flight(t)' /\ q = Tail(Flight(t))  BY <3>3, <3>4, Zenon
    <3>11. /\ InTransit(t, q)
           /\ \A k \in 1 .. Len(q) : q[k].type = "Open" => q[k].id # i
      <4>1. /\ InTransit(t, Tail(Flight(t)))
            /\ \A k \in 1 .. Len(Tail(Flight(t))) :
                  Tail(Flight(t))[k].type = "Open" /\ Flight(t)[1].type = "Open"
                    => Tail(Flight(t))[k].id # Flight(t)[1].id
        BY Zenon, <3>3, <3>5, TransitTail
      <4>. QED  BY Zenon, <2>1, <3>1, <3>3, <3>10, <4>1
    <3>12. Untaken(t, q)'
      <4>1. \A j : AcceptTook(t, j)' => AcceptTook(t, j)  BY Zenon, <2>1 DEF AcceptTook
      <4>2. \A j : BrokerTook(t, j)' => j = i
        <5>1. broker'[t].id = i  BY <3>2
        <5>. QED  BY <5>1, Zenon DEF BrokerTook
      <4>. QED  BY Zenon, <3>11, <4>1, <4>2 DEF InTransit, Untaken
    <3>13. InTransit(t, Flight(t))'  BY Zenon, <3>10, <3>11, <3>12, TransitKept, NewFlight
    <3>14. SideInv(t)'  BY Zenon, <1>t, <2>1, <3>9, <3>13
    <3>15. ASSUME NEW s \in Sides, s # t PROVE SideInv(s)'
      <4>1. hand'[s] = hand[s] /\ Flight(s)' = Flight(s)  BY Zenon, <1>t, <2>1, <3>15 DEF Flight
      <4>2. broker'[s] = broker[s]  BY <1>t, <2>3, <3>15
      <4>. QED  BY Zenon, <2>1, <3>15, <4>1, <4>2, SideQuiet
    <3>. QED  BY <3>14, <3>15 DEF FlightInv
  <2>4. UNCHANGED broker \/ \E c \in opens : /\ c.side = t
           /\ broker' = [broker EXCEPT ![t] = [at |-> "opened", id |-> hand[t][1].id, call |-> c]]
    <3> DEFINE waiting == {c \in opens : c.side = t /\ c.protocol = OpenProtocol(hand[t][1])}
    <3>1. waiting # {} => (CHOOSE c \in waiting : TRUE) \in waiting  BY Zenon
    <3>2. UNCHANGED broker \/ (waiting # {} /\ broker' = [broker EXCEPT ![t] =
              [at |-> "opened", id |-> hand[t][1].id, call |-> CHOOSE c \in waiting : TRUE]])
      BY Zenon, <1>4 DEF BrokerOpen
    <3>. QED  BY Zenon, <3>1, <3>2
  <2>. QED  BY Zenon, <2>2, <2>3, <2>4
<1>5. CASE BrokerOpened(t)
  <2>1. PICK c \in Calls, i \in Nat : c = broker[t].call /\ i = broker[t].id
    BY Zenon, <1>5, <1>t, BrokerTypes DEF BrokerOpened
  <2>2. /\ UNCHANGED <<hand, net, done>> /\ id' = [id EXCEPT ![c] = i]
        /\ broker' = [broker EXCEPT ![t] = Selecting] /\ broker[t].at = "opened"
    BY Zenon, <1>5, <2>1 DEF BrokerOpened
  <2>3. c.op = "accept" /\ c.side = t /\ BrokerTook(t, i)
    BY Zenon, <2>1, <2>2 DEF FlightInv, BrokerInv, BrokerTook
  <2>4. ASSUME NEW s \in Sides PROVE SideInv(s)'
    <3>1. broker'[s] = broker[s] \/ (s = t /\ broker'[s] = Selecting)  BY <1>t, <2>2
    <3>2. \A j : AcceptTook(s, j)' => AcceptTook(s, j) \/ (s = t /\ j = i)
      BY <1>t, <2>2, <2>3 DEF AcceptTook
    <3>3. \A j : BrokerTook(s, j)' => BrokerTook(s, j) /\ s # t
      BY <1>t, <2>2, <3>1 DEF BrokerTook, Selecting
    <3>4. PICK q : q = Flight(s) /\ q = Flight(s)'  BY Zenon, <2>2 DEF Flight
    <3>5. InTransit(s, q)  BY Zenon, <3>4 DEF FlightInv
    <3>6. Untaken(s, q)'  BY Zenon, <2>3, <3>2, <3>3, <3>5 DEF InTransit, Untaken
    <3>7. InTransit(s, Flight(s))'  BY <3>4, <3>5, <3>6, TransitKept, NewFlight
    <3>8. (Len(hand[s]) \in {0, 1})'  BY <2>2 DEF FlightInv
    <3>9. BrokerInv(s)'
      <4>1. CASE s = t  BY <1>t, <2>2, <4>1, Zenon DEF BrokerInv, Selecting
      <4>2. CASE s # t
        <5>1. broker'[s] = broker[s] /\ BrokerInv(s)  BY Zenon, <3>1, <4>2 DEF FlightInv
        <5>2. PICK j : j = broker[s].id /\ j = broker'[s].id  BY <5>1
        <5>3. ASSUME broker'[s].at = "opened" PROVE OpenSent(s, j)' /\ ~AcceptTook(s, j)'
          BY Zenon, <3>2, <4>2, <5>1, <5>2, <5>3, Kept DEF BrokerInv
        <5>4. broker'[s].at = "opened" =>
                 OpenSent(s, broker[s].id)' /\ ~AcceptTook(s, broker[s].id)'
          BY <5>2, <5>3 DEF OpenSent, AcceptTook
        <5>. QED  BY Zenon, <2>2, <5>1, <5>4 DEF BrokerInv
      <4>. QED  BY <4>1, <4>2
    <3>. QED  BY <3>7, <3>8, <3>9
  <2>. QED  BY <2>4 DEF FlightInv
<1>. QED  BY <1>1, <1>2, <1>3, <1>4, <1>5 DEF BrokerStep

-----------------------------------------------------------------------------
(* The broker's maps                                                       *)

\* The steps of OpenChannel and AcceptChannel keep what the maps say.
LEMMA CallMaps ==
    ASSUME TypeOK, MapInv, Keeps, NEW c \in Calls, CallStep(c)
    PROVE  MapInv'
<1>t. /\ c.op \in {"open", "accept"} /\ call \in [Calls -> CallStates]
      /\ channels \subseteq Calls /\ accepts \subseteq Calls /\ opens \subseteq Calls
      /\ (\A d \in accepts : d.op = "open") /\ (\A d \in opens : d.op = "accept")
  BY CallsAssumption DEF TypeOK
<1>k. \A s, j : AcceptSent(s, j) => AcceptSent(s, j)'  BY Kept
<1>1. CASE Start(c)
  <2>1. /\ call[c] = "idle" /\ call' = [call EXCEPT ![c] = "register"]
        /\ UNCHANGED <<channels, accepts, opens, done>>
    BY <1>1 DEF Start, Go, mapVars
  <2>2. \A d \in Calls : d # c => call'[d] = call[d]  BY <1>t, <2>1
  <2>3. call'[c] = "register"  BY <1>t, <2>1
  <2>4. \A d \in Calls : d.op = "open" /\ call[d] # "idle" => id'[d] = id[d]
    BY <1>1, <2>1 DEF Start, TypeOK
  <2>5. \A d \in channels \cup accepts \cup opens : d # c  BY Zenon, <2>1 DEF MapInv
  <2>6. /\ \A d \in channels' : call'[d] = "ok"
        /\ \A d \in accepts' : call'[d] \in {"write", "wait", "ErrClosed", "failed"}
        /\ \A d \in opens' : call'[d] \in {"wait", "ErrClosed"}
    BY Zenon, <1>t, <2>1, <2>2, <2>5 DEF MapInv
  <2>7. \A d \in Calls : call'[d] = "ErrClosed" => done'[d.side]
    BY Zenon, <2>1, <2>2, <2>3 DEF MapInv
  <2>8. ASSUME NEW d \in Calls, NEW e \in Calls, SameOp(d, e), d.op = "accept",
               d.protocol = e.protocol
        PROVE  ~InProgress(d)' \/ ~InProgress(e)'
    <3>1. MayStart(c)  BY Zenon, <1>1 DEF Start
    <3>2. ~InProgress(d) \/ ~InProgress(e)  BY Zenon, <2>8 DEF MapInv
    <3>3. CASE d # c /\ e # c  BY <2>2, <3>2, <3>3 DEF InProgress
    <3>4. CASE d = c
      <4>1. ~InProgress(e)  BY Zenon, <2>8, <3>1, <3>4 DEF MayStart, SameOp
      <4>. QED  BY <2>2, <2>8, <3>4, <4>1 DEF InProgress, SameOp
    <3>5. CASE e = c
      <4>1. ~InProgress(d)  BY Zenon, <2>8, <3>1, <3>5 DEF MayStart, SameOp
      <4>. QED  BY <2>2, <2>8, <3>5, <4>1 DEF InProgress, SameOp
    <3>. QED  BY <3>3, <3>4, <3>5
  <2>9. ASSUME NEW d \in Calls, d.op = "open", call'[d] \in {"write", "wait", "attach", "ok"}
        PROVE  d \in accepts' \/ AcceptSent(d.side, id[d])'
    <3>1. d # c /\ call[d] = call'[d] /\ id'[d] = id[d]  BY <2>2, <2>3, <2>4, <2>9
    <3>2. d \in accepts \/ AcceptSent(d.side, id[d])  BY Zenon, <2>9, <3>1 DEF MapInv
    <3>3. PICK j : j = id[d] /\ j = id'[d]  BY Zenon, <3>1
    <3>4. d \in accepts \/ AcceptSent(d.side, j)'  BY <1>k, <3>2, <3>3, Zenon
    <3>5. AcceptSent(d.side, j)' => AcceptSent(d.side, id[d])'  BY <3>3, Zenon DEF AcceptSent
    <3>. QED  BY <2>1, <3>4, <3>5
  <2>. QED  BY Zenon, <2>6, <2>7, <2>8, <2>9 DEF MapInv, SameOp
<1>2. CASE ~Start(c)
  <2>0. \/ RegisterOpen(c) \/ RegisterAccept(c) \/ WriteHandshake(c)
        \/ GiveUp(c) \/ SeeAccepted(c) \/ Attach(c)
    BY <1>2 DEF CallStep
  <2>1. UNCHANGED <<id, done>> /\ (UNCHANGED call \/ Moves(c))  BY <2>0, CallMoves
  <2>2. \A d \in Calls : d # c => call'[d] = call[d]  BY Zenon, <1>t, <2>1 DEF Moves, Go
  <2>3. \A d \in Calls : InProgress(d)' => InProgress(d)
    <3>1. InProgress(c)' => InProgress(c)  BY <1>t, <2>1, Zenon DEF Moves, Go, InProgress
    <3>. QED  BY <2>2, <3>1, Zenon DEF InProgress
  <2>4. \A d \in Calls : call'[d] = "ErrClosed" => done'[d.side]
    <3>1. call'[c] = "ErrClosed" => done[c.side]  BY Zenon, <1>t, <2>1 DEF Moves, Go, MapInv
    <3>. QED  BY Zenon, <2>1, <2>2, <3>1 DEF MapInv
  <2>5. \A d \in channels' : call'[d] = "ok"
    <3>1. channels' = channels \/ (channels' = channels \cup {c} /\ Go(c, "ok"))
      BY Zenon, <2>0 DEF RegisterOpen, RegisterAccept, WriteHandshake, GiveUp, SeeAccepted, Attach,
                  mapVars
    <3>2. call[c] = "ok" => call'[c] = "ok"  BY Zenon, <1>t, <2>1 DEF Moves
    <3>3. Go(c, "ok") => call'[c] = "ok"  BY <1>t DEF Go
    <3>4. \A d \in channels : call[d] = "ok" /\ (d # c => call'[d] = "ok")
      BY Zenon, <1>t, <2>2 DEF MapInv
    <3>5. c \in channels' => call'[c] = "ok"  BY Zenon, <3>1, <3>2, <3>3, <3>4
    <3>6. \A d \in channels' : d = c \/ d \in channels  BY Zenon, <3>1
    <3>. QED  BY Zenon, <3>4, <3>5, <3>6
  <2>6. \A d \in accepts' : call'[d] \in {"write", "wait", "ErrClosed", "failed"}
    <3>1. accepts' = accepts \/ (accepts' = accepts \cup {c} /\ Go(c, "write"))
      BY Zenon, <2>0 DEF RegisterOpen, RegisterAccept, WriteHandshake, GiveUp, SeeAccepted, Attach,
                  mapVars
    <3>2. c \in accepts => call'[c] \in {"write", "wait", "ErrClosed", "failed"}
      BY Zenon, <1>t, <2>1 DEF Moves, Go, MapInv
    <3>3. Go(c, "write") => call'[c] = "write"  BY <1>t DEF Go
    <3>4. \A d \in accepts :
             /\ call[d] \in {"write", "wait", "ErrClosed", "failed"}
             /\ d # c => call'[d] \in {"write", "wait", "ErrClosed", "failed"}
      BY Zenon, <1>t, <2>2 DEF MapInv
    <3>5. c \in accepts' => call'[c] \in {"write", "wait", "ErrClosed", "failed"}
      BY Zenon, <3>1, <3>2, <3>3, <3>4
    <3>6. \A d \in accepts' : d = c \/ d \in accepts  BY Zenon, <3>1
    <3>. QED  BY Zenon, <3>4, <3>5, <3>6
  <2>7. \A d \in opens' : call'[d] \in {"wait", "ErrClosed"}
    <3>1. opens' = opens \/ (opens' = opens \cup {c} /\ Go(c, "wait"))
      BY Zenon, <2>0 DEF RegisterOpen, RegisterAccept, WriteHandshake, GiveUp, SeeAccepted, Attach,
                  mapVars
    <3>2. c.op = "accept" /\ call[c] \in {"wait", "ErrClosed"} => call'[c] \in {"wait", "ErrClosed"}
      BY <1>t, <2>1, Zenon DEF Moves, Go
    <3>3. Go(c, "wait") => call'[c] = "wait"  BY <1>t DEF Go
    <3>4. \A d \in opens : /\ call[d] \in {"wait", "ErrClosed"}
                           /\ d # c => call'[d] \in {"wait", "ErrClosed"}
      BY Zenon, <1>t, <2>2 DEF MapInv
    <3>5. c \in opens' => call'[c] \in {"wait", "ErrClosed"}  BY Zenon, <1>t, <3>1, <3>2, <3>3, <3>4
    <3>6. \A d \in opens' : d = c \/ d \in opens  BY Zenon, <3>1
    <3>. QED  BY Zenon, <3>4, <3>5, <3>6
  <2>8. ASSUME NEW d \in Calls, d.op = "open", call'[d] \in {"write", "wait", "attach", "ok"}
        PROVE  d \in accepts' \/ AcceptSent(d.side, id[d])'
    <3>1. accepts \subseteq accepts'
      BY Zenon, <2>0 DEF RegisterOpen, RegisterAccept, WriteHandshake, GiveUp, SeeAccepted, Attach,
                  mapVars
    <3>2. CASE call[d] \in {"write", "wait", "attach", "ok"}
      <4>1. d \in accepts \/ AcceptSent(d.side, id[d])  BY Zenon, <2>8, <3>2 DEF MapInv
      <4>2. PICK j : j = id[d] /\ j = id'[d]  BY <2>1
      <4>3. d \in accepts \/ AcceptSent(d.side, j)'  BY <1>k, <4>1, <4>2, Zenon
      <4>4. AcceptSent(d.side, j)' => AcceptSent(d.side, id[d])'  BY <4>2 DEF AcceptSent
      <4>. QED  BY <3>1, <4>3, <4>4
    <3>3. CASE call[d] \notin {"write", "wait", "attach", "ok"}
      <4>1. d = c /\ call[c] = "register"  BY Zenon, <1>t, <2>1, <2>2, <2>8, <3>3 DEF Moves, Go
      <4>2. RegisterOpen(c) /\ call'[c] # call[c]
        BY Zenon, <2>0, <2>8, <4>1
           DEF RegisterOpen, RegisterAccept, WriteHandshake, GiveUp, SeeAccepted, Attach
      <4>3. UNCHANGED call \/ accepts' = accepts \cup {c}  BY Zenon, <4>2 DEF RegisterOpen
      <4>. QED  BY <4>1, <4>2, <4>3, Zenon
    <3>. QED  BY Zenon, <3>2, <3>3
  <2>9. \A d, e \in Calls : SameOp(d, e) /\ d.op = "accept" /\ d.protocol = e.protocol
            => ~InProgress(d)' \/ ~InProgress(e)'
    BY Zenon, <2>3 DEF MapInv
  <2>. QED  BY Zenon, <2>4, <2>5, <2>6, <2>7, <2>8, <2>9 DEF MapInv, SameOp
<1>. QED  BY <1>1, <1>2

\* So do the broker's, in which an accepting call leaves opens as it gets an
\* ID and an opening one leaves accepts when an Accept came.
LEMMA OtherMaps ==
    ASSUME TypeOK, FlightInv, MapInv, Keeps, [Next]_vars, ~\E c \in Calls : CallStep(c)
    PROVE  MapInv'
<1> USE DEF callVars, mapVars, channelVars
<1>k. \A s, j : AcceptSent(s, j) => AcceptSent(s, j)'  BY Kept
<1>t. /\ call \in [Calls -> CallStates] /\ id \in [Calls -> Nat]
      /\ broker \in [Sides -> BrokerStates] /\ done \in [Sides -> BOOLEAN]
      /\ channels \subseteq Calls /\ accepts \subseteq Calls /\ opens \subseteq Calls
      /\ (\A d \in accepts : d.op = "open") /\ (\A d \in opens : d.op = "accept")
  BY Zenon DEF TypeOK
<1>1. ASSUME UNCHANGED <<callVars, mapVars>>, \A s \in Sides : done[s] => done'[s]
      PROVE  MapInv'
  <2>1. \A d \in Calls : d.side \in Sides  BY CallsAssumption
  <2>2. \A d \in Calls : d.op = "open" /\ call[d] \in {"write", "wait", "attach", "ok"}
           => d \in accepts \/ AcceptSent(d.side, id[d])'
    BY Zenon, <1>1 DEF MapInv, AcceptSent
  <2>3. \A d, e \in Calls : SameOp(d, e) /\ d.op = "accept" /\ d.protocol = e.protocol
            => ~InProgress(d)' \/ ~InProgress(e)'
    BY <1>1, Zenon DEF MapInv, InProgress
  <2>4. \A d \in Calls : call'[d] = "ErrClosed" => done'[d.side]
    BY Zenon, <1>1, <2>1 DEF MapInv
  <2>. QED  BY Zenon, <1>1, <2>2, <2>3, <2>4 DEF MapInv, SameOp
<1>2. ASSUME NEW s \in Sides, BrokerAccept(s) PROVE MapInv'
  <2>1. UNCHANGED <<callVars, opens, channels, done>> /\ accepts' \subseteq accepts
    <3>1. /\ UNCHANGED <<callVars, opens, channels, done>>
          /\ accepts' = accepts \/ \E W : accepts' = accepts \ W
      BY Zenon, <1>2 DEF BrokerAccept, Takes
    <3>. QED  BY Zenon, <3>1
  <2>2. ASSUME NEW d \in Calls, d.op = "open", call'[d] \in {"write", "wait", "attach", "ok"}
        PROVE  d \in accepts' \/ AcceptSent(d.side, id[d])'
    <3>1. d \in accepts \/ AcceptSent(d.side, id[d])  BY Zenon, <2>1, <2>2 DEF MapInv
    <3>2. CASE AcceptSent(d.side, id[d])  BY <2>1, <3>2, Zenon DEF AcceptSent
    <3>3. CASE d \in accepts /\ d \notin accepts'
      <4>1. d.side = s /\ id[d] = hand[s][1].id  BY <1>2, <3>3, Zenon DEF BrokerAccept, WaitingFor
      <4>2. hand[s] # <<>> /\ hand[s][1].type = "Accept"  BY Zenon, <1>2 DEF BrokerAccept, Takes
      <4>3. Flight(s) \in Seq(Messages) /\ Flight(s) # <<>> /\ Flight(s)[1] = hand[s][1]
        BY Zenon, <4>2, FlightOfTake DEF FlightInv
      <4>4. 1 \in 1 .. Len(Flight(s))  BY <4>3, TakenFirst, Zenon
      <4>5. AcceptSent(s, hand[s][1].id)
        BY Zenon, <4>2, <4>3, <4>4 DEF FlightInv, InTransit, Written
      <4>. QED  BY <2>1, <4>1, <4>5, Zenon DEF AcceptSent
    <3>. QED  BY <3>1, <3>2, <3>3, Zenon
  <2>3. \A d, e \in Calls : SameOp(d, e) /\ d.op = "accept" /\ d.protocol = e.protocol
            => ~InProgress(d)' \/ ~InProgress(e)'
    BY <2>1, Zenon DEF MapInv, InProgress
  <2>. QED  BY Zenon, <2>1, <2>2, <2>3 DEF MapInv, SameOp
<1>3. ASSUME NEW s \in Sides, BrokerOpened(s) PROVE MapInv'
  <2>1. PICK c \in Calls : c = broker[s].call
    BY Zenon, <1>3, <1>t, BrokerTypes DEF BrokerOpened
  <2>2. /\ UNCHANGED <<accepts, channels, done>> /\ opens' = opens \ {c}
        /\ call[c] = "wait" /\ call' = [call EXCEPT ![c] = "write"]
        /\ \A d \in Calls : d # c => id'[d] = id[d]
    BY Zenon, <1>3, <1>t, <2>1 DEF BrokerOpened, Go, OpensWithout
  <2>3. c.op = "accept"  BY Zenon, <1>3, <2>1 DEF BrokerOpened, FlightInv, BrokerInv
  <2>4. \A d \in Calls : d # c => call'[d] = call[d]  BY <1>t, <2>2, Zenon
  <2>5. call'[c] = "write"  BY <1>t, <2>2, Zenon
  <2>6. \A d \in Calls : InProgress(d)' => InProgress(d)
    BY <2>2, <2>4, Zenon DEF InProgress
  <2>7. \A d \in Calls : d.op = "open" /\ call'[d] \in {"write", "wait", "attach", "ok"}
           => d \in accepts' \/ AcceptSent(d.side, id[d])'
    <3> SUFFICES ASSUME NEW d \in Calls, d.op = "open",
                        call'[d] \in {"write", "wait", "attach", "ok"}
                 PROVE  d \in accepts' \/ AcceptSent(d.side, id[d])'
      OBVIOUS
    <3>1. d # c /\ call[d] = call'[d] /\ id'[d] = id[d]  BY Zenon, <2>2, <2>3, <2>4
    <3>2. d \in accepts \/ AcceptSent(d.side, id[d])  BY Zenon, <3>1 DEF MapInv
    <3>3. PICK j : j = id[d] /\ j = id'[d]  BY <3>1
    <3>4. d \in accepts \/ AcceptSent(d.side, j)'  BY <1>k, <3>2, <3>3, Zenon
    <3>5. AcceptSent(d.side, j)' => AcceptSent(d.side, id[d])'  BY <3>3 DEF AcceptSent
    <3>. QED  BY <2>2, <3>4, <3>5, Zenon
  <2>8. \A d, e \in Calls : SameOp(d, e) /\ d.op = "accept" /\ d.protocol = e.protocol
            => ~InProgress(d)' \/ ~InProgress(e)'
    BY Zenon, <2>6 DEF MapInv
  <2>9. /\ \A d \in channels' : call'[d] = "ok"
        /\ \A d \in accepts' : call'[d] \in {"write", "wait", "ErrClosed", "failed"}
        /\ \A d \in opens' : call'[d] \in {"wait", "ErrClosed"}
        /\ \A d \in Calls : call'[d] = "ErrClosed" => done'[d.side]
    BY Zenon, <1>t, <2>2, <2>4, <2>5 DEF MapInv
  <2>. QED  BY Zenon, <2>7, <2>8, <2>9 DEF MapInv, SameOp
<1>4. \A c \in Calls : Write(c) \/ Read(c) \/ ChannelClose(c) \/ HandlerDone(c)
         => UNCHANGED <<callVars, mapVars, done>>
  BY Zenon DEF Write, Read, ChannelClose, HandlerDone
<1>5. ASSUME NEW s \in Sides,
             \/ BrokerOpen(s) \/ BrokerData(s) \/ BrokerDeliver(s) \/ BrokerDone(s)
             \/ ReadHandler(s) \/ ReadHandlerPanic(s) \/ SessionClose(s) \/ SessionCloseConn(s)
      PROVE  UNCHANGED <<callVars, mapVars>> /\ \A r \in Sides : done[r] => done'[r]
  <2>1. UNCHANGED <<callVars, mapVars>>
    BY Zenon, <1>5 DEF BrokerOpen, BrokerData, BrokerDeliver, BrokerDone, ReadHandler,
                ReadHandlerPanic, SessionClose, SessionCloseConn, Takes
  <2>2. UNCHANGED done \/ done' = [done EXCEPT ![s] = TRUE]
    BY Zenon, <1>5 DEF BrokerOpen, BrokerData, BrokerDeliver, BrokerDone, ReadHandler,
                ReadHandlerPanic, SessionClose, SessionCloseConn, Takes
  <2>. QED  BY <1>t, <2>1, <2>2
<1>6. UNCHANGED vars => UNCHANGED <<callVars, mapVars, done>>  BY DEF vars
<1>. QED  BY <1>1, <1>2, <1>3, <1>4, <1>5, <1>6, Zenon DEF Next, BrokerStep

-----------------------------------------------------------------------------
(* Theorems                                                                *)

\* IDs, messages on their way and the broker's maps agree at all times: the
\* inductive invariant of the channel handshake.
THEOREM Handshakes == Spec => []SessionInv
<1>1. Init => SessionInv
  <2> SUFFICES ASSUME Init PROVE SessionInv  OBVIOUS
  <2>1. \A s \in Sides : OwnId(s, nextId[s])
    <3>1. \A s \in Sides : nextId[s] = FirstId(s) /\ FirstId(s) \in {1, 2}
      BY DEF Init, FirstId
    <3>2. \A s \in Sides : 0 \in 0 .. nextId[s] /\ nextId[s] = FirstId(s) + 2 * 0  BY <3>1
    <3>. QED  BY <3>2 DEF OwnId
  <2>2. IdInv  BY <2>1 DEF Init, IdInv, OpenIdInv, AcceptIdInv
  <2>3. MapInv
    <3>1. \A c \in Calls : call[c] = "idle"  BY DEF Init
    <3>. QED  BY <3>1 DEF Init, MapInv, InProgress
  <2>4. FlightInv
    <3> SUFFICES ASSUME NEW s \in Sides
                 PROVE  Len(hand[s]) \in {0, 1} /\ BrokerInv(s) /\ InTransit(s, Flight(s))
      BY DEF FlightInv
    <3>1. hand[s] = <<>> /\ net[s] = <<>> /\ broker[s].at = "select"
      BY DEF Init, Selecting
    <3>2. Flight(s) = <<>>
      <4>1. <<>> \in Seq(Messages)  OBVIOUS
      <4>. QED  BY <3>1, <4>1, JoinedToNothing, Zenon DEF Flight
    <3>3. InTransit(s, Flight(s))
      <4>1. 1 .. Len(Flight(s)) = {}  BY <3>2
      <4>. QED  BY Zenon, <4>1 DEF InTransit, Written, Once, Untaken
    <3>. QED  BY <3>1, <3>3, Zenon DEF BrokerInv
  <2>. QED  BY <2>2, <2>3, <2>4 DEF SessionInv
<1>2. TypeOK /\ SessionInv /\ [Next]_vars => SessionInv'
  <2> SUFFICES ASSUME TypeOK, IdInv, FlightInv, MapInv, [Next]_vars
               PROVE  IdInv' /\ FlightInv' /\ MapInv'
    BY DEF SessionInv
  <2>1. Keeps  BY Keeping
  <2>2. IdInv'  BY IdSteps
  <2>3. FlightInv'
    <3>1. CASE UNCHANGED vars
      BY <2>1, <3>1, QuietSteps, Zenon DEF vars, callVars, mapVars, channelVars
    <3>. QED  BY <2>1, <3>1, CallFlight, ChannelFlight, SideFlight DEF Next
  <2>4. MapInv'  BY <2>1, CallMaps, OtherMaps
  <2>. QED  BY <2>2, <2>3, <2>4
<1>. QED  BY <1>1, <1>2, WellTyped, PTL DEF Spec

\* Channel IDs never collide (NewChannelFactory gives the two sides disjoint
\* IDs, and an Open is taken by at most one AcceptChannel), for any number of
\* calls on either side.
THEOREM IdsNeverCollide == Spec => []IdsUnique
<1>1. TypeOK /\ SessionInv => IdsUnique  BY Unique DEF SessionInv
<1>. QED  BY <1>1, WellTyped, Handshakes, PTL

\* When OpenChannel returns a Channel, an AcceptChannel of the peer has the
\* same ID and has written its Accept.
THEOREM OpenedIsAccepted == Spec => []OpenMeansAccepted
<1>1. TypeOK /\ SessionInv => OpenMeansAccepted
  <2> SUFFICES ASSUME TypeOK, IdInv, MapInv, FlightInv, NEW c \in Calls, c.op = "open",
                      call[c] \in {"attach", "ok"}
               PROVE  \E d \in Calls : /\ d.op = "accept" /\ Linked(c, d)
                                       /\ call[d] \in {"attach", "ok"}
    BY DEF SessionInv, OpenMeansAccepted
  <2>1. c \notin accepts /\ c.side \in Sides /\ Peer(c.side) # c.side
    BY Zenon, CallsAssumption DEF MapInv, Peer, Sides
  <2>2. PICK d \in Calls : /\ d.op = "accept" /\ d.side = Peer(c.side) /\ id[d] = id[c]
                           /\ call[d] \in {"attach", "ok"}
    <3>1. AcceptSent(c.side, id[c])  BY Zenon, <2>1 DEF MapInv
    <3>. QED  BY Zenon, <3>1 DEF AcceptSent
  <2>3. id[c] # 0
    <3>1. OpenIdInv(c) /\ id[c] \in Nat  BY DEF IdInv, TypeOK
    <3>2. OwnId(c.side, id[c])  BY <3>1, Zenon DEF OpenIdInv
    <3>. QED  BY <2>1, <3>1, <3>2, OwnIds, Zenon
  <2>. QED  BY <2>1, <2>2, <2>3 DEF Linked
<1>. QED  BY <1>1, WellTyped, Handshakes, PTL

\* None of the broker's assertions fails before Session.Close.
THEOREM AssertionsHold == Spec => []BrokerNeverPanics
<1>1. TypeOK /\ SessionInv => BrokerNeverPanics
  BY Zenon DEF SessionInv, FlightInv, BrokerInv, BrokerNeverPanics
<1>. QED  BY <1>1, WellTyped, Handshakes, PTL
=============================================================================
