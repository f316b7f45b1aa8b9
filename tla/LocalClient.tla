----------------------------- MODULE LocalClient -----------------------------
(***************************************************************************)
(* local.Client on two devices: a requester whose Connect calls broadcast  *)
(* a request, and a responder whose Accept calls read requests from their  *)
(* beacon, dial the requester back and run the handshake on that           *)
(* connection: Response, Hello, Result.                                    *)
(*                                                                         *)
(* A request carries the id that its Connect call took from the client's   *)
(* counter, and the call's ephemeral key, which stands for the call here.  *)
(* `conn` is the sequence of connections the responder dialled, each with  *)
(* the request it answers, the Accept call that dialled it, who holds its  *)
(* two ends, the last message written on it, and the call whose handler    *)
(* the requester gave it to.  Both ends run a listener goroutine per call  *)
(* (`worker`, `acceptor`) that handles one connection at a time; a         *)
(* connection reaches it through the call's Processor (listener.go), a     *)
(* rendezvous that fails once the call's context is done.                  *)
(***************************************************************************)
EXTENDS Broadcast, Sequences, FiniteSets

CONSTANTS Calls,      \* Connect calls, which run at the same time
          Accepts,    \* Accept calls: 1 .. n, one after the other
          Buffer,     \* capacity of listenRequests' packets channel
          MayCancel,  \* the Connect calls whose context may be done
          Worlds,     \* the circumstances, one of which a behaviour has
          MaxEnded    \* how many endings a behaviour may have

\* What may end from outside: a device is closed, a context is done, reading
\* the socket fails.
Endings == {"requester", "responder", "context", "socket"}

ASSUME LocalAssumption ==
    /\ Calls = Datagrams /\ Accepts = Readers /\ Buffer \in Nat \ {0}
    /\ MayCancel \subseteq Calls /\ MaxEnded \in Nat
    /\ Worlds \subseteq [trusted : BOOLEAN, networks : [Calls -> Nat],
                        endings : SUBSET Endings]

VARIABLES
    trusted,    \* whether the responder trusts the requester
    networks,   \* on how many networks each Connect broadcasts; 0: not made
    endings,    \* what may end
    ended,      \* what has ended
    trouble,    \* a deadline passed, a context ended or a dial failed
    \* The requester.
    counter,    \* requestId: the id given out last
    rid,        \* the request id of each Connect call, 0 before it has one
    call,       \* where each Connect call is
    cancelled,  \* the Connect calls whose context is done
    worker,     \* where the goroutine of each Connect call is
    removers,   \* the calls whose remover goroutine is alive
    handlers,   \* the calls whose handler responseBroker has, under their ids
    \* The responder.
    accept,     \* where each Accept call is
    packets,    \* the packets channel of each Accept call
    dispatcher, \* where its broadcast goroutine is
    acceptor,   \* where its handling goroutine is
    conn        \* the connections dialled so far

fixedVars     == <<trusted, networks, endings>>
worldVars     == <<fixedVars, ended, trouble>>
idVars        == <<counter, rid>>
requesterVars == <<idVars, call, cancelled, worker, removers, handlers>>
responderVars == <<accept, packets, dispatcher, acceptor>>
vars == <<worldVars, requesterVars, responderVars, conn, beaconVars>>

Conns == 1 .. Len(conn)

\* The handler of a connection that responseBroker has not routed.
Nobody == 0

\* The ends of a connection that nobody will use.
Released == {"closed", "dropped"}

\* NewClient and Listen on both devices.
Init ==
    /\ BeaconInit
    /\ \E world \in Worlds : /\ trusted = world.trusted /\ networks = world.networks
                            /\ endings = world.endings
    /\ ended = {} /\ trouble = FALSE
    /\ counter = 0 /\ rid = [k \in Calls |-> 0]
    /\ call = [k \in Calls |-> "idle"] /\ worker = [k \in Calls |-> "off"]
    /\ cancelled = {} /\ removers = {} /\ handlers = {}
    /\ accept = [a \in Accepts |-> "idle"] /\ packets = [a \in Accepts |-> <<>>]
    /\ dispatcher = [a \in Accepts |-> "off"] /\ acceptor = [a \in Accepts |-> "off"]
    /\ conn = <<>>

-----------------------------------------------------------------------------
(* The requester: Connect                                                  *)

\* nextRequestId adds 1 to the counter and returns the sum, in one step.
LostUpdate(k) ==
    counter' \in {counter, counter + 1} /\ rid' = [rid EXCEPT ![k] = counter + 1]
NextRequestId(k) ==
    counter' = counter + 1 /\ rid' = [rid EXCEPT ![k] = counter + 1]

\* Connect takes the next request id.
Connect(k) ==
    /\ call[k] = "idle" /\ networks[k] > 0
    /\ NextRequestId(k)
    /\ call' = [call EXCEPT ![k] = "register"]
    /\ UNCHANGED <<worldVars, responderVars, conn, beaconVars, cancelled, worker,
                   removers, handlers>>

\* handlers[id]: whose handler responseBroker has under an id.
HandlersFor(id) == {h \in handlers : rid[h] = id}

\* request registers the call's handler with responseBroker, which panics
\* when the id is taken, and starts the goroutine that removes it.  Neither
\* the context nor done is watched.
RegisterHandler(k) ==
    /\ call[k] = "register"
    /\ IF HandlersFor(rid[k]) # {}
         THEN /\ call' = [call EXCEPT ![k] = "panic"]
              /\ UNCHANGED <<handlers, removers>>
         ELSE /\ call' = [call EXCEPT ![k] = "broadcast"]
              /\ handlers' = handlers \cup {k} /\ removers' = removers \cup {k}
    /\ UNCHANGED <<worldVars, responderVars, conn, beaconVars, idVars, cancelled,
                   worker>>

\* request hands the packet to outgoingBroadcastHandler, which writes it on
\* every broadcast network; Connect starts its worker.
SendBroadcast(k) ==
    /\ call[k] = "broadcast"
    /\ call' = [call EXCEPT ![k] = "select"]
    /\ worker' = [worker EXCEPT ![k] = "accept"]
    /\ Write(k, networks[k])
    /\ UNCHANGED <<worldVars, responderVars, conn, read, reads, beacon, idVars,
                   cancelled, removers, handlers>>

\* The deferred cancel of a Connect that returns.
ReturnsOnly(k) ==
    call' = [call EXCEPT ![k] = "returned"] /\ UNCHANGED cancelled
Returns(k) ==
    /\ call' = [call EXCEPT ![k] = "returned"]
    /\ cancelled' = cancelled \cup {k}

\* Connect's select: its context or the client is done.
ConnectFails(k) ==
    /\ call[k] = "select" /\ (k \in cancelled \/ "requester" \in ended)
    /\ Returns(k)
    /\ UNCHANGED <<worldVars, responderVars, conn, beaconVars, idVars, worker,
                   removers, handlers>>

\* The remover goroutine, received by responseBroker, which deletes what it
\* has under the id.
RemoveHandler(k) ==
    /\ k \in removers /\ k \in cancelled
    /\ handlers' = handlers \ HandlersFor(rid[k]) /\ removers' = removers \ {k}
    /\ UNCHANGED <<worldVars, responderVars, conn, beaconVars, idVars, call,
                   cancelled, worker>>

-----------------------------------------------------------------------------
(* The requester: incoming connections                                     *)

\* incomingUnicastHandler accepts a connection and starts to read it.
AcceptConn(c) ==
    /\ conn[c].requester = "backlog" /\ "requester" \notin ended
    /\ conn' = [conn EXCEPT ![c].requester = "reading"]
    /\ UNCHANGED <<worldVars, requesterVars, responderVars, beaconVars>>

\* It reads the header and the Response the responder wrote, or the end of
\* the connection, on which it closes it.
ReadResponse(c) ==
    /\ conn[c].requester = "reading"
    /\ \/ /\ conn[c].wrote = "Response"
          /\ conn' = [conn EXCEPT ![c].requester = "sending"]
       \/ /\ conn[c].wrote = "Header" /\ conn[c].responder \in Released
          /\ conn' = [conn EXCEPT ![c].requester = "closed"]
    /\ UNCHANGED <<worldVars, requesterVars, responderVars, beaconVars>>

\* responseBroker passes the connection to a goroutine that calls the
\* handler it has under the id in the Response; one for an unknown id is only
\* logged.
RouteResponse(c) ==
    /\ conn[c].requester = "sending"
    /\ LET found == HandlersFor(rid[conn[c].request])
       IN IF found = {}
            THEN conn' = [conn EXCEPT ![c].requester = "dropped"]
            ELSE \E h \in found :
                    conn' = [conn EXCEPT ![c].requester = "handling", ![c].handler = h]
    /\ UNCHANGED <<worldVars, requesterVars, responderVars, beaconVars>>

\* Handle returns false once the context is done; the goroutine of
\* responseBroker ignores its result.
HandleResponseFails(c) ==
    /\ conn[c].requester = "handling" /\ conn[c].handler \in cancelled
    /\ conn' = [conn EXCEPT ![c].requester = "unhandled"]
    /\ UNCHANGED <<worldVars, requesterVars, responderVars, beaconVars>>

-----------------------------------------------------------------------------
(* The requester: the worker of a Connect call                             *)

\* What handleResponse makes of a Result.
AnyGranted(result) == TRUE
Granted(result) == result = "Ok"

\* listener.Accept takes a response that is being handled; handleResponse
\* reads its handshake message, which fails under the ephemeral key of
\* another call, and writes Hello.
WorkerTakes(k) ==
    /\ worker[k] = "accept"
    /\ \E c \in Conns :
          /\ conn[c].requester = "handling" /\ conn[c].handler = k
          /\ IF conn[c].request = k
               THEN /\ conn' = [conn EXCEPT ![c].requester = "worker", ![c].wrote = "Hello"]
                    /\ worker' = [worker EXCEPT ![k] = "result"]
               ELSE /\ conn' = [conn EXCEPT ![c].requester = "closed"]
                    /\ UNCHANGED worker
    /\ UNCHANGED <<worldVars, responderVars, beaconVars, idVars, call, cancelled,
                   removers, handlers>>

\* listener.Accept fails: outErr and cancel.
WorkerStops(k) ==
    /\ worker[k] = "accept" /\ k \in cancelled
    /\ worker' = [worker EXCEPT ![k] = "gone"]
    /\ UNCHANGED <<worldVars, responderVars, conn, beaconVars, idVars, call, cancelled,
                   removers, handlers>>

\* The connection the worker of call k handles.
WorkersConn(k, c) == conn[c].requester = "worker" /\ conn[c].handler = k

\* handleResponse reads the Result.  Any but Ok is an error: the connection
\* is closed and the worker waits for another response.
WorkerReadsResult(k) ==
    /\ worker[k] = "result"
    /\ \E c \in Conns :
          /\ WorkersConn(k, c) /\ conn[c].wrote \in {"Ok", "Refused"}
          /\ IF Granted(conn[c].wrote)
               THEN /\ worker' = [worker EXCEPT ![k] = "offer"]
                    /\ UNCHANGED conn
               ELSE /\ worker' = [worker EXCEPT ![k] = "accept"]
                    /\ conn' = [conn EXCEPT ![c].requester = "closed"]
    /\ UNCHANGED <<worldVars, responderVars, beaconVars, idVars, call, cancelled,
                   removers, handlers>>

\* The Result does not come, because the responder closed the connection, or
\* not before the deadline.
WorkerFails(k) ==
    /\ worker[k] = "result"
    /\ \E c \in Conns :
          /\ WorkersConn(k, c)
          /\ conn' = [conn EXCEPT ![c].requester = "closed"]
          /\ trouble' = (trouble \/ conn[c].wrote # "Hello"
                               \/ conn[c].responder # "closed")
    /\ worker' = [worker EXCEPT ![k] = "accept"]
    /\ UNCHANGED <<fixedVars, ended, responderVars, beaconVars, idVars, call, cancelled,
                   removers, handlers>>

\* `out <- secConn`: Connect returns the connection.
ConnectReturns(k) ==
    /\ worker[k] = "offer" /\ call[k] = "select"
    /\ worker' = [worker EXCEPT ![k] = "gone"]
    /\ \E c \in Conns :
          WorkersConn(k, c) /\ conn' = [conn EXCEPT ![c].requester = "user"]
    /\ Returns(k)
    /\ UNCHANGED <<worldVars, responderVars, beaconVars, idVars, removers, handlers>>

\* `<-ctx.Done()`: nobody receives the connection any more.
WorkerCloses(k) ==
    /\ worker[k] = "offer" /\ k \in cancelled
    /\ worker' = [worker EXCEPT ![k] = "gone"]
    /\ \E c \in Conns :
          WorkersConn(k, c) /\ conn' = [conn EXCEPT ![c].requester = "closed"]
    /\ UNCHANGED <<worldVars, responderVars, beaconVars, idVars, call, cancelled,
                   removers, handlers>>

-----------------------------------------------------------------------------
(* The responder: Accept                                                   *)

\* The deferred cancel: an Accept call's context is done once it returned.
Done(a) == accept[a] = "returned"

\* Accept starts the three goroutines of listenRequests and of its own.
Accept(a) ==
    /\ accept[a] = "idle" /\ "responder" \notin ended
    /\ \A b \in Accepts : b < a => Done(b)
    /\ accept' = [accept EXCEPT ![a] = "select"]
    /\ read' = [read EXCEPT ![a] = Calling]
    /\ dispatcher' = [dispatcher EXCEPT ![a] = "select"]
    /\ acceptor' = [acceptor EXCEPT ![a] = "accept"]
    /\ UNCHANGED <<worldVars, requesterVars, packets, conn, air, reads, beacon>>

\* packet.Decode: an empty packet lacks the length.
AnyDecodes(data) == TRUE
Decodes(data) == data # Empty

\* The reader goroutine after Read returned a packet: it ends once the
\* context is done; what does not decode is skipped, a packet goes into the
\* packets channel.
ReaderHandles(a) ==
    /\ read[a].at = "got"
    /\ \/ /\ Done(a)
          /\ read' = [read EXCEPT ![a] = Off] /\ UNCHANGED packets
       \/ /\ ~Done(a) /\ ~Decodes(read[a].data)
          /\ read' = [read EXCEPT ![a] = Calling] /\ UNCHANGED packets
       \/ /\ ~Done(a) /\ Decodes(read[a].data) /\ Len(packets[a]) < Buffer
          /\ read' = [read EXCEPT ![a] = Calling]
          /\ packets' = [packets EXCEPT ![a] = Append(@, read[a].data)]
    /\ UNCHANGED <<worldVars, requesterVars, accept, dispatcher, acceptor, conn, air,
                   reads, beacon>>

\* A request older than RequestMaxAge is skipped, as is one whose address
\* cannot be dialled.
SkipsRequest ==
    trouble' = TRUE /\ UNCHANGED <<dispatcher, conn>>

\* The broadcast goroutine takes a packet, verifies it and dials the
\* requester, unless nobody listens there any more; the connection is left
\* open when the header cannot be written.
Dispatch(a) ==
    /\ dispatcher[a] = "select" /\ packets[a] # <<>>
    /\ packets' = [packets EXCEPT ![a] = Tail(@)]
    /\ LET Dialled(end) == [request |-> Head(packets[a]), by |-> a, wrote |-> "Header",
                            responder |-> end, requester |-> "backlog",
                            handler |-> Nobody]
       IN \/ SkipsRequest
          \/ /\ "requester" \notin ended
             /\ dispatcher' = [dispatcher EXCEPT ![a] = "handle"]
             /\ conn' = Append(conn, Dialled("handle"))
             /\ UNCHANGED trouble
          \/ /\ "requester" \in ended
             /\ conn' = Append(conn, Dialled("dropped"))
             /\ UNCHANGED <<dispatcher, trouble>>
    /\ UNCHANGED <<fixedVars, ended, requesterVars, accept, acceptor, beaconVars>>

\* The broadcast goroutine returns; what is left in the channel is lost.
DispatcherEnds(a) ==
    /\ dispatcher' = [dispatcher EXCEPT ![a] = "gone"]
    /\ packets' = [packets EXCEPT ![a] = <<>>]

\* What becomes of a connection that handler.Handle did not pass on: close
\* and discard.
KeepOpen(end) == end
Discard(end) == "closed"

\* handler.Handle returns false.
HandleRequestFails(a) ==
    /\ dispatcher[a] = "handle" /\ Done(a)
    /\ \E c \in Conns :
          /\ conn[c].responder = "handle" /\ conn[c].by = a
          /\ conn' = [conn EXCEPT ![c].responder = Discard(@)]
    /\ DispatcherEnds(a)
    /\ UNCHANGED <<worldVars, requesterVars, accept, acceptor, beaconVars>>

DispatcherStops(a) ==
    /\ dispatcher[a] = "select" /\ Done(a)
    /\ DispatcherEnds(a)
    /\ UNCHANGED <<worldVars, requesterVars, accept, acceptor, conn, beaconVars>>

\* The rendezvous of handler.Handle and listener.Accept; handleRequest writes
\* Response.
AcceptorTakes(a) ==
    /\ acceptor[a] = "accept" /\ dispatcher[a] = "handle"
    /\ \E c \in Conns :
          /\ conn[c].responder = "handle" /\ conn[c].by = a
          /\ conn' = [conn EXCEPT ![c].responder = "worker", ![c].wrote = "Response"]
    /\ dispatcher' = [dispatcher EXCEPT ![a] = "select"]
    /\ acceptor' = [acceptor EXCEPT ![a] = "hello"]
    /\ UNCHANGED <<worldVars, requesterVars, accept, packets, beaconVars>>

AcceptorStops(a) ==
    /\ acceptor[a] = "accept" /\ Done(a)
    /\ acceptor' = [acceptor EXCEPT ![a] = "gone"]
    /\ UNCHANGED <<worldVars, requesterVars, accept, packets, dispatcher, conn,
                   beaconVars>>

\* The connection the acceptor of call a handles.
AcceptorsConn(a, c) == conn[c].responder = "worker" /\ conn[c].by = a

\* The Result for a requester that is, or is not, trusted.
ResultSwapped(trust) == IF trust THEN "Refused" ELSE "Ok"
ResultFor(trust) == IF trust THEN "Ok" ELSE "Refused"

\* handleRequest reads Hello and writes the Result; the error of writeResult
\* is the only one it returns from there on, so a refused requester's
\* connection is offered like any other.
AcceptorReadsHello(a) ==
    /\ acceptor[a] = "hello"
    /\ \E c \in Conns :
          /\ AcceptorsConn(a, c) /\ conn[c].wrote = "Hello"
          /\ conn' = [conn EXCEPT ![c].wrote = ResultFor(trusted)]
    /\ acceptor' = [acceptor EXCEPT ![a] = "offer"]
    /\ UNCHANGED <<worldVars, requesterVars, accept, packets, dispatcher, beaconVars>>

\* Hello does not come, because the requester closed the connection, or not
\* before the deadline; the connection is closed.
AcceptorFails(a) ==
    /\ acceptor[a] = "hello"
    /\ \E c \in Conns :
          /\ AcceptorsConn(a, c)
          /\ conn' = [conn EXCEPT ![c].responder = "closed"]
          /\ trouble' = (trouble \/ conn[c].requester # "closed")
    /\ acceptor' = [acceptor EXCEPT ![a] = "accept"]
    /\ UNCHANGED <<fixedVars, ended, requesterVars, accept, packets, dispatcher,
                   beaconVars>>

\* `out <- secConn`: Accept returns the connection.
AcceptReturns(a) ==
    /\ acceptor[a] = "offer" /\ accept[a] = "select"
    /\ acceptor' = [acceptor EXCEPT ![a] = "gone"]
    /\ accept' = [accept EXCEPT ![a] = "returned"]
    /\ \E c \in Conns :
          AcceptorsConn(a, c) /\ conn' = [conn EXCEPT ![c].responder = "user"]
    /\ UNCHANGED <<worldVars, requesterVars, packets, dispatcher, beaconVars>>

\* `<-c.done`.
AcceptFails(a) ==
    /\ accept[a] = "select" /\ "responder" \in ended
    /\ accept' = [accept EXCEPT ![a] = "returned"]
    /\ UNCHANGED <<worldVars, requesterVars, packets, dispatcher, acceptor, conn,
                   beaconVars>>

\* `<-ctx.Done()`: nobody receives the connection any more.
AcceptorCloses(a) ==
    /\ acceptor[a] = "offer" /\ Done(a)
    /\ acceptor' = [acceptor EXCEPT ![a] = "gone"]
    /\ \E c \in Conns :
          AcceptorsConn(a, c) /\ conn' = [conn EXCEPT ![c].responder = "closed"]
    /\ UNCHANGED <<worldVars, requesterVars, accept, packets, dispatcher, beaconVars>>

-----------------------------------------------------------------------------
(* The environment                                                         *)

Backlog == {c \in Conns : conn[c].requester = "backlog"}

\* Something is ended from outside, at most MaxEnded times.
Ends(what) ==
    /\ what \in endings /\ Cardinality(ended) < MaxEnded
    /\ ended' = ended \cup {what}

\* The context given to Connect is done.
Cancel(k) ==
    /\ k \in MayCancel /\ k \notin cancelled /\ call[k] \notin {"idle", "returned"}
    /\ cancelled' = cancelled \cup {k}
    /\ Ends("context") /\ trouble' = TRUE
    /\ UNCHANGED <<fixedVars, idVars, call, worker, removers, handlers,
                   responderVars, conn, beaconVars>>

\* Close closes done, the listener and the beacon.  Connections in the
\* listener's backlog are reset; one that incomingUnicastHandler has just
\* accepted is left open when it then sees done.
Close(device) ==
    /\ device \notin ended /\ Ends(device) /\ trouble' = TRUE
    /\ IF device = "responder"
         THEN CloseBeacon /\ UNCHANGED conn
         ELSE /\ \E accepted \in {0} \cup Backlog :
                    conn' = [c \in Conns |->
                               IF c \notin Backlog THEN conn[c]
                               ELSE [conn[c] EXCEPT !.requester =
                                       IF c = accepted THEN "dropped" ELSE "closed"]]
              /\ UNCHANGED beaconVars
    /\ UNCHANGED <<fixedVars, requesterVars, responderVars>>

-----------------------------------------------------------------------------
WorkerStep(k) ==
    \/ WorkerTakes(k) \/ WorkerStops(k) \/ WorkerReadsResult(k) \/ WorkerFails(k)
    \/ WorkerCloses(k)

\* The calling goroutines of the requester, and those of its connections.
RequesterStep ==
    \/ \E k \in Calls : ConnectFails(k) \/ ConnectReturns(k) \/ WorkerStep(k)
    \/ \E c \in Conns : AcceptConn(c) \/ ReadResponse(c) \/ HandleResponseFails(c)

\* What responseBroker and outgoingBroadcastHandler receive.  Once the client
\* is closed they may go on for a while, so that these steps stay possible,
\* but they return sooner or later: none of them is certain.
BrokerStep ==
    \/ \E k \in Calls : RegisterHandler(k) \/ SendBroadcast(k) \/ RemoveHandler(k)
    \/ \E c \in Conns : RouteResponse(c)

ReaderStep(a) ==
    \/ ReaderHandles(a)
    \/ /\ Register(a) \/ ReadClosed(a)
       /\ UNCHANGED <<worldVars, requesterVars, responderVars, conn>>

DispatcherStep(a) == Dispatch(a) \/ HandleRequestFails(a) \/ DispatcherStops(a)

AcceptorStep(a) ==
    \/ AcceptorTakes(a) \/ AcceptorStops(a) \/ AcceptorReadsHello(a)
    \/ AcceptorFails(a) \/ AcceptorCloses(a)

Beacon ==
    /\ \/ SocketFails /\ Ends("socket")
       \/ /\ HandleEOF \/ \E d \in Datagrams : HandleReads(d)
          /\ UNCHANGED ended
    /\ UNCHANGED <<fixedVars, trouble, requesterVars, responderVars, conn>>

ResponderStep ==
    \E a \in Accepts :
        DispatcherStep(a) \/ AcceptorStep(a) \/ AcceptReturns(a) \/ AcceptFails(a)

Next ==
    \/ RequesterStep
    \/ BrokerStep
    \/ ResponderStep
    \/ \E a \in Accepts : Accept(a) \/ ReaderStep(a)
    \/ \E k \in Calls : Connect(k) \/ Cancel(k)
    \/ Beacon
    \/ \E device \in {"requester", "responder"} : Close(device)

Spec == Init /\ [][Next]_vars

\* On each device, some goroutine that can go on does, and a deadline passes;
\* as every call comes to an end after finitely many steps, no goroutine is
\* kept from running.  The readers of the beacon, which may go round for ever
\* on empty packets, are apart.  Nothing makes a datagram arrive, a user
\* call, a context end or a device close.
Fairness ==
    /\ WF_vars(RequesterStep)
    /\ WF_vars("requester" \notin ended /\ BrokerStep)
    /\ WF_vars(ResponderStep)
    /\ WF_vars(beacon = "open" /\ \E a \in Accepts : ReaderStep(a))

FairSpec == Spec /\ Fairness

-----------------------------------------------------------------------------
(* Properties                                                              *)

Connections ==
    [request : Calls, by : Accepts,
     wrote : {"Header", "Response", "Hello", "Ok", "Refused"},
     responder : {"handle", "worker", "user", "closed", "dropped"},
     requester : {"backlog", "reading", "sending", "handling", "worker", "user",
                  "closed", "dropped", "unhandled"},
     handler : Calls \cup {Nobody}]

\* Types of the two clients' state and of the connections between them.
TypeOK ==
    /\ BeaconTypeOK
    /\ trusted \in BOOLEAN /\ networks \in [Calls -> Nat]
    /\ endings \subseteq Endings /\ ended \subseteq Endings /\ trouble \in BOOLEAN
    /\ counter \in Nat /\ rid \in [Calls -> Nat]
    /\ call \in [Calls -> {"idle", "register", "broadcast", "select", "returned",
                           "panic"}]
    /\ worker \in [Calls -> {"off", "accept", "result", "offer", "gone"}]
    /\ cancelled \cup removers \cup handlers \subseteq Calls
    /\ accept \in [Accepts -> {"idle", "select", "returned"}]
    /\ packets \in [Accepts -> Seq(Calls)]
    /\ dispatcher \in [Accepts -> {"off", "select", "handle", "gone"}]
    /\ acceptor \in [Accepts -> {"off", "accept", "hello", "offer", "gone"}]
    /\ conn \in Seq(Connections)

\* Ids tell the Connect calls of a client apart however they overlap:
\* responseBroker never finds the id of a new request taken and panics, a call
\* that ends removes no other call's handler, so that one that waits has its
\* own, and a response is given to the call whose request it answers.
CallsKeptApart ==
    /\ TypeOK
    /\ \A k \in Calls :
          /\ call[k] # "panic"
          /\ call[k] \in {"broadcast", "select"} => k \in handlers \cup cancelled
    /\ \A c \in Conns :
          conn[c].handler # Nobody => conn[c].handler = conn[c].request

\* The connection Connect returns answers its own request, the responder has
\* written Ok on it, and its Accept returns that connection or is about to:
\* only closing the responder takes it away again.  No call, of either
\* device, gets more than one connection.
ConnectMeansGranted ==
    \A c \in Conns :
        conn[c].requester = "user" =>
            /\ trusted /\ conn[c].wrote = "Ok"
            /\ conn[c].responder \in {"worker", "user"} \/ "responder" \in ended
            /\ \A d \in Conns \ {c} : /\ conn[d].requester = "user" =>
                                            conn[d].request # conn[c].request
                                     /\ conn[d].responder = "user" =>
                                            conn[d].by # conn[c].by

\* Every connection the responder dialled and wrote the header on is returned
\* by Accept or closed in the end, whatever the requester does: the losers of
\* a request that arrives several times are closed when Accept returns.
ResponderReleases ==
    []<>(\A c \in Conns : conn[c].responder \in {"user", "closed", "dropped"})

\* Once the context of a Connect that waits is done, or the client is closed,
\* Connect returns, its worker ends without keeping a connection, and its
\* handler is removed, unless the broker has stopped.
ConnectEnds ==
    \A k \in Calls :
        (call[k] = "select" /\ (k \in cancelled \/ "requester" \in ended))
            ~> /\ call[k] = "returned" /\ worker[k] = "gone"
               /\ k \notin handlers \/ "requester" \in ended
               /\ ~\E c \in Conns : WorkersConn(k, c)

\* A request that an Accept call has read from its beacon is answered: unless
\* a deadline passes, a dial fails, a context ends or a device is closed, the
\* Accept returns, and so does, if the requester is trusted, the Connect of a
\* request that this Accept answered.
RequestIsServed ==
    []<>\/ trouble
        \/ \A a \in Accepts :
              (packets[a] # <<>> \/ \E c \in Conns : conn[c].by = a) =>
                  /\ accept[a] = "returned"
                  /\ trusted => \E c \in Conns : /\ conn[c].by = a
                                               /\ call[conn[c].request] = "returned"

\* "The caller should close and discard the connection if the return value is
\* false" (listener.go, Handler): a connection no call took is closed.
UnhandledIsClosed == []<>(\A c \in Conns : conn[c].requester # "unhandled")

\* A refused requester's connection is not handed out by Accept.
RefusedIsNotAccepted ==
    \A c \in Conns : conn[c].responder = "user" => conn[c].wrote # "Refused"

-----------------------------------------------------------------------------
(* Inductive invariants, the strengthenings the proofs rest on             *)

\* An id is taken when its call starts, is not beyond the counter, and is
\* nobody else's.
IdInv ==
    /\ \A k \in Calls : rid[k] <= counter /\ (rid[k] = 0 <=> call[k] = "idle")
    /\ \A j, k \in Calls : rid[j] = rid[k] /\ rid[j] # 0 => j = k

\* A handler is registered by its own call only, for as long as the call waits,
\* and a call has no worker before its request is on the air, an Accept no
\* acceptor before it starts; only closing the responder ends an Accept before
\* its acceptor.
CallInv ==
    /\ \A k \in Calls : /\ k \in handlers => call[k] \notin {"idle", "register"}
                        /\ call[k] # "panic"
                        /\ call[k] \in {"broadcast", "select"} => k \in handlers \cup cancelled
                        /\ call[k] \in {"idle", "register", "broadcast"} => worker[k] = "off"
    /\ \A a \in Accepts : /\ accept[a] = "idle" => acceptor[a] = "off"
                          /\ Done(a) /\ acceptor[a] # "gone" => "responder" \in ended

Results == {"Ok", "Refused"}

\* How far the handshake on a connection is, seen from both of its ends, and
\* whose handler has it.
HandshakeInv(c) ==
    LET x == conn[c] IN
    /\ x.responder = "handle" => x.wrote = "Header"
    /\ x.responder = "worker" =>
          \/ acceptor[x.by] = "hello" /\ x.wrote \in {"Response", "Hello"}
          \/ acceptor[x.by] = "offer" /\ x.wrote \in Results
    /\ x.responder = "user" => x.wrote \in Results
    /\ x.wrote \in Results => /\ acceptor[x.by] \in {"offer", "gone"}
                              /\ \/ x.responder \in {"worker", "user"}
                                 \/ x.responder = "closed" /\ "responder" \in ended
    /\ x.wrote = "Ok" => trusted
    /\ x.requester \in {"backlog", "reading"} => x.wrote \in {"Header", "Response"}
    /\ x.requester \in {"sending", "handling"} => x.wrote = "Response"
    /\ x.requester = "worker" =>
          \/ worker[x.request] = "result" /\ x.wrote \in {"Hello"} \cup Results
          \/ worker[x.request] = "offer" /\ x.wrote = "Ok"
    /\ x.requester = "user" => worker[x.request] = "gone" /\ x.wrote = "Ok"
    /\ \/ x.handler = x.request
       \/ x.handler = Nobody /\ x.requester \notin {"handling", "worker", "user"}

\* Of two connections, a call of either device holds at most one; an Accept
\* writes at most one Result.
ExclusiveInv(c, d) ==
    /\ conn[c].responder = "worker" /\ conn[d].responder = "worker"
          => conn[c].by # conn[d].by
    /\ conn[c].wrote \in Results /\ conn[d].wrote \in Results
          => conn[c].by # conn[d].by
    /\ conn[c].requester \in {"worker", "user"} /\ conn[d].requester \in {"worker", "user"}
          => conn[c].request # conn[d].request

ConnectionsInv ==
    /\ \A c \in Conns : HandshakeInv(c)
    /\ \A c, d \in Conns : c # d => ExclusiveInv(c, d)
==============================================================================
