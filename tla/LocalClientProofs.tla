-------------------------- MODULE LocalClientProofs --------------------------
(***************************************************************************)
(* Proofs about local.Client for any number of Connect and Accept calls,   *)
(* networks and disruptions: ids keep the calls apart, and the connection   *)
(* Connect returns is one the responder granted, handed out once.          *)
(***************************************************************************)
EXTENDS LocalClient, TLAPS

\* The seconds each prover may take for a step.
USE SMTT(15), ZenonT(15)

RequesterEnds == {"backlog", "reading", "sending", "handling", "worker", "user",
                  "closed", "dropped", "unhandled"}
ResponderEnds == {"handle", "worker", "user", "closed", "dropped"}
Messages == {"Header", "Response", "Hello", "Ok", "Refused"}

\* Writing on a connection or handing over one of its ends leaves the other
\* connections alone.
LEMMA OneConnection ==
    ASSUME conn \in Seq(Connections), NEW c \in Conns,
           NEW q \in RequesterEnds, NEW p \in ResponderEnds, NEW w \in Messages,
           \/ conn' = [conn EXCEPT ![c].requester = q] /\ p = conn[c].responder /\ w = conn[c].wrote
           \/ conn' = [conn EXCEPT ![c].responder = p] /\ q = conn[c].requester /\ w = conn[c].wrote
           \/ /\ conn' = [conn EXCEPT ![c].wrote = w]
              /\ q = conn[c].requester /\ p = conn[c].responder
           \/ /\ conn' = [conn EXCEPT ![c].requester = q, ![c].wrote = w]
              /\ p = conn[c].responder
           \/ /\ conn' = [conn EXCEPT ![c].responder = p, ![c].wrote = w]
              /\ q = conn[c].requester
    PROVE  /\ conn' \in Seq(Connections) /\ Len(conn') = Len(conn)
           /\ conn'[c].requester = q /\ conn'[c].responder = p /\ conn'[c].wrote = w
           /\ conn'[c].by = conn[c].by /\ conn'[c].request = conn[c].request
           /\ conn'[c].handler = conn[c].handler
           /\ \A d \in Conns : d # c => conn'[d] = conn[d]
<1> DEFINE x == conn[c]
           y == [request |-> x.request, by |-> x.by, wrote |-> w, responder |-> p,
                 requester |-> q, handler |-> x.handler]
<1>1. x \in Connections /\ c \in 1 .. Len(conn)  BY DEF Conns
<1>2. x = [request |-> x.request, by |-> x.by, wrote |-> x.wrote,
           responder |-> x.responder, requester |-> x.requester, handler |-> x.handler]
  BY <1>1 DEF Connections
<1>3. y \in Connections
  BY <1>1 DEF Connections, RequesterEnds, ResponderEnds, Messages
<1>4. conn' = [conn EXCEPT ![c] = y]
  BY <1>1, <1>2
<1>. QED  BY <1>1, <1>3, <1>4 DEF Conns

\* The same for one change at a time.
LEMMA OneEnd ==
    ASSUME conn \in Seq(Connections), NEW c \in Conns
    PROVE  /\ \A q \in RequesterEnds : conn' = [conn EXCEPT ![c].requester = q] =>
                 /\ Len(conn') = Len(conn) /\ conn'[c].requester = q
                 /\ conn'[c].responder = conn[c].responder /\ conn'[c].wrote = conn[c].wrote
                 /\ conn'[c].by = conn[c].by /\ conn'[c].request = conn[c].request
                 /\ conn'[c].handler = conn[c].handler
                 /\ \A d \in Conns : d # c => conn'[d] = conn[d]
           /\ \A p \in ResponderEnds : conn' = [conn EXCEPT ![c].responder = p] =>
                 /\ Len(conn') = Len(conn) /\ conn'[c].responder = p
                 /\ conn'[c].requester = conn[c].requester /\ conn'[c].wrote = conn[c].wrote
                 /\ conn'[c].by = conn[c].by /\ conn'[c].request = conn[c].request
                 /\ conn'[c].handler = conn[c].handler
                 /\ \A d \in Conns : d # c => conn'[d] = conn[d]
           /\ \A w \in Messages : conn' = [conn EXCEPT ![c].wrote = w] =>
                 /\ Len(conn') = Len(conn) /\ conn'[c].wrote = w
                 /\ conn'[c].requester = conn[c].requester
                 /\ conn'[c].responder = conn[c].responder
                 /\ conn'[c].by = conn[c].by /\ conn'[c].request = conn[c].request
                 /\ conn'[c].handler = conn[c].handler
                 /\ \A d \in Conns : d # c => conn'[d] = conn[d]
<1> DEFINE x == conn[c]
<1>1. x \in Connections /\ c \in 1 .. Len(conn)  BY DEF Conns
<1>2. x = [request |-> x.request, by |-> x.by, wrote |-> x.wrote,
           responder |-> x.responder, requester |-> x.requester, handler |-> x.handler]
  BY <1>1 DEF Connections
<1> HIDE DEF x
<1>a. conn \in [1 .. Len(conn) -> Connections] /\ x = conn[c]  BY DEF x
<1>3. ASSUME NEW q \in RequesterEnds, conn' = [conn EXCEPT ![c].requester = q]
      PROVE  /\ Len(conn') = Len(conn) /\ conn'[c].requester = q
             /\ conn'[c].responder = x.responder /\ conn'[c].wrote = x.wrote
             /\ conn'[c].by = x.by /\ conn'[c].request = x.request
             /\ conn'[c].handler = x.handler
             /\ \A d \in Conns : d # c => conn'[d] = conn[d]
  <2> DEFINE y == [request |-> x.request, by |-> x.by, wrote |-> x.wrote,
                   responder |-> x.responder, requester |-> q, handler |-> x.handler]
  <2>1. [x EXCEPT !.requester = q] = y  BY <1>2
  <2>2. conn' = [conn EXCEPT ![c] = [x EXCEPT !.requester = q]]  BY <1>3, <1>a
  <2>. QED  BY <1>1, <2>1, <2>2 DEF Conns
<1>4. ASSUME NEW p \in ResponderEnds, conn' = [conn EXCEPT ![c].responder = p]
      PROVE  /\ Len(conn') = Len(conn) /\ conn'[c].responder = p
             /\ conn'[c].requester = x.requester /\ conn'[c].wrote = x.wrote
             /\ conn'[c].by = x.by /\ conn'[c].request = x.request
             /\ conn'[c].handler = x.handler
             /\ \A d \in Conns : d # c => conn'[d] = conn[d]
  <2> DEFINE y == [request |-> x.request, by |-> x.by, wrote |-> x.wrote,
                   responder |-> p, requester |-> x.requester, handler |-> x.handler]
  <2>1. [x EXCEPT !.responder = p] = y  BY <1>2
  <2>2. conn' = [conn EXCEPT ![c] = [x EXCEPT !.responder = p]]  BY <1>4, <1>a
  <2>. QED  BY <1>1, <2>1, <2>2 DEF Conns
<1>5. ASSUME NEW w \in Messages, conn' = [conn EXCEPT ![c].wrote = w]
      PROVE  /\ Len(conn') = Len(conn) /\ conn'[c].wrote = w
             /\ conn'[c].requester = x.requester /\ conn'[c].responder = x.responder
             /\ conn'[c].by = x.by /\ conn'[c].request = x.request
             /\ conn'[c].handler = x.handler
             /\ \A d \in Conns : d # c => conn'[d] = conn[d]
  <2> DEFINE y == [request |-> x.request, by |-> x.by, wrote |-> w,
                   responder |-> x.responder, requester |-> x.requester, handler |-> x.handler]
  <2>1. [x EXCEPT !.wrote = w] = y  BY <1>2
  <2>2. conn' = [conn EXCEPT ![c] = [x EXCEPT !.wrote = w]]  BY <1>5, <1>a
  <2>. QED  BY <1>1, <2>1, <2>2 DEF Conns
<1>. QED  BY <1>3, <1>4, <1>5 DEF x

-----------------------------------------------------------------------------
(* Types                                                                   *)

\* The same for one end together with what is written.
RequesterWrites(c, q, w) == [conn EXCEPT ![c].requester = q, ![c].wrote = w]
ResponderWrites(c, p, w) == [conn EXCEPT ![c].responder = p, ![c].wrote = w]

\* What they change and what they leave.
LEMMA EndAndMessage ==
    ASSUME conn \in Seq(Connections), NEW c \in Conns
    PROVE  /\ \A q \in RequesterEnds : \A w \in Messages :
              conn' = RequesterWrites(c, q, w) =>
                 /\ Len(conn') = Len(conn) /\ conn'[c].requester = q /\ conn'[c].wrote = w
                 /\ conn'[c].responder = conn[c].responder
                 /\ conn'[c].by = conn[c].by /\ conn'[c].request = conn[c].request
                 /\ conn'[c].handler = conn[c].handler
                 /\ \A d \in Conns : d # c => conn'[d] = conn[d]
           /\ \A p \in ResponderEnds : \A w \in Messages :
              conn' = ResponderWrites(c, p, w) =>
                 /\ Len(conn') = Len(conn) /\ conn'[c].responder = p /\ conn'[c].wrote = w
                 /\ conn'[c].requester = conn[c].requester
                 /\ conn'[c].by = conn[c].by /\ conn'[c].request = conn[c].request
                 /\ conn'[c].handler = conn[c].handler
                 /\ \A d \in Conns : d # c => conn'[d] = conn[d]
<1> DEFINE x == conn[c]
<1>1. x \in Connections /\ c \in 1 .. Len(conn)  BY DEF Conns
<1>2. PICK k, a, m, r, o, h : x = [request |-> k, by |-> a, wrote |-> m, responder |-> r,
                                requester |-> o, handler |-> h]
  BY <1>1, Zenon DEF Connections
<1> HIDE DEF x
<1>a. conn \in [1 .. Len(conn) -> Connections] /\ x = conn[c]  BY DEF x
<1>3. ASSUME NEW q \in RequesterEnds, NEW w \in Messages,
             conn' = RequesterWrites(c, q, w)
      PROVE  /\ Len(conn') = Len(conn) /\ conn'[c].requester = q /\ conn'[c].wrote = w
             /\ conn'[c].responder = conn[c].responder
             /\ conn'[c].by = conn[c].by /\ conn'[c].request = conn[c].request
             /\ conn'[c].handler = conn[c].handler
             /\ \A d \in Conns : d # c => conn'[d] = conn[d]
  <2>1. PICK y : y = [x EXCEPT !.requester = q, !.wrote = w]  OBVIOUS
  <2>2. /\ y.requester = q /\ y.wrote = w /\ y.responder = x.responder
        /\ y.by = x.by /\ y.request = x.request /\ y.handler = x.handler
    BY <1>2, <2>1
  <2>3. conn' = [conn EXCEPT ![c] = y]  BY <1>3, <1>a, <2>1, Zenon DEF RequesterWrites
  <2>. QED  BY <1>1, <1>a, <2>2, <2>3 DEF Conns
<1>4. ASSUME NEW p \in ResponderEnds, NEW w \in Messages,
             conn' = ResponderWrites(c, p, w)
      PROVE  /\ Len(conn') = Len(conn) /\ conn'[c].responder = p /\ conn'[c].wrote = w
             /\ conn'[c].requester = conn[c].requester
             /\ conn'[c].by = conn[c].by /\ conn'[c].request = conn[c].request
             /\ conn'[c].handler = conn[c].handler
             /\ \A d \in Conns : d # c => conn'[d] = conn[d]
  <2>1. PICK y : y = [x EXCEPT !.responder = p, !.wrote = w]  OBVIOUS
  <2>2. /\ y.responder = p /\ y.wrote = w /\ y.requester = x.requester
        /\ y.by = x.by /\ y.request = x.request /\ y.handler = x.handler
    BY <1>2, <2>1
  <2>3. conn' = [conn EXCEPT ![c] = y]  BY <1>4, <1>a, <2>1, Zenon DEF ResponderWrites
  <2>. QED  BY <1>1, <1>a, <2>2, <2>3 DEF Conns
<1>. QED  BY <1>3, <1>4, <1>a, Zenon

\* responseBroker gives a connection to the handler of a call.
RoutedTo(c, h) == [conn EXCEPT ![c].requester = "handling", ![c].handler = h]

\* What that changes and what it leaves.
LEMMA Routed ==
    ASSUME conn \in Seq(Connections), NEW c \in Conns, NEW h \in Calls,
           conn' = RoutedTo(c, h)
    PROVE  /\ conn' \in Seq(Connections) /\ Len(conn') = Len(conn)
           /\ conn'[c].requester = "handling" /\ conn'[c].handler = h
           /\ conn'[c].responder = conn[c].responder /\ conn'[c].wrote = conn[c].wrote
           /\ conn'[c].by = conn[c].by /\ conn'[c].request = conn[c].request
           /\ \A d \in Conns : d # c => conn'[d] = conn[d]
<1> DEFINE x == conn[c]
<1>1. x \in Connections /\ c \in 1 .. Len(conn)  BY DEF Conns
<1> HIDE DEF x
<1>a. conn \in [1 .. Len(conn) -> Connections] /\ x = conn[c]  BY DEF x
<1>2. PICK y : y = [x EXCEPT !.requester = "handling", !.handler = h]  OBVIOUS
<1>3. /\ y \in Connections
      /\ y.requester = "handling" /\ y.handler = h
      /\ y.responder = x.responder /\ y.wrote = x.wrote
      /\ y.by = x.by /\ y.request = x.request
  BY <1>1, <1>2, Zenon DEF Connections
<1>4. conn' = [conn EXCEPT ![c] = y]  BY <1>a, <1>2, Zenon DEF RoutedTo
<1>. QED  BY <1>1, <1>a, <1>3, <1>4 DEF Conns

\* The steps of the beacon and of the Read calls keep the beacon's types.
LEMMA BeaconTypes ==
    ASSUME BeaconTypeOK
    PROVE  /\ SocketFails \/ HandleEOF \/ CloseBeacon => BeaconTypeOK'
           /\ \A d \in Datagrams : HandleReads(d) \/
                  ((\E n \in Nat : Write(d, n)) /\ UNCHANGED <<read, reads, beacon>>) => BeaconTypeOK'
           /\ \A r \in Readers : Register(r) \/ ReadClosed(r) => BeaconTypeOK'
<1> USE DEF BeaconTypeOK
<1>1. SocketFails \/ CloseBeacon => BeaconTypeOK'
  BY DEF SocketFails, CloseBeacon, SocketCloses
<1>2. HandleEOF => BeaconTypeOK'  BY DEF HandleEOF, Give
<1>3. ASSUME NEW d \in Datagrams, HandleReads(d) PROVE BeaconTypeOK'
  <2>1. air' \in [Datagrams -> Nat]  BY <1>3 DEF HandleReads
  <2>2. read' \in [Readers -> {Off, Calling, Waiting}
                                \cup {Got(x) : x \in Datagrams \cup {Empty}}]
    BY <1>3 DEF HandleReads, Give
  <2>. QED  BY <1>3, <2>1, <2>2 DEF HandleReads
<1>4. ASSUME NEW d \in Datagrams, NEW n \in Nat, Write(d, n),
             UNCHANGED <<read, reads, beacon>>
      PROVE  BeaconTypeOK'
  <2>1. air' \in [Datagrams -> Nat]  BY <1>4 DEF Write, HandleWrites
  <2>. QED  BY <1>4, <2>1
<1>5. ASSUME NEW r \in Readers, Register(r) \/ ReadClosed(r) PROVE BeaconTypeOK'
  BY <1>5 DEF Register, ReadClosed
<1>. QED  BY <1>1, <1>2, <1>3, <1>4, <1>5

\* The steps of a Connect call, its worker and the broker keep the types.
LEMMA RequesterTypes == TypeOK /\ (RequesterStep \/ BrokerStep) => TypeOK'
<1> SUFFICES ASSUME TypeOK, RequesterStep \/ BrokerStep PROVE TypeOK'  OBVIOUS
<1> USE DEF fixedVars, worldVars, idVars, requesterVars, responderVars, Returns
<1>a. conn \in Seq(Connections) /\ \A c \in Conns : conn[c] \in Connections
  BY DEF TypeOK, Conns
<1>b. UNCHANGED beaconVars => BeaconTypeOK'  BY DEF TypeOK, BeaconTypeOK, beaconVars
<1>c. ASSUME NEW c \in Conns, NEW q \in RequesterEnds,
             conn' = [conn EXCEPT ![c].requester = q]
      PROVE  conn' \in Seq(Connections)
  <2>1. conn[c].responder \in ResponderEnds /\ conn[c].wrote \in Messages
    BY <1>a DEF Connections, ResponderEnds, Messages
  <2>. QED  BY <1>a, <1>c, <2>1, OneConnection, Zenon
<1>1. ASSUME NEW k \in Calls, ConnectFails(k) PROVE TypeOK'
  BY <1>1, <1>b DEF TypeOK, ConnectFails
<1>2. ASSUME NEW k \in Calls, ConnectReturns(k) PROVE TypeOK'
  <2>1. conn' \in Seq(Connections)
    BY <1>2, <1>c, Zenon DEF ConnectReturns, RequesterEnds
  <2>. QED  BY <1>2, <1>b, <2>1 DEF TypeOK, ConnectReturns
<1>3. ASSUME NEW k \in Calls, WorkerTakes(k) PROVE TypeOK'
  <2>1. PICK c \in Conns :
           \/ /\ conn' = [conn EXCEPT ![c].requester = "worker", ![c].wrote = "Hello"]
              /\ worker' = [worker EXCEPT ![k] = "result"]
           \/ conn' = [conn EXCEPT ![c].requester = "closed"] /\ UNCHANGED worker
    BY <1>3, Zenon DEF WorkerTakes
  <2>2. conn[c].responder \in ResponderEnds  BY <1>a DEF Connections, ResponderEnds
  <2>3. ASSUME conn' = [conn EXCEPT ![c].requester = "worker", ![c].wrote = "Hello"]
        PROVE  conn' \in Seq(Connections)
    BY <1>a, <2>2, <2>3, OneConnection, Zenon DEF RequesterEnds, Messages
  <2>4. ASSUME conn' = [conn EXCEPT ![c].requester = "closed"]
        PROVE  conn' \in Seq(Connections)
    BY <1>c, <2>4, Zenon DEF RequesterEnds
  <2>5. conn' \in Seq(Connections)  BY <2>1, <2>3, <2>4, Zenon
  <2>6. worker' \in [Calls -> {"off", "accept", "result", "offer", "gone"}]
    BY <2>1, Zenon DEF TypeOK
  <2>. QED  BY <1>3, <1>b, <2>5, <2>6 DEF TypeOK, WorkerTakes
<1>4. ASSUME NEW k \in Calls, WorkerStops(k) PROVE TypeOK'
  BY <1>4, <1>b DEF TypeOK, WorkerStops
<1>5. ASSUME NEW k \in Calls, WorkerReadsResult(k) PROVE TypeOK'
  <2>1. conn' \in Seq(Connections)
    BY <1>5, <1>a, <1>c DEF WorkerReadsResult, RequesterEnds
  <2>. QED  BY <1>5, <1>b, <2>1, Zenon DEF TypeOK, WorkerReadsResult
<1>6. ASSUME NEW k \in Calls, WorkerFails(k) PROVE TypeOK'
  <2>1. conn' \in Seq(Connections) /\ trouble' \in BOOLEAN
    BY <1>6, <1>c, Zenon DEF WorkerFails, RequesterEnds
  <2>. QED  BY <1>6, <1>b, <2>1 DEF TypeOK, WorkerFails
<1>7. ASSUME NEW k \in Calls, WorkerCloses(k) PROVE TypeOK'
  <2>1. conn' \in Seq(Connections)  BY <1>7, <1>c, Zenon DEF WorkerCloses, RequesterEnds
  <2>. QED  BY <1>7, <1>b, <2>1 DEF TypeOK, WorkerCloses
<1>8. ASSUME NEW c \in Conns,
             AcceptConn(c) \/ ReadResponse(c) \/ HandleResponseFails(c) \/ RouteResponse(c)
      PROVE  TypeOK'
  <2>1. \/ \E q \in RequesterEnds : conn' = [conn EXCEPT ![c].requester = q]
        \/ \E h \in handlers : conn' = RoutedTo(c, h)
    BY <1>8 DEF AcceptConn, ReadResponse, HandleResponseFails, RouteResponse, RequesterEnds,
                HandlersFor, RoutedTo
  <2>h. handlers \subseteq Calls  BY DEF TypeOK
  <2>2. conn' \in Seq(Connections)  BY <1>a, <1>c, <2>1, <2>h, Routed, Zenon
  <2>3. UNCHANGED <<worldVars, requesterVars, responderVars, beaconVars>>
    BY <1>8 DEF AcceptConn, ReadResponse, HandleResponseFails, RouteResponse
  <2>. QED  BY <1>b, <2>2, <2>3 DEF TypeOK
<1>9. ASSUME NEW k \in Calls, RegisterHandler(k) PROVE TypeOK'
  <2>1. /\ UNCHANGED <<worldVars, responderVars, conn, beaconVars, idVars, cancelled, worker>>
        /\ call' = [call EXCEPT ![k] = "panic"] \/ call' = [call EXCEPT ![k] = "broadcast"]
        /\ handlers' \in {handlers, handlers \cup {k}}
        /\ removers' \in {removers, removers \cup {k}}
    BY <1>9 DEF RegisterHandler
  <2>2. cancelled' \cup removers' \cup handlers' \subseteq Calls
    <3>1. cancelled \cup removers \cup handlers \subseteq Calls  BY DEF TypeOK
    <3>. QED  BY <2>1, <3>1
  <2>3. call' \in [Calls -> {"idle", "register", "broadcast", "select", "returned", "panic"}]
    BY <2>1, Zenon DEF TypeOK
  <2>4. UNCHANGED <<worldVars, responderVars, conn, idVars, worker>> /\ BeaconTypeOK'
    BY <1>b, <2>1
  <2>. QED  BY <2>2, <2>3, <2>4 DEF TypeOK
<1>10. ASSUME NEW k \in Calls, SendBroadcast(k) PROVE TypeOK'
  <2>1. networks[k] \in Nat  BY DEF TypeOK
  <2>2. BeaconTypeOK'
    BY <1>10, <2>1, BeaconTypes, LocalAssumption DEF TypeOK, SendBroadcast
  <2>. QED  BY <1>10, <2>2 DEF TypeOK, SendBroadcast
<1>11. ASSUME NEW k \in Calls, RemoveHandler(k) PROVE TypeOK'
  BY <1>11, <1>b DEF TypeOK, RemoveHandler, HandlersFor
<1>. QED  BY <1>1, <1>2, <1>3, <1>4, <1>5, <1>6, <1>7, <1>8, <1>9, <1>10, <1>11
          DEF RequesterStep, BrokerStep, WorkerStep

\* The steps of an Accept call and its goroutines keep the types.
LEMMA ResponderTypes ==
    TypeOK /\ (ResponderStep \/ \E a \in Accepts : Accept(a) \/ ReaderStep(a)) => TypeOK'
<1> SUFFICES ASSUME TypeOK,
                    ResponderStep \/ \E a \in Accepts : Accept(a) \/ ReaderStep(a)
             PROVE  TypeOK'
  OBVIOUS
<1> USE DEF fixedVars, worldVars, idVars, requesterVars, responderVars
<1>a. conn \in Seq(Connections) /\ \A c \in Conns : conn[c] \in Connections
  BY DEF TypeOK, Conns
<1>b. UNCHANGED beaconVars => BeaconTypeOK'  BY DEF TypeOK, BeaconTypeOK, beaconVars
<1>c. ASSUME NEW c \in Conns, NEW p \in ResponderEnds,
             conn' = [conn EXCEPT ![c].responder = p]
      PROVE  conn' \in Seq(Connections)
  <2>1. conn[c].requester \in RequesterEnds /\ conn[c].wrote \in Messages
    BY <1>a DEF Connections, RequesterEnds, Messages
  <2>. QED  BY <1>a, <1>c, <2>1, OneConnection, Zenon
<1>1. ASSUME NEW a \in Accepts, Dispatch(a) PROVE TypeOK'
  <2>1. packets[a] \in Seq(Calls) /\ packets[a] # <<>>  BY <1>1 DEF TypeOK, Dispatch
  <2>2. Head(packets[a]) \in Calls /\ Tail(packets[a]) \in Seq(Calls)  BY <2>1
  <2>3. packets' \in [Accepts -> Seq(Calls)]  BY <1>1, <2>2 DEF TypeOK, Dispatch
  <2>4. \/ UNCHANGED conn
        \/ \E x \in Connections : conn' = Append(conn, x)
    BY <1>1, <2>2 DEF Dispatch, SkipsRequest, Connections
  <2>5. conn' \in Seq(Connections)  BY <1>a, <2>4
  <2>6. /\ UNCHANGED <<fixedVars, ended, requesterVars, accept, acceptor, beaconVars>>
        /\ trouble' \in {trouble, TRUE}
        /\ UNCHANGED dispatcher \/ dispatcher' = [dispatcher EXCEPT ![a] = "handle"]
    BY <1>1, Zenon DEF Dispatch, SkipsRequest
  <2>. QED  BY <1>b, <2>3, <2>5, <2>6, Zenon DEF TypeOK
<1>2. ASSUME NEW a \in Accepts, HandleRequestFails(a) PROVE TypeOK'
  <2>1. conn' \in Seq(Connections)
    BY <1>2, <1>c, Zenon DEF HandleRequestFails, Discard, ResponderEnds
  <2>. QED  BY <1>2, <1>b, <2>1 DEF TypeOK, HandleRequestFails, DispatcherEnds
<1>3. ASSUME NEW a \in Accepts, DispatcherStops(a) PROVE TypeOK'
  BY <1>3, <1>b DEF TypeOK, DispatcherStops, DispatcherEnds
<1>4. ASSUME NEW a \in Accepts, AcceptorTakes(a) PROVE TypeOK'
  <2>1. PICK c \in Conns :
           conn' = [conn EXCEPT ![c].responder = "worker", ![c].wrote = "Response"]
    BY <1>4, Zenon DEF AcceptorTakes
  <2>2. conn[c].requester \in RequesterEnds  BY <1>a DEF Connections, RequesterEnds
  <2>3. conn' \in Seq(Connections)
    BY <1>a, <2>1, <2>2, OneConnection, Zenon DEF ResponderEnds, Messages
  <2>. QED  BY <1>4, <1>b, <2>3 DEF TypeOK, AcceptorTakes
<1>5. ASSUME NEW a \in Accepts, AcceptorStops(a) PROVE TypeOK'
  BY <1>5, <1>b DEF TypeOK, AcceptorStops
<1>6. ASSUME NEW a \in Accepts, AcceptorReadsHello(a) PROVE TypeOK'
  <2>1. PICK c \in Conns : conn' = [conn EXCEPT ![c].wrote = ResultFor(trusted)]
    BY <1>6, Zenon DEF AcceptorReadsHello
  <2>2. /\ conn[c].requester \in RequesterEnds /\ conn[c].responder \in ResponderEnds
        /\ ResultFor(trusted) \in Messages
    BY <1>a DEF Connections, RequesterEnds, ResponderEnds, Messages, ResultFor
  <2>3. conn' \in Seq(Connections)  BY <1>a, <2>1, <2>2, OneConnection, Zenon
  <2>. QED  BY <1>6, <1>b, <2>3 DEF TypeOK, AcceptorReadsHello
<1>7. ASSUME NEW a \in Accepts, AcceptorFails(a) PROVE TypeOK'
  <2>1. conn' \in Seq(Connections) /\ trouble' \in BOOLEAN
    BY <1>7, <1>c, Zenon DEF AcceptorFails, ResponderEnds
  <2>. QED  BY <1>7, <1>b, <2>1 DEF TypeOK, AcceptorFails
<1>8. ASSUME NEW a \in Accepts, AcceptorCloses(a) PROVE TypeOK'
  <2>1. conn' \in Seq(Connections)  BY <1>8, <1>c, Zenon DEF AcceptorCloses, ResponderEnds
  <2>. QED  BY <1>8, <1>b, <2>1 DEF TypeOK, AcceptorCloses
<1>9. ASSUME NEW a \in Accepts, AcceptReturns(a) PROVE TypeOK'
  <2>1. conn' \in Seq(Connections)  BY <1>9, <1>c, Zenon DEF AcceptReturns, ResponderEnds
  <2>. QED  BY <1>9, <1>b, <2>1 DEF TypeOK, AcceptReturns
<1>10. ASSUME NEW a \in Accepts, AcceptFails(a) PROVE TypeOK'
  BY <1>10, <1>b DEF TypeOK, AcceptFails
<1>11. ASSUME NEW a \in Accepts, Accept(a) PROVE TypeOK'
  <2>1. BeaconTypeOK'  BY <1>11, LocalAssumption DEF TypeOK, BeaconTypeOK, Accept
  <2>. QED  BY <1>11, <2>1 DEF TypeOK, Accept
<1>12. ASSUME NEW a \in Accepts, ReaderHandles(a) PROVE TypeOK'
  <2>1. BeaconTypeOK'
    BY <1>12, LocalAssumption, Zenon DEF TypeOK, BeaconTypeOK, ReaderHandles
  <2>2. ASSUME Decodes(read[a].data) PROVE read[a].data \in Calls
    <3>1. read[a].at = "got" /\ read[a] \in {Off, Calling, Waiting}
                                  \cup {Got(x) : x \in Datagrams \cup {Empty}}
      BY <1>12, LocalAssumption DEF TypeOK, BeaconTypeOK, ReaderHandles
    <3>2. PICK x \in Datagrams \cup {Empty} : read[a] = Got(x)
      BY <3>1 DEF Off, Calling, Waiting
    <3>. QED  BY <2>2, <3>2, LocalAssumption DEF Got, Decodes
  <2>3. packets' \in [Accepts -> Seq(Calls)]
    <3>1. packets \in [Accepts -> Seq(Calls)]  BY DEF TypeOK
    <3>2. \/ UNCHANGED packets
          \/ \E k \in Calls : packets' = [packets EXCEPT ![a] = Append(@, k)]
      BY <1>12, <2>2 DEF ReaderHandles
    <3>3. \A k \in Calls : Append(packets[a], k) \in Seq(Calls)  BY <3>1
    <3>4. CASE UNCHANGED packets  BY <3>1, <3>4
    <3>5. ASSUME NEW k \in Calls, packets' = [packets EXCEPT ![a] = Append(@, k)]
          PROVE  packets' \in [Accepts -> Seq(Calls)]
      BY <3>1, <3>3, <3>5
    <3>. QED  BY <3>2, <3>4, <3>5
  <2>. QED  BY <1>12, <2>1, <2>3 DEF TypeOK, ReaderHandles
<1>13. ASSUME NEW a \in Accepts, Register(a) \/ ReadClosed(a),
              UNCHANGED <<worldVars, requesterVars, responderVars, conn>>
       PROVE  TypeOK'
  BY <1>13, BeaconTypes, LocalAssumption DEF TypeOK
<1>. QED  BY <1>1, <1>2, <1>3, <1>4, <1>5, <1>6, <1>7, <1>8, <1>9, <1>10, <1>11, <1>12, <1>13
          DEF ResponderStep, ReaderStep, DispatcherStep, AcceptorStep

\* Every reachable state is well typed.
THEOREM WellTyped == Spec => []TypeOK
<1>1. Init => TypeOK
  <2> SUFFICES ASSUME Init PROVE TypeOK  OBVIOUS
  <2>1. BeaconTypeOK  BY DEF Init, BeaconInit, BeaconTypeOK
  <2>2. conn \in Seq(Connections)  BY DEF Init
  <2>3. packets \in [Accepts -> Seq(Calls)]
    <3>1. <<>> \in Seq(Calls)  OBVIOUS
    <3>. QED  BY <3>1 DEF Init
  <2>4. trusted \in BOOLEAN /\ networks \in [Calls -> Nat] /\ endings \subseteq Endings
    <3>1. PICK world \in Worlds : /\ trusted = world.trusted /\ networks = world.networks
                                  /\ endings = world.endings
      BY Zenon DEF Init
    <3>. QED  BY <3>1, LocalAssumption
  <2>5. counter \in Nat /\ rid \in [Calls -> Nat]  BY DEF Init
  <2>. QED  BY <2>1, <2>2, <2>3, <2>4, <2>5, Zenon DEF Init, TypeOK
<1>2. TypeOK /\ [Next]_vars => TypeOK'
  <2> SUFFICES ASSUME TypeOK, [Next]_vars PROVE TypeOK'  OBVIOUS
  <2> USE DEF fixedVars, worldVars, idVars, requesterVars, responderVars
  <2>b. UNCHANGED beaconVars => BeaconTypeOK'  BY DEF TypeOK, BeaconTypeOK, beaconVars
  <2>1. CASE RequesterStep \/ BrokerStep  BY <2>1, RequesterTypes
  <2>2. CASE ResponderStep \/ \E a \in Accepts : Accept(a) \/ ReaderStep(a)
    BY <2>2, ResponderTypes
  <2>3. ASSUME NEW k \in Calls, Connect(k) \/ Cancel(k) PROVE TypeOK'
    <3>1. CASE Connect(k)
      <4>1. call' = [call EXCEPT ![k] = "register"]  BY <3>1, Zenon DEF Connect
      <4>2. UNCHANGED <<worldVars, responderVars, conn, beaconVars, cancelled, worker,
                        removers, handlers>>
        BY <3>1, Zenon DEF Connect
      <4>3. counter' \in Nat /\ rid' \in [Calls -> Nat]
        BY <3>1 DEF TypeOK, Connect, NextRequestId
      <4>. QED  BY <2>b, <4>1, <4>2, <4>3, Zenon DEF TypeOK
    <3>2. CASE Cancel(k)
      <4>1. /\ cancelled' = cancelled \cup {k} /\ ended' = ended \cup {"context"}
            /\ trouble' = TRUE
        BY <3>2, Zenon DEF Cancel, Ends
      <4>2. UNCHANGED <<fixedVars, idVars, call, worker, removers, handlers, responderVars,
                        conn, beaconVars>>
        BY <3>2, Zenon DEF Cancel
      <4>. QED  BY <2>b, <4>1, <4>2, Zenon DEF TypeOK, Endings
    <3>. QED  BY <2>3, <3>1, <3>2, Zenon
  <2>4. CASE Beacon
    <3>1. BeaconTypeOK'  BY <2>4, BeaconTypes DEF TypeOK, Beacon
    <3>. QED  BY <2>4, <3>1, Zenon DEF TypeOK, Beacon, Ends, Endings
  <2>5. ASSUME NEW device \in {"requester", "responder"}, Close(device) PROVE TypeOK'
    <3>1. BeaconTypeOK'  BY <2>5, <2>b, BeaconTypes DEF TypeOK, Close
    <3>2. ended' \subseteq Endings  BY <2>5 DEF TypeOK, Close, Ends, Endings
    <3>3. conn' \in Seq(Connections)
      <4>1. conn \in Seq(Connections)  BY DEF TypeOK
      <4>2. CASE UNCHANGED conn  BY <4>1, <4>2
      <4>3. ASSUME NEW accepted,
                   conn' = [c \in Conns |->
                               IF c \notin Backlog THEN conn[c]
                               ELSE [conn[c] EXCEPT !.requester =
                                       IF c = accepted THEN "dropped" ELSE "closed"]]
            PROVE  conn' \in Seq(Connections)
        <5>1. ASSUME NEW x \in Connections, NEW q \in {"dropped", "closed"}
              PROVE  [x EXCEPT !.requester = q] \in Connections
          BY DEF Connections
        <5>2. \A c \in Conns : conn[c] \in Connections  BY <4>1 DEF Conns
        <5>3. \A c \in Conns : conn'[c] \in Connections  BY <4>3, <5>1, <5>2, Zenon
        <5>4. conn' = [c \in 1 .. Len(conn) |-> conn'[c]]  BY <4>3 DEF Conns
        <5>. QED  BY <4>1, <5>3, <5>4 DEF Conns
      <4>. QED  BY <2>5, <4>2, <4>3, Zenon DEF Close
    <3>. QED  BY <2>5, <3>1, <3>2, <3>3 DEF TypeOK, Close
  <2>6. CASE UNCHANGED vars  BY <2>6, <2>b DEF vars, TypeOK
  <2>. QED  BY <2>1, <2>2, <2>3, <2>4, <2>5, <2>6 DEF Next
<1>. QED  BY <1>1, <1>2, PTL DEF Spec

-----------------------------------------------------------------------------
(* The calls                                                               *)

\* Only Connect gives out an id, and only it takes a call out of "idle".
LEMMA IdSteps == TypeOK /\ IdInv /\ [Next]_vars => IdInv'
<1> SUFFICES ASSUME TypeOK, IdInv, [Next]_vars PROVE IdInv'  OBVIOUS
<1> USE DEF fixedVars, worldVars, idVars, requesterVars, responderVars, Returns, Ends
<1>t. /\ call \in [Calls -> {"idle", "register", "broadcast", "select", "returned", "panic"}]
      /\ counter \in Nat /\ rid \in [Calls -> Nat]
  BY DEF TypeOK
<1>a. ASSUME UNCHANGED <<idVars, call>> PROVE IdInv'
  BY <1>a DEF IdInv
\* A call goes on.
<1>b. ASSUME UNCHANGED idVars, NEW k \in Calls, NEW w, call[k] # "idle", w # "idle",
             call' = [call EXCEPT ![k] = w]
      PROVE  IdInv'
  <2>1. \A j \in Calls : call'[j] = "idle" <=> call[j] = "idle"  BY <1>t, <1>b
  <2>. QED  BY <1>b, <2>1 DEF IdInv
<1>1. CASE RequesterStep
  <2>1. ASSUME NEW k \in Calls, ConnectFails(k) \/ ConnectReturns(k) PROVE IdInv'
    <3>1. /\ call[k] = "select" /\ call' = [call EXCEPT ![k] = "returned"]
          /\ UNCHANGED idVars
      BY <2>1 DEF ConnectFails, ConnectReturns
    <3>. QED  BY <1>b, <3>1, Zenon
  <2>2. ASSUME NEW k \in Calls, WorkerStep(k) PROVE IdInv'
    BY <2>2, <1>a DEF WorkerStep, WorkerTakes, WorkerStops, WorkerReadsResult, WorkerFails,
                      WorkerCloses
  <2>3. ASSUME NEW c \in Conns, AcceptConn(c) \/ ReadResponse(c) \/ HandleResponseFails(c)
        PROVE  IdInv'
    BY <2>3, <1>a DEF AcceptConn, ReadResponse, HandleResponseFails
  <2>. QED  BY <1>1, <2>1, <2>2, <2>3 DEF RequesterStep
<1>2. CASE BrokerStep
  <2>1. ASSUME NEW k \in Calls, RegisterHandler(k) PROVE IdInv'
    <3>1. /\ call[k] = "register" /\ UNCHANGED idVars
          /\ \E w \in {"panic", "broadcast"} : call' = [call EXCEPT ![k] = w]
      BY <2>1 DEF RegisterHandler
    <3>. QED  BY <1>b, <3>1, Zenon
  <2>2. ASSUME NEW k \in Calls, SendBroadcast(k) PROVE IdInv'
    BY <2>2, <1>b, Zenon DEF SendBroadcast
  <2>3. ASSUME NEW k \in Calls, RemoveHandler(k) PROVE IdInv'
    BY <2>3, <1>a DEF RemoveHandler
  <2>4. ASSUME NEW c \in Conns, RouteResponse(c) PROVE IdInv'
    BY <2>4, <1>a DEF RouteResponse
  <2>. QED  BY <1>2, <2>1, <2>2, <2>3, <2>4 DEF BrokerStep
<1>3. CASE ResponderStep
  <2>1. ASSUME NEW a \in Accepts, DispatcherStep(a) PROVE IdInv'
    BY <2>1, <1>a DEF DispatcherStep, Dispatch, HandleRequestFails, DispatcherStops
  <2>2. ASSUME NEW a \in Accepts, AcceptorStep(a) PROVE IdInv'
    BY <2>2, <1>a DEF AcceptorStep, AcceptorTakes, AcceptorReadsHello, AcceptorStops,
                      AcceptorFails, AcceptorCloses
  <2>3. ASSUME NEW a \in Accepts, AcceptReturns(a) \/ AcceptFails(a) PROVE IdInv'
    BY <2>3, <1>a DEF AcceptReturns, AcceptFails
  <2>. QED  BY <1>3, <2>1, <2>2, <2>3 DEF ResponderStep
<1>4. ASSUME NEW a \in Accepts, Accept(a) \/ ReaderStep(a) PROVE IdInv'
  BY <1>4, <1>a DEF Accept, ReaderStep, ReaderHandles
<1>5. ASSUME NEW k \in Calls, Connect(k) PROVE IdInv'
  <2>1. /\ call[k] = "idle" /\ call' = [call EXCEPT ![k] = "register"]
        /\ counter' = counter + 1 /\ rid' = [rid EXCEPT ![k] = counter + 1]
    BY <1>5, Zenon DEF Connect, NextRequestId
  <2>2. /\ rid'[k] = counter + 1 /\ call'[k] = "register"
        /\ \A j \in Calls : j # k => rid'[j] = rid[j] /\ call'[j] = call[j]
    BY <1>t, <2>1
  \* The counter is ahead of every id in use.
  <2>3. \A j \in Calls : rid[j] <= counter /\ rid[j] \in Nat  BY <1>t DEF IdInv
  <2>4. ASSUME NEW j \in Calls PROVE rid'[j] <= counter' /\ (rid'[j] = 0 <=> call'[j] = "idle")
    <3>1. rid[j] = 0 <=> call[j] = "idle"  BY DEF IdInv
    <3>. QED  BY <1>t, <2>1, <2>2, <2>3, <3>1
  <2>5. ASSUME NEW i \in Calls, NEW j \in Calls, rid'[i] = rid'[j], rid'[i] # 0 PROVE i = j
    <3>1. rid[i] = rid[j] /\ rid[i] # 0 => i = j  BY DEF IdInv
    <3>. QED  BY <1>t, <2>2, <2>3, <2>5, <3>1
  <2>. QED  BY <2>4, <2>5 DEF IdInv
<1>6. ASSUME NEW k \in Calls, Cancel(k) PROVE IdInv'
  BY <1>6, <1>a DEF Cancel
<1>7. CASE Beacon  BY <1>7, <1>a DEF Beacon
<1>8. ASSUME NEW device \in {"requester", "responder"}, Close(device) PROVE IdInv'
  BY <1>8, <1>a DEF Close
<1>9. CASE UNCHANGED vars  BY <1>9, <1>a DEF vars
<1>. QED  BY <1>1, <1>2, <1>3, <1>4, <1>5, <1>6, <1>7, <1>8, <1>9 DEF Next

\* What responseBroker finds under the id of a call is the call's own handler.
LEMMA OwnHandler ==
    ASSUME TypeOK, IdInv, CallInv, NEW k \in Calls
    PROVE  HandlersFor(rid[k]) = handlers \cap {k}
<1>1. ASSUME NEW h \in handlers, rid[h] = rid[k] PROVE h = k
  <2>1. h \in Calls  BY DEF TypeOK
  <2>2. call[h] # "idle"  BY <2>1, Zenon DEF CallInv
  <2>3. rid[h] # 0  BY <2>1, <2>2, Zenon DEF IdInv
  <2>. QED  BY <1>1, <2>1, <2>3, Zenon DEF IdInv
<1>. QED  BY <1>1 DEF HandlersFor

\* The steps of the calls themselves, of the handlers and of the goroutines.
LEMMA CallSteps == TypeOK /\ IdInv /\ CallInv /\ [Next]_vars => CallInv'
<1> SUFFICES ASSUME TypeOK, IdInv, CallInv, [Next]_vars PROVE CallInv'  OBVIOUS
<1> USE DEF fixedVars, worldVars, idVars, requesterVars, responderVars, Returns, Done, Ends
<1>t. /\ call \in [Calls -> {"idle", "register", "broadcast", "select", "returned", "panic"}]
      /\ worker \in [Calls -> {"off", "accept", "result", "offer", "gone"}]
      /\ accept \in [Accepts -> {"idle", "select", "returned"}]
      /\ acceptor \in [Accepts -> {"off", "accept", "hello", "offer", "gone"}]
  BY DEF TypeOK
<1>a. ASSUME UNCHANGED <<call, worker, handlers, accept, acceptor>>, ended \subseteq ended',
             cancelled \subseteq cancelled'
      PROVE  CallInv'
  BY <1>a DEF CallInv
\* A step of the requester leaves the Accept calls alone, and the other way
\* round.
<1>b. ASSUME UNCHANGED <<accept, acceptor, ended>>, NEW k \in Calls,
             \A j \in Calls : j # k => call'[j] = call[j] /\ worker'[j] = worker[j],
             \A j \in Calls : j # k => (j \in handlers' <=> j \in handlers),
             cancelled \subseteq cancelled',
             k \in handlers' => call'[k] \notin {"idle", "register"},
             call'[k] # "panic",
             call'[k] \in {"broadcast", "select"} => k \in handlers' \cup cancelled',
             call'[k] \in {"idle", "register", "broadcast"} => worker'[k] = "off"
      PROVE  CallInv'
  BY <1>b DEF CallInv
<1>c. ASSUME UNCHANGED <<call, worker, handlers, cancelled, ended>>, NEW a \in Accepts,
             \A b \in Accepts : b # a => accept'[b] = accept[b] /\ acceptor'[b] = acceptor[b],
             accept'[a] = "idle" => acceptor'[a] = "off",
             accept'[a] = "returned" /\ acceptor'[a] # "gone" => "responder" \in ended
      PROVE  CallInv'
  BY <1>c DEF CallInv
<1> HIDE DEF CallInv
<1>1. CASE RequesterStep
  <2>1. ASSUME NEW k \in Calls, ConnectFails(k) PROVE CallInv'
    <3>1. /\ call' = [call EXCEPT ![k] = "returned"] /\ cancelled \subseteq cancelled'
          /\ UNCHANGED <<accept, acceptor, ended, worker, handlers>>
      BY <2>1 DEF ConnectFails
    <3>. QED  BY <3>1, <1>b, <1>t
  <2>2. ASSUME NEW k \in Calls, ConnectReturns(k) PROVE CallInv'
    <3>1. /\ call' = [call EXCEPT ![k] = "returned"] /\ cancelled \subseteq cancelled'
          /\ worker' = [worker EXCEPT ![k] = "gone"]
          /\ UNCHANGED <<accept, acceptor, ended, handlers>>
      BY <2>2 DEF ConnectReturns
    <3>. QED  BY <3>1, <1>b, <1>t
  <2>3. ASSUME NEW k \in Calls, WorkerStep(k) PROVE CallInv'
    <3>1. /\ UNCHANGED <<accept, acceptor, ended, call, cancelled, handlers>>
          /\ worker[k] # "off"
          /\ UNCHANGED worker \/ \E w : worker' = [worker EXCEPT ![k] = w]
      BY <2>3, Zenon DEF WorkerStep, WorkerTakes, WorkerStops, WorkerReadsResult, WorkerFails,
                  WorkerCloses
    <3>. QED  BY <3>1, <1>t DEF CallInv
  <2>4. ASSUME NEW c \in Conns, AcceptConn(c) \/ ReadResponse(c) \/ HandleResponseFails(c)
        PROVE  CallInv'
    BY <2>4, <1>a DEF AcceptConn, ReadResponse, HandleResponseFails
  <2>. QED  BY <1>1, <2>1, <2>2, <2>3, <2>4 DEF RequesterStep
<1>2. CASE BrokerStep
  <2>1. ASSUME NEW k \in Calls, RegisterHandler(k) PROVE CallInv'
    <3>1. k \notin handlers /\ worker[k] = "off"  BY <2>1 DEF RegisterHandler, CallInv
    <3>2. HandlersFor(rid[k]) = {}  BY <3>1, OwnHandler
    <3>3. /\ call' = [call EXCEPT ![k] = "broadcast"] /\ handlers' = handlers \cup {k}
          /\ UNCHANGED <<accept, acceptor, ended, cancelled, worker>>
      BY <2>1, <3>2 DEF RegisterHandler
    <3>. QED  BY <3>1, <3>3, <1>b, <1>t
  <2>2. ASSUME NEW k \in Calls, SendBroadcast(k) PROVE CallInv'
    <3>1. k \in handlers \cup cancelled  BY <2>2, Zenon DEF SendBroadcast, CallInv
    <3>2. /\ call[k] = "broadcast" /\ call' = [call EXCEPT ![k] = "select"]
          /\ worker' = [worker EXCEPT ![k] = "accept"]
          /\ UNCHANGED <<accept, acceptor, ended, cancelled, handlers>>
      BY <2>2 DEF SendBroadcast
    <3>. QED  BY <3>1, <3>2, <1>b, <1>t
  <2>3. ASSUME NEW k \in Calls, RemoveHandler(k) PROVE CallInv'
    <3>1. HandlersFor(rid[k]) = handlers \cap {k}  BY OwnHandler
    <3>2. /\ k \in cancelled /\ handlers' = handlers \ {k}
          /\ UNCHANGED <<accept, acceptor, ended, call, cancelled, worker>>
      BY <2>3, <3>1 DEF RemoveHandler
    <3>. QED  BY <3>2 DEF CallInv
  <2>4. ASSUME NEW c \in Conns, RouteResponse(c) PROVE CallInv'
    BY <2>4, <1>a DEF RouteResponse
  <2>. QED  BY <1>2, <2>1, <2>2, <2>3, <2>4 DEF BrokerStep
<1>3. CASE ResponderStep
  <2>1. ASSUME NEW a \in Accepts, DispatcherStep(a) PROVE CallInv'
    BY <2>1, <1>a DEF DispatcherStep, Dispatch, HandleRequestFails, DispatcherStops
  <2>2. ASSUME NEW a \in Accepts, AcceptorStep(a)
        PROVE  CallInv'
    <3>1. /\ UNCHANGED <<call, worker, handlers, cancelled, ended, accept>>
          /\ acceptor[a] # "off"
          /\ \E w \in {"hello", "offer", "gone", "accept"} :
                 acceptor' = [acceptor EXCEPT ![a] = w]
          /\ acceptor[a] # "gone"
      BY <2>2 DEF AcceptorStep, AcceptorTakes, AcceptorReadsHello, AcceptorStops,
                  AcceptorFails, AcceptorCloses
    <3>. QED  BY <3>1, <1>t DEF CallInv
  <2>3. ASSUME NEW a \in Accepts, AcceptReturns(a) PROVE CallInv'
    BY <2>3, <1>c, <1>t DEF AcceptReturns
  <2>4. ASSUME NEW a \in Accepts, AcceptFails(a) PROVE CallInv'
    BY <2>4, <1>c, <1>t DEF AcceptFails
  <2>. QED  BY <1>3, <2>1, <2>2, <2>3, <2>4 DEF ResponderStep
<1>4. ASSUME NEW a \in Accepts, Accept(a) PROVE CallInv'
  BY <1>4, <1>c, <1>t DEF Accept
<1>5. ASSUME NEW a \in Accepts, ReaderStep(a) PROVE CallInv'
  BY <1>5, <1>a DEF ReaderStep, ReaderHandles
<1>6. ASSUME NEW k \in Calls, Connect(k) PROVE CallInv'
  <2>1. call[k] = "idle"  BY <1>6 DEF Connect
  <2>2. k \notin handlers /\ worker[k] = "off"  BY <2>1 DEF CallInv
  <2>. QED  BY <1>6, <2>2, <1>b, <1>t DEF Connect
<1>7. ASSUME NEW k \in Calls, Cancel(k) PROVE CallInv'
  BY <1>7, <1>a DEF Cancel
<1>8. CASE Beacon  BY <1>8, <1>a DEF Beacon
<1>9. ASSUME NEW device \in {"requester", "responder"}, Close(device) PROVE CallInv'
  BY <1>9, <1>a DEF Close
<1>10. CASE UNCHANGED vars  BY <1>10, <1>a DEF vars
<1>. QED  BY <1>1, <1>2, <1>3, <1>4, <1>5, <1>6, <1>7, <1>8, <1>9, <1>10 DEF Next

-----------------------------------------------------------------------------
(* The connections                                                         *)

\* A connection that no step touches, with the goroutines that hold it where they were.
LEMMA HandshakeStays ==
    ASSUME NEW d \in Conns, HandshakeInv(d), conn'[d] = conn[d], UNCHANGED trusted,
           ended \subseteq ended',
           conn[d].requester \in {"worker", "user"} =>
               worker'[conn[d].request] = worker[conn[d].request],
           conn[d].responder = "worker" \/ conn[d].wrote \in Results =>
               acceptor'[conn[d].by] = acceptor[conn[d].by]
    PROVE  HandshakeInv(d)'
BY DEF HandshakeInv

\* The requester closes its end of a connection.
LEMMA RequesterCloses ==
    ASSUME NEW c \in Conns, HandshakeInv(c), UNCHANGED <<acceptor, trusted, ended>>,
           conn'[c].requester = "closed", conn'[c].responder = conn[c].responder,
           conn'[c].wrote = conn[c].wrote, conn'[c].by = conn[c].by,
           conn'[c].request = conn[c].request, conn'[c].handler = conn[c].handler
    PROVE  HandshakeInv(c)'
BY DEF HandshakeInv

\* The responder closes its end of a connection, and the worker that held it
\* is gone.
LEMMA ResponderCloses ==
    ASSUME NEW c \in Conns, HandshakeInv(c), UNCHANGED <<worker, trusted>>,
           conn'[c].responder = "closed", conn'[c].requester = conn[c].requester,
           conn'[c].wrote = conn[c].wrote, conn'[c].by = conn[c].by,
           conn'[c].request = conn[c].request, conn'[c].handler = conn[c].handler,
           "responder" \in ended', acceptor'[conn[c].by] = "gone", UNCHANGED ended
    PROVE  HandshakeInv(c)'
BY DEF HandshakeInv

\* A step that touches no connection, and changes only goroutines that hold
\* none.
LEMMA NoConnection ==
    ASSUME ConnectionsInv, UNCHANGED <<conn, trusted>>, ended \subseteq ended',
           \A d \in Conns : conn[d].requester \in {"worker", "user"} =>
               worker'[conn[d].request] = worker[conn[d].request],
           \A d \in Conns : conn[d].responder = "worker" \/ conn[d].wrote \in Results =>
               acceptor'[conn[d].by] = acceptor[conn[d].by]
    PROVE  ConnectionsInv'
<1>1. Conns' = Conns  BY DEF Conns
<1>2. ASSUME NEW d \in Conns PROVE HandshakeInv(d)'
  <2>1. HandshakeInv(d)  BY DEF ConnectionsInv
  <2>. QED  BY <2>1 DEF HandshakeInv
<1>3. ASSUME NEW c \in Conns, NEW d \in Conns, c # d PROVE ExclusiveInv(c, d)'
  <2>1. ExclusiveInv(c, d)  BY <1>3 DEF ConnectionsInv
  <2>. QED  BY <2>1 DEF ExclusiveInv
<1>. QED  BY <1>1, <1>2, <1>3 DEF ConnectionsInv

\* A step on connection c, by the goroutines that hold c and no other.
LEMMA OnConnection ==
    ASSUME ConnectionsInv, UNCHANGED trusted, ended \subseteq ended', NEW c \in Conns,
           Len(conn') = Len(conn), \A d \in Conns : d # c => conn'[d] = conn[d],
           conn'[c].by = conn[c].by, conn'[c].request = conn[c].request,
           \A d \in Conns : d # c /\ conn[d].requester \in {"worker", "user"} =>
               worker'[conn[d].request] = worker[conn[d].request],
           \A d \in Conns : d # c /\ (conn[d].responder = "worker" \/ conn[d].wrote \in Results) =>
               acceptor'[conn[d].by] = acceptor[conn[d].by],
           HandshakeInv(c)',
           conn'[c].responder = "worker" /\ conn[c].responder # "worker" =>
               \A d \in Conns : conn[d].responder = "worker" => conn[d].by # conn[c].by,
           conn'[c].wrote \in Results /\ conn[c].wrote \notin Results =>
               \A d \in Conns : conn[d].wrote \in Results => conn[d].by # conn[c].by,
           conn'[c].requester \in {"worker", "user"}
                 /\ conn[c].requester \notin {"worker", "user"} =>
               \A d \in Conns : conn[d].requester \in {"worker", "user"} =>
                   conn[d].request # conn[c].request
    PROVE  ConnectionsInv'
<1>1. Conns' = Conns  BY Zenon DEF Conns
<1>2. ASSUME NEW d \in Conns PROVE HandshakeInv(d)'
  <2>1. HandshakeInv(d)  BY DEF ConnectionsInv
  <2>2. CASE d # c  BY <2>1, <2>2, HandshakeStays, Zenon
  <2>. QED  BY <2>2, Zenon
<1>3. ASSUME NEW e \in Conns, NEW d \in Conns, e # d PROVE ExclusiveInv(e, d)'
  <2>1. ExclusiveInv(e, d)  BY <1>3, Zenon DEF ConnectionsInv
  <2>2. CASE e = c
    <3>0. conn'[d] = conn[d]  BY <1>3, <2>2, Zenon
    <3>1. conn'[e].responder = "worker" /\ conn'[d].responder = "worker"
             => conn'[e].by # conn'[d].by
      BY <2>1, <2>2, <3>0, Zenon DEF ExclusiveInv
    <3>2. conn'[e].wrote \in Results /\ conn'[d].wrote \in Results
             => conn'[e].by # conn'[d].by
      BY <2>1, <2>2, <3>0, Zenon DEF ExclusiveInv
    <3>3. conn'[e].requester \in {"worker", "user"} /\ conn'[d].requester \in {"worker", "user"}
             => conn'[e].request # conn'[d].request
      BY <2>1, <2>2, <3>0, Zenon DEF ExclusiveInv
    <3>. QED  BY <3>1, <3>2, <3>3, Zenon DEF ExclusiveInv
  <2>3. CASE d = c  BY <1>3, <2>1, <2>3 DEF ExclusiveInv
  <2>4. CASE e # c /\ d # c  BY <2>1, <2>4 DEF ExclusiveInv
  <2>. QED  BY <2>2, <2>3, <2>4, Zenon
<1>. QED  BY <1>1, <1>2, <1>3, Zenon DEF ConnectionsInv

\* The steps of a Connect call, its worker and the broker.
LEMMA RequesterConnections ==
    ASSUME TypeOK, IdInv, CallInv, ConnectionsInv, RequesterStep \/ BrokerStep
    PROVE  ConnectionsInv'
<1> USE DEF fixedVars, worldVars, idVars, requesterVars, responderVars, Returns
<1>t. /\ conn \in Seq(Connections) /\ \A c \in Conns : conn[c] \in Connections
      /\ worker \in [Calls -> {"off", "accept", "result", "offer", "gone"}]
  BY DEF TypeOK, Conns
<1>h. \A c \in Conns : HandshakeInv(c)  BY DEF ConnectionsInv
<1>e. \A c, d \in Conns : c # d => ExclusiveInv(c, d)  BY DEF ConnectionsInv
\* A worker holds a connection that answers the request of its call.
<1>o. ASSUME NEW k \in Calls, NEW c \in Conns, WorkersConn(k, c) PROVE conn[c].request = k
  BY <1>h, <1>o DEF HandshakeInv, WorkersConn
\* Only the requester's end of c changes.
<1>r. ASSUME NEW c \in Conns, NEW q \in RequesterEnds,
             conn' = [conn EXCEPT ![c].requester = q]
      PROVE  /\ Len(conn') = Len(conn) /\ conn'[c].requester = q
             /\ conn'[c].responder = conn[c].responder /\ conn'[c].wrote = conn[c].wrote
             /\ conn'[c].by = conn[c].by /\ conn'[c].request = conn[c].request
             /\ conn'[c].handler = conn[c].handler
             /\ \A d \in Conns : d # c => conn'[d] = conn[d]
  BY <1>t, <1>r, OneEnd, Zenon
\* A worker without a connection changes its state.
<1>w. ASSUME NEW k \in Calls, worker[k] \in {"off", "accept"}, NEW w,
             worker' = [worker EXCEPT ![k] = w]
      PROVE  \A d \in Conns : conn[d].requester \in {"worker", "user"} =>
                 /\ conn[d].request # k
                 /\ worker'[conn[d].request] = worker[conn[d].request]
  <2> SUFFICES ASSUME NEW d \in Conns, conn[d].requester \in {"worker", "user"}
               PROVE  /\ conn[d].request # k
                      /\ worker'[conn[d].request] = worker[conn[d].request]
    OBVIOUS
  <2>1. HandshakeInv(d) /\ conn[d].request \in Calls  BY <1>h, <1>t DEF Connections
  <2>2. conn[d].request # k  BY <1>w, <2>1 DEF HandshakeInv
  <2>. QED  BY <1>t, <1>w, <2>1, <2>2
\* The worker of call k changes its state, together with its connection c.
<1>x. ASSUME NEW k \in Calls, NEW c \in Conns, WorkersConn(k, c), NEW w,
             worker' = [worker EXCEPT ![k] = w]
      PROVE  \A d \in Conns : d # c /\ conn[d].requester \in {"worker", "user"} =>
                 worker'[conn[d].request] = worker[conn[d].request]
  <2> SUFFICES ASSUME NEW d \in Conns, d # c, conn[d].requester \in {"worker", "user"}
               PROVE  worker'[conn[d].request] = worker[conn[d].request]
    OBVIOUS
  <2>1. ExclusiveInv(c, d) /\ conn[d].request \in Calls  BY <1>e, <1>t DEF Connections
  <2>2. conn[d].request # k  BY <1>o, <1>x, <2>1 DEF ExclusiveInv, WorkersConn
  <2>. QED  BY <1>t, <1>x, <2>1, <2>2
<1>1. ASSUME NEW k \in Calls, ConnectFails(k) \/ RegisterHandler(k) \/ RemoveHandler(k)
      PROVE  ConnectionsInv'
  BY <1>1, NoConnection DEF ConnectFails, RegisterHandler, RemoveHandler
<1>2. ASSUME NEW k \in Calls, SendBroadcast(k) PROVE ConnectionsInv'
  <2>1. worker[k] = "off"  BY <1>2, Zenon DEF SendBroadcast, CallInv
  <2>2. /\ worker' = [worker EXCEPT ![k] = "accept"]
        /\ UNCHANGED <<conn, trusted, ended, acceptor>>
    BY <1>2 DEF SendBroadcast
  <2>. QED  BY <1>w, <2>1, <2>2, NoConnection, Zenon
<1>3. ASSUME NEW k \in Calls, WorkerStops(k) PROVE ConnectionsInv'
  <2>1. /\ worker[k] = "accept" /\ worker' = [worker EXCEPT ![k] = "gone"]
        /\ UNCHANGED <<conn, trusted, ended, acceptor>>
    BY <1>3 DEF WorkerStops
  <2>. QED  BY <1>w, <2>1, NoConnection, Zenon
<1>4. ASSUME NEW c \in Conns, NEW q \in RequesterEnds,
             conn' = [conn EXCEPT ![c].requester = q],
             UNCHANGED <<worker, acceptor, trusted, ended>>,
             \/ conn[c].requester = "backlog" /\ q = "reading"
             \/ conn[c].requester = "reading" /\ conn[c].wrote = "Response" /\ q = "sending"
             \/ q \in {"closed", "dropped", "unhandled"}
      PROVE  ConnectionsInv'
  <2>1. /\ Len(conn') = Len(conn) /\ conn'[c].requester = q
        /\ conn'[c].responder = conn[c].responder /\ conn'[c].wrote = conn[c].wrote
        /\ conn'[c].by = conn[c].by /\ conn'[c].request = conn[c].request
        /\ conn'[c].handler = conn[c].handler
        /\ \A d \in Conns : d # c => conn'[d] = conn[d]
    BY <1>4, <1>r, Zenon
  <2>2. q \notin {"worker", "user"}  BY <1>4
  <2>3. HandshakeInv(c)'
    <3>1. HandshakeInv(c)  BY <1>h
    <3>. QED  BY <1>4, <2>1, <3>1 DEF HandshakeInv
  <2>. QED  BY <1>4, <2>1, <2>2, <2>3, OnConnection
<1>a. ASSUME NEW c \in Conns, AcceptConn(c) \/ ReadResponse(c) \/ HandleResponseFails(c)
      PROVE  ConnectionsInv'
  <2>1. \E q \in RequesterEnds :
           /\ conn' = [conn EXCEPT ![c].requester = q]
           /\ \/ conn[c].requester = "backlog" /\ q = "reading"
              \/ conn[c].requester = "reading" /\ conn[c].wrote = "Response" /\ q = "sending"
              \/ q \in {"closed", "dropped", "unhandled"}
    BY <1>a DEF AcceptConn, ReadResponse, HandleResponseFails, RequesterEnds
  <2>2. UNCHANGED <<worker, acceptor, trusted, ended>>
    BY <1>a DEF AcceptConn, ReadResponse, HandleResponseFails
  <2>. QED  BY <1>4, <2>1, <2>2, Zenon
<1>b. ASSUME NEW c \in Conns, RouteResponse(c) PROVE ConnectionsInv'
  <2>1. conn[c].requester = "sending" /\ UNCHANGED <<worker, acceptor, trusted, ended>>
    BY <1>b DEF RouteResponse
  <2>2. conn[c].request \in Calls  BY <1>t DEF Connections
  <2>3. CASE conn' = [conn EXCEPT ![c].requester = "dropped"]
    BY <1>4, <2>1, <2>3, Zenon DEF RequesterEnds
  <2>4. CASE conn' = RoutedTo(c, conn[c].request)
    <3>1. /\ Len(conn') = Len(conn) /\ conn'[c].requester = "handling"
          /\ conn'[c].handler = conn[c].request
          /\ conn'[c].responder = conn[c].responder /\ conn'[c].wrote = conn[c].wrote
          /\ conn'[c].by = conn[c].by /\ conn'[c].request = conn[c].request
          /\ \A d \in Conns : d # c => conn'[d] = conn[d]
      BY <1>t, <2>2, <2>4, Routed, Zenon
    <3>2. HandshakeInv(c)'
      <4>1. HandshakeInv(c)  BY <1>h
      <4>. QED  BY <2>1, <3>1, <4>1 DEF HandshakeInv
    <3>. QED  BY <2>1, <3>1, <3>2, OnConnection
  <2>5. \/ conn' = [conn EXCEPT ![c].requester = "dropped"]
        \/ \E h \in HandlersFor(rid[conn[c].request]) : conn' = RoutedTo(c, h)
    BY <1>b, Zenon DEF RouteResponse, RoutedTo
  <2>6. \A h \in HandlersFor(rid[conn[c].request]) : h = conn[c].request
    BY <2>2, OwnHandler
  <2>. QED  BY <2>3, <2>4, <2>5, <2>6, Zenon
<1>5. ASSUME NEW k \in Calls, WorkerTakes(k) PROVE ConnectionsInv'
  <2>0. PICK c \in Conns :
           /\ conn[c].requester = "handling" /\ conn[c].handler = k
           /\ conn[c].request = k => conn' = RequesterWrites(c, "worker", "Hello")
           /\ conn[c].request = k => worker' = [worker EXCEPT ![k] = "result"]
    BY <1>5, Zenon DEF WorkerTakes, RequesterWrites
  <2>h. conn[c].request = k
    <3>1. HandshakeInv(c)  BY <1>h
    <3>. QED  BY <2>0, <3>1 DEF HandshakeInv
  <2>1. /\ conn[c].requester = "handling" /\ conn[c].request = k /\ conn[c].handler = k
        /\ conn' = RequesterWrites(c, "worker", "Hello")
    BY <2>0, <2>h, Zenon
  <2>3. /\ Len(conn') = Len(conn) /\ conn'[c].requester = "worker"
        /\ conn'[c].responder = conn[c].responder /\ conn'[c].wrote = "Hello"
        /\ conn'[c].by = conn[c].by /\ conn'[c].request = conn[c].request
        /\ conn'[c].handler = conn[c].handler
        /\ \A d \in Conns : d # c => conn'[d] = conn[d]
    <3>1. conn \in Seq(Connections) /\ "worker" \in RequesterEnds /\ "Hello" \in Messages
      BY <1>t, Zenon DEF RequesterEnds, Messages
    <3>. QED  BY <2>1, <3>1, EndAndMessage, Zenon
  <2>4. /\ worker[k] = "accept" /\ worker' = [worker EXCEPT ![k] = "result"]
        /\ UNCHANGED <<acceptor, trusted, ended>>
    BY <1>5, <2>0, <2>h DEF WorkerTakes
  <2>5. HandshakeInv(c)'
    <3>1. HandshakeInv(c) /\ worker'[k] = "result"  BY <1>h, <1>t, <2>4
    <3>. QED  BY <2>1, <2>3, <2>4, <3>1 DEF HandshakeInv, Results
  <2>6. /\ conn'[c].wrote \notin Results
        /\ conn'[c].responder = "worker" => conn[c].responder = "worker"
    BY <2>3 DEF Results
  <2>7. \A d \in Conns : conn[d].requester \in {"worker", "user"} =>
             conn[d].request # conn[c].request
    BY <1>w, <2>1, <2>4, Zenon
  <2>. QED  BY <1>w, <2>3, <2>4, <2>5, <2>6, <2>7, OnConnection, Zenon
<1>6. ASSUME NEW k \in Calls, WorkerReadsResult(k) PROVE ConnectionsInv'
  <2>1. PICK c \in Conns :
           /\ WorkersConn(k, c) /\ conn[c].wrote \in {"Ok", "Refused"}
           /\ IF Granted(conn[c].wrote)
                THEN /\ worker' = [worker EXCEPT ![k] = "offer"]
                     /\ UNCHANGED conn
                ELSE /\ worker' = [worker EXCEPT ![k] = "accept"]
                     /\ conn' = [conn EXCEPT ![c].requester = "closed"]
    BY <1>6 DEF WorkerReadsResult
  <2>2. worker[k] = "result" /\ UNCHANGED <<acceptor, trusted, ended>>
    BY <1>6 DEF WorkerReadsResult
  <2>3. CASE conn[c].wrote = "Ok"
    <3>1. worker' = [worker EXCEPT ![k] = "offer"] /\ UNCHANGED conn
      BY <2>1, <2>3 DEF Granted
    <3>2. HandshakeInv(c)'
      <4>1. HandshakeInv(c) /\ worker'[k] = "offer"  BY <1>h, <1>t, <3>1
      <4>2. conn[c].request = k  BY <1>o, <2>1
      <4>. QED  BY <2>1, <2>2, <2>3, <3>1, <4>1, <4>2 DEF HandshakeInv, WorkersConn
    <3>. QED  BY <1>x, <2>1, <2>2, <3>1, <3>2, OnConnection, Zenon
  <2>4. CASE conn[c].wrote = "Refused"
    <3>1. /\ worker' = [worker EXCEPT ![k] = "accept"]
          /\ conn' = [conn EXCEPT ![c].requester = "closed"]
      BY <2>1, <2>4 DEF Granted
    <3>2. /\ Len(conn') = Len(conn) /\ conn'[c].requester = "closed"
          /\ conn'[c].responder = conn[c].responder /\ conn'[c].wrote = conn[c].wrote
          /\ conn'[c].by = conn[c].by /\ conn'[c].request = conn[c].request
          /\ conn'[c].handler = conn[c].handler
          /\ \A d \in Conns : d # c => conn'[d] = conn[d]
      BY <1>r, <3>1, Zenon DEF RequesterEnds
    <3>3. HandshakeInv(c)'  BY <1>h, <2>2, <3>2, RequesterCloses, Zenon
    <3>. QED  BY <1>x, <2>1, <2>2, <3>1, <3>2, <3>3, OnConnection, Zenon
  <2>. QED  BY <2>1, <2>3, <2>4
<1>7. ASSUME NEW k \in Calls, WorkerFails(k) \/ WorkerCloses(k) PROVE ConnectionsInv'
  <2>1. PICK c \in Conns :
           WorkersConn(k, c) /\ conn' = [conn EXCEPT ![c].requester = "closed"]
    BY <1>7 DEF WorkerFails, WorkerCloses
  <2>2. PICK w : /\ worker' = [worker EXCEPT ![k] = w]
                 /\ UNCHANGED <<acceptor, trusted, ended>>
    BY <1>7 DEF WorkerFails, WorkerCloses
  <2>3. /\ Len(conn') = Len(conn) /\ conn'[c].requester = "closed"
        /\ conn'[c].responder = conn[c].responder /\ conn'[c].wrote = conn[c].wrote
        /\ conn'[c].by = conn[c].by /\ conn'[c].request = conn[c].request
        /\ conn'[c].handler = conn[c].handler
        /\ \A d \in Conns : d # c => conn'[d] = conn[d]
    BY <1>r, <2>1, Zenon DEF RequesterEnds
  <2>4. HandshakeInv(c)'  BY <1>h, <2>2, <2>3, RequesterCloses, Zenon
  <2>5. \A d \in Conns : d # c /\ conn[d].requester \in {"worker", "user"} =>
             worker'[conn[d].request] = worker[conn[d].request]
    BY <1>x, <2>1, <2>2, Zenon
  <2>6. conn'[c].requester \notin {"worker", "user"}  BY <2>3, Zenon
  <2>. QED  BY <2>2, <2>3, <2>4, <2>5, <2>6, OnConnection, Zenon
<1>8. ASSUME NEW k \in Calls, ConnectReturns(k) PROVE ConnectionsInv'
  <2>1. PICK c \in Conns :
           WorkersConn(k, c) /\ conn' = [conn EXCEPT ![c].requester = "user"]
    BY <1>8, Zenon DEF ConnectReturns
  <2>2. /\ worker[k] = "offer" /\ worker' = [worker EXCEPT ![k] = "gone"]
        /\ UNCHANGED <<acceptor, trusted, ended>>
    BY <1>8 DEF ConnectReturns
  <2>3. /\ Len(conn') = Len(conn) /\ conn'[c].requester = "user"
        /\ conn'[c].responder = conn[c].responder /\ conn'[c].wrote = conn[c].wrote
        /\ conn'[c].by = conn[c].by /\ conn'[c].request = conn[c].request
        /\ conn'[c].handler = conn[c].handler
        /\ \A d \in Conns : d # c => conn'[d] = conn[d]
    BY <1>r, <2>1, Zenon DEF RequesterEnds
  <2>4. HandshakeInv(c)'
    <3>1. HandshakeInv(c) /\ worker'[k] = "gone"  BY <1>h, <1>t, <2>2
    <3>2. conn[c].request = k  BY <1>o, <2>1
    <3>. QED  BY <2>1, <2>2, <2>3, <3>1, <3>2 DEF HandshakeInv, WorkersConn
  <2>5. conn[c].requester = "worker"  BY <2>1 DEF WorkersConn
  <2>. QED  BY <1>x, <2>1, <2>2, <2>3, <2>4, <2>5, OnConnection, Zenon
<1>. QED  BY <1>1, <1>2, <1>3, <1>a, <1>b, <1>5, <1>6, <1>7, <1>8
          DEF RequesterStep, BrokerStep, WorkerStep

\* The steps of an Accept call and its goroutines.
LEMMA ResponderConnections ==
    ASSUME TypeOK, CallInv, ConnectionsInv,
           ResponderStep \/ \E a \in Accepts : Accept(a) \/ ReaderStep(a)
    PROVE  ConnectionsInv'
<1> USE DEF fixedVars, worldVars, idVars, requesterVars, responderVars
<1>t. /\ conn \in Seq(Connections) /\ \A c \in Conns : conn[c] \in Connections
      /\ acceptor \in [Accepts -> {"off", "accept", "hello", "offer", "gone"}]
  BY DEF TypeOK, Conns
<1>h. \A c \in Conns : HandshakeInv(c)  BY DEF ConnectionsInv
<1>e. \A c, d \in Conns : c # d => ExclusiveInv(c, d)  BY DEF ConnectionsInv
\* Only the responder's end of c changes.
<1>r. ASSUME NEW c \in Conns, NEW p \in ResponderEnds,
             conn' = [conn EXCEPT ![c].responder = p]
      PROVE  /\ Len(conn') = Len(conn) /\ conn'[c].responder = p
             /\ conn'[c].requester = conn[c].requester /\ conn'[c].wrote = conn[c].wrote
             /\ conn'[c].by = conn[c].by /\ conn'[c].request = conn[c].request
             /\ conn'[c].handler = conn[c].handler
             /\ \A d \in Conns : d # c => conn'[d] = conn[d]
  BY <1>t, <1>r, OneEnd, Zenon
\* An acceptor without a connection changes its state.
<1>w. ASSUME NEW a \in Accepts, acceptor[a] \in {"off", "accept"}, NEW w,
             acceptor' = [acceptor EXCEPT ![a] = w]
      PROVE  \A d \in Conns : conn[d].responder = "worker" \/ conn[d].wrote \in Results =>
                 /\ conn[d].by # a
                 /\ acceptor'[conn[d].by] = acceptor[conn[d].by]
  <2> SUFFICES ASSUME NEW d \in Conns, conn[d].responder = "worker" \/ conn[d].wrote \in Results
               PROVE  /\ conn[d].by # a
                      /\ acceptor'[conn[d].by] = acceptor[conn[d].by]
    OBVIOUS
  <2>1. HandshakeInv(d) /\ conn[d].by \in Accepts  BY <1>h, <1>t DEF Connections
  <2>2. conn[d].by # a  BY <1>w, <2>1, Zenon DEF HandshakeInv
  <2>. QED  BY <1>t, <1>w, <2>1, <2>2
\* The acceptor of call a changes its state, together with its connection c.
<1>x. ASSUME NEW a \in Accepts, NEW c \in Conns, AcceptorsConn(a, c), NEW w,
             acceptor' = [acceptor EXCEPT ![a] = w]
      PROVE  \A d \in Conns : d # c /\ (conn[d].responder = "worker" \/ conn[d].wrote \in Results) =>
                 /\ conn[d].by # a
                 /\ acceptor'[conn[d].by] = acceptor[conn[d].by]
  <2> SUFFICES ASSUME NEW d \in Conns, d # c,
                      conn[d].responder = "worker" \/ conn[d].wrote \in Results
               PROVE  /\ conn[d].by # a
                      /\ acceptor'[conn[d].by] = acceptor[conn[d].by]
    BY Zenon
  <2>1. /\ ExclusiveInv(c, d) /\ conn[d].by \in Accepts
        /\ HandshakeInv(c) /\ HandshakeInv(d)
    BY <1>e, <1>h, <1>t DEF Connections
  <2>2. conn[d].by # a
    BY <1>x, <2>1, Zenon DEF ExclusiveInv, HandshakeInv, AcceptorsConn, Results
  <2>. QED  BY <1>t, <1>x, <2>1, <2>2, Zenon
<1>1. ASSUME NEW a \in Accepts, DispatcherStops(a) \/ AcceptFails(a) \/ ReaderStep(a)
      PROVE  ConnectionsInv'
  BY <1>1, NoConnection, Zenon
     DEF DispatcherStops, AcceptFails, ReaderStep, ReaderHandles
<1>2. ASSUME NEW a \in Accepts, Accept(a) PROVE ConnectionsInv'
  <2>1. acceptor[a] = "off"  BY <1>2, Zenon DEF Accept, CallInv
  <2>2. /\ acceptor' = [acceptor EXCEPT ![a] = "accept"]
        /\ UNCHANGED <<conn, trusted, ended, worker>>
    BY <1>2 DEF Accept
  <2>. QED  BY <1>w, <2>1, <2>2, NoConnection, Zenon
<1>3. ASSUME NEW a \in Accepts, AcceptorStops(a) PROVE ConnectionsInv'
  <2>1. /\ acceptor[a] = "accept" /\ acceptor' = [acceptor EXCEPT ![a] = "gone"]
        /\ UNCHANGED <<conn, trusted, ended, worker>>
    BY <1>3 DEF AcceptorStops
  <2>. QED  BY <1>w, <2>1, NoConnection, Zenon
<1>4. ASSUME NEW a \in Accepts, Dispatch(a) PROVE ConnectionsInv'
  <2>1. UNCHANGED <<worker, acceptor, trusted, ended>>  BY <1>4 DEF Dispatch
  <2>2. CASE UNCHANGED conn  BY <2>1, <2>2, NoConnection
  <2>3. ASSUME NEW x, conn' = Append(conn, x), x.wrote = "Header", x.requester = "backlog",
               x.responder \in {"handle", "dropped"}, x.handler = Nobody
        PROVE  ConnectionsInv'
    <3>1. /\ Conns' = Conns \cup {Len(conn) + 1} /\ conn'[Len(conn) + 1] = x
          /\ \A d \in Conns : conn'[d] = conn[d]
      BY <1>t, <2>3 DEF Conns
    <3>2. ASSUME NEW c \in Conns' PROVE HandshakeInv(c)'
      <4>1. CASE c = Len(conn) + 1  BY <2>3, <3>1, <4>1 DEF HandshakeInv, Results
      <4>2. CASE c \in Conns
        <5>1. HandshakeInv(c) /\ conn'[c] = conn[c]  BY <1>h, <3>1, <4>2, Zenon
        <5>. QED  BY <2>1, <4>2, <5>1, HandshakeStays, Zenon
      <4>. QED  BY <3>1, <4>1, <4>2
    <3>3. ASSUME NEW c \in Conns', NEW d \in Conns', c # d PROVE ExclusiveInv(c, d)'
      <4>1. CASE c = Len(conn) + 1 \/ d = Len(conn) + 1
        BY <2>3, <3>1, <4>1 DEF ExclusiveInv, Results
      <4>2. CASE c \in Conns /\ d \in Conns
        BY <1>e, <3>1, <3>3, <4>2 DEF ExclusiveInv
      <4>. QED  BY <3>1, <4>1, <4>2
    <3>. QED  BY <3>2, <3>3 DEF ConnectionsInv
  <2>4. \/ UNCHANGED conn
        \/ \E x : /\ conn' = Append(conn, x) /\ x.wrote = "Header"
                  /\ x.requester = "backlog" /\ x.responder \in {"handle", "dropped"}
                  /\ x.handler = Nobody
    BY <1>4 DEF Dispatch, SkipsRequest
  <2>. QED  BY <2>2, <2>3, <2>4
<1>5. ASSUME NEW a \in Accepts, HandleRequestFails(a) PROVE ConnectionsInv'
  <2>1. PICK c \in Conns :
           conn[c].responder = "handle" /\ conn' = [conn EXCEPT ![c].responder = "closed"]
    BY <1>5, Zenon DEF HandleRequestFails, Discard
  <2>2. UNCHANGED <<worker, acceptor, trusted, ended>>
    BY <1>5 DEF HandleRequestFails
  <2>3. /\ Len(conn') = Len(conn) /\ conn'[c].responder = "closed"
        /\ conn'[c].requester = conn[c].requester /\ conn'[c].wrote = conn[c].wrote
        /\ conn'[c].by = conn[c].by /\ conn'[c].request = conn[c].request
        /\ conn'[c].handler = conn[c].handler
        /\ \A d \in Conns : d # c => conn'[d] = conn[d]
    BY <1>r, <2>1, Zenon DEF ResponderEnds
  <2>4. HandshakeInv(c)'  BY <1>h, <2>1, <2>2, <2>3 DEF HandshakeInv, Results
  <2>. QED  BY <2>2, <2>3, <2>4, OnConnection, Zenon
<1>6. ASSUME NEW a \in Accepts, AcceptorTakes(a) PROVE ConnectionsInv'
  <2>1. PICK c \in Conns :
           /\ conn[c].responder = "handle" /\ conn[c].by = a
           /\ conn' = ResponderWrites(c, "worker", "Response")
    BY <1>6, Zenon DEF AcceptorTakes, ResponderWrites
  <2>3. /\ Len(conn') = Len(conn) /\ conn'[c].responder = "worker"
        /\ conn'[c].requester = conn[c].requester /\ conn'[c].wrote = "Response"
        /\ conn'[c].by = conn[c].by /\ conn'[c].request = conn[c].request
        /\ conn'[c].handler = conn[c].handler
        /\ \A d \in Conns : d # c => conn'[d] = conn[d]
    <3>1. conn \in Seq(Connections) /\ "worker" \in ResponderEnds /\ "Response" \in Messages
      BY <1>t, Zenon DEF ResponderEnds, Messages
    <3>. QED  BY <2>1, <3>1, EndAndMessage, Zenon
  <2>4. /\ acceptor[a] = "accept" /\ acceptor' = [acceptor EXCEPT ![a] = "hello"]
        /\ UNCHANGED <<worker, trusted, ended>>
    BY <1>6 DEF AcceptorTakes
  <2>5. HandshakeInv(c)'
    <3>1. HandshakeInv(c) /\ acceptor'[a] = "hello"  BY <1>h, <1>t, <2>4
    <3>. QED  BY <2>1, <2>3, <2>4, <3>1 DEF HandshakeInv, Results
  <2>6. conn'[c].wrote \notin Results  BY <2>3 DEF Results
  <2>7. \A d \in Conns : conn[d].responder = "worker" => conn[d].by # conn[c].by
    BY <1>w, <2>1, <2>4, Zenon
  <2>. QED  BY <1>w, <2>3, <2>4, <2>5, <2>6, <2>7, OnConnection, Zenon
<1>7. ASSUME NEW a \in Accepts, AcceptorReadsHello(a) PROVE ConnectionsInv'
  <2>1. PICK c \in Conns :
           /\ AcceptorsConn(a, c) /\ conn[c].wrote = "Hello"
           /\ conn' = [conn EXCEPT ![c].wrote = ResultFor(trusted)]
    BY <1>7, Zenon DEF AcceptorReadsHello
  <2>2. ResultFor(trusted) \in Messages  BY DEF Messages, ResultFor
  <2>3. /\ Len(conn') = Len(conn) /\ conn'[c].wrote = ResultFor(trusted)
        /\ conn'[c].requester = conn[c].requester /\ conn'[c].responder = conn[c].responder
        /\ conn'[c].by = conn[c].by /\ conn'[c].request = conn[c].request
        /\ conn'[c].handler = conn[c].handler
        /\ \A d \in Conns : d # c => conn'[d] = conn[d]
    BY <1>t, <2>1, <2>2, OneEnd, Zenon
  <2>4. /\ acceptor[a] = "hello" /\ acceptor' = [acceptor EXCEPT ![a] = "offer"]
        /\ UNCHANGED <<worker, trusted, ended>>
    BY <1>7 DEF AcceptorReadsHello
  <2>5. HandshakeInv(c)'
    <3>1. HandshakeInv(c) /\ acceptor'[a] = "offer"  BY <1>h, <1>t, <2>4
    <3>. QED  BY <2>1, <2>3, <2>4, <3>1
              DEF HandshakeInv, Results, AcceptorsConn, ResultFor
  <2>x. \A d \in Conns : d # c /\ (conn[d].responder = "worker" \/ conn[d].wrote \in Results) =>
             /\ conn[d].by # a
             /\ acceptor'[conn[d].by] = acceptor[conn[d].by]
    <3>1. AcceptorsConn(a, c) /\ acceptor' = [acceptor EXCEPT ![a] = "offer"]
      BY <2>1, <2>4, Zenon
    <3>. QED  BY <1>x, <3>1, Zenon
  <2>6. \A d \in Conns : conn[d].wrote \in Results => conn[d].by # conn[c].by
    <3>1. conn[c].wrote \notin Results /\ conn[c].by = a
      BY <2>1 DEF Results, AcceptorsConn
    <3>. QED  BY <2>x, <3>1, Zenon
  <2>7. \A d \in Conns : d # c /\ (conn[d].responder = "worker" \/ conn[d].wrote \in Results) =>
             acceptor'[conn[d].by] = acceptor[conn[d].by]
    BY <2>x, Zenon
  <2>8. ended \subseteq ended' /\ UNCHANGED trusted  BY <2>4
  <2>. QED  BY <2>3, <2>4, <2>5, <2>6, <2>7, <2>8, OnConnection, Zenon
<1>8. ASSUME NEW a \in Accepts, AcceptorFails(a) \/ AcceptorCloses(a) PROVE ConnectionsInv'
  <2>1. PICK c \in Conns :
           AcceptorsConn(a, c) /\ conn' = [conn EXCEPT ![c].responder = "closed"]
    BY <1>8 DEF AcceptorFails, AcceptorCloses
  <2>2. /\ \/ acceptor[a] = "hello" /\ acceptor' = [acceptor EXCEPT ![a] = "accept"]
           \/ acceptor[a] = "offer" /\ Done(a) /\ acceptor' = [acceptor EXCEPT ![a] = "gone"]
        /\ UNCHANGED <<worker, trusted, ended>>
    BY <1>8 DEF AcceptorFails, AcceptorCloses
  <2>3. /\ Len(conn') = Len(conn) /\ conn'[c].responder = "closed"
        /\ conn'[c].requester = conn[c].requester /\ conn'[c].wrote = conn[c].wrote
        /\ conn'[c].by = conn[c].by /\ conn'[c].request = conn[c].request
        /\ conn'[c].handler = conn[c].handler
        /\ \A d \in Conns : d # c => conn'[d] = conn[d]
    BY <1>r, <2>1, Zenon DEF ResponderEnds
  <2>4. HandshakeInv(c)'
    <3>1. HandshakeInv(c) /\ conn[c].responder = "worker" /\ conn[c].by = a
      BY <1>h, <2>1 DEF AcceptorsConn
    <3>2. CASE acceptor[a] = "hello"
      BY <2>2, <2>3, <3>1, <3>2, Zenon DEF HandshakeInv, Results
    <3>3. CASE acceptor[a] = "offer"
      <4>1. "responder" \in ended' /\ acceptor'[a] = "gone"
        BY <1>t, <2>2, <3>3 DEF CallInv
      <4>. QED  BY <2>2, <2>3, <3>1, <4>1, ResponderCloses, Zenon
    <3>. QED  BY <2>2, <3>2, <3>3
  <2>. QED  BY <1>x, <2>1, <2>2, <2>3, <2>4, OnConnection
<1>9. ASSUME NEW a \in Accepts, AcceptReturns(a) PROVE ConnectionsInv'
  <2>1. PICK c \in Conns :
           AcceptorsConn(a, c) /\ conn' = [conn EXCEPT ![c].responder = "user"]
    BY <1>9, Zenon DEF AcceptReturns
  <2>2. /\ acceptor[a] = "offer" /\ acceptor' = [acceptor EXCEPT ![a] = "gone"]
        /\ UNCHANGED <<worker, trusted, ended>>
    BY <1>9 DEF AcceptReturns
  <2>3. /\ Len(conn') = Len(conn) /\ conn'[c].responder = "user"
        /\ conn'[c].requester = conn[c].requester /\ conn'[c].wrote = conn[c].wrote
        /\ conn'[c].by = conn[c].by /\ conn'[c].request = conn[c].request
        /\ conn'[c].handler = conn[c].handler
        /\ \A d \in Conns : d # c => conn'[d] = conn[d]
    BY <1>r, <2>1, Zenon DEF ResponderEnds
  <2>4. HandshakeInv(c)'
    <3>1. HandshakeInv(c) /\ acceptor'[a] = "gone"  BY <1>h, <1>t, <2>2
    <3>. QED  BY <2>1, <2>2, <2>3, <3>1 DEF HandshakeInv, AcceptorsConn
  <2>. QED  BY <1>x, <2>1, <2>2, <2>3, <2>4, OnConnection, Zenon
<1>. QED  BY <1>1, <1>2, <1>3, <1>4, <1>5, <1>6, <1>7, <1>8, <1>9
          DEF ResponderStep, DispatcherStep, AcceptorStep

-----------------------------------------------------------------------------
(* The theorems                                                            *)

\* Every reachable state has each connection at one place of the handshake,
\* held by at most one goroutine of each device, and no id used by two calls.
THEOREM Handshakes == Spec => [](IdInv /\ CallInv /\ ConnectionsInv)
<1>1. Init => IdInv /\ CallInv /\ ConnectionsInv
  <2> SUFFICES ASSUME Init PROVE IdInv /\ CallInv /\ ConnectionsInv  OBVIOUS
  <2>1. IdInv  BY DEF Init, IdInv
  <2>2. CallInv  BY DEF Init, CallInv, Done
  <2>3. Conns = {}  BY DEF Init, Conns
  <2>. QED  BY <2>1, <2>2, <2>3 DEF ConnectionsInv
<1>2. TypeOK /\ IdInv /\ CallInv /\ ConnectionsInv /\ [Next]_vars
          => IdInv' /\ CallInv' /\ ConnectionsInv'
  <2> SUFFICES ASSUME TypeOK, IdInv, CallInv, ConnectionsInv, [Next]_vars
               PROVE  ConnectionsInv'
    BY IdSteps, CallSteps
  <2> USE DEF fixedVars, worldVars, idVars, requesterVars, responderVars
  <2>1. CASE RequesterStep \/ BrokerStep  BY <2>1, RequesterConnections
  <2>2. CASE ResponderStep \/ \E a \in Accepts : Accept(a) \/ ReaderStep(a)
    BY <2>2, ResponderConnections
  <2>3. ASSUME NEW k \in Calls, Connect(k) \/ Cancel(k) PROVE ConnectionsInv'
    BY <2>3, NoConnection DEF Connect, Cancel, Ends
  <2>4. CASE Beacon  BY <2>4, NoConnection DEF Beacon, Ends
  <2>5. ASSUME NEW device \in {"requester", "responder"}, Close(device) PROVE ConnectionsInv'
    <3>1. UNCHANGED <<worker, acceptor, trusted>> /\ ended \subseteq ended'
      BY <2>5 DEF Close, Ends
    <3>2. CASE UNCHANGED conn  BY <3>1, <3>2, NoConnection
    <3>3. ASSUME NEW accepted,
                 conn' = [c \in Conns |->
                             IF c \notin Backlog THEN conn[c]
                             ELSE [conn[c] EXCEPT !.requester =
                                     IF c = accepted THEN "dropped" ELSE "closed"]]
          PROVE  ConnectionsInv'
      <4>1. conn \in Seq(Connections)  BY DEF TypeOK
      <4>2. Conns' = Conns  BY <3>3, <4>1 DEF Conns
      <4>3. ASSUME NEW c \in Conns
            PROVE  /\ conn'[c].responder = conn[c].responder
                   /\ conn'[c].wrote = conn[c].wrote
                   /\ conn'[c].by = conn[c].by /\ conn'[c].request = conn[c].request
                   /\ conn'[c].handler = conn[c].handler
                   /\ conn'[c].requester \in {conn[c].requester, "dropped", "closed"}
        <5>1. conn[c] \in Connections  BY <4>1 DEF Conns
        <5>. QED  BY <3>3, <5>1 DEF Connections
      <4>4. ASSUME NEW c \in Conns PROVE HandshakeInv(c)'
        <5>1. HandshakeInv(c)  BY DEF ConnectionsInv
        <5>. QED  BY <3>1, <4>3, <5>1, Zenon DEF HandshakeInv
      <4>5. ASSUME NEW c \in Conns, NEW d \in Conns, c # d PROVE ExclusiveInv(c, d)'
        <5>1. ExclusiveInv(c, d)  BY <4>5 DEF ConnectionsInv
        <5>. QED  BY <4>3, <5>1 DEF ExclusiveInv
      <4>. QED  BY <4>2, <4>4, <4>5 DEF ConnectionsInv
    <3>. QED  BY <2>5, <3>2, <3>3, Zenon DEF Close
  <2>6. CASE UNCHANGED vars  BY <2>6, NoConnection DEF vars
  <2>. QED  BY <2>1, <2>2, <2>3, <2>4, <2>5, <2>6 DEF Next
<1>. QED  BY <1>1, <1>2, WellTyped, PTL DEF Spec

\* For any number of Connect calls that start, wait and end in any order:
\* responseBroker never finds an id taken, a call that waits has its handler,
\* and a response is only given to the call whose request it answers.
THEOREM KeptApart == Spec => []CallsKeptApart
<1>1. TypeOK /\ CallInv /\ ConnectionsInv => CallsKeptApart
  <2> SUFFICES ASSUME TypeOK, CallInv, ConnectionsInv PROVE CallsKeptApart  OBVIOUS
  <2>1. \A k \in Calls : /\ call[k] # "panic"
                         /\ call[k] \in {"broadcast", "select"} => k \in handlers \cup cancelled
    BY Zenon DEF CallInv
  <2>2. ASSUME NEW c \in Conns, conn[c].handler # Nobody
        PROVE  conn[c].handler = conn[c].request
    <3>1. HandshakeInv(c)  BY DEF ConnectionsInv
    <3>. QED  BY <2>2, <3>1, Zenon DEF HandshakeInv
  <2>. QED  BY <2>1, <2>2, Zenon DEF CallsKeptApart
<1>. QED  BY <1>1, Handshakes, WellTyped, PTL

\* For any number of Connect and Accept calls and of copies of a request: the
\* connection Connect returns was granted by the responder, whose Accept
\* returns it too unless the responder is closed, and it is given to no
\* other call.
THEOREM GrantedOnce == Spec => []ConnectMeansGranted
<1>1. TypeOK /\ CallInv /\ ConnectionsInv => ConnectMeansGranted
  <2> SUFFICES ASSUME TypeOK, CallInv, ConnectionsInv,
                      NEW c \in Conns, conn[c].requester = "user"
               PROVE  /\ trusted /\ conn[c].wrote = "Ok"
                      /\ conn[c].responder \in {"worker", "user"} \/ "responder" \in ended
                      /\ \A d \in Conns \ {c} :
                            /\ conn[d].requester = "user" => conn[d].request # conn[c].request
                            /\ conn[d].responder = "user" => conn[d].by # conn[c].by
    BY DEF ConnectMeansGranted
  <2>1. HandshakeInv(c)  BY DEF ConnectionsInv
  <2>2. trusted /\ conn[c].wrote = "Ok"  BY <2>1 DEF HandshakeInv
  <2>3. conn[c].responder \in {"worker", "user"} \/ "responder" \in ended
    BY <2>1, <2>2 DEF HandshakeInv, Results
  <2>4. ASSUME NEW d \in Conns \ {c}
        PROVE  /\ conn[d].requester = "user" => conn[d].request # conn[c].request
               /\ conn[d].responder = "user" => conn[d].by # conn[c].by
    <3>1. HandshakeInv(d) /\ ExclusiveInv(d, c)  BY DEF ConnectionsInv
    <3>. QED  BY <2>2, <3>1 DEF HandshakeInv, ExclusiveInv, Results
  <2>. QED  BY <2>2, <2>3, <2>4
<1>. QED  BY <1>1, Handshakes, WellTyped, PTL
=============================================================================
