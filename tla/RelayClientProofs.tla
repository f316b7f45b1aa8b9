-------------------------- MODULE RelayClientProofs --------------------------
(***************************************************************************)
(* Proofs about RelayClient, for any calls of Client.Request and           *)
(* Client.Accept and any devices, whatever is cancelled, lost or closed,   *)
(* as long as like calls do not overlap: the maps of the handlers and the  *)
(* calls stay in step, and a result reaches the Accept it is for.          *)
(***************************************************************************)
EXTENDS RelayClient, TLAPS

\* The seconds each prover may take for a step.
USE SMTT(15), ZenonT(15)

-----------------------------------------------------------------------------
(* Bags                                                                    *)

\* No message has been written at first.
LEMMA NoMessages == IsABag(EmptyBag) /\ BagToSet(EmptyBag) = {}
  BY DEF BagToSet, EmptyBag, SetToBag, IsABag

\* What the server writes is added to the bag, and the other messages stay.
LEMMA AddedTo ==
    ASSUME NEW b, IsABag(b), NEW S
    PROVE  /\ IsABag(b (+) SetToBag(S))
           /\ BagToSet(b (+) SetToBag(S)) = BagToSet(b) \cup S
           /\ \A m \in BagToSet(b) \ S : (b (+) SetToBag(S))[m] = b[m]
           /\ \A m \in S \ BagToSet(b) : (b (+) SetToBag(S))[m] = 1
  BY DEF BagToSet, (+), SetToBag, IsABag, CopiesIn

\* One more message has been written to the client.
LEMMA OneMore ==
    ASSUME IsABag(inbox), NEW k, inbox' = inbox (+) SetToBag({k})
    PROVE  /\ \A m : m # k => (Coming(m)' => Coming(m) /\ inbox'[m] = inbox[m])
           /\ \A m : Coming(m)' => Coming(m) \/ m = k
           /\ Coming(k)' /\ (~Coming(k) => inbox'[k] = 1)
<1>1. /\ BagToSet(inbox') = BagToSet(inbox) \cup {k}
      /\ \A m \in BagToSet(inbox) \ {k} : inbox'[m] = inbox[m]
      /\ \A m \in {k} \ BagToSet(inbox) : inbox'[m] = 1
  BY AddedTo
<1>. QED  BY <1>1, Zenon DEF Coming

\* What the client reads is removed, and the other messages stay.
LEMMA RemovedFrom ==
    ASSUME NEW b, IsABag(b), NEW k
    PROVE  /\ IsABag(b (-) SetToBag({k}))
           /\ BagToSet(b (-) SetToBag({k})) \subseteq BagToSet(b)
           /\ \A m \in BagToSet(b) \ {k} :
                 m \in BagToSet(b (-) SetToBag({k})) /\ (b (-) SetToBag({k}))[m] = b[m]
           /\ k \in BagToSet(b) /\ b[k] = 1 => k \notin BagToSet(b (-) SetToBag({k}))
  BY DEF BagToSet, (-), SetToBag, IsABag, CopiesIn

-----------------------------------------------------------------------------
(* Shapes of the records                                                   *)

\* A call is not one of the two other goroutines, and nobody is no call.
LEMMA Kinds ==
    /\ Nobody \notin Users /\ App \notin Users /\ Handler \notin Users
    /\ \A u \in Users : u.peer \in Peers /\ (u.op = "request" \/ u.op = "accept")
  BY ClientAssumption DEF Nobody, App, Handler

\* The messages of the server.
LEMMA MessageShape ==
    /\ \A p \in Peers : {Failed(p), Created(p), Accepted(p), Established(p), Invitation(p)}
          \subseteq Messages
    /\ \A m \in Messages : m.peer \in Peers
    /\ \A m \in Messages, p \in Peers :
          m \in ResultsOf(p) <=> m.peer = p /\ m.type \in Results
    /\ \A p \in Peers : Established(p) # Failed(p)
  BY DEF Messages, Results, ResultsOf, Failed, Created, Accepted, Established, Invitation

\* Where requestHandler can be.
LEMMA HandlerShape ==
    /\ \A h \in HandlerStates :
          h.at = "offer" => h.user \in Users /\ h.info \in BOOLEAN
    /\ Selecting \in HandlerStates /\ [at |-> "stopped"] \in HandlerStates
    /\ \A u \in Users, i \in BOOLEAN : Offering(u, i) \in HandlerStates
  BY DEF HandlerStates, Selecting, Offering

\* Where sessionHandler can be.
LEMMA SessionShape ==
    /\ \A s \in SessionStates :
          /\ s = Selecting <=> s.at # "out"
          /\ s.at = "out" => /\ s.user \in Users
                             /\ s.type \in Results \cup {"SessionAccepted"}
    /\ Selecting \in SessionStates
    /\ \A u \in Users, t \in Results \cup {"SessionAccepted"} :
          [at |-> "out", user |-> u, type |-> t] \in SessionStates
  BY DEF SessionStates, Selecting

\* Where messageHandler can be.
LEMMA ReaderShape ==
    /\ \A r \in ReaderStates :
          /\ r.at \in {"response", "accept", "result", "invitation"} => r.m \in Messages
          /\ r.at = "response" => r.m.type \in {"SessionFailed", "SessionCreated"}
          /\ r.at = "accept" => r.m.type = "SessionAccepted"
          /\ r.at = "result" => r.m.type \in Results
    /\ Reading \in ReaderStates /\ [at |-> "gone"] \in ReaderStates
    /\ \A m \in Messages :
          /\ [at |-> FirstStop(m.type), m |-> m] \in ReaderStates
          /\ m.type = "SessionFailed" => [at |-> "result", m |-> m] \in ReaderStates
  BY DEF ReaderStates, Messages, Results, Reading, FirstStop

-----------------------------------------------------------------------------
(* How the locals of a call change                                         *)

\* The locals of a call that are not its place.
SamePeer(u) == user'[u].peer = user[u].peer

\* All calls but this one stay where they are.
OthersStay(u) == \A v \in Users : v # u => user'[v] = user[v]

\* The call goes on.
LEMMA GoMoves ==
    ASSUME user \in [Users -> Locals], NEW u \in Users, NEW s, Go(u, s)
    PROVE  /\ OthersStay(u) /\ SamePeer(u) /\ user'[u].at = s
           /\ (\E r \in Locals : r.at = s) => user' \in [Users -> Locals]
  BY DEF Go, Locals, OthersStay, SamePeer

\* The call returns.
LEMMA ReturnMoves ==
    ASSUME user \in [Users -> Locals], NEW u \in Users, Return(u)
    PROVE  /\ OthersStay(u) /\ user'[u].at = "returned" /\ user'[u].peer = u.peer
           /\ user' \in [Users -> Locals]
  BY Kinds DEF Return, Locals, OthersStay

\* A Request at its select takes what it is offered; nothing else happens.
LEMMA OfferMoves ==
    ASSUME user \in [Users -> Locals], NEW u \in Users, NEW i \in BOOLEAN, user' = Offer(u, i)
    PROVE  /\ OthersStay(u) /\ SamePeer(u)
           /\ \/ user'[u].at = user[u].at
              \/ user[u].at = "select" /\ user'[u].at = "delete"
           /\ user' \in [Users -> Locals]
  <1>1. CASE ~At(u, "select")
    <2>1. user' = user  BY <1>1, Zenon DEF Offer
    <2>. QED  BY <2>1 DEF OthersStay, SamePeer
  <1>2. CASE At(u, "select")
    <2>1. PICK y : y = [user[u] EXCEPT !.at = "delete", !.info = i]  OBVIOUS
    <2>2. y.at = "delete" /\ y.peer = user[u].peer /\ y \in Locals  BY <2>1 DEF Locals
    <2>3. user' = [user EXCEPT ![u] = y]  BY <1>2, <2>1 DEF Offer
    <2>. QED  BY <1>2, <2>2, <2>3 DEF OthersStay, SamePeer, At
  <1>. QED  BY <1>1, <1>2

-----------------------------------------------------------------------------
(* Types                                                                   *)

\* Steps of a call keep the types.
LEMMA UserTypes ==
    ASSUME TypeOK, NEW u \in Users, UserStep(u) \/ WriteRequest(u) \/ Cancel(u)
    PROVE  TypeOK'
  <1> USE DEF requestVars, sessionVars, connVars, serverVars
  <1>a. user \in [Users -> Locals] /\ u.peer \in Peers /\ user[u].peer \in Peers
    BY Kinds DEF TypeOK, Locals
  <1>b. \A s \in {"submit", "sent", "select", "delete", "invite", "register", "write",
                  "await"} : Go(u, s) => user' \in [Users -> Locals]
    BY <1>a DEF Go, Locals
  <1>c. Return(u) => user' \in [Users -> Locals]  BY <1>a, ReturnMoves
  <1>d. \A i \in BOOLEAN : user' = Offer(u, i) => user' \in [Users -> Locals]
    BY <1>a, OfferMoves
  <1>e. \A c \in Calls : [c EXCEPT ![u.peer] = u] \in Calls
                       /\ [c EXCEPT ![u.peer] = Nobody] \in Calls
                       /\ [c EXCEPT ![user[u].peer] = u] \in Calls
    BY <1>a DEF Calls
  <1>1. CASE Begin(u)  BY <1>1, <1>b DEF Begin, TypeOK
  <1>2. CASE NewRequest(u)
    <2>1. Offering(u, FALSE) \in HandlerStates  BY HandlerShape, Zenon
    <2>. QED  BY <1>2, <2>1, <1>b, <1>e, Zenon DEF NewRequest, TypeOK
  <1>3. CASE Await(u)  BY <1>3, <1>b DEF Await, TypeOK
  <1>4. CASE DeleteRequest(u)
    BY <1>4, <1>b, <1>c, <1>e, Zenon DEF DeleteRequest, TypeOK, Panic, Panics
  <1>5. CASE WaitAccept(u)
    BY <1>5, <1>b, <1>e, Zenon DEF WaitAccept, TypeOK, Panic, Panics
  <1>6. CASE WaitResult(u)
    BY <1>6, <1>b, <1>e, Zenon DEF WaitResult, TypeOK, Panic, Panics
  <1>7. CASE WriteAccept(u)
    <2>1. user' \in [Users -> Locals]  BY <1>7, <1>b, <1>c DEF WriteAccept
    <2>2. granted' \subseteq Users  BY <1>7 DEF WriteAccept, TypeOK
    <2>3. IsABag(inbox') /\ BagToSet(inbox') \subseteq Messages
      BY <1>7, <1>a, AddedTo, MessageShape DEF WriteAccept, TypeOK
    <2>. QED  BY <1>7, <2>1, <2>2, <2>3 DEF WriteAccept, TypeOK
  <1>8. CASE GiveUp(u)  BY <1>8, <1>c DEF GiveUp, TypeOK
  <1>9. CASE Authenticate(u)  BY <1>9, <1>c DEF Authenticate, TypeOK
  <1>10. CASE WriteRequest(u)
    <2>1. user' \in [Users -> Locals]  BY <1>10, <1>a, <1>d, Zenon DEF WriteRequest
    <2>2. granted' \subseteq Users /\ writing' \subseteq Users
      BY <1>10, Zenon DEF WriteRequest, TypeOK
    <2>3. closer' \in [Closers -> {"idle", "check", "close", "conn", "finished"}]
      BY <1>10, Zenon DEF WriteRequest, TypeOK, Closers
    <2>4. IsABag(inbox') /\ BagToSet(inbox') \subseteq Messages
      <3>1. \A answer \in Answers(u.peer) : answer \subseteq Messages
        BY <1>a, MessageShape DEF Answers
      <3>2. inbox' = inbox \/ \E answer \in Answers(u.peer) : inbox' = inbox (+) SetToBag(answer)
        BY <1>10, Zenon DEF WriteRequest
      <3>3. IsABag(inbox) /\ BagToSet(inbox) \subseteq Messages  BY DEF TypeOK
      <3>4. ASSUME NEW answer \in Answers(u.peer), inbox' = inbox (+) SetToBag(answer)
            PROVE  IsABag(inbox') /\ BagToSet(inbox') \subseteq Messages
        BY <3>1, <3>3, <3>4, AddedTo
      <3>. QED  BY <3>2, <3>3, <3>4
    <2>. QED  BY <1>10, <2>1, <2>2, <2>3, <2>4 DEF WriteRequest, TypeOK
  <1>11. CASE Cancel(u)  BY <1>11, <1>b DEF Cancel, TypeOK, Cancelled
  <1>. QED  BY <1>1, <1>2, <1>3, <1>4, <1>5, <1>6, <1>7, <1>8, <1>9, <1>10, <1>11 DEF UserStep

\* Steps of the three handlers keep the types.
LEMMA HandlerTypes ==
    ASSUME TypeOK, OfferOutput \/ RequestHandlerStops \/ SendOut \/ ReaderStep
    PROVE  TypeOK'
  <1> USE DEF requestVars, sessionVars, connVars, serverVars
  <1>a. user \in [Users -> Locals]  BY DEF TypeOK
  <1>1. CASE OfferOutput
    <2>1. handler.user \in Users /\ handler.info \in BOOLEAN /\ Selecting \in HandlerStates
      BY <1>1, HandlerShape DEF OfferOutput, TypeOK
    <2>2. user' \in [Users -> Locals]  BY <1>1, <2>1, <1>a, OfferMoves DEF OfferOutput
    <2>. QED  BY <1>1, <2>1, <2>2 DEF OfferOutput, TypeOK
  <1>2. CASE RequestHandlerStops
    BY <1>2, HandlerShape DEF RequestHandlerStops, TypeOK
  <1>3. CASE SendOut
    <2>1. session.user \in Users /\ Selecting \in SessionStates
      BY <1>3, SessionShape DEF SendOut, TypeOK
    <2>2. /\ Return(session.user) => user' \in [Users -> Locals]
          /\ Go(session.user, "join") => user' \in [Users -> Locals]
      BY <1>a, <2>1, ReturnMoves DEF Go, Locals
    <2>3. accepts' \in Calls /\ results' \in Calls
      BY <1>3, <2>1 DEF SendOut, TypeOK, Without, Calls
    <2>. QED  BY <1>3, <2>1, <2>2, <2>3 DEF SendOut, TypeOK
  <1>c. closer \in [Closers -> {"idle", "check", "close", "conn", "finished"}]
        /\ (Leave => /\ closer' \in [Closers -> {"idle", "check", "close", "conn", "finished"}]
                     /\ reader' \in ReaderStates)
    BY ReaderShape DEF TypeOK, Leave, DeferredClose, Closers
  <1>4. CASE ReadMessage
    <2>1. PICK m \in BagToSet(inbox) :
             /\ inbox' = inbox (-) SetToBag({m})
             /\ IF done THEN Leave
                ELSE reader' = [at |-> FirstStop(m.type), m |-> m] /\ UNCHANGED closer
      BY <1>4 DEF ReadMessage
    <2>2. m \in Messages  BY DEF TypeOK
    <2>3. IsABag(inbox') /\ BagToSet(inbox') \subseteq Messages
      BY <2>1, RemovedFrom DEF TypeOK
    <2>4. reader' \in ReaderStates
          /\ closer' \in [Closers -> {"idle", "check", "close", "conn", "finished"}]
      BY <2>1, <2>2, <1>c, ReaderShape, Zenon
    <2>. QED  BY <1>4, <2>3, <2>4 DEF ReadMessage, TypeOK
  <1>5. CASE ReadFails  BY <1>5, <1>c DEF ReadFails, TypeOK
  <1>6. CASE HandResponse
    <2>1. reader.m \in Messages  BY <1>6, ReaderShape DEF HandResponse, TypeOK
    <2>2. handler' \in HandlerStates
      <3>1. requests[reader.m.peer] \in Users \cup {Nobody}
        BY <2>1, MessageShape DEF TypeOK, Calls
      <3>. QED  BY <1>6, <3>1, HandlerShape, Zenon DEF HandResponse, Respond
    <2>3. reader' \in ReaderStates  BY <1>6, <2>1, ReaderShape, Zenon DEF HandResponse
    <2>. QED  BY <1>6, <2>2, <2>3 DEF HandResponse, TypeOK
  <1>7. CASE HandToSession
    <2>1. reader.m \in Messages /\ reader.m.type \in Results \cup {"SessionAccepted"}
      BY <1>7, ReaderShape DEF HandToSession, TypeOK
    <2>2. WaitingFor(reader.m) \in Users \cup {Nobody}
      BY <2>1, MessageShape DEF TypeOK, Calls, WaitingFor
    <2>3. session' \in SessionStates /\ reader' \in ReaderStates
      BY <1>7, <2>1, <2>2, SessionShape, ReaderShape DEF HandToSession, TypeOK
    <2>. QED  BY <1>7, <2>3 DEF HandToSession, TypeOK
  <1>8. CASE HandInvitation
    <2>1. reader.m.peer \in Peers
      BY <1>8, ReaderShape, MessageShape DEF HandInvitation, TypeOK
    <2>2. ASSUME NEW u \in Users
          PROVE  /\ Go(u, "continue") \/ Return(u) => user' \in [Users -> Locals]
                 /\ user' = [user EXCEPT ![u].at = "register", ![u].peer = reader.m.peer]
                      => user' \in [Users -> Locals]
      BY <1>a, <2>1, ReturnMoves DEF Go, Locals
    <2>3. user' \in [Users -> Locals]  BY <1>8, <1>a, <2>2, Zenon DEF HandInvitation
    <2>4. reader' \in ReaderStates  BY <1>8, ReaderShape DEF HandInvitation
    <2>. QED  BY <1>8, <2>3, <2>4 DEF HandInvitation, TypeOK
  <1>. QED  BY <1>1, <1>2, <1>3, <1>4, <1>5, <1>6, <1>7, <1>8 DEF ReaderStep

\* Every step keeps the types.
LEMMA Types == ASSUME TypeOK, [Next]_vars PROVE TypeOK'
  <1> USE DEF requestVars, sessionVars, connVars, serverVars
  <1>1. CASE Start  BY <1>1 DEF Start, TypeOK
  <1>2. ASSUME NEW x \in Closers, CloserStep(x) PROVE TypeOK'
    BY <1>2, Zenon DEF CloserStep, CheckDone, CloseDone, CloseConn, Then, Panic, Panics, TypeOK
  <1>3. CASE Close  BY <1>3 DEF Close, TypeOK, Closers
  <1>4. ASSUME NEW p \in Peers, Invite(p) PROVE TypeOK'
    <2>1. IsABag(inbox') /\ BagToSet(inbox') \subseteq Messages
      BY <1>4, AddedTo, MessageShape DEF Invite, TypeOK
    <2>2. invited' \in 0 .. MaxInvitations
      BY <1>4, ClientAssumption DEF Invite, TypeOK
    <2>. QED  BY <1>4, <2>1, <2>2 DEF Invite, TypeOK
  <1>5. CASE Break  BY <1>5 DEF Break, TypeOK
  <1>6. CASE UNCHANGED vars  BY <1>6 DEF vars, TypeOK
  <1>. QED  BY <1>1, <1>2, <1>3, <1>4, <1>5, <1>6, UserTypes, HandlerTypes DEF Next

-----------------------------------------------------------------------------
(* What keeps each part of the invariant                                   *)

\* A call goes on or ends; it is and stays where its kind can be.
CallsKept ==
    /\ writing' \subseteq writing
    /\ \A v \in Users :
          /\ user'[v].at \notin {"idle", "returned"} => InProgress(v)
          /\ user'[v].at = "idle" => At(v, "idle")
          /\ v.op = "request" => /\ user'[v].at \notin {"invite", "continue", "write"}
                                 /\ user'[v].peer = v.peer
          /\ v.op = "accept" => user'[v].at \notin {"submit", "sent", "select", "delete"}

\* No call gets in requests or out of it.
RequestsKept ==
    /\ UNCHANGED requests
    /\ \A v \in Users : user'[v].at \in {"sent", "select", "delete"}
                          <=> user[v].at \in {"sent", "select", "delete"}

\* A ReadAccept that ends is no longer in accepts, or c.done is closed.
AcceptsKept ==
    /\ done => done'
    /\ \A q \in Peers : accepts'[q] = accepts[q] \/ accepts'[q] = Nobody
    /\ \A v \in Users : v.op = "request" /\ At(v, "await") =>
          user'[v].at = "await" \/ done' \/ accepts'[v.peer] = Nobody

\* An Accept that ends leaves its entry only when c.done is closed or the
\* connection lost.
ResultsKept ==
    /\ UNCHANGED results
    /\ done => done'
    /\ link # "open" => link' # "open"
    /\ \A v \in Users : v.op = "accept" =>
          /\ user'[v].at \in {"write", "await"} => user[v].at \in {"write", "await"}
          /\ user[v].at \in {"write", "await"} =>
                \/ user'[v].at \in {"write", "await"} /\ SamePeer(v)
                \/ user'[v].at = "returned" /\ (done' \/ link' # "open")
          /\ At(v, "returned") => user'[v].at = "returned"

\* No result gets to the client.
NoResult ==
    \A q \in Peers : Unasked(q) => \A m \in ResultsOf(q) :
        /\ m \in BagToSet(inbox') => Coming(m) /\ inbox'[m] = inbox[m]
        /\ Handled(m)' => Handled(m)

\* No result is written or handed on, and no Accept has still to write.
OwnKept ==
    /\ UNCHANGED results
    /\ session' = session \/ session' = Selecting
    /\ granted \subseteq granted'
    /\ \A v \in Users : /\ user'[v].at = "idle" => At(v, "idle")
                        /\ user'[v].at = "write" => At(v, "write")
    /\ NoResult

\* No Accept gets its result.
JoinsKept ==
    /\ granted \subseteq granted'
    /\ \A v \in Users : /\ user'[v].at = "idle" => At(v, "idle")
                        /\ v.op = "accept" /\ user'[v].at = "join" =>
                              At(v, "join") /\ SamePeer(v)

\* Calls stay alone of their kind.
LEMMA CallsStay == ASSUME CallInv, CallsKept PROVE CallInv'
  BY DEF CallInv, CallsKept, InProgress, At, Alike

\* requests and the Requests stay in step.
LEMMA RequestsStay == ASSUME TypeOK, RequestInv, RequestsKept PROVE RequestInv'
  BY DEF TypeOK, Calls, RequestInv, RequestsKept

\* accepts and the ReadAccepts stay in step.
LEMMA AcceptsStay == ASSUME TypeOK, AcceptInv, AcceptsKept PROVE AcceptInv'
  BY DEF TypeOK, Calls, AcceptInv, AcceptsKept, At

\* results and the Accepts stay in step.
LEMMA ResultsStay == ASSUME TypeOK, ResultInv, ResultsKept PROVE ResultInv'
  <1>1. ASSUME NEW q \in Peers, results[q] # Nobody
        PROVE  /\ results[q].op = "accept"
               /\ \/ user'[results[q]].at \in {"write", "await"} /\ user'[results[q]].peer = q
                  \/ user'[results[q]].at = "returned" /\ (done' \/ link' # "open")
               /\ \A r \in Peers : results[r] = results[q] => r = q
    <2>1. results[q] \in Users  BY <1>1 DEF TypeOK, Calls
    <2>. QED  BY <1>1, <2>1 DEF ResultInv, ResultsKept, At, SamePeer
  <1>2. ASSUME NEW u \in Users, u.op = "accept", user'[u].at \in {"write", "await"}
        PROVE  results[user'[u].peer] = u
    BY <1>2 DEF ResultInv, ResultsKept, SamePeer
  <1>3. results' = results  BY DEF ResultsKept
  <1>. QED  BY <1>1, <1>2, <1>3 DEF ResultInv, At

\* sessionHandler goes on sending to the same call.
LEMMA OutStays == ASSUME OutInv, UNCHANGED <<session, results>> PROVE OutInv'
  BY DEF OutInv

\* Results stay with the Accept they are for.
LEMMA OwnStays == ASSUME TypeOK, OwnInv, OwnKept PROVE OwnInv'
  <1> SUFFICES ASSUME NEW q \in Peers, Unasked(q)' PROVE Own(q)'
    BY DEF OwnInv
  <1>1. Unasked(q)  BY DEF Unasked, OwnKept, At
  <1>2. results[q] \in Users \cup {Nobody}  BY DEF TypeOK, Calls
  <1>3. \A m \in ResultsOf(q) : /\ Coming(m)' => Coming(m) /\ inbox'[m] = inbox[m]
                                /\ Handled(m)' => Handled(m)
    BY <1>1 DEF OwnKept, NoResult, Coming
  <1>4. results' = results /\ granted \subseteq granted'
        /\ (results[q] # Nobody => (At(results[q], "write")' => At(results[q], "write")))
        /\ (Leaving(q)' => Leaving(q) /\ session' = session)
    BY <1>2 DEF OwnKept, At, Leaving, Selecting
  <1>5. Established(q) \in ResultsOf(q)  BY DEF ResultsOf
  <1>6. Leaving(q) => results[q] # Nobody
    BY SessionShape, Kinds DEF TypeOK, Leaving
  <1>7. Own(q)  BY <1>1 DEF OwnInv
  <1>. QED  BY <1>3, <1>4, <1>5, <1>6, <1>7 DEF Own

\* The Accepts that have their result keep it.
LEMMA JoinsStay == ASSUME ResultIsOwn, JoinsKept PROVE ResultIsOwn'
  BY DEF ResultIsOwn, JoinsKept, At, SamePeer

-----------------------------------------------------------------------------
(* Steps that write no result and keep the maps                            *)

\* A call goes on without asking a handler, and nothing else is lost.
Goes(u) ==
    /\ OthersStay(u)
    /\ \/ user'[u] = user[u]
       \/ SamePeer(u) /\ At(u, "sent") /\ user'[u].at = "select"
       \/ SamePeer(u) /\ At(u, "continue") /\ user'[u].at = "invite"
       \/ SamePeer(u) /\ At(u, "select") /\ user'[u].at = "delete"
       \/ At(u, "invite") /\ user'[u].at \in {"continue", "register"}
       \/ /\ user'[u].at = "returned" /\ user'[u].peer = u.peer
          /\ At(u, "join") \/ At(u, "invite") \/ (At(u, "await") /\ done)

\* What stays as it is, or goes one way only.
MapsStay ==
    /\ UNCHANGED <<requests, accepts, results>>
    /\ writing' \subseteq writing /\ granted \subseteq granted'
    /\ done => done'
    /\ link # "open" => link' # "open"

\* The parts of the invariant other than the one about panics.
MapInv == CallInv /\ RequestInv /\ AcceptInv /\ ResultInv /\ OutInv /\ OwnInv /\ ResultIsOwn

\* Messages that stay where they are are no new results.
LEMMA SameMessages == ASSUME UNCHANGED <<inbox, reader>> PROVE NoResult
  BY DEF NoResult, Coming, Handled

\* The calls stay where they are.
LEMMA StillMaps ==
    ASSUME TypeOK, MapInv, UNCHANGED user, MapsStay
    PROVE  CallInv' /\ RequestInv' /\ AcceptInv' /\ ResultInv' /\ ResultIsOwn'
  <1>1. CallsKept  BY DEF MapInv, CallInv, CallsKept, MapsStay, InProgress, At
  <1>2. RequestsKept  BY DEF RequestsKept, MapsStay
  <1>3. AcceptsKept  BY DEF AcceptsKept, MapsStay, At
  <1>4. ResultsKept  BY DEF ResultsKept, MapsStay, SamePeer, At
  <1>5. JoinsKept  BY DEF JoinsKept, MapsStay, SamePeer, At
  <1>. QED
    BY <1>1, <1>2, <1>3, <1>4, <1>5, CallsStay, RequestsStay, AcceptsStay, ResultsStay,
       JoinsStay DEF MapInv

\* Nor does sessionHandler go on, or a result get to the client.
LEMMA StillKeeps ==
    ASSUME TypeOK, MapInv, UNCHANGED <<user, session>>, MapsStay, NoResult PROVE MapInv'
  <1>1. OwnKept /\ UNCHANGED <<session, results>>  BY DEF OwnKept, MapsStay, At
  <1>. QED  BY <1>1, StillMaps, OutStays, OwnStays DEF MapInv

\* One call moves, and to where it may be.
LEMMA OneKept ==
    ASSUME CallInv, NEW u \in Users, OthersStay(u), writing' \subseteq writing,
           user'[u].at \notin {"idle", "returned"} => InProgress(u),
           user'[u].at = "idle" => At(u, "idle"),
           u.op = "request" => /\ user'[u].at \notin {"invite", "continue", "write"}
                               /\ user'[u].peer = u.peer,
           u.op = "accept" => user'[u].at \notin {"submit", "sent", "select", "delete"}
    PROVE  CallsKept
  <1>1. ASSUME NEW v \in Users, v # u
        PROVE  /\ user'[v].at \notin {"idle", "returned"} => InProgress(v)
               /\ user'[v].at = "idle" => At(v, "idle")
               /\ v.op = "request" => /\ user'[v].at \notin {"invite", "continue", "write"}
                                      /\ user'[v].peer = v.peer
               /\ v.op = "accept" => user'[v].at \notin {"submit", "sent", "select", "delete"}
    <2>1. user'[v] = user[v]  BY <1>1, Zenon DEF OthersStay
    <2>. QED  BY <2>1, Zenon DEF CallInv, InProgress, At
  <1>. QED  BY <1>1, Zenon DEF CallsKept

\* One call goes on.
LEMMA GoesKeeps ==
    ASSUME TypeOK, MapInv, NEW u \in Users, Goes(u), MapsStay, NoResult, UNCHANGED session
    PROVE  MapInv'
  <1>a. u.op = "request" \/ u.op = "accept"  BY Kinds
  <1>b. CallInv  BY DEF MapInv
  <1>1. CallsKept
    <2>1. OthersStay(u) /\ writing' \subseteq writing  BY Zenon DEF Goes, MapsStay
    <2>2. /\ u.op = "request" => /\ user[u].at \notin {"invite", "continue", "write"}
                                 /\ user[u].peer = u.peer
          /\ u.op = "accept" => user[u].at \notin {"submit", "sent", "select", "delete"}
      BY <1>b, Zenon DEF CallInv
    <2>3. /\ user'[u].at \notin {"idle", "returned"} => InProgress(u)
          /\ user'[u].at = "idle" => At(u, "idle")
          /\ u.op = "request" => /\ user'[u].at \notin {"invite", "continue", "write"}
                                 /\ user'[u].peer = u.peer
          /\ u.op = "accept" => user'[u].at \notin {"submit", "sent", "select", "delete"}
      BY <1>a, <2>2 DEF Goes, InProgress, At, SamePeer
    <2>. QED  BY <1>b, <2>1, <2>3, OneKept, Zenon
  <1>2. RequestsKept  BY Zenon DEF RequestsKept, MapsStay, Goes, OthersStay, At
  <1>3. AcceptsKept  BY DEF AcceptsKept, MapsStay, At, Goes, OthersStay
  <1>4. ResultsKept  BY DEF ResultsKept, MapsStay, SamePeer, At, Goes, OthersStay
  <1>5. OwnKept  BY Zenon DEF OwnKept, MapsStay, At, Goes, OthersStay
  <1>6. JoinsKept  BY DEF JoinsKept, MapsStay, SamePeer, At, Goes, OthersStay
  <1>7. UNCHANGED <<session, results>>  BY DEF MapsStay
  <1>. QED
    BY <1>1, <1>2, <1>3, <1>4, <1>5, <1>6, <1>7, CallsStay, RequestsStay, AcceptsStay,
       ResultsStay, OutStays, OwnStays, JoinsStay DEF MapInv

\* Steps of a call that go on without asking a handler.
LEMMA CallSteps ==
    ASSUME TypeOK, MapInv, NEW u \in Users,
           Await(u) \/ Cancel(u) \/ GiveUp(u) \/ Authenticate(u)
    PROVE  MapInv'
  <1> USE DEF requestVars, sessionVars, connVars, serverVars
  <1>a. user \in [Users -> Locals]  BY DEF TypeOK
  <1>b. MapsStay /\ UNCHANGED session
    BY DEF Await, Cancel, GiveUp, Authenticate, MapsStay
  <1>c. NoResult
    <2>1. UNCHANGED <<inbox, reader>>  BY DEF Await, Cancel, GiveUp, Authenticate
    <2>. QED  BY <2>1, SameMessages
  <1>1. CASE Await(u) \/ Cancel(u)
    <2>1. Goes(u)  BY <1>1, <1>a, GoMoves, Zenon DEF Await, Cancel, Cancelled, Goes, At
    <2>. QED  BY <2>1, <1>b, <1>c, GoesKeeps
  <1>2. CASE GiveUp(u) \/ Authenticate(u)
    <2>1. Goes(u)  BY <1>2, <1>a, ReturnMoves, Zenon DEF GiveUp, Authenticate, Goes, At
    <2>. QED  BY <2>1, <1>b, <1>c, GoesKeeps
  <1>. QED  BY <1>1, <1>2

\* offerRequestOutput in requestHandler.
LEMMA OfferSteps == ASSUME TypeOK, MapInv, OfferOutput PROVE MapInv'
  <1> USE DEF requestVars, sessionVars, connVars, serverVars
  <1>1. handler.user \in Users /\ handler.info \in BOOLEAN
    BY HandlerShape DEF OfferOutput, TypeOK
  <1>2. Goes(handler.user)
    <2>1. user \in [Users -> Locals]  BY DEF TypeOK
    <2>. QED  BY <1>1, <2>1 DEF OfferOutput, Offer, Goes, OthersStay, SamePeer, Locals
  <1>3. MapsStay /\ UNCHANGED <<inbox, reader, session>>  BY DEF OfferOutput, MapsStay
  <1>. QED  BY <1>1, <1>2, <1>3, SameMessages, GoesKeeps

\* A request is written: its answers are no results of a device that nothing was
\* requested of.
LEMMA WriteRequestKeeps ==
    ASSUME TypeOK, MapInv, NEW u \in Users, WriteRequest(u) PROVE MapInv'
  <1> USE DEF requestVars, sessionVars, connVars, serverVars
  <1>1. Goes(u)
    <2>1. user \in [Users -> Locals] /\ (user' = user \/ user' = Offer(u, FALSE))
      BY Zenon DEF TypeOK, WriteRequest
    <2>. QED  BY <2>1 DEF Offer, Goes, OthersStay, SamePeer, Locals
  <1>2. MapsStay /\ UNCHANGED session  BY Zenon DEF WriteRequest, MapsStay
  <1>3. NoResult
    <2>1. CASE inbox' = inbox
      BY <2>1, SameMessages DEF WriteRequest
    <2>2. ASSUME NEW answer \in Answers(u.peer), inbox' = inbox (+) SetToBag(answer)
          PROVE  NoResult
      <3>1. IsABag(inbox) /\ u.peer \in Peers  BY Kinds DEF TypeOK
      <3>2. ASSUME NEW q \in Peers, Unasked(q), NEW m \in ResultsOf(q)
            PROVE  m \notin answer
        <4>1. q # u.peer  BY <3>2, Zenon DEF WriteRequest, MapInv, CallInv, Unasked
        <4>2. m.peer = q  BY <3>2 DEF ResultsOf, Failed, Established
        <4>3. \A k \in answer : k.peer = u.peer
          BY DEF Answers, Failed, Created, Accepted
        <4>. QED  BY <4>1, <4>2, <4>3
      <3>3. ASSUME NEW m, m \notin answer, m \in BagToSet(inbox')
            PROVE  Coming(m) /\ inbox'[m] = inbox[m]
        BY <2>2, <3>1, <3>3, AddedTo DEF Coming
      <3>4. reader' = reader  BY DEF WriteRequest
      <3>. QED  BY <3>2, <3>3, <3>4 DEF NoResult, Handled
    <2>. QED  BY <2>1, <2>2, Zenon DEF WriteRequest
  <1>. QED  BY <1>1, <1>2, <1>3, GoesKeeps

-----------------------------------------------------------------------------
(* Requests                                                                *)

\* A call begins alone of its kind.
LEMMA BeginKeeps ==
    ASSUME Overlap = FALSE, TypeOK, MapInv, NEW u \in Users, Begin(u) PROVE MapInv'
  <1> USE DEF requestVars, sessionVars, connVars, serverVars
  <1>a. u.op = "request" \/ u.op = "accept"  BY Kinds
  <1>1. /\ OthersStay(u) /\ SamePeer(u) /\ At(u, "idle")
        /\ user'[u].at = IF u.op = "request" THEN "submit" ELSE "invite"
    BY GoMoves DEF Begin, TypeOK
  <1>2. UNCHANGED <<requests, accepts, results, session, writing, granted, done, link, inbox,
                    reader>>
    BY DEF Begin
  <1>3. CallInv'
    <2>1. \A v \in Users \ {u} : Alike(u, v) => ~InProgress(v)  BY DEF Begin
    <2>2. CallInv  BY DEF MapInv
    <2>. QED
      BY <1>a, <1>1, <1>2, <2>1, <2>2 DEF CallInv, Alike, InProgress, At, OthersStay, SamePeer
  <1>4. RequestsKept  BY <1>1, <1>2 DEF RequestsKept, OthersStay, At
  <1>5. AcceptsKept  BY <1>1, <1>2 DEF AcceptsKept, OthersStay, At
  <1>6. ResultsKept  BY <1>1, <1>2 DEF ResultsKept, OthersStay, SamePeer, At
  <1>7. OwnKept  BY <1>1, <1>2, SameMessages DEF OwnKept, OthersStay, At
  <1>8. JoinsKept  BY <1>1, <1>2 DEF JoinsKept, OthersStay, SamePeer, At
  <1>. QED
    BY <1>2, <1>3, <1>4, <1>5, <1>6, <1>7, <1>8, RequestsStay, AcceptsStay, ResultsStay,
       OutStays, OwnStays, JoinsStay DEF MapInv

\* A Request that is at one of these places goes on to another: the other maps
\* and what comes from the server are not concerned.
LEMMA RequestMoves ==
    ASSUME TypeOK, MapInv, NEW u \in Users, u.op = "request", OthersStay(u),
           user[u].at \in {"submit", "delete"},
           user'[u].at \in {"sent", "register", "returned"}, user'[u].peer = u.peer,
           UNCHANGED <<accepts, results, session, granted, done, link, inbox, reader>>
    PROVE  AcceptInv' /\ ResultInv' /\ OutInv' /\ OwnInv' /\ ResultIsOwn'
  <1>1. AcceptsKept  BY DEF AcceptsKept, OthersStay, At
  <1>2. ResultsKept  BY DEF ResultsKept, OthersStay, SamePeer, At
  <1>3. OwnKept  BY SameMessages DEF OwnKept, OthersStay, At
  <1>4. JoinsKept  BY DEF JoinsKept, OthersStay, SamePeer, At
  <1>. QED
    BY <1>1, <1>2, <1>3, <1>4, AcceptsStay, ResultsStay, OutStays, OwnStays, JoinsStay
       DEF MapInv

\* requestHandler registers a request: there is no other one for its target.
LEMMA NewRequestKeeps ==
    ASSUME TypeOK, MapInv, NEW u \in Users, NewRequest(u) PROVE MapInv'
  <1> USE DEF requestVars, sessionVars, connVars, serverVars
  <1>a. At(u, "submit") /\ CallInv /\ RequestInv /\ requests \in Calls /\ u.peer \in Peers
    BY Kinds DEF NewRequest, MapInv, TypeOK
  <1>b. u.op = "request" /\ user[u].peer = u.peer
    BY <1>a, Kinds DEF CallInv, At
  <1>1. OthersStay(u) /\ user'[u].at = "sent" /\ user'[u].peer = u.peer
    BY <1>b, GoMoves, Zenon DEF NewRequest, TypeOK, SamePeer
  <1>2. UNCHANGED <<accepts, results, session, granted, done, link, inbox, reader>>
    BY DEF NewRequest
  <1>3. requests[u.peer] = Nobody
    <2> SUFFICES ASSUME requests[u.peer] # Nobody PROVE FALSE  OBVIOUS
    <2>1. PICK w \in Users : w = requests[u.peer]  BY <1>a DEF Calls
    <2>2. w.peer = u.peer /\ user[w].at \in {"sent", "select", "delete"}
      BY <1>a, <2>1 DEF RequestInv
    <2>3. w.op = "request"  BY <1>a, <2>2, Kinds DEF CallInv
    <2>. QED  BY <1>a, <1>b, <2>2, <2>3 DEF CallInv, Alike, InProgress, At
  <1>4. requests' = [requests EXCEPT ![u.peer] = u] /\ writing' = writing \cup {u}
    BY <1>3 DEF NewRequest
  <1>5. CallInv'
    BY <1>a, <1>b, <1>1, <1>4 DEF CallInv, Alike, InProgress, At, OthersStay
  <1>6. RequestInv'
    <2>1. ASSUME NEW q \in Peers, requests'[q] # Nobody
          PROVE  /\ requests'[q].peer = q
                 /\ user'[requests'[q]].at \in {"sent", "select", "delete"}
      <3>1. CASE q = u.peer  BY <3>1, <1>a, <1>1, <1>4 DEF Calls
      <3>2. CASE q # u.peer
        <4>1. requests'[q] = requests[q] /\ requests[q] \in Users
          BY <3>2, <2>1, <1>a, <1>4 DEF Calls
        <4>2. PICK w \in Users : w = requests[q]  BY <4>1, Zenon
        <4>3. w.peer = q /\ user[w].at \in {"sent", "select", "delete"}
          BY <2>1, <4>1, <4>2, <1>a, Zenon DEF RequestInv
        <4>4. user'[w] = user[w]  BY <3>2, <4>2, <4>3, <1>1, Zenon DEF OthersStay
        <4>. QED  BY <4>1, <4>2, <4>3, <4>4, Zenon
      <3>. QED  BY <3>1, <3>2
    <2>2. ASSUME NEW v \in Users, user'[v].at \in {"sent", "select", "delete"}
          PROVE  requests'[v.peer] = v
      <3>1. CASE v = u  BY <3>1, <1>a, <1>4 DEF Calls
      <3>2. CASE v # u
        <4>1. requests[v.peer] = v  BY <3>2, <2>2, <1>1, <1>a DEF RequestInv, OthersStay
        <4>2. v.peer # u.peer  BY <4>1, <1>3, Kinds
        <4>. QED  BY <4>1, <4>2, <1>4, <1>a, Kinds DEF Calls
      <3>. QED  BY <3>1, <3>2
    <2>. QED  BY <2>1, <2>2, Zenon DEF RequestInv
  <1>. QED  BY <1>a, <1>b, <1>1, <1>2, <1>5, <1>6, RequestMoves DEF MapInv, At

\* A Request that is about to delete its entry finds it.
LEMMA RequestIsThere ==
    ASSUME TypeOK, MapInv, NEW u \in Users, At(u, "delete")
    PROVE  u.op = "request" /\ requests[u.peer] = u /\ u # Nobody
  <1>1. user[u].at = "delete" /\ RequestInv /\ CallInv  BY Zenon DEF MapInv, At
  <1>2. u.op = "request"  BY <1>1, Kinds, Zenon DEF CallInv
  <1>3. requests[u.peer] = u  BY <1>1, Zenon DEF RequestInv
  <1>4. u # Nobody  BY Kinds, Zenon
  <1>. QED  BY <1>2, <1>3, <1>4, Zenon

\* requestHandler removes the entry of the request itself.
LEMMA DeleteRequestKeeps ==
    ASSUME TypeOK, MapInv, NEW u \in Users, DeleteRequest(u) PROVE MapInv'
  <1> USE DEF requestVars, sessionVars, connVars, serverVars
  <1>a. At(u, "delete") /\ CallInv /\ RequestInv /\ requests \in Calls /\ u.peer \in Peers
        /\ user \in [Users -> Locals]
    BY Kinds, Zenon DEF DeleteRequest, MapInv, TypeOK
  <1>b. u.op = "request" /\ requests[u.peer] = u /\ u # Nobody /\ user[u].peer = u.peer
    BY <1>a, RequestIsThere, Zenon DEF CallInv
  <1>1. requests' = [requests EXCEPT ![u.peer] = Nobody]
        /\ (Go(u, "register") \/ Return(u))
    BY <1>b, Zenon DEF DeleteRequest
  <1>2. OthersStay(u) /\ user'[u].at \in {"register", "returned"} /\ user'[u].peer = u.peer
    BY <1>a, <1>b, <1>1, GoMoves, ReturnMoves, Zenon DEF SamePeer
  <1>3. UNCHANGED <<accepts, results, session, granted, done, link, inbox, reader, writing>>
    BY Zenon DEF DeleteRequest
  <1>4. CallInv'
    <2>1. ASSUME NEW v \in Users
          PROVE  /\ user'[v].at \notin {"idle", "returned"} => InProgress(v)
                 /\ user'[v].at = "idle" => At(v, "idle")
                 /\ v.op = "request" => /\ user'[v].at \notin {"invite", "continue", "write"}
                                        /\ user'[v].peer = v.peer
                 /\ v.op = "accept" => user'[v].at \notin {"submit", "sent", "select", "delete"}
      <3>1. CASE v = u  BY <3>1, <1>a, <1>b, <1>2, Zenon DEF InProgress, At
      <3>2. CASE v # u
        <4>1. user'[v] = user[v]  BY <3>2, <1>2, Zenon DEF OthersStay
        <4>. QED  BY <4>1, <1>a, Zenon DEF CallInv, InProgress, At
      <3>. QED  BY <3>1, <3>2, Zenon
    <2>2. CallsKept  BY <1>3, <2>1, Zenon DEF CallsKept
    <2>. QED  BY <1>a, <2>2, CallsStay, Zenon
  <1>5. RequestInv'
    <2>1. ASSUME NEW q \in Peers, requests'[q] # Nobody
          PROVE  /\ requests'[q].peer = q
                 /\ user'[requests'[q]].at \in {"sent", "select", "delete"}
      <3>1. q # u.peer /\ requests'[q] = requests[q] /\ requests[q] \in Users
        BY <2>1, <1>a, <1>1 DEF Calls
      <3>2. PICK w \in Users : w = requests[q]  BY <3>1, Zenon
      <3>3. w.peer = q /\ user[w].at \in {"sent", "select", "delete"}
        BY <2>1, <3>1, <3>2, <1>a, Zenon DEF RequestInv
      <3>4. user'[w] = user[w]  BY <3>1, <3>2, <3>3, <1>2, Zenon DEF OthersStay
      <3>. QED  BY <3>1, <3>2, <3>3, <3>4, Zenon
    <2>2. ASSUME NEW v \in Users, user'[v].at \in {"sent", "select", "delete"}
          PROVE  requests'[v.peer] = v
      <3>1. v # u  BY <2>2, <1>2
      <3>2. requests[v.peer] = v  BY <3>1, <2>2, <1>2, <1>a DEF RequestInv, OthersStay
      <3>3. v.peer # u.peer  BY <3>1, <3>2, <1>b
      <3>. QED  BY <3>2, <3>3, <1>1, <1>a, Kinds DEF Calls
    <2>. QED  BY <2>1, <2>2, Zenon DEF RequestInv
  <1>. QED  BY <1>a, <1>b, <1>2, <1>3, <1>4, <1>5, RequestMoves, Zenon DEF MapInv, At

-----------------------------------------------------------------------------
(* Accepts and results                                                     *)

\* sessionHandler registers a ReadAccept.
LEMMA WaitAcceptKeeps ==
    ASSUME TypeOK, MapInv, NEW u \in Users, WaitAccept(u) PROVE MapInv'
  <1> USE DEF requestVars, sessionVars, connVars, serverVars
  <1>a. u.op = "request" /\ At(u, "register") /\ accepts \in Calls /\ u.peer \in Peers
        /\ CallInv /\ user[u].peer = u.peer
    BY Kinds, Zenon DEF WaitAccept, TypeOK, MapInv, CallInv
  <1>b. UNCHANGED <<requests, results, session, writing, granted, done, link, inbox, reader>>
    BY Zenon DEF WaitAccept
  <1>1. CASE accepts[u.peer] # Nobody
    <2>1. UNCHANGED <<user, accepts>>  BY <1>1, Zenon DEF WaitAccept
    <2>. QED  BY <1>b, <2>1, SameMessages, StillKeeps DEF MapsStay
  <1>2. CASE accepts[u.peer] = Nobody
    <2>1. accepts' = [accepts EXCEPT ![u.peer] = u] /\ Go(u, "await")
      BY <1>2 DEF WaitAccept
    <2>2. OthersStay(u) /\ user'[u].at = "await" /\ user'[u].peer = u.peer
      BY <1>a, <2>1, GoMoves, Zenon DEF TypeOK, SamePeer
    <2>3. CallsKept  BY <1>a, <1>b, <2>2, Zenon DEF CallInv, CallsKept, InProgress, At, OthersStay
    <2>4. RequestsKept  BY <1>a, <1>b, <2>2, Zenon DEF RequestsKept, OthersStay, At
    <2>5. AcceptInv'
      <3>1. ASSUME NEW q \in Peers, accepts'[q] # Nobody
            PROVE  /\ accepts'[q].op = "request" /\ accepts'[q].peer = q
                   /\ user'[accepts'[q]].at = "await" \/ done'
        <4>1. CASE q = u.peer  BY <4>1, <1>a, <2>1, <2>2 DEF Calls
        <4>2. CASE q # u.peer
          <5>1. accepts'[q] = accepts[q] /\ accepts[q] \in Users
            BY <4>2, <3>1, <1>a, <2>1 DEF Calls
          <5>2. PICK w \in Users : w = accepts[q]  BY <5>1, Zenon
          <5>3. w.op = "request" /\ w.peer = q /\ (user[w].at = "await" \/ done)
            BY <3>1, <5>1, <5>2, Zenon DEF MapInv, AcceptInv, At
          <5>4. user'[w] = user[w]  BY <4>2, <5>2, <5>3, <2>2, Zenon DEF OthersStay
          <5>. QED  BY <5>1, <5>2, <5>3, <5>4, <1>b, Zenon
        <4>. QED  BY <4>1, <4>2, Zenon
      <3>. QED  BY <3>1 DEF AcceptInv, At
    <2>6. ResultsKept  BY <1>a, <1>b, <2>2 DEF ResultsKept, OthersStay, SamePeer, At
    <2>7. OwnKept  BY <1>a, <1>b, <2>2, SameMessages, Zenon DEF OwnKept, OthersStay, At
    <2>8. JoinsKept  BY <1>a, <1>b, <2>2 DEF JoinsKept, OthersStay, SamePeer, At
    <2>. QED
      BY <1>b, <2>3, <2>4, <2>5, <2>6, <2>7, <2>8, CallsStay, RequestsStay, ResultsStay,
         OutStays, OwnStays, JoinsStay DEF MapInv
  <1>. QED  BY <1>1, <1>2

\* An Accept is alone, and what is in results has been registered before.
LEMMA AcceptAlone ==
    ASSUME TypeOK, MapInv, NEW u \in Users, u.op = "accept", InProgress(u)
    PROVE  /\ \A v \in Users : v.op = "accept" /\ InProgress(v) => v = u
           /\ \A q \in Peers : results[q] = u =>
                 user[u].at \in {"write", "await"} /\ user[u].peer = q
  <1>1. ASSUME NEW v \in Users, v.op = "accept", InProgress(v) PROVE v = u
    BY <1>1 DEF MapInv, CallInv, Alike
  <1>2. ASSUME NEW q \in Peers, results[q] = u
        PROVE  user[u].at \in {"write", "await"} /\ user[u].peer = q
    BY <1>2, Kinds DEF MapInv, ResultInv, InProgress, At
  <1>. QED  BY <1>1, <1>2

\* sessionHandler registers an Accept, before anything can answer it.
LEMMA WaitResultKeeps ==
    ASSUME TypeOK, MapInv, NEW u \in Users, WaitResult(u) PROVE MapInv'
  <1> USE DEF requestVars, sessionVars, connVars, serverVars
  <1> DEFINE p == user[u].peer
  <1>a. u.op = "accept" /\ At(u, "register") /\ results \in Calls /\ p \in Peers
        /\ CallInv /\ session = Selecting /\ InProgress(u) /\ u # Nobody
    BY Kinds, Zenon DEF WaitResult, TypeOK, MapInv, CallInv, InProgress, At, Locals
  <1>b. UNCHANGED <<requests, accepts, session, writing, granted, done, link, inbox, reader>>
    BY Zenon DEF WaitResult
  <1>1. CASE results[p] # Nobody
    <2>1. UNCHANGED <<user, results>>  BY <1>1, Zenon DEF WaitResult
    <2>. QED  BY <1>b, <2>1, SameMessages, StillKeeps DEF MapsStay
  <1>2. CASE results[p] = Nobody
    <2>1. results' = [results EXCEPT ![p] = u] /\ Go(u, "write")
      BY <1>2 DEF WaitResult
    <2>2. OthersStay(u) /\ user'[u].at = "write" /\ user'[u].peer = p
      BY <1>a, <2>1, GoMoves DEF TypeOK, SamePeer
    <2> HIDE DEF p
    <2>3. CallsKept  BY <1>a, <1>b, <2>2, Zenon DEF CallInv, CallsKept, InProgress, At, OthersStay
    <2>4. RequestsKept  BY <1>a, <1>b, <2>2, Zenon DEF RequestsKept, OthersStay, At
    <2>5. AcceptsKept  BY <1>a, <1>b, <2>2, Zenon DEF AcceptsKept, OthersStay, At
    <2>6. JoinsKept  BY <1>a, <1>b, <2>2 DEF JoinsKept, OthersStay, SamePeer, At
    <2>a. \A q \in Peers : results[q] # u
      BY <1>a, AcceptAlone DEF At
    <2>b. results'[p] = u /\ \A q \in Peers : q # p => results'[q] = results[q]
      BY <1>a, <2>1 DEF Calls
    <2>c. \A q \in Peers : results[q] # Nobody => user'[results[q]] = user[results[q]]
      BY <1>a, <2>a, <2>2 DEF Calls, OthersStay
    <2>7. ResultInv'
      <3>1. ASSUME NEW q \in Peers, results'[q] # Nobody
            PROVE  /\ results'[q].op = "accept"
                   /\ \/ /\ user'[results'[q]].at \in {"write", "await"}
                         /\ user'[results'[q]].peer = q
                      \/ user'[results'[q]].at = "returned" /\ (done' \/ link' # "open")
                   /\ \A r \in Peers : results'[r] = results'[q] => r = q
        <4>1. CASE q = p  BY <4>1, <1>a, <2>2, <2>a, <2>b, Zenon
        <4>2. CASE q # p
          <5>1. results'[q] = results[q] /\ results[q] # Nobody
                /\ user'[results[q]] = user[results[q]]
            BY <4>2, <3>1, <2>b, <2>c, Zenon
          <5>2. /\ results[q].op = "accept"
                /\ \/ user[results[q]].at \in {"write", "await"} /\ user[results[q]].peer = q
                   \/ user[results[q]].at = "returned" /\ (done \/ link # "open")
                /\ \A r \in Peers : results[r] = results[q] => r = q
            BY <5>1, <1>a, Zenon DEF MapInv, ResultInv, At
          <5>3. \A r \in Peers : results'[r] = results[q] => r = q
            BY <5>2, <2>a, <2>b, Zenon
          <5>. QED  BY <5>1, <5>2, <5>3, <1>b, Zenon
        <4>. QED  BY <4>1, <4>2
      <3>2. ASSUME NEW v \in Users, v.op = "accept", user'[v].at \in {"write", "await"}
            PROVE  results'[user'[v].peer] = v
        <4>1. v = u  BY <3>2, <1>a, <2>2, AcceptAlone, Zenon DEF OthersStay, InProgress
        <4>. QED  BY <4>1, <2>2, <2>b, Zenon
      <3>. QED  BY <3>1, <3>2 DEF ResultInv, At
    <2>8. OutInv' /\ session'.at # "out"  BY <1>a, <1>b, Zenon DEF OutInv, Selecting
    <2>9. OwnInv'
      <3> SUFFICES ASSUME NEW q \in Peers, Unasked(q)' PROVE Own(q)'  BY DEF OwnInv
      <3>1. Unasked(q)  BY <1>a, <2>2 DEF Unasked, OthersStay, At
      <3>2. Own(q)  BY <3>1 DEF MapInv, OwnInv
      <3>3. \A m : (Coming(m)' <=> Coming(m)) /\ (Handled(m)' <=> Handled(m))
        BY <1>b DEF Coming, Handled
      <3>4. ~Leaving(q)'  BY <2>8 DEF Leaving
      <3>5. Established(q) \in ResultsOf(q)  BY DEF ResultsOf
      <3>6. CASE q = p
        <4>1. \A m \in ResultsOf(q) : ~Coming(m) /\ ~Handled(m)
          BY <3>2, <3>6, <1>2 DEF Own
        <4>. QED  BY <4>1, <3>3, <3>4, <3>5 DEF Own
      <3>7. CASE q # p
        <4>1. results'[q] = results[q] /\ inbox' = inbox /\ granted' = granted
              /\ (results[q] # Nobody => (At(results[q], "write")' <=> At(results[q], "write")))
          BY <3>7, <1>b, <2>b, <2>c, Zenon DEF At
        <4>. QED  BY <4>1, <3>2, <3>3, <3>4, <3>5, Zenon DEF Own
      <3>. QED  BY <3>6, <3>7
    <2>. QED
      BY <2>3, <2>4, <2>5, <2>6, <2>7, <2>8, <2>9, CallsStay, RequestsStay, AcceptsStay,
         JoinsStay DEF MapInv
  <1>. QED  BY <1>1, <1>2

\* AcceptSession is written, and the server's answer is the only result.
LEMMA WriteAcceptKeeps ==
    ASSUME TypeOK, MapInv, NEW u \in Users, WriteAccept(u) PROVE MapInv'
  <1> USE DEF requestVars, sessionVars, connVars, serverVars
  <1> DEFINE p == user[u].peer
  <1>a. u.op = "accept" /\ At(u, "write") /\ p \in Peers /\ CallInv /\ InProgress(u)
        /\ IsABag(inbox) /\ user \in [Users -> Locals] /\ u # Nobody
    BY Kinds, Zenon DEF WriteAccept, TypeOK, MapInv, CallInv, InProgress, At, Locals
  <1>b. results[p] = u  BY <1>a, Zenon DEF MapInv, ResultInv, At
  <1>c. UNCHANGED <<requests, accepts, results, session, writing, done, link, reader>>
        /\ granted \subseteq granted'
    BY DEF WriteAccept
  <1>1. /\ OthersStay(u)
        /\ \/ user'[u].at = "await" /\ SamePeer(u)
           \/ user'[u].at = "returned" /\ link # "open"
    BY <1>a, GoMoves, ReturnMoves, Zenon DEF WriteAccept
  <1>2. \/ UNCHANGED <<inbox, granted>>
        \/ inbox' = inbox (+) SetToBag({Failed(p)})
        \/ inbox' = inbox (+) SetToBag({Established(p)}) /\ u \in granted'
    BY DEF WriteAccept
  <1> HIDE DEF p
  <1>3. CallsKept  BY <1>a, <1>c, <1>1, Zenon DEF CallInv, CallsKept, InProgress, At, OthersStay
  <1>4. RequestsKept  BY <1>a, <1>c, <1>1, Zenon DEF RequestsKept, OthersStay, At
  <1>5. AcceptsKept  BY <1>a, <1>c, <1>1, Zenon DEF AcceptsKept, OthersStay, At
  <1>6. ResultsKept  BY <1>a, <1>c, <1>1, Zenon DEF ResultsKept, OthersStay, SamePeer, At
  <1>7. JoinsKept  BY <1>a, <1>c, <1>1 DEF JoinsKept, OthersStay, SamePeer, At
  <1>8. OwnInv'
    <2> SUFFICES ASSUME NEW q \in Peers, Unasked(q)' PROVE Own(q)'  BY DEF OwnInv
    <2>1. Unasked(q)  BY <1>a, <1>1, Zenon DEF Unasked, OthersStay, At
    <2>2. Own(q)  BY <2>1 DEF MapInv, OwnInv
    <2>3. /\ \A m : Handled(m)' <=> Handled(m)
          /\ Leaving(q)' <=> Leaving(q)
      BY <1>c DEF Handled, Leaving
    <2>4. Established(q) \in ResultsOf(q)  BY DEF ResultsOf
    <2>5. results[q] # Nobody => ~At(results[q], "write")'
      <3>1. ASSUME results[q] # Nobody, results[q] # u PROVE ~At(results[q], "write")
        <4>1. results[q] \in Users /\ results[q].op = "accept"
          BY <3>1, Zenon DEF TypeOK, Calls, MapInv, ResultInv
        <4>. QED  BY <3>1, <4>1, <1>a, AcceptAlone, Zenon DEF InProgress, At
      <3>. QED  BY <3>1, <1>a, <1>c, <1>1, Zenon DEF At, OthersStay, TypeOK, Calls
    <2>6. CASE q = p
      <3>1. \A m \in ResultsOf(q) : ~Coming(m) /\ ~Handled(m)
        BY <2>2, <2>6, <1>a, <1>b, Zenon DEF Own
      <3>2. ~Leaving(q)  BY <2>2, <2>6, <1>a, <1>b, Zenon DEF Own
      <3>3. PICK S \in {{}, {Failed(q)}, {Established(q)}} :
               /\ \A m \in ResultsOf(q) : Coming(m)' <=> m \in S
               /\ \A m \in S : inbox'[m] = 1
               /\ Established(q) \in S => u \in granted'
        <4>1. CASE inbox' = inbox  BY <4>1, <3>1, Zenon DEF Coming
        <4>2. CASE inbox' = inbox (+) SetToBag({Failed(p)})
          <5>1. Failed(q) \in ResultsOf(q) /\ Failed(q) # Established(q)
            BY MessageShape DEF ResultsOf
          <5>2. /\ \A m : Coming(m)' => Coming(m) \/ m = Failed(q)
                /\ Coming(Failed(q))' /\ inbox'[Failed(q)] = 1
            BY <4>2, <2>6, <5>1, <1>a, <3>1, OneMore, Zenon
          <5>. QED  BY <5>1, <5>2, <3>1
        <4>3. CASE inbox' = inbox (+) SetToBag({Established(p)}) /\ u \in granted'
          <5>1. Established(q) \in ResultsOf(q)  BY Zenon DEF ResultsOf
          <5>2. /\ \A m : Coming(m)' => Coming(m) \/ m = Established(q)
                /\ Coming(Established(q))' /\ inbox'[Established(q)] = 1
            BY <4>3, <2>6, <5>1, <1>a, <3>1, OneMore, Zenon
          <5>. QED  BY <5>1, <5>2, <4>3, <3>1, Zenon
        <4>. QED  BY <1>2, <4>1, <4>2, <4>3, Zenon
      <3>4. \A m, k \in S : m = k  OBVIOUS
      <3>5. results'[q] = u  BY <2>6, <1>b, <1>c
      <3>. QED  BY <3>1, <3>2, <3>3, <3>4, <3>5, <2>3, <2>4, <2>5, <1>a, <1>c, Zenon DEF Own
    <2>7. CASE q # p
      <3>1. \A m \in ResultsOf(q) : m # Failed(p) /\ m # Established(p)
        BY <2>7, MessageShape, <1>a DEF ResultsOf, Failed, Established
      <3>2. \A m \in ResultsOf(q) : Coming(m)' => Coming(m) /\ inbox'[m] = inbox[m]
        <4>1. CASE inbox' = inbox  BY <4>1, Zenon DEF Coming
        <4>2. ASSUME NEW k \in {Failed(p), Established(p)}, inbox' = inbox (+) SetToBag({k})
              PROVE  \A m \in ResultsOf(q) : Coming(m)' => Coming(m) /\ inbox'[m] = inbox[m]
          <5>1. \A m \in ResultsOf(q) : m # k  BY <3>1, <4>2, Zenon
          <5>. QED  BY <5>1, <4>2, <1>a, OneMore, Zenon
        <4>. QED  BY <4>1, <4>2, <1>2, Zenon
      <3>3. Leaving(q) => results[q] # Nobody
        BY SessionShape, Kinds, Zenon DEF TypeOK, Leaving
      <3>. QED  BY <3>2, <3>3, <2>2, <2>3, <2>4, <2>5, <1>c, Zenon DEF Own
    <2>. QED  BY <2>6, <2>7
  <1>. QED
    BY <1>c, <1>3, <1>4, <1>5, <1>6, <1>7, <1>8, CallsStay, RequestsStay, AcceptsStay,
       ResultsStay, OutStays, JoinsStay DEF MapInv

\* A ReadAccept gets its accept, and its entry is removed.
LEMMA SendAccept ==
    ASSUME TypeOK, MapInv, SendOut, session.user.op = "request" PROVE MapInv'
  <1> USE DEF requestVars, sessionVars, connVars, serverVars
  <1> DEFINE u == session.user
  <1>a. session.at = "out" /\ u \in Users /\ At(u, "await") /\ CallInv /\ u.peer \in Peers
    BY SessionShape, Kinds, Zenon DEF SendOut, TypeOK, MapInv
  <1>b. session.type = "SessionAccepted"  BY <1>a DEF MapInv, OutInv
  <1>c. /\ UNCHANGED <<requests, results, writing, granted, done, link, inbox, reader>>
        /\ session' = Selecting
        /\ accepts' = [accepts EXCEPT ![u.peer] = Nobody]
    BY Zenon DEF SendOut, Without
  <1>1. OthersStay(u) /\ user'[u].at = "join" /\ SamePeer(u)
    BY <1>a, <1>b, GoMoves, Zenon DEF SendOut, Refused, TypeOK
  <1>d. u.op = "request"  OBVIOUS
  <1> HIDE DEF u
  <1>2. CallsKept
    BY <1>a, <1>c, <1>d, <1>1, Zenon DEF CallInv, CallsKept, InProgress, At, OthersStay, SamePeer
  <1>3. RequestsKept  BY <1>a, <1>c, <1>1, Zenon DEF RequestsKept, OthersStay, At
  <1>4. AcceptsKept
    <2>1. /\ accepts'[u.peer] = Nobody
          /\ \A q \in Peers : accepts'[q] = accepts[q] \/ accepts'[q] = Nobody
      BY <1>a, <1>c, Zenon DEF TypeOK, Calls
    <2>. QED  BY <2>1, <1>c, <1>1, Zenon DEF AcceptsKept, OthersStay, At
  <1>5. ResultsKept  BY <1>a, <1>c, <1>d, <1>1, Zenon DEF ResultsKept, OthersStay, SamePeer, At
  <1>6. OutInv'  BY <1>c, Zenon DEF OutInv, Selecting
  <1>7. OwnKept  BY <1>a, <1>c, <1>1, SameMessages, Zenon DEF OwnKept, OthersStay, At
  <1>8. JoinsKept  BY <1>a, <1>c, <1>d, <1>1, Zenon DEF JoinsKept, OthersStay, SamePeer, At
  <1>. QED
    BY <1>2, <1>3, <1>4, <1>5, <1>6, <1>7, <1>8, CallsStay, RequestsStay, AcceptsStay,
       ResultsStay, OwnStays, JoinsStay, Zenon DEF MapInv

\* An Accept gets its result, which is its own, and its entry is removed.
LEMMA SendResult ==
    ASSUME TypeOK, MapInv, SendOut, session.user.op = "accept" PROVE MapInv'
  <1> USE DEF requestVars, sessionVars, connVars, serverVars
  <1> DEFINE u == session.user
             p == user[u].peer
  <1>a. session.at = "out" /\ u \in Users /\ At(u, "await") /\ CallInv /\ p \in Peers
        /\ session.type \in Results \cup {"SessionAccepted"} /\ InProgress(u) /\ u # Nobody
        /\ results \in Calls
    BY SessionShape, Kinds, Zenon DEF SendOut, TypeOK, MapInv, InProgress, At, Locals
  <1>b. session.type \in Results
    BY <1>a DEF MapInv, OutInv
  <1>c. /\ UNCHANGED <<requests, accepts, writing, granted, done, link, inbox, reader>>
        /\ session' = Selecting
        /\ results' = [results EXCEPT ![p] = Nobody]
    BY Zenon DEF SendOut, Without
  <1>d. u.op = "accept" /\ results[p] = u /\ Leaving(p)
    BY <1>a, Zenon DEF MapInv, ResultInv, At, Leaving
  <1>1. /\ OthersStay(u)
        /\ \/ user'[u].at = "join" /\ SamePeer(u) /\ session.type = "SessionEstablished"
           \/ user'[u].at = "returned"
    BY <1>a, <1>b, GoMoves, ReturnMoves, Zenon DEF SendOut, Refused, TypeOK, Results
  <1>e. results'[p] = Nobody /\ \A q \in Peers : q # p => results'[q] = results[q]
    BY <1>a, <1>c, Zenon DEF Calls
  <1> HIDE DEF u, p
  <1>2. CallsKept
    <2>1. user'[u].at \in {"join", "returned"} /\ u.op # "request" /\ writing' \subseteq writing
      BY <1>c, <1>d, <1>1
    <2>2. /\ user'[u].at # "idle"
          /\ user'[u].at \notin {"submit", "sent", "select", "delete"}
      BY <2>1
    <2>. QED  BY <1>a, <1>1, <2>1, <2>2, OneKept, Zenon
  <1>3. RequestsKept  BY <1>a, <1>c, <1>1, Zenon DEF RequestsKept, OthersStay, At
  <1>4. AcceptsKept  BY <1>c, <1>d, <1>1, Zenon DEF AcceptsKept, OthersStay, At
  <1>f. \A q \in Peers : q # p /\ results[q] # Nobody =>
           /\ results[q] \in Users /\ results[q] # u
           /\ user'[results[q]] = user[results[q]]
    BY <1>a, <1>d, <1>1, Zenon DEF MapInv, ResultInv, OthersStay, Calls
  <1>5. ResultInv'
    <2>1. ASSUME NEW q \in Peers, results'[q] # Nobody
          PROVE  /\ results'[q].op = "accept"
                 /\ \/ /\ user'[results'[q]].at \in {"write", "await"}
                       /\ user'[results'[q]].peer = q
                    \/ user'[results'[q]].at = "returned" /\ (done' \/ link' # "open")
                 /\ \A r \in Peers : results'[r] = results'[q] => r = q
      <3>1. q # p /\ results'[q] = results[q]  BY <2>1, <1>e
      <3>2. /\ results[q].op = "accept"
            /\ \/ user[results[q]].at \in {"write", "await"} /\ user[results[q]].peer = q
               \/ user[results[q]].at = "returned" /\ (done \/ link # "open")
            /\ \A r \in Peers : results[r] = results[q] => r = q
        BY <2>1, <3>1, Zenon DEF MapInv, ResultInv, At
      <3>3. user'[results[q]] = user[results[q]]  BY <2>1, <3>1, <1>f, Zenon
      <3>4. \A r \in Peers : results'[r] = results'[q] => r = q
        BY <2>1, <3>1, <3>2, <1>e, Zenon
      <3>. QED  BY <3>1, <3>2, <3>3, <3>4, <1>c, Zenon
    <2>2. ASSUME NEW v \in Users, v.op = "accept", user'[v].at \in {"write", "await"}
          PROVE  FALSE
      <3>1. v # u  BY <2>2, <1>1
      <3>. QED  BY <2>2, <3>1, <1>a, <1>d, <1>1, AcceptAlone, Zenon DEF OthersStay, InProgress
    <2>. QED  BY <2>1, <2>2, Zenon DEF ResultInv, At
  <1>6. OutInv' /\ session'.at # "out"  BY <1>c, Zenon DEF OutInv, Selecting
  <1>7. OwnInv'
    <2> SUFFICES ASSUME NEW q \in Peers, Unasked(q)' PROVE Own(q)'  BY Zenon DEF OwnInv
    <2>1. Unasked(q)  BY <1>a, <1>1, Zenon DEF Unasked, OthersStay, At
    <2>2. Own(q)  BY <2>1, Zenon DEF MapInv, OwnInv
    <2>3. \A m : (Coming(m)' <=> Coming(m)) /\ (Handled(m)' <=> Handled(m))
      BY <1>c, Zenon DEF Coming, Handled
    <2>4. ~Leaving(q)'  BY <1>6, Zenon DEF Leaving
    <2>5. Established(q) \in ResultsOf(q)  BY Zenon DEF ResultsOf
    <2>6. CASE q = p
      <3>1. \A m \in ResultsOf(q) : ~Coming(m) /\ ~Handled(m)
        BY <2>2, <2>6, <1>d, Zenon DEF Own
      <3>. QED  BY <3>1, <2>3, <2>4, <2>5, Zenon DEF Own
    <2>7. CASE q # p
      <3>1. results'[q] = results[q] /\ inbox' = inbox /\ granted' = granted
            /\ (results[q] # Nobody => (At(results[q], "write")' <=> At(results[q], "write")))
        BY <2>7, <1>c, <1>e, <1>f, Zenon DEF At
      <3>. QED  BY <3>1, <2>2, <2>3, <2>4, <2>5, Zenon DEF Own
    <2>. QED  BY <2>6, <2>7, Zenon
  <1>8. ResultIsOwn'
    <2>1. user'[u].at = "join" =>
             u \in granted \/ \E v \in Users : v.op = "request" /\ v.peer = p /\ ~At(v, "idle")
      <3>1. CASE Unasked(p)
        <4>1. Own(p)  BY <3>1, <1>a DEF MapInv, OwnInv
        <4>. QED  BY <4>1, <1>1, <1>d, Zenon DEF Own
      <3>2. CASE ~Unasked(p)  BY <3>2 DEF Unasked
      <3>. QED  BY <3>1, <3>2
    <2>2. \A v \in Users : ~At(v, "idle") => user'[v].at # "idle"
      BY <1>1 DEF OthersStay, At
    <2>3. user'[u].at = "join" => user'[u].peer = p  BY <1>1 DEF SamePeer, p
    <2>4. \A v \in Users : v # u => user'[v] = user[v]  BY <1>1 DEF OthersStay
    <2>5. ResultIsOwn  BY DEF MapInv
    <2>6. ASSUME NEW v \in Users, v.op = "accept", user'[v].at = "join"
          PROVE  \/ v \in granted
                 \/ \E w \in Users : /\ w.op = "request" /\ w.peer = user'[v].peer
                                     /\ user'[w].at # "idle"
      <3>1. CASE v = u  BY <2>1, <2>2, <2>3, <2>6, <3>1, Zenon
      <3>2. CASE v # u
        <4>1. user'[v] = user[v]  BY <2>4, <3>2, Zenon
        <4>. QED  BY <2>2, <2>5, <2>6, <4>1, Zenon DEF ResultIsOwn, At
      <3>. QED  BY <3>1, <3>2
    <2>. QED  BY <2>6, <1>c, Zenon DEF ResultIsOwn, At
  <1>. QED
    BY <1>2, <1>3, <1>4, <1>5, <1>6, <1>7, <1>8, CallsStay, RequestsStay, AcceptsStay
       DEF MapInv

-----------------------------------------------------------------------------
(* messageHandler and the server                                           *)

\* A message is read.
LEMMA ReadMessageKeeps == ASSUME TypeOK, MapInv, ReadMessage PROVE MapInv'
  <1> USE DEF requestVars, sessionVars, connVars, serverVars
  <1>1. PICK m \in BagToSet(inbox) :
           /\ inbox' = inbox (-) SetToBag({m})
           /\ reader' = [at |-> "gone"] \/ reader' = [at |-> FirstStop(m.type), m |-> m]
    BY Zenon DEF ReadMessage, Leave
  <1>2. UNCHANGED <<user, session>> /\ MapsStay /\ granted' = granted
    BY DEF ReadMessage, MapsStay
  <1>3. /\ \A k : k # m => (Coming(k)' => Coming(k) /\ inbox'[k] = inbox[k])
        /\ Coming(m)' => Coming(m)
        /\ inbox[m] = 1 => ~Coming(m)'
        /\ \A k : Handled(k)' => k = m
    <2>1. IsABag(inbox)  BY DEF TypeOK
    <2>2. \A k : Handled(k)' => k = m
      <3>1. CASE reader' = [at |-> "gone"]
        <4>1. reader'.at = "gone"  BY <3>1, Zenon
        <4>. QED  BY <4>1, Zenon DEF Handled
      <3>2. CASE reader' = [at |-> FirstStop(m.type), m |-> m]
        <4>1. reader'.m = m  BY <3>2, Zenon
        <4>. QED  BY <4>1, Zenon DEF Handled
      <3>. QED  BY <1>1, <3>1, <3>2, Zenon
    <2>. QED  BY <1>1, <2>1, <2>2, RemovedFrom, Zenon DEF Coming
  <1>4. OwnInv'
    <2> SUFFICES ASSUME NEW q \in Peers, Unasked(q)' PROVE Own(q)'  BY DEF OwnInv
    <2>1. Unasked(q)  BY <1>2 DEF Unasked, At
    <2>2. Own(q)  BY <2>1 DEF MapInv, OwnInv
    <2>3. /\ results' = results /\ Leaving(q)' = Leaving(q) /\ session' = session
          /\ At(results[q], "write")' = At(results[q], "write")
      BY <1>2, Zenon DEF MapsStay, Leaving, At
    <2>4. Established(q) \in ResultsOf(q)  BY DEF ResultsOf
    <2>5. CASE m \in ResultsOf(q)
      <3>1. \A k \in ResultsOf(q) : ~Coming(k)'
        BY <2>5, <2>2, <1>3 DEF Own, Coming
      <3>2. Coming(m)  BY DEF Coming
      <3>. QED  BY <3>1, <3>2, <2>5, <2>2, <2>3, <2>4, <1>2, <1>3, Zenon DEF Own
    <2>6. CASE m \notin ResultsOf(q)
      BY <2>6, <2>2, <2>3, <2>4, <1>2, <1>3, Zenon DEF Own
    <2>. QED  BY <2>5, <2>6
  <1>5. OutInv'  BY <1>2, OutStays DEF MapInv, MapsStay
  <1>. QED  BY <1>2, <1>4, <1>5, StillMaps DEF MapInv

\* A message is handed to sessionHandler.
LEMMA HandToSessionKeeps == ASSUME TypeOK, MapInv, HandToSession PROVE MapInv'
  <1> USE DEF requestVars, sessionVars, connVars, serverVars
  <1> DEFINE m == reader.m
             u == WaitingFor(m)
  <1>a. /\ reader.at \in {"accept", "result"} /\ m \in Messages /\ m.peer \in Peers
        /\ reader.at = "accept" => m.type = "SessionAccepted"
        /\ reader.at = "result" => m.type \in Results
        /\ session = Selecting
    BY ReaderShape, MessageShape, Zenon DEF HandToSession, TypeOK
  <1>b. /\ UNCHANGED user /\ MapsStay /\ UNCHANGED <<inbox, granted, results>>
        /\ reader' = Reading
        /\ session' = IF u = Nobody THEN session
                      ELSE [at |-> "out", user |-> u, type |-> m.type]
    BY DEF HandToSession, MapsStay
  <1>c. \A k : ~Handled(k)' /\ (Coming(k)' <=> Coming(k))
    BY <1>b DEF Handled, Coming, Reading
  <1>1. CASE u = Nobody
    BY <1>1, <1>b, <1>c, StillKeeps DEF NoResult, Coming
  <1>2. CASE u # Nobody
    <2>1. /\ session'.at = "out" /\ session'.user = u /\ session'.type = m.type
      BY <1>2, <1>b
    <2>2. /\ m.type = "SessionAccepted" => u.op = "request" /\ u = accepts[m.peer]
          /\ m.type # "SessionAccepted" => u.op = "accept" /\ u = results[m.peer]
      BY <1>2, <1>a, Zenon DEF WaitingFor, MapInv, AcceptInv, ResultInv
    <2> HIDE DEF u, m
    <2>3. OutInv'
      BY <2>1, <2>2, <1>a, <1>b, Zenon DEF OutInv
    <2>4. ASSUME NEW q \in Peers, Leaving(q)'
          PROVE  q = m.peer /\ m.type \in Results /\ u = results[q]
      <3>1. u = results[q]  BY <2>1, <2>4, <1>b, Zenon DEF Leaving
      <3>2. u.op = "accept"  BY <3>1, <1>2, Zenon DEF MapInv, ResultInv
      <3>3. m.type # "SessionAccepted" /\ u = results[m.peer]  BY <3>2, <2>2, Zenon
      <3>. QED  BY <3>1, <3>3, <1>2, <1>a, Zenon DEF MapInv, ResultInv
    <2>5. OwnInv'
      <3> SUFFICES ASSUME NEW q \in Peers, Unasked(q)' PROVE Own(q)'  BY DEF OwnInv
      <3>1. Unasked(q)  BY <1>b, Zenon DEF Unasked, At
      <3>2. Own(q)  BY <3>1 DEF MapInv, OwnInv
      <3>3. At(results[q], "write")' = At(results[q], "write")  BY <1>b, Zenon DEF At
      <3>4. Established(q) \in ResultsOf(q)  BY DEF ResultsOf
      <3>5. ~Leaving(q)  BY <1>a DEF Leaving, Selecting
      <3>6. CASE ~Leaving(q)'
        BY <3>6, <3>2, <3>3, <3>4, <1>b, <1>c, Zenon DEF Own
      <3>7. CASE Leaving(q)'
        <4>1. q = m.peer /\ m.type \in Results  BY <3>7, <2>4
        <4>2. m \in ResultsOf(q)  BY <4>1, <1>a, MessageShape
        <4>3. Handled(m)
          <5>1. reader.at = "result"  BY <4>1, <1>a DEF Results
          <5>. QED  BY <5>1 DEF Handled, m
        <4>4. \A k \in ResultsOf(q) : ~Coming(k)  BY <4>2, <4>3, <3>2, Zenon DEF Own
        <4>5. ~At(results[q], "write")  BY <4>2, <4>3, <3>2, Zenon DEF Own
        <4>6. m.type = "SessionEstablished" => m = Established(q)
          BY <4>2 DEF ResultsOf, Failed, Established
        <4>7. m.type = "SessionEstablished" => results[q] \in granted
          BY <4>3, <4>6, <3>2, Zenon DEF Own
        <4>. QED  BY <4>4, <4>5, <4>7, <3>3, <3>4, <2>1, <1>b, <1>c, Zenon DEF Own
      <3>. QED  BY <3>6, <3>7
    <2>. QED  BY <2>3, <2>5, <1>b, StillMaps DEF MapInv
  <1>. QED  BY <1>1, <1>2

\* The other steps of messageHandler bring no result.
LEMMA ReaderKeeps ==
    ASSUME TypeOK, MapInv, ReadFails \/ HandResponse \/ HandInvitation PROVE MapInv'
  <1> USE DEF requestVars, sessionVars, connVars, serverVars
  <1>a. user \in [Users -> Locals]  BY DEF TypeOK
  <1>b. MapsStay /\ UNCHANGED <<inbox, session>>
    BY DEF ReadFails, HandResponse, HandInvitation, MapsStay
  <1>c. NoResult
    <2>1. \A k : Handled(k)' => Handled(k)
      BY DEF ReadFails, HandResponse, HandInvitation, Leave, Reading, Handled
    <2>. QED  BY <2>1, <1>b DEF NoResult, Coming
  <1>1. CASE UNCHANGED user  BY <1>1, <1>b, <1>c, StillKeeps
  <1>2. ASSUME NEW u \in Users, At(u, "invite"), Go(u, "continue") PROVE MapInv'
    <2>1. Goes(u)  BY <1>2, <1>a, GoMoves, Zenon DEF Goes, At
    <2>. QED  BY <2>1, <1>b, <1>c, GoesKeeps
  <1>3. ASSUME NEW u \in Users, At(u, "invite"), Return(u) PROVE MapInv'
    <2>1. Goes(u)  BY <1>3, <1>a, ReturnMoves, Zenon DEF Goes, At
    <2>. QED  BY <2>1, <1>b, <1>c, GoesKeeps
  <1>4. ASSUME NEW u \in Users, At(u, "invite"), NEW p,
               user' = [user EXCEPT ![u].at = "register", ![u].peer = p]
        PROVE  MapInv'
    <2>1. Goes(u)  BY <1>4, <1>a DEF Goes, OthersStay, At, Locals
    <2>. QED  BY <2>1, <1>b, <1>c, GoesKeeps
  <1>. QED
    BY <1>1, <1>2, <1>3, <1>4, Zenon DEF ReadFails, HandResponse, HandInvitation

\* Steps that do not concern the calls.
LEMMA OtherKeeps ==
    ASSUME TypeOK, MapInv,
           \/ Start \/ RequestHandlerStops \/ Close \/ Break \/ UNCHANGED vars
           \/ \E x \in Closers : CloserStep(x)
           \/ \E p \in Peers : Invite(p)
    PROVE  MapInv'
  <1> USE DEF requestVars, sessionVars, connVars, serverVars
  <1>1. CASE \/ Start \/ RequestHandlerStops \/ Close \/ Break \/ UNCHANGED vars
             \/ \E x \in Closers : CloserStep(x)
    <2>1. UNCHANGED <<user, session>> /\ MapsStay /\ UNCHANGED <<inbox, reader>>
      <3>1. CASE Start  BY <3>1 DEF Start, MapsStay
      <3>2. CASE RequestHandlerStops  BY <3>2 DEF RequestHandlerStops, MapsStay
      <3>3. CASE Close  BY <3>3 DEF Close, MapsStay
      <3>6. CASE Break
        <4>1. link' # "open"  BY <3>6 DEF Break
        <4>. QED  BY <3>6, <4>1, Zenon DEF Break, MapsStay
      <3>4. CASE UNCHANGED vars  BY <3>4 DEF vars, MapsStay
      <3>5. ASSUME NEW x \in Closers, CloserStep(x)
            PROVE  UNCHANGED <<user, session>> /\ MapsStay /\ UNCHANGED <<inbox, reader>>
        <4>1. CASE CheckDone(x)  BY <4>1 DEF CheckDone, MapsStay
        <4>2. CASE CloseDone(x)
          <5>1. done' = TRUE /\ UNCHANGED <<user, requests, accepts, results, session, writing,
                                            granted, link, inbox, reader>>
            BY <4>2, Zenon DEF CloseDone
          <5>. QED  BY <5>1 DEF MapsStay
        <4>3. CASE CloseConn(x)  BY <4>3 DEF CloseConn, MapsStay
        <4>. QED  BY <3>5, <4>1, <4>2, <4>3 DEF CloserStep
      <3>. QED  BY <1>1, <3>1, <3>2, <3>3, <3>4, <3>5, <3>6
    <2>. QED  BY <2>1, SameMessages, StillKeeps
  <1>2. ASSUME NEW p \in Peers, Invite(p) PROVE MapInv'
    <2>1. UNCHANGED <<user, session, reader>> /\ MapsStay /\ IsABag(inbox)
          /\ inbox' = inbox (+) SetToBag({Invitation(p)})
      BY <1>2, Zenon DEF Invite, MapsStay, TypeOK
    <2>2. \A q \in Peers : Invitation(p) \notin ResultsOf(q)
      BY DEF ResultsOf, Invitation, Failed, Established
    <2>3. \A k : k # Invitation(p) => (Coming(k)' => Coming(k) /\ inbox'[k] = inbox[k])
      BY <2>1, OneMore, Zenon
    <2>4. NoResult  BY <2>1, <2>2, <2>3, Zenon DEF NoResult, Handled, Coming
    <2>. QED  BY <2>1, <2>4, StillKeeps
  <1>. QED  BY <1>1, <1>2

-----------------------------------------------------------------------------
(* The theorems                                                            *)

\* Which panics a step can reach.
LEMMA PanicsStay == ASSUME TypeOK, ClientInv, [Next]_vars PROVE PanicInv'
  <1> USE DEF requestVars, sessionVars, connVars, serverVars
  <1>a. PanicInv /\ MapInv  BY DEF ClientInv, MapInv
  <1>1. ASSUME NEW u \in Users, DeleteRequest(u) PROVE PanicInv'
    <2>1. requests[u.peer] # Nobody  BY <1>1, <1>a, RequestIsThere, Zenon DEF DeleteRequest
    <2>. QED  BY <1>1, <1>a, <2>1, Zenon DEF DeleteRequest, PanicInv
  <1>2. ASSUME NEW u \in Users, WaitAccept(u) PROVE PanicInv'
    <2>1. ASSUME accepts[u.peer] # Nobody PROVE done
      <3>1. PICK w \in Users : w = accepts[u.peer]
        BY <2>1, Kinds DEF TypeOK, Calls
      <3>2. w.op = "request" /\ w.peer = u.peer /\ (At(w, "await") \/ done)
        BY <2>1, <3>1, <1>a, Kinds, Zenon DEF MapInv, AcceptInv
      <3>. QED
        BY <3>2, <1>2, <1>a, Zenon DEF WaitAccept, MapInv, CallInv, Alike, InProgress, At
    <2>. QED  BY <1>2, <1>a, <2>1, Zenon DEF WaitAccept, Panic, PanicInv
  <1>3. ASSUME NEW u \in Users, WaitResult(u) PROVE PanicInv'
    <2>1. ASSUME results[user[u].peer] # Nobody PROVE done \/ link # "open"
      <3>0. user[u].peer \in Peers  BY DEF TypeOK, Locals
      <3>1. PICK w \in Users : w = results[user[u].peer]
        BY <2>1, <3>0 DEF TypeOK, Calls
      <3>2. /\ w.op = "accept"
            /\ user[w].at \in {"write", "await"} \/ done \/ link # "open"
        BY <2>1, <3>0, <3>1, <1>a, Zenon DEF MapInv, ResultInv
      <3>. QED
        BY <3>2, <1>3, <1>a, Zenon DEF WaitResult, MapInv, CallInv, Alike, InProgress, At
    <2>. QED  BY <1>3, <1>a, <2>1, Zenon DEF WaitResult, Panic, PanicInv
  <1>4. ASSUME UNCHANGED <<status, done>>, link # "open" => link' # "open"
        PROVE  PanicInv'
    BY <1>4, <1>a, Zenon DEF PanicInv
  <1>5. ASSUME NEW x \in Closers, CloserStep(x) PROVE PanicInv'
    BY <1>5, <1>a, Zenon DEF CloserStep, CheckDone, CloseDone, CloseConn, Panic, PanicInv
  <1>6. CASE Start  BY <1>6, Zenon DEF Start, PanicInv
  <1>7. ASSUME NEW u \in Users,
               \/ Begin(u) \/ NewRequest(u) \/ Await(u) \/ WriteAccept(u) \/ GiveUp(u)
               \/ Authenticate(u) \/ WriteRequest(u) \/ Cancel(u)
        PROVE  PanicInv'
    <2>1. UNCHANGED <<status, done, link>>
      <3>1. CASE Begin(u) \/ NewRequest(u) \/ Await(u)  BY <3>1, Zenon DEF Begin, NewRequest, Await
      <3>2. CASE WriteAccept(u) \/ WriteRequest(u)  BY <3>2, Zenon DEF WriteAccept, WriteRequest
      <3>3. CASE GiveUp(u) \/ Authenticate(u) \/ Cancel(u)
        BY <3>3, Zenon DEF GiveUp, Authenticate, Cancel
      <3>. QED  BY <1>7, <3>1, <3>2, <3>3
    <2>. QED  BY <2>1, <1>4
  <1>8. CASE \/ OfferOutput \/ RequestHandlerStops \/ SendOut \/ ReaderStep \/ Close
             \/ UNCHANGED vars \/ \E p \in Peers : Invite(p)
    <2>1. UNCHANGED <<status, done, link>>
      <3>1. CASE OfferOutput \/ RequestHandlerStops \/ SendOut
        BY <3>1, Zenon DEF OfferOutput, RequestHandlerStops, SendOut
      <3>2. CASE ReadMessage \/ ReadFails  BY <3>2, Zenon DEF ReadMessage, ReadFails
      <3>3. CASE HandResponse \/ HandToSession \/ HandInvitation
        BY <3>3 DEF HandResponse, HandToSession, HandInvitation
      <3>4. CASE Close \/ UNCHANGED vars \/ \E p \in Peers : Invite(p)
        BY <3>4, Zenon DEF Close, vars, Invite
      <3>. QED  BY <1>8, <3>1, <3>2, <3>3, <3>4 DEF ReaderStep
    <2>. QED  BY <2>1, <1>4
  <1>9. CASE Break  BY <1>9, <1>4 DEF Break
  <1>. QED  BY <1>1, <1>2, <1>3, <1>5, <1>6, <1>7, <1>8, <1>9 DEF Next, UserStep

\* A step keeps the maps and the calls in step.
LEMMA MapsKept == ASSUME Overlap = FALSE, TypeOK, MapInv, [Next]_vars PROVE MapInv'
  <1>1. ASSUME NEW u \in Users, UserStep(u) \/ WriteRequest(u) \/ Cancel(u) PROVE MapInv'
    BY <1>1, BeginKeeps, NewRequestKeeps, CallSteps, DeleteRequestKeeps, WaitAcceptKeeps,
       WaitResultKeeps, WriteAcceptKeeps, WriteRequestKeeps, Zenon DEF UserStep
  <1>2. CASE SendOut
    <2>1. session.user.op = "request" \/ session.user.op = "accept"
      BY <1>2, SessionShape, Kinds, Zenon DEF SendOut, TypeOK
    <2>. QED  BY <1>2, <2>1, SendAccept, SendResult
  <1>3. CASE ReaderStep
    BY <1>3, ReadMessageKeeps, HandToSessionKeeps, ReaderKeeps DEF ReaderStep
  <1>. QED  BY <1>1, <1>2, <1>3, OfferSteps, OtherKeeps DEF Next

\* Nothing is registered, written or handed on at first.
LEMMA Initially == ASSUME Init PROVE TypeOK /\ ClientInv
  <1>1. TypeOK
    <2>1. user \in [Users -> Locals]  BY Kinds DEF Init, Locals
    <2>2. requests \in Calls /\ accepts \in Calls /\ results \in Calls  BY DEF Init, Calls
    <2>3. handler \in HandlerStates /\ session \in SessionStates /\ reader \in ReaderStates
      BY HandlerShape, SessionShape, ReaderShape, Zenon DEF Init
    <2>4. invited \in 0 .. MaxInvitations
      <3>1. invited = 0  BY DEF Init
      <3>2. MaxInvitations \in Nat  BY ClientAssumption
      <3>. QED  BY <3>1, <3>2
    <2>5. inbox = EmptyBag  BY DEF Init
    <2>6. IsABag(inbox) /\ BagToSet(inbox) \subseteq Messages  BY <2>5, NoMessages, Zenon
    <2>. QED  BY <2>1, <2>2, <2>3, <2>4, <2>6, Zenon DEF Init, TypeOK
  <1>2. CallInv /\ RequestInv /\ AcceptInv /\ ResultInv
    BY Kinds, Zenon DEF Init, CallInv, RequestInv, AcceptInv, ResultInv, At, InProgress
  <1>3. OutInv /\ PanicInv /\ ResultIsOwn
    BY Kinds, Zenon DEF Init, OutInv, PanicInv, ResultIsOwn, At, Selecting
  <1>4. \A m : ~Coming(m) /\ ~Handled(m)
    BY NoMessages, Zenon DEF Init, Coming, Handled, Reading
  <1>5. \A p : ~Leaving(p)  BY Zenon DEF Init, Leaving, Selecting
  <1>6. OwnInv  BY <1>4, <1>5 DEF OwnInv, Own
  <1>. QED  BY <1>1, <1>2, <1>3, <1>6 DEF ClientInv

\* As long as like calls do not overlap, the types and the inductive invariant
\* hold for any calls and devices, whatever is cancelled, lost or closed.
THEOREM ClientHolds == ASSUME Overlap = FALSE PROVE Spec => [](TypeOK /\ ClientInv)
  <1>1. Init => TypeOK /\ ClientInv  BY Initially
  <1>2. TypeOK /\ ClientInv /\ [Next]_vars => TypeOK' /\ ClientInv'
    <2> SUFFICES ASSUME TypeOK, ClientInv, [Next]_vars PROVE TypeOK' /\ ClientInv'
      OBVIOUS
    <2>1. MapInv  BY DEF ClientInv, MapInv
    <2>2. TypeOK' /\ MapInv' /\ PanicInv'  BY <2>1, Types, MapsKept, PanicsStay, Zenon
    <2>. QED  BY <2>2 DEF ClientInv, MapInv
  <1>. QED  BY <1>1, <1>2, PTL DEF Spec

\* requestHandler's panic("attempting to close a request which does not exist")
\* is unreachable as long as Requests for one device do not overlap, and
\* sessionHandler's "already waiting for an accept" until c.done is closed.
THEOREM AssertionsAreSafe == ASSUME Overlap = FALSE PROVE Spec => []AssertionsHold
  <1>1. TypeOK /\ ClientInv => AssertionsHold  BY Zenon DEF ClientInv, PanicInv, AssertionsHold
  <1>. QED  BY <1>1, ClientHolds, PTL

\* Every entry of requests and accepts belongs to a call that will remove it, or
\* c.done is closed.
THEOREM EntriesStayLive == ASSUME Overlap = FALSE PROVE Spec => []EntriesAreLive
  <1>1. TypeOK /\ ClientInv => EntriesAreLive
    BY Zenon DEF ClientInv, RequestInv, AcceptInv, EntriesAreLive, At
  <1>. QED  BY <1>1, ClientHolds, PTL

\* sessionHandler's panic("already waiting for a result for this identity") takes a
\* protocol that was closed or a connection that was lost.
THEOREM ResultAssertionIsSafe == ASSUME Overlap = FALSE PROVE Spec => []ResultAssertionHolds
  <1>1. TypeOK /\ ClientInv => ResultAssertionHolds
    BY Zenon DEF ClientInv, PanicInv, ResultAssertionHolds
  <1>. QED  BY <1>1, ClientHolds, PTL

\* Accept returns nil only for the session that this very call has accepted, or
\* when a Request for the same device confuses the results.
THEOREM ResultsAreOwn == ASSUME Overlap = FALSE PROVE Spec => []ResultIsOwn
  <1>1. TypeOK /\ ClientInv => ResultIsOwn  BY DEF ClientInv
  <1>. QED  BY <1>1, ClientHolds, PTL
=============================================================================
