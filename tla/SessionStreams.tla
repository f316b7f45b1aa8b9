---------------------------- MODULE SessionStreams ---------------------------
(***************************************************************************)
(* Proofs about the data of a session's channels, for any set of calls and *)
(* any number of messages: a Channel reads a run of consecutive messages   *)
(* of its other end whatever is closed or fails, and while nobody closes   *)
(* anything only the beginning of a stream can be missing, which was       *)
(* written before the Channel at its end was registered.                   *)
(***************************************************************************)
EXTENDS SessionProofs

\* The seconds each prover may take for a step.
USE SMTT(15), ZenonT(15)

\* A queue is its first element before its rest.
LEMMA FirstThenRest ==
    ASSUME NEW S, NEW q \in Seq(S), q # <<>>
    PROVE  <<Head(q)>> \o Tail(q) = q
<1> DEFINE x == <<Head(q)>> \o Tail(q)
<1>1. x \in Seq(S) /\ Len(x) = Len(q)  OBVIOUS
<1>2. \A k \in 1 .. Len(x) : x[k] = q[k]  OBVIOUS
<1> HIDE DEF x
<1>3. x = q  BY <1>1, <1>2, SameElements
<1>. QED  BY <1>3 DEF x

\* Facts about numbers, and about counting in a function.
LEMMA Sums == \A k, m, n \in Nat : n + 1 \in Nat /\ k + m + n \in Nat
OBVIOUS

\* What is at most n is at most n + 1.
LEMMA AtMostNext == \A m, n \in Nat : n <= n /\ (m <= n => m <= n + 1)
OBVIOUS

\* At most, twice.
LEMMA AtMost == \A k, m, n \in Nat : k <= m /\ m <= n => k <= n
OBVIOUS

\* Counting one more in a function leaves the other counts alone.
LEMMA Counted ==
    ASSUME NEW S, NEW f \in [S -> Nat], NEW x \in S, NEW g, g = [f EXCEPT ![x] = f[x] + 1]
    PROVE  /\ g[x] = f[x] + 1 /\ g[x] # 0 /\ g \in [S -> Nat]
           /\ \A y \in S : f[y] <= g[y] /\ g[y] \in Nat /\ (y # x => g[y] = f[y])
OBVIOUS

\* A sequence of numbers has a length.
LEMMA Lengths == \A q \in Seq(Nat) : Len(q) \in Nat
OBVIOUS

\* No message follows the nth.
LEMMA NoneFollow == \A n \in Nat : Follows(<<>>, n) /\ n + Len(<<>>) \in Nat /\ n = n + Len(<<>>)
BY DEF Follows

\* A run of consecutive messages: one more at its end, its first one taken, two
\* of them joined.
LEMMA FollowsAppend ==
    ASSUME NEW q \in Seq(Nat), NEW n \in Nat, Follows(q, n), NEW k, k = n + Len(q) + 1
    PROVE  /\ Append(q, k) \in Seq(Nat) /\ Len(Append(q, k)) = Len(q) + 1 /\ Len(q) \in Nat
           /\ Follows(Append(q, k), n)
<1>1. Len(q) \in Nat /\ k \in Nat  OBVIOUS
<1> DEFINE r == Append(q, k)
<1>2. /\ r \in Seq(Nat) /\ Len(r) = Len(q) + 1 /\ r[Len(q) + 1] = k
      /\ \A j \in 1 .. Len(q) : r[j] = q[j]
  BY <1>1
<1> HIDE DEF r
<1>3. \A j \in 1 .. Len(r) : j \in 1 .. Len(q) \/ j = Len(q) + 1  BY <1>1, <1>2
<1>4. k = n + (Len(q) + 1)  BY <1>1
<1>5. Follows(r, n)  BY <1>2, <1>3, <1>4, Zenon DEF Follows
<1>. QED  BY <1>1, <1>2, <1>5 DEF r

\* The first of a run is the next message, and the others follow it.
LEMMA FollowsTail ==
    ASSUME NEW q \in Seq(Nat), q # <<>>, NEW n \in Nat, Follows(q, n)
    PROVE  /\ Head(q) = n + 1 /\ Tail(q) \in Seq(Nat) /\ Len(Tail(q)) = Len(q) - 1 /\ Len(q) \in Nat
           /\ Follows(Tail(q), n + 1)
<1>1. /\ Len(q) \in Nat \ {0} /\ Tail(q) \in Seq(Nat) /\ Len(Tail(q)) = Len(q) - 1
      /\ \A k \in 1 .. Len(Tail(q)) : Tail(q)[k] = q[k + 1]
  BY FirstAndRest
<1>2. Head(q) = q[1] /\ 1 \in 1 .. Len(q)  BY <1>1
<1>3. Head(q) = n + 1  BY <1>2 DEF Follows
<1>4. ASSUME NEW k \in 1 .. Len(Tail(q)) PROVE Tail(q)[k] = (n + 1) + k
  <2>1. k + 1 \in 1 .. Len(q) /\ (n + 1) + k = n + (k + 1)  BY <1>1
  <2>. QED  BY <1>1, <2>1 DEF Follows
<1>. QED  BY <1>1, <1>3, <1>4 DEF Follows

\* Two runs, the second after the first, are one.
LEMMA FollowsJoined ==
    ASSUME NEW p \in Seq(Nat), NEW q \in Seq(Nat), NEW n \in Nat,
           Follows(p, n), Follows(q, n + Len(p))
    PROVE  /\ p \o q \in Seq(Nat) /\ Len(p \o q) = Len(p) + Len(q) /\ Len(p) \in Nat /\ Len(q) \in Nat
           /\ Follows(p \o q, n)
<1> DEFINE r == p \o q
<1>1. /\ r \in Seq(Nat) /\ Len(r) = Len(p) + Len(q) /\ Len(p) \in Nat /\ Len(q) \in Nat
      /\ \A k \in 1 .. Len(p) : r[k] = p[k]
      /\ \A k \in Len(p) + 1 .. Len(p) + Len(q) : r[k] = q[k - Len(p)]
  OBVIOUS
<1> HIDE DEF r
<1>2. ASSUME NEW k \in 1 .. Len(r) PROVE r[k] = n + k
  <2>1. CASE k \in 1 .. Len(p)  BY <1>1, <2>1 DEF Follows
  <2>2. CASE k \notin 1 .. Len(p)
    <3>1. /\ k \in Len(p) + 1 .. Len(p) + Len(q) /\ k - Len(p) \in 1 .. Len(q)
          /\ n + Len(p) + (k - Len(p)) = n + k
      BY <1>1, <2>2
    <3>. QED  BY <1>1, <3>1 DEF Follows
  <2>. QED  BY <2>1, <2>2
<1>. QED  BY <1>1, <1>2 DEF Follows, r

-----------------------------------------------------------------------------
(* Data on its way                                                         *)

\* m is data for the channel with this ID.
IsData(m, i) == m.type = "Data" /\ m.id = i

\* Another message at the end.
LEMMA CarriesOther ==
    ASSUME NEW q \in Seq(Messages), NEW m \in Messages, NEW i, NEW f \in Nat, NEW t \in Nat,
           Carries(q, i, f, t), ~IsData(m, i)
    PROVE  Carries(Append(q, m), i, f, t)
<1> DEFINE r == Append(q, m)
<1>1. /\ Len(q) \in Nat /\ Len(r) = Len(q) + 1 /\ r[Len(q) + 1] = m
      /\ \A k \in 1 .. Len(q) : r[k] = q[k]
  OBVIOUS
<1> HIDE DEF r
<1>2. \A j : j \in DataAt(r, i) <=> j \in DataAt(q, i)
  BY <1>1 DEF DataAt, IsData
<1>3. \A j \in DataAt(q, i) : r[j] = q[j]  BY <1>1 DEF DataAt
<1>4. Carries(r, i, f, t)  BY <1>2, <1>3 DEF Carries
<1>. QED  BY <1>4 DEF r

\* The next message at the end.
LEMMA CarriesNext ==
    ASSUME NEW q \in Seq(Messages), NEW m \in Messages, NEW i, NEW f \in Nat, NEW t \in Nat,
           Carries(q, i, f, t), f <= t, IsData(m, i), m.k = t + 1
    PROVE  Carries(Append(q, m), i, f, t + 1)
<1> DEFINE r == Append(q, m)
<1>1. /\ Len(q) \in Nat /\ Len(r) = Len(q) + 1 /\ r[Len(q) + 1] = m
      /\ \A k \in 1 .. Len(q) : r[k] = q[k]
  OBVIOUS
<1> HIDE DEF r
<1>2. \A j : j \in DataAt(r, i) <=> j \in DataAt(q, i) \/ j = Len(q) + 1
  BY <1>1 DEF DataAt, IsData
<1>3. \A j \in DataAt(q, i) : r[j] = q[j] /\ j \in Nat /\ j < Len(q) + 1  BY <1>1 DEF DataAt
<1>4. \A j \in DataAt(r, i) : r[j].k \in f + 1 .. t + 1
  BY <1>1, <1>2, <1>3 DEF Carries
<1>5. \A j, l \in DataAt(r, i) : j < l => r[j].k < r[l].k
  <2> SUFFICES ASSUME NEW j \in DataAt(r, i), NEW l \in DataAt(r, i), j < l
               PROVE  r[j].k < r[l].k
    OBVIOUS
  <2>1. CASE l \in DataAt(q, i)
    <3>1. j \in DataAt(q, i)  BY <1>1, <1>2, <1>3, <2>1
    <3>. QED  BY <1>3, <2>1, <3>1 DEF Carries
  <2>2. CASE l = Len(q) + 1
    <3>1. j \in DataAt(q, i)  BY <1>1, <1>2, <2>2
    <3>2. r[j].k \in f + 1 .. t  BY <1>3, <3>1 DEF Carries
    <3>. QED  BY <1>1, <2>2, <3>2
  <2>. QED  BY <1>2, <2>1, <2>2
<1>6. ASSUME NEW k \in f + 1 .. t + 1 PROVE \E j \in DataAt(r, i) : r[j].k = k
  <2>1. CASE k = t + 1  BY <1>1, <1>2, <2>1
  <2>2. CASE k # t + 1
    <3>1. k \in f + 1 .. t  BY <2>2
    <3>2. PICK j \in DataAt(q, i) : q[j].k = k  BY <3>1 DEF Carries
    <3>. QED  BY <1>2, <1>3, <3>2
  <2>. QED  BY <2>1, <2>2
<1>7. Carries(r, i, f, t + 1)  BY <1>4, <1>5, <1>6 DEF Carries
<1>. QED  BY <1>7 DEF r

\* The positions of the data after the first message is taken.
LEMMA DataAtTail ==
    ASSUME NEW q \in Seq(Messages), q # <<>>, NEW i
    PROVE  /\ \A j \in Nat : j \in DataAt(Tail(q), i) => j + 1 \in DataAt(q, i) /\ Tail(q)[j] = q[j + 1]
           /\ \A j \in DataAt(q, i) : j # 1 => j - 1 \in DataAt(Tail(q), i) /\ Tail(q)[j - 1] = q[j]
           /\ DataAt(q, i) \subseteq Nat \ {0} /\ DataAt(Tail(q), i) \subseteq Nat \ {0}
           /\ 1 \in DataAt(q, i) <=> IsData(q[1], i)
<1>1. /\ Len(q) \in Nat \ {0} /\ Len(Tail(q)) = Len(q) - 1
      /\ \A k \in 1 .. Len(Tail(q)) : Tail(q)[k] = q[k + 1]
  BY FirstAndRest
<1>2. \A j \in Nat : j \in DataAt(Tail(q), i) => j + 1 \in DataAt(q, i) /\ Tail(q)[j] = q[j + 1]
  BY <1>1 DEF DataAt
<1>3. ASSUME NEW j \in DataAt(q, i), j # 1
      PROVE  j - 1 \in DataAt(Tail(q), i) /\ Tail(q)[j - 1] = q[j]
  <2>1. j \in 1 .. Len(q) /\ q[j].type = "Data" /\ q[j].id = i  BY DEF DataAt
  <2>2. j - 1 \in 1 .. Len(Tail(q)) /\ (j - 1) + 1 = j  BY <1>1, <1>3, <2>1
  <2>3. Tail(q)[j - 1] = q[j]  BY <1>1, <2>2
  <2>. QED  BY <2>1, <2>2, <2>3 DEF DataAt
<1>4. DataAt(q, i) \subseteq Nat \ {0} /\ DataAt(Tail(q), i) \subseteq Nat \ {0}
  BY <1>1 DEF DataAt
<1>5. 1 \in DataAt(q, i) <=> IsData(q[1], i)  BY <1>1 DEF DataAt, IsData
<1>. QED  BY <1>2, <1>3, <1>4, <1>5, Zenon

\* Another message taken from the front.
LEMMA CarriesRest ==
    ASSUME NEW q \in Seq(Messages), q # <<>>, NEW i, NEW f \in Nat, NEW t \in Nat,
           Carries(q, i, f, t), ~IsData(q[1], i)
    PROVE  Carries(Tail(q), i, f, t)
<1> DEFINE r == Tail(q)
<1>1. /\ \A j \in Nat : j \in DataAt(r, i) => j + 1 \in DataAt(q, i) /\ r[j] = q[j + 1]
      /\ \A j \in DataAt(q, i) : j # 1 => j - 1 \in DataAt(r, i) /\ r[j - 1] = q[j]
      /\ DataAt(q, i) \subseteq Nat \ {0} /\ DataAt(r, i) \subseteq Nat \ {0}
      /\ 1 \notin DataAt(q, i)
  BY DataAtTail, Zenon
<1> HIDE DEF r
<1>2. \A j \in DataAt(r, i) : r[j].k \in f + 1 .. t  BY <1>1 DEF Carries
<1>3. \A j, l \in DataAt(r, i) : j < l => r[j].k < r[l].k
  <2> SUFFICES ASSUME NEW j \in DataAt(r, i), NEW l \in DataAt(r, i), j < l
               PROVE  r[j].k < r[l].k
    OBVIOUS
  <2>1. j + 1 \in DataAt(q, i) /\ l + 1 \in DataAt(q, i) /\ r[j] = q[j + 1] /\ r[l] = q[l + 1]
    BY <1>1
  <2>2. j + 1 < l + 1  BY <1>1
  <2>. QED  BY <2>1, <2>2 DEF Carries
<1>4. ASSUME NEW k \in f + 1 .. t PROVE \E j \in DataAt(r, i) : r[j].k = k
  <2>1. PICK j \in DataAt(q, i) : q[j].k = k  BY DEF Carries
  <2>. QED  BY <1>1, <2>1
<1>5. Carries(r, i, f, t)  BY <1>2, <1>3, <1>4 DEF Carries
<1>. QED  BY <1>5 DEF r

\* Data taken from the front is the next message.
LEMMA CarriesFirst ==
    ASSUME NEW q \in Seq(Messages), q # <<>>, NEW i, NEW f \in Nat, NEW t \in Nat,
           Carries(q, i, f, t), IsData(q[1], i)
    PROVE  q[1].k = f + 1 /\ f + 1 <= t /\ Carries(Tail(q), i, f + 1, t)
<1> DEFINE r == Tail(q)
<1>1. /\ \A j \in Nat : j \in DataAt(r, i) => j + 1 \in DataAt(q, i) /\ r[j] = q[j + 1]
      /\ \A j \in DataAt(q, i) : j # 1 => j - 1 \in DataAt(r, i) /\ r[j - 1] = q[j]
      /\ DataAt(q, i) \subseteq Nat \ {0} /\ DataAt(r, i) \subseteq Nat \ {0}
      /\ 1 \in DataAt(q, i)
  BY DataAtTail, Zenon
<1> HIDE DEF r
<1>2. q[1].k \in f + 1 .. t  BY <1>1 DEF Carries
<1>3. q[1].k = f + 1
  <2>1. PICK j \in DataAt(q, i) : q[j].k = f + 1  BY <1>2 DEF Carries
  <2>2. j # 1 => 1 < j  BY <1>1
  <2>3. j # 1 => q[1].k < f + 1  BY <1>1, <2>1, <2>2 DEF Carries
  <2>. QED  BY <1>2, <2>1, <2>3
<1>4. \A j, l \in DataAt(r, i) : j < l => r[j].k < r[l].k
  <2> SUFFICES ASSUME NEW j \in DataAt(r, i), NEW l \in DataAt(r, i), j < l
               PROVE  r[j].k < r[l].k
    OBVIOUS
  <2>1. j + 1 \in DataAt(q, i) /\ l + 1 \in DataAt(q, i) /\ r[j] = q[j + 1] /\ r[l] = q[l + 1]
    BY <1>1
  <2>2. j + 1 < l + 1  BY <1>1
  <2>. QED  BY <2>1, <2>2 DEF Carries
<1>5. ASSUME NEW j \in DataAt(r, i) PROVE r[j].k \in (f + 1) + 1 .. t
  <2>1. j + 1 \in DataAt(q, i) /\ r[j] = q[j + 1] /\ 1 < j + 1  BY <1>1
  <2>2. q[j + 1].k \in f + 1 .. t /\ q[1].k < q[j + 1].k  BY <1>1, <2>1 DEF Carries
  <2>. QED  BY <1>3, <2>1, <2>2
<1>6. ASSUME NEW k \in (f + 1) + 1 .. t PROVE \E j \in DataAt(r, i) : r[j].k = k
  <2>1. k \in f + 1 .. t  OBVIOUS
  <2>2. PICK j \in DataAt(q, i) : q[j].k = k  BY <2>1 DEF Carries
  <2>3. j # 1  BY <1>3, <2>2
  <2>. QED  BY <1>1, <2>2, <2>3
<1>7. Carries(r, i, f + 1, t)  BY <1>4, <1>5, <1>6 DEF Carries
<1>. QED  BY <1>2, <1>3, <1>7 DEF r

-----------------------------------------------------------------------------
(* Steps that deliver nothing and write no data                            *)

\* The broker of s neither takes nor hands over data.
BrokerCalm(s) ==
    \/ broker'[s] = broker[s]
    \/ broker'[s].at \in {"panic", "read error"} /\ conn'[s] = "closed"
    \/ broker'[s].at = "stopped" /\ done'[s]
    \/ broker[s].at = "select" /\ broker'[s].at = "opened"
    \/ broker[s].at = "opened" /\ broker'[s].at = "select"

\* The messages on their way to s stay, one more comes or the first is taken,
\* and these are no data.
FlightCalm(s) ==
    \/ Flight(s)' = Flight(s)
    \/ \E m \in Messages : m.type # "Data" /\ Flight(s)' = Append(Flight(s), m)
    \/ Flight(s) # <<>> /\ Flight(s)[1].type # "Data" /\ Flight(s)' = Tail(Flight(s))

\* Nothing is undone: a call that returned has, an ID stays, what is closed is.
Steady ==
    /\ channels \subseteq channels'
    /\ \A c \in Calls : /\ call[c] = "ok" => call'[c] = "ok"
                        /\ id[c] # 0 => id'[c] = id[c]
                        /\ life[c] = "closed" => life'[c] = "closed"
    /\ \A s \in Sides : /\ done[s] => done'[s]
                        /\ conn[s] = "closed" => conn'[s] = "closed"

\* A step that writes, delivers and reads no data.
Calm ==
    /\ Steady /\ UNCHANGED <<sent, got, queue>>
    /\ \A s \in Sides : BrokerCalm(s) /\ FlightCalm(s)

\* A call that returned a Channel has an ID.
LEMMA OkHasId ==
    ASSUME TypeOK, IdInv, NEW c \in Calls, call[c] = "ok"
    PROVE  id[c] # 0
<1>t. /\ \A e \in Calls : e.side \in Sides /\ e.op \in {"open", "accept"}
      /\ id \in [Calls -> Nat]
  BY CallsAssumption DEF TypeOK
<1>1. \A e \in Calls : e.op = "open" /\ call[e] # "idle" => id[e] # 0
  BY <1>t, OwnIds DEF IdInv, OpenIdInv
<1>2. \A s, j : OpenSent(s, j) => j # 0  BY <1>1 DEF OpenSent
<1>. QED  BY <1>t, <1>1, <1>2 DEF IdInv, AcceptIdInv

\* What a step does to the registered Channels and to what can be closed.
OneWay ==
    /\ channels \subseteq channels'
    /\ \/ UNCHANGED life
       \/ \E c \in Calls : life[c] = "open" /\ life' = [life EXCEPT ![c] = "closing"]
       \/ \E c \in Calls : life' = [life EXCEPT ![c] = "closed"]
    /\ UNCHANGED done \/ \E s \in Sides : done' = [done EXCEPT ![s] = TRUE]
    /\ UNCHANGED conn \/ \E s \in Sides : conn' = [conn EXCEPT ![s] = "closed"]

\* Every step goes one way.
LEMMA OneWaySteps == ASSUME TypeOK, [Next]_vars PROVE OneWay
<1> USE DEF callVars, mapVars, channelVars
<1>t. \A c \in Calls : c.side \in Sides  BY CallsAssumption, Zenon
<1>1. ASSUME UNCHANGED <<channels, life, done, conn>> PROVE OneWay  BY Zenon, <1>1 DEF OneWay
<1>2. ASSUME NEW c \in Calls, CallStep(c) PROVE OneWay
  <2>1. UNCHANGED <<life, done>>
    BY Zenon, <1>2 DEF CallStep, Start, RegisterOpen, RegisterAccept, WriteHandshake, GiveUp,
                       SeeAccepted, Attach
  <2>2. UNCHANGED channels \/ channels' = channels \cup {c}
    BY Zenon, <1>2 DEF CallStep, Start, RegisterOpen, RegisterAccept, WriteHandshake, GiveUp,
                       SeeAccepted, Attach
  <2>3. UNCHANGED conn \/ conn' = [conn EXCEPT ![c.side] = "closed"]
    BY Zenon, <1>2 DEF CallStep, Start, RegisterOpen, RegisterAccept, WriteHandshake, GiveUp,
                       SeeAccepted, Attach, Dies
  <2>4. channels \subseteq channels'  BY Zenon, <2>2
  <2>. QED  BY Zenon, <1>t, <2>1, <2>3, <2>4 DEF OneWay
<1>3. ASSUME NEW c \in Calls, Write(c) \/ Read(c) PROVE OneWay
  BY Zenon, <1>1, <1>3 DEF Write, Read
<1>4. ASSUME NEW c \in Calls, ChannelClose(c) PROVE OneWay
  BY Zenon, <1>4 DEF ChannelClose, OneWay
<1>5. ASSUME NEW c \in Calls, HandlerDone(c) PROVE OneWay
  BY Zenon, <1>5 DEF HandlerDone, OneWay
<1>6. ASSUME NEW s \in Sides,
             BrokerOpen(s) \/ BrokerOpened(s) \/ BrokerAccept(s) \/ BrokerData(s) \/ BrokerDeliver(s)
      PROVE  OneWay
  BY Zenon, <1>1, <1>6 DEF BrokerOpen, BrokerOpened, BrokerAccept, BrokerData, BrokerDeliver, Takes
<1>7. ASSUME NEW s \in Sides, BrokerDone(s) \/ ReadHandlerPanic(s) \/ SessionCloseConn(s)
      PROVE  OneWay
  <2>1. UNCHANGED <<channels, life, done>>
    BY Zenon, <1>7 DEF BrokerDone, ReadHandlerPanic, SessionCloseConn
  <2>2. UNCHANGED conn \/ conn' = [conn EXCEPT ![s] = "closed"]
    BY Zenon, <1>7 DEF BrokerDone, ReadHandlerPanic, SessionCloseConn, Dies
  <2>. QED  BY Zenon, <2>1, <2>2 DEF OneWay
<1>8. ASSUME NEW s \in Sides, ReadHandler(s) PROVE OneWay  BY Zenon, <1>1, <1>8 DEF ReadHandler
<1>9. ASSUME NEW s \in Sides, SessionClose(s) PROVE OneWay
  BY Zenon, <1>9 DEF SessionClose, OneWay
<1>10. CASE UNCHANGED vars  BY Zenon, <1>1, <1>10 DEF vars
<1>. QED
  BY Zenon, <1>2, <1>3, <1>4, <1>5, <1>6, <1>7, <1>8, <1>9, <1>10 DEF Next, BrokerStep

\* No step undoes any of that.
LEMMA SteadySteps == ASSUME TypeOK, IdInv, FlightInv, [Next]_vars PROVE Steady
<1> USE DEF callVars, mapVars, channelVars
<1>t. /\ call \in [Calls -> CallStates] /\ id \in [Calls -> Nat] /\ broker \in [Sides -> BrokerStates]
      /\ life \in [Calls -> {"open", "closing", "closed"}]
      /\ conn \in [Sides -> {"open", "closed"}] /\ done \in [Sides -> BOOLEAN]
      /\ \A c \in Calls : c.side \in Sides /\ c.op \in {"open", "accept"}
  BY CallsAssumption DEF TypeOK
<1>1. \A c \in Calls : /\ call[c] = "ok" => call'[c] = "ok"
                       /\ id[c] # 0 => id'[c] = id[c]
  <2>1. CASE UNCHANGED callVars  BY <2>1
  <2>2. ASSUME NEW c \in Calls, Start(c), NEW d \in Calls
        PROVE  (call[d] = "ok" => call'[d] = "ok") /\ (id[d] # 0 => id'[d] = id[d])
    <3>1. call[c] = "idle" /\ call' = [call EXCEPT ![c] = "register"]  BY <2>2 DEF Start, Go
    <3>2. c.op = "open" => id[c] = 0  BY <3>1 DEF IdInv, OpenIdInv
    <3>3. d # c \/ c.op # "open" => id'[d] = id[d]  BY <2>2, <1>t DEF Start
    <3>. QED  BY <1>t, <3>1, <3>2, <3>3
  <2>3. ASSUME NEW c \in Calls,
               \/ RegisterOpen(c) \/ RegisterAccept(c) \/ WriteHandshake(c)
               \/ GiveUp(c) \/ SeeAccepted(c) \/ Attach(c),
               NEW d \in Calls
        PROVE  (call[d] = "ok" => call'[d] = "ok") /\ (id[d] # 0 => id'[d] = id[d])
    <3>1. UNCHANGED id /\ (UNCHANGED call \/ Moves(c))  BY <2>3, CallMoves
    <3>2. Moves(c) => call[c] # "ok" /\ (d # c => call'[d] = call[d])  BY <1>t DEF Moves, Go
    <3>. QED  BY <3>1, <3>2
  <2>4. ASSUME NEW s \in Sides, BrokerOpened(s), NEW d \in Calls
        PROVE  (call[d] = "ok" => call'[d] = "ok") /\ (id[d] # 0 => id'[d] = id[d])
    <3> DEFINE c == broker[s].call
    <3>1. c.op = "accept" /\ call[c] = "wait"
      BY <2>4 DEF BrokerOpened, FlightInv, BrokerInv
    <3>2. d # c => id'[d] = id[d] /\ call'[d] = call[d]
      BY <2>4, <1>t DEF BrokerOpened, Go
    <3> HIDE DEF c
    <3>3. d = c => id[d] = 0  BY <3>1 DEF IdInv, AcceptIdInv
    <3>. QED  BY <3>1, <3>2, <3>3
  <2>. QED  BY <2>1, <2>2, <2>3, <2>4, WhoMoves
<1>2. OneWay  BY OneWaySteps
<1>3. \A c \in Calls : life[c] = "closed" => life'[c] = "closed"
  <2>2. UNCHANGED life => \A c \in Calls : life'[c] = life[c]  BY Zenon
  <2>3. ASSUME NEW c \in Calls, life[c] = "open", life' = [life EXCEPT ![c] = "closing"],
               NEW d \in Calls, life[d] = "closed"
        PROVE  life'[d] = "closed"
    <3>1. d # c  BY <2>3
    <3>. QED  BY Zenon, <1>t, <2>3, <3>1
  <2>4. ASSUME NEW c \in Calls, life' = [life EXCEPT ![c] = "closed"],
               NEW d \in Calls, life[d] = "closed"
        PROVE  life'[d] = "closed"
    BY Zenon, <1>t, <2>4
  <2>. QED  BY Zenon, <1>2, <2>2, <2>3, <2>4 DEF OneWay
<1>4. \A s \in Sides : done[s] => done'[s]  BY Zenon, <1>t, <1>2 DEF OneWay
<1>5. \A s \in Sides : conn[s] = "closed" => conn'[s] = "closed"
  BY Zenon, <1>t, <1>2 DEF OneWay
<1>. QED  BY Zenon, <1>1, <1>2, <1>3, <1>4, <1>5 DEF Steady, OneWay

\* A side whose messages stay where they are, or get one more that is no data.
LEMMA FlightOfSteps ==
    ASSUME TypeOK, FlightInv, NEW t \in Sides, NEW s \in Sides
    PROVE  /\ UNCHANGED <<hand, net>> => FlightCalm(s)
           /\ \A m \in Messages : m.type # "Data" /\ Send(t, m) /\ UNCHANGED hand => FlightCalm(s)
           /\ ReadHandler(t) => FlightCalm(s)
           /\ \A type : type # "Data" /\ Takes(t, type) => FlightCalm(s)
<1>t. hand \in [Sides -> Seq(Messages)] /\ net \in [Sides -> Seq(Messages)]  BY DEF TypeOK
<1>1. UNCHANGED <<hand, net>> => FlightCalm(s)  BY DEF FlightCalm, Flight
<1>2. ASSUME NEW m \in Messages, m.type # "Data", Send(t, m), UNCHANGED hand
      PROVE  FlightCalm(s)
  <2>1. Flight(s)' = Flight(s) \/ Flight(s)' = Append(Flight(s), m)
    BY Zenon, <1>2, FlightOfSend
  <2>. QED  BY Zenon, <1>2, <2>1 DEF FlightCalm
<1>3. ASSUME hand'[s] = hand[s], net'[s] = net[s] PROVE FlightCalm(s)
  BY <1>3 DEF FlightCalm, Flight
<1>4. ASSUME ReadHandler(t) PROVE FlightCalm(s)
  <2>1. CASE s # t
    <3>1. hand'[s] = hand[s] /\ net'[s] = net[s]  BY <1>t, <1>4, <2>1 DEF ReadHandler
    <3>. QED  BY <1>3, <3>1
  <2>2. CASE s = t
    <3>1. net[s] # <<>> /\ hand[s] = <<>> /\ net[s] \in Seq(Messages)
      BY <1>t, <1>4, <2>2 DEF ReadHandler
    <3>2. Flight(s) = net[s]  BY <3>1, JoinedToNothing DEF Flight
    <3>3. Head(net[s]) = net[s][1]  BY <3>1
    <3>4. /\ net'[s] = Tail(net[s])
          /\ hand'[s] = IF Head(net[s]).type = "Close" THEN <<>> ELSE <<Head(net[s])>>
      BY <1>t, <1>4, <2>2 DEF ReadHandler
    <3>5. CASE Head(net[s]).type = "Close"
      <4>1. Tail(net[s]) \in Seq(Messages)  BY <3>1, FirstAndRest
      <4>2. Flight(s)' = Tail(net[s])  BY <3>4, <3>5, <4>1, JoinedToNothing DEF Flight
      <4>3. Flight(s)[1].type # "Data"  BY <3>2, <3>3, <3>5
      <4>. QED  BY Zenon, <3>1, <3>2, <4>2, <4>3 DEF FlightCalm
    <3>6. CASE Head(net[s]).type # "Close"
      <4>1. hand'[s] = <<Head(net[s])>>  BY <3>4, <3>6
      <4>2. Flight(s)' = <<Head(net[s])>> \o Tail(net[s])  BY <3>4, <4>1, Zenon DEF Flight
      <4>3. <<Head(net[s])>> \o Tail(net[s]) = net[s]
        BY <3>1, FirstThenRest
      <4>. QED  BY Zenon, <3>2, <4>2, <4>3 DEF FlightCalm
    <3>. QED  BY <3>5, <3>6
  <2>. QED  BY <2>1, <2>2
<1>5. ASSUME NEW type, type # "Data", Takes(t, type) PROVE FlightCalm(s)
  <2>1. CASE s # t
    <3>1. hand'[s] = hand[s] /\ net'[s] = net[s]  BY <1>t, <1>5, <2>1 DEF Takes
    <3>. QED  BY <1>3, <3>1
  <2>2. CASE s = t
    <3>1. hand[s] # <<>> /\ hand[s][1].type = type /\ hand'[s] = <<>> /\ net'[s] = net[s]
      BY <1>t, <1>5, <2>2 DEF Takes
    <3>2. /\ Flight(s) # <<>> /\ Flight(s)[1] = hand[s][1] /\ Tail(Flight(s)) = <<>> \o net[s]
      BY Zenon, <3>1, FlightOfTake DEF FlightInv
    <3>3. Flight(s)' = <<>> \o net[s]  BY Zenon, <3>1 DEF Flight
    <3>. QED  BY Zenon, <1>5, <3>1, <3>2, <3>3 DEF FlightCalm
  <2>. QED  BY <2>1, <2>2
<1>. QED  BY <1>1, <1>2, <1>4, <1>5

\* The steps of a call are calm.
LEMMA CallCalm ==
    ASSUME TypeOK, IdInv, FlightInv, Steady, NEW c \in Calls, CallStep(c)
    PROVE  Calm
<1> USE DEF callVars, mapVars, channelVars
<1>t. /\ c.side \in Sides /\ c.op \in {"open", "accept"} /\ c.protocol \in Nat /\ id[c] \in Nat
      /\ broker \in [Sides -> BrokerStates] /\ conn \in [Sides -> {"open", "closed"}]
  BY CallsAssumption DEF TypeOK
<1>1. UNCHANGED <<sent, got, queue>>
  BY Zenon DEF CallStep, Start, RegisterOpen, RegisterAccept, WriteHandshake, GiveUp, SeeAccepted, Attach
<1>2. ASSUME NEW s \in Sides PROVE BrokerCalm(s)
  <2>1. UNCHANGED broker \/ Dies(c.side, "panic")
    BY Zenon DEF CallStep, Start, RegisterOpen, RegisterAccept, WriteHandshake, GiveUp, SeeAccepted, Attach
  <2>2. ASSUME Dies(c.side, "panic") PROVE BrokerCalm(s)
    BY <1>t, <2>2 DEF Dies, BrokerCalm
  <2>. QED  BY <2>1, <2>2, Zenon DEF BrokerCalm
<1>3. ASSUME NEW s \in Sides PROVE FlightCalm(s)
  <2>1. CASE ~WriteHandshake(c)
    <3>1. UNCHANGED <<hand, net>>
      BY Zenon, <2>1 DEF CallStep, Start, RegisterOpen, RegisterAccept, GiveUp, SeeAccepted, Attach
    <3>. QED  BY Zenon, <3>1, FlightOfSteps
  <2>2. CASE WriteHandshake(c)
    <3>1. UNCHANGED hand  BY Zenon, <2>2 DEF WriteHandshake
    <3>2. PICK m \in Messages : m = Open(id[c], c.protocol) /\ m.type # "Data"
      BY <1>t, MessageTypes, Zenon DEF Open
    <3>3. PICK n \in Messages : n = Accept(id[c]) /\ n.type # "Data"
      BY <1>t, MessageTypes, Zenon DEF Accept
    <3>4. UNCHANGED net \/ Send(c.side, m) \/ Send(c.side, n)
      BY Zenon, <2>2, <3>2, <3>3 DEF WriteHandshake
    <3>. QED  BY Zenon, <1>t, <3>1, <3>2, <3>3, <3>4, FlightOfSteps
  <2>. QED  BY <2>1, <2>2
<1>. QED  BY Zenon, <1>1, <1>2, <1>3 DEF Calm

\* So are the other steps that deliver nothing and write no data.
LEMMA OtherCalm ==
    ASSUME TypeOK, FlightInv, Steady,
           \/ UNCHANGED vars
           \/ \E c \in Calls : ChannelClose(c)
           \/ \E s \in Sides : \/ BrokerOpen(s) \/ BrokerOpened(s) \/ BrokerAccept(s)
                               \/ BrokerDone(s) \/ ReadHandler(s) \/ ReadHandlerPanic(s)
                               \/ SessionClose(s) \/ SessionCloseConn(s)
    PROVE  Calm
<1> USE DEF callVars, mapVars, channelVars
<1>t. /\ id \in [Calls -> Nat] /\ \A c \in Calls : c.side \in Sides
      /\ broker \in [Sides -> BrokerStates] /\ conn \in [Sides -> {"open", "closed"}]
      /\ done \in [Sides -> BOOLEAN]
  BY CallsAssumption DEF TypeOK
<1>1. ASSUME UNCHANGED <<sent, got, queue, hand, net>>, \A s \in Sides : BrokerCalm(s) PROVE Calm
  BY Zenon, <1>1, FlightOfSteps DEF Calm
<1>2. CASE UNCHANGED vars
  BY <1>1, <1>2 DEF vars, BrokerCalm
<1>3. ASSUME NEW c \in Calls, ChannelClose(c) PROVE Calm
  <2>1. UNCHANGED <<sent, got, queue, broker, hand>>  BY Zenon, <1>3 DEF ChannelClose
  <2>2. PICK m \in Messages : m = Close(id[c]) /\ m.type # "Data"
    <3>1. id[c] \in Nat  BY <1>t
    <3>2. Close(id[c]) \in Messages  BY Zenon, <3>1, MessageTypes
    <3>3. Close(id[c]).type # "Data"  BY DEF Close
    <3>. QED  BY Zenon, <3>2, <3>3
  <2>3. Send(c.side, m) \/ UNCHANGED net  BY Zenon, <1>3, <2>2 DEF ChannelClose
  <2>4. \A s \in Sides : FlightCalm(s)  BY Zenon, <1>t, <2>1, <2>2, <2>3, FlightOfSteps
  <2>. QED  BY Zenon, <2>1, <2>4 DEF Calm, BrokerCalm
<1>4. ASSUME NEW t \in Sides, BrokerOpen(t) PROVE Calm
  <2>1. /\ UNCHANGED <<sent, got, queue>> /\ AtSelect(t) /\ Takes(t, "Open")
    BY Zenon, <1>4 DEF BrokerOpen, Takes
  <2>2. \A s \in Sides : FlightCalm(s)  BY Zenon, <2>1, FlightOfSteps
  <2>3. ASSUME NEW s \in Sides PROVE BrokerCalm(s)
    <3>1. broker'[s] = broker[s] \/ (s = t /\ broker'[s].at = "opened")
      BY <1>t, <1>4, Zenon DEF BrokerOpen
    <3>2. broker[t].at = "select"
      <4>1. broker[t] = Selecting  BY Zenon, <2>1 DEF AtSelect
      <4>2. Selecting.at = "select"  BY DEF Selecting
      <4>. QED  BY Zenon, <4>1, <4>2
    <3>3. CASE broker'[s] = broker[s]  BY Zenon, <3>3 DEF BrokerCalm
    <3>4. CASE s = t /\ broker'[s].at = "opened"  BY Zenon, <3>2, <3>4 DEF BrokerCalm
    <3>. QED  BY <3>1, <3>3, <3>4
  <2>. QED  BY Zenon, <2>1, <2>2, <2>3 DEF Calm
<1>5. ASSUME NEW t \in Sides, BrokerOpened(t) PROVE Calm
  <2>1. UNCHANGED <<sent, got, queue, hand, net>> /\ broker[t].at = "opened"
    BY Zenon, <1>5 DEF BrokerOpened
  <2>2. broker' = [broker EXCEPT ![t] = Selecting]  BY Zenon, <1>5 DEF BrokerOpened
  <2>3. \A s \in Sides : BrokerCalm(s)  BY <1>t, <2>1, <2>2, Zenon DEF Selecting, BrokerCalm
  <2>. QED  BY <1>1, <2>1, <2>3, Zenon
<1>6. ASSUME NEW t \in Sides, BrokerAccept(t) PROVE Calm
  <2>1. UNCHANGED <<sent, got, queue, broker>> /\ Takes(t, "Accept")
    BY Zenon, <1>6 DEF BrokerAccept, Takes
  <2>2. \A s \in Sides : FlightCalm(s)  BY Zenon, <2>1, FlightOfSteps
  <2>. QED  BY Zenon, <2>1, <2>2 DEF Calm, BrokerCalm
<1>7. ASSUME NEW t \in Sides, BrokerDone(t) PROVE Calm
  <2>1. /\ UNCHANGED <<sent, got, queue, hand, net, done>> /\ done[t]
        /\ broker' = [broker EXCEPT ![t] = [at |-> "stopped"]]
    BY Zenon, <1>7 DEF BrokerDone
  <2>2. \A s \in Sides : BrokerCalm(s)  BY <1>t, <2>1, Zenon DEF BrokerCalm
  <2>. QED  BY <1>1, <2>1, <2>2
<1>8. ASSUME NEW t \in Sides, ReadHandler(t) PROVE Calm
  <2>1. UNCHANGED <<sent, got, queue, broker>>  BY Zenon, <1>8 DEF ReadHandler
  <2>2. \A s \in Sides : FlightCalm(s)  BY Zenon, <1>8, FlightOfSteps
  <2>. QED  BY Zenon, <2>1, <2>2 DEF Calm, BrokerCalm
<1>9. ASSUME NEW t \in Sides, ReadHandlerPanic(t) PROVE Calm
  <2>1. UNCHANGED <<sent, got, queue, hand, net>> /\ Dies(t, "read error")
    BY Zenon, <1>9 DEF ReadHandlerPanic
  <2>2. \A s \in Sides : BrokerCalm(s)  BY <1>t, <2>1, Zenon DEF BrokerCalm, Dies
  <2>. QED  BY <1>1, <2>1, <2>2, Zenon
<1>10. ASSUME NEW t \in Sides, SessionClose(t) \/ SessionCloseConn(t) PROVE Calm
  <2>1. UNCHANGED <<sent, got, queue, hand, net, broker>>
    BY Zenon, <1>10 DEF SessionClose, SessionCloseConn
  <2>. QED  BY Zenon, <1>1, <2>1 DEF BrokerCalm
<1>. QED  BY Zenon, <1>2, <1>3, <1>4, <1>5, <1>6, <1>7, <1>8, <1>9, <1>10

-----------------------------------------------------------------------------
(* What is written to a channel                                            *)

\* What the types say of the parts of a stream.
LEMMA StreamTypes ==
    ASSUME TypeOK, NEW c \in Calls, NEW d \in Calls
    PROVE  /\ sent[c] \in Nat /\ id[d] \in Nat /\ d.side \in Sides
           /\ got[d] \in Seq(Nat) /\ Len(got[d]) \in Nat
           /\ queue[d] \in Seq(Nat) /\ Len(queue[d]) \in Nat
           /\ broker[d.side] \in BrokerStates
           /\ Flight(d.side) \in Seq(Messages)
<1>1. /\ sent[c] \in Nat /\ id[d] \in Nat /\ d.side \in Sides
      /\ got[d] \in Seq(Nat) /\ queue[d] \in Seq(Nat) /\ broker[d.side] \in BrokerStates
  BY CallsAssumption DEF TypeOK
<1>2. Len(got[d]) \in Nat /\ Len(queue[d]) \in Nat  BY Zenon, <1>1, Lengths
<1>3. Flight(d.side) \in Seq(Messages)  BY Zenon, <1>1, Joined DEF Flight, TypeOK
<1>. QED  BY <1>1, <1>2, <1>3

\* A step that leaves what was delivered to d alone.
LEMMA StreamFrame ==
    ASSUME NEW c \in Calls, NEW d \in Calls,
           NEW l \in Nat, NEW f \in Nat, NEW t \in Nat, NEW u \in Nat, Stream(c, d, l, f, t),
           id'[d] = id[d], got'[d] = got[d], queue'[d] = queue[d],
           t <= u, u <= sent'[c], conn'[d.side] = "open" => u = sent'[c],
           Carries(Flight(d.side)', id[d], f, u),
           Running(d)' => /\ Running(d) /\ (Delivering(d)' <=> Delivering(d))
                          /\ Delivering(d) => broker'[d.side].k = broker[d.side].k
    PROVE  Stream(c, d, l, f, u)'
<1>1. Carries(Flight(d.side), id[d], f, u)'
  <2>1. PICK q, i : q = Flight(d.side)' /\ i = id[d] /\ i = id'[d]  BY Zenon
  <2>2. Carries(q, i, f, u)  BY Zenon, <2>1
  <2>3. PICK D : D = DataAt(Flight(d.side), id[d])' /\ D = DataAt(q, i)
    <3>1. DataAt(Flight(d.side), id[d])' = DataAt(q, i)  BY Zenon, <2>1 DEF DataAt
    <3>. QED  BY Zenon, <3>1
  <2>4. /\ \A j \in D : q[j].k \in f + 1 .. u
        /\ \A j, k \in D : j < k => q[j].k < q[k].k
        /\ \A k \in f + 1 .. u : \E j \in D : q[j].k = k
    BY Zenon, <2>2, <2>3 DEF Carries
  <2>. QED  BY Zenon, <2>1, <2>3, <2>4 DEF Carries
<1>2. f <= u
  <2>1. f <= t  BY Zenon DEF Stream
  <2>. QED  BY Zenon, <2>1, AtMost
<1>3. PICK n : n = l + Len(got[d]) + Len(queue[d]) /\ n = l + Len(got'[d]) + Len(queue'[d])
  BY Zenon
<1>4. /\ n <= f
      /\ Follows(got[d], l) /\ Follows(queue[d], l + Len(got[d]))
      /\ Running(d) => IF Delivering(d) THEN broker[d.side].k = f /\ f = n + 1 ELSE f = n
  BY Zenon, <1>3 DEF Stream
<1>5. Running(d)' => IF Delivering(d)' THEN broker'[d.side].k = f /\ f = n + 1 ELSE f = n
  BY Zenon, <1>4
<1>6. Follows(got[d], l)' /\ Follows(queue[d], l + Len(got[d]))'  BY Zenon, <1>4 DEF Follows
<1>. QED  BY Zenon, <1>1, <1>2, <1>3, <1>4, <1>5, <1>6 DEF Stream

\* A calm step carries the same data on.
LEMMA CarriesCalm ==
    ASSUME NEW s, Flight(s) \in Seq(Messages), FlightCalm(s),
           NEW i, NEW f \in Nat, NEW t \in Nat, Carries(Flight(s), i, f, t)
    PROVE  Carries(Flight(s)', i, f, t)
<1>1. PICK q \in Seq(Messages) : q = Flight(s)  BY Zenon
<1>2. Carries(q, i, f, t)  BY Zenon, <1>1
<1>3. CASE Flight(s)' = Flight(s)  BY Zenon, <1>3
<1>4. ASSUME NEW m \in Messages, m.type # "Data", Flight(s)' = Append(Flight(s), m)
      PROVE  Carries(Flight(s)', i, f, t)
  <2>1. Carries(Append(q, m), i, f, t)  BY <1>2, <1>4, CarriesOther DEF IsData
  <2>. QED  BY Zenon, <1>1, <1>4, <2>1
<1>5. CASE Flight(s) # <<>> /\ Flight(s)[1].type # "Data" /\ Flight(s)' = Tail(Flight(s))
  <2>1. q # <<>> /\ ~IsData(q[1], i)  BY Zenon, <1>1, <1>5 DEF IsData
  <2>2. Carries(Tail(q), i, f, t)  BY Zenon, <1>2, <2>1, CarriesRest
  <2>. QED  BY Zenon, <1>1, <1>5, <2>2
<1>. QED  BY Zenon, <1>3, <1>4, <1>5 DEF FlightCalm

\* A calm step keeps the stream of a channel as it is.
LEMMA StreamCalm ==
    ASSUME TypeOK, Calm, NEW c \in Calls, NEW d \in Calls, id[d] # 0,
           NEW l \in Nat, NEW f \in Nat, NEW t \in Nat, Stream(c, d, l, f, t)
    PROVE  Stream(c, d, l, f, t)'
<1>t. /\ sent[c] \in Nat /\ d.side \in Sides /\ Flight(d.side) \in Seq(Messages)
      /\ conn[d.side] \in {"open", "closed"}
  BY Zenon, StreamTypes DEF TypeOK
<1>1. /\ UNCHANGED <<sent, got, queue>> /\ id'[d] = id[d] /\ BrokerCalm(d.side) /\ FlightCalm(d.side)
      /\ conn[d.side] = "closed" => conn'[d.side] = "closed"
      /\ life[d] = "closed" => life'[d] = "closed"
  BY Zenon, <1>t DEF Calm, Steady
<1>2. Carries(Flight(d.side), id[d], f, t) /\ t <= sent[c] /\ (conn[d.side] = "open" => t = sent[c])
  BY Zenon DEF Stream
<1>3. Carries(Flight(d.side)', id[d], f, t)  BY Zenon, <1>t, <1>1, <1>2, CarriesCalm
<1>4. conn'[d.side] = "open" => t = sent'[c]  BY <1>t, <1>1, <1>2
<1>5. ASSUME Running(d)'
      PROVE  /\ Running(d) /\ (Delivering(d)' <=> Delivering(d))
             /\ Delivering(d) => broker'[d.side].k = broker[d.side].k
  <2>1. /\ life[d] # "closed"
        /\ broker'[d.side].at \notin {"panic", "read error", "stopped"}
    BY <1>1, <1>5, Zenon DEF Running, Up
  <2>2. CASE broker'[d.side] = broker[d.side]
    BY <2>1, <2>2, Zenon DEF Running, Up, Delivering
  <2>3. CASE \/ broker[d.side].at = "select" /\ broker'[d.side].at = "opened"
             \/ broker[d.side].at = "opened" /\ broker'[d.side].at = "select"
    BY <2>1, <2>3, Zenon DEF Running, Up, Delivering
  <2>. QED  BY <1>1, <2>1, <2>2, <2>3, Zenon DEF BrokerCalm
<1>6. t <= t /\ t <= sent'[c]  BY <1>1, <1>2
<1>. QED  BY Zenon, <1>1, <1>3, <1>4, <1>5, <1>6, StreamFrame

\* What was written stays so.
LEMMA WroteStays ==
    ASSUME TypeOK, IdInv, ChannelInv, Steady, NEW s, NEW m, WroteData(s, m),
           \A c \in Calls : sent[c] # 0 => sent'[c] # 0
    PROVE  WroteData(s, m)'
<1>1. PICK c \in Calls : /\ c.side = Peer(s) /\ id[c] = m.id /\ c.protocol = m.protocol
                         /\ sent[c] # 0
  BY DEF WroteData
<1>2. id[c] # 0  BY <1>1, OkHasId, Zenon DEF ChannelInv
<1>3. id'[c] = id[c]  BY <1>2, Zenon DEF Steady
<1>. QED  BY <1>1, <1>3 DEF WroteData

\* Messages that were written stay written.
LEMMA AllWrittenStays ==
    ASSUME TypeOK, IdInv, ChannelInv, Steady, NEW s, NEW q, AllWritten(s, q),
           \A c \in Calls : sent[c] # 0 => sent'[c] # 0
    PROVE  AllWritten(s, q)'
BY WroteStays DEF AllWritten

\* So are the others when the first is taken.
LEMMA AllWrittenTail ==
    ASSUME NEW s, NEW q \in Seq(Messages), q # <<>>, AllWritten(s, q)
    PROVE  AllWritten(s, Tail(q))
<1>1. Len(q) \in Nat \ {0} /\ Len(Tail(q)) = Len(q) - 1  BY FirstAndRest
<1>2. \A k \in 1 .. Len(Tail(q)) : Tail(q)[k] = q[k + 1] /\ k + 1 \in 1 .. Len(q)
  BY <1>1, FirstAndRest
<1>. QED  BY <1>2 DEF AllWritten

\* So are they with another written one at the end.
LEMMA AllWrittenAppend ==
    ASSUME NEW s, NEW q \in Seq(Messages), NEW m \in Messages, AllWritten(s, q)',
           m.type = "Data" => WroteData(s, m)'
    PROVE  AllWritten(s, Append(q, m))'
<1> DEFINE r == Append(q, m)
<1>1. /\ Len(q) \in Nat /\ Len(r) = Len(q) + 1 /\ r[Len(q) + 1] = m
      /\ \A k \in 1 .. Len(q) : r[k] = q[k]
  OBVIOUS
<1>2. \A k \in 1 .. Len(r) : k \in 1 .. Len(q) \/ k = Len(q) + 1  BY <1>1
<1> HIDE DEF r
<1>3. AllWritten(s, r)'  BY <1>1, <1>2 DEF AllWritten
<1>. QED  BY <1>3 DEF r

\* What was written is named by a rigid q while the next state is examined.
LEMMA NewWritten ==
    ASSUME NEW s, NEW q, q = Flight(s)', AllWritten(s, q)'
    PROVE  AllWritten(s, Flight(s))'
BY DEF AllWritten, WroteData

\* The data on its way to a side whose messages stay, get one more or one less.
LEMMA AllWrittenSteps ==
    ASSUME TypeOK, IdInv, ChannelInv, DataInv, Steady, NEW s \in Sides,
           \A c \in Calls : sent[c] # 0 => sent'[c] # 0,
           \/ Flight(s)' = Flight(s)
           \/ Flight(s) # <<>> /\ Flight(s)' = Tail(Flight(s))
           \/ \E m \in Messages : /\ Flight(s)' = Append(Flight(s), m)
                                  /\ m.type = "Data" => WroteData(s, m)'
    PROVE  AllWritten(s, Flight(s))'
<1>t. Flight(s) \in Seq(Messages)  BY Joined, Zenon DEF Flight, TypeOK
<1>1. PICK q \in Seq(Messages) : q = Flight(s)  BY Zenon, <1>t
<1>2. AllWritten(s, q)  BY Zenon, <1>1 DEF DataInv
<1>3. AllWritten(s, q)'  BY Zenon, <1>2, AllWrittenStays
<1>4. CASE Flight(s)' = Flight(s)  BY Zenon, <1>1, <1>3, <1>4, NewWritten
<1>5. ASSUME NEW m \in Messages, m.type = "Data" => WroteData(s, m)', Flight(s)' = Append(Flight(s), m)
      PROVE  AllWritten(s, Flight(s))'
  <2>1. AllWritten(s, Append(q, m))'  BY Zenon, <1>3, <1>5, AllWrittenAppend
  <2>. QED  BY Zenon, <1>1, <1>5, <2>1, NewWritten
<1>6. CASE Flight(s) # <<>> /\ Flight(s)' = Tail(Flight(s))
  <2>1. AllWritten(s, Tail(q))  BY Zenon, <1>1, <1>2, <1>6, AllWrittenTail
  <2>2. AllWritten(s, Tail(q))'  BY Zenon, <2>1, AllWrittenStays
  <2>. QED  BY Zenon, <1>1, <1>6, <2>2, NewWritten
<1>. QED  BY Zenon, <1>4, <1>5, <1>6

\* A calm step keeps what is said of the channels and of the data on its way.
LEMMA ChannelCalm ==
    ASSUME TypeOK, IdInv, ChannelInv, DataInv, Calm
    PROVE  ChannelInv' /\ DataInv'
<1>1. /\ Steady /\ UNCHANGED <<sent, got, queue>> /\ channels \subseteq channels'
      /\ \A s \in Sides : BrokerCalm(s) /\ FlightCalm(s)
  BY Zenon DEF Calm, Steady
<1>2. ChannelInv'
  <2>1. \A c \in Calls : sent'[c] # 0 => call'[c] = "ok"  BY <1>1 DEF ChannelInv, Steady
  <2>2. \A d \in Calls : d \notin channels' => got'[d] = <<>> /\ queue'[d] = <<>>
    BY Zenon, <1>1 DEF ChannelInv
  <2>3. ASSUME NEW s \in Sides
        PROVE  /\ broker'[s].at = "deliver" => broker'[s].call \in channels' /\ broker'[s].call.side = s
               /\ ~Up(s)' => conn'[s] = "closed"
               /\ broker'[s].at = "stopped" => done'[s]
    <3>1. /\ broker[s].at = "deliver" => broker[s].call \in channels /\ broker[s].call.side = s
          /\ ~Up(s) => conn[s] = "closed"
          /\ broker[s].at = "stopped" => done[s]
      BY DEF ChannelInv
    <3>2. (conn[s] = "closed" => conn'[s] = "closed") /\ (done[s] => done'[s])
      BY <1>1 DEF Steady
    <3>3. CASE broker'[s] = broker[s]  BY <1>1, <3>1, <3>2, <3>3, Zenon DEF Up
    <3>4. CASE broker'[s] # broker[s]
      BY <1>1, <3>4, Zenon DEF BrokerCalm, Up
    <3>. QED  BY <3>3, <3>4
  <2>. QED  BY Zenon, <2>1, <2>2, <2>3 DEF ChannelInv
<1>3. \A s \in Sides : AllWritten(s, Flight(s))'
  BY Zenon, <1>1, AllWrittenSteps DEF FlightCalm
<1>. QED  BY Zenon, <1>2, <1>3 DEF DataInv

\* Data that a side reads is the next message of its channel's other end.
LEMMA WriterIs ==
    ASSUME TypeOK, IdInv, ChannelInv, DataInv, NEW c \in Calls, NEW d \in Calls,
           SameProtocol(c, d), NEW j \in 1 .. Len(Flight(d.side)),
           IsData(Flight(d.side)[j], id[d])
    PROVE  Flight(d.side)[j].protocol = d.protocol /\ sent[c] # 0
<1>1. d.side \in Sides /\ c.side \in Sides  BY CallsAssumption
<1>2. PICK e \in Calls : /\ e.side = Peer(d.side) /\ id[e] = id[d]
                         /\ e.protocol = Flight(d.side)[j].protocol /\ sent[e] # 0
  BY <1>1 DEF DataInv, AllWritten, WroteData, IsData
<1>3. c.side = Peer(d.side)  BY <1>1 DEF SameProtocol, Linked, Sides, Peer
<1>4. e = c  BY <1>2, <1>3, Unique DEF SameProtocol, Linked, IdsUnique
<1>. QED  BY <1>2, <1>4 DEF SameProtocol

\* Channel.Write.
LEMMA WriteFlight ==
    ASSUME TypeOK, NEW w \in Calls, Write(w)
    PROVE  \E m \in Messages :
             /\ IsData(m, id[w]) /\ m.protocol = w.protocol /\ m.k = sent[w] + 1
             /\ sent' = [sent EXCEPT ![w] = sent[w] + 1] /\ call[w] = "ok"
             /\ UNCHANGED <<call, id, channels, broker, hand, conn, done, queue, life, got>>
             /\ \A s \in Sides :
                  IF s = Peer(w.side) /\ conn[s] = "open"
                  THEN Flight(s)' = Append(Flight(s), m) ELSE Flight(s)' = Flight(s)
<1>t. /\ w.side \in Sides /\ w.protocol \in Nat /\ id[w] \in Nat /\ sent \in [Calls -> Nat]
      /\ net \in [Sides -> Seq(Messages)] /\ hand \in [Sides -> Seq(Messages)]
      /\ Peer(w.side) \in Sides
  BY CallsAssumption DEF TypeOK, Sides, Peer
<1>1. /\ sent' = [sent EXCEPT ![w] = sent[w] + 1] /\ call[w] = "ok"
      /\ UNCHANGED <<call, id, channels, broker, hand, conn, done, queue, life, got>>
      /\ Send(w.side, Data(id[w], w.protocol, sent'[w]))
  BY Zenon DEF Write, callVars, mapVars
<1>2. sent'[w] = sent[w] + 1 /\ sent'[w] \in Nat
  <2>1. sent' = [sent EXCEPT ![w] = sent[w] + 1] /\ sent \in [Calls -> Nat]  BY Zenon, <1>t, <1>1
  <2>. QED  BY <2>1, Counted
<1>3. PICK m \in Messages : m = Data(id[w], w.protocol, sent'[w])
  BY Zenon, <1>t, <1>2, MessageTypes
<1>4. IsData(m, id[w]) /\ m.protocol = w.protocol /\ m.k = sent[w] + 1
  BY <1>2, <1>3 DEF Data, IsData
<1>5. ASSUME NEW s \in Sides
      PROVE  IF s = Peer(w.side) /\ conn[s] = "open"
             THEN Flight(s)' = Append(Flight(s), m) ELSE Flight(s)' = Flight(s)
  <2>1. Send(w.side, m)  BY Zenon, <1>1, <1>3
  <2>2. CASE s = Peer(w.side) /\ conn[s] = "open"
    <3>1. net'[s] = Append(net[s], m) /\ hand'[s] = hand[s]  BY <1>t, <1>1, <2>1, <2>2 DEF Send
    <3>2. hand[s] \o Append(net[s], m) = Append(hand[s] \o net[s], m)  BY <1>t, AppendConcat
    <3>. QED  BY Zenon, <2>2, <3>1, <3>2 DEF Flight
  <2>3. CASE ~(s = Peer(w.side) /\ conn[s] = "open")
    <3>1. net'[s] = net[s] /\ hand'[s] = hand[s]  BY <1>t, <1>1, <2>1, <2>3 DEF Send
    <3>. QED  BY Zenon, <2>3, <3>1 DEF Flight
  <2>. QED  BY <2>2, <2>3
<1>. QED  BY Zenon, <1>1, <1>4, <1>5

\* Channel.Write keeps every stream: it adds the next message to its own.
LEMMA StreamWrite ==
    ASSUME TypeOK, IdInv, NEW w \in Calls, Write(w), NEW c \in Calls, NEW d \in Calls, Linked(c, d),
           NEW l \in Nat, NEW f \in Nat, NEW t \in Nat, Stream(c, d, l, f, t)
    PROVE  Stream(c, d, l, f, t)' \/ Stream(c, d, l, f, t + 1)'
<1>t. /\ sent[c] \in Nat /\ d.side \in Sides /\ Flight(d.side) \in Seq(Messages)
      /\ sent \in [Calls -> Nat] /\ c.side \in Sides /\ w.side \in Sides
  BY StreamTypes, CallsAssumption, Zenon DEF TypeOK
<1>0. PICK m \in Messages :
        /\ IsData(m, id[w]) /\ m.protocol = w.protocol /\ m.k = sent[w] + 1
        /\ sent' = [sent EXCEPT ![w] = sent[w] + 1] /\ call[w] = "ok"
        /\ UNCHANGED <<call, id, channels, broker, hand, conn, done, queue, life, got>>
        /\ \A s \in Sides :
             IF s = Peer(w.side) /\ conn[s] = "open"
             THEN Flight(s)' = Append(Flight(s), m) ELSE Flight(s)' = Flight(s)
  BY Zenon, WriteFlight
<1>1. /\ IsData(m, id[w]) /\ m.k = sent[w] + 1
      /\ sent' = [sent EXCEPT ![w] = sent[w] + 1]
      /\ UNCHANGED <<id, broker, conn, queue, life, got>>
      /\ IF d.side = Peer(w.side) /\ conn[d.side] = "open"
         THEN Flight(d.side)' = Append(Flight(d.side), m) ELSE Flight(d.side)' = Flight(d.side)
  BY Zenon, <1>t, <1>0
<1>2. /\ Carries(Flight(d.side), id[d], f, t) /\ t <= sent[c] /\ f <= t
      /\ conn[d.side] = "open" => t = sent[c]
  BY Zenon DEF Stream
<1>3. /\ Running(d)' => Running(d) /\ (Delivering(d)' <=> Delivering(d))
      /\ broker'[d.side].k = broker[d.side].k
  BY Zenon, <1>1 DEF Running, Delivering, Up
<1>4. /\ sent[c] <= sent'[c] /\ sent'[c] \in Nat /\ (w # c => sent'[c] = sent[c])
      /\ sent'[w] = sent[w] + 1
  <2>1. sent' = [sent EXCEPT ![w] = sent[w] + 1] /\ sent \in [Calls -> Nat]  BY Zenon, <1>t, <1>1
  <2>. QED  BY <2>1, Counted
<1>5. c.side = Peer(d.side) /\ d.side = Peer(c.side) /\ c.side # d.side
  BY <1>t DEF Linked, Sides, Peer
<1>6. CASE ~(d.side = Peer(w.side) /\ conn[d.side] = "open")
  <2>1. Flight(d.side)' = Flight(d.side)  BY <1>1, <1>6
  <2>2. Carries(Flight(d.side)', id[d], f, t)  BY Zenon, <1>2, <2>1
  <2>3. conn'[d.side] = "open" => t = sent'[c]  BY <1>1, <1>2, <1>4, <1>5, <1>6, Zenon
  <2>4. t <= t /\ t <= sent'[c]  BY Zenon, <1>t, <1>2, <1>4, AtMost, AtMostNext
  <2>. QED  BY Zenon, <1>1, <1>3, <2>2, <2>3, <2>4, StreamFrame
<1>7. CASE d.side = Peer(w.side) /\ conn[d.side] = "open" /\ w # c
  <2>1. Flight(d.side)' = Append(Flight(d.side), m)  BY <1>1, <1>7, Zenon
  <2>2. id[w] # id[d]
    <3>1. w.side = c.side  BY <1>t, <1>5, <1>7 DEF Sides, Peer
    <3>. QED  BY <1>7, <3>1, Unique DEF IdsUnique, Linked
  <2>3. Carries(Append(Flight(d.side), m), id[d], f, t)
    BY <1>t, <1>1, <1>2, <2>2, CarriesOther, Zenon DEF IsData
  <2>4. Carries(Flight(d.side)', id[d], f, t)  BY Zenon, <2>1, <2>3
  <2>5. conn'[d.side] = "open" => t = sent'[c]  BY <1>2, <1>4, <1>7, Zenon
  <2>6. t <= t /\ t <= sent'[c]  BY <1>2, <1>4, <1>7, Zenon
  <2>. QED  BY Zenon, <1>1, <1>3, <2>4, <2>5, <2>6, StreamFrame
<1>8. CASE d.side = Peer(w.side) /\ conn[d.side] = "open" /\ w = c
  <2>1. Flight(d.side)' = Append(Flight(d.side), m)  BY <1>1, <1>8, Zenon
  <2>2. IsData(m, id[d]) /\ m.k = t + 1 /\ sent'[c] = t + 1
    BY Zenon, <1>1, <1>2, <1>4, <1>8 DEF Linked
  <2>3. Carries(Append(Flight(d.side), m), id[d], f, t + 1)
    BY <1>t, <1>2, <2>2, CarriesNext, Zenon
  <2>4. PICK u \in Nat : u = t + 1 /\ t <= u /\ u <= u  OBVIOUS
  <2>5. Carries(Flight(d.side)', id[d], f, u) /\ u = sent'[c]  BY Zenon, <2>1, <2>2, <2>3, <2>4
  <2>6. u <= sent'[c]  BY <2>4, <2>5
  <2>7. Stream(c, d, l, f, u)'  BY Zenon, <1>1, <1>3, <2>4, <2>5, <2>6, StreamFrame
  <2>. QED  BY Zenon, <2>4, <2>7
<1>. QED  BY <1>6, <1>7, <1>8

\* Channel.Read.
LEMMA StreamRead ==
    ASSUME TypeOK, NEW r \in Calls, Read(r), NEW c \in Calls, NEW d \in Calls,
           NEW l \in Nat, NEW f \in Nat, NEW t \in Nat, Stream(c, d, l, f, t)
    PROVE  Stream(c, d, l, f, t)'
<1>t. /\ got \in [Calls -> Seq(Nat)] /\ queue \in [Calls -> Seq(Nat)]  BY DEF TypeOK
<1>1. /\ got' = [got EXCEPT ![r] = Append(got[r], Head(queue[r]))]
      /\ queue' = [queue EXCEPT ![r] = Tail(queue[r])] /\ queue[r] # <<>>
      /\ UNCHANGED <<id, broker, hand, net, conn, life, sent>>
  BY Zenon DEF Read, callVars
<1>2. /\ Carries(Flight(d.side), id[d], f, t) /\ t <= sent[c] /\ f <= t
      /\ conn[d.side] = "open" => t = sent[c]
  BY Zenon DEF Stream
<1>3. Flight(d.side)' = Flight(d.side)  BY Zenon, <1>1 DEF Flight
<1>4. Carries(Flight(d.side)', id[d], f, t)  BY Zenon, <1>2, <1>3
<1>5. /\ Running(d)' <=> Running(d)
      /\ Delivering(d)' <=> Delivering(d)
      /\ broker'[d.side].k = broker[d.side].k
  BY Zenon, <1>1 DEF Running, Delivering, Up
<1>6. CASE r # d
  <2>1. got'[d] = got[d] /\ queue'[d] = queue[d]  BY <1>t, <1>1, <1>6
  <2>2. t <= t  OBVIOUS
  <2>3. t <= sent'[c] /\ (conn'[d.side] = "open" => t = sent'[c])  BY Zenon, <1>1, <1>2
  <2>. QED  BY Zenon, <1>1, <1>4, <1>5, <2>1, <2>2, <2>3, StreamFrame
<1>7. CASE r = d
  <2>1. PICK g \in Seq(Nat), q \in Seq(Nat) :
          /\ g = got[d] /\ q = queue[d] /\ q # <<>>
          /\ got'[d] = Append(g, Head(q)) /\ queue'[d] = Tail(q)
    BY <1>t, <1>1, <1>7
  <2>2. PICK n \in Nat : n = l + Len(g) + Len(q)  OBVIOUS
  <2>3. /\ n <= f /\ Follows(g, l) /\ Follows(q, l + Len(g))
        /\ Running(d) => IF Delivering(d) THEN broker[d.side].k = f /\ f = n + 1 ELSE f = n
    BY Zenon, <2>1, <2>2 DEF Stream
  <2>4. PICK m \in Nat : m = l + Len(g)  OBVIOUS
  <2>5. /\ Head(q) = m + 1 /\ Tail(q) \in Seq(Nat) /\ Len(Tail(q)) = Len(q) - 1
        /\ Follows(Tail(q), m + 1) /\ Len(q) \in Nat
    BY <2>1, <2>3, <2>4, FollowsTail
  <2>6. /\ Append(g, Head(q)) \in Seq(Nat) /\ Len(Append(g, Head(q))) = Len(g) + 1 /\ Len(g) \in Nat
        /\ Follows(Append(g, Head(q)), l)
    BY <2>3, <2>4, <2>5, FollowsAppend
  <2>7. PICK h \in Seq(Nat), p \in Seq(Nat) : h = Append(g, Head(q)) /\ p = Tail(q)
    BY Zenon, <2>5, <2>6
  <2>8. n = l + Len(h) + Len(p) /\ m + 1 = l + Len(h)
    BY <2>2, <2>4, <2>5, <2>6, <2>7
  <2>9. got'[d] = h /\ queue'[d] = p  BY Zenon, <2>1, <2>7
  <2>10. Follows(got[d], l)' /\ Follows(queue[d], l + Len(got[d]))'
    BY Zenon, <2>5, <2>6, <2>7, <2>8, <2>9 DEF Follows
  <2>11. Carries(Flight(d.side), id[d], f, t)'  BY Zenon, <1>1, <1>4 DEF Carries, DataAt
  <2>12. Running(d)' => IF Delivering(d)' THEN broker'[d.side].k = f /\ f = n + 1 ELSE f = n
    BY Zenon, <1>5, <2>3
  <2>13. t <= sent'[c] /\ (conn'[d.side] = "open" => t = sent'[c])  BY <1>1, <1>2
  <2>. QED
    BY Zenon, <1>2, <2>3, <2>8, <2>9, <2>10, <2>11, <2>12, <2>13 DEF Stream
<1>. QED  BY <1>6, <1>7

\* The channel's handler returns.
LEMMA StreamDone ==
    ASSUME TypeOK, NEW h \in Calls, HandlerDone(h), NEW c \in Calls, NEW d \in Calls,
           NEW l \in Nat, NEW f \in Nat, NEW t \in Nat, Stream(c, d, l, f, t)
    PROVE  Stream(c, d, l, f, t)'
<1>t. /\ queue \in [Calls -> Seq(Nat)] /\ life \in [Calls -> {"open", "closing", "closed"}]
      /\ Len(got[d]) \in Nat /\ Len(queue[d]) \in Nat
  BY StreamTypes, Zenon DEF TypeOK
<1>1. /\ queue' = [queue EXCEPT ![h] = <<>>] /\ life' = [life EXCEPT ![h] = "closed"]
      /\ UNCHANGED <<id, broker, hand, net, conn, sent, got>>
  BY Zenon DEF HandlerDone, callVars
<1>2. /\ Carries(Flight(d.side), id[d], f, t) /\ t <= sent[c] /\ f <= t
      /\ conn[d.side] = "open" => t = sent[c]
  BY Zenon DEF Stream
<1>3. Flight(d.side)' = Flight(d.side)  BY Zenon, <1>1 DEF Flight
<1>4. Carries(Flight(d.side)', id[d], f, t)  BY Zenon, <1>2, <1>3
<1>5. t <= sent'[c] /\ (conn'[d.side] = "open" => t = sent'[c])  BY <1>1, <1>2, Zenon
<1>6. CASE h # d
  <2>1. got'[d] = got[d] /\ queue'[d] = queue[d] /\ life'[d] = life[d]  BY <1>t, <1>1, <1>6
  <2>2. /\ Running(d)' <=> Running(d)
        /\ Delivering(d)' <=> Delivering(d)
        /\ broker'[d.side].k = broker[d.side].k
    BY Zenon, <1>1, <2>1 DEF Running, Delivering, Up
  <2>3. t <= t  OBVIOUS
  <2>. QED  BY Zenon, <1>1, <1>4, <1>5, <2>1, <2>2, <2>3, StreamFrame
<1>7. CASE h = d
  <2>1. got'[d] = got[d] /\ queue'[d] = <<>> /\ life'[d] = "closed" /\ Len(queue'[d]) = 0
    BY <1>t, <1>1, <1>7
  <2>2. ~Running(d)'  BY <2>1 DEF Running
  <2>3. Carries(Flight(d.side), id[d], f, t)'  BY Zenon, <1>1, <1>4 DEF Carries, DataAt
  <2>4. l + Len(got[d]) + Len(queue[d]) <= f /\ Follows(got[d], l)
    BY Zenon DEF Stream
  <2>5. l + Len(got'[d]) + Len(queue'[d]) <= f  BY <1>t, <2>1, <2>4
  <2>6. Follows(got[d], l)'  BY Zenon, <2>1, <2>4 DEF Follows
  <2>7. Follows(queue[d], l + Len(got[d]))'  BY <2>1 DEF Follows
  <2>. QED  BY Zenon, <1>2, <1>5, <2>2, <2>3, <2>5, <2>6, <2>7 DEF Stream
<1>. QED  BY <1>6, <1>7

\* The broker hands data to the channel's handler.
LEMMA StreamDeliver ==
    ASSUME TypeOK, ChannelInv, NEW s \in Sides, BrokerDeliver(s), NEW c \in Calls, NEW d \in Calls,
           NEW l \in Nat, NEW f \in Nat, NEW t \in Nat, Stream(c, d, l, f, t)
    PROVE  Stream(c, d, l, f, t)'
<1>t. /\ queue \in [Calls -> Seq(Nat)] /\ broker \in [Sides -> BrokerStates] /\ d.side \in Sides
      /\ Len(got[d]) \in Nat /\ channels \subseteq Calls
  BY StreamTypes, Zenon DEF TypeOK
<1>1. PICK x, k : x = broker[s].call /\ k = broker[s].k  OBVIOUS
<1>2. /\ queue' = [queue EXCEPT ![x] = Append(queue[x], k)] /\ life[x] # "closed"
      /\ broker[s].at = "deliver" /\ broker' = [broker EXCEPT ![s] = Selecting] /\ Up(s)
      /\ UNCHANGED <<id, hand, net, conn, life, sent, got>>
  BY Zenon, <1>1 DEF BrokerDeliver, Enqueue, callVars
<1>3. x \in Calls /\ x.side = s /\ k \in Nat
  BY <1>t, <1>1, <1>2, BrokerTypes, Zenon DEF ChannelInv
<1>4. /\ Carries(Flight(d.side), id[d], f, t) /\ t <= sent[c] /\ f <= t
      /\ conn[d.side] = "open" => t = sent[c]
  BY Zenon DEF Stream
<1>5. Flight(d.side)' = Flight(d.side)  BY Zenon, <1>2 DEF Flight
<1>6. Carries(Flight(d.side)', id[d], f, t)  BY Zenon, <1>4, <1>5
<1>7. t <= sent'[c] /\ (conn'[d.side] = "open" => t = sent'[c])  BY <1>2, <1>4
<1>8. broker'[s].at = "select"  BY <1>t, <1>2 DEF Selecting
<1>9. CASE d # x
  <2>1. queue'[d] = queue[d] /\ got'[d] = got[d]  BY <1>t, <1>2, <1>9, Zenon
  <2>2. CASE d.side # s
    <3>1. broker'[d.side] = broker[d.side]  BY <1>t, <1>2, <2>2
    <3>2. /\ Running(d)' <=> Running(d)
          /\ Delivering(d)' <=> Delivering(d)
          /\ broker'[d.side].k = broker[d.side].k
      BY Zenon, <1>2, <3>1 DEF Running, Delivering, Up
    <3>3. t <= t  OBVIOUS
    <3>. QED  BY Zenon, <1>2, <1>6, <1>7, <2>1, <3>2, <3>3, StreamFrame
  <2>3. CASE d.side = s
    <3>1. ~Delivering(d)  BY <1>1, <1>9, <2>3 DEF Delivering
    <3>2. ~Delivering(d)'  BY <1>8, <2>3 DEF Delivering
    <3>3. Running(d)' => Running(d)  BY <1>2, <2>3 DEF Running
    <3>4. t <= t  OBVIOUS
    <3>. QED  BY Zenon, <1>2, <1>6, <1>7, <2>1, <3>1, <3>2, <3>3, <3>4, StreamFrame
  <2>. QED  BY <2>2, <2>3
<1>10. CASE d = x
  <2>1. PICK q \in Seq(Nat) : q = queue[d] /\ queue'[d] = Append(q, k)
    BY <1>t, <1>2, <1>10
  <2>2. PICK o \in Nat : o = l + Len(got[d])  BY <1>t
  <2>3. Running(d) /\ Delivering(d) /\ broker[d.side].k = k
    BY <1>1, <1>2, <1>3, <1>10, Zenon DEF Running, Delivering
  <2>4. k = f /\ f = o + Len(q) + 1 /\ Follows(got[d], l) /\ Follows(q, o)
    BY Zenon, <2>1, <2>2, <2>3 DEF Stream
  <2>5. Append(q, k) \in Seq(Nat) /\ Len(Append(q, k)) = Len(q) + 1 /\ Follows(Append(q, k), o)
    BY <2>4, FollowsAppend
  <2>6. PICK r \in Seq(Nat) : r = Append(q, k) /\ f = o + Len(r) /\ f <= f
    <3>1. Len(q) \in Nat  OBVIOUS
    <3>2. f = o + (Len(q) + 1) /\ f <= f  BY <2>4, <3>1
    <3>. QED  BY Zenon, <2>5, <3>2
  <2>7. Follows(got[d], l)' /\ Follows(queue[d], l + Len(got[d]))'
    BY Zenon, <1>2, <2>1, <2>2, <2>4, <2>5 DEF Follows
  <2>8. ~Delivering(d)'  BY <1>3, <1>8, <1>10 DEF Delivering
  <2>9. Carries(Flight(d.side), id[d], f, t)'  BY Zenon, <1>2, <1>6 DEF Carries, DataAt
  <2>10. f = l + Len(got'[d]) + Len(queue'[d])  BY Zenon, <1>2, <2>1, <2>2, <2>6
  <2>. QED
    BY Zenon, <1>4, <1>7, <2>6, <2>7, <2>8, <2>9, <2>10 DEF Stream
<1>. QED  BY <1>9, <1>10

\* The broker takes data from readHandler.
LEMMA DataTaken ==
    ASSUME TypeOK, FlightInv, NEW s \in Sides, BrokerData(s)
    PROVE  \E m \in Messages :
             /\ m = Flight(s)[1] /\ m.type = "Data" /\ broker[s].at = "select"
             /\ Flight(s) # <<>> /\ Flight(s)' = Tail(Flight(s))
             /\ UNCHANGED <<call, id, channels, conn, done, queue, life, sent, got>>
             /\ \A r \in Sides : r # s => broker'[r] = broker[r] /\ Flight(r)' = Flight(r)
             /\ \/ /\ broker' = broker
                   /\ \A e \in Registered(s, m.id) : e.protocol # m.protocol
                \/ \E e \in Registered(s, m.id) :
                      broker'[s].at = "deliver" /\ broker'[s].call = e /\ broker'[s].k = m.k
<1>t. /\ hand \in [Sides -> Seq(Messages)] /\ net \in [Sides -> Seq(Messages)]
      /\ broker \in [Sides -> BrokerStates] /\ Len(hand[s]) \in {0, 1}
  BY DEF TypeOK, FlightInv
<1>1. /\ hand[s] # <<>> /\ hand[s][1].type = "Data" /\ AtSelect(s)
      /\ hand' = [hand EXCEPT ![s] = <<>>]
      /\ UNCHANGED <<call, id, channels, net, conn, done, queue, life, sent, got>>
      /\ \/ (\A e \in Registered(s, hand[s][1].id) : e.protocol # hand[s][1].protocol) /\ broker' = broker
         \/ \E e \in Registered(s, hand[s][1].id) :
               broker' = [broker EXCEPT ![s] = [at |-> "deliver", call |-> e, k |-> hand[s][1].k]]
  BY Zenon DEF BrokerData, Takes, callVars, mapVars, channelVars
<1>2. /\ Flight(s) # <<>> /\ Flight(s)[1] = hand[s][1] /\ Tail(Flight(s)) = <<>> \o net[s]
  BY Zenon, <1>t, <1>1, FlightOfTake
<1>3. hand'[s] = <<>> /\ \A r \in Sides : r # s => hand'[r] = hand[r]  BY <1>t, <1>1
<1>4. Flight(s)' = Tail(Flight(s))  BY Zenon, <1>1, <1>2, <1>3 DEF Flight
<1>5. hand[s][1] \in Messages
  <2>1. hand[s] \in Seq(Messages) /\ hand[s] # <<>>  BY Zenon, <1>t, <1>1
  <2>. QED  BY <2>1
<1>6. PICK m \in Messages : m = hand[s][1]  BY Zenon, <1>5
<1>7. broker[s].at = "select"
  <2>1. broker[s] = [at |-> "select"]  BY Zenon, <1>1 DEF AtSelect, Selecting
  <2>. QED  BY <2>1
<1>8. ASSUME NEW r \in Sides, r # s PROVE broker'[r] = broker[r] /\ Flight(r)' = Flight(r)
  <2>1. broker'[r] = broker[r]  BY <1>t, <1>1, <1>8
  <2>2. Flight(r)' = Flight(r)  BY Zenon, <1>1, <1>3, <1>8 DEF Flight
  <2>. QED  BY <2>1, <2>2
<1>9. \/ broker' = broker /\ \A e \in Registered(s, m.id) : e.protocol # m.protocol
      \/ \E e \in Registered(s, m.id) :
            broker'[s].at = "deliver" /\ broker'[s].call = e /\ broker'[s].k = m.k
  <2>1. ASSUME NEW e \in Registered(s, m.id),
               broker' = [broker EXCEPT ![s] = [at |-> "deliver", call |-> e, k |-> m.k]]
        PROVE  broker'[s].at = "deliver" /\ broker'[s].call = e /\ broker'[s].k = m.k
    BY <1>t, <2>1
  <2>. QED  BY Zenon, <1>1, <1>6, <2>1
<1>. QED  BY Zenon, <1>1, <1>2, <1>4, <1>6, <1>7, <1>8, <1>9

\* It is the next message of the Channel it is for, which gets it if the Channel
\* is registered, and which has then read and queued nothing if it is not.
LEMMA StreamData ==
    ASSUME TypeOK, IdInv, FlightInv, ChannelInv, DataInv, NEW s \in Sides, BrokerData(s),
           NEW c \in Calls, NEW d \in Calls, SameProtocol(c, d),
           NEW l \in Nat, NEW f \in Nat, NEW t \in Nat, Stream(c, d, l, f, t)
    PROVE  \/ Stream(c, d, l, f, t)' \/ Stream(c, d, l, f + 1, t)'
           \/ d \notin channels /\ Stream(c, d, f + 1, f + 1, t)'
<1>t. /\ sent[c] \in Nat /\ d.side \in Sides /\ Flight(d.side) \in Seq(Messages)
      /\ Len(got[d]) \in Nat /\ Len(queue[d]) \in Nat /\ id[d] # 0 /\ channels \subseteq Calls
  BY StreamTypes, Zenon DEF TypeOK, SameProtocol, Linked
<1>1. PICK m \in Messages :
        /\ m = Flight(s)[1] /\ m.type = "Data" /\ broker[s].at = "select"
        /\ Flight(s) # <<>> /\ Flight(s)' = Tail(Flight(s))
        /\ UNCHANGED <<call, id, channels, conn, done, queue, life, sent, got>>
        /\ \A r \in Sides : r # s => broker'[r] = broker[r] /\ Flight(r)' = Flight(r)
        /\ \/ /\ broker' = broker
              /\ \A e \in Registered(s, m.id) : e.protocol # m.protocol
           \/ \E e \in Registered(s, m.id) :
                 broker'[s].at = "deliver" /\ broker'[s].call = e /\ broker'[s].k = m.k
  BY Zenon, DataTaken
<1>2. /\ Carries(Flight(d.side), id[d], f, t) /\ t <= sent[c] /\ f <= t /\ t <= t
      /\ conn[d.side] = "open" => t = sent[c]
  BY Zenon, AtMostNext DEF Stream
<1>3. UNCHANGED <<id, got, queue, sent, conn, life>>  BY Zenon, <1>1
<1>4. t <= sent'[c] /\ (conn'[d.side] = "open" => t = sent'[c])  BY Zenon, <1>2, <1>3
<1>5. CASE d.side # s
  <2>1. broker'[d.side] = broker[d.side] /\ Flight(d.side)' = Flight(d.side)
    BY Zenon, <1>t, <1>1, <1>5
  <2>2. Carries(Flight(d.side)', id[d], f, t)  BY Zenon, <1>2, <2>1
  <2>3. /\ Running(d)' <=> Running(d)
        /\ Delivering(d)' <=> Delivering(d)
        /\ broker'[d.side].k = broker[d.side].k
    BY Zenon, <1>3, <2>1 DEF Running, Delivering, Up
  <2>4. Stream(c, d, l, f, t)'  BY Zenon, <1>2, <1>3, <1>4, <2>2, <2>3, StreamFrame
  <2>. QED  BY Zenon, <2>4
<1>6. ASSUME d.side = s
      PROVE  ~Delivering(d) /\ (Running(d)' => Running(d))
  BY <1>1, <1>3, <1>6, Zenon DEF Delivering, Running, Up
<1>7. \A e \in Registered(s, m.id) : e \in channels /\ e.side = s /\ id[e] = m.id
  BY Zenon DEF Registered
<1>8. CASE d.side = s /\ ~IsData(m, id[d])
  <2>1. Flight(d.side) # <<>> /\ ~IsData(Flight(d.side)[1], id[d])  BY Zenon, <1>1, <1>8
  <2>2. Carries(Tail(Flight(d.side)), id[d], f, t)  BY Zenon, <1>t, <1>2, <2>1, CarriesRest
  <2>3. Carries(Flight(d.side)', id[d], f, t)  BY Zenon, <1>1, <1>8, <2>2
  <2>4. ~Delivering(d)'  BY <1>1, <1>7, <1>8 DEF Delivering, IsData
  <2>5. Stream(c, d, l, f, t)'
    BY Zenon, <1>2, <1>3, <1>4, <1>6, <1>8, <2>3, <2>4, StreamFrame
  <2>. QED  BY Zenon, <2>5
<1>9. CASE d.side = s /\ IsData(m, id[d])
  <2>1. PICK q \in Seq(Messages) : q = Flight(d.side)  BY Zenon, <1>t
  <2>2. q # <<>> /\ IsData(q[1], id[d]) /\ q[1] = m /\ Carries(q, id[d], f, t)
    BY Zenon, <1>1, <1>2, <1>9, <2>1
  <2>3. m.k = f + 1 /\ f + 1 <= t /\ Carries(Tail(q), id[d], f + 1, t)
    BY Zenon, <2>2, CarriesFirst
  <2>4. 1 \in 1 .. Len(Flight(d.side))
    <3>1. Len(q) \in Nat \ {0}  BY <2>2, FirstAndRest
    <3>. QED  BY <2>1, <3>1
  <2>5. m.protocol = d.protocol
    BY Zenon, <2>1, <2>2, <2>4, WriterIs
  <2>6. PICK u \in Nat : u = f + 1 /\ u <= t /\ m.k = u /\ Carries(Tail(q), id[d], u, t)
    BY Zenon, <2>3, Sums
  <2>7. Carries(Flight(d.side)', id[d], u, t)  BY Zenon, <1>1, <1>9, <2>1, <2>6
  <2>8. Carries(Flight(d.side), id[d], u, t)'  BY Zenon, <1>3, <2>7 DEF Carries, DataAt
  <2>9. CASE d \in channels
    <3>1. d \in Registered(s, m.id)  BY <1>9, <2>9 DEF Registered, IsData
    <3>2. PICK e \in Registered(s, m.id) :
            broker'[s].at = "deliver" /\ broker'[s].call = e /\ broker'[s].k = m.k
      BY Zenon, <1>1, <2>5, <3>1
    <3>3. e \in Calls /\ e.side = d.side /\ id[e] = id[d]
      BY <1>t, <1>7, <1>9 DEF IsData
    <3>4. e = d  BY <1>t, <3>3, Unique DEF IdsUnique
    <3>5. Delivering(d)' /\ broker'[d.side].k = u  BY Zenon, <1>9, <2>6, <3>2, <3>4 DEF Delivering
    <3>6. PICK n \in Nat : n = l + Len(got[d]) + Len(queue[d])  BY Zenon, <1>t, Sums
    <3>7. /\ n <= f /\ Follows(got[d], l) /\ Follows(queue[d], l + Len(got[d]))
          /\ Running(d) => f = n
      BY Zenon, <1>6, <1>9, <3>6 DEF Stream
    <3>8. n <= u /\ (Running(d)' => u = n + 1)
      BY Zenon, <1>6, <1>9, <2>6, <3>7, AtMostNext
    <3>9. n = l + Len(got'[d]) + Len(queue'[d])  BY Zenon, <1>3, <3>6
    <3>10. Follows(got[d], l)' /\ Follows(queue[d], l + Len(got[d]))'
      BY Zenon, <1>3, <3>7 DEF Follows
    <3>11. Stream(c, d, l, u, t)'
      BY Zenon, <1>4, <2>6, <2>8, <3>5, <3>8, <3>9, <3>10 DEF Stream
    <3>. QED  BY Zenon, <2>6, <3>11
  <2>10. CASE d \notin channels
    <3>1. got[d] = <<>> /\ queue[d] = <<>>  BY Zenon, <2>10 DEF ChannelInv
    <3>2. got'[d] = <<>> /\ queue'[d] = <<>>  BY Zenon, <1>3, <3>1
    <3>3. u = u + Len(got'[d]) + Len(queue'[d]) /\ u <= u
      BY Zenon, <3>2, AtMostNext, NoneFollow
    <3>4. Follows(got'[d], u) /\ Follows(queue'[d], u + Len(got'[d]))
      BY Zenon, <3>2, NoneFollow
    <3>5. Follows(got[d], u)' /\ Follows(queue[d], u + Len(got[d]))'
      BY Zenon, <3>4 DEF Follows
    <3>6. ~Delivering(d)'  BY <1>1, <1>7, <1>9, <2>10, Zenon DEF Delivering
    <3>7. Stream(c, d, u, u, t)'
      BY Zenon, <1>4, <2>6, <2>8, <3>3, <3>5, <3>6 DEF Stream
    <3>. QED  BY Zenon, <2>6, <2>10, <3>7
  <2>. QED  BY <2>9, <2>10
<1>. QED  BY Zenon, <1>5, <1>8, <1>9

\* The steps that write or deliver data keep what is said of the channels and of
\* the data on its way.
LEMMA ChannelSteps ==
    ASSUME TypeOK, IdInv, FlightInv, ChannelInv, DataInv, Steady,
           \/ \E c \in Calls : Write(c) \/ Read(c) \/ HandlerDone(c)
           \/ \E s \in Sides : BrokerData(s) \/ BrokerDeliver(s)
    PROVE  ChannelInv' /\ DataInv'
<1>t. /\ \A s \in Sides : Flight(s) \in Seq(Messages)
      /\ broker \in [Sides -> BrokerStates] /\ sent \in [Calls -> Nat]
      /\ got \in [Calls -> Seq(Nat)] /\ queue \in [Calls -> Seq(Nat)]
      /\ \A c \in Calls : c.side \in Sides
  BY CallsAssumption, Joined, Zenon DEF Flight, TypeOK
<1>i. /\ \A c \in Calls : sent[c] # 0 => call[c] = "ok"
      /\ \A d \in Calls : d \notin channels => got[d] = <<>> /\ queue[d] = <<>>
      /\ \A s \in Sides :
           /\ broker[s].at = "deliver" => broker[s].call \in channels /\ broker[s].call.side = s
           /\ ~Up(s) => conn[s] = "closed"
           /\ broker[s].at = "stopped" => done[s]
  BY Zenon DEF ChannelInv
<1> DEFINE Fine(s) == /\ broker[s].at = "deliver" => broker[s].call \in channels /\ broker[s].call.side = s
                      /\ ~Up(s) => conn[s] = "closed"
                      /\ broker[s].at = "stopped" => done[s]
<1>f. ASSUME NEW s \in Sides, broker'[s] = broker[s], UNCHANGED <<channels, conn, done>>
      PROVE  Fine(s)'
  BY <1>i, <1>f, Zenon DEF Up
<1> HIDE DEF Fine
<1>1. ASSUME UNCHANGED <<sent, hand, net>> PROVE DataInv'
  <2>1. \A s \in Sides : Flight(s)' = Flight(s)  BY Zenon, <1>1 DEF Flight
  <2>. QED  BY Zenon, <1>1, <2>1, AllWrittenSteps DEF DataInv
<1>2. ASSUME NEW w \in Calls, Write(w) PROVE ChannelInv' /\ DataInv'
  <2>1. PICK m \in Messages :
          /\ IsData(m, id[w]) /\ m.protocol = w.protocol /\ m.k = sent[w] + 1
          /\ sent' = [sent EXCEPT ![w] = sent[w] + 1] /\ call[w] = "ok"
          /\ UNCHANGED <<call, id, channels, broker, hand, conn, done, queue, life, got>>
          /\ \A s \in Sides :
               IF s = Peer(w.side) /\ conn[s] = "open"
               THEN Flight(s)' = Append(Flight(s), m) ELSE Flight(s)' = Flight(s)
    BY Zenon, <1>2, WriteFlight
  <2>2. sent'[w] # 0 /\ \A c \in Calls : c # w => sent'[c] = sent[c]
    <3>1. sent' = [sent EXCEPT ![w] = sent[w] + 1] /\ sent \in [Calls -> Nat]  BY Zenon, <1>t, <2>1
    <3>. QED  BY <3>1, Counted
  <2>3. \A c \in Calls : sent[c] # 0 => sent'[c] # 0  BY Zenon, <2>2
  <2>4. \A c \in Calls : sent'[c] # 0 => call'[c] = "ok"  BY Zenon, <1>i, <2>1, <2>2
  <2>5. UNCHANGED <<channels, broker, conn, done, queue, got>>  BY Zenon, <2>1
  <2>6. ChannelInv'  BY Zenon, <1>i, <2>4, <2>5 DEF ChannelInv, Up
  <2>7. ASSUME NEW s \in Sides, s = Peer(w.side) PROVE WroteData(s, m)'
    <3>1. w.side = Peer(s)  BY <1>t, <2>7 DEF Sides, Peer
    <3>2. id'[w] = m.id  BY Zenon, <2>1 DEF IsData
    <3>. QED  BY Zenon, <2>1, <2>2, <3>1, <3>2 DEF WroteData
  <2>8. \A s \in Sides : AllWritten(s, Flight(s))'
    BY Zenon, <2>1, <2>3, <2>7, AllWrittenSteps
  <2>. QED  BY Zenon, <2>6, <2>8 DEF DataInv
<1>3. ASSUME NEW r \in Calls, Read(r) PROVE ChannelInv' /\ DataInv'
  <2>1. /\ queue[r] # <<>> /\ got' = [got EXCEPT ![r] = Append(@, Head(queue[r]))]
        /\ queue' = [queue EXCEPT ![r] = Tail(@)]
        /\ UNCHANGED <<call, channels, broker, hand, net, conn, done, sent>>
    BY Zenon, <1>3 DEF Read, callVars, mapVars
  <2>2. r \in channels /\ \A d \in Calls : d # r => got'[d] = got[d] /\ queue'[d] = queue[d]
    <3>1. \A d \in Calls : d # r => got'[d] = got[d]  BY Zenon, <1>t, <2>1
    <3>2. \A d \in Calls : d # r => queue'[d] = queue[d]  BY Zenon, <1>t, <2>1
    <3>3. r \in channels  BY Zenon, <1>i, <2>1
    <3>. QED  BY Zenon, <3>1, <3>2, <3>3
  <2>3. \A d \in Calls : d \notin channels => got'[d] = <<>> /\ queue'[d] = <<>>
    BY Zenon, <1>i, <2>2
  <2>. QED  BY Zenon, <1>i, <1>1, <2>1, <2>3 DEF ChannelInv, Up
<1>4. ASSUME NEW h \in Calls, HandlerDone(h) PROVE ChannelInv' /\ DataInv'
  <2>1. /\ queue' = [queue EXCEPT ![h] = <<>>]
        /\ UNCHANGED <<call, channels, broker, hand, net, conn, done, sent, got>>
    BY Zenon, <1>4 DEF HandlerDone, callVars, mapVars
  <2>2. \A d \in Calls : queue'[d] = <<>> \/ queue'[d] = queue[d]  BY <1>t, <2>1
  <2>3. \A d \in Calls : d \notin channels => got'[d] = <<>> /\ queue'[d] = <<>>
    BY Zenon, <1>i, <2>1, <2>2
  <2>. QED  BY Zenon, <1>i, <1>1, <2>1, <2>3 DEF ChannelInv, Up
<1>5. ASSUME NEW s \in Sides, BrokerData(s) PROVE ChannelInv' /\ DataInv'
  <2>1. PICK m \in Messages :
          /\ m = Flight(s)[1] /\ m.type = "Data" /\ broker[s].at = "select"
          /\ Flight(s) # <<>> /\ Flight(s)' = Tail(Flight(s))
          /\ UNCHANGED <<call, id, channels, conn, done, queue, life, sent, got>>
          /\ \A r \in Sides : r # s => broker'[r] = broker[r] /\ Flight(r)' = Flight(r)
          /\ \/ /\ broker' = broker
                /\ \A e \in Registered(s, m.id) : e.protocol # m.protocol
             \/ \E e \in Registered(s, m.id) :
                   broker'[s].at = "deliver" /\ broker'[s].call = e /\ broker'[s].k = m.k
    BY Zenon, <1>5, DataTaken
  <2>2. \A r \in Sides : AllWritten(r, Flight(r))'  BY Zenon, <2>1, AllWrittenSteps
  <2>3. \A r \in Sides : broker'[r] = broker[r] => Fine(r)'  BY Zenon, <1>f, <2>1
  <2>4. ASSUME NEW e \in Registered(s, m.id), broker'[s].at = "deliver", broker'[s].call = e
        PROVE  Fine(s)'
    <3>1. e \in channels' /\ e.side = s  BY Zenon, <2>1 DEF Registered
    <3>2. Up(s)'  BY <2>4 DEF Up
    <3>3. broker'[s].at # "stopped"  BY <2>4
    <3>. QED  BY Zenon, <2>4, <3>1, <3>2, <3>3 DEF Fine
  <2>5. UNCHANGED <<call, channels, sent, queue, got>>  BY Zenon, <2>1
  <2>6. \A r \in Sides : Fine(r)'  BY Zenon, <2>1, <2>3, <2>4
  <2>7. ChannelInv'  BY Zenon, <1>i, <2>5, <2>6 DEF ChannelInv, Fine
  <2>. QED  BY Zenon, <2>2, <2>7 DEF DataInv
<1>6. ASSUME NEW s \in Sides, BrokerDeliver(s) PROVE ChannelInv' /\ DataInv'
  <2>1. PICK x : x = broker[s].call  OBVIOUS
  <2>2. /\ queue' = [queue EXCEPT ![x] = Enqueue(@, broker[s].k)] /\ broker[s].at = "deliver"
        /\ broker' = [broker EXCEPT ![s] = Selecting]
        /\ UNCHANGED <<call, channels, hand, net, conn, done, sent, got>>
    BY Zenon, <1>6, <2>1 DEF BrokerDeliver, callVars, mapVars
  <2>3. x \in channels  BY Zenon, <1>i, <2>1, <2>2
  <2>4. \A d \in Calls : d # x => queue'[d] = queue[d]  BY <1>t, <2>2
  <2>5. \A d \in Calls : d \notin channels => got'[d] = <<>> /\ queue'[d] = <<>>
    BY Zenon, <1>i, <2>2, <2>3, <2>4
  <2>6. broker'[s].at = "select" /\ \A r \in Sides : r # s => broker'[r] = broker[r]
    BY <1>t, <2>2 DEF Selecting
  <2>7. ASSUME NEW r \in Sides
        PROVE  Fine(r)'
    <3>1. CASE r = s  BY <2>6, <3>1, Zenon DEF Up, Fine
    <3>2. CASE r # s  BY Zenon, <1>f, <2>2, <2>6, <3>2
    <3>. QED  BY <3>1, <3>2
  <2>. QED  BY Zenon, <1>i, <1>1, <2>2, <2>5, <2>7 DEF ChannelInv, Fine
<1>. QED  BY Zenon, <1>2, <1>3, <1>4, <1>5, <1>6

\* A channel that one end has not finished opening or accepting is unused.
Fresh ==
    \A c, d \in Calls :
        SameProtocol(c, d) /\ (call[c] \in {"register", "write"} \/ call[d] \in {"register", "write"})
        => Stream(c, d, 0, 0, 0)

\* Nothing was written to a channel before both of its ends returned.
LEMMA Unused == ASSUME TypeOK, IdInv, MapInv, ChannelInv, DataInv PROVE Fresh
<1> SUFFICES ASSUME NEW c \in Calls, NEW d \in Calls, SameProtocol(c, d),
                    call[c] \in {"register", "write"} \/ call[d] \in {"register", "write"}
             PROVE  Stream(c, d, 0, 0, 0)
  BY Zenon DEF Fresh
<1>t. id \in [Calls -> Nat] /\ \A e \in Calls : e.side \in Sides /\ e.op \in {"open", "accept"}
  BY CallsAssumption DEF TypeOK
<1>1. ASSUME NEW x \in Calls, NEW y \in Calls, Linked(x, y), call[x] \in {"register", "write"}
      PROVE  call[y] # "ok"
  <2> SUFFICES ASSUME call[y] = "ok" PROVE FALSE  OBVIOUS
  <2>1. /\ x.side = Peer(y.side) /\ y.side = Peer(x.side) /\ id[x] = id[y] /\ id[x] # 0 /\ id[x] \in Nat
        /\ x.side \in Sides /\ y.side \in Sides
    BY <1>t, <1>1 DEF Linked, Sides, Peer
  <2>2. \A e \in Calls : e.op = "open" /\ id[e] # 0 => OwnId(e.side, id[e])
    BY Zenon DEF IdInv, OpenIdInv
  <2>3. \A e \in Calls : e.op # "open" /\ id[e] # 0 => OpenSent(e.side, id[e])
    BY Zenon DEF IdInv, AcceptIdInv
  <2>4. \A e \in Calls : e.side = x.side /\ id[e] = id[x] => e = x
    BY Zenon, <2>1, Unique DEF IdsUnique
  <2>5. ~OpenSent(y.side, id[x])
    <3>1. call[x] \in {"idle", "register", "write"}  BY <1>1
    <3>. QED  BY Zenon, <2>1, <2>4, <3>1 DEF OpenSent
  <2>6. ~AcceptSent(y.side, id[x])
    <3>1. call[x] \notin {"attach", "ok"}  BY <1>1
    <3>. QED  BY Zenon, <2>1, <2>4, <3>1 DEF AcceptSent
  <2>7. y.op = "open"  BY Zenon, <2>1, <2>3, <2>5
  <2>8. y \in accepts
    <3>1. call[y] \in {"write", "wait", "attach", "ok"}  OBVIOUS
    <3>. QED  BY Zenon, <2>1, <2>6, <2>7, <3>1 DEF MapInv
  <2>9. call[y] \in {"write", "wait", "ErrClosed", "failed"}  BY Zenon, <2>8 DEF MapInv
  <2>. QED  BY <2>9
<1>2. call[c] # "ok" /\ call[d] # "ok"
  <2>1. Linked(c, d) /\ Linked(d, c)  BY Zenon DEF SameProtocol, Linked
  <2>2. "ok" \notin {"register", "write"}  OBVIOUS
  <2>. QED  BY Zenon, <1>1, <2>1, <2>2
<1>3. sent[c] = 0 /\ d \notin channels  BY Zenon, <1>2 DEF ChannelInv, MapInv
<1>4. got[d] = <<>> /\ queue[d] = <<>>  BY Zenon, <1>3 DEF ChannelInv
<1>5. ~Delivering(d)
  <2> SUFFICES ASSUME Delivering(d) PROVE FALSE  BY Zenon
  <2>1. broker[d.side].at = "deliver" /\ broker[d.side].call = d  BY Zenon DEF Delivering
  <2>2. broker[d.side].call \in channels  BY Zenon, <1>t, <2>1 DEF ChannelInv
  <2>. QED  BY Zenon, <1>3, <2>1, <2>2
<1>6. DataAt(Flight(d.side), id[d]) = {}
  <2>1. \A j \in 1 .. Len(Flight(d.side)) : ~IsData(Flight(d.side)[j], id[d])
    BY Zenon, <1>3, WriterIs
  <2>. QED  BY Zenon, <2>1 DEF DataAt, IsData
<1>7. Carries(Flight(d.side), id[d], 0, 0)
  <2>1. 0 + 1 .. 0 = {}  OBVIOUS
  <2>. QED  BY Zenon, <1>6, <2>1 DEF Carries
<1>8. 0 = 0 + Len(got[d]) + Len(queue[d]) /\ 0 <= 0  BY <1>4
<1>9. Follows(got[d], 0) /\ Follows(queue[d], 0 + Len(got[d]))  BY <1>4 DEF Follows
<1>. QED  BY Zenon, <1>3, <1>5, <1>7, <1>8, <1>9 DEF Stream

\* Two calls become the ends of one channel only when the broker gives an Open
\* to one of them, or one takes a new ID: the channel is unused.
LEMMA NewLink ==
    ASSUME TypeOK, IdInv, FlightInv, [Next]_vars, NEW c \in Calls, NEW d \in Calls,
           SameProtocol(c, d)', ~SameProtocol(c, d)
    PROVE  call'[c] \in {"register", "write"} \/ call'[d] \in {"register", "write"}
<1>t. /\ call \in [Calls -> CallStates] /\ id \in [Calls -> Nat] /\ broker \in [Sides -> BrokerStates]
  BY DEF TypeOK
<1>1. id'[c] # id[c] \/ id'[d] # id[d]  BY DEF SameProtocol, Linked
<1>2. ASSUME NEW x \in Calls, id'[x] # id[x] PROVE call'[x] \in {"register", "write"}
  <2>1. CASE UNCHANGED callVars  BY Zenon, <1>2, <2>1 DEF callVars
  <2>2. ASSUME NEW e \in Calls, Start(e) PROVE call'[x] \in {"register", "write"}
    <3>1. call' = [call EXCEPT ![e] = "register"]  BY Zenon, <2>2 DEF Start, Go
    <3>2. UNCHANGED id \/ id' = [id EXCEPT ![e] = nextId[e.side]]  BY Zenon, <2>2 DEF Start
    <3>3. e = x  BY <1>t, <1>2, <3>2
    <3>. QED  BY <1>t, <3>1, <3>3
  <2>3. ASSUME NEW e \in Calls,
               \/ RegisterOpen(e) \/ RegisterAccept(e) \/ WriteHandshake(e)
               \/ GiveUp(e) \/ SeeAccepted(e) \/ Attach(e)
        PROVE  FALSE
    BY Zenon, <1>2, <2>3, CallMoves
  <2>4. ASSUME NEW s \in Sides, BrokerOpened(s) PROVE call'[x] \in {"register", "write"}
    <3>1. PICK e, i : e = broker[s].call /\ i = broker[s].id  OBVIOUS
    <3>2. call' = [call EXCEPT ![e] = "write"] /\ id' = [id EXCEPT ![e] = i]
      BY Zenon, <2>4, <3>1 DEF BrokerOpened, Go
    <3>3. e = x  BY <1>t, <1>2, <3>2
    <3>. QED  BY <1>t, <3>2, <3>3
  <2>. QED  BY Zenon, <2>1, <2>2, <2>3, <2>4, WhoMoves
<1>. QED  BY Zenon, <1>1, <1>2

\* Every step keeps the stream of a channel; it loses a message only while the
\* Channel at its end is not registered.
LEMMA StreamStep ==
    ASSUME TypeOK, IdInv, FlightInv, ChannelInv, DataInv, [Next]_vars,
           NEW c \in Calls, NEW d \in Calls, SameProtocol(c, d),
           NEW l \in Nat, NEW f \in Nat, NEW t \in Nat, Stream(c, d, l, f, t)
    PROVE  \E l2, f2, t2 \in Nat :
             Stream(c, d, l2, f2, t2)' /\ (d \in channels => l2 = l) /\ t <= t2
<1>0. f + 1 \in Nat /\ t + 1 \in Nat /\ t <= t /\ t <= t + 1  OBVIOUS
<1>1. Linked(c, d) /\ id[d] # 0  BY Zenon DEF SameProtocol, Linked
<1>2. Steady  BY Zenon, SteadySteps
<1>3. ASSUME Calm PROVE Stream(c, d, l, f, t)'  BY Zenon, <1>1, <1>3, StreamCalm
<1>4. ASSUME NEW w \in Calls, Write(w)
      PROVE  Stream(c, d, l, f, t)' \/ Stream(c, d, l, f, t + 1)'
  BY Zenon, <1>1, <1>4, StreamWrite
<1>5. ASSUME NEW r \in Calls, Read(r) \/ HandlerDone(r) PROVE Stream(c, d, l, f, t)'
  BY Zenon, <1>5, StreamRead, StreamDone
<1>6. ASSUME NEW s \in Sides, BrokerDeliver(s) PROVE Stream(c, d, l, f, t)'
  BY Zenon, <1>6, StreamDeliver
<1>7. ASSUME NEW s \in Sides, BrokerData(s)
      PROVE  \/ Stream(c, d, l, f, t)' \/ Stream(c, d, l, f + 1, t)'
             \/ d \notin channels /\ Stream(c, d, f + 1, f + 1, t)'
  BY Zenon, <1>7, StreamData
<1>8. \/ Calm
      \/ \E e \in Calls : Write(e) \/ Read(e) \/ HandlerDone(e)
      \/ \E s \in Sides : BrokerDeliver(s) \/ BrokerData(s)
  BY Zenon, <1>2, CallCalm, OtherCalm DEF Next, BrokerStep
<1>. QED  BY Zenon, <1>0, <1>3, <1>4, <1>5, <1>6, <1>7, <1>8

\* The numbers in a stream's parts are at most what was written.
LEMMA StreamBounds ==
    ASSUME TypeOK', NEW c \in Calls, NEW d \in Calls,
           NEW l \in Nat, NEW f \in Nat, NEW t \in Nat, Stream(c, d, l, f, t)'
    PROVE  l \in 0 .. sent'[c] /\ f \in 0 .. sent'[c] /\ t \in 0 .. sent'[c]
<1>1. sent'[c] \in Nat /\ got'[d] \in Seq(Nat) /\ queue'[d] \in Seq(Nat)  BY DEF TypeOK
<1>2. PICK m \in Nat, n \in Nat : m = Len(got'[d]) /\ n = Len(queue'[d])  BY <1>1
<1>3. l + m + n <= f /\ f <= t /\ t <= sent'[c]  BY Zenon, <1>2 DEF Stream
<1>. QED  BY <1>1, <1>3

\* What was delivered to a Channel whose handler and broker run is all that
\* the broker has taken from the stream, after the beginning it lost.
LEMMA StreamDelivered ==
    ASSUME TypeOK, NEW c \in Calls, NEW d \in Calls,
           NEW l \in Nat, NEW f \in Nat, NEW t \in Nat, Stream(c, d, l, f, t), Running(d)
    PROVE  /\ Len(Delivered(d)) \in Nat /\ f = l + Len(Delivered(d)) /\ Follows(Delivered(d), l)
<1>1. PICK g \in Seq(Nat), q \in Seq(Nat) : g = got[d] /\ q = queue[d]
  BY Zenon, StreamTypes
<1>2. /\ Follows(g, l) /\ Follows(q, l + Len(g))
      /\ IF Delivering(d) THEN broker[d.side].k = f /\ f = l + Len(g) + Len(q) + 1
                          ELSE f = l + Len(g) + Len(q)
  BY Zenon, <1>1 DEF Stream
<1>3. PICK p \in Seq(Nat) : /\ p = g \o q /\ Len(p) = Len(g) + Len(q) /\ Follows(p, l)
                            /\ Len(g) \in Nat /\ Len(q) \in Nat
  BY Zenon, <1>2, FollowsJoined
<1>4. l + Len(p) = l + Len(g) + Len(q)
  <2>1. Len(p) = Len(g) + Len(q) /\ Len(g) \in Nat /\ Len(q) \in Nat  BY Zenon, <1>3
  <2>. QED  BY <2>1
<1>5. PICK r \in Seq(Nat) : /\ r = IF Delivering(d) THEN <<broker[d.side].k>> ELSE <<>>
                            /\ Follows(r, l + Len(p)) /\ f = l + Len(p) + Len(r)
  <2>1. CASE Delivering(d)
    <3>1. f = l + Len(p) + 1  BY Zenon, <1>2, <2>1, <1>4
    <3>2. <<f>> \in Seq(Nat) /\ Len(<<f>>) = 1 /\ Follows(<<f>>, l + Len(p))  BY <3>1 DEF Follows
    <3>3. broker[d.side].k = f  BY Zenon, <1>2, <2>1
    <3>. QED  BY Zenon, <2>1, <3>1, <3>2, <3>3
  <2>2. CASE ~Delivering(d)
    <3>1. f = l + Len(p) + 0  BY <1>2, <1>3, <2>2
    <3>2. <<>> \in Seq(Nat) /\ Len(<<>>) = 0 /\ Follows(<<>>, l + Len(p))  BY DEF Follows
    <3>. QED  BY Zenon, <2>2, <3>1, <3>2
  <2>. QED  BY Zenon, <2>1, <2>2
<1>6. /\ Len(p \o r) = Len(p) + Len(r) /\ Len(p) \in Nat /\ Len(r) \in Nat /\ Follows(p \o r, l)
  <2>1. \A x, y \in Seq(Nat) : Follows(x, l) /\ Follows(y, l + Len(x))
            => /\ Len(x \o y) = Len(x) + Len(y) /\ Len(x) \in Nat /\ Len(y) \in Nat
               /\ Follows(x \o y, l)
    BY Zenon, FollowsJoined
  <2>2. Follows(p, l) /\ Follows(r, l + Len(p))  BY Zenon, <1>3, <1>5
  <2>. QED  BY Zenon, <2>1, <2>2
<1>7. Delivered(d) = p \o r  BY Zenon, <1>1, <1>3, <1>5 DEF Delivered
<1>8. f = l + (Len(p) + Len(r)) /\ Len(p) + Len(r) \in Nat  BY <1>5, <1>6
<1>. QED  BY Zenon, <1>6, <1>7, <1>8

\* What has arrived or is on its way is then all of the stream that follows the
\* beginning it lost.
LEMMA AllArriving ==
    ASSUME TypeOK, NEW c \in Calls, NEW d \in Calls, Running(d), conn[d.side] = "open",
           NEW l \in Nat, NEW f \in Nat, NEW t \in Nat, Stream(c, d, l, f, t)
    PROVE  Arriving(d) = l + 1 .. t
<1>1. PICK x, q, D : x = Delivered(d) /\ q = Flight(d.side) /\ D = DataAt(q, id[d])  BY Zenon
<1>2. Len(x) \in Nat /\ f = l + Len(x) /\ \A j \in 1 .. Len(x) : x[j] = l + j
  <2>1. Len(Delivered(d)) \in Nat /\ f = l + Len(Delivered(d)) /\ Follows(Delivered(d), l)
    BY Zenon, StreamDelivered
  <2>. QED  BY Zenon, <1>1, <2>1 DEF Follows
<1>3. /\ f <= t /\ \A j \in D : q[j].k \in f + 1 .. t
      /\ \A k \in f + 1 .. t : \E j \in D : q[j].k = k
  BY Zenon, <1>1 DEF Stream, Carries
<1>4. Arriving(d) = {x[j] : j \in 1 .. Len(x)} \cup {q[j].k : j \in D}
  BY Zenon, <1>1 DEF Arriving
<1>5. ASSUME NEW k \in Arriving(d) PROVE k \in l + 1 .. t
  <2>1. CASE \E j \in 1 .. Len(x) : k = x[j]  BY <1>2, <1>3, <2>1
  <2>2. CASE \E j \in D : k = q[j].k
    <3>1. k \in f + 1 .. t  BY Zenon, <1>3, <2>2
    <3>. QED  BY <1>2, <3>1
  <2>. QED  BY Zenon, <1>4, <1>5, <2>1, <2>2
<1>6. ASSUME NEW k \in l + 1 .. t PROVE k \in Arriving(d)
  <2>1. CASE k <= f
    <3>1. PICK j \in 1 .. Len(x) : k = l + j
      <4>1. k - l \in 1 .. Len(x) /\ k = l + (k - l)  BY <1>2, <2>1
      <4>. QED  BY Zenon, <4>1
    <3>2. x[j] = k  BY Zenon, <1>2, <3>1
    <3>. QED  BY Zenon, <1>4, <3>2
  <2>2. CASE ~(k <= f)
    <3>1. k \in f + 1 .. t  BY <1>2, <2>2
    <3>2. PICK j \in D : q[j].k = k  BY Zenon, <1>3, <3>1
    <3>. QED  BY Zenon, <1>4, <3>2
  <2>. QED  BY Zenon, <2>1, <2>2
<1>. QED  BY Zenon, <1>5, <1>6

\* What arrives at a served Channel is its stream without the beginning.
Whole ==
    \A c, d \in Calls : Running(d) /\ conn[d.side] = "open" =>
        \A l, f, t \in Nat : Stream(c, d, l, f, t) => Arriving(d) = l + 1 .. t

\* A Channel is served while nobody closes anything.
LEMMA UndisturbedRuns ==
    ASSUME ChannelInv, NEW d \in Calls, life[d] # "closed",
           conn[d.side] = "open", ~done[d.side]
    PROVE  Running(d)
<1>1. d.side \in Sides  BY CallsAssumption
<1>2. Up(d.side) /\ broker[d.side].at # "stopped"  BY <1>1 DEF ChannelInv
<1>. QED  BY Zenon, <1>2 DEF Running

-----------------------------------------------------------------------------
(* Theorems                                                                *)

\* Only returned calls write, only registered Channels are delivered to, and all
\* data on its way was written by a Channel of the peer: what the streams rest on.
THEOREM ChannelsKept == Spec => [](ChannelInv /\ DataInv)
<1>1. Init => ChannelInv /\ DataInv
  <2> SUFFICES ASSUME Init PROVE ChannelInv /\ DataInv  OBVIOUS
  <2>1. ChannelInv  BY Zenon DEF Init, ChannelInv, Selecting, Up
  <2>2. ASSUME NEW s \in Sides PROVE AllWritten(s, Flight(s))
    <3>1. hand[s] = <<>> /\ net[s] = <<>> /\ <<>> \in Seq(Messages)  BY DEF Init
    <3>2. Flight(s) = <<>>  BY <3>1, JoinedToNothing, Zenon DEF Flight
    <3>3. 1 .. Len(Flight(s)) = {}  BY <3>2
    <3>. QED  BY Zenon, <3>3 DEF AllWritten
  <2>. QED  BY Zenon, <2>1, <2>2 DEF DataInv
<1>2. TypeOK /\ SessionInv /\ ChannelInv /\ DataInv /\ [Next]_vars => ChannelInv' /\ DataInv'
  <2> SUFFICES ASSUME TypeOK, IdInv, FlightInv, ChannelInv, DataInv, [Next]_vars
               PROVE  ChannelInv' /\ DataInv'
    BY Zenon DEF SessionInv
  <2>1. Steady  BY Zenon, SteadySteps
  <2>2. \/ Calm
        \/ \E e \in Calls : Write(e) \/ Read(e) \/ HandlerDone(e)
        \/ \E s \in Sides : BrokerData(s) \/ BrokerDeliver(s)
    BY Zenon, <2>1, CallCalm, OtherCalm DEF Next, BrokerStep
  <2>. QED  BY Zenon, <2>1, <2>2, ChannelCalm, ChannelSteps
<1>. QED  BY <1>1, <1>2, WellTyped, Handshakes, PTL DEF Spec

\* What is written to a channel goes through the connection, the broker and the
\* channel's handler in order, with at most its beginning lost before the
\* Channel was registered and its end lost when something was closed: the
\* inductive invariant of the streams.
THEOREM StreamsKept == Spec => []StreamInv
<1>1. Init => StreamInv  BY DEF Init, StreamInv, SameProtocol, Linked
<1>2. TypeOK /\ SessionInv /\ ChannelInv /\ DataInv => Fresh  BY Zenon, Unused DEF SessionInv
<1>3. /\ TypeOK /\ TypeOK' /\ SessionInv /\ ChannelInv /\ DataInv /\ Fresh' /\ StreamInv
      /\ [Next]_vars
      => StreamInv'
  <2> SUFFICES ASSUME TypeOK, TypeOK', IdInv, FlightInv, ChannelInv, DataInv, Fresh', StreamInv,
                      [Next]_vars, NEW c \in Calls, NEW d \in Calls, SameProtocol(c, d)'
               PROVE  (\E lost, from, to \in 0 .. sent[c] : Stream(c, d, lost, from, to))'
    BY Zenon DEF StreamInv, SessionInv
  <2>t. sent[c] \in Nat  BY DEF TypeOK
  <2>1. \E l, f, t \in Nat : Stream(c, d, l, f, t)'
    <3>1. CASE SameProtocol(c, d)
      <4>1. PICK l \in 0 .. sent[c], f \in 0 .. sent[c], t \in 0 .. sent[c] : Stream(c, d, l, f, t)
        BY Zenon, <3>1 DEF StreamInv
      <4>2. l \in Nat /\ f \in Nat /\ t \in Nat  BY <2>t
      <4>. QED  BY Zenon, <3>1, <4>1, <4>2, StreamStep
    <3>2. CASE ~SameProtocol(c, d)
      <4>1. Stream(c, d, 0, 0, 0)'  BY Zenon, <3>2, NewLink DEF Fresh
      <4>2. 0 \in Nat  OBVIOUS
      <4>. QED  BY Zenon, <4>1, <4>2
    <3>. QED  BY Zenon, <3>1, <3>2
  <2>. QED  BY Zenon, <2>1, StreamBounds
<1>. QED  BY <1>1, <1>2, <1>3, WellTyped, Handshakes, ChannelsKept, PTL DEF Spec

\* A Channel's user reads a run of consecutive messages of the other end,
\* whatever is closed or fails, for any number of calls and messages.
THEOREM ReadInOrder == Spec => []ReadsInOrder
<1>1. TypeOK /\ StreamInv => ReadsInOrder
  <2> SUFFICES ASSUME TypeOK, StreamInv, NEW c \in Calls, NEW d \in Calls, SameProtocol(c, d)
               PROVE  \E lost \in 0 .. sent[c] : /\ Follows(got[d], lost)
                                                 /\ lost + Len(got[d]) <= sent[c]
    BY Zenon DEF ReadsInOrder
  <2>1. PICK l \in 0 .. sent[c], f \in 0 .. sent[c], t \in 0 .. sent[c] : Stream(c, d, l, f, t)
    BY Zenon DEF StreamInv
  <2>2. /\ sent[c] \in Nat /\ Len(got[d]) \in Nat /\ Len(queue[d]) \in Nat  BY Zenon, StreamTypes
  <2>3. /\ Follows(got[d], l) /\ l + Len(got[d]) + Len(queue[d]) <= f
    BY Zenon, <2>1 DEF Stream
  <2>4. l + Len(got[d]) <= sent[c]
    <3>1. PICK m \in Nat, n \in Nat, k \in Nat : m = Len(got[d]) /\ n = Len(queue[d]) /\ k = sent[c]
      BY Zenon, <2>2
    <3>2. l \in 0 .. k /\ f \in 0 .. k /\ l + m + n <= f  BY Zenon, <2>3, <3>1
    <3>3. l + m <= k  BY <3>2
    <3>. QED  BY Zenon, <3>1, <3>3
  <2>. QED  BY Zenon, <2>3, <2>4
<1>. QED  BY <1>1, WellTyped, StreamsKept, PTL

\* While nobody closes anything, what arrives at a Channel and what is on its
\* way to it is a stream with at most its beginning missing.
THEOREM StreamsIntact == Spec => []StreamIntact
<1>1. TypeOK /\ ChannelInv /\ StreamInv => StreamIntact
  <2> SUFFICES ASSUME TypeOK, ChannelInv, StreamInv, NEW c \in Calls, NEW d \in Calls,
                      SameProtocol(c, d), Undisturbed(d)
               PROVE  \E lost \in 0 .. sent[c] :
                        /\ Follows(Delivered(d), lost)
                        /\ lost + Len(Delivered(d)) <= sent[c]
                        /\ Carries(Flight(d.side), id[d], lost + Len(Delivered(d)), sent[c])
    BY Zenon DEF StreamIntact
  <2>1. PICK l \in 0 .. sent[c], f \in 0 .. sent[c], t \in 0 .. sent[c] : Stream(c, d, l, f, t)
    BY Zenon DEF StreamInv
  <2>2. sent[c] \in Nat /\ d.side \in Sides  BY Zenon, StreamTypes
  <2>3. l \in Nat /\ f \in Nat /\ t \in Nat  BY <2>2
  <2>4. Running(d) /\ conn[d.side] = "open"
    <3>1. life[d] = "open" /\ conn[d.side] = "open" /\ ~done[d.side]
      BY Zenon, <2>2 DEF Undisturbed, SessionsOpen
    <3>2. life[d] # "closed"  BY <3>1
    <3>. QED  BY Zenon, <3>1, <3>2, UndisturbedRuns
  <2>5. f = l + Len(Delivered(d)) /\ Follows(Delivered(d), l)
    BY Zenon, <2>1, <2>3, <2>4, StreamDelivered
  <2>6. Carries(Flight(d.side), id[d], f, t) /\ t = sent[c] /\ f <= t
    BY Zenon, <2>1, <2>4 DEF Stream
  <2>. QED  BY Zenon, <2>5, <2>6
<1>. QED  BY <1>1, WellTyped, ChannelsKept, StreamsKept, PTL

\* While nobody closes anything, no step loses a message on its way to a
\* registered Channel.
THEOREM LosesNothing == Spec => RegisteredLosesNothing
<1>1. TypeOK => Whole  BY Zenon, AllArriving DEF Whole
<1>2. /\ TypeOK /\ SessionInv /\ ChannelInv /\ ChannelInv' /\ DataInv /\ StreamInv
      /\ Whole' /\ [Next]_vars
      => \A c, d \in Calls : SameProtocol(c, d) /\ d \in channels /\ Undisturbed(d)'
             => Arriving(d) \subseteq Arriving(d)'
  <2> SUFFICES ASSUME TypeOK, IdInv, FlightInv, ChannelInv, ChannelInv', DataInv, StreamInv,
                      Whole', [Next]_vars, NEW c \in Calls, NEW d \in Calls,
                      SameProtocol(c, d), d \in channels, Undisturbed(d)'
               PROVE  Arriving(d) \subseteq Arriving(d)'
    BY Zenon DEF SessionInv
  <2>t. sent[c] \in Nat /\ d.side \in Sides /\ conn[d.side] \in {"open", "closed"}
    BY Zenon, StreamTypes DEF TypeOK
  <2>1. life'[d] = "open" /\ conn'[d.side] = "open" /\ ~done'[d.side]
    BY Zenon, <2>t DEF Undisturbed, SessionsOpen
  <2>2. life[d] # "closed" /\ conn[d.side] = "open" /\ ~done[d.side]
    BY <2>t, <2>1, SteadySteps DEF Steady
  <2>3. Running(d)  BY Zenon, <2>2, UndisturbedRuns
  <2>4. Running(d)'
    <3>1. Up(d.side)' /\ broker'[d.side].at # "stopped" /\ life'[d] # "closed"
      BY <2>t, <2>1, Zenon DEF ChannelInv
    <3>. QED  BY Zenon, <3>1 DEF Running
  <2>5. \A k \in 0 .. sent[c] : k \in Nat  BY <2>t
  <2>6. PICK l \in Nat, f \in Nat, t \in Nat : Stream(c, d, l, f, t)
    BY Zenon, <2>5 DEF StreamInv
  <2>7. PICK l2 \in Nat, f2 \in Nat, t2 \in Nat :
          Stream(c, d, l2, f2, t2)' /\ (d \in channels => l2 = l) /\ t <= t2
    BY Zenon, <2>6, StreamStep
  <2>8. Arriving(d) = l + 1 .. t
    <3>1. \A i, j, k \in Nat : Stream(c, d, i, j, k) => Arriving(d) = i + 1 .. k
      BY Zenon, <2>2, <2>3, AllArriving
    <3>. QED  BY Zenon, <2>6, <3>1
  <2>9. Arriving(d)' = l2 + 1 .. t2
    <3>1. \A i, j, k \in Nat : Stream(c, d, i, j, k)' => Arriving(d)' = i + 1 .. k
      BY Zenon, <2>1, <2>4 DEF Whole
    <3>. QED  BY Zenon, <2>7, <3>1
  <2>10. l + 1 .. t \subseteq l2 + 1 .. t2  BY <2>6, <2>7
  <2>. QED  BY Zenon, <2>8, <2>9, <2>10
<1>. QED
  BY <1>1, <1>2, WellTyped, Handshakes, ChannelsKept, StreamsKept, PTL
     DEF Spec, RegisteredLosesNothing
=============================================================================
