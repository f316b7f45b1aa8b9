------------------------------ MODULE Broadcast ------------------------------
(***************************************************************************)
(* beacon.broadcast: datagrams written to the broadcast address of every   *)
(* network the sender is on, and read by the beacon of another device.     *)
(* The network loses, delays and reorders datagrams: `air` holds the       *)
(* copies in flight, and nothing makes one arrive.  handleReads gives a    *)
(* datagram to the Read calls that are registered when it arrives, and to  *)
(* nobody later.                                                           *)
(***************************************************************************)
EXTENDS Integers

CONSTANTS Readers,   \* the goroutines that call Read
          Datagrams  \* what is broadcast; positive numbers

ASSUME BeaconAssumption == Datagrams \subseteq Nat \ {0}

VARIABLES
    air,    \* copies of each datagram in flight
    read,   \* what each reader's current Read call is at, or returned
    reads,  \* handleReads' socket: "up", or "eof" once reading it failed
    beacon  \* the reader's beacon: "open" or "closed"

beaconVars == <<air, read, reads, beacon>>

Off     == [at |-> "off"]
Calling == [at |-> "calling"]
Waiting == [at |-> "waiting"]
Got(d)  == [at |-> "got", data |-> d]

\* The zero inPacket received from a closed channel: no data, no address.
Empty == 0

BeaconInit ==
    /\ air = [d \in Datagrams |-> 0]
    /\ read = [r \in Readers |-> Off]
    /\ reads = "up" /\ beacon = "open"

\* handleWrites starts a goroutine for every packet, which cannot report its
\* error any more: a failed send is a datagram that never arrives.  What is
\* sent when nobody reads it any more is lost.
HandleWrites(n) == IF reads = "up" THEN n ELSE 0

\* Write, once for every one of n networks, hands the packet over and returns
\* nil.
Write(d, n) == air' = [air EXCEPT ![d] = @ + HandleWrites(n)]

\* `b.ins <- in`: handleReads receives it.  Once the beacon is closed it may
\* do so or have returned: from then on the step is possible, never certain.
Register(r) ==
    /\ read[r] = Calling
    /\ read' = [read EXCEPT ![r] = Waiting]
    /\ UNCHANGED <<air, reads, beacon>>

Registered == {r \in Readers : read[r] = Waiting}

\* handleReads gives a packet to every registered reader, in one go: each of
\* them is waiting in its select.
Give(data) ==
    read' = [r \in Readers |-> IF r \in Registered THEN Got(data) ELSE read[r]]

\* A datagram arrives.
HandleReads(d) ==
    /\ reads = "up" /\ air[d] > 0
    /\ air' = [air EXCEPT ![d] = @ - 1]
    /\ Give(d)
    /\ UNCHANGED <<reads, beacon>>

\* What is in flight when the socket is closed is lost.
SocketCloses ==
    reads' = "eof" /\ air' = [d \in Datagrams |-> 0]

\* ReadFrom fails by itself: close(ch).
SocketFails ==
    /\ reads = "up"
    /\ SocketCloses
    /\ UNCHANGED <<read, beacon>>

\* The closed channel is always ready: every registered Read returns an
\* empty packet and no error.
HandleEOF ==
    /\ reads = "eof" /\ Registered # {}
    /\ Give(Empty)
    /\ UNCHANGED <<air, reads, beacon>>

\* Read's `case <-b.ctx.Done()`: on its error the reader returns.
ReadClosed(r) ==
    /\ read[r] = Waiting /\ beacon = "closed"
    /\ read' = [read EXCEPT ![r] = Off]
    /\ UNCHANGED <<air, reads, beacon>>

\* Close cancels the context, on which the sockets are closed; a datagram
\* that arrives in between is as one that arrived before.
CloseBeacon ==
    /\ beacon' = "closed"
    /\ IF reads = "up" THEN SocketCloses ELSE UNCHANGED <<reads, air>>
    /\ UNCHANGED read

BeaconTypeOK ==
    /\ air \in [Datagrams -> Nat]
    /\ read \in [Readers -> {Off, Calling, Waiting}
                              \cup {Got(d) : d \in Datagrams \cup {Empty}}]
    /\ reads \in {"up", "eof"} /\ beacon \in {"open", "closed"}
=============================================================================
