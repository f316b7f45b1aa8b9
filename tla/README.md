# A TLA+ model of the file transfer program

The repository is a program that sends a file from one device to another. The
two devices find each other on the local network or through a relay server,
agree on a secure connection, open a channel on it and run a transfer protocol
over the channel. This directory models the parts where several goroutines or
devices interact, checks them with TLC and proves the safety of the transfer, the
sessions, the local handshake and both ends of the relay with TLAPS.

## The system and its parts

| part | source | module | state |
|---|---|---|---|
| block arithmetic, reader, writer | `lib/session/transfer/block` | `Block`, `Transfer` | modelled, proved |
| transfer protocol | `lib/session/transfer` | `Transfer`, `ReliableTransfer` | modelled, proved |
| protocol client and loop | `lib/protocol` | `Transfer` | modelled as its two users instantiate it |
| automaton | `lib/automaton` | `Transfer` | partly: lookup and effect of a transition |
| session and channels | `lib/session` | `Session` | modelled, safety proved |
| relay server protocol | `lib/relay/protocol_server.go` | `RelayServer`, `RelayAnswers` | modelled, safety proved |
| relay client and its protocol | `lib/relay/client.go`, `protocol_client.go`, `protocol_client_session.go` | `RelayClient` | modelled with the server as environment, safety proved |
| local client | `lib/local` | `LocalClient` | partly, safety proved |
| broadcast beacon | `lib/beacon` | `Broadcast` | partly, composed into `LocalClient` |
| packet framing | `lib/packet` | `Framing` | partly, safety proved |
| secure connection | `lib/secure` | `Framing` | partly: its byte stream; a FIFO connection in `Session` |
| relay listener | `lib/relay/server.go` | `RelayServer` | partly: the handshake before `AddClient` |
| commands, device, network, util, generated code | | | not modelled |

From the bottom up: `Block` says how a file is cut into blocks. A `Sender` and a
`Receiver` (`Transfer`) are automata that a `protocol.Loop` drives over a channel.
The channel belongs to a session (`Session`), which multiplexes channels over one
secure connection. `Framing` says how messages become bytes on it. The connection
comes about in one of two ways. On the local network a device broadcasts a request
(`Broadcast`), and the other dials it back and runs a handshake (`LocalClient`).
Otherwise the relay server copies between two connections (`RelayServer`); a device
asks for one, or is invited to one, over a connection of its own to that server
(`RelayClient`).

## How the modules correspond to the code

**Block.** `BlockCount`, `Offset`, `Index` and `Amount` are the functions of
`block.go`. Sizes are natural numbers.

**Transfer.** The variables are the fields of `Sender`, `Reader`, `Receiver` and
`Writer`, the states of the two automata, one FIFO queue for each direction, and
what `Loop.Run` returned on each side. Each transition of the two tables is an
action, its error returns and panics included. The loop's choice is in
`SenderReads`, `SenderWrites`, `ReceiverReads` and `ReceiverWrites`: the Receiver
is `WriteFirst` and does not read at a writing state, the Sender may do either. A
transition's `To` takes effect even when its handler returns an error, as in
`transition.go`. The bytes of a block are abstracted to whether its checksum is
right. `CorruptBlock` damages a block on its way and `IOError` ends one side.
`Abort` panics with "not implemented", so no client reaches the abort states, and
they are left out.

**ReliableTransfer.** What a transfer promises its users: blocks are delivered
once and undamaged, confirmed after delivery, and the sending side succeeds only
after the receiving side did.

**Session.** `call` says where each `OpenChannel` and `AcceptChannel` is. The
broker's three maps are sets of calls. `hand` is the message `readHandler` offers
to the broker. A send on an unbuffered Go channel and its receive are one step.
What happens around it is separate: `AcceptChannel` writes Accept
(`WriteHandshake`) and registers its channel (`Attach`) in two steps. The broker
stays in the middle of a case while `opened <-` (`BrokerOpened`) or `ch.in <-`
(`BrokerDeliver`) has no receiver. A panic or an unhandled read error ends the
process. `OpenProtocol` is 1 whatever was sent, since `readHandler` passes the type
of the session message. Two checks and the effect that follows at once are one
step: the done check and the write in `Channel.Write`, and the two statements of
`Channel.Close`. The peer ignores Close messages, so their order does not show.

**RelayServer.** `clients` is the map of `clientHandler`; a request to it or to
`sessionHandler` and its answer are one step. `sessions` is the sequence of all sessions
ever created. `live` says that a session is in `sessionHandler`'s map of pairs, `keys` that
its keys are in the other map. Creating a session stores it under its pair (`Replaced` is
what that does to an entry already there), deleting one finds it by its pair (`Deleted`).
`handler[c]` is where `handleClient` is on connection `c`: handling a request takes
two steps (`RequestLooksUp`, `RequestCreates`), and so does an accept
(`AcceptAccepts`, `AcceptNotifies`). `writes[c]` is the bag of running `go s.write`
goroutines, which finish in any order. A session carries its `handleSession` (its
phase, and one slot for each goroutine that waits for a connection). Devices send
requests and accept invitations, leave, and join with a key they were given. The
connections of `Strays` also accept sessions that nobody requested, and send messages the
server does not expect (`Unexpected`, which stands for undecodable ones too). After
`deleteSession` the two `go conn.Close()` are part of the same step, as nothing
waits for them.

**RelayClient.** `user` says where each `Client.Request` and `Client.Accept` is. `requests`,
`accepts` and `results` are the maps of `requestHandler` and `sessionHandler`; `handler`,
`session` and `reader` are where the three goroutines are. `requestHandler` offers an output
without blocking (`OfferOutput`), so it is lost on a `Request` that is not at its `select`
yet. `sessionHandler` stays in the middle of a case while `out <-` has no receiver
(`SendOut`), and `messageHandler` waits for either handler (`HandResponse`, `HandToSession`).
A SessionFailed goes through both, since it does not say what it answers. `closer` follows
each goroutine through `Close` or `handleConnErr`: the check of `done`, its closing and the
closing of the connection are separate steps. `status` becomes the failed assertion when a
handler panics, and nothing happens after that. The server answers a request with
SessionFailed, or with SessionCreated and perhaps SessionAccepted, and an accept with
SessionFailed or SessionEstablished. It writes each message from a goroutine of its own, so
`inbox` is a bag (`MessageBags`). A connection that the server left (`"left"`) may still take
a write, one closed on this side (`"closed"`) fails with `net.ErrClosed`.

**Broadcast.** `air` counts the copies of a datagram in flight. `Write` puts one there for
each network, and nothing makes one arrive: loss, duplication and reordering are all there.
`handleReads` gives a packet to the Read calls that are registered at that moment
(`HandleReads`), and to nobody later. After a failed read its closed channel is always ready,
so that Reads return empty packets (`HandleEOF`).

**LocalClient.** `call`, `worker` and `removers` are where each Connect, its goroutine and the
goroutine that removes its handler are. `counter` is the client's `requestId`, `rid` the id
each call took from it. `handlers` is `responseBroker`'s map: everything done with it goes by
id (`HandlersFor`), so that two calls with one id would share an entry. `networks` says on how
many networks each Connect broadcasts. `accept`, `packets`, `dispatcher` and `acceptor` are an
Accept call, its channel of requests and its two goroutines. `conn` is the sequence of
connections the responder dialled. `wrote` is the last message on one of them, which is enough
as each side waits for the other's message before it writes; `requester` and `responder` say
who holds its ends, `handler` to which call `responseBroker` gave it. `"unhandled"` is an end
that `Handle` refused and nobody closed. A deadline that passes, a failing dial and a lost
connection are the `...Fails` actions. Signatures, keys and addresses are abstracted to
whether the responder trusts the requester.

**Framing.** A byte is a number below `Base`. `Bytes` and `DecodeLength` are the
conversions of a length, `Length` keeps its width. One `Write` call appends its bytes
in one step: a Packet takes two (`PacketLength`, `PacketData`), a `secure.Conn` message one,
under `writeMutex`, which also covers the encryption (`NoiseEncrypt`, `NoiseWrite`). Encryption
adds a tag that ties the ciphertext to its nonce. `io.ReadFull` is one step; the single
`Read` with which `secure.Conn` reads the length may return one byte.

## Runs

Passing runs (distinct states in parentheses):

| run | instance | what it shows |
|---|---|---|
| `transfer_faults` (250,851) | 9 bytes in blocks of 2, up to 2 damaged blocks, both sides may fail, fair | success means the complete and undamaged file, no assertion fails, the protocol implements `ReliableTransfer`; as long as nothing is damaged or fails, no message meets a state without a transition for it, and both sides succeed |
| `session_channels` (92,944) | two opens against one open, two accepts, messages both ways | channel IDs never collide, `OpenChannel` returns only for an accepted channel, a channel is a stream that misses at most its beginning, nothing is lost once it is registered |
| `session_close` (15,274) | one channel, both sides may close channel and session, one connection may fail, fair | reads stay consecutive, an awaited Open is established, registered channels deliver, `Session.Close` releases waiting calls |
| `relay_clients` (880,179) | one device on two connections and one on one, two sessions, `Close`; one connection also sends stray messages | registrations, answers, keys and announcements never mix, the handlers' panics are unreachable |
| `relay_sessions` (157,884) | two devices, one of which asks twice, two joins; a timeout, `Close` or a second session, one of them in a behaviour; fair | a session keeps its pair's entry until it ends itself, and its keys as long, a key admits once, only accepted sessions relay, every open connection comes to rest, a broken session is removed, `Close` disconnects clients and ends relaying |
| `relay_client` (537,259) | three consecutive Requests for one device, contexts may end, `Close` | the assertion about requests holds, the one about accepts fails only after `Close`, and every entry belongs to a call that removes it |
| `relay_client_handlers` (132,882) | a Request and two consecutive Accepts, two invitations, the connection may be lost, fair | `Accept` returns nil only for the session it accepted, its assertion fails only after a loss, `sessionHandler` gets back to its select, a lost connection ends waiting calls |
| `local_connect` (183,319) | one Connect whose request arrives on up to two networks, while a context may end, the socket may fail, or either client may be closed; or two Connects at once, one of which may be cancelled; two Accepts; fair | concurrent Connects never share an id, a handler or a response, the two sides choose the same connection and only a granted one, the responder releases every connection it dialled, Connect ends when it must, a request that was read is served |
| `framing` (9,000) | three values of a byte, messages of all boundary sizes, both framings, buffers around the limits, fair | `secure.Conn` keeps concurrent writes whole and in order, a Packet is read back when writes do not overlap, a Read fails only for a named cause |

Runs in which TLC refutes what the repository says (the line is quoted with the
finding in `PROJECT.json`):

| run | statement | what happens |
|---|---|---|
| `transfer_redo` | a block asked for again is sent again (`transfer.proto:52`) | the next block, already in flight, looks like a gap, the damaged one is asked for twice and the Sender ends with `DuplicateRedoBlock` |
| `relay_client_requests` | `panic("attempting to close a request which does not exist")` (`protocol_client.go:236`) | a refused second `Request` removes the entry of the first, which then fails the assertion |
| `framing_overlap` | `DecodeFrom` returns a whole Packet (`packet.go:55`) | two `go s.write` of the relay server write length and data of their packets in between each other, and the reader returns a packet nobody wrote |

Deadlock checking is off where the system may stop: a transfer ends, calls and
messages are bounded, a closed session or server rests.

`ReceiptMeansStored` and the inductive invariants (`DeliveryInv`, `ProgressInv`,
`PipelineInv`, `HandshakeInv`, `RelayInv`, `ClientInv`, ...) are in no run: they are proved.

### Divergences stated without a run

The modules also define statements of the documentation that TLC refutes on
instances like the ones above, and that no run repeats.

| module | definition | statement | what happens |
|---|---|---|---|
| `Session` | `AcceptedReachesPeer` | "only now is it guaranteed that messages on this channel will reach the other device" (`session.proto:31`) | Accept is written before the channel is registered, and the first message is dropped |
| `Session` | `AcceptReturns` | "AcceptChannel blocks until the peer opens a channel" (`session.go:40`) | an Open that comes before `AcceptChannel` has registered is dropped, and both calls wait forever |
| `Session` | `ClosedDiscards` | data for a closed channel "will be discarded" (`session.proto:47`) | the broker waits for the ended handler |
| `Session` | `AcceptedProtocol` | a channel is accepted for its protocol | an Open of another protocol is accepted |
| `Session` | `CloseClosesChannels`, `CloseReachesPeer`, `CloseEndsCalls` | what closing a session or a channel ends | channels stay open, the peer ignores Close, calls that send to the broker block |
| `RelayServer` | `TimeoutClosesSession` | "The session is closed by the server if both parties did not connect" (`relay.proto:83`) | the session stays in the maps and blocks new ones of the pair |
| `RelayServer` | `RefusedIsConnected` | AlreadyConnected means that somebody is connected | a join that comes before `handleSession` waits, or after it gave up, is told so too |
| `RelayServer` | `IdentityIsFreed` | a device that is gone can connect again | after a failed greeting the identity stays taken |
| `RelayClient` | `ReadAcceptReturns` | "ReadAccept blocks until the target device of a Request has accepted" (`protocol_client.go:336`) | an accept that comes before `ReadAccept` has registered is dropped |
| `RelayClient` | `LostConnectionEndsCalls` | waiting calls end when the connection is closed (`protocol_client.go:350` for `ReadInvitation`) | with Requests for two devices: a SessionFailed meant for a Request is sent to an Accept whose write then fails, `sessionHandler` is stuck, and `messageHandler` behind it never reads the error; `LostConnectionReleases` names this exception |
| `LocalClient` | `UnhandledIsClosed` | the caller should close a connection that `Handle` returned false for (`listener.go:23`) | `responseBroker` ignores the result (`client.go:232`): a connection for a Connect that has returned is never closed |
| `LocalClient` | `RefusedIsNotAccepted` | a refused requester gets no connection | the responder writes "Refused" and returns the connection from Accept all the same (`client.go:766`) |
| `Framing` | `ReadsEntireMessages` | "Read reads an entire noise message" (`secure/conn.go:102`) | the length is read with one `Read`, which may return one byte; every later Read fails |

Three more are visible in the code and not stated as formulas. An accepted local connection
keeps the read deadline of the handshake (`client.go:733`). An AcceptChannel that
`Session.Close` released leaves its entry, so that a later one for the protocol may fail the
broker's assertion; `BrokerNeverPanics` allows for this. So does a ReadAccept that `Close`
released: a second Request that got the late answer to a cancelled first one can leave such an
entry, and a third one then fails `panic("already waiting for an accept for this identity")`
(`protocol_client.go:254`); `AssertionsHold` allows for it once `done` is closed.

## Bounds

- `TotalSize`, `BlockSize`: the last block is shorter than the others. Five blocks
  let the pipeline fill and drain, and a redo meet blocks before and after it. The
  theorems hold for all sizes.
- `MaxCorrupt = 2`: one block damaged twice, or two blocks.
- `Calls`, `MaxWrites`: two channels opened concurrently from one side and one
  from the other; two messages are the least that can be reordered.
- `Conns`, `MaxAsks`, `MaxSessions`, `Joins`: a device can reconnect once while its
  first connection is being handled, and ask twice: during a session of the pair, which
  is refused, and after it, which creates a second one. Two joins may use one key or
  both, or keys of both sessions. `MayMix = FALSE` (`relay_sessions`) keeps `Close`, timeouts
  and a second question apart, and `Close` from devices that leave; `relay_clients` lets a
  device leave and the server close in one behaviour. Only the device with two connections
  leaves there; the theorems about the server hold for any.
- `Users`, `MaxInvitations`: two calls of one kind for one device are the least that can get
  each other's answers; with three Requests one can also meet what the two before it left
  behind. A call of the other kind shares SessionFailed with them. `Overlap = FALSE` makes
  calls of one kind follow one another, as `cmd/receive` calls `Accept` in a loop;
  `relay_client_requests` lets Requests overlap. One of the two peers is trusted.
- `Worlds` (`TwiceOrTwo`): one request arrives twice, at one Accept or at two, or two
  requests of concurrent Connects arrive once each; a Connect with 0 networks is not made.
  The counter of ids does not wrap, as it has 64 bits. `Buffer = 2` holds
  both requests; it is 8 in the code. `MaxEnded = 1`: one of
  a cancelled context, a closed device and a failed socket in a behaviour, at any moment.
- `Base = 3`, `TagSize = 2` for 256 and 16: lengths go up to 8, and the messages have the
  sizes at and next to every limit. `Overlap` lets Packet writers interleave.
- An empty file is outside the runs: the Sender panics on it after the Header
  (`sender.go:75`), and `NoPanic` is stated and proved for `TotalSize > 0`.

## Fairness

Goroutines run on the Go scheduler, which lets each that can run do so: weak
fairness for each loop of the transfer, and for each call, broker, `readHandler`
and channel handler of a session, including a user that keeps reading its channel
as `Loop.Run` does. In `RelayServer` one weak fairness condition on all steps of the
server is enough, since the devices do a bounded number of things; it also makes a
started timeout pass. In `RelayClient` each call, `writeRequest`, each handler and each
closing goroutine is weakly fair. In `LocalClient` the goroutines of each device are, and its
deadlines pass; the readers of the beacon are apart, as they may go round for ever on empty
packets. In `Framing` the writers and the reader are. Nothing is assumed of devices, of users
that write or close, of contexts, of datagrams, of invitations or of faults.

## Proofs

The theorems hold for every value of the constants, within the named assumptions of the
modules (sizes are natural numbers, sets of calls and connections have the right types).
None bounds the number of calls, connections, devices or damaged blocks.

- `TransferProofs`: `EndsAgree`, the reader's end (by offset) and the writer's end (by count)
  are the same index; `BytesInBlocks`, every byte lies in exactly one block; `TypeCorrect`,
  whose bounds on `nextIndex` need `EndsAgree`; `Delivery`, the inductive invariant
  `DeliveryInv`. That the sender's success means delivery is not inductive: a receipt is first
  pending in `lastBlock`, then in transit, then counted, and `DataReceived` follows the whole
  file. `DeliveryInv` says of each of these places that the block is stored, and that the two
  counters are cardinalities. From it follow `SuccessIsDelivery` (`DoneMeansDelivered`),
  `ReceiptsAreTrue` (`ReceiptMeansStored`) and `Refinement` (`ImplementsReliableTransfer`;
  every action maps to an abstract step or a stutter). Assuming `TotalSize > 0`: `Progress`
  (`ProgressInv`) and `AssertionsHold` (`NoPanic`); `PipelineHolds` (`PipelineInv`) and
  `NoSpuriousFailures` (`NoSpuriousFailure`). Whether a message meets a state with a
  transition for it depends on all messages before it, so the invariant gives the exact
  content of both queues: Header, a run of consecutive blocks, DataSent one way; Acknowledge,
  a run of consecutive receipts, DataReceived the other.
- `SessionProofs`: `Handshakes`, the inductive invariant `SessionInv`. IDs come from two
  disjoint sequences and each call owns one (`IdInv`); an Open is in transit at most once,
  and not any more when an AcceptChannel has it (`FlightInv`); the broker's maps agree with
  where the calls are (`MapInv`). From it follow `IdsNeverCollide` (`IdsUnique`),
  `OpenedIsAccepted` (`OpenMeansAccepted`) and `AssertionsHold` (`BrokerNeverPanics`), whatever
  is closed or fails.
- `SessionStreams`: `StreamsKept`, the inductive invariant `StreamInv`. What a user reads next
  depends on where each earlier message is, so the invariant divides the messages written to a
  channel by three numbers: the first `lost` found no Channel, the ones up to `from` were taken
  by the broker, and the ones up to `to` are with `readHandler` and the connection, in order.
  The read and the queued ones follow `lost` without a gap, and reach `from` while the handler
  and the broker run. It rests on `ChannelsKept`: only a returned call writes, only a registered
  Channel is delivered to (`ChannelInv`), and data on its way was written by a Channel of the
  peer (`DataInv`), so two calls that become ends of a channel find it unused. From it follow
  `ReadInOrder` (`ReadsInOrder`, whatever is closed or fails), `StreamsIntact` (`StreamIntact`)
  and, since a step changes `lost` only while the Channel is not registered, `LosesNothing`
  (`RegisteredLosesNothing`). They are about ends of the same protocol: the broker accepts an
  Open of another one (`OpenProtocol`), and then drops data that does not decode.
- `LocalClientProofs`: `Handshakes`, the inductive invariant of both devices. Each Connect has
  an id of its own, not beyond the counter (`IdInv`), and keeps its handler while it waits
  (`CallInv`). A call holds at most one connection (`ExclusiveInv`), and both ends of a
  connection are as far as its last message says, with the handler of the request it answers
  (`HandshakeInv`). From it follow `KeptApart` (`CallsKeptApart`) and `GrantedOnce`
  (`ConnectMeansGranted`), for any number of concurrent Connects.
- `FramingProofs`: `FramingHolds`, the inductive invariant `FramingInv`. It assumes `Turns`: the
  connection is a `secure.Conn`, or writers of Packets do not overlap (`framing_overlap` shows
  what happens otherwise). At most one writer has begun a message and not written all of it,
  and that is the last one (`WriterInv`). What the reader returns depends on every byte before
  it, so the invariant says what all bytes of the stream are: the texts of the messages that
  were begun and not returned, one after the other (`Layout`), where the first may lack the
  length that has been read and the last what has not been written. Lemmas on `Layout` say how
  it changes when bytes are appended and taken; that a length survives its two bytes is
  `Lengths`. From it follow `MessagesAreIntact` (`MessagesIntact`) and `FailuresHaveCauses`
  (`FailureHasCause`).
- `RelayServerTypes` has type correctness and the facts about bags and records,
  `RelayServerProofs` has `RelayHolds`, the inductive invariant `RelayInv`. The map of clients
  agrees with the goroutines, and an invitation is for the owner of the connection that was
  looked up (`ClientInv`); every key that was sent, or is still in a `go s.write`, is on a
  connection of its owner (`KeyInv`); a slot holds a connection exactly if that was admitted
  with the slot's key (`JoinInv`); a session is in both maps until it is deleted, it is the only
  one of its pair there, so that deleting finds it and nothing else, and its phase says what it
  waited for (`SessionInv`). From it follow `ClientsStayRegistered`
  (`HandledIsRegistered`), `NeverPanics` (`ServerNeverPanics`), `EntriesKept`
  (`SessionKeepsItsEntry`), `KeysAreDelivered` (`KeysReachTheirOwners`), `AdmittedOnce`
  (`KeyAdmitsOnce`) and `RelaysAccepted` (`RelayOnlyAccepted`).
- `RelayClientProofs`: `ClientHolds`, the inductive invariant `ClientInv`. All but type
  correctness assume `Overlap = FALSE`: calls of one kind for one
  device follow one another (`relay_client_requests` shows what happens otherwise). `requests`
  holds exactly the Requests between `newRequest` and `deleteRequest` (`RequestInv`); an entry
  of `accepts` belongs to a ReadAccept that waits, or that saw `done` (`AcceptInv`); `results`
  holds each Accept that waits, for its device, and the ones that a loss ended (`ResultInv`).
  That Accept returns only its own result needs to know where a result can be: on the
  connection, with `messageHandler` or with `sessionHandler` there is at most one for a device,
  and it answers what the Accept in `results` has written (`OwnInv`). From it follow
  `AssertionsAreSafe` (`AssertionsHold`), `EntriesStayLive` (`EntriesAreLive`),
  `ResultAssertionIsSafe` (`ResultAssertionHolds`) and `ResultsAreOwn` (`ResultIsOwn`).

Only model-checked: all liveness properties, which are out of the prover's reach; the
properties that count messages (`AskedIsAnswered`, `AnnouncedOnce`), whose sums over bags
need induction.

## Not modelled

- Commands, flags and files on disk: wiring. They give the runs their scenarios.
- Device identities, certificates, trust stores, the listing of networks: no protocol
  state. Where they decide something, the decision is an input (`trusted`, `Trusted`, `Owner`).
- Generated protobuf code, the buffers of `util` and the container helper of the tests.
- The compound and multicast beacons, which are stubs, and unicast requests, a TODO in
  `client.go`.
- The checks of `automaton.Compile`, which run once on two constant tables.
- `packet.Sequence`, which only tests use, and the size limits of a session's payload.
- Sockets, the accept loop and TLS of the relay's listener, and the Noise handshake, which
  succeeds or fails as part of the local and the relay handshakes.
- The abort messages of a transfer: `Abort` panics with "not implemented".
- The composition of `RelayClient` with `RelayServer`: each is checked against an
  environment that may do more than the other does, and the product is out of TLC's reach.
- The transfer over a session that loses the beginning of a stream: `StreamIntact` bounds
  the loss, `Transfer` assumes that there is none.
