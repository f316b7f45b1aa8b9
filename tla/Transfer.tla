------------------------------ MODULE Transfer ------------------------------
(***************************************************************************)
(* The file transfer protocol: transfer.Sender and transfer.Receiver, each *)
(* a protocol.Client driven by a protocol.Loop on its own device, talking  *)
(* over one session channel (a FIFO queue in each direction).              *)
(*                                                                         *)
(* A protocol.Client is two tables of transitions over one state, compiled *)
(* by lib/automaton: one says what WriteMessage does at a state, the other *)
(* what ReadMessage does with a message type at a state.  Every transition *)
(* is an action below.  The Loop picks between them: a client that must    *)
(* write (the Receiver, WriteFirst) never reads at a writing state; a      *)
(* client that can write (the Sender) may do either there, depending on    *)
(* whether the reading goroutine has a message ready when select runs.     *)
(* The Loop ends when the client is done, or with the first error.         *)
(***************************************************************************)
EXTENDS Block, FiniteSets, Sequences

CONSTANTS MaxCorrupt,  \* how many blocks may arrive with a wrong checksum
          Faulty       \* the sides whose file or connection may fail

Sides == {"sender", "receiver"}

ASSUME FaultAssumption == MaxCorrupt \in Nat /\ Faulty \subseteq Sides

VARIABLES
    senderState,    \* state of the Sender's automaton
    nextIndex,      \* Reader.nextIndex: blocks read from the file so far
    redoQueue,      \* Reader.redoBlocks: blocks to be sent again first
    received,       \* Sender.received: the indexes acknowledged
    receivedCount,  \* Sender.receivedCount
    receiverState,  \* state of the Receiver's automaton
    nextBlockIndex, \* Receiver.nextBlockIndex
    lastBlock,      \* Receiver.lastBlock: {} or the index to acknowledge
    redoBlocks,     \* Receiver.redoBlocks: indexes to ask for again
    file,           \* what Writer holds for each block; written = not "none"
    writtenCount,   \* Writer.writtenCount
    toReceiver,     \* messages on their way to the Receiver
    toSender,       \* messages on their way to the Sender
    corrupted,      \* blocks damaged on the way so far
    outcome         \* what Loop.Run returned on each side

senderVars   == <<senderState, nextIndex, redoQueue, received, receivedCount>>
receiverVars == <<receiverState, nextBlockIndex, lastBlock, redoBlocks, file,
                  writtenCount>>
vars == <<senderVars, receiverVars, toReceiver, toSender, corrupted, outcome>>

SenderStates == {"initialized", "inPrologue", "inProgress", "needAcknowledge",
                 "transferred", "needDataReceived", "done"}
ReceiverStates == {"initialized", "sendAcknowledge", "needBlock", "handleBlock",
                   "needDataSent", "sendDataReceived", "done"}

Errors == {"UnexpectedMessage", "DuplicateBlockReceived", "RedoForReceivedBlock",
           "RedoForUnwrittenBlock", "DuplicateRedoBlock", "InvalidDataReceived",
           "AlreadyWritten", "IOError"}
Outcomes == {"running", "ok", "panic"} \cup Errors

\* Whether ComputeChecksum on the receiving device gives the block's checksum.
Checksums == {"correct", "wrong"}

Header       == [type |-> "Header"]
DataSent     == [type |-> "DataSent"]
Acknowledge  == [type |-> "Acknowledge"]
DataReceived == [type |-> "DataReceived"]
BlockMsg(index, sum)  == [type |-> "Block", index |-> index, checksum |-> sum]
BlockReceived(index)  == [type |-> "BlockReceived", index |-> index]
RedoBlock(index)      == [type |-> "RedoBlock", index |-> index]

SenderMessages == {Header, DataSent}
                    \cup {BlockMsg(i, c) : i \in Blocks, c \in Checksums}
ReceiverMessages == {Acknowledge, DataReceived}
                      \cup {BlockReceived(i) : i \in Blocks}
                      \cup {RedoBlock(i) : i \in Blocks}

Init ==
    /\ senderState = "initialized" /\ nextIndex = 0 /\ redoQueue = <<>>
    /\ received = {} /\ receivedCount = 0
    /\ receiverState = "initialized" /\ nextBlockIndex = 0
    /\ lastBlock = {} /\ redoBlocks = <<>>
    /\ file = [i \in Blocks |-> "none"] /\ writtenCount = 0
    /\ toReceiver = <<>> /\ toSender = <<>>
    /\ corrupted = 0
    /\ outcome = [s \in Sides |-> "running"]

-----------------------------------------------------------------------------
(* protocol.Loop and protocol.Client, both sides                           *)

\* Loop.Run of this side is still executing.
Running(side) == outcome[side] = "running"

\* Run returns err, or goes on when err is nil ("running") and the client is
\* not done; IsDone ends it with nil.
LoopResult(side, err, isDone) ==
    outcome' = [outcome EXCEPT ![side] =
                    IF err = "running" /\ isDone THEN "ok" ELSE err]

SenderReads ==
    /\ Running("sender")
    /\ toSender # <<>>
    /\ toSender' = Tail(toSender)
    /\ UNCHANGED <<receiverVars, toReceiver, corrupted>>

SenderWrites(message) ==
    /\ toReceiver' = Append(toReceiver, message)
    /\ UNCHANGED <<receiverVars, toSender, corrupted, outcome>>

ReceiverMustWriteNever == FALSE

\* The Receiver's Definition has WriteFirst, so Loop.Run does not read at a
\* state where CanWrite holds (MustWrite).
ReceiverMustWrite ==
    receiverState \in {"sendAcknowledge", "handleBlock", "sendDataReceived"}

ReceiverReads ==
    /\ Running("receiver")
    /\ ~ReceiverMustWrite
    /\ toReceiver # <<>>
    /\ toReceiver' = Tail(toReceiver)
    /\ UNCHANGED <<senderVars, toSender, corrupted>>

ReceiverWrites(message) ==
    /\ toSender' = Append(toSender, message)
    /\ UNCHANGED <<senderVars, toReceiver, corrupted>>

-----------------------------------------------------------------------------
(* block.Reader                                                            *)

ReaderIsDoneEarly(next, redo) == redo = <<>> /\ Offset(next + 1) >= TotalSize
ReaderIsDoneLate(next, redo)  == redo = <<>> /\ Offset(next - 1) >= TotalSize
ReaderIsDoneNoRedo(next, redo) == Offset(next) >= TotalSize

\* Reader.IsDone
ReaderIsDone(next, redo) == redo = <<>> /\ Offset(next) >= TotalSize

\* Reader.NextBlock: a queued redo goes first and does not move nextIndex.
NextBlock ==
    IF redoQueue # <<>>
    THEN [index |-> Head(redoQueue), next |-> nextIndex, redo |-> Tail(redoQueue)]
    ELSE [index |-> nextIndex, next |-> nextIndex + 1, redo |-> redoQueue]

InQueue(index) == \E i \in 1 .. Len(redoQueue) : redoQueue[i] = index

-----------------------------------------------------------------------------
(* transfer.Sender                                                         *)

SenderWriteHeader ==
    /\ Running("sender") /\ senderState = "initialized"
    /\ senderState' = "inPrologue"
    /\ SenderWrites(Header)
    /\ UNCHANGED <<nextIndex, redoQueue, received, receivedCount>>

\* WriteMessage at inPrologue and inProgress: the next block, then the state
\* `last` if it was the last one.  Without data the handler panics.
SenderWriteBlock(at, last) ==
    /\ Running("sender") /\ senderState = at
    /\ IF ReaderIsDone(nextIndex, redoQueue)
       THEN /\ outcome' = [outcome EXCEPT !["sender"] = "panic"]
            /\ UNCHANGED <<senderVars, receiverVars, toReceiver, toSender, corrupted>>
       ELSE LET b == NextBlock IN
            /\ nextIndex' = b.next /\ redoQueue' = b.redo
            /\ senderState' = IF ReaderIsDone(b.next, b.redo) THEN last ELSE at
            /\ SenderWrites(BlockMsg(b.index, "correct"))
            /\ UNCHANGED <<received, receivedCount>>

SenderWriteDataSent ==
    /\ Running("sender") /\ senderState = "transferred"
    /\ senderState' = "needDataReceived"
    /\ SenderWrites(DataSent)
    /\ UNCHANGED <<nextIndex, redoQueue, received, receivedCount>>

SenderReadAcknowledge ==
    /\ SenderReads /\ Head(toSender) = Acknowledge
    /\ \/ senderState = "inPrologue" /\ senderState' = "inProgress"
       \/ senderState = "needAcknowledge" /\ senderState' = "transferred"
    /\ UNCHANGED <<nextIndex, redoQueue, received, receivedCount, outcome>>

\* MessageTypeBlockReceived: the same handler at three states.
SenderReadBlockReceived ==
    /\ SenderReads /\ Head(toSender).type = "BlockReceived"
    /\ senderState \in {"inProgress", "transferred", "needDataReceived"}
    /\ LET index == Head(toSender).index IN
       IF index \in received
       THEN /\ LoopResult("sender", "DuplicateBlockReceived", FALSE)
            /\ UNCHANGED <<received, receivedCount>>
       ELSE /\ received' = received \cup {index}
            /\ receivedCount' = receivedCount + 1
            /\ LoopResult("sender", IF receivedCount' > BlockCount
                                    THEN "panic" ELSE "running", FALSE)
    /\ UNCHANGED <<senderState, nextIndex, redoQueue>>

\* MessageTypeRedoBlock: the same handler at three states.  To: inProgress
\* takes effect even when the handler returns an error.
RedoError(index) ==
    IF index \in received THEN "RedoForReceivedBlock"
    ELSE IF index >= nextIndex THEN "RedoForUnwrittenBlock"
    ELSE IF InQueue(index) THEN "DuplicateRedoBlock"
    ELSE "running"

SenderReadRedoBlock ==
    /\ SenderReads /\ Head(toSender).type = "RedoBlock"
    /\ senderState \in {"inProgress", "transferred", "needDataReceived"}
    /\ senderState' = "inProgress"
    /\ LET index == Head(toSender).index IN
       /\ LoopResult("sender", RedoError(index), FALSE)
       /\ redoQueue' = IF RedoError(index) = "running"
                       THEN Append(redoQueue, index) ELSE redoQueue
    /\ UNCHANGED <<nextIndex, received, receivedCount>>

SenderReadDataReceived ==
    /\ SenderReads /\ Head(toSender) = DataReceived
    /\ senderState = "needDataReceived"
    /\ senderState' = "done"
    /\ LoopResult("sender", IF receivedCount < BlockCount
                            THEN "InvalidDataReceived" ELSE "running", TRUE)
    /\ UNCHANGED <<nextIndex, redoQueue, received, receivedCount>>

\* The states at which the table has a transition for a message.
SenderExpects(type) ==
    CASE type = "Acknowledge" -> {"inPrologue", "needAcknowledge"}
      [] type \in {"BlockReceived", "RedoBlock"}
             -> {"inProgress", "transferred", "needDataReceived"}
      [] type = "DataReceived" -> {"needDataReceived"}

SenderReadUnexpected ==
    /\ SenderReads
    /\ senderState \notin SenderExpects(Head(toSender).type)
    /\ LoopResult("sender", "UnexpectedMessage", FALSE)
    /\ UNCHANGED senderVars

-----------------------------------------------------------------------------
(* transfer.Receiver with its block.Writer                                 *)

ReceiverReadHeader ==
    /\ ReceiverReads /\ Head(toReceiver) = Header
    /\ receiverState = "initialized"
    /\ receiverState' = "sendAcknowledge"
    /\ UNCHANGED <<nextBlockIndex, lastBlock, redoBlocks, file, writtenCount, outcome>>

ReceiverWriteAcknowledge ==
    /\ Running("receiver") /\ receiverState = "sendAcknowledge"
    /\ receiverState' = "needBlock"
    /\ ReceiverWrites(Acknowledge)
    /\ UNCHANGED <<nextBlockIndex, lastBlock, redoBlocks, file, writtenCount, outcome>>

WriteErrorNoChecksum(b) == IF file[b.index] # "none" THEN "AlreadyWritten" ELSE "nil"

\* Writer.checkBlock: a block that is already there comes before the checksum.
WriteError(b) ==
    IF file[b.index] # "none" THEN "AlreadyWritten"
    ELSE IF b.checksum = "wrong" THEN "BadBlockChecksum"
    ELSE "nil"

\* MessageTypeBlock.  A bad checksum asks for the block again and is no
\* error.  A block ahead of nextBlockIndex is kept and everything between is
\* asked for; nextBlockIndex only moves when exactly that block arrives.
ReceiverReadBlock ==
    /\ ReceiverReads /\ Head(toReceiver).type = "Block"
    /\ receiverState = "needBlock"
    /\ receiverState' = "handleBlock"
    /\ LET b   == Head(toReceiver)
           err == WriteError(b)
       IN \/ /\ err = "BadBlockChecksum"
             /\ redoBlocks' = <<b.index>>
             /\ UNCHANGED <<nextBlockIndex, lastBlock, file, writtenCount, outcome>>
          \/ /\ err = "AlreadyWritten"
             /\ LoopResult("receiver", err, FALSE)
             /\ UNCHANGED <<nextBlockIndex, lastBlock, redoBlocks, file, writtenCount>>
          \/ /\ err = "nil"
             /\ file' = [file EXCEPT ![b.index] =
                           IF b.checksum = "correct" THEN "good" ELSE "bad"]
             /\ writtenCount' = writtenCount + 1
             /\ \/ /\ b.index > nextBlockIndex
                   /\ redoBlocks' = [i \in 1 .. b.index - nextBlockIndex
                                         |-> nextBlockIndex + i - 1]
                   /\ lastBlock' = {b.index}
                   /\ UNCHANGED <<nextBlockIndex, outcome>>
                \/ /\ b.index = nextBlockIndex
                   /\ nextBlockIndex' = nextBlockIndex + 1
                   /\ lastBlock' = {b.index}
                   /\ UNCHANGED <<redoBlocks, outcome>>
                \/ /\ b.index < nextBlockIndex
                   /\ LoopResult("receiver", "panic", FALSE)
                   /\ UNCHANGED <<nextBlockIndex, redoBlocks, lastBlock>>

\* Writer.IsDone
WriterIsDone == writtenCount = BlockCount

\* WriteMessage at handleBlock: one message, the receipt before the redos;
\* with neither there is no message and the client panics.
ReceiverHandleBlock ==
    /\ Running("receiver") /\ receiverState = "handleBlock"
    /\ \/ \E index \in lastBlock :
             /\ ReceiverWrites(BlockReceived(index))
             /\ lastBlock' = {}
             /\ UNCHANGED <<redoBlocks, outcome>>
       \/ /\ lastBlock = {} /\ redoBlocks # <<>>
          /\ ReceiverWrites(RedoBlock(Head(redoBlocks)))
          /\ redoBlocks' = Tail(redoBlocks)
          /\ UNCHANGED <<lastBlock, outcome>>
       \/ /\ lastBlock = {} /\ redoBlocks = <<>>
          /\ LoopResult("receiver", "panic", FALSE)
          /\ UNCHANGED <<senderVars, toReceiver, toSender, corrupted, lastBlock, redoBlocks>>
    /\ receiverState' = IF redoBlocks' # <<>> THEN "handleBlock"
                        ELSE IF WriterIsDone THEN "needDataSent" ELSE "needBlock"
    /\ UNCHANGED <<nextBlockIndex, file, writtenCount>>

ReceiverReadDataSent ==
    /\ ReceiverReads /\ Head(toReceiver) = DataSent
    /\ receiverState = "needDataSent"
    /\ receiverState' = "sendDataReceived"
    /\ UNCHANGED <<nextBlockIndex, lastBlock, redoBlocks, file, writtenCount, outcome>>

ReceiverWriteDataReceived ==
    /\ Running("receiver") /\ receiverState = "sendDataReceived"
    /\ receiverState' = "done"
    /\ ReceiverWrites(DataReceived)
    /\ LoopResult("receiver", "running", TRUE)
    /\ UNCHANGED <<nextBlockIndex, lastBlock, redoBlocks, file, writtenCount>>

ReceiverExpects(type) ==
    CASE type = "Header"   -> {"initialized"}
      [] type = "Block"    -> {"needBlock"}
      [] type = "DataSent" -> {"needDataSent"}

ReceiverReadUnexpected ==
    /\ ReceiverReads
    /\ receiverState \notin ReceiverExpects(Head(toReceiver).type)
    /\ LoopResult("receiver", "UnexpectedMessage", FALSE)
    /\ UNCHANGED receiverVars

-----------------------------------------------------------------------------
(* The environment                                                         *)

\* A block is damaged after the sender computed its checksum.
CorruptBlock ==
    /\ corrupted < MaxCorrupt
    /\ \E i \in 1 .. Len(toReceiver) :
          /\ toReceiver[i].type = "Block" /\ toReceiver[i].checksum = "correct"
          /\ toReceiver' = [toReceiver EXCEPT ![i] = BlockMsg(@.index, "wrong")]
    /\ corrupted' = corrupted + 1
    /\ UNCHANGED <<senderVars, receiverVars, toSender, outcome>>

\* Reading or writing the file, or the connection, returns an error: Run
\* returns it.
IOError(side) ==
    /\ side \in Faulty
    /\ Running(side)
    /\ outcome' = [outcome EXCEPT ![side] = "IOError"]
    /\ UNCHANGED <<senderVars, receiverVars, toReceiver, toSender, corrupted>>

-----------------------------------------------------------------------------
SenderStep ==
    \/ SenderWriteHeader
    \/ SenderWriteBlock("inPrologue", "needAcknowledge")
    \/ SenderWriteBlock("inProgress", "transferred")
    \/ SenderWriteDataSent
    \/ SenderReadAcknowledge
    \/ SenderReadBlockReceived
    \/ SenderReadRedoBlock
    \/ SenderReadDataReceived
    \/ SenderReadUnexpected

ReceiverStep ==
    \/ ReceiverReadHeader
    \/ ReceiverWriteAcknowledge
    \/ ReceiverReadBlock
    \/ ReceiverHandleBlock
    \/ ReceiverReadDataSent
    \/ ReceiverWriteDataReceived
    \/ ReceiverReadUnexpected

Next ==
    \/ SenderStep
    \/ ReceiverStep
    \/ CorruptBlock
    \/ \E side \in Sides : IOError(side)

Spec == Init /\ [][Next]_vars

\* Each Loop runs in a goroutine the scheduler keeps running: it takes a step
\* whenever it can go on taking one.
Fairness == WF_vars(SenderStep) /\ WF_vars(ReceiverStep)

FairSpec == Spec /\ Fairness

-----------------------------------------------------------------------------
(* Properties                                                              *)

\* Types of the two clients' state and of the messages between them; the
\* indexes of the reader and of the Receiver stay within the file.
TypeOK ==
    /\ senderState \in SenderStates
    /\ nextIndex \in 0 .. BlockCount
    /\ redoQueue \in Seq(Blocks)
    /\ received \subseteq Blocks
    /\ receivedCount \in Nat
    /\ receiverState \in ReceiverStates
    /\ nextBlockIndex \in 0 .. BlockCount
    /\ lastBlock \subseteq Blocks
    /\ redoBlocks \in Seq(Blocks)
    /\ file \in [Blocks -> {"none", "good", "bad"}]
    /\ writtenCount \in Nat
    /\ toReceiver \in Seq(SenderMessages)
    /\ toSender \in Seq(ReceiverMessages)
    /\ corrupted \in 0 .. MaxCorrupt
    /\ outcome \in [Sides -> Outcomes]

Stored == {i \in Blocks : file[i] = "good"}

\* When Run returns nil for the Sender ("The file has been successfully
\* transmitted", cmd/send), the Receiver's file is complete and undamaged and
\* its own Run has returned nil, whatever was damaged or failed on the way.
DoneMeansDelivered ==
    outcome["sender"] = "ok" => Stored = Blocks /\ outcome["receiver"] = "ok"

\* A block the Sender counts as received (Sender.received) is in the
\* Receiver's file undamaged: no receipt is sent for a rejected block, and
\* none overtakes the write it reports.
ReceiptMeansStored == received \subseteq Stored

\* What the users of the two Loops see of an outcome.
Result == [side \in Sides |->
              CASE outcome[side] = "running" -> "pending"
                [] outcome[side] = "ok"      -> "success"
                [] OTHER                     -> "failure"]

Abstract == INSTANCE ReliableTransfer
                WITH delivered <- Stored, confirmed <- received, result <- Result

\* The protocol implements a reliable transfer: every step of either Loop
\* stores one new undamaged block, confirms one stored block, ends one side
\* in the order the promise allows, or changes nothing its users can see.
ImplementsReliableTransfer == Abstract!Spec

\* The assertions of the two clients are never hit: the Sender has data
\* whenever it is at a block-writing state, it never counts more receipts
\* than blocks, the Receiver never gets a stored block past the Writer, and
\* it always has a message to write at handleBlock.
NoPanic == \A side \in Sides : outcome[side] # "panic"

\* Nothing was damaged and no I/O failed so far.
NoFault == corrupted = 0 /\ \A side \in Sides : outcome[side] # "IOError"

\* As long as nothing is damaged and no I/O fails, neither Run returns an
\* error: blocks that overtake the Acknowledge, receipts that arrive while
\* blocks are still being written and a DataSent that arrives early never
\* meet a state without a transition for them.
NoSpuriousFailure ==
    NoFault => \A side \in Sides : outcome[side] \in {"running", "ok"}

\* Unless something is damaged or fails on the way, both Run calls return
\* nil in the end.
Completes == <>(outcome = [s \in Sides |-> "ok"] \/ ~NoFault)

\* A block the Receiver asks for with RedoBlock is stored in the end: "The
\* sender must send the specified block again. useful when: the checksum is
\* not correct for some reason" (transfer.proto, message RedoBlock).
RedoRepairs ==
    \A i \in Blocks :
        (\E k \in 1 .. Len(toSender) : toSender[k] = RedoBlock(i)) ~> file[i] = "good"

-----------------------------------------------------------------------------
(* Inductive invariants, the strengthenings the proofs rest on             *)

InTransit(queue, message) == \E k \in 1 .. Len(queue) : queue[k] = message

Written == {i \in Blocks : file[i] # "none"}

\* Whatever is damaged or fails: nothing damaged is ever stored, every
\* receipt (pending in lastBlock, in transit or counted) is for a stored
\* block, everything below nextBlockIndex is stored, the two counters count
\* what they stand for, and the end of the handshake (needDataSent and later)
\* is only reached with the whole file.
DeliveryInv ==
    /\ Written = Stored
    /\ received \subseteq Stored
    /\ lastBlock \subseteq Stored
    /\ \A i \in Blocks : InTransit(toSender, BlockReceived(i)) => i \in Stored
    /\ \A i \in Blocks : i < nextBlockIndex => i \in Stored
    /\ writtenCount = Cardinality(Stored)
    /\ receivedCount = Cardinality(received)
    /\ receiverState \in {"needDataSent", "sendDataReceived", "done"} => Stored = Blocks
    /\ receiverState = "done" => outcome["receiver"] = "ok"
    /\ outcome["receiver"] = "ok" => receiverState = "done"
    /\ InTransit(toSender, DataReceived) => receiverState = "done"
    /\ outcome["sender"] = "ok" => receiverState = "done" /\ received = Blocks

\* For a file that is not empty: a running Sender at a block-writing state has
\* a block to write, and a running Receiver at handleBlock a message.
ProgressInv ==
    /\ senderState = "initialized" => nextIndex = 0 /\ redoQueue = <<>>
    /\ Running("sender") /\ senderState \in {"inPrologue", "inProgress"}
          => ~ReaderIsDone(nextIndex, redoQueue)
    /\ Running("receiver") /\ receiverState = "handleBlock"
          => lastBlock # {} \/ redoBlocks # <<>>
    /\ NoPanic

One(condition) == IF condition THEN 1 ELSE 0

\* Receipts the Receiver has written so far.
Acked == nextBlockIndex - One(lastBlock # {})

BeforeAcknowledge == {"initialized", "inPrologue", "needAcknowledge"}

\* A queue that holds h Headers, the n blocks from `first` on, and d DataSents.
BlockStream(q, h, first, n, d) ==
    /\ Len(q) = h + n + d
    /\ \A k \in 1 .. Len(q) :
          q[k] = IF k <= h THEN Header
                 ELSE IF k <= h + n THEN BlockMsg(first + (k - h - 1), "correct")
                 ELSE DataSent

\* A queue that holds a Acknowledges, the receipts for the n blocks from
\* `first` on, and d DataReceiveds.
ReceiptStream(q, a, first, n, d) ==
    /\ Len(q) = a + n + d
    /\ \A k \in 1 .. Len(q) :
          q[k] = IF k <= a THEN Acknowledge
                 ELSE IF k <= a + n THEN BlockReceived(first + (k - a - 1))
                 ELSE DataReceived

\* What each direction carries while nothing goes wrong: towards the Receiver
\* the Header, then the blocks from nextBlockIndex to nextIndex - 1, then
\* DataSent; towards the Sender the Acknowledge, then the receipts from
\* receivedCount to Acked - 1, then DataReceived.
ToReceiverInv ==
    BlockStream(toReceiver,
                One(receiverState = "initialized" /\ senderState # "initialized"),
                nextBlockIndex, nextIndex - nextBlockIndex,
                One(/\ senderState \in {"needDataReceived", "done"}
                    /\ receiverState \notin {"sendDataReceived", "done"}))

ToSenderInv ==
    ReceiptStream(toSender,
                  One(/\ receiverState \notin {"initialized", "sendAcknowledge"}
                      /\ senderState \in BeforeAcknowledge),
                  receivedCount, Acked - receivedCount,
                  One(receiverState = "done" /\ senderState # "done"))

\* How the two automata and the counters fit together while nothing goes wrong.
InStep ==
    /\ redoQueue = <<>> /\ redoBlocks = <<>>
    /\ outcome["sender"] = IF senderState = "done" THEN "ok" ELSE "running"
    /\ outcome["receiver"] = IF receiverState = "done" THEN "ok" ELSE "running"
    /\ receivedCount <= Acked /\ nextBlockIndex <= nextIndex
    /\ received = {i \in Blocks : i < receivedCount}
    /\ file = [i \in Blocks |-> IF i < nextBlockIndex THEN "good" ELSE "none"]
    /\ writtenCount = nextBlockIndex
    /\ lastBlock = IF receiverState = "handleBlock" THEN {nextBlockIndex - 1} ELSE {}
    /\ senderState = "initialized" => receiverState = "initialized" /\ nextIndex = 0
    /\ (nextIndex < BlockCount)
          <=> senderState \in {"initialized", "inPrologue", "inProgress"}
    /\ senderState \in BeforeAcknowledge => receivedCount = 0
    /\ receiverState \in {"initialized", "sendAcknowledge"}
          => nextBlockIndex = 0 /\ senderState \in BeforeAcknowledge
    /\ receiverState = "handleBlock" => nextBlockIndex > 0
    /\ receiverState = "needBlock" => nextBlockIndex < BlockCount
    /\ receiverState \in {"needDataSent", "sendDataReceived", "done"}
          => nextBlockIndex = BlockCount
    /\ receiverState \in {"sendDataReceived", "done"}
          => senderState \in {"needDataReceived", "done"}
    /\ senderState = "done" => receiverState = "done" /\ receivedCount = BlockCount

\* For a file that is not empty, as long as no block is damaged and no I/O
\* fails, the protocol is a pipeline.
Pipeline == InStep /\ ToReceiverInv /\ ToSenderInv

PipelineInv == NoFault /\ TotalSize > 0 => Pipeline
=============================================================================
