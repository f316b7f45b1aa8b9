--------------------------- MODULE TransferProofs ---------------------------
(***************************************************************************)
(* Proofs about Transfer, for every file size, every block size, every     *)
(* number of damaged blocks and every choice of failing sides: the blocks  *)
(* of a file, delivery, the refinement of ReliableTransfer, and, for a     *)
(* file that is not empty, that no assertion fails and that nothing fails  *)
(* by itself.                                                              *)
(***************************************************************************)
EXTENDS Transfer, FiniteSetTheorems, TLAPS

\* The seconds each prover may take for a step.
USE SMTT(15), ZenonT(15)

-----------------------------------------------------------------------------
(* The blocks of a file                                                    *)

\* What integer division gives: the quotient q of a natural number by the
\* block size is the only number with q*BlockSize <= n < (q+1)*BlockSize.
LEMMA Division ==
    ASSUME NEW n \in Nat
    PROVE  /\ n \div BlockSize \in Nat
           /\ (n \div BlockSize) * BlockSize <= n
           /\ n < (n \div BlockSize) * BlockSize + BlockSize
BY SizeAssumption, Z3

\* Multiplying by the block size keeps the order.
LEMMA Scaling ==
    ASSUME NEW i \in Nat, NEW j \in Nat, i <= j
    PROVE  /\ i * BlockSize \in Nat
           /\ i * BlockSize <= j * BlockSize
BY SizeAssumption, Z3

\* Size.BlockCount returns a natural number, zero only for an empty file.
THEOREM BlockCountType ==
    BlockCount \in Nat /\ (BlockCount = 0 <=> TotalSize = 0)
<1>1. CASE TotalSize = 0  BY <1>1 DEF BlockCount
<1>2. CASE TotalSize # 0
  <2>1. TotalSize - 1 \in Nat  BY <1>2, SizeAssumption
  <2>2. (TotalSize - 1) \div BlockSize \in Nat  BY <2>1, Division
  <2>. QED  BY <1>2, <2>2 DEF BlockCount
<1>. QED  BY <1>1, <1>2

\* The reader is at the end of the file (its offset reaches TotalSize) exactly
\* when it has read as many blocks as the writer counts (BlockCount): the two
\* ends of a transfer agree on when it is complete.
THEOREM EndsAgree ==
    ASSUME NEW i \in Nat
    PROVE  Offset(i) >= TotalSize <=> i >= BlockCount
<1>1. CASE TotalSize = 0
  BY <1>1, Scaling, BlockCountType, SizeAssumption DEF Offset
<1>2. CASE TotalSize # 0
  <2> DEFINE q == (TotalSize - 1) \div BlockSize
  <2>1. TotalSize - 1 \in Nat  BY <1>2, SizeAssumption
  <2>2. q \in Nat /\ q * BlockSize <= TotalSize - 1 /\ TotalSize - 1 < q * BlockSize + BlockSize
    BY <2>1, Division
  <2>3. BlockCount = q + 1  BY <1>2 DEF BlockCount
  <2>4. (q + 1) * BlockSize = q * BlockSize + BlockSize  BY <2>2, SizeAssumption, Z3
  <2> HIDE DEF q
  <2>5. CASE i <= q
    <3>1. i * BlockSize <= q * BlockSize /\ i * BlockSize \in Nat /\ q * BlockSize \in Nat
      BY <2>5, <2>2, Scaling
    <3>. QED  BY <3>1, <2>1, <2>2, <2>3, <2>5, SizeAssumption DEF Offset
  <2>6. CASE i >= q + 1
    <3>1. (q + 1) * BlockSize <= i * BlockSize /\ i * BlockSize \in Nat
      BY <2>6, <2>2, Scaling
    <3>2. q * BlockSize \in Nat  BY <2>2, Scaling
    <3>. QED  BY <3>1, <3>2, <2>1, <2>2, <2>3, <2>4, <2>6, SizeAssumption DEF Offset
  <2>. QED  BY <2>2, <2>5, <2>6
<1>. QED  BY <1>1, <1>2


\* The blocks a reader cuts a file into cover it: byte p lies in the block
\* Size.Index names, which exists, and in no other, and the last block
\* (clipped by Size.Amount) ends where the file ends.
THEOREM BytesInBlocks ==
    ASSUME NEW p \in Nat, p < TotalSize
    PROVE  /\ Index(p) \in Blocks
           /\ \A i \in Blocks :
                 (Offset(i) <= p /\ p < Offset(i) + Amount(Offset(i))) <=> i = Index(p)
<1> DEFINE q == p \div BlockSize
<1>1. q \in Nat /\ q * BlockSize <= p /\ p < q * BlockSize + BlockSize
  BY Division
<1>2. q * BlockSize \in Nat  BY <1>1, Scaling
<1>3. BlockCount \in Nat  BY BlockCountType
<1>4. Index(p) = q  BY DEF Index
<1> HIDE DEF q
<1>5. q \in Blocks
  <2>1. ~(Offset(q) >= TotalSize)  BY <1>1, <1>2, SizeAssumption DEF Offset
  <2>2. ~(q >= BlockCount)  BY <2>1, <1>1, EndsAgree
  <2>. QED  BY <2>2, <1>1, <1>3 DEF Blocks
<1>6. ASSUME NEW i \in Blocks
      PROVE  (Offset(i) <= p /\ p < Offset(i) + Amount(Offset(i))) <=> i = q
  <2>1. i \in Nat /\ i * BlockSize \in Nat  BY <1>3, Scaling DEF Blocks
  <2>2. (p < Offset(i) + Amount(Offset(i))) <=> (p < i * BlockSize + BlockSize)
    BY <2>1, <1>3, <1>6, EndsAgree, SizeAssumption DEF Offset, Amount, Blocks
  <2>3. CASE i < q
    <3>1. (i + 1) * BlockSize <= q * BlockSize /\ (i + 1) * BlockSize = i * BlockSize + BlockSize
      <4>1. i + 1 \in Nat /\ i + 1 <= q  BY <2>1, <2>3, <1>1
      <4>2. (i + 1) * BlockSize <= q * BlockSize  BY <4>1, <1>1, Scaling
      <4>. QED  BY <4>2, <2>1, SizeAssumption, Z3
    <3>. QED  BY <3>1, <2>1, <2>2, <2>3, <1>1, <1>2, SizeAssumption
  <2>4. CASE i > q
    <3>1. (q + 1) * BlockSize <= i * BlockSize /\ (q + 1) * BlockSize = q * BlockSize + BlockSize
      <4>1. q + 1 \in Nat /\ q + 1 <= i  BY <2>1, <2>4, <1>1
      <4>2. (q + 1) * BlockSize <= i * BlockSize  BY <4>1, <2>1, Scaling
      <4>. QED  BY <4>2, <1>1, SizeAssumption, Z3
    <3>. QED  BY <3>1, <2>1, <2>4, <1>1, <1>2, SizeAssumption DEF Offset
  <2>5. CASE i = q
    BY <2>5, <2>1, <2>2, <1>1 DEF Offset
  <2>. QED  BY <2>1, <2>3, <2>4, <2>5, <1>1
<1>. QED  BY <1>4, <1>5, <1>6

-----------------------------------------------------------------------------
(* Messages and queues                                                     *)

\* The type field of a message of the Sender decides its shape.
LEMMA SenderMessageShape ==
    ASSUME NEW m \in SenderMessages
    PROVE  /\ m.type \in {"Header", "Block", "DataSent"}
           /\ m.type = "Header" <=> m = Header
           /\ m.type = "DataSent" <=> m = DataSent
           /\ m.type = "Block" => /\ m.index \in Blocks
                                  /\ m.checksum \in Checksums
                                  /\ m = BlockMsg(m.index, m.checksum)
BY DEF SenderMessages, Header, DataSent, BlockMsg

\* The type field of a message of the Receiver decides its shape.
LEMMA ReceiverMessageShape ==
    ASSUME NEW m \in ReceiverMessages
    PROVE  /\ m.type \in {"Acknowledge", "BlockReceived", "RedoBlock", "DataReceived"}
           /\ m.type = "Acknowledge" <=> m = Acknowledge
           /\ m.type = "DataReceived" <=> m = DataReceived
           /\ m.type \in {"BlockReceived", "RedoBlock"} => m.index \in Blocks
           /\ m.type = "BlockReceived" => m = BlockReceived(m.index)
BY DEF ReceiverMessages, Acknowledge, DataReceived, BlockReceived, RedoBlock

\* The head of a non-empty queue is one of its messages.
LEMMA QueueHead ==
    ASSUME NEW S, NEW q \in Seq(S), q # <<>>
    PROVE  /\ Head(q) \in S /\ Tail(q) \in Seq(S)
           /\ Head(q) = q[1] /\ Len(q) \in Nat /\ Len(q) > 0
           /\ Len(Tail(q)) = Len(q) - 1
           /\ \A k \in 1 .. Len(q) - 1 : Tail(q)[k] = q[k + 1]
OBVIOUS

\* Block indexes.
LEMMA BlocksFacts ==
    /\ BlockCount \in Nat
    /\ Blocks \subseteq Nat
    /\ IsFiniteSet(Blocks) /\ Cardinality(Blocks) = BlockCount
    /\ \A i \in Nat : i \in Blocks <=> i < BlockCount
<1>1. BlockCount \in Nat  BY BlockCountType
<1>2. IsFiniteSet(0 .. BlockCount - 1) /\ Cardinality(0 .. BlockCount - 1) = BlockCount
  BY <1>1, FS_Interval
<1>. QED  BY <1>1, <1>2 DEF Blocks

-----------------------------------------------------------------------------
(* Type correctness                                                        *)

USE DEF SenderStates, ReceiverStates, Outcomes, Errors, Sides

\* Sequence operations on the queues the actions change keep their type.
LEMMA MessageTypes ==
    /\ Header \in SenderMessages /\ DataSent \in SenderMessages
    /\ \A i \in Blocks, c \in Checksums : BlockMsg(i, c) \in SenderMessages
    /\ Acknowledge \in ReceiverMessages /\ DataReceived \in ReceiverMessages
    /\ \A i \in Blocks : /\ BlockReceived(i) \in ReceiverMessages
                         /\ RedoBlock(i) \in ReceiverMessages
BY DEF SenderMessages, ReceiverMessages

\* A step of the Sender keeps the types.
LEMMA SenderTypes == TypeOK /\ SenderStep => TypeOK'
<1> SUFFICES ASSUME TypeOK, SenderStep PROVE TypeOK'  OBVIOUS
<1> USE BlocksFacts, MessageTypes DEF TypeOK, senderVars, receiverVars
<1>1. CASE SenderWriteHeader  BY <1>1 DEF SenderWriteHeader, SenderWrites
<1>2. ASSUME NEW at \in SenderStates, NEW last \in SenderStates, SenderWriteBlock(at, last)
      PROVE  TypeOK'
  <2>1. CASE ReaderIsDone(nextIndex, redoQueue)
    BY <1>2, <2>1, Zenon DEF SenderWriteBlock
  <2>2. CASE ~ReaderIsDone(nextIndex, redoQueue)
    <3>1. /\ NextBlock.index \in Blocks
          /\ NextBlock.next \in 0 .. BlockCount
          /\ NextBlock.redo \in Seq(Blocks)
      <4>1. CASE redoQueue # <<>>  BY <4>1, QueueHead DEF NextBlock
      <4>2. CASE redoQueue = <<>>
        <5>1. nextIndex < BlockCount  BY <2>2, <4>2, EndsAgree DEF ReaderIsDone
        <5>. QED  BY <4>2, <5>1 DEF NextBlock
      <4>. QED  BY <4>1, <4>2
    <3>2. /\ nextIndex' = NextBlock.next /\ redoQueue' = NextBlock.redo
          /\ senderState' \in {at, last}
          /\ toReceiver' = Append(toReceiver, BlockMsg(NextBlock.index, "correct"))
          /\ UNCHANGED <<received, receivedCount, receiverVars, toSender, corrupted, outcome>>
      BY <1>2, <2>2 DEF SenderWriteBlock, SenderWrites
    <3>3. BlockMsg(NextBlock.index, "correct") \in SenderMessages  BY <3>1, Zenon DEF Checksums
    <3>. QED  BY <3>1, <3>2, <3>3
  <2>. QED  BY <2>1, <2>2, Zenon
<1>3. CASE SenderWriteDataSent  BY <1>3 DEF SenderWriteDataSent, SenderWrites
<1>4. CASE SenderReadAcknowledge  BY <1>4 DEF SenderReadAcknowledge, SenderReads
<1>5. CASE SenderReadBlockReceived
  <2>1. PICK index \in Blocks : index = Head(toSender).index
    BY <1>5, QueueHead, ReceiverMessageShape, Zenon DEF SenderReadBlockReceived, SenderReads
  <2>2. \/ UNCHANGED <<received, receivedCount>>
        \/ received' = received \cup {index} /\ receivedCount' = receivedCount + 1
    BY <1>5, <2>1, Zenon DEF SenderReadBlockReceived
  <2>3. outcome' \in [Sides -> Outcomes]
    BY <1>5 DEF SenderReadBlockReceived, LoopResult
  <2>4. /\ toSender' \in Seq(ReceiverMessages)
        /\ UNCHANGED <<senderState, nextIndex, redoQueue, receiverVars, toReceiver, corrupted>>
    BY <1>5, QueueHead DEF SenderReadBlockReceived, SenderReads
  <2>5. received' \subseteq Blocks
    <3> HIDE BlocksFacts, MessageTypes
    <3>. QED  BY <2>2
  <2>6. receivedCount' \in Nat  BY <2>2
  <2>. QED  BY <2>3, <2>4, <2>5, <2>6
<1>6. CASE SenderReadRedoBlock
  <2>1. Head(toSender) \in ReceiverMessages /\ Head(toSender).index \in Blocks
    BY <1>6, QueueHead, ReceiverMessageShape DEF SenderReadRedoBlock, SenderReads
  <2>. QED  BY <1>6, <2>1 DEF SenderReadRedoBlock, SenderReads, LoopResult, RedoError
<1>7. CASE SenderReadDataReceived
  BY <1>7 DEF SenderReadDataReceived, SenderReads, LoopResult
<1>8. CASE SenderReadUnexpected
  BY <1>8 DEF SenderReadUnexpected, SenderReads, LoopResult
<1>. QED  BY <1>1, <1>2, <1>3, <1>4, <1>5, <1>6, <1>7, <1>8, Zenon DEF SenderStep

\* A step of the Receiver keeps the types.
LEMMA ReceiverTypes == TypeOK /\ ReceiverStep => TypeOK'
<1> SUFFICES ASSUME TypeOK, ReceiverStep PROVE TypeOK'  OBVIOUS
<1> USE BlocksFacts, MessageTypes DEF TypeOK, senderVars, receiverVars
<1>1. CASE ReceiverReadHeader  BY <1>1 DEF ReceiverReadHeader, ReceiverReads
<1>2. CASE ReceiverWriteAcknowledge
  BY <1>2 DEF ReceiverWriteAcknowledge, ReceiverWrites
<1>3. CASE ReceiverReadBlock
  <2>1. PICK index \in Blocks : index = Head(toReceiver).index
    BY <1>3, QueueHead, SenderMessageShape, Zenon DEF ReceiverReadBlock, ReceiverReads
  <2>2. /\ receiverState' = "handleBlock" /\ toReceiver' \in Seq(SenderMessages)
        /\ UNCHANGED <<senderVars, toSender, corrupted>>
    BY <1>3, QueueHead DEF ReceiverReadBlock, ReceiverReads
  <2> DEFINE gap == [i \in 1 .. index - nextBlockIndex |-> nextBlockIndex + i - 1]
  <2>3. /\ \/ UNCHANGED nextBlockIndex
           \/ nextBlockIndex = index /\ nextBlockIndex' = nextBlockIndex + 1
        /\ UNCHANGED lastBlock \/ lastBlock' = {index}
        /\ \/ UNCHANGED redoBlocks
           \/ redoBlocks' = <<index>>
           \/ index > nextBlockIndex /\ redoBlocks' = gap
        /\ \/ UNCHANGED <<file, writtenCount>>
           \/ /\ writtenCount' = writtenCount + 1
              /\ \E c \in {"good", "bad"} : file' = [file EXCEPT ![index] = c]
        /\ UNCHANGED outcome \/ \E o \in Outcomes : outcome' = [outcome EXCEPT !["receiver"] = o]
    <3> HIDE DEF TypeOK
    <3>. QED  BY <1>3, <2>1 DEF ReceiverReadBlock, LoopResult, WriteError
  <2>4. nextBlockIndex \in Nat /\ index \in Nat /\ index < BlockCount  OBVIOUS
  <2>5. index > nextBlockIndex => gap \in Seq(Blocks)
    <3>1. ASSUME index > nextBlockIndex
          PROVE  /\ index - nextBlockIndex \in Nat
                 /\ \A i \in 1 .. index - nextBlockIndex : nextBlockIndex + i - 1 \in Blocks
      BY <2>4, <3>1
    <3>. QED  BY <3>1
  <2>6. nextBlockIndex' \in 0 .. BlockCount  BY <2>3, <2>4
  <2>7. redoBlocks' \in Seq(Blocks)
    <3> HIDE DEF gap
    <3>1. <<index>> \in Seq(Blocks)  OBVIOUS
    <3>. QED  BY <2>3, <2>5, <3>1, Zenon
  <2>8. lastBlock' \subseteq Blocks  BY <2>3, Zenon
  <2>9. file' \in [Blocks -> {"none", "good", "bad"}] /\ writtenCount' \in Nat  BY <2>3
  <2>10. outcome' \in [Sides -> Outcomes]  BY <2>3
  <2>. QED  BY <2>2, <2>6, <2>7, <2>8, <2>9, <2>10
<1>4. CASE ReceiverHandleBlock
  <2>1. receiverState' \in ReceiverStates /\ UNCHANGED <<nextBlockIndex, file, writtenCount>>
    BY <1>4 DEF ReceiverHandleBlock
  <2>2. ASSUME NEW index \in lastBlock, ReceiverWrites(BlockReceived(index)),
               lastBlock' = {}, UNCHANGED <<redoBlocks, outcome>>
        PROVE  TypeOK'
    BY <2>1, <2>2 DEF ReceiverWrites
  <2>3. ASSUME redoBlocks # <<>>, ReceiverWrites(RedoBlock(Head(redoBlocks))),
               redoBlocks' = Tail(redoBlocks), UNCHANGED <<lastBlock, outcome>>
        PROVE  TypeOK'
    <3>1. Head(redoBlocks) \in Blocks /\ Tail(redoBlocks) \in Seq(Blocks)
      BY <2>3, QueueHead
    <3>2. RedoBlock(Head(redoBlocks)) \in ReceiverMessages  BY <3>1, Zenon
    <3>3. toSender' \in Seq(ReceiverMessages)  BY <2>3, <3>2 DEF ReceiverWrites
    <3>. QED  BY <2>1, <2>3, <3>1, <3>3 DEF ReceiverWrites
  <2>4. ASSUME LoopResult("receiver", "panic", FALSE),
               UNCHANGED <<senderVars, toReceiver, toSender, corrupted, lastBlock, redoBlocks>>
        PROVE  TypeOK'
    BY <2>1, <2>4 DEF LoopResult
  <2>5. \/ \E index \in lastBlock :
             /\ ReceiverWrites(BlockReceived(index))
             /\ lastBlock' = {} /\ UNCHANGED <<redoBlocks, outcome>>
        \/ /\ redoBlocks # <<>> /\ ReceiverWrites(RedoBlock(Head(redoBlocks)))
           /\ redoBlocks' = Tail(redoBlocks) /\ UNCHANGED <<lastBlock, outcome>>
        \/ /\ LoopResult("receiver", "panic", FALSE)
           /\ UNCHANGED <<senderVars, toReceiver, toSender, corrupted, lastBlock, redoBlocks>>
    BY <1>4, Zenon DEF ReceiverHandleBlock
  <2> HIDE DEF TypeOK
  <2>. QED  BY <2>2, <2>3, <2>4, <2>5, Zenon
<1>5. CASE ReceiverReadDataSent  BY <1>5 DEF ReceiverReadDataSent, ReceiverReads
<1>6. CASE ReceiverWriteDataReceived
  BY <1>6 DEF ReceiverWriteDataReceived, ReceiverWrites, LoopResult
<1>7. CASE ReceiverReadUnexpected
  BY <1>7 DEF ReceiverReadUnexpected, ReceiverReads, LoopResult
<1>. QED  BY <1>1, <1>2, <1>3, <1>4, <1>5, <1>6, <1>7, Zenon DEF ReceiverStep

\* Every reachable state is well typed; in particular no block index on
\* either side ever leaves the range of the file.
THEOREM TypeCorrect == Spec => []TypeOK
<1>1. Init => TypeOK  BY BlocksFacts, FaultAssumption DEF Init, TypeOK
<1>2. TypeOK /\ [Next]_vars => TypeOK'
  <2> SUFFICES ASSUME TypeOK, [Next]_vars PROVE TypeOK'  OBVIOUS
  <2>1. CASE SenderStep  BY <2>1, SenderTypes
  <2>2. CASE ReceiverStep  BY <2>2, ReceiverTypes
  <2>3. CASE CorruptBlock
    BY <2>3, MessageTypes, SenderMessageShape, FaultAssumption
       DEF CorruptBlock, TypeOK, senderVars, receiverVars, Checksums
  <2>4. ASSUME NEW side \in Sides, IOError(side) PROVE TypeOK'
    BY <2>4 DEF IOError, TypeOK, senderVars, receiverVars
  <2>5. CASE UNCHANGED vars
    BY <2>5 DEF vars, TypeOK, senderVars, receiverVars
  <2>. QED  BY <2>1, <2>2, <2>3, <2>4, <2>5 DEF Next
<1>. QED  BY <1>1, <1>2, PTL DEF Spec
-----------------------------------------------------------------------------
(* Delivery: a transfer that reports success has delivered the file        *)


\* Reading from a queue and appending to it: what is in transit afterwards.
LEMMA TransitTail ==
    ASSUME NEW S, NEW q \in Seq(S), q # <<>>, NEW m, InTransit(Tail(q), m)
    PROVE  InTransit(q, m)
<1>1. PICK k \in 1 .. Len(Tail(q)) : Tail(q)[k] = m  BY Zenon DEF InTransit
<1>2. k + 1 \in 1 .. Len(q) /\ q[k + 1] = m  BY <1>1, QueueHead
<1>. QED  BY <1>2 DEF InTransit

\* The first message of a queue is in transit.
LEMMA TransitHead ==
    ASSUME NEW S, NEW q \in Seq(S), q # <<>>
    PROVE  InTransit(q, Head(q))
<1>1. 1 \in 1 .. Len(q) /\ q[1] = Head(q)  BY QueueHead
<1>. QED  BY <1>1 DEF InTransit

\* Writing a message puts that message in transit and no other.
LEMMA TransitAppend ==
    ASSUME NEW S, NEW q \in Seq(S), NEW x \in S, NEW m, InTransit(Append(q, x), m)
    PROVE  InTransit(q, m) \/ m = x
<1>1. PICK k \in 1 .. Len(Append(q, x)) : Append(q, x)[k] = m  BY DEF InTransit
<1>2. CASE k = Len(q) + 1  BY <1>1, <1>2
<1>3. CASE k \in 1 .. Len(q)  BY <1>1, <1>3 DEF InTransit
<1>. QED  BY <1>1, <1>2, <1>3

\* Different message types are different messages.
LEMMA Distinct ==
    ASSUME NEW i, NEW j
    PROVE  /\ BlockReceived(i) = BlockReceived(j) => i = j
           /\ BlockReceived(i) # Acknowledge /\ DataReceived # Acknowledge
           /\ BlockReceived(i) # DataReceived
           /\ BlockReceived(i) # RedoBlock(j) /\ DataReceived # RedoBlock(j)
BY DEF BlockReceived, RedoBlock, Acknowledge, DataReceived

\* A set of blocks is finite; counting BlockCount of them means all of them.
LEMMA Counting ==
    ASSUME NEW S \in SUBSET Blocks
    PROVE  /\ IsFiniteSet(S) /\ Cardinality(S) \in Nat /\ Cardinality(S) <= BlockCount
           /\ Cardinality(S) = BlockCount => S = Blocks
           /\ \A i \in Blocks \ S : Cardinality(S \cup {i}) = Cardinality(S) + 1
<1>1. IsFiniteSet(S) /\ Cardinality(S) <= Cardinality(Blocks)
      /\ (Cardinality(Blocks) = Cardinality(S) => Blocks = S)
  BY BlocksFacts, FS_Subset, Zenon
<1>2. Cardinality(S) \in Nat  BY <1>1, FS_CardinalityType
<1>3. \A i \in Blocks \ S : Cardinality(S \cup {i}) = Cardinality(S) + 1
  BY <1>1, FS_AddElement
<1>. QED  BY <1>1, <1>2, <1>3, BlocksFacts

\* What setting one outcome, or Run's return value, does to the two outcomes.
LEMMA SetOutcome ==
    ASSUME outcome \in [Sides -> Outcomes], NEW o
    PROVE  /\ outcome' = [outcome EXCEPT !["sender"] = o] =>
                  outcome'["sender"] = o /\ outcome'["receiver"] = outcome["receiver"]
           /\ outcome' = [outcome EXCEPT !["receiver"] = o] =>
                  outcome'["receiver"] = o /\ outcome'["sender"] = outcome["sender"]
BY DEF Sides

\* The same for what Loop.Run does with a handler's error.
LEMMA LoopResults ==
    ASSUME outcome \in [Sides -> Outcomes], NEW err
    PROVE  /\ LoopResult("sender", err, FALSE) =>
                  outcome'["receiver"] = outcome["receiver"] /\ outcome'["sender"] = err
           /\ LoopResult("receiver", err, FALSE) =>
                  outcome'["sender"] = outcome["sender"] /\ outcome'["receiver"] = err
           /\ LoopResult("sender", err, TRUE) =>
                  /\ outcome'["receiver"] = outcome["receiver"]
                  /\ outcome'["sender"] = IF err = "running" THEN "ok" ELSE err
           /\ LoopResult("receiver", err, TRUE) =>
                  /\ outcome'["sender"] = outcome["sender"]
                  /\ outcome'["receiver"] = IF err = "running" THEN "ok" ELSE err
BY SetOutcome DEF LoopResult

\* A step that writes nothing to the file stores nothing.
LEMMA StoredUnchanged == UNCHANGED file => Stored' = Stored /\ Written' = Written
BY DEF Stored, Written

\* A step of the Sender keeps DeliveryInv.
LEMMA SenderDelivery == TypeOK /\ DeliveryInv /\ SenderStep => DeliveryInv'
<1> SUFFICES ASSUME TypeOK, DeliveryInv, SenderStep PROVE DeliveryInv'  OBVIOUS
<1> USE DEF senderVars, receiverVars
<1>a. toSender \in Seq(ReceiverMessages) /\ outcome \in [Sides -> Outcomes]  BY DEF TypeOK
\* Every step of the Sender leaves the Receiver alone; unless it confirms a
\* block or succeeds, the invariant holds afterwards for that reason.
<1>b. ASSUME UNCHANGED <<receiverVars, received, receivedCount>>,
             outcome'["receiver"] = outcome["receiver"],
             outcome'["sender"] = "ok" => outcome["sender"] = "ok",
             \A m : InTransit(toSender, m)' => InTransit(toSender, m)
      PROVE  DeliveryInv'
  BY <1>b, StoredUnchanged DEF DeliveryInv
<1>c. ASSUME SenderReads
      PROVE  \A m : InTransit(toSender, m)' => InTransit(toSender, m)
  BY <1>a, <1>c, TransitTail DEF SenderReads, InTransit
<1>1. CASE SenderWriteHeader
  BY <1>1, <1>b DEF SenderWriteHeader, SenderWrites, InTransit
<1>2. ASSUME NEW at, NEW last, SenderWriteBlock(at, last) PROVE DeliveryInv'
  <2>1. /\ UNCHANGED <<receiverVars, received, receivedCount, toSender>>
        /\ UNCHANGED outcome \/ outcome' = [outcome EXCEPT !["sender"] = "panic"]
    BY <1>2 DEF SenderWriteBlock, SenderWrites
  <2>2. /\ outcome'["receiver"] = outcome["receiver"]
        /\ outcome'["sender"] = "ok" => outcome["sender"] = "ok"
    BY <1>a, <2>1, SetOutcome
  <2>3. \A m : InTransit(toSender, m)' => InTransit(toSender, m)  BY <2>1 DEF InTransit
  <2>. QED  BY <1>b, <2>1, <2>2, <2>3
<1>3. CASE SenderWriteDataSent
  BY <1>3, <1>b DEF SenderWriteDataSent, SenderWrites, InTransit
<1>4. CASE SenderReadAcknowledge
  BY <1>4, <1>b, <1>c DEF SenderReadAcknowledge, SenderReads
<1>5. CASE SenderReadBlockReceived
  <2>1. PICK index \in Blocks : index = Head(toSender).index /\ Head(toSender) = BlockReceived(index)
    BY <1>5, <1>a, QueueHead, ReceiverMessageShape DEF SenderReadBlockReceived, SenderReads
  <2>2. CASE index \in received
    <3>1. /\ LoopResult("sender", "DuplicateBlockReceived", FALSE)
          /\ UNCHANGED <<receiverVars, received, receivedCount>>
      BY <1>5, <2>1, <2>2, Zenon DEF SenderReadBlockReceived, SenderReads
    <3>2. /\ outcome'["receiver"] = outcome["receiver"]
          /\ outcome'["sender"] = "DuplicateBlockReceived"
      BY <1>a, <3>1, LoopResults, Zenon
    <3>. QED  BY <1>5, <1>b, <1>c, <3>1, <3>2 DEF SenderReadBlockReceived
  <2>3. CASE index \notin received
    <3>1. index \in Stored
      BY <1>5, <1>a, <2>1, TransitHead DEF SenderReadBlockReceived, SenderReads, DeliveryInv
    <3>2. /\ received' = received \cup {index} /\ receivedCount' = receivedCount + 1
          /\ UNCHANGED receiverVars
          /\ LoopResult("sender", "panic", FALSE) \/ LoopResult("sender", "running", FALSE)
      BY <1>5, <2>1, <2>3, Zenon DEF SenderReadBlockReceived, SenderReads
    <3>5. /\ outcome'["receiver"] = outcome["receiver"]
          /\ outcome'["sender"] \in {"panic", "running"}
      BY <1>a, <3>2, LoopResults, Zenon
    <3>3. receivedCount' = Cardinality(received')
      BY <2>3, <3>2, Counting DEF DeliveryInv, TypeOK
    <3>4. \A m : InTransit(toSender, m)' => InTransit(toSender, m)
      BY <1>5, <1>c DEF SenderReadBlockReceived
    <3>. QED  BY <3>1, <3>2, <3>3, <3>4, <3>5, StoredUnchanged DEF DeliveryInv
  <2>. QED  BY <2>2, <2>3
<1>6. CASE SenderReadRedoBlock
  BY <1>6, <1>a, <1>b, <1>c DEF SenderReadRedoBlock, SenderReads, LoopResult, RedoError
<1>7. CASE SenderReadDataReceived
  <2>1. receiverState = "done"
    BY <1>7, <1>a, TransitHead DEF SenderReadDataReceived, SenderReads, DeliveryInv
  <2>2. outcome'["sender"] = "ok" => received = Blocks
    <3>1. receivedCount \in Nat /\ receivedCount <= BlockCount /\ BlockCount \in Nat
          /\ (receivedCount = BlockCount => received = Blocks)
      BY Counting, BlocksFacts DEF DeliveryInv, TypeOK
    <3>2. CASE receivedCount < BlockCount
      <4>1. LoopResult("sender", "InvalidDataReceived", TRUE)
        BY <1>7, <3>2, Zenon DEF SenderReadDataReceived
      <4>2. outcome'["sender"] = "InvalidDataReceived"  BY <1>a, <4>1, LoopResults, Zenon
      <4>. QED  BY <4>2
    <3>. QED  BY <3>1, <3>2
  <2>3. /\ UNCHANGED <<receiverVars, received, receivedCount>>
        /\ outcome'["receiver"] = outcome["receiver"]
    BY <1>7, <1>a DEF SenderReadDataReceived, SenderReads, LoopResult
  <2>4. \A m : InTransit(toSender, m)' => InTransit(toSender, m)
    BY <1>7, <1>c DEF SenderReadDataReceived
  <2>. QED  BY <2>1, <2>2, <2>3, <2>4, StoredUnchanged DEF DeliveryInv
<1>8. CASE SenderReadUnexpected
  BY <1>8, <1>a, <1>b, <1>c DEF SenderReadUnexpected, SenderReads, LoopResult
<1>. QED  BY <1>1, <1>2, <1>3, <1>4, <1>5, <1>6, <1>7, <1>8 DEF SenderStep

\* What reading a block can do, one disjunct per branch of the handler.
LEMMA ReadBlockCases ==
    ASSUME TypeOK, DeliveryInv, ReceiverReadBlock
    PROVE  /\ outcome["receiver"] = "running"
           /\ receiverState = "needBlock" /\ receiverState' = "handleBlock"
           /\ UNCHANGED <<senderVars, toSender, corrupted>>
           /\ \/ UNCHANGED <<file, writtenCount, lastBlock, nextBlockIndex, outcome>>
              \/ UNCHANGED <<file, writtenCount, lastBlock, nextBlockIndex>>
                 /\ LoopResult("receiver", "AlreadyWritten", FALSE)
              \/ \E index \in Blocks \ Stored :
                    /\ file' = [file EXCEPT ![index] = "good"]
                    /\ writtenCount' = writtenCount + 1
                    /\ lastBlock' = {index} /\ UNCHANGED outcome
                    /\ \/ UNCHANGED nextBlockIndex
                       \/ index = nextBlockIndex /\ nextBlockIndex' = nextBlockIndex + 1
<1>1. PICK index \in Blocks : index = Head(toReceiver).index
  BY QueueHead, SenderMessageShape DEF ReceiverReadBlock, ReceiverReads, TypeOK
<1>2. Head(toReceiver).checksum \in Checksums
  BY QueueHead, SenderMessageShape DEF ReceiverReadBlock, ReceiverReads, TypeOK
<1>3. /\ outcome["receiver"] = "running"
      /\ receiverState = "needBlock" /\ receiverState' = "handleBlock"
      /\ UNCHANGED <<senderVars, toSender, corrupted>>
  BY DEF ReceiverReadBlock, ReceiverReads, Running
<1>4. CASE WriteError(Head(toReceiver)) = "BadBlockChecksum"
  BY <1>3, <1>4, Zenon DEF ReceiverReadBlock
<1>5. CASE WriteError(Head(toReceiver)) = "AlreadyWritten"
  BY <1>3, <1>5, Zenon DEF ReceiverReadBlock
<1>6. CASE WriteError(Head(toReceiver)) = "nil"
  <2>1. index \notin Stored /\ Head(toReceiver).checksum = "correct"
    BY <1>1, <1>2, <1>6 DEF WriteError, Checksums, Stored
  <2>2. file' = [file EXCEPT ![index] = "good"] /\ writtenCount' = writtenCount + 1
    BY <1>1, <1>6, <2>1, Zenon DEF ReceiverReadBlock
  <2>3. index \in Int /\ nextBlockIndex \in Int  BY BlocksFacts DEF TypeOK, Blocks
  <2>4. ~(index < nextBlockIndex)  BY <2>1 DEF DeliveryInv
  <2>5. /\ lastBlock' = {index} /\ UNCHANGED outcome
        /\ \/ UNCHANGED nextBlockIndex
           \/ index = nextBlockIndex /\ nextBlockIndex' = nextBlockIndex + 1
    BY <1>1, <1>6, <2>4, Zenon DEF ReceiverReadBlock
  <2>. QED  BY <1>3, <2>1, <2>2, <2>5, Zenon
<1>. QED  BY <1>4, <1>5, <1>6, Zenon DEF WriteError

\* A step of the Receiver keeps DeliveryInv.
LEMMA ReceiverDelivery == TypeOK /\ DeliveryInv /\ ReceiverStep => DeliveryInv'
<1> SUFFICES ASSUME TypeOK, DeliveryInv, ReceiverStep PROVE DeliveryInv'  OBVIOUS
<1> USE DEF senderVars
<1>a. toSender \in Seq(ReceiverMessages) /\ outcome \in [Sides -> Outcomes]  BY DEF TypeOK
<1>b. Running("receiver") => receiverState # "done"  BY DEF DeliveryInv, Running
<1>1. CASE ReceiverReadHeader
  BY <1>1, <1>b, StoredUnchanged DEF ReceiverReadHeader, ReceiverReads, DeliveryInv, InTransit
<1>2. CASE ReceiverWriteAcknowledge
  <2>1. \A m : InTransit(toSender, m)' => InTransit(toSender, m) \/ m = Acknowledge
    BY <1>2, <1>a, TransitAppend, MessageTypes
       DEF ReceiverWriteAcknowledge, ReceiverWrites, InTransit
  <2>2. /\ UNCHANGED <<lastBlock, file, writtenCount, nextBlockIndex, outcome,
                       received, receivedCount>>
        /\ receiverState' = "needBlock" /\ receiverState # "done"
    BY <1>2 DEF ReceiverWriteAcknowledge, ReceiverWrites
  <2>. QED  BY <2>1, <2>2, Distinct, StoredUnchanged DEF DeliveryInv
<1>3. CASE ReceiverReadBlock
  <2>1. \A m : InTransit(toSender, m)' <=> InTransit(toSender, m)
    BY <1>3, ReadBlockCases DEF InTransit
  <2>2. CASE UNCHANGED <<file, writtenCount, lastBlock, nextBlockIndex, outcome>>
    BY <1>3, <2>1, <2>2, ReadBlockCases, StoredUnchanged DEF DeliveryInv
  <2>3. CASE UNCHANGED <<file, writtenCount, lastBlock, nextBlockIndex>>
             /\ LoopResult("receiver", "AlreadyWritten", FALSE)
    <3>1. outcome'["receiver"] = "AlreadyWritten" /\ outcome'["sender"] = outcome["sender"]
      BY <1>a, <2>3, LoopResults, Zenon
    <3>. QED  BY <1>3, <2>1, <2>3, <3>1, ReadBlockCases, StoredUnchanged, Zenon DEF DeliveryInv
  <2>4. ASSUME NEW index \in Blocks \ Stored,
               file' = [file EXCEPT ![index] = "good"],
               writtenCount' = writtenCount + 1,
               lastBlock' = {index}, UNCHANGED outcome,
               \/ UNCHANGED nextBlockIndex
               \/ index = nextBlockIndex /\ nextBlockIndex' = nextBlockIndex + 1
        PROVE  DeliveryInv'
    <3>1. Stored' = Stored \cup {index} /\ Written' = Written \cup {index}
      BY <2>4 DEF Stored, Written, TypeOK
    <3>2. writtenCount' = Cardinality(Stored')
      BY <2>4, <3>1, Counting DEF DeliveryInv, Stored
    <3>3. \A i \in Blocks : i < nextBlockIndex' => i \in Stored'
      BY <2>4, <3>1 DEF DeliveryInv, TypeOK, Blocks
    <3>. QED  BY <1>3, <2>1, <2>4, <3>1, <3>2, <3>3, ReadBlockCases, Zenon DEF DeliveryInv
  <2>. QED  BY <1>3, <2>2, <2>3, <2>4, ReadBlockCases, Zenon
<1>4. CASE ReceiverHandleBlock
  <2>0. writtenCount = BlockCount => Stored = Blocks
    BY Counting, Zenon DEF DeliveryInv, Stored
  <2>1. /\ UNCHANGED <<file, writtenCount, nextBlockIndex, received, receivedCount>>
        /\ receiverState = "handleBlock" /\ outcome["receiver"] = "running"
        /\ receiverState' \in {"handleBlock", "needDataSent", "needBlock"}
        /\ receiverState' = "needDataSent" => Stored = Blocks
    BY <1>4, <2>0, Zenon DEF ReceiverHandleBlock, ReceiverWrites, WriterIsDone, Running
  <2>2. ASSUME NEW m \in ReceiverMessages, ReceiverWrites(m),
               lastBlock' \subseteq lastBlock, UNCHANGED outcome,
               m # DataReceived, \A i \in Blocks : m = BlockReceived(i) => i \in Stored
        PROVE  DeliveryInv'
    <3>1. \A x : InTransit(toSender, x)' => InTransit(toSender, x) \/ x = m
      <4>1. PICK q : q = toSender' /\ q = Append(toSender, m)  BY <2>2, Zenon DEF ReceiverWrites
      <4>2. \A x : InTransit(toSender, x)' => InTransit(q, x)  BY <4>1, Zenon DEF InTransit
      <4>3. \A x : InTransit(q, x) => InTransit(toSender, x) \/ x = m
        BY <1>a, <2>2, <4>1, TransitAppend, Zenon
      <4>. QED  BY <4>2, <4>3, Zenon
    <3>. QED  BY <2>1, <2>2, <3>1, StoredUnchanged DEF DeliveryInv
  <2>3. ASSUME NEW index \in lastBlock, ReceiverWrites(BlockReceived(index)),
               lastBlock' = {}, UNCHANGED outcome
        PROVE  DeliveryInv'
    <3>1. index \in Blocks /\ index \in Stored  BY <2>3 DEF TypeOK, DeliveryInv
    <3>2. BlockReceived(index) \in ReceiverMessages  BY <3>1, MessageTypes
    <3>. QED  BY <2>2, <2>3, <3>1, <3>2, Distinct
  <2>4. ASSUME redoBlocks # <<>>, ReceiverWrites(RedoBlock(Head(redoBlocks))),
               UNCHANGED <<lastBlock, outcome>>
        PROVE  DeliveryInv'
    <3>1. RedoBlock(Head(redoBlocks)) \in ReceiverMessages
      BY <2>4, QueueHead, MessageTypes DEF TypeOK
    <3>. QED  BY <2>2, <2>4, <3>1, Distinct
  <2>5. ASSUME LoopResult("receiver", "panic", FALSE), UNCHANGED <<toSender, lastBlock>>
        PROVE  DeliveryInv'
    <3>1. outcome'["receiver"] = "panic" /\ outcome'["sender"] = outcome["sender"]
      BY <1>a, <2>5, LoopResults, Zenon
    <3>2. \A x : InTransit(toSender, x)' => InTransit(toSender, x)  BY <2>5 DEF InTransit
    <3>. QED  BY <2>1, <2>5, <3>1, <3>2, StoredUnchanged DEF DeliveryInv
  <2>. QED  BY <1>4, <2>3, <2>4, <2>5, Zenon DEF ReceiverHandleBlock
<1>5. CASE ReceiverReadDataSent
  BY <1>5, StoredUnchanged DEF ReceiverReadDataSent, ReceiverReads, DeliveryInv, InTransit
<1>6. CASE ReceiverWriteDataReceived
  <2>1. \A m : InTransit(toSender, m)' => InTransit(toSender, m) \/ m = DataReceived
    BY <1>6, <1>a, TransitAppend, MessageTypes
       DEF ReceiverWriteDataReceived, ReceiverWrites, InTransit
  <2>2. /\ UNCHANGED <<lastBlock, file, writtenCount, nextBlockIndex, received, receivedCount>>
        /\ receiverState' = "done" /\ receiverState = "sendDataReceived"
    BY <1>6 DEF ReceiverWriteDataReceived, ReceiverWrites
  <2>3. outcome'["receiver"] = "ok" /\ outcome'["sender"] = outcome["sender"]
    BY <1>6, <1>a, LoopResults, Zenon DEF ReceiverWriteDataReceived
  <2>. QED  BY <2>1, <2>2, <2>3, Distinct, StoredUnchanged DEF DeliveryInv
<1>7. CASE ReceiverReadUnexpected
  <2>1. outcome'["receiver"] = "UnexpectedMessage" /\ outcome'["sender"] = outcome["sender"]
    BY <1>7, <1>a, LoopResults, Zenon DEF ReceiverReadUnexpected
  <2>2. UNCHANGED <<receiverVars, senderVars, toSender>> /\ receiverState # "done"
    BY <1>7, <1>b DEF ReceiverReadUnexpected, ReceiverReads
  <2>. QED  BY <2>1, <2>2, StoredUnchanged DEF DeliveryInv, InTransit, receiverVars
<1>. QED  BY <1>1, <1>2, <1>3, <1>4, <1>5, <1>6, <1>7 DEF ReceiverStep

\* DeliveryInv holds throughout every behaviour, whatever is damaged or fails.
THEOREM Delivery == Spec => []DeliveryInv
<1>1. Init => DeliveryInv
  <2> SUFFICES ASSUME Init PROVE DeliveryInv  OBVIOUS
  <2>1. Stored = {} /\ Written = {}  BY DEF Init, Stored, Written
  <2>2. Cardinality({}) = 0  BY FS_EmptySet
  <2>3. \A m : ~InTransit(toSender, m)  BY DEF Init, InTransit
  <2>4. \A side \in Sides : outcome[side] = "running"  BY DEF Init
  <2>. QED  BY <2>1, <2>2, <2>3, <2>4 DEF Init, DeliveryInv, Sides
<1>2. TypeOK /\ DeliveryInv /\ [Next]_vars => DeliveryInv'
  <2> SUFFICES ASSUME TypeOK, DeliveryInv, [Next]_vars PROVE DeliveryInv'  OBVIOUS
  <2>1. CASE CorruptBlock
    BY <2>1, StoredUnchanged, Zenon DEF CorruptBlock, DeliveryInv, InTransit, senderVars, receiverVars
  <2>2. ASSUME NEW side \in Sides, IOError(side) PROVE DeliveryInv'
    <3>1. /\ UNCHANGED <<receiverVars, senderVars, toSender>>
          /\ outcome[side] = "running" /\ outcome' = [outcome EXCEPT ![side] = "IOError"]
      BY <2>2 DEF IOError, Running
    <3>2. side = "sender" \/ side = "receiver"  BY DEF Sides
    <3>3. /\ side = "sender" => outcome'["sender"] = "IOError"
                                /\ outcome'["receiver"] = outcome["receiver"]
          /\ side = "receiver" => outcome'["receiver"] = "IOError"
                                  /\ outcome'["sender"] = outcome["sender"]
      BY <3>1, SetOutcome DEF TypeOK
    <3>. QED  BY <3>1, <3>2, <3>3, StoredUnchanged
              DEF DeliveryInv, InTransit, senderVars, receiverVars
  <2>3. CASE UNCHANGED vars
    BY <2>3, StoredUnchanged DEF vars, DeliveryInv, InTransit, senderVars, receiverVars
  <2>. QED  BY <2>1, <2>2, <2>3, SenderDelivery, ReceiverDelivery DEF Next
<1>. QED  BY <1>1, <1>2, TypeCorrect, PTL DEF Spec

\* A Sender whose Run returned nil has delivered the file: the Receiver's file
\* is complete and undamaged and its Run returned nil, for every file size,
\* every number of damaged blocks and I/O errors on either side.
THEOREM SuccessIsDelivery == Spec => []DoneMeansDelivered
<1>1. DeliveryInv => DoneMeansDelivered  BY DEF DeliveryInv, DoneMeansDelivered
<1>. QED  BY <1>1, Delivery, PTL

\* Every block the Sender counts as received is stored undamaged.
THEOREM ReceiptsAreTrue == Spec => []ReceiptMeansStored
<1>1. DeliveryInv => ReceiptMeansStored  BY DEF DeliveryInv, ReceiptMeansStored
<1>. QED  BY <1>1, Delivery, PTL

-----------------------------------------------------------------------------
(* Transfer implements ReliableTransfer                                    *)

\* How the outcomes map to the abstract results.
LEMMA Results ==
    ASSUME outcome \in [Sides -> Outcomes]
    PROVE  /\ Result = [side \in {"sender", "receiver"} |-> Result[side]]
           /\ \A side \in Sides :
                 /\ Result[side] = "pending" <=> outcome[side] = "running"
                 /\ outcome[side] = "ok" <=> Result[side] = "success"
BY DEF Result, Sides

\* Ending one side with outcome o sets that side's abstract result.
LEMMA SetResult ==
    ASSUME outcome \in [Sides -> Outcomes], NEW side \in Sides, NEW o \in Outcomes \ {"running"},
           outcome' = [outcome EXCEPT ![side] = o]
    PROVE  Result' = [Result EXCEPT ![side] = IF o = "ok" THEN "success" ELSE "failure"]
BY Zenon DEF Result, Sides

\* A step that only ends a running side with an error is an abstract failure.
LEMMA FailStep ==
    ASSUME TypeOK, NEW side \in Sides, NEW o \in Outcomes \ {"running", "ok"},
           outcome[side] = "running", outcome' = [outcome EXCEPT ![side] = o],
           UNCHANGED <<file, received>>
    PROVE  Abstract!Next
<1>1. Result[side] = "pending"  BY Results DEF TypeOK
<1>2. Result' = [Result EXCEPT ![side] = "failure"]  BY SetResult, Zenon DEF TypeOK
<1>3. Abstract!Fail(side)  BY <1>1, <1>2, StoredUnchanged DEF Abstract!Fail
<1>. QED  BY <1>3 DEF Abstract!Next, Sides

\* A step that touches neither file, receipts nor outcomes is not visible.
LEMMA SilentStep ==
    ASSUME UNCHANGED <<file, received, outcome>>
    PROVE  UNCHANGED Abstract!vars
BY StoredUnchanged DEF Abstract!vars, Result

\* A step of the Sender is an abstract step or not visible.
LEMMA SenderRefines ==
    ASSUME TypeOK, DeliveryInv, SenderStep
    PROVE  [Abstract!Next]_(Abstract!vars)
<1> USE DEF senderVars, receiverVars
<1>a. outcome \in [Sides -> Outcomes] /\ "sender" \in Sides  BY DEF TypeOK, Sides
<1>1. CASE SenderWriteHeader
  BY <1>1, SilentStep DEF SenderWriteHeader, SenderWrites
<1>2. ASSUME NEW at, NEW last, SenderWriteBlock(at, last)
      PROVE  [Abstract!Next]_(Abstract!vars)
  <2>1. /\ UNCHANGED <<file, received>> /\ outcome["sender"] = "running"
        /\ UNCHANGED outcome \/ outcome' = [outcome EXCEPT !["sender"] = "panic"]
    BY <1>2 DEF SenderWriteBlock, SenderWrites, Running
  <2>. QED  BY <1>a, <2>1, SilentStep, FailStep DEF Outcomes
<1>3. CASE SenderWriteDataSent
  BY <1>3, SilentStep DEF SenderWriteDataSent, SenderWrites
<1>4. CASE SenderReadAcknowledge
  BY <1>4, SilentStep DEF SenderReadAcknowledge, SenderReads
<1>5. CASE SenderReadBlockReceived
  <2>1. PICK index \in Blocks : index = Head(toSender).index /\ Head(toSender) = BlockReceived(index)
    BY <1>5, QueueHead, ReceiverMessageShape, Zenon DEF SenderReadBlockReceived, SenderReads, TypeOK
  <2>2. UNCHANGED file /\ outcome["sender"] = "running"
    BY <1>5 DEF SenderReadBlockReceived, SenderReads, Running
  <2>3. CASE index \in received
    <3>1. /\ outcome' = [outcome EXCEPT !["sender"] = "DuplicateBlockReceived"]
          /\ UNCHANGED received
      BY <1>5, <2>1, <2>3 DEF SenderReadBlockReceived, LoopResult
    <3>. QED  BY <1>a, <2>2, <3>1, FailStep, Zenon DEF Outcomes, Errors
  <2>4. CASE index \notin received
    <3>1. index \in Stored
      <4>1. toSender # <<>> /\ toSender \in Seq(ReceiverMessages)
        BY <1>5, Zenon DEF SenderReadBlockReceived, SenderReads, TypeOK
      <4>2. InTransit(toSender, BlockReceived(index))  BY <2>1, <4>1, TransitHead, Zenon
      <4>. QED  BY <4>2, Zenon DEF DeliveryInv
    <3>2. received' = received \cup {index} /\ receivedCount' = receivedCount + 1
      BY <1>5, <2>1, <2>4 DEF SenderReadBlockReceived
    <3>3. received' \subseteq Blocks /\ receivedCount' = Cardinality(received')
      BY <2>4, <3>2, Counting, Zenon DEF DeliveryInv, TypeOK
    <3>4. ~(receivedCount' > BlockCount)  BY <3>3, Counting, BlocksFacts
    <3>5. outcome' = [outcome EXCEPT !["sender"] = "running"]
      BY <1>5, <2>1, <2>4, <3>4 DEF SenderReadBlockReceived, LoopResult
    <3>6. UNCHANGED outcome  BY <1>a, <2>2, <3>5
    <3>7. Abstract!Confirm(index)
      BY <1>a, <2>2, <2>4, <3>1, <3>2, <3>6, Results, StoredUnchanged DEF Abstract!Confirm, Result
    <3>. QED  BY <3>7 DEF Abstract!Next
  <2>. QED  BY <2>3, <2>4
<1>6. CASE SenderReadRedoBlock
  <2>1. PICK e \in {"running", "RedoForReceivedBlock", "RedoForUnwrittenBlock",
                    "DuplicateRedoBlock"} :
           outcome' = [outcome EXCEPT !["sender"] = e]
    BY <1>6, Zenon DEF SenderReadRedoBlock, LoopResult, RedoError
  <2>2. UNCHANGED <<file, received>> /\ outcome["sender"] = "running"
    BY <1>6 DEF SenderReadRedoBlock, SenderReads, Running
  <2>3. CASE e = "running"
    <3>1. UNCHANGED outcome  BY <1>a, <2>1, <2>2, <2>3
    <3>. QED  BY <2>2, <3>1, SilentStep
  <2>. QED  BY <1>a, <2>1, <2>2, <2>3, FailStep, Zenon DEF Outcomes, Errors
<1>7. CASE SenderReadDataReceived
  <2>1. UNCHANGED <<file, received>> /\ outcome["sender"] = "running"
    BY <1>7 DEF SenderReadDataReceived, SenderReads, Running
  <2>2. CASE receivedCount < BlockCount
    <3>1. outcome' = [outcome EXCEPT !["sender"] = "InvalidDataReceived"]
      BY <1>7, <2>2 DEF SenderReadDataReceived, LoopResult
    <3>. QED  BY <1>a, <2>1, <3>1, FailStep, Zenon DEF Outcomes, Errors
  <2>3. CASE ~(receivedCount < BlockCount)
    <3>1. outcome' = [outcome EXCEPT !["sender"] = "ok"]
      BY <1>7, <2>3 DEF SenderReadDataReceived, LoopResult
    <3>2. Result' = [Result EXCEPT !["sender"] = "success"]
      BY <1>a, <3>1, SetResult, Zenon DEF Outcomes
    <3>3. received = Blocks
      <4>1. receivedCount = Cardinality(received) /\ received \subseteq Blocks
        BY DEF DeliveryInv, TypeOK
      <4>. QED  BY <2>3, <4>1, Counting, BlocksFacts
    <3>4. outcome["receiver"] = "ok"
      BY <1>7, TransitHead DEF SenderReadDataReceived, SenderReads, DeliveryInv, TypeOK
    <3>5. Result["receiver"] = "success" /\ Result["sender"] = "pending"
      BY <1>a, <2>1, <3>4, Results DEF Sides
    <3>6. Abstract!SenderSucceeds
      BY <2>1, <3>2, <3>3, <3>5, StoredUnchanged DEF Abstract!SenderSucceeds
    <3>. QED  BY <3>6 DEF Abstract!Next
  <2>. QED  BY <2>2, <2>3
<1>8. CASE SenderReadUnexpected
  <2>1. UNCHANGED <<file, received>> /\ outcome["sender"] = "running"
    BY <1>8 DEF SenderReadUnexpected, SenderReads, Running
  <2>2. outcome' = [outcome EXCEPT !["sender"] = "UnexpectedMessage"]
    BY <1>8 DEF SenderReadUnexpected, LoopResult
  <2>. QED  BY <1>a, <2>1, <2>2, FailStep, Zenon DEF Outcomes, Errors
<1>. QED  BY <1>1, <1>2, <1>3, <1>4, <1>5, <1>6, <1>7, <1>8 DEF SenderStep

\* A step of the Receiver is an abstract step or not visible.
LEMMA ReceiverRefines ==
    ASSUME TypeOK, DeliveryInv, ReceiverStep
    PROVE  [Abstract!Next]_(Abstract!vars)
<1> USE DEF senderVars
<1>a. outcome \in [Sides -> Outcomes] /\ "receiver" \in Sides  BY DEF TypeOK, Sides
<1>1. CASE ReceiverReadHeader
  BY <1>1, SilentStep DEF ReceiverReadHeader, ReceiverReads
<1>2. CASE ReceiverWriteAcknowledge
  BY <1>2, SilentStep DEF ReceiverWriteAcknowledge, ReceiverWrites
<1>3. CASE ReceiverReadBlock
  <2>1. UNCHANGED received /\ outcome["receiver"] = "running"  BY <1>3, ReadBlockCases
  <2>2. CASE UNCHANGED <<file, writtenCount, lastBlock, nextBlockIndex, outcome>>
    BY <2>1, <2>2, SilentStep
  <2>3. CASE UNCHANGED <<file, writtenCount, lastBlock, nextBlockIndex>>
             /\ LoopResult("receiver", "AlreadyWritten", FALSE)
    <3>1. outcome' = [outcome EXCEPT !["receiver"] = "AlreadyWritten"]
      BY <2>3 DEF LoopResult
    <3>. QED  BY <1>a, <2>1, <2>3, <3>1, FailStep, Zenon DEF Outcomes, Errors
  <2>4. ASSUME NEW index \in Blocks \ Stored,
               file' = [file EXCEPT ![index] = "good"], UNCHANGED outcome
        PROVE  [Abstract!Next]_(Abstract!vars)
    <3>1. Stored' = Stored \cup {index}  BY <2>4 DEF Stored, TypeOK
    <3>2. Result["receiver"] = "pending" /\ Result' = Result
      BY <1>a, <2>1, <2>4, Results DEF Result
    <3>3. Abstract!Deliver(index)  BY <2>1, <2>4, <3>1, <3>2 DEF Abstract!Deliver
    <3>. QED  BY <3>3 DEF Abstract!Next
  <2>. QED  BY <1>3, <2>2, <2>3, <2>4, ReadBlockCases, Zenon
<1>4. CASE ReceiverHandleBlock
  <2>1. /\ UNCHANGED <<file, received>> /\ outcome["receiver"] = "running"
        /\ UNCHANGED outcome \/ outcome' = [outcome EXCEPT !["receiver"] = "panic"]
    BY <1>4 DEF ReceiverHandleBlock, ReceiverWrites, Running, LoopResult
  <2>. QED  BY <1>a, <2>1, SilentStep, FailStep DEF Outcomes
<1>5. CASE ReceiverReadDataSent
  BY <1>5, SilentStep DEF ReceiverReadDataSent, ReceiverReads
<1>6. CASE ReceiverWriteDataReceived
  <2>1. /\ UNCHANGED <<file, received>> /\ outcome["receiver"] = "running"
        /\ outcome' = [outcome EXCEPT !["receiver"] = "ok"]
    BY <1>6 DEF ReceiverWriteDataReceived, ReceiverWrites, Running, LoopResult
  <2>2. Result' = [Result EXCEPT !["receiver"] = "success"]
    BY <1>a, <2>1, SetResult, Zenon DEF Outcomes
  <2>3. Stored = Blocks  BY <1>6 DEF ReceiverWriteDataReceived, DeliveryInv
  <2>4. Abstract!ReceiverSucceeds
    BY <1>a, <2>1, <2>2, <2>3, Results, StoredUnchanged DEF Abstract!ReceiverSucceeds
  <2>. QED  BY <2>4 DEF Abstract!Next
<1>7. CASE ReceiverReadUnexpected
  <2>1. /\ UNCHANGED <<file, received>> /\ outcome["receiver"] = "running"
        /\ outcome' = [outcome EXCEPT !["receiver"] = "UnexpectedMessage"]
    BY <1>7 DEF ReceiverReadUnexpected, ReceiverReads, receiverVars, Running, LoopResult
  <2>. QED  BY <1>a, <2>1, FailStep, Zenon DEF Outcomes, Errors
<1>. QED  BY <1>1, <1>2, <1>3, <1>4, <1>5, <1>6, <1>7 DEF ReceiverStep

\* The protocol implements a reliable transfer: seen through the file, the
\* receipts and the two results, every behaviour is one of ReliableTransfer.
THEOREM Refinement == Spec => ImplementsReliableTransfer
<1>1. Init => Abstract!Init
  <2> SUFFICES ASSUME Init PROVE Abstract!Init  OBVIOUS
  <2>1. Stored = {} /\ received = {}  BY DEF Init, Stored
  <2>2. \A side \in Sides : Result[side] = "pending"  BY DEF Init, Result
  <2>3. Result = [side \in {"sender", "receiver"} |-> "pending"]
    BY <2>2 DEF Result, Sides
  <2>. QED  BY <2>1, <2>3 DEF Abstract!Init
<1>2. TypeOK /\ DeliveryInv /\ [Next]_vars => [Abstract!Next]_(Abstract!vars)
  <2> SUFFICES ASSUME TypeOK, DeliveryInv, [Next]_vars
               PROVE  [Abstract!Next]_(Abstract!vars)
    OBVIOUS
  <2>1. CASE CorruptBlock
    BY <2>1, SilentStep DEF CorruptBlock, senderVars, receiverVars
  <2>2. ASSUME NEW side \in Sides, IOError(side) PROVE [Abstract!Next]_(Abstract!vars)
    <3>1. /\ UNCHANGED <<file, received>> /\ outcome[side] = "running"
          /\ outcome' = [outcome EXCEPT ![side] = "IOError"]
      BY <2>2 DEF IOError, Running, senderVars, receiverVars
    <3>. QED  BY <3>1, FailStep, Zenon DEF Outcomes, Errors
  <2>3. CASE UNCHANGED vars
    BY <2>3, SilentStep DEF vars, senderVars, receiverVars
  <2>. QED  BY <2>1, <2>2, <2>3, SenderRefines, ReceiverRefines DEF Next
<1>. QED  BY <1>1, <1>2, TypeCorrect, Delivery, PTL DEF Spec, ImplementsReliableTransfer, Abstract!Spec

-----------------------------------------------------------------------------
(* The assertions of the two clients                                       *)

\* A side that was given an error other than "panic", or goes on, has not
\* hit an assertion.
LEMMA OutcomeOf ==
    ASSUME outcome \in [Sides -> Outcomes], NEW side \in Sides, NEW o,
           outcome' = [outcome EXCEPT ![side] = o]
    PROVE  /\ outcome'[side] = o
           /\ \A other \in Sides \ {side} : outcome'[other] = outcome[other]
OBVIOUS

\* A step of the Sender keeps ProgressInv.
LEMMA SenderProgress ==
    ASSUME TotalSize > 0, TypeOK, DeliveryInv, ProgressInv, SenderStep
    PROVE  ProgressInv'
<1> USE DEF senderVars, receiverVars
<1>a. outcome \in [Sides -> Outcomes] /\ Sides = {"sender", "receiver"}
  BY DEF TypeOK, Sides
\* The Receiver's conjunct does not depend on what the Sender changes.
<1>b. ASSUME UNCHANGED receiverVars, outcome'["receiver"] = outcome["receiver"],
             outcome'["sender"] # "panic", senderState' # "initialized",
             outcome'["sender"] = "running" /\ senderState' \in {"inPrologue", "inProgress"}
                => ~ReaderIsDone(nextIndex', redoQueue')
      PROVE  ProgressInv'
  BY <1>a, <1>b DEF ProgressInv, NoPanic, Running
<1>1. CASE SenderWriteHeader
  <2>1. nextIndex' = 0 /\ UNCHANGED <<receiverVars, outcome>> /\ senderState' = "inPrologue"
    BY <1>1 DEF SenderWriteHeader, SenderWrites, ProgressInv
  <2>2. ~(Offset(0) >= TotalSize)  BY SizeAssumption DEF Offset
  <2>3. outcome["sender"] # "panic"  BY <1>a DEF ProgressInv, NoPanic
  <2>. QED  BY <1>b, <2>1, <2>2, <2>3 DEF ReaderIsDone
<1>2. ASSUME NEW at \in {"inPrologue", "inProgress"},
             NEW last \in {"needAcknowledge", "transferred"}, SenderWriteBlock(at, last)
      PROVE  ProgressInv'
  <2>1. ~ReaderIsDone(nextIndex, redoQueue)
    BY <1>2, Zenon DEF SenderWriteBlock, ProgressInv
  <2>2. /\ UNCHANGED <<receiverVars, outcome>>
        /\ nextIndex' = NextBlock.next /\ redoQueue' = NextBlock.redo
        /\ senderState' = IF ReaderIsDone(NextBlock.next, NextBlock.redo) THEN last ELSE at
    BY <1>2, <2>1, Zenon DEF SenderWriteBlock, SenderWrites
  <2>3. outcome["sender"] # "panic"  BY <1>a DEF ProgressInv, NoPanic
  <2>4. CASE ReaderIsDone(NextBlock.next, NextBlock.redo)
    <3>1. senderState' = last  BY <2>2, <2>4
    <3>. QED  BY <1>b, <2>2, <2>3, <3>1
  <2>5. CASE ~ReaderIsDone(NextBlock.next, NextBlock.redo)
    <3>1. senderState' = at  BY <2>2, <2>5
    <3>2. ~ReaderIsDone(nextIndex', redoQueue')  BY <2>2, <2>5
    <3>. QED  BY <1>b, <2>2, <2>3, <3>1, <3>2
  <2>. QED  BY <2>4, <2>5
<1>3. CASE SenderWriteDataSent
  BY <1>3, <1>a, <1>b DEF SenderWriteDataSent, SenderWrites, ProgressInv, NoPanic
<1>4. CASE SenderReadAcknowledge
  <2>1. /\ UNCHANGED <<receiverVars, nextIndex, redoQueue, outcome>>
        /\ outcome["sender"] = "running"
        /\ \/ senderState = "inPrologue" /\ senderState' = "inProgress"
           \/ senderState' = "transferred"
    BY <1>4 DEF SenderReadAcknowledge, SenderReads, Running
  <2>. QED  BY <1>b, <2>1 DEF ProgressInv, Running
<1>5. CASE SenderReadBlockReceived
  <2>1. PICK index \in Blocks : index = Head(toSender).index
    BY <1>5, QueueHead, ReceiverMessageShape, Zenon DEF SenderReadBlockReceived, SenderReads, TypeOK
  <2>2. /\ UNCHANGED <<receiverVars, senderState, nextIndex, redoQueue>>
        /\ outcome["sender"] = "running" /\ senderState # "initialized"
    BY <1>5, Zenon DEF SenderReadBlockReceived, SenderReads, Running
  <2>3. outcome' = [outcome EXCEPT !["sender"] = "DuplicateBlockReceived"]
        \/ outcome' = [outcome EXCEPT !["sender"] = "running"]
    <3>1. CASE index \in received
      BY <1>5, <2>1, <3>1 DEF SenderReadBlockReceived, LoopResult
    <3>2. CASE index \notin received
      <4>1. received' = received \cup {index} /\ receivedCount' = receivedCount + 1
        BY <1>5, <2>1, <3>2 DEF SenderReadBlockReceived
      <4>2. received' \subseteq Blocks /\ receivedCount' = Cardinality(received')
        BY <3>2, <4>1, Counting DEF DeliveryInv, TypeOK
      <4>3. ~(receivedCount' > BlockCount)  BY <4>2, Counting, BlocksFacts
      <4>. QED  BY <1>5, <2>1, <3>2, <4>3 DEF SenderReadBlockReceived, LoopResult
    <3>. QED  BY <3>1, <3>2
  <2>4. /\ outcome'["receiver"] = outcome["receiver"] /\ outcome'["sender"] # "panic"
    BY <1>a, <2>3, OutcomeOf
  <2>. QED  BY <1>b, <2>2, <2>4 DEF ProgressInv, Running
<1>6. CASE SenderReadRedoBlock
  <2>1. PICK e \in {"running", "RedoForReceivedBlock", "RedoForUnwrittenBlock",
                    "DuplicateRedoBlock"} :
           /\ outcome' = [outcome EXCEPT !["sender"] = e]
           /\ redoQueue' = IF e = "running" THEN Append(redoQueue, Head(toSender).index)
                                            ELSE redoQueue
    BY <1>6, Zenon DEF SenderReadRedoBlock, LoopResult, RedoError
  <2>2. UNCHANGED receiverVars /\ senderState' = "inProgress"
    BY <1>6, Zenon DEF SenderReadRedoBlock, SenderReads
  <2>3. outcome'["receiver"] = outcome["receiver"] /\ outcome'["sender"] = e
    BY <1>a, <2>1, OutcomeOf
  <2>4. e = "running" => redoQueue' # <<>>
    <3>1. redoQueue \in Seq(Blocks) /\ Head(toSender).index \in Blocks
      BY <1>6, QueueHead, ReceiverMessageShape, Zenon DEF SenderReadRedoBlock, SenderReads, TypeOK
    <3>2. Append(redoQueue, Head(toSender).index) # <<>>  BY <3>1
    <3>. QED  BY <2>1, <3>2
  <2>. QED  BY <1>b, <2>2, <2>3, <2>4 DEF ReaderIsDone
<1>7. CASE SenderReadDataReceived
  <2>1. /\ UNCHANGED receiverVars /\ senderState' = "done"
        /\ \/ outcome' = [outcome EXCEPT !["sender"] = "InvalidDataReceived"]
           \/ outcome' = [outcome EXCEPT !["sender"] = "ok"]
    BY <1>7, Zenon DEF SenderReadDataReceived, SenderReads, LoopResult
  <2>2. outcome'["receiver"] = outcome["receiver"] /\ outcome'["sender"] # "panic"
    BY <1>a, <2>1, OutcomeOf
  <2>. QED  BY <1>b, <2>1, <2>2
<1>8. CASE SenderReadUnexpected
  <2>1. /\ UNCHANGED <<receiverVars, senderVars>>
        /\ outcome' = [outcome EXCEPT !["sender"] = "UnexpectedMessage"]
    BY <1>8 DEF SenderReadUnexpected, SenderReads, LoopResult
  <2>2. outcome'["receiver"] = outcome["receiver"] /\ outcome'["sender"] = "UnexpectedMessage"
    BY <1>a, <2>1, OutcomeOf
  <2>. QED  BY <1>a, <2>1, <2>2 DEF ProgressInv, NoPanic, Running
<1>. QED  BY <1>1, <1>2, <1>3, <1>4, <1>5, <1>6, <1>7, <1>8 DEF SenderStep

\* A step of the Receiver keeps ProgressInv.
LEMMA ReceiverProgress ==
    ASSUME TypeOK, DeliveryInv, ProgressInv, ReceiverStep
    PROVE  ProgressInv'
<1> USE DEF senderVars
<1>a. outcome \in [Sides -> Outcomes] /\ Sides = {"sender", "receiver"}
  BY DEF TypeOK, Sides
\* The Sender's conjuncts do not depend on what the Receiver changes.
<1>b. ASSUME UNCHANGED senderVars, outcome'["sender"] = outcome["sender"],
             outcome'["receiver"] # "panic",
             outcome'["receiver"] = "running" /\ receiverState' = "handleBlock"
                => lastBlock' # {} \/ redoBlocks' # <<>>
      PROVE  ProgressInv'
  BY <1>a, <1>b DEF ProgressInv, NoPanic, Running
<1>c. outcome["receiver"] # "panic"  BY <1>a DEF ProgressInv, NoPanic
<1>1. CASE ReceiverReadHeader
  BY <1>1, <1>b, <1>c DEF ReceiverReadHeader, ReceiverReads
<1>2. CASE ReceiverWriteAcknowledge
  BY <1>2, <1>b, <1>c DEF ReceiverWriteAcknowledge, ReceiverWrites
<1>3. CASE ReceiverReadBlock
  <2>1. UNCHANGED senderVars  BY <1>3, ReadBlockCases
  <2>2. CASE UNCHANGED <<file, writtenCount, lastBlock, nextBlockIndex, outcome>>
    <3>1. WriteError(Head(toReceiver)) \notin {"AlreadyWritten", "nil"}
      <4>1. outcome["receiver"] = "running" /\ writtenCount \in Nat
        BY <1>3, ReadBlockCases, Zenon DEF TypeOK
      <4>2. WriteError(Head(toReceiver)) # "AlreadyWritten"
        BY <1>3, <1>a, <2>2, <4>1, OutcomeOf, Zenon DEF ReceiverReadBlock, LoopResult
      <4>3. WriteError(Head(toReceiver)) # "nil"
        <5> SUFFICES ASSUME WriteError(Head(toReceiver)) = "nil" PROVE FALSE  OBVIOUS
        <5>1. writtenCount' = writtenCount + 1  BY <1>3, Zenon DEF ReceiverReadBlock
        <5>2. writtenCount' = writtenCount  BY <2>2
        <5>. QED  BY <4>1, <5>1, <5>2
      <4>. QED  BY <4>2, <4>3
    <3>2. redoBlocks' = <<Head(toReceiver).index>>
      BY <1>3, <3>1, Zenon DEF ReceiverReadBlock
    <3>. QED  BY <1>b, <1>c, <2>1, <2>2, <3>2
  <2>3. CASE UNCHANGED <<file, writtenCount, lastBlock, nextBlockIndex>>
             /\ LoopResult("receiver", "AlreadyWritten", FALSE)
    <3>1. outcome'["receiver"] = "AlreadyWritten" /\ outcome'["sender"] = outcome["sender"]
      BY <1>a, <2>3, LoopResults, Zenon
    <3>. QED  BY <1>b, <2>1, <3>1
  <2>4. ASSUME NEW index \in Blocks \ Stored, lastBlock' = {index}, UNCHANGED outcome
        PROVE  ProgressInv'
    BY <1>b, <1>c, <2>1, <2>4
  <2>. QED  BY <1>3, <2>2, <2>3, <2>4, ReadBlockCases, Zenon
<1>4. CASE ReceiverHandleBlock
  <2>1. lastBlock # {} \/ redoBlocks # <<>>
    BY <1>4 DEF ReceiverHandleBlock, ProgressInv
  <2>2. UNCHANGED <<senderVars, outcome>>
    BY <1>4, <2>1, Zenon DEF ReceiverHandleBlock, ReceiverWrites
  <2>3. receiverState' = "handleBlock" => redoBlocks' # <<>>
    BY <1>4 DEF ReceiverHandleBlock
  <2>. QED  BY <1>b, <1>c, <2>2, <2>3
<1>5. CASE ReceiverReadDataSent
  BY <1>5, <1>b, <1>c DEF ReceiverReadDataSent, ReceiverReads
<1>6. CASE ReceiverWriteDataReceived
  <2>1. UNCHANGED senderVars /\ receiverState' = "done"
    BY <1>6 DEF ReceiverWriteDataReceived, ReceiverWrites
  <2>2. outcome'["receiver"] = "ok" /\ outcome'["sender"] = outcome["sender"]
    BY <1>6, <1>a, LoopResults, Zenon DEF ReceiverWriteDataReceived
  <2>. QED  BY <1>b, <2>1, <2>2
<1>7. CASE ReceiverReadUnexpected
  <2>1. UNCHANGED senderVars  BY <1>7 DEF ReceiverReadUnexpected, ReceiverReads
  <2>2. outcome'["receiver"] = "UnexpectedMessage" /\ outcome'["sender"] = outcome["sender"]
    BY <1>7, <1>a, LoopResults, Zenon DEF ReceiverReadUnexpected
  <2>. QED  BY <1>b, <2>1, <2>2
<1>. QED  BY <1>1, <1>2, <1>3, <1>4, <1>5, <1>6, <1>7 DEF ReceiverStep

\* ProgressInv holds throughout for every file that is not empty.
THEOREM Progress == ASSUME TotalSize > 0 PROVE Spec => []ProgressInv
<1>1. Init => ProgressInv
  BY DEF Init, ProgressInv, NoPanic, Running, Sides
<1>2. TypeOK /\ DeliveryInv /\ ProgressInv /\ [Next]_vars => ProgressInv'
  <2> SUFFICES ASSUME TypeOK, DeliveryInv, ProgressInv, [Next]_vars PROVE ProgressInv'
    OBVIOUS
  <2>1. CASE CorruptBlock
    BY <2>1 DEF CorruptBlock, ProgressInv, NoPanic, Running, senderVars, receiverVars
  <2>2. ASSUME NEW side \in Sides, IOError(side) PROVE ProgressInv'
    <3>1. /\ UNCHANGED <<senderVars, receiverVars>>
          /\ outcome' = [outcome EXCEPT ![side] = "IOError"]
      BY <2>2 DEF IOError
    <3>2. outcome'[side] = "IOError" /\ \A s \in Sides \ {side} : outcome'[s] = outcome[s]
      BY <3>1, OutcomeOf DEF TypeOK
    <3>3. \A s \in Sides : /\ outcome'[s] = "running" => outcome[s] = "running"
                           /\ outcome'[s] # "panic"
      BY <3>2 DEF ProgressInv, NoPanic
    <3>. QED  BY <3>1, <3>3 DEF ProgressInv, NoPanic, Running, Sides, senderVars, receiverVars
  <2>3. CASE UNCHANGED vars
    BY <2>3 DEF vars, ProgressInv, NoPanic, Running, senderVars, receiverVars
  <2>. QED  BY <2>1, <2>2, <2>3, SenderProgress, ReceiverProgress DEF Next
<1>. QED  BY <1>1, <1>2, TypeCorrect, Delivery, PTL DEF Spec

\* No assertion of the Sender or the Receiver fails when the file is not empty.
THEOREM AssertionsHold == ASSUME TotalSize > 0 PROVE Spec => []NoPanic
<1>1. ProgressInv => NoPanic  BY DEF ProgressInv
<1>. QED  BY <1>1, Progress, PTL
-----------------------------------------------------------------------------
(* The pipeline: as long as no block is damaged and no I/O fails, the two  *)
(* queues hold what PipelineInv says, so no message ever meets a state of  *)
(* the other automaton that has no transition for it.                      *)

\* What WriteMessage appends to the queue towards the Receiver.
LEMMA BlockStreamAppend ==
    ASSUME NEW q \in Seq(SenderMessages), NEW h \in Nat, NEW f \in Nat, NEW n \in Nat,
           BlockStream(q, h, f, n, 0)
    PROVE  /\ h = 0 /\ n = 0 => BlockStream(Append(q, Header), 1, f, 0, 0)
           /\ BlockStream(Append(q, BlockMsg(f + n, "correct")), h, f, n + 1, 0)
           /\ BlockStream(Append(q, DataSent), h, f, n, 1)
<1>1. /\ Len(q) = h + n
      /\ \A k \in 1 .. Len(q) : q[k] = IF k <= h THEN Header
                                       ELSE BlockMsg(f + (k - h - 1), "correct")
  BY DEF BlockStream
<1>2. ASSUME NEW m
      PROVE  /\ Len(Append(q, m)) = h + n + 1
             /\ \A k \in 1 .. h + n : Append(q, m)[k] = q[k]
             /\ Append(q, m)[h + n + 1] = m
  BY <1>1
<1> HIDE DEF Header, DataSent, BlockMsg
<1>3. ASSUME h = 0, n = 0 PROVE BlockStream(Append(q, Header), 1, f, 0, 0)
  BY <1>1, <1>2, <1>3 DEF BlockStream
<1>4. BlockStream(Append(q, BlockMsg(f + n, "correct")), h, f, n + 1, 0)
  <2> DEFINE s == Append(q, BlockMsg(f + n, "correct"))
  <2>1. \A k \in 1 .. h + n : s[k] = IF k <= h THEN Header
                                     ELSE BlockMsg(f + (k - h - 1), "correct")
    BY <1>1, <1>2
  <2>2. s[h + n + 1] = BlockMsg(f + ((h + n + 1) - h - 1), "correct")
    <3>1. f + n = f + ((h + n + 1) - h - 1)  OBVIOUS
    <3>. QED  BY <1>2, <3>1
  <2>3. Len(s) = h + n + 1  BY <1>2
  <2> HIDE DEF s
  <2>4. BlockStream(s, h, f, n + 1, 0)  BY <2>1, <2>2, <2>3 DEF BlockStream
  <2>. QED  BY <2>4 DEF s
<1>5. BlockStream(Append(q, DataSent), h, f, n, 1)
  <2> DEFINE s == Append(q, DataSent)
  <2>1. \A k \in 1 .. h + n : s[k] = IF k <= h THEN Header
                                     ELSE BlockMsg(f + (k - h - 1), "correct")
    BY <1>1, <1>2
  <2>2. Len(s) = h + n + 1 /\ s[h + n + 1] = DataSent  BY <1>2
  <2> HIDE DEF s
  <2>4. BlockStream(s, h, f, n, 1)  BY <2>1, <2>2 DEF BlockStream
  <2>. QED  BY <2>4 DEF s
<1>. QED  BY <1>3, <1>4, <1>5

\* The first message of a queue towards the Receiver, and what is left.
BlockFirst(q, h, f, n, d) ==
    \/ h = 1 /\ Head(q) = Header /\ BlockStream(Tail(q), 0, f, n, d)
    \/ /\ h = 0 /\ n > 0 /\ Head(q) = BlockMsg(f, "correct")
       /\ BlockStream(Tail(q), 0, f + 1, n - 1, d)
    \/ /\ h = 0 /\ n = 0 /\ d = 1 /\ Head(q) = DataSent
       /\ BlockStream(Tail(q), 0, f, 0, 0)

\* What ReadMessage takes from the queue towards the Receiver.
LEMMA BlockStreamHead ==
    ASSUME NEW q \in Seq(SenderMessages), q # <<>>,
           NEW h \in {0, 1}, NEW f \in Nat, NEW n \in Nat, NEW d \in {0, 1},
           BlockStream(q, h, f, n, d)
    PROVE  BlockFirst(q, h, f, n, d)
<1> USE DEF BlockFirst
<1>1. /\ Head(q) = q[1] /\ Len(q) > 0 /\ Len(Tail(q)) = Len(q) - 1
      /\ \A k \in 1 .. Len(q) - 1 : Tail(q)[k] = q[k + 1]
  BY QueueHead
<1>2. /\ Len(q) = h + n + d
      /\ \A k \in 1 .. Len(q) :
            q[k] = IF k <= h THEN Header
                   ELSE IF k <= h + n THEN BlockMsg(f + (k - h - 1), "correct")
                   ELSE DataSent
  BY DEF BlockStream
<1> DEFINE t == Tail(q)
<1>3. Len(t) = h + n + d - 1 /\ \A k \in 1 .. h + n + d - 1 : t[k] = q[k + 1]
  BY <1>1, <1>2
<1> HIDE DEF Header, DataSent, BlockMsg, t
<1>4. CASE h = 1
  <2>1. Head(q) = Header  BY <1>1, <1>2, <1>4
  <2>2. ASSUME NEW k \in 1 .. Len(t)
        PROVE  t[k] = IF k <= 0 THEN Header
                      ELSE IF k <= 0 + n THEN BlockMsg(f + (k - 0 - 1), "correct")
                      ELSE DataSent
    <3>1. f + ((k + 1) - 1 - 1) = f + (k - 0 - 1)  OBVIOUS
    <3>. QED  BY <1>2, <1>3, <1>4, <3>1
  <2>3. BlockStream(t, 0, f, n, d)  BY <1>3, <1>4, <2>2 DEF BlockStream
  <2>. QED  BY <1>4, <2>1, <2>3 DEF t
<1>5. CASE h = 0 /\ n > 0
  <2>1. Head(q) = BlockMsg(f, "correct")
    <3>1. f + (1 - 0 - 1) = f  OBVIOUS
    <3>. QED  BY <1>1, <1>2, <1>5, <3>1
  <2>2. ASSUME NEW k \in 1 .. Len(t)
        PROVE  t[k] = IF k <= 0 THEN Header
                      ELSE IF k <= 0 + (n - 1)
                           THEN BlockMsg((f + 1) + (k - 0 - 1), "correct")
                      ELSE DataSent
    <3>1. f + ((k + 1) - 0 - 1) = (f + 1) + (k - 0 - 1)  OBVIOUS
    <3>. QED  BY <1>2, <1>3, <1>5, <3>1
  <2>3. BlockStream(t, 0, f + 1, n - 1, d)  BY <1>3, <1>5, <2>2 DEF BlockStream
  <2>. QED  BY <1>5, <2>1, <2>3 DEF t
<1>6. CASE h = 0 /\ n = 0
  <2>1. d = 1 /\ Head(q) = DataSent  BY <1>1, <1>2, <1>6
  <2>2. BlockStream(t, 0, f, 0, 0)  BY <1>3, <1>6, <2>1 DEF BlockStream
  <2>. QED  BY <1>6, <2>1, <2>2 DEF t
<1>7. h = 1 \/ (h = 0 /\ n > 0) \/ (h = 0 /\ n = 0)  OBVIOUS
<1>. QED  BY <1>4, <1>5, <1>6, <1>7, Zenon

\* What WriteMessage appends to the queue towards the Sender.
LEMMA ReceiptStreamAppend ==
    ASSUME NEW q \in Seq(ReceiverMessages), NEW h \in Nat, NEW f \in Nat, NEW n \in Nat,
           ReceiptStream(q, h, f, n, 0)
    PROVE  /\ h = 0 /\ n = 0 => ReceiptStream(Append(q, Acknowledge), 1, f, 0, 0)
           /\ ReceiptStream(Append(q, BlockReceived(f + n)), h, f, n + 1, 0)
           /\ ReceiptStream(Append(q, DataReceived), h, f, n, 1)
<1>1. /\ Len(q) = h + n
      /\ \A k \in 1 .. Len(q) : q[k] = IF k <= h THEN Acknowledge
                                       ELSE BlockReceived(f + (k - h - 1))
  BY DEF ReceiptStream
<1>2. ASSUME NEW m
      PROVE  /\ Len(Append(q, m)) = h + n + 1
             /\ \A k \in 1 .. h + n : Append(q, m)[k] = q[k]
             /\ Append(q, m)[h + n + 1] = m
  BY <1>1
<1> HIDE DEF Acknowledge, DataReceived, BlockReceived
<1>3. ASSUME h = 0, n = 0 PROVE ReceiptStream(Append(q, Acknowledge), 1, f, 0, 0)
  BY <1>1, <1>2, <1>3 DEF ReceiptStream
<1>4. ReceiptStream(Append(q, BlockReceived(f + n)), h, f, n + 1, 0)
  <2> DEFINE s == Append(q, BlockReceived(f + n))
  <2>1. \A k \in 1 .. h + n : s[k] = IF k <= h THEN Acknowledge
                                     ELSE BlockReceived(f + (k - h - 1))
    BY <1>1, <1>2
  <2>2. s[h + n + 1] = BlockReceived(f + ((h + n + 1) - h - 1))
    <3>1. f + n = f + ((h + n + 1) - h - 1)  OBVIOUS
    <3>. QED  BY <1>2, <3>1
  <2>3. Len(s) = h + n + 1  BY <1>2
  <2> HIDE DEF s
  <2>4. ASSUME NEW k \in 1 .. Len(s)
        PROVE  s[k] = IF k <= h THEN Acknowledge ELSE BlockReceived(f + (k - h - 1))
    <3>1. CASE k = h + n + 1  BY <2>2, <3>1
    <3>2. CASE k # h + n + 1  BY <2>1, <2>3, <3>2
    <3>. QED  BY <3>1, <3>2
  <2>5. ReceiptStream(s, h, f, n + 1, 0)  BY <2>3, <2>4 DEF ReceiptStream
  <2>. QED  BY <2>5 DEF s
<1>5. ReceiptStream(Append(q, DataReceived), h, f, n, 1)
  <2> DEFINE s == Append(q, DataReceived)
  <2>1. \A k \in 1 .. h + n : s[k] = IF k <= h THEN Acknowledge
                                     ELSE BlockReceived(f + (k - h - 1))
    BY <1>1, <1>2
  <2>2. Len(s) = h + n + 1 /\ s[h + n + 1] = DataReceived  BY <1>2
  <2> HIDE DEF s
  <2>4. ReceiptStream(s, h, f, n, 1)  BY <2>1, <2>2 DEF ReceiptStream
  <2>. QED  BY <2>4 DEF s
<1>. QED  BY <1>3, <1>4, <1>5

\* The first message of a queue towards the Sender, and what is left.
ReceiptFirst(q, h, f, n, d) ==
    \/ h = 1 /\ Head(q) = Acknowledge /\ ReceiptStream(Tail(q), 0, f, n, d)
    \/ /\ h = 0 /\ n > 0 /\ Head(q) = BlockReceived(f)
       /\ ReceiptStream(Tail(q), 0, f + 1, n - 1, d)
    \/ /\ h = 0 /\ n = 0 /\ d = 1 /\ Head(q) = DataReceived
       /\ ReceiptStream(Tail(q), 0, f, 0, 0)

\* What ReadMessage takes from the queue towards the Sender.
LEMMA ReceiptStreamHead ==
    ASSUME NEW q \in Seq(ReceiverMessages), q # <<>>,
           NEW h \in {0, 1}, NEW f \in Nat, NEW n \in Nat, NEW d \in {0, 1},
           ReceiptStream(q, h, f, n, d)
    PROVE  ReceiptFirst(q, h, f, n, d)
<1> USE DEF ReceiptFirst
<1>1. /\ Head(q) = q[1] /\ Len(q) > 0 /\ Len(Tail(q)) = Len(q) - 1
      /\ \A k \in 1 .. Len(q) - 1 : Tail(q)[k] = q[k + 1]
  BY QueueHead
<1>2. /\ Len(q) = h + n + d
      /\ \A k \in 1 .. Len(q) :
            q[k] = IF k <= h THEN Acknowledge
                   ELSE IF k <= h + n THEN BlockReceived(f + (k - h - 1))
                   ELSE DataReceived
  BY DEF ReceiptStream
<1> DEFINE t == Tail(q)
<1>3. Len(t) = h + n + d - 1 /\ \A k \in 1 .. h + n + d - 1 : t[k] = q[k + 1]
  BY <1>1, <1>2
<1> HIDE DEF Acknowledge, DataReceived, BlockReceived, t
<1>4. CASE h = 1
  <2>1. Head(q) = Acknowledge  BY <1>1, <1>2, <1>4
  <2>2. ASSUME NEW k \in 1 .. Len(t)
        PROVE  t[k] = IF k <= 0 THEN Acknowledge
                      ELSE IF k <= 0 + n THEN BlockReceived(f + (k - 0 - 1))
                      ELSE DataReceived
    <3>1. f + ((k + 1) - 1 - 1) = f + (k - 0 - 1)  OBVIOUS
    <3>. QED  BY <1>2, <1>3, <1>4, <3>1
  <2>3. ReceiptStream(t, 0, f, n, d)  BY <1>3, <1>4, <2>2 DEF ReceiptStream
  <2>. QED  BY <1>4, <2>1, <2>3 DEF t
<1>5. CASE h = 0 /\ n > 0
  <2>1. Head(q) = BlockReceived(f)
    <3>1. f + (1 - 0 - 1) = f  OBVIOUS
    <3>. QED  BY <1>1, <1>2, <1>5, <3>1
  <2>2. ASSUME NEW k \in 1 .. Len(t)
        PROVE  t[k] = IF k <= 0 THEN Acknowledge
                      ELSE IF k <= 0 + (n - 1)
                           THEN BlockReceived((f + 1) + (k - 0 - 1))
                      ELSE DataReceived
    <3>1. f + ((k + 1) - 0 - 1) = (f + 1) + (k - 0 - 1)  OBVIOUS
    <3>. QED  BY <1>2, <1>3, <1>5, <3>1
  <2>3. ReceiptStream(t, 0, f + 1, n - 1, d)  BY <1>3, <1>5, <2>2 DEF ReceiptStream
  <2>. QED  BY <1>5, <2>1, <2>3 DEF t
<1>6. CASE h = 0 /\ n = 0
  <2>1. d = 1 /\ Head(q) = DataReceived  BY <1>1, <1>2, <1>6
  <2>2. ReceiptStream(t, 0, f, 0, 0)  BY <1>3, <1>6, <2>1 DEF ReceiptStream
  <2>. QED  BY <1>6, <2>1, <2>2 DEF t
<1>7. h = 1 \/ (h = 0 /\ n > 0) \/ (h = 0 /\ n = 0)  OBVIOUS
<1>. QED  BY <1>4, <1>5, <1>6, <1>7, Zenon

-----------------------------------------------------------------------------
(* The sides                                                               *)

\* The part of InStep that is about the states and the counters.
Positions ==
    /\ receivedCount <= Acked /\ nextBlockIndex <= nextIndex
    /\ senderState = "initialized" => receiverState = "initialized" /\ nextIndex = 0
    /\ (nextIndex < BlockCount)
          <=> senderState \in {"initialized", "inPrologue", "inProgress"}
    /\ senderState \in BeforeAcknowledge => receivedCount = 0
    /\ receiverState \in {"initialized", "sendAcknowledge"}
          => nextBlockIndex = 0 /\ senderState \in BeforeAcknowledge
    /\ receiverState = "handleBlock" => nextBlockIndex > 0
    /\ receiverState = "needBlock" => nextBlockIndex < BlockCount
    /\ receiverState \in {"needDataSent", "sendDataReceived", "done"}
          => nextBlockIndex = BlockCount
    /\ receiverState \in {"sendDataReceived", "done"}
          => senderState \in {"needDataReceived", "done"}
    /\ senderState = "done" => receiverState = "done" /\ receivedCount = BlockCount

\* The part of InStep that is about what the two sides hold.
Holdings ==
    /\ redoQueue = <<>> /\ redoBlocks = <<>>
    /\ outcome["sender"] = IF senderState = "done" THEN "ok" ELSE "running"
    /\ outcome["receiver"] = IF receiverState = "done" THEN "ok" ELSE "running"
    /\ received = {i \in Blocks : i < receivedCount}
    /\ file = [i \in Blocks |-> IF i < nextBlockIndex THEN "good" ELSE "none"]
    /\ writtenCount = nextBlockIndex
    /\ lastBlock = IF receiverState = "handleBlock" THEN {nextBlockIndex - 1} ELSE {}

\* InStep is the two parts.
LEMMA InStepParts ==
    (InStep <=> Positions /\ Holdings) /\ (Positions' /\ Holdings' => InStep')
<1>1. InStep <=> Positions /\ Holdings  BY Zenon DEF InStep, Positions, Holdings
<1>2. Positions' /\ Holdings' => InStep'  BY Zenon DEF InStep, Positions, Holdings
<1>. QED  BY <1>1, <1>2, Zenon

\* One counts nothing or one thing.
LEMMA ZeroOrOne == \A c : One(c) \in {0, 1} /\ One(c) \in Nat
<1>1. 0 \in Nat /\ 1 \in Nat  OBVIOUS
<1>. QED  BY <1>1, Zenon DEF One

\* A counter that goes up by one.
LEMMA CountUp ==
    /\ \A k \in Nat : k + 1 \in Nat /\ ~(k < k) /\ ~(k > k) /\ (k + 1) - 1 = k
    /\ \A i, k \in Nat : i < k + 1 <=> i < k \/ i = k
OBVIOUS

\* Two counters and how far one is behind the other.
LEMMA CountBehind ==
    \A i, k \in Nat : /\ i < k <=> ~(i >= k)
                      /\ i < k => i + 1 <= k
                      /\ i - k > 0 <=> k < i
OBVIOUS

\* How many there are between two counters.
LEMMA CountBetween ==
    \A i, k \in Nat : /\ k + (i - k) = i
                      /\ (i + 1) - k = (i - k) + 1
                      /\ i - (k + 1) = (i - k) - 1
OBVIOUS

\* What is below a counter is below its bound.
LEMMA CountBound == \A i, k, l \in Nat : i < k /\ k <= l => i < l
OBVIOUS

\* The counters, and the differences between them, are natural numbers.
LEMMA Counters ==
    ASSUME TotalSize > 0, TypeOK, Pipeline
    PROVE  /\ BlockCount \in Nat /\ BlockCount > 0
           /\ nextIndex \in Nat /\ nextBlockIndex \in Nat /\ receivedCount \in Nat
           /\ nextIndex <= BlockCount /\ nextBlockIndex <= BlockCount
           /\ nextIndex - nextBlockIndex \in Nat /\ Acked - receivedCount \in Nat
           /\ Acked \in Nat /\ Acked <= nextBlockIndex
<1>1. BlockCount \in Nat /\ BlockCount > 0  BY BlockCountType, SizeAssumption
<1>2. nextIndex \in 0 .. BlockCount /\ nextBlockIndex \in 0 .. BlockCount /\ receivedCount \in Nat
  BY Zenon DEF TypeOK
<1>3. /\ nextIndex \in Nat /\ nextBlockIndex \in Nat
      /\ nextIndex <= BlockCount /\ nextBlockIndex <= BlockCount
  BY <1>1, <1>2
<1>4. receivedCount <= Acked /\ nextBlockIndex <= nextIndex  BY Zenon DEF Pipeline, InStep
<1>5. lastBlock = {} \/ nextBlockIndex > 0  BY Zenon DEF Pipeline, InStep
<1>6. PICK x : x = One(lastBlock # {}) /\ x \in {0, 1} /\ (x = 1 => nextBlockIndex > 0)
  <2>1. One(lastBlock # {}) = 1 => nextBlockIndex > 0  BY <1>5 DEF One
  <2>. QED  BY <2>1, ZeroOrOne, Zenon
<1>7. Acked = nextBlockIndex - x  BY <1>6, Zenon DEF Acked
<1>8. Acked \in Nat /\ Acked <= nextBlockIndex  BY <1>3, <1>6, <1>7
<1>9. nextIndex - nextBlockIndex \in Nat /\ Acked - receivedCount \in Nat
  BY <1>2, <1>3, <1>4, <1>8
<1>. QED  BY <1>1, <1>2, <1>3, <1>8, <1>9, Zenon

\* A step of the Sender keeps the pipeline, and none of its error or panic
\* paths is taken.
LEMMA SenderPipeline ==
    ASSUME TotalSize > 0, TypeOK, Pipeline, SenderStep
    PROVE  Pipeline'
<1> USE DEF senderVars, receiverVars, Running, BeforeAcknowledge
<1> DEFINE h == One(receiverState = "initialized" /\ senderState # "initialized")
           d == One(/\ senderState \in {"needDataReceived", "done"}
                    /\ receiverState \notin {"sendDataReceived", "done"})
           a == One(/\ receiverState \notin {"initialized", "sendAcknowledge"}
                    /\ senderState \in BeforeAcknowledge)
           e == One(receiverState = "done" /\ senderState # "done")
           n == nextIndex - nextBlockIndex
           m == Acked - receivedCount
<1>1. /\ BlockCount \in Nat /\ BlockCount > 0
      /\ nextIndex \in Nat /\ nextBlockIndex \in Nat /\ receivedCount \in Nat
      /\ nextIndex <= BlockCount /\ nextBlockIndex <= BlockCount
      /\ n \in Nat /\ m \in Nat /\ Acked \in Nat /\ Acked <= nextBlockIndex
  BY Counters, Zenon
<1>0. /\ h \in {0, 1} /\ d \in {0, 1} /\ a \in {0, 1} /\ e \in {0, 1}
      /\ h \in Nat /\ a \in Nat
  BY ZeroOrOne, Zenon
<1>2. /\ BlockStream(toReceiver, h, nextBlockIndex, n, d)
      /\ ReceiptStream(toSender, a, receivedCount, m, e)
      /\ toReceiver \in Seq(SenderMessages) /\ toSender \in Seq(ReceiverMessages)
  BY Zenon DEF Pipeline, ToReceiverInv, ToSenderInv, TypeOK
<1>3. CASE SenderWriteHeader
  <2>1. h = 0 /\ n = 0 /\ d = 0 /\ a = 0 /\ e = 0 /\ nextBlockIndex = 0
    <3>1. senderState = "initialized" /\ receiverState = "initialized"
      BY <1>3, Zenon DEF SenderWriteHeader, Pipeline, InStep
    <3>2. nextIndex = 0 /\ nextBlockIndex = 0  BY <3>1, Zenon DEF Pipeline, InStep
    <3>3. n = 0  BY <3>2
    <3>4. h = 0 /\ d = 0 /\ a = 0 /\ e = 0  BY <3>1 DEF One
    <3>. QED  BY <3>2, <3>3, <3>4, Zenon
  <2>2. BlockStream(toReceiver', 1, nextBlockIndex, 0, 0)
    <3>1. BlockStream(toReceiver, 0, nextBlockIndex, 0, 0)  BY <1>2, <2>1, Zenon
    <3>. QED  BY <1>1, <1>2, <1>3, <3>1, BlockStreamAppend, Zenon DEF SenderWriteHeader, SenderWrites
  <2>3. InStep'
    BY <1>1, <1>3, Zenon DEF SenderWriteHeader, SenderWrites, Pipeline, InStep, Acked
  <2>4. ToReceiverInv'
    BY <1>3, <2>1, <2>2, Zenon DEF SenderWriteHeader, SenderWrites, ToReceiverInv, One, Pipeline, InStep
  <2>5. ToSenderInv'
    BY <1>2, <1>3, <2>1, Zenon DEF SenderWriteHeader, SenderWrites, ToSenderInv, One, Acked,
                                   Pipeline, InStep
  <2>. QED  BY <2>3, <2>4, <2>5 DEF Pipeline
<1>4. ASSUME NEW at, NEW last, SenderWriteBlock(at, last),
             \/ at = "inPrologue" /\ last = "needAcknowledge"
             \/ at = "inProgress" /\ last = "transferred"
      PROVE  Pipeline'
  <2>1. senderState = at /\ redoQueue = <<>> /\ nextIndex < BlockCount /\ d = 0
    BY <1>1, <1>4, Zenon DEF SenderWriteBlock, Pipeline, InStep, One
  <2>2. /\ ~ReaderIsDone(nextIndex, redoQueue)
        /\ ReaderIsDone(nextIndex + 1, redoQueue) <=> nextIndex + 1 >= BlockCount
    <3>1. nextIndex + 1 \in Nat /\ ~(nextIndex >= BlockCount)
      BY <1>1, <2>1, CountUp, CountBehind, Zenon
    <3>. QED  BY <1>1, <2>1, <3>1, EndsAgree, Zenon DEF ReaderIsDone
  <2>3. /\ nextIndex' = nextIndex + 1 /\ redoQueue' = redoQueue
        /\ senderState' = IF nextIndex + 1 >= BlockCount THEN last ELSE at
        /\ toReceiver' = Append(toReceiver, BlockMsg(nextIndex, "correct"))
        /\ UNCHANGED <<received, receivedCount, receiverVars, toSender, outcome>>
    BY <1>4, <2>1, <2>2, Zenon DEF SenderWriteBlock, NextBlock, SenderWrites
  <2>4. BlockStream(toReceiver', h, nextBlockIndex, n + 1, 0)
    <3>1. nextBlockIndex + n = nextIndex  BY <1>1, CountBetween, Zenon
    <3> HIDE DEF h, n, d
    <3>2. BlockStream(toReceiver, h, nextBlockIndex, n, 0)  BY <1>2, <2>1, Zenon
    <3>3. BlockStream(Append(toReceiver, BlockMsg(nextBlockIndex + n, "correct")),
                      h, nextBlockIndex, n + 1, 0)
      BY <1>0, <1>1, <1>2, <3>2, BlockStreamAppend, Zenon
    <3>. QED  BY <2>3, <3>1, <3>3, Zenon
  <2>5. InStep'
    <3>1. Positions /\ Holdings  BY InStepParts, Zenon DEF Pipeline
    <3>2. Acked' = Acked  BY <2>3, Zenon DEF Acked
    <3>3. /\ nextBlockIndex <= nextIndex + 1
          /\ nextIndex + 1 < BlockCount <=> ~(nextIndex + 1 >= BlockCount)
      <4>1. nextBlockIndex <= nextIndex  BY <3>1, Zenon DEF Positions
      <4>2. nextBlockIndex <= nextIndex + 1  BY <1>1, <4>1
      <4>3. nextIndex + 1 \in Nat  BY <1>1, CountUp, Zenon
      <4>. QED  BY <1>1, <4>2, <4>3, CountBehind, Zenon
    <3>4. /\ senderState \notin {"initialized", "done"} /\ senderState' \notin {"initialized", "done"}
          /\ senderState \in BeforeAcknowledge <=> senderState' \in BeforeAcknowledge
          /\ senderState \notin {"needDataReceived", "done"}
          /\ (nextIndex + 1 < BlockCount) <=> senderState' \in {"initialized", "inPrologue", "inProgress"}
      BY <1>4, <2>1, <2>3, <3>3, Zenon
    <3>5. Positions'  BY <2>3, <3>1, <3>2, <3>3, <3>4, Zenon DEF Positions
    <3>6. Holdings'  BY <2>3, <3>1, <3>4, Zenon DEF Holdings
    <3>. QED  BY <3>5, <3>6, InStepParts, Zenon
  <2>6. ToReceiverInv'
    <3>0. (nextIndex + 1) - nextBlockIndex = n + 1  BY <1>1, CountBetween, Zenon
    <3>1. n + 1 = nextIndex' - nextBlockIndex'  BY <2>3, <3>0, Zenon
    <3>. QED  BY <1>4, <2>1, <2>3, <2>4, <3>1 DEF ToReceiverInv, One
  <2>7. ToSenderInv'
    BY <1>2, <1>4, <2>1, <2>3 DEF ToSenderInv, One, Acked
  <2>. QED  BY <2>5, <2>6, <2>7 DEF Pipeline
<1>5. CASE SenderWriteDataSent
  <2>1. d = 0 /\ receiverState \notin {"sendDataReceived", "done", "initialized"}
    BY <1>1, <1>5 DEF SenderWriteDataSent, Pipeline, InStep, One
  <2>2. BlockStream(toReceiver', h, nextBlockIndex, n, 1)
    <3> HIDE DEF h, n, d
    <3>1. BlockStream(toReceiver, h, nextBlockIndex, n, 0)  BY <1>2, <2>1
    <3>2. BlockStream(Append(toReceiver, DataSent), h, nextBlockIndex, n, 1)
      BY <1>0, <1>1, <1>2, <3>1, BlockStreamAppend, Zenon
    <3>. QED  BY <1>5, <3>2 DEF SenderWriteDataSent, SenderWrites
  <2>3. InStep'
    BY <1>1, <1>5, Zenon DEF SenderWriteDataSent, SenderWrites, Pipeline, InStep, Acked
  <2>4. ToReceiverInv'
    BY <1>5, <2>1, <2>2 DEF SenderWriteDataSent, SenderWrites, ToReceiverInv, One
  <2>5. ToSenderInv'
    BY <1>2, <1>5, <2>1 DEF SenderWriteDataSent, SenderWrites, ToSenderInv, One, Acked
  <2>. QED  BY <2>3, <2>4, <2>5 DEF Pipeline
\* What a reading Sender finds at the head of its queue.
<1>6. ASSUME SenderReads
      PROVE  /\ senderState # "done" /\ toSender' = Tail(toSender)
             /\ UNCHANGED <<receiverVars, toReceiver>>
             /\ \/ /\ a = 1 /\ Head(toSender) = Acknowledge
                   /\ ReceiptStream(toSender', 0, receivedCount, m, e)
                \/ /\ a = 0 /\ m > 0 /\ Head(toSender) = BlockReceived(receivedCount)
                   /\ ReceiptStream(toSender', 0, receivedCount + 1, m - 1, e)
                \/ /\ a = 0 /\ m = 0 /\ e = 1 /\ Head(toSender) = DataReceived
                   /\ ReceiptStream(toSender', 0, receivedCount, 0, 0)
  <2>1. /\ toSender # <<>> /\ toSender' = Tail(toSender)
        /\ outcome["sender"] = "running" /\ UNCHANGED <<receiverVars, toReceiver>>
    BY <1>6 DEF SenderReads
  <2>2. senderState # "done"  BY <2>1 DEF Pipeline, InStep
  <2> HIDE DEF a, m, e
  <2>3. \/ a = 1 /\ Head(toSender) = Acknowledge
           /\ ReceiptStream(Tail(toSender), 0, receivedCount, m, e)
        \/ /\ a = 0 /\ m > 0 /\ Head(toSender) = BlockReceived(receivedCount)
           /\ ReceiptStream(Tail(toSender), 0, receivedCount + 1, m - 1, e)
        \/ /\ a = 0 /\ m = 0 /\ e = 1 /\ Head(toSender) = DataReceived
           /\ ReceiptStream(Tail(toSender), 0, receivedCount, 0, 0)
    <3>1. /\ toSender \in Seq(ReceiverMessages) /\ toSender # <<>>
          /\ a \in {0, 1} /\ receivedCount \in Nat /\ m \in Nat /\ e \in {0, 1}
          /\ ReceiptStream(toSender, a, receivedCount, m, e)
      BY <1>0, <1>1, <1>2, <2>1, Zenon
    <3>2. ReceiptFirst(toSender, a, receivedCount, m, e)  BY <3>1, ReceiptStreamHead, Zenon
    <3>. QED  BY <3>2, Zenon DEF ReceiptFirst
  <2>. QED  BY <2>1, <2>2, <2>3, Zenon
\* Every message meets a state that has a transition for it.
<1>7. /\ a = 1 => senderState \in {"inPrologue", "needAcknowledge"}
      /\ a = 0 /\ m > 0 => senderState \in {"inProgress", "transferred", "needDataReceived", "done"}
      /\ e = 1 => senderState = "needDataReceived"
  <2>1. a = 1 => senderState \in {"inPrologue", "needAcknowledge"}
    BY DEF Pipeline, InStep, One
  <2>2. a = 0 /\ senderState \in BeforeAcknowledge => m = 0
    <3> SUFFICES ASSUME a = 0, senderState \in BeforeAcknowledge PROVE m = 0  OBVIOUS
    <3>1. receiverState \in {"initialized", "sendAcknowledge"}  BY DEF One
    <3>2. nextBlockIndex = 0 /\ lastBlock = {} /\ receivedCount = 0
      BY <3>1 DEF Pipeline, InStep
    <3>. QED  BY <3>2 DEF Acked, One
  <2>3. e = 1 => senderState = "needDataReceived"  BY DEF Pipeline, InStep, One
  <2>4. senderState \in SenderStates  BY DEF TypeOK
  <2>5. a = 0 /\ m > 0 => senderState \notin BeforeAcknowledge
    <3> HIDE DEF a, m
    <3>. QED  BY <1>1, <2>2
  <2> HIDE DEF a, m, e
  <2>. QED  BY <2>1, <2>3, <2>4, <2>5 DEF SenderStates
<1>8. CASE SenderReadAcknowledge
  <2>1. a = 1 /\ ReceiptStream(toSender', 0, receivedCount, m, e)
    <3> HIDE DEF a, m, e
    <3>1. SenderReads /\ Head(toSender) = Acknowledge
      BY <1>8 DEF SenderReadAcknowledge
    <3>2. Head(toSender) # BlockReceived(receivedCount) /\ Head(toSender) # DataReceived
      BY <3>1 DEF Acknowledge, BlockReceived, DataReceived
    <3>. QED  BY <1>6, <3>1, <3>2, Zenon
  <2>2. /\ \/ senderState = "inPrologue" /\ senderState' = "inProgress"
           \/ senderState = "needAcknowledge" /\ senderState' = "transferred"
        /\ UNCHANGED <<nextIndex, redoQueue, received, receivedCount, receiverVars,
                       toReceiver, outcome>>
    BY <1>8 DEF SenderReadAcknowledge, SenderReads
  <2>3. InStep'
    <3>1. Positions /\ Holdings  BY InStepParts, Zenon DEF Pipeline
    <3>2. Acked' = Acked  BY <2>2, Zenon DEF Acked
    <3>3. receiverState \notin {"initialized", "sendAcknowledge"}  BY <2>1 DEF One
    <3>4. Positions'  BY <2>2, <3>1, <3>2, <3>3, Zenon DEF Positions
    <3>5. Holdings'  BY <2>2, <3>1, Zenon DEF Holdings
    <3>. QED  BY <3>4, <3>5, InStepParts, Zenon
  <2>4. ToReceiverInv'  BY <1>2, <2>2 DEF ToReceiverInv, One
  <2>5. ToSenderInv'  BY <2>1, <2>2 DEF ToSenderInv, One, Acked
  <2>. QED  BY <2>3, <2>4, <2>5 DEF Pipeline
<1>9. CASE SenderReadBlockReceived
  <2>1. /\ m > 0 /\ Head(toSender) = BlockReceived(receivedCount)
        /\ a = 0 /\ ReceiptStream(toSender', 0, receivedCount + 1, m - 1, e)
    <3> HIDE DEF a, m, e
    <3>1. SenderReads /\ Head(toSender).type = "BlockReceived"
      BY <1>9 DEF SenderReadBlockReceived
    <3>2. Head(toSender) # Acknowledge /\ Head(toSender) # DataReceived
      BY <3>1 DEF Acknowledge, DataReceived
    <3>. QED  BY <1>6, <3>1, <3>2, Zenon
  <2>2. receivedCount \in Blocks /\ receivedCount < Acked
    <3>1. Acked - receivedCount > 0  BY <2>1, Zenon
    <3>2. receivedCount < Acked  BY <1>1, <3>1, CountBehind, Zenon
    <3>3. receivedCount < BlockCount  BY <1>1, <3>2
    <3>. QED  BY <1>1, <3>2, <3>3, BlocksFacts, Zenon
  <2>3. receivedCount \notin received
    <3>1. received = {i \in Blocks : i < receivedCount}  BY Zenon DEF Pipeline, InStep
    <3>2. ~(receivedCount < receivedCount)  BY <1>1, CountUp, Zenon
    <3>. QED  BY <3>1, <3>2, Zenon
  <2>4. Head(toSender).index = receivedCount  BY <2>1 DEF BlockReceived
  <2>5. /\ received' = received \cup {receivedCount}
        /\ receivedCount' = receivedCount + 1
        /\ UNCHANGED <<senderState, nextIndex, redoQueue, receiverVars, toReceiver>>
    BY <1>9, <2>3, <2>4, Zenon DEF SenderReadBlockReceived, SenderReads
  <2>6. UNCHANGED outcome
    <3>1. ~(receivedCount' > BlockCount)
      <4>1. receivedCount < BlockCount  BY <1>1, <2>2, BlocksFacts, Zenon
      <4>. QED  BY <1>1, <2>5, <4>1
    <3>2. outcome' = [outcome EXCEPT !["sender"] = "running"] /\ outcome["sender"] = "running"
      BY <1>9, <2>3, <2>4, <3>1 DEF SenderReadBlockReceived, SenderReads, LoopResult
    <3>. QED  BY <3>2 DEF TypeOK, Sides
  <2>7. received' = {i \in Blocks : i < receivedCount'}
    <3>1. received = {i \in Blocks : i < receivedCount}  BY DEF Pipeline, InStep
    <3>2. \A i \in Blocks : i < receivedCount' <=> i < receivedCount \/ i = receivedCount
      BY <1>1, <2>5, BlocksFacts, CountUp, Zenon
    <3>. QED  BY <2>2, <2>5, <3>1, <3>2, Zenon
  <2>8. InStep'
    <3>1. Acked' = Acked  BY <2>5 DEF Acked
    <3>2. senderState \notin BeforeAcknowledge /\ senderState # "done"
      BY <1>9, Zenon DEF SenderReadBlockReceived
    <3>3. receivedCount + 1 <= Acked  BY <1>1, <2>2, CountBehind, Zenon
    <3>4. Positions /\ Holdings  BY InStepParts, Zenon DEF Pipeline
    <3>5. Positions'  BY <2>5, <3>1, <3>2, <3>3, <3>4, Zenon DEF Positions
    <3>6. Holdings'  BY <2>5, <2>6, <2>7, <3>4, Zenon DEF Holdings
    <3>. QED  BY <3>5, <3>6, InStepParts, Zenon
  <2>9. ToReceiverInv'  BY <1>2, <2>5 DEF ToReceiverInv, One
  <2>10. ToSenderInv'
    <3>0. Acked' = Acked  BY <2>5, Zenon DEF Acked
    <3>1. Acked' - receivedCount' = m - 1
      <4>1. Acked - (receivedCount + 1) = m - 1  BY <1>1, CountBetween, Zenon
      <4>. QED  BY <2>5, <3>0, <4>1, Zenon
    <3>. QED  BY <2>1, <2>5, <3>1 DEF ToSenderInv, One
  <2>. QED  BY <2>8, <2>9, <2>10 DEF Pipeline
<1>10. ~SenderReadRedoBlock
  <2> SUFFICES ASSUME SenderReadRedoBlock PROVE FALSE  OBVIOUS
  <2>1. SenderReads /\ Head(toSender).type = "RedoBlock"  BY DEF SenderReadRedoBlock
  <2> HIDE DEF a, m, e
  <2>2. Head(toSender) \in {Acknowledge, BlockReceived(receivedCount), DataReceived}
    BY <1>6, <2>1
  <2>3. /\ Acknowledge.type # "RedoBlock" /\ DataReceived.type # "RedoBlock"
        /\ BlockReceived(receivedCount).type # "RedoBlock"
    BY DEF Acknowledge, BlockReceived, DataReceived
  <2>. QED  BY <2>1, <2>2, <2>3, Zenon
<1>11. CASE SenderReadDataReceived
  <2>1. a = 0 /\ m = 0 /\ e = 1 /\ ReceiptStream(toSender', 0, receivedCount, 0, 0)
    <3> HIDE DEF a, m, e
    <3>1. SenderReads /\ Head(toSender) = DataReceived
      BY <1>11 DEF SenderReadDataReceived
    <3>2. Head(toSender) # Acknowledge /\ Head(toSender) # BlockReceived(receivedCount)
      BY <3>1 DEF Acknowledge, BlockReceived, DataReceived
    <3>. QED  BY <1>6, <3>1, <3>2, Zenon
  <2>2. /\ receiverState = "done" /\ nextBlockIndex = BlockCount /\ lastBlock = {}
        /\ receivedCount = BlockCount
    <3>1. receiverState = "done"  BY <2>1 DEF One
    <3>2. nextBlockIndex = BlockCount /\ lastBlock = {}  BY <3>1 DEF Pipeline, InStep
    <3>. QED  BY <1>1, <2>1, <3>1, <3>2 DEF Acked, One
  <2>3. /\ senderState = "needDataReceived" /\ senderState' = "done"
        /\ outcome' = [outcome EXCEPT !["sender"] = "ok"]
        /\ UNCHANGED <<nextIndex, redoQueue, received, receivedCount, receiverVars, toReceiver>>
    <3>1. ~(receivedCount < BlockCount)  BY <1>1, <2>2
    <3>. QED  BY <1>11, <3>1 DEF SenderReadDataReceived, SenderReads, LoopResult
  <2>4. outcome'["sender"] = "ok" /\ outcome'["receiver"] = outcome["receiver"]
    BY <2>3 DEF TypeOK, Sides
  <2>5. InStep'  BY <1>1, <2>2, <2>3, <2>4, Zenon DEF Pipeline, InStep, Acked
  <2>6. ToReceiverInv'  BY <1>2, <2>2, <2>3 DEF ToReceiverInv, One
  <2>7. ToSenderInv'
    <3>1. Acked' - receivedCount' = 0  BY <1>1, <2>1, <2>3, Zenon DEF Acked
    <3>. QED  BY <2>1, <2>2, <2>3, <3>1 DEF ToSenderInv, One
  <2>. QED  BY <2>5, <2>6, <2>7 DEF Pipeline
<1>12. ~SenderReadUnexpected
  <2> SUFFICES ASSUME SenderReadUnexpected PROVE FALSE  OBVIOUS
  <2>1. SenderReads /\ senderState \notin SenderExpects(Head(toSender).type)
    BY DEF SenderReadUnexpected
  <2> HIDE DEF a, m, e
  <2>2. CASE a = 1 /\ Head(toSender) = Acknowledge
    BY <1>7, <2>1, <2>2 DEF SenderExpects, Acknowledge
  <2>3. CASE a = 0 /\ m > 0 /\ Head(toSender) = BlockReceived(receivedCount)
    BY <1>6, <1>7, <2>1, <2>3 DEF SenderExpects, BlockReceived
  <2>4. CASE e = 1 /\ Head(toSender) = DataReceived
    BY <1>7, <2>1, <2>4 DEF SenderExpects, DataReceived
  <2>. QED  BY <1>6, <2>1, <2>2, <2>3, <2>4
<1>. QED  BY <1>3, <1>4, <1>5, <1>8, <1>9, <1>10, <1>11, <1>12 DEF SenderStep

\* A step of the Receiver keeps the pipeline, and none of its error or panic
\* paths is taken.
LEMMA ReceiverPipeline ==
    ASSUME TotalSize > 0, TypeOK, Pipeline, ReceiverStep
    PROVE  Pipeline'
<1> USE DEF senderVars, receiverVars, Running, BeforeAcknowledge
<1> DEFINE h == One(receiverState = "initialized" /\ senderState # "initialized")
           d == One(/\ senderState \in {"needDataReceived", "done"}
                    /\ receiverState \notin {"sendDataReceived", "done"})
           a == One(/\ receiverState \notin {"initialized", "sendAcknowledge"}
                    /\ senderState \in BeforeAcknowledge)
           e == One(receiverState = "done" /\ senderState # "done")
           n == nextIndex - nextBlockIndex
           m == Acked - receivedCount
<1>1. /\ BlockCount \in Nat /\ BlockCount > 0
      /\ nextIndex \in Nat /\ nextBlockIndex \in Nat /\ receivedCount \in Nat
      /\ nextIndex <= BlockCount /\ nextBlockIndex <= BlockCount
      /\ n \in Nat /\ m \in Nat /\ Acked \in Nat /\ Acked <= nextBlockIndex
  BY Counters, Zenon
<1>0. /\ h \in {0, 1} /\ d \in {0, 1} /\ a \in {0, 1} /\ e \in {0, 1}
      /\ h \in Nat /\ a \in Nat
  BY ZeroOrOne, Zenon
<1>2. /\ BlockStream(toReceiver, h, nextBlockIndex, n, d)
      /\ ReceiptStream(toSender, a, receivedCount, m, e)
      /\ toReceiver \in Seq(SenderMessages) /\ toSender \in Seq(ReceiverMessages)
  BY Zenon DEF Pipeline, ToReceiverInv, ToSenderInv, TypeOK
\* What a reading Receiver finds at the head of its queue.
<1>3. ASSUME ReceiverReads
      PROVE  /\ receiverState \in {"initialized", "needBlock", "needDataSent"}
             /\ toReceiver' = Tail(toReceiver) /\ UNCHANGED <<senderVars, toSender>>
             /\ \/ /\ h = 1 /\ Head(toReceiver) = Header
                   /\ BlockStream(toReceiver', 0, nextBlockIndex, n, d)
                \/ /\ h = 0 /\ n > 0 /\ Head(toReceiver) = BlockMsg(nextBlockIndex, "correct")
                   /\ BlockStream(toReceiver', 0, nextBlockIndex + 1, n - 1, d)
                \/ /\ h = 0 /\ n = 0 /\ d = 1 /\ Head(toReceiver) = DataSent
                   /\ BlockStream(toReceiver', 0, nextBlockIndex, 0, 0)
  <2>1. /\ toReceiver # <<>> /\ toReceiver' = Tail(toReceiver) /\ ~ReceiverMustWrite
        /\ outcome["receiver"] = "running" /\ UNCHANGED <<senderVars, toSender>>
    BY <1>3 DEF ReceiverReads
  <2>2. receiverState \in {"initialized", "needBlock", "needDataSent"}
    BY <2>1, Zenon DEF Pipeline, InStep, TypeOK, ReceiverStates, ReceiverMustWrite
  <2> HIDE DEF h, n, d
  <2>3. \/ h = 1 /\ Head(toReceiver) = Header
           /\ BlockStream(Tail(toReceiver), 0, nextBlockIndex, n, d)
        \/ /\ h = 0 /\ n > 0 /\ Head(toReceiver) = BlockMsg(nextBlockIndex, "correct")
           /\ BlockStream(Tail(toReceiver), 0, nextBlockIndex + 1, n - 1, d)
        \/ /\ h = 0 /\ n = 0 /\ d = 1 /\ Head(toReceiver) = DataSent
           /\ BlockStream(Tail(toReceiver), 0, nextBlockIndex, 0, 0)
    <3>1. /\ toReceiver \in Seq(SenderMessages) /\ toReceiver # <<>>
          /\ h \in {0, 1} /\ nextBlockIndex \in Nat /\ n \in Nat /\ d \in {0, 1}
          /\ BlockStream(toReceiver, h, nextBlockIndex, n, d)
      BY <1>0, <1>1, <1>2, <2>1, Zenon
    <3>2. BlockFirst(toReceiver, h, nextBlockIndex, n, d)  BY <3>1, BlockStreamHead, Zenon
    <3>. QED  BY <3>2, Zenon DEF BlockFirst
  <2>. QED  BY <2>1, <2>2, <2>3, Zenon
\* Every message meets a state that has a transition for it.
<1>4. ASSUME receiverState \in {"initialized", "needBlock", "needDataSent"}
      PROVE  /\ h = 1 => receiverState = "initialized"
             /\ h = 0 /\ n > 0 => receiverState = "needBlock"
             /\ h = 0 /\ n = 0 /\ d = 1 => receiverState = "needDataSent"
  <2>1. h = 1 => receiverState = "initialized"  BY DEF One
  <2>2. ASSUME h = 0, receiverState = "initialized" PROVE n = 0 /\ d = 0
    <3>1. senderState = "initialized"  BY <2>2 DEF One
    <3>2. nextIndex = 0 /\ nextBlockIndex = 0  BY <2>2, <3>1 DEF Pipeline, InStep
    <3>. QED  BY <3>1, <3>2 DEF One
  <2>3. ASSUME receiverState = "needDataSent" PROVE n = 0
    <3>1. nextBlockIndex = BlockCount  BY <2>3, Zenon DEF Pipeline, InStep
    <3>2. nextIndex \in Nat /\ nextIndex <= BlockCount /\ nextIndex - nextBlockIndex \in Nat
      BY <1>1, Zenon
    <3>. QED  BY <1>1, <3>1, <3>2
  <2>4. ASSUME receiverState = "needBlock", n = 0 PROVE d = 0
    BY <1>1, <2>4 DEF Pipeline, InStep, One
  <2> HIDE DEF h, n, d
  <2>. QED  BY <1>0, <1>1, <1>4, <2>1, <2>2, <2>3, <2>4
<1>5. CASE ReceiverReadHeader
  <2>1. h = 1 /\ BlockStream(toReceiver', 0, nextBlockIndex, n, d)
    <3> HIDE DEF h, n, d
    <3>1. ReceiverReads /\ Head(toReceiver) = Header
      BY <1>5 DEF ReceiverReadHeader
    <3>2. Head(toReceiver) # BlockMsg(nextBlockIndex, "correct") /\ Head(toReceiver) # DataSent
      BY <3>1 DEF Header, BlockMsg, DataSent
    <3>. QED  BY <1>3, <3>1, <3>2, Zenon
  <2>2. /\ receiverState = "initialized" /\ receiverState' = "sendAcknowledge"
        /\ UNCHANGED <<nextBlockIndex, lastBlock, redoBlocks, file, writtenCount,
                       outcome, senderVars, toSender>>
    BY <1>5 DEF ReceiverReadHeader, ReceiverReads
  <2>3. senderState # "initialized"  BY <2>1 DEF One
  <2>4. InStep'  BY <1>1, <2>2, <2>3, Zenon DEF Pipeline, InStep, Acked
  <2>5. ToReceiverInv'  BY <2>1, <2>2 DEF ToReceiverInv, One
  <2>6. ToSenderInv'  BY <1>2, <2>2 DEF ToSenderInv, One, Acked
  <2>. QED  BY <2>4, <2>5, <2>6 DEF Pipeline
<1>6. CASE ReceiverWriteAcknowledge
  <2>1. /\ receiverState = "sendAcknowledge" /\ receiverState' = "needBlock"
        /\ toSender' = Append(toSender, Acknowledge)
        /\ UNCHANGED <<nextBlockIndex, lastBlock, redoBlocks, file, writtenCount,
                       outcome, senderVars, toReceiver>>
    BY <1>6 DEF ReceiverWriteAcknowledge, ReceiverWrites
  <2>2. /\ nextBlockIndex = 0 /\ lastBlock = {} /\ receivedCount = 0
        /\ senderState \in {"inPrologue", "needAcknowledge"}
    BY <2>1 DEF Pipeline, InStep
  <2>3. a = 0 /\ m = 0 /\ e = 0  BY <2>1, <2>2 DEF One, Acked
  <2>4. ReceiptStream(toSender', 1, receivedCount, 0, 0)
    <3>1. ReceiptStream(toSender, 0, receivedCount, 0, 0)
      <4> HIDE DEF a, m, e
      <4>. QED  BY <1>2, <2>3
    <3>. QED  BY <1>1, <1>2, <2>1, <3>1, ReceiptStreamAppend, Zenon
  <2>5. InStep'  BY <1>1, <2>1, <2>2, Zenon DEF Pipeline, InStep, Acked
  <2>6. ToReceiverInv'  BY <1>2, <2>1 DEF ToReceiverInv, One
  <2>7. ToSenderInv'
    <3>1. Acked' - receivedCount' = 0  BY <2>1, <2>2 DEF Acked, One
    <3>. QED  BY <2>1, <2>2, <2>4, <3>1 DEF ToSenderInv, One
  <2>. QED  BY <2>5, <2>6, <2>7 DEF Pipeline
<1>7. CASE ReceiverReadBlock
  <2>1. /\ n > 0 /\ Head(toReceiver) = BlockMsg(nextBlockIndex, "correct")
        /\ h = 0 /\ BlockStream(toReceiver', 0, nextBlockIndex + 1, n - 1, d)
    <3> HIDE DEF h, n, d
    <3>1. ReceiverReads /\ Head(toReceiver).type = "Block"
      BY <1>7 DEF ReceiverReadBlock
    <3>2. Head(toReceiver) # Header /\ Head(toReceiver) # DataSent
      BY <3>1 DEF Header, DataSent
    <3>. QED  BY <1>3, <3>1, <3>2, Zenon
  <2>2. nextBlockIndex \in Blocks /\ nextBlockIndex < nextIndex
    <3>0. nextIndex - nextBlockIndex > 0  BY <2>1, Zenon
    <3>1. nextBlockIndex < nextIndex /\ nextBlockIndex < BlockCount
      BY <1>1, <3>0, CountBehind, CountBound, Zenon
    <3>. QED  BY <1>1, <3>1, BlocksFacts, Zenon
  <2>3. /\ receiverState = "needBlock" /\ receiverState' = "handleBlock"
        /\ UNCHANGED <<senderVars, toSender>>
    BY <1>7, Zenon DEF ReceiverReadBlock, ReceiverReads
  <2>4. WriteError(Head(toReceiver)) = "nil"
    <3>1. file[nextBlockIndex] = "none"
      <4>1. file = [i \in Blocks |-> IF i < nextBlockIndex THEN "good" ELSE "none"]
        BY Zenon DEF Pipeline, InStep
      <4>2. ~(nextBlockIndex < nextBlockIndex)  BY <1>1, CountUp, Zenon
      <4>. QED  BY <2>2, <4>1, <4>2, Zenon
    <3>. QED  BY <2>1, <3>1 DEF WriteError, BlockMsg
  <2>5. Head(toReceiver).index = nextBlockIndex /\ Head(toReceiver).checksum = "correct"
    BY <2>1 DEF BlockMsg
  <2>6. /\ file' = [file EXCEPT ![nextBlockIndex] = "good"]
        /\ writtenCount' = writtenCount + 1 /\ nextBlockIndex' = nextBlockIndex + 1
        /\ lastBlock' = {nextBlockIndex} /\ UNCHANGED <<redoBlocks, outcome>>
    <3>1. ~(nextBlockIndex < nextBlockIndex) /\ ~(nextBlockIndex > nextBlockIndex)
      BY <1>1, CountUp, Zenon
    <3>. QED  BY <1>7, <2>4, <2>5, <3>1, Zenon DEF ReceiverReadBlock
  <2>7. file' = [i \in Blocks |-> IF i < nextBlockIndex' THEN "good" ELSE "none"]
    <3>1. file = [i \in Blocks |-> IF i < nextBlockIndex THEN "good" ELSE "none"]
      BY DEF Pipeline, InStep
    <3>2. \A i \in Blocks : i < nextBlockIndex' <=> i < nextBlockIndex \/ i = nextBlockIndex
      BY <1>1, <2>6, BlocksFacts, CountUp, Zenon
    <3>. QED  BY <2>2, <2>6, <3>1, <3>2
  <2>8. Acked' = Acked
    <3>1. lastBlock = {}  BY <2>3 DEF Pipeline, InStep
    <3>. QED  BY <1>1, <2>6, <3>1 DEF Acked, One
  <2>9. InStep'
    <3>1. lastBlock' = {nextBlockIndex' - 1} /\ nextBlockIndex' > 0
      <4>1. nextBlockIndex' - 1 = nextBlockIndex  BY <1>1, <2>6, CountUp, Zenon
      <4>. QED  BY <1>1, <2>6, <4>1
    <3>2. writtenCount' = nextBlockIndex' /\ nextBlockIndex' <= nextIndex'
      <4>1. writtenCount = nextBlockIndex  BY Zenon DEF Pipeline, InStep
      <4>2. nextBlockIndex + 1 <= nextIndex  BY <1>1, <2>2, CountBehind, Zenon
      <4>. QED  BY <2>3, <2>6, <4>1, <4>2, Zenon
    <3>3. senderState # "initialized"  BY <2>3 DEF Pipeline, InStep
    <3>. QED  BY <2>3, <2>6, <2>7, <2>8, <3>1, <3>2, <3>3, Zenon DEF Pipeline, InStep
  <2>10. ToReceiverInv'
    <3>1. nextIndex' - nextBlockIndex' = n - 1
      <4>1. nextIndex - (nextBlockIndex + 1) = n - 1  BY <1>1, CountBetween, Zenon
      <4>. QED  BY <2>3, <2>6, <4>1, Zenon
    <3>. QED  BY <2>1, <2>3, <2>6, <3>1 DEF ToReceiverInv, One
  <2>11. ToSenderInv'  BY <1>2, <2>3, <2>8 DEF ToSenderInv, One
  <2>. QED  BY <2>9, <2>10, <2>11 DEF Pipeline
<1>8. CASE ReceiverHandleBlock
  <2>1. /\ receiverState = "handleBlock" /\ redoBlocks = <<>>
        /\ lastBlock = {nextBlockIndex - 1} /\ nextBlockIndex > 0
        /\ writtenCount = nextBlockIndex
    BY <1>8, Zenon DEF ReceiverHandleBlock, Pipeline, InStep
  <2>2. /\ toSender' = Append(toSender, BlockReceived(nextBlockIndex - 1))
        /\ lastBlock' = {}
        /\ receiverState' = IF writtenCount = BlockCount THEN "needDataSent" ELSE "needBlock"
        /\ UNCHANGED <<redoBlocks, outcome, nextBlockIndex, file, writtenCount,
                       senderVars, toReceiver>>
    BY <1>8, <2>1, Zenon DEF ReceiverHandleBlock, ReceiverWrites, WriterIsDone
  <2>3. Acked = nextBlockIndex - 1 /\ Acked' = nextBlockIndex /\ e = 0
    BY <1>1, <2>1, <2>2 DEF Acked, One
  <2>4. ReceiptStream(toSender', a, receivedCount, m + 1, 0)
    <3>1. receivedCount + m = nextBlockIndex - 1  BY <1>1, <2>3
    <3> HIDE DEF a, m, e
    <3>2. ReceiptStream(toSender, a, receivedCount, m, 0)  BY <1>2, <2>3
    <3>3. ReceiptStream(Append(toSender, BlockReceived(receivedCount + m)),
                        a, receivedCount, m + 1, 0)
      BY <1>0, <1>1, <1>2, <3>2, ReceiptStreamAppend, Zenon
    <3>. QED  BY <2>2, <3>1, <3>3
  <2>5. InStep'
    <3>1. Positions /\ Holdings  BY InStepParts, Zenon DEF Pipeline
    <3>2. receivedCount <= nextBlockIndex /\ (nextBlockIndex # BlockCount => nextBlockIndex < BlockCount)
      BY <1>1
    <3>3. /\ receiverState' \in {"needBlock", "needDataSent"}
          /\ receiverState' = "needBlock" => nextBlockIndex < BlockCount
          /\ receiverState' = "needDataSent" => nextBlockIndex = BlockCount
      BY <2>1, <2>2, <3>2, Zenon
    <3>4. senderState \notin {"initialized", "done"}  BY <2>1, <3>1, Zenon DEF Positions
    <3>5. Positions'  BY <2>2, <2>3, <3>1, <3>2, <3>3, <3>4, Zenon DEF Positions
    <3>6. Holdings'  BY <2>1, <2>2, <3>1, <3>3, Zenon DEF Holdings
    <3>. QED  BY <3>5, <3>6, InStepParts, Zenon
  <2>6. ToReceiverInv'  BY <1>2, <2>1, <2>2 DEF ToReceiverInv, One
  <2>7. ToSenderInv'
    <3>1. Acked' - receivedCount' = m + 1  BY <1>1, <2>2, <2>3
    <3>. QED  BY <2>1, <2>2, <2>4, <3>1 DEF ToSenderInv, One
  <2>. QED  BY <2>5, <2>6, <2>7 DEF Pipeline
<1>9. CASE ReceiverReadDataSent
  <2>1. h = 0 /\ n = 0 /\ d = 1 /\ BlockStream(toReceiver', 0, nextBlockIndex, 0, 0)
    <3> HIDE DEF h, n, d
    <3>1. ReceiverReads /\ Head(toReceiver) = DataSent
      BY <1>9 DEF ReceiverReadDataSent
    <3>2. Head(toReceiver) # Header /\ Head(toReceiver) # BlockMsg(nextBlockIndex, "correct")
      BY <3>1 DEF Header, BlockMsg, DataSent
    <3>. QED  BY <1>3, <3>1, <3>2, Zenon
  <2>2. /\ receiverState = "needDataSent" /\ receiverState' = "sendDataReceived"
        /\ UNCHANGED <<nextBlockIndex, lastBlock, redoBlocks, file, writtenCount,
                       outcome, senderVars, toSender>>
    BY <1>9 DEF ReceiverReadDataSent, ReceiverReads
  <2>3. senderState \in {"needDataReceived", "done"}  BY <2>1 DEF One
  <2>4. InStep'  BY <1>1, <2>2, <2>3, Zenon DEF Pipeline, InStep, Acked
  <2>5. ToReceiverInv'
    <3>1. nextIndex' - nextBlockIndex' = 0  BY <2>1, <2>2
    <3>. QED  BY <2>1, <2>2, <3>1 DEF ToReceiverInv, One
  <2>6. ToSenderInv'  BY <1>2, <2>2 DEF ToSenderInv, One, Acked
  <2>. QED  BY <2>4, <2>5, <2>6 DEF Pipeline
<1>10. CASE ReceiverWriteDataReceived
  <2>1. /\ receiverState = "sendDataReceived" /\ receiverState' = "done"
        /\ toSender' = Append(toSender, DataReceived)
        /\ outcome' = [outcome EXCEPT !["receiver"] = "ok"]
        /\ UNCHANGED <<nextBlockIndex, lastBlock, redoBlocks, file, writtenCount,
                       senderVars, toReceiver>>
    BY <1>10 DEF ReceiverWriteDataReceived, ReceiverWrites, LoopResult
  <2>2. outcome'["receiver"] = "ok" /\ outcome'["sender"] = outcome["sender"]
    BY <2>1 DEF TypeOK, Sides
  <2>3. senderState = "needDataReceived" /\ a = 0 /\ e = 0
    BY <2>1, Zenon DEF Pipeline, InStep, One
  <2>4. ReceiptStream(toSender', 0, receivedCount, m, 1)
    <3> HIDE DEF a, m, e
    <3>1. ReceiptStream(toSender, 0, receivedCount, m, 0)  BY <1>2, <2>3
    <3>. QED  BY <1>1, <1>2, <2>1, <3>1, ReceiptStreamAppend, Zenon
  <2>5. InStep'  BY <1>1, <2>1, <2>2, <2>3, Zenon DEF Pipeline, InStep, Acked
  <2>6. ToReceiverInv'  BY <1>2, <2>1 DEF ToReceiverInv, One
  <2>7. ToSenderInv'  BY <2>1, <2>3, <2>4 DEF ToSenderInv, One, Acked
  <2>. QED  BY <2>5, <2>6, <2>7 DEF Pipeline
<1>11. ~ReceiverReadUnexpected
  <2> SUFFICES ASSUME ReceiverReadUnexpected PROVE FALSE  OBVIOUS
  <2>1. ReceiverReads /\ receiverState \notin ReceiverExpects(Head(toReceiver).type)
    BY DEF ReceiverReadUnexpected
  <2> HIDE DEF h, n, d
  <2>2. CASE h = 1 /\ Head(toReceiver) = Header
    BY <1>3, <1>4, <2>1, <2>2 DEF ReceiverExpects, Header
  <2>3. CASE h = 0 /\ n > 0 /\ Head(toReceiver) = BlockMsg(nextBlockIndex, "correct")
    BY <1>3, <1>4, <2>1, <2>3 DEF ReceiverExpects, BlockMsg
  <2>4. CASE h = 0 /\ n = 0 /\ d = 1 /\ Head(toReceiver) = DataSent
    BY <1>3, <1>4, <2>1, <2>4 DEF ReceiverExpects, DataSent
  <2>. QED  BY <1>3, <2>1, <2>2, <2>3, <2>4
<1>. QED  BY <1>5, <1>6, <1>7, <1>8, <1>9, <1>10, <1>11 DEF ReceiverStep

\* Once a side has ended with an I/O error it stays so, and a damaged block
\* stays counted: a state without a fault has a past without one.
LEMMA FaultsLast ==
    ASSUME TypeOK, [Next]_vars, NoFault' PROVE NoFault
<1> SUFFICES ASSUME ~NoFault PROVE ~NoFault'  OBVIOUS
<1>1. corrupted' \in {corrupted, corrupted + 1}
  BY Zenon DEF Next, SenderStep, ReceiverStep, vars, SenderWriteHeader, SenderWriteBlock,
         SenderWriteDataSent, SenderReadAcknowledge, SenderReadBlockReceived,
         SenderReadRedoBlock, SenderReadDataReceived, SenderReadUnexpected,
         SenderReads, SenderWrites, ReceiverReads, ReceiverWrites, ReceiverReadHeader,
         ReceiverWriteAcknowledge, ReceiverReadBlock, ReceiverHandleBlock,
         ReceiverReadDataSent, ReceiverWriteDataReceived, ReceiverReadUnexpected,
         CorruptBlock, IOError
<1>2. \/ UNCHANGED outcome
      \/ \E side \in Sides : \E o :
            Running(side) /\ outcome' = [outcome EXCEPT ![side] = o]
  <2>1. CASE SenderStep
    <3>1. UNCHANGED outcome \/ \E o : Running("sender") /\ outcome' = [outcome EXCEPT !["sender"] = o]
      BY <2>1, Zenon DEF SenderStep, SenderWriteHeader, SenderWriteBlock, SenderWriteDataSent,
                  SenderReadAcknowledge, SenderReadBlockReceived, SenderReadRedoBlock,
                  SenderReadDataReceived, SenderReadUnexpected, SenderReads, SenderWrites,
                  LoopResult
    <3>. QED  BY <3>1 DEF Sides
  <2>2. CASE ReceiverStep
    <3>1. UNCHANGED outcome \/ \E o : Running("receiver") /\ outcome' = [outcome EXCEPT !["receiver"] = o]
      BY <2>2, Zenon DEF ReceiverStep, ReceiverReadHeader, ReceiverWriteAcknowledge,
                  ReceiverReadBlock, ReceiverHandleBlock, ReceiverReadDataSent,
                  ReceiverWriteDataReceived, ReceiverReadUnexpected, ReceiverReads,
                  ReceiverWrites, LoopResult
    <3>. QED  BY <3>1 DEF Sides
  <2>3. CASE CorruptBlock  BY <2>3 DEF CorruptBlock
  <2>4. ASSUME NEW side \in Sides, IOError(side)
        PROVE  Running(side) /\ outcome' = [outcome EXCEPT ![side] = "IOError"]
    BY <2>4 DEF IOError
  <2>5. CASE UNCHANGED vars  BY <2>5 DEF vars
  <2>. QED  BY <2>1, <2>2, <2>3, <2>4, <2>5 DEF Next
<1>3. corrupted # 0 => corrupted' # 0  BY <1>1, FaultAssumption DEF TypeOK
<1>4. ASSUME NEW s \in Sides, outcome[s] = "IOError" PROVE outcome'[s] = "IOError"
  BY <1>2, <1>4 DEF Running, TypeOK
<1>. QED  BY <1>3, <1>4 DEF NoFault

\* For every size of file that is not empty and every block size: as long as
\* no block is damaged and no I/O fails, the queues hold exactly the
\* messages between the two clients' positions, in order.
THEOREM PipelineHolds == ASSUME TotalSize > 0 PROVE Spec => []PipelineInv
<1>1. Init => PipelineInv
  <2> SUFFICES ASSUME Init PROVE Pipeline  BY DEF Pipeline, PipelineInv
  <2>1. BlockCount \in Nat /\ BlockCount > 0  BY BlockCountType, SizeAssumption
  <2>2. InStep
    <3>1. BlockCount # 0 /\ 0 < BlockCount /\ 0 <= 0 /\ 0 - 0 = 0 /\ \A i \in Blocks : ~(i < 0)
      BY <2>1, BlocksFacts
    <3>2. Acked = 0  BY <3>1, Zenon DEF Init, Acked, One
    <3>3. Positions  BY <3>1, <3>2, Zenon DEF Init, Positions, BeforeAcknowledge
    <3>4. outcome["sender"] = "running" /\ outcome["receiver"] = "running"
      BY Zenon DEF Init, Sides
    <3>5. file = [i \in Blocks |-> IF i < nextBlockIndex THEN "good" ELSE "none"]
      BY <3>1 DEF Init
    <3>6. received = {i \in Blocks : i < receivedCount}  BY <3>1 DEF Init
    <3>7. Holdings  BY <3>4, <3>5, <3>6, Zenon DEF Init, Holdings
    <3>. QED  BY <3>3, <3>7, InStepParts, Zenon
  <2>3. ToReceiverInv  BY DEF Init, ToReceiverInv, BlockStream, One
  <2>4. ToSenderInv  BY DEF Init, ToSenderInv, ReceiptStream, Acked, One
  <2>. QED  BY <2>2, <2>3, <2>4 DEF Pipeline
<1>2. TypeOK /\ PipelineInv /\ [Next]_vars => PipelineInv'
  <2> SUFFICES ASSUME TypeOK, PipelineInv, [Next]_vars, NoFault' PROVE Pipeline'
    BY DEF Pipeline, PipelineInv
  <2>1. NoFault  BY FaultsLast
  <2>2. Pipeline  BY <2>1 DEF Pipeline, PipelineInv
  <2>3. CASE SenderStep  BY <2>2, <2>3, SenderPipeline
  <2>4. CASE ReceiverStep  BY <2>2, <2>4, ReceiverPipeline
  <2>5. ~CorruptBlock  BY <2>1 DEF CorruptBlock, NoFault
  <2>6. ASSUME NEW side \in Sides, IOError(side) PROVE FALSE
    BY <2>6 DEF IOError, NoFault, TypeOK
  <2>7. CASE UNCHANGED vars
    BY <2>2, <2>7, Zenon DEF vars, senderVars, receiverVars, Pipeline, InStep, ToReceiverInv,
                      ToSenderInv, Acked
  <2>. QED  BY <2>3, <2>4, <2>5, <2>6, <2>7 DEF Next
<1>. QED  BY <1>1, <1>2, TypeCorrect, PTL DEF Spec

\* For every size of file that is not empty and every block size: as long as
\* no block is damaged and no I/O fails, neither Run returns an error.
THEOREM NoSpuriousFailures == ASSUME TotalSize > 0 PROVE Spec => []NoSpuriousFailure
<1>1. PipelineInv => NoSpuriousFailure
  BY DEF PipelineInv, Pipeline, InStep, NoSpuriousFailure, Sides
<1>. QED  BY <1>1, PipelineHolds, PTL
=============================================================================
