------------------------------- MODULE Block -------------------------------
(***************************************************************************)
(* How a file of TotalSize bytes is cut into blocks of BlockSize bytes     *)
(* (lib/session/transfer/block/block.go).  The reader on the sending       *)
(* device and the writer on the receiving device both use these functions: *)
(* the reader stops when the offset of its next block reaches the size,    *)
(* the writer when it has counted BlockCount blocks, so the transfer       *)
(* depends on the two notions agreeing.                                    *)
(***************************************************************************)
EXTENDS Integers

CONSTANTS TotalSize,  \* the size of the file in bytes; zero is possible
          BlockSize   \* base.BlockSize; the receiver rejects zero

ASSUME SizeAssumption == TotalSize \in Nat /\ BlockSize \in Nat \ {0}

\* Size.BlockCount(size)
BlockCount ==
    IF TotalSize = 0 THEN 0 ELSE ((TotalSize - 1) \div BlockSize) + 1

Blocks == 0 .. BlockCount - 1

\* Size.Offset(index)
Offset(index) == index * BlockSize

\* Size.Index(offset)
Index(offset) == offset \div BlockSize

\* Size.Amount(offset, size)
Amount(offset) ==
    IF offset >= TotalSize THEN 0
    ELSE LET remaining == TotalSize - offset
         IN  IF BlockSize < remaining THEN BlockSize ELSE remaining
=============================================================================
