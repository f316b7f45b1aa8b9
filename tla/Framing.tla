------------------------------- MODULE Framing -------------------------------
(***************************************************************************)
(* Messages on a byte stream: packet.Packet, written as a length and then  *)
(* the data in two Write calls, and secure.Conn, which encrypts a payload  *)
(* and writes length and ciphertext in one call under a mutex.  Several    *)
(* goroutines write one message each and one goroutine reads.              *)
(*                                                                         *)
(* A byte is a number below Base.  One Write call puts its bytes into the  *)
(* stream together; a Read call of the connection may return fewer bytes   *)
(* than asked for, io.ReadFull goes on until it has them all.              *)
(***************************************************************************)
EXTENDS Integers, Sequences

CONSTANTS Base,        \* values of a byte, 256
          TagSize,     \* bytes the cipher adds to a payload, 16
          Payload,     \* the message of each writer, a function to byte sequences
          Codecs,      \* the codecs in use, among "packet" and "noise"
          BufferSizes, \* lengths of the buffer given to secure.Conn.Read
          Overlap      \* whether packet writers may overlap

ASSUME FramingAssumption ==
    /\ Base \in Nat \ {0, 1} /\ TagSize \in 1 .. Base /\ Overlap \in BOOLEAN
    /\ \A w \in DOMAIN Payload : Payload[w] \in Seq(0 .. Base - 1)
    /\ Codecs \subseteq {"packet", "noise"} /\ BufferSizes \subseteq Nat

Writers == DOMAIN Payload

VARIABLES
    codec,    \* the codec of this connection
    buffer,   \* the length of the reader's buffer
    writer,   \* where each writer is; an encrypting one with its nonce
    mutex,    \* whether writeMutex is held
    stream,   \* the bytes written and not yet read
    sent,     \* the messages in the order they were begun, that of the nonces
    reader,   \* where the reader is, and the size it has read
    received  \* the messages it has returned

vars == <<codec, buffer, writer, mutex, stream, sent, reader, received>>

-----------------------------------------------------------------------------
(* Lengths                                                                 *)

LengthSize == 2
MaxLength  == Base * Base - 1

MessageMaxSize == MaxLength
PayloadMaxSize == MessageMaxSize - TagSize

\* Length(n), a conversion to an unsigned integer of LengthSize bytes.
Length(n) == n % (MaxLength + 1)

\* Big endian, as Bytes encodes and DecodeLength decodes it.
SwappedBytes(length) == <<length % Base, length \div Base>>
Bytes(length) == <<length \div Base, length % Base>>

DecodeLength(raw) == raw[1] * Base + raw[2]

\* LengthOf and the check of secure.Conn.Write refuse what does not fit.
FitsAlmost(size) == size <= MaxLength + 1
Fits(size) == size <= MaxLength

\* What the cipher makes of a payload with a nonce: only the tag is of
\* interest, which ties the ciphertext to the nonce.
Encrypt(payload, nonce) == payload \o [i \in 1 .. TagSize |-> nonce % Base]

\* Decryption with a nonce succeeds on what was encrypted with it.
Decrypts(ct, nonce) ==
    nonce < Len(sent) /\ ct = Encrypt(sent[nonce + 1], nonce)

-----------------------------------------------------------------------------
Init ==
    /\ codec \in Codecs /\ buffer \in BufferSizes
    /\ writer = [w \in Writers |-> [at |-> "idle"]]
    /\ mutex = FALSE /\ stream = <<>> /\ sent = <<>>
    /\ reader = [at |-> "length"] /\ received = <<>>

Go(w, state) == writer' = [writer EXCEPT ![w] = state]

\* The message does not fit: an error, and nothing is written.
WriteRefused(w) ==
    /\ writer[w].at = "idle"
    /\ ~Fits(Len(Payload[w]) + (IF codec = "noise" THEN TagSize ELSE 0))
    /\ Go(w, [at |-> "error"])
    /\ UNCHANGED <<codec, buffer, mutex, stream, sent, reader, received>>

\* Packet.WriteTo writes the length.
PacketLength(w) ==
    /\ codec = "packet" /\ writer[w].at = "idle" /\ Fits(Len(Payload[w]))
    /\ Overlap \/ \A v \in Writers : writer[v].at # "data"
    /\ stream' = stream \o Bytes(Length(Len(Payload[w])))
    /\ sent' = Append(sent, Payload[w])
    /\ Go(w, [at |-> "data"])
    /\ UNCHANGED <<codec, buffer, mutex, reader, received>>

\* Packet.WriteTo writes the data.
PacketData(w) ==
    /\ writer[w].at = "data"
    /\ stream' = stream \o Payload[w]
    /\ Go(w, [at |-> "done"])
    /\ UNCHANGED <<codec, buffer, mutex, sent, reader, received>>

Unlocked == TRUE
WriteMutexFree == ~mutex

\* secure.Conn.Write takes the mutex and encrypts the payload.
NoiseEncrypt(w) ==
    /\ codec = "noise" /\ writer[w].at = "idle"
    /\ Fits(Len(Payload[w]) + TagSize)
    /\ WriteMutexFree /\ mutex' = TRUE
    /\ Go(w, [at |-> "encrypted", nonce |-> Len(sent)])
    /\ sent' = Append(sent, Payload[w])
    /\ UNCHANGED <<codec, buffer, stream, reader, received>>

\* It writes length and ciphertext and releases the mutex.
NoiseWrite(w) ==
    /\ writer[w].at = "encrypted"
    /\ stream' = stream \o Bytes(Length(Len(Payload[w]) + TagSize))
                        \o Encrypt(Payload[w], writer[w].nonce)
    /\ mutex' = FALSE
    /\ Go(w, [at |-> "done"])
    /\ UNCHANGED <<codec, buffer, sent, reader, received>>

-----------------------------------------------------------------------------
Take(n) == stream' = SubSeq(stream, n + 1, Len(stream))

Fail(reason) == reader' = [at |-> "failed", why |-> reason]

\* DecodeFrom reads the length with io.ReadFull.
PacketReadLength ==
    /\ codec = "packet" /\ reader.at = "length" /\ Len(stream) >= LengthSize
    /\ reader' = [at |-> "data", size |-> DecodeLength(stream)]
    /\ Take(LengthSize)
    /\ UNCHANGED <<codec, buffer, writer, mutex, sent, received>>

\* DecodeFrom reads the data with io.ReadFull and returns the packet.
PacketRead ==
    /\ codec = "packet" /\ reader.at = "data" /\ Len(stream) >= reader.size
    /\ received' = Append(received, SubSeq(stream, 1, reader.size))
    /\ reader' = [at |-> "length"]
    /\ Take(reader.size)
    /\ UNCHANGED <<codec, buffer, writer, mutex, sent>>

\* secure.Conn.Read returns an error for a buffer below PayloadMaxSize.
NoiseBufferTooSmall ==
    /\ codec = "noise" /\ reader.at = "length" /\ buffer < PayloadMaxSize
    /\ Fail("buffer")
    /\ UNCHANGED <<codec, buffer, writer, mutex, stream, sent, received>>

\* It reads the length with one Read call, which may return a single byte;
\* slicing the buffer to a size beyond its capacity, here its length, panics.
NoiseReadLength ==
    /\ codec = "noise" /\ reader.at = "length" /\ buffer >= PayloadMaxSize
    /\ \/ /\ Len(stream) >= 1 /\ Fail("length")
          /\ Take(1)
       \/ /\ Len(stream) >= LengthSize
          /\ reader' = LET size == DecodeLength(stream)
                       IN IF size > buffer THEN [at |-> "panic"]
                                           ELSE [at |-> "data", size |-> size]
          /\ Take(LengthSize)
    /\ UNCHANGED <<codec, buffer, writer, mutex, sent, received>>

\* It reads the ciphertext with io.ReadFull and decrypts it.
NoiseRead ==
    /\ codec = "noise" /\ reader.at = "data" /\ Len(stream) >= reader.size
    /\ LET ct == SubSeq(stream, 1, reader.size)
       IN IF Decrypts(ct, Len(received))
            THEN /\ received' = Append(received, SubSeq(ct, 1, Len(ct) - TagSize))
                 /\ reader' = [at |-> "length"]
            ELSE Fail("decrypt") /\ UNCHANGED received
    /\ Take(reader.size)
    /\ UNCHANGED <<codec, buffer, writer, mutex, sent>>

-----------------------------------------------------------------------------
WriterStep(w) ==
    \/ WriteRefused(w) \/ PacketLength(w) \/ PacketData(w)
    \/ NoiseEncrypt(w) \/ NoiseWrite(w)

ReaderStep ==
    \/ PacketReadLength \/ PacketRead
    \/ NoiseBufferTooSmall \/ NoiseReadLength \/ NoiseRead

Next == (\E w \in Writers : WriterStep(w)) \/ ReaderStep

Spec == Init /\ [][Next]_vars

\* Every goroutine that can go on does.
Fairness == WF_vars(\E w \in Writers : WriterStep(w)) /\ WF_vars(ReaderStep)

FairSpec == Spec /\ Fairness

-----------------------------------------------------------------------------
(* Properties                                                              *)

\* What the reader returns is what was written, whole and in the order of
\* the writers' turns: secure.Conn for any number of concurrent Write calls,
\* a Packet as long as WriteTo calls do not overlap.
MessagesIntact ==
    /\ Len(received) <= Len(sent)
    /\ \A k \in 1 .. Len(received) : received[k] = sent[k]

\* On a connection that stays up, secure.Conn.Read returns an error only for
\* a buffer that is too small or after the connection returned half a length
\* field: no message fails to decrypt.  It panics only with a buffer shorter
\* than its documentation asks for ("must have a size greater or equal to
\* MessageMaxSize").
FailureHasCause ==
    /\ reader.at = "failed" => reader.why \in {"buffer", "length"}
    /\ reader.at = "panic" => buffer < MessageMaxSize

\* Every message that fits, up to MaxLength bytes with its tag, is read in
\* the end, unless the reader has failed; nothing else is.
AllMessagesRead ==
    <>[]\/ reader.at \in {"failed", "panic"}
        \/ /\ received = sent /\ stream = <<>>
           /\ \A w \in Writers : writer[w].at = "done" <=>
                 Len(Payload[w]) + (IF codec = "noise" THEN TagSize ELSE 0) < Base * Base

\* "DecodeFrom reads and decodes a whole Packet from an io.Reader and returns
\* it" (packet.go): what it returns is a Packet that was written.
PacketsWhole == \A i \in DOMAIN received : \E w \in Writers : received[i] = Payload[w]

\* "Read reads an entire noise message into the given buffer" (secure/conn.go):
\* it does not fail on half a length field.
ReadsEntireMessages == reader.at = "failed" => reader.why # "length"

-----------------------------------------------------------------------------
(* The inductive invariant behind MessagesIntact and FailureHasCause, for  *)
(* secure.Conn and for Packets whose writers do not overlap                *)

ByteStrings == Seq(0 .. Base - 1)

WriterStates ==
    [at : {"idle", "error", "data", "done"}] \cup [at : {"encrypted"}, nonce : Nat]
ReaderStates ==
    [at : {"length", "panic"}] \cup [at : {"data"}, size : Nat]
      \cup [at : {"failed"}, why : {"buffer", "length", "decrypt"}]

TypeInv ==
    /\ codec \in Codecs /\ buffer \in BufferSizes /\ mutex \in BOOLEAN
    /\ writer \in [Writers -> WriterStates] /\ reader \in ReaderStates
    /\ stream \in ByteStrings /\ sent \in Seq(ByteStrings) /\ received \in Seq(ByteStrings)

\* What the length field of a message says, and the bytes that follow it.
Size(message) == Len(message) + (IF codec = "noise" THEN TagSize ELSE 0)
Body(k) == IF codec = "noise" THEN Encrypt(sent[k], k - 1) ELSE sent[k]

\* At most one writer has begun a message and not written all of it: the last
\* message, of which a Packet lacks the data and a noise message everything.
Writing(w) == writer[w].at \in {"data", "encrypted"}

WriterInv ==
    /\ \A w \in Writers :
          /\ writer[w].at = "data" => codec = "packet"
          /\ writer[w].at = "encrypted" =>
                codec = "noise" /\ mutex /\ writer[w].nonce = Len(sent) - 1
          /\ Writing(w) => /\ sent # <<>> /\ sent[Len(sent)] = Payload[w]
                           /\ \A v \in Writers : Writing(v) => v = w
    /\ \A k \in 1 .. Len(sent) : Size(sent[k]) <= MaxLength

\* What a message is on the stream: its length and then the bytes.
Text == [k \in 1 .. Len(sent) |-> Bytes(Size(sent[k])) \o Body(k)]

Unwritten ==
    IF \E w \in Writers : Writing(w)
    THEN Size(sent[Len(sent)]) + (IF codec = "noise" THEN LengthSize ELSE 0)
    ELSE 0

\* The texts after text[read] lie one after the other in bytes: text[k] begins
\* after byte at[k - 1], the first of them after byte from, which is negative if
\* its beginning has been taken; of the last one the end may be lacking.
Layout(at, bytes, read, last, text, from, lacking) ==
    /\ at[read] = from
    /\ \A k \in read + 1 .. last : at[k] = at[k - 1] + Len(text[k])
    /\ \A j, k \in read .. last : j <= k => at[j] <= at[k]
    /\ Len(bytes) = at[last] - lacking
    /\ \A k \in read + 1 .. last : \A i \in 1 .. Len(text[k]) :
          at[k - 1] + i \in 1 .. Len(bytes) => bytes[at[k - 1] + i] = text[k][i]

IsLaid(bytes, read, last, text, from, lacking) ==
    \E at \in [read .. last -> Int] : Layout(at, bytes, read, last, text, from, lacking)

\* The stream holds the messages that were begun and not returned, the first of
\* them without its length if the reader has read that.
StreamInv ==
    /\ IsLaid(stream, Len(received), Len(sent), Text,
              IF reader.at = "data" THEN -LengthSize ELSE 0, Unwritten)
    /\ reader.at = "data" => /\ Len(received) < Len(sent)
                             /\ reader.size = Size(sent[Len(received) + 1])

FramingInv ==
    /\ TypeInv /\ WriterInv /\ MessagesIntact /\ FailureHasCause
    /\ reader.at \in {"length", "data"} => StreamInv
=============================================================================
