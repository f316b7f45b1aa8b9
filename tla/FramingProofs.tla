--------------------------- MODULE FramingProofs ---------------------------
(***************************************************************************)
(* Proofs about Framing, for any number of writers, any messages, any size *)
(* of a byte and of the tag and any buffer: secure.Conn, and Packets whose *)
(* writers do not overlap, are read as they were written.                  *)
(***************************************************************************)
EXTENDS Framing, TLAPS

\* The seconds each prover may take for a step.
USE SMTT(15), ZenonT(15)

-----------------------------------------------------------------------------
(* Lengths and sequences                                                   *)

\* Quotient and remainder of a length by the number of byte values.
LEMMA Division ==
    ASSUME NEW n \in Nat
    PROVE  /\ n \div Base \in Nat /\ n % Base \in 0 .. Base - 1
           /\ n = Base * (n \div Base) + (n % Base)
  <1>1. Base \in Nat /\ Base > 0  BY FramingAssumption
  <1>. QED  BY <1>1, Z3

\* What is smaller than the modulus is its own remainder.
LEMMA Remainder ==
    ASSUME NEW n \in Nat, NEW m \in Nat, n < m PROVE n % m = n
  BY Z3

\* A length that fits has two bytes and is decoded to itself.
LEMMA Lengths ==
    ASSUME NEW n \in Nat, Fits(n)
    PROVE  /\ Length(n) = n
           /\ Bytes(n) \in ByteStrings /\ Len(Bytes(n)) = LengthSize
           /\ Bytes(n)[1] * Base + Bytes(n)[2] = n
  <1>1. Base \in Nat /\ Base > 1  BY FramingAssumption
  <1>2. Base * Base \in Nat /\ n < Base * Base  BY <1>1, Z3 DEF Fits, MaxLength
  <1>3. Length(n) = n  BY <1>1, <1>2, Remainder DEF Length, MaxLength
  <1>4. /\ n \div Base \in Nat /\ n % Base \in 0 .. Base - 1
        /\ n = Base * (n \div Base) + (n % Base)
    BY Division
  <1>5. n \div Base < Base  BY <1>1, <1>2, <1>4, Z3
  <1>6. Bytes(n)[1] = n \div Base /\ Bytes(n)[2] = n % Base /\ Len(Bytes(n)) = 2
    BY DEF Bytes
  <1>7. Bytes(n) \in ByteStrings  BY <1>1, <1>4, <1>5 DEF Bytes, ByteStrings
  <1>8. Base * (n \div Base) = (n \div Base) * Base  BY <1>1, <1>4, Z3
  <1>. QED  BY <1>3, <1>4, <1>6, <1>7, <1>8 DEF LengthSize

\* Whatever a length is converted to has two bytes.
LEMMA LengthBytes ==
    ASSUME NEW n \in Nat PROVE Bytes(Length(n)) \in ByteStrings
  <1>1. Base \in Nat /\ Base > 1  BY FramingAssumption
  <1>2. Base * Base \in Nat /\ Base * Base > 0  BY <1>1, Z3
  <1>3. MaxLength + 1 \in Nat /\ MaxLength + 1 > 0  BY <1>2 DEF MaxLength
  <1>4. Length(n) \in Nat /\ Length(n) < MaxLength + 1  BY <1>3, Z3 DEF Length
  <1>. QED  BY <1>2, <1>4, Lengths DEF Fits, MaxLength

\* A ciphertext is the payload and the tag.
LEMMA Ciphertext ==
    ASSUME NEW p \in ByteStrings, NEW n \in Nat
    PROVE  /\ Encrypt(p, n) \in ByteStrings /\ Len(Encrypt(p, n)) = Len(p) + TagSize
           /\ SubSeq(Encrypt(p, n), 1, Len(p)) = p
  <1>1. TagSize \in Nat  BY FramingAssumption
  <1>2. n % Base \in 0 .. Base - 1  BY Division
  <1> DEFINE t == [i \in 1 .. TagSize |-> n % Base]
  <1>3. t \in Seq(0 .. Base - 1) /\ Len(t) = TagSize  BY <1>1, <1>2
  <1> HIDE DEF t
  <1>4. /\ p \o t \in Seq(0 .. Base - 1) /\ Len(p \o t) = Len(p) + TagSize
        /\ SubSeq(p \o t, 1, Len(p)) = p
    BY <1>3 DEF ByteStrings
  <1>. QED  BY <1>4, Zenon DEF Encrypt, t, ByteStrings

\* The records of the state.
LEMMA WriterShape ==
    /\ \A x \in WriterStates : x.at = "encrypted" => x.nonce \in Nat
    /\ \A a \in {"idle", "error", "data", "done"} : [at |-> a] \in WriterStates
    /\ \A n \in Nat : [at |-> "encrypted", nonce |-> n] \in WriterStates
  BY DEF WriterStates

LEMMA ReaderShape ==
    /\ \A x \in ReaderStates : x.at = "data" => x.size \in Nat
    /\ \A a \in {"length", "panic"} : [at |-> a] \in ReaderStates
    /\ \A n \in Nat : [at |-> "data", size |-> n] \in ReaderStates
    /\ \A w \in {"buffer", "length", "decrypt"} : [at |-> "failed", why |-> w] \in ReaderStates
  BY DEF ReaderStates

\* The constants.
LEMMA Constants ==
    /\ Base \in Nat /\ Base > 1 /\ TagSize \in Nat /\ TagSize > 0 /\ TagSize <= Base
    /\ MaxLength \in Nat /\ LengthSize = 2
    /\ \A w \in Writers : Payload[w] \in ByteStrings
  <1>1. Base \in Nat /\ Base > 1 /\ TagSize \in Nat /\ TagSize > 0 /\ TagSize <= Base
    BY FramingAssumption
  <1>2. Base * Base \in Nat /\ Base * Base > 0  BY <1>1, Z3
  <1>. QED  BY <1>1, <1>2, FramingAssumption DEF MaxLength, LengthSize, Writers, ByteStrings

\* What is left of the stream when bytes are taken from it.
LEMMA TakeType ==
    ASSUME stream \in ByteStrings, NEW n \in Nat, n <= Len(stream), Take(n)
    PROVE  /\ stream' \in ByteStrings /\ Len(stream') = Len(stream) - n
           /\ \A i \in 1 .. Len(stream') : stream'[i] = stream[i + n]
  <1> DEFINE S == 0 .. Base - 1
  <1>1. stream \in Seq(S) /\ Len(stream) \in Nat  BY DEF ByteStrings
  <1>2. stream' = SubSeq(stream, n + 1, Len(stream))  BY DEF Take
  <1> HIDE DEF S
  <1>3. /\ SubSeq(stream, n + 1, Len(stream)) \in Seq(S)
        /\ Len(SubSeq(stream, n + 1, Len(stream))) = Len(stream) - n
    BY <1>1
  <1>4. \A i \in 1 .. Len(stream) - n : SubSeq(stream, n + 1, Len(stream))[i] = stream[i + n]
    BY <1>1
  <1>. QED  BY <1>2, <1>3, <1>4 DEF S, ByteStrings

\* What a read of n bytes returns.
LEMMA FrontType ==
    ASSUME NEW s \in ByteStrings, NEW n \in Nat, n <= Len(s)
    PROVE  /\ SubSeq(s, 1, n) \in ByteStrings /\ Len(SubSeq(s, 1, n)) = n
           /\ \A i \in 1 .. n : SubSeq(s, 1, n)[i] = s[i]
  <1> DEFINE S == 0 .. Base - 1
  <1>1. s \in Seq(S)  BY DEF ByteStrings
  <1> HIDE DEF S
  <1>2. SubSeq(s, 1, n) \in Seq(S) /\ Len(SubSeq(s, 1, n)) = n  BY <1>1
  <1>3. \A i \in 1 .. n : SubSeq(s, 1, n)[i] = s[i]  BY <1>1
  <1>. QED  BY <1>2, <1>3 DEF S, ByteStrings

-----------------------------------------------------------------------------
(* Types                                                                   *)

\* The steps of the writers keep the types.
LEMMA WriterTypes ==
    ASSUME TypeInv, NEW w \in Writers, WriterStep(w) PROVE TypeInv'
  <1>0. Payload[w] \in ByteStrings /\ Len(Payload[w]) \in Nat /\ TagSize \in Nat
    BY Constants DEF ByteStrings
  <1>a. Len(sent) \in Nat /\ Append(sent, Payload[w]) \in Seq(ByteStrings)
    BY <1>0 DEF TypeInv
  <1>b. ASSUME NEW x \in WriterStates, Go(w, x) PROVE writer' \in [Writers -> WriterStates]
    BY <1>b DEF Go, TypeInv
  <1>c. ASSUME NEW t \in ByteStrings PROVE stream \o t \in ByteStrings
    BY <1>c DEF TypeInv, ByteStrings
  <1>1. CASE WriteRefused(w)
    <2>1. writer' \in [Writers -> WriterStates]  BY <1>1, <1>b, WriterShape DEF WriteRefused
    <2>. QED  BY <1>1, <2>1 DEF WriteRefused, TypeInv
  <1>2. CASE PacketLength(w)
    <2>1. writer' \in [Writers -> WriterStates]  BY <1>2, <1>b, WriterShape DEF PacketLength
    <2>2. stream' \in ByteStrings  BY <1>2, <1>0, <1>c, Lengths DEF PacketLength
    <2>. QED  BY <1>2, <2>1, <2>2, <1>a DEF PacketLength, TypeInv
  <1>3. CASE PacketData(w)
    <2>1. writer' \in [Writers -> WriterStates]  BY <1>3, <1>b, WriterShape DEF PacketData
    <2>2. stream' \in ByteStrings  BY <1>3, <1>0, <1>c DEF PacketData
    <2>. QED  BY <1>3, <2>1, <2>2 DEF PacketData, TypeInv
  <1>4. CASE NoiseEncrypt(w)
    <2>1. writer' \in [Writers -> WriterStates]
      BY <1>4, <1>a, <1>b, WriterShape DEF NoiseEncrypt
    <2>. QED  BY <1>4, <2>1, <1>a DEF NoiseEncrypt, TypeInv
  <1>5. CASE NoiseWrite(w)
    <2>1. writer' \in [Writers -> WriterStates]  BY <1>5, <1>b, WriterShape DEF NoiseWrite
    <2>2. writer[w].nonce \in Nat  BY <1>5, WriterShape DEF NoiseWrite, TypeInv
    <2>3. Encrypt(Payload[w], writer[w].nonce) \in ByteStrings  BY <1>0, <2>2, Ciphertext, Zenon
    <2>4. Bytes(Length(Len(Payload[w]) + TagSize)) \in ByteStrings  BY <1>0, LengthBytes
    <2>5. stream' \in ByteStrings  BY <1>5, <2>3, <2>4 DEF NoiseWrite, TypeInv, ByteStrings
    <2>. QED  BY <1>5, <2>1, <2>5, Zenon DEF NoiseWrite, TypeInv
  <1>. QED  BY <1>1, <1>2, <1>3, <1>4, <1>5 DEF WriterStep

\* So do those of the reader.
LEMMA ReaderTypes == ASSUME TypeInv, ReaderStep PROVE TypeInv'
  <1>0. stream \in ByteStrings /\ Len(stream) \in Nat /\ LengthSize = 2 /\ 1 \in Nat
    BY Constants DEF TypeInv, ByteStrings
  <1>a. Len(stream) >= 2 => DecodeLength(stream) \in Nat
    <2>1. SUFFICES ASSUME Len(stream) >= 2 PROVE DecodeLength(stream) \in Nat  OBVIOUS
    <2>2. stream[1] \in Nat /\ stream[2] \in Nat  BY <1>0, <2>1, Constants DEF ByteStrings
    <2>3. stream[1] * Base \in Nat  BY <2>2, Constants, Z3
    <2>. QED  BY <2>2, <2>3 DEF DecodeLength
  <1>b. ASSUME reader.at = "data", Len(stream) >= reader.size
        PROVE  /\ reader.size \in Nat /\ SubSeq(stream, 1, reader.size) \in ByteStrings
               /\ Take(reader.size) => stream' \in ByteStrings
    <2>1. reader.size \in Nat  BY <1>b, ReaderShape DEF TypeInv
    <2>2. SubSeq(stream, 1, reader.size) \in ByteStrings  BY <1>0, <1>b, <2>1, FrontType
    <2>. QED  BY <1>0, <1>b, <2>1, <2>2, TakeType
  <1>1. CASE PacketReadLength
    <2>1. stream' \in ByteStrings  BY <1>0, <1>1, TakeType DEF PacketReadLength
    <2>2. reader' \in ReaderStates  BY <1>0, <1>a, <1>1, ReaderShape DEF PacketReadLength
    <2>. QED  BY <1>1, <2>1, <2>2 DEF PacketReadLength, TypeInv
  <1>2. CASE PacketRead
    <2>1. stream' \in ByteStrings /\ SubSeq(stream, 1, reader.size) \in ByteStrings
      BY <1>2, <1>b DEF PacketRead
    <2>2. received' \in Seq(ByteStrings)  BY <1>2, <2>1 DEF PacketRead, TypeInv
    <2>3. reader' \in ReaderStates  BY <1>2, ReaderShape DEF PacketRead
    <2>. QED  BY <1>2, <2>1, <2>2, <2>3 DEF PacketRead, TypeInv
  <1>3. CASE NoiseBufferTooSmall
    <2>1. reader' \in ReaderStates  BY <1>3, ReaderShape DEF NoiseBufferTooSmall, Fail
    <2>. QED  BY <1>3, <2>1 DEF NoiseBufferTooSmall, TypeInv
  <1>4. CASE NoiseReadLength
    <2>1. stream' \in ByteStrings  BY <1>0, <1>4, TakeType DEF NoiseReadLength
    <2>2. reader' \in ReaderStates  BY <1>0, <1>a, <1>4, ReaderShape DEF NoiseReadLength, Fail
    <2>. QED  BY <1>4, <2>1, <2>2 DEF NoiseReadLength, TypeInv
  <1>5. CASE NoiseRead
    <2> DEFINE ct == SubSeq(stream, 1, reader.size)
    <2>1. stream' \in ByteStrings /\ ct \in ByteStrings  BY <1>5, <1>b DEF NoiseRead
    <2>2. CASE Decrypts(ct, Len(received))
      <3>0. /\ Len(received) \in Nat /\ Len(received) < Len(sent) /\ sent \in Seq(ByteStrings)
            /\ ct = Encrypt(sent[Len(received) + 1], Len(received))
        BY <2>2 DEF Decrypts, TypeInv
      <3> DEFINE p == sent[Len(received) + 1]
      <3>1. p \in ByteStrings /\ Len(p) \in Nat  BY <3>0 DEF ByteStrings
      <3> HIDE DEF p
      <3>2. ct = Encrypt(p, Len(received))  BY <3>0 DEF p
      <3> HIDE DEF ct
      <3>3. Len(ct) = Len(p) + TagSize /\ SubSeq(ct, 1, Len(p)) = p
        BY <3>0, <3>1, <3>2, Ciphertext, Zenon
      <3>6. Len(ct) - TagSize = Len(p)  BY <3>1, <3>3, Constants
      <3>7. SubSeq(ct, 1, Len(ct) - TagSize) \in ByteStrings  BY <3>1, <3>3, <3>6, Zenon
      <3>8. received' = Append(received, SubSeq(ct, 1, Len(ct) - TagSize))
        BY <1>5, <2>2, Zenon DEF NoiseRead, ct
      <3>4. received' \in Seq(ByteStrings)  BY <3>7, <3>8 DEF TypeInv
      <3>5. reader' \in ReaderStates  BY <1>5, <2>2, ReaderShape DEF NoiseRead, ct
      <3>. QED  BY <1>5, <2>1, <3>4, <3>5 DEF NoiseRead, TypeInv
    <2>3. CASE ~Decrypts(ct, Len(received))
      <3>1. reader' \in ReaderStates /\ UNCHANGED received
        BY <1>5, <2>3, ReaderShape DEF NoiseRead, Fail
      <3>. QED  BY <1>5, <2>1, <3>1 DEF NoiseRead, TypeInv
    <2>. QED  BY <2>2, <2>3
  <1>. QED  BY <1>1, <1>2, <1>3, <1>4, <1>5 DEF ReaderStep

-----------------------------------------------------------------------------
(* Writers take turns                                                      *)

\* Writers take turns on secure.Conn by its mutex, and on Packets if they do not
\* overlap.
Turns == Overlap = FALSE \/ "packet" \notin Codecs

\* What was begun, and how long it is.
LEMMA Sizes ==
    ASSUME TypeInv
    PROVE  /\ \A m \in ByteStrings : Size(m) \in Nat /\ (codec # "noise" => Size(m) = Len(m))
                                     /\ (codec = "noise" => Size(m) = Len(m) + TagSize)
           /\ \A k \in 1 .. Len(sent) :
                 /\ sent[k] \in ByteStrings /\ Size(sent[k]) \in Nat
                 /\ Body(k) \in ByteStrings /\ Len(Body(k)) = Size(sent[k])
  <1>1. ASSUME NEW m \in ByteStrings
        PROVE  /\ Size(m) \in Nat /\ (codec # "noise" => Size(m) = Len(m))
               /\ (codec = "noise" => Size(m) = Len(m) + TagSize)
    BY <1>1, Constants DEF Size, ByteStrings
  <1>2. ASSUME NEW k \in 1 .. Len(sent) PROVE sent[k] \in ByteStrings /\ k - 1 \in Nat
    BY <1>2 DEF TypeInv
  <1>3. ASSUME NEW k \in 1 .. Len(sent)
        PROVE  Body(k) \in ByteStrings /\ Len(Body(k)) = Size(sent[k])
    <2>1. CASE codec = "noise"  BY <1>2, <2>1, Ciphertext DEF Body, Size
    <2>2. CASE codec # "noise"  BY <1>1, <1>2, <2>2 DEF Body
    <2>. QED  BY <2>1, <2>2
  <1>. QED  BY <1>1, <1>2, <1>3

\* A writer begins a message when no other is at one.
LEMMA Begins ==
    ASSUME TypeInv, WriterInv, NEW w \in Writers, \A v \in Writers : ~Writing(v),
           NEW x \in WriterStates, Go(w, x), UNCHANGED codec, sent' = Append(sent, Payload[w]),
           \/ codec = "packet" /\ x.at = "data"
           \/ codec = "noise" /\ x.at = "encrypted" /\ mutex' /\ x.nonce = Len(sent),
           Size(Payload[w]) <= MaxLength
    PROVE  WriterInv'
  <1>1. /\ Len(sent) \in Nat /\ Len(sent') = Len(sent) + 1 /\ sent'[Len(sent) + 1] = Payload[w]
        /\ \A k \in 1 .. Len(sent) : sent'[k] = sent[k]
    BY DEF TypeInv
  <1>2. writer'[w] = x /\ \A v \in Writers : v # w => writer'[v] = writer[v]
    BY DEF Go, TypeInv
  <1>3. \A v \in Writers : Writing(v)' => v = w  BY <1>2 DEF Writing
  <1>4. ASSUME NEW k \in 1 .. Len(sent') PROVE Size(sent[k])' <= MaxLength
    <2>1. CASE k \in 1 .. Len(sent)  BY <1>1, <2>1 DEF Size, WriterInv
    <2>2. CASE k = Len(sent) + 1  BY <1>1, <2>2 DEF Size
    <2>. QED  BY <1>1, <2>1, <2>2
  <1>5. sent' # <<>>  BY <1>1
  <1>6. ASSUME NEW v \in Writers
        PROVE  /\ writer'[v].at = "data" => codec' = "packet"
               /\ writer'[v].at = "encrypted" =>
                     codec' = "noise" /\ mutex' /\ writer'[v].nonce = Len(sent') - 1
               /\ Writing(v)' => /\ sent' # <<>> /\ sent'[Len(sent')] = Payload[v]
                                 /\ \A u \in Writers : Writing(u)' => u = v
    <2>1. CASE v = w  BY <1>1, <1>2, <1>3, <1>5, <2>1
    <2>2. CASE v # w  BY <1>2, <1>3, <2>2 DEF Writing
    <2>. QED  BY <2>1, <2>2
  <1>. QED  BY <1>4, <1>6 DEF WriterInv

\* A writer that ends its message, or is refused, leaves no other at one.
LEMMA Ends ==
    ASSUME TypeInv, WriterInv, NEW w \in Writers, NEW x \in WriterStates, Go(w, x),
           x.at \notin {"data", "encrypted"}, UNCHANGED <<codec, sent>>,
           UNCHANGED mutex \/ writer[w].at = "encrypted"
    PROVE  /\ WriterInv'
           /\ Writing(w) => \A v \in Writers : ~Writing(v)'
           /\ ~Writing(w) => \A v \in Writers : Writing(v)' <=> Writing(v)
  <1>1. writer'[w] = x /\ \A v \in Writers : v # w => writer'[v] = writer[v]
    BY DEF Go, TypeInv
  <1>2. \A v \in Writers : Writing(v)' => Writing(v) /\ v # w  BY <1>1 DEF Writing
  <1>3. Writing(w) => \A v \in Writers : ~Writing(v)'  BY <1>2 DEF WriterInv
  <1>4. ~Writing(w) => \A v \in Writers : Writing(v)' <=> Writing(v)  BY <1>1 DEF Writing
  <1>5. \A k \in 1 .. Len(sent') : Size(sent[k])' <= MaxLength  BY DEF WriterInv, Size
  <1>6. ASSUME NEW v \in Writers
        PROVE  /\ writer'[v].at = "data" => codec' = "packet"
               /\ writer'[v].at = "encrypted" =>
                     codec' = "noise" /\ mutex' /\ writer'[v].nonce = Len(sent') - 1
               /\ Writing(v)' => /\ sent' # <<>> /\ sent'[Len(sent')] = Payload[v]
                                 /\ \A u \in Writers : Writing(u)' => u = v
    <2>1. CASE v = w  BY <1>1, <2>1 DEF Writing
    <2>2. CASE v # w  BY <1>1, <1>2, <1>3, <2>2 DEF Writing, WriterInv
    <2>. QED  BY <2>1, <2>2
  <1>. QED  BY <1>3, <1>4, <1>5, <1>6 DEF WriterInv

-----------------------------------------------------------------------------
(* Texts that lie one after the other                                      *)

\* The ith of l places after a is one of n if they end at b.
LEMMA InReach ==
    \A a, b \in Int : \A i, l, n \in Nat :
        a + i >= 1 /\ i <= l /\ b = a + l /\ b <= n => a + i \in 1 .. n
OBVIOUS

\* The first bytes of another text are added after texts that are complete.
LEMMA LayoutBegins ==
    ASSUME NEW S, NEW s \in Seq(S), NEW p \in Seq(S), NEW r \in Nat, NEW n \in Nat, r <= n,
           NEW text, NEW text2, \A k \in r + 1 .. n : text2[k] = text[k],
           NEW l \in Nat, Len(text2[n + 1]) = l, Len(p) <= l,
           \A i \in 1 .. Len(p) : p[i] = text2[n + 1][i],
           NEW from, IsLaid(s, r, n, text, from, 0)
    PROVE  IsLaid(s \o p, r, n + 1, text2, from, l - Len(p))
  <1>1. PICK at \in [r .. n -> Int] : Layout(at, s, r, n, text, from, 0)  BY DEF IsLaid
  <1>2. /\ Len(s) \in Nat /\ Len(p) \in Nat /\ Len(s \o p) = Len(s) + Len(p)
        /\ \A i \in 1 .. Len(s) : (s \o p)[i] = s[i]
        /\ \A i \in 1 .. Len(p) : (s \o p)[Len(s) + i] = p[i]
    OBVIOUS
  <1>3. PICK q : q = s \o p  BY Zenon
  <1>4. PICK b : b = [k \in r .. n + 1 |-> IF k = n + 1 THEN at[n] + l ELSE at[k]]  BY Zenon
  <1>5. at[n] \in Int /\ Len(s) = at[n]
    <2>1. at[n] \in Int  OBVIOUS
    <2>. QED  BY <1>1, <1>2, <2>1 DEF Layout
  <1>6. b \in [r .. n + 1 -> Int] /\ b[n + 1] = at[n] + l /\ \A k \in r .. n : b[k] = at[k]
    BY <1>4, <1>5
  <1>7. b[r] = from  BY <1>1, <1>6 DEF Layout
  <1>8. ASSUME NEW k \in r + 1 .. n + 1 PROVE b[k] = b[k - 1] + Len(text2[k])
    <2>1. CASE k = n + 1  BY <1>6, <2>1
    <2>2. CASE k \in r + 1 .. n
      <3>1. k \in r .. n /\ k - 1 \in r .. n  BY <2>2
      <3>2. at[k] = at[k - 1] + Len(text[k])  BY <1>1, <2>2 DEF Layout
      <3>. QED  BY <1>6, <2>2, <3>1, <3>2
    <2>. QED  BY <2>1, <2>2
  <1>9. ASSUME NEW j \in r .. n + 1, NEW k \in r .. n + 1, j <= k PROVE b[j] <= b[k]
    <2>1. CASE k \in r .. n
      <3>1. j \in r .. n  BY <1>9, <2>1
      <3>. QED  BY <1>1, <1>6, <1>9, <2>1, <3>1 DEF Layout
    <2>2. CASE k = n + 1 /\ j \in r .. n
      <3>1. at[j] \in Int /\ at[j] <= at[n]  BY <1>1, <2>2 DEF Layout
      <3>. QED  BY <1>5, <1>6, <2>2, <3>1
    <2>3. CASE k = n + 1 /\ j = n + 1  BY <1>5, <1>6, <2>3
    <2>. QED  BY <2>1, <2>2, <2>3
  <1>10. Len(q) = b[n + 1] - (l - Len(p))  BY <1>2, <1>3, <1>5, <1>6
  <1>11. ASSUME NEW k \in r + 1 .. n + 1, NEW i \in 1 .. Len(text2[k]),
                b[k - 1] + i \in 1 .. Len(q)
         PROVE  q[b[k - 1] + i] = text2[k][i]
    <2>1. CASE k = n + 1
      <3>1. b[k - 1] = Len(s)  BY <1>5, <1>6, <2>1
      <3>2. i \in 1 .. Len(p)  BY <1>2, <1>3, <1>11, <2>1, <3>1
      <3>. QED  BY <1>2, <1>3, <2>1, <3>1, <3>2
    <2>2. CASE k \in r + 1 .. n
      <3>1. /\ at[k - 1] \in Int /\ at[k] \in Int /\ at[k] <= Len(s) /\ b[k - 1] = at[k - 1]
            /\ at[k] = at[k - 1] + Len(text[k]) /\ text2[k] = text[k]
        BY <1>1, <1>5, <1>6, <2>2 DEF Layout
      <3>0. i \in Nat /\ at[k - 1] + i >= 1 /\ i <= Len(text[k])  BY <1>11, <3>1
      <3>2. at[k - 1] + i \in 1 .. Len(s)
        <4>1. Len(s) \in Nat /\ Len(text[k]) \in Nat  BY <1>2, <3>1
        <4>. QED  BY <3>0, <3>1, <4>1, InReach
      <3>3. s[at[k - 1] + i] = text[k][i]  BY <1>1, <2>2, <3>1, <3>2, Zenon DEF Layout
      <3>. QED  BY <1>2, <1>3, <3>1, <3>2, <3>3
    <2>. QED  BY <2>1, <2>2
  <1>12. Layout(b, q, r, n + 1, text2, from, l - Len(p))
    BY <1>7, <1>8, <1>9, <1>10, <1>11 DEF Layout
  <1>. QED  BY <1>3, <1>6, <1>12 DEF IsLaid

\* The bytes that the last text lacks are added.
LEMMA LayoutEnds ==
    ASSUME NEW S, NEW s \in Seq(S), NEW p \in Seq(S), NEW r \in Nat, NEW n \in Nat, r < n,
           NEW text, \A k \in r + 1 .. n : Len(text[k]) \in Nat,
           NEW l \in Nat, Len(text[n]) = l, Len(p) <= l,
           \A i \in 1 .. Len(p) : p[i] = text[n][l - Len(p) + i],
           NEW from, IsLaid(s, r, n, text, from, Len(p))
    PROVE  IsLaid(s \o p, r, n, text, from, 0)
  <1>1. PICK at \in [r .. n -> Int] : Layout(at, s, r, n, text, from, Len(p))  BY DEF IsLaid
  <1>2. /\ Len(s) \in Nat /\ Len(p) \in Nat /\ Len(s \o p) = Len(s) + Len(p)
        /\ \A i \in 1 .. Len(s) : (s \o p)[i] = s[i]
        /\ \A i \in 1 .. Len(p) : (s \o p)[Len(s) + i] = p[i]
    OBVIOUS
  <1>3. PICK q : q = s \o p  BY Zenon
  <1>4. at[n] \in Int /\ n - 1 \in r .. n /\ n \in r + 1 .. n /\ at[n - 1] \in Int  OBVIOUS
  <1>5. Len(s) = at[n] - Len(p) /\ at[n] = at[n - 1] + l  BY <1>1, <1>4 DEF Layout
  <1>6. Len(q) = at[n] - 0  BY <1>2, <1>3, <1>4, <1>5
  <1>7. ASSUME NEW k \in r + 1 .. n, NEW i \in 1 .. Len(text[k]), at[k - 1] + i \in 1 .. Len(q)
        PROVE  q[at[k - 1] + i] = text[k][i]
    <2>0. k - 1 \in r .. n /\ k \in r .. n /\ at[k - 1] \in Int /\ at[k] \in Int  OBVIOUS
    <2>1. CASE at[k - 1] + i \in 1 .. Len(s)  BY <1>1, <1>2, <1>3, <2>1, Zenon DEF Layout
    <2>2. CASE at[k - 1] + i > Len(s)
      <3>1. CASE k = n
        <4>1. i \in 1 .. l  BY <3>1
        <4>0. at[n - 1] + i > Len(s) /\ Len(s) = (at[n - 1] + l) - Len(p)
          BY <1>5, <2>2, <3>1
        <4>2. i - (l - Len(p)) \in 1 .. Len(p)  BY <1>2, <1>4, <4>0, <4>1
        <4>3. at[n - 1] + i = Len(s) + (i - (l - Len(p)))  BY <1>2, <1>4, <4>0, <4>1
        <4>4. q[at[n - 1] + i] = p[i - (l - Len(p))]  BY <1>2, <1>3, <4>2, <4>3, Zenon
        <4>5. p[i - (l - Len(p))] = text[n][l - Len(p) + (i - (l - Len(p)))]  BY <4>2
        <4>6. l - Len(p) + (i - (l - Len(p))) = i  BY <1>2, <4>1
        <4>. QED  BY <3>1, <4>4, <4>5, <4>6
      <3>2. CASE k \in r + 1 .. n - 1
        <4>1. at[k] <= at[n - 1]  BY <1>1, <1>4, <2>0, <3>2 DEF Layout
        <4>2. at[k] = at[k - 1] + Len(text[k])  BY <1>1 DEF Layout
        <4>3. i \in Nat /\ Len(text[k]) \in Nat /\ i <= Len(text[k])  OBVIOUS
        <4>4. at[k - 1] + i <= at[k]  BY <2>0, <4>2, <4>3
        <4>5. at[n - 1] <= Len(s)  BY <1>2, <1>4, <1>5
        <4>6. at[k - 1] + i <= Len(s)  BY <1>2, <1>4, <2>0, <4>1, <4>3, <4>4, <4>5
        <4>. QED  BY <1>2, <2>0, <2>2, <4>3, <4>6
      <3>. QED  BY <3>1, <3>2
    <2>3. i \in Int /\ at[k - 1] + i \in Int /\ at[k - 1] + i >= 1  BY <1>7, <2>0
    <2>. QED  BY <1>2, <2>1, <2>2, <2>3
  <1>8. Layout(at, q, r, n, text, from, 0)  BY <1>1, <1>6, <1>7 DEF Layout
  <1>. QED  BY <1>3, <1>8 DEF IsLaid

\* Bytes are taken from the front.
LEMMA LayoutTaken ==
    ASSUME NEW S, NEW s \in Seq(S), NEW q \in Seq(S), NEW c \in Nat, c <= Len(s),
           Len(q) = Len(s) - c, \A i \in 1 .. Len(q) : q[i] = s[i + c],
           NEW r \in Nat, NEW n \in Nat, r <= n,
           NEW text, \A k \in r + 1 .. n : Len(text[k]) \in Nat, NEW lacking \in Nat,
           NEW from \in Int, IsLaid(s, r, n, text, from, lacking)
    PROVE  IsLaid(q, r, n, text, from - c, lacking)
  <1>1. PICK at \in [r .. n -> Int] : Layout(at, s, r, n, text, from, lacking)  BY DEF IsLaid
  <1>2. Len(s) \in Nat /\ Len(q) \in Nat  OBVIOUS
  <1>3. PICK b : b = [k \in r .. n |-> at[k] - c]  BY Zenon
  <1>4. b \in [r .. n -> Int] /\ \A k \in r .. n : b[k] = at[k] - c /\ at[k] \in Int
    BY <1>3
  <1>5. b[r] = from - c  BY <1>1, <1>4 DEF Layout
  <1>6. ASSUME NEW k \in r + 1 .. n PROVE b[k] = b[k - 1] + Len(text[k])
    <2>1. k \in r .. n /\ k - 1 \in r .. n  OBVIOUS
    <2>2. at[k] = at[k - 1] + Len(text[k])  BY <1>1 DEF Layout
    <2>3. Len(text[k]) \in Nat /\ at[k] \in Int /\ at[k - 1] \in Int  BY <1>4, <2>1
    <2>4. b[k] = at[k] - c /\ b[k - 1] = at[k - 1] - c  BY <1>4, <2>1
    <2>5. PICK x \in Int, y \in Nat : x = at[k - 1] /\ y = Len(text[k])  BY <2>3
    <2>6. (x + y) - c = (x - c) + y  OBVIOUS
    <2>. QED  BY <2>2, <2>4, <2>5, <2>6
  <1>7. ASSUME NEW j \in r .. n, NEW k \in r .. n, j <= k PROVE b[j] <= b[k]
    <2>1. at[j] <= at[k]  BY <1>1, <1>7 DEF Layout
    <2>. QED  BY <1>4, <2>1
  <1>8. Len(q) = b[n] - lacking
    <2>1. Len(s) = at[n] - lacking /\ n \in r .. n  BY <1>1 DEF Layout
    <2>. QED  BY <1>2, <1>4, <2>1
  <1>9. ASSUME NEW k \in r + 1 .. n, NEW i \in 1 .. Len(text[k]), b[k - 1] + i \in 1 .. Len(q)
        PROVE  q[b[k - 1] + i] = text[k][i]
    <2>1. k - 1 \in r .. n /\ i \in Int  OBVIOUS
    <2>5. b[k - 1] = at[k - 1] - c /\ at[k - 1] \in Int  BY <1>4, <2>1, Zenon
    <2>2. at[k - 1] + i = (b[k - 1] + i) + c  BY <2>1, <2>5
    <2>3. at[k - 1] + i \in 1 .. Len(s)
      <3>1. PICK x \in 1 .. Len(q) : x = b[k - 1] + i  BY <1>9
      <3>2. x + c \in 1 .. Len(s)  BY <1>2
      <3>. QED  BY <2>2, <3>1, <3>2
    <2>4. s[at[k - 1] + i] = text[k][i]  BY <1>1, <2>3, Zenon DEF Layout
    <2>. QED  BY <1>9, <2>2, <2>4, Zenon
  <1>10. Layout(b, q, r, n, text, from - c, lacking)
    BY <1>5, <1>6, <1>7, <1>8, <1>9, Zenon DEF Layout
  <1>. QED  BY <1>4, <1>10 DEF IsLaid

\* Where the first text ends the next one begins.
LEMMA LayoutFirst ==
    ASSUME NEW S, NEW s \in Seq(S), NEW r \in Nat, NEW n \in Nat, r < n, NEW text,
           NEW l \in Nat, Len(text[r + 1]) = l, NEW lacking \in Nat, NEW from \in Int,
           IsLaid(s, r, n, text, from, lacking)
    PROVE  IsLaid(s, r + 1, n, text, from + l, lacking)
  <1>1. PICK at \in [r .. n -> Int] : Layout(at, s, r, n, text, from, lacking)  BY DEF IsLaid
  <1>2. at[r] = from /\ r + 1 \in r + 1 .. n /\ (r + 1) - 1 = r /\ r + 1 \in r .. n
    <2>1. at[r] = from  BY <1>1 DEF Layout
    <2>. QED  BY <2>1
  <1>3. at[r + 1] = from + l  BY <1>1, <1>2 DEF Layout
  <1>5. PICK b : b = [k \in r + 1 .. n |-> at[k]]  BY Zenon
  <1>6. b \in [r + 1 .. n -> Int] /\ \A k \in r + 1 .. n : b[k] = at[k] /\ k \in r .. n
    BY <1>5
  <1>7. Len(s) = b[n] - lacking  BY <1>1, <1>6 DEF Layout
  <1>8. \A k \in (r + 1) + 1 .. n : k \in r + 1 .. n /\ k - 1 \in r + 1 .. n  OBVIOUS
  <1>9. \A k \in (r + 1) + 1 .. n : b[k] = b[k - 1] + Len(text[k])
    BY <1>1, <1>6, <1>8 DEF Layout
  <1>10. ASSUME NEW j \in r + 1 .. n, NEW k \in r + 1 .. n, j <= k PROVE b[j] <= b[k]
    BY <1>1, <1>6, <1>10, Zenon DEF Layout
  <1>11. \A k \in (r + 1) + 1 .. n : \A i \in 1 .. Len(text[k]) :
            b[k - 1] + i \in 1 .. Len(s) => s[b[k - 1] + i] = text[k][i]
    BY <1>1, <1>6, <1>8, Zenon DEF Layout
  <1>12. Layout(b, s, r + 1, n, text, from + l, lacking)
    BY <1>2, <1>3, <1>6, <1>7, <1>9, <1>10, <1>11 DEF Layout
  <1>. QED  BY <1>6, <1>12 DEF IsLaid

\* What is in bytes after byte from is the message, as far as they go.
Holds(bytes, from, message) ==
    \A i \in 1 .. Len(message) : from + i \in 1 .. Len(bytes) => bytes[from + i] = message[i]

\* The bytes of the first text.
LEMMA LayoutFront ==
    ASSUME NEW s, NEW r \in Nat, NEW n \in Nat, r < n, NEW text, NEW lacking, NEW from,
           IsLaid(s, r, n, text, from, lacking)
    PROVE  Holds(s, from, text[r + 1])
  <1>1. PICK at \in [r .. n -> Int] : Layout(at, s, r, n, text, from, lacking)  BY DEF IsLaid
  <1>2. at[(r + 1) - 1] = from /\ r + 1 \in r + 1 .. n
    <2>1. at[r] = from  BY <1>1 DEF Layout
    <2>. QED  BY <2>1
  <1>3. \A i \in 1 .. Len(text[r + 1]) : at[(r + 1) - 1] + i \in 1 .. Len(s) =>
           s[at[(r + 1) - 1] + i] = text[r + 1][i]
    BY <1>1, <1>2, Zenon DEF Layout
  <1>. QED  BY <1>2, <1>3 DEF Holds

\* There is a text if there are bytes.
LEMMA LayoutEmpty ==
    ASSUME NEW S, NEW s \in Seq(S), NEW r \in Nat, NEW n \in Nat, NEW text,
           NEW lacking \in Nat, IsLaid(s, r, n, text, 0, lacking), Len(s) > 0
    PROVE  r # n
  <1>1. PICK at \in [r .. n -> Int] : Layout(at, s, r, n, text, 0, lacking)  BY DEF IsLaid
  <1>. QED  BY <1>1 DEF Layout

-----------------------------------------------------------------------------
(* What is on the stream                                                   *)

\* A sequence and another one.
LEMMA Joined ==
    ASSUME NEW S, NEW a \in Seq(S), NEW b \in Seq(S)
    PROVE  /\ a \o b \in Seq(S) /\ Len(a \o b) = Len(a) + Len(b) /\ Len(b) \in Nat
           /\ \A i \in 1 .. Len(a) : (a \o b)[i] = a[i]
           /\ \A i \in 1 .. Len(b) : (a \o b)[Len(a) + i] = b[i]
  OBVIOUS

\* A length and as many bytes.
LEMMA TextOf ==
    ASSUME NEW n \in Nat, n <= MaxLength, NEW b \in ByteStrings, Len(b) = n
    PROVE  /\ Bytes(n) \o b \in ByteStrings /\ Len(Bytes(n) \o b) = 2 + n
           /\ \A i \in 1 .. 2 : (Bytes(n) \o b)[i] = Bytes(n)[i]
           /\ \A i \in 1 .. n : (Bytes(n) \o b)[2 + i] = b[i]
  <1>1. Bytes(n) \in ByteStrings /\ Len(Bytes(n)) = 2  BY Lengths, Constants DEF Fits
  <1>2. PICK S : S = 0 .. Base - 1  OBVIOUS
  <1>3. PICK a \in Seq(S) : a = Bytes(n) /\ Len(a) = 2  BY <1>1, <1>2 DEF ByteStrings
  <1>4. PICK c \in Seq(S) : c = b /\ Len(c) = n  BY <1>2 DEF ByteStrings
  <1>5. /\ a \o c \in Seq(S) /\ Len(a \o c) = Len(a) + Len(c)
        /\ \A i \in 1 .. Len(a) : (a \o c)[i] = a[i]
        /\ \A i \in 1 .. Len(c) : (a \o c)[Len(a) + i] = c[i]
    BY Joined
  <1>. QED  BY <1>2, <1>3, <1>4, <1>5, Zenon DEF ByteStrings

\* Text[k] is the length of message k and its bytes.
LEMMA Texts ==
    ASSUME TypeInv, WriterInv, NEW k \in 1 .. Len(sent)
    PROVE  /\ sent[k] \in ByteStrings /\ Size(sent[k]) \in Nat /\ Size(sent[k]) <= MaxLength
           /\ Text[k] = Bytes(Size(sent[k])) \o Body(k)
           /\ Text[k] \in ByteStrings /\ Len(Text[k]) = 2 + Size(sent[k])
           /\ \A i \in 1 .. 2 : Text[k][i] = Bytes(Size(sent[k]))[i]
           /\ \A i \in 1 .. Size(sent[k]) : Text[k][2 + i] = Body(k)[i]
  <1>1. /\ sent[k] \in ByteStrings /\ Size(sent[k]) \in Nat
        /\ Body(k) \in ByteStrings /\ Len(Body(k)) = Size(sent[k])
    BY Sizes
  <1>2. Size(sent[k]) <= MaxLength  BY DEF WriterInv
  <1>3. Text[k] = Bytes(Size(sent[k])) \o Body(k)  BY DEF Text
  <1>4. PICK z \in Nat, b \in ByteStrings :
           z = Size(sent[k]) /\ b = Body(k) /\ Len(b) = z /\ z <= MaxLength
    BY <1>1, <1>2
  <1>5. /\ Bytes(z) \o b \in ByteStrings /\ Len(Bytes(z) \o b) = 2 + z
        /\ \A i \in 1 .. 2 : (Bytes(z) \o b)[i] = Bytes(z)[i]
        /\ \A i \in 1 .. z : (Bytes(z) \o b)[2 + i] = b[i]
    BY <1>4, TextOf, Zenon
  <1>. QED  BY <1>1, <1>2, <1>3, <1>4, <1>5, Zenon

\* A writer begins: a Packet's length goes on the stream, of a noise message nothing.
LEMMA StreamBegins ==
    ASSUME TypeInv, WriterInv, Len(received) <= Len(sent), StreamInv, NEW w \in Writers,
           \A v \in Writers : ~Writing(v), Writing(w)', sent' = Append(sent, Payload[w]),
           UNCHANGED <<codec, reader, received>>, Size(Payload[w]) <= MaxLength,
           stream' = IF codec = "noise" THEN stream ELSE stream \o Bytes(Size(Payload[w]))
    PROVE  StreamInv'
  <1>1. PICK m \in ByteStrings, n \in Nat, r \in Nat :
           m = Payload[w] /\ n = Len(sent) /\ r = Len(received)
    BY Constants DEF TypeInv
  <1>2. Size(m) \in Nat /\ Size(m) <= MaxLength /\ r <= n  BY <1>1, Sizes
  <1>3. /\ Len(sent') = n + 1 /\ sent'[n + 1] = m /\ Len(received') = r
        /\ \A k \in 1 .. n : sent'[k] = sent[k]
    BY <1>1 DEF TypeInv
  <1>4. PICK c \in ByteStrings : c = Body(n + 1)' /\ Len(c) = Size(m)
    <2>1. CASE codec = "noise"  BY <1>1, <1>3, <2>1, Ciphertext DEF Body, Size
    <2>2. CASE codec # "noise"  BY <1>3, <1>2, <2>2, Sizes DEF Body
    <2>. QED  BY <2>1, <2>2
  <1>5. /\ Text'[n + 1] = Bytes(Size(m)) \o c
        /\ \A k \in 1 .. n : Text'[k] = Text[k]
    <2>1. /\ Text' = [k \in 1 .. n + 1 |-> Bytes(Size(sent[k])') \o Body(k)']
          /\ Text = [k \in 1 .. n |-> Bytes(Size(sent[k])) \o Body(k)]
      BY <1>1, <1>3 DEF Text, Bytes
    <2>2. Size(sent[n + 1])' = Size(m)  BY <1>3 DEF Size
    <2>3. \A k \in 1 .. n : Size(sent[k])' = Size(sent[k]) /\ Body(k)' = Body(k)
      BY <1>3 DEF Size, Body
    <2>7. n + 1 \in 1 .. n + 1 /\ \A k \in 1 .. n : k \in 1 .. n + 1  OBVIOUS
    <2>4. Text'[n + 1] = Bytes(Size(sent[n + 1])') \o Body(n + 1)'  BY <2>1, <2>7, Zenon
    <2>5. \A k \in 1 .. n : /\ Text'[k] = Bytes(Size(sent[k])') \o Body(k)'
                            /\ Text[k] = Bytes(Size(sent[k])) \o Body(k)
      BY <2>1, <2>7, Zenon
    <2>6. \A k \in 1 .. n : Text'[k] = Text[k]  BY <2>3, <2>5, Zenon
    <2>. QED  BY <1>4, <2>2, <2>4, <2>6
  <1>6. /\ Len(Text'[n + 1]) = 2 + Size(m)
        /\ \A i \in 1 .. 2 : Text'[n + 1][i] = Bytes(Size(m))[i]
    BY <1>2, <1>4, <1>5, TextOf
  <1>7. /\ Unwritten = 0
        /\ Unwritten' = Size(m) + (IF codec = "noise" THEN 2 ELSE 0)
    BY <1>3, Constants, Zenon DEF Unwritten, Size
  <1>8. PICK f : f = IF reader.at = "data" THEN -LengthSize ELSE 0  OBVIOUS
  <1>9. IsLaid(stream, r, n, Text, f, 0)  BY <1>1, <1>7, <1>8 DEF StreamInv
  <1>10. PICK S : S = 0 .. Base - 1 /\ stream \in Seq(S)  BY DEF TypeInv, ByteStrings
  <1>11. PICK t : t = Text'  OBVIOUS
  <1>12. \A k \in r + 1 .. n : t[k] = Text[k]  BY <1>5, <1>11
  <1>15. 2 + Size(m) \in Nat /\ Len(t[n + 1]) = 2 + Size(m)  BY <1>2, <1>6, <1>11
  <1>13. IsLaid(stream', r, n + 1, t, f, Unwritten')
    <2>1. CASE codec = "noise"
      <3>1. IsLaid(stream \o <<>>, r, n + 1, t, f, (2 + Size(m)) - Len(<<>>))
        <4>1. <<>> \in Seq(S) /\ Len(<<>>) = 0  OBVIOUS
        <4>2. PICK p \in Seq(S) : p = <<>> /\ Len(p) = 0  BY <4>1, Zenon
        <4>3. Len(p) <= 2 + Size(m) /\ \A i \in 1 .. Len(p) : p[i] = t[n + 1][i]  BY <1>2, <4>2
        <4>4. IsLaid(stream \o p, r, n + 1, t, f, (2 + Size(m)) - Len(p))
          BY <1>2, <1>9, <1>10, <1>12, <1>15, <4>3, LayoutBegins, Zenon
        <4>. QED  BY <4>2, <4>4
      <3>2. stream \o <<>> = stream /\ (2 + Size(m)) - Len(<<>>) = Unwritten'
        BY <1>2, <1>7, <1>10, <2>1
      <3>. QED  BY <2>1, <3>1, <3>2
    <2>2. CASE codec # "noise"
      <3>1. Bytes(Size(m)) \in ByteStrings /\ Len(Bytes(Size(m))) = 2
        BY <1>2, Lengths, Constants DEF Fits
      <3>2. PICK p \in Seq(S) : p = Bytes(Size(m)) /\ Len(p) = 2
        BY <1>10, <3>1 DEF ByteStrings
      <3>3. Len(p) <= 2 + Size(m) /\ \A i \in 1 .. Len(p) : p[i] = t[n + 1][i]
        BY <1>2, <1>6, <1>11, <3>2
      <3>4. IsLaid(stream \o p, r, n + 1, t, f, (2 + Size(m)) - Len(p))
        BY <1>2, <1>9, <1>10, <1>12, <1>15, <3>3, LayoutBegins, Zenon
      <3>5. (2 + Size(m)) - Len(p) = Unwritten'  BY <1>2, <1>7, <2>2, <3>2
      <3>. QED  BY <1>1, <2>2, <3>2, <3>4, <3>5
    <2>. QED  BY <2>1, <2>2
  <1>14. reader'.at = "data" => r < n + 1 /\ reader'.size = Size(sent[r + 1])'
    BY <1>1, <1>2, <1>3 DEF StreamInv, Size
  <1>. QED  BY <1>3, <1>8, <1>11, <1>13, <1>14 DEF StreamInv

\* A writer ends: what was lacking of the last message goes on the stream.
LEMMA StreamEnds ==
    ASSUME TypeInv, WriterInv, Len(received) <= Len(sent), StreamInv, NEW w \in Writers,
           Writing(w), \A v \in Writers : ~Writing(v)', UNCHANGED <<codec, sent, reader, received>>,
           stream' = IF codec = "noise"
                     THEN stream \o (Bytes(Size(Payload[w])) \o Encrypt(Payload[w], Len(sent) - 1))
                     ELSE stream \o Payload[w]
    PROVE  StreamInv'
  <1>1. PICK n \in Nat, r \in Nat : n = Len(sent) /\ r = Len(received)  BY DEF TypeInv
  <1>2. sent[n] = Payload[w] /\ n \in 1 .. Len(sent) /\ r <= n
    <2>1. sent # <<>> /\ sent[n] = Payload[w]  BY <1>1 DEF WriterInv
    <2>. QED  BY <1>1, <2>1 DEF TypeInv
  <1>3. PICK z \in Nat : z = Size(sent[n]) /\ z = Size(Payload[w])  BY <1>2, Sizes
  <1>4. PICK S : S = 0 .. Base - 1 /\ stream \in Seq(S)  BY DEF TypeInv, ByteStrings
  <1>5. PICK t : t = Text  OBVIOUS
  <1>6. Text' = t  BY <1>5 DEF Text, Size, Body
  <1>7. /\ Len(t[n]) = 2 + z /\ t[n] \in Seq(S) /\ t[n] = Bytes(z) \o Body(n)
        /\ \A i \in 1 .. z : t[n][2 + i] = Body(n)[i]
    BY <1>2, <1>3, <1>4, <1>5, Texts, Zenon DEF ByteStrings
  <1>8. \A k \in r + 1 .. n : Len(t[k]) \in Nat
    <2>1. ASSUME NEW k \in r + 1 .. n PROVE Len(t[k]) \in Nat
      <3>1. k \in 1 .. Len(sent)  BY <1>1
      <3>2. Size(sent[k]) \in Nat /\ Len(t[k]) = 2 + Size(sent[k])  BY <1>5, <3>1, Texts
      <3>. QED  BY <3>2
    <2>. QED  BY <2>1
  <1>9. PICK p \in Seq(S) :
           /\ stream' = stream \o p /\ Len(p) = Unwritten /\ Len(p) <= 2 + z
           /\ \A i \in 1 .. Len(p) : p[i] = t[n][((2 + z) - Len(p)) + i]
    <2>1. CASE codec = "noise"
      <3>1. Unwritten = z + 2  BY <1>1, <1>3, <2>1, Constants DEF Unwritten
      <3>2. Body(n) = Encrypt(Payload[w], Len(sent) - 1)  BY <1>1, <1>2, <2>1 DEF Body
      <3>3. stream' = stream \o t[n]  BY <1>3, <1>7, <2>1, <3>2
      <3>4. \A i \in 1 .. Len(t[n]) : ((2 + z) - Len(t[n])) + i = i  BY <1>7
      <3>5. Len(t[n]) = Unwritten /\ Len(t[n]) <= 2 + z  BY <1>7, <3>1
      <3>6. \A i \in 1 .. Len(t[n]) : t[n][i] = t[n][((2 + z) - Len(t[n])) + i]  BY <3>4, Zenon
      <3>. QED  BY <1>7, <3>3, <3>5, <3>6, Zenon
    <2>2. CASE codec # "noise"
      <3>1. Unwritten = z  BY <1>1, <1>3, <2>2 DEF Unwritten
      <3>2. Body(n) = Payload[w]  BY <1>2, <2>2 DEF Body
      <3>3. Payload[w] \in Seq(S) /\ Len(Payload[w]) = z
        BY <1>3, <1>4, <2>2, Constants, Sizes DEF ByteStrings
      <3>4. (2 + z) - z = 2 /\ z <= 2 + z  OBVIOUS
      <3>. QED  BY <1>7, <2>2, <3>1, <3>2, <3>3, <3>4, Zenon
    <2>. QED  BY <2>1, <2>2, Zenon
  <1>10. PICK f : f = IF reader.at = "data" THEN -LengthSize ELSE 0  OBVIOUS
  <1>11. IsLaid(stream, r, n, t, f, Len(p))  BY <1>1, <1>5, <1>9, <1>10 DEF StreamInv
  <1>12. IsLaid(stream', r, n, t, f, 0)
    <2>1. CASE r < n
      <3>1. PICK l \in Nat : l = 2 + z  OBVIOUS
      <3>2. Len(t[n]) = l /\ Len(p) <= l /\ \A i \in 1 .. Len(p) : p[i] = t[n][l - Len(p) + i]
        BY <1>7, <1>9, <3>1, Zenon
      <3>3. IsLaid(stream \o p, r, n, t, f, 0)
        BY <1>4, <1>8, <1>11, <2>1, <3>2, LayoutEnds, Zenon
      <3>. QED  BY <1>9, <3>3, Zenon
    <2>2. CASE r = n
      <3>1. PICK at \in [r .. n -> Int] : Layout(at, stream, r, n, t, f, Len(p))
        BY <1>11 DEF IsLaid
      <3>2. f = 0 /\ f = at[r] /\ Len(stream) = at[n] - Len(p)
        BY <1>1, <1>10, <2>2, <3>1 DEF Layout, StreamInv
      <3>3. Len(stream) = 0 - Len(p) /\ Len(stream) \in Nat /\ Len(p) \in Nat
        BY <1>4, <2>2, <3>2
      <3>4. Len(p) = 0  BY <3>3
      <3>5. p = <<>>  BY <3>4
      <3>6. stream' = stream  BY <1>4, <1>9, <3>5
      <3>. QED  BY <1>11, <3>4, <3>6, Zenon
    <2>. QED  BY <1>2, <2>1, <2>2
  <1>13. Unwritten' = 0  BY DEF Unwritten
  <1>14. reader'.at = "data" => r < n /\ reader'.size = Size(sent[r + 1])'
    BY <1>1 DEF StreamInv, Size
  <1>. QED  BY <1>1, <1>6, <1>10, <1>12, <1>13, <1>14 DEF StreamInv

\* A number of bytes is lacking.
LEMMA UnwrittenType == ASSUME TypeInv, WriterInv PROVE Unwritten \in Nat
  <1>1. CASE \E w \in Writers : Writing(w)
    <2>1. sent # <<>>  BY <1>1 DEF WriterInv
    <2>2. Len(sent) \in 1 .. Len(sent)  BY <2>1 DEF TypeInv
    <2>. QED  BY <2>2, Sizes, Constants DEF Unwritten
  <1>. QED  BY <1>1 DEF Unwritten

\* The reader reads a length: that of the next message.
LEMMA ReadsLength ==
    ASSUME TypeInv, WriterInv, Len(received) <= Len(sent), StreamInv,
           reader.at = "length", Len(stream) >= 2, Take(2)
    PROVE  /\ Len(received) < Len(sent)
           /\ DecodeLength(stream) = Size(sent[Len(received) + 1])
           /\ Size(sent[Len(received) + 1]) <= MaxLength
           /\ IsLaid(stream', Len(received), Len(sent), Text, -2, Unwritten)
  <1>1. PICK n \in Nat, r \in Nat : n = Len(sent) /\ r = Len(received) /\ r <= n
    BY DEF TypeInv
  <1>2. PICK S : S = 0 .. Base - 1 /\ stream \in Seq(S)  BY DEF TypeInv, ByteStrings
  <1>0. PICK t : t = Text  OBVIOUS
  <1>3. PICK u \in Nat : u = Unwritten  BY UnwrittenType
  <1>4. PICK f \in Int : f = 0 /\ IsLaid(stream, r, n, t, f, u)
    BY <1>0, <1>1, <1>3 DEF StreamInv
  <1>5. r < n
    <2>1. Len(stream) > 0  BY <1>2
    <2>. QED  BY <1>1, <1>2, <1>4, <2>1, LayoutEmpty
  <1>6. r + 1 \in 1 .. Len(sent)  BY <1>1, <1>5
  <1>7. PICK z \in Nat : z = Size(sent[r + 1]) /\ z <= MaxLength  BY <1>6, Texts
  <1>8. Len(t[r + 1]) = 2 + z /\ \A i \in 1 .. 2 : t[r + 1][i] = Bytes(z)[i]
    BY <1>0, <1>6, <1>7, Texts
  <1>9. \A i \in 1 .. 2 + z : 0 + i \in 1 .. Len(stream) => stream[0 + i] = t[r + 1][i]
    <2>1. PICK l \in Nat : l = 2 + z /\ Len(t[r + 1]) = l  BY <1>8
    <2>2. Holds(stream, f, t[r + 1])  BY <1>4, <1>5, LayoutFront
    <2>. QED  BY <1>4, <2>1, <2>2 DEF Holds
  <1>10. stream[1] = Bytes(z)[1] /\ stream[2] = Bytes(z)[2]
    <2>1. /\ 1 \in 1 .. 2 + z /\ 0 + 1 \in 1 .. Len(stream) /\ 0 + 1 = 1
          /\ 2 \in 1 .. 2 + z /\ 0 + 2 \in 1 .. Len(stream) /\ 0 + 2 = 2
      BY <1>2
    <2>2. stream[1] = t[r + 1][1] /\ stream[2] = t[r + 1][2]  BY <1>9, <2>1
    <2>. QED  BY <1>8, <2>2
  <1>11. DecodeLength(stream) = z  BY <1>7, <1>10, Lengths DEF DecodeLength, Fits
  <1>12. \A k \in r + 1 .. n : Len(t[k]) \in Nat
    <2>1. ASSUME NEW k \in r + 1 .. n PROVE Len(t[k]) \in Nat
      <3>1. k \in 1 .. Len(sent)  BY <1>1
      <3>2. Size(sent[k]) \in Nat /\ Len(t[k]) = 2 + Size(sent[k])  BY <1>0, <3>1, Texts
      <3>. QED  BY <3>2
    <2>. QED  BY <2>1
  <1>13. PICK q \in Seq(S) : /\ q = stream' /\ Len(q) = Len(stream) - 2
                             /\ \A i \in 1 .. Len(q) : q[i] = stream[i + 2]
    BY <1>2, TakeType DEF TypeInv, ByteStrings
  <1>14. IsLaid(q, r, n, t, 0 - 2, u)  
    <2>1. PICK c \in Nat : c = 2  OBVIOUS
    <2>2. /\ c <= Len(stream) /\ Len(q) = Len(stream) - c
          /\ \A i \in 1 .. Len(q) : q[i] = stream[i + c]
      BY <1>2, <1>13, <2>1
    <2>3. IsLaid(q, r, n, t, f - c, u)  BY <1>1, <1>2, <1>4, <1>12, <2>2, LayoutTaken, Zenon
    <2>. QED  BY <1>4, <2>1, <2>3
  <1>15. 0 - 2 = -2  OBVIOUS
  <1>. QED  BY <1>0, <1>1, <1>3, <1>5, <1>7, <1>11, <1>13, <1>14, <1>15

\* The reader reads as many bytes: those of the next message, which is off the stream then.
LEMMA ReadsBody ==
    ASSUME TypeInv, WriterInv, Len(received) <= Len(sent), StreamInv,
           reader.at = "data", Len(stream) >= reader.size, Take(reader.size)
    PROVE  /\ Len(received) < Len(sent)
           /\ reader.size = Size(sent[Len(received) + 1])
           /\ SubSeq(stream, 1, reader.size) = Body(Len(received) + 1)
           /\ IsLaid(stream', Len(received) + 1, Len(sent), Text, 0, Unwritten)
  <1>1. PICK n \in Nat, r \in Nat : n = Len(sent) /\ r = Len(received) /\ r < n
    BY DEF TypeInv, StreamInv
  <1>2. PICK S : S = 0 .. Base - 1 /\ stream \in Seq(S)  BY DEF TypeInv, ByteStrings
  <1>0. PICK t : t = Text  OBVIOUS
  <1>3. PICK u \in Nat : u = Unwritten  BY UnwrittenType
  <1>4. PICK f \in Int : f = -2 /\ IsLaid(stream, r, n, t, f, u)
    BY <1>0, <1>1, <1>3, Constants DEF StreamInv
  <1>5. r + 1 \in 1 .. Len(sent)  BY <1>1
  <1>6. PICK z \in Nat : z = Size(sent[r + 1]) /\ z <= MaxLength /\ z = reader.size
    BY <1>1, <1>5, Texts, Zenon DEF StreamInv
  <1>7. PICK l \in Nat : l = 2 + z /\ Len(t[r + 1]) = l
    <2>1. Len(t[r + 1]) = 2 + z  BY <1>0, <1>5, <1>6, Texts, Zenon
    <2>. QED  BY <2>1
  <1>8. \A i \in 1 .. z : t[r + 1][2 + i] = Body(r + 1)[i]  BY <1>0, <1>5, <1>6, Texts, Zenon
  <1>9. \A i \in 1 .. l : f + i \in 1 .. Len(stream) => stream[f + i] = t[r + 1][i]
    <2>1. Holds(stream, f, t[r + 1])  BY <1>1, <1>4, LayoutFront
    <2>. QED  BY <1>7, <2>1 DEF Holds
  <1>10. \A i \in 1 .. z : stream[i] = Body(r + 1)[i]
    <2>1. ASSUME NEW i \in 1 .. z PROVE stream[i] = Body(r + 1)[i]
      <3>0. Len(stream) \in Nat /\ z <= Len(stream)  BY <1>2, <1>6
      <3>1. f + (2 + i) = i /\ i \in 1 .. Len(stream)  BY <1>4, <3>0
      <3>3. 2 + i \in 1 .. l  BY <1>7
      <3>2. stream[i] = t[r + 1][2 + i]  BY <1>9, <3>1, <3>3
      <3>. QED  BY <1>8, <3>1, <3>2
    <2>. QED  BY <2>1
  <1>11. SubSeq(stream, 1, reader.size) = Body(r + 1)
    <2>1. Body(r + 1) \in Seq(S) /\ Len(Body(r + 1)) = z
      BY <1>2, <1>5, <1>6, Sizes, Zenon DEF ByteStrings
    <2>2. PICK b \in Seq(S) : b = Body(r + 1) /\ Len(b) = z  BY <2>1
    <2>3. PICK c \in Seq(S) : /\ c = SubSeq(stream, 1, reader.size) /\ Len(c) = z
                              /\ \A i \in 1 .. z : c[i] = stream[i]
      BY <1>2, <1>6, FrontType, Zenon DEF TypeInv, ByteStrings
    <2>4. \A i \in 1 .. z : c[i] = b[i]  BY <1>10, <2>2, <2>3
    <2>5. c = b  BY <2>2, <2>3, <2>4
    <2>. QED  BY <2>2, <2>3, <2>5
  <1>12. \A k \in r + 1 .. n : Len(t[k]) \in Nat
    <2>1. ASSUME NEW k \in r + 1 .. n PROVE Len(t[k]) \in Nat
      <3>1. k \in 1 .. Len(sent)  BY <1>1
      <3>2. Size(sent[k]) \in Nat /\ Len(t[k]) = 2 + Size(sent[k])  BY <1>0, <3>1, Texts
      <3>. QED  BY <3>2
    <2>. QED  BY <2>1
  <1>13. PICK q \in Seq(S) : /\ q = stream' /\ Len(q) = Len(stream) - z
                             /\ \A i \in 1 .. Len(q) : q[i] = stream[i + z]
    BY <1>2, <1>6, TakeType, Zenon DEF TypeInv, ByteStrings
  <1>14. IsLaid(q, r, n, t, f - z, u)
    <2>1. z <= Len(stream) /\ r <= n  BY <1>1, <1>2, <1>6
    <2>. QED  BY <1>1, <1>2, <1>4, <1>12, <1>13, <2>1, LayoutTaken, Zenon
  <1>15. PICK g \in Int : g = f - z /\ g + l = 0  BY <1>4, <1>7
  <1>16. IsLaid(q, r + 1, n, t, g + l, u)  BY <1>1, <1>7, <1>13, <1>14, <1>15, LayoutFirst, Zenon
  <1>. QED  BY <1>0, <1>1, <1>3, <1>6, <1>11, <1>13, <1>15, <1>16

-----------------------------------------------------------------------------
(* The steps                                                               *)

\* Sequences one after the other.
LEMMA Associative ==
    ASSUME NEW S, NEW a \in Seq(S), NEW b \in Seq(S), NEW c \in Seq(S)
    PROVE  (a \o b) \o c = a \o (b \o c)
  OBVIOUS

\* A writer begins a message: of a Packet it writes the length.
LEMMA BeginsKeeps ==
    ASSUME FramingInv, Turns, NEW w \in Writers, PacketLength(w) \/ NoiseEncrypt(w), TypeInv'
    PROVE  FramingInv'
  <1>0. TypeInv /\ WriterInv /\ Len(received) <= Len(sent) /\ Payload[w] \in ByteStrings
    BY Constants DEF FramingInv, MessagesIntact
  <1>1. /\ sent' = Append(sent, Payload[w]) /\ UNCHANGED <<codec, buffer, reader, received>>
    BY DEF PacketLength, NoiseEncrypt
  <1>2. PICK x \in WriterStates :
           /\ Go(w, x)
           /\ \/ codec = "packet" /\ x.at = "data"
              \/ codec = "noise" /\ x.at = "encrypted" /\ mutex' /\ x.nonce = Len(sent)
    <2>1. CASE PacketLength(w)  BY <2>1, WriterShape, Zenon DEF PacketLength
    <2>2. CASE NoiseEncrypt(w)
      <3>1. Len(sent) \in Nat  BY <1>0 DEF TypeInv
      <3>. QED  BY <2>2, <3>1, WriterShape DEF NoiseEncrypt
    <2>. QED  BY <2>1, <2>2
  <1>3. \A v \in Writers : ~Writing(v)
    <2>1. CASE PacketLength(w)
      <3>1. codec = "packet" /\ ~Overlap  BY <1>0, <2>1 DEF PacketLength, Turns, TypeInv
      <3>. QED  BY <1>0, <2>1, <3>1, Zenon DEF PacketLength, WriterInv, Writing
    <2>2. CASE NoiseEncrypt(w)
      BY <1>0, <2>2 DEF NoiseEncrypt, WriteMutexFree, WriterInv, Writing
    <2>. QED  BY <2>1, <2>2
  <1>4. Size(Payload[w]) \in Nat /\ Size(Payload[w]) <= MaxLength
        /\ (codec = "packet" => Size(Payload[w]) = Len(Payload[w]))
    <2>1. CASE PacketLength(w)  BY <1>0, <2>1, Sizes, Zenon DEF PacketLength, Fits
    <2>2. CASE NoiseEncrypt(w)  BY <1>0, <2>2, Sizes, Zenon DEF NoiseEncrypt, Fits
    <2>. QED  BY <2>1, <2>2
  <1>5. stream' = IF codec = "noise" THEN stream ELSE stream \o Bytes(Size(Payload[w]))
    <2>1. CASE PacketLength(w)
      <3>1. Length(Len(Payload[w])) = Size(Payload[w])
        BY <1>4, <2>1, Lengths DEF PacketLength, Fits
      <3>. QED  BY <2>1, <3>1 DEF PacketLength
    <2>2. CASE NoiseEncrypt(w)  BY <2>2 DEF NoiseEncrypt
    <2>. QED  BY <2>1, <2>2
  <1>6. WriterInv'  BY <1>0, <1>1, <1>2, <1>3, <1>4, Begins
  <1>7. Writing(w)'  BY <1>0, <1>2 DEF Writing, Go, TypeInv
  <1>8. MessagesIntact'
    <2>1. /\ Len(sent) \in Nat /\ Len(received) \in Nat /\ Len(sent') = Len(sent) + 1
          /\ \A k \in 1 .. Len(sent) : sent'[k] = sent[k]
      BY <1>0, <1>1 DEF TypeInv
    <2>2. \A k \in 1 .. Len(received) : received[k] = sent[k] /\ k \in 1 .. Len(sent)
      BY <1>0, <2>1 DEF FramingInv, MessagesIntact
    <2>. QED  BY <1>0, <1>1, <2>1, <2>2 DEF MessagesIntact
  <1>9. FailureHasCause'  BY <1>1 DEF FramingInv, FailureHasCause
  <1>10. reader'.at \in {"length", "data"} => StreamInv'
    <2>1. SUFFICES ASSUME StreamInv PROVE StreamInv'  BY <1>1 DEF FramingInv
    <2>. QED  BY <1>0, <1>1, <1>3, <1>4, <1>5, <1>7, <2>1, StreamBegins
  <1>. QED  BY <1>6, <1>8, <1>9, <1>10 DEF FramingInv

\* A writer ends its message.
LEMMA EndsKeeps ==
    ASSUME FramingInv, NEW w \in Writers, PacketData(w) \/ NoiseWrite(w), TypeInv'
    PROVE  FramingInv'
  <1>0. /\ TypeInv /\ WriterInv /\ Len(received) <= Len(sent) /\ Payload[w] \in ByteStrings
        /\ Len(Payload[w]) \in Nat /\ TagSize \in Nat
    BY Constants DEF FramingInv, MessagesIntact, ByteStrings
  <1>1. UNCHANGED <<codec, buffer, sent, reader, received>> /\ Writing(w)
    BY Zenon DEF PacketData, NoiseWrite, Writing
  <1>2. PICK x \in WriterStates : Go(w, x) /\ x.at = "done"
    BY WriterShape DEF PacketData, NoiseWrite
  <1>3. UNCHANGED mutex \/ writer[w].at = "encrypted"  BY DEF PacketData, NoiseWrite
  <1>4. WriterInv' /\ \A v \in Writers : ~Writing(v)'  BY <1>0, <1>1, <1>2, <1>3, Ends
  <1>5. stream' = IF codec = "noise"
                  THEN stream \o (Bytes(Size(Payload[w])) \o Encrypt(Payload[w], Len(sent) - 1))
                  ELSE stream \o Payload[w]
    <2>1. CASE PacketData(w)
      <3>1. codec = "packet"  BY <1>0, <2>1 DEF PacketData, WriterInv
      <3>. QED  BY <2>1, <3>1 DEF PacketData
    <2>2. CASE NoiseWrite(w)
      <3>1. codec = "noise" /\ writer[w].nonce = Len(sent) - 1 /\ writer[w].nonce \in Nat
        BY <1>0, <2>2, WriterShape, Zenon DEF NoiseWrite, WriterInv, TypeInv
      <3>2. sent[Len(sent)] = Payload[w] /\ Len(sent) \in 1 .. Len(sent)
        <4>1. sent # <<>> /\ sent[Len(sent)] = Payload[w]  BY <1>0, <1>1 DEF WriterInv
        <4>. QED  BY <1>0, <4>1 DEF TypeInv
      <3>3. PICK z \in Nat : z = Size(Payload[w]) /\ z = Len(Payload[w]) + TagSize /\ Fits(z)
        <4>1. Size(Payload[w]) \in Nat /\ Size(Payload[w]) = Len(Payload[w]) + TagSize
          BY <1>0, <3>1, Sizes
        <4>2. Size(Payload[w]) <= MaxLength  BY <1>0, <3>2 DEF WriterInv
        <4>. QED  BY <4>1, <4>2 DEF Fits
      <3>4. Length(Len(Payload[w]) + TagSize) = z  BY <3>3, Lengths
      <3>5. PICK e \in ByteStrings : e = Encrypt(Payload[w], writer[w].nonce)
        BY <1>0, <3>1, Ciphertext
      <3>6. stream' = (stream \o Bytes(z)) \o e  BY <2>2, <3>4, <3>5, Zenon DEF NoiseWrite
      <3>7. Bytes(z) \in ByteStrings  BY <3>3, Lengths
      <3>8. (stream \o Bytes(z)) \o e = stream \o (Bytes(z) \o e)
        <4>1. PICK S : S = 0 .. Base - 1  OBVIOUS
        <4>2. PICK a \in Seq(S) : a = stream  BY <1>0, <4>1 DEF TypeInv, ByteStrings
        <4>3. PICK b \in Seq(S) : b = Bytes(z)  BY <3>7, <4>1 DEF ByteStrings
        <4>4. PICK c \in Seq(S) : c = e  BY <4>1 DEF ByteStrings
        <4>5. (a \o b) \o c = a \o (b \o c)  BY Associative
        <4>. QED  BY <4>2, <4>3, <4>4, <4>5
      <3>. QED  BY <3>1, <3>3, <3>5, <3>6, <3>8, Zenon
    <2>. QED  BY <2>1, <2>2
  <1>6. MessagesIntact' /\ FailureHasCause'
    BY <1>1 DEF FramingInv, MessagesIntact, FailureHasCause
  <1>7. reader'.at \in {"length", "data"} => StreamInv'
    <2>1. SUFFICES ASSUME StreamInv PROVE StreamInv'  BY <1>1 DEF FramingInv
    <2>. QED  BY <1>0, <1>1, <1>4, <1>5, <2>1, StreamEnds
  <1>. QED  BY <1>4, <1>6, <1>7 DEF FramingInv

\* A message that does not fit changes nothing.
LEMMA RefusalKeeps ==
    ASSUME FramingInv, NEW w \in Writers, WriteRefused(w), TypeInv' PROVE FramingInv'
  <1>1. /\ UNCHANGED <<codec, buffer, mutex, stream, sent, reader, received>>
        /\ TypeInv /\ WriterInv /\ ~Writing(w)
    BY Zenon DEF WriteRefused, FramingInv, Writing
  <1>2. PICK x \in WriterStates : Go(w, x) /\ x.at = "error"  BY WriterShape DEF WriteRefused
  <1>3. WriterInv' /\ \A v \in Writers : Writing(v)' <=> Writing(v)  BY <1>1, <1>2, Ends, Zenon
  <1>4. Unwritten' = Unwritten  BY <1>1, <1>3 DEF Unwritten, Size
  <1>5. Text' = Text  BY <1>1 DEF Text, Size, Body
  <1>6. StreamInv => StreamInv'  BY <1>1, <1>4, <1>5 DEF StreamInv, Size
  <1>. QED  BY <1>1, <1>3, <1>6 DEF FramingInv, MessagesIntact, FailureHasCause

\* What the reader leaves alone.
LEMMA ReaderLeaves ==
    ASSUME FramingInv, UNCHANGED <<codec, writer, mutex, sent>>
    PROVE  /\ WriterInv' /\ Unwritten' = Unwritten /\ Text' = Text
           /\ \A k \in 1 .. Len(sent) : Size(sent[k])' = Size(sent[k])
  <1>1. WriterInv'  BY DEF FramingInv, WriterInv, Writing, Size
  <1>2. Unwritten' = Unwritten  BY DEF Unwritten, Writing, Size
  <1>. QED  BY <1>1, <1>2 DEF Text, Size, Body

\* The reader reads a length.
LEMMA LengthKeeps ==
    ASSUME FramingInv, PacketReadLength \/ NoiseReadLength, TypeInv' PROVE FramingInv'
  <1>0. /\ TypeInv /\ WriterInv /\ Len(received) <= Len(sent) /\ LengthSize = 2
        /\ reader.at = "length" /\ UNCHANGED <<codec, buffer, writer, mutex, sent, received>>
    BY Constants, Zenon DEF FramingInv, MessagesIntact, PacketReadLength, NoiseReadLength
  <1>r. PICK size : /\ size = DecodeLength(stream)
                    /\ \/ reader' = [at |-> "failed", why |-> "length"]
                       \/ /\ Len(stream) >= LengthSize /\ Take(LengthSize)
                          /\ \/ reader' = [at |-> "data", size |-> size]
                             \/ reader' = [at |-> "panic"] /\ size > buffer
    BY Zenon DEF PacketReadLength, NoiseReadLength, Fail
  <1>1. StreamInv  BY <1>0 DEF FramingInv
  <1>2. MessagesIntact'  BY <1>0 DEF FramingInv, MessagesIntact
  <1>3. WriterInv' /\ Unwritten' = Unwritten /\ Text' = Text  BY <1>0, ReaderLeaves
  <1>4. CASE reader'.at = "failed"
    <2>1. reader'.why = "length"  BY <1>r, <1>4
    <2>. QED  BY <1>2, <1>3, <1>4, <2>1 DEF FramingInv, FailureHasCause
  <1>5. CASE reader'.at # "failed"
    <2>1. Len(stream) >= 2 /\ Take(2)
      BY <1>0, <1>r, <1>5
    <2>2. PICK z : /\ z = DecodeLength(stream) /\ z = Size(sent[Len(received) + 1])
                   /\ z <= MaxLength /\ Len(received) < Len(sent)
                   /\ IsLaid(stream', Len(received), Len(sent), Text, -2, Unwritten)
      BY <1>0, <1>1, <2>1, ReadsLength
    <2>3. \/ reader' = [at |-> "data", size |-> z]
          \/ reader' = [at |-> "panic"] /\ z > buffer
      BY <1>r, <1>5, <2>2
    <2>4. CASE reader' = [at |-> "data", size |-> z]
      <3>1. StreamInv'  BY <1>0, <1>3, <2>2, <2>4 DEF StreamInv, Size
      <3>. QED  BY <1>2, <1>3, <2>4, <3>1 DEF FramingInv, FailureHasCause
    <2>5. CASE reader' = [at |-> "panic"] /\ z > buffer
      <3>1. buffer \in Nat /\ MaxLength \in Nat  BY <1>0, Constants, FramingAssumption DEF TypeInv
      <3>2. z \in Nat
        <4>1. Len(received) + 1 \in 1 .. Len(sent)  BY <1>0, <2>2 DEF TypeInv
        <4>. QED  BY <1>0, <2>2, <4>1, Sizes
      <3>3. buffer < MessageMaxSize  BY <2>2, <2>5, <3>1, <3>2 DEF MessageMaxSize
      <3>. QED  BY <1>0, <1>2, <1>3, <2>5, <3>3 DEF FramingInv, FailureHasCause, MessageMaxSize
    <2>. QED  BY <2>3, <2>4, <2>5
  <1>. QED  BY <1>4, <1>5

\* A ciphertext with the nonce of its message is decrypted.
LEMMA BodyDecrypts ==
    ASSUME TypeInv, Len(received) < Len(sent), codec = "noise"
    PROVE  /\ Decrypts(Body(Len(received) + 1), Len(received))
           /\ SubSeq(Body(Len(received) + 1), 1, Len(Body(Len(received) + 1)) - TagSize)
                = sent[Len(received) + 1]
  <1>1. PICK r \in Nat : r = Len(received) /\ r + 1 \in 1 .. Len(sent) /\ (r + 1) - 1 = r
    BY DEF TypeInv
  <1>2. PICK p \in ByteStrings : p = sent[r + 1] /\ Len(p) \in Nat
    BY <1>1 DEF TypeInv, ByteStrings
  <1>3. Body(r + 1) = Encrypt(p, r)  BY <1>1, <1>2 DEF Body
  <1>4. Decrypts(Body(r + 1), r)  BY <1>1, <1>2, <1>3 DEF Decrypts
  <1>5. /\ Len(Encrypt(p, r)) = Len(p) + TagSize /\ SubSeq(Encrypt(p, r), 1, Len(p)) = p
    BY <1>1, Ciphertext, Zenon
  <1>6. Len(Encrypt(p, r)) - TagSize = Len(p)  BY <1>2, <1>5, Constants
  <1>. QED  BY <1>1, <1>2, <1>3, <1>4, <1>5, <1>6

\* The reader reads a message.
LEMMA BodyKeeps ==
    ASSUME FramingInv, PacketRead \/ NoiseRead, TypeInv' PROVE FramingInv'
  <1>0. /\ TypeInv /\ WriterInv /\ Len(received) <= Len(sent)
        /\ reader.at = "data" /\ UNCHANGED <<codec, buffer, writer, mutex, sent>>
        /\ Len(stream) >= reader.size /\ Take(reader.size)
    BY Zenon DEF FramingInv, MessagesIntact, PacketRead, NoiseRead
  <1>1. StreamInv  BY <1>0 DEF FramingInv
  <1>2. WriterInv' /\ Unwritten' = Unwritten /\ Text' = Text  BY <1>0, ReaderLeaves
  <1>3. /\ Len(received) < Len(sent)
        /\ SubSeq(stream, 1, reader.size) = Body(Len(received) + 1)
        /\ IsLaid(stream', Len(received) + 1, Len(sent), Text, 0, Unwritten)
    BY <1>0, <1>1, ReadsBody
  <1>4. reader' = [at |-> "length"] /\ received' = Append(received, sent[Len(received) + 1])
    <2>1. CASE PacketRead  BY <1>3, <2>1, Zenon DEF PacketRead, Body
    <2>2. CASE NoiseRead  BY <1>0, <1>3, <2>2, BodyDecrypts, Zenon DEF NoiseRead
    <2>. QED  BY <2>1, <2>2
  <1>5. /\ Len(received) \in Nat /\ Len(sent) \in Nat /\ Len(received') = Len(received) + 1
        /\ received'[Len(received) + 1] = sent[Len(received) + 1]
        /\ \A k \in 1 .. Len(received) : received'[k] = received[k]
    BY <1>0, <1>4 DEF TypeInv
  <1>6. MessagesIntact'
    <2>1. ASSUME NEW k \in 1 .. Len(received') PROVE received'[k] = sent'[k]
      <3>1. CASE k \in 1 .. Len(received)
        BY <1>0, <1>5, <3>1 DEF FramingInv, MessagesIntact
      <3>2. CASE k = Len(received) + 1  BY <1>0, <1>5, <3>2
      <3>. QED  BY <1>5, <3>1, <3>2
    <2>. QED  BY <1>0, <1>3, <1>5, <2>1 DEF MessagesIntact
  <1>7. StreamInv'  BY <1>0, <1>2, <1>3, <1>4, <1>5 DEF StreamInv
  <1>. QED  BY <1>2, <1>4, <1>6, <1>7 DEF FramingInv, FailureHasCause

\* Read returns an error for a buffer that is too small.
LEMMA BufferKeeps ==
    ASSUME FramingInv, NoiseBufferTooSmall, TypeInv' PROVE FramingInv'
  <1>1. /\ UNCHANGED <<codec, buffer, writer, mutex, sent, received>>
        /\ reader' = [at |-> "failed", why |-> "buffer"]
    BY DEF NoiseBufferTooSmall, Fail
  <1>2. WriterInv'  BY <1>1, ReaderLeaves
  <1>. QED  BY <1>1, <1>2 DEF FramingInv, MessagesIntact, FailureHasCause

\* Nothing has been written at first.
LEMMA Initially == ASSUME Init PROVE FramingInv
  <1>1. TypeInv
    <2>1. writer \in [Writers -> WriterStates]  BY WriterShape DEF Init
    <2>2. reader \in ReaderStates  BY ReaderShape DEF Init
    <2>3. stream \in ByteStrings  BY DEF Init, ByteStrings
    <2>4. sent \in Seq(ByteStrings) /\ received \in Seq(ByteStrings)  BY DEF Init
    <2>. QED  BY <2>1, <2>2, <2>3, <2>4, Zenon DEF Init, TypeInv
  <1>2. Len(sent) = 0 /\ Len(received) = 0 /\ Len(stream) = 0 /\ reader.at = "length"
    BY DEF Init
  <1>3. WriterInv /\ Unwritten = 0  BY <1>2 DEF Init, WriterInv, Writing, Unwritten
  <1>4. IsLaid(stream, 0, 0, Text, 0, 0)
    <2>1. Layout([k \in 0 .. 0 |-> 0], stream, 0, 0, Text, 0, 0)  BY <1>2 DEF Layout
    <2>. QED  BY <2>1 DEF IsLaid
  <1>5. StreamInv  BY <1>2, <1>3, <1>4 DEF StreamInv
  <1>. QED  BY <1>1, <1>2, <1>3, <1>5 DEF FramingInv, MessagesIntact, FailureHasCause

\* Every step keeps the invariant.
LEMMA StepKeeps == ASSUME FramingInv, Turns, [Next]_vars PROVE FramingInv'
  <1>1. CASE Next
    <2>1. ASSUME NEW w \in Writers, WriterStep(w) PROVE FramingInv'
      <3>1. TypeInv'  BY <2>1, WriterTypes DEF FramingInv
      <3>. QED  BY <2>1, <3>1, BeginsKeeps, EndsKeeps, RefusalKeeps DEF WriterStep
    <2>2. CASE ReaderStep
      <3>1. TypeInv'  BY <2>2, ReaderTypes DEF FramingInv
      <3>. QED  BY <2>2, <3>1, LengthKeeps, BodyKeeps, BufferKeeps DEF ReaderStep
    <2>. QED  BY <1>1, <2>1, <2>2 DEF Next
  <1>2. CASE UNCHANGED vars
    <2>1. TypeInv' /\ WriterInv' /\ Unwritten' = Unwritten /\ Text' = Text
      BY <1>2, ReaderLeaves DEF vars, FramingInv, TypeInv
    <2>2. StreamInv => StreamInv'  BY <1>2, <2>1 DEF vars, StreamInv, Size
    <2>. QED  BY <1>2, <2>1, <2>2 DEF vars, FramingInv, MessagesIntact, FailureHasCause
  <1>. QED  BY <1>1, <1>2

-----------------------------------------------------------------------------
(* Theorems                                                                *)

\* If writers take turns, the stream holds the messages that were begun and not
\* yet returned, one after the other, in every reachable state.
THEOREM FramingHolds == ASSUME Turns PROVE Spec => []FramingInv
  <1>1. Init => FramingInv  BY Initially
  <1>2. FramingInv /\ [Next]_vars => FramingInv'  BY StepKeeps
  <1>. QED  BY <1>1, <1>2, PTL DEF Spec

\* The reader returns the messages whole and in the order they were begun:
\* secure.Conn for any number of concurrent Write calls, because encrypting and
\* writing happen under writeMutex; Packets if WriteTo calls do not overlap.
THEOREM MessagesAreIntact == ASSUME Turns PROVE Spec => []MessagesIntact
  <1>1. FramingInv => MessagesIntact  BY DEF FramingInv
  <1>. QED  BY <1>1, FramingHolds, PTL

\* secure.Conn.Read fails only for a buffer that is too small or on half a length
\* field, never to decrypt, and panics only with a buffer below MessageMaxSize.
THEOREM FailuresHaveCauses == ASSUME Turns PROVE Spec => []FailureHasCause
  <1>1. FramingInv => FailureHasCause  BY DEF FramingInv
  <1>. QED  BY <1>1, FramingHolds, PTL
=============================================================================
