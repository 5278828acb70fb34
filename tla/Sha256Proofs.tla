---------------------------- MODULE Sha256Proofs ----------------------------
(***************************************************************************)
(* Proofs about Sha256, for updates of any sizes, messages of any length   *)
(* and any number of messages hashed with one struct.                      *)
(***************************************************************************)
EXTENDS Sha256, TLAPS

Byte == {Data(m, i) : m, i \in Nat} \cup {Const(0), Const(128)}
          \cup {LengthByte(b, i) : b \in Nat, i \in 1 .. LenBytes}

Typed ==
  /\ data_size \in Nat /\ chunk_size \in 0 .. 64 /\ ptr \in Nat /\ size \in Nat
  /\ message \in Nat
  /\ pc \in {"new", "ready", "fill", "blocks", "length", "done"}
  /\ last_chunk \in [Places -> Byte]
  /\ hcomps \in Seq(Byte)
  /\ pc \in {"new", "ready", "length", "done"} => size = 0
  /\ pc = "fill" => size + 64 <= UintSpan

\* Between the calls and within an update: what was compressed and what waits
\* in the buffer make up the message as far as it was taken, without a gap.
Taken ==
  pc \in {"ready", "fill", "blocks"} =>
    /\ Len(hcomps) % 64 = 0
    /\ \A i \in 1 .. Len(hcomps) : hcomps[i] = Data(message, i - 1)
    /\ chunk_size < 64
    /\ \A i \in Places : i < chunk_size => last_chunk[i] = Data(message, Len(hcomps) + i)
    /\ ptr = Len(hcomps) + chunk_size /\ data_size = ptr + size
    /\ pc = "blocks" => chunk_size + size < 64 \/ chunk_size = 0

\* What the standard has at place i, before the length.
PadByte(i) ==
  IF i <= data_size THEN Data(message, i - 1)
  ELSE IF i = data_size + 1 THEN Const(128) ELSE Const(0)

\* The last block lacks the length only, whether or not the padding needed a
\* block more.
LastBlock ==
  pc = "length" =>
    /\ Len(hcomps) % 64 = 0
    /\ Len(hcomps) <= data_size + 8 /\ data_size + 8 < Len(hcomps) + 64
    /\ \A i \in 1 .. Len(hcomps) : hcomps[i] = PadByte(i)
    /\ \A i \in Places : i < 56 => last_chunk[i] = PadByte(Len(hcomps) + 1 + i)

IInv == Typed /\ Taken /\ LastBlock /\ DigestExact

LEMMA Numbers ==
  /\ Block = 64 /\ LenBytes = 8
  /\ \A i : i \in Places <=> i \in Int /\ 0 <= i /\ i <= 63
BY DEF Places, Block, LenBytes

\* One block more is still a number of whole blocks.
LEMMA OneMore == ASSUME NEW a \in Nat, a % 64 = 0 PROVE (a + 64) % 64 = 0
OBVIOUS

\* Nothing wraps.
LEMMA NoWrap == ASSUME NEW a \in Nat, NEW span \in Nat, a < span PROVE a % span = a
OBVIOUS

LEMMA FillReaches ==
  ASSUME IInv, pc = "fill"
  PROVE  ReachesBlock <=> size + chunk_size >= 64
<1>1. size + chunk_size \in Nat /\ size + chunk_size < UintSpan /\ UintSpan \in Nat
  BY SizesAssumption DEF IInv, Typed, Taken
<1> QED  BY <1>1, NoWrap, Numbers DEF ReachesBlock

\* Whole blocks that end less than a block behind place d + 8 are those of a
\* padded message of d bytes, but for the last one.
LEMMA WholeBlocks ==
  ASSUME NEW a \in Nat, NEW d \in Nat, a % 64 = 0, a <= d + 8, d + 8 < a + 64
  PROVE  a + 64 = ((d + 8) \div 64 + 1) * 64
OBVIOUS

LEMMA DataByte == ASSUME NEW m \in Nat, NEW i \in Nat PROVE Data(m, i) \in Byte
BY DEF Byte

\* What a concatenation is made of.
LEMMA Concatenated ==
  ASSUME NEW s \in Seq(Byte), NEW t \in Seq(Byte)
  PROVE  /\ s \o t \in Seq(Byte) /\ Len(s \o t) = Len(s) + Len(t)
         /\ \A i \in 1 .. Len(s) : (s \o t)[i] = s[i]
         /\ \A i \in 1 .. Len(t) : (s \o t)[Len(s) + i] = t[i]
<1>1. s \o t \in Seq(Byte) /\ Len(s \o t) = Len(s) + Len(t)
  OBVIOUS
<1>2. \A i \in 1 .. Len(s) : (s \o t)[i] = s[i]
  OBVIOUS
<1>3. \A i \in 1 .. Len(t) : (s \o t)[Len(s) + i] = t[i]
  OBVIOUS
<1> QED  BY <1>1, <1>2, <1>3

\* The places of a block, from 1.
LEMMA BlockSequence ==
  ASSUME NEW block \in [Places -> Byte]
  PROVE  LET b == [i \in 1 .. Block |-> block[i - 1]]
         IN /\ b \in Seq(Byte) /\ Len(b) = 64
            /\ \A i \in Places : i + 1 \in 1 .. 64 /\ b[i + 1] = block[i]
BY DEF Block, Places

\* A block is appended to what was compressed.
LEMMA Appended ==
  ASSUME hcomps \in Seq(Byte), NEW block \in [Places -> Byte], CalculateChunk(block)
  PROVE  /\ hcomps' \in Seq(Byte) /\ Len(hcomps') = Len(hcomps) + 64
         /\ \A i \in 1 .. Len(hcomps) : hcomps'[i] = hcomps[i]
         /\ \A i \in Places : hcomps'[Len(hcomps) + 1 + i] = block[i]
<1>1. PICK b \in Seq(Byte) :
        /\ Len(b) = 64 /\ hcomps' = hcomps \o b
        /\ \A i \in Places : i + 1 \in 1 .. 64 /\ b[i + 1] = block[i]
  BY BlockSequence DEF CalculateChunk
<1>2. /\ hcomps' \in Seq(Byte) /\ Len(hcomps') = Len(hcomps) + 64
      /\ \A i \in 1 .. Len(hcomps) : hcomps'[i] = hcomps[i]
      /\ \A i \in 1 .. 64 : hcomps'[Len(hcomps) + i] = b[i]
  <2>1. /\ hcomps \o b \in Seq(Byte) /\ Len(hcomps \o b) = Len(hcomps) + Len(b)
        /\ \A i \in 1 .. Len(hcomps) : (hcomps \o b)[i] = hcomps[i]
        /\ \A i \in 1 .. Len(b) : (hcomps \o b)[Len(hcomps) + i] = b[i]
    BY Concatenated, Zenon
  <2> QED  BY <1>1, <2>1, Zenon
<1>3. ASSUME NEW i \in Places
      PROVE  hcomps'[Len(hcomps) + 1 + i] = block[i]
  <2>1. Len(hcomps) + 1 + i = Len(hcomps) + (i + 1)
    BY Numbers
  <2>2. hcomps'[Len(hcomps) + (i + 1)] = b[i + 1]
    BY <1>1, <1>2, Zenon
  <2> QED  BY <1>1, <2>1, <2>2, Zenon
<1> QED  BY <1>2, <1>3

\* The invariant holds before the first message.
LEMMA InitInv == Init => IInv
BY DEF Init, IInv, Typed, Taken, LastBlock, DigestExact, Byte

\* A new message starts from nothing, whatever the buffer has.
LEMMA StartKeepsInv == ASSUME IInv, ComputeDataInit PROVE IInv'
<1> USE DEF IInv
<1>1. /\ pc' = "ready" /\ message' = message + 1 /\ data_size' = 0 /\ chunk_size' = 0
      /\ hcomps' = <<>> /\ ptr' = 0 /\ UNCHANGED last_chunk /\ size' = size
      /\ pc \in {"new", "done"}
  BY DEF ComputeDataInit
<1>2. size = 0
  BY <1>1 DEF Typed
<1>3. Typed'
  BY <1>1 DEF Typed
<1>4. Len(hcomps') = 0 /\ Len(hcomps') % 64 = 0
  BY <1>1
<1>5. Taken'
  BY <1>1, <1>2, <1>4, Numbers DEF Taken
<1> QED  BY <1>1, <1>3, <1>5 DEF LastBlock, DigestExact

LEMMA UpdateKeepsInv == ASSUME IInv, NEW n \in Sizes, Update(n) PROVE IInv'
BY SizesAssumption, Numbers DEF IInv, Typed, Taken, LastBlock, DigestExact, Update

\* The first block of an update: what waited, then bytes of the update.
LEMMA FillKeepsInv == ASSUME IInv, FillChunk PROVE IInv'
<1> USE DEF IInv
<1> DEFINE block == [i \in Places |-> Filled(i)]
<1>0. /\ chunk_size \in Nat /\ Len(hcomps) \in Nat /\ message \in Nat
      /\ ptr = Len(hcomps) + chunk_size
      /\ \A i \in Places : i < chunk_size => last_chunk[i] = Data(message, Len(hcomps) + i)
  BY DEF FillChunk, Taken, Typed
<1>1. \A i \in Places : block[i] = Data(message, Len(hcomps) + i)
  <2> SUFFICES ASSUME NEW i \in Places PROVE Filled(i) = Data(message, Len(hcomps) + i)
    OBVIOUS
  <2>1. CASE i < chunk_size
    BY <1>0, <2>1 DEF Filled
  <2>2. CASE ~(i < chunk_size)
    <3>1. ptr + i - chunk_size = Len(hcomps) + i
      BY <1>0, Numbers
    <3> QED  BY <2>2, <3>1 DEF Filled
  <2> QED  BY <2>1, <2>2
<1>2. block \in [Places -> Byte]
  <2>1. \A i \in Places : Len(hcomps) + i \in Nat
    BY <1>0, Numbers
  <2> QED  BY <1>0, <1>1, <2>1, DataByte
<1>3. CalculateChunk(block)
  BY DEF FillChunk
<1> HIDE DEF block
<1>4. /\ hcomps' \in Seq(Byte) /\ Len(hcomps') = Len(hcomps) + 64
      /\ \A i \in 1 .. Len(hcomps) : hcomps'[i] = hcomps[i]
      /\ \A i \in Places : hcomps'[Len(hcomps) + 1 + i] = block[i]
  BY <1>2, <1>3, Appended DEF Typed
<1>5. /\ chunk_size' = 0 /\ size' = size - (64 - chunk_size) /\ ptr' = ptr + (64 - chunk_size)
      /\ pc = "fill" /\ pc' = "blocks" /\ size + chunk_size >= 64
      /\ UNCHANGED <<data_size, last_chunk, message>>
  BY Numbers, FillReaches DEF FillChunk
<1>6. Typed'
  BY <1>4, <1>5 DEF Typed, Taken
<1>7. \A i \in 1 .. Len(hcomps') : hcomps'[i] = Data(message, i - 1)
  <2> SUFFICES ASSUME NEW i \in 1 .. Len(hcomps') PROVE hcomps'[i] = Data(message, i - 1)
    OBVIOUS
  <2>1. CASE i <= Len(hcomps)
    BY <2>1, <1>4, <1>5 DEF Taken, Typed
  <2>2. CASE i > Len(hcomps)
    <3>1. i - Len(hcomps) - 1 \in Places /\ Len(hcomps) + 1 + (i - Len(hcomps) - 1) = i
          /\ Len(hcomps) + (i - Len(hcomps) - 1) = i - 1
      BY <2>2, <1>4, Numbers DEF Typed
    <3> QED  BY <3>1, <1>1, <1>4
  <2> QED  BY <2>1, <2>2, <1>4 DEF Typed
<1>8. Taken'
  BY <1>4, <1>5, <1>7, OneMore, Numbers DEF Taken, Typed
<1> QED  BY <1>5, <1>6, <1>8 DEF LastBlock, DigestExact

\* A block in the middle of an update: nothing waits before it.
LEMMA BlockKeepsInv == ASSUME IInv, WholeBlock PROVE IInv'
<1> USE DEF IInv
<1> DEFINE block == [i \in Places |-> Data(message, ptr + i)]
<1>0. chunk_size = 0 /\ ptr = Len(hcomps) /\ Len(hcomps) \in Nat /\ message \in Nat
  BY Numbers DEF WholeBlock, Taken, Typed
<1>1. \A i \in Places : block[i] = Data(message, Len(hcomps) + i)
  BY <1>0
<1>2. block \in [Places -> Byte]
  <2>1. \A i \in Places : Len(hcomps) + i \in Nat
    BY <1>0, Numbers
  <2> QED  BY <1>0, <1>1, <2>1, DataByte
<1>3. CalculateChunk(block)
  BY DEF WholeBlock
<1> HIDE DEF block
<1>4. /\ hcomps' \in Seq(Byte) /\ Len(hcomps') = Len(hcomps) + 64
      /\ \A i \in 1 .. Len(hcomps) : hcomps'[i] = hcomps[i]
      /\ \A i \in Places : hcomps'[Len(hcomps) + 1 + i] = block[i]
  BY <1>2, <1>3, Appended DEF Typed
<1>5. /\ size' = size - 64 /\ ptr' = ptr + 64 /\ pc = "blocks" /\ pc' = pc /\ size >= 64
      /\ UNCHANGED <<data_size, chunk_size, last_chunk, message>>
  BY Numbers DEF WholeBlock
<1>6. Typed'
  BY <1>4, <1>5 DEF Typed
<1>7. \A i \in 1 .. Len(hcomps') : hcomps'[i] = Data(message, i - 1)
  <2> SUFFICES ASSUME NEW i \in 1 .. Len(hcomps') PROVE hcomps'[i] = Data(message, i - 1)
    OBVIOUS
  <2>1. CASE i <= Len(hcomps)
    BY <2>1, <1>4, <1>5 DEF Taken, Typed
  <2>2. CASE i > Len(hcomps)
    <3>1. i - Len(hcomps) - 1 \in Places /\ Len(hcomps) + 1 + (i - Len(hcomps) - 1) = i
          /\ Len(hcomps) + (i - Len(hcomps) - 1) = i - 1
      BY <2>2, <1>4, Numbers DEF Typed
    <3> QED  BY <3>1, <1>1, <1>4
  <2> QED  BY <2>1, <2>2, <1>4 DEF Typed
<1>8. Taken'
  BY <1>0, <1>4, <1>5, <1>7, OneMore, Numbers DEF Taken, Typed
<1> QED  BY <1>5, <1>6, <1>8 DEF LastBlock, DigestExact

\* The rest of an update goes behind what waits.
LEMMA RestKeepsInv == ASSUME IInv, KeepRest PROVE IInv'
<1> USE DEF IInv
<1>1. /\ chunk_size' = chunk_size + size /\ ptr' = ptr + size /\ size' = 0
      /\ pc = "blocks" /\ pc' = "ready" /\ chunk_size + size < 64
      /\ UNCHANGED <<data_size, hcomps, message>>
  BY Numbers DEF KeepRest, Taken, Typed
<1>2. \A i \in Places : last_chunk'[i] = IF chunk_size <= i /\ i < chunk_size + size
                                         THEN Data(message, ptr + i - chunk_size)
                                         ELSE last_chunk[i]
  BY Numbers DEF KeepRest, Filled, Typed
<1>3. Typed'
  <2>1. \A i \in Places : chunk_size <= i => ptr + i - chunk_size \in Nat
    BY Numbers DEF Typed
  <2>2. last_chunk' \in [Places -> Byte]
    <3>1. \A i \in Places : last_chunk'[i] \in Byte
      BY <1>2, <2>1 DEF Typed, Byte
    <3>2. last_chunk' = [i \in Places |-> last_chunk'[i]]
      BY DEF KeepRest
    <3> QED  BY <3>1, <3>2
  <2> QED  BY <1>1, <2>2 DEF Typed
<1>4. \A i \in Places : i < chunk_size' => last_chunk'[i] = Data(message, Len(hcomps) + i)
  <2> SUFFICES ASSUME NEW i \in Places, i < chunk_size'
               PROVE  last_chunk'[i] = Data(message, Len(hcomps) + i)
    OBVIOUS
  <2>1. i \in Int /\ chunk_size \in Int /\ ptr = Len(hcomps) + chunk_size /\ Len(hcomps) \in Int
    BY <1>1, Numbers DEF Taken, Typed
  <2>2. CASE i < chunk_size
    <3>1. last_chunk'[i] = last_chunk[i]
      BY <1>2, <2>1, <2>2
    <3> QED  BY <1>1, <2>2, <3>1 DEF Taken
  <2>3. CASE chunk_size <= i
    <3>1. last_chunk'[i] = Data(message, ptr + i - chunk_size)
      BY <1>1, <1>2, <2>3
    <3>2. ptr + i - chunk_size = Len(hcomps) + i
      BY <2>1
    <3> QED  BY <3>1, <3>2
  <2> QED  BY <2>1, <2>2, <2>3
<1>5. Taken'
  BY <1>1, <1>4 DEF Taken, Typed
<1> QED  BY <1>1, <1>3, <1>5 DEF LastBlock, DigestExact

\* The end of the message, in this block or with one more.
LEMMA PadKeepsInv == ASSUME IInv, Pad PROVE IInv'
<1> USE DEF IInv
<1>1. /\ pc = "ready" /\ pc' = "length" /\ chunk_size' = chunk_size + 1
      /\ UNCHANGED <<data_size, ptr, size, message>>
      /\ data_size = Len(hcomps) + chunk_size /\ chunk_size < 64
  BY DEF Pad, Taken, Typed
<1>2. \A i \in Places : Ended[i] = PadByte(Len(hcomps) + 1 + i)
  BY <1>1, Numbers DEF Ended, PadByte, Taken, Typed
<1>3. Ended \in [Places -> Byte]
  BY DEF Ended, Byte, Typed
<1>4. \A i : PadByte(i)' = PadByte(i)
  BY <1>1 DEF PadByte
<1>5. \A i \in 1 .. Len(hcomps) : hcomps[i] = PadByte(i)
  BY <1>1 DEF PadByte, Taken, Typed
<1>6. CASE LengthFits /\ last_chunk' = Ended /\ UNCHANGED hcomps
  <2>1. chunk_size + 1 <= 56
    BY <1>6, Numbers DEF LengthFits
  <2>2. Typed'
    BY <1>1, <1>3, <1>6 DEF Typed
  <2>3. LastBlock'
    BY <1>1, <1>2, <1>4, <1>5, <1>6, <2>1, Numbers DEF LastBlock, Taken, Typed
  <2> QED  BY <1>1, <2>2, <2>3 DEF Taken, DigestExact
<1>7. CASE ~LengthFits /\ CalculateChunk(Ended) /\ last_chunk' = [i \in Places |-> Const(0)]
  <2>1. chunk_size + 1 > 56
    BY <1>7, Numbers DEF LengthFits, Typed
  <2>2. /\ hcomps' \in Seq(Byte) /\ Len(hcomps') = Len(hcomps) + 64
        /\ \A i \in 1 .. Len(hcomps) : hcomps'[i] = hcomps[i]
        /\ \A i \in Places : hcomps'[Len(hcomps) + 1 + i] = Ended[i]
    BY <1>3, <1>7, Appended DEF Typed
  <2>3. Typed'
    <3>1. last_chunk' \in [Places -> Byte]
      BY <1>7 DEF Byte
    <3> QED  BY <1>1, <2>2, <3>1, <2>1 DEF Typed
  <2>4. \A i \in 1 .. Len(hcomps') : hcomps'[i] = PadByte(i)
    <3> SUFFICES ASSUME NEW i \in 1 .. Len(hcomps') PROVE hcomps'[i] = PadByte(i)
      OBVIOUS
    <3>1. CASE i <= Len(hcomps)
      BY <3>1, <1>5, <2>2 DEF Typed
    <3>2. CASE i > Len(hcomps)
      <4>1. i - Len(hcomps) - 1 \in Places /\ Len(hcomps) + 1 + (i - Len(hcomps) - 1) = i
        BY <3>2, <2>2, Numbers DEF Typed
      <4> QED  BY <4>1, <1>2, <2>2
    <3> QED  BY <3>1, <3>2, <2>2 DEF Typed
  <2>5. \A i \in Places : PadByte(Len(hcomps') + 1 + i) = Const(0) /\ last_chunk'[i] = Const(0)
    BY <1>1, <1>7, <2>2, Numbers DEF PadByte, Typed
  <2>6. /\ Len(hcomps') % 64 = 0
        /\ Len(hcomps') <= data_size + 8 /\ data_size + 8 < Len(hcomps') + 64
    <3>1. Len(hcomps) \in Nat /\ chunk_size \in Nat /\ Len(hcomps) % 64 = 0
      BY <1>1 DEF Taken, Typed
    <3> QED  BY <1>1, <2>1, <2>2, <3>1, OneMore
  <2>7. LastBlock'
    BY <1>1, <1>4, <2>4, <2>5, <2>6 DEF LastBlock
  <2> QED  BY <1>1, <2>3, <2>7 DEF Taken, DigestExact
<1> QED  BY <1>6, <1>7 DEF Pad

\* The last block, with the length: the whole of the padded message.
LEMMA LengthKeepsInv == ASSUME IInv, AddLength PROVE IInv'
<1> USE DEF IInv
<1>1. /\ pc = "length" /\ pc' = "done" /\ last_chunk' = WithLength
      /\ UNCHANGED <<data_size, chunk_size, ptr, size, message>>
      /\ CalculateChunk(WithLength)
  BY DEF AddLength
<1>2. \A i \in Places : WithLength[i] = IF i < 56 THEN last_chunk[i]
                                        ELSE LengthByte(data_size, i - 55)
  BY Numbers DEF WithLength
<1>3. WithLength \in [Places -> Byte]
  <2>1. \A i \in Places : i >= 56 => i - 55 \in 1 .. LenBytes
    BY Numbers
  <2>2. \A i \in Places : WithLength[i] \in Byte
    <3> SUFFICES ASSUME NEW i \in Places PROVE WithLength[i] \in Byte
      OBVIOUS
    <3>1. CASE i < 56
      BY <1>2, <3>1 DEF Typed
    <3>2. CASE ~(i < 56)
      <4>1. i - 55 \in 1 .. LenBytes /\ WithLength[i] = LengthByte(data_size, i - 55)
        BY <1>2, <2>1, <3>2, Numbers
      <4> QED  BY <4>1 DEF Byte, Typed
    <3> QED  BY <3>1, <3>2
  <2> QED  BY <2>2 DEF WithLength
<1>4. /\ hcomps' \in Seq(Byte) /\ Len(hcomps') = Len(hcomps) + 64
      /\ \A i \in 1 .. Len(hcomps) : hcomps'[i] = hcomps[i]
      /\ \A i \in Places : hcomps'[Len(hcomps) + 1 + i] = WithLength[i]
  BY <1>1, <1>3, Appended DEF Typed
<1>5. Len(hcomps') = ((data_size + 8) \div 64 + 1) * 64
  <2>1. Len(hcomps) \in Nat /\ data_size \in Nat
    BY DEF Typed
  <2> QED  BY <1>1, <1>4, <2>1, WholeBlocks DEF LastBlock
<1> DEFINE total == Len(hcomps')
           Std(i) == IF i <= data_size THEN Data(message, i - 1)
                     ELSE IF i = data_size + 1 THEN Const(128)
                     ELSE IF i <= total - 8 THEN Const(0)
                     ELSE LengthByte(data_size, i - (total - 8))
<1>6. \A i \in 1 .. total : hcomps'[i] = Std(i)
  <2> SUFFICES ASSUME NEW i \in 1 .. total PROVE hcomps'[i] = Std(i)
    OBVIOUS
  <2>1. data_size + 8 < total /\ Len(hcomps) <= data_size + 8 /\ total = Len(hcomps) + 64
        /\ Len(hcomps) \in Nat /\ data_size \in Nat
    BY <1>1, <1>4 DEF LastBlock, Typed
  <2>2. CASE i <= Len(hcomps)
    BY <2>1, <2>2, <1>1, <1>4 DEF LastBlock, PadByte
  <2>3. CASE i > Len(hcomps)
    <3> DEFINE j == i - Len(hcomps) - 1
    <3>1. j \in Places /\ Len(hcomps) + 1 + j = i
      BY <2>1, <2>3, Numbers
    <3>2. hcomps'[i] = WithLength[j]
      BY <3>1, <1>4
    <3>3. CASE j < 56
      <4>1. hcomps'[i] = PadByte(i)
        BY <1>1, <1>2, <3>1, <3>2, <3>3 DEF LastBlock
      <4>2. i <= total - 8
        BY <2>1, <3>3
      <4> QED  BY <4>1, <4>2, <2>1 DEF PadByte
    <3>4. CASE j >= 56
      <4>1. i > data_size + 1 /\ i > total - 8 /\ i - (total - 8) = j - 55
        BY <2>1, <3>4
      <4>2. hcomps'[i] = LengthByte(data_size, j - 55)
        BY <1>2, <3>1, <3>2, <3>4, Numbers
      <4> QED  BY <4>1, <4>2, <2>1
    <3> QED  BY <3>1, <3>3, <3>4, Numbers
  <2> QED  BY <2>1, <2>2, <2>3
<1>7. hcomps' = [i \in 1 .. total |-> hcomps'[i]]
  BY <1>4
<1>8. hcomps' = Padded(message, data_size)
  <2>1. hcomps' = [i \in 1 .. total |-> Std(i)]
    BY <1>6, <1>7
  <2> QED  BY <2>1, <1>5, Numbers DEF Padded
<1>9. Typed'
  BY <1>1, <1>3, <1>4 DEF Typed
<1> QED  BY <1>1, <1>8, <1>9 DEF Taken, LastBlock, DigestExact, Padded

\* The invariant is inductive.
LEMMA NextInv == ASSUME IInv, [Next]_vars PROVE IInv'
<1>1. CASE UNCHANGED vars
  BY <1>1 DEF vars, IInv, Typed, Taken, LastBlock, PadByte, DigestExact
<1>2. CASE NoFill
  BY <1>2, FillReaches DEF NoFill, IInv, Typed, Taken, LastBlock, DigestExact
<1> QED
  BY <1>1, <1>2, StartKeepsInv, UpdateKeepsInv, FillKeepsInv, BlockKeepsInv, RestKeepsInv,
     PadKeepsInv, LengthKeepsInv DEF Next

LEMMA InvHolds == Spec => []IInv
<1>1. IInv /\ [Next]_vars => IInv'
  BY NextInv
<1> QED  BY InitInv, <1>1, PTL DEF Spec

\* Every digest is that of the padded message, for updates of any number and
\* any sizes and for any message that the struct was used for before.
THEOREM DigestIsExact == Spec => []DigestExact
<1>1. IInv => DigestExact
  BY DEF IInv
<1> QED  BY InvHolds, <1>1, PTL

\* The 64 bytes of last_chunk are enough at every point of an update and of
\* sha256_finalize, for updates of any sizes.
THEOREM BufferIsBounded == Spec => []BufferBounded
<1>1. IInv => BufferBounded
  BY DEF IInv, Typed, Taken, BufferBounded, Block
<1> QED  BY InvHolds, <1>1, PTL
=============================================================================
