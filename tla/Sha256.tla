------------------------------- MODULE Sha256 -------------------------------
(***************************************************************************)
(* The buffering and padding of SHA-256 (src/project/src/crypt/sha256.c):  *)
(* a message comes in by any number of updates, is compressed in blocks of *)
(* 64 bytes, and what is left over waits in last_chunk. The compression    *)
(* function itself is not interpreted: hcomps stands for the digest of the *)
(* bytes compressed so far, and is these bytes. One step is one block or   *)
(* one copy.                                                               *)
(***************************************************************************)
EXTENDS Integers, Sequences

CONSTANTS
  Sizes,       \* the sizes that sha256_update may be called with
  Messages,    \* how many messages go through one struct, one after the other
  SizeMax,     \* the longest message; its length in bits has 64 bits
  UintSpan     \* the number of values of a uint32_t

Block == 64    \* SHA256_CHUNK_SZ
LenBytes == 8  \* the bytes of the length

\* Every chunk is far from the largest size: size + chunk_size does not wrap.
ASSUME SizesAssumption ==
  /\ Sizes \subseteq Nat /\ UintSpan \in Nat
  /\ \A n \in Sizes : n + Block <= UintSpan
  /\ Messages \in Nat /\ SizeMax \in Nat

\* A byte is one of a message, known by its place, or a number.
Data(m, i) == <<"data", m, i>>
Const(v) == <<"byte", 0, v>>

Places == 0 .. Block - 1

VARIABLES
  data_size, chunk_size, last_chunk, hcomps,  \* struct sha256_compute_data
  ptr, size,   \* sha256_update: the place of the next byte, those not yet taken
  message,     \* the number of the message
  pc           \* "new", "ready", "fill", "blocks", "length" or "done"

vars == <<data_size, chunk_size, last_chunk, hcomps, ptr, size, message, pc>>

\* A struct on the stack of its caller, cleared.
Init ==
  /\ data_size = 0 /\ chunk_size = 0
  /\ last_chunk = [i \in Places |-> Const(0)]
  /\ hcomps = <<>>
  /\ ptr = 0 /\ size = 0 /\ message = 0 /\ pc = "new"

-----------------------------------------------------------------------------
\* Mutant of ComputeDataInit: the last message keeps its place in the buffer.
InitKeepsPlace ==
  /\ pc \in {"new", "done"} /\ message < Messages
  /\ message' = message + 1 /\ pc' = "ready"
  /\ data_size' = 0 /\ hcomps' = <<>> /\ ptr' = 0
  /\ UNCHANGED <<last_chunk, size, chunk_size>>

\* sha256_compute_data_init: last_chunk keeps what it had.
ComputeDataInit ==
  /\ pc \in {"new", "done"} /\ message < Messages
  /\ message' = message + 1 /\ pc' = "ready"
  /\ data_size' = 0 /\ chunk_size' = 0 /\ hcomps' = <<>> /\ ptr' = 0
  /\ UNCHANGED <<last_chunk, size>>

\* sha256_calculate_chunk, of a block of 64 places.
CalculateChunk(block) == hcomps' = hcomps \o [i \in 1 .. Block |-> block[i - 1]]

Update(n) ==
  /\ pc = "ready" /\ data_size + n <= SizeMax
  /\ size' = n /\ data_size' = data_size + n /\ pc' = "fill"
  /\ UNCHANGED <<chunk_size, last_chunk, hcomps, ptr, message>>

\* last_chunk, filled up with the bytes that follow.
Filled(i) == IF i < chunk_size THEN last_chunk[i] ELSE Data(message, ptr + i - chunk_size)

ReachesBlock == (size + chunk_size) % UintSpan >= Block

FillChunk ==
  /\ pc = "fill" /\ ReachesBlock
  /\ CalculateChunk([i \in Places |-> Filled(i)])
  /\ ptr' = ptr + (Block - chunk_size) /\ size' = size - (Block - chunk_size)
  /\ chunk_size' = 0 /\ pc' = "blocks"
  /\ UNCHANGED <<data_size, last_chunk, message>>

NoFill ==
  /\ pc = "fill" /\ ~ReachesBlock
  /\ pc' = "blocks"
  /\ UNCHANGED <<data_size, chunk_size, last_chunk, hcomps, ptr, size, message>>

WholeBlock ==
  /\ pc = "blocks" /\ size >= Block
  /\ CalculateChunk([i \in Places |-> Data(message, ptr + i)])
  /\ ptr' = ptr + Block /\ size' = size - Block
  /\ UNCHANGED <<data_size, chunk_size, last_chunk, message, pc>>

KeepRest ==
  /\ pc = "blocks" /\ size < Block
  /\ last_chunk' = [i \in Places |->
       IF i \in chunk_size .. chunk_size + size - 1 THEN Filled(i) ELSE last_chunk[i]]
  /\ chunk_size' = chunk_size + size /\ ptr' = ptr + size /\ size' = 0
  /\ pc' = "ready"
  /\ UNCHANGED <<data_size, hcomps, message>>

-----------------------------------------------------------------------------
(* sha256_finalize.                                                        *)

\* The 0x80 at the end of the message, and zeros to the end of the block.
Ended == [i \in Places |->
  IF i < chunk_size THEN last_chunk[i] ELSE IF i = chunk_size THEN Const(128) ELSE Const(0)]

\* Mutant of LengthFits: chunk_size is compared before it is counted up.
LengthFitsLate == chunk_size <= Block - LenBytes

LengthFits == chunk_size + 1 <= Block - LenBytes

\* Without room for the length it goes to a block of its own.
Pad ==
  /\ pc = "ready"
  /\ \/ LengthFits /\ last_chunk' = Ended /\ UNCHANGED hcomps
     \/ ~LengthFits /\ CalculateChunk(Ended) /\ last_chunk' = [i \in Places |-> Const(0)]
  /\ chunk_size' = chunk_size + 1 /\ pc' = "length"
  /\ UNCHANGED <<data_size, ptr, size, message>>

\* x >> 8 * k & 255.
Digit(x, k) ==
  LET shifted[j \in 0 .. k] == IF j = 0 THEN x ELSE shifted[j - 1] \div 256
  IN shifted[k] % 256

\* Byte number i, from 1, of the length in bits.
LengthByte(bytes, i) == Const(Digit(bytes * 8, LenBytes - i))

WithLength == [i \in Places |->
  IF i < Block - LenBytes THEN last_chunk[i] ELSE LengthByte(data_size, i - (Block - LenBytes) + 1)]

AddLength ==
  /\ pc = "length"
  /\ last_chunk' = WithLength
  /\ CalculateChunk(WithLength)
  /\ pc' = "done"
  /\ UNCHANGED <<data_size, chunk_size, ptr, size, message>>

Next ==
  \/ ComputeDataInit \/ \E n \in Sizes : Update(n)
  \/ FillChunk \/ NoFill \/ WholeBlock \/ KeepRest
  \/ Pad \/ AddLength

Spec == Init /\ [][Next]_vars

-----------------------------------------------------------------------------
(* Properties.                                                             *)

\* The bytes that the standard hashes for a message of len bytes: the message,
\* a one bit, zeros and the length, as many as make whole blocks.
Padded(m, len) ==
  LET total == ((len + LenBytes) \div Block + 1) * Block
  IN [i \in 1 .. total |->
       IF i <= len THEN Data(m, i - 1)
       ELSE IF i = len + 1 THEN Const(128)
       ELSE IF i <= total - LenBytes THEN Const(0)
       ELSE LengthByte(len, i - (total - LenBytes))]

\* A digest is that of the padded message, whatever the sizes of the updates
\* were and whatever message was hashed with the same struct before.
DigestExact == pc = "done" => hcomps = Padded(message, data_size)

\* No update writes beyond last_chunk, and none leaves a whole block in it:
\* sha256_finalize counts on a place for the 0x80.
BufferBounded ==
  /\ chunk_size \in 0 .. Block /\ size >= 0
  /\ pc = "ready" => chunk_size < Block /\ chunk_size + Len(hcomps) = data_size
  /\ pc = "blocks" => chunk_size + size < Block \/ chunk_size = 0
=============================================================================
