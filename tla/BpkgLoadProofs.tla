--------------------------- MODULE BpkgLoadProofs ---------------------------
(***************************************************************************)
(* Proofs about the parser of .bpkg files, for any files: an object is     *)
(* returned exactly for the well-formed ones. The invariant says for every *)
(* place in the order of the keys what was read and what the object has.   *)
(***************************************************************************)
EXTENDS Programs, TLAPS

N == text[4].num
M == text[N + 6].num

\* The first keys of the file, those before the lists.
Header(k) ==
  /\ k <= Len(text)
  /\ \A i \in 1 .. 5 : i <= k => text[i].key = Keys[i]
  /\ k >= 3 => text[3].num # NotInt
  /\ k >= 4 => N \in Nat

\* The lists after k lines.
HashesRead(k) == [i \in 1 .. N |-> IF i <= k THEN text[5 + i].hash ELSE Unset]
ChunksRead(k) == [i \in 1 .. M |-> IF i <= k THEN ChunkOn(text[N + 7 + i]) ELSE NULL]
ChunkLines(k) ==
  \A i \in N + 8 .. N + 7 + k : text[i].key = "chunk" /\ text[i].num # NotInt /\ text[i].size # NotInt

\* The object after o keys.
Package(o, hashes, chunks) ==
  [ident |-> IF o >= 1 THEN text[1].num ELSE Unset,
   filename |-> IF o >= 2 THEN text[2].num ELSE Unset,
   size |-> IF o >= 3 THEN text[3].num ELSE Unset,
   nhashes |-> IF o >= 4 THEN N ELSE Unset,
   hashes |-> hashes,
   nchunks |-> IF o >= 6 THEN M ELSE Unset,
   chunks |-> chunks]

AtKeys(o) ==
  /\ load = "keys" /\ o \in 0 .. 4 /\ order_iterator = o /\ line = o + 1 /\ Header(o)
  /\ counter = [hashes |-> 0, chunks |-> 0]
  /\ bpkg = Package(o, NULL, NULL)

\* k lines of the first list.
HashLines(k) ==
  /\ Header(5) /\ k \in 0 .. N /\ 5 + k <= Len(text) /\ line = 6 + k
  /\ counter = [hashes |-> k, chunks |-> 0]

InHashes(k) ==
  /\ load = "hashes" /\ order_iterator = 4 /\ HashLines(k)
  /\ bpkg = Package(4, HashesRead(k), NULL)

AfterHashes(k) ==
  /\ load = "keys" /\ order_iterator = 5 /\ HashLines(k) /\ (k = N \/ AtEnd)
  /\ bpkg = Package(5, HashesRead(k), NULL)

\* All hashes, and the number of chunks.
Second == Header(5) /\ N + 6 <= Len(text) /\ text[N + 6].key = "nchunks" /\ M \in Nat

AtChunks ==
  /\ load = "keys" /\ order_iterator = 6 /\ Second /\ line = N + 7
  /\ counter = [hashes |-> N, chunks |-> 0]
  /\ bpkg = Package(6, HashesRead(N), NULL)

\* k lines of the second list.
InList(k) ==
  /\ Second /\ N + 7 + k <= Len(text) /\ text[N + 7].key = "chunks"
  /\ k \in 0 .. M /\ line = N + 8 + k /\ ChunkLines(k)
  /\ counter = [hashes |-> N, chunks |-> k]
  /\ bpkg = Package(6, HashesRead(N), ChunksRead(k))

InChunks(k) == load = "chunks" /\ order_iterator = 6 /\ InList(k)
AfterChunks(k) == load = "keys" /\ order_iterator = 7 /\ InList(k) /\ (k = M \/ AtEnd)

\* A list at the wrong place: its error comes when it has been read.
Doomed ==
  /\ ~WellFormed(text) /\ order_iterator \in 0 .. 7
  /\ \/ load = "hashes" /\ order_iterator # 4
     \/ load = "chunks" /\ order_iterator # 6

Ended == load \notin {"keys", "hashes", "chunks"}

Place ==
  \/ \E o \in 0 .. 4 : AtKeys(o)
  \/ \E k \in Nat : InHashes(k) \/ AfterHashes(k) \/ InChunks(k) \/ AfterChunks(k)
  \/ AtChunks \/ Doomed \/ Ended

LInv == text \in Texts /\ Place /\ LoadedWhole

-----------------------------------------------------------------------------
LEMMA KeyNames ==
  /\ Len(Keys) = 7 /\ DOMAIN Keys = 1 .. 7
  /\ Keys[1] = "ident" /\ Keys[2] = "filename" /\ Keys[3] = "size" /\ Keys[4] = "nhashes"
  /\ Keys[5] = "hashes" /\ Keys[6] = "nchunks" /\ Keys[7] = "chunks"
BY DEF Keys

LEMMA TextFacts ==
  ASSUME text \in Texts
  PROVE  /\ Len(text) \in Nat /\ DOMAIN text = 1 .. Len(text)
         /\ \A i \in 1 .. Len(text) :
              text[i].num \in Nat \cup {NotInt} /\ text[i].hash # Unset /\ ChunkOn(text[i]) # NULL
BY LoadAssumption

\* What WellFormed says, key by key.
LEMMA WellFormedFacts ==
  ASSUME text \in Texts, WellFormed(text)
  PROVE  /\ N \in Nat /\ M \in Nat /\ N + 7 < Len(text) /\ 7 < Len(text)
         /\ text[1].key = "ident" /\ text[2].key = "filename" /\ text[3].key = "size"
         /\ text[4].key = "nhashes" /\ text[5].key = "hashes"
         /\ text[3].num # NotInt
         /\ text[N + 6].key = "nchunks" /\ text[N + 7].key = "chunks"
         /\ N < Len(text) - (N + 7) /\ Len(text) - (N + 7) <= M
         /\ \A i \in N + 8 .. Len(text) :
              text[i].key = "chunk" /\ text[i].num # NotInt /\ text[i].size # NotInt
<1>1. Len(text) \in Nat /\ \A i \in 1 .. Len(text) : text[i].num \in Nat \cup {NotInt}
  BY TextFacts
<1>2. 7 < Len(text) /\ N # NotInt /\ N + 7 < Len(text)
  BY <1>1 DEF WellFormed, N
<1>3. N \in Nat
  BY <1>1, <1>2 DEF N
<1>4. /\ \A i \in 1 .. 5 : text[i].key = Keys[i]
      /\ text[3].num # NotInt
      /\ text[N + 6].key = "nchunks" /\ text[N + 7].key = "chunks"
      /\ N < Len(text) - (N + 7) /\ Len(text) - (N + 7) <= M
      /\ \A i \in N + 7 + 1 .. Len(text) :
           text[i].key = "chunk" /\ text[i].num # NotInt /\ text[i].size # NotInt
  BY <1>1 DEF WellFormed, N, M
<1>5. M \in Nat
  <2>1. N + 6 \in 1 .. Len(text)
    BY <1>1, <1>2, <1>3
  <2>2. M \in Nat \cup {NotInt}
    BY <1>1, <2>1 DEF M
  <2> QED  BY <1>1, <1>3, <1>4, <2>2 DEF NotInt
<1>6. text[1].key = Keys[1] /\ text[2].key = Keys[2] /\ text[3].key = Keys[3]
      /\ text[4].key = Keys[4] /\ text[5].key = Keys[5]
  BY <1>4
<1>7. \A i \in N + 8 .. Len(text) : i \in N + 7 + 1 .. Len(text)
  BY <1>1, <1>3
<1> QED  BY <1>1, <1>2, <1>3, <1>4, <1>5, <1>6, <1>7, KeyNames

\* The other way round.
LEMMA WellFormedIf ==
  ASSUME text \in Texts, Header(5), Second, NEW k \in Nat,
         N + 7 + k = Len(text), text[N + 7].key = "chunks", ChunkLines(k), N < k, k <= M
  PROVE  WellFormed(text)
<1>1. Len(text) \in Nat /\ N \in Nat /\ M \in Nat
  BY TextFacts DEF Header, Second
<1>2. \A i \in N + 7 + 1 .. Len(text) : i \in N + 8 .. N + 7 + k
  BY <1>1
<1>3. Len(text) > 7 /\ Len(text) > N + 7 /\ N < Len(text) - (N + 7) /\ Len(text) - (N + 7) <= M
      /\ N # NotInt
  BY <1>1 DEF NotInt
<1>4. (\A i \in 1 .. 5 : text[i].key = Keys[i]) /\ text[3].num # NotInt
  BY DEF Header
<1>5. (N + 7) - 1 = N + 6
  BY <1>1
<1> QED  BY <1>1, <1>2, <1>3, <1>4, <1>5 DEF WellFormed, N, M, ChunkLines, Second
-----------------------------------------------------------------------------
(* Errors.                                                                 *)

LEMMA OrderTyped == ASSUME LInv, load = "keys" PROVE order_iterator \in 0 .. 7
BY DEF LInv, Place, AtKeys, InHashes, AfterHashes, InChunks, AfterChunks, AtChunks, Doomed, Ended

\* At a key of a well-formed file that key is the next one, and its number is
\* one.
LEMMA KeyFits ==
  ASSUME LInv, load = "keys", ~AtEnd, WellFormed(text)
  PROVE  /\ order_iterator \in 0 .. 6 /\ Current.key = Keys[order_iterator + 1]
         /\ order_iterator \in {2, 3, 5} => Current.num # NotInt
<1> USE WellFormedFacts, TextFacts, KeyNames
<1>1. ASSUME NEW o \in 0 .. 4, AtKeys(o)
      PROVE  /\ order_iterator \in 0 .. 6 /\ Current.key = Keys[order_iterator + 1]
             /\ order_iterator \in {2, 3, 5} => Current.num # NotInt
  <2>1. order_iterator = o /\ line = o + 1
    BY <1>1 DEF AtKeys
  <2>2. o = 0 \/ o = 1 \/ o = 2 \/ o = 3 \/ o = 4
    OBVIOUS
  <2>3. text[line].key = Keys[o + 1]
    BY <2>1, <2>2 DEF LInv
  <2>4. o \in {2, 3} => text[line].num # NotInt
    BY <2>1, <2>2 DEF LInv, N, NotInt
  <2> QED  BY <2>1, <2>2, <2>3, <2>4 DEF Current
<1>2. ASSUME NEW k \in Nat, AfterHashes(k)
      PROVE  order_iterator = 5 /\ Current.key = Keys[6] /\ Current.num # NotInt
  <2>1. order_iterator = 5 /\ line = 6 + k /\ k = N
    BY <1>2 DEF AfterHashes, HashLines
  <2> QED  BY <2>1 DEF LInv, Current, M, NotInt
<1>3. ASSUME AtChunks
      PROVE  order_iterator = 6 /\ Current.key = Keys[7]
  BY <1>3 DEF AtChunks, Current, LInv
<1>4. ASSUME NEW k \in Nat, AfterChunks(k)
      PROVE  FALSE
  <2>1. line = N + 8 + k /\ k = M /\ line <= Len(text)
    BY <1>4 DEF AfterChunks, InList, AtEnd, Second, LInv
  <2> QED  BY <2>1 DEF LInv
<1> QED  BY <1>1, <1>2, <1>3, <1>4 DEF LInv, Place, InHashes, InChunks, Doomed, Ended

\* An error is one of a file that is not well formed.
LEMMA Failed ==
  ASSUME LInv, UNCHANGED text, load' \in {"rejected", "undefined"},
         ~WellFormed(text)
  PROVE  LInv'
<1>1. ~WellFormed(text)'
  BY DEF WellFormed
<1> QED  BY <1>1 DEF LInv, Place, Ended, LoadedWhole

\* A key at the wrong place, or without its number.
LEMMA Misplaced ==
  ASSUME LInv, UNCHANGED text, load = "keys", ~AtEnd,
         load' \in {"rejected", "undefined"},
         \/ ~InPlace(Current.key)
         \/ Current.key \in {"size", "nhashes", "nchunks"} /\ Current.num = NotInt
         \/ Current.key \notin {Keys[i] : i \in DOMAIN Keys}
  PROVE  LInv'
<1> SUFFICES ~WellFormed(text)
  BY Failed
<1> SUFFICES ASSUME WellFormed(text) PROVE FALSE
  OBVIOUS
<1>1. /\ order_iterator \in 0 .. 6 /\ Current.key = Keys[order_iterator + 1]
      /\ order_iterator \in {2, 3, 5} => Current.num # NotInt
  BY KeyFits
<1>2. InPlace(Current.key) /\ Current.key \in {Keys[i] : i \in DOMAIN Keys}
  BY <1>1, KeyNames DEF InPlace
<1>3. order_iterator = 0 \/ order_iterator = 1 \/ order_iterator = 2 \/ order_iterator = 3
      \/ order_iterator = 4 \/ order_iterator = 5 \/ order_iterator = 6
  BY <1>1
<1>4. Current.key \in {"size", "nhashes", "nchunks"} => order_iterator \in {2, 3, 5}
  BY <1>1, <1>3, KeyNames
<1> QED  BY <1>1, <1>2, <1>4

-----------------------------------------------------------------------------
(* The keys before the lists.                                              *)

LEMMA OnKeys ==
  ASSUME LInv, load = "keys", NEW i \in 1 .. 4, InPlace(Keys[i])
  PROVE  order_iterator = i - 1 /\ AtKeys(i - 1)
<1>1. i = 1 \/ i = 2 \/ i = 3 \/ i = 4
  OBVIOUS
<1>2. ASSUME NEW k \in Nat, AfterHashes(k) \/ AfterChunks(k) \/ AtChunks
      PROVE  FALSE
  <2>1. order_iterator = 5 \/ order_iterator = 6 \/ order_iterator = 7
    BY <1>2 DEF AfterHashes, AfterChunks, AtChunks
  <2> QED  BY <1>1, <2>1, KeyNames DEF InPlace
<1>3. PICK o \in 0 .. 4 : AtKeys(o)
  BY <1>2 DEF LInv, Place, InHashes, InChunks, Doomed, Ended
<1>4. o = 0 \/ o = 1 \/ o = 2 \/ o = 3 \/ o = 4
  OBVIOUS
<1>5. order_iterator = o
  BY <1>3 DEF AtKeys
<1>6. o = i - 1
  BY <1>1, <1>4, <1>5, KeyNames DEF InPlace
<1> QED  BY <1>3, <1>5, <1>6
\* One key more, and the object with it.
LEMMA NextKeyKept ==
  ASSUME LInv, UNCHANGED text, NEW i \in 1 .. 4, AtKeys(i - 1), ~AtEnd, Current.key = Keys[i],
         i \in {3, 4} => Current.num # NotInt,
         load' = "keys", line' = line + 1, order_iterator' = order_iterator + 1,
         UNCHANGED counter,
         bpkg' = Package(i, NULL, NULL)
  PROVE  LInv'
<1>1. Len(text) \in Nat /\ \A j \in 1 .. Len(text) : text[j].num \in Nat \cup {NotInt}
  BY TextFacts DEF LInv
<1>2. order_iterator = i - 1 /\ line = i /\ Header(i - 1) /\ i <= Len(text)
      /\ counter = [hashes |-> 0, chunks |-> 0]
  BY <1>1 DEF AtKeys, AtEnd
<1>3. Current = text[i]
  BY <1>2 DEF Current
<1>4. Header(i)
  <2>1. \A j \in 1 .. 5 : j <= i => j <= i - 1 \/ j = i
    OBVIOUS
  <2>2. \A j \in 1 .. 5 : j <= i => text[j].key = Keys[j]
    BY <1>2, <1>3, <2>1 DEF Header
  <2>3. i >= 3 => text[3].num # NotInt
    BY <1>2, <1>3 DEF Header
  <2>4. i >= 4 => N \in Nat
    BY <1>1, <1>2, <1>3 DEF N
  <2> QED  BY <1>2, <2>2, <2>3, <2>4 DEF Header
<1>5. AtKeys(i)'
  BY <1>2, <1>4 DEF AtKeys, Header, Package, N, M
<1> QED  BY <1>5 DEF LInv, Place, LoadedWhole

LEMMA ReadNameKept == ASSUME LInv, ReadName, UNCHANGED text PROVE LInv'
<1>1. PICK k \in {"ident", "filename"} :
        /\ Key(k)
        /\ IF InPlace(k) THEN NextKey([bpkg EXCEPT ![k] = Current.num]) ELSE Fail(bpkg)
  BY DEF ReadName
<1>2. load = "keys" /\ ~AtEnd /\ Current.key = k
  BY <1>1 DEF Key
<1>3. CASE ~InPlace(k)
  BY <1>1, <1>2, <1>3, Misplaced DEF Fail
<1>4. CASE InPlace(k) /\ k = "ident"
  <2>1. AtKeys(0) /\ Current.key = Keys[1]
    BY <1>2, <1>4, OnKeys, KeyNames
  <2>2. Current = text[1]
    BY <2>1 DEF AtKeys, Current
  <2>3. bpkg' = Package(1, NULL, NULL)
    BY <1>1, <1>4, <2>1, <2>2 DEF AtKeys, NextKey, Package
  <2>4. AtKeys(1 - 1)
    BY <2>1
  <2> QED  BY <1>1, <1>2, <1>4, <2>1, <2>3, <2>4, NextKeyKept DEF NextKey
<1>5. CASE InPlace(k) /\ k = "filename"
  <2>1. AtKeys(1) /\ Current.key = Keys[2]
    BY <1>2, <1>5, OnKeys, KeyNames
  <2>2. Current = text[2]
    BY <2>1 DEF AtKeys, Current
  <2>3. bpkg' = Package(2, NULL, NULL)
    BY <1>1, <1>5, <2>1, <2>2 DEF AtKeys, NextKey, Package
  <2>4. AtKeys(2 - 1)
    BY <2>1
  <2> QED  BY <1>1, <1>2, <1>5, <2>1, <2>3, <2>4, NextKeyKept DEF NextKey
<1> QED  BY <1>3, <1>4, <1>5

LEMMA ReadSizeKept == ASSUME LInv, ReadSize, UNCHANGED text PROVE LInv'
<1>1. load = "keys" /\ ~AtEnd /\ Current.key = "size"
  BY DEF ReadSize, Key
<1>2. CASE ~(InPlace("size") /\ Current.num # NotInt)
  BY <1>1, <1>2, Misplaced DEF ReadSize, Fail
<1>3. CASE InPlace("size") /\ Current.num # NotInt
  <2>1. AtKeys(2) /\ Current.key = Keys[3]
    BY <1>1, <1>3, OnKeys, KeyNames
  <2>2. Current = text[3]
    BY <2>1 DEF AtKeys, Current
  <2>3. NextKey([bpkg EXCEPT !.size = Current.num])
    BY <1>3 DEF ReadSize
  <2>4. bpkg' = Package(3, NULL, NULL)
    BY <2>1, <2>2, <2>3 DEF AtKeys, NextKey, Package
  <2>5. AtKeys(3 - 1)
    BY <2>1
  <2> QED  BY <1>1, <1>3, <2>1, <2>3, <2>4, <2>5, NextKeyKept DEF NextKey
<1> QED  BY <1>2, <1>3

LEMMA ReadNHashesKept == ASSUME LInv, ReadNHashes, UNCHANGED text PROVE LInv'
<1>1. load = "keys" /\ ~AtEnd /\ Current.key = "nhashes"
  BY DEF ReadNHashes, ReadCount, Key
<1>2. CASE ~(InPlace("nhashes") /\ Current.num # NotInt)
  <2>1. load' \in {"rejected", "undefined"}
    BY <1>2 DEF ReadNHashes, ReadCount, Fail
  <2> QED  BY <1>1, <1>2, <2>1, Misplaced
<1>3. CASE InPlace("nhashes") /\ Current.num # NotInt
  <2>1. AtKeys(3) /\ Current.key = Keys[4]
    BY <1>1, <1>3, OnKeys, KeyNames
  <2>2. Current = text[4]
    BY <2>1 DEF AtKeys, Current
  <2>3. NextKey([bpkg EXCEPT !["nhashes"] = Current.num])
    BY <1>3 DEF ReadNHashes, ReadCount
  <2>4. bpkg' = Package(4, NULL, NULL)
    <3>1. bpkg = Package(3, NULL, NULL) /\ Current.num = N
      BY <2>1, <2>2 DEF AtKeys, N
    <3>2. bpkg' = [bpkg EXCEPT !.nhashes = N]
      BY <2>3, <3>1 DEF NextKey
    <3> HIDE DEF N, M
    <3> QED  BY <3>1, <3>2 DEF Package
  <2>5. AtKeys(4 - 1)
    BY <2>1
  <2> QED  BY <1>1, <1>3, <2>1, <2>3, <2>4, <2>5, NextKeyKept DEF NextKey
<1> QED  BY <1>2, <1>3
-----------------------------------------------------------------------------
(* The first list.                                                         *)

LEMMA ReadNChunksKept == ASSUME LInv, ReadNChunks, UNCHANGED text PROVE LInv'
<1> USE TextFacts, KeyNames
<1>1. load = "keys" /\ ~AtEnd /\ Current.key = "nchunks"
  BY DEF ReadNChunks, ReadCount, Key
<1>2. CASE ~(InPlace("nchunks") /\ Current.num # NotInt)
  <2>1. load' \in {"rejected", "undefined"}
    BY <1>2 DEF ReadNChunks, ReadCount, Fail
  <2> QED  BY <1>1, <1>2, <2>1, Misplaced
<1>3. CASE InPlace("nchunks") /\ Current.num # NotInt
  <2>1. order_iterator \notin 0 .. 4 /\ order_iterator \notin {6, 7}
    <3>1. \A o \in 0 .. 4 : o = 0 \/ o = 1 \/ o = 2 \/ o = 3 \/ o = 4
      OBVIOUS
    <3> QED  BY <1>3, <3>1 DEF InPlace
  <2>2. PICK k \in Nat : AfterHashes(k)
    BY <1>1, <2>1 DEF LInv, Place, AtKeys, AtChunks, AfterChunks, InList, InHashes, InChunks,
       Doomed, Ended
  <2>3. /\ order_iterator = 5 /\ k = N /\ line = N + 6 /\ Header(5) /\ N \in Nat
        /\ counter = [hashes |-> N, chunks |-> 0] /\ N + 6 <= Len(text)
        /\ bpkg = Package(5, HashesRead(N), NULL)
    BY <1>1, <2>2 DEF AfterHashes, HashLines, Header, AtEnd, LInv
  <2>4. Current = text[N + 6] /\ M = Current.num
    BY <2>3 DEF Current, M
  <2>5. M \in Nat
    BY <1>3, <2>3, <2>4 DEF LInv
  <2>6. NextKey([bpkg EXCEPT !["nchunks"] = Current.num])
    BY <1>3 DEF ReadNChunks, ReadCount
  <2>7. bpkg' = Package(6, HashesRead(N), NULL)
    <3>1. bpkg' = [bpkg EXCEPT !.nchunks = M]
      BY <2>4, <2>6 DEF NextKey
    <3> QED  BY <2>3, <3>1 DEF Package
  <2>8. line' = N + 7 /\ order_iterator' = 6 /\ load' = "keys" /\ UNCHANGED counter
    BY <2>3, <2>6 DEF NextKey
  <2>9. AtChunks'
    <3>1. Second
      BY <1>1, <2>3, <2>4, <2>5 DEF Second
    <3> QED  BY <2>3, <2>7, <2>8, <3>1 DEF AtChunks, Second, Header, Package, HashesRead, N, M
  <2> QED  BY <2>8, <2>9 DEF LInv, Place, LoadedWhole
<1> QED  BY <1>2, <1>3

\* The list of hashes begins at its place, or too late: then the file is not
\* well formed.
LEMMA StartHashesKept == ASSUME LInv, StartHashes, UNCHANGED text PROVE LInv'
<1> USE TextFacts, KeyNames
<1>1. /\ load = "keys" /\ ~AtEnd /\ Current.key = "hashes" /\ bpkg.nhashes # Unset
      /\ load' = "hashes" /\ line' = line + 1
      /\ bpkg' = [bpkg EXCEPT !.hashes = [i \in 1 .. bpkg.nhashes |-> Unset]]
      /\ UNCHANGED <<order_iterator, counter>>
  BY DEF StartHashes, StartList, Key
<1>2. CASE order_iterator # 4
  <2>1. \A o \in 0 .. 6 : o = 0 \/ o = 1 \/ o = 2 \/ o = 3 \/ o = 4 \/ o = 5 \/ o = 6
    OBVIOUS
  <2>2. ~WellFormed(text)
    BY <1>1, <1>2, <2>1, KeyFits
  <2>3. Doomed'
    BY <1>1, <1>2, <2>2, OrderTyped DEF Doomed, WellFormed
  <2> QED  BY <1>1, <2>3 DEF LInv, Place, LoadedWhole
<1>3. CASE order_iterator = 4
  <2>1. AtKeys(4)
    BY <1>1, <1>3 DEF LInv, Place, AtKeys, AfterHashes, AtChunks, AfterChunks, InHashes, InChunks,
       Doomed, Ended
  <2>2. /\ line = 5 /\ Header(4) /\ N \in Nat /\ bpkg = Package(4, NULL, NULL)
        /\ counter = [hashes |-> 0, chunks |-> 0] /\ 5 <= Len(text)
    BY <1>1, <2>1 DEF AtKeys, Header, AtEnd, LInv
  <2>3. text[5].key = Keys[5]
    BY <1>1, <2>2 DEF Current
  <2>4. Header(5)
    <3>1. \A i \in 1 .. 5 : i <= 4 \/ i = 5
      OBVIOUS
    <3> QED  BY <2>2, <2>3, <3>1 DEF Header
  <2>5. bpkg' = Package(4, HashesRead(0), NULL)
    <3>1. bpkg.nhashes = N
      BY <2>2 DEF Package
    <3>2. HashesRead(0) = [i \in 1 .. N |-> Unset]
      BY <2>2 DEF HashesRead
    <3> QED  BY <1>1, <2>2, <3>1, <3>2 DEF Package
  <2>6. InHashes(0)'
    <3>1. line' = 6 + 0 /\ 0 \in 0 .. N /\ 5 + 0 <= Len(text)
      BY <1>1, <2>2
    <3>2. Header(5)' /\ N' = N /\ M' = M /\ HashesRead(0)' = HashesRead(0)
      BY <2>4 DEF Header, N, M, HashesRead
    <3>3. Package(4, HashesRead(0), NULL)' = Package(4, HashesRead(0), NULL)
      BY <3>2 DEF Package
    <3>4. HashLines(0)'
      BY <1>1, <2>2, <3>1, <3>2 DEF HashLines
    <3> QED  BY <1>1, <1>3, <2>5, <3>3, <3>4 DEF InHashes
  <2> QED  BY <1>1, <2>6 DEF LInv, Place, LoadedWhole
<1> QED  BY <1>2, <1>3
\* A list that is read in vain.
LEMMA DoomedKept ==
  ASSUME LInv, Doomed, UNCHANGED <<text, order_iterator, load>>
  PROVE  LInv'
BY DEF LInv, Place, Doomed, LoadedWhole, WellFormed

LEMMA OnHashes ==
  ASSUME LInv, load = "hashes"
  PROVE  Doomed \/ \E k \in Nat : InHashes(k)
BY DEF LInv, Place, AtKeys, AfterHashes, AtChunks, InChunks, AfterChunks, Doomed, Ended

LEMMA ReadHashKept == ASSUME LInv, ReadHash, UNCHANGED text PROVE LInv'
<1> USE TextFacts
<1>1. /\ load = "hashes" /\ ~AtEnd /\ counter.hashes < bpkg.nhashes
      /\ bpkg' = [bpkg EXCEPT !.hashes[counter.hashes + 1] = Current.hash]
      /\ counter' = [counter EXCEPT !.hashes = @ + 1]
      /\ line' = line + 1 /\ UNCHANGED <<order_iterator, load>>
  BY DEF ReadHash, More, Store
<1>2. CASE Doomed
  BY <1>1, <1>2, DoomedKept
<1>3. ASSUME NEW k \in Nat, InHashes(k)
      PROVE  LInv'
  <2>1. /\ order_iterator = 4 /\ Header(5) /\ N \in Nat /\ k \in 0 .. N /\ line = 6 + k
        /\ counter = [hashes |-> k, chunks |-> 0] /\ bpkg = Package(4, HashesRead(k), NULL)
    BY <1>3 DEF InHashes, HashLines, Header
  <2>2. bpkg.nhashes = N /\ bpkg.hashes = HashesRead(k) /\ counter.hashes = k
    BY <2>1 DEF Package
  <2>3. k < N /\ 6 + k <= Len(text) /\ Current = text[5 + (k + 1)]
    BY <1>1, <2>1, <2>2 DEF AtEnd, Current, LInv
  <2>4. [HashesRead(k) EXCEPT ![k + 1] = Current.hash] = HashesRead(k + 1)
    <3>1. k + 1 \in 1 .. N /\ \A i \in 1 .. N : i <= k + 1 <=> (i <= k \/ i = k + 1)
      BY <2>1, <2>3
    <3>2. \A i \in 1 .. N : (IF i = k + 1 THEN Current.hash ELSE HashesRead(k)[i]) = HashesRead(k + 1)[i]
      BY <2>1, <2>3, <3>1 DEF HashesRead
    <3> QED  BY <3>1, <3>2 DEF HashesRead
  <2>5. bpkg' = Package(4, HashesRead(k + 1), NULL)
    BY <1>1, <2>1, <2>2, <2>4 DEF Package
  <2>6. counter' = [hashes |-> k + 1, chunks |-> 0]
    BY <1>1, <2>1
  <2>7. Header(5)' /\ N' = N /\ M' = M /\ HashesRead(k + 1)' = HashesRead(k + 1)
    BY <2>1 DEF Header, N, M, HashesRead
  <2>8. Package(4, HashesRead(k + 1), NULL)' = Package(4, HashesRead(k + 1), NULL)
    BY <2>7 DEF Package
  <2>9. HashLines(k + 1)'
    <3>1. k + 1 \in 0 .. N /\ 5 + (k + 1) <= Len(text) /\ line' = 6 + (k + 1)
      BY <1>1, <2>1, <2>3, TextFacts DEF LInv
    <3> QED  BY <2>6, <2>7, <3>1 DEF HashLines
  <2>10. InHashes(k + 1)'
    BY <1>1, <2>1, <2>5, <2>8, <2>9 DEF InHashes
  <2> QED  BY <1>1, <2>10 DEF LInv, Place, LoadedWhole
<1> QED  BY <1>1, <1>2, <1>3, OnHashes

LEMMA EndHashesKept == ASSUME LInv, EndHashes, UNCHANGED text PROVE LInv'
<1> USE TextFacts, KeyNames
<1>1. load = "hashes" /\ ~More("hashes", "nhashes")
  BY DEF EndHashes, EndList
<1>2. CASE ~InPlace("hashes")
  <2>1. load' \in {"rejected", "undefined"}
    BY <1>2 DEF EndHashes, EndList, Fail
  <2>2. \A k \in Nat : ~InHashes(k)
    BY <1>2 DEF InHashes, InPlace
  <2> QED  BY <1>1, <2>1, <2>2, OnHashes, Failed DEF Doomed
<1>3. CASE InPlace("hashes")
  <2>1. load' = "keys" /\ order_iterator' = order_iterator + 1 /\ UNCHANGED <<line, counter, bpkg>>
    BY <1>3 DEF EndHashes, EndList
  <2>2. CASE \E k \in Nat : InHashes(k)
    <3>1. PICK k \in Nat : InHashes(k)
      BY <2>2
    <3>2. /\ order_iterator = 4 /\ HashLines(k) /\ bpkg = Package(4, HashesRead(k), NULL)
          /\ counter = [hashes |-> k, chunks |-> 0] /\ N \in Nat /\ k \in 0 .. N
      BY <3>1 DEF InHashes, HashLines, Header
    <3>3. bpkg.nhashes = N /\ counter.hashes = k
      BY <3>2 DEF Package
    <3>4. k = N \/ AtEnd
      BY <1>1, <3>2, <3>3 DEF More
    <3>5. bpkg' = Package(5, HashesRead(k), NULL)
      BY <2>1, <3>2 DEF Package
    <3>6. Header(5)' /\ N' = N /\ M' = M /\ HashesRead(k)' = HashesRead(k)
      BY <3>2 DEF HashLines, Header, N, M, HashesRead
    <3>7. Package(5, HashesRead(k), NULL)' = Package(5, HashesRead(k), NULL)
      BY <3>6 DEF Package
    <3>8. HashLines(k)' /\ (k = N' \/ AtEnd')
      BY <2>1, <3>2, <3>4, <3>6 DEF HashLines, AtEnd
    <3>9. AfterHashes(k)'
      BY <2>1, <3>2, <3>5, <3>7, <3>8 DEF AfterHashes
    <3> QED  BY <2>1, <3>9 DEF LInv, Place, LoadedWhole
  <2>3. CASE Doomed
    <3>1. Keys[order_iterator + 1] = "hashes" /\ order_iterator < 7 /\ order_iterator \in 0 .. 7
      BY <1>3, <2>3 DEF InPlace, Doomed
    <3>2. \A o \in 0 .. 6 : o = 0 \/ o = 1 \/ o = 2 \/ o = 3 \/ o = 4 \/ o = 5 \/ o = 6
      OBVIOUS
    <3>3. order_iterator = 4
      BY <3>1, <3>2
    <3> QED  BY <1>1, <2>3, <3>3 DEF Doomed
  <2> QED  BY <1>1, <2>2, <2>3, OnHashes
<1> QED  BY <1>2, <1>3
-----------------------------------------------------------------------------
(* The second list.                                                        *)

LEMMA StartChunksKept == ASSUME LInv, StartChunks, UNCHANGED text PROVE LInv'
<1> USE TextFacts, KeyNames
<1>1. /\ load = "keys" /\ ~AtEnd /\ Current.key = "chunks" /\ bpkg.nchunks # Unset
      /\ load' = "chunks" /\ line' = line + 1
      /\ bpkg' = [bpkg EXCEPT !.chunks = [i \in 1 .. bpkg.nchunks |-> NULL]]
      /\ UNCHANGED <<order_iterator, counter>>
  BY DEF StartChunks, StartList, Key
<1>2. CASE order_iterator # 6
  <2>1. \A o \in 0 .. 6 : o = 0 \/ o = 1 \/ o = 2 \/ o = 3 \/ o = 4 \/ o = 5 \/ o = 6
    OBVIOUS
  <2>2. ~WellFormed(text)
    BY <1>1, <1>2, <2>1, KeyFits
  <2>3. Doomed'
    BY <1>1, <1>2, <2>2, OrderTyped DEF Doomed, WellFormed
  <2> QED  BY <1>1, <2>3 DEF LInv, Place, LoadedWhole
<1>3. CASE order_iterator = 6
  <2>1. AtChunks
    BY <1>1, <1>3 DEF LInv, Place, AtKeys, AfterHashes, AfterChunks, InHashes, InChunks,
       Doomed, Ended
  <2>2. /\ line = N + 7 /\ Second /\ N \in Nat /\ M \in Nat
        /\ bpkg = Package(6, HashesRead(N), NULL)
        /\ counter = [hashes |-> N, chunks |-> 0] /\ N + 7 <= Len(text)
    BY <1>1, <2>1 DEF AtChunks, Second, Header, AtEnd, LInv
  <2>3. text[N + 7].key = "chunks"
    BY <1>1, <2>2 DEF Current
  <2>4. bpkg' = Package(6, HashesRead(N), ChunksRead(0))
    <3>1. bpkg.nchunks = M
      BY <2>2 DEF Package
    <3>2. ChunksRead(0) = [i \in 1 .. M |-> NULL]
      BY <2>2 DEF ChunksRead
    <3> QED  BY <1>1, <2>2, <3>1, <3>2 DEF Package
  <2>5. /\ Second' /\ N' = N /\ M' = M /\ HashesRead(N)' = HashesRead(N)
        /\ ChunksRead(0)' = ChunksRead(0) /\ ChunkLines(0)'
    BY <2>2 DEF Second, Header, N, M, HashesRead, ChunksRead, ChunkLines
  <2>6. Package(6, HashesRead(N), ChunksRead(0))' = Package(6, HashesRead(N), ChunksRead(0))
    BY <2>5 DEF Package
  <2>7. InList(0)'
    <3>1. line' = N + 8 + 0 /\ 0 \in 0 .. M /\ N + 7 + 0 <= Len(text)
      BY <1>1, <2>2
    <3> QED  BY <1>1, <2>2, <2>3, <2>4, <2>5, <2>6, <3>1 DEF InList
  <2> QED  BY <1>1, <1>3, <2>7 DEF InChunks, LInv, Place, LoadedWhole
<1> QED  BY <1>2, <1>3

LEMMA OnChunks ==
  ASSUME LInv, load = "chunks"
  PROVE  Doomed \/ \E k \in Nat : InChunks(k)
BY DEF LInv, Place, AtKeys, AfterHashes, AtChunks, InHashes, AfterChunks, Doomed, Ended

\* What is known within the list.
LEMMA ListFacts ==
  ASSUME LInv, NEW k \in Nat, InList(k)
  PROVE  /\ N \in Nat /\ M \in Nat /\ k <= M /\ Second /\ N + 7 + k <= Len(text)
         /\ line = N + 7 + (k + 1) /\ ChunkLines(k) /\ text[N + 7].key = "chunks"
         /\ counter = [hashes |-> N, chunks |-> k]
         /\ bpkg = Package(6, HashesRead(N), ChunksRead(k))
         /\ bpkg.nchunks = M /\ bpkg.chunks = ChunksRead(k) /\ counter.chunks = k
         /\ bpkg.nhashes = N /\ bpkg.hashes = HashesRead(N)
<1>1. N \in Nat /\ M \in Nat /\ k \in 0 .. M
  BY DEF InList, Second, Header
<1>2. /\ counter = [hashes |-> N, chunks |-> k]
      /\ bpkg = Package(6, HashesRead(N), ChunksRead(k))
      /\ line = N + 8 + k
  BY DEF InList
<1>3. bpkg.nchunks = M /\ bpkg.chunks = ChunksRead(k) /\ counter.chunks = k
      /\ bpkg.nhashes = N /\ bpkg.hashes = HashesRead(N)
  BY <1>2 DEF Package
<1> QED  BY <1>1, <1>2, <1>3 DEF InList

LEMMA ReadChunkKept == ASSUME LInv, ReadChunk, UNCHANGED text PROVE LInv'
<1> USE TextFacts
<1>1. /\ load = "chunks" /\ ~AtEnd /\ counter.chunks < bpkg.nchunks
      /\ Current.key = "chunk" /\ Current.num # NotInt /\ Current.size # NotInt
      /\ bpkg' = [bpkg EXCEPT !.chunks[counter.chunks + 1] = ChunkOn(Current)]
      /\ counter' = [counter EXCEPT !.chunks = @ + 1]
      /\ line' = line + 1 /\ UNCHANGED <<order_iterator, load>>
  BY DEF ReadChunk, More, Store, ChunkOn
<1>2. CASE Doomed
  BY <1>1, <1>2, DoomedKept
<1>3. ASSUME NEW k \in Nat, InChunks(k)
      PROVE  LInv'
  <2>1. /\ order_iterator = 6 /\ N \in Nat /\ M \in Nat /\ Second /\ line = N + 7 + (k + 1)
        /\ ChunkLines(k) /\ text[N + 7].key = "chunks" /\ counter = [hashes |-> N, chunks |-> k]
        /\ bpkg = Package(6, HashesRead(N), ChunksRead(k))
        /\ bpkg.nchunks = M /\ bpkg.chunks = ChunksRead(k) /\ counter.chunks = k
    BY <1>3, ListFacts DEF InChunks
  <2>2. k < M /\ N + 7 + (k + 1) <= Len(text) /\ Current = text[N + 7 + (k + 1)]
    BY <1>1, <2>1 DEF AtEnd, Current, LInv
  <2>3. [ChunksRead(k) EXCEPT ![k + 1] = ChunkOn(Current)] = ChunksRead(k + 1)
    <3>1. k + 1 \in 1 .. M /\ \A i \in 1 .. M : i <= k + 1 <=> (i <= k \/ i = k + 1)
      BY <2>1, <2>2
    <3>2. \A i \in 1 .. M :
            (IF i = k + 1 THEN ChunkOn(Current) ELSE ChunksRead(k)[i]) = ChunksRead(k + 1)[i]
      BY <2>1, <2>2, <3>1 DEF ChunksRead
    <3> QED  BY <3>1, <3>2 DEF ChunksRead
  <2>4. bpkg' = Package(6, HashesRead(N), ChunksRead(k + 1))
    BY <1>1, <2>1, <2>3 DEF Package
  <2>5. counter' = [hashes |-> N, chunks |-> k + 1]
    BY <1>1, <2>1
  <2>6. ChunkLines(k + 1)
    <3>1. \A i \in N + 8 .. N + 7 + (k + 1) : i \in N + 8 .. N + 7 + k \/ i = N + 7 + (k + 1)
      BY <2>1
    <3> QED  BY <1>1, <2>1, <2>2, <3>1 DEF ChunkLines
  <2>7. /\ Second' /\ N' = N /\ M' = M /\ HashesRead(N)' = HashesRead(N)
        /\ ChunksRead(k + 1)' = ChunksRead(k + 1) /\ ChunkLines(k + 1)'
    BY <2>1, <2>6 DEF Second, Header, N, M, HashesRead, ChunksRead, ChunkLines
  <2>8. Package(6, HashesRead(N), ChunksRead(k + 1))' = Package(6, HashesRead(N), ChunksRead(k + 1))
    BY <2>7 DEF Package
  <2>9. InList(k + 1)'
    <3>1. line' = N + 8 + (k + 1) /\ k + 1 \in 0 .. M
      BY <1>1, <2>1, <2>2
    <3> QED  BY <2>1, <2>2, <2>4, <2>5, <2>7, <2>8, <3>1 DEF InList
  <2>10. InChunks(k + 1)'
    BY <1>1, <2>1, <2>9 DEF InChunks
  <2> QED  BY <1>1, <2>10 DEF LInv, Place, LoadedWhole
<1> QED  BY <1>1, <1>2, <1>3, OnChunks

\* A line of the second list that is none.
LEMMA BadLine ==
  ASSUME LInv, UNCHANGED text, load = "chunks", ~AtEnd, load' \in {"rejected", "undefined"},
         Current.key # "chunk" \/ Current.num = NotInt \/ Current.size = NotInt
  PROVE  LInv'
<1>1. ASSUME NEW k \in Nat, InChunks(k), WellFormed(text)
      PROVE  FALSE
  <2>1. line = N + 7 + (k + 1) /\ N \in Nat
    BY <1>1, ListFacts DEF InChunks
  <2>2. line \in N + 8 .. Len(text)
    BY <2>1, TextFacts DEF AtEnd, LInv
  <2> QED  BY <1>1, <2>2, WellFormedFacts DEF LInv, Current
<1> QED  BY <1>1, OnChunks, Failed DEF Doomed

LEMMA EndChunksKept == ASSUME LInv, EndChunks, UNCHANGED text PROVE LInv'
<1> USE TextFacts, KeyNames
<1>1. load = "chunks" /\ ~More("chunks", "nchunks")
  BY DEF EndChunks, EndList
<1>2. CASE ~InPlace("chunks")
  <2>1. load' \in {"rejected", "undefined"}
    BY <1>2 DEF EndChunks, EndList, Fail
  <2>2. \A k \in Nat : ~InChunks(k)
    BY <1>2 DEF InChunks, InPlace
  <2> QED  BY <1>1, <2>1, <2>2, OnChunks, Failed DEF Doomed
<1>3. CASE InPlace("chunks")
  <2>1. load' = "keys" /\ order_iterator' = order_iterator + 1 /\ UNCHANGED <<line, counter, bpkg>>
    BY <1>3 DEF EndChunks, EndList
  <2>2. CASE \E k \in Nat : InChunks(k)
    <3>1. PICK k \in Nat : InChunks(k)
      BY <2>2
    <3>2. /\ order_iterator = 6 /\ InList(k) /\ counter.chunks = k /\ bpkg.nchunks = M
          /\ k <= M /\ N \in Nat /\ M \in Nat
      BY <3>1, ListFacts DEF InChunks
    <3>3. k = M \/ AtEnd
      BY <1>1, <3>2 DEF More
    <3>4. /\ Second' <=> Second
          /\ N' = N /\ M' = M /\ HashesRead(N)' = HashesRead(N)
          /\ ChunksRead(k)' = ChunksRead(k) /\ (ChunkLines(k)' <=> ChunkLines(k))
      BY DEF Second, Header, N, M, HashesRead, ChunksRead, ChunkLines
    <3>5. Package(6, HashesRead(N), ChunksRead(k))' = Package(6, HashesRead(N), ChunksRead(k))
      BY <3>4 DEF Package
    <3>6. InList(k)' /\ (k = M' \/ AtEnd')
      BY <2>1, <3>2, <3>3, <3>4, <3>5 DEF InList, AtEnd
    <3>7. AfterChunks(k)'
      BY <2>1, <3>2, <3>6 DEF AfterChunks
    <3> QED  BY <2>1, <3>7 DEF LInv, Place, LoadedWhole
  <2>3. CASE Doomed
    <3>1. Keys[order_iterator + 1] = "chunks" /\ order_iterator < 7 /\ order_iterator \in 0 .. 7
      BY <1>3, <2>3 DEF InPlace, Doomed
    <3>2. \A o \in 0 .. 6 : o = 0 \/ o = 1 \/ o = 2 \/ o = 3 \/ o = 4 \/ o = 5 \/ o = 6
      OBVIOUS
    <3>3. order_iterator = 6
      BY <3>1, <3>2
    <3> QED  BY <1>1, <2>3, <3>3 DEF Doomed
  <2> QED  BY <1>1, <2>2, <2>3, OnChunks
<1> QED  BY <1>2, <1>3
-----------------------------------------------------------------------------
(* The end of the file.                                                    *)

\* An end before the last list has no chunks, and is too early.
LEMMA EarlyEnd ==
  ASSUME LInv, load = "keys", AtEnd, \A k \in Nat : ~AfterChunks(k)
  PROVE  ~TreeFits(bpkg) /\ ~WellFormed(text)
<1> USE TextFacts, WellFormedFacts
<1>1. ASSUME NEW o \in 0 .. 4, AtKeys(o)
      PROVE  ~TreeFits(bpkg) /\ ~WellFormed(text)
  <2>1. bpkg = Package(o, NULL, NULL) /\ line = o + 1
    BY <1>1 DEF AtKeys
  <2>2. bpkg.chunks = NULL
    BY <2>1 DEF Package
  <2> QED  BY <2>1, <2>2 DEF TreeFits, AtEnd, LInv
<1>2. ASSUME NEW k \in Nat, AfterHashes(k)
      PROVE  ~TreeFits(bpkg) /\ ~WellFormed(text)
  <2>1. bpkg = Package(5, HashesRead(k), NULL) /\ line = 6 + k /\ k \in 0 .. N /\ N \in Nat
    BY <1>2 DEF AfterHashes, HashLines, Header
  <2>2. bpkg.chunks = NULL
    BY <2>1 DEF Package
  <2> QED  BY <2>1, <2>2 DEF TreeFits, AtEnd, LInv
<1>3. ASSUME AtChunks
      PROVE  ~TreeFits(bpkg) /\ ~WellFormed(text)
  <2>1. bpkg = Package(6, HashesRead(N), NULL) /\ line = N + 7 /\ N \in Nat
    BY <1>3 DEF AtChunks, Second, Header
  <2>2. bpkg.chunks = NULL
    BY <2>1 DEF Package
  <2> QED  BY <2>1, <2>2 DEF TreeFits, AtEnd, LInv
<1> QED  BY <1>1, <1>2, <1>3 DEF LInv, Place, InHashes, InChunks, Doomed, Ended

\* At the end of the last list the lists are those of the file.
LEMMA WholeLists ==
  ASSUME LInv, NEW k \in Nat, AfterChunks(k), AtEnd
  PROVE  /\ N + 7 + k = Len(text)
         /\ bpkg.hashes = HashList(text) /\ bpkg.chunks = ChunkList(text)
<1>1. /\ N \in Nat /\ M \in Nat /\ k <= M /\ N + 7 + k <= Len(text)
      /\ line = N + 7 + (k + 1)
      /\ bpkg.chunks = ChunksRead(k) /\ bpkg.hashes = HashesRead(N)
  BY ListFacts DEF AfterChunks
<1>2. N + 7 + k = Len(text)
  BY <1>1, TextFacts DEF AtEnd, LInv
<1>3. HashesRead(N) = HashList(text)
  BY <1>1 DEF HashesRead, HashList, N
<1>4. ChunksRead(k) = ChunkList(text)
  <2>1. (N + 7) - 1 = N + 6
    BY <1>1
  <2>2. \A i \in 1 .. M : i <= k <=> N + 7 + i <= Len(text)
    BY <1>1, <1>2
  <2>3. ChunkList(text) =
          [i \in 1 .. text[(N + 7) - 1].num |->
             IF N + 7 + i <= Len(text) THEN ChunkOn(text[N + 7 + i]) ELSE NULL]
    BY DEF ChunkList, N
  <2>4. ChunkList(text) =
          [i \in 1 .. M |-> IF N + 7 + i <= Len(text) THEN ChunkOn(text[N + 7 + i]) ELSE NULL]
    BY <2>1, <2>3 DEF M
  <2> QED  BY <2>2, <2>4 DEF ChunksRead
<1> QED  BY <1>1, <1>2, <1>3, <1>4

\* There is a leaf for every chunk of the tree exactly if the list is long
\* enough.
LEMMA TreeFitsIff ==
  ASSUME LInv, NEW k \in Nat, AfterChunks(k), AtEnd
  PROVE  TreeFits(bpkg) <=> WellFormed(text)
<1>1. /\ N \in Nat /\ M \in Nat /\ k <= M /\ Second /\ ChunkLines(k) /\ Header(5)
      /\ text[N + 7].key = "chunks" /\ bpkg.nhashes = N
      /\ bpkg.chunks = ChunksRead(k) /\ bpkg.hashes = HashesRead(N)
  BY ListFacts DEF AfterChunks, Second
<1>2. N + 7 + k = Len(text)
  BY WholeLists
<1>3. ASSUME TreeFits(bpkg)
      PROVE  WellFormed(text)
  <2>1. N + 1 \in DOMAIN ChunksRead(k) /\ ChunksRead(k)[N + 1] # NULL
    BY <1>1, <1>3 DEF TreeFits
  <2>2. N + 1 \in 1 .. M /\ N + 1 <= k
    BY <1>1, <2>1 DEF ChunksRead
  <2> QED  BY <1>1, <1>2, <2>2, WellFormedIf DEF LInv
<1>4. ASSUME WellFormed(text)
      PROVE  TreeFits(bpkg)
  <2>1. N < k
    BY <1>1, <1>2, <1>4, WellFormedFacts DEF LInv
  <2>2. bpkg.chunks # NULL /\ bpkg.hashes # NULL
    BY <1>4, WholeLists, LoadAssumption DEF LInv
  <2>3. ASSUME NEW i \in 1 .. N + 1
        PROVE  i \in DOMAIN ChunksRead(k) /\ ChunksRead(k)[i] # NULL
    <3>1. i \in 1 .. M /\ i <= k /\ N + 7 + i \in 1 .. Len(text)
      BY <1>1, <1>2, <2>1
    <3>2. ChunksRead(k)[i] = ChunkOn(text[N + 7 + i])
      BY <3>1 DEF ChunksRead
    <3> QED  BY <3>1, <3>2, TextFacts DEF LInv, ChunksRead
  <2> QED  BY <1>1, <2>2, <2>3 DEF TreeFits
<1> QED  BY <1>3, <1>4

\* What was read can be destroyed.
LEMMA ReadDestroyable ==
  ASSUME LInv, NEW k \in Nat, AfterChunks(k), AtEnd
  PROVE  Destroyable(bpkg)
<1>1. /\ N \in Nat /\ M \in Nat /\ k <= M /\ Header(5) /\ N + 7 + k = Len(text)
      /\ bpkg = Package(6, HashesRead(N), ChunksRead(k))
      /\ bpkg.nhashes = N /\ bpkg.nchunks = M
      /\ bpkg.chunks = ChunksRead(k) /\ bpkg.hashes = HashesRead(N)
  BY ListFacts, WholeLists DEF AfterChunks, Second
<1>2. bpkg.ident # Unset /\ bpkg.filename # Unset
  <2>1. bpkg.ident = text[1].num /\ bpkg.filename = text[2].num
    BY <1>1 DEF Package
  <2>2. text[1].num \in Int /\ text[2].num \in Int
    BY <1>1, TextFacts DEF LInv, NotInt
  <2> QED  BY <2>1, <2>2, LoadAssumption
<1>3. \A i \in 1 .. N : i \in DOMAIN HashesRead(N) /\ HashesRead(N)[i] # Unset
  <2>1. \A i \in 1 .. N : 5 + i \in 1 .. Len(text)
    BY <1>1, TextFacts DEF LInv
  <2> QED  BY <2>1, TextFacts DEF LInv, HashesRead
<1>4. Len(ChunksRead(k)) = M
  BY <1>1 DEF ChunksRead
<1> QED  BY <1>1, <1>2, <1>3, <1>4 DEF Destroyable

LEMMA EndOfFileKept == ASSUME LInv, EndOfFile, UNCHANGED text PROVE LInv'
<1>1. /\ load = "keys" /\ AtEnd /\ UNCHANGED <<line, order_iterator, counter, bpkg>>
      /\ load' = IF TreeFits(bpkg) THEN "loaded" ELSE "undefined"
  BY DEF EndOfFile
<1>2. CASE \A k \in Nat : ~AfterChunks(k)
  BY <1>1, <1>2, EarlyEnd, Failed
<1>3. ASSUME NEW k \in Nat, AfterChunks(k)
      PROVE  LInv'
  <2>1. CASE ~WellFormed(text)
    BY <1>1, <1>3, <2>1, TreeFitsIff, Failed
  <2>2. CASE WellFormed(text)
    <3>1. load' = "loaded"
      BY <1>1, <1>3, <2>2, TreeFitsIff
    <3>2. /\ Destroyable(bpkg)
          /\ bpkg.hashes = HashList(text) /\ bpkg.chunks = ChunkList(text)
          /\ bpkg.nhashes = text[4].num /\ bpkg.nchunks = text[text[4].num + 6].num
      BY <1>1, <1>3, WholeLists, ReadDestroyable, ListFacts DEF AfterChunks, N, M
    <3>4. bpkg.size = text[3].num
      BY <1>3 DEF AfterChunks, InList, Package
    <3>3. WellFormed(text)' /\ Destroyable(bpkg)' /\ HashList(text)' = HashList(text)
          /\ ChunkList(text)' = ChunkList(text)
      BY <1>1, <2>2, <3>2 DEF WellFormed, Destroyable, HashList, ChunkList
    <3> QED  BY <1>1, <3>1, <3>2, <3>3, <3>4 DEF LInv, Place, Ended, LoadedWhole
  <2> QED  BY <2>1, <2>2
<1> QED  BY <1>2, <1>3

\* A count that was not set is one of a list at the wrong place.
LEMMA StartUncountedKept == ASSUME LInv, StartUncounted, UNCHANGED text PROVE LInv'
<1> USE TextFacts, KeyNames
<1>1. /\ load = "keys" /\ ~AtEnd /\ load' \in {"rejected", "undefined"}
      /\ \/ Current.key = "hashes" /\ bpkg.nhashes = Unset
         \/ Current.key = "chunks" /\ bpkg.nchunks = Unset
  BY DEF StartUncounted, Key
<1>2. ASSUME WellFormed(text)
      PROVE  FALSE
  <2>1. order_iterator \in 0 .. 6 /\ Current.key = Keys[order_iterator + 1]
    BY <1>1, <1>2, KeyFits
  <2>2. \A o \in 0 .. 6 : o = 0 \/ o = 1 \/ o = 2 \/ o = 3 \/ o = 4 \/ o = 5 \/ o = 6
    OBVIOUS
  <2>3. \/ order_iterator = 4 /\ bpkg.nhashes = Unset
        \/ order_iterator = 6 /\ bpkg.nchunks = Unset
    BY <1>1, <2>1, <2>2
  <2>4. CASE order_iterator = 4
    <3>1. AtKeys(4)
      BY <1>1, <2>4 DEF LInv, Place, AtKeys, AfterHashes, AtChunks, AfterChunks, InHashes, InChunks,
         Doomed, Ended
    <3>2. bpkg = Package(4, NULL, NULL) /\ N \in Nat
      BY <3>1 DEF AtKeys, Header
    <3>3. bpkg.nhashes = N
      BY <3>2 DEF Package
    <3> QED  BY <2>3, <2>4, <3>2, <3>3, LoadAssumption
  <2>5. CASE order_iterator = 6
    <3>1. AtChunks
      BY <1>1, <2>5 DEF LInv, Place, AtKeys, AfterHashes, AfterChunks, InHashes, InChunks,
         Doomed, Ended
    <3>2. bpkg = Package(6, HashesRead(N), NULL) /\ M \in Nat
      BY <3>1 DEF AtChunks, Second
    <3>3. bpkg.nchunks = M
      BY <3>2 DEF Package
    <3> QED  BY <2>3, <2>5, <3>2, <3>3, LoadAssumption
  <2> QED  BY <2>3, <2>4, <2>5
<1> QED  BY <1>1, <1>2, Failed

-----------------------------------------------------------------------------
(* All steps.                                                              *)

LEMMA LoadStepKept == ASSUME LInv, LoadStep PROVE LInv'
<1>1. UNCHANGED text
  BY DEF LoadStep
<1>2. CASE CannotOpen
  BY <1>1, <1>2 DEF CannotOpen, LInv, Place, Ended, LoadedWhole
<1>3. CASE ReadOther
  <2>1. load = "keys" /\ ~AtEnd /\ load' \in {"rejected", "undefined"}
        /\ Current.key \notin {Keys[i] : i \in DOMAIN Keys}
    BY <1>3 DEF ReadOther, Fail
  <2> QED  BY <1>1, <2>1, Misplaced
<1>4. CASE ReadBadChunk \/ ReadNoChunk
  <2>1. /\ load = "chunks" /\ ~AtEnd /\ load' \in {"rejected", "undefined"}
        /\ Current.key # "chunk" \/ Current.num = NotInt \/ Current.size = NotInt
    BY <1>4 DEF ReadBadChunk, ReadNoChunk, More, Fail
  <2> QED  BY <1>1, <2>1, BadLine
<1> QED
  BY <1>1, <1>2, <1>3, <1>4, EndOfFileKept, ReadNameKept, ReadSizeKept, ReadNHashesKept,
     ReadNChunksKept, StartHashesKept, StartChunksKept, StartUncountedKept, EndHashesKept,
     EndChunksKept, ReadHashKept, ReadChunkKept DEF LoadStep

\* A new start of the parser.
LEMMA StartKept == ASSUME LInv, StartLoad, UNCHANGED text PROVE LInv'
<1>1. /\ load' = "keys" /\ line' = 1 /\ order_iterator' = 0 /\ bpkg' = NewPackage
      /\ counter' = [hashes |-> 0, chunks |-> 0]
  BY DEF StartLoad
<1>2. Header(0)'
  <2>1. Len(text)' \in Nat
    BY TextFacts DEF LInv
  <2> QED  BY <2>1 DEF Header
<1>3. AtKeys(0)'
  BY <1>1, <1>2 DEF AtKeys, Package, NewPackage
<1> QED  BY <1>1, <1>3 DEF LInv, Place, LoadedWhole

LEMMA NextLInv == ASSUME LInv, [Next]_vars PROVE LInv'
<1>1. CASE UNCHANGED loadVars
  <2>1. /\ UNCHANGED <<text, line, order_iterator, counter, bpkg, load>>
        /\ N' = N /\ M' = M /\ AtEnd' = AtEnd
    BY <1>1 DEF loadVars, N, M, AtEnd
  <2>2. ASSUME NEW o \in 0 .. 4, AtKeys(o)
        PROVE  AtKeys(o)'
    BY <2>1, <2>2 DEF AtKeys, Header, Package
  <2>3. Header(5)' <=> Header(5)
    BY <2>1 DEF Header
  <2>4. ASSUME NEW k \in Nat
        PROVE  /\ HashLines(k)' <=> HashLines(k)
               /\ HashesRead(k)' = HashesRead(k) /\ ChunksRead(k)' = ChunksRead(k)
               /\ ChunkLines(k)' <=> ChunkLines(k)
    BY <2>1, <2>3 DEF HashLines, HashesRead, ChunksRead, ChunkLines
  <2>5. HashesRead(N)' = HashesRead(N) /\ (Second' <=> Second)
    BY <2>1, <2>3 DEF HashesRead, Second
  <2>6. ASSUME NEW k \in Nat, InHashes(k)
        PROVE  InHashes(k)'
    BY <2>1, <2>4, <2>6 DEF InHashes, Package
  <2>7. ASSUME NEW k \in Nat, AfterHashes(k)
        PROVE  AfterHashes(k)'
    BY <2>1, <2>4, <2>7 DEF AfterHashes, Package
  <2>8. AtChunks => AtChunks'
    BY <2>1, <2>5 DEF AtChunks, Package
  <2>9. ASSUME NEW k \in Nat, InList(k)
        PROVE  InList(k)'
    BY <2>1, <2>4, <2>5, <2>9 DEF InList, Package
  <2>10. ASSUME NEW k \in Nat, InChunks(k) \/ AfterChunks(k)
         PROVE  InChunks(k)' \/ AfterChunks(k)'
    BY <2>1, <2>9, <2>10 DEF InChunks, AfterChunks
  <2>11. (WellFormed(text)' <=> WellFormed(text)) /\ (Doomed => Doomed') /\ (Ended => Ended')
    BY <2>1 DEF WellFormed, Doomed, Ended
  <2>12. Place'
    BY <2>2, <2>6, <2>7, <2>8, <2>10, <2>11 DEF LInv, Place
  <2>13. LoadedWhole'
    BY <2>1, <2>11 DEF LInv, LoadedWhole, Destroyable, HashList, ChunkList
  <2> QED  BY <2>1, <2>12, <2>13 DEF LInv
<1>2. CASE LoadPackage
  BY <1>2, LoadStepKept DEF LoadPackage
<1>3. CASE UNCHANGED text /\ load' = "idle"
  BY <1>3 DEF LInv, Place, Ended, LoadedWhole
<1>4. CASE StartLoad /\ UNCHANGED text
  BY <1>4, StartKept
<1> QED
  BY <1>1, <1>2, <1>3, <1>4 DEF Next, vars, loadVars, LoadConfig, MainStarts, AddPackage, Packages,
     RemovePackage, Invoke, Rejected, LoadUndefined, Loaded, CheckFile, QueryPackage, Return,
     Restart, FileChanges

\* For every .bpkg file bpkg_load returns an object exactly if the file is well
\* formed, with all its lines at their places, and that object can be destroyed.
THEOREM LoadIsWhole == Spec => []LoadedWhole
<1>1. Init => LInv
  BY DEF Init, LoadInit, LInv, Place, Ended, LoadedWhole
<1>2. LInv /\ [Next]_vars => LInv'
  BY NextLInv
<1>3. LInv => LoadedWhole
  BY DEF LInv
<1> QED  BY <1>1, <1>2, <1>3, PTL DEF Spec
=============================================================================
