------------------------ MODULE ChunkTransferProofs ------------------------
(***************************************************************************)
(* Proofs about ChunkTransfer, for any number of processes, chunks and     *)
(* files, any sizes of chunks and packets, any content and all faults.     *)
(***************************************************************************)
EXTENDS ChunkTransfer, FiniteSetTheorems, TLAPS

-----------------------------------------------------------------------------
(* Chunks, their units, and calculate_data_len.                            *)

\* A chunk is a part of the file.
LEMMA ChunkBounds ==
  ASSUME NEW i \in Chunks
  PROVE  /\ Start(i) \in Nat /\ End(i) \in Nat /\ End(i) = Start(i) + ChunkSize
         /\ End(i) <= NChunks * ChunkSize
<1> USE SizeAssumption
<1>1. i \in Nat /\ i + 1 <= NChunks
  BY DEF Chunks
<1>2. (i + 1) * ChunkSize = i * ChunkSize + ChunkSize /\ i * ChunkSize \in Nat
  BY <1>1
<1>3. \A a, b, c \in Nat : a <= b => a * c <= b * c
  OBVIOUS
<1>4. (i + 1) * ChunkSize <= NChunks * ChunkSize
  BY <1>1, <1>3
<1> QED  BY <1>2, <1>4 DEF Start, End

LEMMA UnitsInFile ==
  ASSUME NEW i \in Chunks
  PROVE  /\ UnitsOf(i) \subseteq Units
         /\ \A u \in 0 .. ChunkSize - 1 : Start(i) + u \in UnitsOf(i)
         /\ \A u \in UnitsOf(i) : u - Start(i) \in 0 .. ChunkSize - 1
BY ChunkBounds, SizeAssumption DEF UnitsOf, Units

\* The chunks lie one after the other.
LEMMA ChunksApart ==
  ASSUME NEW i \in Chunks, NEW k \in Chunks, i < k
  PROVE  End(i) <= Start(k)
<1> USE SizeAssumption
<1>1. i \in Nat /\ k \in Nat /\ i + 1 <= k
  BY DEF Chunks
<1>2. (i + 1) * ChunkSize = i * ChunkSize + ChunkSize
  BY <1>1
<1>3. \A a, b, c \in Nat : a <= b => a * c <= b * c
  OBVIOUS
<1> QED  BY <1>1, <1>2, <1>3 DEF Start, End

LEMMA CoveringIs ==
  ASSUME NEW h, NEW o, NEW i
  PROVE  i \in Covering(h, o) <=>
           /\ i \in Chunks /\ Hash(i) = h /\ Start(i) <= o /\ o <= End(i)
           /\ \A k \in Chunks :
                Hash(k) = h /\ Start(k) <= o /\ o <= End(k) => i <= k
BY DEF Covering, First

\* A transfer stays in the chunk that was found for its first offset, although
\* the end of a chunk counts as contained in it.
LEMMA CoveringStays ==
  ASSUME NEW h, NEW o \in Nat, NEW i \in Covering(h, o), NEW n \in Nat, o + n < End(i)
  PROVE  i \in Covering(h, o + n)
<1>1. /\ i \in Chunks /\ Hash(i) = h /\ Start(i) <= o /\ o <= End(i)
      /\ \A k \in Chunks : Hash(k) = h /\ Start(k) <= o /\ o <= End(k) => i <= k
  BY CoveringIs
<1>2. Start(i) \in Nat /\ End(i) \in Nat
  BY <1>1, ChunkBounds
<1>3. ASSUME NEW k \in Chunks, Hash(k) = h, Start(k) <= o + n, o + n <= End(k), ~(i <= k)
      PROVE  FALSE
  <2>1. k < i /\ Start(k) \in Nat /\ End(k) \in Nat
    BY <1>1, <1>3, ChunkBounds DEF Chunks
  <2>2. End(k) <= Start(i)
    BY <1>1, <2>1, ChunksApart
  <2>3. Start(k) <= End(k)
    BY ChunkBounds, SizeAssumption
  <2> QED  BY <1>1, <1>2, <1>3, <2>1, <2>2, <2>3
<1> QED  BY <1>1, <1>2, <1>3, CoveringIs

\* The first chunk of a hash is also the one found at its start.
LEMMA NamedCovers ==
  ASSUME NEW h, NEW i \in Named(h)
  PROVE  i \in Chunks /\ Hash(i) = h /\ i \in Covering(h, Start(i))
<1>1. i \in Chunks /\ Hash(i) = h /\ \A k \in Chunks : Hash(k) = h => i <= k
  BY DEF Named, First
<1>2. Start(i) <= End(i) /\ Start(i) <= Start(i)
  BY <1>1, ChunkBounds, SizeAssumption
<1> QED  BY <1>1, <1>2, CoveringIs

\* The hash of every content of the right type is a hash.
LEMMA HashTyped ==
  ASSUME NEW i \in Chunks, NEW content \in [Units -> Content]
  PROVE  HashOf(content, i) \in Hashes
BY UnitsInFile DEF HashOf, Hashes

LEMMA WantHashTyped == \A i \in Chunks : Hash(i) \in Hashes /\ NotComputed \in Hashes
BY UnitsInFile DEF Hash, HashOf, Hashes, Content, Values, NotComputed
-----------------------------------------------------------------------------
(* Types. TypeOK is not inductive: what is read from the file is in its     *)
(* range only because a request asks for a part of one chunk, and a file   *)
(* can be closed only because the handler that closes it has it open.      *)

\* From the offset on, the units that are asked for end with the chunk.
Asked(h, o, n) == \E i \in Covering(h, o) : o + n = End(i)

Sound ==
  {m \in Packet : /\ m.type = "REQ" => Asked(m.hash, m.offset, m.len)
                  /\ m.type = "RES" => Accepts(m)}

Reading == {"read", "send"}
Asking == {"hash", "open", "read", "send"}

FitsChunk(t) ==
  /\ t.pc \in Asking => Asked(t.hash, t.offset, t.left)
  /\ t.pc \in Reading => t.left > 0
  /\ t.pc = "send" => DOMAIN t.data = 0 .. Smaller(t.left, DataMax) - 1 /\ t.data \in Block

ServesFrom(p) == {l \in Links : l[1] = p /\ handler[l].pc \in Reading}

FileTyped == file \in [Procs -> [Units -> Content]]
HashTypes == computed \in [Procs -> [Chunks -> Hashes]]
ChanTyped == chan \in [Links -> Seq(Sound)]
HandlerTyped == handler \in [Links -> Handler] /\ \A l \in Links : FitsChunk(handler[l])
OpenTyped ==
  /\ open_files \in [Procs -> 0 .. FileMax]
  /\ \A p \in Procs : Cardinality(ServesFrom(p)) <= open_files[p]

TypeInv ==
  FileTyped /\ HashTypes /\ ChanTyped /\ HandlerTyped /\ OpenTyped /\ crashed \subseteq Procs

LEMMA TypeInvTypes == TypeInv => TypeOK
<1> SUFFICES ASSUME TypeInv PROVE TypeOK
  OBVIOUS
<1>1. ASSUME NEW s \in Seq(Sound)
      PROVE  s \in Seq(Packet)
  <2>1. s \in [1 .. Len(s) -> Packet] /\ Len(s) \in Nat
    BY DEF Sound
  <2> QED  BY <2>1
<1>2. chan \in [Links -> Seq(Packet)]
  BY <1>1 DEF TypeInv, ChanTyped
<1> QED  BY <1>2 DEF TypeInv, TypeOK, FileTyped, HashTypes, HandlerTyped, OpenTyped

LEMMA LinkFacts ==
  /\ \A l \in Links : Back(l) \in Links /\ l[1] \in Procs /\ l[2] \in Procs /\ Back(l)[1] = l[2]
                      /\ Back(l)[2] = l[1] /\ l[1] # l[2]
  /\ IsFiniteSet(Links)
<1>1. \A l \in Links : Back(l) \in Links /\ l[1] \in Procs /\ l[2] \in Procs /\ Back(l)[1] = l[2]
                       /\ Back(l)[2] = l[1] /\ l[1] # l[2]
  BY DEF Links, Back
<1>2. IsFiniteSet(Procs \X Procs) /\ Links \subseteq Procs \X Procs
  BY ProcsAssumption, FS_Product DEF Links
<1> QED  BY <1>1, <1>2, FS_Subset

\* What may happen to the packets of a link in one step: nothing, one is taken,
\* all are lost, or one is sent.
Passes(l, S) ==
  \/ chan'[l] = chan[l] \/ chan'[l] = <<>>
  \/ chan[l] # <<>> /\ chan'[l] = Tail(chan[l])
  \/ \E m \in S : chan'[l] = Append(chan[l], m)

LEMMA PassesKeeps ==
  ASSUME NEW S, NEW l, chan[l] \in Seq(S), Passes(l, S)
  PROVE  chan'[l] \in Seq(S)
<1>1. \A s \in Seq(S), m \in S : Append(s, m) \in Seq(S)
  OBVIOUS
<1>2. \A s \in Seq(S) : s # <<>> => Tail(s) \in Seq(S)
  OBVIOUS
<1>3. <<>> \in Seq(S)
  OBVIOUS
<1> QED  BY <1>1, <1>2, <1>3 DEF Passes

LEMMA HeadIn ==
  ASSUME NEW S, NEW s \in Seq(S), s # <<>>
  PROVE  Head(s) \in S
OBVIOUS

\* The initial values have their types.
LEMMA TypeInit == Init => TypeInv
<1> SUFFICES ASSUME Init PROVE TypeInv
  OBVIOUS
<1> USE DEF Init
<1>1. FileTyped
  BY DEF FileTyped, Content, Values
<1>2. HashTypes
  BY WantHashTyped DEF HashTypes
<1>3. ChanTyped
  BY DEF ChanTyped
<1>4. Receiving \in Handler /\ FitsChunk(Receiving)
  BY SizeAssumption DEF Receiving, Handler, FitsChunk, Asking, Reading, Lengths, NotComputed,
     Hashes, Content
<1>5. HandlerTyped
  BY <1>4 DEF HandlerTyped
<1>6. \A p \in Procs : ServesFrom(p) = {}
  BY DEF ServesFrom, Receiving, Reading
<1>7. OpenTyped
  <2>1. Cardinality({}) = 0
    BY FS_EmptySet
  <2>2. open_files \in [Procs -> 0 .. FileMax] /\ \A p \in Procs : open_files[p] = 0
    BY SizeAssumption
  <2>3. \A p \in Procs : Cardinality(ServesFrom(p)) = 0
    BY <1>6, <2>1
  <2> QED  BY <2>2, <2>3 DEF OpenTyped
<1> QED  BY <1>1, <1>2, <1>3, <1>5, <1>7 DEF TypeInv

\* One handler thread goes on.
LEMMA HandlerSet ==
  ASSUME HandlerTyped, NEW l \in Links, NEW t \in Handler, FitsChunk(t),
         handler' = [handler EXCEPT ![l] = t]
  PROVE  HandlerTyped'
BY DEF HandlerTyped, FitsChunk

\* The packets on the links keep to Sound.
LEMMA ChanKept ==
  ASSUME ChanTyped, \A l \in Links : Passes(l, Sound), chan' = [l \in Links |-> chan'[l]]
  PROVE  ChanTyped'
BY PassesKeeps DEF ChanTyped

LEMMA TakeKeeps ==
  ASSUME NEW l \in Links, ChanTyped, Take(l), chan[Back(l)] # <<>>
  PROVE  ChanTyped'
<1>1. /\ chan' = [chan EXCEPT ![Back(l)] = Tail(chan[Back(l)])] /\ Back(l) \in Links
      /\ DOMAIN chan = Links
  BY LinkFacts DEF Take, ChanTyped
<1>2. \A k \in Links : Passes(k, Sound)
  BY <1>1 DEF Passes
<1> QED  BY <1>1, <1>2, ChanKept

LEMMA SendKeeps ==
  ASSUME NEW l \in Links, ChanTyped, NEW m \in Sound, SendOn(l, m)
  PROVE  ChanTyped'
<1>1. chan' = [chan EXCEPT ![l] = Append(chan[l], m)] /\ DOMAIN chan = Links
  BY DEF SendOn, ChanTyped
<1>2. \A k \in Links : Passes(k, Sound)
  BY <1>1 DEF Passes
<1> QED  BY <1>1, <1>2, ChanKept

\* What a handler takes from its connection is sound.
LEMMA ReceivedSound ==
  ASSUME NEW l \in Links, ChanTyped, chan[Back(l)] # <<>>
  PROVE  Received(l) \in Sound
BY LinkFacts, HeadIn DEF ChanTyped, Received

\* The files that are open, when no handler begins to read.
LEMMA OpenKept ==
  ASSUME OpenTyped, open_files' \in [Procs -> 0 .. FileMax],
         \A p \in Procs : open_files[p] <= open_files'[p],
         \A p \in Procs : ServesFrom(p)' \subseteq ServesFrom(p)
  PROVE  OpenTyped'
<1>1. ASSUME NEW p \in Procs
      PROVE  Cardinality(ServesFrom(p)') <= open_files'[p]
  <2>1. IsFiniteSet(ServesFrom(p))
    BY LinkFacts, FS_Subset DEF ServesFrom
  <2>2. /\ IsFiniteSet(ServesFrom(p)') /\ Cardinality(ServesFrom(p)) \in Nat
        /\ Cardinality(ServesFrom(p)') \in Nat
        /\ Cardinality(ServesFrom(p)') <= Cardinality(ServesFrom(p))
    BY <1>1, <2>1, FS_Subset, FS_CardinalityType
  <2>3. open_files[p] \in Int /\ open_files'[p] \in Int /\ open_files[p] <= open_files'[p]
        /\ Cardinality(ServesFrom(p)) <= open_files[p]
    BY <1>1, SizeAssumption DEF OpenTyped
  <2> QED  BY <2>2, <2>3
<1> QED  BY <1>1 DEF OpenTyped

\* The same when the thread of l goes on and still reads only if it did.
LEMMA OpenSame ==
  ASSUME OpenTyped, HandlerTyped, NEW l \in Links, NEW t, UNCHANGED open_files,
         handler' = [handler EXCEPT ![l] = t],
         t.pc \in Reading => handler[l].pc \in Reading
  PROVE  OpenTyped'
<1>1. \A p \in Procs : ServesFrom(p)' \subseteq ServesFrom(p)
  BY DEF ServesFrom, HandlerTyped
<1>2. \A p \in Procs : open_files[p] \in Int /\ open_files[p] <= open_files'[p]
  BY SizeAssumption DEF OpenTyped
<1> QED  BY <1>1, <1>2, OpenKept DEF OpenTyped

\* The handler records that a step may lead to.
LEMMA ReceivingFits == Receiving \in Handler /\ FitsChunk(Receiving) /\ Receiving.pc \notin Reading
BY SizeAssumption DEF Receiving, Handler, FitsChunk, Asking, Reading, Lengths, NotComputed,
   Hashes, Content

LEMMA PcOnly ==
  ASSUME NEW t \in Handler, FitsChunk(t), NEW pc \in {"open", "fail", "lost", "reread"},
         pc = "open" => t.pc \in Asking
  PROVE  /\ [t EXCEPT !.pc = pc] \in Handler /\ FitsChunk([t EXCEPT !.pc = pc])
         /\ [t EXCEPT !.pc = pc].pc = pc
BY DEF Handler, FitsChunk, Asking, Reading

LEMMA HandlerFacts ==
  ASSUME HandlerTyped, NEW l \in Links
  PROVE  /\ handler[l] \in Handler /\ FitsChunk(handler[l]) /\ DOMAIN handler = Links
         /\ handler[l].offset \in Nat /\ handler[l].left \in Nat /\ handler[l].left <= ChunkSize
BY SizeAssumption DEF HandlerTyped, Handler, Lengths

\* FETCH asks for a part of one chunk.
LEMMA FetchSends ==
  ASSUME NEW l \in Links, Fetch(l)
  PROVE  \E m \in Sound : m.type = "REQ" /\ SendOn(l, m)
<1> USE SizeAssumption
<1>1. ASSUME NEW i \in Chunks, NEW o \in Nat, i \in Covering(Hash(i), o), Request(l, i, o)
      PROVE  \E m \in Sound : m.type = "REQ" /\ SendOn(l, m)
  <2> DEFINE m == [type |-> "REQ", hash |-> Hash(i), offset |-> o, len |-> End(i) - o]
  <2>1. Start(i) <= o /\ o <= End(i) /\ End(i) = Start(i) + ChunkSize /\ Start(i) \in Nat
    BY <1>1, CoveringIs, ChunkBounds
  <2>2. End(i) - o \in Lengths /\ o + (End(i) - o) = End(i)
    BY <2>1 DEF Lengths
  <2>3. m \in Packet
    BY <2>2, WantHashTyped DEF Packet
  <2>4. Asked(m.hash, m.offset, m.len)
    BY <1>1, <2>2 DEF Asked
  <2>5. m \in Sound
    BY <2>3, <2>4 DEF Sound
  <2> QED  BY <1>1, <2>5 DEF Request
<1>2. CASE \E h \in {Hash(i) : i \in Chunks} : \E i \in Named(h) : Request(l, i, Start(i))
  BY <1>1, <1>2, NamedCovers, ChunkBounds
<1>3. CASE \E h \in {Hash(i) : i \in Chunks}, offset \in 0 .. NChunks * ChunkSize :
             \E i \in Covering(h, offset) : Request(l, i, offset)
  <2>1. PICK h \in {Hash(i) : i \in Chunks}, offset \in 0 .. NChunks * ChunkSize :
          \E i \in Covering(h, offset) : Request(l, i, offset)
    BY <1>3
  <2>2. PICK i \in Covering(h, offset) : Request(l, i, offset)
    BY <2>1
  <2>3. i \in Chunks /\ Hash(i) = h /\ offset \in Nat
    BY CoveringIs
  <2> QED  BY <1>1, <2>2, <2>3
<1> QED  BY <1>2, <1>3 DEF Fetch

LEMMA FetchTyped ==
  ASSUME TypeInv, NEW l \in Links, Fetch(l), UNCHANGED crashed
  PROVE  TypeInv'
<1>1. ChanTyped'
  BY FetchSends, SendKeeps DEF TypeInv
<1>2. UNCHANGED <<file, computed, handler, open_files, crashed>>
  BY DEF Fetch
<1> QED
  BY <1>1, <1>2 DEF TypeInv, FileTyped, HashTypes, HandlerTyped, OpenTyped, ServesFrom

LEMMA RecvReqTyped ==
  ASSUME TypeInv, NEW l \in Links, RecvReq(l), UNCHANGED crashed
  PROVE  TypeInv'
<1>1. /\ chan[Back(l)] # <<>> /\ Received(l).type = "REQ" /\ Take(l) /\ handler[l].pc = "recv"
      /\ UNCHANGED <<file, computed, open_files, crashed>>
  BY DEF RecvReq, Arrived, Received
<1>2. ChanTyped'
  BY <1>1, TakeKeeps DEF TypeInv
<1>3. PICK t \in Handler : /\ FitsChunk(t) /\ t.pc \notin Reading
                           /\ handler' = [handler EXCEPT ![l] = t]
  <2> DEFINE m == Received(l)
             u == [Receiving EXCEPT !.pc = "hash", !.hash = m.hash, !.offset = m.offset, !.left = m.len]
             f == [handler[l] EXCEPT !.pc = "fail"]
  <2>1. m \in Sound /\ m.type = "REQ"
    BY <1>1, ReceivedSound DEF TypeInv
  <2>2. m.hash \in Hashes /\ m.offset \in Nat /\ m.len \in Lengths /\ Asked(m.hash, m.offset, m.len)
    BY <2>1 DEF Sound, Packet
  <2>3. u \in Handler /\ FitsChunk(u) /\ u.pc \notin Reading
    BY <2>2, ReceivingFits DEF Handler, FitsChunk, Receiving, Asking, Reading
  <2>4. f \in Handler /\ FitsChunk(f) /\ f.pc \notin Reading
    BY HandlerFacts, PcOnly DEF TypeInv, Reading
  <2>5. handler' = [handler EXCEPT ![l] = u] \/ handler' = [handler EXCEPT ![l] = f]
    BY HandlerFacts DEF RecvReq, TypeInv
  <2> QED  BY <2>3, <2>4, <2>5
<1>4. HandlerTyped' /\ OpenTyped'
  BY <1>1, <1>3, HandlerSet, OpenSame DEF TypeInv
<1> QED  BY <1>1, <1>2, <1>4 DEF TypeInv, FileTyped, HashTypes

LEMMA ComputeHashTyped ==
  ASSUME TypeInv, NEW l \in Links, ComputeHash(l), UNCHANGED crashed
  PROVE  TypeInv'
<1> DEFINE i == handler[l].next
<1>1. /\ handler[l].pc = "hash" /\ UNCHANGED <<file, chan, open_files, crashed>>
      /\ \/ /\ i \in Chunks
            /\ computed' = [computed EXCEPT ![l[1]][i] = HashOf(file[l[1]], i)]
            /\ handler' = [handler EXCEPT ![l].next = i + 1]
         \/ handler' = [handler EXCEPT ![l].pc = "open"] /\ UNCHANGED computed
  BY DEF ComputeHash
<1>2. HashTypes'
  <2>1. i \in Chunks => HashOf(file[l[1]], i) \in Hashes
    BY HashTyped, LinkFacts DEF TypeInv, FileTyped
  <2> QED  BY <1>1, <2>1, LinkFacts DEF TypeInv, HashTypes
<1>3. PICK t \in Handler : /\ FitsChunk(t) /\ t.pc \notin Reading
                           /\ handler' = [handler EXCEPT ![l] = t]
  <2> DEFINE u == [handler[l] EXCEPT !.next = i + 1]
             o == [handler[l] EXCEPT !.pc = "open"]
  <2>1. i \in Chunks => u \in Handler /\ FitsChunk(u) /\ u.pc \notin Reading
    <3>1. i \in Chunks => i + 1 \in 0 .. NChunks
      BY SizeAssumption DEF Chunks
    <3>2. handler[l] \in Handler /\ FitsChunk(handler[l]) /\ handler[l].pc = "hash"
      BY <1>1, HandlerFacts DEF TypeInv
    <3>3. i \in Chunks => u \in Handler /\ u.pc = "hash"
      BY <3>1, <3>2 DEF Handler
    <3>4. u.hash = handler[l].hash /\ u.offset = handler[l].offset /\ u.left = handler[l].left
      BY <3>2 DEF Handler
    <3> QED  BY <3>2, <3>3, <3>4 DEF FitsChunk, Reading, Asking
  <2>2. o \in Handler /\ FitsChunk(o) /\ o.pc \notin Reading
    BY <1>1, HandlerFacts, PcOnly DEF TypeInv, Reading, Asking
  <2>3. (i \in Chunks /\ handler' = [handler EXCEPT ![l] = u]) \/ handler' = [handler EXCEPT ![l] = o]
    BY <1>1, HandlerFacts DEF TypeInv
  <2> QED  BY <2>1, <2>2, <2>3
<1>4. HandlerTyped' /\ OpenTyped'
  BY <1>1, <1>3, HandlerSet, OpenSame DEF TypeInv
<1> QED  BY <1>1, <1>2, <1>4 DEF TypeInv, FileTyped, ChanTyped

LEMMA OpenFileTyped ==
  ASSUME TypeInv, NEW l \in Links, OpenFile(l), UNCHANGED crashed
  PROVE  TypeInv'
<1> DEFINE p == l[1]
<1>1. handler[l].pc = "open" /\ UNCHANGED <<file, computed, chan, crashed>> /\ p \in Procs
  BY LinkFacts DEF OpenFile
<1>2. CASE /\ open_files[p] < FileMax /\ open_files' = [open_files EXCEPT ![p] = @ + 1]
           /\ handler' = [handler EXCEPT ![l] =
                IF handler[l].left = 0 THEN Receiving ELSE [@ EXCEPT !.pc = "read"]]
  <2>1. PICK t \in Handler : FitsChunk(t) /\ handler' = [handler EXCEPT ![l] = t]
    <3> DEFINE r == [handler[l] EXCEPT !.pc = "read"]
    <3>1. handler[l].left # 0 => r \in Handler /\ FitsChunk(r)
      BY <1>1, HandlerFacts DEF TypeInv, Handler, FitsChunk, Reading, Asking
    <3> QED  BY <1>2, <3>1, ReceivingFits, HandlerFacts DEF TypeInv
  <2>2. HandlerTyped'
    BY <2>1, HandlerSet DEF TypeInv
  <2>3. open_files' \in [Procs -> 0 .. FileMax]
    BY <1>1, <1>2, SizeAssumption DEF TypeInv, OpenTyped
  <2>4. ASSUME NEW q \in Procs
        PROVE  Cardinality(ServesFrom(q)') <= open_files'[q]
    <3>1. IsFiniteSet(ServesFrom(q))
      BY LinkFacts, FS_Subset DEF ServesFrom
    <3>2. ServesFrom(q)' \subseteq ServesFrom(q) \cup (IF q = p THEN {l} ELSE {})
      BY <2>1 DEF ServesFrom, TypeInv, HandlerTyped
    <3>3. /\ IsFiniteSet(ServesFrom(q) \cup {l})
          /\ Cardinality(ServesFrom(q) \cup {l}) <= Cardinality(ServesFrom(q)) + 1
          /\ Cardinality(ServesFrom(q)) \in Nat
      <4> DEFINE S == ServesFrom(q)
      <4> HIDE DEF S
      <4>1. IsFiniteSet(S) /\ Cardinality(S) \in Nat
        BY <3>1, FS_CardinalityType DEF S
      <4>2. /\ IsFiniteSet(S \cup {l})
            /\ Cardinality(S \cup {l}) = IF l \in S THEN Cardinality(S) ELSE Cardinality(S) + 1
        BY <4>1, FS_AddElement
      <4> QED  BY <4>1, <4>2 DEF S
    <3>4. /\ Cardinality(ServesFrom(q)) <= open_files[q] /\ open_files[q] \in Int
          /\ open_files'[q] = IF q = p THEN open_files[q] + 1 ELSE open_files[q]
      BY <1>2, SizeAssumption DEF TypeInv, OpenTyped
    <3>5. CASE q = p
      <4>1. ServesFrom(q)' \subseteq ServesFrom(q) \cup {l}
        BY <3>2, <3>5
      <4>2. Cardinality(ServesFrom(q)') <= Cardinality(ServesFrom(q) \cup {l})
        BY <3>3, <4>1, FS_Subset
      <4>3. Cardinality(ServesFrom(q)') \in Nat /\ Cardinality(ServesFrom(q) \cup {l}) \in Nat
        BY <3>3, <4>1, FS_Subset, FS_CardinalityType
      <4> QED  BY <3>3, <3>4, <3>5, <4>2, <4>3
    <3>6. CASE q # p
      <4>1. ServesFrom(q)' \subseteq ServesFrom(q)
        BY <3>2, <3>6
      <4>2. /\ Cardinality(ServesFrom(q)') <= Cardinality(ServesFrom(q))
            /\ Cardinality(ServesFrom(q)') \in Nat
        BY <3>1, <4>1, FS_Subset, FS_CardinalityType
      <4> QED  BY <3>3, <3>4, <3>6, <4>2
    <3> QED  BY <3>5, <3>6
  <2>5. OpenTyped'
    BY <2>3, <2>4 DEF OpenTyped
  <2> QED  BY <1>1, <2>2, <2>5 DEF TypeInv, FileTyped, HashTypes, ChanTyped
<1>3. CASE UNCHANGED open_files /\ handler' = [handler EXCEPT ![l].pc = "fail"]
  <2> DEFINE f == [handler[l] EXCEPT !.pc = "fail"]
  <2>1. f \in Handler /\ FitsChunk(f) /\ f.pc \notin Reading
    BY HandlerFacts, PcOnly DEF TypeInv, Reading
  <2>2. handler' = [handler EXCEPT ![l] = f]
    BY <1>3, HandlerFacts DEF TypeInv
  <2> HIDE DEF f
  <2>3. HandlerTyped' /\ OpenTyped'
    BY <1>3, <2>1, <2>2, HandlerSet, OpenSame DEF TypeInv
  <2> QED  BY <1>1, <2>3 DEF TypeInv, FileTyped, HashTypes, ChanTyped
<1> QED  BY <1>2, <1>3 DEF OpenFile

\* The units of a packet lie in the chunk that was asked for, so in the file.
LEMMA AskedUnits ==
  ASSUME NEW h, NEW o \in Nat, NEW n \in Nat, Asked(h, o, n), NEW u \in Nat, u < n
  PROVE  o + u \in Units /\ \E i \in Covering(h, o) : o + u \in UnitsOf(i) /\ o + u < End(i)
<1>1. PICK i \in Covering(h, o) : o + n = End(i)
  BY DEF Asked
<1>2. i \in Chunks /\ Start(i) <= o
  BY CoveringIs
<1>3. Start(i) \in Nat /\ End(i) \in Nat
  BY <1>2, ChunkBounds
<1>4. o + u \in UnitsOf(i) /\ o + u < End(i)
  BY <1>1, <1>2, <1>3 DEF UnitsOf
<1> QED  BY <1>2, <1>4, UnitsInFile

LEMMA SmallerIs ==
  \A m \in Nat, n \in Nat \ {0} :
    /\ Smaller(m, n) \in 0 .. n /\ Smaller(m, n) \in Nat /\ Smaller(m, n) <= m
    /\ m > 0 => Smaller(m, n) > 0
BY DEF Smaller

LEMMA ReadFileTyped ==
  ASSUME TypeInv, NEW l \in Links, ReadFile(l), UNCHANGED crashed
  PROVE  TypeInv'
<1> DEFINE t == handler[l]
           n == Smaller(t.left, DataMax)
           d == [u \in 0 .. n - 1 |-> file[l[1]][t.offset + u]]
           r == [t EXCEPT !.pc = "send", !.data = d]
<1>1. /\ t.pc = "read" /\ handler' = [handler EXCEPT ![l] = r]
      /\ UNCHANGED <<file, computed, chan, open_files, crashed>>
  BY HandlerFacts DEF ReadFile, TypeInv
<1>2. t \in Handler /\ FitsChunk(t) /\ t.offset \in Nat /\ t.left \in Nat /\ t.left > 0
      /\ Asked(t.hash, t.offset, t.left)
  BY <1>1, HandlerFacts DEF TypeInv, FitsChunk, Reading, Asking
<1>3. n \in 1 .. DataMax /\ n <= t.left
  BY <1>2, SmallerIs, SizeAssumption
<1>4. ASSUME NEW u \in 0 .. n - 1
      PROVE  t.offset + u \in Units
  <2>1. u \in Nat /\ u < t.left
    BY <1>2, <1>3
  <2> QED  BY <1>2, <2>1, AskedUnits
<1>5. d \in [0 .. n - 1 -> Content]
  BY <1>4, LinkFacts DEF TypeInv, FileTyped
<1>6. d \in Block /\ DOMAIN d = 0 .. n - 1
  BY <1>3, <1>5 DEF Block
<1>7. r \in Handler /\ r.pc = "send" /\ r.data = d /\ r.hash = t.hash /\ r.offset = t.offset
      /\ r.left = t.left
  <2> HIDE DEF d
  <2> QED  BY <1>2, <1>6 DEF Handler
<1>8. FitsChunk(r)
  BY <1>2, <1>6, <1>7 DEF FitsChunk
<1>9. HandlerTyped' /\ OpenTyped'
  <2> HIDE DEF r
  <2> QED  BY <1>1, <1>7, <1>8, HandlerSet, OpenSame DEF TypeInv, Reading
<1> QED  BY <1>1, <1>9 DEF TypeInv, FileTyped, HashTypes, ChanTyped

LEMMA ReadFailsTyped ==
  ASSUME TypeInv, NEW l \in Links, ReadFails(l), UNCHANGED crashed
  PROVE  TypeInv'
<1> DEFINE f == [handler[l] EXCEPT !.pc = "lost"]
           p == l[1]
<1>1. /\ handler[l].pc = "read" /\ handler' = [handler EXCEPT ![l] = f] /\ p \in Procs
      /\ open_files' = [open_files EXCEPT ![p] = @ - 1]
      /\ UNCHANGED <<file, computed, chan, crashed>>
  BY HandlerFacts, LinkFacts DEF ReadFails, TypeInv
<1>2. f \in Handler /\ FitsChunk(f) /\ f.pc = "lost"
  BY HandlerFacts, PcOnly DEF TypeInv
<1> HIDE DEF f
<1>3. HandlerTyped'
  BY <1>1, <1>2, HandlerSet DEF TypeInv
<1>4. ASSUME NEW q \in Procs
      PROVE  open_files'[q] \in 0 .. FileMax /\ Cardinality(ServesFrom(q)') <= open_files'[q]
  <2> DEFINE S == ServesFrom(q)
             T == ServesFrom(q)'
  <2>1. l \in ServesFrom(p) /\ T = S \ {l}
    BY <1>1, <1>2 DEF ServesFrom, Reading, TypeInv, HandlerTyped
  <2>2. IsFiniteSet(S)
    BY LinkFacts, FS_Subset DEF ServesFrom
  <2>3. q = p => l \in S
    BY <2>1
  <2>4. /\ Cardinality(S) <= open_files[q] /\ open_files[q] \in 0 .. FileMax
        /\ open_files'[q] = IF q = p THEN open_files[q] - 1 ELSE open_files[q]
    BY <1>1 DEF TypeInv, OpenTyped
  <2> HIDE DEF S, T
  <2>5. /\ Cardinality(S) \in Nat /\ IsFiniteSet(S \ {l})
        /\ Cardinality(S \ {l}) = IF l \in S THEN Cardinality(S) - 1 ELSE Cardinality(S)
    BY <2>2, FS_RemoveElement, FS_CardinalityType
  <2>6. Cardinality(S \ {l}) \in Nat
    BY <2>5, FS_CardinalityType
  <2>7. open_files'[q] \in 0 .. FileMax /\ Cardinality(T) <= open_files'[q]
    BY <2>1, <2>3, <2>4, <2>5, <2>6, SizeAssumption
  <2> QED  BY <2>7 DEF T
<1>5. OpenTyped'
  <2>1. open_files' \in [Procs -> 0 .. FileMax]
    BY <1>1, <1>4 DEF TypeInv, OpenTyped
  <2> QED  BY <1>4, <2>1 DEF OpenTyped
<1> QED  BY <1>1, <1>3, <1>5 DEF TypeInv, FileTyped, HashTypes, ChanTyped

\* What a handler sends lies in the chunk it was asked for.
LEMMA SendResSends ==
  ASSUME TypeInv, NEW l \in Links, SendRes(l)
  PROVE  [type |-> "RES", hash |-> handler[l].hash, offset |-> handler[l].offset,
          data |-> handler[l].data] \in Sound
<1> DEFINE t == handler[l]
           m == [type |-> "RES", hash |-> t.hash, offset |-> t.offset, data |-> t.data]
<1>1. /\ t \in Handler /\ FitsChunk(t) /\ t.pc = "send" /\ t.offset \in Nat /\ t.left \in Nat
  BY HandlerFacts DEF SendRes, TypeInv
<1>2. /\ Asked(t.hash, t.offset, t.left) /\ t.data \in Block
      /\ DOMAIN t.data = 0 .. Smaller(t.left, DataMax) - 1
  BY <1>1 DEF FitsChunk, Asking
<1>3. m \in Packet
  BY <1>1, <1>2 DEF Handler, Packet
<1>4. PICK i \in Covering(t.hash, t.offset) : t.offset + t.left = End(i)
  BY <1>2 DEF Asked
<1>5. End(i) \in Nat
  BY <1>4, CoveringIs, ChunkBounds
<1>6. \A u \in DOMAIN t.data : u \in Int /\ u < t.left
  <2>1. Smaller(t.left, DataMax) \in Nat /\ Smaller(t.left, DataMax) <= t.left
    BY <1>1, SmallerIs, SizeAssumption
  <2> QED  BY <1>1, <1>2, <2>1
<1>7. \A u \in DOMAIN t.data : t.offset + u < End(i)
  BY <1>1, <1>4, <1>5, <1>6
<1>8. Accepts(m)
  BY <1>4, <1>7 DEF Accepts
<1> QED  BY <1>3, <1>8 DEF Sound

LEMMA AdvancedFits ==
  ASSUME NEW t \in Handler, FitsChunk(t), t.pc = "send"
  PROVE  LET a == Advanced(t, Smaller(t.left, DataMax))
         IN a \in Handler /\ FitsChunk(a)
<1> DEFINE n == Smaller(t.left, DataMax)
           r == [t EXCEPT !.pc = "read", !.offset = t.offset + n, !.left = t.left - n, !.data = <<>>]
<1>1. /\ t.offset \in Nat /\ t.left \in Nat /\ t.left <= ChunkSize /\ t.left > 0
      /\ Asked(t.hash, t.offset, t.left)
  BY SizeAssumption DEF Handler, Lengths, FitsChunk, Asking, Reading
<1>2. n \in Nat /\ n <= t.left /\ n > 0
  BY <1>1, SmallerIs, SizeAssumption
<1> HIDE DEF n
<1>3. CASE t.left = n
  BY <1>3, ReceivingFits DEF Advanced, n
<1>4. CASE t.left # n
  <2>1. PICK i \in Covering(t.hash, t.offset) : t.offset + t.left = End(i)
    BY <1>1 DEF Asked
  <2>2. t.offset + n < End(i) /\ End(i) = (t.offset + n) + (t.left - n)
    BY <1>1, <1>2, <1>4, <2>1
  <2>3. Asked(t.hash, t.offset + n, t.left - n)
    BY <1>1, <1>2, <2>1, <2>2, CoveringStays DEF Asked
  <2>4. t.offset + n \in Nat /\ t.left - n \in Lengths /\ t.left - n > 0
    BY <1>1, <1>2, <1>4, SizeAssumption DEF Lengths
  <2>5. r \in Handler /\ r.pc = "read" /\ r.hash = t.hash /\ r.offset = t.offset + n
        /\ r.left = t.left - n
    BY <2>4 DEF Handler
  <2>6. FitsChunk(r)
    BY <2>3, <2>4, <2>5 DEF FitsChunk
  <2> QED  BY <1>4, <2>5, <2>6 DEF Advanced, n
<1> QED  BY <1>3, <1>4

LEMMA SendResTyped ==
  ASSUME TypeInv, NEW l \in Links, SendRes(l), UNCHANGED crashed
  PROVE  TypeInv'
<1> DEFINE t == Advanced(handler[l], Smaller(handler[l].left, DataMax))
<1>1. /\ handler[l].pc = "send" /\ handler' = [handler EXCEPT ![l] = t]
      /\ UNCHANGED <<file, computed, open_files, crashed>>
  BY DEF SendRes
<1>2. t \in Handler /\ FitsChunk(t)
  BY <1>1, HandlerFacts, AdvancedFits DEF TypeInv
<1> HIDE DEF t
<1>3. HandlerTyped' /\ OpenTyped'
  BY <1>1, <1>2, HandlerSet, OpenSame DEF TypeInv, Reading
<1>4. ChanTyped'
  BY SendResSends, SendKeeps DEF SendRes, TypeInv
<1> QED  BY <1>1, <1>3, <1>4 DEF TypeInv, FileTyped, HashTypes

LEMMA SendErrorTyped ==
  ASSUME TypeInv, NEW l \in Links, SendError(l), UNCHANGED crashed
  PROVE  TypeInv'
<1> DEFINE f == [handler[l] EXCEPT !.pc = "reread"]
<1>1. /\ handler' = [handler EXCEPT ![l] = Receiving] \/ handler' = [handler EXCEPT ![l] = f]
      /\ SendOn(l, [type |-> "ERR"]) /\ UNCHANGED <<file, computed, open_files, crashed>>
  BY HandlerFacts DEF SendError, TypeInv
<1>2. f \in Handler /\ FitsChunk(f) /\ f.pc \notin Reading
  BY HandlerFacts, PcOnly DEF TypeInv, Reading
<1> HIDE DEF f
<1>3. HandlerTyped' /\ OpenTyped'
  BY <1>1, <1>2, ReceivingFits, HandlerSet, OpenSame DEF TypeInv
<1>4. [type |-> "ERR"] \in Sound
  BY DEF Sound, Packet
<1>5. ChanTyped'
  BY <1>1, <1>4, SendKeeps DEF TypeInv
<1> QED  BY <1>1, <1>3, <1>5 DEF TypeInv, FileTyped, HashTypes

LEMMA RereadTyped ==
  ASSUME TypeInv, NEW l \in Links, Reread(l), UNCHANGED crashed
  PROVE  TypeInv'
<1> DEFINE f == [handler[l] EXCEPT !.pc = "lost"]
<1>1. handler' = [handler EXCEPT ![l] = f] /\ UNCHANGED <<file, computed, chan, open_files, crashed>>
  BY HandlerFacts DEF Reread, TypeInv
<1>2. f \in Handler /\ FitsChunk(f) /\ f.pc \notin Reading
  BY HandlerFacts, PcOnly DEF TypeInv, Reading
<1> HIDE DEF f
<1>3. HandlerTyped' /\ OpenTyped'
  BY <1>1, <1>2, HandlerSet, OpenSame DEF TypeInv
<1> QED  BY <1>1, <1>3 DEF TypeInv, FileTyped, HashTypes, ChanTyped

LEMMA RecvTyped ==
  ASSUME TypeInv, NEW l \in Links, RecvError(l) \/ RecvSplit(l), UNCHANGED crashed
  PROVE  TypeInv'
<1>1. chan[Back(l)] # <<>> /\ Take(l) /\ UNCHANGED <<file, computed, handler, open_files>>
  BY DEF RecvError, RecvSplit, Arrived
<1>2. ChanTyped'
  BY <1>1, TakeKeeps DEF TypeInv
<1> QED
  BY <1>1, <1>2 DEF TypeInv, FileTyped, HashTypes, HandlerTyped, OpenTyped, ServesFrom

LEMMA WrittenTyped ==
  ASSUME NEW content \in [Units -> Content], NEW m \in Packet, m.type = "RES"
  PROVE  Written(content, m) \in [Units -> Content]
<1>1. m.data \in Block
  BY DEF Packet
<1>2. \A u \in DOMAIN m.data : m.data[u] \in Content
  BY <1>1 DEF Block
<1> QED  BY <1>2 DEF Written

LEMMA RecvResTyped ==
  ASSUME TypeInv, NEW l \in Links, RecvRes(l), UNCHANGED crashed
  PROVE  TypeInv'
<1>1. /\ chan[Back(l)] # <<>> /\ Take(l) /\ UNCHANGED <<computed, handler, open_files>>
      /\ Received(l).type = "RES" /\ l[1] \in Procs
      /\ \/ UNCHANGED file
         \/ file' = [file EXCEPT ![l[1]] = Written(@, Received(l))]
  BY LinkFacts DEF RecvRes, Arrived, Received
<1>2. ChanTyped'
  BY <1>1, TakeKeeps DEF TypeInv
<1>3. Received(l) \in Packet
  BY <1>1, ReceivedSound DEF TypeInv, Sound
<1>4. FileTyped'
  BY <1>1, <1>3, WrittenTyped DEF TypeInv, FileTyped
<1> QED
  BY <1>1, <1>2, <1>4 DEF TypeInv, HashTypes, HandlerTyped, OpenTyped, ServesFrom

LEMMA RestartTyped ==
  ASSUME TypeInv, NEW p \in Procs, Restart(p)
  PROVE  TypeInv'
<1>1. /\ file' = [file EXCEPT ![p] = file[p]]
      /\ computed' = [computed EXCEPT ![p] = [i \in Chunks |-> NotComputed]]
      /\ chan' = [l \in Links |-> IF p \in {l[1], l[2]} THEN <<>> ELSE chan[l]]
      /\ handler' = [l \in Links |-> IF p \in {l[1], l[2]} THEN Receiving ELSE handler[l]]
      /\ open_files' = [open_files EXCEPT ![p] = 0]
  BY DEF Restart, FileFound
<1>2. FileTyped' /\ HashTypes'
  BY <1>1, WantHashTyped, SizeAssumption DEF TypeInv, FileTyped, HashTypes, NotComputed, Hashes, Content
<1>3. ChanTyped'
  <2>1. \A l \in Links : Passes(l, Sound)
    BY <1>1 DEF Passes
  <2>2. chan' = [l \in Links |-> chan'[l]]
    BY <1>1
  <2> QED  BY <2>1, <2>2, ChanKept DEF TypeInv
<1>4. HandlerTyped'
  BY <1>1, ReceivingFits DEF TypeInv, HandlerTyped, FitsChunk
<1>5. ASSUME NEW q \in Procs
      PROVE  open_files'[q] \in 0 .. FileMax /\ Cardinality(ServesFrom(q)') <= open_files'[q]
  <2>1. CASE q = p
    <3>1. ServesFrom(q)' = {}
      BY <1>1, <2>1, ReceivingFits DEF ServesFrom
    <3>2. Cardinality({}) = 0
      BY FS_EmptySet
    <3>3. open_files'[q] = 0
      BY <1>1, <2>1 DEF TypeInv, OpenTyped
    <3> QED  BY <3>1, <3>2, <3>3, SizeAssumption
  <2>2. CASE q # p
    <3> DEFINE S == ServesFrom(q)
               T == ServesFrom(q)'
    <3>1. T \subseteq S /\ IsFiniteSet(S)
      BY <1>1, ReceivingFits, LinkFacts, FS_Subset DEF ServesFrom
    <3>2. Cardinality(S) <= open_files[q] /\ open_files[q] \in 0 .. FileMax
          /\ open_files'[q] = open_files[q]
      BY <1>1, <2>2 DEF TypeInv, OpenTyped
    <3> HIDE DEF S, T
    <3>3. Cardinality(S) \in Nat /\ Cardinality(T) \in Nat /\ Cardinality(T) <= Cardinality(S)
      BY <3>1, FS_Subset, FS_CardinalityType
    <3>4. Cardinality(T) <= open_files'[q]
      BY <3>2, <3>3, SizeAssumption
    <3> QED  BY <3>2, <3>4 DEF T
  <2> QED  BY <2>1, <2>2
<1>6. OpenTyped'
  <2>1. open_files' \in [Procs -> 0 .. FileMax]
    BY <1>1, <1>5 DEF TypeInv, OpenTyped
  <2> QED  BY <1>5, <2>1 DEF OpenTyped
<1>7. crashed' \subseteq Procs
  BY DEF Restart, TypeInv
<1> QED  BY <1>2, <1>3, <1>4, <1>6, <1>7 DEF TypeInv

LEMMA CrashTyped ==
  ASSUME TypeInv, NEW l \in Links, CrashInReread(l)
  PROVE  TypeInv'
BY LinkFacts DEF CrashInReread, TypeInv, FileTyped, HashTypes, ChanTyped, HandlerTyped, OpenTyped,
   ServesFrom

LEMMA TypeNext == TypeInv /\ [Next]_vars => TypeInv'
<1> SUFFICES ASSUME TypeInv, [Next]_vars PROVE TypeInv'
  OBVIOUS
<1>1. ASSUME NEW l \in Links, Running(l, Fetch(l))
      PROVE  TypeInv'
  BY <1>1, FetchTyped DEF Running
<1>2. ASSUME NEW l \in Links, Running(l, HandlerStep(l))
      PROVE  TypeInv'
  BY <1>2, RecvReqTyped, ComputeHashTyped, OpenFileTyped, ReadFileTyped, ReadFailsTyped,
     SendResTyped, SendErrorTyped, RereadTyped, RecvResTyped, RecvTyped
     DEF Running, HandlerStep
<1>3. CASE UNCHANGED vars
  BY <1>3 DEF vars, TypeInv, FileTyped, HashTypes, ChanTyped, HandlerTyped, OpenTyped, ServesFrom
<1> QED  BY <1>1, <1>2, <1>3, CrashTyped, RestartTyped DEF Next

LEMMA TypeInvariant == Spec => []TypeInv
BY TypeInit, TypeNext, PTL DEF Spec

\* The variables keep their types: in particular no unit outside the file is
\* read, and no file is closed that is not open.
THEOREM TypeCorrect == Spec => []TypeOK
BY TypeInvariant, TypeInvTypes, PTL

\* A handler never sends data that its receiver has to turn down, with any
\* faults, and also if chunks have the same content.
THEOREM NoDataRefused == Spec => []NoneTurnedDown
<1>1. TypeInv => NoneTurnedDown
  <2> SUFFICES ASSUME TypeInv, NEW l \in Links, NEW k \in DOMAIN chan[l]
               PROVE  chan[l][k] \in Sound
    BY DEF NoneTurnedDown, Sound
  <2> QED  BY DEF TypeInv, ChanTyped
<1> QED  BY <1>1, TypeInvariant, PTL

-----------------------------------------------------------------------------
(* Data. A process sends parts of a chunk only as long as it has the whole  *)
(* chunk. Between the hashing of the chunk and the last packet the file     *)
(* may be written by other handlers, and no lock is held: the data is right *)
(* because nothing that was right is ever overwritten, which in turn holds *)
(* because only right data is on its way. If two chunks had the same       *)
(* content, one of them could be found by the hash and the other one read. *)

DistinctChunks == \A i, k \in Chunks : Hash(i) = Hash(k) => i = k

RightData(m) == \A u \in DOMAIN m.data : m.data[u] = Want[m.offset + u]
HeldBy(p, h, o) == \E i \in Covering(h, o) : Complete(p, i)

FileRight == \A p \in Procs, u \in Units : file[p][u] \in {Want[u], Zero}
HashRight == \A p \in Procs, i, k \in Chunks : computed[p][i] = Hash(k) => Complete(p, k)
Serves(l, t) ==
  /\ t.pc \in Reading => HeldBy(l[1], t.hash, t.offset)
  /\ t.pc = "send" => RightData(t)
HandlerRight == \A l \in Links : Serves(l, handler[l])
Right(l) ==
  {m \in Sound : m.type = "RES" => RightData(m) /\ HeldBy(l[1], m.hash, m.offset)}
ChanRight == \A l \in Links : chan[l] \in Seq(Right(l))

DataInv == FileRight /\ HashRight /\ HandlerRight /\ ChanRight

\* Nothing that is right is lost.
Grows == \A p \in Procs : Correct(p) \subseteq Correct(p)'

LEMMA HeldStays ==
  ASSUME Grows, NEW p \in Procs, NEW h, NEW o
  PROVE  HeldBy(p, h, o) => HeldBy(p, h, o)'
BY DEF HeldBy, Complete, Grows

LEMMA FileKept ==
  ASSUME UNCHANGED file
  PROVE  Grows /\ (FileRight => FileRight')
BY DEF Grows, Correct, FileRight

LEMMA HashKept ==
  ASSUME HashRight, Grows, UNCHANGED computed
  PROVE  HashRight'
BY DEF HashRight, Complete, Grows

LEMMA ServesStays ==
  ASSUME Grows, NEW l \in Links
  PROVE  \A t : Serves(l, t) => Serves(l, t)'
BY HeldStays, LinkFacts DEF Serves, RightData

\* One thread goes on, or none; what it has to say is shown for that one alone.
LEMMA HandlerKept ==
  ASSUME HandlerRight, Grows, UNCHANGED handler
  PROVE  HandlerRight'
BY ServesStays DEF HandlerRight

LEMMA ThreadRight ==
  ASSUME HandlerTyped, HandlerRight, Grows, NEW l \in Links, NEW t, Serves(l, t),
         handler' = [handler EXCEPT ![l] = t]
  PROVE  HandlerRight'
<1>1. \A k \in Links : handler'[k] = IF k = l THEN t ELSE handler[k]
  BY DEF HandlerTyped
<1>2. \A k \in Links : \E u : handler'[k] = u /\ Serves(k, u)
  BY <1>1 DEF HandlerRight
<1> QED  BY <1>2, ServesStays DEF HandlerRight

LEMMA ChanStays ==
  ASSUME ChanRight, Grows, \A l \in Links : Passes(l, Right(l))
  PROVE  ChanRight'
<1>1. ASSUME NEW l \in Links
      PROVE  chan'[l] \in Seq(Right(l)')
  <2>1. chan'[l] \in Seq(Right(l))
    BY PassesKeeps DEF ChanRight
  <2>2. Right(l) \subseteq Right(l)'
    BY HeldStays, LinkFacts DEF Right, RightData
  <2>3. \A S, T : \A s \in Seq(S) : S \subseteq T => s \in Seq(T)
    <3> SUFFICES ASSUME NEW S, NEW T, NEW s \in Seq(S), S \subseteq T PROVE s \in Seq(T)
      OBVIOUS
    <3>1. Len(s) \in Nat /\ s \in [1 .. Len(s) -> T]
      OBVIOUS
    <3> QED  BY <3>1
  <2> QED  BY <2>1, <2>2, <2>3
<1> QED  BY <1>1 DEF ChanRight

LEMMA TakeRight ==
  ASSUME ChanTyped, ChanRight, Grows, NEW l \in Links, chan[Back(l)] # <<>>, Take(l)
  PROVE  ChanRight'
<1>1. \A k \in Links : Passes(k, Right(k))
  BY LinkFacts DEF Passes, Take, ChanTyped
<1> QED  BY <1>1, ChanStays

LEMMA SendRight ==
  ASSUME ChanTyped, ChanRight, Grows, NEW l \in Links, NEW m \in Right(l), SendOn(l, m)
  PROVE  ChanRight'
<1>1. \A k \in Links : Passes(k, Right(k))
  BY DEF Passes, SendOn, ChanTyped
<1> QED  BY <1>1, ChanStays

LEMMA ChanKeptRight ==
  ASSUME ChanRight, Grows, UNCHANGED chan
  PROVE  ChanRight'
<1>1. \A k \in Links : Passes(k, Right(k))
  BY DEF Passes
<1> QED  BY <1>1, ChanStays

\* The content of the packaged file has no unit that was never written, so the
\* hash of a chunk is computed only where the chunk is complete.
LEMMA HashMeansChunk ==
  ASSUME FileRight, DistinctChunks, NEW p \in Procs, NEW i \in Chunks, NEW k \in Chunks,
         HashOf(file[p], i) = Hash(k)
  PROVE  Complete(p, k)
<1>1. ASSUME NEW u \in 0 .. ChunkSize - 1
      PROVE  file[p][Start(i) + u] = Want[Start(i) + u]
  <2>1. Start(i) + u \in Units /\ Start(k) + u \in Units
    BY UnitsInFile
  <2>2. file[p][Start(i) + u] = HashOf(file[p], i)[u] /\ Want[Start(k) + u] = Hash(k)[u]
    BY DEF HashOf, Hash
  <2>3. Want[Start(k) + u] # Zero
    BY <2>1, FileAssumption DEF Values
  <2> QED  BY <2>1, <2>2, <2>3 DEF FileRight
<1>2. HashOf(file[p], i) = Hash(i)
  BY <1>1 DEF Hash, HashOf
<1>3. i = k
  BY <1>2 DEF DistinctChunks
<1>4. ASSUME NEW u \in UnitsOf(i)
      PROVE  file[p][u] = Want[u]
  <2>1. u - Start(i) \in 0 .. ChunkSize - 1
    BY UnitsInFile
  <2>2. Start(i) + (u - Start(i)) = u
    BY ChunkBounds DEF UnitsOf
  <2> QED  BY <1>1, <2>1, <2>2
<1> QED  BY <1>3, <1>4, UnitsInFile DEF Complete, Correct

\* The initial values: a file holds what is right or nothing, and nothing is sent.
LEMMA DataInit == Init => DataInv
<1> SUFFICES ASSUME Init PROVE DataInv
  OBVIOUS
<1> USE DEF Init
<1>1. FileRight
  BY DEF FileRight
<1>2. HashRight
  <2>1. ASSUME NEW k \in Chunks
        PROVE  NotComputed # Hash(k)
    <3>1. 0 \in 0 .. ChunkSize - 1 /\ Start(k) + 0 \in Units
      BY SizeAssumption, UnitsInFile
    <3>2. NotComputed[0] = Zero /\ Hash(k)[0] = Want[Start(k) + 0]
      BY <3>1 DEF NotComputed, Hash, HashOf
    <3>3. Hash(k)[0] \in Values
      BY <3>1, <3>2 DEF Values
    <3> QED  BY <3>2, <3>3, FileAssumption
  <2> QED  BY <2>1 DEF HashRight
<1>3. HandlerRight
  BY DEF HandlerRight, Serves, Receiving, Reading
<1>4. ChanRight
  BY DEF ChanRight
<1> QED  BY <1>1, <1>2, <1>3, <1>4 DEF DataInv

\* The steps that leave the file alone.
LEMMA FetchRight ==
  ASSUME TypeInv, DataInv, NEW l \in Links, Fetch(l)
  PROVE  DataInv'
<1>1. UNCHANGED <<file, computed, handler, open_files>>
  BY DEF Fetch
<1>2. Grows /\ FileRight'
  BY <1>1, FileKept DEF DataInv
<1>3. PICK m \in Sound : m.type = "REQ" /\ SendOn(l, m)
  BY FetchSends
<1>4. m \in Right(l)
  BY <1>3 DEF Right
<1>5. ChanRight'
  BY <1>2, <1>3, <1>4, SendRight DEF TypeInv, DataInv
<1> QED  BY <1>1, <1>2, <1>5, HashKept, HandlerKept DEF DataInv

LEMMA NotReading ==
  ASSUME NEW l, NEW t, t.pc \notin Reading
  PROVE  Serves(l, t)
BY DEF Serves, Reading

LEMMA RecvReqRight ==
  ASSUME TypeInv, DataInv, NEW l \in Links, RecvReq(l)
  PROVE  DataInv'
<1> DEFINE u == [Receiving EXCEPT !.pc = "hash", !.hash = Received(l).hash,
                  !.offset = Received(l).offset, !.left = Received(l).len]
           f == [handler[l] EXCEPT !.pc = "fail"]
<1>1. /\ chan[Back(l)] # <<>> /\ Take(l) /\ UNCHANGED <<file, computed, open_files>>
      /\ handler' = [handler EXCEPT ![l] = u] \/ handler' = [handler EXCEPT ![l] = f]
  BY HandlerFacts DEF RecvReq, Arrived, TypeInv
<1>2. u.pc \notin Reading /\ f.pc \notin Reading
  BY HandlerFacts DEF Receiving, Reading, TypeInv, Handler
<1> HIDE DEF u, f
<1>3. Grows /\ FileRight'
  BY <1>1, FileKept DEF DataInv
<1>4. HandlerRight'
  BY <1>1, <1>2, <1>3, NotReading, ThreadRight DEF DataInv, TypeInv
<1> QED  BY <1>1, <1>3, <1>4, TakeRight, HashKept DEF DataInv, TypeInv

LEMMA ComputeHashRight ==
  ASSUME TypeInv, DataInv, DistinctChunks, NEW l \in Links, ComputeHash(l)
  PROVE  DataInv'
<1> DEFINE i == handler[l].next
           u == [handler[l] EXCEPT !.next = i + 1]
           o == [handler[l] EXCEPT !.pc = "open"]
<1>1. /\ handler[l].pc = "hash" /\ UNCHANGED <<file, chan, open_files>>
      /\ \/ /\ i \in Chunks
            /\ computed' = [computed EXCEPT ![l[1]][i] = HashOf(file[l[1]], i)]
            /\ handler' = [handler EXCEPT ![l] = u]
         \/ handler' = [handler EXCEPT ![l] = o] /\ UNCHANGED computed
  BY HandlerFacts DEF ComputeHash, TypeInv
<1>2. u.pc \notin Reading /\ o.pc \notin Reading
  BY <1>1, HandlerFacts DEF Reading, TypeInv, Handler
<1> HIDE DEF u, o
<1>3. Grows /\ FileRight'
  BY <1>1, FileKept DEF DataInv
<1>4. HandlerRight'
  BY <1>1, <1>2, <1>3, NotReading, ThreadRight DEF DataInv, TypeInv
<1>5. HashRight'
  <2>1. ASSUME NEW p \in Procs, NEW j \in Chunks, NEW k \in Chunks, computed'[p][j] = Hash(k)
        PROVE  Complete(p, k)
    <3>1. computed'[p][j] = computed[p][j] \/ computed'[p][j] = HashOf(file[p], j)
      BY <1>1, LinkFacts DEF TypeInv, HashTypes
    <3>2. CASE computed'[p][j] = computed[p][j]
      BY <2>1, <3>2 DEF DataInv, HashRight
    <3>3. CASE computed'[p][j] = HashOf(file[p], j)
      BY <2>1, <3>3, HashMeansChunk DEF DataInv
    <3> QED  BY <3>1, <3>2, <3>3
  <2> QED  BY <1>3, <2>1 DEF HashRight, Complete, Grows
<1> QED  BY <1>1, <1>3, <1>4, <1>5, ChanKeptRight DEF DataInv

\* The file is opened only for a chunk that is complete.
LEMMA OpenFileRight ==
  ASSUME TypeInv, DataInv, NEW l \in Links, OpenFile(l)
  PROVE  DataInv'
<1> DEFINE r == [handler[l] EXCEPT !.pc = "read"]
           f == [handler[l] EXCEPT !.pc = "fail"]
           t == handler[l]
<1>1. /\ UNCHANGED <<file, computed, chan>> /\ l[1] \in Procs
      /\ \/ HasChunk(l[1], t.hash) /\ Covering(t.hash, t.offset) # {}
              /\ handler' = [handler EXCEPT ![l] = r]
         \/ handler' = [handler EXCEPT ![l] = Receiving]
         \/ handler' = [handler EXCEPT ![l] = f]
  BY HandlerFacts, LinkFacts DEF OpenFile, TypeInv
<1>2. r.pc = "read" /\ r.hash = t.hash /\ r.offset = t.offset /\ f.pc \notin Reading
  BY HandlerFacts DEF Reading, TypeInv, Handler
<1> HIDE DEF r, f
<1>3. Grows /\ FileRight'
  BY <1>1, FileKept DEF DataInv
<1>4. HasChunk(l[1], t.hash) /\ Covering(t.hash, t.offset) # {} => Serves(l, r)
  <2> SUFFICES ASSUME HasChunk(l[1], t.hash), Covering(t.hash, t.offset) # {} PROVE Serves(l, r)
    OBVIOUS
  <2>1. PICK k \in Covering(t.hash, t.offset) : k \in Chunks /\ Hash(k) = t.hash
    BY CoveringIs
  <2>2. PICK i \in Chunks : computed[l[1]][i] = Hash(k)
    BY <2>1 DEF HasChunk
  <2>3. Complete(l[1], k)
    BY <1>1, <2>1, <2>2 DEF DataInv, HashRight
  <2> QED  BY <1>2, <2>1, <2>3 DEF Serves, HeldBy
<1>5. HandlerRight'
  BY <1>1, <1>2, <1>3, <1>4, NotReading, ReceivingFits, ThreadRight DEF DataInv, TypeInv
<1> QED  BY <1>1, <1>3, <1>5, HashKept, ChanKeptRight DEF DataInv

\* What is read lies in the chunk that was found, which is complete.
LEMMA ReadFileRight ==
  ASSUME TypeInv, DataInv, NEW l \in Links, ReadFile(l)
  PROVE  DataInv'
<1> DEFINE t == handler[l]
           n == Smaller(t.left, DataMax)
           d == [u \in 0 .. n - 1 |-> file[l[1]][t.offset + u]]
           r == [t EXCEPT !.pc = "send", !.data = d]
<1>1. /\ t.pc = "read" /\ handler' = [handler EXCEPT ![l] = r]
      /\ UNCHANGED <<file, computed, chan, open_files>> /\ l[1] \in Procs
  BY HandlerFacts, LinkFacts DEF ReadFile, TypeInv
<1>2. t \in Handler /\ FitsChunk(t) /\ t.offset \in Nat /\ t.left \in Nat /\ t.left > 0
      /\ Asked(t.hash, t.offset, t.left)
  BY <1>1, HandlerFacts DEF TypeInv, FitsChunk, Reading, Asking
<1>3. n \in Nat /\ n <= t.left
  BY <1>2, SmallerIs, SizeAssumption
<1>4. HeldBy(l[1], t.hash, t.offset)
  BY <1>1 DEF DataInv, HandlerRight, Serves, Reading
<1>5. PICK i \in Covering(t.hash, t.offset) : Complete(l[1], i)
  BY <1>4 DEF HeldBy
<1>6. ASSUME NEW u \in 0 .. n - 1
      PROVE  d[u] = Want[t.offset + u]
  <2>1. PICK k \in Covering(t.hash, t.offset) : t.offset + u \in UnitsOf(k)
    BY <1>2, <1>3, AskedUnits
  <2>2. k = i
    BY CoveringIs DEF Covering, First, Chunks
  <2>3. file[l[1]][t.offset + u] = Want[t.offset + u]
    BY <1>5, <2>1, <2>2 DEF Complete, Correct
  <2> QED  BY <2>3
<1>7. /\ r.pc = "send" /\ r.hash = t.hash /\ r.offset = t.offset /\ r.data = d
  BY <1>2 DEF Handler
<1>8. Serves(l, r)
  <2>1. DOMAIN d = 0 .. n - 1
    OBVIOUS
  <2> HIDE DEF r, d
  <2> QED  BY <1>4, <1>6, <1>7, <2>1 DEF Serves, RightData
<1> HIDE DEF r
<1>9. Grows /\ FileRight'
  BY <1>1, FileKept DEF DataInv
<1>10. HandlerRight'
  BY <1>1, <1>8, <1>9, ThreadRight DEF DataInv, TypeInv
<1> QED  BY <1>1, <1>9, <1>10, HashKept, ChanKeptRight DEF DataInv

LEMMA SendResRight ==
  ASSUME TypeInv, DataInv, NEW l \in Links, SendRes(l)
  PROVE  DataInv'
<1> DEFINE t == handler[l]
           a == Advanced(t, Smaller(t.left, DataMax))
           m == [type |-> "RES", hash |-> t.hash, offset |-> t.offset, data |-> t.data]
<1>1. /\ t.pc = "send" /\ handler' = [handler EXCEPT ![l] = a] /\ SendOn(l, m)
      /\ UNCHANGED <<file, computed, open_files>>
  BY DEF SendRes
<1>2. RightData(t) /\ HeldBy(l[1], t.hash, t.offset)
  BY <1>1 DEF DataInv, HandlerRight, Serves, Reading
<1>3. m \in Right(l)
  <2>1. m \in Sound
    BY SendResSends
  <2>2. RightData(m) /\ HeldBy(l[1], m.hash, m.offset)
    BY <1>2 DEF RightData
  <2> QED  BY <2>1, <2>2 DEF Right
<1>4. Serves(l, a)
  <2> DEFINE n == Smaller(t.left, DataMax)
  <2>1. /\ t \in Handler /\ t.offset \in Nat /\ t.left \in Nat /\ t.left > 0
        /\ Asked(t.hash, t.offset, t.left)
    BY <1>1, HandlerFacts DEF TypeInv, FitsChunk, Reading, Asking
  <2>2. n \in Nat /\ n <= t.left /\ n > 0
    BY <2>1, SmallerIs, SizeAssumption
  <2>3. CASE t.left = n
    BY <2>3, NotReading, ReceivingFits DEF Advanced
  <2>4. CASE t.left # n
    <3>1. PICK i \in Covering(t.hash, t.offset) : t.offset + t.left = End(i)
      BY <2>1 DEF Asked
    <3>2. PICK k \in Covering(t.hash, t.offset) : Complete(l[1], k)
      BY <1>2 DEF HeldBy
    <3>3. k = i
      BY CoveringIs DEF Covering, First, Chunks
    <3>4. t.offset + n < End(i)
      BY <2>1, <2>2, <2>4, <3>1
    <3>5. i \in Covering(t.hash, t.offset + n)
      BY <2>1, <2>2, <3>4, CoveringStays
    <3>6. a.pc = "read" /\ a.hash = t.hash /\ a.offset = t.offset + n
      BY <2>1, <2>4 DEF Advanced, Handler
    <3> HIDE DEF a
    <3> QED  BY <3>2, <3>3, <3>5, <3>6 DEF Serves, HeldBy
  <2> QED  BY <2>3, <2>4
<1> HIDE DEF a, m
<1>5. Grows /\ FileRight'
  BY <1>1, FileKept DEF DataInv
<1>6. HandlerRight'
  BY <1>1, <1>4, <1>5, ThreadRight DEF DataInv, TypeInv
<1> QED  BY <1>1, <1>3, <1>5, <1>6, SendRight, HashKept DEF DataInv, TypeInv

\* Failures: a thread that no longer reads, and an error reply.
LEMMA FailureRight ==
  ASSUME TypeInv, DataInv, NEW l \in Links, ReadFails(l) \/ SendError(l) \/ Reread(l)
  PROVE  DataInv'
<1> DEFINE f(pc) == [handler[l] EXCEPT !.pc = pc]
<1>1. UNCHANGED <<file, computed>>
  BY DEF ReadFails, SendError, Reread
<1>2. PICK t : t.pc \notin Reading /\ handler' = [handler EXCEPT ![l] = t]
  <2>1. f("lost").pc \notin Reading /\ f("reread").pc \notin Reading
    BY HandlerFacts DEF TypeInv, Handler, Reading
  <2>2. \/ handler' = [handler EXCEPT ![l] = f("lost")]
        \/ handler' = [handler EXCEPT ![l] = f("reread")]
        \/ handler' = [handler EXCEPT ![l] = Receiving]
    BY HandlerFacts DEF TypeInv, ReadFails, SendError, Reread
  <2> QED  BY <2>1, <2>2, ReceivingFits
<1>3. Grows /\ FileRight'
  BY <1>1, FileKept DEF DataInv
<1>4. HandlerRight'
  BY <1>2, <1>3, NotReading, ThreadRight DEF DataInv, TypeInv
<1>5. ChanRight'
  <2>1. [type |-> "ERR"] \in Right(l)
    BY DEF Right, Sound, Packet
  <2>2. UNCHANGED chan \/ SendOn(l, [type |-> "ERR"])
    BY DEF ReadFails, SendError, Reread
  <2> QED  BY <1>3, <2>1, <2>2, SendRight, ChanKeptRight DEF DataInv, TypeInv
<1> QED  BY <1>1, <1>3, <1>4, <1>5, HashKept DEF DataInv

LEMMA RecvOtherRight ==
  ASSUME TypeInv, DataInv, NEW l \in Links, RecvError(l) \/ RecvSplit(l)
  PROVE  DataInv'
<1>1. chan[Back(l)] # <<>> /\ Take(l) /\ UNCHANGED <<file, computed, handler, open_files>>
  BY DEF RecvError, RecvSplit, Arrived
<1>2. Grows /\ FileRight'
  BY <1>1, FileKept DEF DataInv
<1> QED  BY <1>1, <1>2, HashKept, HandlerKept, TakeRight DEF DataInv, TypeInv

\* What is written is right, and is a part of a chunk that its sender has: q is
\* the sender and S what p has more than before.
LEMMA RecvResCopies ==
  ASSUME TypeInv, DataInv, NEW l \in Links, RecvRes(l)
  PROVE  \/ UNCHANGED file
         \/ \E i \in Chunks : \E S \in SUBSET UnitsOf(i) :
              /\ Complete(l[2], i)
              /\ FileRight'
              /\ \A p \in Procs : Correct(p)' = IF p = l[1] THEN Correct(p) \cup S ELSE Correct(p)
<1> DEFINE m == Received(l)
           p == l[1]
<1>1. chan[Back(l)] # <<>> /\ m.type = "RES" /\ p \in Procs /\ Back(l) \in Links
      /\ Back(l)[1] = l[2]
  BY LinkFacts DEF RecvRes, Arrived, Received
<1>2. m \in Right(Back(l))
  BY <1>1, HeadIn DEF DataInv, ChanRight, Received
<1>3. CASE Accepts(m) /\ file' = [file EXCEPT ![p] = Written(@, m)]
  <2>1. PICK i \in Covering(m.hash, m.offset) : \A u \in DOMAIN m.data : m.offset + u < End(i)
    BY <1>3 DEF Accepts
  <2>2. PICK k \in Covering(m.hash, m.offset) : Complete(l[2], k)
    BY <1>1, <1>2 DEF Right, HeldBy
  <2>3. k = i /\ i \in Chunks /\ Start(i) <= m.offset
    BY CoveringIs DEF Covering, First, Chunks
  <2>4. m.offset \in Nat /\ m.data \in Block /\ RightData(m)
    BY <1>1, <1>2 DEF Right, Sound, Packet
  <2>5. \A u \in DOMAIN m.data : u \in Nat
    BY <2>4, SizeAssumption DEF Block
  <2> DEFINE S == {u \in Units : u - m.offset \in DOMAIN m.data}
  <2>6. S \subseteq UnitsOf(i)
    <3>1. ASSUME NEW u \in S
          PROVE  u \in UnitsOf(i)
      <4>1. u \in Nat /\ u - m.offset \in Nat /\ m.offset + (u - m.offset) < End(i)
        BY <2>1, <2>5 DEF Units
      <4>2. Start(i) \in Nat /\ End(i) \in Nat
        BY <2>3, ChunkBounds
      <4> QED  BY <2>3, <2>4, <4>1, <4>2 DEF UnitsOf
    <3> QED  BY <3>1
  <2>7. \A u \in S : m.data[u - m.offset] = Want[u]
    <3>1. ASSUME NEW u \in S
          PROVE  m.data[u - m.offset] = Want[u]
      <4>1. m.offset + (u - m.offset) = u
        BY <2>4 DEF Units
      <4> QED  BY <2>4, <4>1 DEF RightData
    <3> QED  BY <3>1
  <2>8. \A q \in Procs, u \in Units :
          file'[q][u] = IF q = p /\ u \in S THEN Want[u] ELSE file[q][u]
    BY <1>3, <2>7 DEF Written, TypeInv, FileTyped
  <2> HIDE DEF S
  <2>9. FileRight'
    BY <2>8 DEF FileRight, DataInv
  <2>10. \A q \in Procs : Correct(q)' = IF q = p THEN Correct(q) \cup S ELSE Correct(q)
    BY <2>3, <2>6, <2>8, UnitsInFile DEF Correct
  <2> QED  BY <2>2, <2>3, <2>6, <2>9, <2>10
<1>4. CASE UNCHANGED file
  BY <1>4
<1> QED  BY <1>3, <1>4 DEF RecvRes

LEMMA RecvResRight ==
  ASSUME TypeInv, DataInv, NEW l \in Links, RecvRes(l)
  PROVE  DataInv'
<1>1. chan[Back(l)] # <<>> /\ Take(l) /\ UNCHANGED <<computed, handler, open_files>>
  BY DEF RecvRes, Arrived
<1>2. Grows /\ FileRight'
  BY RecvResCopies, FileKept DEF Grows, DataInv
<1> QED  BY <1>1, <1>2, HashKept, HandlerKept, TakeRight DEF DataInv, TypeInv

LEMMA RestartRight ==
  ASSUME TypeInv, DataInv, NEW p \in Procs, Restart(p)
  PROVE  UNCHANGED file /\ DataInv'
<1>1. /\ UNCHANGED file
      /\ computed' = [computed EXCEPT ![p] = [i \in Chunks |-> NotComputed]]
      /\ chan' = [l \in Links |-> IF p \in {l[1], l[2]} THEN <<>> ELSE chan[l]]
      /\ handler' = [l \in Links |-> IF p \in {l[1], l[2]} THEN Receiving ELSE handler[l]]
  BY DEF Restart, FileFound, TypeInv, FileTyped
<1>2. Grows /\ FileRight'
  BY <1>1, FileKept DEF DataInv
<1>3. HashRight'
  <2>1. ASSUME NEW k \in Chunks
        PROVE  NotComputed # Hash(k)
    <3>1. 0 \in 0 .. ChunkSize - 1 /\ Start(k) + 0 \in Units
      BY SizeAssumption, UnitsInFile
    <3>2. NotComputed[0] = Zero /\ Hash(k)[0] = Want[Start(k) + 0]
      BY <3>1 DEF NotComputed, Hash, HashOf
    <3> QED  BY <3>1, <3>2, FileAssumption DEF Values
  <2> QED  BY <1>1, <1>2, <2>1 DEF HashRight, DataInv, TypeInv, HashTypes, Complete, Grows
<1>4. HandlerRight'
  <2>1. \A l \in Links : \E t : handler'[l] = t /\ Serves(l, t)
    BY <1>1, NotReading, ReceivingFits DEF DataInv, HandlerRight
  <2> QED  BY <1>2, <2>1, ServesStays DEF HandlerRight
<1>5. ChanRight'
  <2>1. \A l \in Links : Passes(l, Right(l))
    BY <1>1 DEF Passes
  <2> QED  BY <1>2, <2>1, ChanStays DEF DataInv
<1> QED  BY <1>1, <1>2, <1>3, <1>4, <1>5 DEF DataInv

LEMMA DataNext == ASSUME DistinctChunks PROVE TypeInv /\ DataInv /\ [Next]_vars => DataInv'
<1> SUFFICES ASSUME TypeInv, DataInv, [Next]_vars PROVE DataInv'
  OBVIOUS
<1>1. ASSUME NEW l \in Links, HandlerStep(l)
      PROVE  DataInv'
  BY <1>1, RecvReqRight, ComputeHashRight, OpenFileRight, ReadFileRight, SendResRight,
     FailureRight, RecvResRight, RecvOtherRight DEF HandlerStep
<1>2. CASE UNCHANGED <<file, computed, chan, handler>>
  BY <1>2, FileKept, HashKept, HandlerKept, ChanKeptRight DEF DataInv
<1>3. ASSUME NEW l \in Links, CrashInReread(l)
      PROVE  DataInv'
  BY <1>2, <1>3 DEF CrashInReread
<1> QED  BY <1>1, <1>2, <1>3, FetchRight, RestartRight DEF Next, Running, vars

LEMMA DataInvariant == ASSUME DistinctChunks PROVE Spec => []DataInv
<1>1. TypeInv /\ DataInv /\ [Next]_vars => DataInv'
  BY DataNext
<1> QED  BY <1>1, DataInit, TypeInvariant, PTL DEF Spec

\* If no two chunks have the same content, the data a handler sends is that of
\* the packaged file, whatever is written between its steps and whoever fails.
THEOREM DataIsRight == ASSUME DistinctChunks PROVE Spec => []ServesCorrectData
<1>1. DataInv => ServesCorrectData
  <2> SUFFICES ASSUME DataInv, NEW l \in Links, NEW k \in DOMAIN chan[l],
                      chan[l][k].type = "RES"
               PROVE  RightData(chan[l][k])
    BY DEF ServesCorrectData, RightData
  <2>1. chan[l] \in Seq(Right(l))
    BY DEF DataInv, ChanRight
  <2>2. chan[l][k] \in Right(l)
    BY <2>1
  <2> QED  BY <2>2 DEF Right
<1> QED  BY <1>1, DataInvariant, PTL

-----------------------------------------------------------------------------
(* The refinement of Distribution.                                         *)

LEMMA StartsWithHolds == Init => Abstract!Init
<1> SUFFICES ASSUME Init PROVE Abstract!Init
  OBVIOUS
<1>1. ASSUME NEW p \in Procs
      PROVE  Correct(p) = Holds[p]
  <2>1. Holds[p] \subseteq Units
    BY FileAssumption
  <2>2. \A u \in Units : file[p][u] = Want[u] <=> u \in Holds[p]
    BY FileAssumption DEF Init, Values
  <2> QED  BY <2>1, <2>2 DEF Correct
<1> QED  BY <1>1, FileAssumption DEF Abstract!Init

\* Every step copies a part of one chunk, or leaves all files alone.
LEMMA StepCopies ==
  ASSUME DistinctChunks, TypeInv, DataInv, [Next]_vars
  PROVE  [Abstract!Next]_[p \in Procs |-> Correct(p)]
<1> DEFINE have == [p \in Procs |-> Correct(p)]
<1>1. ASSUME UNCHANGED file
      PROVE  UNCHANGED have
  BY <1>1 DEF Correct
<1>2. ASSUME NEW l \in Links, RecvRes(l)
      PROVE  Abstract!Next \/ UNCHANGED have
  <2>1. CASE UNCHANGED file
    BY <1>1, <2>1
  <2>2. ASSUME NEW i \in Chunks, NEW S \in SUBSET UnitsOf(i), Complete(l[2], i),
               \A p \in Procs : Correct(p)' = IF p = l[1] THEN Correct(p) \cup S ELSE Correct(p)
        PROVE  Abstract!Next
    <3>1. l[1] \in Procs /\ l[2] \in Procs /\ l[1] # l[2]
      BY LinkFacts
    <3>2. UnitsOf(i) \subseteq have[l[2]]
      BY <2>2, <3>1 DEF Complete
    <3>3. have' = [have EXCEPT ![l[1]] = @ \cup S]
      BY <2>2, <3>1
    <3>4. Abstract!Copy(l[1], l[2])
      BY <3>2, <3>3 DEF Abstract!Copy
    <3> QED  BY <3>1, <3>4 DEF Abstract!Next
  <2> QED  BY <1>2, <2>1, <2>2, RecvResCopies
<1>3. ASSUME NEW l \in Links, HandlerStep(l), ~RecvRes(l)
      PROVE  UNCHANGED file
  BY <1>3 DEF HandlerStep, RecvReq, ComputeHash, OpenFile, ReadFile, ReadFails, SendRes, SendError,
     Reread, RecvError, RecvSplit
<1>4. ASSUME NEW l \in Links, Fetch(l) \/ CrashInReread(l)
      PROVE  UNCHANGED file
  BY <1>4 DEF Fetch, CrashInReread
<1>5. Abstract!Next \/ UNCHANGED have
  BY <1>1, <1>2, <1>3, <1>4, RestartRight DEF Next, Running, vars
<1> QED  BY <1>5

\* The processes together implement Distribution: whatever they do to each
\* other, each only ever gains parts of chunks that another one has completely.
THEOREM Distributes == ASSUME DistinctChunks PROVE Spec => DistributionSpec
<1>1. Init => Abstract!Init
  BY StartsWithHolds
<1>2. TypeInv /\ DataInv /\ [Next]_vars => [Abstract!Next]_[p \in Procs |-> Correct(p)]
  BY StepCopies
<1> QED  BY <1>1, <1>2, TypeInvariant, DataInvariant, PTL DEF Spec, DistributionSpec, Abstract!Spec
=============================================================================
