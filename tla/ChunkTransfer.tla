--------------------------- MODULE ChunkTransfer ---------------------------
(***************************************************************************)
(* The transfer of chunks between btide processes that manage the same     *)
(* package: FETCH (btide.c), REQ and RES (handle_peers in peer.c) and the   *)
(* file behind them (package.c, merkletree.c). Each process is connected   *)
(* to each other one and has one handler thread per connection; the        *)
(* connections and the package list themselves are the modules Connections *)
(* and ManagedPackages.                                                    *)
(*                                                                         *)
(* One step is one send, one receive with what it writes, one chunk hashed *)
(* or one read of the file. The unit of the file is a part of a packet.    *)
(***************************************************************************)
EXTENDS Integers, Sequences, FiniteSets

CONSTANTS
  Procs,       \* the processes
  Asks,        \* the links l on which the user of l[1] types FETCH for l[2]
  NChunks,     \* bpkg->nchunks
  ChunkSize,   \* the size of a chunk, in units
  DataMax,     \* DATA_MAX_SIZE: the units a RES can carry
  Want,        \* Units -> the content of the packaged file
  Zero,        \* what a new file holds
  Holds,       \* Procs -> the units that are right when the process starts
  ChanMax,     \* packets a connection holds before send blocks
  FileMax,     \* files a process can have open
  Faults       \* "hash", "read", "split", "restart": see below

Units == 0 .. NChunks * ChunkSize - 1
Chunks == 0 .. NChunks - 1
Values == {Want[u] : u \in Units}
Content == Values \cup {Zero}

ASSUME SizeAssumption ==
  /\ NChunks \in Nat \ {0} /\ ChunkSize \in Nat \ {0} /\ DataMax \in Nat \ {0}
  /\ ChanMax \in Nat \ {0} /\ FileMax \in Nat
ASSUME ProcsAssumption == IsFiniteSet(Procs)
ASSUME FileAssumption ==
  /\ Zero \notin Values
  /\ Holds \in [Procs -> SUBSET Units]

\* chunk->offset, and chunk_end in calculate_data_len.
Start(i) == i * ChunkSize
End(i) == Start(i) + ChunkSize
UnitsOf(i) == Start(i) .. End(i) - 1

\* The SHA-256 of a chunk is taken to be its content: no two contents collide.
HashOf(content, i) == [u \in 0 .. ChunkSize - 1 |-> content[Start(i) + u]]
Hash(i) == HashOf(Want, i)
Hashes == [0 .. ChunkSize - 1 -> Content]
NotComputed == [u \in 0 .. ChunkSize - 1 |-> Zero]

Links == {l \in Procs \X Procs : l[1] # l[2]}

Block == UNION {[0 .. n - 1 -> Content] : n \in 1 .. DataMax}
Lengths == 0 .. ChunkSize
Packet ==
  [type : {"REQ"}, hash : Hashes, offset : Nat, len : Lengths]
  \cup [type : {"RES"}, hash : Hashes, offset : Nat, data : Block]
  \cup [type : {"ERR"}]   \* a RES with the error field set

VARIABLES
  file,        \* Procs -> Units -> the content
  computed,    \* Procs -> Chunks -> computed_hash, as it was last written
  chan,        \* Links -> the packets on their way from l[1] to l[2]
  handler,     \* Links -> the thread of l[1] that serves l[2]
  open_files,  \* Procs -> the files opened for a REQ and not closed
  crashed      \* the processes that are gone

vars == <<file, computed, chan, handler, open_files, crashed>>

Handler == [pc : {"recv", "hash", "open", "read", "send", "fail", "lost", "reread"},
            hash : Hashes, offset : Nat, left : Lengths,
            next : 0 .. NChunks, data : Block \cup {<<>>}]
Receiving == [pc |-> "recv", hash |-> NotComputed, offset |-> 0, left |-> 0,
              next |-> 0, data |-> <<>>]

\* The types of all the variables, through every operation of the module.
TypeOK ==
  /\ file \in [Procs -> [Units -> Content]]
  /\ computed \in [Procs -> [Chunks -> Hashes]]
  /\ chan \in [Links -> Seq(Packet)]
  /\ handler \in [Links -> Handler]
  /\ open_files \in [Procs -> 0 .. FileMax]
  /\ crashed \subseteq Procs

Init ==
  /\ file = [p \in Procs |-> [u \in Units |-> IF u \in Holds[p] THEN Want[u] ELSE Zero]]
  /\ computed = [p \in Procs |-> [i \in Chunks |-> NotComputed]]
  /\ chan = [l \in Links |-> <<>>]
  /\ handler = [l \in Links |-> Receiving]
  /\ open_files = [p \in Procs |-> 0]
  /\ crashed = {}

-----------------------------------------------------------------------------
(* calculate_data_len.                                                     *)

First(S) == {i \in S : \A k \in S : i <= k}

\* Mutant of Smaller: a packet is not limited to DATA_MAX_SIZE.
Unlimited(m, n) == m

Smaller(m, n) == IF m <= n THEN m ELSE n

\* The first chunk of that hash that contains the offset; its end counts as
\* contained.
Covering(h, offset) ==
  First({i \in Chunks : Hash(i) = h /\ Start(i) <= offset /\ offset <= End(i)})

\* The first chunk of that hash, when no offset is given.
Named(h) == First({i \in Chunks : Hash(i) = h})

-----------------------------------------------------------------------------
(* Connections: first in, first out; a send blocks while one is full.      *)

Back(l) == <<l[2], l[1]>>
Room(l) == Len(chan[l]) < ChanMax
SendOn(l, m) == Room(l) /\ chan' = [chan EXCEPT ![l] = Append(@, m)]
Arrived(l, type) ==
  /\ handler[l].pc = "recv" /\ chan[Back(l)] # <<>>
  /\ Head(chan[Back(l)]).type = type
Received(l) == Head(chan[Back(l)])
Take(l) == chan' = [chan EXCEPT ![Back(l)] = Tail(@)]

-----------------------------------------------------------------------------
(* The command thread.                                                     *)

Request(l, i, offset) ==
  SendOn(l, [type |-> "REQ", hash |-> Hash(i), offset |-> offset,
             len |-> End(i) - offset])

\* FETCH with the hash alone, and with an offset.
Fetch(l) ==
  /\ l \in Asks
  /\ \/ \E h \in {Hash(i) : i \in Chunks} : \E i \in Named(h) : Request(l, i, Start(i))
     \/ \E h \in {Hash(i) : i \in Chunks}, offset \in 0 .. NChunks * ChunkSize :
          \E i \in Covering(h, offset) : Request(l, i, offset)
  /\ UNCHANGED <<file, computed, handler, open_files>>

-----------------------------------------------------------------------------
(* handle_peers: a REQ.                                                    *)

\* "hash": the byte after the 64 copied ones is not set; unless it happens to
\* be 0 the hash is of no chunk, and the REQ fails.
RecvReq(l) ==
  LET m == Received(l)
  IN /\ Arrived(l, "REQ")
     /\ Take(l)
     /\ \/ handler' = [handler EXCEPT ![l] = [Receiving EXCEPT
             !.pc = "hash", !.hash = m.hash, !.offset = m.offset, !.left = m.len]]
        \/ "hash" \in Faults /\ handler' = [handler EXCEPT ![l].pc = "fail"]
     /\ UNCHANGED <<file, computed, open_files>>

\* compute_hashes_for_chunks: every chunk of the file, without a lock. If the
\* file cannot be opened the hashes stay as they were.
ComputeHash(l) ==
  LET p == l[1]
      i == handler[l].next
  IN /\ handler[l].pc = "hash"
     /\ \/ /\ i \in Chunks /\ (i = 0 => open_files[p] < FileMax)
           /\ computed' = [computed EXCEPT ![p][i] = HashOf(file[p], i)]
           /\ handler' = [handler EXCEPT ![l].next = i + 1]
        \/ /\ i = NChunks \/ (i = 0 /\ open_files[p] = FileMax)
           /\ handler' = [handler EXCEPT ![l].pc = "open"]
           /\ UNCHANGED computed
     /\ UNCHANGED <<file, chan, open_files>>

\* Mutant of HasChunk: the computed hashes are not looked at.
HasAnyChunk(p, h) == TRUE

\* Some chunk of the file has the hash that was asked for.
HasChunk(p, h) == \E i \in Chunks : computed[p][i] = h

\* The file is opened, and never closed once the transfer is complete.
OpenFile(l) ==
  LET p == l[1]
      t == handler[l]
      ok == /\ HasChunk(p, t.hash) /\ Covering(t.hash, t.offset) # {}
            /\ open_files[p] < FileMax
  IN /\ t.pc = "open"
     /\ \/ /\ ok
           /\ open_files' = [open_files EXCEPT ![p] = @ + 1]
           /\ handler' = [handler EXCEPT ![l] =
                IF t.left = 0 THEN Receiving ELSE [@ EXCEPT !.pc = "read"]]
        \/ /\ ~ok
           /\ handler' = [handler EXCEPT ![l].pc = "fail"]
           /\ UNCHANGED open_files
     /\ UNCHANGED <<file, computed, chan>>

ReadFile(l) ==
  LET t == handler[l]
      n == Smaller(t.left, DataMax)
  IN /\ t.pc = "read"
     /\ handler' = [handler EXCEPT ![l] = [@ EXCEPT !.pc = "send",
          !.data = [u \in 0 .. n - 1 |-> file[l[1]][t.offset + u]]]]
     /\ UNCHANGED <<file, computed, chan, open_files>>

\* "read": fewer bytes than asked for, say of a file that was cut short.
ReadFails(l) ==
  /\ "read" \in Faults /\ handler[l].pc = "read"
  /\ handler' = [handler EXCEPT ![l].pc = "lost"]
  /\ open_files' = [open_files EXCEPT ![l[1]] = @ - 1]
  /\ UNCHANGED <<file, computed, chan>>

\* Mutant of Advanced: the offset of the second packet is that of the first.
InPlace(t, n) ==
  IF t.left = n THEN Receiving
  ELSE [t EXCEPT !.pc = "read", !.left = t.left - n, !.data = <<>>]

\* Mutant of Advanced: the bytes that were read are not counted.
Uncounted(t, n) ==
  IF t.left = n THEN Receiving ELSE [t EXCEPT !.pc = "read", !.data = <<>>]

\* The rest of the transfer, after a packet of n units.
Advanced(t, n) ==
  IF t.left = n THEN Receiving
  ELSE [t EXCEPT !.pc = "read", !.offset = t.offset + n, !.left = t.left - n,
                 !.data = <<>>]

SendRes(l) ==
  LET t == handler[l]
  IN /\ t.pc = "send"
     /\ SendOn(l, [type |-> "RES", hash |-> t.hash, offset |-> t.offset, data |-> t.data])
     /\ handler' = [handler EXCEPT ![l] = Advanced(t, Smaller(t.left, DataMax))]
     /\ UNCHANGED <<file, computed, open_files>>

\* The error reply, after which the handler receives again, or, if it was a
\* read that failed, calls get_data_from_file once more for the closed file.
SendError(l) ==
  /\ handler[l].pc \in {"fail", "lost"}
  /\ SendOn(l, [type |-> "ERR"])
  /\ handler' = [handler EXCEPT ![l] =
       IF @.pc = "fail" THEN Receiving ELSE [@ EXCEPT !.pc = "reread"]]
  /\ UNCHANGED <<file, computed, open_files>>

\* fread of a closed file into a null pointer: it fails like the first time, or
\* the process is gone.
Reread(l) ==
  /\ handler[l].pc = "reread"
  /\ handler' = [handler EXCEPT ![l].pc = "lost"]
  /\ UNCHANGED <<file, computed, chan, open_files>>

CrashInReread(l) ==
  /\ l[1] \notin crashed /\ handler[l].pc = "reread"
  /\ crashed' = crashed \cup {l[1]}
  /\ UNCHANGED <<file, computed, chan, handler, open_files>>

-----------------------------------------------------------------------------
(* handle_peers: a RES, and what add_data_to_file writes.                  *)

Written(content, m) ==
  [u \in Units |-> IF u - m.offset \in DOMAIN m.data THEN m.data[u - m.offset]
                                                     ELSE content[u]]

\* Mutant of Accepts: data that ends with the chunk is turned down.
AcceptsShort(m) ==
  \E i \in Covering(m.hash, m.offset) : \A u \in DOMAIN m.data : m.offset + u + 1 < End(i)

\* The data lies inside the chunk of that hash that contains its offset.
Accepts(m) ==
  \E i \in Covering(m.hash, m.offset) : \A u \in DOMAIN m.data : m.offset + u < End(i)

RecvRes(l) ==
  LET p == l[1]
      m == Received(l)
  IN /\ Arrived(l, "RES")
     /\ Take(l)
     /\ file' = IF Accepts(m) /\ open_files[p] < FileMax
                THEN [file EXCEPT ![p] = Written(@, m)] ELSE file
     /\ UNCHANGED <<computed, handler, open_files>>

RecvError(l) ==
  /\ Arrived(l, "ERR")
  /\ Take(l)
  /\ UNCHANGED <<file, computed, handler, open_files>>

\* "split": recv returns a part of the packet, which is of no known chunk, and
\* then the rest, which is of no known kind.
RecvSplit(l) ==
  /\ "split" \in Faults
  /\ handler[l].pc = "recv" /\ chan[Back(l)] # <<>>
  /\ Take(l)
  /\ UNCHANGED <<file, computed, handler, open_files>>

-----------------------------------------------------------------------------
(* A process ends, by QUIT, a crash or a signal, and is started again.     *)

\* Mutant of FileFound: bpkg_file_check makes the file anew.
FileMadeAnew(p) == [u \in Units |-> Zero]

\* ADDPACKAGE in the new process: bpkg_file_check leaves an existing file alone.
FileFound(p) == file[p]

\* "restart": what was under way on the connections of p is lost, and so are its
\* handlers and those at the other ends; new ones start when it is connected
\* again. A peer that was sending to p may be ended by SIGPIPE. The files its
\* handlers opened for p stay open there.
Restart(p) ==
  LET sending == {q \in Procs \ {p} : handler[<<q, p>>].pc \in {"send", "fail", "lost"}}
  IN /\ "restart" \in Faults
     /\ file' = [file EXCEPT ![p] = FileFound(p)]
     /\ computed' = [computed EXCEPT ![p] = [i \in Chunks |-> NotComputed]]
     /\ chan' = [l \in Links |-> IF p \in {l[1], l[2]} THEN <<>> ELSE chan[l]]
     /\ handler' = [l \in Links |-> IF p \in {l[1], l[2]} THEN Receiving ELSE handler[l]]
     /\ open_files' = [open_files EXCEPT ![p] = 0]
     /\ \E S \in SUBSET sending : crashed' = (crashed \cup S) \ {p}

-----------------------------------------------------------------------------
HandlerStep(l) ==
  \/ RecvReq(l) \/ ComputeHash(l) \/ OpenFile(l) \/ ReadFile(l) \/ ReadFails(l)
  \/ SendRes(l) \/ SendError(l) \/ Reread(l)
  \/ RecvRes(l) \/ RecvError(l) \/ RecvSplit(l)

Running(l, A) == l[1] \notin crashed /\ A /\ UNCHANGED crashed

Next ==
  \/ \E l \in Links :
       Running(l, Fetch(l)) \/ Running(l, HandlerStep(l)) \/ CrashInReread(l)
  \/ \E p \in Procs : Restart(p)

Spec == Init /\ [][Next]_vars

\* Each handler thread is scheduled; nothing is assumed of the users.
FairSpec == Spec /\ \A l \in Links : WF_vars(Running(l, HandlerStep(l)))

-----------------------------------------------------------------------------
(* Properties.                                                             *)

Correct(p) == {u \in Units : file[p][u] = Want[u]}
Complete(p, i) == UnitsOf(i) \subseteq Correct(p)

\* The processes together implement Distribution: however transfers between
\* several of them interleave, a process writes only what is right, from a
\* process that has the whole chunk, and a completed chunk is never damaged.
Abstract == INSTANCE Distribution WITH
  Pieces <- {UnitsOf(i) : i \in Chunks}, have <- [p \in Procs |-> Correct(p)]
DistributionSpec == Abstract!Spec

\* A handler sends only data that agrees with the package: the file may change
\* between the hashing of a chunk, the opening of the file and each read.
ServesCorrectData ==
  \A l \in Links : \A k \in DOMAIN chan[l] :
    chan[l][k].type = "RES" =>
      \A u \in DOMAIN chan[l][k].data :
        chan[l][k].data[u] = Want[chan[l][k].offset + u]

\* The packets of a transfer do not run past the chunk that was asked for: no
\* RES is sent that the process it is sent to has to turn down.
NoneTurnedDown ==
  \A l \in Links : \A k \in DOMAIN chan[l] :
    chan[l][k].type = "RES" => Accepts(chan[l][k])

\* A FETCH of a chunk that the other process has completes the chunk, as long
\* as that process and this one can still open their files.
FetchCompletes ==
  \A l \in Links, i \in Chunks :
    (/\ Complete(l[2], i)
     /\ \E k \in DOMAIN chan[l] :
          /\ chan[l][k].type = "REQ" /\ chan[l][k].len = ChunkSize
          /\ chan[l][k].offset = Start(i))
    ~> (Complete(l[1], i) \/ \E p \in Procs : open_files[p] = FileMax)

\* peer.c:459: "We will need to send %d packets": the handler sends them, and
\* goes back to receiving. This is so as long as no two processes serve each
\* other at the same time: then each may wait for the other one to receive.
TransferEnds == \A l \in Links : handler[l].pc = "read" ~> handler[l].pc = "recv"

=============================================================================
