--------------------------- MODULE PackageQueries ---------------------------
(***************************************************************************)
(* The queries on a loaded package and on the file it describes            *)
(* (src/project/src/chk/pkgchk.c, tree/merkletree.c, package_status of     *)
(* package.c). Hashing takes one step per block of the file, as other      *)
(* threads write the file meanwhile; the walk of the tree is one step.     *)
(***************************************************************************)
EXTENDS BpkgLoad, MerkleTree

CONSTANT FileMax   \* the longest file

\* The content of unit u of the packaged file is u; 0 is anything else. The
\* SHA-256 of a block is taken to be its content: no two contents collide.
Wrong == 0

\* A file, even an empty one, is not a null pointer; a package fits in a file.
ASSUME FileAssumption ==
  /\ FileMax \in Nat
  /\ \A l \in 0 .. FileMax : NULL \notin [1 .. l -> 0 .. FileMax]
  /\ \A t \in Texts : WellFormed(t) => t[3].num <= FileMax

VARIABLES
  file,      \* the content of the file, or NULL if it is not there
  computed,  \* computed_hash of the leaves, <<>> if there is none yet
  stage,     \* where the program is
  query,     \* the query: its kind, the hash asked for, the next block to hash
  begun,     \* the chunks that were there when it began and that it could read
  stale,     \* the chunks it did not read, but of which it has the right hash
             \* from an earlier query
  answer     \* the hashes of the bpkg_query

queryVars == <<file, computed, stage, query, begun, stale, answer>>

Hashing == {"chunk_check", "min_hashes", "status"}
Walks == {"all_hashes", "hashes_of"}
Kinds == Hashing \cup Walks \cup {"file_check", "unknown"}
NoQuery == [kind |-> "unknown", hash |-> <<>>, next |-> 0]

QueryInit ==
  /\ file = NULL /\ computed = <<>>
  /\ query = NoQuery /\ begun = {} /\ stale = {} /\ answer = <<>>

n == bpkg.nhashes
ChunkOf(i) == bpkg.chunks[i - n + 1]
Value == [i \in Nodes(n) |-> IF IsLeaf(n, i) THEN ChunkOf(i).hash ELSE bpkg.hashes[i + 1]]
NotComputed == [c \in 1 .. n + 1 |-> <<>>]

-----------------------------------------------------------------------------
(* The truth about the file.                                               *)

\* The chunks of the package whose content is at its place in the file.
Whole ==
  IF file = NULL THEN {}
  ELSE {c \in 0 .. bpkg.nchunks - 1 :
          LET chunk == bpkg.chunks[c + 1]
          IN /\ chunk # NULL /\ chunk.offset + chunk.size <= Len(file)
             /\ chunk.hash = SubSeq(file, chunk.offset + 1, chunk.offset + chunk.size)}

\* The chunks of which the tree has the right hash, be it an old one, and those
\* of them that the file does not reach any more.
Believed == {c \in 0 .. n : computed[c + 1] = bpkg.chunks[c + 1].hash}
OutOfReach ==
  {c \in Believed :
     file = NULL \/ bpkg.chunks[c + 1].offset + bpkg.chunks[c + 1].size > Len(file)}

\* A package as the examples have them: chunks of one size, one after the
\* other, as many as the tree has leaves, each with the hash of its part of the
\* right file.
Regular ==
  /\ bpkg.nchunks = n + 1
  /\ LET size == bpkg.chunks[1].size
     IN /\ size > 0 /\ bpkg.size = size * bpkg.nchunks
        /\ \A c \in 0 .. n :
             bpkg.chunks[c + 1] =
               [hash |-> [k \in 1 .. size |-> c * size + k], offset |-> c * size, size |-> size]

-----------------------------------------------------------------------------
(* The queries.                                                            *)

Ask(kind, hash) ==
  /\ query' = [kind |-> kind, hash |-> hash, next |-> 0]
  /\ stage' = CASE kind \in Hashing -> "hash"
                [] kind = "file_check" -> "check"
                [] OTHER -> "walk"
  /\ begun' = Whole /\ stale' = OutOfReach
  /\ UNCHANGED <<file, computed, answer>>

\* bpkg_file_check. A file that is there and can be opened is left alone.
FileExists ==
  /\ stage = "check" /\ file # NULL
  /\ UNCHANGED file

\* No file, or one that cannot be opened to read (no permission, no descriptor):
\* it is made anew, as long as the package if the one write at its end succeeds,
\* and empty if not.
CreateFile ==
  /\ stage = "check"
  /\ file' \in {<<>>, [u \in 1 .. bpkg.size |-> Wrong]}

\* It cannot be created either, as in a directory without permission: nobody asks.
NothingCreated ==
  /\ stage = "check"
  /\ UNCHANGED file

FileCheck ==
  /\ FileExists \/ CreateFile \/ NothingCreated
  /\ stage' = "print"
  /\ UNCHANGED <<computed, query, begun, stale, answer>>

BlockSize == bpkg.chunks[1].size
BlockStart == query.next * BlockSize
BlockThere == file # NULL /\ BlockStart + BlockSize <= Len(file)

\* compute_hashes_for_chunks: the blocks all have the size of the first chunk.
HashBlock ==
  /\ stage = "hash" /\ BlockThere /\ query.next <= n
  /\ computed' = [computed EXCEPT ![query.next + 1] =
                    SubSeq(file, BlockStart + 1, BlockStart + BlockSize)]
  /\ query' = [query EXCEPT !.next = @ + 1]
  /\ UNCHANGED <<file, stage, begun, stale, answer>>

\* There is no leaf for the block: a null node_ptr, or no chunk at all.
HashBeyond ==
  /\ stage = "hash" /\ BlockThere /\ query.next > n
  /\ stage' = "undefined"
  /\ UNCHANGED <<file, computed, query, begun, stale, answer>>

\* The file cannot be opened, or not be read on: the other hashes stay what they
\* were.
ReadFails ==
  /\ stage = "hash" /\ BlockThere
  /\ stage' = "walk"
  /\ begun' = {c \in begun : c < query.next}
  /\ stale' = {c \in Believed : c >= query.next}
  /\ UNCHANGED <<file, computed, query, answer>>

\* The end of the file, or none: the other hashes stay what they were.
HashingEnds ==
  /\ stage = "hash" /\ ~BlockThere
  /\ stage' = "walk"
  /\ UNCHANGED <<file, computed, query, begun, stale, answer>>

\* Mutant of Done: a chunk counts once it has been hashed.
DoneOnceHashed == {i \in Leaves(n) : computed[i - n + 1] # <<>>}

\* The leaves whose computed hash is that of the package.
Done == {i \in Leaves(n) : computed[i - n + 1] = ChunkOf(i).hash}

ValuesOf(nodes) == [k \in DOMAIN nodes |-> Value[nodes[k]]]

Walked(kinds) ==
  stage = "walk" /\ query.kind \in kinds /\ UNCHANGED <<file, computed, query, begun, stale>>
Show(nodes) == answer' = ValuesOf(nodes) /\ stage' = "print"

\* bpkg_get_all_hashes: len counts all the chunks, also those without a leaf,
\* whose places in the array are never written.
GetAllHashes ==
  /\ Walked({"all_hashes"})
  /\ IF bpkg.nchunks = n + 1 THEN Show(InOrder(n, 0, Nodes(n)))
     ELSE stage' = "undefined" /\ UNCHANGED answer

GetCompletedChunks ==
  Walked({"chunk_check"}) /\ Show(InOrder(n, 0, Done))

GetMinCompletedHashes ==
  Walked({"min_hashes", "status"}) /\ Show(MinHashFind(n, Done))

\* The chunks below the first node of that hash; there may be no such node.
GetChunkHashesFrom ==
  LET found == FindNode(n, Value, query.hash)
  IN /\ Walked({"hashes_of"})
     /\ \/ found = {} /\ Show(<<>>)
        \/ \E i \in found : Show(InOrder(n, i, Leaves(n)))

\* Mutant of CompletedStatus: any hash will do.
CompletedIfAny(hashes) == hashes # <<>>

\* What package_status makes of the minimal hashes.
CompletedStatus(hashes) == hashes # <<>> /\ hashes[1] = Value[0]

QueryStep ==
  \/ HashBlock \/ HashBeyond \/ ReadFails \/ HashingEnds
  \/ GetAllHashes \/ GetCompletedChunks \/ GetMinCompletedHashes \/ GetChunkHashesFrom

-----------------------------------------------------------------------------
(* The others who use the file.                                            *)

\* Mutant of Received: the file is opened with "w+b".
ReceivedAnew(u) ==
  /\ bpkg # NULL /\ bpkg.size # Unset /\ u <= bpkg.size /\ file # NULL /\ u <= FileMax
  /\ file' = [v \in 1 .. u |-> IF v = u THEN u ELSE Wrong]

\* add_data_to_file in a handler, or in another process: a unit that is right,
\* as ChunkTransfer shows; fwrite behind the end of a file makes it longer.
Received(u) ==
  /\ bpkg # NULL /\ bpkg.size # Unset /\ u <= bpkg.size /\ file # NULL /\ u <= FileMax
  /\ file' = [v \in 1 .. IF u > Len(file) THEN u ELSE Len(file) |->
                IF v = u THEN u ELSE IF v <= Len(file) THEN file[v] ELSE Wrong]

\* The user removes the file, or damages, shortens or lengthens it.
Edited ==
  /\ file # NULL
  /\ \/ file' = NULL
     \/ \E u \in DOMAIN file : file' = [file EXCEPT ![u] = Wrong]
     \/ file # <<>> /\ file' = SubSeq(file, 1, Len(file) - 1)
     \/ Len(file) < FileMax /\ file' = Append(file, Wrong)

-----------------------------------------------------------------------------
(* Properties of the answers, at the time they are printed.                *)

Printed(kind) == stage = "print" /\ query.kind = kind

\* What is right of the chunks S that a query reports, of a regular package: it
\* leaves out no chunk that was there when it began and that it could read, and
\* each of S was there when the answer was printed, or its hash is an old one and
\* the query did not read it.
Between(S) == begun \subseteq S /\ S \subseteq Whole \cup stale

ChunksOf(leaves) == {i - n : i \in leaves}

\* Completed chunks are reported each once, and none is left out, whatever other
\* threads write while the file is being hashed. What is reported is there, but
\* for chunks that are not read any more, the file being deleted, cut or not to
\* be opened: of those an older right hash is believed.
CompletedExact ==
  Printed("chunk_check") /\ Regular =>
    \E S \in SUBSET (0 .. n) :
      /\ Between(S) /\ Len(answer) = Cardinality(S)
      /\ {answer[k] : k \in DOMAIN answer} = {bpkg.chunks[c + 1].hash : c \in S}

\* The minimal hashes are those of the complete nodes that are below no other
\* complete node, each once: "the smallest set of hashes of completed branches"
\* of pkgchk.c:337. (The example of pkgchk.h:79 has more of them, half the chunks
\* and one, where the code and this property have one hash for a complete half.
\* A package of one chunk is left out: min_hash_find emits no leaf that has no
\* parent.)
MinHashesExact ==
  Printed("min_hashes") /\ Regular /\ n > 0 =>
    \E nodes \in SUBSET Nodes(n) :
      /\ \E S \in SUBSET Leaves(n) : Between(ChunksOf(S)) /\ nodes = Maximal(n, S)
      /\ Len(answer) = Cardinality(nodes)
      /\ {answer[k] : k \in DOMAIN answer} = {Value[i] : i \in nodes}

\* PACKAGES shows COMPLETED of every file that was wholly there when it began and
\* could be read, and only if each chunk is there or is one that it did not read
\* and found complete before: a file that was complete once and is then deleted,
\* cut or not to be opened stays COMPLETED. For a package of more than one chunk.
StatusExact ==
  Printed("status") /\ Regular /\ n > 0 =>
    /\ CompletedStatus(answer) => 0 .. n \subseteq Whole \cup stale
    /\ begun = 0 .. n => CompletedStatus(answer)

\* The chunk hashes below a node are those of its leaves; in a tree that is
\* perfect they come in the order of the file. (In other trees the children of the
\* root are not the halves of the file: see LeftIsFirstHalf.)
SubtreeChunks ==
  Printed("hashes_of") /\ Regular =>
    \A i \in Nodes(n) : Value[i] = query.hash =>
      LET below == ChunksOf(LeavesBelow(n, i))
      IN /\ Len(answer) = Cardinality(below)
         /\ {answer[k] : k \in DOMAIN answer} = {bpkg.chunks[c + 1].hash : c \in below}
         /\ Perfect(n) =>
              \A j, k \in DOMAIN answer : j < k => answer[j][1] < answer[k][1]

\* pkgchk.h:92: "If the root's left child hash was given, all chunks corresponding
\* to the first half of the file will be outputted". The code does not do so if
\* the leaves are not all of one depth: of three chunks the last two are below
\* the left child.
LeftIsFirstHalf ==
  Printed("hashes_of") /\ Regular /\ n > 0 /\ query.hash = Value[Left(0)] =>
    {answer[k] : k \in DOMAIN answer} = {bpkg.chunks[c].hash : c \in 1 .. Len(answer)}

\* Every line of the two lists of the .bpkg file is one node of the tree, and its
\* hash is listed as often as it is there: parser, tree and walk lose none and
\* double none.
AllHashesOnce ==
  Printed("all_hashes") =>
    LET lines == (6 .. 5 + n) \cup (n + 8 .. Len(text))
    IN /\ Len(answer) = Cardinality(lines)
       /\ \A l \in lines :
            Cardinality({k \in DOMAIN answer : answer[k] = text[l].hash})
              = Cardinality({i \in lines : text[i].hash = text[l].hash})
=============================================================================
