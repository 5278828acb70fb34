------------------------------ MODULE BpkgLoad ------------------------------
(***************************************************************************)
(* The parser of .bpkg files: bpkg_load and, for its error path,           *)
(* bpkg_obj_destroy (src/project/src/chk/pkgchk.c). One step reads one      *)
(* line. What the program does once it has read memory that it never set,  *)
(* or that it does not own, is not defined: load is then "undefined".      *)
(***************************************************************************)
EXTENDS Integers, Sequences

CONSTANTS
  Texts,    \* the .bpkg files, sequences of lines
  NULL,     \* a null pointer
  Unset     \* memory that was allocated and not written

\* A line: what is before the colon, or "hash" or "chunk" for a line of a list;
\* its number, the offset if it is a chunk (NotInt: digits and more); the hash;
\* the size of a chunk.
NotInt == -1
Line(key, num, hash, size) == [key |-> key, num |-> num, hash |-> hash, size |-> size]

VARIABLES
  text,            \* the lines of the file
  line,            \* the number of the next one
  order_iterator,
  counter,         \* nhashes_counter and nchunks_counter
  bpkg,            \* the object, or NULL
  load             \* "idle", "keys", "hashes", "chunks" (inside a list), or the end:
                   \* "loaded", "rejected", "undefined"

loadVars == <<text, line, order_iterator, counter, bpkg, load>>

NewPackage ==
  [ident |-> Unset, filename |-> Unset, size |-> Unset, nhashes |-> Unset,
   hashes |-> NULL, nchunks |-> Unset, chunks |-> NULL]

LoadInit ==
  /\ text \in Texts
  /\ line = 1 /\ order_iterator = 0
  /\ counter = [hashes |-> 0, chunks |-> 0]
  /\ bpkg = NULL /\ load = "idle"

AtEnd == line > Len(text)
Current == text[line]
Key(k) == load = "keys" /\ ~AtEnd /\ Current.key = k

Keys == <<"ident", "filename", "size", "nhashes", "hashes", "nchunks", "chunks">>

\* Mutant of InPlace: a key may come too late.
NotTooEarly(k) == \E i \in 1 .. order_iterator + 1 : i \in DOMAIN Keys /\ Keys[i] = k

\* The check of order_iterator.
InPlace(k) == order_iterator < Len(Keys) /\ Keys[order_iterator + 1] = k

-----------------------------------------------------------------------------
(* The ends of bpkg_load.                                                  *)

\* bpkg_obj_destroy frees only what was allocated, and frees it once.
Destroyable(b) ==
  /\ b.ident # Unset /\ b.filename # Unset
  /\ b.hashes # NULL => \A i \in 1 .. b.nhashes : i \in DOMAIN b.hashes /\ b.hashes[i] # Unset
  /\ b.chunks # NULL => b.nchunks <= Len(b.chunks)

\* An error: the object, as far as it got, is destroyed.
Fail(b) ==
  /\ load' \in {"rejected"} \cup IF Destroyable(b) THEN {} ELSE {"undefined"}
  /\ bpkg' = NULL
  /\ UNCHANGED <<line, order_iterator, counter>>

\* create_tree takes the inner nodes from the hashes and a leaf from each of
\* the first nhashes + 1 chunks.
TreeFits(b) ==
  /\ b.chunks # NULL /\ b.hashes # NULL
  /\ \A i \in 1 .. b.nhashes + 1 : i \in DOMAIN b.chunks /\ b.chunks[i] # NULL

\* The end of the file, wherever it comes, is not an error.
EndOfFile ==
  /\ load = "keys" /\ AtEnd
  /\ load' = IF TreeFits(bpkg) THEN "loaded" ELSE "undefined"
  /\ UNCHANGED <<line, order_iterator, counter, bpkg>>

StartLoad ==
  /\ load' = "keys" /\ line' = 1 /\ order_iterator' = 0
  /\ counter' = [hashes |-> 0, chunks |-> 0]
  /\ bpkg' = NewPackage

CannotOpen ==
  /\ load = "keys" /\ line = 1
  /\ load' = "rejected" /\ bpkg' = NULL
  /\ UNCHANGED <<line, order_iterator, counter>>

-----------------------------------------------------------------------------
(* The lines.                                                              *)

NextKey(b) ==
  /\ bpkg' = b /\ load' = "keys"
  /\ line' = line + 1 /\ order_iterator' = order_iterator + 1
  /\ UNCHANGED counter

ReadName ==
  \E k \in {"ident", "filename"} :
    /\ Key(k)
    /\ IF InPlace(k) THEN NextKey([bpkg EXCEPT ![k] = Current.num]) ELSE Fail(bpkg)

ReadSize ==
  /\ Key("size")
  /\ IF InPlace("size") /\ Current.num # NotInt
     THEN NextKey([bpkg EXCEPT !.size = Current.num]) ELSE Fail(bpkg)

\* The count is stored before its place is checked.
ReadCount(k) ==
  LET counted == [bpkg EXCEPT ![k] = Current.num]
  IN /\ Key(k)
     /\ IF Current.num = NotInt THEN Fail(bpkg)
        ELSE IF InPlace(k) THEN NextKey(counted) ELSE Fail(counted)

ReadNHashes == ReadCount("nhashes")
ReadNChunks == ReadCount("nchunks")

\* The array is allocated with as many entries as the count says, and no place
\* is checked until the lines of the list have been read.
StartList(list, count, entry) ==
  /\ Key(list) /\ bpkg[count] # Unset
  /\ load' = list /\ line' = line + 1
  /\ bpkg' = [bpkg EXCEPT ![list] = [i \in 1 .. bpkg[count] |-> entry]]
  /\ UNCHANGED <<order_iterator, counter>>

StartHashes == StartList("hashes", "nhashes", Unset)
StartChunks == StartList("chunks", "nchunks", NULL)

\* The count was never set: any number of lines is read into an array of any
\* size, and what then comes is the error for the wrong place.
StartUncounted ==
  /\ \/ Key("hashes") /\ bpkg.nhashes = Unset
     \/ Key("chunks") /\ bpkg.nchunks = Unset
  /\ load' \in {"rejected", "undefined"} /\ bpkg' = NULL
  /\ UNCHANGED <<line, order_iterator, counter>>

\* Mutant of More: one line too few is read.
FewerLines(list, count) ==
  load = list /\ ~AtEnd /\ counter[list] + 1 < bpkg[count]

\* The list goes on: one more line is read for it.
More(list, count) == load = list /\ ~AtEnd /\ counter[list] < bpkg[count]

Store(list, entry) ==
  /\ bpkg' = [bpkg EXCEPT ![list][counter[list] + 1] = entry]
  /\ counter' = [counter EXCEPT ![list] = @ + 1]
  /\ line' = line + 1
  /\ UNCHANGED <<order_iterator, load>>

\* Any line is taken for a hash.
ReadHash == More("hashes", "nhashes") /\ Store("hashes", Current.hash)

ReadChunk ==
  /\ More("chunks", "nchunks") /\ Current.key = "chunk"
  /\ Current.num # NotInt /\ Current.size # NotInt
  /\ Store("chunks", [hash |-> Current.hash, offset |-> Current.num, size |-> Current.size])

ReadBadChunk ==
  /\ More("chunks", "nchunks") /\ Current.key = "chunk"
  /\ Current.num = NotInt \/ Current.size = NotInt
  /\ Fail(bpkg)

\* A line without commas: is_an_int is called with a null pointer.
ReadNoChunk ==
  /\ More("chunks", "nchunks") /\ Current.key # "chunk"
  /\ load' = "undefined" /\ bpkg' = NULL
  /\ UNCHANGED <<line, order_iterator, counter>>

EndList(list, count) ==
  /\ load = list /\ ~More(list, count)
  /\ IF InPlace(list)
     THEN /\ load' = "keys" /\ order_iterator' = order_iterator + 1
          /\ UNCHANGED <<line, counter, bpkg>>
     ELSE Fail(bpkg)

EndHashes == EndList("hashes", "nhashes")
EndChunks == EndList("chunks", "nchunks")

ReadOther ==
  /\ load = "keys" /\ ~AtEnd /\ Current.key \notin {Keys[i] : i \in DOMAIN Keys}
  /\ Fail(bpkg)

LoadStep ==
  /\ \/ CannotOpen \/ EndOfFile
     \/ ReadName \/ ReadSize \/ ReadNHashes \/ ReadNChunks \/ ReadOther
     \/ StartHashes \/ StartChunks \/ StartUncounted \/ EndHashes \/ EndChunks
     \/ ReadHash \/ ReadChunk \/ ReadBadChunk \/ ReadNoChunk
  /\ UNCHANGED text

-----------------------------------------------------------------------------
(* What a .bpkg file should be, as a whole.                                *)

\* The keys in their order, each list as long as its count; the list of chunks,
\* which is the last thing in the file, may be shorter if its leaves are there.
WellFormed(t) ==
  LET n == t[4].num
      first == n + 7                  \* the last key
      m == t[n + 6].num
      given == Len(t) - first
  IN /\ Len(t) > 7 /\ n # NotInt /\ Len(t) > first
     /\ \A i \in 1 .. 5 : t[i].key = Keys[i]
     /\ t[n + 6].key = "nchunks" /\ t[first].key = "chunks"
     /\ t[3].num # NotInt
     /\ n < given /\ given <= m
     /\ \A i \in first + 1 .. Len(t) :
          t[i].key = "chunk" /\ t[i].num # NotInt /\ t[i].size # NotInt

\* The chunk of a line.
ChunkOn(l) == [hash |-> l.hash, offset |-> l.num, size |-> l.size]

\* The lists of a well-formed file, as the object has them.
HashList(t) == [i \in 1 .. t[4].num |-> t[5 + i].hash]
ChunkList(t) ==
  LET first == t[4].num + 7
  IN [i \in 1 .. t[first - 1].num |-> IF first + i <= Len(t) THEN ChunkOn(t[first + i]) ELSE NULL]

\* Numbers are digits, and nothing that a file has is a null pointer or unset.
ASSUME LoadAssumption ==
  /\ Unset \notin Int
  /\ \A t \in Texts :
       /\ DOMAIN t = 1 .. Len(t) /\ Len(t) \in Nat
       /\ \A i \in DOMAIN t :
            /\ t[i].num \in Nat \cup {NotInt} /\ t[i].size \in Nat \cup {NotInt}
            /\ t[i].hash # Unset /\ ChunkOn(t[i]) # NULL
       /\ WellFormed(t) => HashList(t) # NULL /\ ChunkList(t) # NULL

\* bpkg_load reads a whole file by many small steps and checks: it returns an
\* object exactly for the files that are well formed, every entry of its lists
\* is the line it should be, and destroying it frees only what it owns. Files
\* that end early, or have a line dropped, doubled, swapped or changed, never
\* come through as a package that mixes up their lines. (A rejection before the
\* first line is that of a file that cannot be opened.)
LoadedWhole ==
  /\ load = "loaded" =>
       /\ WellFormed(text) /\ Destroyable(bpkg)
       /\ bpkg.size = text[3].num
       /\ bpkg.nhashes = text[4].num /\ bpkg.nchunks = text[text[4].num + 6].num
       /\ bpkg.hashes = HashList(text) /\ bpkg.chunks = ChunkList(text)
  /\ load = "rejected" /\ line > 1 => ~WellFormed(text)
  /\ load = "undefined" => ~WellFormed(text)
=============================================================================
