--------------------------- MODULE ProgramsProofs ---------------------------
(***************************************************************************)
(* Proofs about Programs: the configuration, for any files, ranges and     *)
(* width of an int; then where the programs are and what they have, and    *)
(* from it what each query answers, for packages of any size.              *)
(***************************************************************************)
EXTENDS BpkgLoadProofs, MerkleTreeProofs

ConfigTyped ==
  /\ config_text \in Configs
  /\ config_line \in Nat \ {0}
  /\ config = [directory |-> config.directory, max_peers |-> config.max_peers,
               port |-> config.port]

IInv == ConfigTyped /\ ConfigReflectsText

Fields == {"directory", "max_peers", "port"}

\* A file at whose first line the loader is: no line has been read.
LEMMA NothingRead ==
  ASSUME config_text \in Configs, config_line = 1, NEW key \in Fields
  PROVE  LastBefore(key) = {}
BY ConfigAssumption DEF LastBefore, Of

\* Reading one more line makes it the last one of its key, and of no other.
LEMMA LineRead ==
  ASSUME ConfigTyped, config_line' = config_line + 1, UNCHANGED config_text,
         ~ConfigAtEnd, NEW key \in Fields
  PROVE  /\ Entry.key = key => LastBefore(key)' = {config_line}
         /\ Entry.key # key => LastBefore(key)' = LastBefore(key)
<1>1. /\ config_line \in DOMAIN config_text
      /\ DOMAIN config_text \subseteq Nat
  BY ConfigAssumption DEF ConfigTyped, ConfigAtEnd
<1>2. Of(key)' = Of(key) /\ Of(key) \subseteq Nat
  BY <1>1 DEF Of
<1>3. \A i \in Nat : i < config_line' <=> i < config_line \/ i = config_line
  BY DEF ConfigTyped
<1>4. CASE Entry.key = key
  <2>1. config_line \in Of(key)
    BY <1>1, <1>4 DEF Of, Entry
  <2>2. config_line \in LastBefore(key)'
    BY <1>2, <1>3, <2>1 DEF LastBefore, ConfigTyped
  <2>3. \A i \in LastBefore(key)' : i = config_line
    BY <1>2, <1>3, <2>1 DEF LastBefore, ConfigTyped
  <2> QED  BY <1>4, <2>2, <2>3
<1>5. CASE Entry.key # key
  <2>1. config_line \notin Of(key)
    BY <1>5 DEF Of, Entry
  <2> QED  BY <1>2, <1>3, <1>5, <2>1 DEF LastBefore
<1> QED  BY <1>4, <1>5

\* A number that passes a check of its range is what atoi made of the digits:
\* it was not negative, so nothing but a multiple of the span was cut.
LEMMA AtoiInRange ==
  ASSUME NEW num \in Int, Atoi(num) >= 1
  PROVE  Atoi(num) = num % IntSpan /\ Atoi(num) \in Int
<1>1. IntSpan \in Nat /\ IntSpan > 0 /\ num % IntSpan \in Int
      /\ num % IntSpan < IntSpan
  BY ConfigAssumption
<1> QED  BY <1>1 DEF Atoi

\* The invariant holds when a program starts.
LEMMA InitInv == Init => IInv
<1> SUFFICES ASSUME Init PROVE IInv
  OBVIOUS
<1>1. config_text \in Configs /\ config_line = 1 /\ config = NoConfig
  BY DEF Init, ConfigInit
<1>2. \A key \in Fields : LastBefore(key) = {}
  BY <1>1, NothingRead
<1> QED  BY <1>1, <1>2 DEF IInv, ConfigTyped, ConfigReflectsText, NoConfig, Fields

\* A line of the configuration file, whichever it is.
LEMMA LoadKeepsInv == ASSUME IInv, ConfigStep PROVE IInv'
<1> USE DEF IInv
<1>0. UNCHANGED config_text /\ config_text \in Configs /\ config_line \in Nat
  BY DEF ConfigStep, ConfigTyped
<1>1. CASE UNCHANGED <<config, config_line, directories>>
  BY <1>0, <1>1 DEF ConfigTyped, ConfigReflectsText, LastBefore, Of
<1>2. ASSUME ~ConfigAtEnd, config_line' = config_line + 1, directories \subseteq directories'
      PROVE  /\ \A key \in Fields :
                  /\ Entry.key = key => LastBefore(key)' = {config_line}
                  /\ Entry.key # key => LastBefore(key)' = LastBefore(key)
             /\ config_line' \in Nat \ {0}
  BY <1>0, <1>2, LineRead
<1>3. CASE ReadDirectory
  <2>1. /\ config' = [config EXCEPT !.directory = Entry.path] /\ Entry.key = "directory"
        /\ directories' = directories \cup {Entry.path}
        /\ ~ConfigAtEnd /\ config_line' = config_line + 1
    BY <1>3 DEF ReadDirectory, ConfigNext, Reading
  <2>2. /\ config'.directory = Entry.path /\ config'.max_peers = config.max_peers
        /\ config'.port = config.port
        /\ config' = [directory |-> config'.directory, max_peers |-> config'.max_peers,
                      port |-> config'.port]
    BY <2>1 DEF ConfigTyped
  <2>3. ConfigTyped'
    BY <1>0, <1>2, <2>1, <2>2 DEF ConfigTyped
  <2>4. /\ LastBefore("directory")' = {config_line}
        /\ LastBefore("max_peers")' = LastBefore("max_peers")
        /\ LastBefore("port")' = LastBefore("port")
    BY <1>2, <2>1 DEF Fields
  <2> QED  BY <1>0, <2>1, <2>2, <2>3, <2>4 DEF ConfigReflectsText, Entry
<1>4. CASE ReadMaxPeers /\ ~UNCHANGED <<config, config_line, directories>>
  <2> DEFINE val == Atoi(Entry.num)
  <2>1. /\ config' = [config EXCEPT !.max_peers = val] /\ Entry.key = "max_peers"
        /\ InPeerRange(val) /\ directories' = directories
        /\ ~ConfigAtEnd /\ config_line' = config_line + 1
    BY <1>4 DEF ReadMaxPeers, ConfigNext, Reading, ExitWith
  <2>2. /\ config'.max_peers = val /\ config'.directory = config.directory
        /\ config'.port = config.port
        /\ config' = [directory |-> config'.directory, max_peers |-> config'.max_peers,
                      port |-> config'.port]
    BY <2>1 DEF ConfigTyped
  <2>3. ConfigTyped'
    BY <1>0, <1>2, <2>1, <2>2 DEF ConfigTyped
  <2>4. /\ LastBefore("max_peers")' = {config_line}
        /\ LastBefore("directory")' = LastBefore("directory")
        /\ LastBefore("port")' = LastBefore("port")
    BY <1>2, <2>1 DEF Fields
  <2>5. val = Entry.num % IntSpan /\ val \in 1 .. MaxPeerRange
    <3>1. Entry.num \in Int
      BY <1>0, <2>1, ConfigAssumption DEF Entry, ConfigAtEnd, ConfigTyped
    <3> QED  BY <2>1, <3>1, AtoiInRange, ConfigAssumption DEF InPeerRange
  <2> QED  BY <1>0, <2>1, <2>2, <2>3, <2>4, <2>5 DEF ConfigReflectsText, Entry
<1>5. CASE ReadPort /\ ~UNCHANGED <<config, config_line, directories>>
  <2> DEFINE val == Atoi(Entry.num)
  <2>1. /\ config' = [config EXCEPT !.port = val] /\ Entry.key = "port"
        /\ InPortRange(val) /\ directories' = directories
        /\ ~ConfigAtEnd /\ config_line' = config_line + 1
    BY <1>5 DEF ReadPort, ConfigNext, Reading, ExitWith
  <2>2. /\ config'.port = val /\ config'.directory = config.directory
        /\ config'.max_peers = config.max_peers
        /\ config' = [directory |-> config'.directory, max_peers |-> config'.max_peers,
                      port |-> config'.port]
    BY <2>1 DEF ConfigTyped
  <2>3. ConfigTyped'
    BY <1>0, <1>2, <2>1, <2>2 DEF ConfigTyped
  <2>4. /\ LastBefore("port")' = {config_line}
        /\ LastBefore("directory")' = LastBefore("directory")
        /\ LastBefore("max_peers")' = LastBefore("max_peers")
    BY <1>2, <2>1 DEF Fields
  <2>5. val = Entry.num % IntSpan /\ val \in MinPortRange + 1 .. MaxPortRange
    <3>1. Entry.num \in Int
      BY <1>0, <2>1, ConfigAssumption DEF Entry, ConfigAtEnd, ConfigTyped
    <3>2. Atoi(Entry.num) \in Int
      BY <3>1, ConfigAssumption DEF Atoi
    <3> QED  BY <2>1, <3>1, <3>2, AtoiInRange, ConfigAssumption DEF InPortRange
  <2> QED  BY <1>0, <2>1, <2>2, <2>3, <2>4, <2>5 DEF ConfigReflectsText, Entry
<1>6. CASE SkipLine
  <2>1. /\ config' = config /\ Entry.key = "other" /\ directories' = directories
        /\ ~ConfigAtEnd /\ config_line' = config_line + 1
    BY <1>6 DEF SkipLine, ConfigNext, Reading
  <2>2. \A key \in Fields : LastBefore(key)' = LastBefore(key)
    BY <1>2, <2>1 DEF Fields
  <2> QED  BY <1>0, <1>2, <2>1, <2>2 DEF ConfigReflectsText, ConfigTyped, Fields
<1> QED
  BY <1>1, <1>3, <1>4, <1>5, <1>6 DEF ConfigStep, NoDirectory, ConfigReturns

\* Nothing but the loader, and a new start, touches the configuration.
LEMMA NextInv == ASSUME IInv, [Next]_vars PROVE IInv'
<1>1. CASE UNCHANGED configVars
  BY <1>1 DEF configVars, IInv, ConfigTyped, ConfigReflectsText, LastBefore, Of
<1>2. CASE LoadConfig
  BY <1>2, LoadKeepsInv DEF LoadConfig
<1>3. CASE Restart
  <2>1. config_text' \in Configs /\ config_line' = 1 /\ config' = NoConfig
    BY <1>3 DEF Restart, IInv, ConfigTyped
  <2>2. \A key \in Fields : LastBefore(key)' = {}
    BY <2>1, ConfigAssumption DEF LastBefore, Of
  <2> QED  BY <2>1, <2>2 DEF IInv, ConfigTyped, ConfigReflectsText, NoConfig, Fields
<1>4. CASE Next /\ ~LoadConfig /\ ~Restart
  BY <1>1, <1>4 DEF Next, MainStarts, AddPackage, Packages, RemovePackage, Invoke,
     LoadPackage, Rejected, LoadUndefined, Loaded, CheckFile, QueryPackage, Return, FileChanges
<1> QED  BY <1>1, <1>2, <1>3, <1>4 DEF vars

\* The configuration that btide runs with is what its file says, in range and
\* with the directory there, for any file, any early end and any restart.
THEOREM ConfigIsRead == Spec => []ConfigReflectsText
<1>1. IInv /\ [Next]_vars => IInv'
  BY NextInv
<1>2. IInv => ConfigReflectsText
  BY DEF IInv
<1> QED  BY InitInv, <1>1, <1>2, PTL DEF Spec

-----------------------------------------------------------------------------
(* A package that was loaded.                                              *)

\* The lines of its two lists, and the line that a node of the tree is.
ListLines(t) == (6 .. 5 + t[4].num) \cup (t[4].num + 8 .. Len(t))
LineOf(i) == IF i < n THEN 6 + i ELSE 8 + i

LEMMA LoadedFacts ==
  ASSUME LInv, load = "loaded"
  PROVE  /\ text \in Texts /\ WellFormed(text) /\ n \in Nat /\ n = text[4].num
         /\ bpkg.size \in 0 .. FileMax /\ NULL # [u \in 1 .. bpkg.size |-> Wrong]
         /\ bpkg.nchunks \in Nat /\ n < bpkg.nchunks /\ Len(text) \in Nat
         /\ n + 8 + n <= Len(text) /\ Len(text) <= n + 7 + bpkg.nchunks
         /\ \A i \in 1 .. n : bpkg.hashes[i] = text[5 + i].hash
         /\ \A i \in 1 .. n + 1 :
              /\ bpkg.chunks[i] = ChunkOn(text[n + 7 + i]) /\ bpkg.chunks[i] # NULL
              /\ bpkg.chunks[i].size \in Nat /\ bpkg.chunks[i].offset \in Nat
<1>1. /\ text \in Texts /\ WellFormed(text) /\ n = text[4].num
      /\ bpkg.size = text[3].num /\ bpkg.nchunks = text[text[4].num + 6].num
      /\ bpkg.hashes = HashList(text) /\ bpkg.chunks = ChunkList(text)
  <2> HIDE DEF n
  <2>1. n = bpkg.nhashes
    BY DEF n
  <2> QED  BY <2>1 DEF LInv, LoadedWhole
<1>2. /\ Len(text) \in Nat /\ DOMAIN text = 1 .. Len(text)
      /\ \A i \in 1 .. Len(text) : /\ text[i].num \in Nat \cup {NotInt}
                                   /\ text[i].size \in Nat \cup {NotInt}
                                   /\ ChunkOn(text[i]) # NULL
  BY <1>1, LoadAssumption
<1> DEFINE m == text[4].num
<1>3. /\ m \in Nat /\ Len(text) > 7 /\ m + 8 + m <= Len(text)
      /\ text[m + 6].num \in Nat /\ m < text[m + 6].num /\ Len(text) <= m + 7 + text[m + 6].num
      /\ \A i \in m + 8 .. Len(text) : text[i].num # NotInt /\ text[i].size # NotInt
  <2>1. /\ N \in Nat /\ M \in Nat /\ N + 7 < Len(text) /\ 7 < Len(text)
        /\ N < Len(text) - (N + 7) /\ Len(text) - (N + 7) <= M
        /\ \A i \in N + 8 .. Len(text) : text[i].num # NotInt /\ text[i].size # NotInt
    BY <1>1, WellFormedFacts
  <2>2. m = N /\ text[m + 6].num = M
    BY DEF N, M
  <2> HIDE DEF m
  <2> QED  BY <1>2, <2>1, <2>2
<1>4. text[3].num \in Nat /\ text[3].num <= FileMax /\ NULL # [u \in 1 .. text[3].num |-> Wrong]
  <2>1. text[3].num # NotInt
    BY <1>1, WellFormedFacts
  <2>2. 3 \in 1 .. Len(text)
    BY <1>2, <1>3
  <2>3. text[3].num \in Nat
    BY <1>2, <2>1, <2>2
  <2>4. text[3].num <= FileMax
    BY <1>1, FileAssumption
  <2> DEFINE z == text[3].num
  <2>5. z \in 0 .. FileMax /\ Wrong \in 0 .. FileMax
    BY <2>3, <2>4, FileAssumption DEF Wrong
  <2> HIDE DEF z
  <2>6. [u \in 1 .. z |-> Wrong] \in [1 .. z -> 0 .. FileMax] /\ NULL \notin [1 .. z -> 0 .. FileMax]
    BY <2>5, FileAssumption
  <2>7. NULL # [u \in 1 .. z |-> Wrong]
    BY <2>6
  <2> QED  BY <2>3, <2>4, <2>7 DEF z
<1>5. \A i \in 1 .. m : bpkg.hashes[i] = text[5 + i].hash
  BY <1>1 DEF HashList
<1>6. ASSUME NEW i \in 1 .. m + 1
      PROVE  /\ bpkg.chunks[i] = ChunkOn(text[m + 7 + i]) /\ bpkg.chunks[i] # NULL
             /\ bpkg.chunks[i].size \in Nat /\ bpkg.chunks[i].offset \in Nat
  <2>1. i \in 1 .. text[(m + 7) - 1].num /\ m + 7 + i <= Len(text) /\ (m + 7) - 1 = m + 6
    <3> HIDE DEF m
    <3> QED  BY <1>3
  <2>2. bpkg.chunks[i] = ChunkOn(text[m + 7 + i])
    BY <1>1, <2>1 DEF ChunkList
  <2>3. m + 7 + i \in 1 .. Len(text) /\ m + 7 + i \in m + 8 .. Len(text)
    <3> HIDE DEF m
    <3> QED  BY <1>2, <1>3, <2>1
  <2>4. /\ text[m + 7 + i].size \in Nat /\ text[m + 7 + i].num \in Nat
        /\ ChunkOn(text[m + 7 + i]) # NULL
    BY <1>2, <1>3, <2>3
  <2> QED  BY <2>2, <2>4 DEF ChunkOn
<1>7. bpkg.nchunks = text[m + 6].num /\ bpkg.size = text[3].num /\ n = m
  BY <1>1
<1> HIDE DEF m, n
<1>8. bpkg.size \in 0 .. FileMax
  BY <1>4, <1>7, FileAssumption
<1> QED  BY <1>1, <1>2, <1>3, <1>4, <1>5, <1>6, <1>7, <1>8

-----------------------------------------------------------------------------
(* Where the programs are.                                                 *)

Control ==
  /\ program \in {"btide", "pkgmain"} /\ stage \in Stages
  /\ query = [kind |-> query.kind, hash |-> query.hash, next |-> query.next]
  /\ query.kind \in Kinds /\ query.next \in Nat
  /\ stage \in {"config", "prompt"} => query = NoQuery
  /\ stage = "config" => load = "idle" /\ bpkg = NULL
  /\ stage = "prompt" => load = "loaded" \/ (load = "idle" /\ bpkg = NULL)
  /\ stage = "load" => /\ query.next = 0 /\ load # "idle"
                       /\ load = "rejected" => bpkg = NULL
                       /\ program = "btide" => config.directory # NotSet
  /\ stage \in {"check", "hash", "walk", "print"} => load = "loaded"
  /\ stage = "check" => /\ query.kind = "file_check"
                        /\ program = "btide" => config.directory # NotSet
  /\ stage = "hash" => query.kind \in Hashing
  /\ stage = "exit" => load = "idle"

\* The steps of the loader stay within its states.
LEMMA LoadStates ==
  ASSUME LoadStep
  PROVE  /\ load' \in {"keys", "hashes", "chunks", "loaded", "rejected", "undefined"}
         /\ load' = "rejected" => bpkg' = NULL
BY DEF LoadStep, CannotOpen, EndOfFile, ReadName, ReadSize, ReadNHashes, ReadNChunks, ReadCount,
   ReadOther, StartHashes, StartChunks, StartList, StartUncounted, EndHashes, EndChunks, EndList,
   ReadHash, ReadChunk, ReadBadChunk, ReadNoChunk, Store, More, NextKey, Fail, Key

LEMMA NextControl == ASSUME Control, [Next]_vars PROVE Control'
<1> USE DEF Control, Stages, Kinds, Hashing, Walks, NoQuery, loadVars, queryVars, configVars
<1>1. CASE UNCHANGED vars
  BY <1>1 DEF vars
<1>2. CASE LoadConfig
  BY <1>2 DEF LoadConfig
<1>3. CASE MainStarts
  BY <1>3 DEF MainStarts
<1>4. CASE AddPackage
  BY <1>4 DEF AddPackage, StartLoad
<1>5. CASE Packages
  BY <1>5 DEF Packages, Ask
<1>6. CASE RemovePackage
  BY <1>6 DEF RemovePackage
<1>7. ASSUME NEW kind \in Kinds, NEW hash, Invoke(kind, hash) PROVE Control'
  BY <1>7 DEF Invoke, StartLoad
<1>8. CASE LoadPackage
  BY <1>8, LoadStates DEF LoadPackage
<1>9. CASE Rejected \/ LoadUndefined
  BY <1>9 DEF Rejected, LoadUndefined
<1>10. CASE Loaded
  BY <1>10 DEF Loaded
<1>11. CASE CheckFile
  BY <1>11 DEF CheckFile, FileCheck, FileExists, CreateFile, NothingCreated
<1>12. CASE HashBlock /\ UNCHANGED <<configVars, loadVars, program>>
  BY <1>12 DEF HashBlock
<1>13. CASE QueryPackage /\ ~HashBlock
  BY <1>13 DEF QueryPackage, QueryStep, HashBeyond, ReadFails, HashingEnds, GetAllHashes, GetCompletedChunks,
     GetMinCompletedHashes, GetChunkHashesFrom, Walked, Show
<1>14. CASE Return
  <2>1. /\ stage' = "prompt" /\ query' = NoQuery /\ program' = program /\ load = "loaded"
        /\ program = "btide" => load' = load
        /\ program # "btide" => load' = "idle" /\ bpkg' = NULL
    BY <1>14 DEF Return
  <2>2. CASE program = "btide"
    BY <2>1, <2>2
  <2>3. CASE program # "btide"
    BY <2>1, <2>3
  <2> QED  BY <2>2, <2>3
<1>15. CASE Restart
  BY <1>15 DEF Restart
<1>16. CASE FileChanges
  BY <1>16 DEF FileChanges
<1> QED
  BY <1>1, <1>2, <1>3, <1>4, <1>5, <1>6, <1>7, <1>8, <1>9, <1>10, <1>11, <1>12, <1>13, <1>14,
     <1>15, <1>16 DEF Next, QueryPackage
ControlInv == LInv /\ IInv /\ Control

LEMMA InitControl == Init => ControlInv
<1> SUFFICES ASSUME Init PROVE ControlInv
  OBVIOUS
<1>1. LInv
  BY DEF Init, LoadInit, LInv, Place, Ended, LoadedWhole
<1>2. stage = Start(program) /\ query = NoQuery /\ load = "idle" /\ bpkg = NULL
  BY DEF Init, LoadInit, QueryInit
<1>3. stage \in {"config", "prompt"} /\ program \in {"btide", "pkgmain"}
  BY <1>2, RunsAssumption DEF Init, Start
<1>4. Control
  BY <1>2, <1>3 DEF Control, Stages, Kinds, NoQuery
<1> QED  BY <1>1, <1>4, InitInv DEF ControlInv

LEMMA SpecControl == Spec => []ControlInv
<1>1. ControlInv /\ [Next]_vars => ControlInv'
  BY NextLInv, NextInv, NextControl DEF ControlInv
<1> QED  BY <1>1, InitControl, PTL DEF Spec
-----------------------------------------------------------------------------
(* The types of the variables.                                             *)

\* The hash of a node is that of its line.
LEMMA NodeValue ==
  ASSUME LInv, load = "loaded", NEW i \in Nodes(n)
  PROVE  /\ LineOf(i) \in ListLines(text) /\ LineOf(i) \in DOMAIN text
         /\ Value[i] = text[LineOf(i)].hash
         /\ i \in Leaves(n) => i - n \in 0 .. n /\ Value[i] = bpkg.chunks[i - n + 1].hash
<1>1. /\ n \in Nat /\ n = text[4].num /\ Len(text) \in Nat /\ n + 8 + n <= Len(text)
      /\ DOMAIN text = 1 .. Len(text)
      /\ \A k \in 1 .. n : bpkg.hashes[k] = text[5 + k].hash
      /\ \A k \in 1 .. n + 1 : bpkg.chunks[k] = ChunkOn(text[n + 7 + k])
  BY LoadedFacts, LoadAssumption
<1>2. Value[i] = IF i >= n THEN bpkg.chunks[i - n + 1].hash ELSE bpkg.hashes[i + 1]
  BY DEF Value, IsLeaf, ChunkOf
<1> HIDE DEF n
<1>3. i \in 0 .. 2 * n
  BY DEF Nodes
<1>4. CASE i < n
  <2>1. i + 1 \in 1 .. n /\ 5 + (i + 1) = 6 + i /\ 6 + i \in 6 .. 5 + n /\ 6 + i \in 1 .. Len(text)
    BY <1>1, <1>3, <1>4
  <2>2. Value[i] = text[6 + i].hash
    BY <1>1, <1>2, <1>3, <1>4, <2>1
  <2> QED  BY <1>1, <1>3, <1>4, <2>1, <2>2 DEF LineOf, ListLines, Leaves
<1>5. CASE i >= n
  <2>1. /\ i - n + 1 \in 1 .. n + 1 /\ n + 7 + (i - n + 1) = 8 + i /\ i - n \in 0 .. n
        /\ 8 + i \in n + 8 .. Len(text) /\ 8 + i \in 1 .. Len(text) /\ ~(i < n)
    <3> DEFINE l == Len(text)
    <3>1. l \in Nat /\ n \in Nat /\ n + 8 + n <= l /\ i \in Nat /\ i <= 2 * n
      BY <1>1, <1>3
    <3> HIDE DEF l
    <3>2. 8 + i \in n + 8 .. l /\ 8 + i \in 1 .. l
      BY <3>1, <1>5
    <3> QED  BY <1>5, <3>1, <3>2 DEF l
  <2>2. bpkg.chunks[i - n + 1] = ChunkOn(text[8 + i])
    BY <1>1, <2>1
  <2>3. Value[i] = bpkg.chunks[i - n + 1].hash /\ Value[i] = text[8 + i].hash
    BY <1>2, <1>5, <2>2 DEF ChunkOn
  <2> QED  BY <1>1, <2>1, <2>3 DEF LineOf, ListLines
<1> QED  BY <1>1, <1>3, <1>4, <1>5

\* What is shown of nodes are hashes of the file.
LEMMA ValuesAreHashes ==
  ASSUME LInv, load = "loaded", NEW nodes \in Seq(Nodes(n))
  PROVE  /\ DOMAIN ValuesOf(nodes) = DOMAIN nodes /\ ValuesOf(nodes) \in Seq(Hashes)
         /\ Len(ValuesOf(nodes)) = Len(nodes)
<1>1. \A i \in Nodes(n) : Value[i] \in Hashes
  BY NodeValue DEF Hashes
<1>2. DOMAIN nodes = 1 .. Len(nodes) /\ Len(nodes) \in Nat /\ \A k \in DOMAIN nodes : nodes[k] \in Nodes(n)
  BY LenProperties, ElementOfSeq
<1>3. ValuesOf(nodes) = [k \in 1 .. Len(nodes) |-> Value[nodes[k]]]
  BY <1>2 DEF ValuesOf
<1> HIDE DEF Value, Nodes, n
<1>4. ValuesOf(nodes) \in [1 .. Len(nodes) -> Hashes]
  BY <1>1, <1>2, <1>3
<1> QED  BY <1>2, <1>3, <1>4, LenProperties, SeqDef
FileTyped == file # NULL => file \in Seq(0 .. FileMax) /\ Len(file) <= FileMax

\* A function on the first numbers is a file.
LEMMA FileOf ==
  ASSUME NEW l \in 0 .. FileMax, NEW f \in [1 .. l -> 0 .. FileMax]
  PROVE  f \in Seq(0 .. FileMax) /\ Len(f) = l
BY FileAssumption, SeqDef, LenProperties

\* What is written keeps what is right, and makes no file shorter.
LEMMA WriteKeepsFile ==
  ASSUME FileTyped, NEW u \in 1 .. FileMax, Received(u)
  PROVE  /\ FileTyped' /\ file # NULL /\ file' # NULL
         /\ Len(file) \in Nat /\ Len(file') \in Nat /\ Len(file) <= Len(file')
         /\ DOMAIN file = 1 .. Len(file) /\ DOMAIN file' = 1 .. Len(file')
         /\ \A v \in 1 .. Len(file) : file[v] = v => file'[v] = v
<1> DEFINE l == IF u > Len(file) THEN u ELSE Len(file)
<1>1. file \in Seq(0 .. FileMax) /\ Len(file) <= FileMax /\ Len(file) \in Nat /\ file # NULL
      /\ DOMAIN file = 1 .. Len(file)
      /\ \A v \in 1 .. Len(file) : file[v] \in 0 .. FileMax
  BY LenProperties, ElementOfSeq DEF FileTyped, Received
<1>2. file' = [v \in 1 .. l |-> IF v = u THEN u ELSE IF v <= Len(file) THEN file[v] ELSE Wrong]
  BY DEF Received
<1>3. l \in 0 .. FileMax /\ u \in 0 .. FileMax /\ Wrong \in 0 .. FileMax /\ Len(file) <= l
  BY <1>1, FileAssumption DEF Wrong
<1> HIDE DEF l
<1>4. file' \in [1 .. l -> 0 .. FileMax]
  BY <1>1, <1>2, <1>3
<1>5. file' \in Seq(0 .. FileMax) /\ Len(file') = l /\ l \in Nat
  BY <1>3, <1>4, FileOf
<1>6. file' # NULL
  BY <1>3, <1>4, FileAssumption
<1>7. \A v \in 1 .. Len(file) : file[v] = v => file'[v] = v
  BY <1>1, <1>2, <1>3
<1> QED  BY <1>1, <1>3, <1>4, <1>5, <1>6, <1>7 DEF FileTyped

LEMMA EditKeepsFile == ASSUME FileTyped, Edited PROVE FileTyped'
<1>1. file \in Seq(0 .. FileMax) /\ Len(file) <= FileMax /\ Len(file) \in Nat
      /\ DOMAIN file = 1 .. Len(file)
  BY LenProperties DEF FileTyped, Edited
<1>2. Wrong \in 0 .. FileMax
  BY FileAssumption DEF Wrong
<1>3. CASE file' = NULL
  BY <1>3 DEF FileTyped
<1>4. ASSUME NEW u \in DOMAIN file, file' = [file EXCEPT ![u] = Wrong] PROVE FileTyped'
  BY <1>1, <1>2, <1>4, ExceptSeq DEF FileTyped
<1>5. CASE file # <<>> /\ file' = SubSeq(file, 1, Len(file) - 1)
  <2> DEFINE l == Len(file)
  <2>1. l \in Nat /\ l <= FileMax /\ l - 1 \in Int
    BY <1>1
  <2>2. \A i \in 1 .. l - 1 : file[i] \in 0 .. FileMax
    <3>1. \A i \in 1 .. l - 1 : i \in 1 .. l
      <4> HIDE DEF l
      <4> QED  BY <2>1
    <3> QED  BY <1>1, <3>1, ElementOfSeq
  <2>3. SubSeq(file, 1, l - 1) \in Seq(0 .. FileMax)
        /\ Len(SubSeq(file, 1, l - 1)) = IF 1 <= l - 1 THEN l - 1 - 1 + 1 ELSE 0
    BY <2>1, <2>2, SubSeqProperties
  <2>4. file' = SubSeq(file, 1, l - 1)
    BY <1>5
  <2> HIDE DEF l
  <2>5. Len(file') <= FileMax
    BY <2>1, <2>3, <2>4, FileAssumption
  <2> QED  BY <2>3, <2>4, <2>5 DEF FileTyped
<1>6. CASE Len(file) < FileMax /\ file' = Append(file, Wrong)
  BY <1>1, <1>2, <1>6, AppendProperties, FileAssumption DEF FileTyped
<1> QED  BY <1>3, <1>4, <1>5, <1>6 DEF Edited

LEMMA NextFileTyped == ASSUME ControlInv, FileTyped, [Next]_vars PROVE FileTyped'
<1>1. CASE file' = file
  BY <1>1 DEF FileTyped
<1>2. CASE CheckFile
  <2>1. bpkg.size \in 0 .. FileMax
    BY <1>2, LoadedFacts DEF CheckFile, FileCheck, FileExists, CreateFile, NothingCreated, ControlInv, Control
  <2>2. [u \in 1 .. bpkg.size |-> Wrong] \in [1 .. bpkg.size -> 0 .. FileMax]
    BY FileAssumption DEF Wrong
  <2>3. file' = [u \in 1 .. bpkg.size |-> Wrong] => file' \in Seq(0 .. FileMax) /\ Len(file') <= FileMax
    BY <2>1, <2>2, FileOf
  <2>4. file' = <<>> => file' \in Seq(0 .. FileMax) /\ Len(file') <= FileMax
    BY EmptySeq, FileAssumption
  <2> QED  BY <1>2, <2>3, <2>4 DEF CheckFile, FileCheck, FileExists, CreateFile, NothingCreated, FileTyped
<1>3. CASE FileChanges
  BY <1>3, WriteKeepsFile, EditKeepsFile DEF FileChanges
<1> QED
  BY <1>1, <1>2, <1>3 DEF Next, LoadConfig, MainStarts, AddPackage, Packages, Ask, RemovePackage,
     Invoke, LoadPackage, Rejected, LoadUndefined, Loaded, QueryPackage, QueryStep, HashBlock,
     HashBeyond, ReadFails, HashingEnds, GetAllHashes, GetCompletedChunks, GetMinCompletedHashes,
     GetChunkHashesFrom, Walked, Return, Restart, vars, queryVars
\* The places of the two loaders in their files.
ConfigPlace ==
  /\ config_text \in Configs /\ config_line \in 1 .. Len(config_text) + 1
  /\ directories \subseteq Directories \cup Creatable
  /\ config_state \in {"reading", "loaded", "undefined", "exit -1", "exit 3", "exit 4", "exit 5"}

LoadPlace ==
  /\ text \in Texts /\ line \in 1 .. Len(text) + 1
  /\ order_iterator \in 0 .. Len(Keys)
  /\ load \in {"idle", "keys", "hashes", "chunks", "loaded", "rejected", "undefined"}

LEMMA ConfigStepPlace == ASSUME ConfigPlace, ConfigStep PROVE ConfigPlace'
<1>1. Len(config_text) \in Nat /\ UNCHANGED config_text
  BY ConfigAssumption DEF ConfigPlace, ConfigStep
<1>2. ~ConfigAtEnd => config_line + 1 \in 1 .. Len(config_text) + 1
  <2> DEFINE l == Len(config_text)
  <2>1. l \in Nat /\ config_line \in 1 .. l + 1 /\ (~ConfigAtEnd => ~(config_line > l))
    BY <1>1 DEF ConfigPlace, ConfigAtEnd
  <2> HIDE DEF l
  <2>2. ~ConfigAtEnd => config_line + 1 \in 1 .. l + 1
    BY <2>1
  <2> QED  BY <2>2 DEF l
<1>3. /\ config_line' = config_line \/ (~ConfigAtEnd /\ config_line' = config_line + 1)
      /\ directories' \subseteq directories \cup Creatable
      /\ config_state' \in {config_state, "loaded", "undefined", "exit -1", "exit 3", "exit 4", "exit 5"}
  <2>1. CASE ReadDirectory
    BY <2>1 DEF ReadDirectory, Reading, ConfigNext
  <2>2. CASE NoDirectory \/ ConfigReturns
    BY <2>2 DEF NoDirectory, ConfigReturns
  <2>3. CASE ReadMaxPeers
    BY <2>3 DEF ReadMaxPeers, Reading, ConfigNext, ExitWith
  <2>4. CASE ReadPort
    BY <2>4 DEF ReadPort, Reading, ConfigNext, ExitWith
  <2>5. CASE SkipLine
    BY <2>5 DEF SkipLine, Reading, ConfigNext
  <2> QED  BY <2>1, <2>2, <2>3, <2>4, <2>5 DEF ConfigStep
<1> QED  BY <1>1, <1>2, <1>3 DEF ConfigPlace

LEMMA LoadStepPlace == ASSUME LoadPlace, LoadStep PROVE LoadPlace'
<1>1. Len(text) \in Nat /\ UNCHANGED text /\ Len(Keys) = 7
  BY LoadAssumption, KeyNames DEF LoadPlace, LoadStep
<1>2. /\ ~AtEnd => line + 1 \in 1 .. Len(text) + 1
      /\ \A k : InPlace(k) => order_iterator + 1 \in 0 .. Len(Keys)
  BY <1>1 DEF LoadPlace, AtEnd, InPlace
<1>3. /\ line' = line \/ (~AtEnd /\ line' = line + 1)
      /\ order_iterator' = order_iterator \/ \E k : InPlace(k) /\ order_iterator' = order_iterator + 1
  <2>1. CASE CannotOpen \/ EndOfFile \/ ReadOther \/ StartUncounted \/ ReadNoChunk \/ ReadBadChunk
    BY <2>1 DEF CannotOpen, EndOfFile, ReadOther, StartUncounted, ReadNoChunk, ReadBadChunk, Fail
  <2>2. CASE ReadName \/ ReadSize
    BY <2>2 DEF ReadName, ReadSize, Key, NextKey, Fail
  <2>3. CASE ReadNHashes \/ ReadNChunks
    BY <2>3 DEF ReadNHashes, ReadNChunks, ReadCount, Key, NextKey, Fail
  <2>4. CASE StartHashes \/ StartChunks
    BY <2>4 DEF StartHashes, StartChunks, StartList, Key
  <2>5. CASE EndHashes \/ EndChunks
    BY <2>5 DEF EndHashes, EndChunks, EndList, Fail
  <2>6. CASE ReadHash \/ ReadChunk
    BY <2>6 DEF ReadHash, ReadChunk, More, Store
  <2> QED  BY <2>1, <2>2, <2>3, <2>4, <2>5, <2>6 DEF LoadStep
<1> QED  BY <1>1, <1>2, <1>3, LoadStates DEF LoadPlace

LEMMA NextPlaces == ASSUME ConfigPlace, LoadPlace, [Next]_vars PROVE ConfigPlace' /\ LoadPlace'
<1>1. CASE UNCHANGED <<configVars, loadVars>>
  BY <1>1 DEF configVars, loadVars, ConfigPlace, LoadPlace
<1>2. CASE LoadConfig
  BY <1>2, ConfigStepPlace DEF LoadConfig, LoadPlace, loadVars
<1>3. CASE LoadPackage
  BY <1>3, LoadStepPlace DEF LoadPackage, ConfigPlace, configVars
<1>4. Len(text) \in Nat /\ Len(config_text) \in Nat /\ Len(Keys) = 7
  BY LoadAssumption, ConfigAssumption, KeyNames DEF LoadPlace, ConfigPlace
<1> DEFINE l == Len(text)
           c == Len(config_text)
<1>0. 1 \in 1 .. l + 1 /\ 1 \in 1 .. c + 1 /\ 0 \in 0 .. Len(Keys)
  <2> HIDE DEF l, c
  <2> QED  BY <1>4 DEF l, c
<1>5. CASE AddPackage
  BY <1>0, <1>4, <1>5 DEF AddPackage, StartLoad, LoadPlace, ConfigPlace, configVars, loadVars
<1>6. ASSUME NEW kind, NEW hash, Invoke(kind, hash) PROVE ConfigPlace' /\ LoadPlace'
  BY <1>0, <1>4, <1>6 DEF Invoke, StartLoad, LoadPlace, ConfigPlace, configVars
<1>7. CASE Rejected \/ RemovePackage \/ Return
  BY <1>7 DEF Rejected, RemovePackage, Return, LoadPlace, ConfigPlace, configVars
<1>8. CASE Restart
  BY <1>0, <1>4, <1>8 DEF Restart, LoadPlace, ConfigPlace
<1>9. CASE Next /\ ~UNCHANGED <<configVars, loadVars>>
  BY <1>1, <1>2, <1>3, <1>5, <1>6, <1>7, <1>8, <1>9 DEF Next, MainStarts, Packages, LoadUndefined,
     Loaded, CheckFile, QueryPackage, FileChanges
<1> QED  BY <1>1, <1>9 DEF vars
ComputedTyped ==
  load = "loaded" /\ stage # "load" => computed \in [1 .. n + 1 -> Seq(0 .. FileMax)]

\* A block that is in the file.
LEMMA BlockFacts ==
  ASSUME LInv, FileTyped, load = "loaded", query.next \in Nat, BlockThere
  PROVE  /\ BlockSize \in Nat /\ BlockStart \in Nat /\ Len(file) \in Nat
         /\ BlockStart + BlockSize <= Len(file)
         /\ SubSeq(file, BlockStart + 1, BlockStart + BlockSize) \in Seq(0 .. FileMax)
<1>1. BlockSize \in Nat
  <2>1. 1 \in 1 .. n + 1
    <3>1. n \in Nat
      BY LoadedFacts
    <3> QED  BY <3>1 DEF n
  <2> QED  BY <2>1, LoadedFacts DEF BlockSize
<1>2. BlockStart \in Nat
  BY <1>1 DEF BlockStart
<1>3. /\ file \in Seq(0 .. FileMax) /\ Len(file) \in Nat /\ BlockStart + BlockSize <= Len(file)
  BY LenProperties DEF FileTyped, BlockThere
<1>4. \A i \in BlockStart + 1 .. BlockStart + BlockSize : i \in 1 .. Len(file)
  BY <1>1, <1>2, <1>3
<1>5. \A i \in BlockStart + 1 .. BlockStart + BlockSize : file[i] \in 0 .. FileMax
  BY <1>3, <1>4, ElementOfSeq
<1>6. BlockStart + 1 \in Int /\ BlockStart + BlockSize \in Int
  BY <1>1, <1>2
<1>7. SubSeq(file, BlockStart + 1, BlockStart + BlockSize) \in Seq(0 .. FileMax)
  BY <1>5, <1>6, SubSeqProperties
<1> QED  BY <1>1, <1>2, <1>3, <1>7

LEMMA NextComputed ==
  ASSUME ControlInv, FileTyped, ComputedTyped, [Next]_vars
  PROVE  ComputedTyped'
<1>1. CASE /\ UNCHANGED <<bpkg, computed>>
           /\ load' = "loaded" /\ stage' # "load" => load = "loaded" /\ stage # "load"
  BY <1>1 DEF ComputedTyped, n
<1>2. CASE load' # "loaded" \/ stage' = "load"
  BY <1>2 DEF ComputedTyped
<1>3. CASE Loaded
  <2>1. computed' = NotComputed /\ n' = n
    BY <1>3 DEF Loaded, loadVars, n
  <2>2. <<>> \in Seq(0 .. FileMax)
    BY EmptySeq
  <2> QED  BY <2>1, <2>2 DEF ComputedTyped, NotComputed
<1>4. CASE HashBlock /\ UNCHANGED <<configVars, loadVars, program>>
  <2>1. /\ stage = "hash" /\ load = "loaded" /\ query.next \in Nat /\ BlockThere
        /\ computed \in [1 .. n + 1 -> Seq(0 .. FileMax)] /\ n' = n
    BY <1>4 DEF HashBlock, ControlInv, Control, ComputedTyped, loadVars, n
  <2> DEFINE block == SubSeq(file, BlockStart + 1, BlockStart + BlockSize)
  <2>2. block \in Seq(0 .. FileMax)
    BY <2>1, BlockFacts DEF ControlInv
  <2>3. computed' = [computed EXCEPT ![query.next + 1] = block]
    BY <1>4 DEF HashBlock
  <2> HIDE DEF block, n
  <2> QED  BY <2>1, <2>2, <2>3 DEF ComputedTyped
<1> QED
  <2>1. stage = "config" => load = "idle"
    BY DEF ControlInv, Control
  <2> QED
    BY <1>1, <1>2, <1>3, <1>4, <2>1 DEF Next, LoadConfig, MainStarts, AddPackage, StartLoad, Packages,
       Ask, RemovePackage, Invoke, LoadPackage, Rejected, LoadUndefined, CheckFile, FileCheck,
       FileExists, CreateFile, NothingCreated, QueryPackage, QueryStep, HashBeyond, ReadFails, HashingEnds, GetAllHashes, GetCompletedChunks,
       GetMinCompletedHashes, GetChunkHashesFrom, Walked, Return, Restart, FileChanges,
       vars, queryVars, loadVars
AnswerTyped == answer \in Seq(Hashes)

\* The answers of the queries that look at the tree only.
ListShown ==
  /\ Printed("all_hashes") => bpkg.nchunks = n + 1 /\ answer = ValuesOf(InOrder(n, 0, Nodes(n)))
  /\ Printed("hashes_of") =>
       LET found == FindNode(n, Value, query.hash)
       IN (found = {} /\ answer = <<>>) \/ \E i \in found : answer = ValuesOf(InOrder(n, i, Leaves(n)))

LEMMA FoundIsNode ==
  ASSUME NEW m \in Nat, NEW value, NEW hash
  PROVE  FindNode(m, value, hash) \subseteq Nodes(m)
<1>1. InOrder(m, 0, Nodes(m)) \in Seq(Nodes(m))
  <2>1. 0 \in Nodes(m)
    BY DEF Nodes
  <2> QED  BY <2>1, WalkVisitsEachOnce
<1>2. \A k \in DOMAIN InOrder(m, 0, Nodes(m)) : InOrder(m, 0, Nodes(m))[k] \in Nodes(m)
  <2> DEFINE order == InOrder(m, 0, Nodes(m))
  <2> HIDE DEF order
  <2>1. order \in Seq(Nodes(m)) => \A k \in DOMAIN order : order[k] \in Nodes(m)
    BY LenProperties, ElementOfSeq
  <2> QED  BY <1>1, <2>1 DEF order
<1> QED  BY <1>2, Zenon DEF FindNode

\* A step of a query is answered with nodes of the tree.
LEMMA QueryAnswer ==
  ASSUME ControlInv, AnswerTyped, QueryPackage, ~(HashBlock \/ HashBeyond \/ ReadFails \/ HashingEnds)
  PROVE  /\ AnswerTyped' /\ ListShown'
         /\ stage = "walk" /\ UNCHANGED <<file, query, begun, stale, bpkg>>
         /\ stage' = "print" /\ query.kind \in Hashing =>
              answer' = ValuesOf(IF query.kind = "chunk_check" THEN InOrder(n, 0, Done)
                                 ELSE MinHashFind(n, Done))
<1>0. /\ UNCHANGED <<text, bpkg, load>> /\ Hashes' = Hashes
      /\ GetAllHashes \/ GetCompletedChunks \/ GetMinCompletedHashes \/ GetChunkHashesFrom
  BY DEF QueryPackage, QueryStep, loadVars, Hashes
<1>1. stage = "walk" /\ UNCHANGED <<file, query, begun, stale>>
  BY <1>0 DEF GetAllHashes, GetCompletedChunks, GetMinCompletedHashes, GetChunkHashesFrom, Walked
<1>2. LInv /\ load = "loaded" /\ n \in Nat /\ 0 \in Nodes(n)
  <2>1. LInv /\ load = "loaded"
    BY <1>1 DEF ControlInv, Control
  <2>2. n \in Nat
    BY <2>1, LoadedFacts
  <2> QED  BY <2>1, <2>2 DEF Nodes
<1>3. n' = n /\ Value' = Value /\ \A nodes : ValuesOf(nodes)' = ValuesOf(nodes)
  BY <1>0 DEF n, Value, ValuesOf, ChunkOf
<1>4. /\ \A i \in Nodes(n) : \A wanted : ValuesOf(InOrder(n, i, wanted)) \in Seq(Hashes)
      /\ \A done : ValuesOf(MinHashFind(n, done)) \in Seq(Hashes)
      /\ <<>> \in Seq(Hashes)
  BY <1>2, WalkVisitsEachOnce, MinHashFindIsMaximal, ValuesAreHashes, EmptySeq
<1> HIDE DEF n, Value, ValuesOf, AnswerTyped
<1>5. CASE GetAllHashes
  <2>1. /\ query.kind = "all_hashes"
        /\ \/ bpkg.nchunks = n + 1 /\ answer' = ValuesOf(InOrder(n, 0, Nodes(n)))
           \/ stage' = "undefined" /\ answer' = answer
    BY <1>5 DEF GetAllHashes, Walked, Show
  <2>2. answer' \in Seq(Hashes)
    BY <1>2, <1>4, <2>1 DEF AnswerTyped
  <2> QED  BY <1>0, <1>1, <1>3, <2>1, <2>2 DEF AnswerTyped, ListShown, Printed, Hashing
<1>6. CASE GetCompletedChunks
  <2>1. query.kind = "chunk_check" /\ answer' = ValuesOf(InOrder(n, 0, Done))
    BY <1>6 DEF GetCompletedChunks, Walked, Show
  <2> QED  BY <1>0, <1>1, <1>2, <1>4, <2>1 DEF AnswerTyped, ListShown, Printed
<1>7. CASE GetMinCompletedHashes
  <2>1. query.kind \in {"min_hashes", "status"} /\ answer' = ValuesOf(MinHashFind(n, Done))
    BY <1>7 DEF GetMinCompletedHashes, Walked, Show
  <2> QED  BY <1>0, <1>1, <1>4, <2>1 DEF AnswerTyped, ListShown, Printed
<1>8. CASE GetChunkHashesFrom
  <2> DEFINE found == FindNode(n, Value, query.hash)
  <2>1. /\ query.kind = "hashes_of"
        /\ (found = {} /\ answer' = ValuesOf(<<>>))
             \/ \E i \in found : answer' = ValuesOf(InOrder(n, i, Leaves(n)))
    BY <1>8 DEF GetChunkHashesFrom, Walked, Show
  <2>2. ValuesOf(<<>>) = <<>>
    BY DEF ValuesOf
  <2>3. found \subseteq Nodes(n)
    BY <1>2, FoundIsNode
  <2>4. answer' \in Seq(Hashes)
    BY <1>4, <2>1, <2>2, <2>3
  <2>5. found' = found
    BY <1>1, <1>3
  <2> HIDE DEF found
  <2>6. (found' = {} /\ answer' = <<>>) \/ \E i \in found' : answer' = ValuesOf(InOrder(n, i, Leaves(n)))'
    BY <1>3, <2>1, <2>2, <2>5
  <2> QED
    BY <1>0, <1>1, <2>1, <2>4, <2>6 DEF AnswerTyped, ListShown, Printed, found, Hashing
<1> QED  BY <1>0, <1>5, <1>6, <1>7, <1>8
\* While an answer is printed only the file changes.
LEMMA NextAnswer ==
  ASSUME ControlInv, AnswerTyped, ListShown, [Next]_vars
  PROVE  AnswerTyped' /\ ListShown'
<1>1. CASE UNCHANGED <<text, bpkg, query, answer, stage>>
  <2>1. n' = n /\ Value' = Value /\ Hashes' = Hashes /\ \A nodes : ValuesOf(nodes)' = ValuesOf(nodes)
    BY <1>1 DEF n, Value, ChunkOf, ValuesOf, Hashes
  <2> HIDE DEF n, Value, Hashes, ValuesOf
  <2> QED  BY <1>1, <2>1 DEF AnswerTyped, ListShown, Printed
<1>2. CASE UNCHANGED <<text, answer>> /\ stage' # "print"
  BY <1>2 DEF AnswerTyped, ListShown, Printed, Hashes
<1>3. CASE text' = text /\ answer' = <<>> /\ stage' # "print"
  <2>1. Hashes' = Hashes /\ <<>> \in Seq(Hashes)
    BY <1>3, EmptySeq DEF Hashes
  <2> QED  BY <1>3, <2>1 DEF AnswerTyped, ListShown, Printed
<1>4. CASE QueryPackage
  <2>1. CASE HashBlock \/ HashBeyond \/ ReadFails \/ HashingEnds
    BY <1>2, <1>4, <2>1 DEF QueryPackage, HashBlock, HashBeyond, ReadFails, HashingEnds, loadVars
  <2> QED  BY <1>4, <2>1, QueryAnswer
<1>5. CASE CheckFile
  <2>1. query.kind = "file_check" /\ query' = query /\ text' = text /\ answer' = answer
    BY <1>5 DEF CheckFile, FileCheck, FileExists, CreateFile, NothingCreated, ControlInv, Control, loadVars
  <2> QED  BY <2>1 DEF AnswerTyped, ListShown, Printed, Hashes
<1>6. CASE Loaded \/ Packages
  BY <1>2, <1>6 DEF Loaded, Packages, Ask, loadVars
<1>7. LoadStep => UNCHANGED text
  BY DEF LoadStep
<1> QED
  BY <1>1, <1>2, <1>3, <1>4, <1>5, <1>6, <1>7 DEF Next, LoadConfig, MainStarts, AddPackage,
     RemovePackage, Invoke, LoadPackage, Rejected, LoadUndefined, Return, Restart, FileChanges,
     vars, queryVars, loadVars

Typed ==
  ControlInv /\ ConfigPlace /\ LoadPlace /\ FileTyped /\ ComputedTyped /\ AnswerTyped /\ ListShown

LEMMA SpecTyped == Spec => []Typed
<1>1. Init => Typed
  <2> SUFFICES ASSUME Init PROVE Typed
    OBVIOUS
  <2>1. ConfigPlace
    <3>1. Len(config_text) \in Nat
      BY ConfigAssumption DEF Init, ConfigInit
    <3>2. 1 \in 1 .. Len(config_text) + 1
      <4> DEFINE l == Len(config_text)
      <4> HIDE DEF l
      <4>1. l \in Nat => 1 \in 1 .. l + 1
        OBVIOUS
      <4> QED  BY <3>1, <4>1 DEF l
    <3> QED  BY <3>2 DEF Init, ConfigInit, ConfigPlace
  <2>2. LoadPlace
    <3>1. Len(text) \in Nat
      BY LoadAssumption DEF Init, LoadInit
    <3>2. 1 \in 1 .. Len(text) + 1
      <4> DEFINE l == Len(text)
      <4> HIDE DEF l
      <4>1. l \in Nat => 1 \in 1 .. l + 1
        OBVIOUS
      <4> QED  BY <3>1, <4>1 DEF l
    <3> QED  BY <3>2, KeyNames DEF Init, LoadInit, LoadPlace
  <2>3. FileTyped /\ ComputedTyped /\ AnswerTyped /\ ListShown
    <3>1. file = NULL /\ load = "idle" /\ answer = <<>> /\ stage # "print"
      BY DEF Init, QueryInit, LoadInit, Start
    <3> QED  BY <3>1, EmptySeq DEF FileTyped, ComputedTyped, AnswerTyped, ListShown, Printed
  <2> QED  BY <2>1, <2>2, <2>3, InitControl DEF Typed
<1>2. Typed /\ [Next]_vars => Typed'
  <2>1. ControlInv /\ [Next]_vars => ControlInv'
    BY NextLInv, NextInv, NextControl DEF ControlInv
  <2> QED  BY <2>1, NextPlaces, NextFileTyped, NextComputed, NextAnswer DEF Typed
<1> QED  BY <1>1, <1>2, PTL DEF Spec

\* The types of btide and pkgmain, for any files: no query hashes, walks or prints
\* but on a package that was loaded whole, what it shows are hashes of the .bpkg
\* file, and the file never grows beyond its bound.
THEOREM TypeCorrectPrograms == Spec => []TypeOK
<1>1. Typed => TypeOK
  <2> SUFFICES ASSUME Typed PROVE TypeOK
    OBVIOUS
  <2>1. answer \in Seq(Hashes) => \A k \in DOMAIN answer : answer[k] \in Hashes
    <3> HIDE DEF Hashes
    <3> QED  BY LenProperties, ElementOfSeq
  <2>2. load = "loaded" /\ stage # "load" => \A c \in 1 .. n + 1 : computed[c] \in Seq(0 .. FileMax)
    <3> HIDE DEF n
    <3> QED  BY DEF Typed, ComputedTyped
  <2> QED  BY <2>1, <2>2 DEF Typed, ControlInv, Control, ConfigPlace, LoadPlace, FileTyped, AnswerTyped, TypeOK
<1> QED  BY <1>1, SpecTyped, PTL
-----------------------------------------------------------------------------
(* What was received.                                                      *)

\* A right unit stays right when another one is written.
LEMMA ReceivedGrows ==
  ASSUME FileTyped, NEW u \in 1 .. FileMax, Received(u)
  PROVE  RightUnits \subseteq RightUnits'
<1>1. /\ file # NULL /\ file' # NULL /\ Len(file) \in Nat /\ Len(file') \in Nat
      /\ Len(file) <= Len(file') /\ DOMAIN file = 1 .. Len(file) /\ DOMAIN file' = 1 .. Len(file')
      /\ \A v \in 1 .. Len(file) : file[v] = v => file'[v] = v
  BY WriteKeepsFile
<1>2. 1 .. Len(file) \subseteq 1 .. Len(file')
  BY <1>1
<1> QED  BY <1>1, <1>2 DEF RightUnits

\* Data that was received survives everything but an edit by the user and the
\* fopen("wb") of bpkg_file_check: any configuration, any .bpkg file, any number
\* of restarts, and any other writes.
THEOREM ReceivedIsKept == Spec => ReceivedKept
<1>1. ASSUME Typed, [Next]_vars
      PROVE  [RightUnits \subseteq RightUnits' \/ Edited \/ CreateFile]_vars
  <2>1. CASE file' = file
    BY <2>1 DEF RightUnits
  <2>2. CASE CheckFile
    BY <2>1, <2>2 DEF CheckFile, FileCheck, FileExists, NothingCreated
  <2>3. CASE FileChanges
    <3>1. (\E u \in 1 .. FileMax : Received(u)) \/ Edited
      BY <2>3 DEF FileChanges
    <3>2. FileTyped
      BY <1>1 DEF Typed
    <3> QED  BY <3>1, <3>2, ReceivedGrows
  <2> QED
    BY <1>1, <2>1, <2>2, <2>3 DEF Next, LoadConfig, MainStarts, AddPackage, Packages, Ask, RemovePackage,
       Invoke, LoadPackage, Rejected, LoadUndefined, Loaded, QueryPackage, QueryStep, HashBlock,
       HashBeyond, ReadFails, HashingEnds, GetAllHashes, GetCompletedChunks, GetMinCompletedHashes,
       GetChunkHashesFrom, Walked, Return, Restart, vars, queryVars
<1> QED  BY <1>1, SpecTyped, PTL DEF Spec, ReceivedKept
-----------------------------------------------------------------------------
(* Hashing a file that others write.                                       *)

\* A part of a sequence, place by place.
LEMMA PartOf ==
  ASSUME NEW S, NEW f \in Seq(S), NEW a \in Nat, NEW b \in Nat, a + b <= Len(f)
  PROVE  SubSeq(f, a + 1, a + b) = [k \in 1 .. b |-> f[a + k]]
<1> DEFINE p == SubSeq(f, a + 1, a + b)
           l == Len(f)
<1>1. l \in Nat /\ a + b <= l
  BY LenProperties
<1>2. \A i \in a + 1 .. a + b : f[i] \in S
  <2>1. \A i \in a + 1 .. a + b : i \in 1 .. l
    <3> HIDE DEF l
    <3> QED  BY <1>1
  <2> QED  BY <2>1, ElementOfSeq
<1>3. /\ p \in Seq(S)
      /\ Len(p) = IF a + 1 <= a + b THEN (a + b) - (a + 1) + 1 ELSE 0
      /\ \A i \in 1 .. (a + b) - (a + 1) + 1 : p[i] = f[(a + 1) + i - 1]
  <2>1. a + 1 \in Int /\ a + b \in Int
    OBVIOUS
  <2> QED  BY <1>2, <2>1, SubSeqProperties
<1> HIDE DEF p, l
<1>4. Len(p) = b /\ (a + b) - (a + 1) + 1 = b /\ \A i \in 1 .. b : (a + 1) + i - 1 = a + i
  BY <1>3
<1>5. p \in [1 .. b -> S] /\ \A i \in 1 .. b : p[i] = f[a + i]
  BY <1>3, <1>4, LenProperties
<1> QED  BY <1>5 DEF p

\* The chunks that are whole in the content f.
WholeIn(f) ==
  IF f = NULL THEN {}
  ELSE {c \in 0 .. bpkg.nchunks - 1 :
          LET chunk == bpkg.chunks[c + 1]
          IN /\ chunk # NULL /\ chunk.offset + chunk.size <= Len(f)
             /\ chunk.hash = SubSeq(f, chunk.offset + 1, chunk.offset + chunk.size)}

\* Where a chunk of a regular package is, and its part of the content f.
At(c) == c * BlockSize
Part(f, c) == [k \in 1 .. BlockSize |-> f[At(c) + k]]
OwnPart(c) == [k \in 1 .. BlockSize |-> At(c) + k]

\* The chunks of a regular package, and when they are whole.
LEMMA RegularFacts ==
  ASSUME LInv, load = "loaded", Regular
  PROVE  /\ n \in Nat /\ BlockSize \in Nat /\ BlockSize > 0 /\ bpkg.size = BlockSize * (n + 1)
         /\ bpkg.nchunks = n + 1
         /\ \A c \in 0 .. n : At(c) \in Nat /\ bpkg.chunks[c + 1] # NULL
         /\ \A c \in 0 .. n :
              bpkg.chunks[c + 1] = [hash |-> OwnPart(c), offset |-> At(c), size |-> BlockSize]
<1> DEFINE size == bpkg.chunks[1].size
<1>1. /\ n \in Nat /\ bpkg.nchunks = n + 1 /\ size > 0 /\ bpkg.size = size * (n + 1)
      /\ \A c \in 0 .. n : bpkg.chunks[c + 1] =
           [hash |-> [k \in 1 .. size |-> c * size + k], offset |-> c * size, size |-> size]
      /\ \A i \in 1 .. n + 1 : bpkg.chunks[i] # NULL /\ bpkg.chunks[i].size \in Nat
  <2>1. n \in Nat /\ \A i \in 1 .. n + 1 : bpkg.chunks[i] # NULL /\ bpkg.chunks[i].size \in Nat
    BY LoadedFacts
  <2>2. bpkg.nchunks = n + 1
    BY DEF Regular
  <2> QED  BY <2>1, <2>2 DEF Regular
<1> HIDE DEF n
<1>2. 1 \in 1 .. n + 1
  BY <1>1
<1>3. size \in Nat /\ size = BlockSize
  BY <1>1, <1>2 DEF BlockSize
<1> HIDE DEF size
<1>4. ASSUME NEW c \in 0 .. n
      PROVE  /\ At(c) \in Nat /\ bpkg.chunks[c + 1] # NULL
             /\ bpkg.chunks[c + 1] = [hash |-> OwnPart(c), offset |-> At(c), size |-> BlockSize]
  <2>1. c * BlockSize \in Nat /\ c + 1 \in 1 .. n + 1
    BY <1>1, <1>3
  <2>2. bpkg.chunks[c + 1] =
           [hash |-> [k \in 1 .. BlockSize |-> c * BlockSize + k], offset |-> c * BlockSize, size |-> BlockSize]
    BY <1>1, <1>3
  <2> QED  BY <1>1, <2>1, <2>2 DEF At, OwnPart
<1> QED  BY <1>1, <1>3, <1>4

\* The bytes of a chunk in a file, hashed or compared one by one.
LEMMA RegularWhole ==
  ASSUME LInv, load = "loaded", Regular, NEW f,
         f # NULL => f \in Seq(0 .. FileMax)
  PROVE  /\ WholeIn(f) \subseteq 0 .. n
         /\ \A c \in WholeIn(f) : f # NULL /\ At(c) + BlockSize <= Len(f)
         /\ \A c \in 0 .. n : f # NULL /\ At(c) + BlockSize <= Len(f) =>
              /\ SubSeq(f, At(c) + 1, At(c) + BlockSize) = Part(f, c)
              /\ c \in WholeIn(f) <=> OwnPart(c) = Part(f, c)
<1>1. /\ n \in Nat /\ BlockSize \in Nat /\ bpkg.nchunks = n + 1 /\ bpkg.nchunks - 1 = n
      /\ \A c \in 0 .. n : /\ At(c) \in Nat /\ bpkg.chunks[c + 1] # NULL
                           /\ bpkg.chunks[c + 1].hash = OwnPart(c)
                           /\ bpkg.chunks[c + 1].offset = At(c)
                           /\ bpkg.chunks[c + 1].size = BlockSize
  <2>1. /\ n \in Nat /\ BlockSize \in Nat /\ bpkg.nchunks = n + 1
        /\ \A c \in 0 .. n : At(c) \in Nat /\ bpkg.chunks[c + 1] # NULL
        /\ \A c \in 0 .. n :
             bpkg.chunks[c + 1] = [hash |-> OwnPart(c), offset |-> At(c), size |-> BlockSize]
    BY RegularFacts
  <2> HIDE DEF n
  <2>2. bpkg.nchunks - 1 = n
    BY <2>1
  <2>3. ASSUME NEW c \in 0 .. n
        PROVE  /\ bpkg.chunks[c + 1].hash = OwnPart(c) /\ bpkg.chunks[c + 1].offset = At(c)
               /\ bpkg.chunks[c + 1].size = BlockSize
    <3>1. bpkg.chunks[c + 1] = [hash |-> OwnPart(c), offset |-> At(c), size |-> BlockSize]
      BY <2>1
    <3> QED  BY <3>1
  <2> QED  BY <2>1, <2>2, <2>3
<1>2. ASSUME NEW c \in 0 .. n, f # NULL
      PROVE  c \in WholeIn(f) <=> /\ At(c) + BlockSize <= Len(f)
                                  /\ OwnPart(c) = SubSeq(f, At(c) + 1, At(c) + BlockSize)
  BY <1>1, <1>2 DEF WholeIn
<1>3. ASSUME NEW c \in 0 .. n, f # NULL, At(c) + BlockSize <= Len(f)
      PROVE  SubSeq(f, At(c) + 1, At(c) + BlockSize) = Part(f, c)
  BY <1>1, <1>3, PartOf DEF Part
<1>4. WholeIn(f) \subseteq 0 .. n /\ (f = NULL => WholeIn(f) = {})
  BY <1>1 DEF WholeIn
<1> QED  BY <1>2, <1>3, <1>4

InReach(c) == file # NULL /\ At(c) + BlockSize <= Len(file)

\* What other threads and processes receive only adds to what is there.
LEMMA WholeGrows ==
  ASSUME LInv, load = "loaded", Regular, FileTyped, NEW u \in 1 .. FileMax, Received(u),
         UNCHANGED <<bpkg, text, load>>
  PROVE  Whole \subseteq Whole' /\ \A c \in 0 .. n : InReach(c) => InReach(c)'
<1>1. Whole = WholeIn(file) /\ Whole' = WholeIn(file')
  BY DEF Whole, WholeIn
<1>2. file \in Seq(0 .. FileMax)
  BY DEF FileTyped, Received
<1>4. /\ FileTyped' /\ file # NULL /\ file' # NULL
      /\ Len(file) \in Nat /\ Len(file') \in Nat /\ Len(file) <= Len(file')
      /\ \A v \in 1 .. Len(file) : file[v] = v => file'[v] = v
  BY WriteKeepsFile
<1>10. ASSUME NEW c \in WholeIn(file) PROVE c \in WholeIn(file')
  <2>1. c \in 0 .. n /\ At(c) + BlockSize <= Len(file) /\ OwnPart(c) = Part(file, c)
    BY <1>2, RegularWhole
  <2>2. BlockSize \in Nat /\ At(c) \in Nat
    BY <2>1, RegularFacts
  <2>3. At(c) + BlockSize <= Len(file')
    BY <1>4, <2>1, <2>2
  <2>4. c \in WholeIn(file') <=> OwnPart(c) = Part(file', c)
    BY <1>4, <2>1, <2>3, RegularWhole DEF FileTyped
  <2>5. \A k \in 1 .. BlockSize : At(c) + k \in 1 .. Len(file) /\ file[At(c) + k] = At(c) + k
    <3>1. \A k \in 1 .. BlockSize : OwnPart(c)[k] = Part(file, c)[k]
      BY <2>1
    <3>2. \A k \in 1 .. BlockSize : file[At(c) + k] = At(c) + k
      BY <3>1 DEF OwnPart, Part
    <3>3. \A k \in 1 .. BlockSize : At(c) + k \in 1 .. Len(file)
      BY <1>4, <2>1, <2>2
    <3> QED  BY <3>2, <3>3
  <2>6. OwnPart(c) = Part(file', c)
    BY <1>4, <2>5 DEF OwnPart, Part
  <2> QED  BY <2>4, <2>6
<1>11. ASSUME NEW c \in 0 .. n, InReach(c) PROVE InReach(c)'
  <2>1. At(c) \in Nat /\ BlockSize \in Nat /\ At(c)' = At(c) /\ BlockSize' = BlockSize
    BY RegularFacts DEF At, BlockSize
  <2> QED  BY <1>4, <1>11, <2>1 DEF InReach
<1> QED  BY <1>1, <1>10, <1>11

HasHash(c) == computed[c + 1] = bpkg.chunks[c + 1].hash

\* Of the blocks before the next one to hash: a chunk that was whole when the
\* query began has its right hash, and one that has it is whole.
Hashed ==
  \A c \in 0 .. n : c < query.next =>
    (c \in begun => HasHash(c)) /\ (HasHash(c) => c \in Whole)

\* Of the others the hash is an old one, and will be replaced as long as blocks
\* are hashed and the file reaches them.
Unhashed ==
  \A c \in 0 .. n : c >= query.next /\ HasHash(c) => c \in stale \/ (stage = "hash" /\ InReach(c))

\* The claim of a query that hashes is about regular packages.
Claimed == Regular /\ query.kind \in Hashing

Progress ==
  stage \in {"hash", "walk"} /\ Claimed =>
    /\ begun \subseteq Whole /\ Hashed /\ Unhashed
    /\ stage = "walk" => \A c \in begun : c < query.next

HashShown ==
  stage = "print" /\ Claimed =>
    \E done \in SUBSET Leaves(n) :
      /\ Between(ChunksOf(done))
      /\ answer = ValuesOf(IF query.kind = "chunk_check" THEN InOrder(n, 0, done)
                           ELSE MinHashFind(n, done))

\* If the next block is not in the file, no later one is.
LEMMA ReachEnds ==
  ASSUME LInv, load = "loaded", Regular, FileTyped, ~BlockThere, query.next \in Nat,
         NEW c \in 0 .. n, InReach(c)
  PROVE  c < query.next
<1>1. n \in Nat /\ BlockSize \in Nat /\ file # NULL /\ Len(file) \in Nat
  BY RegularFacts, LenProperties DEF FileTyped, InReach
<1>2. c \in Nat /\ c * BlockSize + BlockSize <= Len(file)
  BY <1>1 DEF InReach, At
<1>3. ASSUME NEW b \in Nat, NEW d \in Nat, NEW e \in Nat, d <= e PROVE d * b <= e * b
  <2>1. e - d \in Nat /\ (e - d) * b \in Nat /\ e * b = d * b + (e - d) * b
    BY <1>3
  <2>2. d * b \in Nat /\ e * b \in Nat
    OBVIOUS
  <2> QED  BY <2>1, <2>2
<1>4. ASSUME query.next <= c PROVE FALSE
  <2>1. query.next * BlockSize <= c * BlockSize
    BY <1>1, <1>2, <1>3, <1>4
  <2>2. query.next * BlockSize \in Nat /\ c * BlockSize \in Nat
    BY <1>1, <1>2
  <2>3. query.next * BlockSize + BlockSize <= Len(file)
    BY <1>1, <1>2, <2>1, <2>2
  <2> QED  BY <1>1, <2>3 DEF BlockThere, BlockStart
<1> QED  BY <1>2, <1>4

\* One more block is hashed.
LEMMA BlockHashed ==
  ASSUME Typed, Progress, Claimed, HashBlock, UNCHANGED <<configVars, loadVars, program>>
  PROVE  Progress'
<1> DEFINE k == query.next
           block == SubSeq(file, BlockStart + 1, BlockStart + BlockSize)
<1>1. /\ stage = "hash" /\ stage' = "hash" /\ BlockThere /\ k <= n
      /\ computed' = [computed EXCEPT ![k + 1] = block]
      /\ query' = [query EXCEPT !.next = k + 1]
      /\ UNCHANGED <<file, begun, stale, bpkg>>
  BY DEF HashBlock, loadVars
<1>2. /\ LInv /\ load = "loaded" /\ FileTyped /\ k \in Nat /\ Regular
      /\ query = [kind |-> query.kind, hash |-> query.hash, next |-> query.next]
      /\ computed \in [1 .. n + 1 -> Seq(0 .. FileMax)] /\ n \in Nat
  BY <1>1, LoadedFacts DEF Typed, ControlInv, Control, ComputedTyped, Claimed
<1>3. k \in 0 .. n /\ k + 1 \in 1 .. n + 1
  BY <1>1, <1>2
<1>4. begun \subseteq Whole /\ Hashed /\ Unhashed
  BY <1>1 DEF Progress
<1>5. query'.next = k + 1 /\ query'.kind = query.kind
  BY <1>1, <1>2
<1>6. /\ n' = n /\ Whole' = Whole /\ Whole = WholeIn(file) /\ \A c : InReach(c)' = InReach(c)
  BY <1>1 DEF n, Whole, WholeIn, InReach, At, BlockSize
<1> HIDE DEF k, block
<1>7. bpkg.chunks[k + 1].hash = block <=> k \in Whole
  <2>1. BlockStart = At(k) /\ file # NULL /\ At(k) + BlockSize <= Len(file)
    BY <1>1 DEF BlockThere, BlockStart, At, k
  <2>2. block = Part(file, k) /\ (k \in WholeIn(file) <=> OwnPart(k) = Part(file, k))
    BY <1>2, <1>3, <2>1, RegularWhole DEF block, FileTyped
  <2>3. bpkg.chunks[k + 1] = [hash |-> OwnPart(k), offset |-> At(k), size |-> BlockSize]
    BY <1>2, <1>3, RegularFacts
  <2>4. bpkg.chunks[k + 1].hash = OwnPart(k)
    BY <2>3
  <2> QED  BY <1>6, <2>2, <2>4
<1>8. /\ computed'[k + 1] = block
      /\ \A c \in 0 .. n : c # k => computed'[c + 1] = computed[c + 1]
  <2> HIDE DEF n
  <2>1. \A c \in 0 .. n : c # k => c + 1 # k + 1 /\ c + 1 \in 1 .. n + 1
    BY <1>2
  <2> QED  BY <1>1, <1>2, <1>3, <2>1
<1>9. Hashed'
  <2> HIDE DEF n
  <2> SUFFICES ASSUME NEW c \in 0 .. n, c < k + 1
               PROVE  /\ c \in begun => computed'[c + 1] = bpkg.chunks[c + 1].hash
                      /\ computed'[c + 1] = bpkg.chunks[c + 1].hash => c \in Whole
    BY <1>1, <1>5, <1>6 DEF Hashed, HasHash
  <2>1. CASE c = k
    BY <1>4, <1>7, <1>8, <2>1
  <2>2. CASE c # k
    BY <1>2, <1>4, <1>8, <2>2 DEF Hashed, HasHash, k
  <2> QED  BY <2>1, <2>2
<1>10. Unhashed'
  <2> HIDE DEF n
  <2> SUFFICES ASSUME NEW c \in 0 .. n, c >= k + 1, computed'[c + 1] = bpkg.chunks[c + 1].hash
               PROVE  c \in stale \/ InReach(c)
    BY <1>1, <1>5, <1>6 DEF Unhashed, HasHash
  <2>1. c # k /\ c >= k
    BY <1>2
  <2> QED  BY <1>4, <1>8, <2>1 DEF Unhashed, HasHash, k
<1> QED  BY <1>1, <1>4, <1>6, <1>9, <1>10 DEF Progress

\* When no more blocks are hashed, the leaves with the right hash are right.
LEMMA DoneIsBetween ==
  ASSUME Typed, Progress, Claimed, stage = "walk"
  PROVE  Done \in SUBSET Leaves(n) /\ Between(ChunksOf(Done))
<1>1. /\ begun \subseteq Whole /\ Hashed /\ Unhashed /\ query.next \in Nat
      /\ \A c \in begun : c < query.next
      /\ LInv /\ load = "loaded" /\ FileTyped /\ Regular
  BY DEF Progress, Claimed, Typed, ControlInv, Control
<1>2. Whole = WholeIn(file) /\ Whole \subseteq 0 .. n
  <2>1. Whole = WholeIn(file)
    BY DEF Whole, WholeIn
  <2> QED  BY <1>1, <2>1, RegularWhole DEF FileTyped
<1>3. n \in Nat
  BY <1>1, LoadedFacts
<1>4. Done = {i \in Leaves(n) : computed[i - n + 1] = bpkg.chunks[i - n + 1].hash}
  BY DEF Done, ChunkOf
<1> HIDE DEF n
<1>5. \A i \in Leaves(n) : i - n \in 0 .. n
  BY <1>3 DEF Leaves
<1>6. \A c \in 0 .. n : c + n \in Leaves(n) /\ (c + n) - n = c
  BY <1>1, <1>3 DEF Leaves
<1>7. ChunksOf(Done) \subseteq Whole \cup stale
  <2> SUFFICES ASSUME NEW c \in ChunksOf(Done) PROVE c \in Whole \cup stale
    OBVIOUS
  <2>1. c \in 0 .. n /\ HasHash(c)
    BY <1>4, <1>5 DEF ChunksOf, HasHash
  <2>2. CASE c < query.next
    BY <1>1, <2>1, <2>2 DEF Hashed
  <2>3. CASE c >= query.next
    BY <1>1, <2>1, <2>3 DEF Unhashed
  <2>4. c \in Int
    BY <1>3, <2>1
  <2> QED  BY <1>1, <2>2, <2>3, <2>4
<1>8. ASSUME NEW c \in begun PROVE c \in ChunksOf(Done)
  <2>1. c \in 0 .. n /\ computed[c + 1] = bpkg.chunks[c + 1].hash
    BY <1>1, <1>2 DEF Hashed, HasHash
  <2> DEFINE i == c + n
  <2>2. i \in Leaves(n) /\ i - n = c
    BY <1>6, <2>1
  <2> HIDE DEF i
  <2>3. i \in Done
    BY <1>4, <2>1, <2>2
  <2> QED  BY <2>2, <2>3 DEF ChunksOf
<1> QED  BY <1>4, <1>7, <1>8 DEF Between

LEMMA FileKeepsProgress ==
  ASSUME Typed, Progress, HashShown, FileChanges
  PROVE  Progress' /\ HashShown'
<1>1. UNCHANGED <<bpkg, text, load, computed, stage, query, begun, stale, answer>>
  BY DEF FileChanges, loadVars
<1>2. /\ n' = n /\ Claimed' = Claimed /\ Value' = Value
      /\ \A nodes : ValuesOf(nodes)' = ValuesOf(nodes)
  BY <1>1 DEF n, Claimed, Regular, Value, ValuesOf, ChunkOf
<1>3. CASE stage \in {"hash", "walk", "print"} /\ Claimed
  <2>1. /\ LInv /\ load = "loaded" /\ Regular /\ FileTyped
    BY <1>3 DEF Typed, ControlInv, Control, Claimed
  <2>2. PICK u \in 1 .. FileMax : Received(u)
    BY <1>3 DEF FileChanges
  <2>3. Whole \subseteq Whole' /\ \A c \in 0 .. n : InReach(c) => InReach(c)'
    BY <1>1, <2>1, <2>2, WholeGrows
  <2> HIDE DEF n, Value, ValuesOf
  <2>4. \A c : HasHash(c)' = HasHash(c)
    BY <1>1 DEF HasHash
  <2>5. Progress'
    BY <1>1, <1>2, <1>3, <2>3, <2>4 DEF Progress, Hashed, Unhashed
  <2>6. \A done : Between(ChunksOf(done)) => Between(ChunksOf(done))'
    BY <1>1, <1>2, <2>3 DEF Between, ChunksOf
  <2>7. HashShown'
    BY <1>1, <1>2, <1>3, <2>6 DEF HashShown
  <2> QED  BY <2>5, <2>7
<1>4. CASE ~(stage \in {"hash", "walk", "print"} /\ Claimed)
  BY <1>1, <1>2, <1>4 DEF Progress, HashShown
<1> QED  BY <1>3, <1>4

LEMMA QueryKeepsProgress ==
  ASSUME Typed, Progress, HashShown, QueryPackage
  PROVE  Progress' /\ HashShown'
<1>1. UNCHANGED <<configVars, loadVars, program, bpkg>> /\ n' = n
  BY DEF QueryPackage, loadVars, n
<1>2. CASE HashBlock
  <2>1. stage' = "hash" /\ (Claimed' => Claimed)
    BY <1>1, <1>2 DEF HashBlock, Typed, ControlInv, Control, Claimed, Regular, n
  <2>2. CASE Claimed
    BY <1>1, <1>2, <2>1, <2>2, BlockHashed DEF HashShown
  <2> QED  BY <2>1, <2>2 DEF Progress, HashShown
<1>3. CASE HashBeyond
  BY <1>3 DEF HashBeyond, Progress, HashShown
<1>4. CASE (ReadFails \/ HashingEnds) /\ Claimed
  <2>1. /\ stage = "hash" /\ stage' = "walk" /\ UNCHANGED <<file, computed, query>>
        /\ \/ /\ begun' = {c \in begun : c < query.next}
              /\ stale' = {c \in Believed : c >= query.next}
           \/ ~BlockThere /\ UNCHANGED <<begun, stale>>
    BY <1>4 DEF ReadFails, HashingEnds
  <2>2. Whole' = Whole /\ \A c : HasHash(c)' = HasHash(c)
    BY <1>1, <2>1 DEF Whole, HasHash
  <2>3. begun \subseteq Whole /\ Hashed /\ Unhashed
    BY <1>4, <2>1 DEF Progress
  <2>4. LInv /\ load = "loaded" /\ Regular /\ query.next \in Nat /\ n \in Nat /\ FileTyped
    BY <1>4, <2>1, LoadedFacts DEF Typed, ControlInv, Control, Claimed
  <2>5. \A c \in Whole : c \in 0 .. n /\ InReach(c)
    <3>1. Whole = WholeIn(file)
      BY DEF Whole, WholeIn
    <3> QED  BY <2>4, <3>1, RegularWhole DEF FileTyped, InReach
  <2>6. begun' \subseteq begun /\ \A c \in begun' : c < query.next
    BY <2>1, <2>3, <2>4, <2>5, ReachEnds
  <2>7. \A c \in 0 .. n : c >= query.next /\ HasHash(c) => c \in stale'
    <3>1. CASE stale' = {c \in Believed : c >= query.next}
      BY <3>1 DEF Believed, HasHash
    <3>2. CASE ~BlockThere /\ stale' = stale
      <4>1. \A c \in 0 .. n : c >= query.next => ~InReach(c)
        <5> SUFFICES ASSUME NEW c \in 0 .. n, c >= query.next, InReach(c) PROVE FALSE
          OBVIOUS
        <5>1. c < query.next
          BY <2>4, <3>2, ReachEnds
        <5> HIDE DEF n
        <5> QED  BY <2>4, <5>1
      <4> QED  BY <2>3, <3>2, <4>1 DEF Unhashed
    <3> QED  BY <2>1, <3>1, <3>2
  <2> HIDE DEF n
  <2>8. Hashed' /\ Unhashed'
    BY <1>1, <2>1, <2>2, <2>3, <2>6, <2>7 DEF Hashed, Unhashed
  <2> QED  BY <2>1, <2>2, <2>3, <2>6, <2>8 DEF Progress, HashShown
<1>9. CASE (ReadFails \/ HashingEnds) /\ ~Claimed
  BY <1>1, <1>9 DEF ReadFails, HashingEnds, Progress, HashShown, Claimed, Regular, n
<1>5. CASE ~(HashBlock \/ HashBeyond \/ ReadFails \/ HashingEnds)
  <2>1. /\ stage = "walk" /\ UNCHANGED <<file, query, begun, stale>>
        /\ stage' = "print" /\ query.kind \in Hashing =>
              answer' = ValuesOf(IF query.kind = "chunk_check" THEN InOrder(n, 0, Done)
                                 ELSE MinHashFind(n, Done))
    BY <1>5, QueryAnswer DEF Typed
  <2>2. stage' \in {"print", "undefined"}
    BY <1>5 DEF QueryPackage, QueryStep, GetAllHashes, GetCompletedChunks, GetMinCompletedHashes,
       GetChunkHashesFrom, Walked, Show
  <2>3. Claimed' = Claimed /\ Whole' = Whole /\ (\A done : ChunksOf(done)' = ChunksOf(done))
        /\ \A nodes : ValuesOf(nodes)' = ValuesOf(nodes)
    BY <1>1, <2>1 DEF Claimed, Regular, Whole, n, ChunksOf, ValuesOf, Value, ChunkOf
  <2>4. CASE Claimed /\ stage' = "print"
    <3> DEFINE done == Done
    <3>1. done \in SUBSET Leaves(n) /\ Between(ChunksOf(done))
      BY <2>1, <2>4, DoneIsBetween
    <3>2. answer' = ValuesOf(IF query.kind = "chunk_check" THEN InOrder(n, 0, done) ELSE MinHashFind(n, done))
      BY <2>1, <2>4 DEF Claimed
    <3> HIDE DEF done, n, ValuesOf, ChunksOf
    <3> QED  BY <1>1, <2>1, <2>3, <2>4, <3>1, <3>2 DEF Progress, HashShown, Between
  <2> QED  BY <2>2, <2>3, <2>4 DEF Progress, HashShown
<1> QED  BY <1>2, <1>3, <1>4, <1>5, <1>9

\* A query that starts has hashed nothing yet.
LEMMA AskKeepsProgress ==
  ASSUME Typed, Packages \/ Loaded
  PROVE  Progress' /\ HashShown'
<1>1. /\ UNCHANGED <<bpkg, file, load>> /\ begun' = Whole /\ query'.next = 0
      /\ stage' \in {"hash", "check", "walk"} /\ (stage' = "walk" => query'.kind \notin Hashing)
      /\ \/ computed' = computed /\ stale' = OutOfReach
         \/ computed' = NotComputed
      /\ load = "loaded"
  BY DEF Packages, Ask, Loaded, Typed, ControlInv, Control, loadVars
<1>2. Whole' = Whole /\ n' = n /\ Regular' = Regular
  BY <1>1 DEF Whole, Regular, n
<1>3. CASE Regular /\ stage' = "hash"
  <2>1. /\ LInv /\ FileTyped /\ n \in Nat /\ BlockSize \in Nat /\ BlockSize > 0
        /\ \A c \in 0 .. n : /\ At(c) \in Nat
             /\ bpkg.chunks[c + 1] = [hash |-> OwnPart(c), offset |-> At(c), size |-> BlockSize]
    BY <1>1, <1>3, RegularFacts DEF Typed, ControlInv
  <2>2. \A c \in 0 .. n : /\ bpkg.chunks[c + 1].hash = OwnPart(c) /\ bpkg.chunks[c + 1].offset = At(c)
                         /\ bpkg.chunks[c + 1].size = BlockSize
    <3> HIDE DEF n
    <3> SUFFICES ASSUME NEW c \in 0 .. n
                 PROVE  /\ bpkg.chunks[c + 1].hash = OwnPart(c) /\ bpkg.chunks[c + 1].offset = At(c)
                        /\ bpkg.chunks[c + 1].size = BlockSize
      OBVIOUS
    <3>1. bpkg.chunks[c + 1] = [hash |-> OwnPart(c), offset |-> At(c), size |-> BlockSize]
      BY <2>1
    <3> QED  BY <3>1
  <2>3. ASSUME NEW c \in 0 .. n, computed'[c + 1] = bpkg.chunks[c + 1].hash
        PROVE  c \in stale' \/ InReach(c)
    <3>1. computed' = computed /\ stale' = OutOfReach
      <4>1. OwnPart(c) # <<>>
        <5>1. 1 \in DOMAIN OwnPart(c)
          BY <2>1 DEF OwnPart
        <5> QED  BY <5>1
      <4>2. NotComputed[c + 1] = <<>>
        <5> HIDE DEF n
        <5> QED  BY <2>1 DEF NotComputed
      <4> HIDE DEF n, NotComputed
      <4> QED  BY <1>1, <2>2, <2>3, <4>1, <4>2
    <3>2. file # NULL => Len(file) \in Nat
      BY <2>1, LenProperties DEF FileTyped
    <3>3. CASE ~InReach(c)
      <4>1. file = NULL \/ bpkg.chunks[c + 1].offset + bpkg.chunks[c + 1].size > Len(file)
        <5> HIDE DEF n
        <5>1. bpkg.chunks[c + 1].offset + bpkg.chunks[c + 1].size = At(c) + BlockSize
              /\ At(c) + BlockSize \in Nat
          <6>1. At(c) \in Nat /\ BlockSize \in Nat
            BY <2>1
          <6>2. bpkg.chunks[c + 1].offset = At(c) /\ bpkg.chunks[c + 1].size = BlockSize
            BY <2>2
          <6> QED  BY <6>1, <6>2
        <5> QED  BY <3>2, <3>3, <5>1 DEF InReach
      <4> QED  BY <2>3, <3>1, <4>1 DEF OutOfReach, Believed
    <3> QED  BY <3>3
  <2>4. \A c : InReach(c)' = InReach(c)
    BY <1>1 DEF InReach, At, BlockSize
  <2> HIDE DEF n
  <2>5. Unhashed'
    BY <1>1, <1>2, <1>3, <2>3, <2>4 DEF Unhashed, HasHash
  <2>6. Hashed'
    <3>1. \A c \in 0 .. n : ~(c < 0)
      BY <2>1
    <3> QED  BY <1>1, <1>2, <3>1 DEF Hashed
  <2> QED  BY <1>1, <1>2, <1>3, <2>5, <2>6 DEF Progress, HashShown
<1> QED  BY <1>1, <1>2, <1>3 DEF Progress, HashShown, Claimed

LEMMA NextProgress ==
  ASSUME Typed, Progress, HashShown, [Next]_vars
  PROVE  Progress' /\ HashShown'
<1>1. CASE UNCHANGED <<bpkg, queryVars>>
  BY <1>1 DEF queryVars, Progress, HashShown, Claimed, Regular, Whole, Hashed, Unhashed, HasHash,
     InReach, At, BlockSize, Between, ChunksOf, ValuesOf, Value, ChunkOf, n
<1>2. CASE stage' \notin {"hash", "walk", "print"}
  BY <1>2 DEF Progress, HashShown
<1>3. CASE CheckFile
  <2>1. stage = "check" /\ stage' = "print" /\ query' = query
    BY <1>3 DEF CheckFile, FileCheck, FileExists, CreateFile, NothingCreated
  <2>2. query.kind = "file_check"
    BY <2>1 DEF Typed, ControlInv, Control
  <2> QED  BY <2>1, <2>2 DEF Progress, HashShown, Claimed, Hashing
<1>5. LoadPackage => stage' = "load"
  BY DEF LoadPackage, queryVars
<1>6. LoadConfig => stage' = "config"
  BY DEF LoadConfig, queryVars
<1> QED
  BY <1>1, <1>2, <1>3, <1>5, <1>6, FileKeepsProgress, QueryKeepsProgress, AskKeepsProgress
     DEF Next, MainStarts, AddPackage, RemovePackage, Invoke, Rejected, LoadUndefined, Return,
     Restart, vars, queryVars, loadVars

Answered == Typed /\ Progress /\ HashShown

LEMMA SpecAnswered == Spec => []Answered
<1>1. Init => Progress /\ HashShown
  BY DEF Init, Start, Progress, HashShown
<1>2. Typed /\ Progress /\ HashShown /\ [Next]_vars => Progress' /\ HashShown'
  BY NextProgress
<1> QED  BY <1>1, <1>2, SpecTyped, PTL DEF Spec, Answered
-----------------------------------------------------------------------------
(* What is printed.                                                        *)

LEMMA SameCardinality ==
  ASSUME NEW S, NEW T, IsFiniteSet(S), NEW f \in [S -> T],
         \A x, y \in S : f[x] = f[y] => x = y, \A y \in T : \E x \in S : f[x] = y
  PROVE  IsFiniteSet(T) /\ Cardinality(T) = Cardinality(S)
<1>1. f \in Injection(S, T)
  BY Zenon DEF Injection, IsInjective
<1>2. f \in Surjection(S, T)
  BY Zenon DEF Surjection
<1>3. ExistsBijection(S, T)
  BY <1>1, <1>2, Zenon DEF Bijection, ExistsBijection
<1> QED  BY <1>3, FS_Bijection

\* An answer lists the hashes of its nodes.
LEMMA AnswerLists ==
  ASSUME LInv, load = "loaded", NEW nodes \in Seq(Nodes(n)), NoRepeats(nodes),
         answer = ValuesOf(nodes)
  PROVE  /\ IsFiniteSet(Elems(nodes)) /\ Len(answer) = Cardinality(Elems(nodes))
         /\ {answer[k] : k \in DOMAIN answer} = {Value[i] : i \in Elems(nodes)}
<1>1. DOMAIN answer = DOMAIN nodes /\ Len(answer) = Len(nodes)
  BY ValuesAreHashes
<1>2. \A k \in DOMAIN nodes : answer[k] = Value[nodes[k]]
  BY DEF ValuesOf
<1> HIDE DEF Value
<1>3. {answer[k] : k \in DOMAIN answer} = {Value[i] : i \in Elems(nodes)}
  BY <1>1, <1>2 DEF Elems
<1> QED  BY <1>1, <1>3, LengthIsCardinality

\* The chunks of some leaves.
LEMMA ChunksOfLeaves ==
  ASSUME LInv, load = "loaded", NEW leaves \in SUBSET Leaves(n), IsFiniteSet(leaves)
  PROVE  /\ ChunksOf(leaves) \in SUBSET (0 .. n)
         /\ Cardinality(ChunksOf(leaves)) = Cardinality(leaves)
         /\ {bpkg.chunks[c + 1].hash : c \in ChunksOf(leaves)} = {Value[i] : i \in leaves}
<1>1. n \in Nat
  BY LoadedFacts
<1>2. leaves \subseteq Nodes(n)
  BY <1>1 DEF Leaves, Nodes
<1>3. \A i \in leaves : i - n \in 0 .. n /\ Value[i] = bpkg.chunks[i - n + 1].hash
  BY <1>2, NodeValue
<1> HIDE DEF n, Value
<1> DEFINE f == [i \in leaves |-> i - n]
<1>4. f \in [leaves -> ChunksOf(leaves)] /\ \A y \in ChunksOf(leaves) : \E x \in leaves : f[x] = y
  BY DEF ChunksOf
<1>5. \A x, y \in leaves : f[x] = f[y] => x = y
  <2>1. \A x, y \in leaves : x \in Int /\ y \in Int /\ f[x] = x - n /\ f[y] = y - n
    BY <1>1 DEF Leaves
  <2> QED  BY <1>1, <2>1
<1>6. Cardinality(ChunksOf(leaves)) = Cardinality(leaves)
  <2> HIDE DEF f
  <2> QED  BY <1>4, <1>5, SameCardinality
<1>7. {bpkg.chunks[c + 1].hash : c \in ChunksOf(leaves)} = {Value[i] : i \in leaves}
  BY <1>3 DEF ChunksOf
<1> QED  BY <1>3, <1>6, <1>7 DEF ChunksOf

LEMMA NodesOfLeaves == ASSUME NEW m \in Nat PROVE Leaves(m) \subseteq Nodes(m) /\ 0 \in Nodes(m)
BY DEF Leaves, Nodes

\* The chunks that pkgmain prints as complete are those that are, each once: they
\* were whole when it printed, or not read and found so before, and none is missing
\* that was whole when it began and could be read. For any number and size of
\* chunks, any file, and any writes of others meanwhile.
THEOREM CompletedIsExact == Spec => []CompletedExact
<1>1. ASSUME Answered, Printed("chunk_check"), Regular
      PROVE  \E S \in SUBSET (0 .. n) :
               /\ Between(S) /\ Len(answer) = Cardinality(S)
               /\ {answer[k] : k \in DOMAIN answer} = {bpkg.chunks[c + 1].hash : c \in S}
  <2>1. LInv /\ load = "loaded" /\ n \in Nat
    BY <1>1, LoadedFacts DEF Answered, Typed, ControlInv, Control, Printed
  <2>2. PICK done \in SUBSET Leaves(n) :
          Between(ChunksOf(done)) /\ answer = ValuesOf(InOrder(n, 0, done))
    BY <1>1 DEF Answered, HashShown, Claimed, Hashing, Printed
  <2> DEFINE nodes == InOrder(n, 0, done)
  <2>3. nodes \in Seq(Nodes(n)) /\ NoRepeats(nodes) /\ Elems(nodes) = Below(n, 0) \cap done
    BY <2>1, NodesOfLeaves, WalkVisitsEachOnce
  <2>4. Elems(nodes) = done
    BY <2>1, <2>3, NodesOfLeaves, AllBelowRoot
  <2> HIDE DEF nodes, n, ValuesOf, Value
  <2>5. answer = ValuesOf(nodes)
    BY <2>2 DEF nodes
  <2>6. /\ IsFiniteSet(done) /\ Len(answer) = Cardinality(done)
        /\ {answer[k] : k \in DOMAIN answer} = {Value[i] : i \in done}
    BY <2>1, <2>3, <2>4, <2>5, AnswerLists
  <2> QED  BY <2>1, <2>2, <2>6, ChunksOfLeaves
<1> QED  BY <1>1, SpecAnswered, PTL DEF CompletedExact

\* The minimal hashes cover what is complete, and nothing twice.
THEOREM MinHashesAreExact == Spec => []MinHashesExact
<1>1. ASSUME Answered, Printed("min_hashes"), Regular, n > 0
      PROVE  \E nodes \in SUBSET Nodes(n) :
               /\ \E S \in SUBSET Leaves(n) : Between(ChunksOf(S)) /\ nodes = Maximal(n, S)
               /\ Len(answer) = Cardinality(nodes)
               /\ {answer[k] : k \in DOMAIN answer} = {Value[i] : i \in nodes}
  <2>1. LInv /\ load = "loaded" /\ n \in Nat
    BY <1>1, LoadedFacts DEF Answered, Typed, ControlInv, Control, Printed
  <2>2. PICK done \in SUBSET Leaves(n) :
          Between(ChunksOf(done)) /\ answer = ValuesOf(MinHashFind(n, done))
    BY <1>1 DEF Answered, HashShown, Claimed, Hashing, Printed
  <2> DEFINE nodes == MinHashFind(n, done)
  <2>3. nodes \in Seq(Nodes(n)) /\ NoRepeats(nodes) /\ Elems(nodes) = Maximal(n, done)
    BY <1>1, <2>1, MinHashFindIsMaximal
  <2> HIDE DEF nodes, n, ValuesOf, Value
  <2>4. answer = ValuesOf(nodes)
    BY <2>2 DEF nodes
  <2>5. /\ Len(answer) = Cardinality(Elems(nodes))
        /\ {answer[k] : k \in DOMAIN answer} = {Value[i] : i \in Elems(nodes)}
    BY <2>1, <2>3, <2>4, AnswerLists
  <2>6. Maximal(n, done) \subseteq Nodes(n)
    BY DEF Maximal
  <2> QED  BY <2>2, <2>3, <2>5, <2>6
<1> QED  BY <1>1, SpecAnswered, PTL DEF MinHashesExact

\* No hash of the file but the first one is that of the root: it is a hash of all
\* the others.
RootIsUnique ==
  \A t \in Texts : WellFormed(t) /\ t[4].num > 0 =>
    \A l \in ListLines(t) : t[l].hash = t[6].hash => l = 6

\* All hashes of the file are different, as those of different contents are.
DistinctHashes ==
  \A t \in Texts : WellFormed(t) =>
    \A k, l \in ListLines(t) : t[k].hash = t[l].hash => k = l

\* Different nodes are different lines, and every line is a node.
LEMMA LinesOfNodes ==
  ASSUME LInv, load = "loaded"
  PROVE  /\ \A i, j \in Nodes(n) : LineOf(i) = LineOf(j) => i = j
         /\ n > 0 => \A i \in Nodes(n) : LineOf(i) = 6 <=> i = 0
         /\ bpkg.nchunks = n + 1 => \A l \in ListLines(text) : \E i \in Nodes(n) : LineOf(i) = l
<1>1. /\ n \in Nat /\ n = text[4].num /\ Len(text) \in Nat
      /\ Len(text) <= n + 7 + bpkg.nchunks
  BY LoadedFacts
<1> DEFINE len == Len(text)
<1> HIDE DEF n, len
<1>2. /\ \A i, j \in Nodes(n) : LineOf(i) = LineOf(j) => i = j
      /\ n > 0 => \A i \in Nodes(n) : LineOf(i) = 6 <=> i = 0
  BY <1>1 DEF LineOf, Nodes
<1>3. ASSUME bpkg.nchunks = n + 1, NEW l \in ListLines(text)
      PROVE  \E i \in Nodes(n) : LineOf(i) = l
  <2>1. len \in Nat /\ len <= n + 7 + (n + 1) /\ l \in (6 .. 5 + n) \cup (n + 8 .. len)
    BY <1>1, <1>3 DEF ListLines, len
  <2>2. CASE l \in 6 .. 5 + n
    <3>1. l - 6 \in Nodes(n) /\ l - 6 < n /\ 6 + (l - 6) = l
      BY <1>1, <2>2 DEF Nodes
    <3>2. LineOf(l - 6) = l
      BY <3>1 DEF LineOf
    <3> QED  BY <3>1, <3>2
  <2>3. CASE l \in n + 8 .. len
    <3>0. n \in Nat /\ l \in Int /\ n + 8 <= l /\ l <= len /\ len \in Nat /\ len <= n + 7 + (n + 1)
      BY <1>1, <2>1, <2>3
    <3>1. l - 8 \in Nodes(n) /\ ~(l - 8 < n) /\ 8 + (l - 8) = l
      BY <3>0 DEF Nodes
    <3>2. LineOf(l - 8) = l
      BY <3>1 DEF LineOf
    <3> QED  BY <3>1, <3>2
  <2> QED  BY <2>1, <2>2, <2>3
<1> QED  BY <1>2, <1>3

\* PACKAGES says COMPLETED of every file that is wholly there and can be read,
\* and of another one only if all that is not there was found complete before and
\* was not read any more.
THEOREM StatusIsExact == ASSUME RootIsUnique PROVE Spec => []StatusExact
<1>1. ASSUME Answered, Printed("status"), Regular, n > 0
      PROVE  /\ CompletedStatus(answer) => 0 .. n \subseteq Whole \cup stale
             /\ begun = 0 .. n => CompletedStatus(answer)
  <2>1. /\ LInv /\ load = "loaded" /\ n \in Nat /\ FileTyped
        /\ text \in Texts /\ WellFormed(text) /\ n = text[4].num
    BY <1>1, LoadedFacts DEF Answered, Typed, ControlInv, Control, Printed
  <2>2. PICK done \in SUBSET Leaves(n) :
          Between(ChunksOf(done)) /\ answer = ValuesOf(MinHashFind(n, done))
    BY <1>1 DEF Answered, HashShown, Claimed, Hashing, Printed
  <2> DEFINE nodes == MinHashFind(n, done)
  <2>3. nodes \in Seq(Nodes(n)) /\ Elems(nodes) = Maximal(n, done)
    BY <1>1, <2>1, MinHashFindIsMaximal
  <2>4. Leaves(n) \subseteq Nodes(n) /\ 0 \in Nodes(n) /\ LeavesBelow(n, 0) = Leaves(n)
        /\ \A i \in Leaves(n) : i \in Int /\ i - n \in 0 .. n
    BY <2>1, NodesOfLeaves, AncestorBounds DEF LeavesBelow, Leaves
  <2>6. \A i \in Nodes(n) : Value[i] = Value[0] => i = 0
    <3>1. \A i \in Nodes(n) : Value[i] = text[LineOf(i)].hash /\ LineOf(i) \in ListLines(text)
      BY <2>1, NodeValue
    <3>2. \A i \in Nodes(n) : LineOf(i) = 6 <=> i = 0
      BY <1>1, <2>1, LinesOfNodes
    <3> HIDE DEF n, Value
    <3>3. Value[0] = text[6].hash
      BY <2>4, <3>1, <3>2
    <3> QED  BY <1>1, <2>1, <3>1, <3>2, <3>3 DEF RootIsUnique
  <2>7. /\ DOMAIN answer = DOMAIN nodes /\ DOMAIN nodes = 1 .. Len(nodes) /\ Len(nodes) \in Nat
        /\ \A k \in DOMAIN nodes : answer[k] = Value[nodes[k]]
        /\ answer # <<>> <=> Len(nodes) > 0
    <3>1. DOMAIN nodes = 1 .. Len(nodes) /\ Len(nodes) \in Nat
      BY <2>3, LenProperties
    <3>2. /\ DOMAIN answer = DOMAIN nodes /\ answer \in Seq(Hashes) /\ Len(answer) = Len(nodes)
          /\ \A k \in DOMAIN nodes : answer[k] = Value[nodes[k]]
      <4>1. \A k \in DOMAIN nodes : answer[k] = Value[nodes[k]]
        BY <2>2 DEF ValuesOf
      <4> QED  BY <2>1, <2>2, <2>3, <4>1, ValuesAreHashes
    <3> HIDE DEF nodes, Hashes
    <3>3. answer # <<>> <=> Len(nodes) > 0
      BY <3>1, <3>2, EmptySeq
    <3> QED  BY <3>1, <3>2, <3>3
  <2> HIDE DEF nodes, n, Value, ValuesOf
  <2>8. ASSUME CompletedStatus(answer) PROVE 0 .. n \subseteq Whole \cup stale
    <3>1. 1 \in DOMAIN nodes /\ Value[nodes[1]] = Value[0]
      BY <2>7, <2>8 DEF CompletedStatus
    <3>2. nodes[1] \in Maximal(n, done)
      BY <2>3, <3>1 DEF Elems
    <3>3. nodes[1] = 0
      BY <2>6, <3>1, <3>2 DEF Maximal
    <3>4. Leaves(n) \subseteq done
      BY <2>4, <3>2, <3>3 DEF Maximal
    <3>5. \A c \in 0 .. n : c + n \in Leaves(n) /\ (c + n) - n = c
      BY <2>1 DEF Leaves
    <3>6. 0 .. n \subseteq ChunksOf(done)
      BY <3>4, <3>5 DEF ChunksOf
    <3> QED  BY <2>2, <3>6 DEF Between
  <2>9. ASSUME begun = 0 .. n PROVE CompletedStatus(answer)
    <3>1. Leaves(n) \subseteq done
      <4>1. \A i \in Leaves(n) : \E j \in done : i - n = j - n
        BY <2>2, <2>4, <2>9 DEF Between, ChunksOf
      <4>2. \A i \in Leaves(n), j \in done : i - n = j - n => i = j
        BY <2>1, <2>4
      <4> QED  BY <4>1, <4>2
    <3>2. Maximal(n, done) = {0}
      BY <2>4, <3>1 DEF Maximal, LeavesBelow
    <3>3. \A k \in DOMAIN nodes : nodes[k] = 0
      BY <2>3, <3>2 DEF Elems
    <3>4. \E k : k \in DOMAIN nodes
      BY <2>3, <3>2 DEF Elems
    <3>5. Len(nodes) > 0 /\ 1 \in DOMAIN nodes
      BY <2>7, <3>4
    <3> QED  BY <2>7, <3>3, <3>5 DEF CompletedStatus
  <2> QED  BY <2>8, <2>9
<1> QED  BY <1>1, SpecAnswered, PTL DEF StatusExact
\* Every hash of the two lists of the file is listed as often as it is there.
THEOREM AllHashesAreListed == Spec => []AllHashesOnce
<1> DEFINE lines == (6 .. 5 + n) \cup (n + 8 .. Len(text))
<1>1. ASSUME Answered, Printed("all_hashes")
      PROVE  /\ Len(answer) = Cardinality(lines)
             /\ \A l \in lines : Cardinality({k \in DOMAIN answer : answer[k] = text[l].hash})
                               = Cardinality({i \in lines : text[i].hash = text[l].hash})
  <2> DEFINE order == InOrder(n, 0, Nodes(n))
             at == [k \in DOMAIN order |-> LineOf(order[k])]
  <2>1. /\ LInv /\ load = "loaded" /\ bpkg.nchunks = n + 1 /\ answer = ValuesOf(order)
    BY <1>1 DEF Answered, Typed, ControlInv, Control, Printed, ListShown
  <2>2. n \in Nat /\ lines = ListLines(text)
    BY <2>1, LoadedFacts DEF ListLines
  <2>3. order \in Seq(Nodes(n)) /\ NoRepeats(order) /\ Elems(order) = Nodes(n)
    <3>1. 0 \in Nodes(n) /\ Below(n, 0) = Nodes(n)
      BY <2>2, AllBelowRoot, NodesOfLeaves
    <3>2. order \in Seq(Nodes(n)) /\ NoRepeats(order) /\ Elems(order) = Below(n, 0) \cap Nodes(n)
      BY <2>2, <3>1, WalkVisitsEachOnce
    <3> QED  BY <3>1, <3>2
  <2>4. DOMAIN answer = DOMAIN order /\ Len(answer) = Len(order)
    BY <2>1, <2>3, ValuesAreHashes
  <2>5. \A k \in DOMAIN order : order[k] \in Nodes(n) /\ answer[k] = Value[order[k]]
    <3>1. \A k \in DOMAIN order : answer[k] = Value[order[k]]
      BY <2>1 DEF ValuesOf
    <3> HIDE DEF order, Value, n
    <3> QED  BY <2>3, <3>1 DEF Elems
  <2>6. \A i \in Nodes(n) : LineOf(i) \in lines /\ Value[i] = text[LineOf(i)].hash
    BY <2>1, <2>2, NodeValue
  <2>7. /\ \A i, j \in Nodes(n) : LineOf(i) = LineOf(j) => i = j
        /\ \A l \in lines : \E i \in Nodes(n) : LineOf(i) = l
    BY <2>1, <2>2, LinesOfNodes
  <2> HIDE DEF lines, order, n, Value
  <2>8. IsFiniteSet(DOMAIN order) /\ Cardinality(DOMAIN order) = Len(order)
    <3>1. DOMAIN order = 1 .. Len(order) /\ Len(order) \in Nat
      BY <2>3, LenProperties
    <3>2. 1 \in Int /\ Len(order) \in Int /\ (1 > Len(order) => Len(order) = 0)
      BY <3>1
    <3> QED  BY <3>1, <3>2, FS_Interval
  <2>9. /\ at \in [DOMAIN order -> lines]
        /\ \A k \in DOMAIN order : text[at[k]].hash = answer[k]
        /\ \A j, k \in DOMAIN order : at[j] = at[k] => j = k
        /\ \A l \in lines : \E k \in DOMAIN order : at[k] = l
    <3>1. /\ at \in [DOMAIN order -> lines] /\ \A k \in DOMAIN order : text[at[k]].hash = answer[k]
      BY <2>5, <2>6
    <3>2. \A j, k \in DOMAIN order : at[j] = at[k] => j = k
      BY <2>3, <2>5, <2>7 DEF NoRepeats
    <3>3. \A l \in lines : \E k \in DOMAIN order : at[k] = l
      BY <2>3, <2>7 DEF Elems
    <3> QED  BY <3>1, <3>2, <3>3
  <2> HIDE DEF at
  <2>10. Cardinality(lines) = Len(answer)
    BY <2>4, <2>8, <2>9, SameCardinality
  <2>11. ASSUME NEW l \in lines
         PROVE  Cardinality({k \in DOMAIN answer : answer[k] = text[l].hash})
                  = Cardinality({i \in lines : text[i].hash = text[l].hash})
    <3> DEFINE S == {k \in DOMAIN answer : answer[k] = text[l].hash}
               T == {i \in lines : text[i].hash = text[l].hash}
               f == [k \in S |-> at[k]]
    <3>1. IsFiniteSet(S)
      BY <2>4, <2>8, FS_Subset
    <3>2. f \in [S -> T]
      BY <2>4, <2>9
    <3>3. \A j, k \in S : f[j] = f[k] => j = k
      BY <2>4, <2>9
    <3>4. \A i \in T : \E k \in S : f[k] = i
      BY <2>4, <2>9
    <3> HIDE DEF S, T, f
    <3>5. Cardinality(T) = Cardinality(S)
      BY <3>1, <3>2, <3>3, <3>4, SameCardinality
    <3> QED  BY <3>5 DEF S, T
  <2> QED  BY <2>10, <2>11
<1> QED  BY <1>1, SpecAnswered, PTL DEF AllHashesOnce

\* The chunks below a node, and in the order of the file if the tree is perfect.
THEOREM SubtreeIsComplete == ASSUME DistinctHashes PROVE Spec => []SubtreeChunks
<1>1. ASSUME Answered, Printed("hashes_of"), Regular, NEW i \in Nodes(n), Value[i] = query.hash
      PROVE  LET below == ChunksOf(LeavesBelow(n, i))
             IN /\ Len(answer) = Cardinality(below)
                /\ {answer[k] : k \in DOMAIN answer} = {bpkg.chunks[c + 1].hash : c \in below}
                /\ Perfect(n) => \A j, k \in DOMAIN answer : j < k => answer[j][1] < answer[k][1]
  <2> DEFINE nodes == InOrder(n, i, Leaves(n))
             leaves == LeavesBelow(n, i)
  <2>1. LInv /\ load = "loaded"
    BY <1>1 DEF Answered, Typed, ControlInv, Control, Printed
  <2>2. /\ n \in Nat /\ text \in Texts /\ WellFormed(text) /\ n = text[4].num
    BY <2>1, LoadedFacts
  <2>3. \A j \in Nodes(n) : Value[j] = Value[i] => j = i
    <3>1. \A j \in Nodes(n) : Value[j] = text[LineOf(j)].hash /\ LineOf(j) \in ListLines(text)
      BY <2>1, NodeValue
    <3>2. \A j \in Nodes(n) : LineOf(j) = LineOf(i) => j = i
      BY <2>1, LinesOfNodes
    <3> HIDE DEF n, Value
    <3> QED  BY <2>2, <3>1, <3>2 DEF DistinctHashes
  <2>4. FindNode(n, Value, query.hash) = {i}
    <3> HIDE DEF n, Value
    <3>1. FindNode(n, Value, Value[i]) = {i}
      <4>1. n \in Nat /\ i \in Nodes(n) /\ \A j \in Nodes(n) : Value[j] = Value[i] => j = i
        BY <2>2, <2>3
      <4> QED  BY ONLY <4>1, FindNodeIs, Zenon
    <3> QED  BY <1>1, <3>1
  <2>5. answer = ValuesOf(nodes)
    BY <1>1, <2>4 DEF Answered, Typed, ListShown
  <2>6. nodes \in Seq(Nodes(n)) /\ NoRepeats(nodes) /\ Elems(nodes) = leaves
    <3>1. nodes \in Seq(Nodes(n)) /\ NoRepeats(nodes) /\ Elems(nodes) = Below(n, i) \cap Leaves(n)
      BY <2>2, WalkVisitsEachOnce
    <3> QED  BY <2>2, <3>1, NodesOfLeaves DEF LeavesBelow, Below
  <2>7. leaves \in SUBSET Leaves(n)
    BY DEF LeavesBelow
  <2>8. DOMAIN answer = DOMAIN nodes /\ \A k \in DOMAIN nodes : answer[k] = Value[nodes[k]]
    BY <2>5 DEF ValuesOf
  <2>9. \A k \in DOMAIN nodes : nodes[k] \in Leaves(n)
    BY <2>6, <2>7 DEF Elems
  <2>10. ASSUME NEW k \in DOMAIN nodes
         PROVE  answer[k] = OwnPart(nodes[k] - n)
    <3> DEFINE leaf == nodes[k]
    <3>1. leaf \in Leaves(n) /\ leaf \in Nodes(n)
      BY <2>2, <2>9, NodesOfLeaves
    <3>2. leaf - n \in 0 .. n /\ answer[k] = bpkg.chunks[(leaf - n) + 1].hash
      BY <2>1, <2>8, <3>1, NodeValue
    <3> HIDE DEF leaf, n
    <3>3. bpkg.chunks[(leaf - n) + 1] = [hash |-> OwnPart(leaf - n), offset |-> At(leaf - n), size |-> BlockSize]
      BY <1>1, <2>1, <3>2, RegularFacts
    <3>4. bpkg.chunks[(leaf - n) + 1].hash = OwnPart(leaf - n)
      BY <3>3
    <3> QED  BY <3>2, <3>4 DEF leaf
  <2>11. BlockSize \in Nat /\ BlockSize > 0
    BY <1>1, <2>1, RegularFacts
  <2>12. Perfect(n) => Ascending(nodes)
    BY <2>2, LeavesInOrder
  <2> HIDE DEF nodes, leaves, n, Value, ValuesOf
  <2>13. ASSUME Perfect(n), NEW j \in DOMAIN answer, NEW k \in DOMAIN answer, j < k
         PROVE  answer[j][1] < answer[k][1]
    <3> DEFINE a == nodes[j] - n
               b == nodes[k] - n
    <3>1. nodes[j] < nodes[k] /\ nodes[j] \in Int /\ nodes[k] \in Int
      BY <2>2, <2>8, <2>9, <2>12, <2>13 DEF Ascending, Leaves
    <3>2. a \in Int /\ b \in Int /\ a < b
      BY <2>2, <3>1
    <3>3. answer[j] = OwnPart(a) /\ answer[k] = OwnPart(b)
      BY <2>8, <2>10
    <3> HIDE DEF a, b
    <3>4. answer[j][1] = a * BlockSize + 1 /\ answer[k][1] = b * BlockSize + 1
      BY <2>11, <3>3 DEF OwnPart, At
    <3>5. b - a \in Nat /\ b - a > 0 /\ (b - a) * BlockSize > 0 /\ b * BlockSize = a * BlockSize + (b - a) * BlockSize
      BY <2>11, <3>2
    <3>6. a * BlockSize \in Int /\ (b - a) * BlockSize \in Int
      BY <2>11, <3>2, <3>5
    <3> QED  BY <3>4, <3>5, <3>6
  <2>14. /\ IsFiniteSet(leaves) /\ Len(answer) = Cardinality(leaves)
         /\ {answer[k] : k \in DOMAIN answer} = {Value[x] : x \in leaves}
    BY <2>1, <2>5, <2>6, AnswerLists
  <2>15. /\ Cardinality(ChunksOf(leaves)) = Cardinality(leaves)
         /\ {bpkg.chunks[c + 1].hash : c \in ChunksOf(leaves)} = {Value[x] : x \in leaves}
    BY <2>1, <2>7, <2>14, ChunksOfLeaves
  <2> QED  BY <2>13, <2>14, <2>15 DEF leaves
<1>2. Answered => SubtreeChunks
  <2> HIDE DEF n, Value
  <2> QED  BY <1>1 DEF SubtreeChunks
<1> QED  BY <1>2, SpecAnswered, PTL
=============================================================================
