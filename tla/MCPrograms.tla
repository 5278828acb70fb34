----------------------------- MODULE MCPrograms -----------------------------
(* Instances of Programs for TLC: configurations, and .bpkg files that are *)
(* well formed or have one mistake.                                        *)
EXTENDS Programs, SequencesExt

\* A .bpkg file of chunks of these sizes; the hash of inner node i is <<-1 - i>>.
Offset(sizes, c) == FoldSeq(LAMBDA x, y : x + y, 0, SubSeq(sizes, 1, c - 1))
ChunkLine(sizes, c) ==
  Line("chunk", Offset(sizes, c),
       [k \in 1 .. sizes[c] |-> Offset(sizes, c) + k], sizes[c])
KeyLine(key, num) == Line(key, num, <<>>, 0)
File(sizes) ==
  LET m == Len(sizes)
  IN <<KeyLine("ident", 1), KeyLine("filename", 1),
       KeyLine("size", Offset(sizes, m + 1)), KeyLine("nhashes", m - 1), KeyLine("hashes", 0)>>
     \o [i \in 1 .. m - 1 |-> Line("hash", 0, <<-i>>, 0)]
     \o <<KeyLine("nchunks", m), KeyLine("chunks", 0)>>
     \o [c \in 1 .. m |-> ChunkLine(sizes, c)]

\* One mistake: the file cut, a line dropped, doubled, or swapped with the next
\* one, a count or a size changed or not a number.
Cut(t) == {SubSeq(t, 1, k) : k \in 0 .. Len(t) - 1}
Dropped(t) == {RemoveAt(t, k) : k \in DOMAIN t}
Doubled(t) == {InsertAt(t, k, t[k]) : k \in DOMAIN t}
Moved(t) == {[t EXCEPT ![k] = t[k + 1], ![k + 1] = t[k]] : k \in 1 .. Len(t) - 1}
Counted(t) ==
  UNION {{[t EXCEPT ![k].num = NotInt], [t EXCEPT ![k].num = @ + 1], [t EXCEPT ![k].size = 0],
          [t EXCEPT ![k].size = NotInt]} : k \in DOMAIN t}
Mistaken(t) ==
  Cut(t) \cup Dropped(t) \cup Doubled(t) \cup Moved(t) \cup Counted(t)
  \cup {InsertAt(t, 3, KeyLine("comment", 0))}

One == File(<<1>>)
Two == File(<<1, 1>>)
Three == File(<<1, 1, 1>>)
Four == File(<<1, 1, 1, 1>>)
Uneven == File(<<2, 1>>)
Wide == File(<<2, 2>>)

\* Configurations: lines in any order and number, up to three of them.
Lines ==
  {Setting("directory", 0, d) : d \in {"there", "new", "denied"}}
  \cup {Setting("max_peers", k, "") : k \in {0, 2, 3, 18}}
  \cup {Setting("port", k, "") : k \in {4, 5, 21, NotNumber}}
  \cup {Setting("other", 0, "")}
MCConfigs == {<<>>} \cup UNION {[1 .. k -> Lines] : k \in 1 .. 3}
Plain == <<Setting("directory", 0, "new"), Setting("max_peers", 2, ""), Setting("port", 5, "")>>

Started(p, configs, texts) == [program : {p}, config : configs, text : texts]
MCTexts == {One, Two, Three, Four, Uneven, Wide} \cup Mistaken(One)
  \cup Mistaken(Two) \cup Mistaken(Three)
MCRuns ==
  Started("btide", {Plain}, {One, Two, Three, Four, Uneven, Wide})
  \cup Started("btide", MCConfigs, {One})
  \cup Started("pkgmain", {Plain}, MCTexts)
HalvesRuns == Started("pkgmain", {Plain}, {Two, Three, Four})
=============================================================================
