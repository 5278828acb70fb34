# btide: specifications, model checking and proofs

`btide` (src/project/src) is a peer-to-peer file sharing program in C. A user
types commands (`CONNECT`, `DISCONNECT`, `ADDPACKAGE`, `REMPACKAGE`, `PACKAGES`,
`PEERS`, `FETCH`, `QUIT`). One thread reads them, one accepts connections, and
one per connected peer answers packets. A second program, `pkgmain`, checks a
downloaded file against its package. This directory models both: the parts in
which several threads or several processes meet, and the parsers, the Merkle
tree and the queries on files. The models are checked with TLC, and invariants
of them are proved with TLAPS.

Contents: [parts](#the-parts-of-the-system), [modules](#the-modules),
[Connections](#connections), [ManagedPackages](#managedpackages),
[ChunkTransfer](#chunktransfer-and-distribution),
[Programs](#programs-configload-bpkgload-packagequeries-merkletree),
[Sha256](#sha256), [runs](#the-runs),
[disagreements](#where-code-and-documentation-disagree),
[proofs](#the-proofs), [limits](#what-is-not-modelled), [plan](#plan).

## The parts of the system

| part | state | operations | works with |
|---|---|---|---|
| command thread (`main`, btide.c) | none of its own; owns every array | the eight commands | all of the below |
| listener (peer.c:216) | `new_socket` | accept, ACP, wait for ACK, add the peer | peer table |
| handlers (peer.c:361) | the socket of one peer, the packet at hand | DSN, PNG, POG, REQ, RES; leave when the peer is gone | peer table, packages, files |
| peer table (chk/helpers.c) | `peer_array`, `thread_status_array`, `thread_array`, `peer_array_lock`, `thread_status_lock` | `in_array`, `add_to_array`, `remove_from_array`, `set_thread_id`, `get_fd`, `get_thread_id`, `assign_thread` | command thread, listener, handlers |
| package table (package.c) | `managed_packages` (array, `size`, `max_size`), its lock, the `bpkg` objects | `add_package`, `remove_package`, `chunk_in_memory`, `calculate_data_len`, `package_status` | command thread, handlers |
| chunk transfer (peer.c, package.c) | the packaged files on disk, `computed_hash` of each chunk | `send_req`, `get_data_from_file`, `send_res`, `add_data_to_file` | handlers of two processes |
| Merkle tree (tree/merkletree.c) | the tree of one package | build, hash chunks, hash inner nodes, collect | package queries, transfer |
| package queries and `.bpkg` parser (chk/pkgchk.c) | a `bpkg` object | `bpkg_load`, `bpkg_file_check`, all hashes, completed chunks, minimal completed hashes, chunks below a hash | package table, pkgmain |
| config loader (config.c) | `struct config` | read three keys | command thread |
| pkgmain | none; one query on one package, then it ends | `-all_hashes`, `-chunk_check`, `-min_hashes`, `-hashes_of`, `-file_check` | parser, queries |
| SHA-256 (crypt/sha256.c) | `struct sha256_compute_data` | init, update, finalize | Merkle tree |

What is hard in it:

* **Shared tables under fine-grained locks.** Adding a peer is four critical
  sections (`in_array`, `add_to_array`, `assign_thread`, `set_thread_id`), and
  so is finding one for `DISCONNECT` or `FETCH`. Between any two of them the
  listener and the handlers may change entry, slot and descriptor. One branch
  of `handle_peers` writes `thread_status_array` with no lock (peer.c:410).
* **A join under a lock.** `DISCONNECT` waits for a handler while it holds
  `thread_status_lock` (peer.c:341-353), which the handler may need.
* **Descriptors are reused by the kernel** as soon as one thread has closed
  them, whoever still remembers the number.
* **Failures in the middle**: `malloc`, `pthread_create`, `accept`, `send` and
  `recv` fail at steps after which something has to be undone.
* **Pointers that leave their lock**: `chunk_in_memory` returns a `bpkg` that
  `REMPACKAGE` may free (package.c:189).
* **A growing array with holes**, where a wrong count loses a package or frees
  one twice (package.c:11-77).
* **Transfers in several packets** while other handlers of the same process
  write the file that is being hashed and read; full connections; short reads;
  a process that ends in the middle and is started again.
* **Parsers that do not stop at every mistake**: the end of a `.bpkg` file is
  never an error, counts are stored before their place is checked, and the
  error path frees an object that is only partly built (pkgchk.c:37, :111,
  :227). A configuration may lack any of its keys (config.c:98).
* **Hashes that outlive the file**: `computed_hash` keeps what it had when the
  file is gone or shorter, and a file is hashed block by block while others
  write it (merkletree.c:104, :111).
* **Boundaries of SHA-256**: the padding takes one block or two, and one struct
  is used for every chunk of a file (sha256.c:141, :180).

`PROJECT.json` lists these hazards with their lines and the properties that
cover each. What makes each part correct:

* peer table: a slot has one thread, a descriptor one user, a listening peer
  one entry; whoever is served can be found; `DISCONNECT` ends service; no
  command and no accepted connection waits for ever.
* package table: the count is right, nothing is lost when the array grows,
  nothing is freed twice, what a lookup returns is managed.
* transfer: only correct data is sent and written, a chunk once complete is
  never damaged, a `FETCH` that can succeed does.
* parsers: an object is returned exactly for a well-formed file, with every line
  in its place; the configuration is what the last line of each key says.
* queries: what is reported was there and nothing is left out, once each.
* SHA-256: the bytes compressed are those of the padded message.

## The modules

| module | models | composed from |
|---|---|---|
| `Connections` | command thread, listener, handlers, peer table, sockets | |
| `ManagedPackages` | package table, the heap behind it, its users | |
| `Distribution` | abstract: what `FETCH`, `REQ` and `RES` promise | |
| `ChunkTransfer` | `FETCH`, `REQ`, `RES` between processes | `INSTANCE Distribution` (refinement) |
| `ConfigLoad` | `config_load` | |
| `BpkgLoad` | `bpkg_load`, `bpkg_obj_destroy` | |
| `MerkleTree` | the tree: numbering, walks, minimal hashes, as functions | |
| `PackageQueries` | hashing a file, the five queries, `package_status` | `BpkgLoad`, `MerkleTree` |
| `Programs` | btide and pkgmain as far as files go, restarts, edits of the file | `ConfigLoad`, `PackageQueries` |
| `Sha256` | `sha256_update`, `sha256_finalize` | |
| `ConnectionsProofs`, `ManagedPackagesProofs`, `ChunkTransferProofs`, `MerkleTreeProofs`, `Sha256Proofs` | theorems | extend the module they are named for |
| `SocketProofs` | theorems about the sockets and entries of `Connections` | extends `ConnectionsProofs` |
| `BpkgLoadProofs` | theorem about the `.bpkg` parser | extends `Programs` |
| `ProgramsProofs` | theorems about the configuration and the queries | extends `BpkgLoadProofs`, `MerkleTreeProofs` |
| `MCConnections`, `MCManagedPackages`, `MCChunkTransfer`, `MCPrograms`, `MCSha256` | definitions the .cfg files use | extend the module they are named for |

Every definition that stands for code has its lines in `PROJECT.json` ("map").
The definitions called "Mutant of ..." are not part of the models: each is a
plausible bug, and putting it in the place of the definition it names makes the
property it is listed with fail.

### Connections

One btide process. **State**: the three arrays, with `peer_array[i]` NULL or a
record of address, descriptor and thread; `thread_array[j]` is the thread in
slot `j` (where it is in `handle_peers`, its peer, its descriptor, and whether
the branch it left by takes the mutex); `sock` is the kernel's descriptor table
with, for every socket, the peer, the packets queued and what the other end has
done; `act` is what the command thread and the listener are doing, with the
local variables that matter; the two mutexes; the state of the process.

**Step size**: a call that locks and unlocks a mutex around all its accesses is
one step; a system call is one step; an access to shared memory outside a mutex
is one step. So `get_fd` is two steps (search under the lock, `peer_array[i]`
read after it), `assign_thread` is two (`AssignSlot` takes the lock,
`CreateThread` sets the thread id, creates the thread and unlocks) and
`remove_from_array`, `close` and the release of the slot are three.

| code | actions |
|---|---|
| CONNECT: `peer_connect` | `Connect`, `OpenConnection` / `RefusedConnection` / `NoDescriptor`, `RecvAcp`, then the shared `AddToArray` ... |
| `add_to_array`, `assign_thread` (called by `main` and listener) | `AddToArray` / `ArrayFull` / `AddOutOfMemory`, `AssignSlot` / `NoFreeThread`, `CreateThread` |
| DISCONNECT: `peer_disconnect` | `Disconnect`, `GetFd`, `ReadFd`, `GetThreadId`, `ReadThreadId`, `SendDsn`, `JoinLock`, `JoinReturns` |
| FETCH: `fetch_parser` | `Fetch`, `FetchRejected`, `GetFd`, `ReadFd`, `SendReq` |
| PEERS, QUIT | `PeersLock`, `PeersPing` per entry, `PeersUnlock`; `Quit`, `ExitProcess` |
| `listener` | `Accept` / `AcceptFails`, `SendAcp`, `RecvAck` |
| `handle_peers` | `HandlerPacket`, `HandlerEnd`, `HandlerRemove`, `HandlerClose`, `HandlerRelease` |
| undefined behaviour | `ReadGoneEntry` (null pointer), `JoinUndefined`, `UseAfterDestroy`, `BrokenPipe` (SIGPIPE): the process may crash |
| environment | `RemoteHello`, `RemoteSend`, `RemoteClose`, `RemoteReset` |

Simplifications: any free slot instead of the first (the scan may be overtaken
by the write without mutex); REQ and RES are like PNG and POG as far as the
connection goes; sends do not block (the control packets fit the socket buffer;
blocking is in `ChunkTransfer`); a peer does not reuse a source port while this
process still has its socket; when descriptor 0 has been closed by the
listener, what the command thread then reads is only "end of input".

### ManagedPackages

The array of pointers, `size`, `capacity`, and a heap in which a freed block
can be reused. Each action is one call of package.c, as each holds
`managed_packages_lock` from start to end: `AddToFreeSlot`, `AddAndGrow` (the
doubling), `AddFails` (realloc), `RemovePackage` (the first package that agrees
on 20 characters). The users of a pointer found by `chunk_in_memory` go on in
steps of their own: `Fetch` and `Res` go to `CalculateDataLen` and, for `Res`,
`OpenFile`; `Req` goes to `ComputeHashes` first. `UseFreed` is a use of a
destroyed object. Idents are abstracted to a function `Prefix` that says which
packages agree on the part compared.

### ChunkTransfer and Distribution

Several processes with the same package, each connected to each. `file` and
`computed` are a process's file and its `computed_hash` fields, `chan` the
bytes under way as packets, `handler` the thread that serves a peer and
`open_files` the files it has opened. A REQ is received (`RecvReq`), every
chunk is hashed, one step each (`ComputeHash`), the file is opened if some
computed hash is the one asked for (`OpenFile`), then read and sent packet by
packet (`ReadFile`, `SendRes`); a RES is checked and written (`RecvRes`).
`Faults` turns on: the hash of a REQ not terminated (peer.c:445), a short read,
a `recv` that returns part of a packet, and a process that ends and is started
again (`Restart`): its connections, handlers and computed hashes are lost, and
`bpkg_file_check` finds the data file with what was received (`FileFound`).

`Distribution` says what this is for in a dozen lines: a process gains parts of
a chunk, from a process that has the whole chunk, and never loses any.
`DistributionSpec` maps `have[p]` to the set of units of `p`'s file that are
right and requires every behaviour of `ChunkTransfer` to be one of
`Distribution`. It is not obvious: what is sent was checked many steps before
it arrives, by a handler that does not stop others from writing the file.

Simplifications: all chunks have one size, as in all the packages of the
repository; files have the size of the package; a hash is the content itself
(no collisions); the length in a REQ is the one `calculate_data_len` gives; a
chunk is hashed in one step.

### Programs: ConfigLoad, BpkgLoad, PackageQueries, MerkleTree

One process at a time and what survives it: the data file and the directories.
`stage` says where the program is; the parts keep their own state (`config`,
`bpkg` with its parser, `computed` and `query`).

| code | actions |
|---|---|
| `config_load` | `LoadConfig`, one line a step: `ReadDirectory` / `NoDirectory`, `ReadMaxPeers`, `ReadPort`, `SkipLine`, `ConfigReturns`; its exits are ends of their own |
| `main` with a config | `MainStarts`: an array of a size that was not set is not defined, a port that was not set may do |
| `bpkg_load` | `LoadPackage`, one line a step: one action per key, `StartHashes` ... `EndHashes` and `StartChunks` ... `EndChunks` around the lines of the lists, `ReadBadChunk`, `ReadNoChunk`, `ReadOther`, `EndOfFile` |
| its error path | `Fail`: undefined if `bpkg_obj_destroy` would free what was not set (`Destroyable`) |
| ADDPACKAGE, PACKAGES, REMPACKAGE | `AddPackage`, `Loaded`, `CheckFile`; `Packages`; `RemovePackage` |
| `pkgmain` | `Invoke`, `Loaded`, one query, `Return` |
| `compute_hashes_for_chunks` | `HashBlock` per block, `HashingEnds`, `ReadFails` (the file cannot be opened or read on), `HashBeyond` (a block with no leaf: undefined) |
| the queries | `GetAllHashes`, `GetCompletedChunks`, `GetMinCompletedHashes`, `GetChunkHashesFrom` |
| `bpkg_file_check` | `FileCheck`: `FileExists`, `CreateFile` (also of a file that is there and cannot be opened; whole or, if the write fails, empty), `NothingCreated` |
| environment | `Received` (a handler or another process writes, at any time), `Edited` (the user, between commands), `Restart` |

A content is abstracted to units: unit `u` of the right file is `u`, anything
else is 0, and the hash of a block is its content. `Received` writes right units
only, which is what `ServesCorrectData` and `DistributionSpec` say of the
transfer. The tree is not a structure of nodes but functions of the node
numbers that `insert_node` gives (`2i+1`, `2i+2`), and what its recursive walks
return is compared with definitions that use the numbering only: the leaves
below a node, and `Maximal`, the complete nodes that are below no other. The
agreement of the two is proved for trees of any size.

What is claimed of a query has to allow for writers and for old hashes. An answer
reports some set of chunks (`Between`) that leaves out none of `begun`, those
that were there when the query began and that it could read, and that has none
but those there when the answer is printed and those of `stale`: chunks that the
query did not read, as the file is gone, too short or not to be opened, and whose
right hash is from an earlier query. `begun` and `stale` are not in the code; no
guard depends on them. The claim uses that a unit, once right, stays right while
a query hashes; it does, because the user's edits are between commands, and
`bpkg_file_check`, which may empty a file, is a query of its own.

Simplifications: one package (several are in `ManagedPackages`); the text of a
line is its key and its numbers; a walk of the tree is one step, as nothing it
reads changes meanwhile: only handlers that serve a REQ also write computed
hashes, with the same outcome as `HashBlock`, and they are in `ChunkTransfer`.

### Sha256

The struct of sha256.c with its 64 places, one step per block that is compressed
or copied. A byte of a message is identified by message and place, so a byte out
of place, doubled or left over from an earlier message is seen. The compression
function is not interpreted: `hcomps` stands for the bytes compressed so far.
`DigestExact` compares them with the padding of the standard, `Padded`.

## The runs

All runs set `CHECK_DEADLOCK FALSE`: the system may stop, by `QUIT`, by a
crash, by a real deadlock (which the liveness properties are about), or because
no user, peer or handler has anything to do.

| run | question | bounds |
|---|---|---|
| `conn_table` | do slots, entries and descriptors keep their owners when both kinds of peer come and go, and does DISCONNECT end the service? | 2 slots, 3 descriptors, a listening and a connecting peer, both may hang up |
| `conn_faults` | do slots and descriptors keep their owners when everything that can fail does? | 1 slot, 2 descriptors, a listening and a connecting peer that greet wrongly, disconnect, close and reset; all commands; `accept`, `malloc`, `pthread_create` fail |
| `conn_live` | do commands and listener come back, and do handlers that leave give back their slots, with all of them at work at once? | 1 slot, 2 descriptors, a listening and a connecting peer, one more than there is room for, that greet, greet wrongly or say nothing, disconnect and close; CONNECT, DISCONNECT, FETCH, PEERS |
| `pkg_table` | count, growth, ownership of the package table | 3 packages (2 agree in 20 characters, all share a chunk), 4 blocks, capacity 1 doubling to 4, 1 handler, failing realloc |
| `xfer_mutual` | is what is sent and written right when a process may serve what it is still receiving, and may end and come back? | 2 processes that ask each other, 1 chunk in 2 packets, hash, read and split faults, restarts |
| `xfer_live` | does a FETCH complete, at any offset of any chunk, and is nothing turned down? | 2 chunks of 3 units, 2 units a packet, a source that has one chunk and a piece of the other |
| `package_files` | is every package and configuration read as written, is every answer what the file and the old hashes say, and is what was received kept? | configurations of up to 3 lines of 12 kinds; packages of 1 to 4 chunks, of two chunks of two units, and of uneven chunks; those of 1 to 3 chunks with one mistake: cut, a line dropped, doubled, swapped, a number changed; files of up to 5 units |
| `sha_blocks` | is the padded message what is compressed? | real blocks of 64 bytes, two messages of up to 129 bytes with one struct, updates of 0, 1, 55, 64 and 73 bytes |

`conn_faults` has 1.3 million states and takes a minute or two, as does
`conn_live` (170,000 states, with three liveness properties); `conn_table` and
`package_files` (650,000 states) take less, the others seconds.

Why these bounds: two slots are what it takes for a stale thread id to be
another peer's, and a third descriptor for a number to be reused while two
others are in use. One slot makes the tables full, which is where the error
paths are. In `pkg_table` a capacity of 1 makes both doublings happen (1 to 2
and 2 to 4) with holes before and after. A chunk of 3 units in packets of 2 has
a last packet that is shorter, at an offset that is not a multiple of its
length; offsets from 0 to the end of the file reach both ends of both chunks.
In `xfer_mutual` two processes are enough for one to hash and read its file
while another of its threads would write it: what a third process would add is
a second handler of the same kind. `InboxMax` (packets queued by a peer) is 1:
two queued packets would only be read one after the other by the same thread.
`ChanMax` is 1, the smallest connection that can fill. `FileMax` bounds the
files that are never closed.

In `package_files` the ranges are scaled: ports 5 and 6, at most 2 peers, and an
int of 16 values, so that numbers below, in and above each range, and numbers
that wrap into it, all occur. Three lines are enough for each key to be missing,
set twice, or set before a line that is rejected. Trees of 1 to 4 leaves are the
leaf that is its own root, both perfect trees and one whose leaves differ in
depth, and two chunks of two units are what it takes for a file to be cut in the
middle of a chunk; `FileMax` 5 lets a file be longer than the largest package by
a whole block, which is where hashing runs past the last leaf. In `sha_blocks` the
updates meet, miss and cross the end of a block, and the messages end on both
sides of byte 56, where the length no longer fits; `UintSpan` is 256 and plays
no part at these sizes (the assumption of the module says so).

`conn_table` and `conn_live` have one constraint, `InputKept`: they do not go on
after descriptor 0 is closed, because what follows is a different world, explored
by `conn_faults`, whose resets make that happen. `Fds` and `Blocks` are symmetry
sets in safety runs: kernel and heap may hand out any free one. Liveness runs
have no symmetry.

**Fairness.** Threads created by the code are scheduled. In `Connections` it is
strong fairness for each thread, as a thread that waits for a mutex other
threads take again and again must get it at some time, and weak fairness of the
step that reads an entry that is gone, as the thread at it has nothing else to
do. Nothing is assumed of the user, of new connections or of greetings. Of remote
ends one thing is assumed, which a btide process does: it hangs up after a DSN.
Without it `DISCONNECT`, which waits for the peer to close, would never return
from a peer that ignores it. In `ChunkTransfer` it is weak fairness for each
handler: nothing is locked there, and a send that can proceed stays able to.

The code does wait for ever in some cases, and the liveness properties of
`conn_live` name them instead of assuming them away: a peer that holds the
connection of a handshake open and says nothing (`WaitsForPeer`; the listener then
serves nobody else), and a `DISCONNECT` that joins another peer's thread or one
that waits for the mutex it holds (`JoinStuck`, the two `bug_*` runs below).
`CommandReturns` and `ListenerReturns` say that a thread that does not come back
ends in one of these and in nothing else. `SlotReturned` covers every branch by
which a handler ends, those that take `thread_status_lock` included. None of them
claims anything once descriptor 0 is a socket (`InputLost`).

## Where code and documentation disagree

Each of the `bug_*` runs checks one property that a comment or a document of the
repository states, and TLC shows a behaviour that breaks it. `bug_crossing_dsn`
is about "If sending DSN, disconnect immediately" (peer.c:330), `bug_wrong_thread`
about "Use to shut a thread down when disconnecting" (peers.h:22), `bug_package_in_use` about "Don't
want a thread deleting the bpkg i am working with" (package.c:116), `bug_halves`
about "all chunks corresponding to the first half of the file will be outputted"
(pkgchk.h:93, and the second half below it).

| run | what happens |
|---|---|
| `bug_crossing_dsn` | both ends disconnect at once: the handler waits for the mutex that the command thread holds while joining it (peer.c:343, :397). The peer need not even disconnect: a PNG of its own that crosses the DSN is answered on a connection already closed, the answer is a reset, and `recv` then ends in the branch that takes the mutex |
| `bug_wrong_thread` | the thread id read by DISCONNECT is by the time of the join another peer's (peer.c:328, :343) |
| `bug_package_in_use` | REMPACKAGE frees a package a handler is working with (package.c:189) |
| `bug_halves` | of three chunks, the last two are below the left child of the root and the first is the right child (merkletree.c:142, pkgchk.c:388); the children are the halves of the file only in a perfect tree |

The models contain more of what the code does that its authors may not have
meant; no property claims it away and no run is spent on it:

* a failed ACP, or an `accept` that fails, makes the listener receive on and
  close descriptor 0, the user's input (peer.c:278; `SendAcp`, `AcceptFails`,
  `RecvAck`);
* DISCONNECT between `add_to_array` and `set_thread_id` joins an unset thread
  id (`JoinUndefined`); `get_fd` reads an entry after the unlock, when it may be
  gone (`ReadGoneEntry`);
* a new peer for which an entry is free and no slot stays in `peer_array` with
  its socket closed (helpers.c:171; `NoFreeThread`);
* of two chunks with the same content one may be there and the other be sent
  (package.c:238; `HasChunk`, with chunks that differ in the checked packages);
* pkgchk.h:79-81 gives as an example of minimal hashes that, with the first half
  of the chunks complete, "(N_CHUNKS/2)+1 hashes" are output; the code prints one
  hash for a complete half, which is what "the smallest set of hashes of completed
  branches" of pkgchk.c:337 asks for (`MinHashFind`). `MinHashesExact` states the
  latter and is false of the former: with chunks 0 and 1 of four complete it
  demands one hash and not three;
* a complete package of one chunk has no minimal hashes, and PACKAGES shows it as
  INCOMPLETE (merkletree.c:48, package.c:100; `MinHashFind`); `MinHashesExact`
  and `StatusExact` are claimed of larger packages;
* a `.bpkg` file whose list of chunks ends early, but not before its leaves, is
  accepted (`WellFormed`), and one that ends anywhere before that is not
  rejected but read through a null pointer (`EndOfFile`);
* `-all_hashes` prints as many hashes as there are lines, also when the tree has
  fewer nodes (pkgchk.c:288; `GetAllHashes`);
* a configuration without `max_peers`, `port` or `directory` is used as it is
  (config.c:98, btide.c:219; `MainStarts`, `AddPackage`), and the accepted range of
  `max_peers` goes to 2048, not 1024 as its message says (config.c:63);
* hashes of a file that is gone, shorter or not to be opened stay in the tree
  (merkletree.c:104; `HashingEnds`, `ReadFails`), where pkgchk.h:78 promises hashes
  "in regards to the current completion state": PACKAGES goes on to show COMPLETED
  of a file that was complete once (package.c:99). `StatusExact`, `CompletedExact`
  and `MinHashesExact` say which answers remain possible (`stale`);
* a longer file is hashed past the last leaf (`HashBeyond`);
* package.c:17 says "Make sure the file exists", but what `bpkg_file_check`
  returns is not looked at: in a directory that cannot be written the package is
  added without a file (pkgchk.c:258; `NothingCreated`), with a write that fails
  its file is empty, and a file that exists but cannot be opened to read is
  truncated (pkgchk.c:251-258; `CreateFile`);
* a refused CONNECT keeps its socket (peer.c:44; `RefusedConnection`);
* the REQ of a FETCH goes to whoever has the descriptor by then (btide.c:141;
  `SendReq`);
* QUIT frees what handlers still use (peer.c:141; `UseAfterDestroy`);
* a failed malloc leaves `peer_array_lock` locked (helpers.c:89;
  `AddOutOfMemory`);
* a send to a connection that was reset ends the process by SIGPIPE
  (`BrokenPipe`);
* REMPACKAGE removes the first package that agrees on 20 characters, even when
  the user gives all of the ident (package.c:63; `Found`);
* an offset at the end of a chunk makes a REQ for no bytes, which is never
  answered (package.c:125; `Covering`);
* two processes that serve each other on one connection may fill it in both
  directions and stop (peer.c:470; `SendRes`);
* after a short read the closed file is read again, for ever (peer.c:467;
  `Reread`), and every served REQ leaves a file open (peer.c:477; `OpenFile`).

The properties that hold are stated so that they hold in spite of these: for
instance `DescriptorOwnership` and `ServedPeerListed` are about the time while
descriptor 0 is the input, `FetchCompletes` ends when no file can be opened,
`TransferEnds` is checked where requests go one way, `SocketsHeld` where no
CONNECT is refused, no greeting is wrong and every thread can be created,
`CompletedExact` allows for stale hashes, `ReceivedKept` for a file that could not
be opened, and the properties of `conn_live` for the waits listed under fairness.

## The proofs

Every safety property and every action property of the runs that pass is also a
theorem: the runs show it on small instances, the theorem for all. The
assumptions are the `ASSUME`s of the modules, and TLC evaluates them on every
run: sizes are positive, there are finitely many processes, NULL is none of the
values and no content of a file, the two kinds of address are disjoint,
descriptor 0 is not among those handed out, the numbers in a `.bpkg` file are
digits and nothing in it is a null pointer or unset, a package fits in a file,
and the programs are btide and pkgmain. Five theorems have a hypothesis of their
own, in the last column.

| theorem | says | if |
|---|---|---|
| **ConnectionsProofs**: `TypeCorrect` | `Spec => []TypeOK`, any number of peers, addresses, descriptors | |
| `SlotsExclusive` | `Spec => []SlotExclusive` | |
| `OutgoingUnique` | `Spec => []UniqueOutgoing` | |
| **SocketProofs**: `DescriptorsOwned` | `Spec => []DescriptorOwnership` | |
| `SocketsAreHeld` | `Spec => []SocketsHeld` | `NoLeaks` |
| `DisconnectIsFinal` | `Spec => DisconnectEndsService`, an action property | |
| `ServedAreListed` | `Spec => []ServedPeerListed` | |
| **ManagedPackagesProofs**: `PackagesTyped` | `Spec => []TypeOK` | |
| `SizeIsCount` | `Spec => []SizeCounts` | |
| `NoDoubleFree` | `Spec => []EntriesLive` | |
| `NoPackageLost` | `Spec => PackagesKept`, an action property | |
| `FetchSafe` | `Spec => []FetchUsesManaged` | |
| **ChunkTransferProofs**: `TypeCorrect` | `Spec => []TypeOK`, any number of processes and chunks, any sizes, all faults | |
| `NoDataRefused` | `Spec => []NoneTurnedDown` | |
| `DataIsRight` | `Spec => []ServesCorrectData` | `DistinctChunks` |
| `Distributes` | `Spec => DistributionSpec`, the refinement | `DistinctChunks` |
| **BpkgLoadProofs**: `LoadIsWhole` | `Spec => []LoadedWhole`, any `.bpkg` files | |
| **MerkleTreeProofs**: `WalkVisitsEachOnce` | `InOrder` returns the wanted nodes below its start, each once, for any tree | |
| `MinHashFindIsMaximal` | `MinHashFind` returns `Maximal`, each once, for any tree of more than a leaf | |
| **ProgramsProofs**: `ConfigIsRead` | `Spec => []ConfigReflectsText`, any configuration files | |
| `ReceivedIsKept` | `Spec => ReceivedKept`, an action property, any number of restarts, removals and additions | |
| `TypeCorrectPrograms` | `Spec => []TypeOK` | |
| `CompletedIsExact` | `Spec => []CompletedExact`, packages of any size, any file, any writes meanwhile | |
| `MinHashesAreExact` | `Spec => []MinHashesExact` | |
| `StatusIsExact` | `Spec => []StatusExact` | `RootIsUnique` |
| `AllHashesAreListed` | `Spec => []AllHashesOnce` | |
| `SubtreeIsComplete` | `Spec => []SubtreeChunks` | `DistinctHashes` |
| **Sha256Proofs**: `DigestIsExact` | `Spec => []DigestExact`, any sizes of updates and messages | |
| `BufferIsBounded` | `Spec => []BufferBounded` | |

The hypotheses, each of which the run of its property meets: `DistinctChunks`, no
two chunks have the same content (with two, package.c:238 finds one and may read
the other); `NoLeaks`, no CONNECT is refused, no peer that connects sends
anything before its ACK, and no `pthread_create` fails, the three cases in which
the code does lose a socket; `RootIsUnique`, the hash of the root is on no other
line (package.c:100 compares only hashes); `DistinctHashes`, no hash is on two
lines (`inorder_find_node` takes the first node it finds with the hash).

**Connections.** `TypeOK` is not inductive: `peer_array[act[p].idx]` and
`act[p].fd` are only defined where the program counter says so. `TypeInv` adds
what each program counter implies for the address, descriptor and index it
carries. `SlotInv` adds to `SlotExclusive` who holds `thread_status_lock`: the
actor at "create" or "joining" holds it, so two actors never choose one slot,
and the slot an actor is about to fill is marked. The write without mutex is
harmless because the handler that makes it is the one thread whose slot it is,
and it has ended its work. `UniqInv` adds that only the command thread ever
adds a listening peer, and that from the `in_array` check to the insertion no
entry of that address exists: that one thread, not a lock, makes check and
insertion atomic. Each invariant has one lemma per action of `Next` that can
disturb it; the temporal step is the last.

**Sockets.** `SocketProofs` first sorts the steps: `SocketStep` names the seven
things a step can do to sockets and to the hands that hold them (quiet, opened,
a CONNECT refused, closed by an actor, ended by a handler, handed over to a
thread, dropped), and one lemma per action says which. `OwnInv` is then proved
over seven cases instead of some forty actions: while descriptor 0 is the input, every handshake and
every handler holds an open socket to its own peer, and no two the same. It
needs `ZeroInv` (a connection that is set up never has descriptor 0) and, from
`SlotInv`, that the slot a new thread gets has none. `HelloInv`, that the first
packet of an accepted peer is its ACK or the peer is gone, is the strengthening of `SocketsHeld`.
`DisconnectIsFinal` rests on `ServeInv`: a listening peer is served by at most
one thread, that thread's entry has its number (`ServedNumbered`) from before
it serves, and so the number `DISCONNECT` carries through `get_fd`,
`get_thread_id`, DSN and join is that thread's (`Found`, `Awaited`) or nobody serves the peer any
more. `ServedAreListed` rests on the fact that an entry is taken out by address: a listening
peer has one entry (`UniqInv`) and a peer that connected one socket (`InUnique`),
so what a handler takes out is its own.

**ManagedPackages.** `IInv` joins the type invariant, `size` as the cardinality
of the occupied entries, and that occupied entries point to different live
blocks. The three need each other: after the doubling the new package goes to
entry number `size`, which is free only because the count is exact, and
removal lowers the count by one because two entries never share a block.
Lemmas state what filling and clearing an entry do to the set of occupied ones;
cardinalities come from FiniteSetTheorems. `FetchSafe` adds where the command
thread is: from its lookup in FETCH to the use of the result it does nothing
else, and only the command thread removes packages, so the pointer of FETCH,
unlike those of the handlers, stays managed.

**ChunkTransfer.** `TypeOK` is not inductive, as a read stays in the file only
because the request names a part of one chunk: `TypeInv` says of every request
and every handler at work that what is left of it ends where its chunk ends
(`Asked`, `FitsChunk`), and that the files of the handlers that are reading are
counted. That data is right needs all of `DataInv` at once. A file has right
units or none (`FileRight`), because only right data is on its way (`ChanRight`);
that holds because a handler that reads serves a chunk that is complete
(`HandlerRight`), which it found by a computed hash (`HashRight`); and a hash that
was computed many steps ago is still true because what is right stays right
(`Grows`), restarts included. `Grows` is also the refinement: a step of
`ChunkTransfer` either changes no right unit or is a `Copy` of `Distribution`.

**Programs: the parsers.** `ConfigReflectsText` is about the last line read of each key. Its
inductive form fixes the types of `config_line` and of the line numbers, and the
proof is one lemma per kind of line: reading line `k` makes `k` the last line of
its key and leaves the last lines of the other keys as they are. Every other
action leaves the configuration alone, or, for `Restart`, makes it empty.

**BpkgLoad.** `LInv` says of each place of the parser which lines were read and
what the object has, one predicate per place: `AtKeys(o)` before the lists,
`InHashes(k)` and `AfterHashes(k)`, `AtChunks`, `InChunks(k)` and
`AfterChunks(k)` for a list of which `k` lines were read. They are needed because
the parser checks nothing at the end: that the object is whole follows only from
`order_iterator`, the counters and the line that is next, which are tied
together in each of them. `Doomed` is the remaining case, a list whose key was
at a wrong place: the code reads that list in full before it reports the error,
so the invariant only says that such a file is not well formed. `KeyFits` and
`Misplaced` show that an error is reported for no well-formed file, `EarlyEnd`
and `TreeFitsIff` the same for the checks at the end of the file.

**MerkleTree.** The walks are recursive functions on the nodes, and what they
return is a matter of induction over the tree. The library's induction theorems
cannot be used (they take an operator as a parameter), so an induction here is
the argument behind it: the set of nodes for which the claim fails would have a
greatest element, and its children, which have greater numbers, would satisfy
it (`GreatestElement`, from `WFMin` of the library; `LeastElement` for claims
that go from the root down). In the same way it is proved that the functions the
recursions define exist. `LengthIsCardinality` and `Concatenated` turn "each
once" into a length. `FindEmits` says of every node what `find` emits below it:
`Tops`, the full nodes whose parent is not. `LeavesInOrder` gives the
order of the leaves in a perfect tree, by depth (`BelowIsDeeper`).

**Programs: the queries.** `Control` says which of the parts is at work at each
`stage`, with `load = "loaded"` from the end of the load to the answer, and
`Typed` that everything printed is a hash of the `.bpkg` file (`ListShown`).
`Progress` is the loop invariant of hashing: of the blocks before the next one,
those of chunks that were there at the beginning have their right hash, and a
right hash means the chunk is there now (`Hashed`); of the others, one with a
right hash is in `stale`, or the file reaches it and it will be read (`Unhashed`). Others
may add units at any time, which `WholeGrows` allows for, and a file only grows
meanwhile, so what is out of reach at the end of the file was so at the beginning
(`ReachEnds`); a read that fails sets `begun` and `stale` to what is then true. `HashShown` carries that over the end of
the hashing: the answer is that of one set of complete leaves, between those of
the beginning and those of now. What the query makes of that set comes from
`WalkVisitsEachOnce` and `MinHashFindIsMaximal`, and `LineOf` ties nodes to lines of the
file, one to one, by `LoadIsWhole`: this is where parser, tree and queries meet.

**Sha256.** Between updates the invariant says that `hcomps` followed by the
first `chunk_size` places of `last_chunk` is the message so far; inside an
update, that it is the part of it before `ptr`; before the length is added, that
what is missing to `Padded` are the last eight bytes. `DigestExact` needs
`BufferBounded` in the same induction: the block that is filled up has the right
bytes only because `chunk_size` is below 64. The assumption is that an update is
at least 64 below the range of `uint32_t`, as a larger one makes
`size + chunk_size` wrap (sha256.c:141); a chunk would need 4 GB for that.

**Only model-checked**: liveness (`CommandReturns`, `ListenerReturns`,
`SlotReturned`, `FetchCompletes`, `TransferEnds`), which is beyond TLAPS, as is
ENABLED. The `bug_*` runs show violations, and there is nothing to prove.

## What is not modelled

* A peer that stops reading while `PEERS` holds `peer_array_lock`: sends in
  `Connections` do not block.
* The stack of a handler that is never joined; the memory of the package that a
  failed realloc leaves behind; memory that `pkgmain` does not free.
* Text handling: `strtok` and `strip_whitespace`, lines longer than their
  buffers, names with a colon.
* The compression of a block in SHA-256, its output as hexadecimal digits, and
  `sha256chk`, which prints the hash of one file.
* A package whose `size` is 0, or is not the sum of its chunks by more than one
  unit; packages with two chunks of the same content.
* `client.c` and `server.c` of the getting-started resources, and the test
  scripts, which are not part of either program.

## Plan

Done: `Connections`, `ManagedPackages`, `ChunkTransfer` refining `Distribution`
with restarts, `Programs` with its four parts, `Sha256`; their runs; theorems for
every safety property the runs check.

Next, in this order:

1. Positive counterparts of the disagreements as theorems: under which
   restriction of the environment a join is always that of the right thread, and
   a package in use is never freed.
2. `BtideNode`: `Connections` and `ManagedPackages` together, to check `FETCH`
   and `REMPACKAGE` with the lifetime of connections and packages at once.
3. Sends that block in `PEERS`, with a peer that does not read.
