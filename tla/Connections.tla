---------------------------- MODULE Connections ----------------------------
(***************************************************************************)
(* The connection table of one btide process (src/project/src/peer.c and   *)
(* chk/helpers.c, driven by btide.c): the thread that reads the user's     *)
(* commands ("main"), the thread that accepts connections ("listener") and *)
(* up to MaxPeers threads that each serve one peer (handle_peers), sharing *)
(* peer_array, thread_status_array and thread_array under two mutexes.     *)
(*                                                                         *)
(* One step is one call that takes and releases a mutex, one system call,  *)
(* or one access to shared memory that the code makes outside a mutex.     *)
(* The remote ends of the sockets are the environment.                     *)
(***************************************************************************)
EXTENDS Naturals, Sequences

CONSTANTS
  MaxPeers,     \* config->max_peers: length of the three arrays
  OutAddrs,     \* the <ip:port> of listening peers, which CONNECT names
  InAddrs,      \* the <ip:port> of peers that connect to this process
  CmdAddrs,     \* the addresses the user gives to DISCONNECT and FETCH
  Commands,     \* the commands the user types
  Fds,          \* the descriptors the kernel can hand out, other than 0
  RemoteActs,   \* what remote ends may do beyond the handshake
  Faults,       \* calls that may fail: "malloc", "pthread_create", "accept"
  InboxMax,     \* bound: packets received and not yet read, per socket
  Stdin,        \* what descriptor 0 is when the process starts
  NULL

Addrs == OutAddrs \cup InAddrs
Index == 0 .. MaxPeers - 1
Fd == Fds \cup {0}
Actors == {"main", "listener"}

\* Packet kinds: REQ and RES are handled by ChunkTransfer; as far as the
\* connection is concerned a handler treats them like PNG or POG.
Packets == {"ACP", "ACK", "DSN", "PNG", "POG"}

\* An entry of peer_array. tid is NULL until set_thread_id: the field of a
\* fresh malloc is whatever the memory held.
Peer == [addr : Addrs, fd : Fd, tid : Index \cup {NULL}]

\* A socket: who is at the other end, the packets the kernel has queued, and
\* the other end itself: it has yet to make its half of the handshake ("new"),
\* it has been sent a DSN ("leaving"), or it is gone ("closed", "reset").
Socket == [addr : Addrs, inbox : Seq(Packets),
           remote : {"new", "open", "leaving", "closed", "reset"}]

MainPcs == {"connect", "recv_acp", "get_fd", "read_fd", "get_tid", "read_tid",
            "send_dsn", "join", "joining", "fetch_fd", "fetch_read_fd",
            "send_req", "pinging"}
ListenerPcs == {"send_acp", "recv_ack"}
SharedPcs == {"idle", "add", "assign", "create"}

Act == [pc : MainPcs \cup ListenerPcs \cup SharedPcs,
        addr : Addrs \cup {NULL}, fd : Fd \cup {NULL},
        idx : 0 .. MaxPeers \cup {NULL}]

Busy == {"recv", "remove", "close", "release"}
Gone == {"none", "exited"}
Thread == [pc : Busy \cup Gone, addr : Addrs \cup {NULL},
           fd : Fd \cup {NULL}, locked : BOOLEAN]

ASSUME SizeAssumption == MaxPeers \in Nat \ {0} /\ InboxMax \in Nat
ASSUME AddrAssumption ==
  OutAddrs \cap InAddrs = {} /\ CmdAddrs \subseteq Addrs
ASSUME FdAssumption == 0 \notin Fds
ASSUME NullAssumption ==
  /\ NULL \notin Peer /\ NULL \notin Socket /\ Stdin \notin Socket
  /\ NULL \notin Addrs /\ NULL \notin 0 .. MaxPeers /\ NULL \notin Fd
  /\ NULL \notin Actors /\ NULL # Stdin

VARIABLES
  peer_array,           \* Index -> NULL or an entry
  thread_status_array,  \* Index -> 1 when the slot is taken
  thread_array,         \* Index -> the thread last created in the slot
  sock,                 \* Fd -> NULL (closed), Stdin, or a socket
  act,                  \* what main and the listener are doing
  thread_status_lock,   \* the holder of the mutex, or NULL
  peer_array_lock,
  proc                  \* "running", "quitting", "exited" or "crashed"

vars == <<peer_array, thread_status_array, thread_array, sock, act,
          thread_status_lock, peer_array_lock, proc>>
locks == <<thread_status_lock, peer_array_lock>>
arrays == <<peer_array, thread_status_array, thread_array>>

Idle == [pc |-> "idle", addr |-> NULL, fd |-> NULL, idx |-> NULL]
NoThread(pc) == [pc |-> pc, addr |-> NULL, fd |-> NULL, locked |-> FALSE]

\* The types of all the variables, through every operation of the module.
TypeOK ==
  /\ peer_array \in [Index -> Peer \cup {NULL}]
  /\ thread_status_array \in [Index -> {0, 1}]
  /\ thread_array \in [Index -> Thread]
  /\ sock \in [Fd -> Socket \cup {NULL, Stdin}]
  /\ act \in [Actors -> Act]
  /\ thread_status_lock \in Actors \cup {NULL}
  /\ peer_array_lock \in Actors \cup {NULL}
  /\ proc \in {"running", "quitting", "exited", "crashed"}

\* Mutant of Init: thread_status is not cleared.
InitUncleared ==
  /\ peer_array = [i \in Index |-> NULL]
  /\ thread_status_array = [i \in Index |-> 2]
  /\ thread_array = [i \in Index |-> NoThread("none")]
  /\ sock = [f \in Fd |-> IF f = 0 THEN Stdin ELSE NULL]
  /\ act = [p \in Actors |-> Idle]
  /\ thread_status_lock = NULL /\ peer_array_lock = NULL /\ proc = "running"

Init ==
  /\ peer_array = [i \in Index |-> NULL]
  /\ thread_status_array = [i \in Index |-> 0]
  /\ thread_array = [i \in Index |-> NoThread("none")]
  /\ sock = [f \in Fd |-> IF f = 0 THEN Stdin ELSE NULL]
  /\ act = [p \in Actors |-> Idle]
  /\ thread_status_lock = NULL
  /\ peer_array_lock = NULL
  /\ proc = "running"

-----------------------------------------------------------------------------
(* The loops over peer_array.                                              *)

First(S) == {i \in S : \A k \in S : i <= k}

\* Mutant of Matches: the loops stop one entry short.
MatchesShort(a) ==
  {i \in Index : i + 1 # MaxPeers /\ peer_array[i] # NULL /\ peer_array[i].addr = a}

Matches(a) == {i \in Index : peer_array[i] # NULL /\ peer_array[i].addr = a}

InArray(a) == Matches(a) # {}

FreeEntries == {i \in Index : peer_array[i] = NULL}

FreeSlots == {j \in Index : thread_status_array[j] = 0}

\* Mutant of Removed: the first entry goes, whoever it is.
RemovedFirst(a) ==
  [i \in Index |-> IF i \in First(Index \ FreeEntries) THEN NULL ELSE peer_array[i]]

\* remove_from_array: the first entry of that address goes.
Removed(a) ==
  [i \in Index |-> IF i \in First(Matches(a)) THEN NULL ELSE peer_array[i]]

\* Mutant of WithThreadId: set_thread_id is not called.
WithoutThreadId(a, j) == peer_array

\* set_thread_id: the first entry of that address learns its thread.
WithThreadId(a, j) ==
  [i \in Index |-> IF i \in First(Matches(a))
                   THEN [peer_array[i] EXCEPT !.tid = j] ELSE peer_array[i]]

-----------------------------------------------------------------------------
(* Sockets.                                                                *)

IsSocket(f) == sock[f] \notin {NULL, Stdin}

NewSocket(a) == [addr |-> a, inbox |-> <<>>, remote |-> "new"]

Present(f) == IsSocket(f) /\ sock[f].remote \in {"new", "open", "leaving"}

Waiting(f) == IsSocket(f) /\ sock[f].inbox # <<>>

\* recv returns 0 or -1.
Ended(f) == IsSocket(f) => sock[f].inbox = <<>> /\ ~Present(f)

Consume(s) == [s EXCEPT !.inbox = Tail(@)]

\* send returns the length of the packet. The first send to an end that has
\* closed succeeds and is answered by a reset.
SendOk(f) == IsSocket(f) /\ sock[f].remote # "reset"

Sent(s, m) ==
  [s EXCEPT !.remote = IF @ = "closed" THEN "reset"
                       ELSE IF m = "DSN" THEN "leaving" ELSE @]

Closed(f) == [sock EXCEPT ![f] = NULL]

-----------------------------------------------------------------------------
(* The command thread: CONNECT.                                            *)

At(p, pc) == act[p].pc = pc
Do(p, pc, a, f, i) ==
  act' = [act EXCEPT ![p] = [pc |-> pc, addr |-> a, fd |-> f, idx |-> i]]
Goto(p, pc) == Do(p, pc, act[p].addr, act[p].fd, act[p].idx)
Done(p) == act' = [act EXCEPT ![p] = Idle]
Typed(c) == c \in Commands /\ At("main", "idle")

\* in_array has to say no, or the command ends there.
Connect(a) ==
  /\ Typed("CONNECT") /\ a \in OutAddrs
  /\ peer_array_lock = NULL /\ ~InArray(a)
  /\ Do("main", "connect", a, NULL, NULL)
  /\ UNCHANGED <<arrays, sock, locks>>

OpenConnection(f) ==
  /\ At("main", "connect") /\ sock[f] = NULL
  /\ sock' = [sock EXCEPT ![f] = NewSocket(act["main"].addr)]
  /\ Do("main", "recv_acp", act["main"].addr, f, NULL)
  /\ UNCHANGED <<arrays, locks>>

\* inet_pton or connect fails: the function returns and the socket stays open.
RefusedConnection(f) ==
  /\ At("main", "connect") /\ "REFUSE" \in RemoteActs /\ sock[f] = NULL
  /\ sock' = [sock EXCEPT ![f] = [NewSocket(act["main"].addr) EXCEPT !.remote = "reset"]]
  /\ Done("main")
  /\ UNCHANGED <<arrays, locks>>

NoDescriptor ==
  /\ At("main", "connect") /\ \A f \in Fd : sock[f] # NULL
  /\ Done("main")
  /\ UNCHANGED <<arrays, sock, locks>>

RecvAcp ==
  LET f == act["main"].fd
      accepted == Waiting(f) /\ Head(sock[f].inbox) = "ACP" /\ SendOk(f)
  IN /\ At("main", "recv_acp")
     /\ \/ /\ accepted
           /\ sock' = [sock EXCEPT ![f] = Sent(Consume(@), "ACK")]
           /\ Goto("main", "add")
        \/ /\ ~accepted /\ (Waiting(f) \/ Ended(f))
           /\ sock' = Closed(f)
           /\ Done("main")
     /\ UNCHANGED <<arrays, locks>>

-----------------------------------------------------------------------------
(* add_to_array and assign_thread, called by main and by the listener.     *)

AddToArray(p) ==
  /\ At(p, "add") /\ peer_array_lock = NULL
  /\ \E i \in First(FreeEntries) :
       peer_array' = [peer_array EXCEPT
         ![i] = [addr |-> act[p].addr, fd |-> act[p].fd, tid |-> NULL]]
  /\ Goto(p, "assign")
  /\ UNCHANGED <<thread_status_array, thread_array, sock, locks>>

ArrayFull(p) ==
  /\ At(p, "add") /\ peer_array_lock = NULL /\ FreeEntries = {}
  /\ sock' = Closed(act[p].fd)
  /\ Done(p)
  /\ UNCHANGED <<arrays, locks>>

\* The early return after a failed malloc leaves the mutex locked.
AddOutOfMemory(p) ==
  /\ At(p, "add") /\ peer_array_lock = NULL /\ FreeEntries # {}
  /\ "malloc" \in Faults
  /\ peer_array_lock' = p
  /\ sock' = Closed(act[p].fd)
  /\ Done(p)
  /\ UNCHANGED <<arrays, thread_status_lock>>

\* Mutant of AssignSlot: the slot is not marked as taken.
AssignUnmarked(p, j) ==
  /\ At(p, "assign") /\ thread_status_lock = NULL /\ j \in FreeSlots
  /\ thread_status_lock' = p
  /\ Do(p, "create", act[p].addr, act[p].fd, j)
  /\ UNCHANGED <<peer_array, thread_status_array, thread_array, sock, peer_array_lock>>

\* Any free slot, not the first: a handler may free a lower one, without the
\* mutex, behind the scan.
AssignSlot(p, j) ==
  /\ At(p, "assign") /\ thread_status_lock = NULL /\ j \in FreeSlots
  /\ thread_status_lock' = p
  /\ thread_status_array' = [thread_status_array EXCEPT ![j] = 1]
  /\ Do(p, "create", act[p].addr, act[p].fd, j)
  /\ UNCHANGED <<peer_array, thread_array, sock, peer_array_lock>>

\* Mutant of NoFreeThread: the socket is left open.
NoFreeThreadLeaves(p) ==
  /\ At(p, "assign") /\ thread_status_lock = NULL /\ FreeSlots = {}
  /\ Done(p)
  /\ UNCHANGED <<arrays, sock, locks>>

\* The socket is closed; the entry of peer_array stays.
NoFreeThread(p) ==
  /\ At(p, "assign") /\ thread_status_lock = NULL /\ FreeSlots = {}
  /\ sock' = Closed(act[p].fd)
  /\ Done(p)
  /\ UNCHANGED <<arrays, locks>>

\* Mutant of CreateThread: the mutex stays locked.
CreateKeepsLock(p) ==
  /\ At(p, "create") /\ peer_array_lock = NULL
  /\ peer_array' = WithThreadId(act[p].addr, act[p].idx)
  /\ thread_array' = [thread_array EXCEPT ![act[p].idx] =
       [pc |-> "recv", addr |-> act[p].addr, fd |-> act[p].fd, locked |-> FALSE]]
  /\ Done(p)
  /\ UNCHANGED <<thread_status_array, sock, locks>>

\* set_thread_id, pthread_create (whose result is ignored), unlock.
CreateThread(p) ==
  LET j == act[p].idx
      started == [pc |-> "recv", addr |-> act[p].addr, fd |-> act[p].fd,
                  locked |-> FALSE]
  IN /\ At(p, "create") /\ peer_array_lock = NULL
     /\ peer_array' = WithThreadId(act[p].addr, j)
     /\ \/ thread_array' = [thread_array EXCEPT ![j] = started]
        \/ "pthread_create" \in Faults /\ UNCHANGED thread_array
     /\ thread_status_lock' = NULL
     /\ Done(p)
     /\ UNCHANGED <<thread_status_array, sock, peer_array_lock>>

-----------------------------------------------------------------------------
(* The command thread: DISCONNECT, FETCH, PEERS, QUIT.                     *)

Crash == proc' = "crashed" /\ UNCHANGED <<arrays, sock, act, locks>>

Lookup(c, a, pc) ==
  /\ Typed(c) /\ a \in CmdAddrs
  /\ peer_array_lock = NULL /\ InArray(a)
  /\ Do("main", pc, a, NULL, NULL)
  /\ UNCHANGED <<arrays, sock, locks>>

Disconnect(a) == Lookup("DISCONNECT", a, "get_fd")
Fetch(a) == Lookup("FETCH", a, "fetch_fd")

\* The package, the chunk or the offset is not known.
FetchRejected ==
  /\ At("main", "fetch_fd")
  /\ Done("main")
  /\ UNCHANGED <<arrays, sock, locks>>

\* get_fd up to the unlock: the index of the match, or descriptor 0.
GetFd(from, read, next) ==
  /\ At("main", from) /\ peer_array_lock = NULL
  /\ \/ \E i \in First(Matches(act["main"].addr)) :
          Do("main", read, act["main"].addr, NULL, i)
     \/ /\ ~InArray(act["main"].addr)
        /\ Do("main", next, act["main"].addr, 0, NULL)
  /\ UNCHANGED <<arrays, sock, locks>>

\* get_fd after the unlock: peer_array[i]->socket_fd.
ReadFd(read, next) ==
  LET i == act["main"].idx
  IN /\ At("main", read) /\ peer_array[i] # NULL
     /\ Do("main", next, act["main"].addr, peer_array[i].fd, NULL)
     /\ UNCHANGED <<arrays, sock, locks>>

\* get_thread_id up to the unlock: the index of the match, or thread 0.
GetThreadId ==
  /\ At("main", "get_tid") /\ peer_array_lock = NULL
  /\ \/ \E i \in First(Matches(act["main"].addr)) :
          Do("main", "read_tid", act["main"].addr, act["main"].fd, i)
     \/ /\ ~InArray(act["main"].addr)
        /\ Do("main", "send_dsn", act["main"].addr, act["main"].fd, 0)
  /\ UNCHANGED <<arrays, sock, locks>>

\* get_thread_id after the unlock: peer_array[i]->thread_id, set or not.
ReadThreadId ==
  LET i == act["main"].idx
  IN /\ At("main", "read_tid") /\ peer_array[i] # NULL
     /\ Do("main", "send_dsn", act["main"].addr, act["main"].fd, peer_array[i].tid)
     /\ UNCHANGED <<arrays, sock, locks>>

\* The entry found under the mutex is gone when it is read: peer_array[i] is
\* a null pointer.
ReadGoneEntry ==
  /\ act["main"].pc \in {"read_fd", "fetch_read_fd", "read_tid"}
  /\ peer_array[act["main"].idx] = NULL
  /\ Crash

\* A send whose failure is only reported.
SendTo(f, m) ==
  sock' = IF SendOk(f) THEN [sock EXCEPT ![f] = Sent(@, m)] ELSE sock

SendReq ==
  /\ At("main", "send_req")
  /\ SendTo(act["main"].fd, "REQ")
  /\ Done("main")
  /\ UNCHANGED <<arrays, locks>>

\* Mutant of SendDsn: the command thread closes the socket itself.
SendDsnAndClose ==
  /\ At("main", "send_dsn")
  /\ sock' = Closed(act["main"].fd)
  /\ Do("main", "join", act["main"].addr, NULL, act["main"].idx)
  /\ UNCHANGED <<arrays, locks>>

SendDsn ==
  /\ At("main", "send_dsn")
  /\ SendTo(act["main"].fd, "DSN")
  /\ Do("main", "join", act["main"].addr, NULL, act["main"].idx)
  /\ UNCHANGED <<arrays, locks>>

\* A thread_id nobody has set is any value the memory may hold.
JoinLock(j) ==
  /\ At("main", "join") /\ thread_status_lock = NULL
  /\ act["main"].idx \in {j, NULL}
  /\ thread_status_lock' = "main"
  /\ Do("main", "joining", act["main"].addr, NULL, j)
  /\ UNCHANGED <<arrays, sock, peer_array_lock>>

\* pthread_join returns when the thread has ended. Joining a slot that never
\* held a thread, or a thread that was joined before, is undefined: it may
\* return at once or crash.
Joinable(j) == thread_array[j].pc \in Gone

JoinReturns ==
  LET j == act["main"].idx
  IN /\ At("main", "joining") /\ Joinable(j)
     /\ thread_array' = [thread_array EXCEPT
          ![j] = IF @.pc = "exited" THEN NoThread("none") ELSE @]
     /\ thread_status_array' = [thread_status_array EXCEPT ![j] = 0]
     /\ thread_status_lock' = NULL
     /\ Done("main")
     /\ UNCHANGED <<peer_array, sock, peer_array_lock>>

JoinUndefined ==
  /\ \/ At("main", "join") /\ act["main"].idx = NULL
     \/ /\ At("main", "joining")
        /\ thread_array[act["main"].idx].pc = "none"
  /\ Crash

\* PEERS holds peer_array_lock while it sends a PNG to every entry.
PeersLock ==
  /\ Typed("PEERS") /\ peer_array_lock = NULL
  /\ peer_array_lock' = "main"
  /\ Do("main", "pinging", NULL, NULL, 0)
  /\ UNCHANGED <<arrays, sock, thread_status_lock>>

PeersPing ==
  LET i == act["main"].idx
  IN /\ At("main", "pinging") /\ i \in Index
     /\ IF peer_array[i] = NULL THEN UNCHANGED sock
                                ELSE SendTo(peer_array[i].fd, "PNG")
     /\ Do("main", "pinging", NULL, NULL, i + 1)
     /\ UNCHANGED <<arrays, locks>>

\* Mutant of PeersUnlock: the mutex stays locked.
PeersKeepsLock ==
  /\ At("main", "pinging") /\ act["main"].idx = MaxPeers
  /\ Done("main")
  /\ UNCHANGED <<arrays, sock, locks>>

PeersUnlock ==
  /\ At("main", "pinging") /\ act["main"].idx = MaxPeers
  /\ peer_array_lock' = NULL
  /\ Done("main")
  /\ UNCHANGED <<arrays, sock, thread_status_lock>>

\* QUIT, or the end of the input: what descriptor 0 gives once it is no longer
\* the input the process was started with.
Quit ==
  /\ At("main", "idle") /\ ("QUIT" \in Commands \/ sock[0] # Stdin)
  /\ proc' = "quitting"
  /\ UNCHANGED <<arrays, sock, act, locks>>

-----------------------------------------------------------------------------
(* The listener.                                                           *)

\* A peer does not reuse a source port while this process has its socket.
Accept(a, f) ==
  /\ At("listener", "idle") /\ sock[f] = NULL
  /\ \A g \in Fd : IsSocket(g) => sock[g].addr # a
  /\ sock' = [sock EXCEPT ![f] = NewSocket(a)]
  /\ Do("listener", "send_acp", a, f, NULL)
  /\ UNCHANGED <<arrays, locks>>

\* accept returns -1 (the limit on descriptors is reached) and the loop body
\* goes on: send(-1) fails, close(-1) fails, new_socket becomes 0.
AcceptFails(a) ==
  /\ At("listener", "idle") /\ "accept" \in Faults
  /\ \A f \in Fd : sock[f] # NULL
  /\ Do("listener", "recv_ack", a, 0, NULL)
  /\ UNCHANGED <<arrays, sock, locks>>

\* Mutant of SendAcp: new_socket is not reset after a failure.
SendAcpKeeps ==
  LET f == act["listener"].fd
  IN /\ At("listener", "send_acp")
     /\ sock' = IF SendOk(f) THEN [sock EXCEPT ![f] = Sent(@, "ACP")] ELSE Closed(f)
     /\ Goto("listener", "recv_ack")
     /\ UNCHANGED <<arrays, locks>>

SendAcp ==
  LET f == act["listener"].fd
  IN /\ At("listener", "send_acp")
     /\ \/ /\ SendOk(f)
           /\ sock' = [sock EXCEPT ![f] = Sent(@, "ACP")]
           /\ Goto("listener", "recv_ack")
        \/ /\ ~SendOk(f)
           /\ sock' = Closed(f)
           /\ Do("listener", "recv_ack", act["listener"].addr, 0, NULL)
     /\ UNCHANGED <<arrays, locks>>

\* A first packet that is not an ACK drops the connection without closing it.
RecvAck ==
  LET f == act["listener"].fd
  IN /\ At("listener", "recv_ack")
     /\ \/ /\ Waiting(f)
           /\ sock' = [sock EXCEPT ![f] = Consume(@)]
           /\ IF Head(sock[f].inbox) = "ACK" THEN Goto("listener", "add")
                                             ELSE Done("listener")
        \/ /\ Ended(f)
           /\ sock' = Closed(f)
           /\ Done("listener")
     /\ UNCHANGED <<arrays, locks>>

-----------------------------------------------------------------------------
(* handle_peers, in slot j of thread_array.                                *)

Leave(j, locked) ==
  thread_array' = [thread_array EXCEPT
    ![j] = [pc |-> "remove", addr |-> thread_array[j].addr,
            fd |-> thread_array[j].fd, locked |-> locked]]

\* recv, and the reply to a PNG.
HandlerPacket(j) ==
  LET f == thread_array[j].fd
      m == Head(sock[f].inbox)
  IN /\ thread_array[j].pc = "recv" /\ Waiting(f)
     /\ sock' = [sock EXCEPT ![f] =
          IF m = "PNG" /\ SendOk(f) THEN Sent(Consume(@), "POG") ELSE Consume(@)]
     /\ IF m = "DSN" THEN Leave(j, TRUE) ELSE UNCHANGED thread_array
     /\ UNCHANGED <<peer_array, thread_status_array, act, locks>>

\* recv returns -1 (locked) or 0 (not): after a reset it may be either.
HandlerEnd(j, locked) ==
  LET f == thread_array[j].fd
  IN /\ thread_array[j].pc = "recv" /\ Ended(f)
     /\ ~IsSocket(f) => locked
     /\ IsSocket(f) /\ sock[f].remote = "closed" => ~locked
     /\ Leave(j, locked)
     /\ UNCHANGED <<peer_array, thread_status_array, sock, act, locks>>

HandlerRemove(j) ==
  /\ thread_array[j].pc = "remove" /\ peer_array_lock = NULL
  /\ peer_array' = Removed(thread_array[j].addr)
  /\ thread_array' = [thread_array EXCEPT ![j].pc = "close"]
  /\ UNCHANGED <<thread_status_array, sock, act, locks>>

\* Mutant of HandlerClose: the slot is given back before the socket is closed.
HandlerReleasesEarly(j) ==
  /\ thread_array[j].pc = "close"
  /\ thread_status_array' = [thread_status_array EXCEPT ![j] = 0]
  /\ sock' = Closed(thread_array[j].fd)
  /\ thread_array' = [thread_array EXCEPT
       ![j] = [pc |-> "release", addr |-> NULL, fd |-> NULL, locked |-> @.locked]]
  /\ UNCHANGED <<peer_array, act, locks>>

HandlerClose(j) ==
  /\ thread_array[j].pc = "close"
  /\ sock' = Closed(thread_array[j].fd)
  /\ thread_array' = [thread_array EXCEPT
       ![j] = [pc |-> "release", addr |-> NULL, fd |-> NULL, locked |-> @.locked]]
  /\ UNCHANGED <<peer_array, thread_status_array, act, locks>>

\* Mutant of ReleaseNeedsLock: the mutex of peer.c:409 is not commented out.
ReleaseAlwaysLocks(locked) == TRUE

\* Whether the branch of handle_peers that ended takes the mutex.
ReleaseNeedsLock(locked) == locked

\* The status becomes 0 and the thread exits.
HandlerRelease(j) ==
  /\ thread_array[j].pc = "release"
  /\ ReleaseNeedsLock(thread_array[j].locked) => thread_status_lock = NULL
  /\ thread_status_array' = [thread_status_array EXCEPT ![j] = 0]
  /\ thread_array' = [thread_array EXCEPT ![j] = NoThread("exited")]
  /\ UNCHANGED <<peer_array, sock, act, locks>>

-----------------------------------------------------------------------------
(* The remote ends.                                                        *)

Greeting(s) == IF s.addr \in OutAddrs THEN "ACP" ELSE "ACK"

RemoteHello(f, m) ==
  /\ IsSocket(f) /\ sock[f].remote = "new"
  /\ m = Greeting(sock[f]) \/ "BADHELLO" \in RemoteActs
  /\ sock' = [sock EXCEPT ![f] = [addr |-> @.addr, remote |-> "open",
                                   inbox |-> Append(@.inbox, m)]]
  /\ UNCHANGED <<arrays, act, locks>>

RemoteSend(f, m) ==
  /\ m \in RemoteActs
  /\ IsSocket(f) /\ sock[f].remote = "open"
  /\ Len(sock[f].inbox) < InboxMax
  /\ sock' = [sock EXCEPT ![f].inbox = Append(@, m)]
  /\ UNCHANGED <<arrays, act, locks>>

RemoteClose(f) ==
  /\ Present(f)
  /\ "CLOSE" \in RemoteActs \/ sock[f].remote = "leaving"
  /\ sock' = [sock EXCEPT ![f].remote = "closed"]
  /\ UNCHANGED <<arrays, act, locks>>

RemoteReset(f) ==
  /\ "RESET" \in RemoteActs
  /\ IsSocket(f) /\ sock[f].remote # "reset"
  /\ sock' = [sock EXCEPT ![f].remote = "reset"]
  /\ UNCHANGED <<arrays, act, locks>>

-----------------------------------------------------------------------------
(* The end of the process.                                                 *)

\* A send, or a receive whose packet asks for a reply, is the next call.
AboutToSend(f) ==
  \/ \E p \in Actors :
       act[p].fd = f /\ act[p].pc \in {"send_acp", "send_req", "send_dsn"}
  \/ /\ At("main", "pinging")
     /\ \E i \in Index : act["main"].idx = i /\ peer_array[i] # NULL
                         /\ peer_array[i].fd = f
  \/ /\ Waiting(f) /\ Head(sock[f].inbox) = "ACP"
     /\ At("main", "recv_acp") /\ act["main"].fd = f
  \/ /\ Waiting(f) /\ Head(sock[f].inbox) = "PNG"
     /\ \E j \in Index : thread_array[j].pc = "recv" /\ thread_array[j].fd = f

\* send raises SIGPIPE on a socket that was reset, and nothing handles it.
BrokenPipe(f) ==
  IsSocket(f) /\ sock[f].remote = "reset" /\ AboutToSend(f) /\ Crash

\* destroy_all runs while the other threads still use the arrays and mutexes
\* it frees.
UseAfterDestroy ==
  /\ \/ \E j \in Index : thread_array[j].pc \in {"remove", "release"}
     \/ act["listener"].pc \in {"add", "assign", "create"}
  /\ Crash

ExitProcess ==
  /\ proc' = "exited"
  /\ UNCHANGED <<arrays, sock, act, locks>>

-----------------------------------------------------------------------------
ActorStep(p) ==
  \/ AddToArray(p) \/ ArrayFull(p) \/ AddOutOfMemory(p)
  \/ (\E j \in Index : AssignSlot(p, j)) \/ NoFreeThread(p) \/ CreateThread(p)

Command ==
  \/ \E a \in Addrs : Connect(a) \/ Disconnect(a) \/ Fetch(a)
  \/ PeersLock

MainStep ==
  \/ \E f \in Fd : OpenConnection(f) \/ RefusedConnection(f)
  \/ NoDescriptor \/ RecvAcp \/ ActorStep("main")
  \/ FetchRejected
  \/ GetFd("fetch_fd", "fetch_read_fd", "send_req")
  \/ ReadFd("fetch_read_fd", "send_req") \/ SendReq
  \/ GetFd("get_fd", "read_fd", "get_tid") \/ ReadFd("read_fd", "get_tid")
  \/ GetThreadId \/ ReadThreadId \/ SendDsn
  \/ (\E j \in Index : JoinLock(j)) \/ JoinReturns
  \/ PeersPing \/ PeersUnlock

ListenerStep == SendAcp \/ RecvAck \/ ActorStep("listener")

HandlerStep(j) ==
  \/ HandlerPacket(j) \/ (\E locked \in BOOLEAN : HandlerEnd(j, locked))
  \/ HandlerRemove(j) \/ HandlerClose(j) \/ HandlerRelease(j)

Arrive == \E a \in InAddrs : AcceptFails(a) \/ \E f \in Fd : Accept(a, f)

RemoteStep(f) ==
  \/ \E m \in Packets : RemoteHello(f, m) \/ RemoteSend(f, m)
  \/ RemoteClose(f) \/ RemoteReset(f)

ThreadStep ==
  \/ Command \/ MainStep \/ Arrive \/ ListenerStep
  \/ \E j \in Index : HandlerStep(j)
  \/ \E f \in Fd : RemoteStep(f)

Ending ==
  \/ proc = "running" /\ (Quit \/ ReadGoneEntry \/ JoinUndefined
                          \/ \E f \in Fd : BrokenPipe(f))
  \/ proc = "quitting" /\ (UseAfterDestroy \/ ExitProcess)

Running(A) == proc = "running" /\ A /\ UNCHANGED proc

Next == Running(ThreadStep) \/ Ending

Spec == Init /\ [][Next]_vars

\* Every thread the code creates is scheduled, and a thread that waits for a
\* mutex gets it if it is free again and again. Nothing is assumed of the user,
\* of new connections, or of a remote end beyond one thing a btide process does:
\* it hangs up after a DSN.
HangUp(f) ==
  IsSocket(f) /\ sock[f].remote = "leaving" /\ RemoteClose(f)

Fairness ==
  /\ SF_vars(Running(MainStep)) /\ WF_vars(proc = "running" /\ ReadGoneEntry)
  /\ SF_vars(Running(ListenerStep))
  /\ \A j \in Index : SF_vars(Running(HandlerStep(j)))
  /\ \A f \in Fd : WF_vars(Running(HangUp(f)))

FairSpec == Spec /\ Fairness

-----------------------------------------------------------------------------
(* Properties.                                                             *)

Serving == {"recv", "remove"}

\* A slot that thread_status_array shows as free, or that assign_thread is
\* about to create a thread in, has no thread still working in it: pthread_t
\* and status of a live handler are never reused.
SlotExclusive ==
  /\ \A j \in Index : thread_array[j].pc \in Busy => thread_status_array[j] = 1
  /\ \A p \in Actors : At(p, "create") => thread_array[act[p].idx].pc \in Gone

\* CONNECT never gives one listening peer two entries: the in_array check of
\* peer_connect is far from the add_to_array it guards, and no mutex is held
\* in between.
UniqueOutgoing ==
  \A i, k \in Index :
    /\ peer_array[i] # NULL /\ peer_array[k] # NULL
    /\ peer_array[i].addr = peer_array[k].addr
    /\ peer_array[i].addr \in OutAddrs
    => i = k

InHandshake(p) ==
  act[p].pc \in {"recv_acp", "send_acp", "recv_ack", "add", "assign", "create"}
  /\ act[p].fd # 0
HoldsSocket(j) == thread_array[j].pc \in {"recv", "remove", "close"}
Holds(f, a) == IsSocket(f) /\ sock[f].addr = a

\* While descriptor 0 is the input of the process (see SendAcp, RecvAck) a
\* descriptor that a thread will read, close or hand over is an open socket to
\* the peer that thread is working for, and no other thread works on it: no
\* close takes the socket of another peer.
DescriptorOwnership ==
  sock[0] = Stdin =>
    /\ \A p \in Actors : InHandshake(p) =>
         /\ Holds(act[p].fd, act[p].addr)
         /\ \A q \in Actors \ {p} : InHandshake(q) => act[p].fd # act[q].fd
         /\ \A j \in Index : HoldsSocket(j) => thread_array[j].fd # act[p].fd
    /\ \A j \in Index : HoldsSocket(j) =>
         /\ Holds(thread_array[j].fd, thread_array[j].addr)
         /\ \A k \in Index \ {j} :
              HoldsSocket(k) => thread_array[k].fd # thread_array[j].fd

\* No descriptor is lost: an open socket is in the hands of a handshake or of a
\* handler that will close it, whichever of the early returns of peer_connect,
\* listener and assign_thread was taken, as long as no CONNECT is refused
\* (RefusedConnection), no pthread_create fails, and a peer that connects sends
\* an ACK first (RecvAck).
SocketsHeld ==
  sock[0] = Stdin =>
    \A f \in Fd : IsSocket(f) =>
      \/ \E p \in Actors : InHandshake(p) /\ act[p].fd = f
      \/ \E j \in Index : HoldsSocket(j) /\ thread_array[j].fd = f

\* As long as a handler works for a peer, PEERS, DISCONNECT and FETCH can find
\* it: its own entry, with its own descriptor, stays in peer_array until the
\* handler takes it out, whatever other entries of that address come and go.
ServedPeerListed ==
  sock[0] = Stdin =>
    \A j \in Index : thread_array[j].pc \in Serving =>
      \E i \in Index : /\ peer_array[i] # NULL
                       /\ peer_array[i].addr = thread_array[j].addr
                       /\ peer_array[i].fd = thread_array[j].fd

\* When DISCONNECT reports a listening peer as disconnected, no thread receives
\* from that peer any more, even if entries, slots and descriptors changed
\* hands between get_fd, get_thread_id and pthread_join.
DisconnectEndsService ==
  [][ (At("main", "joining") /\ At("main", "idle")' /\ act["main"].addr \in OutAddrs)
      => \A j \in Index : ~ (thread_array'[j].pc = "recv"
                             /\ thread_array'[j].addr = act["main"].addr) ]_vars

\* The thread waits for the other half of a handshake, from a peer that keeps the
\* connection open and sends nothing.
WaitsForPeer(p) ==
  /\ act[p].pc \in {"recv_acp", "recv_ack"}
  /\ Present(act[p].fd) /\ ~Waiting(act[p].fd)

\* DISCONNECT joins a handler that serves another peer, or one that itself waits
\* for the mutex that DISCONNECT has locked for the join.
JoinStuck ==
  /\ At("main", "joining")
  /\ LET t == thread_array[act["main"].idx]
     IN \/ t.pc = "recv" /\ t.addr # act["main"].addr
        \/ t.pc = "release" /\ t.locked

ComesBack(p) == []<>(At(p, "idle") \/ proc # "running")
InputLost == <>(sock[0] # Stdin)

\* Every command comes back to the prompt, whatever it has to wait for (a mutex, a
\* reply, a thread) and whatever the listener and the handlers do meanwhile, but
\* for these cases: a peer that accepts the connection of a CONNECT and then says
\* nothing (peer.c:58), the wrong joins of JoinStuck, and sockets that have become
\* descriptor 0.
CommandReturns ==
  ComesBack("main") \/ <>[](WaitsForPeer("main") \/ JoinStuck) \/ InputLost

\* The listener always comes back to accept, whatever the command thread and the
\* handlers do with the mutexes it needs, unless the peer it has accepted stays
\* and says nothing (peer.c:283), which shuts out all others, or DISCONNECT keeps
\* thread_status_lock in a wrong join.
ListenerReturns ==
  ComesBack("listener") \/ <>[](WaitsForPeer("listener") \/ JoinStuck) \/ InputLost

\* A handler that has taken its leave, by a branch that takes thread_status_lock
\* or by the one that does not, gives its slot back, whoever has the mutexes it
\* needs for that, unless DISCONNECT keeps one in a wrong join.
SlotReturned ==
  \/ \A j \in Index : (thread_array[j].pc = "remove")
                        ~> (thread_array[j].pc \in Gone \/ proc # "running")
  \/ <>[]JoinStuck \/ InputLost

-----------------------------------------------------------------------------
(* What the repository says of the program, and its runs refute.           *)

\* peer.c:330: "If sending DSN, disconnect immediately": DISCONNECT does not wait
\* for ever for the handler of the peer.
DisconnectReturns ==
  At("main", "joining") ~> (At("main", "idle") \/ proc # "running")

\* peers.h:22: thread_id is used "to shut a thread down when disconnecting":
\* DISCONNECT never waits for a thread that serves another peer.
JoinsOwnThread ==
  [][ (At("main", "join") /\ At("main", "joining")') =>
      LET t == thread_array[act'["main"].idx]
      IN t.pc \in {"recv", "remove", "close"} => t.addr = act["main"].addr ]_vars
=============================================================================
