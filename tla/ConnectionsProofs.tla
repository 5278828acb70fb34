------------------------- MODULE ConnectionsProofs -------------------------
(***************************************************************************)
(* Proofs about Connections, for any number of peers, addresses and        *)
(* descriptors, any behaviour of the remote ends and any of the faults.    *)
(***************************************************************************)
EXTENDS Connections, TLAPS

-----------------------------------------------------------------------------
(* Types. TypeInv is TypeOK, in parts, with what the pc of main and of the *)
(* listener says about the other fields of act.                            *)

HoldingPcs == {"recv_acp", "send_acp", "recv_ack", "add", "assign", "create"}
IndexPcs == {"create", "read_fd", "fetch_read_fd", "read_tid"}
Pcs == MainPcs \cup ListenerPcs \cup SharedPcs

FieldsTyped(p, pc, a, f, i) ==
  /\ pc \in MainPcs => p = "main"
  /\ pc \in ListenerPcs => p = "listener"
  /\ pc \notin {"idle", "pinging"} => a \in Addrs
  /\ pc \in HoldingPcs => f \in Fd
  /\ pc \in IndexPcs => i \in Index

ActInv ==
  /\ act \in [Actors -> Act]
  /\ \A p \in Actors :
       FieldsTyped(p, act[p].pc, act[p].addr, act[p].fd, act[p].idx)
SockInv == sock \in [Fd -> Socket \cup {NULL, Stdin}]
PeerInv == peer_array \in [Index -> Peer \cup {NULL}]
ThreadInv == /\ thread_status_array \in [Index -> {0, 1}]
             /\ thread_array \in [Index -> Thread]
RestInv == /\ thread_status_lock \in Actors \cup {NULL}
           /\ peer_array_lock \in Actors \cup {NULL}
           /\ proc \in {"running", "quitting", "exited", "crashed"}

TypeInv == ActInv /\ SockInv /\ PeerInv /\ ThreadInv /\ RestInv

LEMMA TypeInvTypes == TypeInv => TypeOK
BY DEF TypeInv, TypeOK, ActInv, SockInv, PeerInv, ThreadInv, RestInv

\* What a thread becomes has the right types if the new fields have.
LEMMA DoTyped ==
  ASSUME ActInv, NEW p \in Actors, NEW pc \in Pcs, NEW a \in Addrs \cup {NULL},
         NEW f \in Fd \cup {NULL}, NEW i \in 0 .. MaxPeers \cup {NULL},
         FieldsTyped(p, pc, a, f, i), Do(p, pc, a, f, i)
  PROVE  ActInv'
<1> DEFINE r == [pc |-> pc, addr |-> a, fd |-> f, idx |-> i]
<1>1. r \in Act
  BY DEF Act, Pcs
<1>2. act' = [act EXCEPT ![p] = r]
  BY DEF Do
<1>3. act' \in [Actors -> Act]
  BY <1>1, <1>2 DEF ActInv
<1>4. r.pc = pc /\ r.addr = a /\ r.fd = f /\ r.idx = i
  OBVIOUS
<1> HIDE DEF r
<1>5. ASSUME NEW q \in Actors
      PROVE  FieldsTyped(q, act'[q].pc, act'[q].addr, act'[q].fd, act'[q].idx)
  <2>1. CASE q = p
    BY <1>2, <1>4, <2>1 DEF ActInv
  <2>2. CASE q # p
    BY <1>2, <2>2 DEF ActInv
  <2> QED
    BY <2>1, <2>2
<1> QED
  BY <1>3, <1>5 DEF ActInv, FieldsTyped

LEMMA DoneTyped ==
  ASSUME ActInv, NEW p \in Actors, Done(p)
  PROVE  ActInv'
<1>1. Do(p, "idle", NULL, NULL, NULL)
  BY DEF Done, Do, Idle
<1>2. FieldsTyped(p, "idle", NULL, NULL, NULL) /\ "idle" \in Pcs
  BY DEF FieldsTyped, MainPcs, ListenerPcs, HoldingPcs, IndexPcs, Pcs, SharedPcs
<1> QED
  BY <1>1, <1>2, DoTyped

LEMMA GotoTyped ==
  ASSUME ActInv, NEW p \in Actors, NEW pc \in Pcs, Goto(p, pc),
         FieldsTyped(p, pc, act[p].addr, act[p].fd, act[p].idx)
  PROVE  ActInv'
<1>1. act[p] \in Act
  BY DEF ActInv
<1>2. /\ act[p].addr \in Addrs \cup {NULL} /\ act[p].fd \in Fd \cup {NULL}
      /\ act[p].idx \in 0 .. MaxPeers \cup {NULL}
  BY <1>1 DEF Act
<1> QED
  BY <1>2, DoTyped DEF Goto

LEMMA NewSocketTyped ==
  \A a \in Addrs : /\ NewSocket(a) \in Socket
                   /\ [NewSocket(a) EXCEPT !.remote = "reset"] \in Socket
<1>1. \A a \in Addrs : NewSocket(a) \in Socket
  BY DEF NewSocket, Socket
<1>2. \A s \in Socket : [s EXCEPT !.remote = "reset"] \in Socket
  BY DEF Socket
<1> QED
  BY <1>1, <1>2

LEMMA SentTyped == ASSUME NEW s \in Socket, NEW m PROVE Sent(s, m) \in Socket
BY DEF Sent, Socket

LEMMA ConsumeTyped ==
  \A s \in Socket : s.inbox # <<>> => Consume(s) \in Socket
BY DEF Consume, Socket

LEMMA ClosedTyped ==
  ASSUME SockInv, NEW f, sock' = Closed(f) PROVE SockInv'
BY DEF SockInv, Closed

LEMMA SocketTyped ==
  ASSUME SockInv, NEW f, IsSocket(f), f \in Fd PROVE sock[f] \in Socket
BY DEF SockInv, IsSocket

LEMMA SendTyped ==
  ASSUME SockInv, NEW f, NEW m, SendTo(f, m) PROVE SockInv'
<1>1. CASE SendOk(f) /\ f \in Fd
  BY <1>1, SocketTyped, SentTyped DEF SendTo, SockInv, SendOk
<1>2. CASE ~(SendOk(f) /\ f \in Fd)
  BY <1>2 DEF SendTo, SockInv
<1> QED
  BY <1>1, <1>2

\* The initial values have their types.
LEMMA TypeInit == Init => TypeInv
<1> SUFFICES ASSUME Init PROVE TypeInv
  OBVIOUS
<1>1. NoThread("none") \in Thread
  BY DEF NoThread, Thread, Gone
<1>2. Idle \in Act
  BY DEF Idle, Act, SharedPcs
<1>3. FieldsTyped(Idle, "idle", NULL, NULL, NULL)
  BY DEF FieldsTyped, MainPcs, ListenerPcs, HoldingPcs, IndexPcs
<1>4. ActInv
  BY <1>2 DEF Init, ActInv, Idle, FieldsTyped, MainPcs, ListenerPcs,
              HoldingPcs, IndexPcs
<1>5. SockInv /\ PeerInv /\ ThreadInv /\ RestInv
  BY <1>1 DEF Init, SockInv, PeerInv, ThreadInv, RestInv, Fd
<1> QED
  BY <1>4, <1>5 DEF TypeInv

\* CONNECT, up to the packet ACP.
LEMMA TypeConnect ==
  ASSUME TypeInv, proc' = proc,
         \/ \E a \in Addrs : Connect(a)
         \/ \E f \in Fd : OpenConnection(f) \/ RefusedConnection(f)
         \/ NoDescriptor \/ RecvAcp
  PROVE  TypeInv'
<1> USE DEF TypeInv, locks, arrays, At, Actors
<1>1. ASSUME NEW a \in Addrs, Connect(a) PROVE TypeInv'
  <2>1. ActInv'
    BY <1>1, DoTyped DEF Connect, FieldsTyped, Pcs, MainPcs, ListenerPcs,
                         HoldingPcs, IndexPcs
  <2> QED
    BY <1>1, <2>1 DEF Connect, SockInv, PeerInv, ThreadInv, RestInv
<1>2. ASSUME NEW f \in Fd, OpenConnection(f) PROVE TypeInv'
  <2>1. act["main"].addr \in Addrs
    BY <1>2 DEF OpenConnection, ActInv, FieldsTyped
  <2>2. ActInv'
    BY <1>2, <2>1, DoTyped DEF OpenConnection, FieldsTyped, Pcs, MainPcs,
                               ListenerPcs, HoldingPcs, IndexPcs
  <2>3. SockInv'
    BY <1>2, <2>1, NewSocketTyped DEF OpenConnection, SockInv
  <2> QED
    BY <1>2, <2>2, <2>3 DEF OpenConnection, PeerInv, ThreadInv, RestInv
<1>3. ASSUME NEW f \in Fd, RefusedConnection(f) PROVE TypeInv'
  <2>1. act["main"].addr \in Addrs
    BY <1>3 DEF RefusedConnection, ActInv, FieldsTyped
  <2>2. ActInv'
    BY <1>3, DoneTyped DEF RefusedConnection
  <2>3. SockInv'
    BY <1>3, <2>1, NewSocketTyped DEF RefusedConnection, SockInv
  <2> QED
    BY <1>3, <2>2, <2>3 DEF RefusedConnection, PeerInv, ThreadInv, RestInv
<1>4. ASSUME NoDescriptor PROVE TypeInv'
  BY <1>4, DoneTyped DEF NoDescriptor, SockInv, PeerInv, ThreadInv, RestInv
<1>5. ASSUME RecvAcp PROVE TypeInv'
  <2> DEFINE f == act["main"].fd
  <2>1. f \in Fd /\ act["main"].addr \in Addrs /\ act["main"] \in Act
    BY <1>5 DEF RecvAcp, ActInv, FieldsTyped, HoldingPcs
  <2>2. CASE /\ Waiting(f) /\ sock' = [sock EXCEPT ![f] = Sent(Consume(@), "ACK")]
             /\ Goto("main", "add")
    <3>1. ActInv'
      BY <2>1, <2>2, GotoTyped DEF FieldsTyped, Pcs, SharedPcs, MainPcs,
                                   ListenerPcs, HoldingPcs, IndexPcs
    <3>2. sock[f] \in Socket /\ Consume(sock[f]) \in Socket
      BY <2>1, <2>2, SocketTyped, ConsumeTyped DEF Waiting
    <3>3. SockInv'
      BY <2>2, <3>2, SentTyped DEF SockInv
    <3> QED
      BY <1>5, <3>1, <3>3 DEF RecvAcp, PeerInv, ThreadInv, RestInv
  <2>3. CASE sock' = Closed(f) /\ Done("main")
    BY <1>5, <2>3, DoneTyped, ClosedTyped DEF RecvAcp, PeerInv, ThreadInv, RestInv
  <2> QED
    BY <1>5, <2>2, <2>3 DEF RecvAcp
<1> QED
  BY <1>1, <1>2, <1>3, <1>4, <1>5

\* add_to_array and assign_thread.
LEMMA TypeActor ==
  ASSUME TypeInv, proc' = proc, NEW p \in Actors, ActorStep(p)
  PROVE  TypeInv'
<1> USE DEF TypeInv, locks, arrays, At
<1>1. ASSUME AddToArray(p) PROVE TypeInv'
  <2>1. act[p].addr \in Addrs /\ act[p].fd \in Fd
    BY <1>1 DEF AddToArray, ActInv, FieldsTyped, HoldingPcs
  <2>2. ActInv'
    BY <1>1, <2>1, GotoTyped
    DEF AddToArray, FieldsTyped, Pcs, SharedPcs, MainPcs, ListenerPcs, IndexPcs
  <2>3. [addr |-> act[p].addr, fd |-> act[p].fd, tid |-> NULL] \in Peer
    BY <2>1 DEF Peer
  <2>4. PeerInv'
    BY <1>1, <2>3 DEF AddToArray, PeerInv
  <2> QED
    BY <1>1, <2>2, <2>4 DEF AddToArray, SockInv, ThreadInv, RestInv
<1>2. ASSUME ArrayFull(p) PROVE TypeInv'
  BY <1>2, DoneTyped, ClosedTyped DEF ArrayFull, PeerInv, ThreadInv, RestInv
<1>3. ASSUME AddOutOfMemory(p) PROVE TypeInv'
  BY <1>3, DoneTyped, ClosedTyped DEF AddOutOfMemory, PeerInv, ThreadInv, RestInv
<1>4. ASSUME NEW j \in Index, AssignSlot(p, j) PROVE TypeInv'
  <2>1. act[p].addr \in Addrs /\ act[p].fd \in Fd
    BY <1>4 DEF AssignSlot, ActInv, FieldsTyped, HoldingPcs
  <2>2. j \in 0 .. MaxPeers
    BY SizeAssumption DEF Index
  <2>3. ActInv'
    BY <1>4, <2>1, <2>2, DoTyped
    DEF AssignSlot, FieldsTyped, Pcs, SharedPcs, MainPcs, ListenerPcs
  <2> QED
    BY <1>4, <2>3 DEF AssignSlot, SockInv, PeerInv, ThreadInv, RestInv
<1>5. ASSUME NoFreeThread(p) PROVE TypeInv'
  BY <1>5, DoneTyped, ClosedTyped DEF NoFreeThread, PeerInv, ThreadInv, RestInv
<1>6. ASSUME CreateThread(p) PROVE TypeInv'
  <2>1. act[p].addr \in Addrs /\ act[p].fd \in Fd /\ act[p].idx \in Index
    BY <1>6 DEF CreateThread, ActInv, FieldsTyped, HoldingPcs, IndexPcs
  <2>2. ActInv'
    BY <1>6, DoneTyped DEF CreateThread
  <2>3. PeerInv'
    BY <1>6, <2>1 DEF CreateThread, PeerInv, WithThreadId, First, Matches, Peer
  <2>4. [pc |-> "recv", addr |-> act[p].addr, fd |-> act[p].fd,
         locked |-> FALSE] \in Thread
    BY <2>1 DEF Thread, Busy
  <2>5. ThreadInv'
    BY <1>6, <2>4 DEF CreateThread, ThreadInv
  <2> QED
    BY <1>6, <2>2, <2>3, <2>5 DEF CreateThread, SockInv, RestInv
<1> QED
  BY <1>1, <1>2, <1>3, <1>4, <1>5, <1>6 DEF ActorStep

\* FETCH and DISCONNECT read an entry in two steps.
LEMMA TypeLookup ==
  ASSUME TypeInv, proc' = proc,
         \/ \E a \in Addrs : Disconnect(a) \/ Fetch(a)
         \/ FetchRejected
         \/ GetFd("fetch_fd", "fetch_read_fd", "send_req")
         \/ GetFd("get_fd", "read_fd", "get_tid")
         \/ ReadFd("fetch_read_fd", "send_req") \/ ReadFd("read_fd", "get_tid")
         \/ GetThreadId \/ ReadThreadId
  PROVE  TypeInv'
<1> USE DEF TypeInv, locks, arrays, At
<1> DEFINE me == act["main"]
<1>0. "main" \in Actors /\ 0 \in Fd /\ Index \subseteq 0 .. MaxPeers
      /\ 0 \in 0 .. MaxPeers
  BY SizeAssumption DEF Actors, Fd, Index
<1>00. /\ me.addr \in Addrs \cup {NULL} /\ me.fd \in Fd \cup {NULL}
       /\ me.idx \in 0 .. MaxPeers \cup {NULL}
       /\ me.pc \notin {"idle", "pinging"} => me.addr \in Addrs
       /\ me.pc \in IndexPcs => me.idx \in Index
  BY <1>0 DEF ActInv, Act, FieldsTyped
<1>1. ASSUME NEW a \in Addrs, NEW c, NEW pc \in {"get_fd", "fetch_fd"}, Lookup(c, a, pc)
      PROVE  TypeInv'
  <2>1. ActInv'
    BY <1>0, <1>1, DoTyped DEF Lookup, FieldsTyped, Pcs, MainPcs,
                               ListenerPcs, HoldingPcs, IndexPcs
  <2> QED
    BY <1>1, <2>1 DEF Lookup, SockInv, PeerInv, ThreadInv, RestInv
<1>2. ASSUME FetchRejected PROVE TypeInv'
  BY <1>0, <1>2, DoneTyped DEF FetchRejected, SockInv, PeerInv, ThreadInv, RestInv
<1>3. ASSUME NEW from \in {"get_fd", "fetch_fd"},
             NEW read \in {"read_fd", "fetch_read_fd"},
             NEW next \in {"get_tid", "send_req"}, GetFd(from, read, next)
      PROVE  TypeInv'
  <2>1. me.addr \in Addrs
    BY <1>00, <1>3 DEF GetFd
  <2>2. ASSUME NEW i \in First(Matches(me.addr)), Do("main", read, me.addr, NULL, i)
        PROVE  ActInv'
    <3>1. i \in Index
      BY DEF First, Matches
    <3> QED
      BY <1>0, <2>1, <2>2, <3>1, DoTyped DEF FieldsTyped, Pcs, MainPcs,
                                         ListenerPcs, HoldingPcs, IndexPcs
  <2>3. ASSUME Do("main", next, me.addr, 0, NULL) PROVE ActInv'
    BY <1>0, <2>1, <2>3, DoTyped DEF FieldsTyped, Pcs, MainPcs,
                                     ListenerPcs, HoldingPcs, IndexPcs
  <2>4. ActInv'
    BY <1>3, <2>2, <2>3 DEF GetFd
  <2> QED
    BY <1>3, <2>4 DEF GetFd, SockInv, PeerInv, ThreadInv, RestInv
<1>4. ASSUME NEW read \in {"read_fd", "fetch_read_fd"},
             NEW next \in {"get_tid", "send_req"}, ReadFd(read, next)
      PROVE  TypeInv'
  <2>1. me.addr \in Addrs /\ me.idx \in Index
    BY <1>00, <1>4 DEF ReadFd, IndexPcs
  <2>2. peer_array[me.idx].fd \in Fd
    BY <1>4, <2>1 DEF ReadFd, PeerInv, Peer
  <2>3. ActInv'
    BY <1>0, <1>4, <2>1, <2>2, DoTyped DEF ReadFd, FieldsTyped, Pcs, MainPcs,
                                  ListenerPcs, HoldingPcs, IndexPcs
  <2> QED
    BY <1>4, <2>3 DEF ReadFd, SockInv, PeerInv, ThreadInv, RestInv
<1>5. ASSUME GetThreadId PROVE TypeInv'
  <2>1. me.addr \in Addrs
    BY <1>00, <1>5 DEF GetThreadId
  <2>2. ASSUME NEW i \in First(Matches(me.addr)),
               Do("main", "read_tid", me.addr, me.fd, i)
        PROVE  ActInv'
    <3>1. i \in Index
      BY DEF First, Matches
    <3> QED
      BY <1>0, <1>00, <2>1, <2>2, <3>1, DoTyped DEF FieldsTyped, Pcs, MainPcs,
                                              ListenerPcs, HoldingPcs, IndexPcs
  <2>3. ASSUME Do("main", "send_dsn", me.addr, me.fd, 0) PROVE ActInv'
    BY <1>0, <1>00, <2>1, <2>3, DoTyped DEF FieldsTyped, Pcs, MainPcs,
                                          ListenerPcs, HoldingPcs, IndexPcs
  <2>4. ActInv'
    BY <1>5, <2>2, <2>3 DEF GetThreadId
  <2> QED
    BY <1>5, <2>4 DEF GetThreadId, SockInv, PeerInv, ThreadInv, RestInv
<1>6. ASSUME ReadThreadId PROVE TypeInv'
  <2>1. me.addr \in Addrs /\ me.idx \in Index
    BY <1>00, <1>6 DEF ReadThreadId, IndexPcs
  <2>2. peer_array[me.idx].tid \in 0 .. MaxPeers \cup {NULL}
    BY <1>0, <1>6, <2>1 DEF ReadThreadId, PeerInv, Peer
  <2>3. "send_dsn" \in Pcs
        /\ FieldsTyped("main", "send_dsn", me.addr, me.fd, peer_array[me.idx].tid)
    BY <2>1 DEF FieldsTyped, Pcs, MainPcs, ListenerPcs, HoldingPcs, IndexPcs
  <2>4. Do("main", "send_dsn", me.addr, me.fd, peer_array[me.idx].tid)
    BY <1>6 DEF ReadThreadId
  <2>5. ActInv'
    BY <1>0, <1>00, <2>2, <2>3, <2>4, DoTyped
  <2> QED
    BY <1>6, <2>5 DEF ReadThreadId, SockInv, PeerInv, ThreadInv, RestInv
<1> QED
  BY <1>1, <1>2, <1>3, <1>4, <1>5, <1>6 DEF Disconnect, Fetch

\* The sends of FETCH, DISCONNECT and PEERS, and pthread_join.
LEMMA TypeSend ==
  ASSUME TypeInv, proc' = proc,
         \/ SendReq \/ SendDsn \/ (\E j \in Index : JoinLock(j)) \/ JoinReturns
         \/ PeersLock \/ PeersPing \/ PeersUnlock
  PROVE  TypeInv'
<1> USE DEF TypeInv, locks, arrays, At
<1> DEFINE me == act["main"]
<1>0. "main" \in Actors /\ 0 \in 0 .. MaxPeers /\ Index \subseteq 0 .. MaxPeers
      /\ \A i \in Index : i + 1 \in 0 .. MaxPeers
  BY SizeAssumption DEF Actors, Index
<1>00. /\ me.addr \in Addrs \cup {NULL} /\ me.fd \in Fd \cup {NULL}
       /\ me.idx \in 0 .. MaxPeers \cup {NULL}
       /\ me.pc \notin {"idle", "pinging"} => me.addr \in Addrs
  BY <1>0 DEF ActInv, Act, FieldsTyped
<1>1. ASSUME SendReq PROVE TypeInv'
  BY <1>0, <1>1, DoneTyped, SendTyped DEF SendReq, PeerInv, ThreadInv, RestInv
<1>2. ASSUME SendDsn PROVE TypeInv'
  <2>0. me.addr \in Addrs /\ Do("main", "join", me.addr, NULL, me.idx)
    BY <1>00, <1>2 DEF SendDsn
  <2>1. ActInv'
    <3>1. "join" \in Pcs /\ FieldsTyped("main", "join", me.addr, NULL, me.idx)
      BY <2>0 DEF FieldsTyped, Pcs, MainPcs, ListenerPcs, HoldingPcs, IndexPcs
    <3> HIDE DEF me
    <3> QED
      BY <1>0, <1>00, <2>0, <3>1, DoTyped
  <2> QED
    BY <1>2, <2>1, SendTyped DEF SendDsn, PeerInv, ThreadInv, RestInv
<1>3. ASSUME NEW j \in Index, JoinLock(j) PROVE TypeInv'
  <2>1. ActInv'
    BY <1>0, <1>00, <1>3, DoTyped DEF JoinLock, FieldsTyped, Pcs, MainPcs,
                                    ListenerPcs, HoldingPcs, IndexPcs
  <2> QED
    BY <1>0, <1>3, <2>1 DEF JoinLock, SockInv, PeerInv, ThreadInv, RestInv
<1>4. ASSUME JoinReturns PROVE TypeInv'
  <2>1. ActInv'
    BY <1>0, <1>4, DoneTyped DEF JoinReturns
  <2>2. NoThread("none") \in Thread
    BY DEF NoThread, Thread, Gone
  <2>3. ThreadInv'
    BY <1>4, <2>2 DEF JoinReturns, ThreadInv
  <2> QED
    BY <1>4, <2>1, <2>3 DEF JoinReturns, SockInv, PeerInv, RestInv
<1>5. ASSUME PeersLock PROVE TypeInv'
  <2>1. ActInv'
    BY <1>0, <1>5, DoTyped DEF PeersLock, FieldsTyped, Pcs, MainPcs,
                               ListenerPcs, HoldingPcs, IndexPcs
  <2> QED
    BY <1>0, <1>5, <2>1 DEF PeersLock, SockInv, PeerInv, ThreadInv, RestInv
<1>6. ASSUME PeersPing PROVE TypeInv'
  <2>1. ActInv'
    BY <1>0, <1>6, DoTyped DEF PeersPing, FieldsTyped, Pcs, MainPcs,
                               ListenerPcs, HoldingPcs, IndexPcs
  <2>2. SockInv'
    BY <1>6, SendTyped DEF PeersPing, SockInv
  <2> QED
    BY <1>6, <2>1, <2>2 DEF PeersPing, PeerInv, ThreadInv, RestInv
<1>7. ASSUME PeersUnlock PROVE TypeInv'
  BY <1>0, <1>7, DoneTyped DEF PeersUnlock, SockInv, PeerInv, ThreadInv, RestInv
<1> QED
  BY <1>1, <1>2, <1>3, <1>4, <1>5, <1>6, <1>7

\* The listener.
LEMMA TypeListener ==
  ASSUME TypeInv, proc' = proc,
         \/ \E a \in InAddrs : AcceptFails(a) \/ \E f \in Fd : Accept(a, f)
         \/ SendAcp \/ RecvAck
  PROVE  TypeInv'
<1> USE DEF TypeInv, locks, arrays, At
<1> DEFINE me == act["listener"]
<1>0. "listener" \in Actors /\ 0 \in Fd
  BY DEF Actors, Fd
<1>00. me.pc \notin {"idle", "pinging"} => me.addr \in Addrs
  BY <1>0 DEF ActInv, FieldsTyped
<1>1. ASSUME NEW a \in InAddrs, AcceptFails(a) PROVE TypeInv'
  <2>1. ActInv'
    BY <1>0, <1>1, DoTyped DEF AcceptFails, FieldsTyped, Pcs, MainPcs, Addrs,
                               ListenerPcs, HoldingPcs, IndexPcs
  <2> QED
    BY <1>1, <2>1 DEF AcceptFails, SockInv, PeerInv, ThreadInv, RestInv
<1>2. ASSUME NEW a \in InAddrs, NEW f \in Fd, Accept(a, f) PROVE TypeInv'
  <2>1. ActInv'
    BY <1>0, <1>2, DoTyped DEF Accept, FieldsTyped, Pcs, MainPcs, Addrs,
                               ListenerPcs, HoldingPcs, IndexPcs
  <2>2. SockInv'
    BY <1>2, NewSocketTyped DEF Accept, SockInv, Addrs
  <2> QED
    BY <1>2, <2>1, <2>2 DEF Accept, PeerInv, ThreadInv, RestInv
<1>3. ASSUME SendAcp PROVE TypeInv'
  <2> DEFINE f == me.fd
  <2>1. f \in Fd /\ me.addr \in Addrs
    BY <1>0, <1>00, <1>3 DEF SendAcp, ActInv, FieldsTyped, HoldingPcs
  <2>2. CASE /\ SendOk(f) /\ Goto("listener", "recv_ack")
             /\ sock' = [sock EXCEPT ![f] = Sent(@, "ACP")]
    <3>1. ActInv'
      BY <1>0, <2>1, <2>2, GotoTyped DEF FieldsTyped, Pcs, SharedPcs, MainPcs,
                                         ListenerPcs, HoldingPcs, IndexPcs
    <3>2. SockInv'
      BY <2>1, <2>2, SentTyped, SocketTyped DEF SockInv, SendOk
    <3> QED
      BY <1>3, <3>1, <3>2 DEF SendAcp, PeerInv, ThreadInv, RestInv
  <2>3. CASE sock' = Closed(f) /\ Do("listener", "recv_ack", me.addr, 0, NULL)
    <3>1. ActInv'
      BY <1>0, <2>1, <2>3, DoTyped DEF FieldsTyped, Pcs, MainPcs,
                                       ListenerPcs, HoldingPcs, IndexPcs
    <3> QED
      BY <1>3, <2>3, <3>1, ClosedTyped DEF SendAcp, PeerInv, ThreadInv, RestInv
  <2> QED
    BY <1>3, <2>2, <2>3 DEF SendAcp
<1>4. ASSUME RecvAck PROVE TypeInv'
  <2> DEFINE f == me.fd
  <2>1. f \in Fd /\ me.addr \in Addrs
    BY <1>0, <1>00, <1>4 DEF RecvAck, ActInv, FieldsTyped, HoldingPcs
  <2>2. ActInv'
    <3>1. ASSUME Goto("listener", "add") PROVE ActInv'
      BY <1>0, <2>1, <3>1, GotoTyped DEF FieldsTyped, Pcs, SharedPcs, MainPcs,
                                         ListenerPcs, HoldingPcs, IndexPcs
    <3> QED
      BY <1>0, <1>4, <3>1, DoneTyped DEF RecvAck
  <2>3. SockInv'
    <3>1. CASE Waiting(f) /\ sock' = [sock EXCEPT ![f] = Consume(@)]
      BY <2>1, <3>1, ConsumeTyped, SocketTyped DEF SockInv, Waiting
    <3> QED
      BY <1>4, <3>1, ClosedTyped DEF RecvAck
  <2> QED
    BY <1>4, <2>2, <2>3 DEF RecvAck, PeerInv, ThreadInv, RestInv
<1> QED
  BY <1>1, <1>2, <1>3, <1>4

\* handle_peers.
LEMMA TypeHandler ==
  ASSUME TypeInv, proc' = proc, NEW j \in Index, HandlerStep(j)
  PROVE  TypeInv'
<1> USE DEF TypeInv, locks
<1> DEFINE me == thread_array[j]
<1>0. /\ me \in Thread /\ me.locked \in BOOLEAN
      /\ me.addr \in Addrs \cup {NULL} /\ me.fd \in Fd \cup {NULL}
  BY DEF ThreadInv, Thread
<1>1. ASSUME NEW locked \in BOOLEAN, Leave(j, locked)
      PROVE  thread_array' \in [Index -> Thread]
  <2>1. [pc |-> "remove", addr |-> me.addr, fd |-> me.fd, locked |-> locked]
          \in Thread
    BY <1>0 DEF Thread, Busy
  <2> QED
    BY <1>1, <2>1 DEF Leave, ThreadInv
<1>2. ASSUME HandlerPacket(j) PROVE TypeInv'
  <2> DEFINE f == me.fd
  <2>1. ThreadInv'
    BY <1>1, <1>2 DEF HandlerPacket, ThreadInv
  <2>2. SockInv'
    <3>1. CASE f \in Fd
      <4>1. Waiting(f) /\ IsSocket(f)
        BY <1>2 DEF HandlerPacket, Waiting
      <4>2. sock[f] \in Socket /\ Consume(sock[f]) \in Socket
        BY <3>1, <4>1, SocketTyped, ConsumeTyped DEF Waiting
      <4>3. PICK s \in Socket : sock' = [sock EXCEPT ![f] = s]
        BY <1>2, <4>2, SentTyped DEF HandlerPacket
      <4> QED
        BY <4>3 DEF SockInv
    <3>2. CASE f \notin Fd
      BY <1>2, <3>2 DEF HandlerPacket, SockInv
    <3> QED
      BY <3>1, <3>2
  <2> QED
    BY <1>2, <2>1, <2>2 DEF HandlerPacket, ActInv, PeerInv, RestInv
<1>3. ASSUME NEW locked \in BOOLEAN, HandlerEnd(j, locked) PROVE TypeInv'
  BY <1>1, <1>3 DEF HandlerEnd, ActInv, SockInv, PeerInv, ThreadInv, RestInv
<1>4. ASSUME HandlerRemove(j) PROVE TypeInv'
  <2>1. PeerInv'
    BY <1>4 DEF HandlerRemove, PeerInv, Removed
  <2>2. [me EXCEPT !.pc = "close"] \in Thread
    BY <1>0 DEF Thread, Busy
  <2>3. ThreadInv'
    BY <1>4, <2>2 DEF HandlerRemove, ThreadInv
  <2> QED
    BY <1>4, <2>1, <2>3 DEF HandlerRemove, ActInv, SockInv, RestInv
<1>5. ASSUME HandlerClose(j) PROVE TypeInv'
  <2>1. [pc |-> "release", addr |-> NULL, fd |-> NULL, locked |-> me.locked]
          \in Thread
    BY <1>0 DEF Thread, Busy
  <2>2. ThreadInv'
    BY <1>5, <2>1 DEF HandlerClose, ThreadInv
  <2> QED
    BY <1>5, <2>2, ClosedTyped DEF HandlerClose, ActInv, PeerInv, RestInv
<1>6. ASSUME HandlerRelease(j) PROVE TypeInv'
  <2>1. NoThread("exited") \in Thread
    BY DEF NoThread, Thread, Gone
  <2>2. ThreadInv'
    BY <1>6, <2>1 DEF HandlerRelease, ThreadInv
  <2> QED
    BY <1>6, <2>2 DEF HandlerRelease, ActInv, SockInv, PeerInv, RestInv
<1> QED
  BY <1>2, <1>3, <1>4, <1>5, <1>6 DEF HandlerStep

\* The remote ends.
LEMMA TypeRemote ==
  ASSUME TypeInv, proc' = proc, NEW f \in Fd, RemoteStep(f)
  PROVE  TypeInv'
<1>1. IsSocket(f) => sock[f] \in Socket
  BY SocketTyped DEF TypeInv
<1>2. \A s \in Socket, m \in Packets :
        /\ [s EXCEPT !.inbox = Append(@, m)] \in Socket
        /\ [addr |-> s.addr, remote |-> "open", inbox |-> Append(s.inbox, m)]
             \in Socket
  <2>1. ASSUME NEW s \in Socket, NEW m \in Packets
        PROVE  Append(s.inbox, m) \in Seq(Packets)
    BY DEF Socket
  <2> QED
    BY <2>1 DEF Socket
<1>20. \A s \in Socket : /\ [s EXCEPT !.remote = "closed"] \in Socket
                         /\ [s EXCEPT !.remote = "reset"] \in Socket
  BY DEF Socket
<1>3. PICK s \in Socket : sock' = [sock EXCEPT ![f] = s]
  <2>1. ASSUME NEW m \in Packets, RemoteHello(f, m)
        PROVE  \E s \in Socket : sock' = [sock EXCEPT ![f] = s]
    BY <1>1, <1>2, <2>1 DEF RemoteHello
  <2>2. ASSUME NEW m \in Packets, RemoteSend(f, m)
        PROVE  \E s \in Socket : sock' = [sock EXCEPT ![f] = s]
    BY <1>1, <1>2, <2>2 DEF RemoteSend
  <2>3. ASSUME RemoteClose(f)
        PROVE  \E s \in Socket : sock' = [sock EXCEPT ![f] = s]
    BY <1>1, <1>20, <2>3 DEF RemoteClose, Present
  <2>4. ASSUME RemoteReset(f)
        PROVE  \E s \in Socket : sock' = [sock EXCEPT ![f] = s]
    BY <1>1, <1>20, <2>4 DEF RemoteReset
  <2> QED
    BY <2>1, <2>2, <2>3, <2>4 DEF RemoteStep
<1>4. SockInv'
  BY <1>3 DEF SockInv, TypeInv
<1> QED
  BY <1>4 DEF TypeInv, ActInv, PeerInv, ThreadInv, RestInv, RemoteStep,
              RemoteHello, RemoteSend, RemoteClose, RemoteReset, arrays, locks

\* Quit, the crashes and the exit change nothing but proc.
LEMMA EndingFrame ==
  ASSUME Ending
  PROVE  /\ UNCHANGED <<arrays, sock, act, locks>>
         /\ proc' \in {"quitting", "exited", "crashed"}
BY DEF Ending, Quit, ReadGoneEntry, JoinUndefined, BrokenPipe, UseAfterDestroy,
       ExitProcess, Crash

LEMMA TypeNext == TypeInv /\ [Next]_vars => TypeInv'
<1> SUFFICES ASSUME TypeInv, [Next]_vars PROVE TypeInv'
  OBVIOUS
<1>1. CASE Running(ThreadStep)
  <2>1. proc' = proc /\ ThreadStep
    BY <1>1 DEF Running
  <2>2. CASE Command \/ MainStep
    <3>1. "main" \in Actors
      BY DEF Actors
    <3> QED
      BY <2>1, <2>2, <3>1, TypeConnect, TypeActor, TypeLookup, TypeSend
      DEF Command, MainStep
  <2>3. CASE Arrive \/ ListenerStep
    <3>1. "listener" \in Actors
      BY DEF Actors
    <3> QED
      BY <2>1, <2>3, <3>1, TypeListener, TypeActor DEF Arrive, ListenerStep
  <2> QED
    BY <2>1, <2>2, <2>3, TypeHandler, TypeRemote DEF ThreadStep
<1>2. CASE Ending
  BY <1>2, EndingFrame DEF TypeInv, ActInv, SockInv, PeerInv, ThreadInv, RestInv,
                           arrays, locks
<1>3. CASE UNCHANGED vars
  BY <1>3 DEF TypeInv, ActInv, SockInv, PeerInv, ThreadInv, RestInv, vars
<1> QED
  BY <1>1, <1>2, <1>3 DEF Next

\* TypeOK, for every number of peers, addresses and descriptors.
THEOREM TypeCorrect == Spec => []TypeOK
<1>1. Spec => []TypeInv
  BY TypeInit, TypeNext, PTL DEF Spec
<1> QED
  BY <1>1, TypeInvTypes, PTL

-----------------------------------------------------------------------------
(* Slots. A slot that is being given away is marked and idle, and belongs  *)
(* to the thread that holds thread_status_lock; DISCONNECT holds it too    *)
(* while it joins, so its reset of the status cannot hit such a slot.      *)

GivenAway(p) ==
  act[p].pc = "create" =>
    /\ thread_status_lock = p
    /\ thread_status_array[act[p].idx] = 1
    /\ thread_array[act[p].idx].pc \in Gone

SlotInv ==
  /\ \A p \in Actors : GivenAway(p)
  /\ act["main"].pc = "joining" => thread_status_lock = "main"
  /\ \A j \in Index : thread_array[j].pc \in Busy => thread_status_array[j] = 1

LEMMA SlotInvExclusive == SlotInv => SlotExclusive
BY DEF SlotInv, GivenAway, SlotExclusive, At

LEMMA SlotInit == Init => SlotInv
BY DEF Init, SlotInv, GivenAway, Idle, NoThread, Busy, Actors

\* The steps of main and the listener that neither give a slot away nor join.
LEMMA SlotQuiet ==
  ASSUME TypeInv, SlotInv,
         UNCHANGED <<thread_status_array, thread_array, thread_status_lock>>,
         \A p \in Actors : \/ act'[p] = act[p]
                           \/ act'[p].pc \notin {"create", "joining"}
  PROVE  SlotInv'
BY DEF SlotInv, GivenAway, Actors

LEMMA DoSteps ==
  ASSUME TypeInv, NEW p \in Actors, NEW pc, NEW a, NEW f, NEW i, Do(p, pc, a, f, i)
  PROVE  /\ act'[p].pc = pc /\ act'[p].addr = a /\ act'[p].fd = f
         /\ act'[p].idx = i
         /\ \A q \in Actors : q # p => act'[q] = act[q]
BY DEF Do, TypeInv, ActInv

LEMMA DoneSteps ==
  ASSUME TypeInv, NEW p \in Actors, Done(p)
  PROVE  /\ act'[p].pc = "idle"
         /\ \A q \in Actors : q # p => act'[q] = act[q]
BY DEF Done, TypeInv, ActInv, Idle

LEMMA SlotMain ==
  ASSUME TypeInv, SlotInv, Command \/ MainStep, ~ActorStep("main"),
         ~\E j \in Index : JoinLock(j), ~JoinReturns
  PROVE  SlotInv'
<1> USE DEF locks, arrays, Idle, Goto
<1>0. "main" \in Actors /\ "listener" \in Actors /\ Actors = {"main", "listener"}
  BY DEF Actors
<1> DEFINE Quiet ==
      /\ UNCHANGED <<thread_status_array, thread_array, thread_status_lock>>
      /\ act'["listener"] = act["listener"]
      /\ act'["main"].pc \notin {"create", "joining"}
<1> SUFFICES Quiet
  BY <1>0, SlotQuiet
<1>1. CASE Command
  BY <1>0, <1>1, DoSteps
  DEF Command, Connect, Disconnect, Fetch, Lookup, PeersLock
<1>2. ASSUME NEW f \in Fd, OpenConnection(f) \/ RefusedConnection(f) PROVE  Quiet
  BY <1>0, <1>2, DoSteps, DoneSteps DEF OpenConnection, RefusedConnection
<1>3. CASE NoDescriptor \/ RecvAcp \/ FetchRejected \/ SendReq
  BY <1>0, <1>3, DoSteps, DoneSteps DEF NoDescriptor, RecvAcp, FetchRejected, SendReq
<1>4. ASSUME NEW from, NEW read \in {"fetch_read_fd", "read_fd"},
             NEW next \in {"send_req", "get_tid"},
             GetFd(from, read, next) \/ ReadFd(read, next)
      PROVE  Quiet
  BY <1>0, <1>4, DoSteps DEF GetFd, ReadFd
<1>5. CASE GetThreadId \/ ReadThreadId \/ SendDsn
  BY <1>0, <1>5, DoSteps DEF GetThreadId, ReadThreadId, SendDsn
<1>6. CASE PeersPing \/ PeersUnlock
  BY <1>0, <1>6, DoSteps, DoneSteps DEF PeersPing, PeersUnlock
<1> QED
  BY <1>1, <1>2, <1>3, <1>4, <1>5, <1>6 DEF MainStep

LEMMA SlotJoin ==
  ASSUME TypeInv, SlotInv, (\E j \in Index : JoinLock(j)) \/ JoinReturns
  PROVE  SlotInv'
<1> USE DEF locks, arrays, At
<1>0. Actors = {"main", "listener"} /\ "main" # "listener" /\ NULL \notin Actors
  BY NullAssumption DEF Actors
<1>1. ASSUME NEW j \in Index, JoinLock(j) PROVE SlotInv'
  <2>1. /\ act'["main"].pc = "joining" /\ act'["listener"] = act["listener"]
        /\ act["listener"].pc # "create"
    BY <1>0, <1>1, DoSteps DEF JoinLock, SlotInv, GivenAway
  <2> QED
    BY <1>0, <1>1, <2>1 DEF JoinLock, SlotInv, GivenAway
<1>2. ASSUME JoinReturns PROVE SlotInv'
  <2>1. /\ act'["main"].pc = "idle" /\ act'["listener"] = act["listener"]
        /\ act["listener"].pc # "create"
    BY <1>0, <1>2, DoneSteps DEF JoinReturns, SlotInv, GivenAway
  <2>2. ASSUME NEW j \in Index, thread_array'[j].pc \in Busy
        PROVE  thread_status_array'[j] = 1
    <3>1. CASE j = act["main"].idx
      BY <1>2, <2>2, <3>1
      DEF JoinReturns, Joinable, NoThread, Busy, Gone, TypeInv, ThreadInv
    <3>2. CASE j # act["main"].idx
      BY <1>2, <2>2, <3>2 DEF JoinReturns, SlotInv, TypeInv, ThreadInv
    <3> QED
      BY <3>1, <3>2
  <2> QED
    BY <1>0, <2>1, <2>2 DEF SlotInv, GivenAway
<1> QED
  BY <1>1, <1>2

LEMMA SlotActor ==
  ASSUME TypeInv, SlotInv, NEW p \in Actors, ActorStep(p)
  PROVE  SlotInv'
<1> USE DEF locks, arrays, At, Goto
<1>0. NULL \notin Actors
  BY NullAssumption
<1>1. CASE AddToArray(p)
  BY <1>1, DoSteps, SlotQuiet DEF AddToArray
<1>2. CASE ArrayFull(p) \/ AddOutOfMemory(p) \/ NoFreeThread(p)
  BY <1>2, DoneSteps, SlotQuiet DEF ArrayFull, AddOutOfMemory, NoFreeThread
<1>3. ASSUME NEW j \in Index, AssignSlot(p, j) PROVE SlotInv'
  <2>1. /\ act'[p].pc = "create" /\ act'[p].idx = j
        /\ \A q \in Actors : q # p => act'[q] = act[q] /\ act[q].pc # "create"
        /\ act'["main"].pc # "joining"
    BY <1>0, <1>3, DoSteps DEF AssignSlot, SlotInv, GivenAway, Actors
  <2>2. thread_status_array' = [thread_status_array EXCEPT ![j] = 1]
        /\ thread_status_lock' = p /\ thread_array' = thread_array
    BY <1>3 DEF AssignSlot
  <2>3. thread_array[j].pc \in Gone
    BY <1>3 DEF AssignSlot, FreeSlots, SlotInv, TypeInv, ThreadInv, Thread
  <2> QED
    BY <2>1, <2>2, <2>3 DEF SlotInv, GivenAway, TypeInv, ThreadInv
<1>4. CASE CreateThread(p)
  <2> DEFINE i == act[p].idx
  <2>1. /\ i \in Index /\ thread_status_lock = p /\ thread_status_array[i] = 1
    BY <1>4 DEF CreateThread, SlotInv, GivenAway, TypeInv, ActInv, FieldsTyped, IndexPcs
  <2>2. /\ act'[p].pc = "idle"
        /\ \A q \in Actors : q # p => act'[q] = act[q] /\ act[q].pc # "create"
        /\ act'["main"].pc # "joining"
    BY <1>0, <1>4, <2>1, DoneSteps DEF CreateThread, SlotInv, GivenAway, Actors
  <2>3. \A j \in Index : j # i => thread_array'[j] = thread_array[j]
    BY <1>4 DEF CreateThread, TypeInv, ThreadInv
  <2> QED
    BY <1>4, <2>1, <2>2, <2>3 DEF CreateThread, SlotInv, GivenAway
<1> QED
  BY <1>1, <1>2, <1>3, <1>4 DEF ActorStep

LEMMA SlotListener ==
  ASSUME TypeInv, SlotInv, Arrive \/ SendAcp \/ RecvAck
  PROVE  SlotInv'
<1> USE DEF locks, arrays, At, Goto
<1>0. Actors = {"main", "listener"}
  BY DEF Actors
<1>1. CASE Arrive
  BY <1>0, <1>1, DoSteps, SlotQuiet DEF Arrive, Accept, AcceptFails
<1>2. CASE SendAcp \/ RecvAck
  BY <1>0, <1>2, DoSteps, DoneSteps, SlotQuiet DEF SendAcp, RecvAck
<1> QED
  BY <1>1, <1>2

LEMMA SlotHandler ==
  ASSUME TypeInv, SlotInv, NEW j \in Index, HandlerStep(j)
  PROVE  SlotInv'
<1> USE DEF locks
<1>0. /\ act' = act /\ thread_status_lock' = thread_status_lock
      /\ thread_array[j].pc \in Busy
      /\ \/ thread_array' = thread_array
         \/ \E t : thread_array' = [thread_array EXCEPT ![j] = t]
      /\ \/ thread_status_array' = thread_status_array
         \/ thread_status_array' = [thread_status_array EXCEPT ![j] = 0]
  BY DEF HandlerStep, HandlerPacket, HandlerEnd, HandlerRemove, HandlerClose,
         HandlerRelease, Leave, Busy
<1>1. /\ act' = act /\ thread_status_lock' = thread_status_lock
      /\ \A k \in Index : k # j => /\ thread_array'[k] = thread_array[k]
                                   /\ thread_status_array'[k] = thread_status_array[k]
      /\ thread_array[j].pc \in Busy
  BY <1>0 DEF TypeInv, ThreadInv
<1>2. \/ thread_status_array' = thread_status_array
      \/ thread_array'[j].pc = "exited"
  <2>1. CASE HandlerRelease(j)
    BY <2>1 DEF HandlerRelease, NoThread, TypeInv, ThreadInv
  <2>2. CASE ~HandlerRelease(j)
    BY <2>2 DEF HandlerStep, HandlerPacket, HandlerEnd, HandlerRemove, HandlerClose
  <2> QED
    BY <2>1, <2>2
<1>3. \A p \in Actors : act[p].pc = "create" => act[p].idx \in Index \ {j}
  BY <1>1 DEF SlotInv, GivenAway, Busy, Gone, TypeInv, ActInv, FieldsTyped, IndexPcs
<1> QED
  BY <1>1, <1>2, <1>3 DEF SlotInv, GivenAway, Busy

LEMMA SlotNext == TypeInv /\ SlotInv /\ [Next]_vars => SlotInv'
<1> SUFFICES ASSUME TypeInv, SlotInv, [Next]_vars PROVE SlotInv'
  OBVIOUS
<1>1. CASE Command \/ MainStep
  <2>1. "main" \in Actors
    BY DEF Actors
  <2> QED
    BY <1>1, <2>1, SlotMain, SlotActor, SlotJoin
<1>2. CASE Arrive \/ ListenerStep
  <2>1. "listener" \in Actors
    BY DEF Actors
  <2> QED
    BY <1>2, <2>1, SlotListener, SlotActor DEF ListenerStep
<1>3. CASE \E j \in Index : HandlerStep(j)
  BY <1>3, SlotHandler
<1>4. CASE \E f \in Fd : RemoteStep(f)
  BY <1>4, SlotQuiet DEF RemoteStep, RemoteHello, RemoteSend, RemoteClose,
                         RemoteReset, arrays, locks
<1>5. CASE Ending
  BY <1>5, EndingFrame, SlotQuiet DEF arrays, locks
<1>6. CASE UNCHANGED vars
  BY <1>6, SlotQuiet DEF vars
<1> QED
  BY <1>1, <1>2, <1>3, <1>4, <1>5, <1>6 DEF Next, Running, ThreadStep

\* No pthread_t and no status of a working handler is ever reused.
THEOREM SlotsExclusive == Spec => []SlotExclusive
<1>1. Init => TypeInv /\ SlotInv
  BY TypeInit, SlotInit
<1>2. TypeInv /\ SlotInv /\ [Next]_vars => (TypeInv /\ SlotInv)'
  BY TypeNext, SlotNext
<1>3. TypeInv /\ SlotInv => SlotExclusive
  BY SlotInvExclusive
<1> QED
  BY <1>1, <1>2, <1>3, PTL DEF Spec

-----------------------------------------------------------------------------
(* Entries of listening peers. Between the in_array check of peer_connect  *)
(* and its add_to_array only the listener adds entries, and its addresses  *)
(* are of the other kind.                                                  *)

Opening == {"connect", "recv_acp", "add"}
Accepting == {"send_acp", "recv_ack", "add"}

UniqInv ==
  /\ UniqueOutgoing
  /\ act["main"].pc \in Opening =>
       act["main"].addr \in OutAddrs /\ ~InArray(act["main"].addr)
  /\ act["listener"].pc \in Accepting => act["listener"].addr \in InAddrs

NoNewEntry ==
  \A i \in Index : peer_array'[i] # NULL =>
    peer_array[i] # NULL /\ peer_array'[i].addr = peer_array[i].addr

LEMMA UniqInit == Init => UniqInv
BY DEF Init, UniqInv, UniqueOutgoing, Idle, Opening, Accepting, Actors

LEMMA UniqQuiet ==
  ASSUME UniqInv, NoNewEntry,
         act'["main"].pc \in Opening =>
           act["main"].pc \in Opening /\ act'["main"].addr = act["main"].addr,
         act'["listener"].pc \in Accepting =>
           \/ act'["listener"].addr \in InAddrs
           \/ /\ act["listener"].pc \in Accepting
              /\ act'["listener"].addr = act["listener"].addr
  PROVE  UniqInv'
<1>1. \A a : ~InArray(a) => ~InArray(a)'
  BY DEF NoNewEntry, InArray, Matches
<1>2. UniqueOutgoing'
  BY DEF NoNewEntry, UniqInv, UniqueOutgoing
<1> QED
  BY <1>1, <1>2 DEF UniqInv

\* The steps of main and of the listener, but for adding an entry.
LEMMA UniqMain ==
  ASSUME TypeInv, UniqInv, Command \/ MainStep, ~ActorStep("main")
  PROVE  UniqInv'
<1> USE DEF locks, arrays, At, Goto, Opening
<1>0. "main" \in Actors /\ "listener" \in Actors /\ "main" # "listener"
  BY DEF Actors
<1>1. ASSUME NEW a \in Addrs, Connect(a) PROVE UniqInv'
  <2>1. /\ act'["main"].addr = a /\ act'["listener"] = act["listener"]
        /\ peer_array' = peer_array /\ a \in OutAddrs /\ ~InArray(a)
    BY <1>0, <1>1, DoSteps DEF Connect
  <2>2. ~InArray(a)'
    BY <2>1 DEF InArray, Matches
  <2> QED
    BY <2>1, <2>2 DEF UniqInv, UniqueOutgoing
<1> DEFINE Quiet ==
      /\ peer_array' = peer_array
      /\ act'["listener"] = act["listener"]
      /\ act'["main"].pc \in Opening =>
           act["main"].pc \in Opening /\ act'["main"].addr = act["main"].addr
<1>2. ASSUME Quiet PROVE UniqInv'
  BY <1>2, UniqQuiet DEF NoNewEntry, UniqInv
<1>3. CASE Command /\ ~\E a \in Addrs : Connect(a)
  <2>1. Quiet
    BY <1>0, <1>3, DoSteps DEF Command, Disconnect, Fetch, Lookup, PeersLock
  <2> QED
    BY <1>2, <2>1
<1>4. ASSUME NEW f \in Fd, OpenConnection(f) \/ RefusedConnection(f) PROVE Quiet
  BY <1>0, <1>4, DoSteps, DoneSteps DEF OpenConnection, RefusedConnection
<1>5. ASSUME NoDescriptor \/ RecvAcp \/ FetchRejected \/ SendReq PROVE Quiet
  BY <1>0, <1>5, DoSteps, DoneSteps DEF NoDescriptor, RecvAcp, FetchRejected, SendReq
<1>6. ASSUME NEW from, NEW read \in {"fetch_read_fd", "read_fd"},
             NEW next \in {"send_req", "get_tid"},
             GetFd(from, read, next) \/ ReadFd(read, next)
      PROVE Quiet
  BY <1>0, <1>6, DoSteps DEF GetFd, ReadFd
<1>7. ASSUME GetThreadId \/ ReadThreadId \/ SendDsn \/ \E j \in Index : JoinLock(j)
      PROVE Quiet
  BY <1>0, <1>7, DoSteps DEF GetThreadId, ReadThreadId, SendDsn, JoinLock
<1>8. ASSUME JoinReturns \/ PeersPing \/ PeersUnlock PROVE Quiet
  BY <1>0, <1>8, DoSteps, DoneSteps DEF JoinReturns, PeersPing, PeersUnlock
<1>9. CASE MainStep
  <2>1. Quiet
    BY <1>4, <1>5, <1>6, <1>7, <1>8, <1>9 DEF MainStep
  <2> QED
    BY <1>2, <2>1
<1> QED
  BY <1>1, <1>3, <1>9

LEMMA UniqListener ==
  ASSUME TypeInv, UniqInv, Arrive \/ SendAcp \/ RecvAck
  PROVE  UniqInv'
<1> USE DEF locks, arrays, At, Goto, Accepting
<1>0. "main" \in Actors /\ "listener" \in Actors /\ "main" # "listener"
  BY DEF Actors
<1> SUFFICES /\ peer_array' = peer_array /\ act'["main"] = act["main"]
             /\ act'["listener"].pc \in Accepting =>
                  \/ act'["listener"].addr \in InAddrs
                  \/ /\ act["listener"].pc \in Accepting
                     /\ act'["listener"].addr = act["listener"].addr
  BY UniqQuiet DEF NoNewEntry
<1>1. CASE Arrive
  BY <1>0, <1>1, DoSteps DEF Arrive, Accept, AcceptFails
<1>2. CASE SendAcp \/ RecvAck
  BY <1>0, <1>2, DoSteps, DoneSteps DEF SendAcp, RecvAck
<1> QED
  BY <1>1, <1>2

LEMMA UniqActor ==
  ASSUME TypeInv, UniqInv, NEW p \in Actors, ActorStep(p)
  PROVE  UniqInv'
<1> USE DEF locks, arrays, At, Goto
<1>0. Actors = {"main", "listener"}
  BY DEF Actors
<1>1. CASE AddToArray(p)
  <2>1. PICK k \in Index : /\ peer_array[k] = NULL
          /\ peer_array' = [peer_array EXCEPT ![k] =
               [addr |-> act[p].addr, fd |-> act[p].fd, tid |-> NULL]]
    BY <1>1 DEF AddToArray, First, FreeEntries
  <2>2. /\ peer_array'[k].addr = act[p].addr
        /\ \A i \in Index : i # k => peer_array'[i] = peer_array[i]
    BY <2>1 DEF TypeInv, PeerInv
  <2>3. /\ act'[p].pc = "assign"
        /\ \A q \in Actors : q # p => act'[q] = act[q]
    BY <1>1, DoSteps DEF AddToArray
  <2>4. act[p].addr \in OutAddrs => ~InArray(act[p].addr)
    BY <1>0, <1>1, AddrAssumption DEF AddToArray, UniqInv, Opening, Accepting
  <2>5. UniqueOutgoing'
    BY <2>2, <2>4 DEF UniqInv, UniqueOutgoing, InArray, Matches
  <2>6. ASSUME p = "listener", act'["main"].pc \in Opening
        PROVE  ~InArray(act["main"].addr)'
    <3>1. /\ act["main"].pc \in Opening /\ act[p].addr \in InAddrs
          /\ act["main"].addr \in OutAddrs
      BY <1>0, <1>1, <2>3, <2>6 DEF AddToArray, UniqInv, Accepting
    <3>2. act["main"].addr # act[p].addr
      BY <3>1, AddrAssumption
    <3>3. ~InArray(act["main"].addr)
      BY <3>1 DEF UniqInv
    <3> DEFINE a == act["main"].addr
    <3>4. a = act'["main"].addr
      BY <1>0, <2>3, <2>6
    <3>5. \A i \in Index : peer_array'[i] = NULL \/ peer_array'[i].addr # a
      BY <2>2, <3>2, <3>3 DEF InArray, Matches
    <3> QED
      BY <3>4, <3>5 DEF InArray, Matches
  <2> QED
    BY <1>0, <2>3, <2>5, <2>6 DEF UniqInv, Opening, Accepting
<1>2. CASE ArrayFull(p) \/ AddOutOfMemory(p) \/ NoFreeThread(p)
  BY <1>0, <1>2, DoneSteps, UniqQuiet
  DEF ArrayFull, AddOutOfMemory, NoFreeThread, NoNewEntry, Opening, Accepting
<1>3. ASSUME NEW j \in Index, AssignSlot(p, j) PROVE UniqInv'
  BY <1>0, <1>3, DoSteps, UniqQuiet DEF AssignSlot, NoNewEntry, Opening, Accepting
<1>4. CASE CreateThread(p)
  <2>1. NoNewEntry
    BY <1>4 DEF CreateThread, WithThreadId, NoNewEntry, First, Matches, TypeInv,
                PeerInv, Peer
  <2> QED
    BY <1>0, <1>4, <2>1, DoneSteps, UniqQuiet DEF CreateThread, Opening, Accepting
<1> QED
  BY <1>1, <1>2, <1>3, <1>4 DEF ActorStep

LEMMA UniqHandler ==
  ASSUME TypeInv, UniqInv, NEW j \in Index, HandlerStep(j)
  PROVE  UniqInv'
<1>1. act' = act
  BY DEF HandlerStep, HandlerPacket, HandlerEnd, HandlerRemove, HandlerClose,
         HandlerRelease
<1>2. CASE HandlerRemove(j)
  <2>1. NoNewEntry
    BY <1>2 DEF HandlerRemove, Removed, NoNewEntry
  <2> QED
    BY <1>1, <2>1, UniqQuiet
<1>3. CASE ~HandlerRemove(j)
  <2>1. peer_array' = peer_array
    BY <1>3 DEF HandlerStep, HandlerPacket, HandlerEnd, HandlerClose, HandlerRelease
  <2> QED
    BY <1>1, <2>1, UniqQuiet DEF NoNewEntry
<1> QED
  BY <1>2, <1>3

LEMMA UniqNext == TypeInv /\ UniqInv /\ [Next]_vars => UniqInv'
<1> SUFFICES ASSUME TypeInv, UniqInv, [Next]_vars PROVE UniqInv'
  OBVIOUS
<1>0. UNCHANGED <<peer_array, act>> => UniqInv'
  BY UniqQuiet DEF NoNewEntry
<1>1. CASE Command \/ MainStep
  <2>1. "main" \in Actors
    BY DEF Actors
  <2> QED
    BY <1>1, <2>1, UniqMain, UniqActor
<1>2. CASE Arrive \/ ListenerStep
  <2>1. "listener" \in Actors
    BY DEF Actors
  <2> QED
    BY <1>2, <2>1, UniqListener, UniqActor DEF ListenerStep
<1>3. CASE \E j \in Index : HandlerStep(j)
  BY <1>3, UniqHandler
<1>4. CASE \E f \in Fd : RemoteStep(f)
  BY <1>0, <1>4 DEF RemoteStep, RemoteHello, RemoteSend, RemoteClose,
                    RemoteReset, arrays, locks
<1>5. CASE Ending
  BY <1>0, <1>5, EndingFrame DEF arrays, locks
<1>6. CASE UNCHANGED vars
  BY <1>0, <1>6 DEF vars
<1> QED
  BY <1>1, <1>2, <1>3, <1>4, <1>5, <1>6 DEF Next, Running, ThreadStep

\* CONNECT never enters a listening peer twice.
THEOREM OutgoingUnique == Spec => []UniqueOutgoing
<1>1. Init => TypeInv /\ UniqInv
  BY TypeInit, UniqInit
<1>2. TypeInv /\ UniqInv /\ [Next]_vars => (TypeInv /\ UniqInv)'
  BY TypeNext, UniqNext
<1>3. TypeInv /\ UniqInv => UniqueOutgoing
  BY DEF UniqInv
<1> QED
  BY <1>1, <1>2, <1>3, PTL DEF Spec
=============================================================================
