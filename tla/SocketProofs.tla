---------------------------- MODULE SocketProofs ----------------------------
(***************************************************************************)
(* Proofs about Connections, continued: which thread holds which socket,   *)
(* which entry of peer_array belongs to which thread, and what DISCONNECT  *)
(* promises, for any number of peers, addresses and descriptors.           *)
(***************************************************************************)
EXTENDS ConnectionsProofs, SequenceTheorems

-----------------------------------------------------------------------------
(* What a step may do to the sockets and to those who hold them. A thread   *)
(* of ActorStep, MainStep or ListenerStep holds its socket during its       *)
(* handshake, a handler until it has closed it.                             *)

Keeps ==
  \/ UNCHANGED sock
  \/ \E f \in Fd, s \in Socket :
       IsSocket(f) /\ s.addr = sock[f].addr /\ sock' = [sock EXCEPT ![f] = s]

SameHand(p) ==
  /\ InHandshake(p)' <=> InHandshake(p)
  /\ InHandshake(p) => act'[p].fd = act[p].fd /\ act'[p].addr = act[p].addr
SameHands(P) == \A p \in Actors \ P : SameHand(p)

SameThread(j) ==
  /\ HoldsSocket(j)' <=> HoldsSocket(j)
  /\ HoldsSocket(j) => /\ thread_array'[j].fd = thread_array[j].fd
                       /\ thread_array'[j].addr = thread_array[j].addr
SameThreads(J) == \A j \in Index \ J : SameThread(j)

Quiet == Keeps /\ SameHands({}) /\ SameThreads({})

\* Two sockets to one address: a peer that listens may have them, one that
\* connects to this process does not.
NewPeer(a) == a \in OutAddrs \/ \A g \in Fd : IsSocket(g) => sock[g].addr # a

Opens(p) ==
  /\ \E f \in Fd, a \in Addrs :
       /\ sock[f] = NULL /\ sock' = [sock EXCEPT ![f] = NewSocket(a)] /\ NewPeer(a)
       /\ act'[p].pc \in HoldingPcs /\ act'[p].fd = f /\ act'[p].addr = a
  /\ ~InHandshake(p) /\ SameHands({p}) /\ SameThreads({})

Refused ==
  /\ "REFUSE" \in RemoteActs
  /\ \E f \in Fd, s \in Socket :
       sock[f] = NULL /\ sock' = [sock EXCEPT ![f] = s] /\ NewPeer(s.addr)
  /\ SameHands({}) /\ SameThreads({})

Closes(p) ==
  /\ act[p].pc \in HoldingPcs /\ sock' = Closed(act[p].fd)
  /\ ~InHandshake(p)' /\ SameHands({p}) /\ SameThreads({})

Ends(j) ==
  /\ HoldsSocket(j) /\ sock' = Closed(thread_array[j].fd)
  /\ ~HoldsSocket(j)' /\ SameHands({}) /\ SameThreads({j})

HandsOver(p) ==
  /\ act[p].pc = "create" /\ UNCHANGED sock
  /\ \E j \in Index :
       /\ ~HoldsSocket(j)
       /\ thread_array'[j].pc = "recv" /\ thread_array'[j].fd = act[p].fd
       /\ thread_array'[j].addr = act[p].addr
       /\ SameThreads({j})
  /\ ~InHandshake(p)' /\ SameHands({p})

\* The two steps that lose a socket that is open.
Drops(p) ==
  /\ \/ "pthread_create" \in Faults
     \/ /\ p = "listener" /\ At(p, "recv_ack")
        /\ Waiting(act[p].fd) /\ Head(sock[act[p].fd].inbox) # "ACK"
  /\ Keeps /\ ~InHandshake(p)' /\ SameHands({p}) /\ SameThreads({})

SocketStep ==
  \/ Quiet \/ Refused
  \/ \E p \in Actors : Opens(p) \/ Closes(p) \/ HandsOver(p) \/ Drops(p)
  \/ \E j \in Index : Ends(j)

LEMMA ActorsAre == /\ Actors = {"main", "listener"} /\ "main" \in Actors /\ "listener" \in Actors
                   /\ "main" # "listener"
BY DEF Actors

\* A step that does not touch thread_array, and of one thread of act only.
LEMMA ThreadsSame == ASSUME UNCHANGED thread_array PROVE SameThreads({})
BY DEF SameThreads, SameThread, HoldsSocket

LEMMA HandsSame == ASSUME UNCHANGED act PROVE SameHands({})
BY DEF SameHands, SameHand, InHandshake

LEMMA DoHands ==
  ASSUME TypeInv, NEW p \in Actors, NEW pc, NEW a, NEW f, NEW i, Do(p, pc, a, f, i)
  PROVE  /\ SameHands({p})
         /\ InHandshake(p)' <=> pc \in HoldingPcs /\ f # 0
         /\ act'[p].pc = pc /\ act'[p].fd = f /\ act'[p].addr = a
BY DoSteps DEF SameHands, SameHand, InHandshake, HoldingPcs

LEMMA DoneHands ==
  ASSUME TypeInv, NEW p \in Actors, Done(p)
  PROVE  SameHands({p}) /\ ~InHandshake(p)'
BY DoneSteps DEF SameHands, SameHand, InHandshake

\* A thread that goes on with the same descriptor and address, or without any.
LEMMA MovesOn ==
  ASSUME TypeInv, NEW p \in Actors, NEW pc \in HoldingPcs, NEW i,
         act[p].pc \in HoldingPcs, Do(p, pc, act[p].addr, act[p].fd, i)
  PROVE  SameHands({})
BY DoHands DEF SameHands, SameHand, InHandshake, HoldingPcs

LEMMA GoesOn ==
  ASSUME TypeInv, NEW p \in Actors, NEW pc, NEW a, NEW f, NEW i,
         pc \notin HoldingPcs \/ f = 0, ~InHandshake(p), Do(p, pc, a, f, i)
  PROVE  SameHands({})
BY DoHands DEF SameHands, SameHand

LEMMA IsDone ==
  ASSUME TypeInv, NEW p \in Actors, ~InHandshake(p), Done(p)
  PROVE  SameHands({})
BY DoneHands DEF SameHands, SameHand

LEMMA SendKeeps == ASSUME TypeInv, NEW f, NEW m, SendTo(f, m) PROVE Keeps
<1>1. CASE SendOk(f) /\ f \in Fd
  <2>1. sock[f] \in Socket /\ IsSocket(f)
    BY <1>1, SocketTyped DEF TypeInv, SendOk
  <2>2. Sent(sock[f], m) \in Socket /\ Sent(sock[f], m).addr = sock[f].addr
    BY <2>1, SentTyped DEF Sent, Socket
  <2> QED  BY <1>1, <2>1, <2>2 DEF SendTo, Keeps
<1>2. CASE ~(SendOk(f) /\ f \in Fd)
  BY <1>2 DEF SendTo, TypeInv, SockInv, Keeps
<1> QED  BY <1>1, <1>2

\* The steps of main.
LEMMA KindCommand == ASSUME TypeInv, Command PROVE Quiet
<1> USE ActorsAre
<1>1. UNCHANGED <<sock, thread_array>> /\ ~InHandshake("main")
  BY DEF Command, Connect, Disconnect, Fetch, Lookup, PeersLock, Typed, At, arrays, InHandshake
<1>2. \E pc, a, f, i : pc \notin HoldingPcs /\ Do("main", pc, a, f, i)
  BY DEF Command, Connect, Disconnect, Fetch, Lookup, PeersLock, HoldingPcs
<1> QED  BY <1>1, <1>2, GoesOn, ThreadsSame DEF Quiet, Keeps

LEMMA KindOpen ==
  ASSUME TypeInv, UniqInv, NEW f \in Fd, OpenConnection(f) \/ RefusedConnection(f)
  PROVE  SocketStep
<1> USE ActorsAre
<1>1. UNCHANGED thread_array /\ ~InHandshake("main") /\ act["main"].pc = "connect" /\ sock[f] = NULL
  BY DEF OpenConnection, RefusedConnection, At, arrays, InHandshake
<1>2. act["main"].addr \in Addrs /\ NewPeer(act["main"].addr)
  BY <1>1 DEF TypeInv, ActInv, FieldsTyped, UniqInv, Opening, NewPeer
<1>3. CASE OpenConnection(f)
  <2>1. /\ sock' = [sock EXCEPT ![f] = NewSocket(act["main"].addr)]
        /\ Do("main", "recv_acp", act["main"].addr, f, NULL)
    BY <1>3 DEF OpenConnection
  <2>2. /\ SameHands({"main"}) /\ act'["main"].pc = "recv_acp" /\ act'["main"].fd = f
        /\ act'["main"].addr = act["main"].addr
    BY <2>1, DoHands
  <2>3. "recv_acp" \in HoldingPcs /\ SameThreads({})
    BY <1>1, ThreadsSame DEF HoldingPcs
  <2>4. Opens("main")
    BY <1>1, <1>2, <2>1, <2>2, <2>3 DEF Opens
  <2> QED  BY <2>4 DEF SocketStep
<1>4. CASE RefusedConnection(f)
  <2>1. /\ sock' = [sock EXCEPT ![f] = [NewSocket(act["main"].addr) EXCEPT !.remote = "reset"]]
        /\ Done("main") /\ "REFUSE" \in RemoteActs
    BY <1>4 DEF RefusedConnection
  <2>2. Refused
    <3> DEFINE s == [NewSocket(act["main"].addr) EXCEPT !.remote = "reset"]
    <3>1. s \in Socket /\ s.addr = act["main"].addr
      BY <1>2, NewSocketTyped DEF NewSocket
    <3>2. SameHands({}) /\ SameThreads({})
      BY <1>1, <2>1, IsDone, ThreadsSame
    <3> QED  BY <1>1, <1>2, <2>1, <3>1, <3>2 DEF Refused
  <2> QED  BY <2>2 DEF SocketStep
<1> QED  BY <1>3, <1>4

LEMMA WaitingSocket ==
  ASSUME TypeInv, NEW f \in Fd, Waiting(f)
  PROVE  /\ IsSocket(f) /\ sock[f] \in Socket /\ Consume(sock[f]) \in Socket
         /\ Consume(sock[f]).addr = sock[f].addr
         /\ \A m : /\ Sent(Consume(sock[f]), m) \in Socket
                   /\ Sent(Consume(sock[f]), m).addr = sock[f].addr
<1>1. IsSocket(f) /\ sock[f] \in Socket /\ sock[f].inbox # <<>>
  BY SocketTyped DEF Waiting, TypeInv
<1>2. Consume(sock[f]) \in Socket /\ Consume(sock[f]).addr = sock[f].addr
  BY <1>1, ConsumeTyped DEF Consume, Socket
<1>3. \A s \in Socket : \A m : Sent(s, m) \in Socket /\ Sent(s, m).addr = s.addr
  BY SentTyped DEF Sent, Socket
<1> QED  BY <1>1, <1>2, <1>3

LEMMA KindRecvAcp == ASSUME TypeInv, RecvAcp PROVE SocketStep
<1> USE ActorsAre
<1> DEFINE f == act["main"].fd
<1>1. UNCHANGED thread_array /\ act["main"].pc = "recv_acp" /\ f \in Fd
  BY DEF RecvAcp, At, arrays, TypeInv, ActInv, FieldsTyped, HoldingPcs
<1>2. CASE Waiting(f) /\ sock' = [sock EXCEPT ![f] = Sent(Consume(@), "ACK")] /\ Goto("main", "add")
  <2>1. Keeps
    BY <1>1, <1>2, WaitingSocket DEF Keeps
  <2>2. SameHands({})
    BY <1>1, <1>2, MovesOn DEF Goto, HoldingPcs
  <2> QED  BY <1>1, <2>1, <2>2, ThreadsSame DEF SocketStep, Quiet
<1>3. CASE sock' = Closed(f) /\ Done("main")
  <2>1. Closes("main")
    BY <1>1, <1>3, DoneHands, ThreadsSame DEF Closes, HoldingPcs
  <2> QED  BY <2>1 DEF SocketStep
<1> QED  BY <1>2, <1>3 DEF RecvAcp

LEMMA KindMain ==
  ASSUME TypeInv, UniqInv, MainStep, ~ActorStep("main")
  PROVE  SocketStep
<1> USE ActorsAre
<1>1. CASE \E f \in Fd : OpenConnection(f) \/ RefusedConnection(f)
  BY <1>1, KindOpen
<1>2. CASE RecvAcp
  BY <1>2, KindRecvAcp
<1>3. CASE NoDescriptor \/ FetchRejected
  <2>1. UNCHANGED <<sock, thread_array>> /\ ~InHandshake("main") /\ Done("main")
    BY <1>3 DEF NoDescriptor, FetchRejected, At, arrays, InHandshake
  <2> QED  BY <2>1, IsDone, ThreadsSame DEF SocketStep, Quiet, Keeps
<1>4. ASSUME NEW from \in {"fetch_fd", "get_fd"}, NEW read \in {"fetch_read_fd", "read_fd"},
             NEW next \in {"send_req", "get_tid"},
             GetFd(from, read, next) \/ ReadFd(read, next) \/ GetThreadId \/ ReadThreadId
      PROVE  SocketStep
  <2>1. UNCHANGED <<sock, thread_array>> /\ ~InHandshake("main")
    BY <1>4 DEF GetFd, ReadFd, GetThreadId, ReadThreadId, At, arrays, InHandshake
  <2>2. \E pc, a, f, i : pc \notin HoldingPcs /\ Do("main", pc, a, f, i)
    BY <1>4 DEF GetFd, ReadFd, GetThreadId, ReadThreadId, HoldingPcs
  <2> QED  BY <2>1, <2>2, GoesOn, ThreadsSame DEF SocketStep, Quiet, Keeps
<1>5. CASE SendReq
  <2>1. UNCHANGED thread_array /\ ~InHandshake("main") /\ Done("main")
        /\ SendTo(act["main"].fd, "REQ")
    BY <1>5 DEF SendReq, At, arrays, InHandshake
  <2> QED  BY <2>1, SendKeeps, IsDone, ThreadsSame DEF SocketStep, Quiet
<1>6. CASE SendDsn
  <2>1. UNCHANGED thread_array /\ ~InHandshake("main") /\ SendTo(act["main"].fd, "DSN")
        /\ Do("main", "join", act["main"].addr, NULL, act["main"].idx)
    BY <1>6 DEF SendDsn, At, arrays, InHandshake
  <2> QED  BY <2>1, SendKeeps, GoesOn, ThreadsSame DEF SocketStep, Quiet, HoldingPcs
<1>7. CASE \E j \in Index : JoinLock(j)
  <2>1. PICK j \in Index : JoinLock(j)
    BY <1>7
  <2>2. /\ UNCHANGED <<sock, thread_array>> /\ ~InHandshake("main")
        /\ Do("main", "joining", act["main"].addr, NULL, j)
    BY <2>1 DEF JoinLock, At, arrays, InHandshake
  <2> QED  BY <2>2, GoesOn, ThreadsSame DEF SocketStep, Quiet, Keeps, HoldingPcs
<1>8. CASE JoinReturns
  <2>1. UNCHANGED sock /\ ~InHandshake("main") /\ Done("main")
    BY <1>8 DEF JoinReturns, At, InHandshake
  <2>2. SameThreads({})
    BY <1>8 DEF JoinReturns, Joinable, Gone, NoThread, SameThreads, SameThread, HoldsSocket,
       TypeInv, ThreadInv
  <2> QED  BY <2>1, <2>2, IsDone DEF SocketStep, Quiet, Keeps
<1>9. CASE PeersPing
  <2> DEFINE i == act["main"].idx
  <2>1. UNCHANGED thread_array /\ ~InHandshake("main")
        /\ (UNCHANGED sock \/ SendTo(peer_array[i].fd, "PNG"))
        /\ Do("main", "pinging", NULL, NULL, i + 1)
    BY <1>9 DEF PeersPing, At, arrays, InHandshake
  <2>2. Keeps
    BY <2>1, SendKeeps DEF Keeps
  <2> QED  BY <2>1, <2>2, GoesOn, ThreadsSame DEF SocketStep, Quiet, HoldingPcs
<1>10. CASE PeersUnlock
  <2>1. UNCHANGED <<sock, thread_array>> /\ ~InHandshake("main") /\ Done("main")
    BY <1>10 DEF PeersUnlock, At, arrays, InHandshake
  <2> QED  BY <2>1, IsDone, ThreadsSame DEF SocketStep, Quiet, Keeps
<1> QED
  BY <1>1, <1>2, <1>3, <1>4, <1>5, <1>6, <1>7, <1>8, <1>9, <1>10 DEF MainStep

\* add_to_array and assign_thread.
LEMMA KindActor ==
  ASSUME TypeInv, SlotInv, NEW p \in Actors, ActorStep(p)
  PROVE  SocketStep
<1> USE ActorsAre
<1>1. CASE AddToArray(p)
  <2>1. /\ UNCHANGED <<sock, thread_array>> /\ act[p].pc \in HoldingPcs
        /\ Do(p, "assign", act[p].addr, act[p].fd, act[p].idx)
    BY <1>1 DEF AddToArray, At, Goto, HoldingPcs
  <2> QED  BY <2>1, MovesOn, ThreadsSame DEF SocketStep, Quiet, Keeps, HoldingPcs
<1>2. CASE ArrayFull(p) \/ AddOutOfMemory(p) \/ NoFreeThread(p)
  <2>1. /\ UNCHANGED thread_array /\ act[p].pc \in HoldingPcs /\ sock' = Closed(act[p].fd) /\ Done(p)
    BY <1>2 DEF ArrayFull, AddOutOfMemory, NoFreeThread, At, HoldingPcs, arrays
  <2> QED  BY <2>1, DoneHands, ThreadsSame DEF SocketStep, Closes
<1>3. ASSUME NEW j \in Index, AssignSlot(p, j)
      PROVE  SocketStep
  <2>1. /\ UNCHANGED <<sock, thread_array>> /\ act[p].pc \in HoldingPcs
        /\ Do(p, "create", act[p].addr, act[p].fd, j)
    BY <1>3 DEF AssignSlot, At, HoldingPcs
  <2> QED  BY <2>1, MovesOn, ThreadsSame DEF SocketStep, Quiet, Keeps, HoldingPcs
<1>4. CASE CreateThread(p)
  <2> DEFINE j == act[p].idx
             started == [pc |-> "recv", addr |-> act[p].addr, fd |-> act[p].fd, locked |-> FALSE]
  <2>1. /\ act[p].pc = "create" /\ UNCHANGED sock /\ Done(p) /\ j \in Index
        /\ thread_array[j].pc \in Gone
        /\ \/ thread_array' = [thread_array EXCEPT ![j] = started]
           \/ "pthread_create" \in Faults /\ UNCHANGED thread_array
    BY <1>4 DEF CreateThread, At, SlotInv, GivenAway, TypeInv, ActInv, FieldsTyped, IndexPcs
  <2>2. SameHands({p}) /\ ~InHandshake(p)'
    BY <2>1, DoneHands
  <2>3. CASE UNCHANGED thread_array /\ "pthread_create" \in Faults
    BY <2>1, <2>2, <2>3, ThreadsSame DEF SocketStep, Drops, Keeps
  <2>4. CASE thread_array' = [thread_array EXCEPT ![j] = started]
    <3>1. ~HoldsSocket(j)
      BY <2>1 DEF HoldsSocket, Gone
    <3>2. /\ thread_array'[j].pc = "recv" /\ thread_array'[j].fd = act[p].fd
          /\ thread_array'[j].addr = act[p].addr
      BY <2>1, <2>4 DEF TypeInv, ThreadInv
    <3>3. SameThreads({j})
      BY <2>1, <2>4 DEF SameThreads, SameThread, HoldsSocket, TypeInv, ThreadInv
    <3> HIDE DEF j, started
    <3>4. HandsOver(p)
      BY <2>1, <2>2, <3>1, <3>2, <3>3 DEF HandsOver
    <3> QED  BY <3>4 DEF SocketStep
  <2> QED  BY <2>1, <2>3, <2>4
<1> QED  BY <1>1, <1>2, <1>3, <1>4 DEF ActorStep

\* The listener.
LEMMA KindListener ==
  ASSUME TypeInv, Arrive \/ SendAcp \/ RecvAck
  PROVE  SocketStep
<1> USE ActorsAre
<1> DEFINE p == "listener"
           g == act[p].fd
<1>1. ASSUME NEW a \in InAddrs, NEW f \in Fd, Accept(a, f)
      PROVE  SocketStep
  <2>1. /\ UNCHANGED thread_array /\ ~InHandshake(p) /\ sock[f] = NULL /\ a \in Addrs
        /\ sock' = [sock EXCEPT ![f] = NewSocket(a)] /\ Do(p, "send_acp", a, f, NULL)
        /\ NewPeer(a)
    BY <1>1 DEF Accept, At, arrays, InHandshake, Addrs, NewPeer
  <2>2. SameHands({p}) /\ act'[p].pc = "send_acp" /\ act'[p].fd = f /\ act'[p].addr = a
    BY <2>1, DoHands
  <2>3. "send_acp" \in HoldingPcs /\ SameThreads({})
    BY <2>1, ThreadsSame DEF HoldingPcs
  <2>4. Opens(p)
    BY <2>1, <2>2, <2>3 DEF Opens
  <2> QED  BY <2>4 DEF SocketStep
<1>2. ASSUME NEW a \in InAddrs, AcceptFails(a)
      PROVE  SocketStep
  <2>1. UNCHANGED <<sock, thread_array>> /\ ~InHandshake(p) /\ Do(p, "recv_ack", a, 0, NULL)
    BY <1>2 DEF AcceptFails, At, arrays, InHandshake
  <2> QED  BY <2>1, GoesOn, ThreadsSame DEF SocketStep, Quiet, Keeps
<1>3. CASE SendAcp
  <2>1. UNCHANGED thread_array /\ act[p].pc \in HoldingPcs /\ act[p].pc = "send_acp" /\ g \in Fd
    BY <1>3 DEF SendAcp, At, arrays, HoldingPcs, TypeInv, ActInv, FieldsTyped
  <2>2. CASE /\ SendOk(g) /\ sock' = [sock EXCEPT ![g] = Sent(@, "ACP")]
             /\ Goto("listener", "recv_ack")
    <3>1. sock[g] \in Socket /\ IsSocket(g)
      BY <2>1, <2>2, SocketTyped DEF TypeInv, SendOk
    <3>2. Keeps
      BY <2>1, <2>2, <3>1, SentTyped DEF Keeps, Sent, Socket
    <3> QED  BY <2>1, <2>2, <3>2, MovesOn, ThreadsSame DEF SocketStep, Quiet, Goto, HoldingPcs
  <2>3. CASE sock' = Closed(g) /\ Do("listener", "recv_ack", act["listener"].addr, 0, NULL)
    BY <2>1, <2>3, DoHands, ThreadsSame DEF SocketStep, Closes
  <2> QED  BY <1>3, <2>2, <2>3 DEF SendAcp
<1>4. CASE RecvAck
  <2>1. UNCHANGED thread_array /\ act[p].pc \in HoldingPcs /\ act[p].pc = "recv_ack" /\ g \in Fd
    BY <1>4 DEF RecvAck, At, arrays, HoldingPcs, TypeInv, ActInv, FieldsTyped
  <2>2. CASE Waiting(g) /\ sock' = [sock EXCEPT ![g] = Consume(@)]
    <3>1. Keeps
      BY <2>1, <2>2, WaitingSocket DEF Keeps
    <3>2. CASE Goto("listener", "add")
      BY <2>1, <3>1, <3>2, MovesOn, ThreadsSame DEF SocketStep, Quiet, Goto, HoldingPcs
    <3>3. CASE Head(sock[g].inbox) # "ACK" /\ Done("listener")
      BY <2>1, <2>2, <3>1, <3>3, DoneHands, ThreadsSame DEF SocketStep, Drops, At
    <3> QED  BY <1>4, <2>1, <2>2, <3>2, <3>3 DEF RecvAck, Ended, Waiting
  <2>3. CASE sock' = Closed(g) /\ Done("listener")
    BY <2>1, <2>3, DoneHands, ThreadsSame DEF SocketStep, Closes
  <2> QED  BY <1>4, <2>2, <2>3 DEF RecvAck
<1> QED  BY <1>1, <1>2, <1>3, <1>4 DEF Arrive

\* The handlers and the remote ends.
LEMMA KindHandler ==
  ASSUME TypeInv, NEW j \in Index, HandlerStep(j)
  PROVE  SocketStep
<1> DEFINE f == thread_array[j].fd
<1>1. UNCHANGED act /\ SameHands({})
  BY HandsSame DEF HandlerStep, HandlerPacket, HandlerEnd, HandlerRemove, HandlerClose, HandlerRelease
<1>2. thread_array \in [Index -> Thread]
  BY DEF TypeInv, ThreadInv
<1>3. CASE HandlerPacket(j)
  <2>1. thread_array[j].pc = "recv" /\ Waiting(f) /\ (UNCHANGED thread_array \/ Leave(j, TRUE))
    BY <1>3 DEF HandlerPacket
  <2>2. SameThreads({})
    BY <1>2, <2>1 DEF SameThreads, SameThread, HoldsSocket, Leave
  <2>3. CASE f \in Fd
    <3>1. Keeps
      BY <1>3, <2>1, <2>3, WaitingSocket DEF HandlerPacket, Keeps
    <3> QED  BY <1>1, <2>2, <3>1 DEF SocketStep, Quiet
  <2>4. CASE f \notin Fd
    <3>1. UNCHANGED sock
      BY <1>3, <2>4 DEF HandlerPacket, TypeInv, SockInv
    <3> QED  BY <1>1, <2>2, <3>1 DEF SocketStep, Quiet, Keeps
  <2> QED  BY <2>3, <2>4
<1>4. ASSUME NEW locked \in BOOLEAN, HandlerEnd(j, locked)
      PROVE  SocketStep
  <2>1. thread_array[j].pc = "recv" /\ Leave(j, locked) /\ UNCHANGED sock
    BY <1>4 DEF HandlerEnd
  <2>2. SameThreads({})
    BY <1>2, <2>1 DEF SameThreads, SameThread, HoldsSocket, Leave
  <2> QED  BY <1>1, <2>1, <2>2 DEF SocketStep, Quiet, Keeps
<1>5. CASE HandlerRemove(j)
  <2>1. SameThreads({}) /\ UNCHANGED sock
    BY <1>2, <1>5 DEF HandlerRemove, SameThreads, SameThread, HoldsSocket, Thread
  <2> QED  BY <1>1, <2>1 DEF SocketStep, Quiet, Keeps
<1>6. CASE HandlerClose(j)
  <2>1. Ends(j)
    BY <1>1, <1>2, <1>6 DEF HandlerClose, Ends, SameThreads, SameThread, HoldsSocket
  <2> QED  BY <2>1 DEF SocketStep
<1>7. CASE HandlerRelease(j)
  <2>1. SameThreads({}) /\ UNCHANGED sock
    BY <1>2, <1>7 DEF HandlerRelease, NoThread, SameThreads, SameThread, HoldsSocket
  <2> QED  BY <1>1, <2>1 DEF SocketStep, Quiet, Keeps
<1> QED  BY <1>3, <1>4, <1>5, <1>6, <1>7 DEF HandlerStep

LEMMA KindRemote ==
  ASSUME TypeInv, NEW f \in Fd, RemoteStep(f)
  PROVE  SocketStep
<1>1. UNCHANGED <<act, thread_array>> /\ IsSocket(f) /\ sock[f] \in Socket
  <2>1. UNCHANGED <<act, thread_array>> /\ IsSocket(f)
    BY DEF RemoteStep, RemoteHello, RemoteSend, RemoteClose, RemoteReset, Present, arrays
  <2> QED  BY <2>1, SocketTyped DEF TypeInv
<1>2. Keeps
  <2>1. ASSUME NEW m \in Packets, RemoteHello(f, m)
        PROVE  Keeps
    <3>1. [addr |-> sock[f].addr, remote |-> "open", inbox |-> Append(sock[f].inbox, m)] \in Socket
      BY <1>1, <2>1 DEF Socket
    <3> QED  BY <1>1, <2>1, <3>1 DEF RemoteHello, Keeps, TypeInv, SockInv
  <2>2. ASSUME NEW m \in Packets, RemoteSend(f, m)
        PROVE  Keeps
    <3> DEFINE s == [sock[f] EXCEPT !.inbox = Append(@, m)]
    <3>1. s \in Socket /\ s.addr = sock[f].addr
      BY <1>1, <2>2 DEF Socket
    <3>2. sock' = [sock EXCEPT ![f] = s]
      BY <2>2 DEF RemoteSend, TypeInv, SockInv
    <3> QED  BY <1>1, <3>1, <3>2 DEF Keeps
  <2>3. ASSUME NEW r \in {"closed", "reset"}, sock' = [sock EXCEPT ![f].remote = r]
        PROVE  Keeps
    <3> DEFINE s == [sock[f] EXCEPT !.remote = r]
    <3>1. s \in Socket /\ s.addr = sock[f].addr
      BY <1>1, <2>3 DEF Socket
    <3>2. sock' = [sock EXCEPT ![f] = s]
      BY <2>3 DEF TypeInv, SockInv
    <3> QED  BY <1>1, <3>1, <3>2 DEF Keeps
  <2> QED  BY <2>1, <2>2, <2>3 DEF RemoteStep, RemoteClose, RemoteReset
<1> QED  BY <1>1, <1>2, HandsSame, ThreadsSame DEF SocketStep, Quiet

LEMMA EveryStep == ASSUME TypeInv, SlotInv, UniqInv, [Next]_vars PROVE SocketStep
<1>1. UNCHANGED <<sock, act, thread_array>> => SocketStep
  BY HandsSame, ThreadsSame DEF SocketStep, Quiet, Keeps
<1>2. CASE Ending
  BY <1>1, <1>2, EndingFrame DEF arrays
<1>3. CASE UNCHANGED vars
  BY <1>1, <1>3 DEF vars
<1>4. CASE ThreadStep
  BY <1>4, ActorsAre, KindCommand, KindMain, KindActor, KindListener, KindHandler, KindRemote
     DEF ThreadStep, ListenerStep, SocketStep
<1> QED  BY <1>2, <1>3, <1>4 DEF Next, Running

-----------------------------------------------------------------------------
(* Ownership. DescriptorOwnership is inductive together with the fact that  *)
(* after its handshake a connection never has descriptor 0 while that is   *)
(* still the input of the process.                                         *)

Established == {"recv_acp", "send_acp", "add", "assign", "create"}

ZeroInv ==
  sock[0] = Stdin => \A p \in Actors : act[p].pc \in Established => act[p].fd # 0

\* How a thread comes to the states of Established: with the descriptor it has,
\* with one that was closed, or with one that it could read from.
Advances(p) ==
  \/ act'[p] = act[p] \/ act'[p].pc \notin Established
  \/ act[p].pc \in Established /\ act'[p].fd = act[p].fd
  \/ sock[act'[p].fd] # Stdin

LEMMA StepAdvances == ASSUME TypeInv, [Next]_vars PROVE \A p \in Actors : Advances(p)
<1> USE ActorsAre DEF At, Goto
<1>1. ASSUME NEW q \in Actors, NEW pc, NEW a, NEW f, NEW i, Do(q, pc, a, f, i),
             \/ pc \notin Established
             \/ act[q].pc \in Established /\ f = act[q].fd
             \/ sock[f] # Stdin
      PROVE  \A p \in Actors : Advances(p)
  BY <1>1, DoSteps DEF Advances
<1>2. ASSUME NEW q \in Actors, Done(q)
      PROVE  \A p \in Actors : Advances(p)
  BY <1>2, DoneSteps DEF Advances, Established
<1>3. ASSUME UNCHANGED act
      PROVE  \A p \in Actors : Advances(p)
  BY <1>3 DEF Advances
<1>4. CASE Command
  <2>1. \E pc, a, f, i : pc \notin Established /\ Do("main", pc, a, f, i)
    BY <1>4 DEF Command, Connect, Disconnect, Fetch, Lookup, PeersLock, Established
  <2> QED  BY <1>1, <2>1
<1>5. ASSUME NEW q \in Actors, ActorStep(q)
      PROVE  \A p \in Actors : Advances(p)
  <2>1. CASE ArrayFull(q) \/ AddOutOfMemory(q) \/ NoFreeThread(q) \/ CreateThread(q)
    BY <1>2, <2>1 DEF ArrayFull, AddOutOfMemory, NoFreeThread, CreateThread
  <2>2. CASE AddToArray(q) \/ \E j \in Index : AssignSlot(q, j)
    <3>1. \E pc, i : act[q].pc \in Established /\ Do(q, pc, act[q].addr, act[q].fd, i)
      BY <2>2 DEF AddToArray, AssignSlot, Established
    <3> QED  BY <1>1, <3>1
  <2> QED  BY <1>5, <2>1, <2>2 DEF ActorStep
<1>6. CASE MainStep /\ ~ActorStep("main")
  <2>1. ASSUME NEW f \in Fd, OpenConnection(f)
        PROVE  \A p \in Actors : Advances(p)
    <3>1. sock[f] # Stdin /\ Do("main", "recv_acp", act["main"].addr, f, NULL)
      BY <2>1, NullAssumption DEF OpenConnection
    <3> QED  BY <1>1, <3>1
  <2>2. ASSUME RecvAcp
        PROVE  \A p \in Actors : Advances(p)
    <3>1. act["main"].pc \in Established
      BY <2>2 DEF RecvAcp, Established
    <3> QED  BY <1>1, <1>2, <2>2, <3>1 DEF RecvAcp
  <2>3. ASSUME \/ \E f \in Fd : RefusedConnection(f)
               \/ NoDescriptor \/ FetchRejected \/ SendReq \/ JoinReturns \/ PeersUnlock
        PROVE  \A p \in Actors : Advances(p)
    BY <1>2, <2>3 DEF RefusedConnection, NoDescriptor, FetchRejected, SendReq, JoinReturns, PeersUnlock
  <2>4. ASSUME NEW from, NEW read \in {"fetch_read_fd", "read_fd"},
               NEW next \in {"send_req", "get_tid"},
               \/ GetFd(from, read, next) \/ ReadFd(read, next)
               \/ GetThreadId \/ ReadThreadId \/ SendDsn \/ PeersPing
               \/ \E j \in Index : JoinLock(j)
        PROVE  \A p \in Actors : Advances(p)
    <3>1. \E pc, a, f, i : pc \notin Established /\ Do("main", pc, a, f, i)
      BY <2>4 DEF GetFd, ReadFd, GetThreadId, ReadThreadId, SendDsn, PeersPing, JoinLock, Established
    <3> QED  BY <1>1, <3>1
  <2> QED  BY <1>6, <2>1, <2>2, <2>3, <2>4 DEF MainStep
<1>7. CASE Arrive \/ SendAcp \/ RecvAck
  <2>1. ASSUME NEW a \in InAddrs, NEW f \in Fd, Accept(a, f)
        PROVE  \A p \in Actors : Advances(p)
    <3>1. sock[f] # Stdin /\ Do("listener", "send_acp", a, f, NULL)
      BY <2>1, NullAssumption DEF Accept
    <3> QED  BY <1>1, <3>1
  <2>2. ASSUME NEW a \in InAddrs, AcceptFails(a) \/ SendAcp
        PROVE  \A p \in Actors : Advances(p)
    <3>1. \E b, f, i : Do("listener", "recv_ack", b, f, i)
      BY <2>2 DEF AcceptFails, SendAcp
    <3>2. "recv_ack" \notin Established
      BY DEF Established
    <3> QED  BY <1>1, <3>1, <3>2
  <2>3. ASSUME SendAcp
        PROVE  \A p \in Actors : Advances(p)
    <3>1. \E b, f, i : Do("listener", "recv_ack", b, f, i)
      BY <2>3 DEF SendAcp
    <3>2. "recv_ack" \notin Established
      BY DEF Established
    <3> QED  BY <1>1, <3>1, <3>2
  <2>4. ASSUME RecvAck
        PROVE  \A p \in Actors : Advances(p)
    <3>1. \/ Done("listener")
          \/ /\ Waiting(act["listener"].fd)
             /\ Do("listener", "add", act["listener"].addr, act["listener"].fd, act["listener"].idx)
      BY <2>4 DEF RecvAck
    <3>2. Waiting(act["listener"].fd) => sock[act["listener"].fd] # Stdin
      BY DEF Waiting, IsSocket
    <3> QED  BY <1>1, <1>2, <3>1, <3>2
  <2> QED  BY <1>7, <2>1, <2>2, <2>3, <2>4 DEF Arrive
<1>8. CASE \E j \in Index : HandlerStep(j)
  BY <1>3, <1>8 DEF HandlerStep, HandlerPacket, HandlerEnd, HandlerRemove, HandlerClose, HandlerRelease
<1>9. CASE \E f \in Fd : RemoteStep(f)
  BY <1>3, <1>9 DEF RemoteStep, RemoteHello, RemoteSend, RemoteClose, RemoteReset
<1>10. CASE Ending \/ UNCHANGED vars
  BY <1>3, <1>10, EndingFrame DEF vars
<1> QED
  BY <1>4, <1>5, <1>6, <1>7, <1>8, <1>9, <1>10 DEF Next, Running, ThreadStep, ListenerStep

\* Nothing puts the input back in the place of descriptor 0.
LEMMA StdinStays == ASSUME TypeInv, SocketStep, sock'[0] = Stdin PROVE sock[0] = Stdin
<1>1. 0 \in Fd /\ Stdin \notin Socket /\ Stdin # NULL
  BY NullAssumption DEF Fd
<1>2. \A a \in Addrs : NewSocket(a) \in Socket
  BY NewSocketTyped
<1>3. UNCHANGED sock \/ \E f, s : s # Stdin /\ sock' = [sock EXCEPT ![f] = s]
  BY <1>1, <1>2 DEF SocketStep, Quiet, Refused, Opens, Closes, Ends, HandsOver, Drops, Keeps, Closed
<1> QED  BY <1>1, <1>3 DEF TypeInv, SockInv

LEMMA ZeroInit == Init => ZeroInv
BY DEF Init, ZeroInv, Established, Idle

LEMMA ZeroNext ==
  ASSUME TypeInv, SlotInv, UniqInv, ZeroInv, [Next]_vars
  PROVE  ZeroInv'
<1> SUFFICES ASSUME sock'[0] = Stdin, NEW p \in Actors, act'[p].pc \in Established
             PROVE  act'[p].fd # 0
  BY DEF ZeroInv
<1>1. sock[0] = Stdin
  BY EveryStep, StdinStays
<1>2. Advances(p)
  BY StepAdvances
<1> QED  BY <1>1, <1>2 DEF Advances, ZeroInv

ThreadFds == \A j \in Index : HoldsSocket(j) => thread_array[j].fd \in Fd

\* DescriptorOwnership in parts, while descriptor 0 is the input.
HandsHold == \A p \in Actors : InHandshake(p) => Holds(act[p].fd, act[p].addr)
HandsApart ==
  \A p, q \in Actors : p # q /\ InHandshake(p) /\ InHandshake(q) => act[p].fd # act[q].fd
HandThread ==
  \A p \in Actors, j \in Index :
    InHandshake(p) /\ HoldsSocket(j) => act[p].fd # thread_array[j].fd
ThreadsHold ==
  \A j \in Index : HoldsSocket(j) => Holds(thread_array[j].fd, thread_array[j].addr)
ThreadsApart ==
  \A j, k \in Index :
    j # k /\ HoldsSocket(j) /\ HoldsSocket(k) => thread_array[j].fd # thread_array[k].fd
Owned == HandsHold /\ HandsApart /\ HandThread /\ ThreadsHold /\ ThreadsApart

OwnInv == ThreadFds /\ (sock[0] = Stdin => Owned)

LEMMA OwnedIs == (sock[0] = Stdin => Owned) => DescriptorOwnership
BY DEF Owned, HandsHold, HandsApart, HandThread, ThreadsHold, ThreadsApart, DescriptorOwnership

LEMMA HandFd == ASSUME TypeInv, NEW p \in Actors, InHandshake(p) PROVE act[p].fd \in Fd
BY DEF TypeInv, ActInv, FieldsTyped, InHandshake, HoldingPcs

\* What stays of a socket.
LEMMA KeepsHolds ==
  ASSUME TypeInv, Keeps, NEW f \in Fd, NEW a, Holds(f, a)
  PROVE  Holds(f, a)'
BY NullAssumption DEF Keeps, Holds, IsSocket, TypeInv, SockInv

LEMMA OthersHold ==
  ASSUME TypeInv, NEW g, NEW s, sock' = [sock EXCEPT ![g] = s], NEW f \in Fd, f # g, NEW a, Holds(f, a)
  PROVE  Holds(f, a)'
BY DEF Holds, IsSocket, TypeInv, SockInv

LEMMA ThreadFdsNext == ASSUME TypeInv, ThreadFds, SocketStep PROVE ThreadFds'
<1>1. ASSUME SameThreads({}) PROVE ThreadFds'
  BY <1>1 DEF SameThreads, SameThread, ThreadFds
<1>2. ASSUME NEW j \in Index, Ends(j) PROVE ThreadFds'
  BY <1>2 DEF Ends, SameThreads, SameThread, ThreadFds
<1>3. ASSUME NEW p \in Actors, HandsOver(p) PROVE ThreadFds'
  <2>1. act[p].fd \in Fd
    BY <1>3 DEF HandsOver, TypeInv, ActInv, FieldsTyped, HoldingPcs
  <2> QED  BY <1>3, <2>1 DEF HandsOver, SameThreads, SameThread, ThreadFds
<1> QED  BY <1>1, <1>2, <1>3 DEF SocketStep, Quiet, Refused, Opens, Closes, Drops

\* Fewer threads hold what they held.
LEMMA Shrinks ==
  ASSUME Owned, \A p \in Actors : InHandshake(p)' =>
                   /\ InHandshake(p) /\ act'[p].fd = act[p].fd /\ act'[p].addr = act[p].addr
                   /\ Holds(act[p].fd, act[p].addr)',
         \A j \in Index : HoldsSocket(j)' =>
                   /\ HoldsSocket(j) /\ thread_array'[j].fd = thread_array[j].fd
                   /\ thread_array'[j].addr = thread_array[j].addr
                   /\ Holds(thread_array[j].fd, thread_array[j].addr)'
  PROVE  Owned'
<1>1. HandsHold' /\ HandsApart'
  BY DEF Owned, HandsHold, HandsApart, Holds, IsSocket
<1>2. HandThread'
  BY DEF Owned, HandThread
<1>3. ThreadsHold' /\ ThreadsApart'
  BY DEF Owned, ThreadsHold, ThreadsApart, Holds, IsSocket
<1> QED  BY <1>1, <1>2, <1>3 DEF Owned

\* What was held in the hands of a thread is held when its socket is spared.
LEMMA SparedHold ==
  ASSUME TypeInv, OwnInv, Owned,
         \A f \in Fd, a \in Addrs \cup {NULL} : Holds(f, a) => Holds(f, a)'
  PROVE  /\ \A p \in Actors : InHandshake(p) /\ SameHand(p) => Holds(act[p].fd, act[p].addr)'
         /\ \A j \in Index : HoldsSocket(j) /\ SameThread(j)
                             => Holds(thread_array[j].fd, thread_array[j].addr)'
<1>1. ASSUME NEW p \in Actors, InHandshake(p), SameHand(p)
      PROVE  Holds(act[p].fd, act[p].addr)'
  <2>1. act[p].fd \in Fd /\ act[p].addr \in Addrs \cup {NULL} /\ Holds(act[p].fd, act[p].addr)
    BY <1>1, HandFd DEF Owned, HandsHold, TypeInv, ActInv, Act
  <2> QED  BY <1>1, <2>1 DEF SameHand, Holds, IsSocket
<1>2. ASSUME NEW j \in Index, HoldsSocket(j), SameThread(j)
      PROVE  Holds(thread_array[j].fd, thread_array[j].addr)'
  <2>1. /\ thread_array[j].fd \in Fd /\ thread_array[j].addr \in Addrs \cup {NULL}
        /\ Holds(thread_array[j].fd, thread_array[j].addr)
    BY <1>2 DEF OwnInv, ThreadFds, Owned, ThreadsHold, TypeInv, ThreadInv, Thread
  <2> QED  BY <1>2, <2>1 DEF SameThread, Holds, IsSocket
<1> QED  BY <1>1, <1>2

\* Closing one socket leaves what every other thread holds.
LEMMA OthersSpared ==
  ASSUME TypeInv, OwnInv, Owned, NEW g, NEW s, sock' = [sock EXCEPT ![g] = s]
  PROVE  /\ \A p \in Actors : InHandshake(p) /\ SameHand(p) /\ act[p].fd # g
                              => Holds(act[p].fd, act[p].addr)'
         /\ \A j \in Index : HoldsSocket(j) /\ SameThread(j) /\ thread_array[j].fd # g
                             => Holds(thread_array[j].fd, thread_array[j].addr)'
<1>1. ASSUME NEW p \in Actors, InHandshake(p), SameHand(p), act[p].fd # g
      PROVE  Holds(act[p].fd, act[p].addr)'
  <2>1. act[p].fd \in Fd /\ Holds(act[p].fd, act[p].addr)
    BY <1>1, HandFd DEF Owned, HandsHold
  <2> QED  BY <1>1, <2>1 DEF SameHand, Holds, IsSocket, TypeInv, SockInv
<1>2. ASSUME NEW j \in Index, HoldsSocket(j), SameThread(j), thread_array[j].fd # g
      PROVE  Holds(thread_array[j].fd, thread_array[j].addr)'
  <2>1. /\ thread_array[j].fd \in Fd /\ Holds(thread_array[j].fd, thread_array[j].addr)
    BY <1>2 DEF OwnInv, ThreadFds, Owned, ThreadsHold
  <2> QED  BY <1>2, <2>1 DEF SameThread, Holds, IsSocket, TypeInv, SockInv
<1> QED  BY <1>1, <1>2

\* A thread that leaves an open socket alone, or takes one nobody had.
LEMMA OwnKeeps ==
  ASSUME TypeInv, OwnInv, Owned,
         \/ Quiet \/ Refused \/ \E p \in Actors : Drops(p)
  PROVE  Owned'
<1>1. CASE Quiet \/ \E p \in Actors : Drops(p)
  <2>1. \A f \in Fd, a \in Addrs \cup {NULL} : Holds(f, a) => Holds(f, a)'
    BY <1>1, KeepsHolds DEF Quiet, Drops
  <2>2. /\ \A p \in Actors : InHandshake(p)' => InHandshake(p) /\ SameHand(p)
        /\ \A j \in Index : HoldsSocket(j)' => HoldsSocket(j) /\ SameThread(j)
    BY <1>1 DEF Quiet, Drops, SameHands, SameHand, SameThreads, SameThread
  <2> QED  BY <2>1, <2>2, SparedHold, Shrinks DEF SameHand, SameThread
<1>2. CASE Refused
  <2>1. PICK g \in Fd, s \in Socket : sock[g] = NULL /\ sock' = [sock EXCEPT ![g] = s]
    BY <1>2 DEF Refused
  <2>2. /\ \A p \in Actors : InHandshake(p)' => InHandshake(p) /\ SameHand(p)
        /\ \A j \in Index : HoldsSocket(j)' => HoldsSocket(j) /\ SameThread(j)
    BY <1>2 DEF Refused, SameHands, SameHand, SameThreads, SameThread
  <2>3. /\ \A p \in Actors : InHandshake(p) => act[p].fd # g
        /\ \A j \in Index : HoldsSocket(j) => thread_array[j].fd # g
    BY <2>1 DEF Owned, HandsHold, ThreadsHold, Holds, IsSocket
  <2> QED  BY <2>1, <2>2, <2>3, OthersSpared, Shrinks DEF SameHand, SameThread
<1> QED  BY <1>1, <1>2

LEMMA OwnOpens ==
  ASSUME TypeInv, OwnInv, Owned, NEW p \in Actors, Opens(p)
  PROVE  Owned'
<1>1. PICK g \in Fd, a \in Addrs :
        /\ sock[g] = NULL /\ sock' = [sock EXCEPT ![g] = NewSocket(a)]
        /\ act'[p].pc \in HoldingPcs /\ act'[p].fd = g /\ act'[p].addr = a
  BY DEF Opens
<1>2. /\ \A q \in Actors \ {p} : SameHand(q)
      /\ \A j \in Index : SameThread(j)
  BY DEF Opens, SameHands, SameThreads
<1>3. /\ \A q \in Actors : InHandshake(q) => act[q].fd # g
      /\ \A j \in Index : HoldsSocket(j) => thread_array[j].fd # g
  BY <1>1 DEF Owned, HandsHold, ThreadsHold, Holds, IsSocket
<1>4. Holds(g, a)'
  <2>1. NewSocket(a) \in Socket /\ NewSocket(a).addr = a
    BY NewSocketTyped DEF NewSocket
  <2>2. NewSocket(a) \notin {NULL, Stdin}
    BY <2>1, NullAssumption
  <2> QED  BY <1>1, <2>1, <2>2 DEF Holds, IsSocket, TypeInv, SockInv
<1>5. /\ \A q \in Actors \ {p} : InHandshake(q) => Holds(act[q].fd, act[q].addr)'
      /\ \A j \in Index : HoldsSocket(j) => Holds(thread_array[j].fd, thread_array[j].addr)'
  <2> DEFINE s == NewSocket(a)
  <2>1. sock' = [sock EXCEPT ![g] = s]
    BY <1>1
  <2> HIDE DEF s
  <2>2. /\ \A q \in Actors : InHandshake(q) /\ SameHand(q) /\ act[q].fd # g
                              => Holds(act[q].fd, act[q].addr)'
        /\ \A j \in Index : HoldsSocket(j) /\ SameThread(j) /\ thread_array[j].fd # g
                             => Holds(thread_array[j].fd, thread_array[j].addr)'
    BY <2>1, OthersSpared
  <2> QED  BY <1>2, <1>3, <2>2
<1>6. HandsHold'
  <2>1. ASSUME NEW q \in Actors, InHandshake(q)'
        PROVE  Holds(act[q].fd, act[q].addr)'
    <3>1. CASE q = p
      BY <1>1, <1>4, <3>1 DEF Holds, IsSocket
    <3>2. CASE q # p
      BY <1>2, <1>5, <2>1, <3>2 DEF SameHand
    <3> QED  BY <3>1, <3>2
  <2> QED  BY <2>1 DEF HandsHold
<1>7. HandsApart'
  BY <1>1, <1>2, <1>3 DEF HandsApart, Owned, SameHand
<1>8. HandThread'
  <2>1. ASSUME NEW q \in Actors, NEW j \in Index, InHandshake(q)', HoldsSocket(j)'
        PROVE  act'[q].fd # thread_array'[j].fd
    BY <1>1, <1>2, <1>3, <2>1 DEF HandThread, Owned, SameHand, SameThread
  <2> QED  BY <2>1 DEF HandThread
<1>9. ThreadsHold' /\ ThreadsApart'
  BY <1>2, <1>5 DEF ThreadsHold, ThreadsApart, Owned, SameThread
<1> QED  BY <1>6, <1>7, <1>8, <1>9 DEF Owned

LEMMA OwnCloses ==
  ASSUME TypeInv, OwnInv, Owned, sock'[0] = Stdin, NEW p \in Actors, Closes(p)
  PROVE  Owned'
<1> DEFINE g == act[p].fd
<1>0. sock' = [sock EXCEPT ![g] = NULL] /\ act[p].pc \in HoldingPcs /\ g \in Fd
  BY DEF Closes, Closed, TypeInv, ActInv, FieldsTyped
<1>1. InHandshake(p)
  <2>1. g # 0
    BY <1>0, NullAssumption DEF TypeInv, SockInv
  <2> QED  BY <1>0, <2>1 DEF InHandshake, HoldingPcs
<1>2. /\ \A q \in Actors : InHandshake(q)' => q # p /\ InHandshake(q) /\ SameHand(q)
      /\ \A j \in Index : HoldsSocket(j)' => HoldsSocket(j) /\ SameThread(j)
  BY DEF Closes, SameHands, SameHand, SameThreads, SameThread
<1>3. /\ \A q \in Actors : q # p /\ InHandshake(q) => act[q].fd # g
      /\ \A j \in Index : HoldsSocket(j) => thread_array[j].fd # g
  BY <1>1 DEF Owned, HandsApart, HandThread
<1> HIDE DEF g
<1> QED  BY <1>0, <1>2, <1>3, OthersSpared, Shrinks DEF SameHand, SameThread

LEMMA OwnEnds ==
  ASSUME TypeInv, OwnInv, Owned, NEW j \in Index, Ends(j)
  PROVE  Owned'
<1> DEFINE g == thread_array[j].fd
<1>0. sock' = [sock EXCEPT ![g] = NULL] /\ HoldsSocket(j)
  BY DEF Ends, Closed
<1>2. /\ \A q \in Actors : InHandshake(q)' => InHandshake(q) /\ SameHand(q)
      /\ \A k \in Index : HoldsSocket(k)' => k # j /\ HoldsSocket(k) /\ SameThread(k)
  BY DEF Ends, SameHands, SameHand, SameThreads, SameThread
<1>3. /\ \A q \in Actors : InHandshake(q) => act[q].fd # g
      /\ \A k \in Index : k # j /\ HoldsSocket(k) => thread_array[k].fd # g
  BY <1>0 DEF Owned, ThreadsApart, HandThread
<1> HIDE DEF g
<1> QED  BY <1>0, <1>2, <1>3, OthersSpared, Shrinks DEF SameHand, SameThread

\* The thread that is created takes over from the one that creates it.
LEMMA OwnHandsOver ==
  ASSUME TypeInv, OwnInv, Owned, ZeroInv, sock[0] = Stdin, NEW p \in Actors, HandsOver(p)
  PROVE  Owned'
<1>1. PICK j \in Index :
        /\ ~HoldsSocket(j)
        /\ thread_array'[j].pc = "recv" /\ thread_array'[j].fd = act[p].fd
        /\ thread_array'[j].addr = act[p].addr
        /\ \A k \in Index \ {j} : SameThread(k)
  BY DEF HandsOver, SameThreads
<1>2. InHandshake(p) /\ UNCHANGED sock
  BY DEF HandsOver, ZeroInv, Established, InHandshake
<1>3. \A q \in Actors : InHandshake(q)' => q # p /\ InHandshake(q) /\ SameHand(q)
  BY DEF HandsOver, SameHands, SameHand
<1>4. \A f \in Fd, a \in Addrs \cup {NULL} : Holds(f, a) => Holds(f, a)'
  BY <1>2 DEF Holds, IsSocket
<1>5. HandsHold' /\ HandsApart'
  BY <1>3, <1>4, SparedHold DEF Owned, HandsHold, HandsApart, SameHand
<1>6. HandThread'
  <2>1. ASSUME NEW q \in Actors, NEW k \in Index, InHandshake(q)', HoldsSocket(k)'
        PROVE  act'[q].fd # thread_array'[k].fd
    <3>1. CASE k = j
      BY <1>1, <1>2, <1>3, <2>1, <3>1 DEF Owned, HandsApart, SameHand
    <3>2. CASE k # j
      BY <1>1, <1>3, <2>1, <3>2 DEF Owned, HandThread, SameHand, SameThread
    <3> QED  BY <3>1, <3>2
  <2> QED  BY <2>1 DEF HandThread
<1>7. ThreadsHold'
  <2>1. ASSUME NEW k \in Index, HoldsSocket(k)'
        PROVE  Holds(thread_array[k].fd, thread_array[k].addr)'
    <3>1. CASE k = j
      BY <1>1, <1>2, <3>1 DEF Owned, HandsHold, Holds, IsSocket
    <3>2. CASE k # j
      BY <1>1, <1>4, <2>1, <3>2, SparedHold DEF SameThread
    <3> QED  BY <3>1, <3>2
  <2> QED  BY <2>1 DEF ThreadsHold
<1>8. ThreadsApart'
  <2>1. ASSUME NEW i \in Index, NEW k \in Index, i # k, HoldsSocket(i)', HoldsSocket(k)'
        PROVE  thread_array'[i].fd # thread_array'[k].fd
    <3>1. CASE i # j /\ k # j
      BY <1>1, <2>1, <3>1 DEF Owned, ThreadsApart, SameThread
    <3>2. CASE i = j \/ k = j
      BY <1>1, <1>2, <2>1, <3>2 DEF Owned, HandThread, SameThread
    <3> QED  BY <3>1, <3>2
  <2> QED  BY <2>1 DEF ThreadsApart
<1> QED  BY <1>5, <1>6, <1>7, <1>8 DEF Owned

LEMMA OwnInit == Init => OwnInv
<1> SUFFICES ASSUME Init PROVE OwnInv
  OBVIOUS
<1>1. \A p \in Actors : ~InHandshake(p)
  BY DEF Init, InHandshake, Idle
<1>2. \A j \in Index : ~HoldsSocket(j)
  BY DEF Init, HoldsSocket, NoThread
<1> QED
  BY <1>1, <1>2 DEF OwnInv, ThreadFds, Owned, HandsHold, HandsApart, HandThread,
                    ThreadsHold, ThreadsApart

LEMMA OwnNext ==
  ASSUME TypeInv, SlotInv, UniqInv, ZeroInv, OwnInv, [Next]_vars
  PROVE  OwnInv'
<1>1. SocketStep
  BY EveryStep
<1>2. ThreadFds'
  BY <1>1, ThreadFdsNext DEF OwnInv
<1>3. ASSUME sock'[0] = Stdin
      PROVE  Owned'
  <2>1. sock[0] = Stdin /\ Owned
    BY <1>1, <1>3, StdinStays DEF OwnInv
  <2> QED
    BY <1>1, <1>3, <2>1, OwnKeeps, OwnOpens, OwnCloses, OwnEnds, OwnHandsOver DEF SocketStep
<1> QED  BY <1>2, <1>3 DEF OwnInv

SafeInv == TypeInv /\ SlotInv /\ UniqInv /\ ZeroInv /\ OwnInv

LEMMA SafeAlways == Spec => []SafeInv
<1>1. Init => SafeInv
  BY TypeInit, SlotInit, UniqInit, ZeroInit, OwnInit DEF SafeInv
<1>2. SafeInv /\ [Next]_vars => SafeInv'
  BY TypeNext, SlotNext, UniqNext, ZeroNext, OwnNext DEF SafeInv
<1> QED  BY <1>1, <1>2, PTL DEF Spec

\* No thread reads from, closes or hands over the socket of another one.
THEOREM DescriptorsOwned == Spec => []DescriptorOwnership
<1>1. SafeInv => DescriptorOwnership
  BY OwnedIs DEF SafeInv, OwnInv
<1> QED  BY <1>1, SafeAlways, PTL

-----------------------------------------------------------------------------
(* SocketsHeld. A socket is lost when a CONNECT is refused, when the first  *)
(* packet of a peer that connects is not an ACK, or when no thread could be *)
(* created (Refused and Drops); no other step of the code loses one.        *)

NoLeaks ==
  "REFUSE" \notin RemoteActs /\ "BADHELLO" \notin RemoteActs /\ "pthread_create" \notin Faults

\* A peer that greets as it should: nothing before the ACK.
Greeted(s) == IF s.inbox = <<>> THEN s.remote # "open" ELSE Head(s.inbox) = "ACK"

Greets == act["listener"].pc \in {"send_acp", "recv_ack"} /\ act["listener"].fd # 0

HelloInv == sock[0] = Stdin /\ Greets => Greeted(sock[act["listener"].fd])

LEMMA SentGreeted ==
  ASSUME NEW s \in Socket, NEW m, Greeted(s) PROVE Greeted(Sent(s, m))
BY DEF Greeted, Sent, Socket

LEMMA SendGreets ==
  ASSUME TypeInv, NEW g, NEW m, SendTo(g, m), NEW f \in Fd, IsSocket(f), Greeted(sock[f])
  PROVE  Greeted(sock'[f])
<1>1. sock[f] \in Socket
  BY SocketTyped DEF TypeInv
<1>2. sock'[f] \in {sock[f], Sent(sock[f], m)}
  BY DEF SendTo, TypeInv, SockInv
<1> QED  BY <1>1, <1>2, SentGreeted

LEMMA HeadKept ==
  ASSUME NEW q \in Seq(Packets), NEW m \in Packets
  PROVE  /\ Append(q, m) # <<>>
         /\ Head(Append(q, m)) = IF q = <<>> THEN m ELSE Head(q)
<1>1. Append(q, m) # <<>>
  BY AppendProperties
<1>2. Head(Append(q, m)) = Append(q, m)[1]
  OBVIOUS
<1>3. CASE q = <<>>
  BY <1>1, <1>2, <1>3
<1>4. CASE q # <<>>
  <2>1. Len(q) \in Nat /\ Len(q) # 0
    BY <1>4
  <2>2. 1 \in 1 .. Len(q)
    BY <2>1
  <2>3. Append(q, m)[1] = q[1]
    BY <2>2
  <2> QED  BY <1>1, <1>2, <1>4, <2>3
<1> QED  BY <1>3, <1>4

LEMMA RemoteGreets ==
  ASSUME TypeInv, "BADHELLO" \notin RemoteActs, NEW g \in Fd, RemoteStep(g),
         NEW f \in Fd, IsSocket(f), sock[f].addr \in InAddrs, Greeted(sock[f])
  PROVE  Greeted(sock'[f])
<1>0. sock \in [Fd -> Socket \cup {NULL, Stdin}] /\ sock[f] \in Socket
  BY SocketTyped DEF TypeInv, SockInv
<1>1. CASE g # f
  BY <1>0, <1>1 DEF RemoteStep, RemoteHello, RemoteSend, RemoteClose, RemoteReset
<1>2. CASE g = f
  <2>1. ASSUME NEW m \in Packets, RemoteHello(f, m) PROVE Greeted(sock'[f])
    <3>0. m = "ACK"
      BY <2>1, AddrAssumption DEF RemoteHello, Greeting
    <3>1. m = "ACK" /\ (sock[f].inbox = <<>> \/ Head(sock[f].inbox) = "ACK")
      BY <3>0 DEF Greeted
    <3>2. sock'[f].inbox = Append(sock[f].inbox, m)
      BY <1>0, <2>1 DEF RemoteHello
    <3>3. sock[f].inbox \in Seq(Packets)
      BY <1>0 DEF Socket
    <3>4. sock'[f].inbox # <<>> /\ Head(sock'[f].inbox) = "ACK"
      BY <3>1, <3>2, <3>3, HeadKept
    <3> QED  BY <3>4 DEF Greeted
  <2>2. ASSUME NEW m \in Packets, RemoteSend(f, m) PROVE Greeted(sock'[f])
    <3>1. Head(sock[f].inbox) = "ACK" /\ sock[f].inbox # <<>>
      BY <2>2 DEF RemoteSend, Greeted
    <3>2. sock'[f].inbox = Append(sock[f].inbox, m)
      BY <1>0, <2>2 DEF RemoteSend, Socket
    <3>3. sock[f].inbox \in Seq(Packets)
      BY <1>0 DEF Socket
    <3>4. sock'[f].inbox # <<>> /\ Head(sock'[f].inbox) = "ACK"
      BY <3>1, <3>2, <3>3, HeadKept
    <3> QED  BY <3>4 DEF Greeted
  <2>3. ASSUME RemoteClose(f) \/ RemoteReset(f) PROVE Greeted(sock'[f])
    <3>1. sock'[f].inbox = sock[f].inbox /\ sock'[f].remote \in {"closed", "reset"}
      BY <1>0, <2>3 DEF RemoteClose, RemoteReset, Socket
    <3> QED  BY <3>1 DEF Greeted
  <2> QED  BY <1>2, <2>1, <2>2, <2>3 DEF RemoteStep
<1> QED  BY <1>1, <1>2

\* The command thread and the listener each move only themselves.
LEMMA MainAlone ==
  ASSUME TypeInv, Command \/ MainStep PROVE act'["listener"] = act["listener"]
<1> USE ActorsAre DEF Goto
<1>1. \/ \E pc, a, i, h : Do("main", pc, a, h, i)
      \/ Done("main")
  <2>1. CASE Command
    BY <2>1 DEF Command, Connect, Disconnect, Fetch, Lookup, PeersLock
  <2>2. CASE ActorStep("main")
    BY <2>2 DEF ActorStep, AddToArray, ArrayFull, AddOutOfMemory, AssignSlot, NoFreeThread, CreateThread
  <2>3. CASE MainStep /\ ~ActorStep("main")
    BY <2>3 DEF MainStep, OpenConnection, RefusedConnection, NoDescriptor, RecvAcp,
         FetchRejected, GetFd, ReadFd, SendReq, GetThreadId, ReadThreadId, SendDsn, JoinLock,
         JoinReturns, PeersPing, PeersUnlock
  <2> QED  BY <2>1, <2>2, <2>3
<1> QED  BY <1>1, DoSteps, DoneSteps

\* No other thread takes a packet from the socket that the listener greets on.
LEMMA MainGreets ==
  ASSUME TypeInv, ZeroInv, OwnInv, HelloInv, sock[0] = Stdin, Greets,
         Command \/ MainStep
  PROVE  act'["listener"] = act["listener"] /\ Greeted(sock'[act["listener"].fd])
<1> USE ActorsAre DEF At, Goto, locks, arrays
<1> DEFINE f == act["listener"].fd
           g == act["main"].fd
<1>0. f \in Fd /\ f # 0 /\ IsSocket(f) /\ Greeted(sock[f])
  <2>1. InHandshake("listener")
    BY DEF Greets, InHandshake
  <2> QED  BY <2>1, HandFd DEF Greets, HelloInv, OwnInv, Owned, HandsHold, Holds
<1>1. act["main"].pc \in Established => g # f
  BY DEF OwnInv, Owned, HandsApart, InHandshake, Greets, ZeroInv, Established
<1>2. sock \in [Fd -> Socket \cup {NULL, Stdin}]
  BY DEF TypeInv, SockInv
<1>3. act'["listener"] = act["listener"]
  BY MainAlone
<1>4. CASE Command
  <2>1. UNCHANGED sock
    BY <1>4 DEF Command, Connect, Disconnect, Fetch, Lookup, PeersLock
  <2> QED  BY <1>0, <1>3, <2>1
<1>5. CASE ActorStep("main")
  <2>1. UNCHANGED sock \/ (sock' = Closed(g) /\ act["main"].pc \in Established)
    BY <1>5 DEF ActorStep, AddToArray, ArrayFull, AddOutOfMemory, AssignSlot, NoFreeThread,
                CreateThread, Established
  <2>2. sock'[f] = sock[f]
    BY <1>0, <1>1, <1>2, <2>1 DEF Closed
  <2> QED  BY <1>0, <1>3, <2>2
<1>6. CASE MainStep /\ ~ActorStep("main")
  <2>1. ASSUME NEW h \in Fd, OpenConnection(h) \/ RefusedConnection(h)
        PROVE  Greeted(sock'[f])
    <3>1. h # f
      BY <1>0, <2>1 DEF OpenConnection, RefusedConnection, IsSocket
    <3> QED  BY <1>0, <1>2, <2>1, <3>1 DEF OpenConnection, RefusedConnection
  <2>2. ASSUME RecvAcp
        PROVE  Greeted(sock'[f])
    <3>1. g # f
      BY <1>1, <2>2 DEF RecvAcp, Established
    <3> QED  BY <1>0, <1>2, <2>2, <3>1 DEF RecvAcp, Closed
  <2>3. ASSUME SendReq \/ SendDsn \/ PeersPing
        PROVE  Greeted(sock'[f])
    <3>1. UNCHANGED sock \/ \E h, m : SendTo(h, m)
      BY <2>3 DEF SendReq, SendDsn, PeersPing
    <3> QED  BY <1>0, <3>1, SendGreets
  <2>4. ASSUME UNCHANGED sock
        PROVE  Greeted(sock'[f])
    BY <1>0, <2>4
  <2>5. ASSUME NEW from, NEW read, NEW next, GetFd(from, read, next) \/ ReadFd(read, next)
        PROVE  UNCHANGED sock
    BY <2>5 DEF GetFd, ReadFd
  <2>6. ASSUME NoDescriptor \/ FetchRejected \/ GetThreadId \/ ReadThreadId
               \/ (\E j \in Index : JoinLock(j)) \/ JoinReturns \/ PeersUnlock
        PROVE  UNCHANGED sock
    BY <2>6 DEF NoDescriptor, FetchRejected, GetThreadId, ReadThreadId, JoinLock, JoinReturns,
                PeersUnlock
  <2>7. \/ \E h \in Fd : OpenConnection(h) \/ RefusedConnection(h)
        \/ RecvAcp \/ SendReq \/ SendDsn \/ PeersPing \/ UNCHANGED sock
    BY <1>6, <2>5, <2>6 DEF MainStep
  <2> QED  BY <1>3, <2>1, <2>2, <2>3, <2>4, <2>7
<1> QED  BY <1>3, <1>4, <1>5, <1>6

LEMMA HandlerGreets ==
  ASSUME TypeInv, OwnInv, HelloInv, sock[0] = Stdin, Greets, NEW j \in Index, HandlerStep(j)
  PROVE  act' = act /\ Greeted(sock'[act["listener"].fd])
<1> DEFINE f == act["listener"].fd
           g == thread_array[j].fd
<1>0. /\ f \in Fd /\ Greeted(sock[f])
      /\ HoldsSocket(j) => g # f
  <2>1. InHandshake("listener")
    BY DEF Greets, InHandshake
  <2> QED  BY <2>1, HandFd, ActorsAre DEF Greets, HelloInv, OwnInv, Owned, HandThread
<1>1. \/ UNCHANGED sock
      \/ /\ HoldsSocket(j)
         /\ \E s : sock' = [sock EXCEPT ![g] = s]
  <2>1. CASE HandlerPacket(j)
    BY <2>1 DEF HandlerPacket, HoldsSocket
  <2>2. CASE HandlerClose(j)
    BY <2>2 DEF HandlerClose, HoldsSocket, Closed
  <2>3. CASE HandlerRemove(j) \/ HandlerRelease(j)
    BY <2>3 DEF HandlerRemove, HandlerRelease
  <2>4. ASSUME NEW locked \in BOOLEAN, HandlerEnd(j, locked) PROVE UNCHANGED sock
    BY <2>4 DEF HandlerEnd
  <2> QED  BY <2>1, <2>2, <2>3, <2>4 DEF HandlerStep
<1>2. act' = act
  BY DEF HandlerStep, HandlerPacket, HandlerEnd, HandlerRemove, HandlerClose, HandlerRelease
<1>3. sock'[f] = sock[f]
  BY <1>0, <1>1 DEF TypeInv, SockInv
<1> QED  BY <1>0, <1>2, <1>3

LEMMA ListenerGreets ==
  ASSUME TypeInv, OwnInv, HelloInv, sock[0] = Stdin, Arrive \/ ListenerStep, Greets'
  PROVE  Greeted(sock'[act'["listener"].fd])
<1> USE ActorsAre DEF At, Goto
<1> DEFINE p == "listener"
           f == act[p].fd
<1>0. sock \in [Fd -> Socket \cup {NULL, Stdin}]
  BY DEF TypeInv, SockInv
<1>1. ASSUME NEW a \in InAddrs, NEW g \in Fd, Accept(a, g)
      PROVE  Greeted(sock'[act'[p].fd])
  <2>1. act'[p].fd = g /\ sock'[g] = NewSocket(a)
    BY <1>0, <1>1, DoSteps DEF Accept
  <2> QED  BY <2>1 DEF Greeted, NewSocket
<1>2. ASSUME NEW a \in InAddrs, AcceptFails(a)
      PROVE  FALSE
  BY <1>2, DoSteps DEF AcceptFails, Greets
<1>3. CASE SendAcp
  <2>1. CASE /\ SendOk(f) /\ sock' = [sock EXCEPT ![f] = Sent(@, "ACP")]
             /\ Goto(p, "recv_ack")
    <3>1. act'[p].fd = f
      BY <2>1, DoSteps
    <3>2. Greets /\ f \in Fd /\ IsSocket(f)
      BY <1>3, <2>1, <3>1 DEF SendAcp, Greets, SendOk, TypeInv, ActInv, FieldsTyped, HoldingPcs
    <3>3. Greeted(sock[f]) /\ sock[f] \in Socket /\ sock'[f] = Sent(sock[f], "ACP")
      BY <1>0, <2>1, <3>2, SocketTyped DEF HelloInv, TypeInv
    <3> QED  BY <3>1, <3>3, SentGreeted
  <2>2. CASE Do(p, "recv_ack", act[p].addr, 0, NULL)
    BY <2>2, DoSteps DEF Greets
  <2> QED  BY <1>3, <2>1, <2>2 DEF SendAcp
<1>4. CASE RecvAck \/ ActorStep(p)
  BY <1>4, DoSteps, DoneSteps
     DEF RecvAck, ActorStep, AddToArray, ArrayFull, AddOutOfMemory, AssignSlot, NoFreeThread,
         CreateThread, Greets
<1> QED  BY <1>1, <1>2, <1>3, <1>4 DEF Arrive, ListenerStep

LEMMA HelloInit == Init => HelloInv
BY ActorsAre DEF Init, HelloInv, Greets, Idle

LEMMA HelloNext ==
  ASSUME "BADHELLO" \notin RemoteActs,
         TypeInv, SlotInv, ZeroInv, OwnInv, UniqInv, HelloInv, [Next]_vars
  PROVE  HelloInv'
<1> SUFFICES ASSUME sock'[0] = Stdin, Greets'
             PROVE  Greeted(sock'[act'["listener"].fd])
  BY DEF HelloInv, Greeted
<1>0. sock[0] = Stdin
  BY EveryStep, StdinStays
<1>1. CASE Arrive \/ ListenerStep
  BY <1>0, <1>1, ListenerGreets
<1>2. CASE Greets /\ (Command \/ MainStep)
  BY <1>0, <1>2, MainGreets
<1>3. CASE Greets /\ \E j \in Index : HandlerStep(j)
  BY <1>0, <1>3, HandlerGreets
<1>4. CASE Greets /\ \E g \in Fd : RemoteStep(g)
  <2>1. act' = act
    BY <1>4 DEF RemoteStep, RemoteHello, RemoteSend, RemoteClose, RemoteReset
  <2>2. InHandshake("listener") /\ act["listener"].addr \in InAddrs
    BY <1>4 DEF Greets, InHandshake, UniqInv, Accepting
  <2>3. act["listener"].fd \in Fd /\ Holds(act["listener"].fd, act["listener"].addr)
    BY <1>0, <2>2, HandFd, ActorsAre DEF OwnInv, Owned, HandsHold
  <2>4. Greeted(sock[act["listener"].fd])
    BY <1>0, <1>4 DEF HelloInv
  <2> QED  BY <1>4, <2>1, <2>2, <2>3, <2>4, RemoteGreets DEF Holds
<1>5. CASE Greets /\ UNCHANGED <<sock, act>>
  BY <1>0, <1>5 DEF HelloInv
<1>6. CASE Ending \/ UNCHANGED vars
  <2>1. UNCHANGED <<sock, act>>
    BY <1>6, EndingFrame DEF vars, arrays
  <2>2. Greets
    BY <2>1 DEF Greets
  <2> QED  BY <1>5, <2>1, <2>2
<1>7. Arrive \/ ListenerStep \/ Greets
  <2>1. CASE act'["listener"] = act["listener"]
    BY <2>1 DEF Greets
  <2>2. CASE act'["listener"] # act["listener"]
    <3>1. CASE Command \/ MainStep
      BY <2>2, <3>1, MainAlone
    <3>2. CASE (\E j \in Index : HandlerStep(j)) \/ (\E f \in Fd : RemoteStep(f)) \/ Ending \/ UNCHANGED vars
      BY <2>2, <3>2, EndingFrame
         DEF HandlerStep, HandlerPacket, HandlerEnd, HandlerRemove, HandlerClose, HandlerRelease,
             RemoteStep, RemoteHello, RemoteSend, RemoteClose, RemoteReset, vars
    <3> QED  BY <3>1, <3>2 DEF Next, Running, ThreadStep
  <2> QED  BY <2>1, <2>2
<1> QED  BY <1>1, <1>2, <1>3, <1>4, <1>6, <1>7 DEF Next, Running, ThreadStep

\* Who holds a socket, in one operator.
Held(f) == \/ \E p \in Actors : InHandshake(p) /\ act[p].fd = f
           \/ \E j \in Index : HoldsSocket(j) /\ thread_array[j].fd = f

LEMMA HeldIs == SocketsHeld <=> (sock[0] = Stdin => \A f \in Fd : IsSocket(f) => Held(f))
BY DEF SocketsHeld, Held

\* A holder that a step leaves alone goes on holding its socket.
LEMMA StillHeld ==
  ASSUME NEW f, NEW P, NEW J,
         \/ \E p \in Actors \ P : InHandshake(p) /\ act[p].fd = f
         \/ \E j \in Index \ J : HoldsSocket(j) /\ thread_array[j].fd = f,
         SameHands(P), SameThreads(J)
  PROVE  Held(f)'
BY DEF SameHands, SameHand, SameThreads, SameThread, Held

LEMMA NoDrops ==
  ASSUME NoLeaks, TypeInv, HelloInv, sock[0] = Stdin, NEW p \in Actors
  PROVE  ~Drops(p) /\ ~Refused
<1>1. ASSUME Drops(p) PROVE FALSE
  <2>1. /\ act["listener"].pc = "recv_ack" /\ Waiting(act["listener"].fd)
        /\ Head(sock[act["listener"].fd].inbox) # "ACK"
    BY <1>1 DEF Drops, NoLeaks, At
  <2>2. act["listener"].fd # 0
    BY <2>1 DEF Waiting, IsSocket
  <2> QED  BY <2>1, <2>2 DEF HelloInv, Greets, Greeted, Waiting
<1> QED  BY <1>1 DEF Refused, NoLeaks

LEMMA HeldNext ==
  ASSUME NoLeaks, SafeInv, HelloInv, SocketsHeld, [Next]_vars
  PROVE  SocketsHeld'
<1> USE DEF SafeInv
<1> SUFFICES ASSUME sock'[0] = Stdin, NEW f \in Fd, sock'[f] \notin {NULL, Stdin}
             PROVE  Held(f)'
  BY HeldIs DEF IsSocket, SocketsHeld, Held
<1>0. SocketStep /\ sock[0] = Stdin
  BY EveryStep, StdinStays
<1>1. IsSocket(f) => Held(f)
  BY <1>0, HeldIs
<1>2. sock \in [Fd -> Socket \cup {NULL, Stdin}]
  BY DEF TypeInv, SockInv
<1>3. CASE Quiet
  <2>1. IsSocket(f)
    BY <1>2, <1>3 DEF Quiet, Keeps, IsSocket
  <2> QED  BY <1>1, <1>3, <2>1, StillHeld DEF Quiet, Held
<1>4. ASSUME NEW p \in Actors, Opens(p) PROVE Held(f)'
  <2>1. PICK g \in Fd, a \in Addrs :
          /\ sock[g] = NULL /\ sock' = [sock EXCEPT ![g] = NewSocket(a)]
          /\ act'[p].pc \in HoldingPcs /\ act'[p].fd = g
    BY <1>4 DEF Opens
  <2>2. CASE f = g
    <3>1. g # 0
      BY <1>0, <2>1, NullAssumption
    <3>2. InHandshake(p)' /\ act'[p].fd = f
      BY <2>1, <2>2, <3>1 DEF InHandshake, HoldingPcs
    <3> QED  BY <3>2 DEF Held
  <2>3. CASE f # g
    <3>1. Held(f)
      BY <1>1, <1>2, <2>1, <2>3 DEF IsSocket
    <3>2. /\ SameHands({p}) /\ SameThreads({}) /\ ~InHandshake(p)
      BY <1>4 DEF Opens
    <3> QED  BY <3>1, <3>2, StillHeld DEF Held
  <2> QED  BY <2>2, <2>3
<1>5. ASSUME NEW p \in Actors, Closes(p) PROVE Held(f)'
  <2>1. f # act[p].fd /\ IsSocket(f)
    BY <1>2, <1>5 DEF Closes, Closed, IsSocket
  <2>2. SameHands({p}) /\ SameThreads({})
    BY <1>5 DEF Closes
  <2> QED  BY <1>1, <2>1, <2>2, StillHeld DEF Held
<1>6. ASSUME NEW j \in Index, Ends(j) PROVE Held(f)'
  <2>1. f # thread_array[j].fd /\ IsSocket(f)
    BY <1>2, <1>6 DEF Ends, Closed, IsSocket
  <2>2. SameHands({}) /\ SameThreads({j})
    BY <1>6 DEF Ends
  <2> QED  BY <1>1, <2>1, <2>2, StillHeld DEF Held
<1>7. ASSUME NEW p \in Actors, HandsOver(p) PROVE Held(f)'
  <2>1. IsSocket(f)
    BY <1>7 DEF HandsOver, IsSocket
  <2>2. PICK j \in Index : /\ ~HoldsSocket(j) /\ SameThreads({j})
                           /\ thread_array'[j].pc = "recv" /\ thread_array'[j].fd = act[p].fd
    BY <1>7 DEF HandsOver
  <2>3. CASE f = act[p].fd
    BY <2>2, <2>3 DEF Held, HoldsSocket
  <2>4. CASE f # act[p].fd
    <3>1. SameHands({p})
      BY <1>7 DEF HandsOver
    <3> QED  BY <1>1, <2>1, <2>2, <2>4, <3>1, StillHeld DEF Held
  <2> QED  BY <2>3, <2>4
<1> QED  BY <1>0, <1>3, <1>4, <1>5, <1>6, <1>7, NoDrops, ActorsAre DEF SocketStep

\* No descriptor is lost, whatever else goes wrong: malloc, accept, resets,
\* full arrays, peers that hang up half way through a handshake.
THEOREM SocketsAreHeld == ASSUME NoLeaks PROVE Spec => []SocketsHeld
<1> DEFINE I == HelloInv /\ SocketsHeld
<1>1. Init => I
  <2>1. Init => SocketsHeld
    BY DEF Init, SocketsHeld, IsSocket
  <2> QED  BY <2>1, HelloInit
<1>2. SafeInv /\ I /\ [Next]_vars => I'
  BY HelloNext, HeldNext DEF SafeInv, NoLeaks
<1>3. I => SocketsHeld
  OBVIOUS
<1> HIDE DEF I
<1> QED  BY <1>1, <1>2, <1>3, SafeAlways, PTL DEF Spec

-----------------------------------------------------------------------------
(* What a step may do to the entries and to the threads that serve. Only    *)
(* pthread_create and its set_thread_id start a service, only a handler     *)
(* takes an entry out.                                                      *)

IsServing(k) == thread_array[k].pc \in Serving

NoNewService ==
  \A k \in Index : IsServing(k)' =>
    /\ IsServing(k) /\ thread_array'[k].addr = thread_array[k].addr
    /\ thread_array'[k].fd = thread_array[k].fd

EntriesStay ==
  \A i \in Index : peer_array[i] # NULL => peer_array'[i] = peer_array[i]

TableStep ==
  \/ EntriesStay /\ NoNewService
  \/ \E p \in Actors : CreateThread(p)
  \/ \E j \in Index : HandlerRemove(j)

LEMMA CalmTable ==
  ASSUME UNCHANGED peer_array, UNCHANGED thread_array PROVE TableStep
BY DEF TableStep, EntriesStay, NoNewService, IsServing

LEMMA MainTable ==
  ASSUME TypeInv, Command \/ MainStep, ~ActorStep("main") PROVE TableStep
<1> USE DEF arrays
<1>1. CASE JoinReturns
  BY <1>1 DEF JoinReturns, Joinable, Gone, NoThread, Serving, TypeInv, ThreadInv,
              TableStep, EntriesStay, NoNewService, IsServing
<1>2. CASE Command
  BY <1>2, CalmTable DEF Command, Connect, Disconnect, Fetch, Lookup, PeersLock
<1>3. CASE MainStep /\ ~JoinReturns
  <2>1. ASSUME NEW from, NEW read, NEW next, GetFd(from, read, next) \/ ReadFd(read, next)
        PROVE  UNCHANGED <<peer_array, thread_array>>
    BY <2>1 DEF GetFd, ReadFd
  <2>2. ASSUME NEW f \in Fd, OpenConnection(f) \/ RefusedConnection(f)
        PROVE  UNCHANGED <<peer_array, thread_array>>
    BY <2>2 DEF OpenConnection, RefusedConnection
  <2>3. ASSUME NoDescriptor \/ RecvAcp \/ FetchRejected \/ SendReq \/ GetThreadId
               \/ ReadThreadId \/ SendDsn \/ PeersPing \/ PeersUnlock
               \/ \E j \in Index : JoinLock(j)
        PROVE  UNCHANGED <<peer_array, thread_array>>
    BY <2>3 DEF NoDescriptor, RecvAcp, FetchRejected, SendReq, GetThreadId, ReadThreadId, SendDsn,
                PeersPing, PeersUnlock, JoinLock
  <2> QED  BY <1>3, <2>1, <2>2, <2>3, CalmTable DEF MainStep
<1> QED  BY <1>1, <1>2, <1>3

LEMMA ActorTable ==
  ASSUME TypeInv, NEW p \in Actors, ActorStep(p) PROVE TableStep
<1>1. CASE AddToArray(p)
  <2>1. EntriesStay
    BY <1>1 DEF AddToArray, EntriesStay, First, FreeEntries, TypeInv, PeerInv
  <2>2. NoNewService
    BY <1>1 DEF AddToArray, NoNewService, IsServing
  <2> QED  BY <2>1, <2>2 DEF TableStep
<1>2. CASE ArrayFull(p) \/ AddOutOfMemory(p) \/ NoFreeThread(p) \/ \E j \in Index : AssignSlot(p, j)
  BY <1>2, CalmTable DEF ArrayFull, AddOutOfMemory, NoFreeThread, AssignSlot, arrays
<1>3. CASE CreateThread(p)
  BY <1>3 DEF TableStep
<1> QED  BY <1>1, <1>2, <1>3 DEF ActorStep

LEMMA HandlerTable ==
  ASSUME TypeInv, NEW j \in Index, HandlerStep(j) PROVE TableStep
<1>0. thread_array \in [Index -> Thread]
  BY DEF TypeInv, ThreadInv
<1>1. CASE HandlerRemove(j)
  BY <1>1 DEF TableStep
<1>2. ASSUME NEW locked \in BOOLEAN, HandlerPacket(j) \/ HandlerEnd(j, locked)
      PROVE  TableStep
  <2>1. /\ UNCHANGED peer_array /\ IsServing(j)
        /\ UNCHANGED thread_array \/ \E b : Leave(j, b)
    BY <1>2 DEF HandlerPacket, HandlerEnd, IsServing, Serving
  <2>2. NoNewService
    BY <1>0, <2>1 DEF Leave, NoNewService, IsServing
  <2> QED  BY <2>1, <2>2 DEF TableStep, EntriesStay
<1>3. CASE HandlerClose(j) \/ HandlerRelease(j)
  <2>1. NoNewService /\ UNCHANGED peer_array
    BY <1>0, <1>3 DEF HandlerClose, HandlerRelease, NoThread, NoNewService, IsServing, Serving
  <2> QED  BY <2>1 DEF TableStep, EntriesStay
<1> QED  BY <1>1, <1>2, <1>3 DEF HandlerStep

LEMMA EveryTableStep == ASSUME TypeInv, [Next]_vars PROVE TableStep
<1> USE DEF arrays
<1>1. CASE Command \/ MainStep
  BY <1>1, MainTable, ActorTable, ActorsAre
<1>2. CASE Arrive \/ ListenerStep
  BY <1>2, CalmTable, ActorTable, ActorsAre DEF Arrive, Accept, AcceptFails, ListenerStep, SendAcp, RecvAck
<1>3. CASE \E j \in Index : HandlerStep(j)
  BY <1>3, HandlerTable
<1>4. CASE \E f \in Fd : RemoteStep(f)
  BY <1>4, CalmTable DEF RemoteStep, RemoteHello, RemoteSend, RemoteClose, RemoteReset
<1>5. CASE Ending \/ UNCHANGED vars
  BY <1>5, CalmTable, EndingFrame DEF vars
<1> QED  BY <1>1, <1>2, <1>3, <1>4, <1>5 DEF Next, Running, ThreadStep

\* How main and the listener come to the end of the making of a connection,
\* and how main comes to wait for a thread.
Making == {"assign", "create"}
Leaving == {"send_dsn", "join", "joining"}

ActStep(p) ==
  \/ act'[p] = act[p] \/ AddToArray(p)
  \/ /\ act[p].pc = "assign" /\ act'[p].pc = "create"
     /\ act'[p].addr = act[p].addr /\ act'[p].fd = act[p].fd
  \/ act'[p].pc \notin Making \cup Leaving \cup {"read_tid"}
  \/ p = "main" /\ (GetThreadId \/ ReadThreadId)
  \/ /\ p = "main" /\ act[p].pc \in Leaving /\ act'[p].pc \in Leaving
     /\ act'[p].addr = act[p].addr
     /\ act'[p].idx = act[p].idx \/ act[p].idx = NULL

LEMMA EveryActStep == ASSUME TypeInv, [Next]_vars PROVE \A p \in Actors : ActStep(p)
<1> USE ActorsAre DEF At, Goto
<1>1. ASSUME NEW p \in Actors, NEW pc, NEW a, NEW f, NEW i, Do(p, pc, a, f, i),
             pc \notin Making \cup Leaving \cup {"read_tid"}
      PROVE  \A q \in Actors : ActStep(q)
  BY <1>1, DoSteps DEF ActStep
<1>2. ASSUME NEW p \in Actors, Done(p)
      PROVE  \A q \in Actors : ActStep(q)
  BY <1>2, DoneSteps DEF ActStep, Making, Leaving
<1>3. ASSUME UNCHANGED act
      PROVE  \A q \in Actors : ActStep(q)
  BY <1>3 DEF ActStep
<1>4. ASSUME NEW p \in Actors, ActorStep(p)
      PROVE  \A q \in Actors : ActStep(q)
  <2>1. CASE AddToArray(p)
    <3>1. \A q \in Actors : q # p => act'[q] = act[q]
      BY <2>1, DoSteps DEF AddToArray
    <3> QED  BY <2>1, <3>1 DEF ActStep
  <2>2. CASE ArrayFull(p) \/ AddOutOfMemory(p) \/ NoFreeThread(p) \/ CreateThread(p)
    BY <1>2, <2>2 DEF ArrayFull, AddOutOfMemory, NoFreeThread, CreateThread
  <2>3. ASSUME NEW j \in Index, AssignSlot(p, j)
        PROVE  \A q \in Actors : ActStep(q)
    BY <2>3, DoSteps DEF AssignSlot, ActStep
  <2> QED  BY <1>4, <2>1, <2>2, <2>3 DEF ActorStep
<1>5. CASE Command
  <2>1. \E pc, a, f, i : /\ pc \in {"connect", "get_fd", "fetch_fd", "pinging"}
                         /\ Do("main", pc, a, f, i)
    BY <1>5 DEF Command, Connect, Disconnect, Fetch, Lookup, PeersLock
  <2> QED  BY <1>1, <2>1 DEF Making, Leaving
<1>6. CASE MainStep /\ ~ActorStep("main")
  <2>1. ASSUME \/ (\E f \in Fd : RefusedConnection(f)) \/ NoDescriptor \/ FetchRejected
               \/ SendReq \/ JoinReturns \/ PeersUnlock
        PROVE  Done("main")
    BY <2>1 DEF RefusedConnection, NoDescriptor, FetchRejected, SendReq, JoinReturns, PeersUnlock
  <2>2. ASSUME \/ (\E f \in Fd : OpenConnection(f)) \/ RecvAcp \/ PeersPing
        PROVE  \/ Done("main")
               \/ \E pc, a, f, i : /\ pc \in {"recv_acp", "add", "pinging"}
                                   /\ Do("main", pc, a, f, i)
    BY <2>2 DEF OpenConnection, RecvAcp, PeersPing
  <2>3. ASSUME NEW from, NEW read \in {"fetch_read_fd", "read_fd"},
               NEW next \in {"send_req", "get_tid"},
               GetFd(from, read, next) \/ ReadFd(read, next)
        PROVE  \E pc, a, f, i : /\ pc \in {"fetch_read_fd", "read_fd", "send_req", "get_tid"}
                                /\ Do("main", pc, a, f, i)
    BY <2>3 DEF GetFd, ReadFd
  <2>4. CASE GetThreadId \/ ReadThreadId
    <3>1. act'["listener"] = act["listener"]
      BY <1>6, MainAlone
    <3> QED  BY <2>4, <3>1 DEF ActStep
  <2>5. CASE SendDsn
    <3>1. Do("main", "join", act["main"].addr, NULL, act["main"].idx) /\ act["main"].pc = "send_dsn"
      BY <2>5 DEF SendDsn
    <3> QED  BY <3>1, DoSteps DEF ActStep, Leaving
  <2>6. ASSUME NEW j \in Index, JoinLock(j)
        PROVE  \A q \in Actors : ActStep(q)
    <3>1. /\ Do("main", "joining", act["main"].addr, NULL, j) /\ act["main"].pc = "join"
          /\ act["main"].idx \in {j, NULL}
      BY <2>6 DEF JoinLock
    <3> QED  BY <3>1, DoSteps DEF ActStep, Leaving
  <2>7. \A pc : pc \in {"recv_acp", "add", "pinging", "fetch_read_fd", "read_fd", "send_req", "get_tid"}
               => pc \notin Making \cup Leaving \cup {"read_tid"}
    BY DEF Making, Leaving
  <2>8. \/ GetThreadId \/ ReadThreadId \/ SendDsn \/ (\E j \in Index : JoinLock(j))
        \/ Done("main")
        \/ \E pc, a, f, i : /\ pc \in {"recv_acp", "add", "pinging", "fetch_read_fd", "read_fd",
                                         "send_req", "get_tid"}
                            /\ Do("main", pc, a, f, i)
    <3>1. CASE \/ (\E f \in Fd : RefusedConnection(f)) \/ NoDescriptor \/ FetchRejected
               \/ SendReq \/ JoinReturns \/ PeersUnlock
      BY <2>1, <3>1
    <3>2. CASE (\E f \in Fd : OpenConnection(f)) \/ RecvAcp \/ PeersPing
      BY <2>2, <3>2
    <3>3. CASE \/ GetFd("fetch_fd", "fetch_read_fd", "send_req")
               \/ GetFd("get_fd", "read_fd", "get_tid")
               \/ ReadFd("fetch_read_fd", "send_req") \/ ReadFd("read_fd", "get_tid")
      <4>1. \E pc, a, f, i : /\ pc \in {"fetch_read_fd", "read_fd", "send_req", "get_tid"}
                             /\ Do("main", pc, a, f, i)
        BY <2>3, <3>3
      <4> QED  BY <4>1
    <3> QED  BY <1>6, <3>1, <3>2, <3>3 DEF MainStep
  <2> QED  BY <1>1, <1>2, <2>4, <2>5, <2>6, <2>7, <2>8
<1>7. CASE Arrive \/ SendAcp \/ RecvAck
  <2>1. \/ Done("listener")
        \/ \E pc, a, f, i : pc \in {"send_acp", "recv_ack", "add"} /\ Do("listener", pc, a, f, i)
    BY <1>7 DEF Arrive, Accept, AcceptFails, SendAcp, RecvAck
  <2> QED  BY <1>1, <1>2, <2>1 DEF Making, Leaving
<1>8. CASE \E j \in Index : HandlerStep(j)
  BY <1>3, <1>8 DEF HandlerStep, HandlerPacket, HandlerEnd, HandlerRemove, HandlerClose, HandlerRelease
<1>9. CASE \E f \in Fd : RemoteStep(f)
  BY <1>3, <1>9 DEF RemoteStep, RemoteHello, RemoteSend, RemoteClose, RemoteReset
<1>10. CASE Ending \/ UNCHANGED vars
  BY <1>3, <1>10, EndingFrame DEF vars
<1> QED
  BY <1>4, <1>5, <1>6, <1>7, <1>8, <1>9, <1>10 DEF Next, Running, ThreadStep, ListenerStep

-----------------------------------------------------------------------------
(* DISCONNECT. An entry of a listening peer that has a thread in service    *)
(* carries the number of that thread, from pthread_create to the moment the *)
(* thread takes the entry out, so the number that the command thread reads  *)
(* is the right one or there is nobody to wait for.                         *)

ServesPeer(k, a) == IsServing(k) /\ thread_array[k].addr = a /\ a \in OutAddrs
Numbered(i, a, k) ==
  peer_array[i] # NULL /\ peer_array[i].addr = a /\ peer_array[i].tid = k

Origins ==
  /\ act["main"].pc \in Making => act["main"].addr \in OutAddrs
  /\ act["listener"].pc \in Making => act["listener"].addr \in InAddrs
ServedNumbered ==
  \A k \in Index, a \in Addrs :
    ServesPeer(k, a) => \E i \in Index : Numbered(i, a, k)
NotYetServed ==
  act["main"].pc \in Making =>
    InArray(act["main"].addr) /\ \A k \in Index : ~ServesPeer(k, act["main"].addr)
Found ==
  act["main"].pc = "read_tid" =>
    \A k \in Index : ServesPeer(k, act["main"].addr)
                      => Numbered(act["main"].idx, act["main"].addr, k)
Awaited ==
  act["main"].pc \in Leaving =>
    \A k \in Index : ServesPeer(k, act["main"].addr) => act["main"].idx = k

ServeInv == Origins /\ ServedNumbered /\ NotYetServed /\ Found /\ Awaited

LEMMA ServeInit == Init => ServeInv
<1> SUFFICES ASSUME Init PROVE ServeInv
  OBVIOUS
<1>1. \A k \in Index : ~IsServing(k)
  BY DEF Init, IsServing, Serving, NoThread
<1>2. act["main"].pc = "idle" /\ act["listener"].pc = "idle"
  BY ActorsAre DEF Init, Idle
<1> QED
  BY <1>1, <1>2 DEF ServeInv, Origins, ServedNumbered, NotYetServed, Found, Awaited,
     ServesPeer, Making, Leaving

\* main adds an entry only for a peer nobody serves.
LEMMA NobodyServes ==
  ASSUME UniqInv, ServeInv, act["main"].pc \in Opening, act["main"].addr \in Addrs, NEW k \in Index
  PROVE  ~ServesPeer(k, act["main"].addr)
BY DEF UniqInv, ServeInv, ServedNumbered, Numbered, InArray, Matches

\* Two threads never serve the same listening peer.
LEMMA OneServer ==
  ASSUME UniqInv, ServeInv, NEW a \in Addrs, NEW j \in Index, NEW k \in Index,
         ServesPeer(j, a), ServesPeer(k, a)
  PROVE  j = k
BY DEF UniqInv, UniqueOutgoing, ServeInv, ServedNumbered, Numbered, ServesPeer

\* The parts of ServeInv after a step that starts no service of a peer.
LEMMA OriginsNext ==
  ASSUME UniqInv, ServeInv, \A p \in Actors : ActStep(p), TypeInv
  PROVE  Origins'
<1> USE ActorsAre
<1>1. ASSUME AddToArray("main") PROVE act'["main"].addr \in OutAddrs
  BY <1>1, DoSteps DEF AddToArray, At, Goto, UniqInv, Opening
<1>2. ASSUME AddToArray("listener") PROVE act'["listener"].addr \in InAddrs
  BY <1>2, DoSteps DEF AddToArray, At, Goto, UniqInv, Accepting
<1>3. ASSUME GetThreadId \/ ReadThreadId PROVE act'["main"].pc \notin Making
  BY <1>3, DoSteps DEF GetThreadId, ReadThreadId, Making
<1> QED  BY <1>1, <1>2, <1>3 DEF ActStep, ServeInv, Origins, Making, Leaving

\* Which steps can make a thread serve a listening peer, or number an entry.
PeersServed == \A k \in Index, a \in Addrs : ServesPeer(k, a)' => ServesPeer(k, a)
NumbersStay ==
  \A i \in Index, a \in Addrs, k \in Index :
    ServesPeer(k, a)' /\ Numbered(i, a, k) => Numbered(i, a, k)'
ListStays ==
  \A a \in OutAddrs :
    InArray(a) /\ (\A k \in Index : ~ServesPeer(k, a)) => InArray(a)'
ServiceStays == PeersServed /\ NumbersStay /\ ListStays

\* A thread of the listener serves a peer that connected.
LEMMA CreateListener ==
  ASSUME TypeInv, ServeInv, CreateThread("listener")
  PROVE  ServiceStays
<1> DEFINE p == "listener"
           j == act[p].idx
<1>1. act[p].addr \in InAddrs /\ act[p].addr \notin OutAddrs
  BY AddrAssumption DEF ServeInv, Origins, Making, CreateThread, At
<1>2. \/ UNCHANGED thread_array
      \/ thread_array' = [thread_array EXCEPT ![j] =
           [pc |-> "recv", addr |-> act[p].addr, fd |-> act[p].fd, locked |-> FALSE]]
  BY DEF CreateThread
<1>3. PeersServed
  BY <1>1, <1>2 DEF PeersServed, ServesPeer, IsServing, TypeInv, ThreadInv
<1>4. peer_array' = WithThreadId(act[p].addr, j)
  BY DEF CreateThread
<1>5. \A i \in Index : peer_array[i] # NULL /\ peer_array[i].addr # act[p].addr
                       => peer_array'[i] = peer_array[i]
  BY <1>4 DEF WithThreadId, First, Matches
<1> HIDE DEF j
<1>6. NumbersStay
  BY <1>1, <1>5 DEF NumbersStay, Numbered, ServesPeer
<1>7. ListStays
  BY <1>1, <1>5 DEF ListStays, InArray, Matches
<1> QED  BY <1>3, <1>6, <1>7 DEF ServiceStays

LEMMA RemoveServes ==
  ASSUME TypeInv, UniqInv, ServeInv, NEW j \in Index, HandlerRemove(j)
  PROVE  ServiceStays
<1> DEFINE b == thread_array[j].addr
<1>1. thread_array' = [thread_array EXCEPT ![j].pc = "close"] /\ thread_array[j].pc = "remove"
  BY DEF HandlerRemove
<1>2. PeersServed
  BY <1>1 DEF PeersServed, ServesPeer, IsServing, Serving, TypeInv, ThreadInv, Thread
<1>3. \A i \in Index : peer_array[i] # NULL /\ peer_array[i].addr # b => peer_array'[i] = peer_array[i]
  BY DEF HandlerRemove, Removed, First, Matches
<1>4. NumbersStay
  <2> SUFFICES ASSUME NEW i \in Index, NEW a \in Addrs, NEW k \in Index,
                      ServesPeer(k, a)', Numbered(i, a, k)
               PROVE  Numbered(i, a, k)'
    BY DEF NumbersStay
  <2>1. k # j /\ ServesPeer(k, a)
    BY <1>1, <1>2 DEF PeersServed, ServesPeer, IsServing, Serving, TypeInv, ThreadInv, Thread
  <2>2. a # b
    BY <1>1, <2>1, OneServer DEF ServesPeer, IsServing, Serving
  <2> QED  BY <1>3, <2>2 DEF Numbered
<1>5. ListStays
  BY <1>1, <1>3 DEF ListStays, InArray, Matches, ServesPeer, IsServing, Serving
<1> QED  BY <1>2, <1>4, <1>5 DEF ServiceStays

LEMMA CalmServes ==
  ASSUME EntriesStay, NoNewService
  PROVE  ServiceStays
<1>1. PeersServed /\ NumbersStay
  BY DEF EntriesStay, NoNewService, PeersServed, NumbersStay, ServesPeer, Numbered, IsServing
<1>2. ListStays
  BY DEF EntriesStay, ListStays, InArray, Matches
<1> QED  BY <1>1, <1>2 DEF ServiceStays

\* A step of that kind, whatever main and the listener do in it.
LEMMA ServeStays ==
  ASSUME TypeInv, UniqInv, ServeInv, ServiceStays, \A p \in Actors : ActStep(p)
  PROVE  ServeInv'
<1> USE ActorsAre DEF ServiceStays
<1> DEFINE a == act["main"].addr
<1>1. Origins'
  BY OriginsNext
<1>2. ServedNumbered'
  BY DEF ServeInv, ServedNumbered, PeersServed, NumbersStay
<1>3. ActStep("main")
  OBVIOUS
<1>4. act["main"].pc \notin {"idle", "pinging"} => a \in Addrs
  BY DEF TypeInv, ActInv, FieldsTyped
<1>5. NotYetServed'
  <2>1. ASSUME act["main"].pc \in Making, act'["main"].addr = a
        PROVE  NotYetServed'
    <3>1. a \in OutAddrs /\ InArray(a) /\ \A k \in Index : ~ServesPeer(k, a)
      BY <2>1 DEF ServeInv, Origins, NotYetServed
    <3>2. a \in Addrs
      BY <3>1 DEF Addrs
    <3> QED  BY <2>1, <3>1, <3>2 DEF NotYetServed, PeersServed, ListStays, InArray, Matches, ServesPeer
  <2>2. ASSUME AddToArray("main")
        PROVE  NotYetServed'
    <3>1. act["main"].pc = "add" /\ act'["main"].addr = a
      BY <2>2, DoSteps DEF AddToArray, At, Goto
    <3>2. \A k \in Index : ~ServesPeer(k, a)
      BY <1>4, <3>1, NobodyServes DEF Opening
    <3>3. \A k \in Index : ~ServesPeer(k, act["main"].addr)'
      BY <1>4, <3>1, <3>2 DEF PeersServed, ServesPeer
    <3>4. InArray(act["main"].addr)'
      <4>1. PICK i \in Index : peer_array' = [peer_array EXCEPT
                 ![i] = [addr |-> a, fd |-> act["main"].fd, tid |-> NULL]]
        BY <2>2 DEF AddToArray, First, FreeEntries
      <4>2. [addr |-> a, fd |-> act["main"].fd, tid |-> NULL] \in Peer
        BY <1>4, <3>1 DEF Peer, TypeInv, ActInv, FieldsTyped, HoldingPcs
      <4>3. peer_array'[i] # NULL /\ peer_array'[i].addr = a
        BY <4>1, <4>2, NullAssumption DEF TypeInv, PeerInv
      <4> QED  BY <3>1, <4>3 DEF InArray, Matches
    <3> QED  BY <3>3, <3>4 DEF NotYetServed
  <2>3. ASSUME act'["main"].pc \notin Making
        PROVE  NotYetServed'
    BY <2>3 DEF NotYetServed
  <2>4. ASSUME GetThreadId \/ ReadThreadId
        PROVE  act'["main"].pc \notin Making
    BY <2>4, DoSteps DEF GetThreadId, ReadThreadId, Making
  <2>5. CASE act["main"].pc \notin Making /\ act'["main"] = act["main"]
    BY <2>3, <2>5
  <2>6. ASSUME act["main"].pc \in Making, act'["main"] = act["main"]
        PROVE  NotYetServed'
    BY <2>1, <2>6
  <2>7. ASSUME act["main"].pc = "assign", act'["main"].addr = a
        PROVE  NotYetServed'
    BY <2>1, <2>7 DEF Making
  <2>8. ASSUME act'["main"].pc \in Leaving
        PROVE  NotYetServed'
    BY <2>3, <2>8 DEF Leaving, Making
  <2> QED  BY <1>3, <2>2, <2>3, <2>4, <2>5, <2>6, <2>7, <2>8 DEF ActStep
<1>6. Found'
  <2>1. ASSUME act'["main"] = act["main"]
        PROVE  Found'
    <3> SUFFICES ASSUME act["main"].pc = "read_tid", NEW k \in Index, ServesPeer(k, a)'
                 PROVE  Numbered(act["main"].idx, a, k)'
      BY <2>1 DEF Found, ServesPeer, Numbered
    <3>1. a \in Addrs /\ act["main"].idx \in Index
      BY <1>4 DEF TypeInv, ActInv, FieldsTyped, IndexPcs
    <3>2. ServesPeer(k, a)
      BY <2>1, <3>1 DEF PeersServed, ServesPeer
    <3>3. Numbered(act["main"].idx, a, k)
      BY <3>2 DEF ServeInv, Found
    <3> QED  BY <2>1, <3>1, <3>3 DEF NumbersStay, ServesPeer, Numbered
  <2>2. ASSUME GetThreadId, act'["main"].pc = "read_tid"
        PROVE  Found'
    <3>1. PICK i \in First(Matches(a)) : Do("main", "read_tid", a, act["main"].fd, i)
      BY <2>2, DoSteps DEF GetThreadId
    <3>2. /\ act'["main"].addr = a /\ act'["main"].idx = i /\ act["main"].pc = "get_tid"
          /\ UNCHANGED <<peer_array, thread_array>>
      BY <2>2, <3>1, DoSteps DEF GetThreadId, At, arrays
    <3>3. ASSUME NEW k \in Index, ServesPeer(k, a)
          PROVE  Numbered(i, a, k)
      <4>1. PICK h \in Index : Numbered(h, a, k)
        BY <1>4, <3>2, <3>3 DEF ServeInv, ServedNumbered
      <4>2. i \in Index /\ peer_array[i] # NULL /\ peer_array[i].addr = a
        BY <3>1 DEF First, Matches
      <4>3. h = i
        BY <3>3, <4>1, <4>2 DEF UniqInv, UniqueOutgoing, Numbered, ServesPeer
      <4> QED  BY <4>1, <4>3
    <3> QED  BY <3>2, <3>3 DEF Found, ServesPeer, IsServing, Numbered
  <2>3. ASSUME act'["main"].pc # "read_tid"
        PROVE  Found'
    BY <2>3 DEF Found
  <2>4. ASSUME AddToArray("main") \/ ReadThreadId
        PROVE  act'["main"].pc # "read_tid"
    BY <2>4, DoSteps DEF AddToArray, ReadThreadId, Goto
  <2> QED  BY <1>3, <2>1, <2>2, <2>3, <2>4 DEF ActStep, Leaving
<1>7. Awaited'
  <2>1. ASSUME act["main"].pc \in Leaving, act'["main"].addr = a,
               act'["main"].idx = act["main"].idx \/ act["main"].idx = NULL
        PROVE  Awaited'
    <3> SUFFICES ASSUME NEW k \in Index, ServesPeer(k, act["main"].addr)'
                 PROVE  act'["main"].idx = k
      BY DEF Awaited
    <3>1. ServesPeer(k, a)
      BY <1>4, <2>1 DEF PeersServed, ServesPeer, Leaving
    <3>2. act["main"].idx = k
      BY <2>1, <3>1 DEF ServeInv, Awaited
    <3>3. k # NULL
      BY NullAssumption, SizeAssumption DEF Index
    <3> QED  BY <2>1, <3>2, <3>3
  <2>2. ASSUME ReadThreadId
        PROVE  Awaited'
    <3>1. /\ act'["main"].addr = a /\ act'["main"].idx = peer_array[act["main"].idx].tid
          /\ act["main"].pc = "read_tid" /\ UNCHANGED thread_array
      BY <2>2, DoSteps DEF ReadThreadId, At, arrays
    <3> QED  BY <3>1 DEF Awaited, ServeInv, Found, Numbered, ServesPeer, IsServing
  <2>3. ASSUME GetThreadId, act'["main"].pc \in Leaving
        PROVE  Awaited'
    <3>1. /\ ~InArray(a) /\ act'["main"].addr = a /\ UNCHANGED thread_array
          /\ act["main"].pc = "get_tid"
      BY <2>3, DoSteps DEF GetThreadId, At, arrays, Leaving
    <3>2. \A k \in Index : ~ServesPeer(k, a)
      BY <1>4, <3>1 DEF ServeInv, ServedNumbered, Numbered, InArray, Matches
    <3> QED  BY <3>1, <3>2 DEF Awaited, ServesPeer, IsServing
  <2>4. ASSUME act'["main"].pc \notin Leaving
        PROVE  Awaited'
    BY <2>4 DEF Awaited
  <2>5. ASSUME AddToArray("main")
        PROVE  act'["main"].pc \notin Leaving
    BY <2>5, DoSteps DEF AddToArray, Goto, Leaving
  <2>6. ASSUME act'["main"] = act["main"]
        PROVE  Awaited'
    BY <2>1, <2>4, <2>6
  <2> QED  BY <1>3, <2>1, <2>2, <2>3, <2>4, <2>5, <2>6 DEF ActStep, Leaving
<1> QED  BY <1>1, <1>2, <1>5, <1>6, <1>7 DEF ServeInv

\* CONNECT starts the service of a peer nobody serves, and numbers its entry.
LEMMA ServeCreate ==
  ASSUME TypeInv, UniqInv, ServeInv, CreateThread("main"), \A p \in Actors : ActStep(p)
  PROVE  ServeInv'
<1> USE ActorsAre
<1> DEFINE a == act["main"].addr
           j == act["main"].idx
<1>1. /\ act["main"].pc = "create" /\ act'["main"].pc = "idle"
      /\ j \in Index /\ a \in OutAddrs
      /\ InArray(a) /\ \A k \in Index : ~ServesPeer(k, a)
  BY DoneSteps DEF CreateThread, At, TypeInv, ActInv, FieldsTyped, IndexPcs, ServeInv, Origins,
                   NotYetServed, Making
<1>2. NotYetServed' /\ Found' /\ Awaited'
  BY <1>1 DEF NotYetServed, Found, Awaited, Making, Leaving
<1>3. Origins'
  BY OriginsNext
<1>4. PICK n \in Index : peer_array[n] # NULL /\ peer_array[n].addr = a
  BY <1>1 DEF InArray, Matches
<1>5. First(Matches(a)) = {n}
  <2>1. Matches(a) = {n}
    BY <1>1, <1>4 DEF Matches, UniqInv, UniqueOutgoing
  <2> QED  BY <2>1, SizeAssumption DEF First, Index
<1>6. peer_array' = [i \in Index |-> IF i = n THEN [peer_array[i] EXCEPT !.tid = j] ELSE peer_array[i]]
  BY <1>5 DEF CreateThread, WithThreadId
<1>7. peer_array'[n] # NULL /\ peer_array'[n].addr = a /\ peer_array'[n].tid = j
  <2>1. peer_array[n] \in Peer
    BY <1>4 DEF TypeInv, PeerInv
  <2>2. peer_array'[n] = [peer_array[n] EXCEPT !.tid = j]
    BY <1>6
  <2>3. peer_array'[n] \in Peer /\ peer_array'[n].addr = a /\ peer_array'[n].tid = j
    BY <1>1, <1>4, <2>1, <2>2 DEF Peer
  <2> QED  BY <2>3, NullAssumption
<1>8. ServedNumbered'
  <2> SUFFICES ASSUME NEW k \in Index, NEW b \in Addrs, ServesPeer(k, b)'
               PROVE  \E i \in Index : Numbered(i, b, k)'
    BY DEF ServedNumbered
  <2>1. \/ UNCHANGED thread_array
        \/ thread_array' = [thread_array EXCEPT ![j] =
             [pc |-> "recv", addr |-> a, fd |-> act["main"].fd, locked |-> FALSE]]
    BY DEF CreateThread
  <2>2. ServesPeer(k, b) \/ (k = j /\ b = a)
    BY <2>1 DEF ServesPeer, IsServing, TypeInv, ThreadInv
  <2>3. CASE ServesPeer(k, b)
    <3>1. PICK i \in Index : Numbered(i, b, k)
      BY <2>3 DEF ServeInv, ServedNumbered
    <3>2. i # n
      BY <1>1, <1>4, <2>3, <3>1 DEF Numbered
    <3> QED  BY <1>6, <3>1, <3>2 DEF Numbered
  <2>4. CASE k = j /\ b = a
    BY <1>7, <2>4 DEF Numbered
  <2> QED  BY <2>2, <2>3, <2>4
<1> QED  BY <1>2, <1>3, <1>8 DEF ServeInv

LEMMA ServeNext ==
  ASSUME TypeInv, UniqInv, ServeInv, [Next]_vars
  PROVE  ServeInv'
<1>1. \A p \in Actors : ActStep(p)
  BY EveryActStep
<1>2. CASE CreateThread("main")
  BY <1>1, <1>2, ServeCreate
<1>3. CASE ~CreateThread("main")
  <2>1. ServiceStays
    BY <1>3, EveryTableStep, CalmServes, CreateListener, RemoveServes, ActorsAre DEF TableStep
  <2> QED  BY <1>1, <2>1, ServeStays
<1> QED  BY <1>2, <1>3

\* main comes back from DISCONNECT only by pthread_join.
LEMMA JoiningEnds ==
  ASSUME TypeInv, [Next]_vars, At("main", "joining"), At("main", "idle")'
  PROVE  JoinReturns
<1> USE ActorsAre DEF At
<1>1. act' # act
  BY DEF At
<1>2. CASE Command \/ MainStep
  <2>1. ~Command
    BY DEF Command, Connect, Disconnect, Fetch, Lookup, PeersLock, Typed
  <2>2. ~ActorStep("main")
    BY DEF ActorStep, AddToArray, ArrayFull, AddOutOfMemory, AssignSlot, NoFreeThread, CreateThread
  <2>3. ASSUME NEW from \in {"fetch_fd", "get_fd"}, NEW read \in {"fetch_read_fd", "read_fd"},
               NEW next, GetFd(from, read, next) \/ ReadFd(read, next)
        PROVE  FALSE
    BY <2>3 DEF GetFd, ReadFd
  <2>4. ASSUME NEW f \in Fd, OpenConnection(f) \/ RefusedConnection(f)
        PROVE  FALSE
    BY <2>4 DEF OpenConnection, RefusedConnection
  <2>5. ASSUME NoDescriptor \/ RecvAcp \/ FetchRejected \/ SendReq \/ GetThreadId
               \/ ReadThreadId \/ SendDsn \/ PeersPing \/ PeersUnlock
               \/ \E j \in Index : JoinLock(j)
        PROVE  FALSE
    BY <2>5 DEF NoDescriptor, RecvAcp, FetchRejected, SendReq, GetThreadId, ReadThreadId, SendDsn,
                PeersPing, PeersUnlock, JoinLock
  <2> QED  BY <1>2, <2>1, <2>2, <2>3, <2>4, <2>5 DEF MainStep
<1>3. CASE Arrive \/ ListenerStep
  <2>1. act'["main"] = act["main"]
    BY <1>3, DoSteps, DoneSteps DEF Arrive, Accept, AcceptFails, ListenerStep, SendAcp, RecvAck,
       ActorStep, AddToArray, ArrayFull, AddOutOfMemory, AssignSlot, NoFreeThread, CreateThread, Goto
  <2> QED  BY <2>1
<1>4. CASE \E j \in Index : HandlerStep(j)
  BY <1>1, <1>4 DEF HandlerStep, HandlerPacket, HandlerEnd, HandlerRemove, HandlerClose, HandlerRelease
<1>5. CASE \E f \in Fd : RemoteStep(f)
  BY <1>1, <1>5 DEF RemoteStep, RemoteHello, RemoteSend, RemoteClose, RemoteReset
<1>6. CASE Ending \/ UNCHANGED vars
  BY <1>1, <1>6, EndingFrame DEF vars
<1> QED  BY <1>2, <1>3, <1>4, <1>5, <1>6 DEF Next, Running, ThreadStep

\* What DISCONNECT waits for has ended, and was all that served the peer.
LEMMA ServiceEnds ==
  ASSUME TypeInv, UniqInv, ServeInv, [Next]_vars,
         At("main", "joining"), At("main", "idle")', act["main"].addr \in OutAddrs,
         NEW j \in Index, thread_array'[j].pc = "recv",
         thread_array'[j].addr = act["main"].addr
  PROVE  FALSE
<1> DEFINE i == act["main"].idx
           a == act["main"].addr
<1>1. /\ thread_array[i].pc \in Gone
      /\ thread_array' = [thread_array EXCEPT
           ![i] = IF @.pc = "exited" THEN NoThread("none") ELSE @]
  BY JoiningEnds DEF JoinReturns, Joinable
<1>2. thread_array[j].pc = "recv" /\ thread_array[j].addr = a /\ j # i
  BY <1>1 DEF NoThread, Gone, TypeInv, ThreadInv
<1>3. ServesPeer(j, a)
  BY <1>2 DEF ServesPeer, IsServing, Serving
<1> QED  BY <1>2, <1>3 DEF ServeInv, Awaited, Leaving, At

\* After DISCONNECT of a listening peer no thread receives from that peer, even
\* if threads, slots and descriptors changed hands on the way.
THEOREM DisconnectIsFinal == Spec => DisconnectEndsService
<1> DEFINE I == TypeInv /\ UniqInv /\ ServeInv
           A == (At("main", "joining") /\ At("main", "idle")' /\ act["main"].addr \in OutAddrs)
                => \A j \in Index : ~ (thread_array'[j].pc = "recv"
                                        /\ thread_array'[j].addr = act["main"].addr)
<1>1. Init => I
  BY TypeInit, UniqInit, ServeInit
<1>2. I /\ [Next]_vars => I'
  BY TypeNext, UniqNext, ServeNext
<1>3. I /\ [Next]_vars => A
  BY ServiceEnds
<1>4. DisconnectEndsService <=> [][A]_vars
  BY DEF DisconnectEndsService
<1> HIDE DEF I, A
<1> QED  BY <1>1, <1>2, <1>3, <1>4, PTL DEF Spec

-----------------------------------------------------------------------------
(* ServedPeerListed. A handler takes out the first entry of its address. It *)
(* is its own: a listening peer has one entry (UniqueOutgoing), and a peer  *)
(* that connected has one socket, which only one thread holds.              *)

InUnique ==
  \A f, g \in Fd :
    /\ IsSocket(f) /\ IsSocket(g)
    /\ sock[f].addr = sock[g].addr /\ sock[f].addr \in InAddrs
    => f = g

Listed(a, f) ==
  \E i \in Index : peer_array[i] # NULL /\ peer_array[i].addr = a /\ peer_array[i].fd = f

MakersListed == \A p \in Actors : act[p].pc \in Making => Listed(act[p].addr, act[p].fd)
ServersListed ==
  \A j \in Index : IsServing(j) => Listed(thread_array[j].addr, thread_array[j].fd)
ListInv == InUnique /\ (sock[0] = Stdin => MakersListed /\ ServersListed)

LEMMA ListInit == Init => ListInv
<1> SUFFICES ASSUME Init PROVE ListInv
  OBVIOUS
<1>1. \A k \in Index : ~IsServing(k)
  BY DEF Init, IsServing, Serving, NoThread
<1>2. \A p \in Actors : act[p].pc = "idle"
  BY DEF Init, Idle
<1>3. \A f \in Fd : ~IsSocket(f)
  BY DEF Init, IsSocket
<1> QED
  BY <1>1, <1>2, <1>3 DEF ListInv, InUnique, MakersListed, ServersListed, Making

LEMMA InUniqueNext ==
  ASSUME TypeInv, InUnique, SocketStep
  PROVE  InUnique'
<1>0. sock \in [Fd -> Socket \cup {NULL, Stdin}]
  BY DEF TypeInv, SockInv
<1>1. CASE Quiet \/ \E p \in Actors : Drops(p) \/ HandsOver(p)
  <2>1. Keeps
    BY <1>1 DEF Quiet, Drops, HandsOver, Keeps
  <2>2. \A f \in Fd : IsSocket(f)' => IsSocket(f) /\ sock'[f].addr = sock[f].addr
    BY <1>0, <2>1 DEF Keeps, IsSocket
  <2> QED  BY <2>2 DEF InUnique
<1>2. ASSUME NEW g \in Fd, NEW s, sock' = [sock EXCEPT ![g] = s], NewPeer(s.addr)
      PROVE  InUnique'
  BY <1>0, <1>2, AddrAssumption DEF InUnique, IsSocket, NewPeer
<1>3. CASE Refused \/ \E p \in Actors : Opens(p)
  <2>1. PICK g \in Fd : \E s : sock' = [sock EXCEPT ![g] = s] /\ NewPeer(s.addr)
    <3>1. CASE Refused
      BY <3>1 DEF Refused
    <3>2. ASSUME NEW g \in Fd, NEW a \in Addrs, sock' = [sock EXCEPT ![g] = NewSocket(a)], NewPeer(a)
          PROVE  \E h \in Fd : \E s : sock' = [sock EXCEPT ![h] = s] /\ NewPeer(s.addr)
      <4>1. NewSocket(a).addr = a
        BY DEF NewSocket
      <4> QED  BY <3>2, <4>1
    <3> QED  BY <1>3, <3>1, <3>2 DEF Opens
  <2> QED  BY <1>2, <2>1
<1>4. CASE (\E p \in Actors : Closes(p)) \/ \E j \in Index : Ends(j)
  <2>1. PICK g : sock' = [sock EXCEPT ![g] = NULL]
    BY <1>4 DEF Closes, Ends, Closed
  <2>2. \A f \in Fd : IsSocket(f)' => IsSocket(f) /\ sock'[f] = sock[f]
    BY <1>0, <2>1 DEF IsSocket
  <2> QED  BY <2>2 DEF InUnique
<1> QED  BY <1>1, <1>3, <1>4 DEF SocketStep

\* Nobody else works for the peer of a handler that ends.
LEMMA OwnEntry ==
  ASSUME SafeInv, ListInv, sock[0] = Stdin, NEW j \in Index, thread_array[j].pc = "remove"
  PROVE  /\ \A p \in Actors : act[p].pc \in Making => act[p].addr # thread_array[j].addr
         /\ \A k \in Index \ {j} : IsServing(k) => thread_array[k].addr # thread_array[j].addr
<1> USE DEF SafeInv
<1> DEFINE b == thread_array[j].addr
           f == thread_array[j].fd
<1>0. Owned
  BY DEF OwnInv
<1>1. HoldsSocket(j) /\ IsServing(j)
  BY DEF HoldsSocket, IsServing, Serving
<1>2. f \in Fd /\ Holds(f, b) /\ Listed(b, f)
  BY <1>0, <1>1 DEF OwnInv, ThreadFds, Owned, ThreadsHold, ListInv, ServersListed
<1>3. b \in Addrs
  <2>1. sock[f] \in Socket
    BY <1>2, SocketTyped DEF TypeInv, Holds
  <2> QED  BY <1>2, <2>1 DEF Holds, Socket
<1> HIDE DEF b, f
<1>4. ASSUME NEW g \in Fd, Holds(g, b), Listed(b, g), g # f
      PROVE  FALSE
  <2>1. CASE b \in InAddrs
    BY <1>2, <1>4, <2>1 DEF Holds, ListInv, InUnique
  <2>2. CASE b \in OutAddrs
    BY <1>2, <1>4, <2>2 DEF Listed, UniqInv, UniqueOutgoing
  <2> QED  BY <1>3, <2>1, <2>2 DEF Addrs
<1>5. ASSUME NEW p \in Actors, act[p].pc \in Making, act[p].addr = b
      PROVE  FALSE
  <2>1. InHandshake(p)
    BY <1>5 DEF ZeroInv, Established, InHandshake, Making
  <2>2. act[p].fd \in Fd /\ Holds(act[p].fd, b) /\ Listed(b, act[p].fd)
    BY <1>0, <1>5, <2>1, HandFd DEF Owned, HandsHold, ListInv, MakersListed
  <2>3. act[p].fd # f
    BY <1>0, <1>1, <2>1 DEF Owned, HandThread, f
  <2> QED  BY <1>4, <2>2, <2>3
<1>6. ASSUME NEW k \in Index, k # j, IsServing(k), thread_array[k].addr = b
      PROVE  FALSE
  <2>1. HoldsSocket(k)
    BY <1>6 DEF IsServing, Serving, HoldsSocket
  <2>2. thread_array[k].fd \in Fd /\ Holds(thread_array[k].fd, b) /\ Listed(b, thread_array[k].fd)
    BY <1>0, <1>6, <2>1 DEF OwnInv, ThreadFds, Owned, ThreadsHold, ListInv, ServersListed
  <2>3. thread_array[k].fd # f
    BY <1>0, <1>1, <1>6, <2>1 DEF Owned, ThreadsApart, f
  <2> QED  BY <1>4, <2>2, <2>3
<1> QED  BY <1>5, <1>6 DEF b

\* set_thread_id changes the number of an entry and nothing else of it.
LEMMA ListedStays ==
  ASSUME TypeInv, EntriesStay \/ \E p \in Actors : CreateThread(p), NEW a, NEW f, Listed(a, f)
  PROVE  Listed(a, f)'
<1>1. PICK i \in Index : peer_array[i] # NULL /\ peer_array[i].addr = a /\ peer_array[i].fd = f
  BY DEF Listed
<1>2. CASE EntriesStay
  BY <1>1, <1>2 DEF EntriesStay, Listed
<1>3. ASSUME NEW p \in Actors, CreateThread(p) PROVE Listed(a, f)'
  <2> DEFINE e == [peer_array[i] EXCEPT !.tid = act[p].idx]
  <2>1. act[p].idx \in Index
    BY <1>3 DEF CreateThread, At, TypeInv, ActInv, FieldsTyped, IndexPcs
  <2>2. peer_array'[i] \in {peer_array[i], e}
    BY <1>3 DEF CreateThread, WithThreadId
  <2>3. e \in Peer /\ e.addr = a /\ e.fd = f
    BY <1>1, <2>1 DEF TypeInv, PeerInv, Peer
  <2> QED  BY <1>1, <2>2, <2>3, NullAssumption DEF Listed
<1> QED  BY <1>2, <1>3

LEMMA MakersNext ==
  ASSUME TypeInv, MakersListed, \A p \in Actors : ActStep(p),
         EntriesStay \/ \E p \in Actors : CreateThread(p)
  PROVE  MakersListed'
<1> SUFFICES ASSUME NEW p \in Actors, act'[p].pc \in Making
             PROVE  Listed(act[p].addr, act[p].fd)'
  BY DEF MakersListed
<1>1. ASSUME act[p].pc \in Making, act'[p].addr = act[p].addr, act'[p].fd = act[p].fd
      PROVE  Listed(act[p].addr, act[p].fd)'
  <2>1. Listed(act[p].addr, act[p].fd)
    BY <1>1 DEF MakersListed
  <2> QED  BY <1>1, <2>1, ListedStays DEF Listed
<1>2. ASSUME AddToArray(p)
      PROVE  Listed(act[p].addr, act[p].fd)'
  <2>1. act'[p].addr = act[p].addr /\ act'[p].fd = act[p].fd /\ act[p].pc = "add"
    BY <1>2, DoSteps DEF AddToArray, At, Goto
  <2> DEFINE e == [addr |-> act[p].addr, fd |-> act[p].fd, tid |-> NULL]
  <2>2. PICK i \in Index : peer_array' = [peer_array EXCEPT ![i] = e]
    BY <1>2 DEF AddToArray, First, FreeEntries
  <2>3. e \in Peer
    BY <2>1 DEF Peer, TypeInv, ActInv, FieldsTyped, HoldingPcs
  <2>4. peer_array'[i] # NULL /\ peer_array'[i].addr = act[p].addr /\ peer_array'[i].fd = act[p].fd
    BY <2>2, <2>3, NullAssumption DEF TypeInv, PeerInv
  <2> QED  BY <2>1, <2>4 DEF Listed
<1>3. ASSUME GetThreadId \/ ReadThreadId, p = "main"
      PROVE  FALSE
  BY <1>3, DoSteps DEF GetThreadId, ReadThreadId, Making
<1> QED  BY <1>1, <1>2, <1>3 DEF ActStep, Making, Leaving

LEMMA ServersNext ==
  ASSUME TypeInv, MakersListed, ServersListed,
         (EntriesStay /\ NoNewService) \/ \E p \in Actors : CreateThread(p)
  PROVE  ServersListed'
<1> SUFFICES ASSUME NEW j \in Index, IsServing(j)'
             PROVE  Listed(thread_array[j].addr, thread_array[j].fd)'
  BY DEF ServersListed
<1>1. ASSUME IsServing(j), thread_array'[j].addr = thread_array[j].addr,
             thread_array'[j].fd = thread_array[j].fd
      PROVE  Listed(thread_array[j].addr, thread_array[j].fd)'
  <2>1. Listed(thread_array[j].addr, thread_array[j].fd)
    BY <1>1 DEF ServersListed
  <2> QED  BY <1>1, <2>1, ListedStays DEF Listed
<1>2. CASE EntriesStay /\ NoNewService
  BY <1>1, <1>2 DEF NoNewService
<1>3. ASSUME NEW p \in Actors, CreateThread(p)
      PROVE  Listed(thread_array[j].addr, thread_array[j].fd)'
  <2>1. \/ UNCHANGED thread_array
        \/ thread_array' = [thread_array EXCEPT ![act[p].idx] =
             [pc |-> "recv", addr |-> act[p].addr, fd |-> act[p].fd, locked |-> FALSE]]
    BY <1>3 DEF CreateThread
  <2>2. CASE thread_array'[j] = thread_array[j]
    BY <1>1, <2>2 DEF IsServing
  <2>3. CASE thread_array'[j].addr = act[p].addr /\ thread_array'[j].fd = act[p].fd
    <3>1. Listed(act[p].addr, act[p].fd)
      BY <1>3 DEF CreateThread, At, MakersListed, Making
    <3> QED  BY <1>3, <2>3, <3>1, ListedStays DEF Listed
  <2> QED  BY <2>1, <2>2, <2>3 DEF TypeInv, ThreadInv
<1> QED  BY <1>2, <1>3

LEMMA RemoveLists ==
  ASSUME SafeInv, ListInv, sock[0] = Stdin, NEW j \in Index, HandlerRemove(j)
  PROVE  MakersListed' /\ ServersListed'
<1> DEFINE b == thread_array[j].addr
<1>1. /\ thread_array' = [thread_array EXCEPT ![j].pc = "close"] /\ thread_array[j].pc = "remove"
      /\ act' = act
  BY DEF HandlerRemove
<1>2. \A i \in Index : peer_array[i] # NULL /\ peer_array[i].addr # b => peer_array'[i] = peer_array[i]
  BY DEF HandlerRemove, Removed, First, Matches
<1>3. ASSUME NEW a, NEW f, a # b, Listed(a, f) PROVE Listed(a, f)'
  BY <1>2, <1>3 DEF Listed
<1>4. MakersListed /\ ServersListed
  BY DEF ListInv
<1>5. MakersListed'
  <2> SUFFICES ASSUME NEW p \in Actors, act[p].pc \in Making
               PROVE  Listed(act[p].addr, act[p].fd)'
    BY <1>1 DEF MakersListed
  <2>1. Listed(act[p].addr, act[p].fd) /\ act[p].addr # b
    BY <1>1, <1>4, OwnEntry DEF MakersListed
  <2> QED  BY <1>1, <1>3, <2>1 DEF Listed
<1>6. ServersListed'
  <2> SUFFICES ASSUME NEW k \in Index, IsServing(k)'
               PROVE  Listed(thread_array[k].addr, thread_array[k].fd)'
    BY DEF ServersListed
  <2>1. k # j /\ thread_array'[k] = thread_array[k] /\ IsServing(k)
    BY <1>1 DEF IsServing, Serving, SafeInv, TypeInv, ThreadInv, Thread
  <2>2. Listed(thread_array[k].addr, thread_array[k].fd) /\ thread_array[k].addr # b
    BY <1>1, <1>4, <2>1, OwnEntry DEF ServersListed
  <2> QED  BY <1>3, <2>1, <2>2 DEF Listed
<1> QED  BY <1>5, <1>6

LEMMA ListNext ==
  ASSUME SafeInv, ListInv, [Next]_vars
  PROVE  ListInv'
<1> USE DEF SafeInv
<1>1. SocketStep
  BY EveryStep
<1>2. InUnique'
  BY <1>1, InUniqueNext DEF ListInv
<1>3. ASSUME sock'[0] = Stdin
      PROVE  MakersListed' /\ ServersListed'
  <2>1. sock[0] = Stdin /\ MakersListed /\ ServersListed
    BY <1>1, <1>3, StdinStays DEF ListInv
  <2>2. CASE \E j \in Index : HandlerRemove(j)
    BY <2>1, <2>2, RemoveLists
  <2>3. CASE (EntriesStay /\ NoNewService) \/ \E p \in Actors : CreateThread(p)
    <3>1. \A p \in Actors : ActStep(p)
      BY EveryActStep
    <3> QED  BY <2>1, <2>3, <3>1, MakersNext, ServersNext
  <2> QED  BY <2>2, <2>3, EveryTableStep DEF TableStep
<1> QED  BY <1>2, <1>3 DEF ListInv

\* PEERS, DISCONNECT and FETCH find every peer that a handler serves.
THEOREM ServedAreListed == Spec => []ServedPeerListed
<1>1. Init => ListInv
  BY ListInit
<1>2. SafeInv /\ ListInv /\ [Next]_vars => ListInv'
  BY ListNext
<1>3. ListInv => ServedPeerListed
  BY DEF ListInv, ServersListed, ServedPeerListed, IsServing, Listed
<1> QED  BY <1>1, <1>2, <1>3, SafeAlways, PTL DEF Spec
=============================================================================
