----------------------- MODULE ManagedPackagesProofs -----------------------
(***************************************************************************)
(* Proofs about ManagedPackages, for any packages, idents, chunks, heap,   *)
(* number of handler threads and initial capacity.                         *)
(***************************************************************************)
EXTENDS ManagedPackages, FiniteSetTheorems, TLAPS

\* What all three parts of the invariant need of one another: an object in the
\* array is counted once, and a free block is not in the array.
IInv == TypeOK /\ SizeCounts /\ EntriesLive

\* The slots are as many as the capacity, and the occupied ones are finite.
LEMMA SlotsFinite ==
  ASSUME TypeOK
  PROVE  /\ IsFiniteSet(Slots) /\ Cardinality(Slots) = capacity
         /\ IsFiniteSet(Occupied)
<1>1. IsFiniteSet(Slots) /\ Cardinality(Slots) = capacity
  BY FS_Interval DEF TypeOK, Slots
<1>2. Occupied \subseteq Slots
  BY DEF Occupied
<1> QED  BY <1>1, <1>2, FS_Subset

\* A block that is free, or new, is in no entry of the array.
LEMMA FreeNotManaged ==
  ASSUME EntriesLive, NEW b \in Blocks, heap[b] = NULL
  PROVE  b \notin Managed
BY DEF EntriesLive, Managed

\* The invariant holds at the start: the array is empty.
LEMMA InitInv == Init => IInv
<1> SUFFICES ASSUME Init PROVE IInv
  OBVIOUS
<1> USE CapacityAssumption, NullPackageAssumption DEF Init
<1>1. TypeOK
  <2>1. use \in [Threads -> Use]
    BY DEF Use, Unused
  <2>2. capacity \in Nat \ {0} /\ size \in Int
    OBVIOUS
  <2>5. crashed \in BOOLEAN
    OBVIOUS
  <2>3. managed_array \in [Slots -> Blocks \cup {NULL}]
    BY DEF Slots
  <2>4. heap \in [Blocks -> Packages \cup {NULL}]
    OBVIOUS
  <2> QED  BY <2>1, <2>2, <2>3, <2>4, <2>5 DEF TypeOK
<1>2. Occupied = {}
  BY DEF Occupied, Slots
<1>3. SizeCounts
  BY <1>2, FS_EmptySet DEF SizeCounts
<1>4. EntriesLive
  BY <1>2 DEF EntriesLive
<1> QED  BY <1>1, <1>3, <1>4 DEF IInv

\* ADDPACKAGE into a free entry adds that entry to the occupied ones.
LEMMA AddKeepsInv ==
  ASSUME IInv, NEW p \in Packages, NEW b \in Blocks, AddToFreeSlot(p, b), UNCHANGED crashed
  PROVE  IInv' /\ Managed \subseteq Managed'
<1> USE NullPackageAssumption DEF IInv
<1>1. PICK i \in Slots \ Occupied : managed_array' = [managed_array EXCEPT ![i] = b]
  BY DEF AddToFreeSlot, First
<1>2. capacity' = capacity /\ size' = size + 1 /\ use' = use
      /\ heap[b] = NULL /\ heap' = [heap EXCEPT ![b] = p]
  BY DEF AddToFreeSlot, Load
<1>3. TypeOK'
  BY <1>1, <1>2 DEF TypeOK, Slots
<1>4. Slots' = Slots
  BY <1>2 DEF Slots
<1>5. \A k \in Slots : managed_array'[k] = IF k = i THEN b ELSE managed_array[k]
  BY <1>1 DEF TypeOK
<1>6. Occupied' = Occupied \cup {i} /\ i \notin Occupied
  BY <1>1, <1>4, <1>5 DEF Occupied
<1>7. SizeCounts'
  BY <1>2, <1>6, SlotsFinite, FS_AddElement DEF SizeCounts
<1>8. \A k \in Occupied : managed_array[k] # b
  BY <1>2 DEF EntriesLive
<1>9. \A k \in Occupied : managed_array[k] \in Blocks
  BY DEF TypeOK, Occupied
<1>10. heap'[b] = p /\ \A c \in Blocks \ {b} : heap'[c] = heap[c]
  BY <1>2 DEF TypeOK
<1>11. \A k \in Occupied : k # i /\ managed_array'[k] = managed_array[k]
  BY <1>5, <1>6 DEF Occupied
<1>12. EntriesLive'
  BY <1>5, <1>6, <1>8, <1>9, <1>10, <1>11, <1>1 DEF EntriesLive
<1>13. Managed \subseteq Managed'
  BY <1>6, <1>11 DEF Managed
<1> QED  BY <1>3, <1>7, <1>12, <1>13

\* ADDPACKAGE into a full array: the size is the old capacity, so entry number
\* size is the first of the new ones.
LEMMA GrowKeepsInv ==
  ASSUME IInv, NEW p \in Packages, NEW b \in Blocks, AddAndGrow(p, b), UNCHANGED crashed
  PROVE  IInv' /\ Managed \subseteq Managed'
<1> USE NullPackageAssumption DEF IInv
<1>1. Occupied = Slots /\ capacity' = 2 * capacity /\ size' = size + 1 /\ use' = use
      /\ heap[b] = NULL /\ heap' = [heap EXCEPT ![b] = p]
      /\ managed_array' = [i \in 0 .. 2 * capacity - 1 |->
           IF i = size THEN b ELSE IF i \in Slots THEN managed_array[i] ELSE NULL]
  BY DEF AddAndGrow, Load
<1>2. size = capacity
  BY <1>1, SlotsFinite DEF SizeCounts
<1>3. capacity \in Nat \ {0}
  BY DEF TypeOK
<1>4. Slots' = 0 .. 2 * capacity - 1 /\ Slots \subseteq Slots'
      /\ size \in Slots' /\ size \notin Slots
  BY <1>1, <1>2, <1>3 DEF Slots
<1>5. TypeOK'
  BY <1>1, <1>3, <1>4 DEF TypeOK
<1>6. \A i \in Slots' : managed_array'[i] =
        IF i = size THEN b ELSE IF i \in Slots THEN managed_array[i] ELSE NULL
  BY <1>1, <1>4
<1>7. Occupied' = Occupied \cup {size}
  BY <1>1, <1>4, <1>6 DEF Occupied
<1>8. SizeCounts'
  BY <1>1, <1>4, <1>7, SlotsFinite, FS_AddElement DEF SizeCounts
<1>9. \A k \in Occupied : managed_array[k] \in Blocks /\ managed_array[k] # b
  BY <1>1 DEF TypeOK, Occupied, EntriesLive
<1>10. heap'[b] = p /\ \A c \in Blocks \ {b} : heap'[c] = heap[c]
  BY <1>1 DEF TypeOK
<1>11. \A k \in Occupied : k # size /\ managed_array'[k] = managed_array[k]
  BY <1>1, <1>4, <1>6
<1>12. managed_array'[size] = b
  BY <1>4, <1>6
<1>13. EntriesLive'
  BY <1>7, <1>9, <1>10, <1>11, <1>12 DEF EntriesLive
<1>14. Managed \subseteq Managed'
  BY <1>7, <1>11 DEF Managed
<1> QED  BY <1>5, <1>8, <1>13, <1>14

\* REMPACKAGE destroys one object and empties the one entry that points to it.
LEMMA RemoveKeepsInv ==
  ASSUME IInv, NEW p \in Packages, RemovePackage(p), UNCHANGED crashed
  PROVE  IInv' /\ \A b \in Managed : b \in Managed' \/ heap'[b] = NULL
<1> USE NullPackageAssumption DEF IInv
<1>1. PICK i \in Occupied : /\ heap' = [heap EXCEPT ![managed_array[i]] = NULL]
                            /\ managed_array' = [managed_array EXCEPT ![i] = NULL]
  BY DEF RemovePackage, Found, First
<1>2. capacity' = capacity /\ size' = size - 1 /\ use' = use
  BY DEF RemovePackage
<1>3. TypeOK'
  <2>1. managed_array' \in [Slots -> Blocks \cup {NULL}]
    BY <1>1 DEF TypeOK
  <2>2. heap' \in [Blocks -> Packages \cup {NULL}]
    BY <1>1 DEF TypeOK
  <2> QED  BY <1>2, <2>1, <2>2 DEF TypeOK, Slots
<1>4. Slots' = Slots /\ i \in Slots
  BY <1>1, <1>2 DEF Slots, Occupied
<1>5. \A k \in Slots : managed_array'[k] = IF k = i THEN NULL ELSE managed_array[k]
  BY <1>1 DEF TypeOK
<1>6. Occupied' = Occupied \ {i}
  BY <1>4, <1>5 DEF Occupied
<1>7. Cardinality(Occupied \ {i}) = Cardinality(Occupied) - 1
  BY <1>1, SlotsFinite, FS_RemoveElement
<1>8. SizeCounts'
  BY <1>2, <1>6, <1>7 DEF SizeCounts
<1>9. \A k \in Occupied : managed_array[k] \in Blocks
  BY DEF TypeOK, Occupied
<1>10. heap'[managed_array[i]] = NULL
       /\ \A c \in Blocks \ {managed_array[i]} : heap'[c] = heap[c]
  BY <1>1, <1>9 DEF TypeOK
<1>11. \A k \in Occupied' : k \in Occupied /\ k # i /\ managed_array'[k] = managed_array[k]
  BY <1>5, <1>6 DEF Occupied
<1>12. EntriesLive'
  BY <1>1, <1>9, <1>10, <1>11 DEF EntriesLive
<1>13. \A b \in Managed : b \in Managed' \/ heap'[b] = NULL
  <2> SUFFICES ASSUME NEW k \in Occupied
               PROVE  managed_array[k] \in Managed' \/ heap'[managed_array[k]] = NULL
    BY DEF Managed
  <2>1. CASE k = i
    BY <2>1, <1>10
  <2>2. CASE k # i
    BY <2>2, <1>6, <1>11 DEF Managed
  <2> QED  BY <2>1, <2>2
<1> QED  BY <1>3, <1>8, <1>12, <1>13

\* A failed realloc, and the steps of a thread with its pointer, leave the
\* array alone; the object that the failure loses is in a free block.
LEMMA OtherKeepsInv ==
  ASSUME IInv, UNCHANGED <<table, crashed>>, use' \in [Threads -> Use],
         \/ UNCHANGED heap
         \/ \E p \in Packages, b \in Blocks : Load(p, b)
  PROVE  IInv' /\ Managed' = Managed
<1> USE NullPackageAssumption DEF IInv, table
<1>1. Slots' = Slots /\ Occupied' = Occupied /\ Managed' = Managed
  BY DEF Slots, Occupied, Managed
<1>2. TypeOK' /\ SizeCounts'
  BY <1>1 DEF TypeOK, SizeCounts, Load
<1>3. \A i \in Occupied : managed_array[i] \in Blocks
  BY DEF TypeOK, Occupied
<1>4. \A i \in Occupied : heap'[managed_array[i]] # NULL
  BY <1>3 DEF EntriesLive, Load, TypeOK
<1>5. EntriesLive'
  BY <1>1, <1>4 DEF EntriesLive
<1> QED  BY <1>1, <1>2, <1>5

\* Every step of a thread with its pointer keeps the type of use.
LEMMA UseTyped ==
  ASSUME TypeOK, NEW t \in Threads,
         \/ \E p \in Packages, h \in Hashes : Fetch(p, h) /\ t = "main"
         \/ HandlerStep(t) \/ UseStep(t)
  PROVE  /\ use' \in [Threads -> Use]
         /\ UNCHANGED <<table, heap>>
<1>0. "main" \in Threads
  BY DEF Threads
<1>1. ASSUME NEW p \in Packages, NEW h \in Hashes, NEW u \in Threads,
             NEW pc \in {"hash", "measure"}, Lookup(u, p, h, pc)
      PROVE  use' \in [Threads -> Use] /\ UNCHANGED <<table, heap>>
  <2>1. PICK i \in Occupied :
          use' = [use EXCEPT ![u] = [pc |-> pc, ptr |-> managed_array[i], pkg |-> p]]
    BY <1>1 DEF Lookup, Owner, Found, First
  <2>2. managed_array[i] \in Blocks \cup {NULL}
    BY DEF TypeOK, Occupied
  <2>3. [pc |-> pc, ptr |-> managed_array[i], pkg |-> p] \in Use
    BY <2>2 DEF Use
  <2> QED  BY <1>1, <2>1, <2>3 DEF TypeOK, Lookup
<1>2. CASE \E p \in Packages, h \in Hashes : Fetch(p, h) /\ t = "main"
  BY <1>0, <1>1, <1>2 DEF Fetch
<1>3. CASE HandlerStep(t)
  BY <1>1, <1>3 DEF HandlerStep, Res, Req
<1>4. CASE UseStep(t)
  <2>1. \A pc \in {"measure", "open"} : Step(t, pc) => use' \in [Threads -> Use]
    BY DEF TypeOK, Step, Use
  <2>2. Finish(t) => use' \in [Threads -> Use]
    BY DEF TypeOK, Finish, Unused, Use
  <2> QED  BY <1>4, <2>1, <2>2 DEF UseStep, ComputeHashes, CalculateDataLen, OpenFile
<1> QED  BY <1>2, <1>3, <1>4

\* The invariant is inductive, and a step takes out of the array only what it
\* destroys.
LEMMA NextInv ==
  ASSUME IInv, [Next]_vars
  PROVE  IInv' /\ \A b \in Managed : b \in Managed' \/ heap'[b] = NULL
<1>1. CASE UNCHANGED vars
  <2>1. use' \in [Threads -> Use]
    BY <1>1 DEF IInv, TypeOK, vars
  <2> QED  BY <1>1, <2>1, OtherKeepsInv DEF vars, table
<1>2. CASE Running
  <2> USE <1>2
  <2>1. ASSUME NEW p \in Packages, NEW b \in Blocks, AddToFreeSlot(p, b)
        PROVE  IInv' /\ \A c \in Managed : c \in Managed' \/ heap'[c] = NULL
    BY <2>1, AddKeepsInv DEF Running
  <2>2. ASSUME NEW p \in Packages, NEW b \in Blocks, AddAndGrow(p, b)
        PROVE  IInv' /\ \A c \in Managed : c \in Managed' \/ heap'[c] = NULL
    BY <2>2, GrowKeepsInv DEF Running
  <2>3. ASSUME NEW p \in Packages, NEW b \in Blocks, AddFails(p, b)
        PROVE  IInv' /\ \A c \in Managed : c \in Managed' \/ heap'[c] = NULL
    <3>1. UNCHANGED <<table, crashed>> /\ use' = use /\ Load(p, b)
      BY <2>3 DEF AddFails, Running
    <3>2. use' \in [Threads -> Use]
      BY <3>1 DEF IInv, TypeOK
    <3> QED  BY <3>1, <3>2, OtherKeepsInv
  <2>4. ASSUME NEW p \in Packages, RemovePackage(p)
        PROVE  IInv' /\ \A c \in Managed : c \in Managed' \/ heap'[c] = NULL
    BY <2>4, RemoveKeepsInv DEF Running
  <2>5. ASSUME NEW t \in Threads,
               \/ \E p \in Packages, h \in Hashes : Fetch(p, h) /\ t = "main"
               \/ HandlerStep(t) \/ UseStep(t)
        PROVE  IInv' /\ \A c \in Managed : c \in Managed' \/ heap'[c] = NULL
    <3>1. use' \in [Threads -> Use] /\ UNCHANGED <<table, heap>>
      BY <2>5, UseTyped DEF IInv
    <3> QED  BY <3>1, OtherKeepsInv DEF Running
  <2>6. "main" \in Threads
    BY DEF Threads
  <2> QED  BY <2>1, <2>2, <2>3, <2>4, <2>5, <2>6 DEF Running, Command
<1>3. ASSUME NEW t \in Threads, UseFreed(t)
      PROVE  IInv' /\ Managed' = Managed
  <2>1. Slots' = Slots /\ Occupied' = Occupied /\ Managed' = Managed
    BY <1>3 DEF UseFreed, table, Slots, Occupied, Managed
  <2> QED
    BY <1>3, <2>1 DEF IInv, TypeOK, SizeCounts, EntriesLive, UseFreed, table
<1> QED  BY <1>1, <1>2, <1>3 DEF Next

\* The invariant holds in every reachable state.
LEMMA InvHolds == Spec => []IInv
<1>1. IInv /\ [Next]_vars => IInv'
  BY NextInv
<1> QED  BY InitInv, <1>1, PTL DEF Spec

\* The variables of package.c keep their types, whatever is added, removed or
\* looked up and whichever thread does it.
THEOREM PackagesTyped == Spec => []TypeOK
<1>1. IInv => TypeOK
  BY DEF IInv
<1> QED  BY InvHolds, <1>1, PTL

\* The size that add_package stores at after a doubling is the number of
\* managed packages, for any capacity and any history of additions.
THEOREM SizeIsCount == Spec => []SizeCounts
<1>1. IInv => SizeCounts
  BY DEF IInv
<1> QED  BY InvHolds, <1>1, PTL

\* No entry points to a destroyed object, and no object has two entries: it is
\* freed at most once.
THEOREM NoDoubleFree == Spec => []EntriesLive
<1>1. IInv => EntriesLive
  BY DEF IInv
<1> QED  BY InvHolds, <1>1, PTL

\* No addition and no doubling of the array loses a managed package.
THEOREM NoPackageLost == Spec => PackagesKept
<1>1. IInv /\ [Next]_vars => [\A b \in Managed : b \in Managed' \/ heap'[b] = NULL]_vars
  BY NextInv
<1> QED  BY InvHolds, <1>1, PTL DEF Spec, PackagesKept

\* What the table and the objects say of a FETCH changes only with them or with
\* what the command thread itself does.
LEMMA SameForMain ==
  ASSUME FetchUsesManaged, UNCHANGED <<table, heap>>,
         use'["main"].pc # "idle" => /\ use["main"].pc # "idle"
                                     /\ use'["main"].ptr = use["main"].ptr
                                     /\ use'["main"].pkg = use["main"].pkg
  PROVE  FetchUsesManaged'
<1>1. Managed' = Managed
  BY DEF table, Managed, Occupied, Slots
<1> QED  BY <1>1 DEF FetchUsesManaged, SameIdent

\* No command changes the table while a FETCH has a pointer, and nobody else
\* does; what chunk_in_memory returns is managed and has the ident asked for.
LEMMA FetchKept ==
  ASSUME IInv, FetchUsesManaged, [Next]_vars
  PROVE  FetchUsesManaged'
<1> USE DEF IInv
<1>1. "main" \in Threads /\ use \in [Threads -> Use]
  BY DEF Threads, TypeOK
<1>2. CASE UNCHANGED vars \/ \E t \in Threads : UseFreed(t)
  BY <1>2, SameForMain DEF vars, table, UseFreed
<1>3. ASSUME NEW p \in Packages, NEW b \in Blocks,
             AddToFreeSlot(p, b) \/ AddAndGrow(p, b) \/ AddFails(p, b)
      PROVE  FetchUsesManaged'
  <2>1. use["main"].pc = "idle" /\ use' = use
    BY <1>3 DEF AddToFreeSlot, AddAndGrow, AddFails
  <2> QED  BY <2>1 DEF FetchUsesManaged
<1>4. ASSUME NEW p \in Packages, RemovePackage(p)
      PROVE  FetchUsesManaged'
  <2>1. use["main"].pc = "idle" /\ use' = use
    BY <1>4 DEF RemovePackage
  <2> QED  BY <2>1 DEF FetchUsesManaged
<1>5. ASSUME NEW p \in Packages, NEW h \in Hashes, Fetch(p, h)
      PROVE  FetchUsesManaged'
  <2>1. PICK i \in Occupied :
          /\ SameIdent(heap[managed_array[i]], p)
          /\ use' = [use EXCEPT !["main"] =
                       [pc |-> "measure", ptr |-> managed_array[i], pkg |-> p]]
    BY <1>5 DEF Fetch, Lookup, Owner, Found, First
  <2>2. use'["main"].ptr = managed_array[i] /\ use'["main"].pkg = p
    BY <1>1, <2>1
  <2>3. Managed' = Managed /\ heap' = heap /\ managed_array[i] \in Managed
    BY <1>5 DEF Fetch, Lookup, table, Managed, Occupied, Slots
  <2> QED  BY <2>1, <2>2, <2>3 DEF FetchUsesManaged, SameIdent
<1>6. ASSUME NEW t \in Handlers, HandlerStep(t)
      PROVE  FetchUsesManaged'
  <2>1. t # "main"
    BY ThreadAssumption
  <2>2. use'["main"] = use["main"] /\ UNCHANGED <<table, heap>>
    BY <1>1, <1>6, <2>1 DEF HandlerStep, Res, Req, Lookup
  <2> QED  BY <2>2, SameForMain
<1>7. ASSUME NEW t \in Threads, UseStep(t)
      PROVE  FetchUsesManaged'
  <2>1. UNCHANGED <<table, heap>> /\ use[t].pc # "idle"
    BY <1>7 DEF UseStep, ComputeHashes, CalculateDataLen, OpenFile
  <2>2. Finish(t) \/ \E pc \in {"measure", "open"} : Step(t, pc)
    BY <1>7 DEF UseStep, ComputeHashes, CalculateDataLen, OpenFile
  <2>3. CASE Finish(t)
    <3>1. use'["main"] = IF t = "main" THEN Unused ELSE use["main"]
      BY <1>1, <2>3 DEF Finish
    <3> QED  BY <2>1, <3>1, SameForMain DEF Unused
  <2>4. ASSUME NEW pc \in {"measure", "open"}, Step(t, pc)
        PROVE  FetchUsesManaged'
    <3>1. use'["main"].ptr = use["main"].ptr /\ use'["main"].pkg = use["main"].pkg
      BY <1>1, <2>4 DEF Step, Use
    <3>2. t # "main" => use'["main"] = use["main"]
      BY <1>1, <2>4 DEF Step
    <3> QED  BY <2>1, <3>1, <3>2, SameForMain
  <2> QED  BY <2>2, <2>3, <2>4
<1>8. \A t \in Threads : HandlerStep(t) => t \in Handlers
  BY DEF HandlerStep, Res, Req
<1> QED  BY <1>2, <1>3, <1>4, <1>5, <1>6, <1>7, <1>8 DEF Next, Running, Command

\* What a FETCH measures is the managed object with the ident that the user
\* gave, for any table and any number of handlers at work.
THEOREM FetchSafe == Spec => []FetchUsesManaged
<1>1. Init => FetchUsesManaged
  BY DEF Init, FetchUsesManaged, Unused, Threads
<1>2. IInv /\ FetchUsesManaged /\ [Next]_vars => FetchUsesManaged'
  BY FetchKept
<1> QED  BY InvHolds, <1>1, <1>2, PTL DEF Spec
=============================================================================
