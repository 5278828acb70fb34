-------------------------- MODULE ManagedPackages --------------------------
(***************************************************************************)
(* The packages one btide process manages (src/project/src/package.c,      *)
(* called by btide.c and peer.c): a growing array of pointers to bpkg      *)
(* objects on the heap. The command thread ("main") adds, removes and looks *)
(* packages up; the handler threads look them up for REQ and RES. Every    *)
(* call locks managed_packages_lock for its own duration only, so one step *)
(* is one call, or one use of the pointer that a call has returned.        *)
(***************************************************************************)
EXTENDS Integers, FiniteSets

CONSTANTS
  Packages,          \* the .bpkg files, each with its own ident
  Prefix,            \* Packages -> the first 20 characters of the ident
  ChunksOf,          \* Packages -> the chunk hashes of the package
  Blocks,            \* where on the heap a bpkg object can be
  Handlers,          \* the threads of handle_peers
  Faults,            \* calls that may fail: "realloc"
  InitialCapacity,   \* INITIAL_PACKAGE_ARRAY_SIZE
  NULL

Threads == {"main"} \cup Handlers
Hashes == UNION {ChunksOf[p] : p \in Packages}

ASSUME CapacityAssumption == InitialCapacity \in Nat \ {0}
ASSUME ThreadAssumption == "main" \notin Handlers
ASSUME NullPackageAssumption == NULL \notin Packages /\ NULL \notin Blocks

VARIABLES
  managed_array,  \* 0 .. capacity - 1 -> NULL or the block of a bpkg object
  size,
  capacity,
  heap,           \* Blocks -> NULL (free), or the package of the object there
  use,            \* Threads -> what the thread does with a pointer it found
  crashed

vars == <<managed_array, size, capacity, heap, use, crashed>>
table == <<managed_array, size, capacity>>

Slots == 0 .. capacity - 1
Occupied == {i \in Slots : managed_array[i] # NULL}
Managed == {managed_array[i] : i \in Occupied}

\* What a thread has asked for and the pointer it got (chosen_bpkg): next it
\* computes the hashes of the chunks, measures the chunk, or opens the file.
Use == [pc : {"idle", "hash", "measure", "open"},
        ptr : Blocks \cup {NULL}, pkg : Packages \cup {NULL}]
Unused == [pc |-> "idle", ptr |-> NULL, pkg |-> NULL]

\* The types of all the variables, through every operation of the module.
TypeOK ==
  /\ capacity \in Nat \ {0}
  /\ size \in Int
  /\ managed_array \in [Slots -> Blocks \cup {NULL}]
  /\ heap \in [Blocks -> Packages \cup {NULL}]
  /\ use \in [Threads -> Use]
  /\ crashed \in BOOLEAN

\* Mutant of Init: the pointers of the first array are not cleared.
InitUncleared ==
  /\ managed_array = [i \in 0 .. InitialCapacity - 1 |-> Packages]
  /\ size = 0 /\ capacity = InitialCapacity
  /\ heap = [b \in Blocks |-> NULL] /\ use = [t \in Threads |-> Unused]
  /\ crashed = FALSE

Init ==
  /\ managed_array = [i \in 0 .. InitialCapacity - 1 |-> NULL]
  /\ size = 0
  /\ capacity = InitialCapacity
  /\ heap = [b \in Blocks |-> NULL]
  /\ use = [t \in Threads |-> Unused]
  /\ crashed = FALSE

-----------------------------------------------------------------------------
(* The command thread: ADDPACKAGE and REMPACKAGE.                          *)

First(S) == {i \in S : \A k \in S : i <= k}

SameIdent(p, q) == Prefix[p] = Prefix[q]

\* The first managed package whose ident agrees with that of p.
Found(p) == First({i \in Occupied : SameIdent(heap[managed_array[i]], p)})

\* What bpkg_load returns: an object in a block that was free.
Load(p, b) == heap[b] = NULL /\ heap' = [heap EXCEPT ![b] = p]

\* Mutant of AddToFreeSlot: size is not counted up.
AddUncounted(p, b) ==
  /\ use["main"].pc = "idle"
  /\ Load(p, b)
  /\ \E i \in First(Slots \ Occupied) : managed_array' = [managed_array EXCEPT ![i] = b]
  /\ UNCHANGED <<size, capacity, use>>

AddToFreeSlot(p, b) ==
  /\ use["main"].pc = "idle"
  /\ Load(p, b)
  /\ \E i \in First(Slots \ Occupied) : managed_array' = [managed_array EXCEPT ![i] = b]
  /\ size' = size + 1
  /\ UNCHANGED <<capacity, use>>

\* The array is full: it is doubled, and the object goes to entry number size.
AddAndGrow(p, b) ==
  /\ use["main"].pc = "idle" /\ Occupied = Slots
  /\ Load(p, b)
  /\ capacity' = 2 * capacity
  /\ managed_array' = [i \in 0 .. 2 * capacity - 1 |->
       IF i = size THEN b ELSE IF i \in Slots THEN managed_array[i] ELSE NULL]
  /\ size' = size + 1
  /\ UNCHANGED use

\* realloc fails: the function returns and the object is lost.
AddFails(p, b) ==
  /\ use["main"].pc = "idle" /\ Occupied = Slots /\ "realloc" \in Faults
  /\ Load(p, b)
  /\ UNCHANGED <<table, use>>

\* Mutant of RemovePackage: the size is left as it was.
RemoveUncounted(p) ==
  /\ use["main"].pc = "idle"
  /\ \E i \in Found(p) :
       /\ heap' = [heap EXCEPT ![managed_array[i]] = NULL]
       /\ managed_array' = [managed_array EXCEPT ![i] = NULL]
  /\ UNCHANGED <<size, capacity, use>>

\* Mutant of RemovePackage: the pointer to the destroyed object stays.
RemoveUncleared(p) ==
  /\ use["main"].pc = "idle"
  /\ \E i \in Found(p) : heap' = [heap EXCEPT ![managed_array[i]] = NULL]
  /\ size' = size - 1
  /\ UNCHANGED <<managed_array, capacity, use>>

\* The object is destroyed, whoever else has a pointer to it.
RemovePackage(p) ==
  /\ use["main"].pc = "idle"
  /\ \E i \in Found(p) :
       /\ heap' = [heap EXCEPT ![managed_array[i]] = NULL]
       /\ managed_array' = [managed_array EXCEPT ![i] = NULL]
  /\ size' = size - 1
  /\ UNCHANGED <<capacity, use>>

-----------------------------------------------------------------------------
(* chunk_in_memory and the uses of the pointer it returns.                 *)

\* Mutant of Owner: the search goes by the hash alone.
OwnerByHash(p, h) == First({i \in Occupied : h \in ChunksOf[heap[managed_array[i]]]})

\* The found package is the first that agrees on 20 characters of the ident;
\* the search ends there, whether or not the hash is one of its chunks.
Owner(p, h) == {i \in Found(p) : h \in ChunksOf[heap[managed_array[i]]]}

Step(t, pc) == use' = [use EXCEPT ![t].pc = pc]
Finish(t) == use' = [use EXCEPT ![t] = Unused]

Lookup(t, p, h, pc) ==
  /\ use[t].pc = "idle"
  /\ \E i \in Owner(p, h) :
       use' = [use EXCEPT ![t] = [pc |-> pc, ptr |-> managed_array[i], pkg |-> p]]
  /\ UNCHANGED <<table, heap>>

\* FETCH and RES measure the chunk at once, REQ computes the hashes before.
Fetch(p, h) == Lookup("main", p, h, "measure")
Res(t, p, h) == t \in Handlers /\ Lookup(t, p, h, "measure")
Req(t, p, h) == t \in Handlers /\ Lookup(t, p, h, "hash")

Live(t) == use[t].ptr \in Blocks /\ heap[use[t].ptr] # NULL

\* compute_hashes_for_chunks, which takes no lock: the chunk is there or not.
ComputeHashes(t) ==
  /\ use[t].pc = "hash" /\ Live(t)
  /\ Step(t, "measure") \/ Finish(t)
  /\ UNCHANGED <<table, heap>>

\* calculate_data_len: the offset may be outside the chunk.
CalculateDataLen(t) ==
  /\ use[t].pc = "measure" /\ Live(t)
  /\ (t # "main" /\ Step(t, "open")) \/ Finish(t)
  /\ UNCHANGED <<table, heap>>

OpenFile(t) ==
  /\ use[t].pc = "open" /\ Live(t)
  /\ Finish(t)
  /\ UNCHANGED <<table, heap>>

\* The object was freed: a use of it has no defined result.
UseFreed(t) ==
  /\ ~crashed /\ use[t].pc # "idle" /\ ~Live(t)
  /\ crashed' = TRUE
  /\ UNCHANGED <<table, heap, use>>

-----------------------------------------------------------------------------
Command ==
  \/ \E p \in Packages, b \in Blocks :
       AddToFreeSlot(p, b) \/ AddAndGrow(p, b) \/ AddFails(p, b)
  \/ \E p \in Packages : RemovePackage(p) \/ \E h \in Hashes : Fetch(p, h)

HandlerStep(t) ==
  \E p \in Packages, h \in Hashes : Res(t, p, h) \/ Req(t, p, h)

UseStep(t) == ComputeHashes(t) \/ CalculateDataLen(t) \/ OpenFile(t)

Running ==
  /\ ~crashed
  /\ Command \/ \E t \in Threads : HandlerStep(t) \/ UseStep(t)
  /\ UNCHANGED crashed

Next == Running \/ \E t \in Threads : UseFreed(t)

Spec == Init /\ [][Next]_vars

-----------------------------------------------------------------------------
(* Properties.                                                             *)

\* size counts the managed packages through every mix of ADDPACKAGE and
\* REMPACKAGE, with holes anywhere in the array: add_package relies on it when
\* it stores the new object at entry number size of an array it has doubled.
SizeCounts == size = Cardinality(Occupied)

\* ADDPACKAGE and the doubling of the array never lose a package: a pointer
\* leaves the array only when its object is destroyed.
PackagesKept == [][\A b \in Managed : b \in Managed' \/ heap'[b] = NULL]_vars

\* The array refers to live objects, each from one entry only: neither
\* REMPACKAGE nor destroy_all frees an object twice.
EntriesLive ==
  /\ \A i \in Occupied : heap[managed_array[i]] # NULL
  /\ \A i, k \in Occupied : managed_array[i] = managed_array[k] => i = k

\* The object that a FETCH of the command thread measures is still the one it
\* looked up, of a package with the ident the user gave.
FetchUsesManaged ==
  use["main"].pc # "idle" =>
    /\ use["main"].ptr \in Managed
    /\ SameIdent(heap[use["main"].ptr], use["main"].pkg)

-----------------------------------------------------------------------------
(* What the repository says of the program, and its runs refute.           *)

\* package.c:116: "Don't want a thread deleting the bpkg i am working with." A
\* pointer that chunk_in_memory returned to a thread stays valid while it works.
NoneDeletedInUse == \A t \in Threads : use[t].pc # "idle" => Live(t)
=============================================================================
