-------------------------- MODULE ObserverRegistry --------------------------
(***************************************************************************)
(* The registry of a VDB sampler's leaf access observers, and the          *)
(* observers that use it.  An observer allocates a buffer and registers    *)
(* it; sampling marks the visited leaf in every registered buffer; the     *)
(* observer's destructor unregisters the buffer and frees it.  The API     *)
(* asks the application not to call the observer functions concurrently,   *)
(* so a call is one step.                                                  *)
(*                                                                         *)
(* A buffer is known by its address, which the allocator may hand out      *)
(* again once it is free.                                                  *)
(***************************************************************************)
EXTENDS Naturals, Sequences, FiniteSets, SequencesExt

CONSTANTS
    Buffers,       \* addresses of access buffers
    Garbage,       \* what the word behind the array holds
    LastFirst      \* TRUE: the application releases the newest observer first

ASSUME RegistryAssumption ==
    Garbage \notin Buffers /\ LastFirst \in BOOLEAN /\ IsFiniteSet(Buffers)

VARIABLES
    data, size,    \* the array (its length is the capacity) and the entries in use
    allocated,     \* the buffers that are allocated
    observers,     \* the buffers of the observers that exist, the oldest first
    marked         \* the buffers the last sampling call wrote to

vars == <<data, size, allocated, observers, marked>>

Listed == {data[i] : i \in 1 .. size}

TypeOK ==
    /\ data \in Seq(Buffers \cup {Garbage}) /\ size \in 0 .. Len(data)
    /\ observers \in Seq(Buffers)
    /\ allocated \subseteq Buffers /\ marked \subseteq Buffers \cup {Garbage}

Init ==
    /\ data = <<>> /\ size = 0
    /\ allocated = {} /\ observers = <<>> /\ marked = {}

-----------------------------------------------------------------------------
Registry == [data |-> data, size |-> size]

Become(r) == data' = r.data /\ size' = r.size

(***************************************************************************)
(* ObserverRegistry_add: nothing for a buffer that is listed; a full array *)
(* is replaced by one with one more element.                               *)
(***************************************************************************)
List_NotGrown(r, b) == [data |-> r.data, size |-> r.size + 1]

List_NotCopied(r, b) ==
    [data |-> IF r.size = Len(r.data)
              THEN [i \in 1 .. r.size + 1 |-> b]
              ELSE [r.data EXCEPT ![r.size + 1] = b],
     size |-> r.size + 1]

List(r, b) ==
    IF \E i \in 1 .. r.size : r.data[i] = b THEN r
    ELSE [data |-> IF r.size = Len(r.data)
                   THEN Append(r.data, b)
                   ELSE [r.data EXCEPT ![r.size + 1] = b],
          size |-> r.size + 1]

(***************************************************************************)
(* ObserverRegistry_remove: the body of the loop for entry i, and the      *)
(* loop.  The entry is overwritten by the word data[size], one past the    *)
(* last entry, which may lie outside the array.                            *)
(***************************************************************************)
RemoveEntry_SizeKept(r, b, i) ==
    IF i <= r.size /\ r.data[i] = b
    THEN [r EXCEPT !.data[i] = IF r.size < Len(r.data) THEN r.data[r.size + 1]
                                                        ELSE Garbage]
    ELSE r

RemoveEntry(r, b, i) ==
    IF i <= r.size /\ r.data[i] = b
    THEN [data |-> [r.data EXCEPT ![i] = IF r.size < Len(r.data)
                                         THEN r.data[r.size + 1]
                                         ELSE Garbage],
          size |-> r.size - 1]
    ELSE r

Unlist(r, b) ==
    LET after[i \in 0 .. Len(r.data)] ==
            IF i = 0 THEN r ELSE RemoveEntry(after[i - 1], b, i)
    IN  after[Len(r.data)]

-----------------------------------------------------------------------------
(* VdbLeafAccessObserver: the constructor allocates, then calls add() *)
NewObserver(b) ==
    /\ b \notin allocated
    /\ allocated' = allocated \cup {b}
    /\ observers' = Append(observers, b)
    /\ Become(List(Registry, b))
    /\ UNCHANGED marked

(* its destructor calls remove(), then deallocates *)
ReleaseObserver(b) ==
    /\ \E k \in 1 .. Len(observers) :
        /\ observers[k] = b
        /\ LastFirst => k = Len(observers)
        /\ observers' = RemoveAt(observers, k)
    /\ Become(Unlist(Registry, b))
    /\ allocated' = allocated \ {b}
    /\ UNCHANGED marked

(* VdbLeafAccessObserver_isObservable, _observe, while the sampler is used *)
Observe ==
    /\ size > 0
    /\ marked' = Listed
    /\ UNCHANGED <<data, size, allocated, observers>>

Next ==
    \/ \E b \in Buffers : NewObserver(b) \/ ReleaseObserver(b)
    \/ Observe

Spec == Init /\ [][Next]_vars

-----------------------------------------------------------------------------
(***************************************************************************)
(* The registry lists the buffers of the observers that exist, each once:  *)
(* "keep track of observers that are relevant for a given entity ...       *)
(* Observers will call remove() when they are destroyed".                  *)
(***************************************************************************)
ListsTheObservers ==
    /\ Listed = ToSet(observers)
    /\ size = Len(observers)

(***************************************************************************)
(* Sampling writes to the buffer of every observer that exists, and to no  *)
(* memory that was freed.                                                  *)
(***************************************************************************)
ObservesLiveBuffersOnly ==
    [][Observe => marked' = ToSet(observers) /\ marked' \subseteq allocated]_vars
=============================================================================
