---------------------------- MODULE AddressSpace ----------------------------
(***************************************************************************)
(* What the guest can rely on of its memory: a byte at each mapped address *)
(* whatever regions, blocks and host storage are behind it.  An address    *)
(* may be mapped several times over.  Mapping adds a layer and changes no  *)
(* byte; mirroring copies; unmapping takes layers away within its range,   *)
(* and a byte only where it did; a store changes what it was aimed at; and *)
(* a call ends the process only for a reason the guest can know.           *)
(*                                                                         *)
(* Some addresses are fixed: they have a byte from the start and for ever. *)
(* Of an access that begins in the fixed part and ends outside nothing is  *)
(* promised but that it does no harm to others.  The last address of a     *)
(* range is mapped with it and gets no byte from it.  An access that goes  *)
(* over one may end the process, and a store may do so later on.           *)
(***************************************************************************)
EXTENDS Integers

CONSTANTS
    Top,         \* number of addresses
    Fixed,       \* the addresses that always have a byte
    Longest,     \* sizes below it are sure to be taken as they are
    HeapBase,    \* where the heap begins
    Zero,        \* what the fixed addresses hold at the start
    Answer,      \* a byte of what Describe answers
    InfoSize,    \* the number of them
    Byte, HeapSizes, Mirrors, Unmaps, Queries, Accesses

VARIABLES
    layers,      \* how many times each address is mapped
    bytes,       \* the byte of each address that has one
    lasts,       \* the last addresses of ranges, outside the fixed part
    heap,        \* size of the heap
    damaged,     \* a store went over one of lasts
    alive        \* the process runs

vars == <<layers, bytes, lasts, heap, damaged, alive>>

Address == 0..(Top - 1)
At(a) == a % Top

Mapped == {a \in Address : layers[a] > 0}
Accessible == DOMAIN bytes
Kept(a) == a \in Accessible' /\ bytes'[a] = bytes[a]

(* The top address reads as zero and ignores stores, mapped or not, and so *)
(* does an access that ends there or beyond.                               *)
Summit == Top - 1
Void(a, n) == a + n > Summit

Bytes(a, n) == a .. a + n - 1
LeavesFixed(a, n) == a \in Fixed /\ a + n - 1 \notin Fixed
AtEdge(a, n) == LeavesFixed(a, n) \/ Bytes(a, n) \cap lasts # {}

Init ==
    /\ layers \in [Address -> Nat] /\ Mapped \subseteq Fixed
    /\ bytes = [a \in Fixed |-> Zero]
    /\ lasts = {}
    /\ heap = 0
    /\ damaged = FALSE
    /\ alive = TRUE

(* A range that runs over the top of the address space is not mapped.      *)
Range(a, n) == IF a + n < Top THEN a .. a + n ELSE {}

Extend(a, n) ==
    /\ layers' = [b \in Address |-> IF b \in Range(a, n) THEN layers[b] + 1 ELSE layers[b]]
    /\ Accessible' = Accessible \cup {b \in Range(a, n) : layers[b] = 0 /\ b # a + n}
    /\ lasts' = lasts \cup {b \in Range(a, n) : b = a + n /\ b \notin Fixed}

(* What is made of a size: itself if it is short enough, or a part of it.  *)
Taken(n, longest) == {m \in 0 .. n : n < longest => m = n}

(* A heap that grows is new memory above the old; one that shrinks only    *)
(* forgets its size.                                                       *)
SetHeap(size) ==
    /\ alive
    /\ heap' = size
    /\ UNCHANGED <<damaged, alive>>
    /\ IF heap < size
       THEN /\ \E n \in Taken(size - heap - 1, Longest) : Extend(At(HeapBase + heap), n)
            /\ \A a \in Accessible : Kept(a)
       ELSE UNCHANGED <<layers, bytes, lasts>>

(* The length of a copy has one bit less than that of a range.             *)
CopyLengths(n) == {k \in 0 .. n : 2 * n < Longest => k = n}

Mirror(dest, src, n) ==
    /\ alive
    /\ UNCHANGED <<heap, alive>>
    /\ \E m \in Taken(n, Longest) : Extend(dest, m)
    /\ \E k \in CopyLengths(n) :
           /\ \A i \in 0..(k - 1) :
                  {At(dest + i), At(src + i)} \subseteq Fixed \cup Mapped' \cup {Summit}
           /\ \A i \in 0..(k - 1) :
                  At(dest + i) \in Accessible' =>
                      /\ At(src + i) \in Accessible => bytes'[At(dest + i)] = bytes[At(src + i)]
                      /\ At(src + i) = Summit => bytes'[At(dest + i)] = Zero
           /\ \A a \in Accessible \ {At(dest + i) : i \in 0..(k - 1)} : Kept(a)
           /\ damaged' = (damaged \/ \E i \in 0..(k - 1) :
                                         At(dest + i) \notin Accessible' \cup {Summit})

(* Where a layer is taken away, what was mapped below it may appear.       *)
Unmap(a, n) ==
    /\ alive
    /\ UNCHANGED <<heap, damaged, alive>>
    /\ layers' \in [Address -> Nat]
    /\ \A b \in Address : layers'[b] <= layers[b] /\ (b \notin a .. a + n => layers'[b] = layers[b])
    /\ lasts' \subseteq lasts
    /\ LET same == {b \in Address : b \in Fixed \/ layers'[b] = layers[b]}
       IN  /\ Accessible' \cap same = Accessible \cap same
           /\ \A b \in Accessible \cap same : Kept(b)

(* The answer is stored as far as there is a fixed place for it.           *)
Describe(place) ==
    /\ alive
    /\ UNCHANGED <<layers, lasts, heap, damaged, alive>>
    /\ bytes' = [b \in Accessible |->
                    IF b \in Fixed \cap Bytes(place, InfoSize) THEN Answer ELSE bytes[b]]

(* The bytes after the first may belong elsewhere.                         *)
Store(a, n, v) ==
    /\ alive
    /\ UNCHANGED <<layers, lasts, heap, alive>>
    /\ Void(a, n) \/ a \in Fixed \cup Mapped
    /\ \E S \in SUBSET (Bytes(a, n) \cap Accessible) :
           /\ Void(a, n) => S = {}
           /\ ~Void(a, n) /\ ~LeavesFixed(a, n) =>
                  /\ a \in Accessible => a \in S
                  /\ a \in Fixed => S = Bytes(a, n)
           /\ bytes' = [b \in Accessible |-> IF b \in S THEN v ELSE bytes[b]]
    /\ damaged => damaged'
    /\ damaged' => damaged \/ (~Void(a, n) /\ AtEdge(a, n))
    /\ damaged' \in BOOLEAN

(* The reasons for which a call ends the process.                          *)
BadAccess(a, n) == ~Void(a, n) /\ (a \notin Fixed \cup Mapped \/ AtEdge(a, n))

BadByte(b, dest, m) ==
    /\ b \notin Fixed \cup {Summit}
    /\ b \notin Mapped \cup Range(dest, m) \/ b \in lasts \cup {dest + m}

BadMirror(dest, src, n) ==
    \E k \in CopyLengths(n), m \in Taken(n, Longest) : \E i \in 0..(k - 1) :
        BadByte(At(dest + i), dest, m) \/ BadByte(At(src + i), dest, m)

BadUnmap(a, n) == (a .. a + n) \cap Fixed # {}
BadDescribe(place) == ~(Bytes(place, InfoSize) \subseteq Fixed) \/ ~(Mapped \subseteq Fixed)

Fail ==
    /\ alive /\ ~alive'
    /\ UNCHANGED <<layers, bytes, lasts, heap, damaged>>
    /\ \/ \E x \in Accesses : BadAccess(x[1], x[2])
       \/ \E m \in Mirrors : BadMirror(m[1], m[2], m[3])
       \/ \E u \in Unmaps : BadUnmap(u[1], u[2])
       \/ \E q \in Queries : BadDescribe(q[1])
       \/ damaged

Next ==
    \/ \E size \in HeapSizes : SetHeap(size)
    \/ \E m \in Mirrors : Mirror(m[1], m[2], m[3])
    \/ \E u \in Unmaps : Unmap(u[1], u[2])
    \/ \E q \in Queries : Describe(q[1])
    \/ \E x \in Accesses, v \in Byte : Store(x[1], x[2], v)
    \/ Fail

Spec == Init /\ [][Next]_vars
=============================================================================
