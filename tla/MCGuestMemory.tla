--------------------------- MODULE MCGuestMemory ---------------------------
(***************************************************************************)
(* A guest address space of 20 addresses with pages of two bytes: text at  *)
(* 0, the thread local page at 2, the stack at 4, a hole at 6, the heap    *)
(* from 8 on and pRAM up to 9.                                             *)
(***************************************************************************)
EXTENDS GuestMemory

MCStaticMap == <<[addr |-> 0, len |-> 1], [addr |-> 4, len |-> 1]>>
MCTls == [addr |-> 2, len |-> 1]

(* A mirror of the stack above the heap, and one of the heap over itself.  *)
MCMirrors == {<<12, 4, 2>>, <<9, 8, 2>>}
(* The first mirror, a part of the heap, and the stack.                    *)
MCUnmaps == {<<12, 2>>, <<8, 4>>, <<4, 2>>}
MCQueries == {<<4, 9>>, <<4, 19>>, <<12, 4>>}
(* The stack, the seam of the heap, a byte nobody maps, and the top.       *)
MCAccesses == {<<4, 1>>, <<9, 2>>, <<18, 1>>, <<19, 1>>}

(* Mirrors that end at heap_base, for the comments of AddMemmap.           *)
EdgeMirrors == {<<12, 4, 2>>, <<6, 4, 2>>}
=============================================================================
