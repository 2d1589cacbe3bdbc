----------------------------- MODULE MCGdbDebug -----------------------------
EXTENDS GdbDebug, TLC

CONSTANTS w1, w2, brk

(* Three instructions, two of them alike.                                  *)
MCCodeAddr == {0, 4, 8}
MCImage == (0 :> w1) @@ (4 :> w2) @@ (8 :> w1)
MCWord == {w1, w2, brk}

(* A watched word of data, a watched byte of it, and a watched instruction, *)
(* which placing and removing a breakpoint reads and writes.               *)
MCNoWatches == {}
MCWatches ==
    {[type |-> "write", addr |-> 16, len |-> 4], [type |-> "access", addr |-> 17, len |-> 1],
     [type |-> "access", addr |-> 4, len |-> 4]}

(* No access, a word or byte written, a load pair, a copy.                 *)
Load(a, n) == [addr |-> a, len |-> n, read |-> TRUE]
Write(a, n) == [addr |-> a, len |-> n, read |-> FALSE]
MCTouches ==
    {<<>>, <<Write(16, 4)>>, <<Write(17, 1)>>, <<Load(20, 4), Load(16, 4)>>,
     <<Load(16, 4), Write(16, 4)>>}
MCFewTouches == {<<>>, <<Write(16, 4)>>}
MCSw == {"sw"}
MCBoth == {"sw", "hw"}
=============================================================================
