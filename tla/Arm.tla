-------------------------------- MODULE Arm --------------------------------
(***************************************************************************)
(* What the architecture promises a program, for the instructions Cpu.tla  *)
(* models: one action per class of instructions, over what a program sees. *)
(* The definitions follow the shared functions of the architecture's       *)
(* manual (AddWithCarry, the bitfield moves, ...), which the sources refer *)
(* to, and not the interpreter.                                            *)
(***************************************************************************)
EXTENDS ArmInteger, ArmMemory, ArmVector

Next == UNCHANGED code /\ (Integer \/ Memory \/ VectorInst)

Init == pc = 0 /\ ~monitor

Spec == Init /\ [][Next]_vars
=============================================================================
