------------------------------ MODULE GdbDebug ------------------------------
(***************************************************************************)
(* The debugger side of the emulator: the command handlers and the lists   *)
(* of breakpoints and watchpoints of GdbStub.cpp, the run loop and the     *)
(* breakpoint exception of ARMv8/Interpreter.cpp, and the notification of  *)
(* memory accesses in ARMv8/MMU.cpp.  The client (gdb) is external: it     *)
(* sends a command when it believes the guest stopped, and reads replies   *)
(* in the order they were sent.                                            *)
(*                                                                         *)
(* The guest program is any program: an instruction makes some accesses    *)
(* and continues anywhere, or ends the process (ns_abort, ExitProcess).    *)
(* It does not store to its own code, which is mapped.                     *)
(*                                                                         *)
(* The stub and the interpreter share one thread: a step of the model is   *)
(* one round of the loop of Interpreter::Run, and GdbStub::step, which is  *)
(* set and cleared within a round, is no variable.                         *)
(***************************************************************************)
EXTENDS Integers, Sequences, FiniteSets

CONSTANTS
    CodeAddr,    \* addresses of instructions
    Image,       \* the word of the program at each of them
    Word,        \* instruction words
    Brk,         \* BRK_0x0_INST
    BpTypes,     \* types the client places: "sw" and "hw" breakpoints
    Watches,     \* bound: watchpoints the client places, [type, addr, len]
    Touches,     \* bound: the accesses one instruction makes, in order,
                 \* each [addr, len, read]
    Shared,      \* the client places breakpoints of two types at an address
    MaxReplies   \* bound: replies the client leaves unread

InstLen == 4                        \* sizeof(uint32_t)

ASSUME ProgramAssumption ==
    /\ CodeAddr \subseteq Nat
    /\ Brk \in Word
    /\ Image \in [CodeAddr -> Word \ {Brk}]

ASSUME ClientAssumption ==
    /\ BpTypes \subseteq {"sw", "hw"}
    /\ Watches \subseteq [type : {"write", "read", "access"}, addr : Nat, len : Nat]
    /\ Touches \subseteq Seq([addr : Nat, len : Nat, read : BOOLEAN])
    /\ Shared \in BOOLEAN
    /\ MaxReplies \in Nat

VARIABLES
    code,        \* the guest memory that holds the program
    pc,          \* PC
    running,     \* the process has not ended
    cont,        \* GdbStub::cont
    bp_list,     \* the breakpoints, each with its oldop
    wp_list,     \* the watchpoints
    cmd,         \* the command on its way to the stub
    out,         \* replies on their way to the client
    mode,        \* what the client waits for
    want         \* the breakpoints the client has asked for

vars == <<code, pc, running, cont, bp_list, wp_list, cmd, out, mode, want>>

(***************************************************************************)
(* The vectors are searched for an equal element; a client never asks for  *)
(* one it has already, so their order shows nowhere.                       *)
(***************************************************************************)
Breakpoint == [type : BpTypes, addr : CodeAddr, len : {InstLen}]
Idle == [op |-> "none"]
(* "Zx" and "zx" are breakpoint commands for an address in no region, and  *)
(* "q" is each command that is answered from what the stub knows: g, p, q, *)
(* H, T and the unknown ones, whose reply is empty.                        *)
Plain == [op : {"c", "s", "q", "?", "Zx", "zx", "none"}]
Read == [op : {"m"}, at : {"mapped", "unmapped", "negative"}, long : BOOLEAN]
Command == Plain \cup Read \cup [op : {"Z", "z"}, at : Breakpoint \cup Watches]
Reply == {"OK", "E22", "E14", "data", "stop", "watch"}

Located(a) == {b \in DOMAIN bp_list : b.addr = a}
Bare == [b \in {} |-> Brk]

Init ==
    /\ code = Image
    /\ pc \in CodeAddr
    /\ running = TRUE
    /\ cont = FALSE
    /\ bp_list = Bare
    /\ wp_list = {}
    /\ cmd = Idle
    /\ out = <<>>
    /\ mode = "stopped"
    /\ want = {}

----------------------------------------------------------------------------
(***************************************************************************)
(* NotifyMemAccess: an access that covers a whole watchpoint of its type   *)
(* reports it, once, and stops the guest.                                  *)
(***************************************************************************)
HitWatchpoint(x) ==
    \E w \in wp_list :
        /\ x.addr <= w.addr /\ w.addr + w.len <= x.addr + x.len
        /\ w.type \in {"access", IF x.read THEN "read" ELSE "write"}

NotifyMemAccess(xs) ==
    [i \in 1..Cardinality({j \in 1..Len(xs) : HitWatchpoint(xs[j])}) |-> "watch"]

ReadInst(a) == [addr |-> a, len |-> InstLen, read |-> TRUE]
WriteU32(a) == [addr |-> a, len |-> InstLen, read |-> FALSE]

(* The loop comes to HandlePacket only while the guest is stopped.         *)
Listens == running /\ ~cont

Answer(replies) ==
    /\ out' = out \o replies
    /\ cmd' = Idle

(* Mutant: the stub forgets what it overwrites.                           *)
SavedBrk(b) == Brk

(* The operation a breakpoint saves before it overwrites it.               *)
Saved(b) == code[b.addr]

(* SwBreakpointInsert, whose constructor reads the word that it saves.     *)
SwBreakpointInsert(b) ==
    /\ Listens
    /\ cmd = [op |-> "Z", at |-> b]
    /\ bp_list' = [x \in DOMAIN bp_list \cup {b} |-> IF x = b THEN Saved(b) ELSE bp_list[x]]
    /\ code' = [code EXCEPT ![b.addr] = Brk]
    /\ Answer(NotifyMemAccess(<<ReadInst(b.addr), WriteU32(b.addr)>>) \o <<"OK">>)
    /\ UNCHANGED <<pc, running, cont, wp_list, mode, want>>

(* Mutant: the entry goes and the operation stays overwritten.            *)
RemoveLeavesBrk(b) ==
    /\ Listens
    /\ cmd = [op |-> "z", at |-> b]
    /\ b \in DOMAIN bp_list
    /\ bp_list' = [x \in DOMAIN bp_list \ {b} |-> bp_list[x]]
    /\ Answer(NotifyMemAccess(<<ReadInst(b.addr), WriteU32(b.addr)>>) \o <<"OK">>)
    /\ UNCHANGED <<code, pc, running, cont, wp_list, mode, want>>

(* SwBreakpointRemove: the key it searches with reads the word as well.    *)
SwBreakpointRemove(b) ==
    /\ Listens
    /\ cmd = [op |-> "z", at |-> b]
    /\ b \in DOMAIN bp_list
    /\ code' = [code EXCEPT ![b.addr] = bp_list[b]]
    /\ bp_list' = [x \in DOMAIN bp_list \ {b} |-> bp_list[x]]
    /\ Answer(NotifyMemAccess(<<ReadInst(b.addr), WriteU32(b.addr)>>) \o <<"OK">>)
    /\ UNCHANGED <<pc, running, cont, wp_list, mode, want>>

(* Mutant: an unknown breakpoint gets no reply.                           *)
NotFoundSilent(b) ==
    /\ Listens
    /\ cmd = [op |-> "z", at |-> b]
    /\ b \notin DOMAIN bp_list
    /\ Answer(<<>>)
    /\ UNCHANGED <<code, pc, running, cont, bp_list, wp_list, mode, want>>

SwBreakpointNotFound(b) ==
    /\ Listens
    /\ cmd = [op |-> "z", at |-> b]
    /\ b \notin DOMAIN bp_list
    /\ Answer((IF DOMAIN bp_list = {} THEN <<>>
               ELSE NotifyMemAccess(<<ReadInst(b.addr)>>)) \o <<"E22">>)
    /\ UNCHANGED <<code, pc, running, cont, bp_list, wp_list, mode, want>>

WatchpointInsert(w) ==
    /\ Listens
    /\ cmd = [op |-> "Z", at |-> w]
    /\ wp_list' = wp_list \cup {w}
    /\ Answer(<<"OK">>)
    /\ UNCHANGED <<code, pc, running, cont, bp_list, mode, want>>

WatchpointRemove(w) ==
    /\ Listens
    /\ cmd = [op |-> "z", at |-> w]
    /\ wp_list' = wp_list \ {w}
    /\ Answer(IF w \in wp_list THEN <<"OK">> ELSE <<"E22">>)
    /\ UNCHANGED <<code, pc, running, cont, bp_list, mode, want>>

(* A breakpoint command is not validated; removing from an empty list is   *)
(* refused before the address is read.                                     *)
StrayNotFound ==
    /\ Listens
    /\ cmd.op = "zx"
    /\ DOMAIN bp_list = {}
    /\ Answer(<<"E22">>)
    /\ UNCHANGED <<code, pc, running, cont, bp_list, wp_list, mode, want>>

(* SendSignal(GDB_SIGNAL_TRAP) on its own; no other state is read.         *)
InfoCommand ==
    /\ Listens
    /\ \/ cmd.op = "q" /\ Answer(<<"data">>)
       \/ cmd.op = "?" /\ Answer(<<"stop">>)
    /\ UNCHANGED <<code, pc, running, cont, bp_list, wp_list, mode, want>>

(***************************************************************************)
(* A read of memory is refused when it is too long for the buffer, then    *)
(* when its address is negative; GdbReadBytes turns notification off.      *)
(***************************************************************************)
ReadCommand ==
    /\ Listens
    /\ cmd.op = "m"
    /\ \/ cmd.long /\ Answer(<<"E22">>)
       \/ ~cmd.long /\ cmd.at = "negative" /\ Answer(<<"E14">>)
       \/ ~cmd.long /\ cmd.at = "mapped" /\ Answer(<<"data">>)
    /\ UNCHANGED <<code, pc, running, cont, bp_list, wp_list, mode, want>>

(* The commands that come to GetRawPtr with an address in no region.       *)
ReadsUnmapped ==
    \/ cmd.op = "m" /\ ~cmd.long /\ cmd.at = "unmapped"
    \/ cmd.op = "Zx"
    \/ cmd.op = "zx" /\ DOMAIN bp_list # {}

(* Which is ns_abort: no reply is sent, and the connection is gone.        *)
CommandAborts ==
    /\ Listens
    /\ ReadsUnmapped
    /\ running' = FALSE
    /\ UNCHANGED <<code, pc, cont, bp_list, wp_list, cmd, out, mode, want>>

Continue ==
    /\ Listens
    /\ cmd.op = "c"
    /\ cont' = TRUE
    /\ Answer(<<>>)
    /\ UNCHANGED <<code, pc, running, bp_list, wp_list, mode, want>>

----------------------------------------------------------------------------
(* Mutant: SingleStep returns before it adds the four.                    *)
PcAfterBrkBack(next) == pc - InstLen

(* Mutant: the exception returns behind the instruction.                  *)
PcAfterBrkSkips(next) == next

(* The BRK handler takes PC back by the four SingleStep adds.              *)
PcAfterBrk(next) == pc

(* Mutant: the trap leaves the guest running.                             *)
ContAfterTrapKept == cont

(* Trap, which the handler calls, stops the guest.                         *)
ContAfterTrap == FALSE

(* Mutant: the trap stops the guest and says nothing.                     *)
SignalLost == <<>>

(* SendSignal(GDB_SIGNAL_TRAP), the report of a breakpoint or a step.      *)
SendSignal == <<"stop">>

(* Mutant: a watchpoint reports and lets the guest run on.                *)
ContAfterRunsOn(reports) == cont

(* HitWatchpoint stops it too.                                             *)
ContAfter(reports) == cont /\ reports = <<>>

(***************************************************************************)
(* SingleStep: fetch, which a read watchpoint on the code sees, and        *)
(* execute.  more is what the run loop sends after it.                     *)
(***************************************************************************)
Fetch == <<ReadInst(pc)>>

StepOnBrk(more) ==
    /\ code[pc] = Brk
    /\ \E next \in CodeAddr : pc' = PcAfterBrk(next)
    /\ cont' = ContAfterTrap
    /\ out' = out \o NotifyMemAccess(Fetch) \o SendSignal \o more

StepOnCode(more) ==
    /\ code[pc] # Brk
    /\ \E next \in CodeAddr : pc' = next
    /\ \E xs \in Touches :
          /\ cont' = ContAfter(NotifyMemAccess(Fetch \o xs))
          /\ out' = out \o NotifyMemAccess(Fetch \o xs) \o more

(* A round with cont set does not look at the socket.                      *)
RunRound ==
    /\ running /\ cont
    /\ StepOnBrk(<<>>) \/ StepOnCode(<<>>)
    /\ UNCHANGED <<code, running, bp_list, wp_list, cmd, mode, want>>

(* A round that reads "s": one instruction and a trap, whatever it did.    *)
StepRound ==
    /\ Listens
    /\ cmd.op = "s"
    /\ StepOnBrk(SendSignal) \/ StepOnCode(SendSignal)
    /\ cmd' = Idle
    /\ UNCHANGED <<code, running, bp_list, wp_list, mode, want>>

(* A round, of either kind, whose instruction ends the process after some  *)
(* accesses.                                                               *)
GuestEnds ==
    /\ running
    /\ cont \/ cmd.op = "s"
    /\ code[pc] # Brk
    /\ running' = FALSE
    /\ \E xs \in Touches :
          /\ cont' = ContAfter(NotifyMemAccess(Fetch \o xs))
          /\ out' = out \o NotifyMemAccess(Fetch \o xs)
    /\ UNCHANGED <<code, pc, bp_list, wp_list, cmd, mode, want>>

Stub ==
    \/ \E b \in Breakpoint :
          SwBreakpointInsert(b) \/ SwBreakpointRemove(b) \/ SwBreakpointNotFound(b)
    \/ \E w \in Watches : WatchpointInsert(w) \/ WatchpointRemove(w)
    \/ StrayNotFound
    \/ InfoCommand
    \/ ReadCommand
    \/ CommandAborts
    \/ Continue
    \/ RunRound
    \/ StepRound
    \/ GuestEnds

----------------------------------------------------------------------------
(***************************************************************************)
(* The client.  It places no breakpoint twice, it takes a breakpoint off   *)
(* before it steps from its address, and it sends nothing on a connection  *)
(* that is gone.                                                           *)
(***************************************************************************)
MayPlace(b) ==
    /\ b \notin want
    /\ Shared \/ \A o \in want : o.addr # b.addr

Send(c, wait) ==
    /\ running
    /\ mode = "stopped"
    /\ cmd = Idle
    /\ Len(out) <= MaxReplies
    /\ cmd' = c
    /\ mode' = wait
    /\ UNCHANGED <<code, pc, running, cont, bp_list, wp_list, out>>

SendPlace(b) ==
    /\ MayPlace(b)
    /\ Send([op |-> "Z", at |-> b], "asked")
    /\ want' = want \cup {b}

SendRemove(b) ==
    /\ Send([op |-> "z", at |-> b], "asked")
    /\ want' = want \ {b}

SendWatch(w) ==
    /\ w \notin wp_list
    /\ Send([op |-> "Z", at |-> w], "asked")
    /\ UNCHANGED want

SendUnwatch(w) ==
    /\ Send([op |-> "z", at |-> w], "asked")
    /\ UNCHANGED want

SendRead == \E c \in Read : Send(c, "asked") /\ UNCHANGED want
SendInfo == \E o \in {"q", "?"} : Send([op |-> o], "asked") /\ UNCHANGED want
SendStray == \E o \in {"Zx", "zx"} : Send([op |-> o], "asked") /\ UNCHANGED want
SendContinue == Send([op |-> "c"], "running") /\ UNCHANGED want

SendStep ==
    /\ \A b \in want : b.addr # pc
    /\ Send([op |-> "s"], "stepping")
    /\ UNCHANGED want

(* The next reply is the one the client waits for, as far as it can tell.  *)
Receive ==
    /\ mode # "stopped"
    /\ out # <<>>
    /\ out' = Tail(out)
    /\ mode' = IF mode = "asked" \/ Head(out) \in {"stop", "watch"} THEN "stopped" ELSE mode
    /\ UNCHANGED <<code, pc, running, cont, bp_list, wp_list, cmd, want>>

Client ==
    \/ \E b \in Breakpoint : SendPlace(b) \/ SendRemove(b)
    \/ \E w \in Watches : SendWatch(w) \/ SendUnwatch(w)
    \/ SendRead \/ SendInfo \/ SendStray \/ SendContinue \/ SendStep
    \/ Receive

Next == Stub \/ Client

(***************************************************************************)
(* The thread of the interpreter never waits but for the socket, and the   *)
(* client reads what it is sent.                                           *)
(***************************************************************************)
Fairness == WF_vars(Stub) /\ WF_vars(Receive)

Spec == Init /\ [][Next]_vars /\ Fairness

----------------------------------------------------------------------------
TypeOK ==
    /\ code \in [CodeAddr -> Word]
    /\ pc \in CodeAddr
    /\ running \in BOOLEAN
    /\ cont \in BOOLEAN
    /\ DOMAIN bp_list \subseteq Breakpoint
    /\ bp_list \in [DOMAIN bp_list -> Word]
    /\ wp_list \subseteq Watches
    /\ cmd \in Command
    /\ out \in Seq(Reply)
    /\ mode \in {"stopped", "asked", "stepping", "running"}
    /\ want \subseteq Breakpoint

(***************************************************************************)
(* Breakpoints are transparent: at every moment, in any order of placing,  *)
(* removing, stepping and running, each instruction reads as the program   *)
(* has it or as BRK under a breakpoint that still knows the program's word *)
(* (GdbStub.cpp:186-208).  For a client that keeps one breakpoint at an    *)
(* address.                                                                *)
(***************************************************************************)
BreakpointsTransparent ==
    \A a \in CodeAddr :
        IF Located(a) = {}
        THEN code[a] = Image[a]
        ELSE code[a] = Brk /\ \A b \in Located(a) : bp_list[b] = Image[a]

(***************************************************************************)
(* The guest never executes an instruction that has a breakpoint: if its   *)
(* thread runs onto one it stays there and stops (Interpreter.cpp:11-18,   *)
(* 967-971; GdbStub.cpp:177-180).                                          *)
(***************************************************************************)
NoRunThrough ==
    [][(cont /\ Located(pc) # {} /\ (RunRound \/ GuestEnds)) => (pc' = pc /\ ~cont')]_vars

(***************************************************************************)
(* While the client believes the guest stopped it is: no instruction       *)
(* executes, nothing that was sent is still on its way, so the registers   *)
(* and memory the client reads are those of the stop it was told of        *)
(* (Interpreter.cpp:24-39 with GdbStub.cpp:177-180).  Without watchpoints, *)
(* which report more often than they are asked.                            *)
(***************************************************************************)
StopMeansStopped == mode = "stopped" => ~cont /\ cmd = Idle /\ out = <<>>

(* A guest that runs onto a breakpoint is reported to the client: no round *)
(* of the loop drops the stop (Interpreter.cpp:20-39, 967-971).            *)
BreakpointReported == (cont /\ Located(pc) # {}) ~> (mode = "stopped")

(***************************************************************************)
(* Every command but a continue is answered, and a step is over after one  *)
(* instruction (GdbStub.cpp:299-422, Interpreter.cpp:31-37), with two      *)
(* exceptions, in which the process ends and the client is left waiting: a *)
(* command whose address is not negative and in no region is not refused   *)
(* but reaches ns_abort (GdbStub.cpp:141-143, Memory.cpp:140-143), and the *)
(* instruction that is stepped may itself end the process.                 *)
(***************************************************************************)
LeftWaiting == ~running /\ (ReadsUnmapped \/ cmd.op = "s")

CommandAnswered ==
    (mode \in {"asked", "stepping"}) ~> (mode = "stopped" \/ LeftWaiting)

(***************************************************************************)
(* An instruction that touches a whole watched range stops the guest with  *)
(* a report, also when it is the second access of the instruction or when  *)
(* another watchpoint reports first (GdbStub.cpp:226-258, MMU.cpp:15-43).  *)
(***************************************************************************)
Covers(x, w) ==
    /\ w.addr \in x.addr..(x.addr + x.len - 1)
    /\ (w.addr + w.len - 1) \in x.addr..(x.addr + x.len - 1)
    /\ w.type = "access" \/ (w.type = "read") = x.read

WatchStops ==
    [][\A xs \in Touches :
          (/\ RunRound /\ code[pc] # Brk
           /\ cont' = ContAfter(NotifyMemAccess(Fetch \o xs))
           /\ out' = out \o NotifyMemAccess(Fetch \o xs)
           /\ \E i \in 1..Len(xs), w \in wp_list : Covers(xs[i], w))
          => ~cont' /\ Len(out') > Len(out)]_vars

----------------------------------------------------------------------------
(***************************************************************************)
(* What the comments of the code say and the code does not do.             *)
(***************************************************************************)

(***************************************************************************)
(* GdbStub.cpp:205, "Restore an original operation": an address without a  *)
(* breakpoint holds the program's operation.  With a software and a        *)
(* hardware breakpoint at one address the second one saved BRK.            *)
(***************************************************************************)
RestoresOriginal ==
    \A a \in CodeAddr : Located(a) = {} => code[a] = Image[a]

============================================================================
