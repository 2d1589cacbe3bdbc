# A verification project for nsemu

nsemu is a user-level Nintendo Switch emulator: an ARMv8 interpreter, a guest
physical memory, the supervisor calls and IPC services of Horizon OS, and a gdb
stub. These modules model the parts that keep state between guest instructions,
the instructions themselves, and the messages that guest and services exchange;
they check them with TLC on small instances and prove the main invariants with
TLAPS. Paths below are relative to `src/`.

## 1. The system

One host thread (`Nsemu.cpp`, `CpuThread`) runs everything: it decodes and
executes one instruction after another (`ARMv8/Interpreter.cpp`), and a
supervisor call, an IPC request or a debugger command is handled to its end
before the next instruction. So a step of every model is a whole handler. What
makes the system hard is not preemption but long histories: two ways to reach
memory that must agree, raw pointers that outlive objects, process-wide flags,
and a debugger that edits the program it runs.

| component | state | operations | what makes it correct | module |
|---|---|---|---|---|
| guest memory: `Memory.cpp`, `ARMv8/MMU.cpp` | region vector, blocks, `heap_size`, `pRAM` | map, unmap, resize the heap, mirror, describe, load, store | announced heap is mapped, accesses stay in live storage or just behind their block, an address keeps its storage, data survives, the list tells the truth | `GuestMemory` |
| IPC: `Ipc.cpp`, `include/Ipc.hpp`, `include/Nsemu.hpp` | handle table, service map, `is_domainobj` | connect, request, control commands | a handle leads to the object it was made for | `IpcServices` |
| service manager: `Service/Sm.cpp` | service map | look up, register, unregister | every name leads to a live object of its own | `IpcServices` |
| debugger commands: `GdbStub.cpp` 171-422, run loop of `ARMv8/Interpreter.cpp` | `bp_list`, `wp_list`, `cont`, the program's words | place, remove, step, continue, trap | breakpoints are transparent and not run through, client and guest agree on who is stopped, what is not answered is known | `GdbDebug` |
| debugger packets: `GdbStub.cpp` 424-536 | receive state, `cmd_buf`, checksum | one byte | the buffer holds, what is executed is what was sent | `GdbPacket` |
| instructions: `ARMv8/Interpreter.cpp`, `ARMv8/Disassembler.cpp` | registers, flags, vector registers, system registers, memory | 36 classes of instructions, each a composition of callbacks | results of the architecture, to the destination and nothing else | `Cpu` and the modules it extends |
| messages: `Ipc.cpp` 6-80, `include/Ipc.hpp` | a message buffer | parse, generate, read and write parameters | what one side writes is what the other reads | `IpcMessage` |
| generated stubs: `include/IpcStubs.hpp`, `GenIpcStubs.py` | none | dispatch of 3099 commands of 304 interfaces | each parameter is taken from and put where the guest has it | the six `IpcStubs` modules, `IpcShapes`, run through `IpcMessage` |
| services `Am`, `Vi`, `Dispdrv`, `Fsp`, `Bsd`, `Hid` | objects, a list of displays, host descriptors | open objects, forward to the host | | `IpcServices` models opening; rest not |
| threads: `Thread.cpp` | the main thread | create | | its handle, in `IpcServices` |
| loader, start-up, options, tracing | none later read | run once | | not modelled |

**Interactions.** Supervisor calls (`Svc.cpp`) call memory and IPC. IPC messages
travel through the thread-local page, a region of guest memory that is straight
and mapped at start-up (`TlsRegion`), so `IpcServices` needs no memory. Each load
and store notifies the debugger (`ARMv8/MMU.cpp` 26, 41), also those the debugger
itself makes; `GdbDebug` models the notification, `GuestMemory` the access.
`GdbPacket` hands complete commands to `GdbDebug`; the two share no variable but
the stream of commands, which is why they are not composed. `IpcServices` says
which object a request reaches and what becomes of handles, with messages
abstracted to whether their framing is the one the process expects;
`IpcMessage` says what is in a message when it is. `Cpu` takes every address to
have its byte; which addresses do is `GuestMemory`.

**Hard behaviours.** Overlapping regions and inclusive ends; shrinking and
regrowing; freed objects behind live handles; out parameters that error paths
leave unassigned; one domain flag for all sessions; offsets that two sides
compute by different rules; callbacks that share dummy registers with each other
and with their operands; saved operations of breakpoints that overlap; stop replies nobody asked for; the last place of a
buffer. `PROJECT.json` lists each at its line, with the properties that cover it.

## 2. Modules

**GuestMemory** (`MCGuestMemory`, `GuestMemoryProofs`). A region is a record with
a stamp, its place in the vector: push_back gives the next stamp, erase keeps the
rest, and `FindRamBlock` takes the least stamp. `mem` is host storage, a byte for
each cell of pRAM and of each live block, so that a freed block is an absent cell.
One action per call: `SetHeapSize` (`GrowHeap`, `ShrinkHeap`), `MirrorStack`,
`UnmapMemory`, `QueryMemory`, `Store`, and an action per call for what ends the
process (an abort, a fault, an invalid free). A load that succeeds changes
nothing and has no action; `AccessInBounds` speaks of loads as well. A block has the
length of its region and no byte more (`BlockCells`), while the lookup counts the end
of a region and ignores the width of the access, so an access may run behind its
block (`Overruns`). That is undefined, and the model takes what the build can make
of it: the bytes behind a block, less than an access's width, are the allocator's; a
load finds anything there (`Junk`), a store is lost and sets `overrun`, after which
any later step may be the allocator ending the process (`AllocatorAborts`), and the
access itself may fault (`AccessFails`). Damage that a lost store does elsewhere
is not modelled. An access that ends at or over the top of the address space runs no
round of the byte loops (`Width`): it reads zero or stores nothing. Sizes are 64-bit
numbers: `SetHeapSize` announces all of a growth, and `AddMemmap` maps what an
unsigned int holds of it (`UInt`, `CutOff`). `QueryMemory` stores `InfoSize` bytes.
`memory_type` and `permission` of a MemInfo are abstracted to free or not. `unmapped`
is a history variable: what was unmapped, and what of a growth could not be mapped.
Assumptions, named in the module: a static region and the thread-local page end
below `heap_base`, and the host has memory for each block that is asked for.

**AddressSpace** (`AddressSpaceProofs`) is what the guest may think of its memory: how
many times each address is mapped (`layers`) and the byte of each address that can
be accessed (`bytes`), without regions, stamps, blocks or host pointers. Mapping adds
a layer to a range and changes no byte; a mirror copies; unmapping takes layers away
within its range and touches a byte only where it took one; a store changes what it
was aimed at; `Fail` lists the reasons for which a call may end the process.
`GuestMemory` implements it (`IsAddressSpace`, with `View` as the refinement mapping):
`layers` counts the regions that hold an address, `bytes` looks each address up, and
`lasts` are the last addresses of regions. Three places have few promises: an access
that crosses `heap_base`, which goes to a block or faults as a whole; `heap_base`
itself, which a region without storage may hold; and the last address of a region,
which is mapped and gets no byte from it, so that an access to it may end the process
and a store may do so later (`damaged`). A size that its unsigned int does not hold is
taken in part (`Taken`).

**IpcServices** (`MCIpcServices`, `IpcServicesProofs`). A service object lives in a
slot, the address `new` returned; deleting frees it and a later object may get
it. Handles and the service map hold slots, as the code holds raw pointers; the
history variables `gen`, `made` and `ended` say which object is meant; a duplicate
inherits it from its session. The service manager's four commands and the four control commands are actions; all generated
services are one class with a command that answers, one that opens an object
and one that leaves its out parameter unassigned (the choice over what the stack
held is nondeterministic). A handle to a base class, as every event is, is answered
with any error, because the Dispatch of `IpcService` generates no reply and the error
code is read from a place nobody wrote (`BaseDispatch`); where that place lies outside
of the buffer is one of the cases of `NormalFails`. A message framed for the wrong kind of session is
read from the wrong offset: any command, any name, so one such message stands for
all, as does one message to a handle whose object does not look at it (`Sent`). What undefined behaviour would do after a wild dispatch is cut off by
`Halt`.

**Sessions** is what a program may think of its handles: each is a session with one
thing for ever, names are bound to objects that exist, an identity that was deleted
never comes back. An answer says what a request did, a request without an answer
(which `SendSyncRequest` reports as a success) did nothing to a session, a name or an
object, and a service does something only through a session that reaches an object.
How messages are framed is no part of it: an unanswered conversion does set
`is_domainobj`, and the run `ipc_domain` is about that. `IpcServices` implements it
(`IsSessions`): an object is a slot with the number of objects the slot has held, a
session what its handle was made for. Two places have few promises, as in the code:
a session whose object was deleted may reach the object that took its memory, and an
unassigned out parameter brings a session with anything that was made before.

**GdbDebug** (`MCGdbDebug`, `GdbDebugProofs`). One step is one round of
`Interpreter::Run`: a command, an instruction, or both for `s`; `GdbStub::step`
lives only within a round. The client (gdb) is external: it sends when it believes
the guest stopped, one command at a time, reads replies in order, and does not
step from an address it has a breakpoint at. The guest program is any program:
an instruction makes some accesses and continues anywhere, or ends the process
(`GuestEnds`). It does not store to its own code and contains no BRK. A command may
end the process too: a read of memory is refused when it is too long (E22) or its
address negative (E14), but any other address in no region reaches `ns_abort`, from a
read as from a breakpoint command (`ReadsUnmapped`, `CommandAborts`). Then `running`
is false and nothing is answered. `CommandAnswered` names the two ways in which a
client is left waiting. `bp_list` is a function from breakpoint to
saved operation: the client never asks for the same one twice, so the order of
the vector shows nowhere.

**GdbPacket** (`MCGdbPacket`, `GdbPacketProofs`). The automaton of
`HandlePacket`, one action per state and kind of byte, over numbers, with the real
codes of `$ # * }` and of digits and the real width of the checksum. `Roles` and
`Decode` are the reference: what the protocol says a payload stands for. `raw` and
`clean` are history variables. A command is opaque but for the reply buffer of `m`.

**IpcMessage** (`IpcShapes`, the six `IpcStubs` modules, `MCIpcMessage`,
`IpcMessageProofs`). The life of one message at a time: `SendCommand` or
`SendControl` lays a request out, `Normal` parses it, hands a stub its
parameters and generates the reply, one action per control command,
`Close`, the failures and the aborts, and `Receive` reads the reply. A message is a
function from its 256 addresses to bytes, and a byte is known by the thing it
belongs to and its place in that thing, so that four bytes of an address cannot
be taken for four of another value; header words are records of their fields
(the packing of a descriptor's address and size into bits is abstracted). The
client is the guest's library and external: it lays a request out from the sizes
of the parameters, sends moved input handles also in a domain, and reads a reply
by the counts in its header. A command is a shape (`IpcShapes`): what the
generated Dispatch takes, with the offset it takes it from, and what it puts. The
`IpcStubs` modules hold one definition per interface, each the table of what its
Dispatch does. The implementation behind a Dispatch is a free choice of which
objects it returns; one that returns nothing is `Unassigned`; data outputs are
taken as assigned. A warning that is only printed is left out.

Where guest and stub disagree is named in a definition of its own, and the
properties say that they agree everywhere else:
  - `Late`: the generator (`GenIpcStubs.py` 170) aligns offsets counted from
    behind the command word, so that a value of six bytes is read four bytes late
    and one of three bytes one (`include/IpcStubs.hpp` 10368, 24988);
  - `Widened`: the process number has eight bytes in the request and is kept in an
    `unsigned int` (`include/Ipc.hpp` 12, `Ipc.cpp` 24), so that handlers, which take
    a `uint64_t`, get its lower four bytes and four of zero;
  - `Origin`: `GetBuffer` ignores the number of a C descriptor, so that the second
    buffer received by pointer is the first one;
  - the commands with two copied handles get the first one twice
    (`Ipcdefs/Auto.def` 1023, from `GenIpcStubs.py` 158);
  - `Replaced`: in a domain, 14 commands return objects and data, and `SetMove`
    writes the objects over the first words of the data;
  - `Shift`: `GenBuf` frames the reply of a control command in a domain, where the
    client expects none.
`ReplySized` holds although the sum in `GenBuf` (`Ipc.cpp` 67) parses otherwise
than it reads: the padding it adds covers the words it forgets. A converted
session's reply is never copied (`ConvertSessionToDomain` leaves its result at
0xf601), which is the phase `echoed`.

**Cpu** (`Words`, `Callbacks`, `MemoryCallbacks`, `VectorCallbacks`, `Decoder`,
`MemoryDecoder`, `VectorDecoder`). An instruction is a composition of callbacks
(`AddReg`, `ShiftI64`, `LoadRegI64`, `WriteVecElem`, ...) that share the register
files and dummy registers; what one writes a later one reads. There is an operator
for each callback, from machine to machine, and one for each decoder function,
which composes them in the order of the code; an action is `SingleStep` on an
instruction of one class: fetch, execute, add 4 to the PC, reset register 31. An
instruction is the record of the fields the decoder extracts: bit positions, the
decode tables, the expansion of vector immediates and encodings that abort are
abstracted. Encodings that are accepted and do nothing are not: FCVT, FRINTX and
FRINTI are in `DisasFp1Src`. SVC and BRK are the business of the other modules. `Words` is
arithmetic over a width: a W register has `Half` bits, an X register twice that, a
vector register four times, a byte a quarter. Memory is a function of every
address. The loops of `ReadFromRAM` and `WriteToRAM` run while an address is below the
end of the access (`Span`): where that end wraps to zero they do not run at all, so
such an access reads zero and stores nothing. The runs make none; the theorems allow
for it. `Instruction` says, class by class, which fields the decoder can extract; a
program is any function to such instructions (`CpuAssumption`).

**Arm** (`ArmState`, `ArmInteger`, `ArmMemory`, `ArmVector`) is the reference, a
machine that does what the architecture's manual says in one step, without
callbacks or dummy registers; `IntegerErrata` instantiates it with its registers taken
from the register files. `monitor`, whether an exclusive access is being monitored,
is a history variable of `Cpu`: the interpreter has no such state.

**CpuErrata** (`IntegerErrata`, `MemoryErrata`) is the catalogue of
departures: for each, the instruction and the operand values. It is exact, and
`Architecture` says so: a step that the catalogue is silent about is a step of
`Arm`, and one that it names is not. In short:
  - *flags*: the carry when zero is subtracted from a W register, V of a
    subtraction of the least number, the carry and V of ANDS and BICS; ADCS adds the
    carry it has just made, SBC subtracts in full and adds the carry;
  - *fields*: BFI of a source wider than its field; fields of length 64; SBFM,
    MOVK and MADD of W registers, which keep or fill the upper half; EXTR; rotations;
    LSLV and LSRV of W registers by 32 or more;
  - *arithmetic*: SDIV of W registers, SMADDL without sign, SMULH, which is the low
    word; CLS of zero; REV16 and REV32 of X registers, RBIT of W registers;
  - *register 31*: ORR and EOR to it, AND of an immediate to SP, ADD and SUB of
    extended registers from and to SP;
  - *branches*: BLR of the link register, TBZ in the upper half of the address
    space;
  - *loads*: only bit 31 is ever extended, so that LDRSB, LDRSH, LDPSW and the
    literal LDRSW lose their sign; an index register 31 is SP, and a W index and its
    sum stay in the lower half; a literal is read an instruction early, through the
    destination's general register; pairs of S and D registers go through the
    general registers; an exclusive store always succeeds;
  - *structures*: at SP they use address zero and do not move SP; 8-byte
    registers keep their upper half; the immediate post-index of a single structure
    sets its base to 34;
  - *system*: DC ZVA clears nothing, and MSR writes registers that can only be read;
  - *vectors*: instructions on 8 bytes keep or compute the upper half; DUP of an
    element fills by where the element comes from; CMTST looks at one bit; SMAXP and
    its kind take the first of a pair; ADDP on 8 bytes copies what an earlier one
    left above; a scalar DUP within a register and the sign of SMOV are lost; FMOV to
    a single moves 16 bits, and to an upper double clears the lower; FCVT, FRINTX and
    FRINTI do nothing (what they should give is left open but for zero).

## 3. Runs

All passing runs are exhaustive within their bounds. Every mutant listed in
`PROJECT.json` is a plausible slip in the mapped code that TLC refutes.

| run | result | question |
|---|---|---|
| `memory` | pass, 11254 states | does every history of calls keep the address space right? |
| `memory_edge` | violated | has each address of a region storage, straight or its own (`Memory.cpp` 79, 86)? |
| `ipc` | pass, 401026 states | do handles and names keep their objects, as `Sessions` says? |
| `ipc_lookup` | violated | does an error move nothing (`Sm.cpp` 11-13)? |
| `ipc_domain` | violated | is a conversion per session (`Ipc.cpp` 126)? |
| `debug` | pass, 2538 states, with liveness | are breakpoints transparent, effective and reported? |
| `debug_watch` | pass, 93666 states | and with watchpoints, when the client is out of step? |
| `debug_shared` | violated | does a removal restore the original operation (`GdbStub.cpp` 205)? |
| `packet` | pass, 3.7 million states | is exactly what was sent executed, and does the buffer hold? |
| `packet_reply` | violated | does a memory reply fit (`GdbStub.cpp` 335)? |
| `message` | pass, 3268 states | is what is written into a message what is read, for every command? |
| `cpu` | pass, 934010 states | does each instruction do what the architecture says, exactly but for the catalogue? |

**Bounds.** `memory`: 20 addresses, pages of two bytes, accesses up to two bytes,
three heap sizes, of which one is longer than an unsigned int holds, a MemInfo of
two bytes, two mirrors (one overlaps the heap), three unmaps (one of the
first mirror, one of heap, one of a static region), at most three regions pushed
after start-up (`MaxStamp`). Three is enough for an overlap, a region hidden by
another, and a third that must not disturb them; the theorems drop the bounds.
`ipc`: two slots, two names, four handles beyond the first, two objects per slot:
the least in which an object is deleted, its slot reused and an old handle
duplicated. `debug`: three instructions, two types of breakpoint at each: every
subset of places, and reads and breakpoint commands of every kind of address;
`MaxReplies` lets the client leave replies unread when
watchpoints put it out of step. The watchpoints are a word of data, a
byte of it, and an instruction, which breakpoint handling itself accesses. `packet`: payloads of up to five bytes (six when
the last is a count) over seven bytes and a buffer of six: plain and run-length
overruns and every escape occur; `BufferBound` is proved for every size.
`message`: nothing is cut: the layout of each of the 3099 commands (396
different shapes), in a session and in a domain, each choice of buffers by pointer
or by address, each set of returned objects. `cpu`: words of 8 and 4 bits and
bytes of 1 bit, so that each width is a proper part of the next as in the code.
Integer programs take two source registers with any of ten values (0, 1, both sides
of each half and of the sign, two mixed patterns), and every set of flags for the
instructions that read them (none and all for the others), with the destination a
source, another register or 31. Memory programs take two bases, four indices and
three fillings of the vector registers; the bytes of memory follow a pattern
without a short period, so that a wrong address shows. Vector programs take three
sets of 48 fillings. Programs have one instruction, and a few have two or three.
The run fails at a step the catalogue names that is the architecture's, as at one
it misses.

**Deadlock** is checked for `packet` and `message`. A `Cpu` program ends when it
runs off its code. The memory, IPC and debugger models stop when the process ends;
the first two also when the bounds on stamps, handles and objects are used up, and
in `debug_watch` the bound on unread replies can stop the client. That the debugger
does not stop before the process ends is what `CommandAnswered` says.

**Fairness.** `GdbDebug` alone states liveness, under weak fairness of the stub
and of the client's reading: the interpreter thread waits for nothing but the
socket while it has a command or runs the guest, and gdb reads what it is sent.
Nothing is assumed about which instruction the guest executes next, nor that the
client ever sends another command.

## 4. Proofs

`tlapm` checks every theorem to its leaves.

*Memory.* `IInv` is `TypeOK`, `StampsOK`, `NullBlocksBelowHeap` and `HeapMapped`. The
stamps are what makes "first match" a function: distinct and below the next one,
so that a pushed region never comes first (`FindKept`). `NoWildAccess` then follows
from typing (storage exists for exactly the live blocks) and `FindFacts`, which puts an
access into its block or behind it by less than its width.
`NullBlocksHarmless` needs the wrapped arithmetic of `IsStraight`.
`ResolutionIsStable` is proved from `StepsPushBehind`: each step keeps the old
regions it does not erase and pushes at most one with a greater stamp.
`ResizingKeepsData` and `UnmappingKeepsOutside` follow from `StepKeepsCells`: a step
that keeps an address's region keeps its cell, and an erased region lies within the
range that was given up. `ListIsTruthful` holds for regions that overlap, nest or
wrap: `Before` orders the regions totally (`FirstRegion`, `LastRegion`), and an
address in no entry would, by `GapDescends`, be preceded by ever earlier regions.
`MirroringCopies` needs that distinct addresses of a range
have distinct cells (`CellDistinct`). It holds for mirrors of any size; what the
property says is limited to sizes that the int of `ReadBytes` and `WriteBytes` holds.
`HeapStaysMapped` holds for any size too: `CutOff` is exactly what a growth announces
and cannot map.

`MemoryIsAddressSpace` is the refinement: each action of `GuestMemory` is an action of
`AddressSpace` (`GrowIsSetHeap`, `MirrorIsMirror`, `UnmapIsUnmap`, `QueryIsDescribe`,
`StoreIsStore`), and each way to end the process is one of its reasons
(`RefusedAccess` and the three after it). `ReachableByte` says which addresses have a
cell; `SameHits`, that an address held by the same regions resolves alike, which is why
layers that stay mean a byte that stays. It needs one more invariant, that static
regions lie below `heap_base` (`StaticStaysBelow`).

*IPC.* The invariant adds to the types that each live object's generation is the
slot's, that each handle's `made` is that generation or ended, and that names are
on distinct live slots, the fact that `UnregisterService` deletes one object and
not two names' object. `SessionsKeepTheirService`, `MapIsLive` and
`HandlesAreForEver` follow.

`IpcIsSessions` is the refinement of `Sessions`, request by request (`SmManages`,
`NormalIsRequest`, `DuplicateIsDuplicate`). It needs that identities are not used
again (`Identities`, `IdentitiesAreForEver`): what was deleted at a slot has a smaller
number than what is there, or the same when the slot is free. So what `new` returns is
an object that never was (`Creates`), and a handle whose slot was reused, being made
for an ended identity, is not mistaken for one of the new object.

*Debugger.* `BreakpointsTransparent` is not inductive: placing a breakpoint is
harmless because none is at its address, which the client decides from what it
has asked for. `Settled` relates `want`, `bp_list` and the command on its way;
`OnePerAddress` is the client's rule. The theorems assume `~Shared`, and the run
`debug_shared` shows why. `StopsAgree` (with `Watches = {}`) adds `Turn`: one command
or one reply on the way, never both; a step sends one stop because transparency
says the instruction is not BRK. `WatchpointsStop` is about one step: a covered range
is a hit (`CoveredIsHit`), and one hit among any number of accesses makes a report
(`HitIsReported`).

*Packets.* `BufferBound` with the types is inductive once `HighFirst` says that the
low digit falls in cleared bits. `AcceptedFrames`, `RefusedFrames` and `DropsAreFull`
relate the receiver to the reference through `Tracks`: in a frame that began cleanly
the buffer is the decoding of the bytes so far, the sum is theirs, and the state
says which role the last byte had. `Decode` is recursive: its equations come from
`IntervalRecursion`, and `PrefixKept` says that a further byte changes nothing
before it.

*Induction.* The library states induction with an operator, which no prover here
instantiates. `Induction` states it with sets, from the well-foundedness of the
natural numbers: a set that holds 0 and the successor of each of its members below
`n` holds `0..n`, a recursive function is defined by its equations, a nonempty set
has a least number.

*Messages.* The theorems hold for every table of commands that are `WellFormed`:
each value is taken from where the client has it, but for lateness, no value overlaps
the next, a handle or buffer has the number of its place, GenBuf is told the right
sums and the reply fits. The assumption speaks of the generated table alone, neither
of a message nor of a run, and TLC evaluates it for all 3099 commands.
The inductive invariant is `SentIsRequest` (while a message is sent, the buffer is
what `Request` lays out for the call) and `AnsweredIsReply` (once a command is
answered, what was handed over came from that request, and the buffer is `Reply`).
A byte of a message is what the one piece that covers it says (`OverAt`), so each
reading is a proof that no other piece covers the place. For requests,
`RequestZones` puts each piece into one of ten zones with growing edges and, in a
zone of handles or descriptors, into the slot of its parameter; what differs in zone
or slot lies apart, so that all of it is read whole (`PieceBytes`). For replies, the
four layers are peeled off from the last. Where an argument lies is the recursive
`End`: its equations (`EndDef`) and its growth (`EndGrows`) are by induction over the
parameters.

*Interpreter.* `ComparesDecide` and `WideSums` hold for every width of the registers.
They rest on the half adder from which the code takes the carry: `HalfOfTheSum` says
that it is half of the sum without overflow, because a word is the sum of its bits
(`NumOfBits`) and two words add up to twice the bits they share and once the others
(`NumsTogether`), both by induction over the bits. `FlagsOfSum` says what the flags of
a sum mean, `ConditionsDecide` that each of ten conditions after adding a negated
immediate is the relation it is named for. `ComparisonInv` and `SumInv` say what the
flags stand for between the two instructions: the relation, and the carry. An
immediate is below the sign bit: the code's have 24 bits of 64.

`TypeCorrect` holds for every width and every program of well-formed instructions,
whatever the run's programs are. `TypeInv` adds to `TypeOK` that the program is such
a program and that memory is a function from words to bytes (`Memories`). A
`Machine` is what an instruction works on; the proof goes bottom up: the operators of
`Words` give words (`BitwiseRange`, `ShiftRange`, `DigitsRange`), each callback makes a
machine of a machine (`Calculates`, `MemoryWrites`, `LanePuts`), each decoder function
does, of the fields it is given (`BitfieldKeeps`, `MultiplesKeep`, `PairsCombine`), and
`SingleStep` retires one (`StepsAreMachines`). What has to be shown is that nothing is
stored that was not cut to its target, that every register named is there, dummy
registers included, and that an element lies within its vector register
(`WithLaneRange`): in the code these are unions and arrays without a check. Loops over
elements are recursive functions, of which the last value is a machine if the first
is and each keeps it (`HoldsAtEnd`).

**Only model-checked.** `Architecture` of `Cpu`, which compares every class of
instruction with the manual; the liveness
properties `BreakpointReported` and `CommandAnswered`: the prover handles neither
fairness nor ENABLED.

## 5. What the code does otherwise than it says

Five runs end in a counterexample to a comment of the code; `PROJECT.json`
quotes each line. In short: the last address of a region has no storage, so that
the last byte of the heap lies behind its block and a region that ends at `heap_base`
faults there; a failed lookup moves a handle made of an unassigned pointer;
converting one session converts all; two breakpoints of different types at one
address leave BRK behind; a memory read of half the buffer writes one byte too
many.

Others are in the models without a run, for the code says nothing of them:
`QueryMemory` stores past the region lookup; a debugger's read of an unmapped address
ends the process; breakpoint handling reports
watchpoints; the disagreements `IpcMessage` names and the departures of `CpuErrata`
(section 2).

## 6. Not modelled, and the plan

Not modelled: the loader and start-up (run once, before any state here changes),
tracing and logging, the socket calls of the stub (a reliable stream), host calls
of the file and socket services and the vendored option parser. The scripts that
generate the stubs are modelled by the rules of layout they apply (`IpcShapes`) and by
their output. The supervisor calls that are left out return constants. A guest that
stores to its own code under a breakpoint is left out of `GdbDebug`.

What the plan has left: `Displays`, the list of `Dispdrv.cpp` and the copies it
returns; and of `Architecture`, theorems for one class of instructions after another.
