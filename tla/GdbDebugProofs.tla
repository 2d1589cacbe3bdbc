--------------------------- MODULE GdbDebugProofs ---------------------------
(***************************************************************************)
(* Breakpoints are transparent for every program, every client that keeps  *)
(* one breakpoint at an address, and every set of watchpoints.             *)
(*                                                                         *)
(* BreakpointsTransparent is not inductive: placing a breakpoint is        *)
(* harmless only because none is at its address already, and that the      *)
(* client decides from what it has asked for, not from bp_list.  Settled   *)
(* relates the two while a command is on its way, and OnePerAddress says   *)
(* what the client's rule achieves.                                        *)
(***************************************************************************)
EXTENDS GdbDebug, FiniteSetTheorems, SequenceTheorems, TLAPS

OnePerAddress(S) == \A b \in S, c \in S : b.addr = c.addr => b = c

(* The breakpoint a removal on its way takes off.                          *)
Leaving == IF cmd.op = "z" THEN {cmd.at} ELSE {}

Settled ==
    /\ DOMAIN bp_list \ Leaving \subseteq want
    /\ \A b \in Breakpoint : cmd = [op |-> "Z", at |-> b] =>
           b \in want /\ b \notin DOMAIN bp_list

IInv ==
    /\ TypeOK
    /\ OnePerAddress(want)
    /\ OnePerAddress(DOMAIN bp_list)
    /\ Settled
    /\ BreakpointsTransparent

----------------------------------------------------------------------------
(* A notification sends a sequence of watch reports (GdbStub.cpp:226-258). *)
LEMMA NotifyType ==
    ASSUME NEW xs \in Seq([addr : Nat, len : Nat, read : BOOLEAN])
    PROVE  NotifyMemAccess(xs) \in Seq(Reply)
<1> DEFINE hits == {j \in 1..Len(xs) : HitWatchpoint(xs[j])}
<1>1. IsFiniteSet(1..Len(xs))
  BY FS_Interval
<1>2. IsFiniteSet(hits)
  BY <1>1, FS_Subset
<1>3. Cardinality(hits) \in Nat
  BY <1>2, FS_CardinalityType
<1> QED
  BY <1>3 DEF NotifyMemAccess, Reply

(* The accesses of a breakpoint command and of a fetch are typed.          *)
LEMMA AccessType ==
    ASSUME NEW a \in CodeAddr
    PROVE  /\ <<ReadInst(a)>> \in Seq([addr : Nat, len : Nat, read : BOOLEAN])
           /\ <<ReadInst(a), WriteU32(a)>> \in Seq([addr : Nat, len : Nat, read : BOOLEAN])
  BY ProgramAssumption DEF ReadInst, WriteU32, InstLen

(* What the stub sends while it handles a breakpoint is typed.             *)
LEMMA AnswerType ==
    ASSUME TypeOK, NEW b \in Breakpoint
    PROVE  /\ out \o (NotifyMemAccess(<<ReadInst(b.addr), WriteU32(b.addr)>>) \o <<"OK">>) \in Seq(Reply)
           /\ out \o (NotifyMemAccess(<<ReadInst(b.addr)>>) \o <<"E22">>) \in Seq(Reply)
           /\ out \o (<<>> \o <<"E22">>) \in Seq(Reply)
<1>1. b.addr \in CodeAddr
  BY DEF Breakpoint
<1>2. NotifyMemAccess(<<ReadInst(b.addr), WriteU32(b.addr)>>) \in Seq(Reply)
  BY <1>1, AccessType, NotifyType
<1>3. NotifyMemAccess(<<ReadInst(b.addr)>>) \in Seq(Reply)
  BY <1>1, AccessType, NotifyType
<1>4. <<"OK">> \in Seq(Reply) /\ <<"E22">> \in Seq(Reply) /\ <<>> \in Seq(Reply)
  BY DEF Reply
<1>5. out \in Seq(Reply)
  BY DEF TypeOK
<1> HIDE DEF NotifyMemAccess, Reply
<1> QED
  BY <1>2, <1>3, <1>4, <1>5

(* What a round sends when it fetches BRK is typed.                        *)
LEMMA TrapType ==
    ASSUME TypeOK, NEW more \in Seq(Reply)
    PROVE  out \o NotifyMemAccess(Fetch) \o SendSignal \o more \in Seq(Reply)
<1>1. NotifyMemAccess(Fetch) \in Seq(Reply)
  BY AccessType, NotifyType DEF TypeOK, Fetch
<1>2. SendSignal \in Seq(Reply)
  BY DEF Reply, SendSignal
<1>3. out \in Seq(Reply)
  BY DEF TypeOK
<1> HIDE DEF NotifyMemAccess, Reply, Fetch, SendSignal
<1> QED
  BY <1>1, <1>2, <1>3

(* What a round sends when it executes another instruction is typed.       *)
LEMMA ReportType ==
    ASSUME TypeOK, NEW xs \in Touches, NEW more \in Seq(Reply)
    PROVE  /\ out \o NotifyMemAccess(Fetch \o xs) \in Seq(Reply)
           /\ out \o NotifyMemAccess(Fetch \o xs) \o more \in Seq(Reply)
<1>1. Fetch \in Seq([addr : Nat, len : Nat, read : BOOLEAN])
  BY AccessType DEF TypeOK, Fetch
<1>2. xs \in Seq([addr : Nat, len : Nat, read : BOOLEAN])
  BY ClientAssumption
<1>3. Fetch \o xs \in Seq([addr : Nat, len : Nat, read : BOOLEAN])
  BY <1>1, <1>2
<1>4. NotifyMemAccess(Fetch \o xs) \in Seq(Reply)
  BY <1>3, NotifyType
<1>5. out \in Seq(Reply)
  BY DEF TypeOK
<1> HIDE DEF NotifyMemAccess, Reply, Fetch
<1> QED
  BY <1>4, <1>5

(* A round of the interpreter keeps the types.                             *)
LEMMA RoundType ==
    ASSUME TypeOK, NEW more \in Seq(Reply), StepOnBrk(more) \/ StepOnCode(more)
    PROVE  pc' \in CodeAddr /\ cont' \in BOOLEAN /\ out' \in Seq(Reply)
<1>1. CASE StepOnBrk(more)
  BY <1>1, TrapType DEF StepOnBrk, PcAfterBrk, ContAfterTrap, TypeOK
<1>2. CASE StepOnCode(more)
  <2>1. PICK xs \in Touches :
           /\ cont' = ContAfter(NotifyMemAccess(Fetch \o xs))
           /\ out' = out \o NotifyMemAccess(Fetch \o xs) \o more
    BY <1>2 DEF StepOnCode
  <2>2. cont' \in BOOLEAN
    BY <2>1 DEF ContAfter, TypeOK
  <2> QED
    BY <1>2, <2>1, <2>2, ReportType DEF StepOnCode
<1> QED
  BY <1>1, <1>2

----------------------------------------------------------------------------
(* A watchpoint is no breakpoint, and Brk is a word the program lacks.     *)
LEMMA Disjoint == Breakpoint \cap Watches = {}
  BY ClientAssumption DEF Breakpoint

(* The strengthening holds initially.                                      *)
LEMMA InitInv == Init => IInv
<1> SUFFICES ASSUME Init PROVE IInv
  OBVIOUS
<1>1. DOMAIN bp_list = {}
  BY DEF Init, Bare
<1>2. TypeOK
  <2>1. code \in [CodeAddr -> Word]
    BY ProgramAssumption DEF Init
  <2>2. bp_list \in [DOMAIN bp_list -> Word]
    BY DEF Init, Bare
  <2>3. cmd \in Command
    BY DEF Init, Command, Plain, Idle
  <2>4. out \in Seq(Reply) /\ wp_list \subseteq Watches /\ want \subseteq Breakpoint
    BY DEF Init
  <2>5. pc \in CodeAddr /\ running \in BOOLEAN /\ cont \in BOOLEAN /\ mode = "stopped"
    BY DEF Init
  <2> QED
    BY <1>1, <2>1, <2>2, <2>3, <2>4, <2>5 DEF TypeOK
<1>3. BreakpointsTransparent
  BY <1>1 DEF BreakpointsTransparent, Located, Init
<1>4. Settled
  BY <1>1 DEF Settled, Init, Idle
<1> QED
  BY <1>1, <1>2, <1>3, <1>4 DEF IInv, OnePerAddress, Init

(* Placing a breakpoint: none is at its address, so what it saves is the   *)
(* operation of the program.                                               *)
LEMMA InsertInv ==
    ASSUME IInv, NEW b \in Breakpoint, SwBreakpointInsert(b)
    PROVE  IInv'
<1> USE DEF SwBreakpointInsert, IInv
<1>1. b \in want /\ b \notin DOMAIN bp_list
  BY DEF Settled
<1>2. cmd' = Idle /\ Leaving = {} /\ DOMAIN bp_list \subseteq want
  BY DEF Answer, Leaving, Settled
<1>3. DOMAIN bp_list' = DOMAIN bp_list \cup {b}
  OBVIOUS
<1>4. \A o \in DOMAIN bp_list : o.addr # b.addr
  BY <1>1, <1>2 DEF OnePerAddress
<1>5. b.addr \in CodeAddr
  BY DEF Breakpoint
<1>6. code[b.addr] = Image[b.addr]
  BY <1>4, <1>5 DEF BreakpointsTransparent, Located
<1>7. TypeOK'
  <2>1. out' \in Seq(Reply)
    BY AnswerType DEF Answer
  <2>2. code' \in [CodeAddr -> Word]
    BY ProgramAssumption DEF TypeOK
  <2>3. DOMAIN bp_list' \subseteq Breakpoint /\ bp_list' \in [DOMAIN bp_list' -> Word]
    BY <1>3, <1>5 DEF TypeOK, Saved
  <2>4. cmd' \in Command
    BY <1>2 DEF Idle, Command, Plain
  <2> QED
    BY <2>1, <2>2, <2>3, <2>4 DEF TypeOK
<1>8. OnePerAddress(want)' /\ OnePerAddress(DOMAIN bp_list)'
  BY <1>3, <1>4 DEF OnePerAddress
<1>9. Settled'
  BY <1>1, <1>2, <1>3 DEF Settled, Idle
<1>10. BreakpointsTransparent'
  <2> SUFFICES ASSUME NEW a \in CodeAddr
               PROVE  IF Located(a)' = {} THEN code'[a] = Image[a]
                      ELSE code'[a] = Brk /\ \A c \in Located(a)' : bp_list'[c] = Image[a]
    BY DEF BreakpointsTransparent
  <2>1. CASE a = b.addr
    <3>1. Located(a)' = {b}
      BY <1>3, <1>4, <2>1 DEF Located
    <3> QED
      BY <1>3, <1>5, <1>6, <2>1, <3>1 DEF Saved, TypeOK
  <2>2. CASE a # b.addr
    <3>1. Located(a)' = Located(a) /\ b \notin Located(a)
      BY <1>3, <2>2 DEF Located
    <3>2. code'[a] = code[a]
      BY <2>2 DEF TypeOK
    <3>3. \A c \in Located(a) : bp_list'[c] = bp_list[c]
      BY <3>1 DEF Located
    <3> QED
      BY <3>1, <3>2, <3>3 DEF BreakpointsTransparent
  <2> QED
    BY <2>1, <2>2
<1> QED
  BY <1>7, <1>8, <1>9, <1>10

(* Removing the only breakpoint of an address restores its operation.      *)
LEMMA RemoveInv ==
    ASSUME IInv, NEW b \in Breakpoint, SwBreakpointRemove(b)
    PROVE  IInv'
<1> USE DEF SwBreakpointRemove, IInv
<1>1. cmd' = Idle /\ Leaving = {b}
  BY DEF Answer, Leaving
<1>2. DOMAIN bp_list' = DOMAIN bp_list \ {b}
  OBVIOUS
<1>3. \A o \in DOMAIN bp_list' : o.addr # b.addr
  BY <1>2 DEF OnePerAddress
<1>4. b.addr \in CodeAddr
  BY DEF Breakpoint
<1>5. bp_list[b] = Image[b.addr]
  BY <1>4 DEF BreakpointsTransparent, Located
<1>6. TypeOK'
  <2>1. out' \in Seq(Reply)
    BY AnswerType DEF Answer
  <2>2. code' \in [CodeAddr -> Word]
    BY DEF TypeOK
  <2>3. DOMAIN bp_list' \subseteq Breakpoint /\ bp_list' \in [DOMAIN bp_list' -> Word]
    BY <1>2 DEF TypeOK
  <2>4. cmd' \in Command
    BY <1>1 DEF Idle, Command, Plain
  <2> QED
    BY <2>1, <2>2, <2>3, <2>4 DEF TypeOK
<1>7. OnePerAddress(want)' /\ OnePerAddress(DOMAIN bp_list)'
  BY <1>2 DEF OnePerAddress
<1>8. Settled'
  BY <1>1, <1>2 DEF Settled, Idle, Leaving
<1>9. BreakpointsTransparent'
  <2> SUFFICES ASSUME NEW a \in CodeAddr
               PROVE  IF Located(a)' = {} THEN code'[a] = Image[a]
                      ELSE code'[a] = Brk /\ \A c \in Located(a)' : bp_list'[c] = Image[a]
    BY DEF BreakpointsTransparent
  <2>1. CASE a = b.addr
    BY <1>2, <1>3, <1>4, <1>5, <2>1 DEF Located, TypeOK
  <2>2. CASE a # b.addr
    <3>1. Located(a)' = Located(a) /\ b \notin Located(a)
      BY <1>2, <2>2 DEF Located
    <3>2. code'[a] = code[a]
      BY <2>2 DEF TypeOK
    <3>3. \A c \in Located(a) : bp_list'[c] = bp_list[c]
      BY <1>2, <3>1 DEF Located
    <3> QED
      BY <3>1, <3>2, <3>3 DEF BreakpointsTransparent
  <2> QED
    BY <2>1, <2>2
<1> QED
  BY <1>6, <1>7, <1>8, <1>9

(* The other answers of the stub, and the rounds of the interpreter, keep  *)
(* the code and the breakpoints.                                           *)
LEMMA QuietInv ==
    ASSUME IInv, TypeOK', UNCHANGED <<code, bp_list, want>>,
           \/ cmd' = cmd
           \/ cmd' = Idle /\ (cmd.op = "z" => cmd.at \notin DOMAIN bp_list)
    PROVE  IInv'
<1>1. BreakpointsTransparent'
  BY DEF IInv, BreakpointsTransparent, Located
<1>2. Settled'
  BY DEF IInv, Settled, Leaving, Idle
<1>3. OnePerAddress(want)' /\ OnePerAddress(DOMAIN bp_list)'
  BY DEF IInv, OnePerAddress
<1> QED
  BY <1>1, <1>2, <1>3 DEF IInv

(* What the client sends keeps its rule and says what it has asked for.    *)
LEMMA SendInv ==
    ASSUME IInv, ~Shared, Client
    PROVE  IInv'
<1> USE DEF IInv
<1>1. ASSUME NEW b \in Breakpoint, SendPlace(b)
      PROVE  IInv'
  <2> USE <1>1 DEF SendPlace, Send
  <2>1. DOMAIN bp_list \subseteq want
    BY DEF Settled, Leaving, Idle
  <2>2. b \notin DOMAIN bp_list
    BY <2>1 DEF MayPlace
  <2>3. TypeOK'
    BY DEF TypeOK, Command
  <2>4. OnePerAddress(want')
    BY DEF OnePerAddress, MayPlace
  <2>5. Settled'
    BY <2>1, <2>2 DEF Settled, Leaving
  <2>6. BreakpointsTransparent' /\ OnePerAddress(DOMAIN bp_list)'
    BY DEF BreakpointsTransparent, Located, OnePerAddress
  <2> QED
    BY <2>3, <2>4, <2>5, <2>6
<1>2. ASSUME NEW b \in Breakpoint, SendRemove(b)
      PROVE  IInv'
  <2> USE <1>2 DEF SendRemove, Send
  <2>1. DOMAIN bp_list \subseteq want
    BY DEF Settled, Leaving, Idle
  <2>2. TypeOK'
    BY DEF TypeOK, Command
  <2>3. OnePerAddress(want')
    BY DEF OnePerAddress
  <2>4. Settled'
    BY <2>1 DEF Settled, Leaving
  <2>5. BreakpointsTransparent' /\ OnePerAddress(DOMAIN bp_list)'
    BY DEF BreakpointsTransparent, Located, OnePerAddress
  <2> QED
    BY <2>2, <2>3, <2>4, <2>5
<1>3. ASSUME NEW c \in Command, NEW wait \in {"asked", "running", "stepping"},
             Send(c, wait), UNCHANGED want,
             \A b \in Breakpoint : c # [op |-> "Z", at |-> b]
      PROVE  IInv'
  <2> USE <1>3 DEF Send
  <2>1. DOMAIN bp_list \subseteq want
    BY DEF Settled, Leaving, Idle
  <2>2. TypeOK'
    BY DEF TypeOK
  <2>3. Settled'
    BY <2>1 DEF Settled
  <2>4. BreakpointsTransparent' /\ OnePerAddress(DOMAIN bp_list)' /\ OnePerAddress(want)'
    BY DEF BreakpointsTransparent, Located, OnePerAddress
  <2> QED
    BY <2>2, <2>3, <2>4
<1>4. ASSUME NEW w \in Watches, SendWatch(w) \/ SendUnwatch(w)
      PROVE  IInv'
  <2>1. \A b \in Breakpoint : w # b
    BY Disjoint
  <2>2. [op |-> "Z", at |-> w] \in Command /\ [op |-> "z", at |-> w] \in Command
    BY DEF Command
  <2>3. \A b \in Breakpoint : /\ [op |-> "Z", at |-> w] # [op |-> "Z", at |-> b]
                              /\ [op |-> "z", at |-> w] # [op |-> "Z", at |-> b]
    BY <2>1
  <2> QED
    BY <1>3, <1>4, <2>2, <2>3 DEF SendWatch, SendUnwatch
<1>5. ASSUME SendInfo \/ SendStray \/ SendContinue \/ SendStep
      PROVE  IInv'
  <2>1. \A o \in {"q", "?", "Zx", "zx", "c", "s"} : [op |-> o] \in Command
    BY DEF Command, Plain
  <2>2. \A b \in Breakpoint, o \in {"q", "?", "Zx", "zx", "c", "s"} :
           [op |-> o] # [op |-> "Z", at |-> b]
    OBVIOUS
  <2> QED
    BY <1>3, <1>5, <2>1, <2>2 DEF SendInfo, SendStray, SendContinue, SendStep
<1>7. ASSUME SendRead
      PROVE  IInv'
  <2>1. PICK c \in Read : Send(c, "asked") /\ UNCHANGED want
    BY <1>7 DEF SendRead
  <2>2. c \in Command /\ \A b \in Breakpoint : c # [op |-> "Z", at |-> b]
    BY <2>1 DEF Command, Read
  <2> QED
    BY <1>3, <2>1, <2>2
<1>6. ASSUME Receive
      PROVE  IInv'
  <2>1. TypeOK'
    BY <1>6 DEF Receive, TypeOK
  <2> QED
    BY <1>6, <2>1, QuietInv DEF Receive
<1> QED
  BY <1>1, <1>2, <1>4, <1>5, <1>6, <1>7 DEF Client

----------------------------------------------------------------------------
(* Every step keeps the strengthening.                                     *)
LEMMA StubInv ==
    ASSUME IInv, Stub
    PROVE  IInv'
<1> USE DEF IInv
<1>1. ASSUME NEW b \in Breakpoint, SwBreakpointNotFound(b)
      PROVE  IInv'
  <2>1. out' \in Seq(Reply)
    BY <1>1, AnswerType DEF SwBreakpointNotFound, Answer
  <2>2. cmd' \in Command /\ cmd' = Idle
    BY <1>1 DEF SwBreakpointNotFound, Answer, Idle, Command, Plain
  <2>3. TypeOK'
    BY <1>1, <2>1, <2>2 DEF SwBreakpointNotFound, TypeOK
  <2> QED
    BY <1>1, <2>2, <2>3, QuietInv DEF SwBreakpointNotFound
<1>2. ASSUME NEW w \in Watches, WatchpointInsert(w) \/ WatchpointRemove(w)
      PROVE  IInv'
  <2>1. /\ out' \in Seq(Reply)
        /\ cmd' \in Command
        /\ cmd' = Idle
    <3>1. <<"OK">> \in Seq(Reply) /\ <<"E22">> \in Seq(Reply) /\ out \in Seq(Reply)
      BY DEF Reply, TypeOK
    <3>2. cmd' = Idle /\ (out' = out \o <<"OK">> \/ out' = out \o <<"E22">>)
      BY <1>2 DEF WatchpointInsert, WatchpointRemove, Answer
    <3>3. out' \in Seq(Reply)
      BY <3>1, <3>2, SMTT(30)
    <3> QED
      BY <3>2, <3>3 DEF Idle, Command, Plain
  <2>2. cmd.op = "z" => cmd.at \notin DOMAIN bp_list
    BY <1>2, Disjoint DEF WatchpointInsert, WatchpointRemove, TypeOK
  <2>3. TypeOK'
    BY <1>2, <2>1 DEF WatchpointInsert, WatchpointRemove, TypeOK
  <2> QED
    BY <1>2, <2>1, <2>2, <2>3, QuietInv DEF WatchpointInsert, WatchpointRemove
<1>3. ASSUME StrayNotFound \/ InfoCommand \/ ReadCommand \/ Continue
      PROVE  IInv'
  <2>1. cmd' = Idle /\ (cmd.op # "z")
    BY <1>3 DEF StrayNotFound, InfoCommand, ReadCommand, Continue, Answer
  <2>2. PICK reply \in Seq(Reply) : out' = out \o reply
    <3>1. /\ <<"E22">> \in Seq(Reply) /\ <<"E14">> \in Seq(Reply)
          /\ <<"data">> \in Seq(Reply) /\ <<"stop">> \in Seq(Reply)
          /\ <<>> \in Seq(Reply)
      BY DEF Reply
    <3> QED
      BY <1>3, <3>1 DEF StrayNotFound, InfoCommand, ReadCommand, Continue, Answer
  <2>3. out' \in Seq(Reply) /\ cmd' \in Command
    BY <2>1, <2>2 DEF TypeOK, Idle, Command, Plain
  <2>4. TypeOK'
    BY <1>3, <2>3 DEF StrayNotFound, InfoCommand, ReadCommand, Continue, TypeOK
  <2> QED
    BY <1>3, <2>1, <2>4, QuietInv DEF StrayNotFound, InfoCommand, ReadCommand, Continue
<1>6. ASSUME CommandAborts
      PROVE  IInv'
  <2>1. TypeOK'
    BY <1>6 DEF CommandAborts, TypeOK
  <2> QED
    BY <1>6, <2>1, QuietInv DEF CommandAborts
<1>7. ASSUME GuestEnds
      PROVE  IInv'
  <2>1. PICK xs \in Touches : /\ cont' = ContAfter(NotifyMemAccess(Fetch \o xs))
                              /\ out' = out \o NotifyMemAccess(Fetch \o xs)
    BY <1>7 DEF GuestEnds
  <2>2. <<>> \in Seq(Reply)
    OBVIOUS
  <2>3. out' \in Seq(Reply)
    BY <2>1, <2>2, ReportType
  <2>4. cont' \in BOOLEAN
    BY <2>1 DEF ContAfter, TypeOK
  <2>5. TypeOK'
    BY <1>7, <2>3, <2>4 DEF GuestEnds, TypeOK
  <2> QED
    BY <1>7, <2>5, QuietInv DEF GuestEnds
<1>4. ASSUME RunRound
      PROVE  IInv'
  <2>1. <<>> \in Seq(Reply)
    OBVIOUS
  <2>2. pc' \in CodeAddr /\ cont' \in BOOLEAN /\ out' \in Seq(Reply)
    BY <1>4, <2>1, RoundType DEF RunRound
  <2>3. TypeOK'
    BY <1>4, <2>2 DEF RunRound, TypeOK
  <2> QED
    BY <1>4, <2>3, QuietInv DEF RunRound
<1>5. ASSUME StepRound
      PROVE  IInv'
  <2>1. SendSignal \in Seq(Reply)
    BY DEF SendSignal, Reply
  <2>2. pc' \in CodeAddr /\ cont' \in BOOLEAN /\ out' \in Seq(Reply)
    BY <1>5, <2>1, RoundType DEF StepRound
  <2>3. cmd' \in Command /\ cmd' = Idle
    BY <1>5 DEF StepRound, Idle, Command, Plain
  <2>4. TypeOK'
    BY <1>5, <2>2, <2>3 DEF StepRound, TypeOK
  <2> QED
    BY <1>5, <2>3, <2>4, QuietInv DEF StepRound
<1> QED
  BY <1>1, <1>2, <1>3, <1>4, <1>5, <1>6, <1>7, InsertInv, RemoveInv DEF Stub

(***************************************************************************)
(* IInv is an invariant of every client that keeps one breakpoint at an    *)
(* address, whatever watchpoints it sets and whatever the guest does       *)
(* (GdbStub.cpp:186-208 under the loop of Interpreter.cpp:20-51).          *)
(***************************************************************************)
THEOREM Inductive == ~Shared => (Spec => []IInv)
<1> SUFFICES ASSUME ~Shared PROVE Spec => []IInv
  OBVIOUS
<1>1. IInv /\ [Next]_vars => IInv'
  <2> SUFFICES ASSUME IInv, [Next]_vars PROVE IInv'
    OBVIOUS
  <2>1. CASE Stub
    BY <2>1, StubInv
  <2>2. CASE Client
    BY <2>2, SendInv
  <2>3. CASE UNCHANGED vars
    <3>1. TypeOK'
      BY <2>3 DEF vars, IInv, TypeOK
    <3> QED
      BY <2>3, <3>1, QuietInv DEF vars
  <2> QED
    BY <2>1, <2>2, <2>3 DEF Next
<1> QED
  BY InitInv, <1>1, PTL DEF Spec

(* The variables keep their types: TypeOK.                                 *)
THEOREM TypeCorrect == ~Shared => (Spec => []TypeOK)
<1>1. IInv => TypeOK
  BY DEF IInv
<1> QED
  BY <1>1, Inductive, PTL

(* The debugger's changes to the program are invisible and undone:         *)
(* BreakpointsTransparent (GdbStub.cpp:186-208).                           *)
THEOREM Transparency == ~Shared => (Spec => []BreakpointsTransparent)
<1>1. IInv => BreakpointsTransparent
  BY DEF IInv
<1> QED
  BY <1>1, Inductive, PTL

(* The guest executes no instruction that has a breakpoint: NoRunThrough   *)
(* (Interpreter.cpp:11-18, 967-971).                                       *)
THEOREM BreakpointsStop == ~Shared => (Spec => NoRunThrough)
<1>1. IInv /\ [Next]_vars =>
        [(cont /\ Located(pc) # {} /\ (RunRound \/ GuestEnds)) => (pc' = pc /\ ~cont')]_vars
  <2> SUFFICES ASSUME IInv, cont, Located(pc) # {}, RunRound \/ GuestEnds
               PROVE  pc' = pc /\ ~cont'
    OBVIOUS
  <2>1. code[pc] = Brk
    BY DEF IInv, TypeOK, BreakpointsTransparent
  <2>2. StepOnBrk(<<>>)
    BY <2>1 DEF RunRound, StepOnCode, GuestEnds
  <2> QED
    BY <2>2 DEF StepOnBrk, PcAfterBrk, ContAfterTrap
<1> QED
  BY <1>1, Inductive, PTL DEF Spec, NoRunThrough

----------------------------------------------------------------------------
(* What stands in a sequence behind a first element (Interpreter.cpp:9-18).*)
LEMMA BehindFirst ==
    ASSUME NEW S, NEW first \in Seq(S), NEW xs \in Seq(S), Len(first) = 1,
           NEW i \in 1..Len(xs)
    PROVE  /\ xs[i] \in S
           /\ first \o xs \in Seq(S)
           /\ i + 1 \in 1..Len(first \o xs)
           /\ (first \o xs)[i + 1] = xs[i]
<1>1. xs[i] \in S
  BY ElementOfSeq
<1>2. Len(xs) \in Nat
  BY LenProperties
<1>3. /\ first \o xs \in Seq(S)
      /\ Len(first \o xs) = 1 + Len(xs)
      /\ \A k \in 1..(1 + Len(xs)) :
            (first \o xs)[k] = IF k <= 1 THEN first[k] ELSE xs[k - 1]
  BY ConcatProperties, SMTT(30)
<1>4. i + 1 \in 1..(1 + Len(xs)) /\ ~(i + 1 <= 1) /\ (i + 1) - 1 = i
  BY <1>2
<1> QED
  BY <1>1, <1>3, <1>4

(* A watched range that an access covers is one that its notification      *)
(* finds (GdbStub.cpp:226-258).                                            *)
LEMMA CoveredIsHit ==
    ASSUME NEW x \in [addr : Nat, len : Nat, read : BOOLEAN],
           NEW w \in wp_list, w \in Watches, Covers(x, w)
    PROVE  HitWatchpoint(x)
<1>1. w.type \in {"write", "read", "access"} /\ w.addr \in Nat /\ w.len \in Nat
  BY ClientAssumption
<1>2. x.addr <= w.addr /\ w.addr + w.len <= x.addr + x.len
  BY <1>1 DEF Covers
<1>3. w.type \in {"access", IF x.read THEN "read" ELSE "write"}
  BY <1>1 DEF Covers
<1> QED
  BY <1>2, <1>3 DEF HitWatchpoint

(* One access that hits a watchpoint is enough for a report, wherever it   *)
(* stands among the accesses of the instruction (MMU.cpp:15-43).           *)
LEMMA HitIsReported ==
    ASSUME NEW xs \in Seq([addr : Nat, len : Nat, read : BOOLEAN]),
           NEW i \in 1..Len(xs), HitWatchpoint(xs[i])
    PROVE  Len(NotifyMemAccess(xs)) > 0
<1> DEFINE hits == {j \in 1..Len(xs) : HitWatchpoint(xs[j])}
<1>1. IsFiniteSet(hits)
  <2>1. IsFiniteSet(1..Len(xs))
    BY FS_Interval
  <2> QED
    BY <2>1, FS_Subset
<1>2. Cardinality(hits) \in Nat /\ Cardinality(hits) # 0
  BY <1>1, FS_CardinalityType, FS_EmptySet
<1>3. NotifyMemAccess(xs) = [j \in 1..Cardinality(hits) |-> "watch"]
  BY DEF NotifyMemAccess
<1> HIDE DEF hits
<1>4. Len([j \in 1..Cardinality(hits) |-> "watch"]) = Cardinality(hits)
  BY <1>2
<1> QED
  BY <1>2, <1>3, <1>4

(***************************************************************************)
(* No covered watchpoint is passed over, whatever the watchpoints and the  *)
(* accesses of an instruction: WatchStops (GdbStub.cpp:226-258,            *)
(* MMU.cpp:15-43).                                                         *)
(***************************************************************************)
THEOREM WatchpointsStop == ~Shared => (Spec => WatchStops)
<1> DEFINE Report(xs) == NotifyMemAccess(Fetch \o xs)
           Passes(xs) == /\ RunRound /\ code[pc] # Brk
                         /\ cont' = ContAfter(Report(xs))
                         /\ out' = out \o Report(xs)
                         /\ \E i \in 1..Len(xs), w \in wp_list : Covers(xs[i], w)
<1>1. TypeOK => [\A xs \in Touches : Passes(xs) => ~cont' /\ Len(out') > Len(out)]_vars
  <2> SUFFICES ASSUME TypeOK, NEW xs \in Touches, Passes(xs)
               PROVE  ~cont' /\ Len(out') > Len(out)
    OBVIOUS
  <2>1. xs \in Seq([addr : Nat, len : Nat, read : BOOLEAN])
    BY ClientAssumption
  <2>2. Fetch \in Seq([addr : Nat, len : Nat, read : BOOLEAN]) /\ Len(Fetch) = 1
    BY AccessType DEF TypeOK, Fetch
  <2>3. PICK i \in 1..Len(xs), w \in wp_list : Covers(xs[i], w)
    OBVIOUS
  <2>4. HitWatchpoint(xs[i])
    <3>1. w \in Watches
      BY DEF TypeOK
    <3> HIDE DEF Passes, Report
    <3>2. xs[i] \in [addr : Nat, len : Nat, read : BOOLEAN]
      BY <2>1, <2>3, ElementOfSeq
    <3> QED
      BY <2>3, <3>1, <3>2, CoveredIsHit
  <2> HIDE DEF Fetch
  <2>5. /\ Fetch \o xs \in Seq([addr : Nat, len : Nat, read : BOOLEAN])
        /\ i + 1 \in 1..Len(Fetch \o xs)
        /\ (Fetch \o xs)[i + 1] = xs[i]
    <3> DEFINE Access == [addr : Nat, len : Nat, read : BOOLEAN]
    <3>1. Fetch \in Seq(Access) /\ xs \in Seq(Access)
      BY <2>1, <2>2
    <3> HIDE DEF Passes, Report, Access
    <3>2. Len(Fetch) = 1 /\ i \in 1..Len(xs)
      BY <2>2, <2>3
    <3>3. Fetch \o xs \in Seq(Access)
      BY <3>1, <3>2, BehindFirst
    <3>4. i + 1 \in 1..Len(Fetch \o xs)
      BY <3>1, <3>2, BehindFirst
    <3>5. (Fetch \o xs)[i + 1] = xs[i]
      BY <3>1, <3>2, BehindFirst
    <3> QED
      BY <3>3, <3>4, <3>5 DEF Access
  <2>6. Len(Report(xs)) > 0 /\ Report(xs) \in Seq(Reply)
    BY <2>4, <2>5, HitIsReported, NotifyType
  <2>7. Report(xs) # <<>>
    BY <2>6
  <2>8. ~cont'
    BY <2>7 DEF ContAfter
  <2>9. out \in Seq(Reply) /\ out' = out \o Report(xs)
    BY DEF TypeOK
  <2> HIDE DEF Report, Passes
  <2>10. Len(out') = Len(out) + Len(Report(xs))
    BY <2>6, <2>9
  <2> QED
    BY <2>6, <2>8, <2>9, <2>10
<1>2. TypeOK => [\A xs \in Touches :
          (/\ RunRound /\ code[pc] # Brk
           /\ cont' = ContAfter(NotifyMemAccess(Fetch \o xs))
           /\ out' = out \o NotifyMemAccess(Fetch \o xs)
           /\ \E i \in 1..Len(xs), w \in wp_list : Covers(xs[i], w))
          => ~cont' /\ Len(out') > Len(out)]_vars
  BY <1>1
<1> QED
  BY <1>2, TypeCorrect, PTL DEF Spec, WatchStops

----------------------------------------------------------------------------
(***************************************************************************)
(* Whose turn it is.  Without watchpoints there is one command or one      *)
(* reply on the way, never both, and while the guest runs neither.  A step *)
(* sends one stop because the client has no breakpoint at pc, so that the  *)
(* instruction is not BRK: this rests on transparency.                     *)
(***************************************************************************)
Turn ==
    /\ wp_list = {}
    /\ mode = "stopped" => ~cont /\ cmd = Idle /\ out = <<>>
    /\ mode = "asked" =>
          /\ ~cont
          /\ \/ cmd.op \in {"Z", "z", "m", "q", "?", "Zx", "zx"} /\ out = <<>>
             \/ cmd = Idle /\ \E r \in Reply : out = <<r>>
    /\ mode = "running" =>
          \/ cmd.op = "c" /\ ~cont /\ out = <<>>
          \/ cmd = Idle /\ cont /\ out = <<>>
          \/ cmd = Idle /\ ~cont /\ out = <<"stop">>
    /\ mode = "stepping" =>
          /\ ~cont
          /\ \/ cmd.op = "s" /\ out = <<>> /\ code[pc] # Brk
             \/ cmd = Idle /\ out = <<"stop">>

(* With no watchpoint an access reports nothing.                           *)
LEMMA NoReports ==
    ASSUME wp_list = {}, NEW xs
    PROVE  NotifyMemAccess(xs) = <<>>
<1>1. {j \in 1..Len(xs) : HitWatchpoint(xs[j])} = {}
  BY DEF HitWatchpoint
<1>2. Cardinality({}) = 0
  BY FS_EmptySet
<1>3. NotifyMemAccess(xs) = [i \in 1..0 |-> "watch"]
  BY <1>1, <1>2 DEF NotifyMemAccess
<1>4. [i \in 1..0 |-> "watch"] \in Seq(STRING) /\ Len([i \in 1..0 |-> "watch"]) = 0
  OBVIOUS
<1>5. \A s \in Seq(STRING) : Len(s) = 0 => s = <<>>
  OBVIOUS
<1> QED
  BY <1>3, <1>4, <1>5

(* The stub answers in its turn, once.                                     *)
LEMMA StubTurn ==
    ASSUME IInv, Turn, Watches = {}, Stub
    PROVE  Turn'
<1>1. wp_list = {}
  BY DEF Turn
<1>2. ASSUME NEW b \in Breakpoint,
             SwBreakpointInsert(b) \/ SwBreakpointRemove(b) \/ SwBreakpointNotFound(b)
      PROVE  Turn'
  <2>1. mode = "asked" /\ out = <<>> /\ ~cont
    BY <1>2 DEF SwBreakpointInsert, SwBreakpointRemove, SwBreakpointNotFound, Turn, IInv, TypeOK, Idle
  <2>2. out' = <<"OK">> \/ out' = <<"E22">>
    BY <1>1, <1>2, <2>1, NoReports
    DEF SwBreakpointInsert, SwBreakpointRemove, SwBreakpointNotFound, Answer
  <2>3. "OK" \in Reply /\ "E22" \in Reply
    BY DEF Reply
  <2> QED
    BY <1>1, <1>2, <2>1, <2>2, <2>3
    DEF SwBreakpointInsert, SwBreakpointRemove, SwBreakpointNotFound, Answer, Turn
<1>3. ASSUME StrayNotFound \/ InfoCommand \/ ReadCommand
      PROVE  Turn'
  <2>1. mode = "asked" /\ out = <<>> /\ ~cont
    BY <1>3 DEF StrayNotFound, InfoCommand, ReadCommand, Listens, Turn, IInv, TypeOK, Idle
  <2>2. \E r \in Reply : out' = <<r>>
    <3>1. {"E22", "E14", "data", "stop"} \subseteq Reply
      BY DEF Reply
    <3>2. out' \in {<<"E22">>, <<"E14">>, <<"data">>, <<"stop">>}
      BY <1>3, <2>1 DEF StrayNotFound, InfoCommand, ReadCommand, Answer
    <3> QED
      BY <3>1, <3>2
  <2> QED
    BY <1>1, <1>3, <2>1, <2>2 DEF StrayNotFound, InfoCommand, ReadCommand, Answer, Turn
<1>7. ASSUME CommandAborts
      PROVE  Turn'
  BY <1>7 DEF CommandAborts, Turn
<1>8. ASSUME GuestEnds
      PROVE  Turn'
  <2>1. \A xs : NotifyMemAccess(Fetch \o xs) = <<>>
    BY <1>1, NoReports
  <2>2. out \in Seq(Reply)
    BY DEF IInv, TypeOK
  <2>3. out' = out \o <<>> /\ cont' = cont
    BY <1>8, <2>1 DEF GuestEnds, ContAfter, IInv, TypeOK
  <2>4. out' = out
    BY <2>2, <2>3
  <2> QED
    BY <1>8, <2>3, <2>4 DEF GuestEnds, Turn
<1>4. ASSUME Continue
      PROVE  Turn'
  <2>1. mode = "running" /\ out = <<>>
    BY <1>4 DEF Continue, Turn, IInv, TypeOK, Idle
  <2>2. out' = <<>>
    BY <1>4, <2>1 DEF Continue, Answer
  <2> QED
    BY <1>1, <1>4, <2>1, <2>2 DEF Continue, Answer, Turn
<1>5. ASSUME RunRound
      PROVE  Turn'
  <2>1. mode = "running" /\ cmd = Idle /\ out = <<>>
    BY <1>5 DEF RunRound, Turn, IInv, TypeOK
  <2>2. CASE StepOnBrk(<<>>)
    <3>1. NotifyMemAccess(Fetch) = <<>>
      BY <1>1, NoReports
    <3>2. out' = <<>> \o <<>> \o <<"stop">> \o <<>> /\ ~cont'
      BY <2>1, <2>2, <3>1 DEF StepOnBrk, SendSignal, ContAfterTrap
    <3>3. out' = <<"stop">>
      BY <3>2
    <3> QED
      BY <1>1, <1>5, <2>1, <3>2, <3>3 DEF RunRound, Turn
  <2>3. CASE StepOnCode(<<>>)
    <3>1. \A xs : NotifyMemAccess(Fetch \o xs) = <<>>
      BY <1>1, NoReports
    <3>2. out' = <<>> \o <<>> \o <<>> /\ cont'
      BY <1>5, <2>1, <2>3, <3>1 DEF StepOnCode, ContAfter, RunRound
    <3>3. out' = <<>>
      BY <3>2
    <3> QED
      BY <1>1, <1>5, <2>1, <3>2, <3>3 DEF RunRound, Turn
  <2> QED
    BY <1>5, <2>2, <2>3 DEF RunRound
<1>6. ASSUME StepRound
      PROVE  Turn'
  <2>1. mode = "stepping" /\ out = <<>> /\ code[pc] # Brk /\ ~cont
    BY <1>6 DEF StepRound, Turn, IInv, TypeOK, Idle
  <2>2. StepOnCode(SendSignal)
    BY <1>6, <2>1 DEF StepRound, StepOnBrk
  <2>3. \A xs : NotifyMemAccess(Fetch \o xs) = <<>>
    BY <1>1, NoReports
  <2>4. out' = <<>> \o <<>> \o <<"stop">> /\ ~cont'
    BY <2>1, <2>2, <2>3 DEF StepOnCode, ContAfter, SendSignal
  <2>5. out' = <<"stop">>
    BY <2>4
  <2> QED
    BY <1>1, <1>6, <2>1, <2>4, <2>5 DEF StepRound, Turn
<1> QED
  BY <1>2, <1>3, <1>4, <1>5, <1>6, <1>7, <1>8 DEF Stub

(* The client sends in its turn, and takes the one reply there is.         *)
LEMMA ClientTurn ==
    ASSUME IInv, Turn, Watches = {}, Client
    PROVE  Turn'
<1>1. ASSUME NEW b \in Breakpoint, SendPlace(b) \/ SendRemove(b)
      PROVE  Turn'
  BY <1>1 DEF SendPlace, SendRemove, Send, Turn
<1>2. ASSUME SendRead \/ SendInfo \/ SendStray \/ SendContinue
      PROVE  Turn'
  BY <1>2 DEF SendRead, Read, SendInfo, SendStray, SendContinue, Send, Turn
<1>3. ASSUME SendStep
      PROVE  Turn'
  <2>1. DOMAIN bp_list \subseteq want
    BY <1>3 DEF SendStep, Send, IInv, Settled, Leaving, Idle
  <2>2. Located(pc) = {}
    BY <1>3, <2>1 DEF SendStep, Located
  <2>3. code[pc] # Brk
    BY <2>2, ProgramAssumption DEF IInv, TypeOK, BreakpointsTransparent
  <2> QED
    BY <1>3, <2>3 DEF SendStep, Send, Turn
<1>4. ASSUME Receive
      PROVE  Turn'
  <2>1. PICK r \in Reply : out = <<r>> /\ cmd = Idle /\ ~cont
                           /\ (mode = "asked" \/ r = "stop")
    BY <1>4 DEF Receive, Turn, IInv, TypeOK, Reply
  <2>2. out' = <<>> /\ mode' = "stopped"
    BY <1>4, <2>1 DEF Receive
  <2> QED
    BY <1>4, <2>1, <2>2 DEF Receive, Turn
<1> QED
  BY <1>1, <1>2, <1>3, <1>4 DEF Client

(* Without watchpoints the client and the guest agree on who is stopped:   *)
(* StopMeansStopped (Interpreter.cpp:20-39, GdbStub.cpp:177-180).          *)
THEOREM StopsAgree == (~Shared /\ Watches = {}) => (Spec => []StopMeansStopped)
<1> SUFFICES ASSUME ~Shared, Watches = {} PROVE Spec => []StopMeansStopped
  OBVIOUS
<1>1. Init => Turn
  BY DEF Init, Turn, Idle
<1>2. IInv /\ Turn /\ [Next]_vars => Turn'
  <2>1. Turn /\ UNCHANGED vars => Turn'
    BY DEF Turn, vars
  <2> QED
    BY <2>1, StubTurn, ClientTurn DEF Next
<1>3. Turn => StopMeansStopped
  BY DEF Turn, StopMeansStopped
<1>4. Spec => []IInv
  BY Inductive
<1> QED
  BY <1>1, <1>2, <1>3, <1>4, PTL DEF Spec
=============================================================================
