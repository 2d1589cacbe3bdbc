----------------------------- MODULE IpcMessage -----------------------------
(* The layout of the messages between the guest and the services: Ipc.cpp
   (ParseMessage, GenBuf, SetErrorCode, ProcMessage), the accessors of
   include/Ipc.hpp and the order in which a generated Dispatch uses them.

   A message is Size bytes of the thread-local block.  A byte is known by the
   thing it belongs to and its place in it, so that reading four bytes of an
   address and four of another value can be told apart; the words that carry
   counts are records of their fields.  The client, which is the guest's
   library, is external: it lays a request out by the sizes of its parameters
   and reads a reply by the counts in its header.  The framing, session or
   domain, is the one both sides have agreed on; IpcServices is about what
   happens when they have not. *)
EXTENDS IpcShapes, FiniteSets

CONSTANTS Commands,   \* shapes of the commands the client sends (IpcShapes)
          Size        \* bytes of a message: 0x100

ASSUME SizeAssumption == Size \in Nat /\ Size >= 64

VARIABLES is_domainobj,   \* whether the process frames messages as a domain does
          phase,          \* who has the message: idle, sent, answered, echoed, aborted
          call,           \* what the client sent
          buf,            \* the message
          got,            \* what Dispatch handed to the implementation
          returned        \* the objects, by their parameter, that it returned

vars == <<is_domainobj, phase, call, buf, got, returned>>

-----------------------------------------------------------------------------
(* Bytes and pieces of a message. *)

Address == 0 .. Size - 1

Thing(what, num) == [what |-> what, num |-> num]
Byte(thing, k) == [thing |-> thing, byte |-> k]
Filled(thing) == [k \in Address |-> Byte(thing, 0)]
Stale == Thing("stale", 0)
Zero == Thing("zero", 0)
Outside == Byte(Thing("outside", 0), 0)

Piece(at, size, thing) == [at |-> at, size |-> size, thing |-> thing]
Word(at, thing) == Piece(at, 4, thing)
Covers(p, k) == p.at <= k /\ k < p.at + p.size

\* b with the pieces written over it.
Over(b, pieces) ==
  [k \in Address |->
     IF \E p \in pieces : Covers(p, k)
     THEN LET p == CHOOSE p \in pieces : Covers(p, k) IN Byte(p.thing, k - p.at)
     ELSE b[k]]

Bytes(b, at, n) == [k \in 0 .. n - 1 |-> IF at + k \in Address THEN b[at + k] ELSE Outside]
Whole(thing, n) == [k \in 0 .. n - 1 |-> Byte(thing, k)]

AlignUp(n, align) == ((n + align - 1) \div align) * align

-----------------------------------------------------------------------------
(* Parameters. *)

Params(shape) == shape.ins \o shape.outs

Of(ps, kind) == {i \in DOMAIN ps : ps[i].kind = kind}

\* The descriptor that a buffer type stands for, and a type that leaves the
\* choice between two of them to the client.
ChosenBySize(type) == (type \div 32) % 2 = 1
Sends(type) == type % 4 = 1
ByPointer(type) == (type \div 4) % 4 = 2
Descriptor(sends, pointer) ==
  IF sends THEN (IF pointer THEN "X" ELSE "A") ELSE (IF pointer THEN "C" ELSE "B")
DescriptorsOf(type) ==
  IF ChosenBySize(type) THEN {Descriptor(Sends(type), FALSE), Descriptor(Sends(type), TRUE)}
  ELSE {Descriptor(Sends(type), ByPointer(type))}
DescriptorSize(d) == IF d \in {"A", "B"} THEN 12 ELSE 8

\* Parameters that occupy a descriptor d, and how many of them precede the i-th.
Using(ps, d) == {i \in Of(ps, "buffer") : d \in DescriptorsOf(ps[i].type)}
Before(S, i) == Cardinality({j \in S : j < i})

\* Where the data parameters go: each one behind the one before it.
Behind(end, p) == IF p.kind = "data" THEN AlignUp(end, p.align) + p.size ELSE end
End(ps) ==
  LET end[i \in 0 .. Len(ps)] == IF i = 0 THEN 0 ELSE Behind(end[i - 1], ps[i])
  IN end
Start(ps, i) == AlignUp(End(ps)[i - 1], ps[i].align)
DataBytes(ps) == End(ps)[Len(ps)]

\* Shapes of the control commands, by their number.
ControlShape(id) ==
  CASE id = 2 -> Opens({}).shape
    [] id = 4 -> On({}, <<1, 0, 0>>, <<Data(8, 4)>>, <<Moved(0)>>).shape
    [] id \in {0, 3} -> Returns({}, 4).shape
    [] OTHER -> Plain({}).shape

Parameter ==
  [kind : {"data"}, at : Nat, size : Nat, align : Nat \ {0}] \cup [kind : {"pid"}]
    \cup [kind : {"move", "copy"}, num : Nat] \cup [kind : {"buffer"}, type : Nat, num : Nat]

\* The generator aligns offsets that it counts from eight bytes before the first
\* parameter: by how much a value of three or six bytes is late.
Late(p) == AlignUp(8, p.align) - 8

\* Data is taken from, or put, where the client has it but for that, and no value
\* overlaps the next.
Placed(ps) ==
  \A i \in Of(ps, "data") :
    /\ ps[i].at = 8 + Start(ps, i) + Late(ps[i])
    /\ \A j \in Of(ps, "data") : i < j => ps[i].at + ps[i].size <= ps[j].at

\* The parameters in S are numbered in their order; or each has the number of the
\* first one that shares it, as two inputs of an audio renderer which both ask for
\* the first copied handle.
First(S) == CHOOSE j \in S : Before(S, j) = 0
Sharing(ps, S, i) == {j \in S : ps[j].num = ps[i].num}
Counted(ps, S) == \A i \in S : ps[i].num = Before(S, i)
Shared(ps, S) == \A i \in S : ps[i].num = Before(S, First(Sharing(ps, S, i)))

\* What GenIpcStubs.py and the interface definitions give every command: each
\* parameter has its place and its number, GenBuf is told the right ones, no
\* command returns both objects and copied handles, none more than two objects,
\* and the reply fits into the message.
WellFormed(shape) ==
  LET ins == shape.ins
      outs == shape.outs
  IN /\ ins \in Seq(Parameter) /\ outs \in Seq(Parameter)
     /\ Placed(ins) /\ Placed(outs)
     /\ Shared(ins, Of(ins, "copy")) /\ Shared(ins, Of(ins, "move"))
     /\ Counted(outs, Of(outs, "copy")) /\ Counted(outs, Of(outs, "move"))
     /\ \A d \in {"X", "A", "B"} : Counted(Params(shape), Using(Params(shape), d))
     /\ shape.moves \in 0 .. 2 /\ shape.moves = Cardinality(Of(outs, "move"))
     /\ shape.copies \in Nat /\ shape.copies = Cardinality(Of(outs, "copy"))
     /\ shape.moves = 0 \/ shape.copies = 0
     /\ shape.bytes \in Nat
     /\ \A i \in Of(outs, "data") : outs[i].at + outs[i].size <= 8 + shape.bytes
     /\ AlignUp(12 + 4 * (shape.moves + shape.copies), 16) + 32 + shape.bytes <= Size

ASSUME ShapesAssumption ==
  \A shape \in Commands \cup {ControlShape(id) : id \in 0 .. 4} : WellFormed(shape)

-----------------------------------------------------------------------------
(* The client writes a request. *)

\* A call: the message type (2 close, 4 command, 5 control), the command, the
\* parameters whose buffer the client passes by pointer although it need not,
\* and the framing.
Call(type, id, shape, pointed) ==
  [type |-> type, id |-> id, shape |-> shape, pointed |-> pointed,
   domain |-> is_domainobj]
NoCall == [type |-> 2, id |-> 0, shape |-> Plain({}).shape, pointed |-> {}, domain |-> FALSE]

\* Commands are framed, control messages never are.
Framed(c) == c.domain /\ c.type = 4

\* What the client puts into descriptor d for the i-th parameter: the buffer,
\* or a null descriptor when it chose the other of two.
Described(c, d, i) ==
  LET type == Params(c.shape)[i].type
  IN Thing(IF ChosenBySize(type) /\ ((i \in c.pointed) # (d \in {"X", "C"})) THEN "null" ELSE "buffer", i)

\* The places of a request, in the order of the message.
Layout(c) ==
  LET ps == Params(c.shape)
      ins == c.shape.ins
      pid == Of(ins, "pid") # {}
      copies == Cardinality(Of(ins, "copy"))
      moves == Cardinality(Of(ins, "move"))
      hd == pid \/ copies + moves > 0
      copy_at == IF pid THEN 20 ELSE 12
      x_at == IF hd THEN copy_at + 4 * (copies + moves) ELSE 8
      a_at == x_at + 8 * Cardinality(Using(ps, "X"))
      b_at == a_at + 12 * Cardinality(Using(ps, "A"))
      raw_at == b_at + 12 * Cardinality(Using(ps, "B"))
      words == 8 + (IF Framed(c) THEN 4 ELSE 0) + (DataBytes(ins) + 3) \div 4
  IN [hd |-> hd, pid |-> pid, copies |-> copies, moves |-> moves,
      copy_at |-> copy_at, move_at |-> copy_at + 4 * copies,
      X |-> x_at, A |-> a_at, B |-> b_at, raw_at |-> raw_at, words |-> words,
      C |-> raw_at + 4 * words,
      payload |-> AlignUp(raw_at, 16) + (IF Framed(c) THEN 16 ELSE 0)]

Header(c) ==
  LET n(d) == Cardinality(Using(Params(c.shape), d))
  IN [what |-> "header", type |-> c.type, x |-> n("X"), a |-> n("A"), b |-> n("B")]
Sizes(words, hd) == [what |-> "sizes", words |-> words, hd |-> hd]
HandleCounts(pid, copies, moves) ==
  [what |-> "handles", pid |-> pid, copies |-> copies, moves |-> moves]

RequestHead(c, at) ==
  {Word(0, Header(c)), Word(4, Sizes(at.words, at.hd))}
    \cup (IF at.hd THEN {Word(8, HandleCounts(at.pid, at.copies, at.moves))} ELSE {})
    \cup (IF at.pid THEN {Piece(12, 8, Thing("pid", 0))} ELSE {})

RequestHandles(c, at) ==
  LET ins == c.shape.ins
  IN {Word(at.copy_at + 4 * Before(Of(ins, "copy"), i), Thing("handle", i)) : i \in Of(ins, "copy")}
     \cup {Word(at.move_at + 4 * Before(Of(ins, "move"), i), Thing("handle", i)) : i \in Of(ins, "move")}

RequestDescriptors(c, at) ==
  LET ps == Params(c.shape)
  IN UNION {{Piece(at[d] + DescriptorSize(d) * Before(Using(ps, d), i), DescriptorSize(d), Described(c, d, i))
               : i \in Using(ps, d)} : d \in {"X", "A", "B", "C"}}

RequestPayload(c, at) ==
  LET ins == c.shape.ins
  IN {Word(at.payload, Thing("SFCI", 0)), Word(at.payload + 8, Thing("command", c.id))}
     \cup (IF Framed(c)
           THEN {Word(at.payload - 16, Thing("domain command", 1)), Word(at.payload - 12, Thing("object", 0))}
           ELSE {})
     \cup {Piece(at.payload + 16 + Start(ins, i), ins[i].size, Thing("argument", i)) : i \in Of(ins, "data")}

Request(c) ==
  LET at == Layout(c)
  IN Over(Filled(Stale), RequestHead(c, at) \cup RequestHandles(c, at)
                           \cup RequestDescriptors(c, at) \cup RequestPayload(c, at))

-----------------------------------------------------------------------------
(* The process reads it. *)

\* Bytes of the domain header of a request.
DomainHeaderAlways(type) == IF is_domainobj THEN 16 ELSE 0
DomainHeader(type) == IF is_domainobj /\ type = 4 THEN 16 ELSE 0

ParseMessage(b) ==
  LET h == b[0].thing
      s == b[4].thing
      d == b[8].thing
      hd == s.hd
      copy_off == IF d.pid THEN 20 ELSE 12
      desc_off == IF hd THEN copy_off + 4 * (d.copies + d.moves) ELSE 8
      raw_off == desc_off + 8 * h.x + 12 * h.a + 12 * h.b
      payload_off == AlignUp(raw_off, 16) + DomainHeader(h.type)
  IN [type |-> h.type, x_cnt |-> h.x, a_cnt |-> h.a, w_cnt |-> s.words,
      \* Without a handle descriptor these are left unassigned.
      pid |-> Bytes(b, IF hd /\ d.pid THEN 12 ELSE Size, 4),
      copy_off |-> IF hd THEN copy_off ELSE Size,
      move_off |-> IF hd THEN copy_off + 4 * d.copies ELSE Size,
      desc_off |-> desc_off, raw_off |-> raw_off, payload_off |-> payload_off,
      cmd_id |-> b[payload_off + 8].thing]

\* The place of the num-th descriptor of one kind; C descriptors are not counted.
DescriptorAtUncounted(req, d, num) ==
  CASE d \in {"X", "A"} -> req.desc_off + 8 * num
    [] d = "B" -> req.desc_off + 8 * req.x_cnt + 12 * num
    [] d = "C" -> req.raw_off + 4 * req.w_cnt
DescriptorAt(req, d, num) ==
  CASE d = "X" -> req.desc_off + 8 * num
    [] d = "A" -> req.desc_off + 8 * req.x_cnt + 12 * num
    [] d = "B" -> req.desc_off + 8 * req.x_cnt + 12 * req.a_cnt + 12 * num
    [] d = "C" -> req.raw_off + 4 * req.w_cnt

GetBuffer(b, req, type, num) ==
  LET get(pointer) ==
        LET d == Descriptor(Sends(type), pointer)
        IN Bytes(b, DescriptorAt(req, d, num), DescriptorSize(d))
  IN IF ~ChosenBySize(type) THEN get(ByPointer(type))
     ELSE IF get(FALSE)[0].thing.what # "null" THEN get(FALSE) ELSE get(TRUE)

\* The field of a request that holds a process number is an unsigned int, half
\* of what is sent; the implementation takes a uint64_t.
Widened(pid) == [k \in 0 .. 7 |-> IF k < 4 THEN pid[k] ELSE Byte(Zero, 0)]

\* What Dispatch hands to the implementation for one parameter.
Handed(b, req, p) ==
  CASE p.kind = "data" -> Bytes(b, req.payload_off + 8 + p.at, p.size)
    [] p.kind = "pid" -> Widened(req.pid)
    [] p.kind = "copy" -> Bytes(b, req.copy_off + 4 * p.num, 4)
    [] p.kind = "move" -> Bytes(b, req.move_off + 4 * p.num, 4)
    [] p.kind = "buffer" -> GetBuffer(b, req, p.type, p.num)

\* The parameters that come with the request: the inputs and all buffers.
RequestedInputs(shape) == DOMAIN shape.ins
Requested(shape) ==
  {i \in DOMAIN Params(shape) : i <= Len(shape.ins) \/ Params(shape)[i].kind = "buffer"}

-----------------------------------------------------------------------------
(* The process writes a reply. *)

\* Handles follow the header of a reply; those of a domain's objects do not.
HandlesFollow(moves, copies) == (moves # 0 /\ ~is_domainobj) \/ copies # 0

\* Where the raw data of a reply starts.
ReplyStartUncounted(moves, copies) == 8 + (IF HandlesFollow(moves, copies) THEN 4 * (moves + copies) ELSE 0)
ReplyStart(moves, copies) == 8 + (IF HandlesFollow(moves, copies) THEN 4 * (1 + moves + copies) ELSE 0)

\* The size of the raw data in words.  The sum is tested, not added.
ReplyWordsUnframed(moves, bytes) == 8 + (bytes + 3) \div 4
ReplyWords(moves, bytes) ==
  LET realdata_off == IF is_domainobj THEN 4 * moves ELSE 0
  IN 8 + (IF is_domainobj THEN 4 ELSE 0)
       + (IF (realdata_off \div 4) + (bytes % 4) # 0 THEN bytes \div 4 + 1 ELSE bytes \div 4)

\* GenBuf: where the payload is, and the words that are written.
GenBuf(moves, copies, bytes) ==
  LET hd == HandlesFollow(moves, copies)
      aligned == AlignUp(ReplyStart(moves, copies), 16)
      payload_off == aligned + (IF is_domainobj THEN 16 ELSE 0)
  IN [payload_off |-> payload_off, copy_cnt |-> copies,
      pieces |->
        {Word(4, Sizes(ReplyWords(moves, bytes), hd)), Word(payload_off, Thing("SFCO", 0))}
          \cup (IF hd THEN {Word(8, HandleCounts(FALSE, copies, IF is_domainobj THEN 0 ELSE moves))} ELSE {})
          \cup (IF is_domainobj THEN {Word(aligned, Thing("objects", moves))} ELSE {})]

SetMoveSession(resp, num, thing) == Word(12 + 4 * (resp.copy_cnt + num), thing)
SetMove(resp, num, thing) ==
  Word(IF is_domainobj THEN resp.payload_off + 16 + 4 * num ELSE 12 + 4 * (resp.copy_cnt + num), thing)
SetCopy(num, thing) == Word(12 + 4 * num, thing)

\* The reply of a handler that assigns its data outputs and returns the
\* objects `set': Dispatch calls GenBuf, then the implementation, which writes
\* its data through pointers into the reply, then SetMove and SetCopy for what
\* is not null; SetErrorCode comes last.
Reply(shape, set) ==
  LET outs == shape.outs
      resp == GenBuf(shape.moves, shape.copies, shape.bytes)
      data == {Piece(resp.payload_off + 8 + outs[i].at, outs[i].size, Thing("value", i)) : i \in Of(outs, "data")}
      handles == {SetMove(resp, outs[i].num, Thing("object", i)) : i \in Of(outs, "move") \cap set}
                   \cup {SetCopy(outs[i].num, Thing("object", i)) : i \in Of(outs, "copy") \cap set}
      error == {Word(resp.payload_off + 8, Thing("result", 0))}
  IN Over(Over(Over(Over(Filled(Zero), resp.pieces), data), handles), error)

-----------------------------------------------------------------------------
(* Steps.  ProcMessage is one of Normal, NormalFails, Control, ControlFails
   and Close. *)

Init ==
  /\ is_domainobj = FALSE
  /\ phase = "idle"
  /\ call = NoCall
  /\ buf = Filled(Stale)
  /\ got = <<>> /\ returned = {}

\* C descriptors are the last part of a request: all of it fits into the block.
Fits(c) == Layout(c).C + 8 * Cardinality(Using(Params(c.shape), "C")) <= Size

Send(c) ==
  /\ phase = "idle" /\ Fits(c)
  /\ phase' = "sent"
  /\ call' = c
  /\ buf' = Request(c)
  /\ UNCHANGED <<is_domainobj, got, returned>>

\* Any command, with any choice for the buffers that leave one; number 0 is a
\* command the interface has, 1 one that it has not.
SendCommand ==
  \E shape \in Commands :
    \E pointed \in SUBSET {i \in Of(Params(shape), "buffer") : ChosenBySize(Params(shape)[i].type)} :
      Send(Call(4, 0, shape, pointed))
SendUnknown == Send(Call(4, 1, Plain({}).shape, {}))

SendControl == \E id \in 0 .. 4 : Send(Call(5, id, ControlShape(id), {}))
SendClose == Send(Call(2, 0, Plain({}).shape, {}))

Answer(shape, set) ==
  /\ phase' = "answered"
  /\ buf' = Reply(shape, set)
  /\ returned' = set

Abort ==
  /\ phase' = "aborted"
  /\ UNCHANGED <<is_domainobj, call, buf, got, returned>>

\* The reply is not copied back: the client finds its own request.
Echo ==
  /\ phase' = "echoed"
  /\ UNCHANGED <<call, buf, got, returned>>

Received(type) == phase = "sent" /\ ParseMessage(buf).type = type

Normal ==
  LET req == ParseMessage(buf)
      ps == Params(call.shape)
  IN /\ Received(4)
     /\ req.cmd_id = Thing("command", 0)
     /\ got' = [i \in Requested(call.shape) |-> Handed(buf, req, ps[i])]
     /\ \E set \in SUBSET (Of(call.shape.outs, "move") \cup Of(call.shape.outs, "copy")) :
          Answer(call.shape, set)
     /\ UNCHANGED <<is_domainobj, call>>

NormalFails ==
  /\ Received(4)
  /\ ParseMessage(buf).cmd_id # Thing("command", 0)
  /\ Abort

ControlId == ParseMessage(buf).cmd_id.num

\* ConvertSessionToDomain leaves ret at 0xf601.
ConvertSessionToDomain ==
  /\ Received(5) /\ ControlId = 0
  /\ is_domainobj' = TRUE
  /\ Echo

\* DuplicateSession and DuplicateSessionEx answer in the framing of before.
DuplicateSession ==
  /\ Received(5) /\ ControlId \in {2, 4}
  /\ is_domainobj' = FALSE
  /\ Answer(Opens({}).shape, {1})
  /\ UNCHANGED <<call, got>>

QueryPointerBufferSize ==
  /\ Received(5) /\ ControlId = 3
  /\ Answer(Returns({}, 4).shape, {})
  /\ UNCHANGED <<is_domainobj, call, got>>

ControlFails ==
  /\ Received(5) /\ ControlId \notin {0, 2, 3, 4}
  /\ Abort

Close ==
  /\ Received(2)
  /\ Echo
  /\ UNCHANGED is_domainobj

\* The client takes what it wants out of the message; what it leaves there
\* means nothing to the next request.
Receive ==
  /\ phase \in {"answered", "echoed"}
  /\ phase' = "idle"
  /\ call' = NoCall
  /\ buf' = Filled(Stale)
  /\ got' = <<>> /\ returned' = {}
  /\ UNCHANGED is_domainobj

\* ns_abort has ended the process.
Aborted == phase = "aborted" /\ UNCHANGED vars

Next ==
  \/ SendCommand \/ SendUnknown \/ SendControl \/ SendClose
  \/ Normal \/ NormalFails \/ ConvertSessionToDomain \/ DuplicateSession
  \/ QueryPointerBufferSize \/ ControlFails \/ Close
  \/ Receive \/ Aborted

Spec == Init /\ [][Next]_vars

-----------------------------------------------------------------------------
(* Properties. *)

\* The variables hold what their comments say; an answered command has had all
\* of its buffers fetched, and only what has no handler ends the process.
TypeOK ==
  /\ is_domainobj \in BOOLEAN
  /\ phase \in {"idle", "sent", "answered", "echoed", "aborted"}
  /\ call.type \in {2, 4, 5} /\ call.domain \in BOOLEAN
  /\ DOMAIN buf = Address
  /\ phase = "answered" /\ call.type = 4 => Of(Params(call.shape), "buffer") \subseteq DOMAIN got

\* ParseMessage finds the descriptors, the raw data, the payload and the command
\* where the client put them, whatever handles, descriptors and framing a
\* message has (Ipc.cpp, ParseMessage).
RequestFramed ==
  phase = "sent" =>
    LET at == Layout(call)
        req == ParseMessage(buf)
    IN /\ req.type = call.type
       /\ req.desc_off = at.X
       /\ req.raw_off = at.raw_at
       /\ req.payload_off = at.payload
       /\ req.cmd_id = Thing("command", call.id)

\* The descriptor the client used for the i-th parameter.
Used(c, i) ==
  CHOOSE d \in DescriptorsOf(Params(c.shape)[i].type) : Described(c, d, i).what = "buffer"

\* The parameter whose handle or C descriptor the i-th one is handed: GetBuffer
\* does not count C descriptors, and handles may share a number.
Origin(c, i) ==
  LET ps == Params(c.shape)
      ins == c.shape.ins
  IN First(IF ps[i].kind = "buffer" THEN Using(ps, "C") ELSE Sharing(ins, Of(ins, ps[i].kind), i))

\* Each parameter that an implementation is handed is the one the client sent:
\* no other parameter, no part of another, nothing the client never wrote.  The
\* exceptions: a three- or six-byte value loses its beginning (Late), parameters
\* that share an Origin all are the first of them, and of the eight bytes of a
\* process number the upper four are lost and read zero (Ipc.cpp:24 stores them
\* in the unsigned int of include/Ipc.hpp:12).  (include/Ipc.hpp GetData,
\* GetBuffer, GetMoved, GetCopied; include/IpcStubs.hpp.)
RequestUnderstood ==
  phase = "answered" /\ call.type = 4 =>
    \A i \in Requested(call.shape) :
      LET p == Params(call.shape)[i]
      IN CASE p.kind = "data" ->
                \A k \in 0 .. p.size - 1 - Late(p) : got[i][k] = Byte(Thing("argument", i), k + Late(p))
           [] p.kind = "pid" ->
                got[i] = [k \in 0 .. 7 |-> IF k < 4 THEN Byte(Thing("pid", 0), k) ELSE Byte(Zero, 0)]
           [] p.kind \in {"copy", "move"} -> got[i] = Whole(Thing("handle", Origin(call, i)), 4)
           [] p.kind = "buffer" ->
                LET d == Used(call, i)
                IN got[i] = IF d = "C" THEN Whole(Described(call, d, Origin(call, i)), 8)
                            ELSE Whole(Thing("buffer", i), DescriptorSize(d))

\* Where the client looks for the parts of a reply.
ReplyLayout(b, c) ==
  LET s == b[4].thing
      d == b[8].thing
      copies == IF s.hd THEN d.copies ELSE 0
      moves == IF s.hd THEN d.moves ELSE 0
      raw_at == IF s.hd THEN 12 + 4 * (copies + moves) ELSE 8
  IN [copies |-> copies, moves |-> moves, copy_at |-> 12, move_at |-> 12 + 4 * copies,
      raw_at |-> raw_at, end |-> raw_at + 4 * s.words,
      payload |-> AlignUp(raw_at, 16) + (IF Framed(c) THEN 16 ELSE 0)]

\* The reply to a control command of a domain is framed like a command's.
Shift == IF call.domain /\ ~Framed(call) THEN 16 ELSE 0

\* The client finds the magic word and the result of every reply by the counts in
\* its header; after a conversion, those of a control command lie 16 bytes
\* behind, since GenBuf does not look at the type (Ipc.cpp, GenBuf, SetErrorCode).
ReplyFramed ==
  phase = "answered" =>
    LET payload == ReplyLayout(buf, call).payload + Shift
    IN /\ Bytes(buf, payload, 4) = Whole(Thing("SFCO", 0), 4)
       /\ Bytes(buf, payload + 8, 4) = Whole(Thing("result", 0), 4)

\* Bytes at the front of the data that object identifiers replace: SetMove counts
\* from the first of them in a domain, and nobody moves the data behind.
Replaced(k) == Framed(call) /\ k < 4 * call.shape.moves

\* A reply carries every value, copied handle and moved object that the
\* implementation returned to where the client reads it.  In a domain an object
\* replaces the beginning of the data (Replaced), and a three- or six-byte value
\* is late.  A handle that was null is announced and zero (Ipc.cpp GenBuf,
\* include/Ipc.hpp GetDataPointer, SetMove, SetCopy).
ReplyUnderstood ==
  phase = "answered" /\ call.type = 4 =>
    LET at == ReplyLayout(buf, call)
        outs == call.shape.outs
        handle(i, place) ==
          Bytes(buf, place, 4) =
            IF i \in returned THEN Whole(Thing("object", i), 4) ELSE [k \in 0 .. 3 |-> Byte(Zero, 0)]
    IN /\ \A i \in Of(outs, "data") : \A k \in Late(outs[i]) .. outs[i].size - 1 :
            \/ Replaced(Start(outs, i) + k)
            \/ buf[at.payload + 16 + Start(outs, i) + k] = Byte(Thing("value", i), k - Late(outs[i]))
       /\ at.copies = Cardinality(Of(outs, "copy"))
       /\ \A i \in Of(outs, "copy") : handle(i, at.copy_at + 4 * Before(Of(outs, "copy"), i))
       /\ \A i \in Of(outs, "move") :
            LET n == Before(Of(outs, "move"), i)
            IN IF Framed(call)
               THEN /\ buf[at.payload - 16].thing = Thing("objects", Cardinality(Of(outs, "move")))
                    /\ DataBytes(outs) = 0 => handle(i, at.payload + 16 + 4 * n)
               ELSE /\ at.moves = Cardinality(Of(outs, "move"))
                    /\ handle(i, at.move_at + 4 * n)

\* The size in the header of a reply covers all that was written, so that a client
\* which copies by the header copies everything (Ipc.cpp, GenBuf).
ReplySized ==
  phase = "answered" =>
    \A k \in Address : buf[k].thing # Zero => k < ReplyLayout(buf, call).end
=============================================================================
