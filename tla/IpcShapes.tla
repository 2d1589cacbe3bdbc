------------------------------ MODULE IpcShapes ------------------------------
(* How a command travels in the generated Dispatch functions of
   include/IpcStubs.hpp: what the handler takes out of the request, what it
   puts into the reply, and the three numbers it gives to GenBuf first.

   A parameter is one of
     data    size bytes, `at' bytes behind the eighth byte of the payload
             (GetData, GetDataPointer); the client aligns it to `align';
     pid     the process id that follows the handle descriptor;
     move    the num-th moved handle (GetMoved, SetMove);
     copy    the num-th copied handle (GetCopied, SetCopy);
     buffer  the num-th descriptor that GetBuffer selects for its type. *)
EXTENDS Integers, Sequences

AtMost8(n) == IF n < 8 THEN n ELSE 8

\* The generator aligns a value to its size, eight at most, unless the
\* interface definition says another alignment.
Aligned(at, size, align) == [kind |-> "data", at |-> at, size |-> size, align |-> align]
Data(at, size) == Aligned(at, size, AtMost8(size))
Pid == [kind |-> "pid"]
Moved(num) == [kind |-> "move", num |-> num]
Copied(num) == [kind |-> "copy", num |-> num]
Buffer(type, num) == [kind |-> "buffer", type |-> type, num |-> num]

\* The commands `ids' of an interface, whose Dispatch calls
\* GenBuf(gen[1], gen[2], gen[3]), reads `ins' and answers with `outs'.
On(ids, gen, ins, outs) ==
  [ids |-> ids,
   shape |-> [moves |-> gen[1], copies |-> gen[2], bytes |-> gen[3], ins |-> ins, outs |-> outs]]

\* The shapes most commands have.
Plain(ids) == On(ids, <<0, 0, 0>>, <<>>, <<>>)
Takes(ids, size) == On(ids, <<0, 0, 0>>, <<Data(8, size)>>, <<>>)
Returns(ids, size) == On(ids, <<0, 0, size>>, <<>>, <<Data(8, size)>>)
Opens(ids) == On(ids, <<1, 0, 0>>, <<>>, <<Moved(0)>>)
Event(ids) == On(ids, <<0, 1, 0>>, <<>>, <<Copied(0)>>)

Shapes(interface) == {command.shape : command \in interface}
=============================================================================
