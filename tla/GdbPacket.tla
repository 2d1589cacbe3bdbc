----------------------------- MODULE GdbPacket -----------------------------
(***************************************************************************)
(* The framing of the remote protocol in GdbStub.cpp: HandlePacket, which  *)
(* takes one byte of "$payload#xx" at a time, undoes escapes and run       *)
(* lengths into cmd_buf, compares the checksum, and answers '+' or '-'.    *)
(* A command that passes is opaque here, but for the room its reply takes. *)
(*                                                                         *)
(* Bytes are numbers.  raw is a history: the payload bytes since the last  *)
(* '$', and clean says that they are a payload the protocol allows.        *)
(***************************************************************************)
EXTENDS Integers, Sequences

CONSTANTS
    BufSize,     \* GDB_BUFFER_SIZE
    Chars,       \* bound: the bytes the client sends
    MaxRaw,      \* bound: the payload bytes of a frame
    ReadSizes    \* bound: the len of the "m" commands

Char == 0..255

ASSUME PacketAssumption ==
    /\ BufSize \in Nat /\ 1 < BufSize
    /\ Chars \subseteq Char
    /\ MaxRaw \in Nat
    /\ ReadSizes \subseteq Nat

VARIABLES
    state,       \* RSState
    buf,         \* cmd_buf up to buf_index
    line_sum,    \* line_sum & 0xff, the part that is compared
    checksum,    \* what the frame says it is
    reply,       \* the last '+' or '-', until the next frame begins
    text,        \* bytes the frame's command wrote to its reply buffer
    raw, clean   \* history

vars == <<state, buf, line_sum, checksum, reply, text, raw, clean>>

Dollar == 36
Hash == 35
Star == 42
Brace == 125
Space == 32

HexDigit == 48..57 \cup 65..70 \cup 97..102
(* Mutant: a digit is a number or a capital.                              *)
FromHexCapital(ch) == IF ch <= 57 THEN ch - 48 ELSE ch - 55

FromHex(ch) ==
    IF ch <= 57 THEN ch - 48 ELSE IF ch <= 70 THEN ch - 55 ELSE ch - 87
ToHex(n) == IF n < 10 THEN n + 48 ELSE n + 87

(* ch ^ 0x20                                                               *)
Flip(ch) == IF (ch \div 32) % 2 = 1 THEN ch - 32 ELSE ch + 32

Init ==
    /\ state = "IDLE"
    /\ buf = <<>>
    /\ line_sum = 0
    /\ checksum = 0
    /\ reply = "none"
    /\ text = 0
    /\ raw = <<>>
    /\ clean = TRUE

----------------------------------------------------------------------------
Add(ch) == (line_sum + ch) % 256
Log(ch) == raw' = Append(raw, ch)

(* Mutant: the terminator's place is given away.                          *)
FullLate == Len(buf) >= BufSize

(* The last place of cmd_buf is the terminator's.                          *)
Full == Len(buf) >= BufSize - 1

(* Between frames everything but '$' is ignored.  A checksum is written    *)
(* before it is read again, so the model forgets the last frame's.         *)
IdleByte(ch) ==
    /\ state = "IDLE"
    /\ IF ch = Dollar
       THEN /\ state' = "GETLINE"
            /\ buf' = <<>> /\ line_sum' = 0 /\ checksum' = 0
            /\ raw' = <<>> /\ clean' = TRUE /\ reply' = "none" /\ text' = 0
       ELSE UNCHANGED vars

ControlByte(ch) ==
    /\ state = "GETLINE"
    /\ \/ ch = Brace /\ state' = "ESC"
       \/ ch = Star /\ state' = "RLE"
    /\ line_sum' = Add(ch)
    /\ Log(ch)
    /\ UNCHANGED <<buf, checksum, reply, text, clean>>

(* A '#' after '}' ends the frame as well, which no sender means.          *)
EndByte(ch) ==
    /\ state \in {"GETLINE", "ESC"}
    /\ ch = Hash
    /\ state' = "CHKSUM1"
    /\ clean' = (clean /\ state = "GETLINE")
    /\ UNCHANGED <<buf, line_sum, checksum, reply, text, raw>>

(* cmd_buf would overrun: the rest of the frame is garbage.                *)
Drop ==
    /\ state' = "IDLE"
    /\ UNCHANGED <<buf, line_sum, checksum, reply, text>>

PlainOverrun(ch) ==
    /\ state = "GETLINE" /\ ch \notin {Brace, Star, Hash} /\ Full
    /\ Drop /\ Log(ch) /\ UNCHANGED clean

EscapedOverrun(ch) ==
    /\ state = "ESC" /\ ch # Hash /\ Full
    /\ Drop /\ Log(ch) /\ UNCHANGED clean

PlainByte(ch) ==
    /\ state = "GETLINE" /\ ch \notin {Brace, Star, Hash} /\ ~Full
    /\ buf' = Append(buf, ch)
    /\ line_sum' = Add(ch)
    /\ Log(ch)
    /\ UNCHANGED <<state, checksum, reply, text, clean>>

(* Mutant: the escaped byte counts as what it stands for.                 *)
EscapedSumsFlipped(ch) ==
    /\ state = "ESC" /\ ch # Hash /\ ~Full
    /\ buf' = Append(buf, Flip(ch))
    /\ line_sum' = Add(Flip(ch))
    /\ state' = "GETLINE"
    /\ Log(ch)
    /\ UNCHANGED <<checksum, reply, text, clean>>

EscapedByte(ch) ==
    /\ state = "ESC" /\ ch # Hash /\ ~Full
    /\ buf' = Append(buf, Flip(ch))
    /\ line_sum' = Add(ch)
    /\ state' = "GETLINE"
    /\ Log(ch)
    /\ UNCHANGED <<checksum, reply, text, clean>>

(* Mutant: the count is that of the whole run.                            *)
RepeatShort(ch) == ch - Space + 2

(* Mutant: the count byte stands for one more.                            *)
RepeatLong(ch) == ch - Space + 4

(* How often a count byte repeats the last character.                      *)
Repeat(ch) == ch - Space + 3

RepeatOverrun(ch) ==
    /\ state = "RLE" /\ ch >= Space
    /\ Len(buf) + Repeat(ch) >= BufSize - 1
    /\ Drop /\ Log(ch) /\ UNCHANGED clean

(* No count, or nothing to repeat: the byte is skipped and not summed.     *)
RepeatInvalid(ch) ==
    /\ state = "RLE"
    /\ ch < Space \/ (Len(buf) + Repeat(ch) < BufSize - 1 /\ buf = <<>>)
    /\ state' = "GETLINE"
    /\ clean' = FALSE
    /\ Log(ch)
    /\ UNCHANGED <<buf, line_sum, checksum, reply, text>>

RepeatByte(ch) ==
    /\ state = "RLE" /\ ch >= Space
    /\ Len(buf) + Repeat(ch) < BufSize - 1 /\ buf # <<>>
    /\ buf' = buf \o [i \in 1..Repeat(ch) |-> buf[Len(buf)]]
    /\ line_sum' = Add(ch)
    /\ state' = "GETLINE"
    /\ Log(ch)
    /\ UNCHANGED <<checksum, reply, text, clean>>

(* A byte that is no digit takes the automaton back into the payload.      *)
NoDigit(ch) ==
    /\ state \in {"CHKSUM1", "CHKSUM2"}
    /\ ch \notin HexDigit
    /\ state' = "GETLINE"
    /\ clean' = FALSE
    /\ Log(ch)
    /\ UNCHANGED <<buf, line_sum, checksum, reply, text>>

HighDigit(ch) ==
    /\ state = "CHKSUM1" /\ ch \in HexDigit
    /\ checksum' = FromHex(ch) * 16
    /\ state' = "CHKSUM2"
    /\ UNCHANGED <<buf, line_sum, reply, text, raw, clean>>

Nak(ch) ==
    /\ state = "CHKSUM2" /\ ch \in HexDigit
    /\ checksum' = checksum + FromHex(ch)
    /\ checksum' # line_sum
    /\ reply' = "-"
    /\ state' = "IDLE"
    /\ UNCHANGED <<buf, line_sum, text, raw, clean>>

(***************************************************************************)
(* The reply of "m": two digits for each byte and a terminator, or "E22"   *)
(* for a length that is too large.                                         *)
(***************************************************************************)
MemToHex(len) == IF len > BufSize \div 2 THEN 0 ELSE 2 * len + 1

(* The frame is accepted and its command runs.                             *)
Ack(ch) ==
    /\ state = "CHKSUM2" /\ ch \in HexDigit
    /\ checksum' = checksum + FromHex(ch)
    /\ checksum' = line_sum
    /\ reply' = "+"
    /\ \E len \in ReadSizes : text' = MemToHex(len)
    /\ state' = "IDLE"
    /\ UNCHANGED <<buf, line_sum, raw, clean>>

(* The bytes a client sends: the bound, and the digits of the checksum.    *)
Input ==
    IF state \in {"CHKSUM1", "CHKSUM2"}
    THEN Chars \cup {ToHex(line_sum \div 16), ToHex(line_sum % 16)}
    ELSE Chars

Next ==
    \E ch \in Input :
        /\ \/ state \in {"IDLE", "RLE"} \/ Len(raw) < MaxRaw
           \/ state \in {"GETLINE", "ESC"} /\ ch = Hash
           \/ state \in {"CHKSUM1", "CHKSUM2"} /\ ch \in HexDigit
        /\ \/ IdleByte(ch) \/ ControlByte(ch) \/ EndByte(ch)
           \/ PlainByte(ch) \/ PlainOverrun(ch)
           \/ EscapedByte(ch) \/ EscapedOverrun(ch)
           \/ RepeatByte(ch) \/ RepeatInvalid(ch) \/ RepeatOverrun(ch)
           \/ NoDigit(ch) \/ HighDigit(ch) \/ Nak(ch) \/ Ack(ch)

Spec == Init /\ [][Next]_vars

----------------------------------------------------------------------------
(***************************************************************************)
(* What the protocol says a payload stands for: the role of each byte,     *)
(* then the text up to it.                                                 *)
(***************************************************************************)
NextRole(before, ch) ==
    CASE before = "brace" -> "escaped"
      [] before = "star" -> "count"
      [] before \notin {"brace", "star"} /\ ch = Brace -> "brace"
      [] before \notin {"brace", "star"} /\ ch = Star -> "star"
      [] OTHER -> "char"

Roles(s) ==
    LET role[i \in 0..Len(s)] ==
            IF i = 0 THEN "char" ELSE NextRole(role[i - 1], s[i])
    IN  role

Extend(t, role, ch) ==
    CASE role = "char" -> Append(t, ch)
      [] role = "escaped" -> Append(t, Flip(ch))
      [] role = "count" -> t \o [k \in 1..(ch - 29) |-> t[Len(t)]]
      [] OTHER -> t

Texts(s) ==
    LET upto[i \in 0..Len(s)] ==
            IF i = 0 THEN <<>> ELSE Extend(upto[i - 1], Roles(s)[i], s[i])
    IN  upto

Decode(s) == Texts(s)[Len(s)]

Sums(s) ==
    LET upto[i \in 0..Len(s)] == IF i = 0 THEN 0 ELSE upto[i - 1] + s[i]
    IN  upto

SumOf(s) == Sums(s)[Len(s)] % 256

TypeOK ==
    /\ state \in {"IDLE", "GETLINE", "ESC", "RLE", "CHKSUM1", "CHKSUM2"}
    /\ buf \in Seq(Char)
    /\ line_sum \in Char
    /\ checksum \in Char
    /\ reply \in {"none", "+", "-"}
    /\ text \in Nat
    /\ raw \in Seq(Char)
    /\ clean \in BOOLEAN

(***************************************************************************)
(* cmd_buf never overruns, and has a place left for the terminator that    *)
(* the end of a frame writes, along all of the paths that add to it and    *)
(* also when a bad checksum digit resumes a frame that was full            *)
(* (GdbStub.cpp:430-536).                                                  *)
(***************************************************************************)
BufferBound == Len(buf) <= BufSize - 1

(***************************************************************************)
(* A command is executed only if the frame's payload has the checksum it   *)
(* came with, and what is executed is what the payload stands for          *)
(* (GdbStub.cpp:437-531).                                                  *)
(***************************************************************************)
AcceptedIsDecoded ==
    (reply = "+" /\ clean) => buf = Decode(raw) /\ checksum = SumOf(raw)

(* A frame that arrived as it was sent is not refused: '-' means that the  *)
(* payload and the checksum differ (GdbStub.cpp:437-531).                  *)
RefusedIsDamaged == (reply = "-" /\ clean) => checksum # SumOf(raw)

(***************************************************************************)
(* A frame is dropped in the middle only if the text up to the byte that   *)
(* is refused needs the last place of cmd_buf or more                      *)
(* (GdbStub.cpp:447-450, 461-464, 482-485).                                *)
(***************************************************************************)
DropOnlyWhenFull ==
    [][(state \notin {"IDLE", "CHKSUM2"} /\ state' = "IDLE" /\ clean)
          => (buf = <<>> \/ Len(Decode(raw')) >= BufSize - 1)]_vars

----------------------------------------------------------------------------
(***************************************************************************)
(* GdbStub.cpp:335, "memtohex() doubles the required space": the length    *)
(* that the check lets through fits the reply buffer.  The terminator does *)
(* not, for half the buffer exactly.                                       *)
(***************************************************************************)
MemoryReplyFits == text <= BufSize

============================================================================
