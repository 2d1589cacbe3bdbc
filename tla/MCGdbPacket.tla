---------------------------- MODULE MCGdbPacket ----------------------------
EXTENDS GdbPacket

(* The framing bytes, a letter that is a digit too, the smallest count, and *)
(* a byte that is no count.                                                *)
MCChars == {Dollar, Hash, Star, Brace, 97, Space, 0}
MCReadSizes == {1, 3, 4}
============================================================================
