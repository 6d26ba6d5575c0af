----------------------------- MODULE MC_Ziplist -----------------------------
(***************************************************************************)
(* Ziplist for TLC.  Four payloads around the 254-byte boundary: "7" (a   *)
(* 2- or 6-byte entry), "a" (a 3- or 7-byte string entry), a 250-byte     *)
(* string (253 bytes after a 1-byte prevlen, 257 after a 5-byte one) and a *)
(* 252-byte string (always 255 or more), so that a 5-byte prevlen field is *)
(* needed, cascades, and is kept for a small length.  UINT16_MAX is scaled *)
(* to 3 so that zllen saturates within six entries; the code only compares *)
(* it with UINT16_MAX.                                                     *)
(***************************************************************************)
EXTENDS Ziplist, TLC

Imm7   == [slen |-> 1, num |-> 7]
StrA   == [slen |-> 1, num |-> NoNum]
Str250 == [slen |-> 250, num |-> NoNum]
Str252 == [slen |-> 252, num |-> NoNum]

MCPayloads == {Imm7, StrA, Str250, Str252}

\* call only records the last call: the states TLC tells apart leave it out.
ZiplistView == <<zl, overrun>>

=============================================================================
