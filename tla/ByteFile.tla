------------------------------- MODULE ByteFile -------------------------------
(***************************************************************************)
(* What one file promises: an array of bytes and a length. A write puts    *)
(* its value at the places it names and nowhere else; a truncation sets    *)
(* the length and keeps every byte below it. Neither is atomic: while it   *)
(* is in progress some bytes are old and some are new.                     *)
(*                                                                         *)
(* The bytes beyond the length are not promised to be NUL: a truncation    *)
(* may leave them, and a file that is made longer again then shows them.   *)
(***************************************************************************)
EXTENDS Naturals

CONSTANTS Places, NUL, None, Calls

VARIABLES bytes, length, call

fileVars == <<bytes, length, call>>

(* The places a call is asked to change. *)
Covers(c, i) ==
  c.op = "write" /\ c.offset <= i /\ i < c.offset + c.size

LengthAfter(c, n) ==
  IF c.op = "truncate" THEN c.size
  ELSE IF n < c.offset + c.size THEN c.offset + c.size ELSE n

Init ==
  /\ bytes = [i \in Places |-> NUL]
  /\ length = 0
  /\ call = None

Begin ==
  /\ call = None
  /\ \E c \in Calls : call' = c
  /\ UNCHANGED <<bytes, length>>

SetLength ==
  /\ call # None
  /\ length' = LengthAfter(call, length)
  /\ UNCHANGED <<bytes, call>>

(* Some of the bytes the call is about change. *)
Change ==
  /\ call # None
  /\ \A i \in Places :
       \/ bytes'[i] = bytes[i]
       \/ Covers(call, i) /\ bytes'[i] = call.value
       \/ call.op = "truncate" /\ call.size <= i /\ bytes'[i] = NUL
  /\ UNCHANGED <<length, call>>

Done(c) ==
  /\ length = LengthAfter(c, length)
  /\ \A i \in Places : Covers(c, i) => bytes[i] = c.value

End ==
  /\ call # None
  /\ Done(call)
  /\ call' = None
  /\ UNCHANGED <<bytes, length>>

Next == Begin \/ SetLength \/ Change \/ End

Spec == Init /\ [][Next]_fileVars
=============================================================================
