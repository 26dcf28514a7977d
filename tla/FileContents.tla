---------------------------- MODULE FileContents ----------------------------
(***************************************************************************)
(* What the deduplicating store promises its clients: every file is a      *)
(* sequence of chunk contents of its own. A chunk changes only because a   *)
(* request on that file asks for it, to the content the request carries,   *)
(* and a request is answered when the file holds what it asked for.        *)
(*                                                                         *)
(* contents[f][p] is the chunk at position p of file f (None: beyond the   *)
(* end, Zero: a hole). request[f] is the operation in progress on f. The   *)
(* data of a request gives the content wanted at each position; None means *)
(* "not mentioned" for a write and "beyond the end" for the others.        *)
(***************************************************************************)
EXTENDS Naturals

CONSTANTS Files, Positions, Requests, Zero, None

VARIABLES contents, request

storeVars == <<contents, request>>

Mentioned(r) == {p \in Positions : r.data[p] # None}

Init ==
  /\ contents = [f \in Files |-> [p \in Positions |-> None]]
  /\ request = [f \in Files |-> None]

Ask(f) ==
  /\ request[f] = None
  /\ \E r \in Requests : request' = [request EXCEPT ![f] = r]
  /\ UNCHANGED contents

(* The file is made longer: the new chunks are holes. *)
Grow(f) ==
  /\ request[f] # None
  /\ request[f].op \in {"write", "truncate"}
  /\ \E n \in Mentioned(request[f]) :
       contents' = [contents EXCEPT ![f] =
         [p \in Positions |-> IF p <= n /\ @[p] = None THEN Zero ELSE @[p]]]
  /\ UNCHANGED request

(* One chunk of a write arrives; a write is not atomic across chunks. *)
Put(f) ==
  /\ request[f] # None
  /\ request[f].op = "write"
  /\ \E p \in Mentioned(request[f]) :
       contents' = [contents EXCEPT ![f][p] = request[f].data[p]]
  /\ UNCHANGED request

(* The end of the file is cut off at once. *)
Cut(f) ==
  /\ request[f] # None
  /\ request[f].op = "truncate"
  /\ contents' = [contents EXCEPT ![f] =
       [p \in Positions |-> IF request[f].data[p] = None THEN None ELSE @[p]]]
  /\ UNCHANGED request

(* The whole content is replaced at once. *)
Replace(f) ==
  /\ request[f] # None
  /\ request[f].op = "swap"
  /\ contents' = [contents EXCEPT ![f] = request[f].data]
  /\ UNCHANGED request

Fulfilled(r, c) ==
  CASE r.op = "write" -> \A p \in Mentioned(r) : c[p] = r.data[p]
    [] r.op = "swap" -> c = r.data
    [] r.op = "truncate" ->
         \A p \in Positions : c[p] = None <=> r.data[p] = None

Answer(f) ==
  /\ request[f] # None
  /\ Fulfilled(request[f], contents[f])
  /\ request' = [request EXCEPT ![f] = None]
  /\ UNCHANGED contents

Next == \E f \in Files :
  Ask(f) \/ Grow(f) \/ Put(f) \/ Cut(f) \/ Replace(f) \/ Answer(f)

Spec == Init /\ [][Next]_storeVars
=============================================================================
