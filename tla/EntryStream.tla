---------------------------- MODULE EntryStream ----------------------------
(***************************************************************************)
(* What a client of one archive entry is promised while the entry is still *)
(* being extracted: the extractor appends bytes, the reader has a cursor   *)
(* of its own, and a read hands over exactly the bytes that follow the     *)
(* cursor, never more than have been written.  Byte number i of the entry  *)
(* is represented by the number i, so an order or an offset that went      *)
(* wrong is visible in what a read delivers.                               *)
(***************************************************************************)
EXTENDS Integers

CONSTANT Size  \* length of the entry in bytes

VARIABLES
  written,     \* how many bytes of the entry have been extracted
  position,    \* the reader's cursor
  delivered,   \* the bytes the last read handed over
  finished     \* the extraction has a result

vars == <<written, position, delivered, finished>>

Init ==
  /\ written = 0
  /\ position = 0
  /\ delivered = << >>
  /\ finished = FALSE

(* The extractor adds the next n bytes of the entry. *)
Extract(n) ==
  /\ ~finished
  /\ n > 0
  /\ written + n <= Size
  /\ written' = written + n
  /\ UNCHANGED <<position, delivered, finished>>

(* A read returns n of the bytes behind the cursor and moves it past them. *)
Deliver(n) ==
  /\ n = 0 \/ position + n <= written
  /\ delivered' = [i \in 1..n |-> position + i - 1]
  /\ position' = position + n
  /\ UNCHANGED <<written, finished>>

(* A seek never leaves the extracted part while extraction is going on. *)
MoveTo(p) ==
  /\ p <= written \/ finished
  /\ position' = p
  /\ UNCHANGED <<written, delivered, finished>>

Finish ==
  /\ finished' = TRUE
  /\ UNCHANGED <<written, position, delivered>>

Next ==
  \/ \E n \in 1..Size : Extract(n)
  \/ \E n \in 0..Size : Deliver(n)
  \/ \E p \in 0..Size : MoveTo(p)
  \/ Finish

Spec == Init /\ [][Next]_vars
=============================================================================
