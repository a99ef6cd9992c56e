------------------------------ MODULE WholeReader ------------------------------
(***************************************************************************)
(* What the reader of a feed promises: whatever the pieces the text comes  *)
(* in, and wherever it breaks off, the values it has given to the database *)
(* are those that a reader of the whole text up to there gives, in their   *)
(* order, and each of them once.                                           *)
(***************************************************************************)
EXTENDS Integers, Sequences

CONSTANTS
  Documents, Closed,   \* what a feed may bring; no feed is read
  Size(_),             \* of a document's text
  ValuesOf(_, _)       \* the values of a document that end in its first n letters

VARIABLES doc, read, given

vars == <<doc, read, given>>

Init == doc = Closed /\ read = 0 /\ given = <<>>

Open ==
  /\ doc = Closed /\ doc' \in Documents
  /\ UNCHANGED <<read, given>>

Read ==
  /\ doc # Closed
  /\ read' \in (read + 1)..Size(doc)
  /\ given' = ValuesOf(doc, read')
  /\ UNCHANGED doc

Close ==
  /\ doc # Closed
  /\ doc' = Closed /\ read' = 0 /\ given' = <<>>

Next == Open \/ Read \/ Close

Spec == Init /\ [][Next]_vars
=============================================================================
