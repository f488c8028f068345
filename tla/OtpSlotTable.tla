---------------------------- MODULE OtpSlotTable ----------------------------
(***************************************************************************)
(* What the flash pages of the OTP slots promise to the commands above     *)
(* them: a table of records that one command changes at one place, unless  *)
(* the power fails, and then with what damage at most.                     *)
(***************************************************************************)

CONSTANTS
  Cells,       \* the slots, and the cell of the global configuration
  Values,      \* what a cell can read as when all of it is from one update
  Requests,    \* what an update can ask for
  Blank,       \* ... when it is erased
  Lost,        \* ... when its parts do not belong together
  None, All,   \* no cell, and all of them
  Neighbours   \* the sets of cells that share a flash page

VARIABLES
  table,      \* what each cell reads as
  target,     \* the cell an update under way writes; All in a factory reset
  answered    \* the last command was not cut off

\* What an update by v leaves in a cell that held old; v may take the secret from there.
CONSTANT Merged(_, _)

Init == table \in [Cells -> Values] /\ target = None /\ answered = TRUE

\* What the cell c becomes: a cell that is lost may become anything.
Outcome(c, v) == IF table[c] = Lost THEN Values \union {Lost} ELSE {Merged(table[c], v)}

Begin(c) ==
  /\ target = None /\ target' = c /\ answered' = TRUE
  /\ UNCHANGED table

\* The cell is written, and no other changes.
Put(c, v) ==
  /\ target = c /\ target' = None /\ answered' = TRUE
  /\ \E new \in Outcome(c, v) : table' = [table EXCEPT ![c] = new]

\* Power fails: c is old, new or damaged, and beyond it only cells of one page are damaged.
Interrupted(c, v) ==
  /\ target = c /\ target' = None /\ answered' = FALSE
  /\ \E D \in Neighbours :
       /\ table' \in [Cells -> Values \union {Lost}]
       /\ table'[c] \in {table[c], Blank, Lost} \union Outcome(c, v)
       /\ \A d \in D \ {c} : table'[d] \in {table[d], Blank, Lost}
       /\ \A d \in Cells \ (D \union {c}) : table'[d] = table[d]

\* A factory reset forgets all, or, when power fails, leaves anything.
Reset ==
  /\ target = All /\ target' = None
  /\ \/ answered' = TRUE /\ table' = [c \in Cells |-> Blank]
     \/ answered' = FALSE /\ table' \in [Cells -> Values \union {Lost}]

Next ==
  \/ \E c \in Cells \union {All} : Begin(c)
  \/ \E c \in Cells, v \in Requests : Put(c, v) \/ Interrupted(c, v)
  \/ Reset

Spec == Init /\ [][Next]_<<table, target, answered>>
=============================================================================
