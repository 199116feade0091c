------------------------------ MODULE TrayService ------------------------------
(***************************************************************************)
(* What the task manager promises to whoever feeds it trays: one tray at a *)
(* time, every tray job at most once, the books of a tray in the order of  *)
(* the tray and none skipped, and a tray is finished only when all of its  *)
(* books are on the shelf.  After a failure nothing happens until a start. *)
(***************************************************************************)
EXTENDS Naturals, Sequences

CONSTANTS Tray,   \* records [job, books] of a job and its sequence of books
          None

VARIABLES tray,     \* the tray being worked on, or None
          shelved,  \* its books placed and verified so far
          taken,    \* tray jobs taken since the last start
          healthy   \* FALSE after a failure

vars == <<tray, shelved, taken, healthy>>

Init == tray = None /\ shelved = <<>> /\ taken = {} /\ healthy = TRUE

MayFail == healthy /\ healthy' \in BOOLEAN

Take(t) == /\ MayFail
           /\ tray = None /\ t.job \notin taken
           /\ tray' = t /\ taken' = taken \cup {t.job} /\ shelved' = <<>>

Shelve == /\ MayFail
          /\ tray # None /\ Len(shelved) < Len(tray.books)
          /\ shelved' = Append(shelved, tray.books[Len(shelved) + 1])
          /\ UNCHANGED <<tray, taken>>

Finish == /\ healthy
          /\ tray # None /\ shelved = tray.books
          /\ tray' = None /\ shelved' = <<>>
          /\ UNCHANGED <<taken, healthy>>

Fail == healthy /\ healthy' = FALSE /\ UNCHANGED <<tray, shelved, taken>>

Start == tray' = None /\ shelved' = <<>> /\ taken' = {} /\ healthy' = TRUE

Next == (\E t \in Tray : Take(t)) \/ Shelve \/ Finish \/ Fail \/ Start

Spec == Init /\ [][Next]_vars
===============================================================================
