---------------------------- MODULE PlacementService ----------------------------
(***************************************************************************)
(* What a client of /place_book may count on: a goal is answered at most   *)
(* once, a goal answered with success has a book of its own on the shelf,  *)
(* and there are no more such books than the tray held.  A book may get to *)
(* the shelf for a goal that is reported as failed.                        *)
(***************************************************************************)
EXTENDS Naturals, FiniteSets

CONSTANTS Goal, Capacity   \* the books on the tray

VARIABLES answer,   \* the answer to each goal: "none" until there is one
          shelved   \* goals whose book stands on the shelf

Init == answer = [g \in Goal |-> "none"] /\ shelved = {}

ReplyAs(g, a) == /\ answer[g] = "none"
                 /\ a = "refused" => g \notin shelved
                 /\ a = "placed" => g \in shelved
                 /\ answer' = [answer EXCEPT ![g] = a]
                 /\ UNCHANGED shelved
Reply(g) == \E a \in {"refused", "failed", "placed"} : ReplyAs(g, a)

Shelve(g) == /\ answer[g] # "refused" /\ g \notin shelved
             /\ Cardinality(shelved) < Capacity
             /\ shelved' = shelved \cup {g}
             /\ UNCHANGED answer

Next == \E g \in Goal : Reply(g) \/ Shelve(g)

Spec == Init /\ [][Next]_<<answer, shelved>>
===============================================================================
