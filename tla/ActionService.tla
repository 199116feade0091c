----------------------------- MODULE ActionService -----------------------------
(***************************************************************************)
(* What a client of an action server may count on, whichever of the        *)
(* robot's servers it is: a goal is refused at once or accepted, an        *)
(* accepted goal ends once and for all, it ends as canceled only when      *)
(* somebody asked for that, and a goal is asked to cancel only between     *)
(* its acceptance and its end.                                             *)
(***************************************************************************)
CONSTANT Goal

VARIABLES status,  \* of each goal, as its client sees it
          asked    \* goals whose client has asked for a cancel

Ending == {"succeeded", "aborted", "canceled"}

Init == status = [g \in Goal |-> "new"] /\ asked = {}

Respond(g) == /\ status[g] = "new"
              /\ \E s \in {"accepted", "refused"} : status' = [status EXCEPT ![g] = s]
              /\ UNCHANGED asked

AskCancel(g) == /\ status[g] = "accepted"
                /\ asked' = asked \cup {g}
                /\ UNCHANGED status

EndAs(g, s) == /\ status[g] = "accepted"
               /\ s = "canceled" => g \in asked
               /\ status' = [status EXCEPT ![g] = s]
               /\ UNCHANGED asked
End(g) == \E s \in Ending : EndAs(g, s)

Next == \E g \in Goal : Respond(g) \/ AskCancel(g) \/ End(g)

Spec == Init /\ [][Next]_<<status, asked>>
===============================================================================
