----------------------------- MODULE ShelvingSystem -----------------------------
(***************************************************************************)
(* The task manager together with the PlaceBook server and the executor    *)
(* behind it.  What TaskManager leaves to choice about placements is here  *)
(* what Manipulation does: whether a goal is accepted, what it ends with,  *)
(* and where the book is then.  Drives and detections are answered as      *)
(* before.                                                                 *)
(*                                                                         *)
(* The two are processes of their own.  One goes on when the other is      *)
(* killed or cannot be reached, and requests and answers are under way     *)
(* between them.                                                           *)
(***************************************************************************)
EXTENDS TaskManager, Integers, FiniteSets

CONSTANTS Slot, Motion, Window, Frame, Assigned, \* of Manipulation
          Fickle, \* bound: servers that may appear and go away
          KilledIn  \* bound: states of the FSM in which its process may be killed

\* A process of the task manager orders a book of a job only once.
Placement == [job : Job, book : Book, run : 0 .. MaxRestarts]

ASSUME SystemAssumption ==
  /\ Fickle \subseteq Server /\ KilledIn \subseteq SystemState
  /\ Slot \subseteq Nat /\ IsFiniteSet(Slot)
  /\ \A b \in DOMAIN Assigned : Assigned[b] \in Nat
  /\ Window \in Nat \ {0}
  /\ Frame \in {"arm_base_link", "base_link"}

VARIABLES
  commands, states, job, target, arm, start, where, held, shelved, \* executor
  stage, asked, slotOf, tracker, outcome, current, used,           \* node
  ordered  \* history: placements that have been asked for

Arm == INSTANCE Manipulation WITH
  Goal <- Placement, BookOf <- [p \in Placement |-> p.book],
  ValidGoal <- Placement, Impatient <- {}

ASSUME MotionAssumption ==
  /\ Motion \in Seq(Arm!SimPhase)
  /\ \A i, j \in DOMAIN Motion : i < j => Arm!InOrder(Motion[i], Motion[j])
  /\ {"lift", "carry_rotate", "release"} \subseteq Arm!ToSet(Motion)
  /\ None \notin Placement \cup Int \cup Arm!StateMessage

nodeVars == <<stage, asked, slotOf, tracker, outcome, current, used>>
armVars == <<commands, states, job, target, arm, start, where, held, shelved, nodeVars>>
systemVars == <<vars, armVars, ordered>>

\* The placement a goal stands for, and what is asked for after a step.
PlacementOf(g) == [job |-> g.job, book |-> g.book, run |-> restarts]
Orders == ordered' = ordered \cup {PlacementOf(g) : g \in {h \in goals' : h.kind = "place"}}

SystemInit == /\ Init /\ config = ConfigKey /\ Server \ Fickle \subseteq up
              /\ Arm!Init
              /\ ordered = {}
-------------------------------------------------------------------------------
(* The task manager alone.  Its status timer is left out, it has no part here. *)

\* Bound: the codes that navigation and perception report are left out, they end
\* in FAILED like the others.  ReportedCode holds those of the arm.
Answered(g) == /\ g.kind # "place"
               /\ GoalResponse(g) \/ HandleResult(g)
               /\ errorCode' \notin ReportedCode

Elsewhere == /\ \/ \E m \in Message : HandleTrayJob(m)
                \/ \E g \in goals : Answered(g)
                \/ \E s \in Fickle : ServerUp(s) \/ ServerDown(s)
                \/ state \in KilledIn /\ Restart
             /\ Orders
             /\ UNCHANGED armVars

(* The arm alone.  A request arrives some time after it was sent, also when   *)
(* its client is gone.                                                        *)

ArmStep == /\ \/ Arm!NextExecutor /\ UNCHANGED nodeVars
              \/ \E p \in ordered : Arm!OnGoal(p)
              \/ \E p \in Placement : Arm!Execute(p) \/ Arm!LateTurn(p)
              \/ \E m \in Arm!ToSet(states) : Arm!OnSimState(m)
           /\ UNCHANGED <<vars, ordered>>

(* What the server has decided reaches its client. *)

ReadsResponse(g) == \/ stage[PlacementOf(g)] \notin {"new", "rejected"} /\ GoalAccepted(g)
                    \/ /\ stage[PlacementOf(g)] = "rejected"
                       /\ GoalNotAccepted(g)
                       /\ errorCode' = ErrorRejected("manipulation")

ReadsResult(g) ==
  LET p == PlacementOf(g)
  IN  /\ stage[p] = "done"
      /\ \/ outcome[p] = 0 /\ ManipulationResult(g, TRUE, TRUE)
         \/ outcome[p] # 0 /\ ResultFailed(g) /\ errorCode' = outcome[p]

\* An exception of the future is handled, whatever the arm does.
Excepts(g) == /\ GoalNotAccepted(g) \/ ResultFailed(g)
              /\ errorCode' = ErrorResult("manipulation")

Reads == /\ \E g \in goals : /\ g.kind = "place"
                             /\ ReadsResponse(g) \/ ReadsResult(g) \/ Excepts(g)
         /\ Orders
         /\ UNCHANGED armVars
-------------------------------------------------------------------------------
SystemNext == Elsewhere \/ ArmStep \/ Reads
SystemSpec == SystemInit /\ [][SystemNext]_systemVars

(* Each side keeps the fairness it has alone.  Of placements TaskManager       *)
(* assumes that they are answered; here that follows from the threads and the *)
(* clock of the node, given that requests and answers arrive, and so Progress *)
(* does.  That a future raises is not assumed.                                *)
AnswerElsewhere == (\E g \in goals : Answered(g)) /\ Orders /\ UNCHANGED armVars
AnswerArrives == /\ \E g \in goals : g.kind = "place" /\ (ReadsResponse(g) \/ ReadsResult(g))
                 /\ Orders /\ UNCHANGED armVars
RequestArrives == (\E p \in ordered : Arm!OnGoal(p)) /\ UNCHANGED <<vars, ordered>>
Threads(p) == /\ WF_systemVars(Arm!Execute(p) /\ UNCHANGED <<vars, ordered>>)
              /\ WF_systemVars(Arm!Turn(p, {"goal", "cancel"}) /\ UNCHANGED <<vars, ordered>>)
FairSystem == /\ SystemSpec
              /\ WF_systemVars(AnswerElsewhere) /\ WF_systemVars(AnswerArrives)
              /\ WF_systemVars(RequestArrives)
              /\ \A p \in Placement : Threads(p)
-------------------------------------------------------------------------------
(* Properties *)

PlacementNow(book) == [job |-> activeJob, book |-> book, run |-> restarts]

\* A book that counts as completed stands on the shelf, and it is not the book
\* that another completed one is about: what the task manager believes of the
\* tray is so, over two topics, an action and any restart.
CompletedBooksStand ==
  \A i, k \in DOMAIN completed :
    LET p == PlacementNow(completed[i])  q == PlacementNow(completed[k])
    IN  /\ outcome[p] = 0 /\ where[slotOf[p]] = "shelf"
        /\ slotOf[p] = slotOf[q] => i = k

\* The task manager sends no drive while the arm works on what it has ordered,
\* or is still to begin with it, though nobody but the order of its states keeps
\* it from that: a goal may have ended without the arm (404), and the next job
\* may be waiting.
Driving == \E g \in goals : g.kind \in NavTarget
Unfinished(p) == stage[p] \in {"accepted", "checked", "tracked", "looping", "closing"}
NoDriveDuringOwnPlacement ==
  Driving => /\ Arm!Moving => job.token.run # restarts
             /\ \A p \in ordered : Unfinished(p) => p.run # restarts
===============================================================================
