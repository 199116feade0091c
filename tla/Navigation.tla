------------------------------ MODULE Navigation ------------------------------
(***************************************************************************)
(* The NavigateToTarget action server                                      *)
(* (shelving_navigation/navigation_node.py), with Nav2 as it is used.      *)
(*                                                                         *)
(* _execute_callback is a coroutine: it gives its thread back wherever it  *)
(* awaits, and several goals may be under way.  They share four fields of  *)
(* the node, which feedback from Nav2 reads on the other thread.  Two      *)
(* calls of the relay loop raise and end the goal: ActionClient has no     *)
(* cancel_goal_async (a goal handle has), and asyncio.sleep needs an       *)
(* asyncio loop, which rclpy's executor is not.                            *)
(*                                                                         *)
(* What a goal asks for is left to choice: it may lack a name, a waypoint  *)
(* or a pose.  A goal stands for its pose, and a pose of the robot for the *)
(* goal of Nav2 that reported it.                                          *)
(***************************************************************************)
EXTENDS Integers, FiniteSets

CONSTANTS
  Goal,
  Impatient,  \* goals whose client may ask for a cancel
  None

\* What a goal ends with.
Answer == [status : {"succeeded", "aborted", "canceled"},
           code : {0, 2001, 2002, 2003, 2004}]

ASSUME NavigationAssumption == Impatient \subseteq Goal /\ None \notin Goal \cup Answer

VARIABLES
  stage,      \* where the coroutine of a goal is
  asked,      \* goals with is_cancel_requested
  answer,     \* what a goal ends with, None before
  active,     \* _active_goal_handle
  activeNav2, \* _active_nav2_goal_handle
  target,     \* _active_target_pose
  latest,     \* _latest_nav2_feedback: the goal it is about
  feedback,   \* the goal that a feedback in the works goes to, None without one
  alive,      \* whether the executor still runs callbacks
  nav2        \* the goals that Nav2 has been given (external)

execVars == <<stage, asked, answer>>
fields == <<active, activeNav2, target, latest>>
vars == <<stage, asked, answer, active, activeNav2, target, latest, feedback,
          alive, nav2>>

Stage == {"new", "refused", "accepted", "preparing", "sent", "relaying",
          "measuring", "leaving", "raising", "done"}
Executing == {g \in Goal : stage[g] \in {"preparing", "sent", "relaying",
                                         "measuring", "leaving", "raising"}}

Init ==
  /\ stage = [g \in Goal |-> "new"] /\ asked = {}
  /\ answer = [g \in Goal |-> None]
  /\ active = None /\ activeNav2 = None /\ target = None /\ latest = None
  /\ feedback = None /\ alive = TRUE
  /\ nav2 = [g \in Goal |-> "none"]
-------------------------------------------------------------------------------
(* Goals, up to Nav2 *)

GoalCallback(g) ==
  /\ alive /\ stage[g] = "new"
  /\ \E s \in {"accepted", "refused"} : stage' = [stage EXCEPT ![g] = s]
  /\ UNCHANGED <<asked, answer, fields, feedback, alive, nav2>>

\* rclpy takes a cancel until the goal is over.
CancelCallback(g) ==
  /\ alive /\ g \in Impatient \ asked
  /\ stage[g] = "accepted" \/ g \in Executing
  /\ answer[g] = None
  /\ asked' = asked \cup {g}
  /\ UNCHANGED <<stage, answer, fields, feedback, alive, nav2>>

Begin(g) ==
  /\ alive /\ stage[g] = "accepted"
  /\ stage' = [stage EXCEPT ![g] = "preparing"]
  /\ active' = g /\ latest' = None
  /\ UNCHANGED <<asked, answer, activeNav2, target, feedback, alive, nav2>>

\* The goal is over; its result is on the way out of the coroutine.
Conclude(g, status, code) ==
  /\ stage' = [stage EXCEPT ![g] = "leaving"]
  /\ answer' = [answer EXCEPT ![g] = [status |-> status, code |-> code]]
  /\ UNCHANGED <<asked, feedback, alive>>

\* The coroutine raises; until it is out of its finally clause the goal is not over.
Raise(g) == /\ stage' = [stage EXCEPT ![g] = "raising"]
            /\ UNCHANGED <<asked, answer, feedback, alive>>

\* Mutant: such a goal is not given a result at all.
AnswerWithoutResult(g) ==
  IF stage[g] = "raising" THEN [status |-> "aborted", code |-> None] ELSE answer[g]

\* rclpy aborts a goal whose coroutine has raised, with an empty result.
FinalAnswer(g) ==
  IF stage[g] = "raising" THEN [status |-> "aborted", code |-> 0] ELSE answer[g]

NoServer(g) == /\ alive /\ stage[g] = "preparing"
               /\ Conclude(g, "aborted", 2001)
               /\ UNCHANGED <<fields, nav2>>

NoTarget(g) == /\ alive /\ stage[g] = "preparing"
               /\ Conclude(g, "aborted", 2004)
               /\ UNCHANGED <<fields, nav2>>

SendGoal(g) ==
  /\ alive /\ stage[g] = "preparing"
  /\ stage' = [stage EXCEPT ![g] = "sent"]
  /\ target' = g
  /\ nav2' = [nav2 EXCEPT ![g] = "asked"]
  /\ UNCHANGED <<asked, answer, active, activeNav2, latest, feedback, alive>>

NotAccepted(g) == /\ alive /\ stage[g] = "sent" /\ nav2[g] = "refused"
                  /\ Conclude(g, "aborted", 2002)
                  /\ UNCHANGED <<fields, nav2>>

Accepted(g) ==
  /\ alive /\ stage[g] = "sent" /\ nav2[g] \notin {"asked", "refused"}
  /\ stage' = [stage EXCEPT ![g] = "relaying"]
  /\ activeNav2' = g
  /\ UNCHANGED <<asked, answer, active, target, latest, feedback, alive, nav2>>
-------------------------------------------------------------------------------
(* The relay loop.  It looks at the future of the result right after asking   *)
(* for it.                                                                    *)

Ended == {"succeeded", "aborted"}

\* The result is there already.  A drive that succeeded is measured next.
TakeResult(g) ==
  /\ alive /\ stage[g] = "relaying" /\ nav2[g] \in Ended
  /\ IF nav2[g] = "succeeded"
     THEN /\ stage' = [stage EXCEPT ![g] = "measuring"]
          /\ UNCHANGED <<asked, answer, feedback, alive>>
     ELSE Conclude(g, "aborted", 2003)
  /\ UNCHANGED <<fields, nav2>>

\* Mutants: an exception is reported as a failed drive, or as a cancellation;
\* the loop goes on for as long as Nav2 drives.
RelayFails(g) == /\ alive /\ stage[g] = "relaying"
                 /\ Conclude(g, "aborted", 2003)
                 /\ UNCHANGED <<fields, nav2>>
RelayCancels(g) == /\ alive /\ stage[g] = "relaying"
                   /\ Conclude(g, "canceled", 0)
                   /\ UNCHANGED <<fields, nav2>>
RelayWaits(g) == /\ alive /\ stage[g] = "relaying" /\ nav2[g] \in Ended
                 /\ Raise(g)
                 /\ UNCHANGED <<fields, nav2>>

\* It is not: the coroutine raises, when it cancels the goal of Nav2 as well as
\* when it sleeps.
RelayRaises(g) == /\ alive /\ stage[g] = "relaying"
                  /\ Raise(g)
                  /\ UNCHANGED <<fields, nav2>>

\* The tolerance is measured against the target of the node, which is that of
\* another goal when goals overlap, or gone.
CheckTolerance(g) ==
  /\ alive /\ stage[g] = "measuring"
  /\ IF target = None THEN Raise(g) ELSE Conclude(g, "succeeded", 0)
  /\ UNCHANGED <<fields, nav2>>

\* Mutant: a goal clears the fields only while it is the active one.
LeaveIfActive(g) ==
  /\ alive /\ stage[g] \in {"leaving", "raising"}
  /\ stage' = [stage EXCEPT ![g] = "done"]
  /\ answer' = [answer EXCEPT ![g] = FinalAnswer(g)]
  /\ IF active = g
     THEN active' = None /\ activeNav2' = None /\ target' = None /\ latest' = None
     ELSE UNCHANGED fields
  /\ UNCHANGED <<asked, feedback, alive, nav2>>

\* finally: the fields are cleared, whoever they belong to.
Leave(g) ==
  /\ alive /\ stage[g] \in {"leaving", "raising"}
  /\ stage' = [stage EXCEPT ![g] = "done"]
  /\ answer' = [answer EXCEPT ![g] = FinalAnswer(g)]
  /\ active' = None /\ activeNav2' = None /\ target' = None /\ latest' = None
  /\ UNCHANGED <<asked, feedback, alive, nav2>>
-------------------------------------------------------------------------------
(* Feedback of Nav2 *)

FeedbackArrives(h) ==
  /\ alive /\ feedback = None
  /\ nav2[h] \notin {"none", "asked", "refused"}
  /\ latest' = h
  /\ feedback' = active
  /\ UNCHANGED <<execVars, active, activeNav2, target, alive, nav2>>

\* The errors are computed against the target of the node.  Without one the
\* callback raises, and an exception in a callback ends the executor.
FeedbackRelayed ==
  /\ alive /\ feedback # None
  /\ feedback' = None
  /\ alive' = (target # None)
  /\ UNCHANGED <<execVars, fields, nav2>>
-------------------------------------------------------------------------------
(* Nav2 drives to one goal at a time, the latest it has accepted *)

Nav2Responds(g) ==
  /\ nav2[g] = "asked"
  /\ \/ nav2' = [nav2 EXCEPT ![g] = "refused"]
     \/ nav2' = [h \in Goal |-> IF h = g THEN "driving"
                                ELSE IF nav2[h] = "driving" THEN "aborted"
                                ELSE nav2[h]]
  /\ UNCHANGED <<execVars, fields, feedback, alive>>

Nav2Ends(g) ==
  /\ nav2[g] = "driving"
  /\ \E e \in Ended : nav2' = [nav2 EXCEPT ![g] = e]
  /\ UNCHANGED <<execVars, fields, feedback, alive>>
-------------------------------------------------------------------------------
Execute(g) == \/ Begin(g) \/ NoServer(g) \/ NoTarget(g) \/ SendGoal(g)
              \/ NotAccepted(g) \/ Accepted(g) \/ TakeResult(g) \/ RelayRaises(g)
              \/ CheckTolerance(g) \/ Leave(g)

Next == \/ \E g \in Goal : \/ GoalCallback(g) \/ CancelCallback(g) \/ Execute(g)
                           \/ FeedbackArrives(g) \/ Nav2Responds(g) \/ Nav2Ends(g)
        \/ FeedbackRelayed

Spec == Init /\ [][Next]_vars

(* The executor resumes every coroutine that can go on, and Nav2 answers a    *)
(* request, if only by refusing it.  That a drive ends is not assumed.        *)
Fairness == \A g \in Goal : WF_vars(Execute(g)) /\ WF_vars(Nav2Responds(g))
FairSpec == Spec /\ Fairness
-------------------------------------------------------------------------------
(* Properties *)

TypeOK ==
  /\ stage \in [Goal -> Stage] /\ asked \subseteq Goal
  /\ answer \in [Goal -> Answer \cup {None}]
  /\ {active, activeNav2, target, latest, feedback} \subseteq Goal \cup {None}
  /\ alive \in BOOLEAN
  /\ nav2 \in [Goal -> {"none", "asked", "refused", "driving"} \cup Ended]

\* A goal that is told of success has been driven to, and a goal that is given
\* an error code is not being driven to: whatever overlaps, the robot stands or
\* works for somebody else.  (A goal that ends with an exception has no code.)
CodeMeansStopped ==
  \A g \in Goal : answer[g] # None =>
    /\ answer[g].status = "succeeded" => nav2[g] = "succeeded"
    /\ answer[g].code # 0 => nav2[g] \notin {"asked", "driving"}

\* When no goal is executed the fields of the node are as in the beginning, but
\* for late feedback: goals that overlap and end in any order and in any way
\* leave nothing of themselves to the next one.
IdleIsClean ==
  Executing = {} => active = None /\ activeNav2 = None /\ target = None

\* Every accepted goal is answered, unless feedback has ended the node.
EveryGoalEnds == \A g \in Goal : stage[g] = "accepted" ~> stage[g] = "done" \/ ~alive

StatusOf(g) == CASE stage[g] = "new" -> "new"
                 [] stage[g] = "refused" -> "refused"
                 [] answer[g] # None -> answer[g].status
                 [] OTHER -> "accepted"
Service == INSTANCE ActionService WITH status <- [g \in Goal |-> StatusOf(g)],
                                       asked <- asked

\* To its clients the node is an action server like any other.
ImplementsActionService == Service!Spec
===============================================================================
