------------------------------ MODULE Manipulation ------------------------------
(***************************************************************************)
(* The PlaceBook action server                                             *)
(* (shelving_manipulation/manipulation_node.py, with PlaceTracker of       *)
(* book_placer.py and select_tray_slot of grasp_planner.py), composed with *)
(* the executor inside Isaac Sim.                                          *)
(*                                                                         *)
(* The node has four threads and reentrant callbacks: every goal has a     *)
(* thread, and what it does between two critical sections is an action.    *)
(* The clock is what the code asks of it: which time limits have passed    *)
(* when a turn of the loop looks.                                          *)
(***************************************************************************)
EXTENDS ManipulationExecutor

CONSTANTS
  BookOf,    \* the book_id of a goal
  Assigned,  \* tray assignments of book_profiles.yaml: book -> slot index
  ValidGoal, \* goals that pass resolve_book and validate_goal
  Impatient  \* goals whose client may ask for a cancel

ASSUME NodeAssumption ==
  /\ DOMAIN BookOf = Goal
  /\ \A b \in DOMAIN Assigned : Assigned[b] \in Nat
  /\ ValidGoal \subseteq Goal /\ Impatient \subseteq Goal

VARIABLES
  stage,     \* how far the thread of a goal is
  asked,     \* is_cancel_requested of a goal
  slotOf,    \* tray_slot of a goal
  tracker,   \* the tracker of a goal: what it knows of the job
  outcome,   \* its outcome as an error code, 0 for success, None before
  current,   \* _tracker: the goal whose tracker the node holds, or None
  used       \* used_slots

nodeVars == <<stage, asked, slotOf, tracker, outcome, current,
              used>>
vars == <<executorVars, nodeVars>>

Stage == {"new", "rejected", "accepted", "checked", "tracked", "looping",
          "closing", "done"}
Limit == {"heartbeat", "goal", "cancel"}
Tracker == [progress : 0 .. Len(SimPhaseOrder), left : BOOLEAN, seen : BOOLEAN,
            timedOut : BOOLEAN, cancelled : BOOLEAN]
NewTracker == [progress |-> 0, left |-> FALSE, seen |-> FALSE,
               timedOut |-> FALSE, cancelled |-> FALSE]

\* Phases mapped to one of LEFT_TRAY_PHASES by SIM_PHASE_TO_PHASE.
LeftTrayPhase == ToSet(SimPhaseOrder) \ {"plan", "home", "approach", "down",
                                         "grip", "attach", "lift"}

InitNode ==
  /\ stage = [g \in Goal |-> "new"]
  /\ asked = [g \in Goal |-> FALSE]
  /\ slotOf = [g \in Goal |-> None]
  /\ tracker = [g \in Goal |-> NewTracker]
  /\ outcome = [g \in Goal |-> None]
  /\ current = None
  /\ used = {}

Init == InitExecutor /\ InitNode
-------------------------------------------------------------------------------
\* _on_goal: refused while the node holds a tracker.
OnGoal(g) ==
  /\ stage[g] = "new"
  /\ stage' = [stage EXCEPT ![g] = IF current # None THEN "rejected"
                                   ELSE "accepted"]
  /\ UNCHANGED <<executorVars, asked, slotOf, tracker, outcome, current, used>>

\* _on_cancel accepts every request for a goal that has not ended; one that
\* comes after the loop changes nothing any more.
OnCancel(g) ==
  /\ g \in Impatient /\ ~asked[g]
  /\ stage[g] \in {"accepted", "checked", "tracked", "looping"}
  /\ asked' = [asked EXCEPT ![g] = TRUE]
  /\ UNCHANGED <<executorVars, stage, slotOf, tracker, outcome, current, used>>

\* select_tray_slot: the slot assigned to the book, else the first one not
\* used; or the error code of its refusal.
Free == Slot \ used
SlotOrCode(book) ==
  IF book \in DOMAIN Assigned
  THEN IF Assigned[book] \notin Slot THEN [code |-> 410]
       ELSE IF Assigned[book] \in used THEN [code |-> 411]
       ELSE [slot |-> Assigned[book]]
  ELSE IF Free = {} THEN [code |-> 411]
       ELSE [slot |-> CHOOSE s \in Free : \A t \in Free : s <= t]

\* _execute up to the creation of the tracker.
CheckGoal(g) ==
  /\ stage[g] = "accepted"
  /\ LET selected == IF g \in ValidGoal THEN SlotOrCode(BookOf[g])
                     ELSE [code |-> 410]
     IN IF "slot" \in DOMAIN selected
        THEN /\ stage' = [stage EXCEPT ![g] = "checked"]
             /\ slotOf' = [slotOf EXCEPT ![g] = selected.slot]
             /\ UNCHANGED outcome
        ELSE /\ stage' = [stage EXCEPT ![g] = "done"]
             /\ outcome' = [outcome EXCEPT ![g] = selected.code]
             /\ UNCHANGED slotOf
  /\ UNCHANGED <<executorVars, asked, tracker, current, used>>

SetTracker(g) ==
  /\ stage[g] = "checked"
  /\ stage' = [stage EXCEPT ![g] = "tracked"]
  /\ current' = g
  /\ UNCHANGED <<executorVars, asked, slotOf, tracker, outcome, used>>

SendPlace(g) ==
  /\ stage[g] = "tracked"
  /\ stage' = [stage EXCEPT ![g] = "looping"]
  /\ commands' = Append(commands, PlaceCommand(g, slotOf[g]))
  /\ UNCHANGED <<states, job, target, arm, start, scene, asked, slotOf,
                 tracker, outcome, current, used>>
-------------------------------------------------------------------------------
\* Mutant: a success is believed without its verification.
OutcomeUnchecked(m, timedOut) ==
  CASE m.status = "SUCCEEDED" -> 0
    [] m.status = "FAILED"    -> IF m.code = 0 THEN 404 ELSE m.code
    [] m.status = "CANCELLED" -> IF timedOut THEN 404 ELSE 412
    [] OTHER                  -> None

\* The outcome on_sim_state makes of a state.
OutcomeOf(m, timedOut) ==
  CASE m.status = "SUCCEEDED" -> IF m.verified THEN 0 ELSE 409
    [] m.status = "FAILED"    -> IF m.code = 0 THEN 404 ELSE m.code
    [] m.status = "CANCELLED" -> IF timedOut THEN 404 ELSE 412
    [] OTHER                  -> None

\* progress_of, in steps of SIM_PHASE_ORDER; 1.0 is its length.
StepOf(phase) == (CHOOSE i \in DOMAIN SimPhaseOrder : SimPhaseOrder[i] = phase) - 1

\* Mutant: progress is that of the last state.
ProgressOfLast(t, m) == StepOf(m.phase)

ProgressAfter(t, m) ==
  IF OutcomeOf(m, t.timedOut) = 0 THEN Len(SimPhaseOrder)
  ELSE IF StepOf(m.phase) > t.progress THEN StepOf(m.phase) ELSE t.progress

\* What the tracker remembers of a state.
TrackerTold(t, m) == [t EXCEPT !.seen = TRUE,
                               !.progress = ProgressAfter(t, m),
                               !.left = @ \/ m.phase \in LeftTrayPhase]

\* Mutant: a state is taken whatever its token.
TakesAnyState(m) == current # None /\ outcome[current] = None

\* Whether _on_sim_state takes a state: the node's tracker is the one of its
\* token and has no outcome.
TakesState(m) == current = m.token /\ outcome[m.token] = None

\* _on_sim_state.  The executor repeats its state ten times a second, threads
\* overtake each other and the topic may drop messages: any of the last states
\* may be the next to be taken, or may never be.
OnSimState(m) ==
  /\ TakesState(m)
  /\ outcome' = [outcome EXCEPT ![current] =
                   OutcomeOf(m, tracker[current].timedOut)]
  /\ tracker' = [tracker EXCEPT ![current] = TrackerTold(tracker[current], m)]
  /\ UNCHANGED <<executorVars, stage, asked, slotOf, current,
                 used>>
-------------------------------------------------------------------------------
(* One turn of the loop in _execute; `passed` are the time limits that it   *)
(* finds to have passed: heartbeat_timeout_s since the last state,          *)
(* goal_timeout_s since the start, cancel_timeout_s since the last cancel   *)
(* command.                                                                 *)

\* request_cancel, on behalf of the client
WantsCancel(g) ==
  asked[g] /\ outcome[g] = None /\ ~tracker[g].cancelled

\* Mutant: the time limit of the goal is not looked at.
GoalTimeoutIgnored(g, passed) == FALSE

\* check(): the time limit of the goal has passed for the first time.
GoalTimeout(g, passed) == /\ "goal" \in passed /\ "heartbeat" \notin passed
                          /\ ~tracker[g].timedOut

\* The cancel commands of a turn: one for the client, one for the time limit.
CancelsSent(g, passed) ==
  (IF WantsCancel(g) THEN <<CancelCommand(g)>> ELSE <<>>)
    \o (IF GoalTimeout(g, passed) THEN <<CancelCommand(g)>> ELSE <<>>)

\* The outcome a turn makes by itself: the heartbeat is lost, or no answer to
\* the cancel command (cancel_sent_at is set with cancel_requested) has come.
GaveUp(g, passed) ==
  IF "heartbeat" \in passed THEN IF tracker[g].seen THEN 404 ELSE 411
  ELSE IF /\ CancelsSent(g, passed) = <<>>
          /\ tracker[g].cancelled /\ "cancel" \in passed
  THEN 404 ELSE None

\* The last turn: the node's tracker is cleared, whichever goal it belongs to.
LeaveLoop(g, code) ==
  /\ stage' = [stage EXCEPT ![g] = "closing"]
  /\ outcome' = [outcome EXCEPT ![g] = code]
  /\ current' = None

\* What the tracker remembers of a turn.
TrackerAfter(g, passed) ==
  [tracker[g] EXCEPT !.cancelled = @ \/ CancelsSent(g, passed) # <<>>,
                     !.timedOut  = @ \/ GoalTimeout(g, passed)]

Turn(g, passed) ==
  /\ stage[g] = "looping"
  /\ IF outcome[g] # None
     THEN LeaveLoop(g, outcome[g]) /\ UNCHANGED <<commands, tracker>>
     ELSE /\ commands' = commands \o CancelsSent(g, passed)
          /\ tracker' = [tracker EXCEPT ![g] = TrackerAfter(g, passed)]
          /\ IF GaveUp(g, passed) = None
             THEN UNCHANGED <<stage, outcome, current>>
             ELSE LeaveLoop(g, GaveUp(g, passed))
  /\ UNCHANGED <<states, job, target, arm, start, scene, asked, slotOf, used>>

\* After the loop: the tray slot is used up if the book was placed, or if the
\* arm was seen past the point where the book leaves the tray.  Of the tracker,
\* which is gone, the model remembers whether it has asked for a cancel.
FinishGoal(g) ==
  /\ stage[g] = "closing"
  /\ stage' = [stage EXCEPT ![g] = "done"]
  /\ used' = IF outcome[g] = 0 \/ tracker[g].left
             THEN used \cup {slotOf[g]} ELSE used
  /\ tracker' = [tracker EXCEPT ![g] = [NewTracker EXCEPT !.cancelled =
                                          tracker[g].cancelled]]
  /\ UNCHANGED <<executorVars, asked, slotOf, outcome, current>>

-------------------------------------------------------------------------------
\* The thread of a goal.
Execute(g) == \/ CheckGoal(g) \/ SetTracker(g) \/ SendPlace(g)
              \/ Turn(g, {})
              \/ FinishGoal(g)
LateTurn(g) == \E passed \in SUBSET Limit \ {{}} : Turn(g, passed)

Next == \/ NextExecutor /\ UNCHANGED nodeVars
        \/ \E g \in Goal : OnGoal(g) \/ OnCancel(g) \/ Execute(g) \/ LateTurn(g)
        \/ \E m \in ToSet(states) : OnSimState(m)

Spec == Init /\ [][Next]_vars

(* The threads of the node run and its clock goes on: a loop that never ends *)
(* has turns after both of its limits.  Nothing is assumed of the simulator, *)
(* the topics or the client.                                                 *)
Fairness == \A g \in Goal : /\ WF_vars(Execute(g))
                            /\ WF_vars(Turn(g, {"goal", "cancel"}))
FairSpec == Spec /\ Fairness
-------------------------------------------------------------------------------
(* Properties *)

NodeTypeOK ==
  /\ stage \in [Goal -> Stage]
  /\ asked \in [Goal -> BOOLEAN]
  /\ slotOf \in [Goal -> Slot \cup {None}]
  /\ tracker \in [Goal -> Tracker]
  /\ outcome \in [Goal -> Codes \cup {409, 412, None}]
  /\ current \in Goal \cup {None}
  /\ used \subseteq Slot
TypeOK == ExecutorTypeOK /\ NodeTypeOK

\* A goal that succeeds has put a book of its own on the shelf: the book of its
\* tray slot stands there, and no other goal succeeded with that book.  The
\* node alone does not see to it (two goals may select the same slot), nor does
\* the executor (it does not know of outcomes).
PlacedForReal ==
  \A g \in Goal : outcome[g] = 0 =>
    /\ where[slotOf[g]] = "shelf"
    /\ \A h \in Goal : outcome[h] = 0 /\ slotOf[h] = slotOf[g] => h = g

\* When a goal ends with an answer of the executor, the arm no longer works
\* for it.  404 and 411 may be the node's own verdict, without an answer.
RestWhenReported ==
  \A g \in Goal :
    outcome[g] \notin {None, 404, 411} /\ Moving => job.token # g

\* A job is only ever cancelled on behalf of its own goal, when several goals
\* and their cancel commands are under way.
CancelHitsItsJob ==
  [][job' # job /\ job'.status = "CANCELLED" => tracker[job'.token].cancelled]_vars

\* The progress reported for a goal never goes back, though phases are reported
\* twice (INSERTING) and states arrive late or again (book_placer.py:85).
ProgressNeverDrops ==
  [][\A g \in Goal : stage'[g] # "done" =>
                      tracker'[g].progress >= tracker[g].progress]_vars

\* Every accepted goal gets a result, whatever the simulator does: the time
\* limits see to it.
Resolved == \A g \in Goal : stage[g] = "accepted" ~> stage[g] = "done"

\* The server and the executor together keep the promise of PlacementService.
Answer(g) == CASE stage[g] = "rejected" -> "refused"
               [] stage[g] = "done" -> IF outcome[g] = 0 THEN "placed"
                                       ELSE "failed"
               [] OTHER -> "none"
Service == INSTANCE PlacementService WITH
  Capacity <- Cardinality(Slot),
  answer   <- [g \in Goal |-> Answer(g)],
  shelved  <- shelved
ImplementsPlacementService == Service!Spec
===============================================================================
