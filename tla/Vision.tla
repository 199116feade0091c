-------------------------------- MODULE Vision --------------------------------
(***************************************************************************)
(* The DetectTargetSlot action server                                      *)
(* (shelving_perception/vision_manager.py, with the slot test of           *)
(* target_detector.py).                                                    *)
(*                                                                         *)
(* Two threads run every callback of the node.  A goal keeps one of them   *)
(* until it ends; the camera's callbacks exclude each other and use the    *)
(* other one.  They meet in five fields: the active goal, its result, the  *)
(* event, the pending flag and the latest depth image.  The steps of a     *)
(* frame, and those of a goal, are cut where they touch one of them.       *)
(*                                                                         *)
(* Of an image the model knows which goals had begun when it was taken,    *)
(* and of what is seen in it the slots that are free.                      *)
(***************************************************************************)
EXTENDS Integers, FiniteSets

CONSTANTS
  Goal,
  Candidate,  \* slot_positions: indices of the slots the camera looks at
  Threads,    \* of the executor (main)
  Waits,      \* wait_for_trigger
  Impatient,  \* goals whose client may ask for a cancel
  Trigger,    \* whether somebody publishes detection requests by hand
  None

\* What a goal ends with: its code, the slot, and the goals that had begun when
\* the images were taken.
Result == [code : {0, 3002, 3003, 3004}, slot : Candidate \cup {None},
           images : (SUBSET Goal) \cup {None}]

ASSUME VisionAssumption ==
  /\ Candidate \subseteq Nat
  /\ Threads \in Nat \ {0}
  /\ Waits \in BOOLEAN /\ Trigger \in BOOLEAN
  /\ Impatient \subseteq Goal
  /\ None \notin Goal \cup Result

VARIABLES
  stage,    \* how far the thread of a goal is
  asked,    \* goals with is_cancel_requested
  answer,   \* what a goal ended with, None before
  overlapped, \* history: the goals that ran while another one did
  active,   \* _active_goal
  result,   \* _action_result
  event,    \* _action_event
  pending,  \* pending_detection
  depth,    \* latest_depth_msg: None or the goals begun when it was taken
  frame,    \* the frame in the works, None if there is none
  spinning  \* whether the executor still runs callbacks

goalVars == <<stage, asked, answer, overlapped>>
shared == <<active, result, event, pending>>
vars == <<goalVars, shared, depth, frame, spinning>>

Stage == {"new", "refused", "accepted", "waiting", "looking", "woken", "done"}
Running == {g \in Goal : stage[g] \in {"waiting", "looking", "woken"}}
Begun == Running \cup {g \in Goal : stage[g] = "done"}

\* A callback runs on a thread that no goal and no frame holds.
ThreadFree == /\ spinning
              /\ Cardinality(Running) + (IF frame = None THEN 0 ELSE 1) < Threads

\* Results: of a frame with these images, or without any frame.
Failed(code, images) == [code |-> code, slot |-> None, images |-> images]
Min(S) == CHOOSE n \in S : \A m \in S : n <= m
ResultOf(empty, images) ==
  IF empty = {} THEN Failed(3003, images)
  ELSE [code |-> 0, slot |-> Min(empty), images |-> images]
Success(r) == r.code = 0

\* What the slot test says of an empty slot, and what is then read of it.
SlotKeys == {"slot_id", "pixel", "camera_xyz", "target_xyz", "observed_depth",
             "far_ratio", "near_ratio", "type"}
KeysRead == {"pixel", "row_index", "target_xyz"}
Raises(empty) == empty # {} /\ ~ KeysRead \subseteq SlotKeys

\* The places the camera can be pointed at (all, or none without a transform),
\* those of them that depth tells to be empty, and of these the ones that have a
\* position for the robot.
CandidateSlotsInCamera == {{}, Candidate}
EmptySlotsAt(candidates) == SUBSET candidates
Transformed(empty) == SUBSET empty

Init ==
  /\ stage = [g \in Goal |-> "new"] /\ asked = {}
  /\ answer = [g \in Goal |-> None]
  /\ active = None /\ result = None /\ event = FALSE
  /\ pending = ~Waits
  /\ depth = None /\ frame = None /\ spinning = TRUE
  /\ overlapped = {}
-------------------------------------------------------------------------------
(* The action server *)

AcceptDetectionGoal(g) ==
  /\ ThreadFree /\ stage[g] = "new"
  /\ stage' = [stage EXCEPT ![g] = IF active # None THEN "refused" ELSE "accepted"]
  /\ UNCHANGED <<asked, answer, overlapped, shared, depth, frame, spinning>>

\* The cancel callback accepts; what is cancelled is the goal's own affair.
CancelDetectionGoal(g) ==
  /\ ThreadFree /\ g \in Impatient \ asked
  /\ stage[g] = "accepted" \/ g \in Running
  /\ asked' = asked \cup {g}
  /\ UNCHANGED <<stage, answer, overlapped, shared, depth, frame, spinning>>

\* A goal starts, beside those that run.
RunsBeside(g) ==
  overlapped' = overlapped \cup (IF Running = {} THEN {} ELSE Running \cup {g})

\* Mutant: the event of an earlier goal is not cleared.
BeginKeepsEvent(g) ==
  /\ ThreadFree /\ stage[g] = "accepted"
  /\ stage' = [stage EXCEPT ![g] = "waiting"]
  /\ active' = g /\ result' = None /\ pending' = TRUE
  /\ RunsBeside(g)
  /\ UNCHANGED <<asked, answer, event, depth, frame, spinning>>

BeginDetection(g) ==
  /\ ThreadFree /\ stage[g] = "accepted"
  /\ stage' = [stage EXCEPT ![g] = "waiting"]
  /\ active' = g /\ result' = None /\ event' = FALSE /\ pending' = TRUE
  /\ RunsBeside(g)
  /\ UNCHANGED <<asked, answer, depth, frame, spinning>>

\* Mutant: the wait has no limit of its own.
WaitsForEver(g) == FALSE /\ UNCHANGED vars

\* The wait for the event ends without it; a frame may still set it.
WaitEnds(g) ==
  /\ stage[g] = "waiting" /\ ~event
  /\ stage' = [stage EXCEPT ![g] = "looking"]
  /\ UNCHANGED <<asked, answer, overlapped, shared, depth, frame, spinning>>

\* Mutant: a way out of _execute_detection that forgets the active goal.
EndKeepsActive(g, r) == /\ stage' = [stage EXCEPT ![g] = "done"]
                        /\ answer' = [answer EXCEPT ![g] = r]
                        /\ UNCHANGED <<asked, overlapped, active, result, event>>
                        /\ UNCHANGED <<depth, frame, spinning>>

End(g, r) == /\ stage' = [stage EXCEPT ![g] = "done"]
             /\ answer' = [answer EXCEPT ![g] = r]
             /\ active' = None
             /\ UNCHANGED <<asked, overlapped, result, event, depth, frame, spinning>>

StopCapture == pending' = FALSE

Canceled(g) == /\ stage[g] = "looking" /\ g \in asked
               /\ StopCapture
               /\ End(g, Failed(3002, None))

\* Mutant: the time limit answers with the code of a cancellation.
TimedOutAsCanceled(g) == /\ stage[g] = "looking" /\ g \notin asked
                         /\ StopCapture
                         /\ End(g, Failed(3002, None))

TimedOut(g) == /\ stage[g] = "looking" /\ g \notin asked
               /\ StopCapture
               /\ End(g, Failed(3003, None))

WaitOn(g) == /\ stage[g] = "looking" /\ g \notin asked
             /\ stage' = [stage EXCEPT ![g] = "waiting"]
             /\ UNCHANGED <<asked, answer, overlapped, shared, depth, frame, spinning>>

\* The event is set: the wait is over, whatever happens to the event later.
Wake(g) ==
  /\ stage[g] = "waiting" /\ event
  /\ stage' = [stage EXCEPT ![g] = "woken"]
  /\ UNCHANGED <<asked, answer, overlapped, shared, depth, frame, spinning>>

\* With the lock, that was free to others since: whatever the result is now, it
\* is this goal's, and no goal is the active one.
TakeResult(g) ==
  /\ stage[g] = "woken"
  /\ UNCHANGED pending
  /\ End(g, IF result = None THEN Failed(3004, None) ELSE result)
-------------------------------------------------------------------------------
(* The camera *)

\* Intrinsics are kept in the same way, and arrive with every depth image.
DepthArrives ==
  /\ ThreadFree /\ frame = None
  /\ depth' = Begun
  /\ UNCHANGED <<goalVars, shared, frame, spinning>>

TriggerCallback ==
  /\ ThreadFree /\ Trigger /\ frame = None
  /\ pending' = TRUE
  /\ UNCHANGED <<goalVars, active, result, event, depth, frame, spinning>>

\* A colour image finds a request pending.  Images that have no partner, come
\* from another frame or cannot be converted change nothing.
FrameArrives ==
  /\ ThreadFree /\ frame = None /\ pending /\ depth # None
  /\ frame' = [step |-> "seen", goal |-> None, images |-> depth, empty |-> {}]
  /\ UNCHANGED <<goalVars, shared, depth, spinning>>

FrameDone == frame' = None /\ UNCHANGED <<goalVars, pending, depth>>

SetActionResult(r) ==
  IF active # None THEN result' = r /\ event' = TRUE /\ UNCHANGED active
  ELSE UNCHANGED <<active, result, event>>

TakeRequest ==
  /\ frame # None /\ frame.step = "seen"
  /\ pending' = FALSE
  /\ \/ frame' = [frame EXCEPT !.step = "taken"]
     \/ frame' = None                       \* the focal length is not positive
  /\ UNCHANGED <<goalVars, active, result, event, depth, spinning>>

\* Mutant: the failure of a detection has a code of its own.
DetectionFailsUncoded ==
  /\ frame # None /\ frame.step = "taken"
  /\ SetActionResult(Failed(3001, frame.images))
  /\ FrameDone /\ UNCHANGED spinning

\* The detectors cannot make sense of the images.
DetectionFails ==
  /\ frame # None /\ frame.step = "taken"
  /\ SetActionResult(Failed(3003, frame.images))
  /\ FrameDone /\ UNCHANGED spinning

Detect ==
  /\ frame # None /\ frame.step = "taken"
  /\ \E candidates \in CandidateSlotsInCamera :
       \E empty \in EmptySlotsAt(candidates) :
         frame' = [frame EXCEPT !.step = "found", !.empty = empty]
  /\ UNCHANGED <<goalVars, shared, depth, spinning>>

\* The debug image is drawn, then the goal is looked up.  An exception that is
\* not expected there ends the executor: the node runs no more callbacks, only
\* the goals that have a thread go on.
DrawDebugImage ==
  /\ frame # None /\ frame.step = "found"
  /\ IF Raises(frame.empty)
     THEN spinning' = FALSE /\ frame' = None
     ELSE /\ frame' = [frame EXCEPT !.step = "drawn", !.goal = active]
          /\ UNCHANGED spinning
  /\ UNCHANGED <<goalVars, shared, depth>>

\* Whether there still is a goal to answer was looked up before the positions
\* were transformed, and is looked up again when the answer is stored.
CompleteAction ==
  /\ frame # None /\ frame.step = "drawn"
  /\ \E empty \in Transformed(frame.empty) :
       IF frame.goal # None
       THEN SetActionResult(ResultOf(empty, frame.images))
       ELSE UNCHANGED <<active, result, event>>
  /\ FrameDone /\ UNCHANGED spinning
-------------------------------------------------------------------------------
Look(g) == WaitEnds(g) \/ Canceled(g) \/ Wake(g) \/ TakeResult(g)
ProcessFrame == TakeRequest \/ DetectionFails \/ Detect \/ DrawDebugImage
                \/ CompleteAction

Next == \/ \E g \in Goal : \/ AcceptDetectionGoal(g) \/ CancelDetectionGoal(g)
                           \/ BeginDetection(g) \/ Look(g)
                           \/ TimedOut(g) \/ WaitOn(g)
        \/ DepthArrives \/ TriggerCallback \/ FrameArrives \/ ProcessFrame

Spec == Init /\ [][Next]_vars

(* Threads run, a goal that waits on and on sees its time limit, and the      *)
(* executor's queue is first come first served: an accepted goal gets the     *)
(* thread that becomes free again and again.  Nothing is assumed of cameras   *)
(* and clients.                                                               *)
Fairness == /\ \A g \in Goal : /\ WF_vars(Look(g))
                               /\ SF_vars(TimedOut(g))
                               /\ SF_vars(BeginDetection(g))
            /\ WF_vars(ProcessFrame)
FairSpec == Spec /\ Fairness
-------------------------------------------------------------------------------
(* Properties *)

Frame == [step : {"seen", "taken", "found", "drawn"}, images : SUBSET Goal,
          goal : Goal \cup {None}, empty : SUBSET Candidate]
TypeOK ==
  /\ stage \in [Goal -> Stage] /\ asked \subseteq Goal /\ overlapped \subseteq Goal
  /\ answer \in [Goal -> Result \cup {None}]
  /\ active \in Goal \cup {None} /\ result \in Result \cup {None}
  /\ event \in BOOLEAN /\ pending \in BOOLEAN /\ spinning \in BOOLEAN
  /\ depth \in (SUBSET Goal) \cup {None}
  /\ frame \in Frame \cup {None}

\* The active goal is one that runs: whichever way goals end, and however they
\* overlap, none is left behind that would have every later goal refused
\* (vision_manager.py:315).
ActiveIsRunning == active # None => active \in Running

\* A goal that has the node to itself is served: it stays the active one, finds
\* a result when it is woken, and never answers that there is none (3004,
\* vision_manager.py:381), whatever events, results and frames earlier goals
\* have left behind.  Of goals that overlap none of this holds.
AloneIsServed ==
  \A g \in Goal \ overlapped :
    /\ g \in Running => active = g
    /\ stage[g] = "woken" => result # None
    /\ answer[g] # None => answer[g].code # 3004

\* Every accepted goal ends, whatever cameras and other goals do, as long as the
\* executor spins; a goal that has a thread ends even then.
EveryGoalEnds ==
  \A g \in Goal : /\ stage[g] = "accepted" ~> (stage[g] = "done" \/ ~spinning)
                  /\ stage[g] = "waiting" ~> stage[g] = "done"

EndingOf(r) == IF r.code = 0 THEN "succeeded"
               ELSE IF r.code = 3002 THEN "canceled" ELSE "aborted"
StatusOf(g) == CASE stage[g] \in {"new", "refused"} -> stage[g]
                 [] stage[g] = "done" -> EndingOf(answer[g])
                 [] OTHER -> "accepted"
Service == INSTANCE ActionService WITH status <- [g \in Goal |-> StatusOf(g)],
                                       asked <- asked

\* To its clients the node is an action server like any other.
ImplementsActionService == Service!Spec
===============================================================================
