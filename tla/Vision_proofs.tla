----------------------------- MODULE Vision_proofs -----------------------------
(***************************************************************************)
(* What holds of the vision node for any goals, slots and number of        *)
(* threads, whatever the camera shows and whenever.                        *)
(***************************************************************************)
EXTENDS Vision, WellFoundedInduction, TLAPS

\* A frame never answers as if somebody had cancelled.
FramesDoNotCancel == result # None => result.code \in {0, 3003}

\* The event and the result are set and reset together.  A goal that leaves its
\* wait does so without the lock, and may find the result reset.
EventHasResult == event => result # None

\* Goals that run at the same time are known to.
OverlapsAreKnown == \A g, h \in Running : g # h => g \in overlapped

IInv == /\ TypeOK /\ ActiveIsRunning /\ AloneIsServed
        /\ FramesDoNotCancel /\ EventHasResult /\ OverlapsAreKnown
-------------------------------------------------------------------------------
\* The slot that is chosen is one of those to choose from.
LEMMA MinIsMember ==
  ASSUME NEW S \in SUBSET Nat, S # {}
  PROVE  Min(S) \in S
  <1> DEFINE Below == {p \in Nat \X Nat : p[1] < p[2]}
  <1>1. IsWellFoundedOn(Below, Nat)
    BY NatLessThanWellFounded DEF OpToRel
  <1> HIDE DEF Below
  <1>2. PICK n \in S : \A m \in S : ~ (<<m, n>> \in Below)
    BY <1>1, WFMin
  <1>3. ASSUME NEW m \in S PROVE n <= m
    <2>1. m \in Nat /\ n \in Nat
      OBVIOUS
    <2>2. ~ (<<m, n>> \in Below)
      BY <1>2
    <2>3. ~ (m < n)
      BY <2>1, <2>2 DEF Below
    <2> QED BY <2>1, <2>3
  <1> QED BY <1>2, <1>3 DEF Min

LEMMA FailedType ==
  ASSUME NEW c \in {3002, 3003, 3004}, NEW i \in (SUBSET Goal) \cup {None}
  PROVE  Failed(c, i) \in Result /\ Failed(c, i).code = c
  BY DEF Failed, Result

LEMMA ResultOfType ==
  ASSUME NEW e \in SUBSET Candidate, NEW i \in SUBSET Goal
  PROVE  ResultOf(e, i) \in Result /\ ResultOf(e, i).code \in {0, 3003}
  <1>1. CASE e = {}
    BY <1>1, FailedType DEF ResultOf
  <1>2. CASE e # {}
    <2>1. Min(e) \in Candidate
      BY <1>2, MinIsMember, VisionAssumption DEF VisionAssumption
    <2> QED BY <1>2, <2>1 DEF ResultOf, Result
  <1> QED BY <1>1, <1>2
-------------------------------------------------------------------------------
LEMMA InitIInv == Init => IInv
  <1> SUFFICES ASSUME Init PROVE IInv
    OBVIOUS
  <1> USE DEF Init
  <1>1. pending \in BOOLEAN
    BY Zenon, VisionAssumption DEF VisionAssumption
  <1>2. stage \in [Goal -> Stage] /\ answer \in [Goal -> Result \cup {None}]
    BY DEF Stage
  <1>3. TypeOK
    BY <1>1, <1>2 DEF TypeOK
  <1>4. Running = {}
    BY DEF Running
  <1>5. ActiveIsRunning /\ AloneIsServed /\ OverlapsAreKnown
    BY <1>4 DEF ActiveIsRunning, AloneIsServed, OverlapsAreKnown
  <1>6. EventHasResult /\ FramesDoNotCancel
    BY DEF EventHasResult, FramesDoNotCancel
  <1> QED BY <1>3, <1>5, <1>6 DEF IInv

\* A goal that starts is alone, or it and all that run are known to overlap.
LEMMA BeginStep ==
  ASSUME IInv, NEW g \in Goal, BeginDetection(g)
  PROVE  IInv'
  <1> USE DEF IInv, TypeOK, BeginDetection, RunsBeside
  <1>1. Running' = Running \cup {g} /\ g \notin Running
    BY DEF Running
  <1>2. TypeOK'
    BY DEF Stage, Running
  <1>3. ActiveIsRunning' /\ FramesDoNotCancel' /\ EventHasResult'
    BY <1>1 DEF ActiveIsRunning, FramesDoNotCancel, EventHasResult
  <1>4. OverlapsAreKnown'
    BY <1>1 DEF OverlapsAreKnown
  <1>5. ASSUME NEW h \in Goal, h \notin overlapped' PROVE h \notin overlapped
    BY <1>5
  <1>6. ASSUME NEW h \in Goal, h \notin overlapped', h \in Running' PROVE h = g
    BY <1>1, <1>6
  <1>7. AloneIsServed'
    <2> SUFFICES ASSUME NEW h \in Goal, h \notin overlapped'
                 PROVE  /\ h \in Running' => active' = h
                        /\ stage'[h] = "woken" => result' # None
                        /\ answer'[h] # None => answer'[h].code # 3004
      BY DEF AloneIsServed
    <2>1. h \in Running' => active' = h
      BY <1>6
    <2>2. stage'[h] # "woken"
      <3>1. stage'[h] = "woken" => h \in Running'
        BY DEF Running
      <3> QED BY <1>6, <3>1
    <2>3. answer'[h] # None => answer'[h].code # 3004
      BY <1>5 DEF AloneIsServed
    <2> QED BY <2>1, <2>2, <2>3
  <1> QED BY <1>2, <1>3, <1>4, <1>7

\* The steps of a goal between its start and its end, and what its client does.
LEMMA GoalStep ==
  ASSUME IInv, NEW g \in Goal,
         \/ AcceptDetectionGoal(g) \/ CancelDetectionGoal(g)
         \/ WaitEnds(g) \/ WaitOn(g) \/ Wake(g)
  PROVE  IInv'
  <1> USE DEF IInv, TypeOK, AcceptDetectionGoal, CancelDetectionGoal,
              WaitEnds, WaitOn, Wake, shared
  <1>1. TypeOK'
    BY VisionAssumption DEF Stage, VisionAssumption
  <1>2. Running' = Running
    BY DEF Running
  <1>3. ActiveIsRunning' /\ FramesDoNotCancel' /\ EventHasResult' /\ OverlapsAreKnown'
    BY <1>2 DEF ActiveIsRunning, FramesDoNotCancel, EventHasResult, OverlapsAreKnown
  <1>4. ASSUME NEW h \in Goal, stage'[h] = "woken"
        PROVE  stage[h] = "woken" \/ result # None
    BY <1>4 DEF EventHasResult
  <1>5. AloneIsServed'
    BY <1>2, <1>4 DEF AloneIsServed
  <1> QED BY <1>1, <1>3, <1>5

\* A goal that ends is no longer the active one, nor is any other: one that still
\* runs has overlapped with it.
LEMMA EndStep ==
  ASSUME IInv, NEW g \in Goal, NEW r \in Result, End(g, r), pending' \in BOOLEAN,
         g \in Running, g \notin overlapped => r.code # 3004
  PROVE  IInv'
  <1> USE DEF IInv, TypeOK, End
  <1>1. TypeOK'
    BY DEF Stage
  <1>2. Running' = Running \ {g}
    BY DEF Running
  <1>3. ActiveIsRunning' /\ FramesDoNotCancel' /\ EventHasResult' /\ OverlapsAreKnown'
    BY <1>2 DEF ActiveIsRunning, FramesDoNotCancel, EventHasResult, OverlapsAreKnown
  <1>4. \A h \in Goal \ {g} : stage'[h] = stage[h] /\ answer'[h] = answer[h]
    OBVIOUS
  <1>5. stage'[g] = "done" /\ answer'[g] = r
    OBVIOUS
  <1>6. \A h \in Running' : h \in overlapped
    BY <1>2 DEF OverlapsAreKnown
  <1>7. AloneIsServed'
    BY <1>4, <1>5, <1>6 DEF AloneIsServed
  <1> QED BY <1>1, <1>3, <1>7

\* What a goal may end with, and how.
EndsBy(g, r) == /\ r \in Result /\ (r.code = 3002 => g \in asked)
                /\ (r.code = 3004 => g \in overlapped) /\ g \in Running
                /\ End(g, r) /\ pending' \in BOOLEAN

LEMMA LookEnds ==
  ASSUME IInv, NEW g \in Goal, Canceled(g) \/ TimedOut(g) \/ TakeResult(g)
  PROVE  \E r : EndsBy(g, r)
  <1>1. \A c \in {3002, 3003, 3004} : /\ Failed(c, None) \in Result
                                      /\ Failed(c, None).code = c
    BY FailedType
  <1>2. CASE Canceled(g)
    <2>1. Failed(3002, None) \in Result /\ Failed(3002, None).code = 3002
      BY <1>1
    <2>2. End(g, Failed(3002, None)) /\ g \in asked /\ g \in Running
      BY <1>2 DEF Canceled, Running
    <2>3. pending' \in BOOLEAN
      <3>1. pending' = FALSE
        BY <1>2 DEF Canceled, StopCapture
      <3> QED BY ONLY <3>1
    <2>4. EndsBy(g, Failed(3002, None))
      BY <2>1, <2>2, <2>3 DEF EndsBy
    <2> QED BY <2>4
  <1>3. CASE TimedOut(g)
    <2>1. Failed(3003, None) \in Result /\ Failed(3003, None).code = 3003
      BY <1>1
    <2>2. End(g, Failed(3003, None)) /\ g \in Running
      BY <1>3 DEF TimedOut, Running
    <2>3. pending' \in BOOLEAN
      <3>1. pending' = FALSE
        BY <1>3 DEF TimedOut, StopCapture
      <3> QED BY ONLY <3>1
    <2>4. EndsBy(g, Failed(3003, None))
      BY <2>1, <2>2, <2>3 DEF EndsBy
    <2> QED BY <2>4
  <1>4. CASE TakeResult(g)
    <2> USE DEF TakeResult, EndsBy, IInv, TypeOK
    <2>1. g \in Running
      BY <1>4 DEF Running
    <2>2. CASE result = None
      <3>1. g \in overlapped
        BY <1>4, <2>2 DEF AloneIsServed
      <3>2. EndsBy(g, Failed(3004, None))
        BY <1>1, <1>4, <2>1, <2>2, <3>1
      <3> QED BY <3>2
    <2>3. CASE result # None
      <3>1. EndsBy(g, result)
        BY <1>4, <2>1, <2>3 DEF FramesDoNotCancel
      <3> QED BY <3>1
    <2> QED BY <2>2, <2>3
  <1> QED BY <1>2, <1>3, <1>4

\* An answer of a frame goes to whichever goal is active.
LEMMA AnswerStep ==
  ASSUME IInv, NEW r \in Result, r.code \in {0, 3003},
         SetActionResult(r), FrameDone, UNCHANGED spinning
  PROVE  IInv'
  <1>1. r # None
    BY VisionAssumption DEF VisionAssumption
  <1>2. CASE active # None
    <2>1. result' = r /\ event' = TRUE /\ UNCHANGED active
      BY <1>2 DEF SetActionResult
    <2> QED BY <1>1, <2>1 DEF FrameDone, goalVars, IInv, TypeOK, ActiveIsRunning,
            AloneIsServed, Running, EventHasResult, FramesDoNotCancel, OverlapsAreKnown
  <1>3. CASE active = None
    <2>1. UNCHANGED <<active, result, event>>
      BY <1>3 DEF SetActionResult
    <2> QED BY <2>1 DEF FrameDone, goalVars, IInv, TypeOK, ActiveIsRunning,
            AloneIsServed, Running, EventHasResult, FramesDoNotCancel, OverlapsAreKnown
  <1> QED BY <1>2, <1>3

\* The steps that touch neither goals nor results.
LEMMA BesideStep ==
  ASSUME IInv, UNCHANGED <<goalVars, active, result, event>>,
         pending' \in BOOLEAN, spinning' \in BOOLEAN,
         depth' \in (SUBSET Goal) \cup {None}, frame' \in Frame \cup {None}
  PROVE  IInv'
  BY DEF goalVars, IInv, TypeOK, ActiveIsRunning, AloneIsServed, Running,
         EventHasResult, FramesDoNotCancel, OverlapsAreKnown

LEMMA CameraStep ==
  ASSUME IInv,
         DepthArrives \/ TriggerCallback \/ FrameArrives \/ TakeRequest \/ Detect
         \/ DrawDebugImage \/ UNCHANGED vars
  PROVE  IInv'
  <1>1. /\ pending \in BOOLEAN /\ spinning \in BOOLEAN /\ active \in Goal \cup {None}
        /\ depth \in (SUBSET Goal) \cup {None} /\ frame \in Frame \cup {None}
    BY DEF IInv, TypeOK
  <1>2. CASE DepthArrives
    BY <1>1, <1>2, BesideStep DEF DepthArrives, Begun, Running, shared
  <1>3. CASE TriggerCallback
    BY <1>1, <1>3, BesideStep DEF TriggerCallback
  <1>4. CASE FrameArrives
    <2>1. frame' \in Frame
      BY <1>1, <1>4 DEF FrameArrives, Frame
    <2> QED BY <1>1, <1>4, <2>1, BesideStep DEF FrameArrives, shared
  <1>5. CASE TakeRequest
    <2>1. frame' \in Frame \cup {None}
      BY <1>1, <1>5 DEF TakeRequest, Frame
    <2> QED BY <1>1, <1>5, <2>1, BesideStep DEF TakeRequest
  <1>6. CASE Detect
    <2>1. PICK e \in SUBSET Candidate :
            frame' = [frame EXCEPT !.step = "found", !.empty = e]
      BY <1>6 DEF Detect, CandidateSlotsInCamera, EmptySlotsAt
    <2>2. frame' \in Frame
      BY <1>1, <1>6, <2>1 DEF Detect, Frame
    <2> QED BY <1>1, <1>6, <2>2, BesideStep DEF Detect, shared
  <1>7. CASE DrawDebugImage
    <2>1. frame' \in Frame \cup {None} /\ spinning' \in BOOLEAN
      BY <1>1, <1>7 DEF DrawDebugImage, Frame
    <2> QED BY <1>1, <1>7, <2>1, BesideStep DEF DrawDebugImage, shared
  <1>8. CASE UNCHANGED vars
    BY <1>1, <1>8, BesideStep DEF vars, shared
  <1> QED BY <1>2, <1>3, <1>4, <1>5, <1>6, <1>7, <1>8

LEMMA CompleteActionStep ==
  ASSUME IInv, CompleteAction
  PROVE  IInv'
  <1>1. frame \in Frame
    BY DEF CompleteAction, IInv, TypeOK
  <1>2. frame.empty \in SUBSET Candidate /\ frame.images \in SUBSET Goal
    BY <1>1 DEF Frame
  <1>3. PICK e \in SUBSET Candidate :
          IF frame.goal # None
          THEN SetActionResult(ResultOf(e, frame.images))
          ELSE UNCHANGED <<active, result, event>>
    BY <1>2 DEF CompleteAction, Transformed
  <1>4. CASE frame.goal # None
    BY <1>2, <1>3, <1>4, ResultOfType, AnswerStep DEF CompleteAction
  <1>5. CASE frame.goal = None
    BY <1>3, <1>5 DEF CompleteAction, FrameDone, goalVars, IInv, TypeOK,
       ActiveIsRunning, AloneIsServed, Running, EventHasResult, FramesDoNotCancel,
       OverlapsAreKnown
  <1> QED BY <1>4, <1>5

LEMMA DetectionFailsStep ==
  ASSUME IInv, DetectionFails
  PROVE  IInv'
  <1>1. frame \in Frame
    BY DEF DetectionFails, IInv, TypeOK
  <1>2. Failed(3003, frame.images) \in Result
        /\ Failed(3003, frame.images).code = 3003
    BY <1>1, FailedType DEF Frame
  <1> QED BY <1>2, AnswerStep DEF DetectionFails

LEMMA NextIInv == IInv /\ [Next]_vars => IInv'
  <1> SUFFICES ASSUME IInv, [Next]_vars PROVE IInv'
    OBVIOUS
  <1>1. ASSUME NEW g \in Goal,
               \/ AcceptDetectionGoal(g) \/ CancelDetectionGoal(g)
               \/ BeginDetection(g) \/ WaitEnds(g) \/ WaitOn(g) \/ Wake(g)
        PROVE  IInv'
    BY <1>1, GoalStep, BeginStep
  <1>2. ASSUME NEW g \in Goal, Canceled(g) \/ TimedOut(g) \/ TakeResult(g)
        PROVE  IInv'
    BY <1>2, LookEnds, EndStep DEF EndsBy
  <1>3. CASE DepthArrives \/ TriggerCallback \/ FrameArrives \/ TakeRequest \/ Detect
             \/ DrawDebugImage \/ UNCHANGED vars
    BY <1>3, CameraStep
  <1>4. CASE DetectionFails \/ CompleteAction
    BY <1>4, DetectionFailsStep, CompleteActionStep
  <1> QED BY <1>1, <1>2, <1>3, <1>4 DEF Next, Look, ProcessFrame

\* Goals, the active one, event, result and frame agree in every state, those
\* between the end of a goal's wait and its reading of the result included.
THEOREM VisionInvariant == Spec => []IInv
  BY InitIInv, NextIInv, PTL DEF Spec

\* What the two threads share, the answers and the frame in the works keep their
\* types; above all an answer names a slot the camera looks at, or none
\* (vision_manager.py).
THEOREM VisionTypes == Spec => []TypeOK
  <1>1. IInv => TypeOK
    BY DEF IInv
  <1> QED BY <1>1, VisionInvariant, PTL

\* However goals overlap and end, on however many threads, no goal that is over
\* stays the active one and has all others refused (accept_detection_goal).
THEOREM NobodyIsLeftActive == Spec => []ActiveIsRunning
  <1>1. IInv => ActiveIsRunning
    BY DEF IInv
  <1> QED BY <1>1, VisionInvariant, PTL

\* A goal that no other one overlaps stays the active one, finds a result when it
\* is woken and does not answer 3004, whatever earlier goals and their frames
\* have left behind (_execute_detection, set_action_result).
THEOREM GoalsAloneAreServed == Spec => []AloneIsServed
  <1>1. IInv => AloneIsServed
    BY DEF IInv
  <1> QED BY <1>1, VisionInvariant, PTL
-------------------------------------------------------------------------------
(* The node is an action server.                                              *)

Status == [g \in Goal |-> StatusOf(g)]
Started == {"accepted", "waiting", "looking", "woken"}

\* One goal changes its status.
LEMMA StatusStep ==
  ASSUME NEW g \in Goal, NEW s, StatusOf(g)' = s,
         \A h \in Goal \ {g} : StatusOf(h)' = StatusOf(h)
  PROVE  Status' = [Status EXCEPT ![g] = s]
  BY DEF Status

LEMMA AcceptShows ==
  ASSUME IInv, NEW g \in Goal, AcceptDetectionGoal(g)
  PROVE  Service!Respond(g)
  <1> USE DEF IInv, TypeOK, AcceptDetectionGoal
  <1>1. PICK s \in {"accepted", "refused"} : stage' = [stage EXCEPT ![g] = s]
    OBVIOUS
  <1>2. StatusOf(g) = "new" /\ StatusOf(g)' = s
    BY <1>1 DEF StatusOf
  <1>3. \A h \in Goal \ {g} : StatusOf(h)' = StatusOf(h)
    BY <1>1 DEF StatusOf
  <1>4. Status' = [Status EXCEPT ![g] = s]
    BY <1>2, <1>3, StatusStep
  <1> QED BY <1>2, <1>4 DEF Status, Service!Respond

LEMMA CancelShows ==
  ASSUME IInv, NEW g \in Goal, CancelDetectionGoal(g)
  PROVE  Service!AskCancel(g)
  <1>1. StatusOf(g) = "accepted"
    BY DEF CancelDetectionGoal, StatusOf, Running
  <1>2. Status' = Status
    BY DEF CancelDetectionGoal, Status, StatusOf
  <1> QED BY <1>1, <1>2 DEF CancelDetectionGoal, Status, Service!AskCancel

\* Until it ends, a goal shows no more than that it was accepted.
LEMMA WaitShows ==
  ASSUME IInv, NEW g \in Goal,
         BeginDetection(g) \/ WaitEnds(g) \/ WaitOn(g) \/ Wake(g)
  PROVE  UNCHANGED <<Status, asked>>
  <1>1. PICK s \in Started : stage' = [stage EXCEPT ![g] = s]
    BY DEF BeginDetection, WaitEnds, WaitOn, Wake, Started
  <1>2. stage[g] \in Started /\ UNCHANGED <<asked, answer>>
    BY DEF BeginDetection, WaitEnds, WaitOn, Wake, Started
  <1>3. \A h \in Goal : StatusOf(h)' = StatusOf(h)
    BY <1>1, <1>2 DEF StatusOf, Started, IInv, TypeOK
  <1> QED BY <1>2, <1>3 DEF Status

LEMMA EndShows ==
  ASSUME IInv, NEW g \in Goal, NEW r, EndsBy(g, r), stage[g] \in Started
  PROVE  Service!End(g)
  <1> DEFINE s == EndingOf(r)
  <1>1. StatusOf(g) = "accepted"
    BY DEF StatusOf, Started
  <1>2. stage'[g] = "done" /\ answer'[g] = r
    BY DEF EndsBy, End, IInv, TypeOK
  <1>3. StatusOf(g)' = s
    BY <1>2 DEF StatusOf
  <1>4. \A h \in Goal \ {g} : StatusOf(h)' = StatusOf(h)
    BY DEF EndsBy, End, StatusOf, IInv, TypeOK
  <1>5. s \in Service!Ending /\ (s = "canceled" => g \in asked)
    BY DEF Service!Ending, EndsBy, EndingOf
  <1> HIDE DEF s
  <1>6. Status' = [Status EXCEPT ![g] = s]
    BY <1>3, <1>4, StatusStep
  <1>7. Status[g] = "accepted" /\ UNCHANGED asked
    BY <1>1 DEF Status, EndsBy, End
  <1>8. Service!EndAs(g, s)
    BY <1>5, <1>6, <1>7 DEF Status, Service!EndAs
  <1> QED BY <1>5, <1>8 DEF Service!End

LEMMA InitShows == Init => Service!Init
  BY DEF Init, Service!Init, StatusOf

LEMMA NextShows ==
  IInv /\ [Next]_vars => [Service!Next]_<<Status, asked>>
  <1> SUFFICES ASSUME IInv, [Next]_vars
               PROVE  Service!Next \/ UNCHANGED <<Status, asked>>
    OBVIOUS
  <1>1. ASSUME NEW g \in Goal, AcceptDetectionGoal(g) \/ CancelDetectionGoal(g)
        PROVE  Service!Next
    BY <1>1, AcceptShows, CancelShows DEF Service!Next
  <1>2. ASSUME NEW g \in Goal,
               BeginDetection(g) \/ WaitEnds(g) \/ WaitOn(g) \/ Wake(g)
        PROVE  UNCHANGED <<Status, asked>>
    BY <1>2, WaitShows
  <1>3. ASSUME NEW g \in Goal, Canceled(g) \/ TimedOut(g) \/ TakeResult(g)
        PROVE  Service!Next
    <2>1. stage[g] \in Started
      BY <1>3 DEF Canceled, TimedOut, TakeResult, Started
    <2>2. PICK r : EndsBy(g, r)
      BY <1>3, LookEnds
    <2> QED BY <2>1, <2>2, EndShows DEF Service!Next
  <1>4. ASSUME \/ DepthArrives \/ TriggerCallback \/ FrameArrives
               \/ ProcessFrame \/ UNCHANGED vars
        PROVE  UNCHANGED goalVars
    <2>1. CASE DepthArrives \/ TriggerCallback \/ FrameArrives \/ UNCHANGED vars
      BY <2>1 DEF DepthArrives, TriggerCallback, FrameArrives, vars
    <2>2. CASE TakeRequest \/ Detect \/ DrawDebugImage
      BY <2>2 DEF TakeRequest, Detect, DrawDebugImage
    <2>3. CASE DetectionFails \/ CompleteAction
      BY <2>3 DEF DetectionFails, CompleteAction, FrameDone
    <2> QED BY <1>4, <2>1, <2>2, <2>3 DEF ProcessFrame
  <1>5. CASE UNCHANGED goalVars
    BY <1>5 DEF goalVars, Status, StatusOf
  <1> QED BY <1>1, <1>2, <1>3, <1>4, <1>5 DEF Next, Look

\* Goals of /detect_target_slot are refused, accepted, cancelled and ended as
\* those of any action server, whatever the camera does and however goals and
\* frames overlap.
THEOREM VisionIsAnActionServer == Spec => ImplementsActionService
  <1>1. Init => Service!Init
    BY InitShows
  <1>2. IInv /\ [Next]_vars => [Service!Next]_<<Status, asked>>
    BY NextShows
  <1> QED BY <1>1, <1>2, VisionInvariant, PTL
          DEF Spec, ImplementsActionService, Service!Spec, Status
===============================================================================
