--------------------------- MODULE TaskManager_proofs ---------------------------
(***************************************************************************)
(* What holds of the task manager for every set of jobs, every shelf map   *)
(* and any number of restarts.                                             *)
(***************************************************************************)
EXTENDS TaskManager, TLAPS

Paths == Seq(SystemState) \ {<<>>}

\* The FSM part of TypeOK in the next state.
FsmTypeNext == /\ state' \in SystemState
               /\ errorCode' \in Nat
               /\ published' \in Seq(SystemState)
               /\ spinning' \in BOOLEAN

\* The paths the callbacks walk are sequences of states.
LEMMA PathType ==
  /\ <<"PLANNING", "NAV_TO_RETURN">> \in Paths
  /\ <<"RECEIVE_TRAY">> \in Paths
  /\ <<"DETECT_TARGET_SLOT">> \in Paths
  /\ <<"PLACE_BOOK">> \in Paths
  /\ <<"PLANNING">> \in Paths
  /\ <<"COMPLETED", "IDLE">> \in Paths
  /\ <<"UPDATE_DATA", "NEXT_BOOK">> \in Paths
  /\ <<"UPDATE_DATA", "NEXT_BOOK">> \o <<"RETURN_HOME">> \in Paths
  /\ \A p \in Paths : p \o <<"SELECT_BOOK", "NAV_TO_SHELF">> \in Paths
  BY DEF Paths, SystemState

\* The states they end in.
LEMMA PathEnd ==
  /\ <<"PLANNING", "NAV_TO_RETURN">>[Len(<<"PLANNING", "NAV_TO_RETURN">>)]
       = "NAV_TO_RETURN"
  /\ <<"DETECT_TARGET_SLOT">>[Len(<<"DETECT_TARGET_SLOT">>)]
       = "DETECT_TARGET_SLOT"
  /\ <<"PLACE_BOOK">>[Len(<<"PLACE_BOOK">>)] = "PLACE_BOOK"
  /\ <<"COMPLETED", "IDLE">>[Len(<<"COMPLETED", "IDLE">>)] = "IDLE"
  /\ LET p == <<"UPDATE_DATA", "NEXT_BOOK">> \o <<"RETURN_HOME">>
     IN p[Len(p)] = "RETURN_HOME"
  /\ \A p \in Paths : LET q == p \o <<"SELECT_BOOK", "NAV_TO_SHELF">>
                      IN q[Len(q)] = "NAV_TO_SHELF"
  BY DEF Paths

LEMMA AppendType ==
  ASSUME NEW S, NEW s \in Seq(S), NEW e \in S
  PROVE  Append(s, e) \in Seq(S)
  OBVIOUS

LEMMA WalkType ==
  ASSUME TypeOK, NEW path \in Paths, Walk(path)
  PROVE  FsmTypeNext
  BY DEF Walk, TypeOK, Paths, FsmTypeNext

LEMMA FailType ==
  ASSUME TypeOK, NEW path \in Seq(SystemState), NEW code \in Nat, FailAfter(path, code)
  PROVE  FsmTypeNext
  BY DEF FailAfter, SystemState, FsmTypeNext, TypeOK

LEMMA RaiseType ==
  ASSUME TypeOK, NEW path \in Paths, RaiseAfter(path)
  PROVE  FsmTypeNext /\ goals' = {}
  <1>1. state' \in SystemState /\ published' \in Seq(SystemState) /\ errorCode' \in Nat
    BY DEF RaiseAfter, TypeOK, Paths
  <1>2. spinning' \in BOOLEAN
    <2>1. spinning' = FALSE
      BY DEF RaiseAfter
    <2> QED BY ONLY <2>1
  <1> QED BY <1>1, <1>2 DEF RaiseAfter, FsmTypeNext

LEMMA SilentType ==
  ASSUME TypeOK, Silent
  PROVE  FsmTypeNext
  BY DEF Silent, TypeOK, FsmTypeNext

LEMMA CodeType ==
  /\ \A s \in Server : /\ ErrorServer(s) \in Nat \ {0}
                       /\ ErrorRejected(s) \in Nat \ {0}
                       /\ ErrorFailed(s) \in Nat \ {0}
                       /\ ErrorResult(s) \in Nat \ {0}
  /\ ErrorJobPlanning \in Nat \ {0}
  /\ ErrorLowSlotConfidence \in Nat \ {0}
  BY DEF Server, ErrorServer, ErrorRejected, ErrorFailed, ErrorResult,
         ErrorBase, ErrorJobPlanning, ErrorLowSlotConfidence

LEMMA ServerType == \A kind \in GoalKind : ServerOf(kind) \in Server
  BY DEF ServerOf, Server

\* The goals the node builds are goals.
LEMMA GoalType ==
  /\ \A type \in NavTarget, job \in Job, shelf \in Shelf \cup {None} :
       NavGoal(type, job, shelf) \in Goal
  /\ \A job \in Job, task \in Task : DetectGoal(job, task) \in Goal
  /\ \A job \in Job, task \in Task, target \in Task :
       PlaceGoal(job, task, target) \in Goal
  <1>1. \A t \in Task : t.book \in Book /\ t.shelf \in Shelf
    BY DEF Task
  <1> QED
    BY <1>1 DEF NavGoal, DetectGoal, PlaceGoal, Goal, GoalKind, Phase, NavTarget

LEMMA SendGoalType ==
  ASSUME TypeOK, NEW path \in Paths, NEW goal \in Goal,
         NEW open \in SUBSET Goal, SendGoal(path, goal, open)
  PROVE  FsmTypeNext /\ goals' \subseteq Goal
  <1>1. ServerOf(goal.kind) \in Server
    BY ServerType DEF Goal
  <1>2. CASE ServerOf(goal.kind) \in up
    BY <1>2, WalkType DEF SendGoal
  <1>3. CASE ServerOf(goal.kind) \notin up
    <2>1. FailAfter(path, ErrorServer(ServerOf(goal.kind))) /\ goals' = open
      BY <1>3 DEF SendGoal
    <2>2. ErrorServer(ServerOf(goal.kind)) \in Nat /\ path \in Seq(SystemState)
      BY <1>1, CodeType DEF Paths
    <2> QED BY <2>1, <2>2, FailType
  <1> QED BY <1>2, <1>3

LEMMA SendNavigationType ==
  ASSUME TypeOK, NEW path \in Paths, NEW type \in NavTarget, NEW job \in Job,
         NEW shelf \in Shelf \cup {None}, NEW open \in SUBSET Goal,
         SendNavigationGoal(path, type, job, shelf, open)
  PROVE  FsmTypeNext /\ goals' \subseteq Goal /\ navTarget' \in NavTarget \cup {None}
  <1>1. NavGoal(type, job, shelf) \in Goal
    BY GoalType
  <1>2. SendGoal(path, NavGoal(type, job, shelf), open)
    BY DEF SendNavigationGoal
  <1>3. navTarget' \in NavTarget \cup {None}
    BY DEF SendNavigationGoal, TypeOK
  <1> QED BY <1>1, <1>2, <1>3, SendGoalType

\* A plan with a task at `index` has a book and a shelf there.
LEMMA TaskType ==
  ASSUME TypeOK, plan # None, NEW index \in Nat, index < Len(plan.tasks)
  PROVE  /\ plan.job \in Job
         /\ plan.tasks[index + 1] \in Task
         /\ plan.tasks[index + 1].book \in Book
         /\ plan.tasks[index + 1].shelf \in Shelf
  <1>1. plan \in [job : Job, tasks : Seq(Task) \ {<<>>}]
    BY DEF TypeOK, Plan
  <1>2. plan.job \in Job /\ plan.tasks \in Seq(Task)
    BY <1>1
  <1>3. index + 1 \in 1 .. Len(plan.tasks)
    BY <1>2
  <1>4. plan.tasks[index + 1] \in Task
    BY <1>2, <1>3
  <1> QED BY <1>2, <1>4 DEF Task

LEMMA StartCurrentBookTaskType ==
  ASSUME TypeOK, NEW path \in Paths, NEW index \in Nat,
         activeJob \in Job, NEW open \in SUBSET Goal,
         StartCurrentBookTask(path, index, open)
  PROVE  FsmTypeNext /\ goals' \subseteq Goal /\ navTarget' \in NavTarget \cup {None}
  <1>1. CASE plan = None \/ index >= Len(plan.tasks)
    <2>1. FailAfter(path, ErrorJobPlanning) /\ goals' = open /\ UNCHANGED navTarget
      BY <1>1 DEF StartCurrentBookTask
    <2>2. path \in Seq(SystemState) /\ ErrorJobPlanning \in Nat
      BY CodeType DEF Paths
    <2> QED BY <2>1, <2>2, FailType DEF TypeOK
  <1>2. CASE ~(plan = None \/ index >= Len(plan.tasks))
    <2>0. plan # None /\ Len(plan.tasks) \in Nat
      BY <1>2 DEF TypeOK, Plan
    <2>1. plan.tasks[index + 1].shelf \in Shelf
      BY <1>2, <2>0, TaskType
    <2>2. path \o <<"SELECT_BOOK", "NAV_TO_SHELF">> \in Paths
      BY PathType
    <2>3. SendNavigationGoal(path \o <<"SELECT_BOOK", "NAV_TO_SHELF">>, "shelf",
                             activeJob, plan.tasks[index + 1].shelf, open)
      BY <1>2 DEF StartCurrentBookTask
    <2>4. "shelf" \in NavTarget
      BY DEF NavTarget
    <2> QED BY <2>1, <2>2, <2>3, <2>4, SendNavigationType
  <1> QED BY <1>1, <1>2

-------------------------------------------------------------------------------
(* The core of the inductive invariant.  Types alone are not inductive: a  *)
(* goal can only be built from a job and a plan that exist, which follows  *)
(* from the goal whose result is being handled.                            *)
Core == TypeOK /\ GoalMatchesState /\ AtMostOneGoal

\* Sending a goal either ends in the last state of the path with that goal in
\* flight, or in FAILED without it.
LEMMA SendGoalEffect ==
  ASSUME NEW path, NEW goal, NEW open, SendGoal(path, goal, open)
  PROVE  \/ state' = path[Len(path)] /\ goals' = open \cup {goal}
         \/ state' = "FAILED" /\ goals' = open
  BY DEF SendGoal, Walk, FailAfter

\* While a goal is in flight the node has a job, a plan and a matching state;
\* it is the only goal.
LEMMA GoalInFlight ==
  ASSUME Core, NEW g \in goals
  PROVE  /\ activeJob \in Job /\ plan # None /\ plan.job = activeJob
         /\ plan.job \in Job /\ plan.tasks \in Seq(Task) /\ plan.tasks # <<>>
         /\ goals \ {g} = {}
         /\ state \notin {"IDLE", "FAILED"}
         /\ g \in Goal /\ Awaited(g)
  <1>1. g \in Goal /\ Awaited(g) /\ g.job \in Job
    BY DEF Core, TypeOK, GoalMatchesState, Goal
  <1>2. activeJob \in Job /\ plan # None /\ plan.job = activeJob
    BY <1>1 DEF Awaited
  <1>3. plan \in [job : Job, tasks : Seq(Task) \ {<<>>}]
    BY <1>2 DEF Core, TypeOK, Plan
  <1>4. goals \ {g} = {} /\ state \notin {"IDLE", "FAILED"}
    BY DEF Core, AtMostOneGoal
  <1> QED BY <1>1, <1>2, <1>3, <1>4

\* A callback that ends without a goal in flight keeps the goal properties.
LEMMA NoGoalLeft ==
  ASSUME goals' = {}
  PROVE  GoalMatchesState' /\ AtMostOneGoal'
  BY DEF GoalMatchesState, AtMostOneGoal

\* A callback that leaves one goal has to match it with its new state.
LEMMA OneGoalLeft ==
  ASSUME NEW goal, goals' = {goal}, Awaited(goal)'
  PROVE  GoalMatchesState' /\ AtMostOneGoal'
  <1>1. state' \notin {"IDLE", "FAILED"}
    BY DEF Awaited, AwaitedKind
  <1> QED BY <1>1 DEF GoalMatchesState, AtMostOneGoal
-------------------------------------------------------------------------------
(* One lemma per action: it keeps Core.                                    *)

LEMMA RejectUnplannableJobCore ==
  ASSUME Core, TaskManagerAssumption, NEW m \in Message, RejectUnplannableJob(m)
  PROVE  Core'
  <1>1. goals' = {}
    BY DEF RejectUnplannableJob, Takes, Core, AtMostOneGoal
  <1>2. FsmTypeNext
    <2>1. <<"PLANNING">> \in Seq(SystemState) /\ ErrorJobPlanning \in Nat
      BY PathType, CodeType DEF Paths
    <2> QED BY <2>1, FailType DEF RejectUnplannableJob, Core
  <1>3. TypeOK'
    BY <1>1, <1>2 DEF RejectUnplannableJob, envVars, Core, TypeOK, FsmTypeNext,
                      TaskManagerAssumption
  <1> QED BY <1>1, <1>3, NoGoalLeft DEF Core

LEMMA StartJobCore ==
  ASSUME Core, TaskManagerAssumption, NEW m \in Message, StartJob(m)
  PROVE  Core'
  <1> DEFINE path == <<"PLANNING", "NAV_TO_RETURN">>
             goal == NavGoal("return_station", JobIdOf[m], None)
  <1>1. JobIdOf[m] \in Job /\ m \in Plannable /\ TasksOf[m] \in Seq(Task) \ {<<>>}
    BY DEF TaskManagerAssumption, StartJob
  <1>2. goals = {}
    BY DEF StartJob, Takes, Core, AtMostOneGoal
  <1>3. SendNavigationGoal(path, "return_station", JobIdOf[m], None, {})
    BY <1>2 DEF StartJob
  <1>4. FsmTypeNext /\ goals' \subseteq Goal /\ navTarget' \in NavTarget \cup {None}
    <2>1. path \in Paths /\ "return_station" \in NavTarget
      BY PathType DEF NavTarget
    <2> QED BY <1>1, <1>3, <2>1, SendNavigationType DEF Core
  <1>5. TypeOK'
    BY <1>1, <1>4 DEF StartJob, envVars, Core, TypeOK, FsmTypeNext, Plan
  <1>6. GoalMatchesState' /\ AtMostOneGoal'
    <2>1. CASE "navigation" \in up
      <3>1. state' = "NAV_TO_RETURN" /\ goals' = {goal} /\ navTarget' = "return_station"
        BY <1>3, <2>1, PathEnd DEF SendNavigationGoal, SendGoal, ServerOf, NavGoal,
                                   Walk
      <3>2. plan' # None
        BY <1>1, <1>5 DEF StartJob, TaskManagerAssumption, Plan
      <3>3. Awaited(goal)'
        BY <3>1, <3>2 DEF Awaited, StartJob, NavGoal, AwaitedKind, NavTarget
      <3> QED BY <3>1, <3>3, OneGoalLeft
    <2>2. CASE "navigation" \notin up
      <3>1. goals' = {}
        BY <1>3, <2>2 DEF SendNavigationGoal, SendGoal, ServerOf, NavGoal
      <3> QED BY <3>1, NoGoalLeft
    <2> QED BY <2>1, <2>2
  <1> QED BY <1>5, <1>6 DEF Core

LEMMA GoalAcceptedCore ==
  ASSUME Core, NEW g \in goals, GoalAccepted(g)
  PROVE  Core'
  <1> DEFINE h == [g EXCEPT !.phase = "accepted"]
  <1>1. g \in Goal /\ Awaited(g) /\ goals \ {g} = {}
    BY GoalInFlight
  <1>2. goals' = {h} /\ Silent
    BY <1>1 DEF GoalAccepted
  <1>3. h \in Goal /\ h.kind = g.kind /\ h.job = g.job /\ h.shelf = g.shelf
          /\ h.book = g.book /\ h.slot = g.slot
    BY <1>1 DEF Goal, Phase
  <1>4. TypeOK'
    BY <1>2, <1>3, SilentType
       DEF GoalAccepted, jobVars, envVars, Core, TypeOK, FsmTypeNext
  <1>5. Awaited(h)'
    BY <1>1, <1>2, <1>3 DEF Awaited, CurrentTask, GoalAccepted, Silent, jobVars
  <1> QED BY <1>2, <1>4, <1>5, OneGoalLeft DEF Core

\* A failed answer leaves FAILED with no goal.
LEMMA FailedAnswerCore ==
  ASSUME Core, NEW g \in goals, NEW code \in Nat, FailAfter(<<>>, code),
         goals' = goals \ {g}, UNCHANGED <<jobVars, navTarget, envVars, requested>>,
         verified' \subseteq Job \X Book
  PROVE  Core'
  <1>1. goals' = {}
    BY GoalInFlight
  <1>2. FsmTypeNext
    <2>1. <<>> \in Seq(SystemState)
      OBVIOUS
    <2> QED BY <2>1, FailType DEF Core
  <1>3. TypeOK'
    BY <1>1, <1>2 DEF jobVars, envVars, Core, TypeOK, FsmTypeNext
  <1> QED BY <1>1, <1>3, NoGoalLeft DEF Core

LEMMA GoalNotAcceptedCore ==
  ASSUME Core, NEW g \in goals, GoalNotAccepted(g)
  PROVE  Core'
  <1>1. ServerOf(g.kind) \in Server
    BY GoalInFlight, ServerType DEF Goal
  <1>2. PICK code \in {ErrorRejected(ServerOf(g.kind)),
                      ErrorResult(ServerOf(g.kind))} : FailAfter(<<>>, code)
    BY DEF GoalNotAccepted
  <1>3. code \in Nat
    BY <1>1, <1>2, CodeType
  <1> QED BY <1>2, <1>3, FailedAnswerCore
          DEF GoalNotAccepted, Core, TypeOK

LEMMA ResultFailedCore ==
  ASSUME Core, TaskManagerAssumption, NEW g \in goals, ResultFailed(g)
  PROVE  Core'
  <1>1. ServerOf(g.kind) \in Server
    BY GoalInFlight, ServerType DEF Goal
  <1>2. PICK code \in ReportedCode \cup {ErrorFailed(ServerOf(g.kind)),
                                      ErrorResult(ServerOf(g.kind))} :
          FailAfter(<<>>, code)
    BY DEF ResultFailed
  <1>3. code \in Nat
    BY <1>1, <1>2, CodeType DEF TaskManagerAssumption
  <1> QED BY <1>2, <1>3, FailedAnswerCore
          DEF ResultFailed, Core, TypeOK

LEMMA SlotUncertainCore ==
  ASSUME Core, NEW g \in goals, SlotUncertain(g)
  PROVE  Core'
  BY CodeType, FailedAnswerCore DEF SlotUncertain, Core, TypeOK

LEMMA PublishStatusCore ==
  ASSUME Core, PublishStatus
  PROVE  Core'
  <1>1. TypeOK'
    BY DEF PublishStatus, jobVars, envVars, Core, TypeOK
  <1>2. \A g : Awaited(g) => Awaited(g)'
    BY DEF PublishStatus, jobVars, Awaited, CurrentTask
  <1> QED BY <1>1, <1>2
          DEF PublishStatus, Core, GoalMatchesState, AtMostOneGoal

LEMMA ServerUpCore ==
  ASSUME Core, NEW s \in Server, ServerUp(s)
  PROVE  Core'
  <1>1. TypeOK'
    BY SilentType DEF ServerUp, jobVars, Core, TypeOK, FsmTypeNext
  <1>2. \A g : Awaited(g) => Awaited(g)'
    BY DEF ServerUp, Silent, jobVars, Awaited, CurrentTask
  <1> QED BY <1>1, <1>2
          DEF ServerUp, Silent, Core, GoalMatchesState, AtMostOneGoal

LEMMA ServerDownCore ==
  ASSUME Core, NEW s \in Server, ServerDown(s)
  PROVE  Core'
  <1>1. \A g \in Goal : /\ Lose(g) \in Goal
                        /\ \A f \in {"kind", "job", "shelf", "book", "slot"} :
                             Lose(g)[f] = g[f]
    BY DEF Lose, Goal, Phase
  <1>2. \A h \in goals' : \E g \in goals : h = g \/ h = Lose(g)
    BY DEF ServerDown
  <1>3. TypeOK'
    BY <1>1, <1>2, SilentType DEF ServerDown, jobVars, Core, TypeOK, FsmTypeNext
  <1>4. GoalMatchesState'
    <2>1. SUFFICES ASSUME NEW h \in goals' PROVE Awaited(h)'
      BY DEF GoalMatchesState
    <2>2. PICK g \in goals : h = g \/ h = Lose(g)
      BY <1>2
    <2>3. Awaited(g) /\ g \in Goal
      BY GoalInFlight
    <2> QED BY <1>1, <2>2, <2>3
            DEF ServerDown, Silent, jobVars, Awaited, CurrentTask
  <1>5. AtMostOneGoal'
    BY DEF ServerDown, Silent, Core, AtMostOneGoal
  <1> QED BY <1>3, <1>4, <1>5 DEF Core

LEMMA RestartCore ==
  ASSUME Core, TaskManagerAssumption, Restart
  PROVE  Core'
  <1>1. TypeOK'
    BY DEF Restart, Core, TypeOK, TaskManagerAssumption, SystemState
  <1> QED BY <1>1, NoGoalLeft DEF Restart, Core

\* A result in the wrong state: excluded by Awaited, kept here as the code
\* has it.
LEMMA WrongStateCore ==
  ASSUME Core, NEW g \in goals, WrongState(g), UNCHANGED envVars
  PROVE  Core'
  <1>1. ErrorResult(ServerOf(g.kind)) \in Nat
    BY GoalInFlight, ServerType, CodeType DEF Goal
  <1> QED BY <1>1, FailedAnswerCore DEF WrongState, Core, TypeOK

\* Driving to the shelf of the task at `index`, once the previous goal is gone.
LEMMA StartCurrentBookTaskGoals ==
  ASSUME Core, NEW g \in goals, NEW path \in Paths, NEW index \in Nat,
         StartCurrentBookTask(path, index, goals \ {g}),
         taskIndex' = index, UNCHANGED <<activeJob, plan>>
  PROVE  GoalMatchesState' /\ AtMostOneGoal'
  <1> DEFINE full == path \o <<"SELECT_BOOK", "NAV_TO_SHELF">>
             goal == NavGoal("shelf", activeJob, plan.tasks[index + 1].shelf)
  <1>1. goals \ {g} = {} /\ plan # None /\ plan.job = activeJob
    BY GoalInFlight
  <1>2. CASE index >= Len(plan.tasks)
    <2>1. goals' = {}
      BY <1>1, <1>2 DEF StartCurrentBookTask
    <2> QED BY <2>1, NoGoalLeft
  <1>3. CASE ~(index >= Len(plan.tasks))
    <2>1. SendNavigationGoal(full, "shelf", activeJob,
                             plan.tasks[index + 1].shelf, {})
      BY <1>1, <1>3 DEF StartCurrentBookTask
    <2>2. CASE "navigation" \in up
      <3>1. /\ state' = "NAV_TO_SHELF" /\ goals' = {goal}
            /\ navTarget' = "shelf"
        BY <2>1, <2>2, PathEnd
           DEF SendNavigationGoal, SendGoal, ServerOf, NavGoal, Walk
      <3>2. index < Len(plan.tasks)
        BY <1>1, <1>3 DEF Core, TypeOK, Plan
      <3>3. Awaited(goal)'
        BY <1>1, <3>1, <3>2
           DEF Awaited, NavGoal, AwaitedKind, NavTarget, CurrentTask
      <3> QED BY <3>1, <3>3, OneGoalLeft
    <2>3. CASE "navigation" \notin up
      <3>1. goals' = {}
        BY <2>1, <2>3 DEF SendNavigationGoal, SendGoal, ServerOf, NavGoal
      <3> QED BY <3>1, NoGoalLeft
    <2> QED BY <2>2, <2>3
  <1> QED BY <1>2, <1>3

LEMMA ReturnStationArrivalCore ==
  ASSUME Core, NEW g \in goals, ReturnStationArrival(g), UNCHANGED envVars
  PROVE  Core'
  <1>1. CASE state # "NAV_TO_RETURN"
    BY <1>1, WrongStateCore DEF ReturnStationArrival
  <1>2. CASE state = "NAV_TO_RETURN"
    <2>1. StartCurrentBookTask(<<"RECEIVE_TRAY">>, 0, goals \ {g})
      BY <1>2 DEF ReturnStationArrival
    <2>2. /\ taskIndex' = 0
          /\ UNCHANGED <<activeJob, plan, completed, slot, accepted, verified,
                         requested>>
      BY <1>2 DEF ReturnStationArrival
    <2>3. FsmTypeNext /\ goals' \subseteq Goal /\ navTarget' \in NavTarget \cup {None}
      <3>1. goals \ {g} \in SUBSET Goal /\ activeJob \in Job
        BY GoalInFlight DEF Core, TypeOK
      <3> QED BY <2>1, <3>1, PathType, StartCurrentBookTaskType DEF Core
    <2>4. TypeOK'
      BY <2>2, <2>3 DEF envVars, Core, TypeOK, FsmTypeNext
    <2>5. GoalMatchesState' /\ AtMostOneGoal'
      BY <2>1, <2>2, PathType, StartCurrentBookTaskGoals
    <2> QED BY <2>4, <2>5 DEF Core
  <1> QED BY <1>1, <1>2

LEMMA ShelfArrivalCore ==
  ASSUME Core, NEW g \in goals, ShelfArrival(g), UNCHANGED envVars
  PROVE  Core'
  <1> DEFINE path == <<"DETECT_TARGET_SLOT">>
             goal == DetectGoal(plan.job, plan.tasks[taskIndex + 1])
  <1>1. CASE state # "NAV_TO_SHELF"
    BY <1>1, WrongStateCore DEF ShelfArrival
  <1>2. CASE state = "NAV_TO_SHELF"
    <2>1. /\ goals \ {g} = {} /\ plan # None /\ plan.job = activeJob
          /\ activeJob \in Job /\ plan.tasks \in Seq(Task)
      BY GoalInFlight
    <2>2. UNCHANGED <<jobVars, navTarget, verified, requested>>
      BY <1>2 DEF ShelfArrival
    <2>3. path \in Paths /\ path \in Seq(SystemState)
      BY PathType DEF Paths
    <2>4. CASE taskIndex >= Len(plan.tasks)
      <3>1. FailAfter(path, ErrorResult("perception")) /\ goals' = {}
        BY <1>2, <2>1, <2>4 DEF ShelfArrival
      <3>2. FsmTypeNext
        BY <2>3, <3>1, CodeType, FailType DEF Server, Core
      <3>3. TypeOK'
        BY <2>2, <3>1, <3>2 DEF jobVars, envVars, Core, TypeOK, FsmTypeNext
      <3> QED BY <3>1, <3>3, NoGoalLeft DEF Core
    <2>5. CASE ~(taskIndex >= Len(plan.tasks))
      <3>0. taskIndex < Len(plan.tasks) /\ taskIndex \in Nat
        BY <2>1, <2>5 DEF Core, TypeOK
      <3>1. goal \in Goal
        BY <2>1, <3>0, TaskType, GoalType DEF Core
      <3>2. SendDetectTargetSlotGoal(path, {})
        BY <1>2, <2>1, <2>5 DEF ShelfArrival
      <3>3. RaiseAfter(path) \/ SendGoal(path, goal, {})
        BY <3>2 DEF SendDetectTargetSlotGoal
      <3>4. FsmTypeNext /\ goals' \subseteq Goal
        BY <2>3, <3>1, <3>3, RaiseType, SendGoalType DEF Core
      <3>5. TypeOK'
        BY <2>2, <3>4 DEF jobVars, envVars, Core, TypeOK, FsmTypeNext
      <3>6. CASE goals' = {}
        BY <3>5, <3>6, NoGoalLeft DEF Core
      <3>7. CASE goals' # {}
        <4> PICK h : h = goal
          OBVIOUS
        <4>1. state' = "DETECT_TARGET_SLOT" /\ goals' = {h}
          BY <3>3, <3>7, SendGoalEffect, PathEnd DEF RaiseAfter
        <4>2. Awaited(h)'
          BY <2>1, <2>2, <3>0, <4>1
             DEF Awaited, DetectGoal, AwaitedKind, NavTarget, CurrentTask, jobVars
        <4> QED BY <3>5, <4>1, <4>2, OneGoalLeft DEF Core
      <3> QED BY <3>6, <3>7
    <2> QED BY <2>4, <2>5
  <1> QED BY <1>1, <1>2

LEMMA HomeArrivalCore ==
  ASSUME Core, NEW g \in goals, HomeArrival(g), UNCHANGED envVars
  PROVE  Core'
  <1>1. CASE state # "RETURN_HOME"
    BY <1>1, WrongStateCore DEF HomeArrival
  <1>2. CASE state = "RETURN_HOME"
    <2>1. goals' = {}
      BY <1>2, GoalInFlight DEF HomeArrival
    <2>2. FsmTypeNext
      BY <1>2, PathType, WalkType DEF HomeArrival, Core
    <2>3. TypeOK'
      BY <1>2, <2>1, <2>2 DEF HomeArrival, ForgetJob, envVars, Core, TypeOK, FsmTypeNext
    <2> QED BY <2>1, <2>3, NoGoalLeft DEF Core
  <1> QED BY <1>1, <1>2

LEMMA NavigationSucceededCore ==
  ASSUME Core, NEW g \in goals, NavigationSucceeded(g)
  PROVE  Core'
  BY ReturnStationArrivalCore, ShelfArrivalCore, HomeArrivalCore, WrongStateCore
     DEF NavigationSucceeded

LEMMA SlotDetectedCore ==
  ASSUME Core, NEW g \in goals, SlotDetected(g)
  PROVE  Core'
  <1> DEFINE path == <<"PLACE_BOOK">>
             target == [book |-> g.book, shelf |-> g.shelf]
             goal == PlaceGoal(plan.job, plan.tasks[taskIndex + 1], target)
  <1>1. CASE state # "DETECT_TARGET_SLOT"
    BY <1>1, WrongStateCore DEF SlotDetected
  <1>2. CASE state = "DETECT_TARGET_SLOT"
    <2>1. /\ goals \ {g} = {} /\ plan # None /\ plan.job = activeJob
          /\ activeJob \in Job /\ plan.tasks \in Seq(Task) /\ Awaited(g)
      BY GoalInFlight
    <2>2. /\ slot' = target
          /\ UNCHANGED <<activeJob, plan, taskIndex, completed, accepted,
                         navTarget, verified, envVars>>
      BY <1>2 DEF SlotDetected
    <2>3. path \in Paths /\ path \in Seq(SystemState)
      BY PathType DEF Paths
    <2>4. taskIndex < Len(plan.tasks) /\ taskIndex \in Nat
      BY <2>1 DEF SlotDetected, Awaited, Core, TypeOK
    <2>5. plan.tasks[taskIndex + 1] \in Task
      BY <2>1, <2>4, TaskType DEF Core
    <2>6. g.book = CurrentTask.book /\ g.shelf = CurrentTask.shelf
      BY <2>1 DEF SlotDetected, Awaited
    <2>7. target = CurrentTask /\ target \in Task
      BY <2>5, <2>6 DEF CurrentTask, Task
    <2>8. goal \in Goal
      BY <2>1, <2>5, <2>7, GoalType
    <2>9. SendPlaceBookGoal(path, target, {})
      <3>1. ~(plan = None \/ taskIndex >= Len(plan.tasks))
        BY <2>1, <2>4
      <3>2. SendPlaceBookGoal(path, target, goals \ {g})
        BY <1>2, <3>1 DEF SlotDetected
      <3> QED BY <2>1, <3>2
    <2>10. /\ RaiseAfter(path) \/ SendGoal(path, goal, {})
           /\ requested' \in {requested, Append(requested,
                               <<plan.job, plan.tasks[taskIndex + 1].book>>)}
      BY <2>9 DEF SendPlaceBookGoal
    <2>11. FsmTypeNext /\ goals' \subseteq Goal
      BY <2>3, <2>8, <2>10, RaiseType, SendGoalType DEF Core
    <2>12. requested' \in Seq(Job \X Book)
      <3>1. <<plan.job, plan.tasks[taskIndex + 1].book>> \in Job \X Book
        BY <2>1, <2>5 DEF Task
      <3>2. requested \in Seq(Job \X Book)
        BY DEF Core, TypeOK
      <3>3. PICK pair \in Job \X Book :
              pair = <<plan.job, plan.tasks[taskIndex + 1].book>>
        BY <3>1
      <3>4. Append(requested, pair) \in Seq(Job \X Book)
        BY <3>2, AppendType
      <3> QED BY <2>10, <3>2, <3>3, <3>4
    <2>13. TypeOK'
      BY <2>2, <2>7, <2>11, <2>12 DEF envVars, Core, TypeOK, FsmTypeNext
    <2>14. CASE goals' = {}
      BY <2>13, <2>14, NoGoalLeft DEF Core
    <2>15. CASE goals' # {}
      <3> PICK h : h = goal
        OBVIOUS
      <3>1. state' = "PLACE_BOOK" /\ goals' = {h}
        BY <2>10, <2>15, SendGoalEffect, PathEnd DEF RaiseAfter
      <3>2. Awaited(h)'
        BY <2>1, <2>2, <2>4, <2>7, <3>1
           DEF Awaited, PlaceGoal, AwaitedKind, NavTarget, CurrentTask
      <3> QED BY <2>13, <3>1, <3>2, OneGoalLeft DEF Core
    <2> QED BY <2>14, <2>15
  <1> QED BY <1>1, <1>2

LEMMA UpdateDataAndContinueCore ==
  ASSUME Core, NEW g \in goals, g.kind = "place", UpdateDataAndContinue(g),
         UNCHANGED envVars, verified' \subseteq Job \X Book
  PROVE  Core'
  <1> DEFINE path == <<"UPDATE_DATA", "NEXT_BOOK">>
             home == path \o <<"RETURN_HOME">>
             goal == NavGoal("home", activeJob, None)
  <1>1. /\ goals \ {g} = {} /\ goals \ {g} \in SUBSET Goal /\ plan # None
        /\ plan.job = activeJob /\ activeJob \in Job
        /\ plan.tasks \in Seq(Task) /\ Awaited(g)
    BY GoalInFlight DEF Core, TypeOK
  <1>2. taskIndex < Len(plan.tasks) /\ taskIndex \in Nat
    BY <1>1 DEF Awaited, Core, TypeOK
  <1>3. plan.tasks[taskIndex + 1].book \in Book
    BY <1>1, <1>2, TaskType DEF Core
  <1>4. /\ slot' = None /\ taskIndex' = taskIndex + 1
        /\ UNCHANGED <<activeJob, plan, accepted, requested>>
        /\ completed' \in {completed,
                           Append(completed, plan.tasks[taskIndex + 1].book)}
    BY DEF UpdateDataAndContinue, RecordBook
  <1>5. ASSUME FsmTypeNext, goals' \subseteq Goal,
               navTarget' \in NavTarget \cup {None}
        PROVE  TypeOK'
    <2>1. completed' \in Seq(Book)
      BY <1>3, <1>4, AppendType DEF Core, TypeOK
    <2> QED BY <1>2, <1>4, <1>5, <2>1 DEF envVars, Core, TypeOK, FsmTypeNext
  <1>6. CASE taskIndex + 1 < Len(plan.tasks)
    <2>1. StartCurrentBookTask(path, taskIndex + 1, goals \ {g})
      BY <1>6 DEF UpdateDataAndContinue
    <2>2. TypeOK'
      BY <1>1, <1>2, <1>5, <2>1, PathType, StartCurrentBookTaskType DEF Core
    <2>3. GoalMatchesState' /\ AtMostOneGoal'
      <3> PICK index \in Nat : index = taskIndex + 1
        BY <1>2
      <3> QED BY <1>4, <2>1, PathType, StartCurrentBookTaskGoals
    <2> QED BY <2>2, <2>3 DEF Core
  <1>7. CASE ~(taskIndex + 1 < Len(plan.tasks))
    <2>1. SendNavigationGoal(home, "home", activeJob, None, {})
      BY <1>1, <1>7 DEF UpdateDataAndContinue
    <2>2. TypeOK'
      BY <1>1, <1>5, <2>1, PathType, SendNavigationType DEF Core, NavTarget
    <2>3. CASE "navigation" \in up
      <3> PICK h : h = goal
        OBVIOUS
      <3>1. state' = "RETURN_HOME" /\ goals' = {h} /\ navTarget' = "home"
        BY <2>1, <2>3, PathEnd
           DEF SendNavigationGoal, SendGoal, ServerOf, NavGoal, Walk
      <3>2. Awaited(h)'
        BY <1>1, <1>4, <3>1 DEF Awaited, NavGoal, AwaitedKind, NavTarget
      <3> QED BY <2>2, <3>1, <3>2, OneGoalLeft DEF Core
    <2>4. CASE "navigation" \notin up
      <3>1. goals' = {}
        BY <2>1, <2>4 DEF SendNavigationGoal, SendGoal, ServerOf, NavGoal
      <3> QED BY <2>2, <3>1, NoGoalLeft DEF Core
    <2> QED BY <2>3, <2>4
  <1> QED BY <1>6, <1>7

LEMMA ManipulationResultCore ==
  ASSUME Core, NEW g \in goals, NEW success \in BOOLEAN,
         NEW placementVerified \in BOOLEAN,
         ManipulationResult(g, success, placementVerified)
  PROVE  Core'
  <1>1. /\ goals \ {g} = {} /\ plan # None /\ plan.job = activeJob
        /\ activeJob \in Job /\ plan.tasks \in Seq(Task) /\ Awaited(g)
    BY GoalInFlight
  <1>2. g.kind = "place"
    BY DEF ManipulationResult
  <1>3. taskIndex < Len(plan.tasks) /\ taskIndex \in Nat
    BY <1>1, <1>2 DEF Awaited, Core, TypeOK
  <1>4. CurrentTask \in Task
    BY <1>1, <1>3, TaskType DEF CurrentTask, Core
  <1>5. g.book \in Book /\ g.job \in Job
    BY <1>1, <1>2, <1>4 DEF Awaited, Task
  <1>6. verified' \subseteq Job \X Book
    BY <1>5 DEF ManipulationResult, Core, TypeOK
  <1>7. CASE UpdateDataAndContinue(g)
    BY <1>2, <1>6, <1>7, UpdateDataAndContinueCore DEF ManipulationResult
  <1>8. CASE ~UpdateDataAndContinue(g)
    <2>1. PICK code \in Nat : FailAfter(<<>>, code)
      <3>1. /\ ErrorFailed("manipulation") \in Nat
            /\ ErrorResult("manipulation") \in Nat
            /\ ReportedCode \subseteq Nat
        BY CodeType, TaskManagerAssumption DEF Server, TaskManagerAssumption
      <3> QED BY <1>8, <3>1 DEF ManipulationResult
    <2>2. /\ goals' = goals \ {g}
          /\ UNCHANGED <<jobVars, navTarget, envVars, requested>>
      BY <1>8 DEF ManipulationResult
    <2> QED BY <1>6, <2>1, <2>2, FailedAnswerCore
  <1> QED BY <1>7, <1>8

-------------------------------------------------------------------------------
(* The inductive invariant.  What is in flight and what the FSM waits for  *)
(* have to be carried together: a handler sends the next goal for the task *)
(* it reads from the plan, and it was called because the previous goal was *)
(* the only one, and the one the FSM was waiting for.                      *)

\* A node that has just started waits for nothing and has nothing in flight.
LEMMA InitCore == Init => Core
  <1> SUFFICES ASSUME Init PROVE Core
    OBVIOUS
  <1>1. completed \in Seq(Book) /\ published \in Seq(SystemState)
        /\ requested \in Seq(Job \X Book)
    BY DEF Init, InitNode
  <1>2. restarts \in 0 .. MaxRestarts
    BY TaskManagerAssumption DEF Init, TaskManagerAssumption
  <1>3. TypeOK
    BY <1>1, <1>2 DEF Init, InitNode, TypeOK, SystemState
  <1>4. GoalMatchesState /\ AtMostOneGoal
    BY DEF Init, GoalMatchesState, AtMostOneGoal
  <1> QED BY <1>3, <1>4 DEF Core

\* Every callback and every step of the environment preserves it.
LEMMA NextCore == Core /\ [Next]_vars => Core'
  <1> SUFFICES ASSUME Core, [Next]_vars PROVE Core'
    OBVIOUS
  <1>1. ASSUME NEW m \in Message, HandleTrayJob(m) PROVE Core'
    BY <1>1, TaskManagerAssumption, RejectUnplannableJobCore, StartJobCore
       DEF HandleTrayJob
  <1>2. ASSUME NEW g \in goals, GoalResponse(g) PROVE Core'
    BY <1>2, GoalAcceptedCore, GoalNotAcceptedCore DEF GoalResponse
  <1>3. ASSUME NEW g \in goals, HandleResult(g) PROVE Core'
    BY <1>3, TaskManagerAssumption, ResultFailedCore, NavigationSucceededCore,
       SlotUncertainCore, SlotDetectedCore, ManipulationResultCore
       DEF HandleResult
  <1>4. CASE PublishStatus
    BY <1>4, PublishStatusCore
  <1>5. ASSUME NEW s \in Server, ServerUp(s) \/ ServerDown(s) PROVE Core'
    BY <1>5, ServerUpCore, ServerDownCore
  <1>6. CASE Restart
    BY <1>6, TaskManagerAssumption, RestartCore
  <1>7. CASE UNCHANGED vars
    BY <1>7 DEF vars, Core, TypeOK, GoalMatchesState, AtMostOneGoal, Awaited,
               CurrentTask
  <1> QED BY <1>1, <1>2, <1>3, <1>4, <1>5, <1>6, <1>7 DEF Next

\* What the node waits for is what it asked for, whatever tray jobs, answers,
\* server failures and restarts come in whatever order.
THEOREM CoreInvariant == Spec => []Core
  BY InitCore, NextCore, PTL DEF Spec

\* Every variable of the node keeps its type (task_manager_node.py).
THEOREM TypeInvariant == Spec => []TypeOK
  <1>1. Core => TypeOK
    BY DEF Core
  <1> QED BY <1>1, CoreInvariant, PTL

\* A result is handled in the state that asked for it and for the task that
\* it was asked for (_handle_navigation_result, _handle_perception_result,
\* _handle_manipulation_result).
THEOREM GoalsMatchState == Spec => []GoalMatchesState
  <1>1. Core => GoalMatchesState
    BY DEF Core
  <1> QED BY <1>1, CoreInvariant, PTL

\* The robot is never asked to do two things at once, and to do nothing in
\* IDLE and FAILED.
THEOREM OneGoalAtATime == Spec => []AtMostOneGoal
  <1>1. Core => AtMostOneGoal
    BY DEF Core
  <1> QED BY <1>1, CoreInvariant, PTL
-------------------------------------------------------------------------------
(* FAILED is final *)

\* Callbacks and servers belong to one process of the node.
LEMMA SameProcess ==
  ASSUME [Next]_vars, ~Restart
  PROVE  restarts' = restarts
  <1>1. ASSUME NEW m \in Message, HandleTrayJob(m) PROVE restarts' = restarts
    BY <1>1 DEF HandleTrayJob, RejectUnplannableJob, StartJob, envVars
  <1>2. ASSUME NEW g \in goals, GoalResponse(g) \/ HandleResult(g)
        PROVE  restarts' = restarts
    BY <1>2 DEF GoalResponse, GoalAccepted, GoalNotAccepted, HandleResult, ResultFailed,
                NavigationSucceeded, SlotUncertain, SlotDetected, ManipulationResult, envVars
  <1>3. ASSUME PublishStatus \/ \E s \in Server : ServerUp(s) \/ ServerDown(s)
        PROVE  restarts' = restarts
    BY <1>3 DEF PublishStatus, ServerUp, ServerDown, envVars
  <1>4. CASE UNCHANGED vars
    BY <1>4 DEF vars
  <1> QED BY <1>1, <1>2, <1>3, <1>4 DEF Next

LEMMA FailedStep ==
  ASSUME Core, state = "FAILED", [Next]_vars, restarts' = restarts
  PROVE  UNCHANGED <<state, errorCode, goals, accepted>>
  <1>1. goals = {} /\ restarts \in Nat
    BY DEF Core, AtMostOneGoal, TypeOK
  <1>2. ~Restart
    BY <1>1 DEF Restart
  <1>3. ASSUME NEW m \in Message PROVE ~HandleTrayJob(m)
    BY DEF HandleTrayJob, RejectUnplannableJob, StartJob, Takes
  <1>4. ASSUME NEW s \in Server, ServerUp(s) \/ ServerDown(s)
        PROVE  UNCHANGED <<state, errorCode, goals, accepted>>
    BY <1>1, <1>4 DEF ServerUp, ServerDown, Silent, jobVars
  <1>5. CASE PublishStatus
    BY <1>5 DEF PublishStatus, jobVars
  <1>6. CASE UNCHANGED vars
    BY <1>6 DEF vars
  <1> QED BY <1>1, <1>2, <1>3, <1>4, <1>5, <1>6 DEF Next

\* A failed node does nothing more until it is started again: no tray job, no
\* answer and no server that comes back moves it.
THEOREM FailuresAreFinal == Spec => FailureIsFinal
  <1>1. Core /\ [Next]_vars =>
          [state = "FAILED" /\ restarts' = restarts =>
             UNCHANGED <<state, errorCode, goals, accepted>>]_vars
    BY FailedStep
  <1> QED BY <1>1, CoreInvariant, PTL DEF Spec, FailureIsFinal
-------------------------------------------------------------------------------
(* What counts as completed *)

\* Only a placement adds to the list of completed books.
LEMMA SendsOn ==
  ASSUME Core, NEW g \in goals, NEW path \in Paths, NEW index,
         StartCurrentBookTask(path, index, goals \ {g})
  PROVE  state' # "IDLE"
  <1>1. CASE plan = None \/ index >= Len(plan.tasks)
    BY <1>1 DEF StartCurrentBookTask, FailAfter
  <1>2. CASE ~(plan = None \/ index >= Len(plan.tasks))
    BY <1>2, PathEnd, SendGoalEffect DEF StartCurrentBookTask, SendNavigationGoal
  <1> QED BY <1>1, <1>2

LEMMA CompletedKept ==
  ASSUME Core, state = "IDLE" => completed = <<>>,
         \/ \E m \in Message : HandleTrayJob(m)
         \/ \E g \in goals : \/ GoalResponse(g) \/ ResultFailed(g) \/ NavigationSucceeded(g)
                             \/ SlotUncertain(g) \/ SlotDetected(g)
         \/ PublishStatus
         \/ \E s \in Server : ServerUp(s) \/ ServerDown(s)
         \/ Restart
         \/ UNCHANGED vars
  PROVE  \/ completed' = <<>>
         \/ /\ UNCHANGED <<completed, activeJob, restarts>>
            /\ state' = "IDLE" => state = "IDLE"
  <1>1. ASSUME NEW m \in Message, HandleTrayJob(m) PROVE completed' = <<>>
    BY <1>1 DEF HandleTrayJob, RejectUnplannableJob, StartJob, Takes
  <1> DEFINE Kept == /\ UNCHANGED <<completed, activeJob, restarts>>
                     /\ state' = "IDLE" => state = "IDLE"
  <1>2. ASSUME NEW g \in goals,
               GoalResponse(g) \/ ResultFailed(g) \/ SlotUncertain(g)
        PROVE  Kept
    BY <1>2 DEF GoalResponse, GoalAccepted, GoalNotAccepted, ResultFailed, SlotUncertain,
                Silent, FailAfter, jobVars, envVars
  <1>3. ASSUME NEW g \in goals, WrongState(g), UNCHANGED envVars PROVE Kept
    BY <1>3 DEF WrongState, FailAfter, jobVars, envVars
  <1>4. ASSUME NEW g \in goals, ReturnStationArrival(g), UNCHANGED envVars PROVE Kept
    BY <1>3, <1>4, SendsOn, PathType DEF ReturnStationArrival, envVars
  <1>5. ASSUME NEW g \in goals, ShelfArrival(g), UNCHANGED envVars PROVE Kept
    <2>1. CASE state # "NAV_TO_SHELF"
      BY <1>3, <1>5, <2>1 DEF ShelfArrival
    <2>2. CASE state = "NAV_TO_SHELF"
      <3>1. UNCHANGED <<completed, activeJob, restarts>>
        BY <1>5, <2>2 DEF ShelfArrival, jobVars, envVars
      <3>2. state' # "IDLE"
        BY <1>5, <2>2, PathEnd DEF ShelfArrival, FailAfter, SendDetectTargetSlotGoal, SendGoal,
                                          RaiseAfter, Walk
      <3> QED BY <3>1, <3>2
    <2> QED BY <2>1, <2>2
  <1>6. ASSUME NEW g \in goals, HomeArrival(g), UNCHANGED envVars
        PROVE  Kept \/ completed' = <<>>
    BY <1>3, <1>6 DEF HomeArrival, ForgetJob
  <1>7. ASSUME NEW g \in goals, SlotDetected(g) PROVE Kept
    <2>1. CASE state # "DETECT_TARGET_SLOT"
      BY <1>3, <1>7, <2>1 DEF SlotDetected
    <2>2. CASE state = "DETECT_TARGET_SLOT"
      <3>1. UNCHANGED <<completed, activeJob, restarts>>
        BY <1>7, <2>2 DEF SlotDetected, envVars
      <3>2. state' # "IDLE"
        BY <1>7, <2>2, PathEnd DEF SlotDetected, FailAfter, SendPlaceBookGoal, SendGoal,
                                          RaiseAfter, Walk
      <3> QED BY <3>1, <3>2
    <2> QED BY <2>1, <2>2
  <1>8. CASE PublishStatus
    BY <1>8 DEF PublishStatus, jobVars, envVars
  <1>9. ASSUME NEW s \in Server, ServerUp(s) \/ ServerDown(s) PROVE Kept
    BY <1>9 DEF ServerUp, ServerDown, Silent, jobVars
  <1>10. CASE Restart
    BY <1>10 DEF Restart
  <1>11. CASE UNCHANGED vars
    BY <1>11 DEF vars
  <1> QED BY <1>1, <1>2, <1>3, <1>4, <1>5, <1>6, <1>7, <1>8, <1>9, <1>10, <1>11
          DEF NavigationSucceeded

LEMMA CompletedGrows ==
  ASSUME Core, NEW g \in goals, ManipulationResult(g, TRUE, TRUE)
  PROVE  /\ UNCHANGED <<activeJob, restarts>> /\ state' # "IDLE"
         /\ activeJob = g.job /\ g.book \in Book
         /\ \/ completed' = completed
            \/ /\ completed' = Append(completed, g.book)
               /\ \A i \in DOMAIN completed : completed[i] # g.book
  <1>1. /\ g.kind = "place" /\ UNCHANGED envVars
        /\ Awaited(g) /\ plan.tasks \in Seq(Task) /\ g \in Goal
    BY GoalInFlight DEF ManipulationResult
  <1>2. /\ activeJob = g.job /\ state = "PLACE_BOOK" /\ taskIndex < Len(plan.tasks)
        /\ g.book = plan.tasks[taskIndex + 1].book
    BY <1>1 DEF Awaited, AwaitedKind, CurrentTask
  <1>3. g.book \in Book
    <2>1. taskIndex \in Nat
      BY DEF Core, TypeOK
    <2>2. plan.tasks[taskIndex + 1] \in Task
      BY <1>1, <1>2, <2>1
    <2> QED BY <1>2, <2>2 DEF Task
  <1>4. UpdateDataAndContinue(g)
    BY <1>2 DEF ManipulationResult, Placed
  <1>5. UNCHANGED activeJob /\ RecordBook(g.book)
    BY <1>2, <1>4 DEF UpdateDataAndContinue
  <1>6. state' # "IDLE"
    <2> DEFINE path == <<"UPDATE_DATA", "NEXT_BOOK">>
    <2>1. CASE taskIndex + 1 < Len(plan.tasks)
      BY <1>4, <2>1, SendsOn, PathType DEF UpdateDataAndContinue
    <2>2. CASE ~(taskIndex + 1 < Len(plan.tasks))
      BY <1>4, <2>2, PathEnd, SendGoalEffect DEF UpdateDataAndContinue, SendNavigationGoal
    <2> QED BY <2>1, <2>2
  <1> QED BY <1>1, <1>2, <1>3, <1>5, <1>6 DEF RecordBook, envVars
-------------------------------------------------------------------------------
(* The FSM: every path of a callback is one of the table, and it ends where *)
(* something is waited for.                                                 *)

\* A callback that sends a goal leaves the FSM waiting for it or failed.
LEMMA SendGoalWaits ==
  ASSUME NEW path, NEW goal, NEW open, SendGoal(path, goal, open)
  PROVE  UNCHANGED spinning /\ (goals' # {} \/ state' = "FAILED")
  BY DEF SendGoal, Walk, FailAfter

LEMMA StartBookWaits ==
  ASSUME NEW path, NEW index, NEW open, StartCurrentBookTask(path, index, open)
  PROVE  UNCHANGED spinning /\ (goals' # {} \/ state' = "FAILED")
  BY SendGoalWaits DEF StartCurrentBookTask, SendNavigationGoal, FailAfter

\* Callbacks run while the executor does: to a node that has ended no goal is
\* open any more.
AwaitInv == AlwaysAwaits /\ (~spinning => goals = {})

LEMMA AwaitStep ==
  ASSUME Core, AwaitInv, [Next]_vars
  PROVE  AwaitInv'
  <1> DEFINE Busy == UNCHANGED spinning /\ (goals' # {} \/ state' \notin WorkingState)
             Ended == ~spinning' /\ goals' = {}
             NoDetection == Ended /\ state' = "DETECT_TARGET_SLOT" /\ config' # ConfigKey
             NoPlacement == Ended /\ state' = "PLACE_BOOK"
                            /\ "timeouts.manipulation" \notin config'
  <1>1. spinning /\ Busy => AwaitInv'
    BY DEF AwaitInv, AlwaysAwaits
  <1>2. "FAILED" \notin WorkingState /\ "IDLE" \notin WorkingState
    BY DEF WorkingState
  <1>3. ASSUME NEW m \in Message, HandleTrayJob(m) PROVE spinning /\ Busy
    BY <1>2, <1>3, SendGoalWaits
       DEF HandleTrayJob, RejectUnplannableJob, StartJob, SendNavigationGoal, FailAfter
  <1>4. ASSUME NEW g \in goals, GoalAccepted(g) PROVE Busy
    BY <1>4 DEF GoalAccepted, Silent
  <1>5. ASSUME NEW g \in goals,
               \/ GoalNotAccepted(g) \/ ResultFailed(g) \/ SlotUncertain(g) \/ WrongState(g)
        PROVE  Busy
    BY <1>2, <1>5 DEF GoalNotAccepted, ResultFailed, SlotUncertain, WrongState, FailAfter
  <1>6. ASSUME NEW g \in goals, NavigationSucceeded(g) PROVE Busy \/ NoDetection
    <2>1. CASE ReturnStationArrival(g)
      BY <1>2, <1>5, <2>1, StartBookWaits DEF ReturnStationArrival
    <2>2. CASE ShelfArrival(g)
      <3>1. CASE SendDetectTargetSlotGoal(<<"DETECT_TARGET_SLOT">>, goals \ {g})
        BY <1>2, <1>6, <3>1, SendGoalWaits, PathEnd
           DEF SendDetectTargetSlotGoal, RaiseAfter, ConfigKey, NavigationSucceeded, envVars
      <3> QED BY <1>2, <1>5, <2>2, <3>1 DEF ShelfArrival, FailAfter
    <2>3. CASE HomeArrival(g)
      BY <1>2, <1>5, <2>3, PathEnd DEF HomeArrival, Walk
    <2> QED BY <1>5, <1>6, <2>1, <2>2, <2>3 DEF NavigationSucceeded
  <1>7. ASSUME NEW g \in goals, SlotDetected(g) PROVE Busy \/ NoPlacement
    <2>1. ASSUME NEW target, SendPlaceBookGoal(<<"PLACE_BOOK">>, target, goals \ {g})
          PROVE  Busy \/ NoPlacement
      BY <1>2, <1>7, <2>1, SendGoalWaits, PathEnd
         DEF SendPlaceBookGoal, RaiseAfter, SlotDetected, envVars
    <2> QED BY <1>2, <1>5, <1>7, <2>1 DEF SlotDetected, FailAfter
  <1>8. ASSUME NEW g \in goals, NEW success \in BOOLEAN, NEW placementVerified \in BOOLEAN,
               ManipulationResult(g, success, placementVerified)
        PROVE  Busy
    BY <1>2, <1>8, SendGoalWaits, StartBookWaits
       DEF ManipulationResult, UpdateDataAndContinue, SendNavigationGoal, FailAfter
  <1>9. ASSUME PublishStatus \/ (\E s \in Server : ServerUp(s) \/ ServerDown(s))
               \/ UNCHANGED vars
        PROVE  AwaitInv'
    <2>1. UNCHANGED <<spinning, state, config>> /\ (goals' = {} <=> goals = {})
      BY <1>9 DEF PublishStatus, ServerUp, ServerDown, Silent, envVars, vars
    <2> QED BY <2>1 DEF AwaitInv, AlwaysAwaits
  <1>10. CASE Restart
    BY <1>2, <1>10 DEF Restart, AwaitInv, AlwaysAwaits
  <1>11. NoDetection \/ NoPlacement => AwaitInv'
    BY DEF AwaitInv, AlwaysAwaits
  <1>12. \A g \in goals : spinning
    BY DEF AwaitInv
  <1> QED BY <1>1, <1>3, <1>4, <1>5, <1>6, <1>7, <1>8, <1>9, <1>10, <1>11, <1>12
          DEF Next, GoalResponse, HandleResult

\* A node that works always has a goal whose answer moves it on, whatever answers
\* came before; and only a key that the configuration lacks ends it
\* (the result handlers, _send_detect_target_slot_goal, _send_place_book_goal).
THEOREM AlwaysAwaitsAnAnswer == Spec => []AlwaysAwaits
  <1>1. Init => AwaitInv
    BY DEF Init, InitNode, AwaitInv, AlwaysAwaits, WorkingState
  <1>2. Core /\ AwaitInv /\ [Next]_vars => AwaitInv'
    BY AwaitStep
  <1>3. AwaitInv => AlwaysAwaits
    BY DEF AwaitInv
  <1> QED BY <1>1, <1>2, <1>3, CoreInvariant, PTL DEF Spec
-------------------------------------------------------------------------------
(* The table of transitions *)

Linked(a, b) == a = b \/ CanTransition(a, b)

LEMMA AllowedAppend ==
  ASSUME NEW S, NEW path \in Seq(S), path # <<>>, Allowed(path), NEW next \in S,
         Linked(path[Len(path)], next)
  PROVE  Append(path, next) \in Seq(S) /\ Allowed(Append(path, next))
  <1>1. SUFFICES ASSUME NEW i \in 1 .. Len(Append(path, next)) - 1
                 PROVE  Linked(Append(path, next)[i], Append(path, next)[i + 1])
    BY DEF Allowed, Linked
  <1>2. Len(Append(path, next)) = Len(path) + 1
    OBVIOUS
  <1>3. CASE i = Len(path)
    BY <1>2, <1>3
  <1>4. CASE i # Len(path)
    BY <1>2, <1>4 DEF Allowed, Linked
  <1> QED BY <1>3, <1>4

\* Every path of a callback, after the state it begins in.
LEMMA Roads ==
  /\ Allowed(<<"IDLE">> \o <<"PLANNING">>)
  /\ Allowed(<<"IDLE">> \o <<"PLANNING", "NAV_TO_RETURN">>)
  /\ Allowed(<<"NAV_TO_RETURN">> \o <<"RECEIVE_TRAY">>)
  /\ Allowed(<<"NAV_TO_RETURN">> \o (<<"RECEIVE_TRAY">> \o <<"SELECT_BOOK", "NAV_TO_SHELF">>))
  /\ Allowed(<<"NAV_TO_SHELF">> \o <<"DETECT_TARGET_SLOT">>)
  /\ Allowed(<<"DETECT_TARGET_SLOT">> \o <<"PLACE_BOOK">>)
  /\ Allowed(<<"PLACE_BOOK">> \o <<"UPDATE_DATA", "NEXT_BOOK">>)
  /\ Allowed(<<"PLACE_BOOK">>
               \o (<<"UPDATE_DATA", "NEXT_BOOK">> \o <<"SELECT_BOOK", "NAV_TO_SHELF">>))
  /\ Allowed(<<"PLACE_BOOK">> \o (<<"UPDATE_DATA", "NEXT_BOOK">> \o <<"RETURN_HOME">>))
  /\ Allowed(<<"RETURN_HOME">> \o <<"COMPLETED", "IDLE">>)
  BY DEF Allowed, CanTransition, AllowedTransitions, Forward, WorkingState

LEMMA LastStates ==
  /\ <<"PLANNING">>[Len(<<"PLANNING">>)] = "PLANNING"
  /\ <<"RECEIVE_TRAY">>[Len(<<"RECEIVE_TRAY">>)] = "RECEIVE_TRAY"
  /\ <<"UPDATE_DATA", "NEXT_BOOK">>[Len(<<"UPDATE_DATA", "NEXT_BOOK">>)] = "NEXT_BOOK"
  OBVIOUS

LEMMA ConcatType ==
  ASSUME NEW S, NEW s \in Seq(S), NEW t \in Seq(S)
  PROVE  s \o t \in Seq(S)
  OBVIOUS

\* To fail is allowed in every state in which a callback may fail.
LEMMA FailAllowed ==
  ASSUME Core, NEW path \in Paths, path[Len(path)] \in WorkingState,
         Allowed(<<state>> \o path), NEW code, FailAfter(path, code)
  PROVE  Allowed(<<state>> \o published')
  <1>1. state \in SystemState /\ path \in Seq(SystemState) /\ path # <<>>
    BY DEF Core, TypeOK, Paths
  <1>2. PICK full \in Seq(SystemState) : full = <<state>> \o path
    <2>1. <<state>> \in Seq(SystemState)
      BY <1>1
    <2>2. <<state>> \o path \in Seq(SystemState)
      BY <1>1, <2>1, ConcatType
    <2> QED BY <2>2
  <1>3. full # <<>> /\ full[Len(full)] = path[Len(path)]
    BY <1>1, <1>2
  <1>4. Allowed(Append(full, "FAILED"))
    BY <1>2, <1>3, AllowedAppend
       DEF Linked, CanTransition, AllowedTransitions, SystemState, WorkingState
  <1>5. <<state>> \o published' = Append(full, "FAILED")
    BY <1>1, <1>2 DEF FailAfter
  <1> QED BY <1>4, <1>5

LEMMA FailHereAllowed ==
  ASSUME state \in WorkingState, NEW code, FailAfter(<<>>, code)
  PROVE  Allowed(<<state>> \o published')
  <1>1. published' = <<"FAILED">>
    BY DEF FailAfter
  <1>2. CanTransition(state, "FAILED")
    BY DEF CanTransition, AllowedTransitions
  <1> QED BY <1>1, <1>2 DEF Allowed

LEMMA SendAllowed ==
  ASSUME Core, NEW path \in Paths, path[Len(path)] \in WorkingState,
         Allowed(<<state>> \o path), NEW goal, NEW open, SendGoal(path, goal, open)
  PROVE  Allowed(<<state>> \o published')
  BY FailAllowed DEF SendGoal, Walk

LEMMA StartBookAllowed ==
  ASSUME Core, NEW path \in Paths, path[Len(path)] \in WorkingState,
         Allowed(<<state>> \o path),
         Allowed(<<state>> \o (path \o <<"SELECT_BOOK", "NAV_TO_SHELF">>)),
         NEW index, NEW open, StartCurrentBookTask(path, index, open)
  PROVE  Allowed(<<state>> \o published')
  <1> DEFINE full == path \o <<"SELECT_BOOK", "NAV_TO_SHELF">>
  <1>1. full \in Paths /\ full[Len(full)] \in WorkingState
    BY PathType, PathEnd DEF WorkingState
  <1> QED BY <1>1, FailAllowed, SendAllowed DEF StartCurrentBookTask, SendNavigationGoal

\* A working FSM with a goal in flight.
LEMMA WorkingNow ==
  ASSUME Core, NEW g \in goals
  PROVE  state \in WorkingState
  BY GoalInFlight DEF Awaited, AwaitedKind, WorkingState

LEMMA FailedAnswerAllowed ==
  ASSUME Core, NEW g \in goals,
         \/ GoalNotAccepted(g) \/ ResultFailed(g) \/ SlotUncertain(g) \/ WrongState(g)
  PROVE  Allowed(<<state>> \o published')
  BY WorkingNow, FailHereAllowed DEF GoalNotAccepted, ResultFailed, SlotUncertain, WrongState

LEMMA NavigationAllowed ==
  ASSUME Core, NEW g \in goals, NavigationSucceeded(g)
  PROVE  Allowed(<<state>> \o published')
  <1>1. CASE ReturnStationArrival(g) /\ state = "NAV_TO_RETURN"
    BY <1>1, StartBookAllowed, Roads, PathType, LastStates DEF ReturnStationArrival, WorkingState
  <1>2. CASE ShelfArrival(g) /\ state = "NAV_TO_SHELF"
    BY <1>2, FailAllowed, SendAllowed, Roads, PathType, PathEnd
       DEF ShelfArrival, SendDetectTargetSlotGoal, RaiseAfter, WorkingState
  <1>3. CASE HomeArrival(g) /\ state = "RETURN_HOME"
    BY <1>3, Roads DEF HomeArrival, Walk
  <1> QED BY <1>1, <1>2, <1>3, FailedAnswerAllowed
          DEF NavigationSucceeded, ReturnStationArrival, ShelfArrival, HomeArrival

LEMMA DetectionAllowed ==
  ASSUME Core, NEW g \in goals, SlotDetected(g)
  PROVE  Allowed(<<state>> \o published')
  <1>1. CASE state # "DETECT_TARGET_SLOT"
    BY <1>1, FailedAnswerAllowed DEF SlotDetected
  <1>2. CASE state = "DETECT_TARGET_SLOT"
    BY <1>2, FailAllowed, SendAllowed, Roads, PathType, PathEnd
       DEF SlotDetected, SendPlaceBookGoal, RaiseAfter, WorkingState
  <1> QED BY <1>1, <1>2

LEMMA PlacementAllowed ==
  ASSUME Core, NEW g \in goals, NEW success, NEW placementVerified,
         ManipulationResult(g, success, placementVerified)
  PROVE  Allowed(<<state>> \o published')
  <1>1. CASE ~UpdateDataAndContinue(g)
    BY <1>1, WorkingNow, FailHereAllowed DEF ManipulationResult
  <1>2. CASE UpdateDataAndContinue(g)
    <2>1. state = "PLACE_BOOK"
      BY GoalInFlight DEF ManipulationResult, Awaited, AwaitedKind
    <2>2. CASE taskIndex + 1 < Len(plan.tasks)
      BY <1>2, <2>1, <2>2, StartBookAllowed, Roads, PathType, LastStates
         DEF UpdateDataAndContinue, WorkingState
    <2>3. CASE ~(taskIndex + 1 < Len(plan.tasks))
      BY <1>2, <2>1, <2>3, SendAllowed, Roads, PathType, PathEnd
         DEF UpdateDataAndContinue, SendNavigationGoal, WorkingState
    <2> QED BY <2>2, <2>3
  <1> QED BY <1>1, <1>2

LEMMA TableStep ==
  ASSUME Core, Next, restarts' = restarts
  PROVE  Allowed(<<state>> \o published')
  <1>1. ~Restart
    BY DEF Restart, Core, TypeOK
  <1>2. ASSUME NEW m \in Message, HandleTrayJob(m)
        PROVE  Allowed(<<state>> \o published')
    <2>1. state = "IDLE"
      BY <1>2 DEF HandleTrayJob, RejectUnplannableJob, StartJob, Takes
    <2> QED BY <1>2, <2>1, FailAllowed, SendAllowed, Roads, PathType, PathEnd, LastStates
            DEF HandleTrayJob, RejectUnplannableJob, StartJob, SendNavigationGoal, WorkingState
  <1>3. CASE published' = <<>>
    BY <1>3 DEF Allowed
  <1>4. CASE PublishStatus
    BY <1>4 DEF PublishStatus, Allowed
  <1> QED BY <1>1, <1>2, <1>3, <1>4, FailedAnswerAllowed, NavigationAllowed, DetectionAllowed,
             PlacementAllowed
          DEF Next, GoalResponse, HandleResult, GoalAccepted, ServerUp, ServerDown, Silent

\* Every status that is published follows from the one before by the table of
\* state_machine.py: transition() does not raise, and fail() stays in the table.
THEOREM TableIsKept == Spec => TransitionsAllowed
  <1>1. Core /\ [Next]_vars => [restarts' = restarts => Allowed(<<state>> \o published')]_vars
    BY TableStep
  <1> QED BY <1>1, CoreInvariant, PTL DEF Spec, TransitionsAllowed
===============================================================================
