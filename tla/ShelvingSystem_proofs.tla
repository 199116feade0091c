-------------------------- MODULE ShelvingSystem_proofs --------------------------
(***************************************************************************)
(* The composition is one of its parts: what a part does in the system, it *)
(* does in its own specification, for any trays, slots, motions of the arm *)
(* and any number of restarts.                                             *)
(***************************************************************************)
EXTENDS ShelvingSystem, TrayService_proofs

\* What is proved of the arm for any clients, here for the task manager.
ArmProofs == INSTANCE Manipulation_proofs WITH
  Goal <- Placement, BookOf <- [p \in Placement |-> p.book],
  ValidGoal <- Placement, Impatient <- {}

LEMMA TaskManagerSteps == [SystemNext]_systemVars => [Next]_vars
  <1> SUFFICES ASSUME [SystemNext]_systemVars
               PROVE  [Next]_vars
    OBVIOUS
  <1>1. CASE Elsewhere
    BY <1>1, SystemAssumption DEF Elsewhere, Answered, Next, SystemAssumption
  <1>2. CASE ArmStep
    BY <1>2 DEF ArmStep
  <1>3. CASE Reads
    <2>1. \E g \in goals : GoalResponse(g) \/ HandleResult(g)
      BY <1>3 DEF Reads, ReadsResponse, ReadsResult, Excepts, GoalResponse, HandleResult
    <2> QED BY <2>1 DEF Next
  <1>4. CASE UNCHANGED systemVars
    BY <1>4 DEF systemVars
  <1> QED BY <1>1, <1>2, <1>3, <1>4 DEF SystemNext

\* What task_manager_node.py does with the arm behind it, it does with any
\* manipulation server: all that holds of TaskManager holds in the system.
THEOREM SystemRunsTaskManager == SystemSpec => Spec
  <1>1. SystemInit => Init
    BY DEF SystemInit
  <1> QED BY <1>1, TaskManagerSteps, PTL DEF SystemSpec, Spec

\* So the goals that await an answer are those of the state, one at a time.
THEOREM SystemGoalsMatchState == SystemSpec => [](TypeOK /\ GoalMatchesState /\ AtMostOneGoal)
  BY SystemRunsTaskManager, TypeInvariant, GoalsMatchState, OneGoalAtATime, PTL

LEMMA OrdersTyped ==
  ASSUME ordered \subseteq Placement, TypeOK, (TypeOK /\ GoalMatchesState)', Orders
  PROVE  ordered' \subseteq Placement
  <1>1. ASSUME NEW g \in goals', g.kind = "place"
        PROVE  PlacementOf(g) \in Placement
    <2>1. g.job \in Job /\ restarts \in 0 .. MaxRestarts
      BY <1>1 DEF TypeOK, Goal
    <2>2. Awaited(g)'
      BY <1>1 DEF GoalMatchesState
    <2>3. plan' \in Plan /\ taskIndex' \in Nat /\ taskIndex' < Len(plan'.tasks)
      BY <1>1, <2>2 DEF Awaited, TypeOK
    <2>4. g.book = plan'.tasks[taskIndex' + 1].book
      BY <1>1, <2>2 DEF Awaited, CurrentTask
    <2>5. plan'.tasks \in Seq(Task)
      BY <2>3 DEF Plan
    <2>6. plan'.tasks[taskIndex' + 1] \in Task
      BY <2>3, <2>5
    <2>7. g.book \in Book
      BY <2>4, <2>6 DEF Task
    <2> QED BY <2>1, <2>7 DEF PlacementOf, Placement
  <1> QED BY <1>1 DEF Orders

LEMMA OrderedStep ==
  ASSUME ordered \subseteq Placement, TypeOK, (TypeOK /\ GoalMatchesState)',
         [SystemNext]_systemVars
  PROVE  ordered' \subseteq Placement
  BY OrdersTyped DEF SystemNext, Elsewhere, ArmStep, Reads, systemVars

LEMMA OrderedType == SystemSpec => [](ordered \subseteq Placement)
  <1>1. SystemInit => ordered \subseteq Placement
    BY DEF SystemInit
  <1>2. /\ ordered \subseteq Placement /\ TypeOK
        /\ (TypeOK /\ GoalMatchesState)' /\ [SystemNext]_systemVars
        => (ordered \subseteq Placement)'
    BY OrderedStep
  <1> QED BY <1>1, <1>2, SystemGoalsMatchState, PTL DEF SystemSpec

LEMMA ArmSteps ==
  ASSUME ordered \subseteq Placement, [SystemNext]_systemVars
  PROVE  [Arm!Next]_(Arm!vars)
  <1>1. CASE Elsewhere
    BY <1>1 DEF Elsewhere, armVars, nodeVars, Arm!vars, Arm!executorVars, Arm!nodeVars, Arm!scene
  <1>2. CASE ArmStep
    BY <1>2 DEF ArmStep, Arm!Next, nodeVars, Arm!nodeVars
  <1>3. CASE Reads
    BY <1>3 DEF Reads, armVars, nodeVars, Arm!vars, Arm!executorVars, Arm!nodeVars, Arm!scene
  <1>4. CASE UNCHANGED systemVars
    BY <1>4 DEF systemVars, armVars, nodeVars, Arm!vars, Arm!executorVars, Arm!nodeVars, Arm!scene
  <1> QED BY <1>1, <1>2, <1>3, <1>4 DEF SystemNext

\* The placements the task manager orders are ones that Manipulation knows, so
\* the node and the executor behave in the system as they do for any clients.
THEOREM SystemRunsArm == SystemSpec => Arm!Spec
  <1>1. SystemInit => Arm!Init
    BY DEF SystemInit
  <1> QED BY <1>1, ArmSteps, OrderedType, PTL DEF SystemSpec, Arm!Spec
-------------------------------------------------------------------------------
(* What is proved of Manipulation holds of the arm in the system: Arm and      *)
(* ArmProofs are instances of one module, so their definitions are the same,   *)
(* and SystemAssumption and MotionAssumption are what Manipulation assumes.    *)

LEMMA SameArm ==
  /\ ArmProofs!Init <=> Arm!Init
  /\ ArmProofs!Next <=> Arm!Next
  /\ [ArmProofs!Next]_(ArmProofs!vars) <=> [Arm!Next]_(Arm!vars)
  BY DEF Arm!SimPhaseOrder, ArmProofs!SimPhaseOrder, Arm!SimPhase, ArmProofs!SimPhase,
         Arm!JobSequence, ArmProofs!JobSequence, Arm!Status, ArmProofs!Status, Arm!Codes,
         ArmProofs!Codes, Arm!StateMessage, ArmProofs!StateMessage, Arm!InOrder,
         ArmProofs!InOrder, Arm!scene, ArmProofs!scene, Arm!executorVars, ArmProofs!executorVars,
         Arm!State, ArmProofs!State, Arm!PlaceCommand, ArmProofs!PlaceCommand, Arm!CancelCommand,
         ArmProofs!CancelCommand, Arm!Running, ArmProofs!Running, Arm!Moving, ArmProofs!Moving,
         Arm!PhaseOfArm, ArmProofs!PhaseOfArm, Arm!InitExecutor, ArmProofs!InitExecutor,
         Arm!Push, ArmProofs!Push, Arm!Publish, ArmProofs!Publish, Arm!Finish, ArmProofs!Finish,
         Arm!StopArm, ArmProofs!StopArm, Arm!BookOnTray, ArmProofs!BookOnTray, Arm!RefuseJob,
         ArmProofs!RefuseJob, Arm!TakeJob, ArmProofs!TakeJob, Arm!StartJob, ArmProofs!StartJob,
         Arm!RefuseBusy, ArmProofs!RefuseBusy, Arm!Cancels, ArmProofs!Cancels, Arm!CancelJob,
         ArmProofs!CancelJob, Arm!HandleCommand, ArmProofs!HandleCommand, Arm!HomeReached,
         ArmProofs!HomeReached, Arm!HomeFails, ArmProofs!HomeFails, Arm!Announce,
         ArmProofs!Announce, Arm!EnterPhase, ArmProofs!EnterPhase, Arm!NextPhase,
         ArmProofs!NextPhase, Arm!Fail, ArmProofs!Fail, Arm!GraspFailed, ArmProofs!GraspFailed,
         Arm!BookDropped, ArmProofs!BookDropped, Arm!MotionTimeout, ArmProofs!MotionTimeout,
         Arm!Verify, ArmProofs!Verify, Arm!LoseCommand, ArmProofs!LoseCommand, Arm!NextExecutor,
         ArmProofs!NextExecutor, Arm!nodeVars, ArmProofs!nodeVars, Arm!vars, ArmProofs!vars,
         Arm!NewTracker, ArmProofs!NewTracker, Arm!LeftTrayPhase, ArmProofs!LeftTrayPhase,
         Arm!InitNode, ArmProofs!InitNode, Arm!Init, ArmProofs!Init, Arm!OnGoal,
         ArmProofs!OnGoal, Arm!OnCancel, ArmProofs!OnCancel, Arm!Free, ArmProofs!Free,
         Arm!SlotOrCode, ArmProofs!SlotOrCode, Arm!CheckGoal, ArmProofs!CheckGoal,
         Arm!SetTracker, ArmProofs!SetTracker, Arm!SendPlace, ArmProofs!SendPlace, Arm!OutcomeOf,
         ArmProofs!OutcomeOf, Arm!StepOf, ArmProofs!StepOf, Arm!ProgressAfter,
         ArmProofs!ProgressAfter, Arm!TrackerTold, ArmProofs!TrackerTold, Arm!TakesState,
         ArmProofs!TakesState, Arm!OnSimState, ArmProofs!OnSimState, Arm!WantsCancel,
         ArmProofs!WantsCancel, Arm!GoalTimeout, ArmProofs!GoalTimeout, Arm!CancelsSent,
         ArmProofs!CancelsSent, Arm!GaveUp, ArmProofs!GaveUp, Arm!LeaveLoop, ArmProofs!LeaveLoop,
         Arm!TrackerAfter, ArmProofs!TrackerAfter, Arm!Turn, ArmProofs!Turn, Arm!FinishGoal,
         ArmProofs!FinishGoal, Arm!Execute, ArmProofs!Execute, Arm!LateTurn, ArmProofs!LateTurn,
         Arm!Limit, ArmProofs!Limit, Arm!Next, ArmProofs!Next, Arm!ToSet, ArmProofs!ToSet,
         Arm!Max, ArmProofs!Max

LEMMA SameActions ==
  /\ ArmProofs!NextExecutor <=> Arm!NextExecutor
  /\ \A p : /\ ArmProofs!OnGoal(p) <=> Arm!OnGoal(p)
            /\ ArmProofs!Execute(p) <=> Arm!Execute(p)
            /\ ArmProofs!LateTurn(p) <=> Arm!LateTurn(p)
            /\ ArmProofs!OnSimState(p) <=> Arm!OnSimState(p)
  /\ ArmProofs!ToSet(states) = Arm!ToSet(states)
  BY DEF Arm!SimPhaseOrder, ArmProofs!SimPhaseOrder, Arm!SimPhase, ArmProofs!SimPhase,
         Arm!JobSequence, ArmProofs!JobSequence, Arm!Status, ArmProofs!Status, Arm!Codes,
         ArmProofs!Codes, Arm!StateMessage, ArmProofs!StateMessage, Arm!InOrder,
         ArmProofs!InOrder, Arm!scene, ArmProofs!scene, Arm!executorVars, ArmProofs!executorVars,
         Arm!State, ArmProofs!State, Arm!PlaceCommand, ArmProofs!PlaceCommand, Arm!CancelCommand,
         ArmProofs!CancelCommand, Arm!Running, ArmProofs!Running, Arm!Moving, ArmProofs!Moving,
         Arm!PhaseOfArm, ArmProofs!PhaseOfArm, Arm!InitExecutor, ArmProofs!InitExecutor,
         Arm!Push, ArmProofs!Push, Arm!Publish, ArmProofs!Publish, Arm!Finish, ArmProofs!Finish,
         Arm!StopArm, ArmProofs!StopArm, Arm!BookOnTray, ArmProofs!BookOnTray, Arm!RefuseJob,
         ArmProofs!RefuseJob, Arm!TakeJob, ArmProofs!TakeJob, Arm!StartJob, ArmProofs!StartJob,
         Arm!RefuseBusy, ArmProofs!RefuseBusy, Arm!Cancels, ArmProofs!Cancels, Arm!CancelJob,
         ArmProofs!CancelJob, Arm!HandleCommand, ArmProofs!HandleCommand, Arm!HomeReached,
         ArmProofs!HomeReached, Arm!HomeFails, ArmProofs!HomeFails, Arm!Announce,
         ArmProofs!Announce, Arm!EnterPhase, ArmProofs!EnterPhase, Arm!NextPhase,
         ArmProofs!NextPhase, Arm!Fail, ArmProofs!Fail, Arm!GraspFailed, ArmProofs!GraspFailed,
         Arm!BookDropped, ArmProofs!BookDropped, Arm!MotionTimeout, ArmProofs!MotionTimeout,
         Arm!Verify, ArmProofs!Verify, Arm!LoseCommand, ArmProofs!LoseCommand, Arm!NextExecutor,
         ArmProofs!NextExecutor, Arm!nodeVars, ArmProofs!nodeVars, Arm!vars, ArmProofs!vars,
         Arm!NewTracker, ArmProofs!NewTracker, Arm!LeftTrayPhase, ArmProofs!LeftTrayPhase,
         Arm!InitNode, ArmProofs!InitNode, Arm!Init, ArmProofs!Init, Arm!OnGoal,
         ArmProofs!OnGoal, Arm!OnCancel, ArmProofs!OnCancel, Arm!Free, ArmProofs!Free,
         Arm!SlotOrCode, ArmProofs!SlotOrCode, Arm!CheckGoal, ArmProofs!CheckGoal,
         Arm!SetTracker, ArmProofs!SetTracker, Arm!SendPlace, ArmProofs!SendPlace, Arm!OutcomeOf,
         ArmProofs!OutcomeOf, Arm!StepOf, ArmProofs!StepOf, Arm!ProgressAfter,
         ArmProofs!ProgressAfter, Arm!TrackerTold, ArmProofs!TrackerTold, Arm!TakesState,
         ArmProofs!TakesState, Arm!OnSimState, ArmProofs!OnSimState, Arm!WantsCancel,
         ArmProofs!WantsCancel, Arm!GoalTimeout, ArmProofs!GoalTimeout, Arm!CancelsSent,
         ArmProofs!CancelsSent, Arm!GaveUp, ArmProofs!GaveUp, Arm!LeaveLoop, ArmProofs!LeaveLoop,
         Arm!TrackerAfter, ArmProofs!TrackerAfter, Arm!Turn, ArmProofs!Turn, Arm!FinishGoal,
         ArmProofs!FinishGoal, Arm!Execute, ArmProofs!Execute, Arm!LateTurn, ArmProofs!LateTurn,
         Arm!Limit, ArmProofs!Limit, Arm!Next, ArmProofs!Next, Arm!ToSet, ArmProofs!ToSet,
         Arm!Max, ArmProofs!Max

LEMMA SameMotion == /\ ArmProofs!SimPhase = Arm!SimPhase
                    /\ ArmProofs!StateMessage = Arm!StateMessage
                    /\ \A p, q : ArmProofs!InOrder(p, q) <=> Arm!InOrder(p, q)
                    /\ \A s : ArmProofs!ToSet(s) = Arm!ToSet(s)
                    /\ \A S : ArmProofs!IsFiniteSet(S) <=> IsFiniteSet(S)
  BY DEF ArmProofs!SimPhase, Arm!SimPhase, ArmProofs!StateMessage, Arm!StateMessage,
         ArmProofs!InOrder, Arm!InOrder, ArmProofs!ToSet, Arm!ToSet, ArmProofs!IsFiniteSet,
         IsFiniteSet, ArmProofs!SimPhaseOrder, Arm!SimPhaseOrder, ArmProofs!JobSequence,
         Arm!JobSequence, ArmProofs!Status, Arm!Status, ArmProofs!Codes, Arm!Codes

\* What the modules of the arm assume of their constants.
LEMMA ArmAssumptions ==
  /\ Slot \subseteq Nat /\ ArmProofs!IsFiniteSet(Slot)
  /\ Motion \in Seq(ArmProofs!SimPhase)
  /\ \A i, j \in DOMAIN Motion : i < j => ArmProofs!InOrder(Motion[i], Motion[j])
  /\ {"lift", "carry_rotate", "release"} \subseteq ArmProofs!ToSet(Motion)
  /\ Window \in Nat \ {0}
  /\ Frame \in {"arm_base_link", "base_link"}
  /\ None \notin Placement \cup Int \cup ArmProofs!StateMessage
  /\ DOMAIN [p \in Placement |-> p.book] = Placement
  /\ \A b \in DOMAIN Assigned : Assigned[b] \in Nat
  /\ Placement \subseteq Placement /\ {} \subseteq Placement
  BY SameMotion, SystemAssumption, MotionAssumption DEF SystemAssumption, MotionAssumption

LEMMA SystemRunsProved == SystemSpec => ArmProofs!Spec
  <1>1. [Arm!Next]_(Arm!vars) => [ArmProofs!Next]_(ArmProofs!vars)
    BY SameArm
  <1>2. Arm!Init => ArmProofs!Init
    BY SameArm
  <1> QED BY <1>1, <1>2, SystemRunsArm, PTL DEF Arm!Spec, ArmProofs!Spec

LEMMA ArmInvariant == SystemSpec => []ArmProofs!IInv
  <1>1. ArmProofs!Spec => []ArmProofs!IInv
    BY ArmAssumptions, ArmProofs!ManipulationInvariant
  <1> QED BY <1>1, SystemRunsProved, PTL

\* A book of a placement that succeeded stands on the shelf, also when the task
\* manager was started again, or no longer waits for the answer.
THEOREM SystemPlacesForReal == SystemSpec => []Arm!PlacedForReal
  <1>1. ArmProofs!Spec => []ArmProofs!PlacedForReal
    BY ArmAssumptions, ArmProofs!PlacementsAreReal
  <1>2. ArmProofs!PlacedForReal => Arm!PlacedForReal
    BY DEF ArmProofs!PlacedForReal, Arm!PlacedForReal
  <1> QED BY <1>1, <1>2, SystemRunsProved, PTL
-------------------------------------------------------------------------------
(* What the task manager believes of its placements.  Its own invariant Core   *)
(* and that of the arm hold beside it; what ties them together is what became  *)
(* of every placement this process has ordered, and of every completed book.   *)

Open(p) == \E g \in goals : g.kind = "place" /\ PlacementOf(g) = p
Successful(p) == stage[p] = "done" /\ outcome[p] = 0
Accounted(p) == state = "FAILED" \/ Open(p) \/ Successful(p)

OrdersAgree ==
  /\ \A p \in Placement : stage[p] # "new" => p \in ordered
  /\ \A p \in ordered : p.run <= restarts /\ (p.run = restarts => Accounted(p))

CompletedAgrees ==
  /\ state = "IDLE" => completed = <<>>
  /\ \A i \in DOMAIN completed : /\ PlacementNow(completed[i]) \in Placement
                                 /\ outcome[PlacementNow(completed[i])] = 0
  /\ \A i, k \in DOMAIN completed : completed[i] = completed[k] => i = k

Parts == Core /\ ArmProofs!IInv /\ ordered \subseteq Placement

LEMMA PartsHold == SystemSpec => []Parts
  <1>1. Core <=> TypeOK /\ GoalMatchesState /\ AtMostOneGoal
    BY DEF Core
  <1>2. Parts <=> Core /\ ArmProofs!IInv /\ ordered \subseteq Placement
    BY DEF Parts
  <1> QED BY <1>1, <1>2, SystemGoalsMatchState, ArmInvariant, OrderedType, PTL

LEMMA ZeroIsNoNone == None # 0
  BY MotionAssumption DEF MotionAssumption

\* What a placement ended with, it keeps.
LEMMA OutcomeKept ==
  ASSUME Parts, [SystemNext]_systemVars, NEW p \in Placement, outcome[p] = 0
  PROVE  outcome'[p] = 0 /\ (Successful(p) => Successful(p)')
  <1>1. [ArmProofs!Next]_(ArmProofs!vars)
    BY ArmSteps, SameArm DEF Parts
  <1>2. outcome'[p] = outcome[p] /\ (stage[p] = "done" => stage'[p] = "done")
    BY <1>1, ArmAssumptions, ArmProofs!OutcomeStays, ZeroIsNoNone DEF Parts
  <1> QED BY <1>2 DEF Successful

\* The node learns of a placement by its order.
LEMMA KnownWasOrdered ==
  ASSUME Parts, OrdersAgree, [SystemNext]_systemVars,
         NEW p \in Placement, stage'[p] # "new"
  PROVE  p \in ordered'
  <1>1. ordered \subseteq ordered'
    BY DEF SystemNext, Elsewhere, ArmStep, Reads, Orders, systemVars
  <1>2. CASE stage[p] # "new"
    BY <1>1, <1>2 DEF OrdersAgree
  <1>3. CASE stage[p] = "new"
    <2>1. ArmStep
      BY <1>3 DEF SystemNext, Elsewhere, Reads, armVars, nodeVars, systemVars
    <2>2. \/ p \in ordered
          \/ Arm!NextExecutor /\ UNCHANGED nodeVars
          \/ \E h \in Placement \ {p} : Arm!OnGoal(h)
          \/ \E h \in Placement : Arm!Execute(h) \/ Arm!LateTurn(h)
          \/ \E m \in Arm!ToSet(states) : Arm!OnSimState(m)
      BY <2>1 DEF ArmStep, Parts
    <2>3. p \in ordered
      BY <1>3, <2>2, SameActions, ArmAssumptions, ArmProofs!NewStays
         DEF Parts, nodeVars, ArmProofs!nodeVars
    <2> QED BY <1>1, <2>3
  <1> QED BY <1>2, <1>3

\* An open placement is answered, with success or with FAILED.
LEMMA OpenStep ==
  ASSUME Core, ordered \subseteq Placement, Elsewhere \/ Reads, ~Restart, restarts' = restarts,
         NEW g \in goals, g.kind = "place"
  PROVE  Accounted(PlacementOf(g))'
  <1>1. /\ \A h \in goals : h = g
        /\ state \notin {"IDLE", "FAILED"} /\ g \in Goal
    BY GoalInFlight DEF Core, AtMostOneGoal
  <1> DEFINE Kept == \E h \in goals' : h.kind = "place" /\ h.job = g.job /\ h.book = g.book
  <1>2. Kept => Accounted(PlacementOf(g))'
    BY DEF Accounted, Open, PlacementOf
  <1>3. CASE Elsewhere
    <2>1. ASSUME NEW m \in Message PROVE ~HandleTrayJob(m)
      BY <1>1 DEF HandleTrayJob, RejectUnplannableJob, StartJob, Takes
    <2>2. ASSUME NEW h \in goals PROVE ~Answered(h)
      BY <1>1 DEF Answered
    <2>3. ASSUME NEW s \in Fickle, ServerUp(s) PROVE Kept
      BY <2>3 DEF ServerUp
    <2>4. ASSUME NEW s \in Fickle, ServerDown(s) PROVE Kept
      <3>1. PICK h \in goals' : h = IF ServerOf(g.kind) = s THEN Lose(g) ELSE g
        BY <2>4 DEF ServerDown
      <3>2. h.kind = g.kind /\ h.job = g.job /\ h.book = g.book
        BY <1>1, <3>1 DEF Lose, Goal
      <3> QED BY <3>2
    <2> QED BY <1>2, <1>3, <2>1, <2>2, <2>3, <2>4 DEF Elsewhere
  <1>4. CASE Reads
    <2>1. ReadsResponse(g) \/ ReadsResult(g) \/ Excepts(g)
      BY <1>1, <1>4 DEF Reads
    <2>2. UNCHANGED <<stage, outcome>>
      BY <1>4 DEF Reads, armVars, nodeVars
    <2>3. CASE GoalAccepted(g)
      <3>1. PICK h \in goals' : h = [g EXCEPT !.phase = "accepted"]
        BY <2>3 DEF GoalAccepted
      <3>2. h.kind = g.kind /\ h.job = g.job /\ h.book = g.book
        BY <1>1, <3>1 DEF Goal
      <3> QED BY <1>2, <3>2
    <2>4. CASE GoalNotAccepted(g) \/ ResultFailed(g)
      BY <2>4 DEF GoalNotAccepted, ResultFailed, FailAfter, Accounted
    <2>5. CASE stage[PlacementOf(g)] = "done" /\ outcome[PlacementOf(g)] = 0
      BY <2>2, <2>5 DEF Accounted, Successful, PlacementOf
    <2> QED BY <2>1, <2>3, <2>4, <2>5 DEF ReadsResponse, ReadsResult, Excepts
  <1> QED BY <1>3, <1>4

\* Every step of the task manager accounts for its placements.
LEMMA OrdersStep ==
  ASSUME Parts, Parts', OrdersAgree, [SystemNext]_systemVars
  PROVE  OrdersAgree'
  <1>1. \A p \in Placement : stage'[p] # "new" => p \in ordered'
    BY KnownWasOrdered
  <1>2. Core /\ Core' /\ ordered \subseteq Placement /\ restarts \in Nat
    BY DEF Parts, Core, TypeOK
  <1>3. ASSUME NEW p \in ordered, p.run = restarts, Successful(p)
        PROVE  Accounted(p)'
    BY <1>2, <1>3, OutcomeKept DEF Successful, Accounted
  <1>4. CASE Elsewhere \/ Reads
    <2>1. Orders
      BY <1>4 DEF Elsewhere, Reads
    <2>2. CASE Restart
      <3>1. ordered' = ordered /\ restarts' = restarts + 1
        BY <2>1, <2>2 DEF Orders, Restart
      <3>2. \A p \in ordered : p.run \in Nat
        BY <1>2 DEF Placement
      <3> QED BY <1>1, <1>2, <3>1, <3>2 DEF OrdersAgree
    <2>3. CASE ~Restart
      <3>1. [Next]_vars
        BY TaskManagerSteps, <1>4 DEF SystemNext
      <3>2. restarts' = restarts
        BY <2>3, <3>1, SameProcess
      <3>3. ASSUME NEW p \in ordered', p \notin ordered
            PROVE  p.run = restarts' /\ Accounted(p)'
        BY <2>1, <3>2, <3>3 DEF Orders, PlacementOf, Accounted, Open
      <3>4. ASSUME NEW p \in ordered, p.run = restarts, state = "FAILED"
            PROVE  Accounted(p)'
        BY <1>2, <3>1, <3>2, <3>4, FailedStep DEF Accounted
      <3>5. ASSUME NEW p \in ordered, p.run = restarts, NEW g \in goals, g.kind = "place",
                   PlacementOf(g) = p
            PROVE  Accounted(p)'
        <4>1. Accounted(PlacementOf(g))'
          BY <1>2, <1>4, <2>3, <3>2, <3>5, OpenStep
        <4> QED BY <3>2, <3>5, <4>1 DEF Accounted, Open, Successful, PlacementOf
      <3>6. \A p \in ordered : p.run = restarts => Accounted(p)'
        BY <1>3, <3>4, <3>5 DEF OrdersAgree, Accounted, Open
      <3> QED BY <1>1, <1>2, <3>2, <3>3, <3>6 DEF OrdersAgree
    <2> QED BY <2>2, <2>3
  <1>5. CASE UNCHANGED <<vars, ordered>>
    <2>1. ASSUME NEW p \in ordered, p.run = restarts
          PROVE  Accounted(p)'
      BY <1>3, <1>5, <2>1 DEF vars, OrdersAgree, Accounted, Open, PlacementOf
    <2> QED BY <1>1, <1>5, <2>1 DEF vars, OrdersAgree
  <1> QED BY <1>4, <1>5 DEF SystemNext, ArmStep, systemVars

\* Every completed book is one of a placement that succeeded.
LEMMA CompletedStep ==
  ASSUME Parts, OrdersAgree, CompletedAgrees, [SystemNext]_systemVars
  PROVE  CompletedAgrees'
  <1>1. Core /\ completed \in Seq(Book) /\ restarts \in 0 .. MaxRestarts
    BY DEF Parts, Core, TypeOK
  <1>2. ASSUME UNCHANGED <<completed, activeJob, restarts>>, state' = "IDLE" => state = "IDLE"
        PROVE  CompletedAgrees'
    BY <1>1, <1>2, OutcomeKept DEF CompletedAgrees, PlacementNow
  <1>3. CASE completed' = <<>>
    BY <1>3 DEF CompletedAgrees
  <1>4. CASE Elsewhere \/ ArmStep \/ UNCHANGED systemVars
    <2>1. \/ \E m \in Message : HandleTrayJob(m)
          \/ \E g \in goals : \/ GoalResponse(g) \/ ResultFailed(g) \/ NavigationSucceeded(g)
                              \/ SlotUncertain(g) \/ SlotDetected(g)
          \/ PublishStatus
          \/ \E s \in Server : ServerUp(s) \/ ServerDown(s)
          \/ Restart
          \/ UNCHANGED vars
      BY <1>4, SystemAssumption
         DEF Elsewhere, ArmStep, Answered, HandleResult, ManipulationResult, systemVars,
             SystemAssumption
    <2> QED BY <1>1, <1>2, <1>3, <2>1, CompletedKept DEF CompletedAgrees
  <1>5. CASE Reads
    <2>1. PICK g \in goals : /\ g.kind = "place"
                             /\ ReadsResponse(g) \/ ReadsResult(g) \/ Excepts(g)
      BY <1>5 DEF Reads
    <2>2. CASE GoalAccepted(g) \/ GoalNotAccepted(g) \/ ResultFailed(g)
      BY <1>1, <1>2, <1>3, <2>2, CompletedKept DEF GoalResponse, CompletedAgrees
    <2>3. CASE outcome[PlacementOf(g)] = 0 /\ ManipulationResult(g, TRUE, TRUE)
      <3>1. /\ UNCHANGED <<activeJob, restarts>> /\ state' # "IDLE"
            /\ activeJob = g.job /\ g.book \in Book
            /\ \/ completed' = completed
               \/ /\ completed' = Append(completed, g.book)
                  /\ \A i \in DOMAIN completed : completed[i] # g.book
        BY <1>1, <2>3, CompletedGrows
      <3>2. CASE completed' = completed
        BY <1>2, <3>1, <3>2
      <3>3. CASE /\ completed' = Append(completed, g.book)
                 /\ \A i \in DOMAIN completed : completed[i] # g.book
        <4>1. g.job \in Job
          BY <1>1 DEF Core, TypeOK, Goal
        <4> DEFINE Now(b) == [job |-> activeJob, book |-> b, run |-> restarts]
        <4>2. Now(g.book) \in Placement /\ outcome'[Now(g.book)] = 0
          <5>1. PlacementOf(g) \in Placement /\ Now(g.book) = PlacementOf(g)
            BY <1>1, <3>1, <4>1 DEF PlacementOf, Placement
          <5> QED BY <2>3, <5>1, OutcomeKept
        <4>3. /\ Len(completed') = Len(completed) + 1 /\ Len(completed) \in Nat
              /\ completed'[Len(completed) + 1] = g.book
              /\ \A i \in DOMAIN completed : completed'[i] = completed[i]
              /\ DOMAIN completed' = DOMAIN completed \cup {Len(completed) + 1}
          BY <1>1, <3>1, <3>3
        <4>4. ASSUME NEW i \in DOMAIN completed
              PROVE  Now(completed'[i]) \in Placement /\ outcome'[Now(completed'[i])] = 0
          <5>1. Now(completed[i]) \in Placement /\ outcome[Now(completed[i])] = 0
            BY DEF CompletedAgrees, PlacementNow
          <5> QED BY <4>3, <5>1, OutcomeKept
        <4>5. \A i \in DOMAIN completed' : /\ Now(completed'[i]) \in Placement
                                           /\ outcome'[Now(completed'[i])] = 0
          BY <4>2, <4>3, <4>4
        <4>6. \A i, k \in DOMAIN completed' : completed'[i] = completed'[k] => i = k
          BY <3>3, <4>3 DEF CompletedAgrees
        <4> QED BY <3>1, <4>5, <4>6 DEF CompletedAgrees, PlacementNow
      <3> QED BY <3>1, <3>2, <3>3
    <2> QED BY <2>1, <2>2, <2>3 DEF ReadsResponse, ReadsResult, Excepts
  <1> QED BY <1>4, <1>5 DEF SystemNext

SystemInv == OrdersAgree /\ CompletedAgrees

LEMMA SystemInvariant == SystemSpec => []SystemInv
  <1>1. SystemInit => SystemInv
    BY DEF SystemInit, Init, InitNode, Arm!Init, Arm!InitNode, SystemInv, OrdersAgree,
           CompletedAgrees
  <1>2. Parts /\ Parts' /\ SystemInv /\ [SystemNext]_systemVars => SystemInv'
    BY OrdersStep, CompletedStep DEF SystemInv
  <1> QED BY <1>1, <1>2, PartsHold, PTL DEF SystemSpec

\* What the task manager counts as completed stands on the shelf, each book for
\* itself (_update_data_and_continue, over _on_sim_state and verify).
THEOREM CompletedBooksDoStand == SystemSpec => []CompletedBooksStand
  <1>1. SystemInv /\ Arm!PlacedForReal => CompletedBooksStand
    <2> SUFFICES ASSUME SystemInv, Arm!PlacedForReal,
                        NEW i \in DOMAIN completed, NEW k \in DOMAIN completed
                 PROVE  LET p == PlacementNow(completed[i])  q == PlacementNow(completed[k])
                        IN  /\ outcome[p] = 0 /\ where[slotOf[p]] = "shelf"
                            /\ slotOf[p] = slotOf[q] => i = k
      BY DEF CompletedBooksStand
    <2> DEFINE p == PlacementNow(completed[i])
               q == PlacementNow(completed[k])
    <2>1. p \in Placement /\ outcome[p] = 0 /\ q \in Placement /\ outcome[q] = 0
      BY DEF SystemInv, CompletedAgrees
    <2>2. where[slotOf[p]] = "shelf" /\ (slotOf[p] = slotOf[q] => p = q)
      BY <2>1 DEF Arm!PlacedForReal
    <2>3. p = q => i = k
      BY DEF PlacementNow, SystemInv, CompletedAgrees
    <2> QED BY <2>1, <2>2, <2>3
  <1> QED BY <1>1, SystemInvariant, SystemPlacesForReal, PTL

\* The task manager sends no drive while the arm works, or is still to work, on
\* what this process has ordered (_send_navigation_goal).
THEOREM NoDriveMeetsOwnPlacement == SystemSpec => []NoDriveDuringOwnPlacement
  <1>1. Parts /\ SystemInv => NoDriveDuringOwnPlacement
    <2> SUFFICES ASSUME Parts, SystemInv, Driving PROVE NoDriveDuringOwnPlacement
      BY DEF NoDriveDuringOwnPlacement
    <2>1. state # "FAILED" /\ \A g \in goals : g.kind # "place"
      BY DEF Driving, NavTarget, Parts, Core, AtMostOneGoal
    <2>2. \A p \in ordered : p.run = restarts => Successful(p)
      BY <2>1 DEF SystemInv, OrdersAgree, Accounted, Open
    <2>3. \A p \in ordered : Unfinished(p) => p.run # restarts
      BY <2>2 DEF Unfinished, Successful
    <2>4. ASSUME Arm!Moving PROVE job.token.run # restarts
      <3>1. job # None /\ ArmProofs!Sent(job.token) /\ job.token \in Placement
        BY <2>4 DEF Parts, ArmProofs!IInv, ArmProofs!JobAgrees, ArmProofs!Moving, Arm!Moving,
                    ArmProofs!Running, ArmProofs!TypeOK, ArmProofs!ExecutorTypeOK,
                    ArmProofs!StateMessage
      <3>2. job.token \in ordered
        BY <3>1 DEF SystemInv, OrdersAgree, ArmProofs!Sent
      <3>3. outcome[job.token] \in {None, 404, 411}
        BY <2>4, <3>1 DEF Parts, ArmProofs!IInv, ArmProofs!OutcomesAgree, ArmProofs!Working,
                          ArmProofs!Moving, Arm!Moving
      <3> QED BY <2>2, <3>2, <3>3, ZeroIsNoNone DEF Successful
    <2> QED BY <2>3, <2>4 DEF NoDriveDuringOwnPlacement
  <1> QED BY <1>1, PartsHold, SystemInvariant, PTL
-------------------------------------------------------------------------------
(* What whoever brings trays may count on *)

\* The system keeps the promise of TrayService, which knows of no arm.
THEOREM SystemIsATrayService == SystemSpec => ImplementsTrayService
  BY SystemRunsTaskManager, TaskManagerIsATrayService, PTL

\* Books that were ever reported as placed and verified, by this process or by
\* one before it, stand on the shelf.
VerifiedBooksStand ==
  \A v \in verified : \E r \in 0 .. restarts :
    LET p == [job |-> v[1], book |-> v[2], run |-> r]
    IN  outcome[p] = 0 /\ where[slotOf[p]] = "shelf"

\* Each of them is one of a placement that succeeded.
VerifiedAgrees ==
  \A v \in verified : \E r \in 0 .. restarts :
    LET p == [job |-> v[1], book |-> v[2], run |-> r]
    IN  p \in Placement /\ outcome[p] = 0

\* Only a placement that succeeded is reported as verified.
LEMMA VerifiedGrows ==
  ASSUME Parts, [SystemNext]_systemVars
  PROVE  \/ verified' = verified /\ restarts' \in {restarts, restarts + 1}
         \/ \E g \in goals : /\ outcome[PlacementOf(g)] = 0 /\ PlacementOf(g) \in Placement
                             /\ verified' = verified \cup {<<g.job, g.book>>}
                             /\ restarts' = restarts
  <1>1. CASE Reads
    <2>1. PICK g \in goals : /\ g.kind = "place"
                             /\ ReadsResponse(g) \/ ReadsResult(g) \/ Excepts(g)
      BY <1>1 DEF Reads
    <2>2. CASE GoalAccepted(g) \/ GoalNotAccepted(g) \/ ResultFailed(g)
      BY <2>2 DEF GoalAccepted, GoalNotAccepted, ResultFailed, envVars
    <2>3. CASE outcome[PlacementOf(g)] = 0 /\ ManipulationResult(g, TRUE, TRUE)
      <3>1. verified' = verified \cup {<<g.job, g.book>>} /\ restarts' = restarts
        BY <2>3 DEF ManipulationResult, envVars
      <3>2. g.job \in Job /\ g.book \in Book /\ restarts \in 0 .. MaxRestarts
        BY <2>3, CompletedGrows DEF Parts, Core, TypeOK, Goal
      <3> QED BY <2>3, <3>1, <3>2 DEF PlacementOf, Placement
    <2> QED BY <2>1, <2>2, <2>3 DEF ReadsResponse, ReadsResult, Excepts
  <1>2. CASE Elsewhere
    <2>1. ASSUME NEW m \in Message, HandleTrayJob(m)
          PROVE  UNCHANGED <<verified, restarts>>
      BY <2>1 DEF HandleTrayJob, RejectUnplannableJob, StartJob, envVars
    <2>2. ASSUME NEW g \in goals, Answered(g)
          PROVE  UNCHANGED <<verified, restarts>>
      BY <2>2 DEF Answered, GoalResponse, GoalAccepted, GoalNotAccepted, HandleResult,
                  ResultFailed, NavigationSucceeded, ReturnStationArrival, ShelfArrival,
                  HomeArrival, WrongState, SlotUncertain, SlotDetected, ManipulationResult, envVars
    <2>3. ASSUME NEW s, ServerUp(s) \/ ServerDown(s)
          PROVE  UNCHANGED <<verified, restarts>>
      BY <2>3 DEF ServerUp, ServerDown
    <2> QED BY <1>2, <2>1, <2>2, <2>3 DEF Elsewhere, Restart
  <1>3. CASE ArmStep \/ UNCHANGED systemVars
    BY <1>3 DEF ArmStep, systemVars, vars
  <1> QED BY <1>1, <1>2, <1>3 DEF SystemNext

LEMMA VerifiedStep ==
  ASSUME Parts, VerifiedAgrees, [SystemNext]_systemVars
  PROVE  VerifiedAgrees'
  <1> DEFINE Of(v, r) == [job |-> v[1], book |-> v[2], run |-> r]
  <1>1. restarts \in Nat /\ 0 .. restarts \subseteq 0 .. restarts + 1
    BY TaskManagerAssumption DEF TaskManagerAssumption, Parts, Core, TypeOK
  <1>2. 0 .. restarts \subseteq 0 .. restarts'
    BY <1>1, VerifiedGrows
  <1>3. ASSUME NEW v \in verified
        PROVE  \E r \in 0 .. restarts' : Of(v, r) \in Placement /\ outcome'[Of(v, r)] = 0
    <2>1. PICK r \in 0 .. restarts : Of(v, r) \in Placement /\ outcome[Of(v, r)] = 0
      BY DEF VerifiedAgrees
    <2>2. outcome'[Of(v, r)] = 0
      BY <2>1, OutcomeKept
    <2> QED BY <1>2, <2>1, <2>2
  <1>4. ASSUME NEW g \in goals, outcome[PlacementOf(g)] = 0, PlacementOf(g) \in Placement,
               restarts' = restarts
        PROVE  \E r \in 0 .. restarts' : /\ Of(<<g.job, g.book>>, r) \in Placement
                                         /\ outcome'[Of(<<g.job, g.book>>, r)] = 0
    <2>1. outcome'[PlacementOf(g)] = 0
      BY <1>4, OutcomeKept
    <2>2. Of(<<g.job, g.book>>, restarts) = PlacementOf(g) /\ restarts \in 0 .. restarts'
      BY <1>1, <1>4 DEF PlacementOf
    <2> QED BY <1>4, <2>1, <2>2
  <1> QED BY <1>3, <1>4, VerifiedGrows DEF VerifiedAgrees

\* What was once reported as placed and verified stands on the shelf ever after,
\* over restarts of the task manager and whatever the arm does later.
THEOREM VerifiedBooksDoStand == SystemSpec => []VerifiedBooksStand
  <1>1. SystemInit => VerifiedAgrees
    BY DEF SystemInit, Init, InitNode, VerifiedAgrees
  <1>2. Parts /\ VerifiedAgrees /\ [SystemNext]_systemVars => VerifiedAgrees'
    BY VerifiedStep
  <1>3. VerifiedAgrees /\ Arm!PlacedForReal => VerifiedBooksStand
    BY DEF VerifiedAgrees, VerifiedBooksStand, Arm!PlacedForReal
  <1> QED BY <1>1, <1>2, <1>3, PartsHold, SystemPlacesForReal, PTL DEF SystemSpec

\* A tray that the FSM takes for finished, back in IDLE with its process, has
\* every book of its plan on the shelf, each for itself.
TrayFinished == state = "RETURN_HOME" /\ state' = "IDLE" /\ restarts' = restarts
WholeTrayStands ==
  /\ plan # None
  /\ \A i, k \in DOMAIN plan.tasks :
       LET p == PlacementNow(plan.tasks[i].book)  q == PlacementNow(plan.tasks[k].book)
       IN  /\ outcome[p] = 0 /\ where[slotOf[p]] = "shelf"
           /\ slotOf[p] = slotOf[q] => i = k
FinishedTraysStand == [][TrayFinished => WholeTrayStands]_systemVars

LEMMA FinishStep ==
  ASSUME Core, JobInv, CompletedBooksStand, [Next]_vars, TrayFinished
  PROVE  WholeTrayStands
  <1>1. CameHome
    <2>1. Effect
      BY StepEffect
    <2>2. ~Restart
      BY DEF TrayFinished, Restart, Core, TypeOK
    <2> QED BY <2>1, <2>2
            DEF TrayFinished, Effect, Took, Refused, Idled, Stopped, Fails, ReachedTray, ReachedShelf,
                Detected, PlacedBook
  <1>2. plan \in Plan /\ plan # None /\ taskIndex = Len(plan.tasks)
    BY <1>1 DEF CameHome, JobInv, PlanAgrees, Core, TypeOK
  <1>3. /\ DOMAIN completed = DOMAIN plan.tasks
        /\ \A i \in DOMAIN completed : completed[i] = plan.tasks[i].book
    BY <1>2 DEF JobInv, CompletedAreVerified, Core, TypeOK, Plan
  <1> QED BY <1>2, <1>3 DEF WholeTrayStands, CompletedBooksStand

\* The promise of the whole system to whoever brings a tray: when its job ends,
\* its books are on the shelf (_handle_home_arrival, over everything before it).
THEOREM FinishedTraysDoStand == SystemSpec => FinishedTraysStand
  <1>1. Core /\ JobInv /\ CompletedBooksStand /\ [Next]_vars
          => [TrayFinished => WholeTrayStands]_systemVars
    BY FinishStep
  <1>2. [SystemNext]_systemVars => [Next]_vars
    BY TaskManagerSteps
  <1> QED BY <1>1, <1>2, SystemRunsTaskManager, CoreInvariant, JobInvariant,
             CompletedBooksDoStand, PTL DEF SystemSpec, FinishedTraysStand
===============================================================================
