---------------------------- MODULE TrayService_proofs ----------------------------
(***************************************************************************)
(* The task manager keeps the promise of TrayService, for every set of     *)
(* trays and any number of restarts, and asks for no placement twice.      *)
(* What the node remembers of a job (plan, index, completed books, slot)   *)
(* moves together; Core says for which task an answer comes, and each      *)
(* callback then does one of the things below to the job.                  *)
(***************************************************************************)
EXTENDS TaskManager_proofs

\* The FSM is brought to `last`, or fails on the way.
Fails == state' = "FAILED" /\ errorCode' \in Nat \ {0}
Arrives(last) == (state' = last /\ UNCHANGED errorCode) \/ Fails

\* What a step does to the job.
Took(m) == /\ m \in Plannable /\ JobIdOf[m] \notin accepted /\ state = "IDLE"
           /\ activeJob' = JobIdOf[m]
           /\ plan' = [job |-> JobIdOf[m], tasks |-> TasksOf[m]]
           /\ taskIndex' = 0 /\ completed' = <<>> /\ slot' = None
           /\ accepted' = accepted \cup {JobIdOf[m]}
           /\ Arrives("NAV_TO_RETURN")
Refused == /\ state = "IDLE" /\ Fails
           /\ UNCHANGED <<plan, taskIndex, completed, slot, accepted>>
Idled == UNCHANGED <<state, errorCode, activeJob, plan, taskIndex, completed, slot,
                     navTarget, accepted>>
Stopped == /\ state \notin {"IDLE", "FAILED"} /\ Fails
           /\ UNCHANGED <<activeJob, plan, taskIndex, completed, slot, accepted>>
ReachedTray == /\ state = "NAV_TO_RETURN" /\ taskIndex' = 0
               /\ UNCHANGED <<activeJob, plan, completed, slot, accepted>>
               /\ Arrives("NAV_TO_SHELF")
ReachedShelf == /\ state = "NAV_TO_SHELF"
                /\ UNCHANGED <<activeJob, plan, taskIndex, completed, slot, accepted>>
                /\ Arrives("DETECT_TARGET_SLOT")
Detected == /\ state = "DETECT_TARGET_SLOT"
            /\ plan # None /\ taskIndex < Len(plan.tasks) /\ slot' = CurrentTask
            /\ UNCHANGED <<activeJob, plan, taskIndex, completed, accepted>>
            /\ Arrives("PLACE_BOOK")
PlacedBook == /\ state = "PLACE_BOOK"
              /\ plan # None /\ taskIndex < Len(plan.tasks)
              /\ RecordBook(CurrentTask.book)
              /\ <<activeJob, CurrentTask.book>> \in verified'
              /\ UNCHANGED <<activeJob, plan, accepted>>
              /\ \/ taskIndex + 1 < Len(plan.tasks) /\ Arrives("NAV_TO_SHELF")
                 \/ taskIndex + 1 = Len(plan.tasks) /\ Arrives("RETURN_HOME")
CameHome == /\ state = "RETURN_HOME" /\ state' = "IDLE" /\ UNCHANGED errorCode
            /\ plan # None /\ ForgetJob /\ UNCHANGED accepted

Effect == \/ \E m \in Message : Took(m)
          \/ Refused \/ Idled \/ Stopped \/ ReachedTray \/ ReachedShelf \/ Detected
          \/ PlacedBook \/ CameHome \/ Restart
-------------------------------------------------------------------------------
LEMMA FailEffect ==
  ASSUME NEW path, NEW code \in Nat \ {0}, FailAfter(path, code)
  PROVE  Fails
  BY DEF FailAfter, Fails

LEMMA SendGoalArrives ==
  ASSUME NEW path, NEW goal, NEW open, goal.kind \in GoalKind, SendGoal(path, goal, open)
  PROVE  Arrives(path[Len(path)])
  <1>1. ErrorServer(ServerOf(goal.kind)) \in Nat \ {0}
    BY ServerType, CodeType
  <1> QED BY <1>1, FailEffect DEF SendGoal, Walk, Arrives

LEMMA SendNavigationArrives ==
  ASSUME NEW path, NEW type \in NavTarget, NEW job, NEW shelf, NEW open,
         SendNavigationGoal(path, type, job, shelf, open)
  PROVE  Arrives(path[Len(path)])
  BY SendGoalArrives DEF SendNavigationGoal, NavGoal, GoalKind

LEMMA StartBookArrives ==
  ASSUME NEW path \in Paths, NEW index, NEW open, StartCurrentBookTask(path, index, open)
  PROVE  Arrives("NAV_TO_SHELF")
  <1>1. CASE plan = None \/ index >= Len(plan.tasks)
    BY <1>1, CodeType, FailEffect DEF StartCurrentBookTask, Arrives
  <1>2. CASE ~(plan = None \/ index >= Len(plan.tasks))
    <2> DEFINE full == path \o <<"SELECT_BOOK", "NAV_TO_SHELF">>
    <2>1. SendNavigationGoal(full, "shelf", activeJob, plan.tasks[index + 1].shelf, open)
      BY <1>2 DEF StartCurrentBookTask
    <2>2. Arrives(full[Len(full)])
      BY <2>1, SendNavigationArrives DEF NavTarget
    <2> QED BY <2>2, PathEnd
  <1> QED BY <1>1, <1>2

\* A goal is answered with a code of a server, or one it reports.
LEMMA AnswerCode ==
  ASSUME Core, NEW g \in goals
  PROVE  /\ ErrorRejected(ServerOf(g.kind)) \in Nat \ {0}
         /\ ErrorFailed(ServerOf(g.kind)) \in Nat \ {0}
         /\ ErrorResult(ServerOf(g.kind)) \in Nat \ {0}
         /\ ReportedCode \subseteq Nat \ {0}
  BY GoalInFlight, ServerType, CodeType, TaskManagerAssumption
     DEF Goal, TaskManagerAssumption

LEMMA TrayEffect ==
  ASSUME Core, NEW m \in Message, HandleTrayJob(m)
  PROVE  Effect
  <1>1. CASE RejectUnplannableJob(m)
    BY <1>1, CodeType, FailEffect DEF RejectUnplannableJob, Takes, Refused, Effect
  <1>2. CASE StartJob(m)
    <2>1. Arrives("NAV_TO_RETURN")
      BY <1>2, SendNavigationArrives, PathEnd DEF StartJob, NavTarget
    <2> QED BY <1>2, <2>1 DEF StartJob, Takes, Took, Effect
  <1> QED BY <1>1, <1>2 DEF HandleTrayJob

LEMMA FailedAnswerEffect ==
  ASSUME Core, NEW g \in goals,
         \/ GoalNotAccepted(g) \/ ResultFailed(g) \/ SlotUncertain(g) \/ WrongState(g)
  PROVE  Stopped
  <1>1. state \notin {"IDLE", "FAILED"}
    BY GoalInFlight
  <1>2. Fails
    BY AnswerCode, CodeType, FailEffect
       DEF GoalNotAccepted, ResultFailed, SlotUncertain, WrongState
  <1> QED BY <1>1, <1>2
          DEF GoalNotAccepted, ResultFailed, SlotUncertain, WrongState, jobVars, Stopped

LEMMA NavigationEffect ==
  ASSUME Core, NEW g \in goals, NavigationSucceeded(g)
  PROVE  Effect
  <1>1. CASE WrongState(g)
    BY <1>1, FailedAnswerEffect DEF Effect
  <1>2. CASE ReturnStationArrival(g) /\ state = "NAV_TO_RETURN"
    BY <1>2, StartBookArrives, PathType DEF ReturnStationArrival, ReachedTray, Effect
  <1>3. CASE ShelfArrival(g) /\ state = "NAV_TO_SHELF"
    <2> DEFINE path == <<"DETECT_TARGET_SLOT">>
    <2>1. Arrives(path[Len(path)])
      <3>1. CASE FailAfter(path, ErrorResult("perception"))
        BY <3>1, CodeType, FailEffect DEF Arrives, Server
      <3>2. CASE SendDetectTargetSlotGoal(path, goals \ {g})
        BY <3>2, SendGoalArrives
           DEF SendDetectTargetSlotGoal, DetectGoal, GoalKind, RaiseAfter, Arrives
      <3> QED BY <1>3, <3>1, <3>2 DEF ShelfArrival
    <2> QED BY <1>3, <2>1, PathEnd DEF ShelfArrival, jobVars, ReachedShelf, Effect
  <1>4. CASE HomeArrival(g) /\ state = "RETURN_HOME"
    BY <1>4, PathEnd, GoalInFlight DEF HomeArrival, Walk, CameHome, Effect
  <1> QED BY <1>1, <1>2, <1>3, <1>4
          DEF NavigationSucceeded, ReturnStationArrival, ShelfArrival, HomeArrival

LEMMA DetectionEffect ==
  ASSUME Core, NEW g \in goals, SlotDetected(g)
  PROVE  IF state = "DETECT_TARGET_SLOT" THEN Detected ELSE Stopped
  <1>1. CASE state # "DETECT_TARGET_SLOT"
    BY <1>1, FailedAnswerEffect DEF SlotDetected
  <1>2. CASE state = "DETECT_TARGET_SLOT"
    <2> DEFINE path == <<"PLACE_BOOK">>
               target == [book |-> g.book, shelf |-> g.shelf]
    <2>1. /\ plan # None /\ Awaited(g) /\ g.kind = "detect"
          /\ plan.tasks \in Seq(Task)
      BY GoalInFlight DEF SlotDetected
    <2>2. taskIndex < Len(plan.tasks) /\ taskIndex \in Nat
      BY <2>1 DEF Awaited, Core, TypeOK
    <2>3. CurrentTask \in Task
      BY <2>1, <2>2, TaskType DEF Core, CurrentTask
    <2>4. target = CurrentTask
      BY <2>1, <2>3 DEF Awaited, Task
    <2>5. SendPlaceBookGoal(path, target, goals \ {g})
      BY <1>2, <2>1, <2>2 DEF SlotDetected
    <2>6. Arrives(path[Len(path)])
      BY <2>5, SendGoalArrives DEF SendPlaceBookGoal, PlaceGoal, GoalKind, RaiseAfter, Arrives
    <2> QED BY <1>2, <2>1, <2>2, <2>4, <2>6, PathEnd DEF SlotDetected, Detected
  <1> QED BY <1>1, <1>2

LEMMA PlacementEffect ==
  ASSUME Core, NEW g \in goals, NEW success \in BOOLEAN, NEW placementVerified \in BOOLEAN,
         ManipulationResult(g, success, placementVerified)
  PROVE  Effect
  <1>1. /\ g.kind = "place" /\ Awaited(g) /\ plan # None /\ plan.job = activeJob
        /\ plan.tasks \in Seq(Task) /\ state \notin {"IDLE", "FAILED"}
    BY GoalInFlight DEF ManipulationResult
  <1>2. /\ state = "PLACE_BOOK" /\ taskIndex < Len(plan.tasks) /\ taskIndex \in Nat
        /\ g.job = activeJob /\ g.book = CurrentTask.book
    BY <1>1 DEF Awaited, AwaitedKind, Core, TypeOK
  <1>3. CASE ~Placed(success, placementVerified)
    <2>1. Fails
      BY <1>3, CodeType, AnswerCode, FailEffect DEF ManipulationResult, Server
    <2> QED BY <1>1, <1>3, <2>1 DEF ManipulationResult, jobVars, Stopped, Effect
  <1>4. CASE Placed(success, placementVerified)
    <2>1. UpdateDataAndContinue(g) /\ placementVerified
      BY <1>2, <1>4 DEF ManipulationResult, Placed
    <2>2. <<activeJob, CurrentTask.book>> \in verified'
      BY <1>2, <2>1 DEF ManipulationResult
    <2>3. CASE taskIndex + 1 < Len(plan.tasks)
      <3>1. Arrives("NAV_TO_SHELF")
        BY <2>1, <2>3, StartBookArrives, PathType DEF UpdateDataAndContinue
      <3> QED BY <1>1, <1>2, <2>1, <2>2, <2>3, <3>1
              DEF UpdateDataAndContinue, CurrentTask, PlacedBook, Effect
    <2>4. CASE ~(taskIndex + 1 < Len(plan.tasks))
      <3>1. Arrives("RETURN_HOME")
        BY <2>1, <2>4, SendNavigationArrives, PathEnd DEF UpdateDataAndContinue, NavTarget
      <3>2. taskIndex + 1 = Len(plan.tasks)
        BY <1>1, <1>2, <2>4
      <3> QED BY <1>1, <1>2, <2>1, <2>2, <3>1, <3>2
              DEF UpdateDataAndContinue, CurrentTask, PlacedBook, Effect
    <2> QED BY <2>3, <2>4
  <1> QED BY <1>3, <1>4

\* Every step of the node and of its environment does one of these things.
LEMMA StepEffect ==
  ASSUME Core, [Next]_vars
  PROVE  Effect /\ verified \subseteq verified'
  <1>1. ASSUME NEW m \in Message, HandleTrayJob(m)
        PROVE  Effect /\ verified \subseteq verified'
    BY <1>1, TrayEffect DEF HandleTrayJob, RejectUnplannableJob, StartJob
  <1>2. ASSUME NEW g \in goals, GoalAccepted(g)
        PROVE  Effect /\ verified \subseteq verified'
    BY <1>2 DEF GoalAccepted, Silent, jobVars, Idled, Effect
  <1>3. ASSUME NEW g \in goals, GoalNotAccepted(g) \/ ResultFailed(g) \/ SlotUncertain(g)
        PROVE  Effect /\ verified \subseteq verified'
    BY <1>3, FailedAnswerEffect DEF GoalNotAccepted, ResultFailed, SlotUncertain, Effect
  <1>4. ASSUME NEW g \in goals, NavigationSucceeded(g)
        PROVE  Effect /\ verified \subseteq verified'
    BY <1>4, NavigationEffect
       DEF NavigationSucceeded, ReturnStationArrival, ShelfArrival, HomeArrival, WrongState
  <1>5. ASSUME NEW g \in goals, SlotDetected(g)
        PROVE  Effect /\ verified \subseteq verified'
    BY <1>5, DetectionEffect DEF SlotDetected, WrongState, Effect
  <1>6. ASSUME NEW g \in goals, NEW success \in BOOLEAN, NEW placementVerified \in BOOLEAN,
               ManipulationResult(g, success, placementVerified)
        PROVE  Effect /\ verified \subseteq verified'
    BY <1>6, PlacementEffect DEF ManipulationResult
  <1>7. ASSUME PublishStatus \/ (\E s \in Server : ServerUp(s) \/ ServerDown(s))
               \/ UNCHANGED vars
        PROVE  Effect /\ verified \subseteq verified'
    BY <1>7 DEF PublishStatus, ServerUp, ServerDown, Silent, jobVars, vars, Idled, Effect
  <1>8. CASE Restart
    BY <1>8 DEF Restart, Effect
  <1> QED BY <1>1, <1>2, <1>3, <1>4, <1>5, <1>6, <1>7, <1>8
          DEF Next, GoalResponse, HandleResult
-------------------------------------------------------------------------------
(* The books of a tray are told apart, the first drive is for the first     *)
(* book and the last one comes after the last book.                         *)
PlanAgrees ==
  /\ plan # None => /\ plan.job = activeJob /\ plan.tasks \in Seq(Task)
                    /\ \A i, k \in DOMAIN plan.tasks :
                         plan.tasks[i].book = plan.tasks[k].book => i = k
  /\ state = "NAV_TO_RETURN" => taskIndex = 0
  /\ state = "RETURN_HOME" /\ plan # None => taskIndex = Len(plan.tasks)

JobInv == PlanAgrees /\ MemoryIsFresh /\ CompletedAreVerified

LEMMA InitJob == Init => JobInv
  BY DEF Init, InitNode, JobInv, PlanAgrees, MemoryIsFresh, CompletedAreVerified

LEMMA NotFailed ==
  ASSUME NEW last, last # "FAILED", Arrives(last), errorCode = 0
  PROVE  errorCode' # 0 <=> state' = "FAILED"
  BY DEF Arrives, Fails

\* A new tray: everything starts from nothing.
LEMMA TookJob ==
  ASSUME Core, JobInv, NEW m \in Message, Took(m)
  PROVE  JobInv'
  <1>1. /\ TasksOf[m] \in Seq(Task) /\ JobIdOf[m] \in Job
        /\ \A i, k \in DOMAIN TasksOf[m] : TasksOf[m][i].book = TasksOf[m][k].book => i = k
    BY TaskManagerAssumption DEF TaskManagerAssumption, Took
  <1>2. PlanAgrees'
    BY <1>1 DEF Took, PlanAgrees, Arrives, Fails
  <1>3. MemoryIsFresh'
    <2>1. errorCode = 0
      BY DEF JobInv, MemoryIsFresh, Took
    <2> QED BY <2>1, NotFailed DEF Took, MemoryIsFresh, Arrives, Fails
  <1>4. CompletedAreVerified'
    BY DEF Took, CompletedAreVerified
  <1> QED BY <1>2, <1>3, <1>4 DEF JobInv

\* A step that fails, or goes on without touching what has been placed.
LEMMA StoppedJob ==
  ASSUME Core, JobInv, Stopped \/ Refused \/ Idled, verified \subseteq verified'
  PROVE  JobInv'
  <1>1. PlanAgrees'
    BY DEF JobInv, PlanAgrees, MemoryIsFresh, Stopped, Refused, Idled, Fails
  <1>2. MemoryIsFresh'
    BY DEF JobInv, MemoryIsFresh, Stopped, Refused, Idled, Fails, CurrentTask
  <1>3. CompletedAreVerified'
    BY DEF JobInv, MemoryIsFresh, CompletedAreVerified, Stopped, Refused, Idled
  <1> QED BY <1>1, <1>2, <1>3 DEF JobInv

LEMMA ReachedJob ==
  ASSUME Core, JobInv, ReachedTray \/ ReachedShelf \/ Detected, verified \subseteq verified'
  PROVE  JobInv'
  <1>1. taskIndex' = taskIndex /\ UNCHANGED <<activeJob, plan, completed>>
    BY DEF JobInv, PlanAgrees, ReachedTray, ReachedShelf, Detected
  <1>2. PlanAgrees'
    BY <1>1 DEF JobInv, PlanAgrees, ReachedTray, ReachedShelf, Detected, Arrives, Fails
  <1>3. MemoryIsFresh'
    <2>1. errorCode = 0 /\ state' # "IDLE"
      BY DEF JobInv, MemoryIsFresh, ReachedTray, ReachedShelf, Detected, Arrives, Fails
    <2>2. slot' = None \/ /\ state' \in {"PLACE_BOOK", "FAILED"}
                          /\ plan # None /\ taskIndex < Len(plan.tasks) /\ slot' = CurrentTask
      BY DEF JobInv, MemoryIsFresh, ReachedTray, ReachedShelf, Detected, Arrives, Fails
    <2>3. errorCode' # 0 <=> state' = "FAILED"
      BY <2>1, NotFailed DEF ReachedTray, ReachedShelf, Detected
    <2> QED BY <1>1, <2>1, <2>2, <2>3 DEF MemoryIsFresh, CurrentTask
  <1>4. CompletedAreVerified'
    BY <1>1 DEF JobInv, CompletedAreVerified
  <1> QED BY <1>2, <1>3, <1>4 DEF JobInv

\* The book of the current task is not among those before it.
LEMMA BookIsNew ==
  ASSUME Core, JobInv, plan # None, taskIndex < Len(plan.tasks)
  PROVE  /\ taskIndex \in Nat /\ Len(completed) = taskIndex /\ completed \in Seq(Book)
         /\ CurrentTask.book \in Book
         /\ \A i \in DOMAIN completed : completed[i] # CurrentTask.book
  <1>1. /\ taskIndex \in Nat /\ Len(completed) = taskIndex /\ completed \in Seq(Book)
        /\ plan.tasks \in Seq(Task)
    BY DEF Core, TypeOK, JobInv, CompletedAreVerified, PlanAgrees
  <1>2. CurrentTask.book \in Book
    BY <1>1, TaskType DEF Core, CurrentTask
  <1>3. ASSUME NEW i \in DOMAIN completed, completed[i] = CurrentTask.book PROVE FALSE
    <2>1. i \in 1 .. taskIndex /\ completed[i] = plan.tasks[i].book
      BY <1>1 DEF JobInv, CompletedAreVerified
    <2>2. i \in DOMAIN plan.tasks /\ taskIndex + 1 \in DOMAIN plan.tasks
      BY <1>1, <2>1
    <2>3. plan.tasks[i].book = plan.tasks[taskIndex + 1].book
      BY <1>3, <2>1 DEF CurrentTask
    <2>4. i = taskIndex + 1
      BY <2>2, <2>3 DEF JobInv, PlanAgrees
    <2> QED BY <1>1, <2>1, <2>4
  <1> QED BY <1>1, <1>2, <1>3

LEMMA PlacedJob ==
  ASSUME Core, JobInv, PlacedBook, verified \subseteq verified'
  PROVE  JobInv'
  <1>1. /\ plan # None /\ taskIndex < Len(plan.tasks) /\ state = "PLACE_BOOK"
        /\ UNCHANGED <<activeJob, plan>>
    BY DEF PlacedBook
  <1>2. /\ taskIndex \in Nat /\ Len(completed) = taskIndex /\ completed \in Seq(Book)
        /\ CurrentTask.book \in Book
        /\ \A i \in DOMAIN completed : completed[i] # CurrentTask.book
    BY <1>1, BookIsNew
  <1>3. completed' = Append(completed, CurrentTask.book) /\ taskIndex' = taskIndex + 1
        /\ slot' = None
    BY <1>2 DEF PlacedBook, RecordBook
  <1>4. PlanAgrees'
    BY <1>1, <1>3 DEF JobInv, PlanAgrees, PlacedBook, Arrives, Fails
  <1>5. MemoryIsFresh'
    <2>1. errorCode = 0
      BY <1>1 DEF JobInv, MemoryIsFresh
    <2> QED BY <1>3, <2>1, NotFailed DEF PlacedBook, MemoryIsFresh, Arrives, Fails
  <1>6. CompletedAreVerified'
    <2>1. Len(completed') = taskIndex' /\ DOMAIN completed' = 1 .. taskIndex + 1
      BY <1>2, <1>3
    <2>2. ASSUME NEW i \in DOMAIN completed'
          PROVE  /\ <<activeJob', completed'[i]>> \in verified'
                 /\ i <= Len(plan'.tasks) /\ completed'[i] = plan'.tasks[i].book
      <3>1. CASE i = taskIndex + 1
        <4>1. completed'[i] = CurrentTask.book
          BY <1>2, <1>3, <3>1
        <4>2. plan.tasks \in Seq(Task)
          BY <1>1 DEF JobInv, PlanAgrees
        <4>3. i <= Len(plan.tasks)
          BY <1>1, <1>2, <3>1, <4>2
        <4> QED BY <1>1, <3>1, <4>1, <4>3 DEF CurrentTask, PlacedBook
      <3>2. CASE i # taskIndex + 1
        <4>1. i \in DOMAIN completed /\ completed'[i] = completed[i]
          BY <1>2, <1>3, <2>1, <3>2
        <4> QED BY <1>1, <4>1 DEF JobInv, CompletedAreVerified
      <3> QED BY <3>1, <3>2
    <2> QED BY <2>1, <2>2 DEF CompletedAreVerified
  <1> QED BY <1>4, <1>5, <1>6 DEF JobInv

LEMMA ForgottenJob ==
  ASSUME Core, JobInv, CameHome \/ Restart
  PROVE  JobInv'
  <1>1. CASE CameHome
    <2>1. errorCode = 0
      BY <1>1 DEF JobInv, MemoryIsFresh, CameHome
    <2> QED BY <1>1, <2>1
            DEF CameHome, ForgetJob, JobInv, PlanAgrees, MemoryIsFresh, CompletedAreVerified
  <1>2. CASE Restart
    BY <1>2 DEF Restart, JobInv, PlanAgrees, MemoryIsFresh, CompletedAreVerified
  <1> QED BY <1>1, <1>2

LEMMA NextJob == Core /\ JobInv /\ [Next]_vars => JobInv'
  BY StepEffect, TookJob, StoppedJob, ReachedJob, PlacedJob, ForgottenJob DEF Effect

\* Plan, index, slot, completed books and FSM agree in every state.
THEOREM JobInvariant == Spec => [](Core /\ JobInv)
  BY InitCore, NextCore, InitJob, NextJob, PTL DEF Spec

\* The list of completed books is what was reported placed and verified, the
\* first books of the tray, in order (_update_data_and_continue).
THEOREM CompletedBooksVerified == Spec => []CompletedAreVerified
  <1>1. JobInv => CompletedAreVerified
    BY DEF JobInv
  <1> QED BY <1>1, JobInvariant, PTL

\* No detected slot and nothing of a job outlives its use
\* (_update_data_and_continue, _handle_home_arrival).
THEOREM MemoryStaysFresh == Spec => []MemoryIsFresh
  <1>1. JobInv => MemoryIsFresh
    BY DEF JobInv
  <1> QED BY <1>1, JobInvariant, PTL
-------------------------------------------------------------------------------
(* The refinement: one lemma for each step of TrayService. *)

LEMMA TrayBooks ==
  ASSUME NEW p \in Plan
  PROVE  /\ TrayOf(p.job, p.tasks).books = BooksOf(p.tasks)
         /\ BooksOf(p.tasks) \in Seq(Book) /\ Len(BooksOf(p.tasks)) = Len(p.tasks)
         /\ \A i \in DOMAIN p.tasks : BooksOf(p.tasks)[i] = p.tasks[i].book
         /\ TrayOf(p.job, p.tasks) # None
  <1>1. p.job \in Job /\ p.tasks \in Seq(Task)
    BY DEF Plan
  <1>2. BooksOf(p.tasks) \in Seq(Book) /\ Len(BooksOf(p.tasks)) = Len(p.tasks)
    <2>1. PICK tasks \in Seq(Task) : tasks = p.tasks
      BY <1>1
    <2>2. /\ DOMAIN tasks = 1 .. Len(tasks) /\ Len(tasks) \in Nat
          /\ \A i \in 1 .. Len(tasks) : tasks[i].book \in Book
      <3>1. \A i \in 1 .. Len(tasks) : tasks[i] \in Task
        OBVIOUS
      <3>2. \A t \in Task : t.book \in Book
        BY DEF Task
      <3> QED BY <3>1, <3>2
    <2>3. BooksOf(tasks) \in [1 .. Len(tasks) -> Book]
      BY <2>2 DEF BooksOf
    <2>4. BooksOf(tasks) \in Seq(Book) /\ Len(BooksOf(tasks)) = Len(tasks)
      BY <2>2, <2>3
    <2> QED BY <2>1, <2>4
  <1>3. TrayOf(p.job, p.tasks) \in [job : Job, books : Seq(Book)]
    BY <1>1, <1>2 DEF TrayOf
  <1> QED BY <1>2, <1>3, TaskManagerAssumption DEF TrayOf, BooksOf, TaskManagerAssumption

LEMMA TakesTray ==
  ASSUME Core, Core', JobInv, NEW m \in Message, Took(m)
  PROVE  Service!Take(TrayOf(JobIdOf[m], TasksOf[m]))
  <1>1. plan = None /\ state = "IDLE"
    BY DEF Took, JobInv, MemoryIsFresh
  <1>2. plan' # None
    BY TaskManagerAssumption DEF TaskManagerAssumption, Took, Plan
  <1>3. TrayOf(JobIdOf[m], TasksOf[m]).job = JobIdOf[m]
    BY DEF TrayOf
  <1> QED BY <1>1, <1>2, <1>3 DEF Took, Service!Take, Service!MayFail

LEMMA FailsOrGoesOn ==
  ASSUME JobInv, \/ Stopped \/ Refused \/ Idled \/ ReachedTray \/ ReachedShelf \/ Detected
  PROVE  Service!Fail \/ UNCHANGED Service!vars
  BY DEF Stopped, Refused, Idled, ReachedTray, ReachedShelf, Detected, Arrives, Fails,
         Service!Fail, Service!vars

LEMMA ShelvesBook ==
  ASSUME Core, JobInv, PlacedBook
  PROVE  Service!Shelve
  <1>1. plan \in Plan /\ taskIndex < Len(plan.tasks) /\ plan # None /\ state = "PLACE_BOOK"
    BY DEF PlacedBook, Core, TypeOK
  <1>2. /\ taskIndex \in Nat /\ Len(completed) = taskIndex /\ completed \in Seq(Book)
        /\ \A i \in DOMAIN completed : completed[i] # CurrentTask.book
    BY <1>1, BookIsNew
  <1>3. completed' = Append(completed, CurrentTask.book)
    BY <1>2 DEF PlacedBook, RecordBook
  <1>4. taskIndex + 1 \in DOMAIN plan.tasks
    BY <1>1, <1>2 DEF Plan
  <1>5. completed' = Append(completed, BooksOf(plan.tasks)[Len(completed) + 1])
    BY <1>1, <1>2, <1>3, <1>4, TrayBooks DEF CurrentTask
  <1> QED BY <1>1, <1>2, <1>5, TrayBooks DEF PlacedBook, Service!Shelve, Service!MayFail

LEMMA FinishesTray ==
  ASSUME Core, JobInv, CameHome
  PROVE  Service!Finish
  <1>1. plan \in Plan /\ plan # None /\ taskIndex = Len(plan.tasks)
    BY DEF CameHome, JobInv, PlanAgrees, Core, TypeOK
  <1>2. /\ completed \in Seq(Book) /\ Len(completed) = Len(plan.tasks)
        /\ \A i \in DOMAIN completed : completed[i] = plan.tasks[i].book
    BY <1>1 DEF JobInv, CompletedAreVerified, Core, TypeOK
  <1>3. BooksOf(plan.tasks) \in Seq(Book) /\ Len(BooksOf(plan.tasks)) = Len(plan.tasks)
    BY <1>1, TrayBooks
  <1>4. plan.tasks \in Seq(Task)
    BY <1>1 DEF Plan
  <1>5. \A i \in 1 .. Len(completed) : completed[i] = BooksOf(plan.tasks)[i]
    BY <1>1, <1>2, <1>4, TrayBooks
  <1>6. completed = BooksOf(plan.tasks)
    BY <1>2, <1>3, <1>5
  <1> QED BY <1>1, <1>6, TrayBooks DEF CameHome, ForgetJob, Service!Finish

LEMMA StepOfTrayService ==
  ASSUME Core, Core', JobInv, [Next]_vars
  PROVE  [Service!Next]_(Service!vars)
  <1>1. Effect
    BY StepEffect
  <1>2. ASSUME NEW m \in Message, Took(m) PROVE Service!Next
    BY <1>2, TakesTray DEF Took, Service!Next
  <1>3. CASE Restart
    BY <1>3 DEF Restart, Service!Next, Service!Start
  <1> QED BY <1>1, <1>2, <1>3, FailsOrGoesOn, ShelvesBook, FinishesTray
          DEF Effect, Service!Next

\* Whoever feeds the task manager trays may count on TrayService: one tray at a
\* time and each at most once, its books in order and none skipped, finished
\* only when all of them are on the shelf (task_manager_node.py).
THEOREM TaskManagerIsATrayService == Spec => ImplementsTrayService
  <1>1. Init => Service!Init
    BY DEF Init, InitNode, Service!Init
  <1> QED BY <1>1, StepOfTrayService, JobInvariant, PTL
          DEF Spec, ImplementsTrayService, Service!Spec
-------------------------------------------------------------------------------
(* What has been asked for: of the jobs that were accepted, and of the tray in *)
(* hand the books up to the current one, which is asked for in PLACE_BOOK.     *)
AskedFor == 1 .. (IF state = "PLACE_BOOK" THEN taskIndex + 1 ELSE taskIndex)
RequestsAgree ==
  /\ \A i \in DOMAIN requested : requested[i][1] \in accepted
  /\ plan # None /\ state # "FAILED" =>
       \A i \in DOMAIN requested : requested[i][1] = plan.job =>
         \E k \in AskedFor : requested[i][2] = plan.tasks[k].book
  /\ plan # None => plan.job \in accepted

\* Only a detected slot makes the node ask for a placement.
LEMMA RequestStep ==
  ASSUME Core, [Next]_vars, ~Restart, requested' # requested
  PROVE  Detected /\ requested' = Append(requested, <<plan.job, CurrentTask.book>>)
  <1>1. PICK g \in goals : SlotDetected(g)
    BY DEF Next, vars, HandleTrayJob, RejectUnplannableJob, StartJob, GoalResponse, GoalAccepted,
           GoalNotAccepted, HandleResult, ResultFailed, NavigationSucceeded, ReturnStationArrival,
           ShelfArrival, HomeArrival, WrongState, SlotUncertain, ManipulationResult,
           UpdateDataAndContinue, PublishStatus, ServerUp, ServerDown
  <1>2. state = "DETECT_TARGET_SLOT"
    BY <1>1 DEF SlotDetected, WrongState
  <1>3. requested' = Append(requested, <<plan.job, CurrentTask.book>>)
    BY <1>1, <1>2 DEF SlotDetected, SendPlaceBookGoal, CurrentTask
  <1> QED BY <1>1, <1>2, <1>3, DetectionEffect

\* Nothing is asked for: the requests stay those of the books so far.
LEMMA NothingRequested ==
  ASSUME Core, JobInv, RequestsAgree, Effect, ~Restart, requested' = requested
  PROVE  RequestsAgree'
  <1>1. CASE Idled
    BY <1>1 DEF Idled, RequestsAgree, AskedFor
  <1>2. CASE Stopped \/ Refused
    BY <1>2 DEF Stopped, Refused, Fails, RequestsAgree
  <1>3. ASSUME NEW m \in Message, Took(m) PROVE RequestsAgree'
    BY <1>3 DEF Took, RequestsAgree
  <1>4. CASE CameHome
    BY <1>4 DEF CameHome, ForgetJob, RequestsAgree
  <1>5. CASE ReachedTray \/ ReachedShelf \/ Detected
    <2>1. taskIndex' = taskIndex /\ UNCHANGED <<plan, accepted>> /\ taskIndex \in Nat
      BY <1>5 DEF JobInv, PlanAgrees, ReachedTray, ReachedShelf, Detected, Core, TypeOK
    <2>2. state \notin {"PLACE_BOOK", "FAILED"}
      BY <1>5 DEF ReachedTray, ReachedShelf, Detected
    <2>3. AskedFor \subseteq AskedFor'
      BY <2>1, <2>2 DEF AskedFor
    <2> QED BY <2>1, <2>2, <2>3 DEF RequestsAgree
  <1>6. CASE PlacedBook
    <2>1. taskIndex' = taskIndex + 1 /\ UNCHANGED <<plan, accepted>> /\ state = "PLACE_BOOK"
          /\ taskIndex \in Nat
      BY <1>6 DEF PlacedBook, RecordBook, Core, TypeOK
    <2>2. AskedFor \subseteq AskedFor'
      BY <2>1 DEF AskedFor
    <2> QED BY <2>1, <2>2 DEF RequestsAgree
  <1> QED BY <1>1, <1>2, <1>3, <1>4, <1>5, <1>6 DEF Effect

\* A book is asked for: it is the current one, which was not asked for before.
LEMMA BookRequested ==
  ASSUME Core, JobInv, RequestsAgree, NeverPlacedTwice,
         Detected, requested' = Append(requested, <<plan.job, CurrentTask.book>>)
  PROVE  RequestsAgree' /\ NeverPlacedTwice'
  <1>1. /\ plan # None /\ taskIndex < Len(plan.tasks) /\ state = "DETECT_TARGET_SLOT"
        /\ UNCHANGED <<plan, taskIndex, accepted>> /\ state' \in {"PLACE_BOOK", "FAILED"}
    BY DEF Detected, Arrives, Fails
  <1>2. taskIndex \in Nat /\ requested \in Seq(Job \X Book) /\ plan.tasks \in Seq(Task)
    BY <1>1 DEF Core, TypeOK, JobInv, PlanAgrees
  <1> DEFINE pair == <<plan.job, CurrentTask.book>>
             n == Len(requested) + 1
  <1>3. /\ DOMAIN requested' = 1 .. n /\ DOMAIN requested = 1 .. Len(requested)
        /\ requested'[n] = pair /\ Len(requested) \in Nat
        /\ \A i \in 1 .. n : i = n \/ (i \in DOMAIN requested /\ requested'[i] = requested[i])
    BY <1>2
  <1>4. ASSUME NEW i \in DOMAIN requested PROVE requested[i] # pair
    <2>1. SUFFICES ASSUME requested[i] = pair PROVE FALSE
      OBVIOUS
    <2>2. requested[i][1] = plan.job /\ requested[i][2] = CurrentTask.book
      BY <2>1
    <2>3. PICK k \in 1 .. taskIndex : requested[i][2] = plan.tasks[k].book
      BY <1>1, <2>2 DEF RequestsAgree, AskedFor
    <2>4. k \in DOMAIN plan.tasks /\ taskIndex + 1 \in DOMAIN plan.tasks
      BY <1>1, <1>2
    <2>5. plan.tasks[k].book = plan.tasks[taskIndex + 1].book
      BY <2>2, <2>3 DEF CurrentTask
    <2>6. k = taskIndex + 1
      BY <1>1, <2>4, <2>5 DEF JobInv, PlanAgrees
    <2> QED BY <1>2, <2>6
  <1>5. NeverPlacedTwice'
    BY <1>3, <1>4 DEF NeverPlacedTwice
  <1>6. RequestsAgree'
    <2>1. taskIndex + 1 \in AskedFor' \/ state' = "FAILED"
      BY <1>1, <1>2 DEF AskedFor
    <2>2. AskedFor \subseteq AskedFor' \/ state' = "FAILED"
      BY <1>1, <1>2 DEF AskedFor
    <2>3. ASSUME NEW i \in 1 .. n PROVE requested'[i][1] \in accepted'
      BY <1>1, <1>3 DEF RequestsAgree
    <2>4. ASSUME NEW i \in 1 .. n, requested'[i][1] = plan.job, state' # "FAILED"
          PROVE  \E k \in AskedFor' : requested'[i][2] = plan.tasks[k].book
      <3>1. CASE i = n
        BY <1>3, <2>1, <2>4, <3>1 DEF CurrentTask
      <3>2. CASE i # n
        BY <1>1, <1>3, <2>2, <2>4, <3>2 DEF RequestsAgree
      <3> QED BY <3>1, <3>2
    <2> QED BY <1>1, <1>3, <2>3, <2>4 DEF RequestsAgree
  <1> QED BY <1>5, <1>6

LEMMA RequestsStep ==
  ASSUME Core, JobInv, RequestsAgree, NeverPlacedTwice, [Next]_vars
  PROVE  RequestsAgree' /\ NeverPlacedTwice'
  <1>1. CASE Restart
    BY <1>1 DEF Restart, RequestsAgree, NeverPlacedTwice
  <1>2. CASE ~Restart /\ requested' = requested
    BY <1>2, StepEffect, NothingRequested DEF NeverPlacedTwice
  <1>3. CASE ~Restart /\ requested' # requested
    BY <1>3, RequestStep, BookRequested
  <1> QED BY <1>1, <1>2, <1>3

\* A process of the task manager asks for the placement of a book of a job only
\* once, however tray jobs are repeated and answers interleaved
\* (_send_place_book_goal).
THEOREM PlacesOnlyOnce == Spec => []NeverPlacedTwice
  <1>1. Init => RequestsAgree /\ NeverPlacedTwice
    BY DEF Init, InitNode, RequestsAgree, NeverPlacedTwice
  <1>2. Core /\ JobInv /\ RequestsAgree /\ NeverPlacedTwice /\ [Next]_vars
          => (RequestsAgree /\ NeverPlacedTwice)'
    BY RequestsStep
  <1> QED BY <1>1, <1>2, JobInvariant, PTL DEF Spec
===============================================================================
