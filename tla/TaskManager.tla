------------------------------ MODULE TaskManager ------------------------------
(***************************************************************************)
(* The task manager of the book-shelving robot                             *)
(* (shelving_system/task_manager_node.py): it receives tray jobs and       *)
(* drives three ROS 2 action servers, one goal at a time, through the      *)
(* workflow of StateMachine.                                               *)
(*                                                                         *)
(* The node spins one thread, so a callback runs to its end before the     *)
(* next one starts: every callback is one action, with all the calls it    *)
(* makes.  What happens between callbacks is the environment: goals are    *)
(* accepted or rejected, results arrive, servers come up and go away, the  *)
(* node is killed and started again.  An exception that a callback lets    *)
(* out ends the node.                                                      *)
(***************************************************************************)
EXTENDS StateMachine, Naturals, Sequences

CONSTANTS
  Job,          \* normalized job identifiers
  Book,         \* book identifiers
  Shelf,        \* shelf identifiers of shelf_map.yaml
  Message,      \* TrayJob messages the topic may carry
  JobIdOf,      \* the stripped job_id of a message, None for a blank one
  Plannable,    \* messages for which JobPlanner.create_plan returns a plan
  TasksOf,      \* Plannable -> non-empty sequence of [book, shelf]
  ReportedCode, \* non-zero error codes the action servers put in a result
  MaxRestarts,  \* bound on how often the node is killed and started again
  None          \* Python's None

Task == [book : Book, shelf : Shelf]
Plan == [job : Job, tasks : Seq(Task) \ {<<>>}]

ASSUME TaskManagerAssumption ==
  /\ JobIdOf \in [Message -> Job \cup {None}]
  /\ Plannable \subseteq Message
  /\ \A m \in Plannable : JobIdOf[m] \in Job
  /\ TasksOf \in [Plannable -> Seq(Task) \ {<<>>}]
  /\ \A m \in Plannable : \A i, k \in DOMAIN TasksOf[m] :
       TasksOf[m][i].book = TasksOf[m][k].book => i = k
  /\ ReportedCode \subseteq Nat \ {0}
  /\ MaxRestarts \in Nat
  /\ None \notin Job \cup Book \cup Shelf \cup Task
  /\ None \notin Plan \cup [job : Job, books : Seq(Book)]

VARIABLES
  state,      \* _fsm.current_state
  errorCode,  \* _fsm.error_code
  activeJob,  \* _active_job_id, None for ""
  plan,       \* _current_plan: [job, tasks], or None
  taskIndex,  \* _current_task_index, counted from 0
  completed,  \* _completed_book_ids
  slot,       \* _detected_target_slot: the [book, shelf] it was detected for
  navTarget,  \* _active_navigation_target_type, None for ""
  accepted,   \* _accepted_job_ids
  published,  \* states the last step published on /system/state
  spinning,   \* whether the executor still runs the node's callbacks
  config,     \* keys of system.yaml that the node reads while working
  goals,      \* goals sent to the action servers and not yet resolved
  up,         \* action servers that can be discovered
  restarts,   \* how often the node was killed and started again
  verified,   \* history: <<job, book>> reported placed and verified
  requested   \* history: <<job, book>> of the place goals sent since start

jobVars == <<activeJob, plan, taskIndex, completed, slot, accepted>>
envVars == <<config, up, restarts>>
vars == <<state, errorCode, activeJob, plan, taskIndex, completed, slot,
          navTarget, accepted, published, spinning, config, goals, up,
          restarts, verified, requested>>
-------------------------------------------------------------------------------
Server == {"navigation", "perception", "manipulation"}
NavTarget == {"return_station", "shelf", "home"}
GoalKind == NavTarget \cup {"detect", "place"}

ServerOf(kind) == IF kind = "detect" THEN "perception"
                  ELSE IF kind = "place" THEN "manipulation"
                  ELSE "navigation"

\* "lost" is a goal whose server went away: it is never answered.
Phase == {"sent", "accepted", "lost"}

Goal == [kind : GoalKind, job : Job, shelf : Shelf \cup {None},
         book : Book \cup {None}, slot : Task \cup {None}, phase : Phase]

NavGoal(type, job, shelf) ==
  [kind |-> type, job |-> job, shelf |-> shelf,
   book |-> None, slot |-> None, phase |-> "sent"]
\* Mutant: the fields of the goal are swapped.
DetectGoalSwapped(job, task) ==
  [kind |-> "detect", job |-> job, shelf |-> task.book,
   book |-> task.shelf, slot |-> None, phase |-> "sent"]
DetectGoal(job, task) ==
  [kind |-> "detect", job |-> job, shelf |-> task.shelf,
   book |-> task.book, slot |-> None, phase |-> "sent"]
PlaceGoal(job, task, target) ==
  [kind |-> "place", job |-> job, shelf |-> None,
   book |-> task.book, slot |-> target, phase |-> "sent"]

\* The error codes of the node: a base per server and a reason.
ErrorJobPlanning == 1001
ErrorBase(server) == [navigation   |-> 2000,
                      perception   |-> 3000,
                      manipulation |-> 4000][server]
ErrorServer(server)   == ErrorBase(server) + 1
ErrorRejected(server) == ErrorBase(server) + 2
ErrorFailed(server)   == ErrorBase(server) + 3
ErrorResult(server)   == ErrorBase(server) + 4
ErrorLowSlotConfidence == 3005

\* Keys that _validate_system_config does not require but the node reads.
ConfigKey == {"timeouts.perception", "retry_limits.perception",
              "timeouts.manipulation"}
-------------------------------------------------------------------------------
(* What a callback does to the FSM: it walks through states, publishing a  *)
(* status in each, and may end in FAILED.                                  *)

Silent == published' = <<>> /\ UNCHANGED <<state, errorCode, spinning>>

Walk(path) == /\ state' = path[Len(path)]
              /\ published' = path
              /\ UNCHANGED <<errorCode, spinning>>

FailAfter(path, code) == /\ state' = "FAILED"
                         /\ errorCode' = code
                         /\ published' = Append(path, "FAILED")
                         /\ UNCHANGED spinning

\* An exception.  The done-callbacks of futures are tasks of the executor, and
\* spin() raises what they raise; main catches nothing but an interrupt.  The
\* process is over, and answers to its goals reach nobody.
RaiseAfter(path) == /\ state' = path[Len(path)]
                    /\ published' = path
                    /\ spinning' = FALSE
                    /\ goals' = {}
                    /\ UNCHANGED errorCode

\* wait_for_server, then send_goal_async; `open` are the goals that remain
\* unresolved besides the new one.
SendGoal(path, goal, open) ==
  IF ServerOf(goal.kind) \in up
  THEN Walk(path) /\ goals' = open \cup {goal}
  ELSE /\ FailAfter(path, ErrorServer(ServerOf(goal.kind)))
       /\ goals' = open

\* Mutant: the target type of the previous drive is kept.
SendNavigationGoalKeepsType(path, type, job, shelf, open) ==
  SendGoal(path, NavGoal(type, job, shelf), open) /\ UNCHANGED navTarget

\* _active_navigation_target_type is assigned after wait_for_server.
SendNavigationGoal(path, type, job, shelf, open) ==
  /\ SendGoal(path, NavGoal(type, job, shelf), open)
  /\ navTarget' = IF "navigation" \in up THEN type ELSE navTarget

\* A missing configuration key raises.  The time limit is read before the wait
\* for the server, the retry limit after it.
SendDetectTargetSlotGoal(path, open) ==
  IF \/ "timeouts.perception" \notin config
     \/ "perception" \in up /\ "retry_limits.perception" \notin config
  THEN RaiseAfter(path)
  ELSE SendGoal(path, DetectGoal(plan.job, plan.tasks[taskIndex + 1]), open)

SendPlaceBookGoal(path, target, open) ==
  IF "timeouts.manipulation" \notin config
  THEN RaiseAfter(path) /\ UNCHANGED requested
  ELSE LET task == plan.tasks[taskIndex + 1]
       IN /\ SendGoal(path, PlaceGoal(plan.job, task, target), open)
          /\ requested' = IF "manipulation" \in up
                          THEN Append(requested, <<plan.job, task.book>>)
                          ELSE requested

\* _start_current_book_task with `index` as _current_task_index.
StartCurrentBookTask(path, index, open) ==
  IF plan = None \/ index >= Len(plan.tasks)
  THEN /\ FailAfter(path, ErrorJobPlanning)
       /\ goals' = open
       /\ UNCHANGED navTarget
  ELSE SendNavigationGoal(path \o <<"SELECT_BOOK", "NAV_TO_SHELF">>, "shelf",
                          activeJob, plan.tasks[index + 1].shelf, open)
-------------------------------------------------------------------------------
InitNode == /\ activeJob = None
            /\ plan = None
            /\ taskIndex = 0
            /\ completed = <<>>
            /\ slot = None
            /\ navTarget = None
            /\ accepted = {}
            /\ errorCode = 0
            /\ state = "IDLE"
            /\ published = <<>>
            /\ spinning = TRUE

Init == /\ InitNode
        /\ config \in SUBSET ConfigKey
        /\ goals = {}
        /\ up \in SUBSET Server
        /\ restarts = 0
        /\ verified = {}
        /\ requested = <<>>

\* Mutants: one of the two early returns is missing, or FAILED passes.
TakesWhileBusy(m)    == JobIdOf[m] \notin accepted
TakesDuplicates(m)   == state = "IDLE"
TakesAfterFailure(m) == JobIdOf[m] \notin accepted
                        /\ state \in {"IDLE", "FAILED"}

(* _handle_tray_job: a duplicate, or a job that arrives outside of IDLE,   *)
(* is dropped with a warning and changes nothing.                          *)
Takes(m) == JobIdOf[m] \notin accepted /\ state = "IDLE"

RejectUnplannableJob(m) ==
  /\ Takes(m) /\ m \notin Plannable
  /\ activeJob' = JobIdOf[m]
  /\ FailAfter(<<"PLANNING">>, ErrorJobPlanning)
  /\ UNCHANGED <<plan, taskIndex, completed, slot, navTarget, accepted,
                 goals, envVars, verified, requested>>

StartJob(m) ==
  /\ Takes(m) /\ m \in Plannable
  /\ activeJob' = JobIdOf[m]
  /\ plan' = [job |-> JobIdOf[m], tasks |-> TasksOf[m]]
  /\ taskIndex' = 0
  /\ completed' = <<>>
  /\ slot' = None
  /\ accepted' = accepted \cup {JobIdOf[m]}
  /\ SendNavigationGoal(<<"PLANNING", "NAV_TO_RETURN">>, "return_station",
                        JobIdOf[m], None, goals)
  /\ UNCHANGED <<envVars, verified, requested>>

HandleTrayJob(m) == spinning /\ (RejectUnplannableJob(m) \/ StartJob(m))

(* _handle_*_goal_response *)
GoalAccepted(g) ==
  /\ g.phase = "sent"
  /\ goals' = (goals \ {g}) \cup {[g EXCEPT !.phase = "accepted"]}
  /\ Silent
  /\ UNCHANGED <<jobVars, navTarget, envVars, verified, requested>>

\* Mutant: a refused goal is dropped without failing the job.
RejectionIgnored(g) ==
  /\ g.phase = "sent"
  /\ Silent
  /\ goals' = goals \ {g}
  /\ UNCHANGED <<jobVars, navTarget, envVars, verified, requested>>

\* The future of send_goal_async raised, or the server refused the goal.
GoalNotAccepted(g) ==
  LET server == ServerOf(g.kind)
  IN /\ g.phase = "sent"
     /\ \E code \in {ErrorRejected(server), ErrorResult(server)} :
          FailAfter(<<>>, code)
     /\ goals' = goals \ {g}
     /\ UNCHANGED <<jobVars, navTarget, envVars, verified, requested>>

(* _handle_*_feedback and the one-second timer publish the current state.  *)
PublishStatus == /\ spinning
                 /\ published' = <<state>>
                 /\ UNCHANGED <<state, errorCode, spinning, jobVars, navTarget,
                                goals, envVars, verified, requested>>
-------------------------------------------------------------------------------
\* Mutant: a failed goal is sent again, without a limit.
ResultRetried(g) ==
  /\ g.phase = "accepted"
  /\ Silent
  /\ goals' = (goals \ {g}) \cup {[g EXCEPT !.phase = "sent"]}
  /\ UNCHANGED <<jobVars, navTarget, envVars, verified, requested>>

(* The results.  A failed one is handled alike for the three servers: the  *)
(* future raised, or the server reported a code, 0 standing for "none".    *)
ResultFailed(g) ==
  LET server == ServerOf(g.kind)
  IN /\ g.phase = "accepted"
     /\ \E code \in ReportedCode \cup {ErrorFailed(server),
                                       ErrorResult(server)} :
          FailAfter(<<>>, code)
     /\ goals' = goals \ {g}
     /\ UNCHANGED <<jobVars, navTarget, envVars, verified, requested>>

WrongState(g) == /\ FailAfter(<<>>, ErrorResult(ServerOf(g.kind)))
                 /\ goals' = goals \ {g}
                 /\ UNCHANGED <<jobVars, navTarget, verified, requested>>

\* _handle_return_station_arrival, _start_first_book_task
ReturnStationArrival(g) ==
  IF state # "NAV_TO_RETURN" THEN WrongState(g)
  ELSE /\ taskIndex' = 0
       /\ StartCurrentBookTask(<<"RECEIVE_TRAY">>, 0, goals \ {g})
       /\ UNCHANGED <<activeJob, plan, completed, slot, accepted, verified,
                      requested>>

\* _handle_shelf_arrival
ShelfArrival(g) ==
  IF state # "NAV_TO_SHELF" THEN WrongState(g)
  ELSE /\ IF plan = None \/ taskIndex >= Len(plan.tasks)
          THEN /\ FailAfter(<<"DETECT_TARGET_SLOT">>,
                            ErrorResult("perception"))
               /\ goals' = goals \ {g}
          ELSE SendDetectTargetSlotGoal(<<"DETECT_TARGET_SLOT">>, goals \ {g})
       /\ UNCHANGED <<jobVars, navTarget, verified, requested>>

\* Mutant: the plan of the finished job is kept.
ForgetJobKeepsPlan == /\ activeJob' = None /\ taskIndex' = 0
                      /\ completed' = <<>> /\ slot' = None
                      /\ navTarget' = None
                      /\ UNCHANGED plan

\* What the end of a job resets.
ForgetJob == /\ activeJob' = None /\ plan' = None /\ taskIndex' = 0
             /\ completed' = <<>> /\ slot' = None
             /\ navTarget' = None

\* _handle_home_arrival
HomeArrival(g) ==
  IF state # "RETURN_HOME" THEN WrongState(g)
  ELSE /\ Walk(<<"COMPLETED", "IDLE">>)
       /\ ForgetJob
       /\ goals' = goals \ {g}
       /\ UNCHANGED <<accepted, verified, requested>>

\* _handle_navigation_result with success and tolerance_satisfied: the
\* callback dispatches on the node's own navTarget, not on the goal.
NavigationSucceeded(g) ==
  /\ g.phase = "accepted" /\ ServerOf(g.kind) = "navigation"
  /\ IF navTarget = "return_station" THEN ReturnStationArrival(g)
     ELSE IF navTarget = "shelf"      THEN ShelfArrival(g)
     ELSE IF navTarget = "home"       THEN HomeArrival(g)
     ELSE WrongState(g)
  /\ UNCHANGED envVars

\* _handle_perception_result with success but a confidence below
\* minimum_slot_confidence
SlotUncertain(g) ==
  /\ g.phase = "accepted" /\ g.kind = "detect"
  /\ FailAfter(<<>>, ErrorLowSlotConfidence)
  /\ goals' = goals \ {g}
  /\ UNCHANGED <<jobVars, navTarget, envVars, verified, requested>>

\* _handle_perception_result with a slot detected for the goal's book
SlotDetected(g) ==
  /\ g.phase = "accepted" /\ g.kind = "detect"
  /\ IF state # "DETECT_TARGET_SLOT" THEN WrongState(g)
     ELSE LET target == [book |-> g.book, shelf |-> g.shelf]
          IN /\ slot' = target
             /\ IF plan = None \/ taskIndex >= Len(plan.tasks)
                THEN /\ FailAfter(<<"PLACE_BOOK">>,
                                  ErrorResult("manipulation"))
                     /\ goals' = goals \ {g}
                     /\ UNCHANGED requested
                ELSE SendPlaceBookGoal(<<"PLACE_BOOK">>, target, goals \ {g})
             /\ UNCHANGED <<activeJob, plan, taskIndex, completed, accepted,
                            navTarget, verified>>
  /\ UNCHANGED envVars

\* Mutants: the slot of the placed book is kept; the list of completed books
\* is replaced.
RecordBookKeepsSlot(book) ==
  /\ completed' = Append(completed, book)
  /\ taskIndex' = taskIndex + 1
  /\ UNCHANGED slot
RecordBookOverwrites(book) ==
  /\ completed' = <<book>>
  /\ slot' = None
  /\ taskIndex' = taskIndex + 1

\* The bookkeeping of a placed book.
RecordBook(book) ==
  /\ completed' = IF \E i \in DOMAIN completed : completed[i] = book
                  THEN completed ELSE Append(completed, book)
  /\ slot' = None
  /\ taskIndex' = taskIndex + 1

\* _update_data_and_continue
UpdateDataAndContinue(g) ==
  LET path == <<"UPDATE_DATA", "NEXT_BOOK">>
  IN /\ RecordBook(plan.tasks[taskIndex + 1].book)
     /\ IF taskIndex + 1 < Len(plan.tasks)
        THEN StartCurrentBookTask(path, taskIndex + 1, goals \ {g})
        ELSE SendNavigationGoal(path \o <<"RETURN_HOME">>, "home", activeJob,
                                None, goals \ {g})
     /\ UNCHANGED <<activeJob, plan, accepted, requested>>

\* Mutant: placement_verified is not looked at.
PlacedWithoutCheck(success, placementVerified) == success

\* What counts as a placement.
Placed(success, placementVerified) == success /\ placementVerified

\* _handle_manipulation_result: the server reports whether it placed the
\* book and whether the placement was verified.
ManipulationResult(g, success, placementVerified) ==
  /\ g.phase = "accepted" /\ g.kind = "place"
  /\ verified' = IF placementVerified
                 THEN verified \cup {<<g.job, g.book>>} ELSE verified
  /\ IF ~Placed(success, placementVerified)
     THEN /\ \E code \in ReportedCode \cup {ErrorFailed("manipulation")} :
               FailAfter(<<>>, code)
          /\ goals' = goals \ {g}
          /\ UNCHANGED <<jobVars, navTarget, requested>>
     ELSE IF state # "PLACE_BOOK"
     THEN /\ FailAfter(<<>>, ErrorResult("manipulation"))
          /\ goals' = goals \ {g}
          /\ UNCHANGED <<jobVars, navTarget, requested>>
     ELSE UpdateDataAndContinue(g)
  /\ UNCHANGED envVars

HandleResult(g) ==
  \/ ResultFailed(g)
  \/ NavigationSucceeded(g)
  \/ SlotUncertain(g)
  \/ SlotDetected(g)
  \/ \E success, placementVerified \in BOOLEAN :
       ManipulationResult(g, success, placementVerified)
-------------------------------------------------------------------------------
(* The environment *)

\* A server becomes discoverable.
ServerUp(s) == /\ s \notin up
               /\ up' = up \cup {s}
               /\ Silent
               /\ UNCHANGED <<jobVars, navTarget, config, goals, restarts,
                              verified, requested>>

\* A server goes away; what it was working on is never answered.
Lose(g) == [g EXCEPT !.phase = "lost"]
ServerDown(s) ==
  /\ s \in up
  /\ up' = up \ {s}
  /\ goals' = {IF ServerOf(g.kind) = s THEN Lose(g) ELSE g : g \in goals}
  /\ Silent
  /\ UNCHANGED <<jobVars, navTarget, config, restarts, verified, requested>>

\* The node is killed, or has ended, and is started again: everything it knew
\* is gone, and answers to the goals of the old process reach nobody.
Restart == /\ restarts < MaxRestarts
           /\ restarts' = restarts + 1
           /\ activeJob' = None /\ plan' = None /\ slot' = None
           /\ taskIndex' = 0 /\ completed' = <<>> /\ accepted' = {}
           /\ navTarget' = None
           /\ state' = "IDLE" /\ errorCode' = 0 /\ published' = <<>>
           /\ spinning' = TRUE
           /\ goals' = {}
           /\ requested' = <<>>
           /\ UNCHANGED <<config, up, verified>>
-------------------------------------------------------------------------------
GoalResponse(g) == GoalAccepted(g) \/ GoalNotAccepted(g)

Next == \/ \E m \in Message : HandleTrayJob(m)
        \/ \E g \in goals : GoalResponse(g) \/ HandleResult(g)
        \/ PublishStatus
        \/ \E s \in Server : ServerUp(s) \/ ServerDown(s)
        \/ Restart

(* The executor runs every ready callback, and a server that stays         *)
(* reachable answers its goal; nothing makes tray jobs arrive, servers     *)
(* appear or the node restart.                                             *)
Answer == \E g \in goals : GoalResponse(g) \/ HandleResult(g)

Spec == Init /\ [][Next]_vars
FairSpec == Spec /\ WF_vars(Answer)
-------------------------------------------------------------------------------
(* Properties *)

TypeOK ==
  /\ state \in SystemState
  /\ errorCode \in Nat
  /\ activeJob \in Job \cup {None}
  /\ plan \in Plan \cup {None}
  /\ taskIndex \in Nat
  /\ completed \in Seq(Book)
  /\ slot \in Task \cup {None}
  /\ navTarget \in NavTarget \cup {None}
  /\ accepted \subseteq Job
  /\ published \in Seq(SystemState)
  /\ spinning \in BOOLEAN
  /\ config \subseteq ConfigKey
  /\ goals \subseteq Goal
  /\ up \subseteq Server
  /\ restarts \in 0 .. MaxRestarts
  /\ verified \subseteq Job \X Book
  /\ requested \in Seq(Job \X Book)

\* The state in which the FSM waits for the answer to a goal of each kind.
AwaitedKind == [NAV_TO_RETURN      |-> "return_station",
                NAV_TO_SHELF       |-> "shelf",
                DETECT_TARGET_SLOT |-> "detect",
                PLACE_BOOK         |-> "place",
                RETURN_HOME        |-> "home"]

CurrentTask == plan.tasks[taskIndex + 1]

\* What the goal in flight asks for is what the FSM waits for: the server,
\* the destination, the shelf, the book and the slot are those of the current
\* task, and a navigation result will be dispatched to the right handler.
\* Nothing in the callbacks ties a result to the state that asked for it; only
\* the order of sends and results does.
Awaited(g) ==
  /\ plan # None /\ g.job = plan.job /\ g.job = activeJob
  /\ state \in DOMAIN AwaitedKind
  /\ g.kind = AwaitedKind[state]
  /\ g.kind \in NavTarget => navTarget = g.kind
  /\ g.kind \in {"shelf", "detect", "place"} => taskIndex < Len(plan.tasks)
  /\ g.kind \in {"shelf", "detect"} => g.shelf = CurrentTask.shelf
  /\ g.kind \in {"detect", "place"} => g.book = CurrentTask.book
  /\ g.kind = "place" => g.slot = CurrentTask /\ slot = g.slot

GoalMatchesState == \A g \in goals : Awaited(g)

\* The robot is never asked to do two things at once, and after a failure or
\* between two jobs it is not asked to do anything: no goal survives the
\* transition to FAILED or the end of a job.
AtMostOneGoal ==
  /\ \A g, h \in goals : g = h
  /\ state \in {"IDLE", "FAILED"} => goals = {}

\* A book counts as completed only if the manipulation server verified its
\* placement, and completed books are the first ones of the tray, in order.
CompletedAreVerified ==
  /\ \A i \in DOMAIN completed :
       <<activeJob, completed[i]>> \in verified
  /\ plan # None =>
       /\ Len(completed) = taskIndex
       /\ \A i \in DOMAIN completed :
            i <= Len(plan.tasks) /\ completed[i] = plan.tasks[i].book

\* No place goal for the same book of the same job is sent twice by one
\* process, however its answers are interleaved with repeated tray jobs.
NeverPlacedTwice ==
  \A i, k \in DOMAIN requested : requested[i] = requested[k] => i = k

\* What the node remembers is of the book or job at hand: the detected slot is
\* held only while the placement it was detected for runs or has failed, an idle
\* node has forgotten the last job, and only a failed one reports an error.
MemoryIsFresh ==
  /\ slot # None => /\ state \in {"PLACE_BOOK", "FAILED"}
                    /\ plan # None /\ taskIndex < Len(plan.tasks)
                    /\ slot = CurrentTask
  /\ state = "IDLE" => /\ activeJob = None /\ plan = None /\ slot = None
                       /\ completed = <<>> /\ taskIndex = 0
                       /\ navTarget = None
  /\ errorCode # 0 <=> state = "FAILED"

\* Nothing but the answer to a goal moves the FSM on, so in every state in which
\* it works it has one to wait for: no sequence of answers leaves it at rest
\* halfway.  The exception is a node that has ended, and it ends only where a
\* configuration key is missing that nobody checked at the start.
AlwaysAwaits ==
  /\ spinning /\ state \in WorkingState => goals # {}
  /\ ~spinning => \/ state = "DETECT_TARGET_SLOT" /\ config # ConfigKey
                  \/ state = "PLACE_BOOK" /\ "timeouts.manipulation" \notin config

\* Every status a callback publishes follows from the previous one by a
\* transition of the table: transition() never raises, and fail(), which does
\* not look at the table, never leaves it.
Allowed(path) == \A i \in 1 .. Len(path) - 1 :
                   path[i] = path[i + 1] \/ CanTransition(path[i], path[i + 1])
TransitionsAllowed == [][restarts' = restarts =>
                          Allowed(<<state>> \o published')]_vars

\* FAILED is final: until the node is started again no job, no answer and no
\* server that comes back changes the state or the error first reported, and
\* no goal is sent.
FailureIsFinal == [][state = "FAILED" /\ restarts' = restarts =>
                       UNCHANGED <<state, errorCode, goals, accepted>>]_vars

\* A working FSM gets back to IDLE or to FAILED, unless a server went away
\* with its goal, which the node waits for without a limit, or the node ends.
Progress == state \in WorkingState
              ~> \/ state \in {"IDLE", "FAILED"}
                 \/ ~spinning \/ \E g \in goals : g.phase = "lost"

\* The task manager keeps the promise of TrayService: `plan` is the tray in
\* hand, `completed` what is on the shelf, FAILED is the broken service.
BooksOf(tasks) == [i \in DOMAIN tasks |-> tasks[i].book]
TrayOf(job, tasks) == [job |-> job, books |-> BooksOf(tasks)]

Service == INSTANCE TrayService WITH
  Tray    <- {TrayOf(JobIdOf[m], TasksOf[m]) : m \in Plannable},
  tray    <- IF plan = None THEN None ELSE TrayOf(plan.job, plan.tasks),
  shelved <- completed,
  taken   <- accepted,
  healthy <- state # "FAILED"

ImplementsTrayService == Service!Spec
===============================================================================
