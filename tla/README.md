# A TLA+ model of the book-shelving system

The repository drives a mobile manipulator that takes a tray of returned books,
carries it to the shelves and places every book. This directory models its
control logic in TLA+, checks it with TLC on small instances, and proves with TLAPS, for
every value of the constants, the safety properties of the return machine and its
planner, of the task manager and of the four kinds of action servers it calls, that
these implement their abstract specifications, and what holds of the task manager
and the arm together.

Paths below are relative to the repository root; `S` is
`ros2_ws/src/shelving_system/shelving_system`, `M` is
`ros2_ws/src/shelving_manipulation/shelving_manipulation`, `N` and `P` the same
for `shelving_navigation` and `shelving_perception`, `I` is `simulation/isaac`.

## The system

```
return_machine_node --TrayJob topic--> task_manager_node (FSM, plan)
                                          | /navigate_to_target   -> navigation_node   -> Nav2
                                          | /detect_target_slot   -> vision_manager    (cameras)
                                          | /place_book           -> manipulation_node -> JSON topics -> manipulation_executor (Isaac Sim)
                                          `-> /system/state
```

| component | state it keeps | operations | what is hard |
|---|---|---|---|
| task manager (`S/task_manager_node.py`, `S/state_machine.py`) | FSM state and error, job, plan, index, completed books, detected slot, target of the last drive, accepted jobs | tray job; goal response, feedback, result of three actions; status timer | callbacks belong to no state: only the order of sends and answers ties them together; servers come and go; an exception in a callback ends the node in the middle of a job; no timeout on results |
| planner (`S/job_planner.py`, look-ups of `S/yaml_data_manager.py`) | shelf map | `create_plan` | prefixes that nest or tie, identifiers that differ in white space |
| return machine (`S/return_machine_node.py`) | parameters, timer, UUIDs | publish service, one-shot timer | what it validates is not what the planner validates; bounded topic |
| manipulation node (`M/manipulation_node.py`, `book_placer.py`, `grasp_planner.py`) | current tracker, used tray slots, status | goal, cancel, execute loop, simulator states | four threads, a gap between accept and execute, a second goal, duplicated, lost and reordered states, three timeouts |
| manipulation executor (`I/controllers/manipulation_executor.py`, `book_scene.py`, `arm_primitives.py`) | job, plan, phase, queue of arm tasks | command, `spin` | failure codes of every phase, cancellation while a book is held |
| vision manager (`P/vision_manager.py`, detectors) | active goal, candidates, pending flags | goal, cancel, image callbacks, timeout | images and goals on different threads, a result for the wrong goal, a pending flag left set |
| navigation node (`N/navigation_node.py`) | goal handle, feedback, latest pose | goal, cancel, feedback, result of Nav2 | two goals share its fields, Nav2 goes on after an abort |
| mock servers (`S/mock_*_server.py`) | parameters | the three actions | cancellation |
| simulation scene (`I/run_simulation.py`, `world_loader.py`, `camera_bridge.py`, ...), vendored Nav2 launch files, interfaces, tools | | | no protocol of their own |

### What makes each part correct

* **Task manager**: it asks for one thing at a time and what it asks for is
  what it waits for; every book of the tray once, in order, none skipped; a book
  counts only when its placement was verified; the detected slot belongs to the
  current book; FAILED is final; every job ends.
* **Planner and return machine**: one task per book in the order of the tray,
  each on the shelf of the longest matching prefix; what the return machine lets
  through, the planner accepts unless the map lacks something.
* **Manipulation**: a placement is reported only when the executor verified it;
  late or repeated states of another command change nothing; a goal always
  ends; the arm is at rest when a failure is reported.
* **Vision**: no goal is left behind as the active one, since it would have
  every later goal refused; a goal that has the node to itself is answered with
  its own result; a goal always ends; a slot that is found is reported.
* **Navigation**: a goal that ends with success has been driven to, one that ends
  with an error code is not being driven to; overlapping goals leave nothing to
  the next one; a cancelled goal stops the robot.
* **Mock servers**: they behave as action servers, a cancel is never too late,
  books get slots in turn, and slots that the arm takes.

## Modules

| module | models | how |
|---|---|---|
| `StateMachine` | `S/state_machine.py` | states and the transition table as a set of pairs |
| `TaskManager` | `S/task_manager_node.py` | one action per callback, composed with the FSM and the three action servers as the node sees them |
| `TrayService` | what the task manager promises to whoever feeds it | abstract specification: take a tray, shelve its next book, finish, fail, start |
| `TaskManager_proofs` | | core invariant of `TaskManager`: types, goals and states; the FSM in it: the table is kept, and what is waited for |
| `TrayService_proofs` | | the job of `TaskManager`: what is remembered, completed and asked for; the refinement of `TrayService` |
| `JobPlanner` | `S/job_planner.py`, look-ups and checks of `shelf_map.yaml` in `S/yaml_data_manager.py` | pure operators; the loop over the prefixes is a recursive function |
| `ReturnMachine` | `S/return_machine_node.py`, the topic, the planner behind it | parameters change, trays are published and planned |
| `ReturnMachine_proofs` | | what the loop of `create_plan` computes, the invariant of `ReturnMachine`, and that its plans are what `TaskManager` assumes |
| `ManipulationExecutor` | `I/controllers/manipulation_executor.py`, its scene and arm controller | a queue of commands, the current job, the phase of the arm, where the books are |
| `Manipulation` | `M/manipulation_node.py`, `PlaceTracker` of `book_placer.py`, slot selection of `grasp_planner.py` | every goal has a thread, one action per critical section; composed with the executor |
| `PlacementService` | what `/place_book` promises its client | abstract specification: answered once, success only with a book of its own on the shelf |
| `ManipulationDocs` | statements of documents, messages and tests about them that the code does not keep | one property per disagreement |
| `ActionService` | what the client of any of the robot's action servers may count on | abstract specification: a goal is refused or accepted, ends once, is canceled only if that was asked for |
| `Vision` | `P/vision_manager.py`, the slot test of `P/target_detector.py` | threads of goals against a camera frame, cut where it touches shared fields |
| `VisionDocs` | a comment in it that the code does not keep | |
| `Navigation` | `N/navigation_node.py`, with Nav2 as it is used (external) | the coroutine of every goal, cut at its awaits; feedback beside it |
| `NavigationDocs` | a statement of `docs/` that the code does not keep | |
| `SlotContract` | how `S/mock_perception_server.py` and `P/vision_manager.py` fill in a `TargetSlot`, `validate_goal` of `grasp_planner.py` | pure operators on lengths |
| `MockServers` | `S/mock_navigation_server.py`, `S/mock_perception_server.py`, `S/mock_manipulation_server.py` | three servers with their queues, clients that use them in the order of the workflow; on top of `SlotContract` |
| `ShelvingSystem` | task manager, manipulation node and executor together | composition: placements are answered by `Manipulation`, drives and detections as in `TaskManager` |
| `Manipulation_proofs`, `Vision_proofs`, `Navigation_proofs`, `MockServers_proofs`, `ShelvingSystem_proofs` | | theorems about the module of the same name |
| `MCTaskManager`, `MCReturnMachine`, `MCManipulation`, `MCVision`, `MCNavigation`, `MCMockServers`, `MCShelvingSystem` | | instances for TLC |

Which module extends or instantiates which:

```
StateMachine <- TaskManager -- refines --> TrayService
JobPlanner   <- ReturnMachine
ManipulationExecutor <- Manipulation -- refines --> PlacementService
SlotContract <- MockServers --.
                     Vision --+-- refine --> ActionService
                 Navigation --'

TaskManager  <--extends--- ShelvingSystem ---instance--> Manipulation
TaskManager_proofs <-- TrayService_proofs <-- ShelvingSystem_proofs --> Manipulation_proofs
```

### TaskManager

The node spins a single-threaded executor, so a callback is atomic; blocking
`wait_for_server` happens inside it. An action of the module is a whole
callback: the FSM may pass through several states, `published` is the
sequence of statuses it publishes on the way, and every path ends with a goal
sent, in FAILED or in IDLE. The variables are the fields of the node (each
declaration names its field). `goals` are the goals of the three action clients
with their phase: sent, accepted, or lost because the server went away.
A goal server may accept, refuse, fail or succeed in any order and with any
code; `up` is what discovery sees.

`navTarget` is kept apart from the goal because the code dispatches on it: that
the two agree is what `GoalMatchesState` says. `config` holds the optional
keys of `system.yaml` that are present. A missing one raises inside a
done-callback, after the FSM has moved and before the goal is sent. The future of
an action client hands its callbacks to the executor as tasks, whose exceptions
`spin` raises again, and `main` catches none but `KeyboardInterrupt`: the process
ends (`RaiseAfter`, `spinning` FALSE). `Restart` is the process being
killed and started: its memory is empty, answers to its old goals reach nobody.

`verified` and `requested` are histories: what a server reported as verified,
and which placements the process asked for.

### JobPlanner and ReturnMachine

A received string is its stripped text plus a flag for surrounding white space,
which is all the code tells apart; texts are short sequences so that prefixes
mean something. `create_plan` raises for a tray it cannot plan: `NoPlan`.
The map is what is left of a file of shelves (`LoadedMap`) that passes the checks
of the start (`ValidShelfMap`); those checks do not ask whether the key of a shelf
is a text (`NoId`), only a plan for one of its books does.
The topic keeps the last `TopicDepth` messages.

### Manipulation and ManipulationExecutor

The node runs `_execute` of every goal in a thread of its own, with reentrant
callbacks beside it. What a thread does between two sections under the lock is
an action: `CheckGoal` (profile, validation, slot), `SetTracker`, `SendPlace`,
one `Turn` of the loop, `FinishGoal`. `OnGoal` refuses a goal only while
`current` is set, so the gap up to `SetTracker` is in the model: two goals can
be under way, the later tracker hides the earlier one, and the first to end
clears both. `tracker[g]` outlives `current` because a thread keeps its own.

`Turn(g, passed)` is given the time limits it finds to have passed. Each limit
is compared afresh in every turn and its effect latched by the code
(`timed_out`, the outcome), so no clock is needed in the state.

The executor is one thread, but what it publishes is seen in between. A state
message is repeated ten times a second until the next, so `states` holds the
last `Window` messages and any of them may be the next the node takes, again or
never. Commands are a queue and may be lost. A token stands for its goal.

The arm is the list of phases of `job_sequence`. Three of them do something to
the books: `lift` follows `attach`, so the book is in the hand; `carry_rotate`
follows the lift, so it is off the tray; `release` follows `detach`. Everything
the executor can find wrong (M401 to M406, M410, M411) may happen whenever the
code looks for it. Geometry decides which, and is left to choice: whether the
book rose far enough to miss `book_on_tray_near`, whether `verify` accepts.
`shelved` is a history, the goals whose book was verified.

### Vision

The node runs on `Threads` = 2 threads. `_execute_detection` waits in its
callback, so a goal in `Running` holds one of them until it ends; every other
callback needs one that is free (`ThreadFree`). The camera's callbacks share a
mutually exclusive group, so at most one `frame` is in the works. What goals and
camera share are `active`, `result`, `event`, `pending` and `depth`. A lock makes
single accesses atomic, not a frame: a frame is a sequence of actions
(`FrameArrives`, `TakeRequest`, `Detect`, `DrawDebugImage`, `CompleteAction`) cut
at every access to one of them, and the thread of a goal may run in between.
The thread of a goal is cut the same way: `Wake` is the end of the wait
(`vision_manager.py:345`), `TakeResult` what it does later with the lock
(`:376`). In between another goal that was accepted may begin and clear event and
result. The history `overlapped` holds the goals that ran beside another one.
`CompleteAction` uses the goal it looked up in `DrawDebugImage` to decide whether
there is somebody to answer, and `SetActionResult` looks again.

Of an image the model keeps the goals that had begun when it was taken
(`images`): enough to tell that an answer comes from an older image. What is
seen is any subset of `Candidate`.

`KeysRead` and `SlotKeys` are the keys the code reads of an empty slot and those
the slot has. One is missing, so `Raises` holds whenever a slot is found, and the
model, like the program, never answers with success: the executor stops
(`spinning`). This is the run `found_slots`. `Raises` is a definition of its own
so that the rest of the model stays right when the key is supplied.

### Navigation

`_execute_callback` is a coroutine, so several goals are under way on one thread.
A stage is a place where it awaits, an action what happens up to the next one.
`active`, `activeNav2`, `target` and `latest` are fields of the node, not of the
goal; `Leave` is the `finally` clause and clears them whoever they belong to.
Feedback arrives on the other thread and reads two of them one after the other
(`FeedbackArrives`, `FeedbackRelayed`); without a target it raises, and an
exception in a subscription's callback ends the executor (`alive`).

The relay loop calls a method that `ActionClient` does not have and awaits
`asyncio.sleep` without an asyncio loop; both raise (`RelayRaises`, stage
"raising"). Until the coroutine has left its `finally` clause the goal is not over
and a cancel is still accepted; then rclpy aborts it with an empty result, whose
code is 0 (`FinalAnswer`). Only a drive whose result
is there at the first look gets past the loop (`TakeResult`).
Nav2 is external: it drives to the latest goal it has accepted.

### MockServers and SlotContract

Each mock is one thread that sleeps while it executes a goal, so nothing is
accepted and no cancel is heard meanwhile (`Idle`); goals that were accepted
before wait in `queue`. A client drives, detects and places in this order, with
at most `AtOnce` clients on their way.

`SlotContract` holds both sides of a slot: `MockSlot` and `VisionSlot` are what
the two producers write, `ArmTakes` is `validate_goal` with the settings of
`config/`, in tenths of a millimetre and degrees. Within `Manipulation` the
outcome of that validation is the constant `ValidGoal`.

### ShelvingSystem

The state is that of both parts. A goal of `Manipulation` is here a `Placement`:
the job, the book and the process (`run`, the number of restarts so far) that
ordered it. Three kinds of steps:

* `Elsewhere`: the task manager with everything but placements. When its step
  sends a place goal, the placement is added to `ordered`.
* `ArmStep`: node and executor. A request reaches the node (`OnGoal`) some time
  after it was ordered, also when its client has been killed in the meantime.
* `Reads`: an answer reaches its client: the response to a goal the node has
  accepted or rejected, the result of one that is done (success or its error
  code), or an exception of the future, which the task manager turns into 404
  whatever the arm does.

So an outcome goes through the whole of the code: the executor's job, the state
topic, the tracker, the result of the action, `_handle_manipulation_result`, the
list of completed books. The node itself does not crash and `Impatient` is empty,
since the task manager never cancels.

## Runs

| run | shows |
|---|---|
| `task_manager` | types, six invariants, two action properties, progress and refinement of `TrayService`, for a tray of two books (also sent twice), a tray of one, a blank job, all subsets of servers and configuration keys, one restart; a node at work always has a goal to wait for, or has ended for a missing key |
| `return_machine` | the plan covers the tray with the shelf of the longest prefix; what passes the return machine is refused only for stated reasons |
| `manipulation` | two overlapping goals for one book, one of them cancelled: a success means the book of that goal's slot is on the shelf and was nobody else's; an answer of the executor finds the arm at rest; cancels hit their own job; the promise of `PlacementService` is kept |
| `manipulation_resolved` | two overlapping goals: each is answered, whatever the simulator does; with states late, repeated, reordered or lost, progress never drops |
| `vision` | two goals that may overlap, requests by hand, a cancel: the active goal is one that runs, a goal that no other has overlapped is woken only to a result and never ends with 3004, every goal ends, the node is an `ActionService` |
| `navigation` | two drives that share the node's fields: codes are true, the fields are clean when nothing runs, every goal ends unless feedback ended the node, the node is an `ActionService` |
| `mock_servers` | six kinds of books: no cancel is too late, slots are given out in turn, slots that are found fit, the servers are `ActionService`s |
| `shelving_system` | two trays, the real arm behind the task manager, its server coming and going, one restart between two books: completed books stand on the shelf, each in its own right; no drive is sent while the arm works for this process; every job ends because the node's limits end every placement |
| `two_goals` | violated: a second goal during a job is refused (`docs/doyoon-kim/manipulation/FSM_PLACEBOOK_SESSION.md:64`), but both are accepted when the second comes before the first has its tracker |
| `grasp_failure` | violated: after M405 the slot is used again (`test_manipulation_node.py:159`), but the executor reports M405 in `carry_rotate`, which counts as having left the tray; the mock of the test reports it in `lift` |
| `found_slots` | violated: the first empty shelf is returned as the result (comment, `vision_manager.py:619`), but drawing the debug image reads `row_index` (`vision_manager.py:824`), which slots of `find_empty_slots_at_positions` do not have, and the `KeyError` ends the node |
| `navigation_cancel` | violated: a cancelled action returns after going to a safe state (`docs/03_ros_interfaces.md:15`), but the attempt to cancel Nav2 raises (`navigation_node.py:249`), the goal ends and Nav2 drives on |

### Bounds

* Two books are the least with a "next" and a "last" book; the one-book tray
  exercises the job that goes straight home. Two jobs and a repetition of the
  first let a duplicate arrive before, during and after its job and another job.
* `MaxRestarts = 1`: a restart resets all the state but the configuration and
  the servers, so a second one repeats the first.
* One reported code: codes are copied, never compared.
* Return machine: a topic of depth 2 and three identifiers fill the queue and
  drop one message; of ten files four are accepted, with prefixes that nest, tie
  or miss and a shelf without a name, and the others fail one check each.

* Manipulation: two goals suffice for every overlap (the node has one
  `_tracker`); both may choose slot 0 of two, and one client may cancel. The runs
  leave out the phases in which nothing but the arm's position changes: a job has
  `lift`, `carry_rotate` and `release` and waits before them. `Window` is 1 in
  `manipulation`, so that states are repeated and missed, and 2 in
  `manipulation_resolved`, so that they are also reordered. What the two runs say
  is proved for every `Motion` and `Window`, but for `Resolved`.
* Vision: two goals hold both threads, the case that starves the camera; two
  candidates make a frame find none, some or all; one client may cancel, and
  requests by hand occur at any time.
* Navigation: two goals are the least that overlap, and the node's fields hold
  one of them; each can be the later one.
* Mock servers: a book of each profile of `book_profiles.yaml`, one thick enough
  that the slot is as wide as its margin makes it, one without sizes, one without
  a name. Four of them get a slot, so that all four are given out. `AtOnce` = 2
  lets goals queue and overlap; one, two and one phases and one cancel, at the
  server where there is something before and something after it.
* `ShelvingSystem`: two books and two slots, then a second tray that finds one slot
  left or none (in `manipulation` there are as many slots as goals, so this is
  the run that reaches the limit of the tray). Only the manipulation server may come and go (`Fickle`); what the
  others do then is in `task_manager`. The process may be killed once, on the way
  to a shelf (`KilledIn`), and gets its tray again with slots used up. The state
  space does not stay small when it is killed while the arm works; those restarts
  are covered by the proofs, which restrict neither `KilledIn` nor `MaxRestarts`.
  Codes that navigation and perception report, and the status timer, are left
  out: they were checked alone and touch nothing of the arm. `Window` is 1, what
  reordering does is in `manipulation_resolved`.
* The systems of goals stop when all goals are answered (or the node has ended),
  hence `CHECK_DEADLOCK FALSE` there; the task manager and the return machine
  never stop and are checked for deadlock.

### Fairness

`WF_vars(Answer)`: rclpy's executor runs every ready callback, and a server that
stays reachable answers its goal, which is what the ROS action protocol gives a
client. Nothing is assumed of jobs, discovery, restarts or lost goals, so
`Progress` excludes a lost goal and a process that has ended by name.

`Manipulation`: the thread of a goal runs (`WF` of `Execute`, operating system
threads), and a loop that does not end has, sooner or later, a turn after
`goal_timeout_s` and `cancel_timeout_s` have passed (`WF` of a late `Turn`: the
clock is monotonic and the loop wakes every `loop_period_s`). Nothing is assumed
of the simulator, the topics and the client.

`Vision`: the thread of a goal wakes (`WF` of `Look`) and its limit passes (`SF`
of `TimedOut`: the clock is monotonic, and a goal that looks again and again
finds it passed); an accepted goal gets a thread that becomes free again and
again (`SF` of `BeginDetection`: the executor's queue is first in, first out); a
frame that has begun goes on (`WF`). Nothing is assumed of cameras and clients.

`Navigation`: the executor resumes every coroutine that can go on (`WF` of
`Execute`), and Nav2 answers a request, if only with a refusal. That a drive ends
is not assumed.

`ShelvingSystem`: what each part assumes alone, but no longer that a placement is
answered. That follows from the threads and the clock of the node, given that a
request reaches it (`RequestArrives`) and its answers are read (`AnswerArrives`);
that a future raises, which would end the job as well, is not assumed.

## Proofs

`TaskManager_proofs` proves for all jobs, books, shelves and trays, from
`TaskManagerAssumption` alone (a plan is a non-empty sequence of tasks, a job
identifier of a plannable message is a job, `None` is neither a job nor a plan):

* `CoreInvariant`: `Spec => []Core`, `Core` being `TypeOK /\ GoalMatchesState /\
  AtMostOneGoal`. None of the three is inductive alone. `GoalMatchesState` needs
  the types (the index stays inside the plan) and needs `AtMostOneGoal`, since a
  second goal in flight would still be awaited in a state the first answer has
  left; `AtMostOneGoal` needs `GoalMatchesState`, since the goal answered must
  be the one of the current state for the callback to take the branch that sends
  the next one.
* `TypeInvariant`, `GoalsMatchState`, `OneGoalAtATime` follow from it, and
  `FailuresAreFinal` as an action property: in FAILED no goal is awaited, so no
  answer can move the node.

The proof has one step per callback and per environment action, and lemmas for
the parts callbacks share (sending a goal, starting the next book).

`TrayService_proofs` stands on it. Once it is known which goals may be answered
in which state, every step does one of ten things to the job (`Effect`,
`StepEffect`): a tray is taken or refused, nothing happens, the job stops, the
tray or a shelf is reached, a slot is detected, a book placed, the robot comes
home, the process restarts. What remains is about these ten and not about
callbacks:

* `JobInvariant`: `JobInv == PlanAgrees /\ MemoryIsFresh /\ CompletedAreVerified`.
  A verified book is recorded only if it is not among the completed ones, so that
  every answer adds one needs the books of the plan to differ (`PlanAgrees`, which
  also says that the index is 0 until the first shelf is chosen and past the last
  book on the way home). `CompletedBooksVerified` and `MemoryStaysFresh` follow.
* `TaskManagerIsATrayService`: each of the ten is a step of `TrayService` or
  changes nothing there (`StepOfTrayService`). "Finishes only when all books are
  shelved" is the index at RETURN_HOME.
* `PlacesOnlyOnce`: no placement is asked for twice. The history of requests has
  to be located: of the current job, only the books before the index and, in
  PLACE_BOOK, the one at it (`RequestsAgree`).

About the FSM, also in `TaskManager_proofs`:

* `TableIsKept`: the paths a callback takes through the FSM are put together from
  pieces that are in the table (`Roads`, `AllowedAppend`), and each begins where
  the state is, so what is published step by step is a walk in the table.
* `AlwaysAwaitsAnAnswer`: while the process runs, a state in which it works has a
  goal in flight; it has ended only where a configuration key is missing. All other
  ends of a callback send a goal or leave the working states (`AwaitInv`).

`Manipulation_proofs`, from `ManipulationAssumption` and `NodeAssumption` (the
tray is a finite set of numbered slots, a job has its phases in the order of
`job_sequence` with `lift`, `carry_rotate` and `release` among them, the state
topic holds at least one message; any number of goals, books, slots, and any
assignment of books to slots):

* `ManipulationInvariant`: `Spec => []IInv`, with `IInv == TypeOK /\
  CommandsAgree /\ JobAgrees /\ StatesAgree /\ SceneAgrees /\ OutcomesAgree`.
  `PlacedForReal` speaks of outcomes and shelf; between them lie the command
  topic, the job, the arm and the state topic, and each needs its part. A state
  that may be delivered late must be true whenever it arrives (`StatesAgree`):
  that nobody works for a goal that was reported as over needs one place command
  for each goal (`CommandsAgree`), otherwise the goal could begin again. That a
  verified job has shelved the book of its own slot needs the hand to be empty at
  `verify` (`JobAgrees`: `release` comes before the end and no `lift` after it),
  and that nobody else had shelved it (`SceneAgrees`).
* `ManipulationTypes`, `PlacementsAreReal`, `ArmRestsWhenReported`,
  `CancelsHitTheirJobs` and `ProgressOnlyGrows` follow, the last two as action
  properties.
* `ManipulationIsAPlacementService`: the refinement. It also needs that a goal
  that has ended has an outcome, and that shelved goals are no more than the
  slots: `slotOf` is an injection of `shelved` into the tray.
* At the limit of the tray: `NoMoreSuccessesThanSlots`, by the same injection on
  the goals that succeeded, and `FullTraysRefuse`: once all slots are used no goal
  that is looked at reaches the arm. The two say what never emptying `used_slots`
  comes to; the second is an action property about the node alone.
* `VerdictsAreFinal`: an outcome is decided once. It needs `OutcomesAgree`, since
  the check of a goal writes its outcome too: no goal that was not sent has one.

`Vision_proofs` (from `VisionAssumption`: any goals, candidates and number of
threads): `VisionInvariant` with the types, the active goal, the event and its
result, the frame and who overlapped whom; from it `VisionTypes`,
`NobodyIsLeftActive`, `GoalsAloneAreServed` and `VisionIsAnActionServer`. That an
event is set only with a result (`EventHasResult`) is part of the invariant and
holds for all goals, but says nothing about a goal that was woken and has not yet
read: for that, no other goal may have begun (`OverlapsAreKnown`), hence the
condition of `AloneIsServed`. Without it the code 3004 does occur.

`Navigation_proofs` (from `NavigationAssumption`: any goals):
`NavigationInvariant`, where `StagesAgree` ties how far Nav2 is with a goal to
how far its coroutine is, which neither `CodeMeansStopped` nor the refinement can
do without; `NavigationTypes`, `NothingIsLeft`, `CodesAreTrue`,
`NavigationIsAnActionServer`.

`MockServers_proofs` (from `MockAssumption`: any clients, books and numbers of
phases):

* About `SlotContract` alone: `ArmTakesMockSlots`, for every book with known
  sizes that is not too high for the mock's slots; `ArmRefusesVisionSlots`, for
  every book.
* `MockInvariant`: what waits in a queue is accepted and waits once, a server
  runs one goal, a goal that was asked to cancel has not reported a phase (which
  holds because no cancel is heard during one), what a client asks for next comes
  after a success. From it `MockTypes`, `CancelsAreHonoured`, `FoundSlotsDoFit`,
  `MocksAreActionServers`.
* `SlotsAreInTurn`, from a second invariant (`Turns`, `SlotsGoRound`) on top of it:
  the n-th slot is n - 1 modulo 4, and for each slot the goals answered with it and
  the times it was given out are sets of equal cardinality, which every step either
  keeps or extends by one element each.

`ShelvingSystem_proofs` (from the assumptions of both parts, `SystemAssumption`
and `MotionAssumption`: any trays, number of slots, motion, restarts):

* `SystemRunsTaskManager` and `SystemRunsArm`: the system, seen from one side, is
  a behaviour of that part's own specification. So all that was proved of
  `TaskManager` and `Manipulation` holds in the composition:
  `SystemGoalsMatchState`, and `SystemPlacesForReal`. `ArmProofs` is an instance
  of `Manipulation_proofs` for placements, cited after its assumptions have been
  shown to hold (`ArmAssumptions`).
* The invariant `SystemInv` adds what ties the two together. `OrdersAgree`: the
  node knows only placements that were ordered, and every placement of the
  present process is either awaited by an open goal, done with success, or the
  task manager has failed. `CompletedAgrees`: every completed book is one of a
  placement of this process that succeeded, none twice.
* `CompletedBooksDoStand` follows with `PlacedForReal` of the arm, and
  `NoDriveMeetsOwnPlacement` with `GoalMatchesState` of the task manager: while a
  drive is awaited there is no open placement and no failure, so every placement
  of this process is done, and the arm rests when a success has been reported
  (`RestWhenReported`).
* `SystemIsATrayService`: the promise of `TrayService` carries over.
  `VerifiedBooksDoStand`: it is not only the completed books of the present job that
  stand, but all that were ever verified, since nothing takes a shelved book away.
  `FinishedTraysDoStand`: a step that finishes a tray finds the whole plan on the
  shelf. It joins the refinement (a tray is finished when its completed books are
  all of its plan) with `CompletedBooksDoStand`.

`ReturnMachine_proofs`, from `ReturnMachineAssumption` (trays and files are of the
types the parameters and YAML have, identifiers given out are not blank, the topic
holds at least one message):

* `LoopFindsFirstLongest`: the loop of `get_shelf_for_classification` ends with the
  first of the longest matching prefixes, for any number of entries. The library's
  induction takes a predicate as a parameter, which the provers here cannot
  instantiate; so the induction is stated for sets of numbers (`InductiveSet`: a set
  with 0 that is closed under successor has all of `Nat`, from `LeastMember`, that
  a set of numbers has a least one), and the loop's invariant is such a set.
* `MapIsTheFile`: flattening the shelves loses and adds nothing, so what is proved
  of the entries is about the file.
* `ReturnMachineInvariant`: `Spec => []IInv`, with `IInv == TypeOK /\ TopicAgrees
  /\ OutcomeAgrees`. What waits in the topic has passed the checks of the return
  machine with the parameters of its time, which may have changed since.
* `LongestPrefixAlwaysWins`, `PlanAlwaysCoversTray` and `AlwaysRefusedForAReason`
  follow, the last two because the checks of the two sides overlap in all but
  white space.
* `PlannerServesTaskManager`: the planner meets what `TaskManagerAssumption` says
  of plans, for any message on the topic and not only those of the return machine.
  This is where `TaskManager`, which knows of the planner by constants, and
  `JobPlanner` meet.

Each invariant was an invariant of a TLC run before it was proved, and each proof
has a step for every action; the proofs of a refinement have a lemma for every
action that says which step of the abstract specification it is.

Model-checked only: liveness (`Progress`, alone and in the system, `Resolved`,
`EveryGoalEnds`), which is out of the prover's reach. All safety properties of the
passing runs, and the refinements, are theorems.

Two assumptions are about model values only: `NoPlan` is no plan, and `None` is not
a number of a slot or a result.

## Not modelled

Reading YAML files and checking those of books and of the system at start-up
(whether the node starts at all), log messages and status texts,
image processing, kinematics and path planning, Isaac Sim, launch files and
vendored packages: numeric or pure input and output. The trailing feedback that
overwrites the text of a failure status is wording, and is left out with it.

The mock executor inside `manipulation_node` (`MockSimExecutor`) is left out: the
model has the executor of Isaac Sim in its place. The frame the node is
configured with is `Frame`.

`book_detector.py` and the topics on which detections are published: geometry of
images, and nothing in the system subscribes to them. The scene, the main loop
and the camera bridge of the simulator, its tools, and the vendored packages of
Nav2 have no protocol of their own. In `Navigation` poses, way points and
tolerances are numbers that decide nothing but which failure is reported; which
one is left to choice. In `Vision` the `wait_for_trigger` that is configured is
the constant `Waits`.

## Observations without a run

* A cancel by the client followed by `goal_timeout_s` sends a second cancel
  (`book_placer.py:232`), restarts the wait for its answer and turns the
  cancellation into 404, although `book_placer.py:239` speaks of one.
* A goal that ends because the simulator is silent (heartbeat, or no answer to a
  cancel) ends while the arm may still move; `docs/03_ros_interfaces.md:15`
  wants a safe state first. `RestWhenReported` leaves out 404 and 411 for this.
* After a cancel with a book in the hand the executor accepts the next job,
  which opens the gripper first. `PLACEBOOK_SIM_LINK.md:64` asks for a restart;
  nothing enforces it.
* A failed start motion empties the arm's queue, so the next step of the executor
  finds the arm idle and declares it ready (`manipulation_executor.py:201`),
  although its own message says that no commands are taken
  (`manipulation_executor.py:198`). `HomeFails` and `Announce` model it; the
  answers stay true even then.
* Nothing locks drives while the arm works (`docs/01_system_overview.md:35` wants
  them locked): the task manager just waits for its own placement. A process that
  was started again does not, and may drive while the arm works on what the old
  one ordered. `NoDriveDuringOwnPlacement` is about the same process for this.
* `used_slots` only grows: a refilled tray needs a restart of the node
  (`FullTraysRefuse`).
* A failed placement stops the job; the flow chart goes on with the next book
  (`docs/02_architecture_and_flow.md:96`).
* A job starts without the servers it will need: the task manager looks for each
  when it sends the goal, while `docs/06_runbook.md:114` wants all of them first.
* A goal that is lost with its server is awaited without a limit;
  `docs/05_test_plan_and_results.md:27` and `:82` want a failure. `Progress`
  excludes the case by name.
* The return machine compares identifiers before white space is stripped, so a
  tray it lets through may hold a book twice (`return_machine_node.py:37`); the
  planner refuses that tray.
* Two detection goals that overlap hold both threads: no image is processed, and
  both end with 3003 when their time is over.
* A second detection goal may begin after the first was woken and before it has
  read its result (`vision_manager.py:345`, `:376`). The first then finds none,
  answers 3004, and clears the active goal, which by now is the second: no frame
  is answered to that one any more, which ends with 3003 after its 10 s.
  `AloneIsServed` says that only goals that overlap are exposed to this.
* A key missing from `timeouts` or `retry_limits` of `system.yaml` is noticed when
  it is read, in the middle of a job (`task_manager_node.py:798`): the exception
  ends the node. `AlwaysAwaits` says that this is the only way it comes to rest.
* A task manager that was started again takes a tray anew that its predecessor had
  half done, and asks for books that stand on the shelf; `NeverPlacedTwice` is
  about one process.
* The depth image that answers a request may be older than the request: only
  `pending_detection` is set with the goal, `latest_depth_msg` stays, although
  `vision_manager.py:326` speaks of the next frame.
* A request whose image arrives while the focal length is not positive is used up
  (`vision_manager.py:481` clears the flag, `:492` returns).
* `max_recaptures` of a detection goal is read by nobody.
* A drive that fails by an exception carries the code 0 of a success, with the
  status aborted. The tolerance of a drive may be measured against the target of
  another goal.
* Feedback of Nav2 that arrives after the goal has cleared its target raises
  (`navigation_node.py:320`) and ends the node.
* The arm refuses every slot of the vision node, because its frame is `base_link`
  and the arm wants `arm_base_link`; its width, the thickness of the book with
  two margins, would be too small for the closed gripper for most profiles.
* The arm refuses a large book for a slot of the mock: its height of 300 mm
  needs 320 mm, and the slot has 315 mm.
* Sizes of a slot are checked although `require_slot_dimensions` is off
  (`docs/doyoon-kim/manipulation/FSM_INTEGRATION_REVIEW_20260918.md:67`).
* The look at the cancel flag in every phase of a mock server never finds it set
  after the first: its only thread is the one that executes.

## Plan

1. Done: `StateMachine`, `TaskManager`, `TrayService`, `JobPlanner`,
   `ReturnMachine`; proofs of the core invariant.
2. Done: `ManipulationExecutor`, `Manipulation`, `PlacementService`.
3. Done: `Vision`, `Navigation`, `ActionService`.
4. Done: `SlotContract`, `MockServers`.
5. Done: proofs of `Manipulation`, `Vision`, `Navigation`, `MockServers` and
   their refinements.
6. Done: composition of the task manager with the arm (`ShelvingSystem`), its
   proofs, `FailuresAreFinal`.
7. Done: the remaining proofs about the task manager (`TrayService_proofs`, the FSM).
8. Done: proofs about `ReturnMachine`, `JobPlanner` and the capacity of the tray;
   what the system promises to whoever brings a tray.
9. Composition of the task manager with `Navigation` and `Vision`, as with the arm.
