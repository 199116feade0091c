-------------------------- MODULE ManipulationExecutor --------------------------
(***************************************************************************)
(* The job executor inside Isaac Sim                                       *)
(* (simulation/isaac/controllers/manipulation_executor.py) with the arm    *)
(* controller it drives and the two topics that tie it to                  *)
(* manipulation_node.                                                      *)
(*                                                                         *)
(* spin() handles commands, moves the arm by one simulation step and       *)
(* judges what it sees.  It is one thread, but the node sees what it       *)
(* publishes in between, so commands and steps are actions of their own; a *)
(* simulation step that changes none of the variables is a stutter.        *)
(***************************************************************************)
EXTENDS Integers, Sequences, FiniteSets, SequencesExt

CONSTANTS
  Goal,     \* PlaceBook goals; the token of a command stands for its goal
  Slot,     \* indices of the tray slots, each of which holds a book at first
  Motion,   \* the phases an arm goes through for a job, in order
  Window,   \* how many of the last states may still be on their way
  Frame,    \* frame_id the node puts into its commands
  None

\* SIM_PHASE_ORDER of book_placer.py.
SimPhaseOrder == <<"plan", "home", "approach", "down", "grip", "attach", "lift",
                   "carry_rotate", "wedge", "detach", "release", "back",
                   "touch", "push", "retreat", "return", "verify">>
SimPhase == ToSet(SimPhaseOrder)

\* The phases of job_sequence in book_scene.py: all but "plan", "home", "verify".
JobSequence == SubSeq(SimPhaseOrder, 3, Len(SimPhaseOrder) - 1)

Status == {"RUNNING", "SUCCEEDED", "FAILED", "CANCELLED"}
Place == {"tray", "hand", "out", "shelf"}
Codes == {0, 401, 403, 404, 405, 406, 410, 411}
StateMessage == [token : Goal, status : Status, phase : SimPhase, code : Codes,
                 verified : BOOLEAN]
Command == [type : {"place", "cancel"}, token : Goal, slot : Slot \cup {None}]

\* An instance may leave out phases in which the executor does nothing special.
InOrder(p, q) == \E m, n \in DOMAIN JobSequence : /\ m < n
                                                  /\ JobSequence[m] = p
                                                  /\ JobSequence[n] = q
ASSUME ManipulationAssumption ==
  /\ Slot \subseteq Nat /\ IsFiniteSet(Slot)
  /\ Motion \in Seq(SimPhase)
  /\ \A i, j \in DOMAIN Motion : i < j => InOrder(Motion[i], Motion[j])
  /\ {"lift", "carry_rotate", "release"} \subseteq ToSet(Motion)
  /\ Window \in Nat \ {0}
  /\ Frame \in {"arm_base_link", "base_link"}
  /\ None \notin Goal \cup Int \cup StateMessage

VARIABLES
  commands,   \* the command topic: commands published and not yet handled
  states,     \* the state topic: the last states published
  job,        \* the state of the current job as it is published, or None
  target,     \* the tray slot whose book the job is about
  arm,        \* the phase the arm is in, 0 for a queued job, None when idle
  start,      \* the arm moves to its start position, has failed to get
              \* there, or is ready (ready, announced) to take commands
  where,      \* where the book of each tray slot is
  held,       \* the slot whose book is fixed to the hand, or None
  shelved     \* history: goals whose book was verified to stand on the shelf

scene == <<where, held, shelved>>
executorVars == <<commands, states, job, target, arm, start, scene>>

\* A state message; `verified` is placement_verified.
State(token, status, phase, code, verified) ==
  [token |-> token, status |-> status, phase |-> phase, code |-> code,
   verified |-> verified]
PlaceCommand(g, slot) == [type |-> "place", token |-> g, slot |-> slot]
CancelCommand(g) == [type |-> "cancel", token |-> g, slot |-> None]

Running == job # None /\ job.status = "RUNNING"
Moving == arm # None
PhaseOfArm == IF arm \in DOMAIN Motion THEN Motion[arm] ELSE "idle"

InitExecutor ==
  /\ commands = <<>> /\ states = <<>>
  /\ job = None /\ target = None /\ arm = None
  /\ start = "homing"
  /\ where = [s \in Slot |-> "tray"] /\ held = None
  /\ shelved = {}
-------------------------------------------------------------------------------
\* Publishing states: the last ones stay on their way to the node.
Push(new) == LET all == states \o new
             IN states' = SubSeq(all, Max({1, Len(all) - Window + 1}), Len(all))

\* publish(job.state) after a change; it is repeated until the next one.
Publish(new) == job' = new /\ Push(<<new>>)

\* finish()
Finish(status, phase, code, verified) ==
  Publish(State(job.token, status, phase, code, verified))

\* arm.cancel() in the middle of a motion: while the arm lifts, the book may
\* already be more than 3 cm away from where its slot is.
StopArm == /\ arm' = None
           /\ where' \in IF PhaseOfArm = "lift"
                         THEN {where, [where EXCEPT ![target] = "hand"]}
                         ELSE {where}

\* Mutant: the executor does not look whether the book is on the tray.
BookOnTrayUnchecked(slot) == TRUE

\* book_on_tray_near
BookOnTray(slot) == where[slot] = "tray"

\* A job that fails at once; it is published as running first.
RefuseJob(c, code) ==
  /\ job' = State(c.token, "FAILED", "plan", code, FALSE)
  /\ Push(<<State(c.token, "RUNNING", "plan", 0, FALSE), job'>>)
  /\ UNCHANGED <<target, arm>>

TakeJob(c) == /\ Publish(State(c.token, "RUNNING", "plan", 0, FALSE))
              /\ target' = c.slot
              /\ arm' = 0

\* start_job: checks in the order of the code, then the planner, which may find
\* no way (M401 and M402, here 401).
StartJob(c) ==
  /\ IF start # "ready" THEN RefuseJob(c, 411)
     ELSE IF Frame # "arm_base_link" THEN RefuseJob(c, 410)
     ELSE IF ~BookOnTray(c.slot) THEN RefuseJob(c, 411)
     ELSE RefuseJob(c, 401) \/ TakeJob(c)
  /\ UNCHANGED where

\* A place command while a job runs is answered, not queued.
RefuseBusy(c) ==
  /\ Push(<<State(c.token, "FAILED", "plan", 411, FALSE)>>)
  /\ UNCHANGED <<job, target, arm, where>>

\* Mutant: a cancel command stops whatever job runs.
CancelsAnyJob(c) == Running

\* The cancel command is for the running job.
Cancels(c) == Running /\ job.token = c.token

CancelJob(c) == /\ StopArm
                /\ Finish("CANCELLED", job.phase, 0, FALSE)
                /\ UNCHANGED target

\* handle()
HandleCommand ==
  /\ commands # <<>>
  /\ commands' = Tail(commands)
  /\ LET c == Head(commands)
     IN CASE c.type = "place" /\ Running  -> RefuseBusy(c)
          [] c.type = "place" /\ ~Running -> StartJob(c)
          [] c.type = "cancel" /\ Cancels(c) -> CancelJob(c)
          [] OTHER -> UNCHANGED <<states, job, target, arm, where>>
  /\ UNCHANGED <<start, held, shelved>>
-------------------------------------------------------------------------------
\* The start position is reached, or not: the motion fails by its time limit.
HomeReached == /\ start = "homing"
               /\ start' = "ready"
               /\ UNCHANGED <<commands, states, job, target, arm, scene>>
HomeFails == /\ start = "homing"
             /\ start' = "failed"
             /\ UNCHANGED <<commands, states, job, target, arm, scene>>

\* The next step finds the arm idle, and that is the test for being ready.
Announce == /\ start = "failed" /\ arm = None
            /\ start' = "ready"
            /\ UNCHANGED <<commands, states, job, target, arm, scene>>

\* What the simulation does to the books as the arm enters a phase: attach has
\* made the fixed joint before lift, detach has removed it before release, and
\* a book that is held is off the tray after the lift.
EnterPhase(phase) ==
  CASE phase = "lift" ->
         /\ held' = target
         /\ where' = IF held \notin {None, target}
                     THEN [where EXCEPT ![held] = "out"] ELSE where
    [] phase = "carry_rotate" ->
         /\ where' = [where EXCEPT ![target] = "hand"]
         /\ UNCHANGED held
    [] phase = "release" ->
         /\ held' = None
         /\ where' = [where EXCEPT ![target] = "out"]
    [] OTHER -> UNCHANGED <<held, where>>

\* The arm goes on to the next phase of the job.  It is published within a tenth
\* of a second; the node need not take the state, so a phase can pass unseen.
NextPhase ==
  /\ Running /\ Moving /\ arm < Len(Motion)
  /\ arm' = arm + 1
  /\ EnterPhase(Motion[arm + 1])
  /\ Publish([job EXCEPT !.phase = Motion[arm + 1]])
  /\ UNCHANGED <<commands, target, start, shelved>>

\* A job that fails on its way: the arm stops where it is.
Fail(phase, code) == /\ Finish("FAILED", phase, code, FALSE)
                     /\ UNCHANGED <<commands, target, start, held, shelved>>

\* M405: on entering carry_rotate the book has not risen with the hand.
GraspFailed ==
  /\ Running /\ PhaseOfArm = "lift" /\ Motion[arm + 1] = "carry_rotate"
  /\ Fail("carry_rotate", 405)
  /\ StopArm

\* M406: while it is carried or wedged in, the book has moved in the hand.
BookDropped ==
  /\ Running /\ PhaseOfArm \in {"carry_rotate", "wedge"}
  /\ Fail(job.phase, 406)
  /\ StopArm

\* Mutant: the failure of a motion goes on without an error code.
MotionTimeoutUncoded ==
  /\ Running /\ Moving
  /\ Fail(job.phase, None)
  /\ StopArm

\* M404: a motion does not end within its time limit.
MotionTimeout ==
  /\ Running /\ Moving
  /\ Fail(job.phase, 404)
  /\ StopArm

\* All phases are done: verify(), then M403 if a joint was too fast.
Verify ==
  /\ Running /\ arm = Len(Motion)
  /\ arm' = None
  /\ \E ok, tooFast \in BOOLEAN :
       /\ where' = [where EXCEPT ![target] = IF ok THEN "shelf" ELSE "out"]
       /\ shelved' = IF ok THEN shelved \cup {job.token} ELSE shelved
       /\ IF tooFast THEN Finish("FAILED", job.phase, 403, ok)
          ELSE Finish("SUCCEEDED", "verify", 0, ok)
  /\ UNCHANGED <<commands, target, start, held>>

\* A command nobody was subscribed for.
LoseCommand == /\ commands # <<>>
               /\ commands' = Tail(commands)
               /\ UNCHANGED <<states, job, target, arm, start, scene>>

NextExecutor == \/ HandleCommand
                \/ HomeReached \/ HomeFails \/ Announce
                \/ NextPhase \/ GraspFailed \/ BookDropped \/ MotionTimeout
                \/ Verify
                \/ LoseCommand
-------------------------------------------------------------------------------
ExecutorTypeOK ==
  /\ commands \in Seq(Command)
  /\ states \in Seq(StateMessage) /\ Len(states) <= Window
  /\ job \in StateMessage \cup {None}
  /\ target \in Slot \cup {None} /\ held \in Slot \cup {None}
  /\ arm \in 0 .. Len(Motion) \cup {None}
  /\ start \in {"homing", "failed", "ready"}
  /\ where \in [Slot -> Place] /\ shelved \subseteq Goal
===============================================================================
