--------------------------- MODULE Manipulation_proofs ---------------------------
(***************************************************************************)
(* What holds of manipulation_node and the executor in the simulator for   *)
(* any goals, tray, motion and number of states on their way.              *)
(***************************************************************************)
EXTENDS Manipulation, FiniteSetTheorems, WellFoundedInduction, TLAPS

-------------------------------------------------------------------------------
(* Sequences, phases, slots *)

\* What is on the topic after states are pushed was there or is new.
LEMMA PushFacts ==
  ASSUME states \in Seq(StateMessage), NEW new \in Seq(StateMessage), Push(new)
  PROVE  /\ states' \in Seq(StateMessage) /\ Len(states') <= Window
         /\ \A n \in DOMAIN states' : \/ \E k \in DOMAIN states : states'[n] = states[k]
                                      \/ \E k \in DOMAIN new : states'[n] = new[k]
  <1> DEFINE all == states \o new
             lo == Max({1, Len(all) - Window + 1})
  <1>1. all \in Seq(StateMessage) /\ Window \in Nat /\ Window > 0
    BY ManipulationAssumption DEF ManipulationAssumption
  <1>2. lo \in Nat /\ lo >= 1 /\ lo >= Len(all) - Window + 1
    <2> DEFINE S == {1, Len(all) - Window + 1}
    <2>1. \E x \in S : \A y \in S : x >= y
      BY <1>1
    <2>2. lo \in S /\ \A y \in S : lo >= y
      BY <2>1 DEF Max
    <2> QED BY <1>1, <2>2
  <1>3. states' = SubSeq(all, lo, Len(all))
    BY DEF Push
  <1> HIDE DEF lo
  <1>4. /\ states' \in Seq(StateMessage) /\ Len(states') <= Window
        /\ \A n \in DOMAIN states' : /\ lo + n - 1 \in 1 .. Len(all)
                                     /\ states'[n] = all[lo + n - 1]
    BY <1>1, <1>2, <1>3
  <1>5. ASSUME NEW n \in DOMAIN states'
        PROVE  \/ \E k \in DOMAIN states : states'[n] = states[k]
               \/ \E k \in DOMAIN new : states'[n] = new[k]
    <2> DEFINE k == lo + n - 1
    <2>1. k \in 1 .. Len(states) + Len(new) /\ states'[n] = all[k]
      BY <1>4
    <2> HIDE DEF k
    <2>2. CASE k <= Len(states)
      BY <2>1, <2>2
    <2>3. CASE k > Len(states)
      <3>1. k - Len(states) \in DOMAIN new /\ states'[n] = new[k - Len(states)]
        BY <2>1, <2>3
      <3> QED BY <3>1
    <2> QED BY <2>1, <2>2, <2>3
  <1> QED BY <1>4, <1>5

LEMMA ConcatFacts ==
  ASSUME NEW S, NEW p \in Seq(S), NEW q \in Seq(S), NEW r, r = p \o q
  PROVE  /\ r \in Seq(S)
         /\ \A i \in DOMAIN r : \/ i \in DOMAIN p /\ r[i] = p[i]
                                \/ \E k \in DOMAIN q : r[i] = q[k]
         /\ \A i \in DOMAIN p : i \in DOMAIN r /\ r[i] = p[i]
  <1>1. ASSUME NEW i \in DOMAIN r, i \notin DOMAIN p
        PROVE  i - Len(p) \in DOMAIN q /\ r[i] = q[i - Len(p)]
    BY <1>1
  <1>2. \A i \in DOMAIN r : i \in DOMAIN p => r[i] = p[i]
    OBVIOUS
  <1>3. \A i \in DOMAIN p : i \in DOMAIN r /\ r[i] = p[i]
    OBVIOUS
  <1>4. r \in Seq(S)
    OBVIOUS
  <1> QED BY <1>1, <1>2, <1>3, <1>4

\* The book is let go of after it was lifted, and not lifted again.
LEMMA NoLiftAfterRelease ==
  ASSUME NEW i \in DOMAIN Motion, NEW k \in DOMAIN Motion,
         Motion[k] = "release", Motion[i] = "lift"
  PROVE  i < k
  <1>1. Motion \in Seq(SimPhase)
    BY ManipulationAssumption DEF ManipulationAssumption
  <1>2. i \in Int /\ k \in Int /\ i # k
    BY <1>1
  <1>3. ~ InOrder("release", "lift")
    BY DEF InOrder, JobSequence, SimPhaseOrder
  <1>4. ~ (k < i)
    BY <1>3, ManipulationAssumption DEF ManipulationAssumption
  <1> QED BY <1>2, <1>4

LEMMA MotionFacts ==
  /\ Motion \in Seq(SimPhase)
  /\ \E k \in DOMAIN Motion : Motion[k] = "release"
  BY ManipulationAssumption DEF ManipulationAssumption, ToSet

LEMMA PhaseHasStep ==
  ASSUME NEW p \in SimPhase
  PROVE  StepOf(p) \in 0 .. Len(SimPhaseOrder)
  BY DEF StepOf, SimPhase, ToSet, SimPhaseOrder

LEMMA LeastIsMember ==
  ASSUME NEW S \in SUBSET Nat, S # {}
  PROVE  (CHOOSE s \in S : \A t \in S : s <= t) \in S
  <1> DEFINE Below == {p \in Nat \X Nat : p[1] < p[2]}
  <1>1. IsWellFoundedOn(Below, Nat)
    BY NatLessThanWellFounded DEF OpToRel
  <1> HIDE DEF Below
  <1>2. PICK n \in S : \A m \in S : ~ (<<m, n>> \in Below)
    BY <1>1, WFMin
  <1>3. ASSUME NEW m \in S PROVE n <= m
    <2>1. m \in Nat /\ n \in Nat
      OBVIOUS
    <2>2. ~ (<<m, n>> \in Below)
      BY <1>2
    <2>3. ~ (m < n)
      BY <2>1, <2>2 DEF Below
    <2> QED BY <2>1, <2>3
  <1> QED BY <1>2, <1>3

\* select_tray_slot: a slot of the tray, or an error code.
LEMMA SlotSelected ==
  ASSUME NEW b
  PROVE  LET selected == SlotOrCode(b)
         IN \/ "slot" \in DOMAIN selected /\ selected.slot \in Slot
            \/ "slot" \notin DOMAIN selected /\ selected.code \in {410, 411}
  <1>1. CASE b \in DOMAIN Assigned
    BY <1>1 DEF SlotOrCode
  <1>2. CASE b \notin DOMAIN Assigned /\ Free = {}
    BY <1>2 DEF SlotOrCode
  <1>3. CASE b \notin DOMAIN Assigned /\ Free # {}
    <2>1. Free \in SUBSET Nat /\ Free \subseteq Slot
      BY ManipulationAssumption DEF ManipulationAssumption, Free
    <2>2. (CHOOSE s \in Free : \A t \in Free : s <= t) \in Slot
      BY <1>3, <2>1, LeastIsMember
    <2> HIDE DEF Free
    <2> QED BY <1>3, <2>2 DEF SlotOrCode
  <1> QED BY <1>1, <1>2, <1>3
-------------------------------------------------------------------------------
(* The invariant *)

\* The place command of the goal is out; it is still on the command topic.
Sent(g) == stage[g] \in {"looping", "closing", "done"}
Pending(g) == \E i \in DOMAIN commands :
                commands[i].type = "place" /\ commands[i].token = g
Working(g) == Moving /\ job.token = g

\* Commands say what the node knows, and there is one to place for each goal.
CommandAgrees(i) ==
  /\ Sent(commands[i].token)
  /\ commands[i].type = "place" =>
       /\ commands[i].slot \in Slot /\ commands[i].slot = slotOf[commands[i].token]
       /\ \A j \in DOMAIN commands :
            /\ commands[j].type = "place" /\ commands[j].token = commands[i].token
            => i = j
  /\ commands[i].type = "cancel" => tracker[commands[i].token].cancelled
CommandsAgree == \A i \in DOMAIN commands : CommandAgrees(i)

\* The job is about the slot its goal has selected; a moving job runs, its book
\* is not on the shelf, and the hand is empty once it has let go.
JobAgrees ==
  /\ job # None => Sent(job.token) /\ ~Pending(job.token)
  /\ Moving => /\ Running
               /\ target \in Slot /\ target = slotOf[job.token]
               /\ where[target] # "shelf"
               /\ \A k \in DOMAIN Motion :
                    Motion[k] = "release" /\ arm >= k => held = None

\* States report what has happened: a goal that is over is not worked for, and
\* verified success is success.
Reported(m) ==
  /\ Sent(m.token) /\ ~Pending(m.token)
  /\ m.status # "RUNNING" => ~Working(m.token)
  /\ m.status = "SUCCEEDED" /\ m.verified => m.token \in shelved
StatesAgree == \A n \in DOMAIN states : Reported(states[n])

\* A goal has its slot; a shelved goal has its book there, and the book for
\* itself; a book in the hand is not on the shelf.
SceneAgrees ==
  /\ \A g \in Goal : stage[g] \in {"checked", "tracked", "looping", "closing"} =>
                      slotOf[g] \in Slot
  /\ \A g \in shelved : Sent(g) /\ slotOf[g] \in Slot /\ where[slotOf[g]] = "shelf"
  /\ \A g, h \in shelved : slotOf[g] = slotOf[h] => g = h
  /\ held # None => where[held] # "shelf"

\* Outcomes come from states, but for 404 and 411 (and 410 before any command).
OutcomesAgree ==
  \A g \in Goal : /\ outcome[g] # None => Sent(g)
                  /\ outcome[g] = 0 => g \in shelved
                  /\ outcome[g] \notin {None, 404, 411} => ~Pending(g) /\ ~Working(g)

IInv == /\ TypeOK /\ CommandsAgree /\ JobAgrees /\ StatesAgree
        /\ SceneAgrees /\ OutcomesAgree

LEMMA CommandType ==
  ASSUME ExecutorTypeOK, NEW i \in DOMAIN commands
  PROVE  commands[i] \in Command /\ commands[i].token \in Goal
  <1>1. commands \in Seq(Command)
    BY DEF ExecutorTypeOK
  <1>2. commands[i] \in Command
    BY <1>1
  <1> QED BY <1>2 DEF Command

LEMMA StateType ==
  ASSUME ExecutorTypeOK, NEW n \in DOMAIN states
  PROVE  states[n] \in StateMessage /\ states[n].token \in Goal
  <1>1. states \in Seq(StateMessage)
    BY DEF ExecutorTypeOK
  <1>2. states[n] \in StateMessage
    BY <1>1
  <1> QED BY <1>2 DEF StateMessage

LEMMA InitIInv == Init => IInv
  <1> SUFFICES ASSUME Init PROVE IInv
    OBVIOUS
  <1>1. TypeOK
    BY ManipulationAssumption
       DEF ManipulationAssumption, Init, InitExecutor, InitNode, TypeOK, ExecutorTypeOK,
           NodeTypeOK, Place, Stage,
           Tracker, NewTracker, SimPhaseOrder
  <1>2. CommandsAgree /\ JobAgrees /\ StatesAgree
    BY DEF Init, InitExecutor, CommandsAgree, JobAgrees, StatesAgree, Moving
  <1>3. SceneAgrees /\ OutcomesAgree
    BY ManipulationAssumption
       DEF ManipulationAssumption, Init, InitExecutor, InitNode, SceneAgrees, OutcomesAgree
  <1> QED BY <1>1, <1>2, <1>3 DEF IInv
-------------------------------------------------------------------------------
(* The node *)

\* What the node's own steps leave true of commands, job and states, as long as
\* they take back nothing of a goal whose command is out.
LEMMA ExecutorKept ==
  ASSUME IInv, UNCHANGED executorVars,
         \A g \in Goal : Sent(g) => /\ Sent(g)' /\ slotOf'[g] = slotOf[g]
                                    /\ tracker[g].cancelled => tracker'[g].cancelled
  PROVE  /\ CommandsAgree' /\ JobAgrees' /\ StatesAgree'
         /\ \A g \in shelved' : Sent(g)' /\ slotOf'[g] \in Slot /\ where'[slotOf'[g]] = "shelf"
         /\ \A g, h \in shelved' : slotOf'[g] = slotOf'[h] => g = h
         /\ held' # None => where'[held'] # "shelf"
         /\ \A g : (Pending(g)' <=> Pending(g)) /\ (Working(g)' <=> Working(g))
  <1>1. /\ commands' = commands /\ states' = states /\ job' = job /\ target' = target
        /\ arm' = arm /\ where' = where /\ held' = held /\ shelved' = shelved
    BY DEF executorVars, scene
  <1>2. \A i \in DOMAIN commands : commands[i].token \in Goal
    BY CommandType DEF IInv, TypeOK
  <1>3. \A n \in DOMAIN states : states[n].token \in Goal
    BY StateType DEF IInv, TypeOK
  <1>4. (job # None => job.token \in Goal) /\ shelved \subseteq Goal
    BY DEF IInv, TypeOK, ExecutorTypeOK, StateMessage
  <1>5. \A g : (Pending(g)' <=> Pending(g)) /\ (Working(g)' <=> Working(g))
    BY <1>1 DEF Pending, Working, Moving
  <1>6. CommandsAgree'
    BY <1>1, <1>2 DEF IInv, CommandsAgree, CommandAgrees
  <1>7. JobAgrees'
    BY <1>1, <1>4, <1>5 DEF IInv, JobAgrees, Moving, Running
  <1>8. StatesAgree'
    BY <1>1, <1>3, <1>5 DEF IInv, StatesAgree, Reported
  <1> QED BY <1>1, <1>4, <1>5, <1>6, <1>7, <1>8 DEF IInv, SceneAgrees

LEMMA ExecutorTypeKept ==
  ASSUME ExecutorTypeOK, UNCHANGED executorVars
  PROVE  ExecutorTypeOK'
  BY DEF ExecutorTypeOK, executorVars, scene

LEMMA GoalStep ==
  ASSUME IInv, NEW g \in Goal,
         OnGoal(g) \/ OnCancel(g) \/ SetTracker(g)
  PROVE  IInv'
  <1>1. TypeOK'
    <2>1. NodeTypeOK'
      <3>1. CASE OnGoal(g)
        BY <3>1 DEF OnGoal, IInv, TypeOK, NodeTypeOK, Stage
      <3>2. CASE OnCancel(g)
        BY <3>2 DEF OnCancel, IInv, TypeOK, NodeTypeOK
      <3>3. CASE SetTracker(g)
        BY <3>3 DEF SetTracker, IInv, TypeOK, NodeTypeOK, Stage
      <3> QED BY <3>1, <3>2, <3>3
    <2>2. ExecutorTypeOK'
      BY ExecutorTypeKept DEF OnGoal, OnCancel, SetTracker, IInv, TypeOK
    <2> QED BY <2>1, <2>2 DEF TypeOK
  <1>2. \A h \in Goal : Sent(h)' <=> Sent(h)
    BY DEF OnGoal, OnCancel, SetTracker, IInv, TypeOK, NodeTypeOK, Sent
  <1>3. UNCHANGED <<executorVars, slotOf, tracker, outcome>>
    BY DEF OnGoal, OnCancel, SetTracker
  <1>4. \A h \in Goal : stage'[h] \in {"checked", "tracked", "looping", "closing"} =>
          slotOf'[h] \in Slot
    BY <1>3 DEF OnGoal, OnCancel, SetTracker, IInv, TypeOK, NodeTypeOK, SceneAgrees
  <1>5. OutcomesAgree'
    BY <1>2, <1>3, ExecutorKept DEF IInv, OutcomesAgree, executorVars, scene
  <1> QED BY <1>1, <1>2, <1>3, <1>4, <1>5, ExecutorKept DEF IInv, SceneAgrees

LEMMA CheckGoalStep ==
  ASSUME IInv, NEW g \in Goal, CheckGoal(g)
  PROVE  IInv'
  <1>1. /\ stage[g] = "accepted" /\ UNCHANGED <<executorVars, asked, tracker, current, used>>
        /\ \/ /\ stage' = [stage EXCEPT ![g] = "checked"] /\ UNCHANGED outcome
              /\ \E s \in Slot : slotOf' = [slotOf EXCEPT ![g] = s]
           \/ /\ stage' = [stage EXCEPT ![g] = "done"] /\ UNCHANGED slotOf
              /\ \E c \in {410, 411} : outcome' = [outcome EXCEPT ![g] = c]
    <2>1. CASE g \in ValidGoal
      <3> DEFINE selected == SlotOrCode(BookOf[g])
      <3>1. \/ "slot" \in DOMAIN selected /\ selected.slot \in Slot
            \/ "slot" \notin DOMAIN selected /\ selected.code \in {410, 411}
        BY SlotSelected
      <3> QED BY <2>1, <3>1 DEF CheckGoal
    <2>2. CASE g \notin ValidGoal
      BY <2>2 DEF CheckGoal
    <2> QED BY <2>1, <2>2
  <1>2. TypeOK'
    <2>1. NodeTypeOK'
      BY <1>1 DEF IInv, TypeOK, NodeTypeOK, Stage, Codes
    <2>2. ExecutorTypeOK'
      BY <1>1, ExecutorTypeKept DEF IInv, TypeOK
    <2> QED BY <2>1, <2>2 DEF TypeOK
  <1>3. \A h \in Goal : Sent(h) => /\ Sent(h)' /\ slotOf'[h] = slotOf[h]
                                   /\ tracker'[h] = tracker[h]
    BY <1>1 DEF IInv, TypeOK, NodeTypeOK, Sent
  <1>4. \A h \in Goal : stage'[h] \in {"checked", "tracked", "looping", "closing"} =>
          slotOf'[h] \in Slot
    BY <1>1 DEF IInv, TypeOK, NodeTypeOK, SceneAgrees
  <1>5. OutcomesAgree'
    <2>1. ~Sent(g) /\ outcome[g] = None
      BY <1>1 DEF IInv, OutcomesAgree, Sent
    <2>2. ~Pending(g) /\ ~Working(g)
      BY <2>1 DEF Pending, Working, IInv, CommandsAgree, CommandAgrees, JobAgrees, Running
    <2>3. outcome'[g] # None => outcome'[g] \in {410, 411} /\ Sent(g)'
      BY <1>1, <2>1 DEF IInv, TypeOK, NodeTypeOK, Sent
    <2>4. \A h \in Goal \ {g} : outcome'[h] = outcome[h]
      BY <1>1 DEF IInv, TypeOK, NodeTypeOK
    <2>5. UNCHANGED shelved
      BY <1>1 DEF executorVars, scene
    <2>6. \A h : (Pending(h)' <=> Pending(h)) /\ (Working(h)' <=> Working(h))
      BY <1>1, <1>3, ExecutorKept
    <2>7. ASSUME NEW h \in Goal
          PROVE  /\ outcome'[h] # None => Sent(h)'
                 /\ outcome'[h] = 0 => h \in shelved'
                 /\ outcome'[h] \notin {None, 404, 411} => ~Pending(h)' /\ ~Working(h)'
      <3>1. CASE h = g
        BY <2>2, <2>3, <2>6, <3>1, ManipulationAssumption DEF ManipulationAssumption
      <3>2. CASE h # g
        BY <1>3, <2>4, <2>5, <2>6, <3>2 DEF IInv, OutcomesAgree
      <3> QED BY <3>1, <3>2
    <2> QED BY <2>7 DEF OutcomesAgree
  <1> QED BY <1>1, <1>2, <1>3, <1>4, <1>5, ExecutorKept DEF IInv, SceneAgrees

\* The place command of a goal is the first thing the executor hears of it.
LEMMA SendPlaceStep ==
  ASSUME IInv, NEW g \in Goal, SendPlace(g)
  PROVE  IInv'
  <1> DEFINE c == PlaceCommand(g, slotOf[g])
  <1>1. /\ stage[g] = "tracked" /\ stage' = [stage EXCEPT ![g] = "looping"]
        /\ commands' = Append(commands, c)
        /\ UNCHANGED <<states, job, target, arm, start, where, held, shelved, asked,
                       slotOf, tracker, outcome, current, used>>
    BY DEF SendPlace, scene
  <1>2. ExecutorTypeOK /\ NodeTypeOK /\ commands \in Seq(Command)
    BY DEF IInv, TypeOK, ExecutorTypeOK
  <1>3. slotOf[g] \in Slot /\ ~Sent(g)
    BY <1>1 DEF IInv, SceneAgrees, Sent
  <1>4. c \in Command /\ c.type = "place" /\ c.token = g /\ c.slot = slotOf[g]
    BY <1>3 DEF PlaceCommand, Command
  <1> HIDE DEF c
  <1>5. /\ commands' \in Seq(Command)
        /\ \A i \in DOMAIN commands' : \/ i \in DOMAIN commands /\ commands'[i] = commands[i]
                                       \/ i = Len(commands) + 1 /\ commands'[i] = c
    BY <1>1, <1>2, <1>4
  <1>6. \A h \in Goal : Sent(h)' <=> Sent(h) \/ h = g
    BY <1>1, <1>2 DEF NodeTypeOK, Sent
  <1>7. \A i \in DOMAIN commands : commands[i].token \in Goal /\ commands[i].token # g
    BY <1>2, <1>3, CommandType DEF IInv, CommandsAgree, CommandAgrees
  <1>8. \A h \in Goal \ {g} : Pending(h)' => Pending(h)
    BY <1>4, <1>5 DEF Pending
  <1>9. TypeOK'
    <2>1. ExecutorTypeOK'
      BY <1>1, <1>2, <1>5 DEF ExecutorTypeOK
    <2>2. NodeTypeOK'
      BY <1>1, <1>2 DEF NodeTypeOK, Stage
    <2> QED BY <2>1, <2>2 DEF TypeOK
  <1>10. CommandsAgree'
    BY <1>1, <1>3, <1>4, <1>5, <1>6, <1>7 DEF IInv, CommandsAgree, CommandAgrees
  <1>11. job # None => job.token \in Goal /\ job.token # g
    BY <1>2, <1>3 DEF ExecutorTypeOK, StateMessage, IInv, JobAgrees
  <1>12. JobAgrees'
    BY <1>1, <1>6, <1>8, <1>11 DEF IInv, JobAgrees, Moving, Running
  <1>13. \A h : Working(h)' <=> Working(h)
    BY <1>1 DEF Working, Moving
  <1>14. StatesAgree'
    <2>1. \A n \in DOMAIN states : states[n].token \in Goal /\ states[n].token # g
      BY <1>2, <1>3, StateType DEF IInv, StatesAgree, Reported
    <2> QED BY <1>1, <1>6, <1>8, <1>13, <2>1 DEF IInv, StatesAgree, Reported
  <1>15. SceneAgrees'
    BY <1>1, <1>2, <1>3, <1>6 DEF IInv, SceneAgrees, ExecutorTypeOK, NodeTypeOK
  <1>16. OutcomesAgree'
    <2>1. outcome[g] = None
      BY <1>3 DEF IInv, OutcomesAgree
    <2> QED BY <1>1, <1>6, <1>8, <1>13, <2>1, ManipulationAssumption
            DEF IInv, OutcomesAgree, ManipulationAssumption
  <1> QED BY <1>9, <1>10, <1>12, <1>14, <1>15, <1>16 DEF IInv

\* A turn adds cancel commands only, and remembers that it did.
CancelsAppended(g) ==
  \E n \in Seq({CancelCommand(g)}) : /\ commands' = commands \o n
                                     /\ n # <<>> => tracker'[g].cancelled

\* What a turn of the loop does, whichever limits it finds to have passed.
LEMMA TurnEffect ==
  ASSUME IInv, NEW g \in Goal, NEW passed, Turn(g, passed)
  PROVE  /\ stage[g] = "looping" /\ stage' \in {stage, [stage EXCEPT ![g] = "closing"]}
         /\ CancelsAppended(g)
         /\ tracker' \in [Goal -> Tracker]
         /\ tracker[g].cancelled => tracker'[g].cancelled
         /\ \A h \in Goal \ {g} : tracker'[h] = tracker[h]
         /\ \/ outcome' = outcome
            \/ outcome[g] = None /\ \E e \in {404, 411} : outcome' = [outcome EXCEPT ![g] = e]
         /\ current' \in {current, None}
         /\ UNCHANGED <<states, job, target, arm, start, where, held, shelved, asked,
                        slotOf, used>>
  <1>1. /\ tracker \in [Goal -> Tracker] /\ outcome \in [Goal -> Codes \cup {409, 412, None}]
        /\ commands \in Seq(Command)
    BY DEF IInv, TypeOK, NodeTypeOK, ExecutorTypeOK
  <1>2. /\ stage[g] = "looping"
        /\ UNCHANGED <<states, job, target, arm, start, where, held, shelved, asked,
                       slotOf, used>>
    BY DEF Turn, scene
  <1>3. CASE outcome[g] # None
    <2>1. LeaveLoop(g, outcome[g]) /\ UNCHANGED <<commands, tracker>>
      BY <1>3 DEF Turn
    <2>2. commands' = commands \o <<>> /\ <<>> \in Seq({CancelCommand(g)})
      BY <1>1, <2>1
    <2>3. CancelsAppended(g)
      BY <2>2 DEF CancelsAppended
    <2> QED BY <1>1, <1>2, <2>1, <2>3 DEF LeaveLoop
  <1>4. CASE outcome[g] = None
    <2> DEFINE n == CancelsSent(g, passed)
               t == TrackerAfter(g, passed)
               C == {CancelCommand(g)}
    <2>1. n \in Seq(C)
      <3>1. <<CancelCommand(g)>> \in Seq(C) /\ <<>> \in Seq(C)
        OBVIOUS
      <3>2. \A p, q \in Seq(C) : p \o q \in Seq(C)
        OBVIOUS
      <3> HIDE DEF C
      <3> QED BY <3>1, <3>2 DEF CancelsSent
    <2>2. /\ commands' = commands \o n
          /\ tracker' = [tracker EXCEPT ![g] = t]
          /\ IF GaveUp(g, passed) = None THEN UNCHANGED <<stage, outcome, current>>
             ELSE LeaveLoop(g, GaveUp(g, passed))
      BY <1>4 DEF Turn
    <2>3. /\ t \in Tracker
          /\ tracker[g].cancelled => t.cancelled
          /\ n # <<>> => t.cancelled
      <3>1. tracker[g] \in Tracker
        BY <1>1
      <3>2. GoalTimeout(g, passed) \in BOOLEAN
        BY DEF GoalTimeout
      <3> QED BY <3>1, <3>2 DEF Tracker, TrackerAfter
    <2>4. GaveUp(g, passed) \in {404, 411, None}
      BY DEF GaveUp
    <2> HIDE DEF n, t
    <2>5. /\ tracker' \in [Goal -> Tracker]
          /\ tracker[g].cancelled => tracker'[g].cancelled
          /\ n # <<>> => tracker'[g].cancelled
          /\ \A h \in Goal \ {g} : tracker'[h] = tracker[h]
      BY <1>1, <2>2, <2>3
    <2>6. CancelsAppended(g)
      BY <2>1, <2>2, <2>5 DEF CancelsAppended
    <2>7. CASE GaveUp(g, passed) = None
      <3>1. UNCHANGED <<stage, outcome, current>>
        BY <2>2, <2>7
      <3> QED BY <1>2, <2>5, <2>6, <3>1
    <2>8. CASE GaveUp(g, passed) # None
      <3>1. LeaveLoop(g, GaveUp(g, passed)) /\ GaveUp(g, passed) \in {404, 411}
        BY <2>2, <2>4, <2>8
      <3> QED BY <1>2, <1>4, <2>5, <2>6, <3>1 DEF LeaveLoop
    <2> QED BY <2>7, <2>8
  <1> QED BY <1>3, <1>4

LEMMA TurnStep ==
  ASSUME IInv, NEW g \in Goal, NEW passed, Turn(g, passed)
  PROVE  IInv'
  <1>1. /\ stage[g] = "looping" /\ stage' \in {stage, [stage EXCEPT ![g] = "closing"]}
        /\ tracker' \in [Goal -> Tracker]
        /\ tracker[g].cancelled => tracker'[g].cancelled
        /\ \A h \in Goal \ {g} : tracker'[h] = tracker[h]
        /\ \/ outcome' = outcome
           \/ outcome[g] = None /\ \E e \in {404, 411} : outcome' = [outcome EXCEPT ![g] = e]
        /\ current' \in {current, None}
        /\ UNCHANGED <<states, job, target, arm, start, where, held, shelved, asked,
                       slotOf, used>>
    BY TurnEffect
  <1>2. PICK n \in Seq({CancelCommand(g)}) : /\ commands' = commands \o n
                                             /\ n # <<>> => tracker'[g].cancelled
    BY TurnEffect DEF CancelsAppended
  <1>3. ExecutorTypeOK /\ NodeTypeOK /\ commands \in Seq(Command)
    BY DEF IInv, TypeOK, ExecutorTypeOK
  <1>4. /\ CancelCommand(g) \in Command /\ CancelCommand(g).type = "cancel"
        /\ CancelCommand(g).token = g
    BY DEF CancelCommand, Command
  <1>5. /\ commands' \in Seq(Command)
        /\ \A i \in DOMAIN commands' :
             \/ i \in DOMAIN commands /\ commands'[i] = commands[i]
             \/ commands'[i] = CancelCommand(g) /\ tracker'[g].cancelled
        /\ \A i \in DOMAIN commands : i \in DOMAIN commands' /\ commands'[i] = commands[i]
    <2>1. n \in Seq(Command)
      BY <1>4
    <2>2. /\ commands' \in Seq(Command)
          /\ \A i \in DOMAIN commands' :
               \/ i \in DOMAIN commands /\ commands'[i] = commands[i]
               \/ \E k \in DOMAIN n : commands'[i] = n[k]
          /\ \A i \in DOMAIN commands : i \in DOMAIN commands' /\ commands'[i] = commands[i]
      <3> DEFINE Conclusion(r) ==
                   /\ r \in Seq(Command)
                   /\ \A i \in DOMAIN r : \/ i \in DOMAIN commands /\ r[i] = commands[i]
                                          \/ \E k \in DOMAIN n : r[i] = n[k]
                   /\ \A i \in DOMAIN commands : i \in DOMAIN r /\ r[i] = commands[i]
      <3>1. \A r : r = commands \o n => Conclusion(r)
        BY <1>3, <2>1, ConcatFacts
      <3> HIDE DEF Conclusion
      <3>2. Conclusion(commands')
        BY <1>2, <3>1
      <3> QED BY <3>2 DEF Conclusion
    <2>3. ASSUME NEW k \in DOMAIN n
          PROVE  n[k] = CancelCommand(g) /\ tracker'[g].cancelled
      <3>1. n[k] \in {CancelCommand(g)}
        OBVIOUS
      <3>2. n # <<>>
        OBVIOUS
      <3>3. n[k] = CancelCommand(g)
        BY <3>1
      <3>4. tracker'[g].cancelled
        BY ONLY <1>2, <3>2
      <3> QED BY ONLY <3>3, <3>4
    <2> QED BY <2>2, <2>3
  <1>6. \A h \in Goal : Sent(h)' <=> Sent(h)
    BY <1>1, <1>3 DEF NodeTypeOK, Sent
  <1>7. \A h : (Pending(h)' <=> Pending(h)) /\ (Working(h)' <=> Working(h))
    BY <1>1, <1>4, <1>5 DEF Pending, Working, Moving
  <1>8. TypeOK'
    <2>1. ExecutorTypeOK'
      BY <1>1, <1>3, <1>5 DEF ExecutorTypeOK
    <2>2. stage' \in [Goal -> Stage]
      BY <1>1, <1>3 DEF NodeTypeOK, Stage
    <2>3. outcome' \in [Goal -> Codes \cup {409, 412, None}]
      <3>1. outcome \in [Goal -> Codes \cup {409, 412, None}] /\ {404, 411} \subseteq Codes
        BY <1>3 DEF NodeTypeOK, Codes
      <3> QED BY <1>1, <3>1
    <2>4. NodeTypeOK'
      BY <1>1, <1>3, <2>2, <2>3 DEF NodeTypeOK
    <2> QED BY <2>1, <2>4 DEF TypeOK
  <1>9. CommandsAgree'
    <2>1. Sent(g)
      BY <1>1 DEF Sent
    <2>2. \A i \in DOMAIN commands : commands[i].token \in Goal
      BY <1>3, CommandType
    <2>3. ASSUME NEW i \in DOMAIN commands', i \in DOMAIN commands,
                 commands'[i] = commands[i]
          PROVE  CommandAgrees(i)'
      <3>1. CommandAgrees(i) /\ commands[i].token \in Goal
        BY <2>2, <2>3 DEF IInv, CommandsAgree
      <3>2. \A j \in DOMAIN commands' : commands'[j].type = "place" =>
              j \in DOMAIN commands /\ commands'[j] = commands[j]
        BY <1>4, <1>5
      <3>3. tracker[commands[i].token].cancelled => tracker'[commands[i].token].cancelled
        BY <1>1, <3>1
      <3> QED BY <1>1, <1>6, <2>3, <3>1, <3>2, <3>3 DEF CommandAgrees
    <2>4. ASSUME NEW i \in DOMAIN commands', commands'[i] = CancelCommand(g),
                 tracker'[g].cancelled
          PROVE  CommandAgrees(i)'
      BY <1>4, <1>6, <2>1, <2>4 DEF CommandAgrees
    <2> QED BY <1>5, <2>3, <2>4 DEF CommandsAgree
  <1>10. JobAgrees'
    <2>1. job # None => job.token \in Goal
      BY <1>3 DEF ExecutorTypeOK, StateMessage
    <2> QED BY <1>1, <1>6, <1>7, <2>1 DEF IInv, JobAgrees, Moving, Running
  <1>11. StatesAgree'
    <2>1. \A k \in DOMAIN states : states[k].token \in Goal
      BY <1>3, StateType
    <2> QED BY <1>1, <1>6, <1>7, <2>1 DEF IInv, StatesAgree, Reported
  <1>12. SceneAgrees'
    BY <1>1, <1>3, <1>6 DEF IInv, SceneAgrees, ExecutorTypeOK, NodeTypeOK
  <1>13. OutcomesAgree'
    <2>1. Sent(g)
      BY <1>1 DEF Sent
    <2>2. ASSUME NEW h \in Goal
          PROVE  outcome'[h] = outcome[h] \/ (h = g /\ outcome'[h] \in {404, 411})
      <3>1. outcome \in [Goal -> Codes \cup {409, 412, None}]
        BY <1>3 DEF NodeTypeOK
      <3> QED BY <1>1, <3>1
    <2> QED BY <1>1, <1>6, <1>7, <2>1, <2>2 DEF IInv, OutcomesAgree
  <1> QED BY <1>8, <1>9, <1>10, <1>11, <1>12, <1>13 DEF IInv

\* The book of a goal that ended as placed, or was seen off the tray, is used up.
LEMMA FinishGoalStep ==
  ASSUME IInv, NEW g \in Goal, FinishGoal(g)
  PROVE  IInv'
  <1>1. /\ stage[g] = "closing" /\ stage' = [stage EXCEPT ![g] = "done"]
        /\ used' \in {used, used \cup {slotOf[g]}}
        /\ tracker' = [tracker EXCEPT ![g] = [NewTracker EXCEPT !.cancelled =
                                                tracker[g].cancelled]]
        /\ UNCHANGED <<executorVars, asked, slotOf, outcome, current>>
    BY DEF FinishGoal
  <1>2. NodeTypeOK /\ slotOf[g] \in Slot
    BY <1>1 DEF IInv, TypeOK, SceneAgrees
  <1>3. TypeOK'
    <2>1. [NewTracker EXCEPT !.cancelled = tracker[g].cancelled] \in Tracker
      <3>1. tracker[g].cancelled \in BOOLEAN
        BY <1>2 DEF NodeTypeOK, Tracker
      <3>2. 0 \in 0 .. Len(SimPhaseOrder)
        BY DEF SimPhaseOrder
      <3> QED BY <3>1, <3>2 DEF NewTracker, Tracker
    <2>2. NodeTypeOK'
      BY <1>1, <1>2, <2>1 DEF NodeTypeOK, Stage
    <2>3. ExecutorTypeOK'
      BY <1>1, ExecutorTypeKept DEF IInv, TypeOK
    <2> QED BY <2>2, <2>3 DEF TypeOK
  <1>4. \A h \in Goal : /\ Sent(h)' <=> Sent(h)
                        /\ tracker[h].cancelled => tracker'[h].cancelled
    BY <1>1, <1>2 DEF NodeTypeOK, Sent, Tracker, NewTracker
  <1>5. \A h \in Goal : stage'[h] \in {"checked", "tracked", "looping", "closing"} =>
          slotOf'[h] \in Slot
    BY <1>1, <1>2 DEF IInv, NodeTypeOK, SceneAgrees
  <1>6. OutcomesAgree'
    BY <1>1, <1>4, ExecutorKept DEF IInv, OutcomesAgree, executorVars, scene
  <1> QED BY <1>1, <1>3, <1>4, <1>5, <1>6, ExecutorKept DEF IInv, SceneAgrees

\* A state the node takes tells the truth about its goal.
LEMMA OnSimStateStep ==
  ASSUME IInv, NEW m \in ToSet(states), OnSimState(m)
  PROVE  IInv'
  <1> DEFINE g == m.token
             code == OutcomeOf(m, tracker[g].timedOut)
  <1>1. PICK k \in DOMAIN states : m = states[k]
    BY DEF ToSet
  <1>2. m \in StateMessage /\ g \in Goal /\ Reported(m)
    BY <1>1, StateType DEF IInv, TypeOK, StatesAgree
  <1>3. /\ current = g /\ outcome[g] = None
        /\ outcome' = [outcome EXCEPT ![g] = code]
        /\ tracker' = [tracker EXCEPT ![g] = TrackerTold(tracker[g], m)]
        /\ UNCHANGED <<executorVars, stage, asked, slotOf, current, used>>
    BY DEF OnSimState, TakesState
  <1>4. NodeTypeOK /\ tracker[g] \in Tracker
    BY <1>2 DEF IInv, TypeOK, NodeTypeOK
  <1>5. ProgressAfter(tracker[g], m) \in 0 .. Len(SimPhaseOrder)
    <2>1. m.phase \in SimPhase
      BY <1>2 DEF StateMessage
    <2>2. StepOf(m.phase) \in 0 .. Len(SimPhaseOrder)
      BY <2>1, PhaseHasStep
    <2>3. tracker[g].progress \in 0 .. Len(SimPhaseOrder)
      BY <1>4 DEF Tracker
    <2>4. Len(SimPhaseOrder) \in 0 .. Len(SimPhaseOrder)
      BY DEF SimPhaseOrder
    <2> QED BY <2>2, <2>3, <2>4 DEF ProgressAfter
  <1>6. /\ code \in Codes \cup {409, 412, None}
        /\ code = 0 => m.status = "SUCCEEDED" /\ m.verified
        /\ code # None => m.status # "RUNNING"
    BY <1>2, ManipulationAssumption
       DEF ManipulationAssumption, OutcomeOf, StateMessage, Status, Codes
  <1> HIDE DEF code
  <1>7. TypeOK'
    <2>2. TrackerTold(tracker[g], m) \in Tracker
      BY <1>4, <1>5 DEF Tracker, TrackerTold
    <2>3. NodeTypeOK'
      BY <1>2, <1>3, <1>4, <1>6, <2>2 DEF NodeTypeOK
    <2>4. ExecutorTypeOK'
      BY <1>3, ExecutorTypeKept DEF IInv, TypeOK
    <2> QED BY <2>3, <2>4 DEF TypeOK
  <1>8. \A h \in Goal : /\ Sent(h)' <=> Sent(h)
                        /\ tracker[h].cancelled => tracker'[h].cancelled
    BY <1>3, <1>4 DEF NodeTypeOK, Sent, Tracker, TrackerTold
  <1>9. OutcomesAgree'
    <2>1. /\ \A h : (Pending(h)' <=> Pending(h)) /\ (Working(h)' <=> Working(h))
          /\ shelved' = shelved
      BY <1>3, <1>8, ExecutorKept DEF executorVars, scene
    <2>2. ASSUME NEW h \in Goal
          PROVE  /\ outcome'[h] # None => Sent(h)'
                 /\ outcome'[h] = 0 => h \in shelved'
                 /\ outcome'[h] \notin {None, 404, 411} => ~Pending(h)' /\ ~Working(h)'
      <3>1. CASE h = g
        <4>1. outcome'[h] = code
          BY <1>2, <1>3, <1>4, <3>1 DEF NodeTypeOK
        <4> QED BY <1>2, <1>6, <1>8, <2>1, <3>1, <4>1 DEF Reported
      <3>2. CASE h # g
        <4>1. outcome'[h] = outcome[h]
          BY <1>2, <1>3, <1>4, <3>2 DEF NodeTypeOK
        <4> QED BY <1>8, <2>1, <4>1 DEF IInv, OutcomesAgree
      <3> QED BY <3>1, <3>2
    <2> QED BY <2>2 DEF OutcomesAgree
  <1>10. \A h \in Goal : stage'[h] \in {"checked", "tracked", "looping", "closing"} =>
          slotOf'[h] \in Slot
    BY <1>3 DEF IInv, SceneAgrees
  <1> QED BY <1>3, <1>7, <1>8, <1>9, <1>10, ExecutorKept DEF IInv, SceneAgrees
-------------------------------------------------------------------------------
(* The executor: what its steps have in common *)

LEMMA LeaveTopic ==
  ASSUME NEW S, NEW q \in Seq(S), q # <<>>
  PROVE  /\ Tail(q) \in Seq(S) /\ Head(q) = q[1] /\ 1 \in DOMAIN q
         /\ \A i \in DOMAIN Tail(q) : /\ i \in Nat /\ i >= 1 /\ i + 1 \in DOMAIN q
                                      /\ Tail(q)[i] = q[i + 1]
  OBVIOUS

\* The executor handles or loses the first command, or leaves the topic alone.
TopicGoesOn == commands' = commands \/ (commands # <<>> /\ commands' = Tail(commands))

LEMMA TopicKept ==
  ASSUME IInv, UNCHANGED nodeVars, TopicGoesOn
  PROVE  /\ commands' \in Seq(Command) /\ CommandsAgree'
         /\ \A h : Pending(h)' => Pending(h)
         /\ \A g \in Goal : Sent(g)' <=> Sent(g)
  <1>1. commands \in Seq(Command) /\ UNCHANGED <<stage, slotOf, tracker>>
    BY DEF IInv, TypeOK, ExecutorTypeOK, nodeVars
  <1>2. \A i \in DOMAIN commands : CommandAgrees(i)
    BY DEF IInv, CommandsAgree
  <1>3. \A g \in Goal : Sent(g)' <=> Sent(g)
    BY <1>1 DEF Sent
  <1>4. CASE commands' = commands
    <2>1. \A h : Pending(h)' => Pending(h)
      BY <1>4 DEF Pending
    <2>2. CommandsAgree'
      BY <1>1, <1>2, <1>4 DEF CommandsAgree, CommandAgrees, Sent
    <2> QED BY <1>1, <1>3, <1>4, <2>1, <2>2
  <1>5. CASE commands # <<>> /\ commands' = Tail(commands)
    <2>1. /\ commands' \in Seq(Command)
          /\ \A i \in DOMAIN commands' : /\ i \in Nat /\ i + 1 \in DOMAIN commands
                                         /\ commands'[i] = commands[i + 1]
      BY <1>1, <1>5, LeaveTopic
    <2>2. \A h : Pending(h)' => Pending(h)
      BY <2>1 DEF Pending
    <2>3. ASSUME NEW i \in DOMAIN commands'
          PROVE  CommandAgrees(i)'
      <3>1. CommandAgrees(i + 1) /\ i \in Nat
        BY <1>2, <2>1
      <3>2. commands'[i] = commands[i + 1]
        BY <2>1
      <3>3. ASSUME NEW j \in DOMAIN commands', commands'[j].type = "place",
                   commands'[j].token = commands'[i].token,
                   commands'[i].type = "place"
            PROVE  i = j
        <4>1. j \in Nat /\ j + 1 \in DOMAIN commands /\ commands'[j] = commands[j + 1]
          BY <2>1
        <4>2. i + 1 = j + 1
          BY <3>1, <3>2, <3>3, <4>1 DEF CommandAgrees
        <4> QED BY <3>1, <4>1, <4>2
      <3> QED BY <1>1, <3>1, <3>2, <3>3 DEF CommandAgrees, Sent
    <2>4. CommandsAgree'
      BY <2>3 DEF CommandsAgree
    <2> QED BY <1>3, <2>1, <2>2, <2>4
  <1> QED BY <1>4, <1>5 DEF TopicGoesOn

\* The first command, once it is handled, was the only one to place its goal.
LEMMA FirstCommand ==
  ASSUME IInv, UNCHANGED nodeVars, commands # <<>>, commands' = Tail(commands),
         NEW c, c = Head(commands)
  PROVE  /\ c \in Command /\ c.token \in Goal /\ Sent(c.token)
         /\ c.type = "place" => /\ c.slot \in Slot /\ c.slot = slotOf[c.token]
                                /\ Pending(c.token) /\ ~Pending(c.token)'
         /\ c.type = "cancel" => tracker[c.token].cancelled
  <1>1. commands \in Seq(Command)
    BY DEF IInv, TypeOK, ExecutorTypeOK
  <1>2. /\ c = commands[1] /\ 1 \in DOMAIN commands
        /\ \A i \in DOMAIN commands' : /\ i \in Nat /\ i >= 1 /\ i + 1 \in DOMAIN commands
                                       /\ commands'[i] = commands[i + 1]
    BY <1>1, LeaveTopic
  <1>3. CommandAgrees(1) /\ c \in Command /\ c.token \in Goal
    BY <1>2, CommandType DEF IInv, TypeOK, CommandsAgree
  <1>4. ASSUME c.type = "place" PROVE ~Pending(c.token)'
    <2>1. ASSUME NEW i \in DOMAIN commands', commands'[i].type = "place",
                 commands'[i].token = c.token
          PROVE  FALSE
      <3>1. /\ i \in Nat /\ i >= 1 /\ i + 1 \in DOMAIN commands
            /\ commands[i + 1].type = "place" /\ commands[i + 1].token = c.token
        BY <1>2, <2>1
      <3>2. i + 1 = 1
        BY <1>2, <1>3, <1>4, <3>1 DEF CommandAgrees
      <3> QED BY <3>1, <3>2
    <2> QED BY <2>1 DEF Pending
  <1> QED BY <1>2, <1>3, <1>4 DEF CommandAgrees, Pending

\* States and outcomes stay true as long as a goal is worked for only after its
\* command was handled, and what is published is true.
LEMMA ReportsKept ==
  ASSUME IInv, UNCHANGED nodeVars, TopicGoesOn, shelved \subseteq shelved',
         \A h \in Goal : Working(h)' => Working(h) \/ Pending(h),
         NEW new \in Seq(StateMessage),
         \/ Push(new)
         \/ UNCHANGED states,
         \A k \in DOMAIN new : Reported(new[k])'
  PROVE  /\ states' \in Seq(StateMessage) /\ Len(states') <= Window
         /\ StatesAgree' /\ OutcomesAgree'
  <1>1. states \in Seq(StateMessage) /\ Len(states) <= Window
    BY DEF IInv, TypeOK, ExecutorTypeOK
  <1>2. /\ states' \in Seq(StateMessage) /\ Len(states') <= Window
        /\ \A n \in DOMAIN states' : \/ \E k \in DOMAIN states : states'[n] = states[k]
                                     \/ \E k \in DOMAIN new : states'[n] = new[k]
    BY <1>1, PushFacts
  <1>3. /\ \A h : Pending(h)' => Pending(h)
        /\ \A g \in Goal : Sent(g)' <=> Sent(g)
    BY TopicKept
  <1>4. StatesAgree'
    <2>1. ASSUME NEW m, NEW k \in DOMAIN states, m = states[k]
          PROVE  Reported(m)'
      <3>1. m.token \in Goal /\ Reported(m)
        BY <2>1, StateType DEF IInv, TypeOK, StatesAgree
      <3> QED BY <1>3, <3>1 DEF Reported
    <2>2. ASSUME NEW n \in DOMAIN states', NEW m, m = states'[n]
          PROVE  Reported(m)'
      <3>1. CASE \E k \in DOMAIN states : m = states[k]
        BY <2>1, <3>1
      <3>2. CASE \E k \in DOMAIN new : m = new[k]
        BY <3>2
      <3> QED BY <1>2, <2>2, <3>1, <3>2
    <2> QED BY <2>2 DEF StatesAgree, Reported
  <1>5. OutcomesAgree'
    <2>1. UNCHANGED outcome
      BY DEF nodeVars
    <2> QED BY <1>3, <2>1 DEF IInv, OutcomesAgree
  <1> QED BY <1>2, <1>4, <1>5

\* The scene stays true if no book gets to the shelf or leaves it.
LEMMA SceneKept ==
  ASSUME IInv, UNCHANGED <<nodeVars, shelved>>,
         \A s \in Slot : where'[s] = "shelf" <=> where[s] = "shelf",
         held' # None => where'[held'] # "shelf"
  PROVE  SceneAgrees'
  <1>1. UNCHANGED <<stage, slotOf, shelved>>
    BY DEF nodeVars
  <1>2. \A g \in shelved : g \in Goal
    BY DEF IInv, TypeOK, ExecutorTypeOK
  <1> QED BY <1>1, <1>2 DEF IInv, SceneAgrees, Sent

\* The arm stops where it is.
LEMMA StopArmFacts ==
  ASSUME IInv, StopArm, UNCHANGED held
  PROVE  /\ arm' = None /\ where' \in [Slot -> Place]
         /\ \A s \in Slot : where'[s] = "shelf" <=> where[s] = "shelf"
         /\ held' # None => where'[held'] # "shelf"
  <1>1. /\ where \in [Slot -> Place] /\ held \in Slot \cup {None}
        /\ held # None => where[held] # "shelf"
    BY DEF IInv, TypeOK, ExecutorTypeOK, SceneAgrees
  <1>2. CASE where' = where
    BY <1>1, <1>2 DEF StopArm
  <1>3. CASE where' # where
    <2>1. PhaseOfArm = "lift" /\ where' = [where EXCEPT ![target] = "hand"] /\ arm' = None
      BY <1>3 DEF StopArm
    <2>2. arm \in DOMAIN Motion
      BY <2>1 DEF PhaseOfArm
    <2>3. Moving
      BY <2>2, MotionFacts, ManipulationAssumption DEF ManipulationAssumption, Moving
    <2>4. target \in Slot /\ where[target] # "shelf"
      BY <2>3 DEF IInv, JobAgrees
    <2> QED BY <1>1, <2>1, <2>4 DEF Place
  <1> QED BY <1>2, <1>3

LEMMA OneReported ==
  ASSUME IInv, UNCHANGED nodeVars, TopicGoesOn, shelved \subseteq shelved',
         \A h \in Goal : Working(h)' => Working(h) \/ Pending(h),
         NEW m \in StateMessage, Push(<<m>>), Reported(m)'
  PROVE  /\ states' \in Seq(StateMessage) /\ Len(states') <= Window
         /\ StatesAgree' /\ OutcomesAgree'
  <1> DEFINE new == <<m>>
  <1>1. new \in Seq(StateMessage) /\ DOMAIN new = {1} /\ new[1] = m
    OBVIOUS
  <1>2. Push(new)
    OBVIOUS
  <1> HIDE DEF new
  <1>3. ASSUME NEW k \in DOMAIN new PROVE Reported(new[k])'
    <2>1. new[k] = m
      BY <1>1
    <2> QED BY <2>1 DEF Reported
  <1> QED BY <1>1, <1>2, <1>3, ReportsKept

\* A job that ends before its motion does: failed or cancelled, no success.
LEMMA JobStops ==
  ASSUME IInv, UNCHANGED <<nodeVars, target, start, held, shelved>>, TopicGoesOn,
         Running, StopArm, NEW status \in {"FAILED", "CANCELLED"},
         NEW phase \in SimPhase, NEW code \in Codes, Finish(status, phase, code, FALSE)
  PROVE  IInv'
  <1> PICK new : new = State(job.token, status, phase, code, FALSE)
    OBVIOUS
  <1>1. job \in StateMessage /\ job # None
    BY DEF IInv, TypeOK, ExecutorTypeOK, Running
  <1>2. new \in StateMessage /\ new.token = job.token /\ new.status = status
    BY <1>1 DEF State, StateMessage, Status
  <1>3. job' = new /\ Push(<<new>>)
    BY DEF Finish, Publish
  <1>4. job.token \in Goal /\ Sent(job.token) /\ ~Pending(job.token)
    BY <1>1 DEF StateMessage, IInv, JobAgrees
  <1>5. /\ arm' = None /\ where' \in [Slot -> Place]
        /\ \A s \in Slot : where'[s] = "shelf" <=> where[s] = "shelf"
        /\ held' # None => where'[held'] # "shelf"
    BY StopArmFacts
  <1>6. ~Moving' /\ \A h : ~Working(h)'
    BY <1>5 DEF Moving, Working
  <1>7. /\ commands' \in Seq(Command) /\ CommandsAgree'
        /\ \A h : Pending(h)' => Pending(h)
        /\ \A g \in Goal : Sent(g)' <=> Sent(g)
    BY TopicKept
  <1>8. JobAgrees'
    <2>1. job'.token = job.token
      BY <1>2, <1>3
    <2>2. Sent(job.token)' /\ ~Pending(job.token)'
      <3>1. ASSUME NEW g \in Goal, Sent(g), ~Pending(g)
            PROVE  Sent(g)' /\ ~Pending(g)'
        BY <1>7, <3>1
      <3> QED BY <1>4, <2>1, <3>1 DEF Sent, Pending
    <2> QED BY <1>6, <2>2 DEF JobAgrees
  <1>9. Reported(new)'
    <2>1. new.token \in Goal /\ Sent(new.token) /\ ~Pending(new.token)
      BY <1>2, <1>4
    <2>2. ~new.verified
      BY DEF State
    <2> QED BY <1>6, <1>7, <2>1, <2>2 DEF Reported
  <1>10. /\ states' \in Seq(StateMessage) /\ Len(states') <= Window
         /\ StatesAgree' /\ OutcomesAgree'
    BY <1>2, <1>3, <1>6, <1>9, OneReported
  <1>11. TypeOK'
    <2>1. NodeTypeOK'
      BY DEF IInv, TypeOK, NodeTypeOK, nodeVars
    <2>2. ExecutorTypeOK'
      BY <1>2, <1>3, <1>5, <1>7, <1>10 DEF IInv, TypeOK, ExecutorTypeOK
    <2> QED BY <2>1, <2>2 DEF TypeOK
  <1>12. SceneAgrees'
    BY <1>5, SceneKept
  <1> QED BY <1>7, <1>8, <1>10, <1>11, <1>12 DEF IInv
-------------------------------------------------------------------------------
(* The executor: its steps *)

LEMMA FailureStep ==
  ASSUME IInv, UNCHANGED nodeVars, GraspFailed \/ BookDropped \/ MotionTimeout
  PROVE  IInv'
  <1>1. /\ Running /\ StopArm /\ TopicGoesOn
        /\ UNCHANGED <<nodeVars, target, start, held, shelved>>
    BY DEF GraspFailed, BookDropped, MotionTimeout, Fail, TopicGoesOn
  <1>2. job.phase \in SimPhase /\ {404, 405, 406} \subseteq Codes
    BY <1>1 DEF IInv, TypeOK, ExecutorTypeOK, Running, StateMessage, Codes
  <1>3. CASE GraspFailed
    <2>1. "carry_rotate" \in SimPhase
      BY MotionFacts, ManipulationAssumption DEF ManipulationAssumption, ToSet
    <2>2. Finish("FAILED", "carry_rotate", 405, FALSE)
      BY <1>3 DEF GraspFailed, Fail
    <2> QED BY <1>1, <1>2, <2>1, <2>2, JobStops
  <1>4. CASE BookDropped
    <2>1. Finish("FAILED", job.phase, 406, FALSE)
      BY <1>4 DEF BookDropped, Fail
    <2> QED BY <1>1, <1>2, <2>1, JobStops
  <1>5. CASE MotionTimeout
    <2>1. Finish("FAILED", job.phase, 404, FALSE)
      BY <1>5 DEF MotionTimeout, Fail
    <2> QED BY <1>1, <1>2, <2>1, JobStops
  <1> QED BY <1>3, <1>4, <1>5

\* Steps that change nothing but the command topic or the start position.
LEMMA QuietStep ==
  ASSUME IInv, TopicGoesOn,
         UNCHANGED <<nodeVars, states, job, target, arm, where, held, shelved>>,
         start' \in {"homing", "failed", "ready"}
  PROVE  IInv'
  <1>1. /\ commands' \in Seq(Command) /\ CommandsAgree'
        /\ \A h : Pending(h)' => Pending(h)
        /\ \A g \in Goal : Sent(g)' <=> Sent(g)
    BY TopicKept
  <1>2. \A h : Working(h)' <=> Working(h)
    BY DEF Working, Moving
  <1>3. TypeOK'
    <2>1. NodeTypeOK'
      BY DEF IInv, TypeOK, NodeTypeOK, nodeVars
    <2>2. ExecutorTypeOK'
      BY <1>1 DEF IInv, TypeOK, ExecutorTypeOK
    <2> QED BY <2>1, <2>2 DEF TypeOK
  <1>4. JobAgrees'
    <2>1. job # None => job.token \in Goal
      BY DEF IInv, TypeOK, ExecutorTypeOK, StateMessage
    <2> QED BY <1>1, <2>1 DEF IInv, JobAgrees, Moving, Running, nodeVars
  <1>5. StatesAgree' /\ OutcomesAgree'
    <2> DEFINE new == <<>>
    <2>1. new \in Seq(StateMessage) /\ DOMAIN new = {}
      OBVIOUS
    <2> HIDE DEF new
    <2> QED BY <1>2, <2>1, ReportsKept
  <1>6. SceneAgrees'
    BY SceneKept DEF IInv, SceneAgrees
  <1> QED BY <1>1, <1>3, <1>4, <1>5, <1>6 DEF IInv

\* What the books do as the arm enters a phase.
LEMMA EnterFacts ==
  ASSUME IInv, Moving, arm < Len(Motion), EnterPhase(Motion[arm + 1])
  PROVE  /\ where' \in [Slot -> Place] /\ held' \in Slot \cup {None}
         /\ \A s \in Slot : where'[s] = "shelf" <=> where[s] = "shelf"
         /\ held' # None => where'[held'] # "shelf"
         /\ \A k \in DOMAIN Motion : Motion[k] = "release" /\ arm + 1 >= k => held' = None
  <1>1. /\ where \in [Slot -> Place] /\ held \in Slot \cup {None} /\ target \in Slot
        /\ where[target] # "shelf" /\ (held # None => where[held] # "shelf")
        /\ \A k \in DOMAIN Motion : Motion[k] = "release" /\ arm >= k => held = None
        /\ None \notin Slot
    BY ManipulationAssumption
       DEF ManipulationAssumption, IInv, TypeOK, ExecutorTypeOK, SceneAgrees, JobAgrees
  <1>2. arm \in Nat /\ arm + 1 \in DOMAIN Motion /\ DOMAIN Motion \subseteq Nat
    BY MotionFacts DEF IInv, TypeOK, ExecutorTypeOK, Moving
  <1>3. CASE Motion[arm + 1] = "lift"
    <2>1. /\ held' = target
          /\ where' = where \/ (held \in Slot /\ where' = [where EXCEPT ![held] = "out"])
      BY <1>1, <1>3 DEF EnterPhase
    <2>2. \A k \in DOMAIN Motion : Motion[k] = "release" => ~(arm + 1 >= k)
      <3>1. ASSUME NEW k \in DOMAIN Motion, Motion[k] = "release"
            PROVE  arm + 1 < k
        BY <1>2, <1>3, <3>1, NoLiftAfterRelease
      <3> QED BY <1>2, <3>1
    <2>3. where' \in [Slot -> Place] /\ \A s \in Slot : where'[s] = "shelf" <=> where[s] = "shelf"
      BY <1>1, <2>1 DEF Place
    <2> QED BY <1>1, <2>1, <2>2, <2>3
  <1>4. CASE Motion[arm + 1] = "release"
    <2>1. held' = None /\ where' = [where EXCEPT ![target] = "out"]
      BY <1>4 DEF EnterPhase
    <2> QED BY <1>1, <2>1 DEF Place
  <1>5. CASE Motion[arm + 1] \notin {"lift", "release"}
    <2>1. held' = held /\ where' \in {where, [where EXCEPT ![target] = "hand"]}
      BY <1>5 DEF EnterPhase
    <2>2. \A k \in DOMAIN Motion : Motion[k] = "release" /\ arm + 1 >= k => arm >= k
      BY <1>2, <1>5
    <2>3. where' \in [Slot -> Place] /\ \A s \in Slot : where'[s] = "shelf" <=> where[s] = "shelf"
      BY <1>1, <2>1 DEF Place
    <2> QED BY <1>1, <2>1, <2>2, <2>3
  <1> QED BY <1>3, <1>4, <1>5

LEMMA NextPhaseStep ==
  ASSUME IInv, UNCHANGED nodeVars, NextPhase
  PROVE  IInv'
  <1>1. /\ Running /\ Moving /\ arm < Len(Motion) /\ arm' = arm + 1
        /\ EnterPhase(Motion[arm + 1])
        /\ Publish([job EXCEPT !.phase = Motion[arm + 1]])
        /\ UNCHANGED <<commands, target, start, shelved>>
    BY DEF NextPhase
  <1>2. /\ arm' \in 0 .. Len(Motion) /\ arm' # None /\ Motion[arm + 1] \in SimPhase
        /\ job \in StateMessage
    BY <1>1, MotionFacts, ManipulationAssumption
       DEF ManipulationAssumption, IInv, TypeOK, ExecutorTypeOK, Running, Moving
  <1>3. PICK new : new = [job EXCEPT !.phase = Motion[arm + 1]]
    OBVIOUS
  <1>4. /\ new \in StateMessage /\ new.token = job.token /\ new.status = "RUNNING"
        /\ new.token \in Goal /\ new # None
    BY <1>1, <1>2, <1>3, ManipulationAssumption
       DEF ManipulationAssumption, StateMessage, Running
  <1>5. job' = new /\ Push(<<new>>)
    BY <1>1, <1>3 DEF Publish
  <1>6. TopicGoesOn
    BY <1>1 DEF TopicGoesOn
  <1>7. /\ commands' \in Seq(Command) /\ CommandsAgree'
        /\ \A h : Pending(h)' => Pending(h)
        /\ \A g \in Goal : Sent(g)' <=> Sent(g)
    BY <1>6, TopicKept
  <1>8. Sent(new.token)' /\ ~Pending(new.token)'
    BY <1>1, <1>4, <1>7 DEF IInv, JobAgrees, Running
  <1>9. \A h \in Goal : Working(h)' => Working(h)
    BY <1>1, <1>4, <1>5 DEF Working
  <1>10. Reported(new)'
    BY <1>4, <1>8 DEF Reported
  <1>11. /\ states' \in Seq(StateMessage) /\ Len(states') <= Window
         /\ StatesAgree' /\ OutcomesAgree'
    BY <1>1, <1>4, <1>5, <1>6, <1>9, <1>10, OneReported
  <1>12. /\ where' \in [Slot -> Place] /\ held' \in Slot \cup {None}
         /\ \A s \in Slot : where'[s] = "shelf" <=> where[s] = "shelf"
         /\ held' # None => where'[held'] # "shelf"
         /\ \A k \in DOMAIN Motion : Motion[k] = "release" /\ arm' >= k => held' = None
    BY <1>1, EnterFacts
  <1>13. TypeOK'
    <2>1. NodeTypeOK'
      BY DEF IInv, TypeOK, NodeTypeOK, nodeVars
    <2>2. ExecutorTypeOK'
      BY <1>1, <1>2, <1>4, <1>5, <1>7, <1>11, <1>12 DEF IInv, TypeOK, ExecutorTypeOK
    <2> QED BY <2>1, <2>2 DEF TypeOK
  <1>14. JobAgrees'
    <2>1. target \in Slot /\ target = slotOf[job.token] /\ where[target] # "shelf"
      BY <1>1 DEF IInv, JobAgrees
    <2>2. Running'
      BY <1>4, <1>5 DEF Running
    <2>3. Sent(job.token)' /\ ~Pending(job.token)'
      BY <1>5, <1>8 DEF Sent, Pending
    <2>4. target' \in Slot /\ target' = slotOf'[job'.token] /\ where'[target'] # "shelf"
      BY <1>1, <1>4, <1>5, <1>12, <2>1 DEF nodeVars
    <2> QED BY <1>12, <2>2, <2>3, <2>4 DEF JobAgrees
  <1>15. SceneAgrees'
    BY <1>1, <1>12, SceneKept
  <1> QED BY <1>7, <1>11, <1>13, <1>14, <1>15 DEF IInv

\* The hand has let go when all phases are done.
LEMMA VerifyStep ==
  ASSUME IInv, UNCHANGED nodeVars, Verify
  PROVE  IInv'
  <1>1. PICK ok \in BOOLEAN, tooFast \in BOOLEAN :
          /\ where' = [where EXCEPT ![target] = IF ok THEN "shelf" ELSE "out"]
          /\ shelved' = IF ok THEN shelved \cup {job.token} ELSE shelved
          /\ IF tooFast THEN Finish("FAILED", job.phase, 403, ok)
             ELSE Finish("SUCCEEDED", "verify", 0, ok)
    BY DEF Verify
  <1>2. /\ Running /\ arm = Len(Motion) /\ arm' = None
        /\ UNCHANGED <<commands, target, start, held>>
    BY DEF Verify
  <1>3. job \in StateMessage /\ job.token \in Goal /\ job.phase \in SimPhase
    BY <1>2 DEF IInv, TypeOK, ExecutorTypeOK, Running, StateMessage
  <1>4. arm \in Nat /\ Moving
    BY <1>2, MotionFacts, ManipulationAssumption DEF ManipulationAssumption, Moving
  <1>5. target \in Slot /\ target = slotOf[job.token] /\ where[target] # "shelf"
    BY <1>4 DEF IInv, JobAgrees
  <1>6. held = None
    <2>1. PICK k \in DOMAIN Motion : Motion[k] = "release"
      BY MotionFacts
    <2>2. arm >= k
      BY <1>2, MotionFacts
    <2> QED BY <1>4, <2>1, <2>2 DEF IInv, JobAgrees
  <1>7. PICK new \in StateMessage : /\ job' = new /\ Push(<<new>>)
                                    /\ new.token = job.token /\ new.status # "RUNNING"
                                    /\ new.verified = ok
    <2>1. CASE tooFast
      <3>1. State(job.token, "FAILED", job.phase, 403, ok) \in StateMessage
        BY <1>3 DEF State, StateMessage, Status, Codes
      <3> QED BY <1>1, <2>1, <3>1 DEF Finish, Publish, State
    <2>2. CASE ~tooFast
      <3>1. "verify" \in SimPhase
        <4>1. SimPhaseOrder[17] = "verify" /\ 17 \in DOMAIN SimPhaseOrder
          BY DEF SimPhaseOrder
        <4> QED BY <4>1 DEF SimPhase, ToSet
      <3>2. State(job.token, "SUCCEEDED", "verify", 0, ok) \in StateMessage
        BY <1>3, <3>1 DEF State, StateMessage, Status, Codes
      <3> QED BY <1>1, <2>2, <3>2 DEF Finish, Publish, State
    <2> QED BY <2>1, <2>2
  <1>8. TopicGoesOn
    BY <1>2 DEF TopicGoesOn
  <1>9. /\ commands' \in Seq(Command) /\ CommandsAgree'
        /\ \A h : Pending(h)' => Pending(h)
        /\ \A g \in Goal : Sent(g)' <=> Sent(g)
    BY <1>8, TopicKept
  <1>10. ~Moving' /\ \A h : ~Working(h)'
    BY <1>2 DEF Moving, Working
  <1>11. Sent(new.token)' /\ ~Pending(new.token)'
    BY <1>2, <1>3, <1>7, <1>9 DEF IInv, JobAgrees, Running
  <1>12. ok => new.token \in shelved'
    BY <1>1, <1>7
  <1>13. Reported(new)'
    BY <1>7, <1>10, <1>11, <1>12 DEF Reported
  <1>14. shelved \subseteq shelved'
    BY <1>1
  <1>15. /\ states' \in Seq(StateMessage) /\ Len(states') <= Window
         /\ StatesAgree' /\ OutcomesAgree'
    BY <1>7, <1>8, <1>10, <1>13, <1>14, OneReported
  <1>16. TypeOK'
    <2>1. NodeTypeOK'
      BY DEF IInv, TypeOK, NodeTypeOK, nodeVars
    <2>2. where' \in [Slot -> Place] /\ shelved' \subseteq Goal
      BY <1>1, <1>3, <1>5 DEF IInv, TypeOK, ExecutorTypeOK, Place
    <2>3. ExecutorTypeOK'
      BY <1>2, <1>7, <1>9, <1>15, <2>2 DEF IInv, TypeOK, ExecutorTypeOK
    <2> QED BY <2>1, <2>3 DEF TypeOK
  <1>17. JobAgrees'
    <2>1. Sent(job.token)' /\ ~Pending(job.token)'
      BY <1>7, <1>11 DEF Sent, Pending
    <2> QED BY <1>10, <2>1 DEF JobAgrees
  <1>18. SceneAgrees'
    <2>1. UNCHANGED <<stage, slotOf>> /\ where \in [Slot -> Place] /\ shelved \subseteq Goal
      BY DEF nodeVars, IInv, TypeOK, ExecutorTypeOK
    <2>2. held' = None
      BY <1>2, <1>6
    <2>3. ASSUME NEW g \in shelved
          PROVE  /\ Sent(g)' /\ slotOf'[g] \in Slot /\ slotOf'[g] # target
                 /\ where'[slotOf'[g]] = "shelf"
      <3>1. Sent(g) /\ slotOf[g] \in Slot /\ where[slotOf[g]] = "shelf" /\ g \in Goal
        BY <2>1 DEF IInv, SceneAgrees
      <3> QED BY <1>1, <1>5, <1>9, <2>1, <3>1
    <2>4. CASE ok
      <3>1. shelved' = shelved \cup {job.token} /\ where' = [where EXCEPT ![target] = "shelf"]
        BY <1>1, <2>4
      <3>2. Sent(job.token) /\ (Sent(new.token)')
        BY <1>2, <1>11 DEF IInv, JobAgrees, Running
      <3>3. ASSUME NEW g, g = job.token
            PROVE  Sent(g)' /\ slotOf'[g] = target /\ where'[target] = "shelf"
        BY <1>5, <1>7, <2>1, <3>1, <3>2, <3>3 DEF Sent
      <3> QED BY <1>5, <2>1, <2>2, <2>3, <3>1, <3>3 DEF IInv, SceneAgrees
    <2>5. CASE ~ok
      <3>1. shelved' = shelved
        BY <1>1, <2>5
      <3> QED BY <2>1, <2>2, <2>3, <3>1 DEF IInv, SceneAgrees
    <2> QED BY <2>4, <2>5
  <1> QED BY <1>9, <1>15, <1>16, <1>17, <1>18 DEF IInv

LEMMA PlanPhase == "plan" \in SimPhase
  <1>1. SimPhaseOrder[1] = "plan" /\ 1 \in DOMAIN SimPhaseOrder
    BY DEF SimPhaseOrder
  <1> QED BY <1>1 DEF SimPhase, ToSet

\* A place command is refused because another job runs.
LEMMA RefuseBusyStep ==
  ASSUME IInv, UNCHANGED <<nodeVars, start, held, shelved>>, commands # <<>>,
         commands' = Tail(commands), NEW c, c = Head(commands), c.type = "place",
         RefuseBusy(c)
  PROVE  IInv'
  <1>1. /\ c.token \in Goal /\ Sent(c.token) /\ Pending(c.token) /\ ~Pending(c.token)'
        /\ TopicGoesOn
    BY FirstCommand DEF TopicGoesOn
  <1>2. PICK m : m = State(c.token, "FAILED", "plan", 411, FALSE)
    OBVIOUS
  <1>3. m \in StateMessage /\ m.token = c.token /\ m.status = "FAILED"
    BY <1>1, <1>2, PlanPhase DEF State, StateMessage, Status, Codes
  <1>4. Push(<<m>>) /\ UNCHANGED <<job, target, arm, where>>
    BY <1>2 DEF RefuseBusy
  <1>5. /\ commands' \in Seq(Command) /\ CommandsAgree'
        /\ \A h : Pending(h)' => Pending(h)
        /\ \A g \in Goal : Sent(g)' <=> Sent(g)
    BY <1>1, TopicKept
  <1>6. \A h : Working(h)' <=> Working(h)
    BY <1>4 DEF Working, Moving
  <1>7. ~Working(c.token)
    BY <1>1 DEF Working, IInv, JobAgrees, Running
  <1>8. Reported(m)'
    BY <1>1, <1>3, <1>5, <1>6, <1>7 DEF Reported
  <1>9. /\ states' \in Seq(StateMessage) /\ Len(states') <= Window
        /\ StatesAgree' /\ OutcomesAgree'
    BY <1>1, <1>3, <1>4, <1>6, <1>8, OneReported
  <1>10. TypeOK'
    <2>1. NodeTypeOK'
      BY DEF IInv, TypeOK, NodeTypeOK, nodeVars
    <2>2. ExecutorTypeOK'
      BY <1>4, <1>5, <1>9 DEF IInv, TypeOK, ExecutorTypeOK
    <2> QED BY <2>1, <2>2 DEF TypeOK
  <1>11. JobAgrees'
    <2>1. job # None => job.token \in Goal
      BY DEF IInv, TypeOK, ExecutorTypeOK, StateMessage
    <2> QED BY <1>4, <1>5, <2>1 DEF IInv, JobAgrees, Moving, Running, nodeVars
  <1>12. SceneAgrees'
    BY <1>4, SceneKept DEF IInv, SceneAgrees
  <1> QED BY <1>5, <1>9, <1>10, <1>11, <1>12 DEF IInv

\* A job is refused at once: the arm is not ready, or the book cannot be taken.
LEMMA RefuseJobStep ==
  ASSUME IInv, UNCHANGED <<nodeVars, start, where, held, shelved>>,
         commands # <<>>, commands' = Tail(commands),
         NEW c, c = Head(commands), c.type = "place", ~Running,
         NEW code \in {401, 410, 411}, RefuseJob(c, code)
  PROVE  IInv'
  <1>1. /\ c.token \in Goal /\ Sent(c.token) /\ Pending(c.token) /\ ~Pending(c.token)'
        /\ TopicGoesOn
    BY FirstCommand DEF TopicGoesOn
  <1>2. PICK m, f : /\ m = State(c.token, "RUNNING", "plan", 0, FALSE)
                    /\ f = State(c.token, "FAILED", "plan", code, FALSE)
    OBVIOUS
  <1>3. /\ m \in StateMessage /\ m.token = c.token /\ m.status = "RUNNING"
        /\ f \in StateMessage /\ f.token = c.token /\ f.status = "FAILED"
    <2>2. m \in StateMessage /\ m.token = c.token /\ m.status = "RUNNING"
      BY <1>1, <1>2, PlanPhase DEF State, StateMessage, Status, Codes
    <2>3. f \in StateMessage /\ f.token = c.token /\ f.status = "FAILED"
      BY <1>1, <1>2, PlanPhase DEF State, StateMessage, Status, Codes
    <2> QED BY <2>2, <2>3
  <1>4. Push(<<m, f>>) /\ job' = f /\ UNCHANGED <<target, arm>>
    BY <1>2 DEF RefuseJob
  <1>5. /\ commands' \in Seq(Command) /\ CommandsAgree'
        /\ \A h : Pending(h)' => Pending(h)
        /\ \A g \in Goal : Sent(g)' <=> Sent(g)
    BY <1>1, TopicKept
  <1>6. ~Moving' /\ \A h : ~Working(h)'
    BY <1>4 DEF IInv, JobAgrees, Moving, Working
  <1>7. Reported(m)' /\ Reported(f)'
    BY <1>1, <1>3, <1>5, <1>6 DEF Reported
  <1>8. /\ states' \in Seq(StateMessage) /\ Len(states') <= Window
        /\ StatesAgree' /\ OutcomesAgree'
    <2> DEFINE new == <<m, f>>
    <2>1. new \in Seq(StateMessage) /\ DOMAIN new = {1, 2} /\ new[1] = m /\ new[2] = f
      BY <1>3
    <2>2. Push(new)
      BY <1>4
    <2> HIDE DEF new
    <2>3. ASSUME NEW k \in DOMAIN new PROVE Reported(new[k])'
      <3>1. CASE new[k] = m
        BY <1>7, <3>1 DEF Reported
      <3>2. CASE new[k] = f
        BY <1>7, <3>2 DEF Reported
      <3> QED BY <2>1, <3>1, <3>2
    <2> QED BY <1>1, <1>6, <2>1, <2>2, <2>3, ReportsKept
  <1>9. TypeOK'
    <2>1. NodeTypeOK'
      BY DEF IInv, TypeOK, NodeTypeOK, nodeVars
    <2>2. ExecutorTypeOK'
      BY <1>3, <1>4, <1>5, <1>8 DEF IInv, TypeOK, ExecutorTypeOK
    <2> QED BY <2>1, <2>2 DEF TypeOK
  <1>10. JobAgrees'
    <2>1. Sent(c.token)'
      BY <1>1, <1>5
    <2>2. Sent(job.token)' /\ ~Pending(job.token)'
      BY <1>1, <1>3, <1>4, <2>1 DEF Sent, Pending
    <2> QED BY <1>6, <2>2 DEF JobAgrees
  <1>11. SceneAgrees'
    BY SceneKept DEF IInv, SceneAgrees
  <1> QED BY <1>5, <1>8, <1>9, <1>10, <1>11 DEF IInv

\* A job is taken.
LEMMA TakeJobStep ==
  ASSUME IInv, UNCHANGED <<nodeVars, start, where, held, shelved>>,
         commands # <<>>, commands' = Tail(commands),
         NEW c, c = Head(commands), c.type = "place", BookOnTray(c.slot), TakeJob(c)
  PROVE  IInv'
  <1>1. /\ c.token \in Goal /\ Sent(c.token) /\ Pending(c.token) /\ ~Pending(c.token)'
        /\ c.slot \in Slot /\ c.slot = slotOf[c.token] /\ TopicGoesOn
    BY FirstCommand DEF TopicGoesOn
  <1>2. PICK m : m = State(c.token, "RUNNING", "plan", 0, FALSE)
    OBVIOUS
  <1>3. /\ m \in StateMessage /\ m.token = c.token /\ m.status = "RUNNING"
        /\ m # None
    <2>1. m \in StateMessage /\ m.token = c.token /\ m.status = "RUNNING"
      BY <1>1, <1>2, PlanPhase DEF State, StateMessage, Status, Codes
    <2> QED BY <2>1, ManipulationAssumption DEF ManipulationAssumption
  <1>4. job' = m /\ Push(<<m>>) /\ target' = c.slot /\ arm' = 0
    BY <1>2 DEF TakeJob, Publish
  <1>5. /\ commands' \in Seq(Command) /\ CommandsAgree'
        /\ \A h : Pending(h)' => Pending(h)
        /\ \A g \in Goal : Sent(g)' <=> Sent(g)
    BY <1>1, TopicKept
  <1>6. \A h \in Goal : Working(h)' => Pending(h)
    BY <1>1, <1>3, <1>4 DEF Working
  <1>7. Reported(m)'
    BY <1>1, <1>3, <1>5 DEF Reported
  <1>8. /\ states' \in Seq(StateMessage) /\ Len(states') <= Window
        /\ StatesAgree' /\ OutcomesAgree'
    BY <1>1, <1>3, <1>4, <1>6, <1>7, OneReported
  <1>9. TypeOK'
    <2>1. NodeTypeOK'
      BY DEF IInv, TypeOK, NodeTypeOK, nodeVars
    <2>2. 0 \in 0 .. Len(Motion)
      BY MotionFacts
    <2>3. ExecutorTypeOK'
      BY <1>1, <1>3, <1>4, <1>5, <1>8, <2>2 DEF IInv, TypeOK, ExecutorTypeOK
    <2> QED BY <2>1, <2>3 DEF TypeOK
  <1>10. JobAgrees'
    <2>1. Sent(c.token)'
      BY <1>1, <1>5
    <2>2. Sent(job.token)' /\ ~Pending(job.token)'
      BY <1>1, <1>3, <1>4, <2>1 DEF Sent, Pending
    <2>3. Running'
      BY <1>3, <1>4 DEF Running
    <2>4. target' \in Slot /\ target' = slotOf'[job'.token] /\ where'[target'] # "shelf"
      BY <1>1, <1>3, <1>4 DEF nodeVars, BookOnTray
    <2>5. \A k \in DOMAIN Motion : ~(arm' >= k)
      BY <1>4, MotionFacts
    <2> QED BY <2>2, <2>3, <2>4, <2>5 DEF JobAgrees
  <1>11. SceneAgrees'
    BY SceneKept DEF IInv, SceneAgrees
  <1> QED BY <1>5, <1>8, <1>9, <1>10, <1>11 DEF IInv

LEMMA HandleCommandStep ==
  ASSUME IInv, UNCHANGED nodeVars, HandleCommand
  PROVE  IInv'
  <1>1. PICK c : c = Head(commands)
    OBVIOUS
  <1>2. /\ commands # <<>> /\ commands' = Tail(commands) /\ TopicGoesOn
        /\ UNCHANGED <<start, held, shelved>>
    BY DEF HandleCommand, TopicGoesOn
  <1>3. CASE c.type = "place" /\ Running
    <2>1. RefuseBusy(c)
      BY <1>1, <1>3 DEF HandleCommand
    <2> QED BY <1>1, <1>2, <1>3, <2>1, RefuseBusyStep
  <1>4. CASE c.type = "place" /\ ~Running
    <2>1. StartJob(c)
      BY <1>1, <1>4 DEF HandleCommand
    <2>2. UNCHANGED where
      BY <2>1 DEF StartJob
    <2>3. \/ RefuseJob(c, 401) \/ RefuseJob(c, 410) \/ RefuseJob(c, 411)
          \/ BookOnTray(c.slot) /\ TakeJob(c)
      BY <2>1 DEF StartJob
    <2>4. CASE BookOnTray(c.slot) /\ TakeJob(c)
      BY <1>1, <1>2, <1>4, <2>2, <2>4, TakeJobStep
    <2>5. ASSUME NEW code \in {401, 410, 411}, RefuseJob(c, code)
          PROVE  IInv'
      BY <1>1, <1>2, <1>4, <2>2, <2>5, RefuseJobStep
    <2> QED BY <2>3, <2>4, <2>5
  <1>5. CASE c.type = "cancel" /\ Cancels(c)
    <2>1. CancelJob(c)
      BY <1>1, <1>5 DEF HandleCommand
    <2>2. Running /\ job.phase \in SimPhase /\ 0 \in Codes
      BY <1>5 DEF Cancels, IInv, TypeOK, ExecutorTypeOK, Running, StateMessage, Codes
    <2>3. StopArm /\ Finish("CANCELLED", job.phase, 0, FALSE) /\ UNCHANGED target
      BY <2>1 DEF CancelJob
    <2> QED BY <1>2, <2>2, <2>3, JobStops
  <1>6. CASE c.type # "place" /\ ~(c.type = "cancel" /\ Cancels(c))
    <2>1. UNCHANGED <<states, job, target, arm, where>>
      BY <1>1, <1>6 DEF HandleCommand
    <2>2. start' \in {"homing", "failed", "ready"}
      BY <1>2 DEF IInv, TypeOK, ExecutorTypeOK
    <2> QED BY <1>2, <2>1, <2>2, QuietStep
  <1> QED BY <1>3, <1>4, <1>5, <1>6

LEMMA ExecutorStep ==
  ASSUME IInv, UNCHANGED nodeVars, NextExecutor
  PROVE  IInv'
  <1>1. CASE HandleCommand
    BY <1>1, HandleCommandStep
  <1>2. CASE HomeReached \/ HomeFails \/ Announce \/ LoseCommand
    <2>1. /\ TopicGoesOn
          /\ UNCHANGED <<nodeVars, states, job, target, arm, where, held, shelved>>
          /\ start' \in {"homing", "failed", "ready"}
      BY <1>2 DEF HomeReached, HomeFails, Announce, LoseCommand, scene, TopicGoesOn, IInv,
                  TypeOK, ExecutorTypeOK
    <2> QED BY <2>1, QuietStep
  <1>3. CASE NextPhase
    BY <1>3, NextPhaseStep
  <1>4. CASE GraspFailed \/ BookDropped \/ MotionTimeout
    BY <1>4, FailureStep
  <1>5. CASE Verify
    BY <1>5, VerifyStep
  <1> QED BY <1>1, <1>2, <1>3, <1>4, <1>5 DEF NextExecutor

LEMMA NextIInv == IInv /\ [Next]_vars => IInv'
  <1> SUFFICES ASSUME IInv, [Next]_vars PROVE IInv'
    OBVIOUS
  <1>1. CASE NextExecutor /\ UNCHANGED nodeVars
    BY <1>1, ExecutorStep
  <1>2. ASSUME NEW g \in Goal, OnGoal(g) \/ OnCancel(g) \/ SetTracker(g)
        PROVE  IInv'
    BY <1>2, GoalStep
  <1>3. ASSUME NEW g \in Goal, Execute(g) PROVE IInv'
    <2>1. CASE Turn(g, {})
      BY <2>1, TurnStep
    <2> QED BY <1>2, <1>3, <2>1, CheckGoalStep, SendPlaceStep, FinishGoalStep DEF Execute
  <1>4. ASSUME NEW g \in Goal, LateTurn(g) PROVE IInv'
    <2>1. PICK passed \in SUBSET Limit \ {{}} : Turn(g, passed)
      BY <1>4 DEF LateTurn
    <2> QED BY <2>1, TurnStep
  <1>5. ASSUME NEW m \in ToSet(states), OnSimState(m) PROVE IInv'
    BY <1>5, OnSimStateStep
  <1>6. CASE UNCHANGED vars
    <2>1. /\ TopicGoesOn
          /\ UNCHANGED <<nodeVars, states, job, target, arm, where, held, shelved, start>>
      BY <1>6 DEF vars, executorVars, scene, TopicGoesOn
    <2>2. start' \in {"homing", "failed", "ready"}
      BY <2>1 DEF IInv, TypeOK, ExecutorTypeOK
    <2> QED BY <2>1, <2>2, QuietStep
  <1> QED BY <1>1, <1>2, <1>3, <1>4, <1>5, <1>6 DEF Next
-------------------------------------------------------------------------------
(* Theorems *)

\* All that follows rests on these facts about commands, job, states and scene.
THEOREM ManipulationInvariant == Spec => []IInv
  <1> QED BY InitIInv, NextIInv, PTL DEF Spec

\* The variables of node and executor keep their types.
THEOREM ManipulationTypes == Spec => []TypeOK
  <1>1. IInv => TypeOK
    BY DEF IInv
  <1> QED BY <1>1, ManipulationInvariant, PTL

\* A goal of /place_book that succeeds has put a book of its own on the shelf,
\* whatever number of goals overlap: the book of its slot stands there, and no
\* other goal succeeded with it.
THEOREM PlacementsAreReal == Spec => []PlacedForReal
  <1>1. IInv => PlacedForReal
    BY DEF IInv, OutcomesAgree, SceneAgrees, PlacedForReal
  <1> QED BY <1>1, ManipulationInvariant, PTL

\* When a goal ends with an answer of the executor the arm does not work for it.
THEOREM ArmRestsWhenReported == Spec => []RestWhenReported
  <1>1. IInv => RestWhenReported
    BY DEF IInv, OutcomesAgree, RestWhenReported, Working
  <1> QED BY <1>1, ManipulationInvariant, PTL

\* A job is cancelled only if the tracker of its goal has asked for it.
LEMMA CancelStep ==
  ASSUME IInv, [Next]_vars, job' # job, job'.status = "CANCELLED"
  PROVE  tracker[job'.token].cancelled
  <1>1. NextExecutor /\ UNCHANGED nodeVars
    <2>1. ASSUME NEW g \in Goal,
                 OnGoal(g) \/ OnCancel(g) \/ Execute(g) \/ LateTurn(g)
          PROVE  UNCHANGED job
      BY <2>1 DEF OnGoal, OnCancel, Execute, LateTurn, CheckGoal, SetTracker, SendPlace,
                  Turn, FinishGoal, executorVars
    <2>2. ASSUME NEW m \in ToSet(states), OnSimState(m) PROVE UNCHANGED job
      BY <2>2 DEF OnSimState, executorVars
    <2>3. UNCHANGED vars => UNCHANGED job
      BY DEF vars, executorVars
    <2> QED BY <2>1, <2>2, <2>3 DEF Next
  <1>2. Running => job \in StateMessage
    BY DEF IInv, TypeOK, ExecutorTypeOK, Running
  <1>3. CASE HandleCommand
    <2>1. PICK c : c = Head(commands)
      OBVIOUS
    <2>2. commands # <<>> /\ commands' = Tail(commands)
      BY <1>3 DEF HandleCommand
    <2>3. c.type = "cancel" => tracker[c.token].cancelled
      BY <1>1, <2>1, <2>2, FirstCommand
    <2>4. c.type = "cancel" /\ Cancels(c) /\ CancelJob(c)
      BY <1>3, <2>1 DEF HandleCommand, RefuseBusy, StartJob, RefuseJob, TakeJob, Publish,
                        State
    <2>5. job'.token = c.token
      BY <2>4 DEF CancelJob, Cancels, Finish, Publish, State
    <2> QED BY <2>3, <2>4, <2>5
  <1>4. CASE NextPhase
    BY <1>2, <1>4 DEF NextPhase, Publish, StateMessage, Running
  <1>5. CASE GraspFailed \/ BookDropped \/ MotionTimeout
    BY <1>5 DEF GraspFailed, BookDropped, MotionTimeout, Fail, Finish, Publish, State
  <1>6. CASE Verify
    BY <1>6 DEF Verify, Finish, Publish, State
  <1>7. CASE HomeReached \/ HomeFails \/ Announce \/ LoseCommand
    BY <1>7 DEF HomeReached, HomeFails, Announce, LoseCommand
  <1> QED BY <1>1, <1>3, <1>4, <1>5, <1>6, <1>7 DEF NextExecutor

\* Cancel commands of several goals never hit the job of another goal.
THEOREM CancelsHitTheirJobs == Spec => CancelHitsItsJob
  <1>1. IInv /\ [Next]_vars =>
          [job' # job /\ job'.status = "CANCELLED" => tracker[job'.token].cancelled]_vars
    BY CancelStep
  <1> QED BY <1>1, ManipulationInvariant, PTL DEF Spec, CancelHitsItsJob

\* What a state or a turn makes of the progress of a goal.
LEMMA ProgressStep ==
  ASSUME IInv, [Next]_vars, NEW g \in Goal, stage'[g] # "done"
  PROVE  tracker'[g].progress >= tracker[g].progress
  <1>1. tracker \in [Goal -> Tracker] /\ stage \in [Goal -> Stage]
    BY DEF IInv, TypeOK, NodeTypeOK
  <1>2. tracker[g] \in Tracker /\ tracker[g].progress \in Int
    BY <1>1 DEF Tracker
  <1>3. tracker'[g] = tracker[g] => tracker'[g].progress >= tracker[g].progress
    BY <1>2
  <1>4. ASSUME NEW h \in Goal, NEW passed, Turn(h, passed)
        PROVE  tracker'[g].progress = tracker[g].progress
    <2>1. TrackerAfter(h, passed).progress = tracker[h].progress
      BY <1>1 DEF TrackerAfter, Tracker
    <2>2. \/ tracker' = tracker
          \/ tracker' = [tracker EXCEPT ![h] = TrackerAfter(h, passed)]
      BY <1>4 DEF Turn
    <2> HIDE DEF TrackerAfter
    <2> QED BY <1>1, <2>1, <2>2
  <1>5. ASSUME NEW h \in Goal, FinishGoal(h)
        PROVE  tracker'[g] = tracker[g]
    BY <1>1, <1>5 DEF FinishGoal
  <1>6. ASSUME NEW h \in Goal, OnGoal(h) \/ OnCancel(h) \/ Execute(h) \/ LateTurn(h)
        PROVE  tracker'[g].progress >= tracker[g].progress
    <2>1. OnGoal(h) \/ OnCancel(h) \/ CheckGoal(h) \/ SetTracker(h) \/ SendPlace(h)
            => tracker'[g] = tracker[g]
      BY DEF OnGoal, OnCancel, CheckGoal, SetTracker, SendPlace
    <2>2. \A passed : Turn(h, passed) => tracker'[g].progress = tracker[g].progress
      BY <1>4
    <2> QED BY <1>2, <1>3, <1>5, <1>6, <2>1, <2>2 DEF Execute, LateTurn
  <1>7. ASSUME NEW m \in ToSet(states), OnSimState(m)
        PROVE  tracker'[g].progress >= tracker[g].progress
    <2>1. PICK k \in DOMAIN states : m = states[k]
      BY DEF ToSet
    <2>2. m.token \in Goal /\ m.phase \in SimPhase
      BY <2>1, StateType DEF IInv, TypeOK, StateMessage
    <2>3. tracker' = [tracker EXCEPT ![m.token] = TrackerTold(tracker[m.token], m)]
      BY <1>7 DEF OnSimState, TakesState
    <2>4. CASE g # m.token
      BY <1>1, <1>3, <2>3, <2>4
    <2>5. CASE g = m.token
      <3>1. tracker'[g].progress = ProgressAfter(tracker[g], m)
        BY <1>1, <2>3, <2>5 DEF TrackerTold, Tracker
      <3>2. StepOf(m.phase) \in Int /\ tracker[g].progress <= Len(SimPhaseOrder)
        BY <1>2, <2>2, PhaseHasStep DEF Tracker
      <3>3. Len(SimPhaseOrder) \in Int
        BY DEF SimPhaseOrder
      <3> QED BY <1>2, <3>1, <3>2, <3>3 DEF ProgressAfter
    <2> QED BY <2>4, <2>5
  <1>8. ASSUME UNCHANGED nodeVars PROVE tracker'[g].progress >= tracker[g].progress
    BY <1>3, <1>8 DEF nodeVars
  <1> QED BY <1>6, <1>7, <1>8 DEF Next, vars

\* The progress of a goal never goes back, however states arrive.
THEOREM ProgressOnlyGrows == Spec => ProgressNeverDrops
  <1>1. IInv /\ [Next]_vars =>
          [\A g \in Goal : stage'[g] # "done" =>
             tracker'[g].progress >= tracker[g].progress]_vars
    BY ProgressStep
  <1> QED BY <1>1, ManipulationInvariant, PTL DEF Spec, ProgressNeverDrops
-------------------------------------------------------------------------------
(* Node and executor are a placement service *)

Answers == [g \in Goal |-> Answer(g)]

\* A goal whose loop has ended has an outcome.
EndedHasOutcome == \A g \in Goal : stage[g] \in {"closing", "done"} => outcome[g] # None

LEMMA CodesAreNotNone == None \notin Codes \cup {409, 412}
  BY ManipulationAssumption DEF ManipulationAssumption, Codes

LEMMA EndedStep == IInv /\ EndedHasOutcome /\ [Next]_vars => EndedHasOutcome'
  <1> SUFFICES ASSUME IInv, EndedHasOutcome, [Next]_vars PROVE EndedHasOutcome'
    OBVIOUS
  <1>1. /\ stage \in [Goal -> Stage] /\ outcome \in [Goal -> Codes \cup {409, 412, None}]
    BY DEF IInv, TypeOK, NodeTypeOK
  <1>2. ASSUME NEW g \in Goal, CheckGoal(g) PROVE EndedHasOutcome'
    <2>1. \/ outcome' = outcome /\ stage' = [stage EXCEPT ![g] = "checked"]
          \/ \E c \in {410, 411} : /\ outcome' = [outcome EXCEPT ![g] = c]
                                   /\ stage' = [stage EXCEPT ![g] = "done"]
      <3> DEFINE selected == SlotOrCode(BookOf[g])
      <3>1. \/ "slot" \in DOMAIN selected
            \/ "slot" \notin DOMAIN selected /\ selected.code \in {410, 411}
        BY SlotSelected
      <3>2. CASE g \in ValidGoal
        BY <1>2, <3>1, <3>2 DEF CheckGoal
      <3>3. CASE g \notin ValidGoal
        BY <1>2, <3>3 DEF CheckGoal
      <3> QED BY <3>2, <3>3
    <2>2. \A c \in {410, 411} : c # None
      BY CodesAreNotNone DEF Codes
    <2> QED BY <1>1, <2>1, <2>2 DEF EndedHasOutcome
  <1>3. ASSUME NEW g \in Goal, NEW passed, Turn(g, passed) PROVE EndedHasOutcome'
    <2>1. \/ UNCHANGED <<stage, outcome>>
          \/ \E c : c # None /\ LeaveLoop(g, c)
      BY <1>3 DEF Turn
    <2> QED BY <1>1, <2>1 DEF EndedHasOutcome, LeaveLoop
  <1>4. ASSUME NEW g \in Goal,
               OnGoal(g) \/ OnCancel(g) \/ SetTracker(g) \/ SendPlace(g) \/ FinishGoal(g)
        PROVE  EndedHasOutcome'
    BY <1>1, <1>4 DEF EndedHasOutcome, OnGoal, OnCancel, SetTracker, SendPlace, FinishGoal
  <1>5. ASSUME NEW m \in ToSet(states), OnSimState(m) PROVE EndedHasOutcome'
    <2>1. /\ outcome[m.token] = None /\ stage' = stage /\ current = m.token
          /\ outcome' = [outcome EXCEPT ![current] = OutcomeOf(m, tracker[current].timedOut)]
      BY <1>5 DEF OnSimState, TakesState
    <2>2. \A g \in Goal : g # m.token => outcome'[g] = outcome[g]
      BY <1>1, <2>1
    <2> QED BY <2>1, <2>2 DEF EndedHasOutcome
  <1>6. CASE UNCHANGED nodeVars
    BY <1>6 DEF EndedHasOutcome, nodeVars
  <1> QED BY <1>2, <1>3, <1>4, <1>5, <1>6 DEF Next, Execute, LateTurn, vars

\* An outcome is never changed, and a goal that is done stays so.
LEMMA OutcomeStays ==
  ASSUME IInv, [Next]_vars, NEW g \in Goal, outcome[g] # None
  PROVE  outcome'[g] = outcome[g] /\ (stage[g] = "done" => stage'[g] = "done")
  <1>1. /\ stage \in [Goal -> Stage] /\ outcome \in [Goal -> Codes \cup {409, 412, None}]
        /\ stage[g] \in {"looping", "closing", "done"}
    BY DEF IInv, TypeOK, NodeTypeOK, OutcomesAgree, Sent
  <1>2. ASSUME NEW h \in Goal, CheckGoal(h)
        PROVE  UNCHANGED <<stage[g], outcome[g]>>
    BY <1>1, <1>2 DEF CheckGoal
  <1>3. ASSUME NEW h \in Goal, NEW passed, Turn(h, passed)
        PROVE  outcome'[g] = outcome[g] /\ (stage[g] = "done" => stage'[g] = "done")
    BY <1>1, <1>3 DEF Turn, LeaveLoop
  <1>4. ASSUME NEW h \in Goal,
               OnGoal(h) \/ OnCancel(h) \/ SetTracker(h) \/ SendPlace(h) \/ FinishGoal(h)
        PROVE  outcome'[g] = outcome[g] /\ (stage[g] = "done" => stage'[g] = "done")
    BY <1>1, <1>4 DEF OnGoal, OnCancel, SetTracker, SendPlace, FinishGoal
  <1>5. ASSUME NEW m \in ToSet(states), OnSimState(m)
        PROVE  UNCHANGED <<stage[g], outcome[g]>>
    BY <1>1, <1>5 DEF OnSimState, TakesState
  <1>6. CASE UNCHANGED nodeVars
    BY <1>6 DEF nodeVars
  <1> QED BY <1>2, <1>3, <1>4, <1>5, <1>6 DEF Next, Execute, LateTurn, vars

\* The first verdict on a goal is its only one: states that come again or late,
\* a lost heartbeat and the time limits race for it (PlaceTracker).
VerdictIsFinal == [][\A g \in Goal : outcome[g] # None => outcome'[g] = outcome[g]]_vars

\* Limits, cancels and late states that follow the verdict change nothing of it.
THEOREM VerdictsAreFinal == Spec => VerdictIsFinal
  <1>1. IInv /\ [Next]_vars =>
          [\A g \in Goal : outcome[g] # None => outcome'[g] = outcome[g]]_vars
    BY OutcomeStays
  <1> QED BY <1>1, ManipulationInvariant, PTL DEF Spec, VerdictIsFinal

\* Only the callback of a goal makes the node know of it.
LEMMA NewStays ==
  ASSUME IInv, NEW g \in Goal, stage[g] = "new",
         \/ NextExecutor /\ UNCHANGED nodeVars
         \/ \E h \in Goal \ {g} : OnGoal(h)
         \/ \E h \in Goal : Execute(h) \/ LateTurn(h)
         \/ \E m \in ToSet(states) : OnSimState(m)
         \/ UNCHANGED vars
  PROVE  stage'[g] = "new"
  <1>1. stage \in [Goal -> Stage]
    BY DEF IInv, TypeOK, NodeTypeOK
  <1>2. ASSUME NEW h \in Goal, CheckGoal(h) \/ SetTracker(h) \/ SendPlace(h) \/ FinishGoal(h)
        PROVE  stage'[g] = "new"
    BY <1>1, <1>2 DEF CheckGoal, SetTracker, SendPlace, FinishGoal
  <1>3. ASSUME NEW h \in Goal, NEW passed, Turn(h, passed) PROVE stage'[g] = "new"
    BY <1>1, <1>3 DEF Turn, LeaveLoop
  <1>4. ASSUME NEW h \in Goal \ {g}, OnGoal(h) PROVE stage'[g] = "new"
    BY <1>1, <1>4 DEF OnGoal
  <1>5. ASSUME NEW m, OnSimState(m) PROVE stage'[g] = "new"
    BY <1>5 DEF OnSimState
  <1> QED BY <1>2, <1>3, <1>4, <1>5 DEF Execute, LateTurn, nodeVars, vars

\* A step that neither answers a goal nor shelves a book.
LEMMA HiddenStep ==
  ASSUME \A g \in Goal : Answer(g)' = Answer(g)
  PROVE  Answers' = Answers
  BY DEF Answers

\* A step that answers one goal.
LEMMA ReplyShows ==
  ASSUME IInv, NEW g \in Goal, UNCHANGED shelved, Answer(g) = "none",
         NEW a \in {"refused", "failed", "placed"}, Answer(g)' = a,
         \A h \in Goal \ {g} : Answer(h)' = Answer(h),
         a = "refused" => g \notin shelved,
         a = "placed" => g \in shelved
  PROVE  \E h \in Goal : Service!Reply(h)
  <1>1. Answers' = [Answers EXCEPT ![g] = a] /\ Answers[g] = "none"
    BY DEF Answers
  <1>2. Service!ReplyAs(g, a)
    BY <1>1 DEF Answers, Service!ReplyAs
  <1> QED BY <1>2 DEF Service!Reply

\* A book is shelved for a goal: it is one more, and fits on the tray's account.
LEMMA ShelveShows ==
  ASSUME IInv, UNCHANGED nodeVars, NEW g, g = job.token, Moving,
         shelved' = shelved \cup {g}
  PROVE  g \in Goal /\ Service!Shelve(g)
  <1>1. g \in Goal /\ Sent(g)
    BY DEF IInv, JobAgrees, Running, TypeOK, ExecutorTypeOK, StateMessage
  <1>2. target \in Slot /\ target = slotOf[g] /\ where[target] # "shelf"
    BY DEF IInv, JobAgrees
  <1>3. g \notin shelved
    BY <1>2 DEF IInv, SceneAgrees
  <1>4. Cardinality(shelved) < Cardinality(Slot)
    <2> DEFINE f == [h \in shelved |-> slotOf[h]]
               T == Slot \ {target}
    <2>1. \A h \in shelved : slotOf[h] \in T
      BY <1>2 DEF IInv, SceneAgrees
    <2>2. f \in Injection(shelved, T)
      BY <2>1 DEF IInv, SceneAgrees, Injection, IsInjective
    <2>3. /\ IsFiniteSet(Slot) /\ IsFiniteSet(T)
          /\ Cardinality(T) = Cardinality(Slot) - 1
      BY <1>2, ManipulationAssumption, FS_RemoveElement DEF ManipulationAssumption
    <2> HIDE DEF f, T
    <2>4. IsFiniteSet(shelved) /\ Cardinality(shelved) <= Cardinality(T)
      BY <2>2, <2>3, FS_Injection
    <2>5. Cardinality(shelved) \in Nat /\ Cardinality(T) \in Nat /\ Cardinality(Slot) \in Nat
      BY <2>3, <2>4, FS_CardinalityType
    <2> QED BY <2>3, <2>4, <2>5
  <1>5. Answer(g) # "refused"
    BY <1>1 DEF Answer, Sent
  <1>6. Answers' = Answers /\ Answers[g] # "refused"
    BY <1>1, <1>5 DEF Answers, Answer, nodeVars
  <1>7. Service!Cardinality(shelved) = Cardinality(shelved)
    BY DEF Cardinality, Service!Cardinality
  <1>8. Service!Shelve(g)
    BY <1>3, <1>4, <1>6, <1>7 DEF Answers, Service!Shelve
  <1> QED BY <1>1, <1>8

LEMMA NodeShows ==
  ASSUME IInv, EndedHasOutcome, NEW g \in Goal,
         OnGoal(g) \/ OnCancel(g) \/ Execute(g) \/ LateTurn(g)
  PROVE  (\E h \in Goal : Service!Reply(h)) \/ UNCHANGED <<Answers, shelved>>
  <1>1. stage \in [Goal -> Stage] /\ outcome \in [Goal -> Codes \cup {409, 412, None}]
    BY DEF IInv, TypeOK, NodeTypeOK
  <1>2. CASE OnGoal(g)
    <2>1. /\ stage[g] = "new" /\ UNCHANGED <<outcome, shelved>>
          /\ stage' = [stage EXCEPT ![g] = IF current # None THEN "rejected" ELSE "accepted"]
      BY <1>2 DEF OnGoal, executorVars, scene
    <2>2. Answer(g) = "none" /\ \A h \in Goal \ {g} : Answer(h)' = Answer(h)
      BY <1>1, <2>1 DEF Answer
    <2>3. CASE current = None
      <3>1. Answer(g)' = "none"
        BY <1>1, <2>1, <2>3 DEF Answer
      <3> QED BY <2>1, <2>2, <3>1, HiddenStep
    <2>4. CASE current # None
      <3>1. Answer(g)' = "refused"
        BY <1>1, <2>1, <2>4 DEF Answer
      <3>2. g \notin shelved
        BY <2>1 DEF IInv, SceneAgrees, Sent
      <3> QED BY <2>1, <2>2, <3>1, <3>2, ReplyShows
    <2> QED BY <2>3, <2>4
  <1>3. CASE CheckGoal(g)
    <2>1. /\ stage[g] = "accepted" /\ UNCHANGED shelved
          /\ \/ outcome' = outcome /\ stage' = [stage EXCEPT ![g] = "checked"]
             \/ \E c \in {410, 411} : /\ outcome' = [outcome EXCEPT ![g] = c]
                                      /\ stage' = [stage EXCEPT ![g] = "done"]
      <3> DEFINE selected == SlotOrCode(BookOf[g])
      <3>1. \/ "slot" \in DOMAIN selected
            \/ "slot" \notin DOMAIN selected /\ selected.code \in {410, 411}
        BY SlotSelected
      <3>2. CASE g \in ValidGoal
        BY <1>3, <3>1, <3>2 DEF CheckGoal, executorVars, scene
      <3>3. CASE g \notin ValidGoal
        BY <1>3, <3>3 DEF CheckGoal, executorVars, scene
      <3> QED BY <3>2, <3>3
    <2>2. Answer(g) = "none" /\ \A h \in Goal \ {g} : Answer(h)' = Answer(h)
      BY <1>1, <2>1 DEF Answer
    <2>3. Answer(g)' \in {"none", "failed"}
      BY <1>1, <2>1 DEF Answer
    <2>4. CASE Answer(g)' = "none"
      BY <2>1, <2>2, <2>4, HiddenStep
    <2>5. CASE Answer(g)' = "failed"
      BY <2>1, <2>2, <2>5, ReplyShows
    <2> QED BY <2>3, <2>4, <2>5
  <1>4. CASE OnCancel(g) \/ SetTracker(g) \/ SendPlace(g)
    <2>1. /\ UNCHANGED <<outcome, shelved>>
          /\ stage' \in {stage, [stage EXCEPT ![g] = "tracked"], [stage EXCEPT ![g] = "looping"]}
          /\ stage[g] \notin {"rejected", "done"}
      BY <1>4 DEF OnCancel, SetTracker, SendPlace, executorVars, scene
    <2>2. \A h \in Goal : Answer(h)' = Answer(h)
      BY <1>1, <2>1 DEF Answer
    <2> QED BY <2>1, <2>2, HiddenStep
  <1>5. ASSUME NEW passed, Turn(g, passed) PROVE UNCHANGED <<Answers, shelved>>
    <2>1. /\ stage[g] = "looping" /\ stage' \in {stage, [stage EXCEPT ![g] = "closing"]}
          /\ \/ outcome' = outcome
             \/ \E e \in {404, 411} : outcome' = [outcome EXCEPT ![g] = e]
          /\ UNCHANGED shelved
      BY <1>5, TurnEffect
    <2>2. \A h \in Goal : Answer(h)' = Answer(h)
      BY <1>1, <2>1 DEF Answer
    <2> QED BY <2>1, <2>2, HiddenStep
  <1>6. CASE FinishGoal(g)
    <2>1. /\ stage[g] = "closing" /\ stage' = [stage EXCEPT ![g] = "done"]
          /\ UNCHANGED <<outcome, shelved>>
      BY <1>6 DEF FinishGoal, executorVars, scene
    <2>2. Answer(g) = "none" /\ \A h \in Goal \ {g} : Answer(h)' = Answer(h)
      BY <1>1, <2>1 DEF Answer
    <2>3. /\ Answer(g)' \in {"placed", "failed"}
          /\ Answer(g)' = "placed" => g \in shelved
      BY <1>1, <2>1 DEF Answer, IInv, OutcomesAgree
    <2>4. CASE Answer(g)' = "placed"
      BY <2>1, <2>2, <2>3, <2>4, ReplyShows
    <2>5. CASE Answer(g)' = "failed"
      BY <2>1, <2>2, <2>5, ReplyShows
    <2> QED BY <2>3, <2>4, <2>5
  <1> QED BY <1>2, <1>3, <1>4, <1>5, <1>6 DEF Execute, LateTurn

LEMMA ExecutorShows ==
  ASSUME IInv, UNCHANGED nodeVars, NextExecutor
  PROVE  (\E h \in Goal : Service!Shelve(h)) \/ UNCHANGED <<Answers, shelved>>
  <1>1. Answers' = Answers
    BY DEF Answers, Answer, nodeVars
  <1>2. CASE Verify
    <2>1. PICK g : g = job.token
      OBVIOUS
    <2>2. shelved' = shelved \/ shelved' = shelved \cup {g}
      BY <1>2, <2>1 DEF Verify
    <2>3. Moving
      BY <1>2, MotionFacts, ManipulationAssumption DEF ManipulationAssumption, Verify, Moving
    <2> QED BY <1>1, <2>1, <2>2, <2>3, ShelveShows
  <1>3. CASE ~Verify
    BY <1>1, <1>3 DEF NextExecutor, HandleCommand, HomeReached, HomeFails, Announce,
                      NextPhase, GraspFailed, BookDropped, MotionTimeout, Fail,
                      LoseCommand, scene
  <1> QED BY <1>2, <1>3

LEMMA NextShows ==
  IInv /\ EndedHasOutcome /\ [Next]_vars => [Service!Next]_<<Answers, shelved>>
  <1> SUFFICES ASSUME IInv, EndedHasOutcome, [Next]_vars
               PROVE  Service!Next \/ UNCHANGED <<Answers, shelved>>
    BY DEF Answers
  <1>1. (\E h \in Goal : Service!Reply(h)) => Service!Next
    BY DEF Service!Next
  <1>2. (\E h \in Goal : Service!Shelve(h)) => Service!Next
    BY DEF Service!Next
  <1>3. ASSUME NEW m \in ToSet(states), OnSimState(m)
        PROVE  UNCHANGED <<Answers, shelved>>
    <2>1. /\ outcome[m.token] = None /\ current = m.token
          /\ UNCHANGED <<stage, shelved>>
          /\ outcome' = [outcome EXCEPT ![current] = OutcomeOf(m, tracker[current].timedOut)]
      BY <1>3 DEF OnSimState, TakesState, executorVars, scene
    <2>2. \A g \in Goal : g # m.token => outcome'[g] = outcome[g]
      BY <2>1 DEF IInv, TypeOK, NodeTypeOK
    <2>3. \A g \in Goal : Answer(g)' = Answer(g)
      BY <2>1, <2>2 DEF Answer, EndedHasOutcome
    <2> QED BY <2>1, <2>3, HiddenStep
  <1>4. CASE UNCHANGED vars
    BY <1>4 DEF vars, executorVars, nodeVars, scene, Answers, Answer
  <1> QED BY <1>1, <1>2, <1>3, <1>4, NodeShows, ExecutorShows DEF Next

\* Node and executor keep what a client of /place_book may count on: one answer
\* for each goal, success only with a book on the shelf, and no more books on
\* the shelf than the tray held.
THEOREM ManipulationIsAPlacementService == Spec => ImplementsPlacementService
  <1>1. Init => Service!Init /\ EndedHasOutcome
    BY DEF Init, InitExecutor, InitNode, Service!Init, Answer, EndedHasOutcome
  <1>2. IInv /\ EndedHasOutcome /\ [Next]_vars => EndedHasOutcome'
    BY EndedStep
  <1>3. IInv /\ EndedHasOutcome /\ [Next]_vars => [Service!Next]_<<Answers, shelved>>
    BY NextShows
  <1> QED BY <1>1, <1>2, <1>3, ManipulationInvariant, PTL
          DEF Spec, ImplementsPlacementService, Service!Spec, Answers
-------------------------------------------------------------------------------
(* The tray has an end *)

Successes == {g \in Goal : outcome[g] = 0}
SuccessesFitTray == IsFiniteSet(Successes) /\ Cardinality(Successes) <= Cardinality(Slot)

\* However many goals are sent, while the node runs no more of them succeed than
\* the tray has slots: used_slots is never emptied.
THEOREM NoMoreSuccessesThanSlots == Spec => []SuccessesFitTray
  <1>1. IInv => SuccessesFitTray
    <2> SUFFICES ASSUME IInv PROVE SuccessesFitTray
      OBVIOUS
    <2>1. \A g \in Successes : slotOf[g] \in Slot
      BY DEF Successes, IInv, OutcomesAgree, SceneAgrees
    <2>2. \A g, h \in Successes : slotOf[g] = slotOf[h] => g = h
      BY DEF Successes, IInv, OutcomesAgree, SceneAgrees
    <2> DEFINE S == Successes
               f == [g \in S |-> slotOf[g]]
    <2>3. f \in Injection(S, Slot)
      BY <2>1, <2>2 DEF Injection, IsInjective
    <2>4. IsFiniteSet(Slot)
      BY ManipulationAssumption DEF ManipulationAssumption
    <2> HIDE DEF f, S
    <2>5. IsFiniteSet(S) /\ Cardinality(S) <= Cardinality(Slot)
      BY <2>3, <2>4, FS_Injection
    <2> QED BY <2>5 DEF S, SuccessesFitTray
  <1> QED BY <1>1, ManipulationInvariant, PTL

\* A tray whose slots are all used stays so, and no goal that is looked at then
\* gets to the arm: it is refused with TRAY_SLOT_EMPTY, or as invalid.
FullTrayRefuses ==
  [][used = Slot =>
       /\ used' = Slot
       /\ \A g \in Goal : stage[g] = "accepted" /\ stage'[g] # "accepted" =>
                            stage'[g] = "done" /\ outcome'[g] \in {410, 411}]_vars

LEMMA FullSelectsNothing ==
  ASSUME used = Slot, NEW b
  PROVE  LET selected == SlotOrCode(b)
         IN  "slot" \notin DOMAIN selected /\ selected.code \in {410, 411}
  BY DEF SlotOrCode, Free

LEMMA FullStep ==
  ASSUME IInv, [Next]_vars, used = Slot
  PROVE  /\ used' = Slot
         /\ \A g \in Goal : stage[g] = "accepted" /\ stage'[g] # "accepted" =>
                              stage'[g] = "done" /\ outcome'[g] \in {410, 411}
  <1> DEFINE Full == /\ used' = Slot
                     /\ \A g \in Goal : stage[g] = "accepted" /\ stage'[g] # "accepted" =>
                                          stage'[g] = "done" /\ outcome'[g] \in {410, 411}
  <1>1. /\ stage \in [Goal -> Stage] /\ outcome \in [Goal -> Codes \cup {409, 412, None}]
        /\ slotOf \in [Goal -> Slot \cup {None}]
    BY DEF IInv, TypeOK, NodeTypeOK
  <1>2. ASSUME NEW h \in Goal, CheckGoal(h) PROVE Full
    <2> DEFINE selected == IF h \in ValidGoal THEN SlotOrCode(BookOf[h]) ELSE [code |-> 410]
    <2>1. "slot" \notin DOMAIN selected /\ selected.code \in {410, 411}
      BY FullSelectsNothing
    <2>2. /\ stage' = [stage EXCEPT ![h] = "done"] /\ used' = used
          /\ outcome' = [outcome EXCEPT ![h] = selected.code]
      <3>1. "slot" \notin DOMAIN selected
        BY <2>1
      <3> QED BY <1>2, <3>1 DEF CheckGoal
    <2> HIDE DEF selected
    <2> QED BY <1>1, <2>1, <2>2
  <1>3. ASSUME NEW h \in Goal, NEW passed, Turn(h, passed) PROVE Full
    BY <1>1, <1>3 DEF Turn, LeaveLoop
  <1>4. ASSUME NEW h \in Goal, OnGoal(h) \/ OnCancel(h) \/ SetTracker(h) \/ SendPlace(h)
        PROVE  Full
    BY <1>1, <1>4 DEF OnGoal, OnCancel, SetTracker, SendPlace
  <1>5. ASSUME NEW h \in Goal, FinishGoal(h) PROVE Full
    <2>1. slotOf[h] \in Slot
      BY <1>5 DEF IInv, SceneAgrees, FinishGoal
    <2> QED BY <1>1, <1>5, <2>1 DEF FinishGoal
  <1>6. ASSUME NEW m \in ToSet(states), OnSimState(m) PROVE Full
    BY <1>6 DEF OnSimState
  <1>7. CASE UNCHANGED nodeVars
    BY <1>7 DEF nodeVars
  <1> QED BY <1>2, <1>3, <1>4, <1>5, <1>6, <1>7 DEF Next, Execute, LateTurn, vars

\* After as many placements as it has slots the tray is empty for good.
THEOREM FullTraysRefuse == Spec => FullTrayRefuses
  <1>1. IInv /\ [Next]_vars =>
          [used = Slot =>
             /\ used' = Slot
             /\ \A g \in Goal : stage[g] = "accepted" /\ stage'[g] # "accepted" =>
                                  stage'[g] = "done" /\ outcome'[g] \in {410, 411}]_vars
    BY FullStep
  <1> QED BY <1>1, ManipulationInvariant, PTL DEF Spec, FullTrayRefuses
===============================================================================
