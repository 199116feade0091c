--------------------------- MODULE MockServers_proofs ---------------------------
(***************************************************************************)
(* What holds of the mock servers for any clients, books, numbers of       *)
(* phases and cancelled goals, and of the slots for any book.              *)
(***************************************************************************)
EXTENDS MockServers, FiniteSetTheorems, TLAPS

-------------------------------------------------------------------------------
(* The slots *)

LEMMA LargerIsMax ==
  ASSUME NEW m \in Int, NEW n \in Int
  PROVE  Larger(m, n) \in Int /\ Larger(m, n) >= m /\ Larger(m, n) >= n
  BY DEF Larger

\* Sizes that are all positive are the book's own.
LEMMA SizedIsItself ==
  ASSUME NEW book \in Book, Positive(book)
  PROVE  ResolveBook(book) = book
  BY DEF Positive, Sized, ResolveBook, Book

\* The slot of the mock is wide enough for the book and for the fingers.
LEMMA MockSlotIsWide ==
  ASSUME NEW book \in Book, Positive(book), book.margin > SideClearance
  PROVE  MockWidth(book) >= RequiredWidth(book)
  BY DEF Book, Positive, Sized, MockWidth, RequiredWidth, Larger, SideClearance, FingerThickness

\* And high enough, if the book is low or its margin is large.
LEMMA MockSlotIsHigh ==
  ASSUME NEW book \in Book, Positive(book), Low(book)
  PROVE  Larger(3000, book.height + book.margin) >= RequiredHeight(book)
  BY DEF Book, Positive, Sized, Low, Larger, RequiredHeight, HeightClearance

\* The arm takes every slot of the mock for every such book: mock_perception_server.py
\* and grasp_planner.py agree, though neither knows the other's numbers.
THEOREM ArmTakesMockSlots ==
  ASSUME NEW i \in 0 .. 3, NEW book \in Book
  PROVE  ArmTakesMockSlot(i, book)
  <1> SUFFICES ASSUME Ordinary(book), Low(book)
               PROVE  ArmTakes(MockSlot(i, book), book)
    BY DEF ArmTakesMockSlot
  <1> DEFINE slot == MockSlot(i, book)
  <1>1. Positive(book) /\ book.margin > SideClearance
    BY DEF Ordinary
  <1>2. Fits(slot, book)
    BY <1>1, MockSlotIsWide, MockSlotIsHigh DEF MockSlot, Fits
  <1>3. MockX[i] \in {-3497, -4297, -5097, -2697}
    BY DEF MockX
  <1>4. InRegion(slot) /\ Directed(slot) /\ slot.frame = "arm_base_link"
    BY <1>3 DEF MockSlot, InRegion, Directed, TurnTolerance
  <1>5. ResolveBook(book) = book
    BY <1>1, SizedIsItself
  <1> QED BY <1>2, <1>4, <1>5 DEF Ordinary, ArmTakes, ValidateGoal

\* It takes no slot of the vision node, whatever the book and wherever the slot:
\* vision_manager.py gives it in the frame of the robot.
THEOREM ArmRefusesVisionSlots ==
  ASSUME NEW x, NEW y, NEW z, NEW book
  PROVE  ~ ArmTakes(VisionSlot(x, y, z, book), book)
  BY DEF ArmTakes, ValidateGoal, VisionSlot
-------------------------------------------------------------------------------
(* The servers *)

\* What waits is accepted and waits once.
QueuesAgree ==
  \A s \in Server : \A i \in DOMAIN queue[s] :
    /\ stage[queue[s][i]] = "accepted"
    /\ \A j \in DOMAIN queue[s] : queue[s][i] = queue[s][j] => i = j

\* A server runs one goal at a time.
OneRuns == \A g, h \in Goal : Running(g) /\ Running(h) /\ ServerOf(g) = ServerOf(h) => g = h

\* A goal that was asked to cancel gets no further than to the first look at it.
CancelComes ==
  \A g \in asked : /\ stage[g] \in {"accepted", "running", "done"}
                   /\ Running(g) => phase[ServerOf(g)] = 0
                   /\ stage[g] = "done" => answer[g].code = CanceledCode[ServerOf(g)]

\* What succeeded is over, and what a client asks for next comes after it.
SuccessIsLast == \A g \in Goal : Succeeded(g) => stage[g] = "done"
InSequence == \A c \in Client : \A s \in DOMAIN Before :
                stage[<<c, s>>] # "new" => Succeeded(<<c, Before[s]>>)

\* A slot that was found is a slot of the shelf.
SlotsExist == \A g \in Goal : ServerOf(g) = "perception" /\ Succeeded(g) =>
                answer[g].slot \in 0 .. 3

IInv == /\ TypeOK /\ QueuesAgree /\ OneRuns /\ CancelComes
        /\ SuccessIsLast /\ InSequence /\ SlotsExist

LEMMA BeforeServer ==
  /\ DOMAIN Before = {"perception", "manipulation"}
  /\ \A s \in DOMAIN Before : s \in Server /\ Before[s] \in Server /\ Before[s] # s
  BY DEF Before, Server

LEMMA GoalServer == \A g \in Goal : ServerOf(g) \in Server /\ g = <<g[1], g[2]>>
  BY DEF Goal, ServerOf

LEMMA CodesDiffer == \A s \in Server : CanceledCode[s] \in {2002, 3002, 4002}
  BY DEF Server, CanceledCode

LEMMA PhasesPositive == \A s \in Server : Phases[s] \in Nat /\ Phases[s] > 0
  BY MockAssumption DEF MockAssumption

LEMMA InitIInv == Init => IInv
  <1> SUFFICES ASSUME Init PROVE IInv
    OBVIOUS
  <1>1. TypeOK
    BY MockAssumption DEF Init, TypeOK, Stage, MockAssumption
  <1>2. QueuesAgree /\ OneRuns /\ CancelComes
    BY DEF Init, QueuesAgree, OneRuns, CancelComes, Running
  <1>3. SuccessIsLast /\ SlotsExist
    BY DEF Init, SuccessIsLast, SlotsExist, Succeeded
  <1>4. InSequence
    BY BeforeServer DEF Init, InSequence, Goal
  <1> QED BY <1>1, <1>2, <1>3, <1>4 DEF IInv

\* A queue that a goal joins, and one that its first goal leaves.
LEMMA JoinQueue ==
  ASSUME NEW S, NEW q \in Seq(S), NEW e \in S
  PROVE  /\ Append(q, e) \in Seq(S)
         /\ \A i \in DOMAIN Append(q, e) :
              \/ i \in DOMAIN q /\ Append(q, e)[i] = q[i]
              \/ i = Len(q) + 1 /\ Append(q, e)[i] = e
  OBVIOUS

LEMMA LeaveQueue ==
  ASSUME NEW S, NEW q \in Seq(S), q # <<>>
  PROVE  /\ Tail(q) \in Seq(S) /\ Head(q) \in S /\ Head(q) = q[1] /\ 1 \in DOMAIN q
         /\ \A i \in DOMAIN Tail(q) : i \in Nat /\ i >= 1 /\ i + 1 \in DOMAIN q
                                    /\ Tail(q)[i] = q[i + 1]
  OBVIOUS

\* What a goal's first answer changes besides queues.
LEMMA RespondStep ==
  ASSUME IInv, NEW g \in Goal, NEW v \in {"accepted", "refused"},
         stage[g] = "new", Sends(g), stage' = [stage EXCEPT ![g] = v],
         UNCHANGED <<phase, asked, answer, found, next>>
  PROVE  OneRuns' /\ CancelComes' /\ SuccessIsLast' /\ InSequence' /\ SlotsExist'
  <1>1. stage \in [Goal -> Stage] /\ asked \subseteq Goal
    BY MockAssumption DEF IInv, TypeOK, MockAssumption
  <1>2. OneRuns' /\ SuccessIsLast' /\ SlotsExist'
    BY <1>1 DEF IInv, OneRuns, Running, SuccessIsLast, Succeeded, SlotsExist
  <1>3. CancelComes'
    <2>1. g \notin asked
      BY DEF IInv, CancelComes
    <2> QED BY <1>1, <2>1 DEF IInv, CancelComes, Running
  <1>4. InSequence'
    <2>1. ServerOf(g) \in DOMAIN Before => Succeeded(<<g[1], Before[ServerOf(g)]>>)
      BY BeforeServer DEF Sends
    <2>2. SUFFICES ASSUME NEW c \in Client, NEW s \in DOMAIN Before,
                          stage'[<<c, s>>] # "new"
                   PROVE  Succeeded(<<c, Before[s]>>)
      BY DEF InSequence, Succeeded
    <2>3. <<c, s>> \in Goal
      BY BeforeServer DEF Goal
    <2>4. CASE <<c, s>> = g
      BY <2>1, <2>4 DEF ServerOf
    <2>5. CASE <<c, s>> # g
      BY <1>1, <2>2, <2>3, <2>5 DEF IInv, InSequence
    <2> QED BY <2>4, <2>5
  <1> QED BY <1>2, <1>3, <1>4

LEMMA GoalCallbackStep ==
  ASSUME IInv, NEW g \in Goal, GoalCallback(g)
  PROVE  IInv'
  <1> DEFINE s == ServerOf(g)
  <1>1. s \in Server
    BY GoalServer
  <1>2. /\ stage[g] = "new" /\ Sends(g)
        /\ UNCHANGED <<phase, asked, answer, found, next>>
    BY DEF GoalCallback
  <1>3. CASE Valid(g)
    <2>1. /\ stage' = [stage EXCEPT ![g] = "accepted"]
          /\ queue' = [queue EXCEPT ![s] = Append(@, g)]
      BY <1>3 DEF GoalCallback
    <2>2. queue[s] \in Seq(Goal)
      BY <1>1 DEF IInv, TypeOK
    <2>3. queue' \in [Server -> Seq(Goal)]
      BY <1>1, <2>1, <2>2, JoinQueue DEF IInv, TypeOK
    <2>4. \A t \in Server : \A i \in DOMAIN queue'[t] : ServerOf(queue'[t][i]) = t
      BY <1>1, <2>1, <2>2, JoinQueue DEF IInv, TypeOK
    <2>5. TypeOK'
      BY <1>2, <2>1, <2>3, <2>4 DEF IInv, TypeOK, Stage
    <2>6. QueuesAgree'
      <3>1. \A t \in Server : queue[t] \in Seq(Goal)
        BY DEF IInv, TypeOK
      <3>2. \A t \in Server : \A i \in DOMAIN queue[t] : queue[t][i] \in Goal /\ queue[t][i] # g
        BY <1>2, <3>1 DEF IInv, QueuesAgree
      <3>3. ASSUME NEW t \in Server, t # s, NEW i \in DOMAIN queue'[t]
            PROVE  /\ stage'[queue'[t][i]] = "accepted"
                   /\ \A j \in DOMAIN queue'[t] : queue'[t][i] = queue'[t][j] => i = j
        BY <2>1, <3>2, <3>3 DEF IInv, TypeOK, QueuesAgree
      <3>4. ASSUME NEW i \in DOMAIN queue'[s]
            PROVE  /\ stage'[queue'[s][i]] = "accepted"
                   /\ \A j \in DOMAIN queue'[s] : queue'[s][i] = queue'[s][j] => i = j
        <4>1. queue'[s] = Append(queue[s], g)
          BY <1>1, <2>1 DEF IInv, TypeOK
        <4>2. \A j \in DOMAIN queue'[s] :
                \/ j \in DOMAIN queue[s] /\ queue'[s][j] = queue[s][j]
                \/ j = Len(queue[s]) + 1 /\ queue'[s][j] = g
          BY <2>2, <4>1, JoinQueue
        <4>3. stage'[queue'[s][i]] = "accepted"
          BY <1>1, <2>1, <3>2, <4>2 DEF IInv, TypeOK, QueuesAgree
        <4>4. \A j \in DOMAIN queue'[s] : queue'[s][i] = queue'[s][j] => i = j
          BY <1>1, <3>2, <4>2 DEF IInv, QueuesAgree
        <4> QED BY <4>3, <4>4
      <3> QED BY <3>3, <3>4 DEF QueuesAgree
    <2> QED BY <1>2, <2>1, <2>5, <2>6, RespondStep DEF IInv
  <1>4. CASE ~Valid(g)
    <2>1. stage' = [stage EXCEPT ![g] = "refused"] /\ UNCHANGED queue
      BY <1>4 DEF GoalCallback
    <2>2. TypeOK'
      BY <1>2, <2>1 DEF IInv, TypeOK, Stage
    <2>3. QueuesAgree'
      BY <1>2, <2>1 DEF IInv, TypeOK, QueuesAgree
    <2> QED BY <1>2, <2>1, <2>2, <2>3, RespondStep DEF IInv
  <1> QED BY <1>3, <1>4

LEMMA CancelCallbackStep ==
  ASSUME IInv, NEW g \in Goal, CancelCallback(g)
  PROVE  IInv'
  <1> USE DEF IInv, CancelCallback
  <1>1. TypeOK' /\ QueuesAgree' /\ OneRuns'
    BY DEF TypeOK, QueuesAgree, OneRuns, Running
  <1>2. stage[g] = "accepted"
    BY DEF Idle
  <1>3. CancelComes'
    BY <1>2 DEF CancelComes, Running
  <1>4. SuccessIsLast' /\ InSequence' /\ SlotsExist'
    BY DEF SuccessIsLast, InSequence, SlotsExist, Succeeded
  <1> QED BY <1>1, <1>3, <1>4

LEMMA ExecuteStep ==
  ASSUME IInv, NEW s \in Server, Execute(s)
  PROVE  IInv'
  <1> USE DEF IInv, Execute
  <1> DEFINE g == Head(queue[s])
  <1>1. /\ queue[s] \in Seq(Goal) /\ queue[s] # <<>> /\ g \in Goal
        /\ ServerOf(g) = s /\ stage[g] = "accepted" /\ g = queue[s][1]
    BY DEF TypeOK, QueuesAgree
  <1>2. TypeOK'
    <2>1. phase' \in [Server -> Nat] /\ \A t \in Server : phase'[t] <= Phases[t]
      BY PhasesPositive DEF TypeOK
    <2>2. queue' \in [Server -> Seq(Goal)]
      BY <1>1, LeaveQueue DEF TypeOK
    <2>3. \A t \in Server : \A i \in DOMAIN queue'[t] : ServerOf(queue'[t][i]) = t
      BY <1>1, LeaveQueue DEF TypeOK
    <2>4. stage' \in [Goal -> Stage]
      BY <1>1 DEF TypeOK, Stage
    <2> QED BY <2>1, <2>2, <2>3, <2>4 DEF TypeOK
  <1>3. QueuesAgree'
    BY <1>1, LeaveQueue DEF TypeOK, QueuesAgree
  <1>4. OneRuns'
    BY <1>1 DEF TypeOK, OneRuns, Running, Idle
  <1>5. CancelComes'
    BY <1>1 DEF TypeOK, CancelComes, Running, Idle
  <1>6. SuccessIsLast' /\ SlotsExist'
    BY <1>1 DEF TypeOK, SuccessIsLast, SlotsExist, Succeeded
  <1>7. InSequence'
    BY <1>1, BeforeServer DEF TypeOK, InSequence, Succeeded, Goal
  <1> QED BY <1>2, <1>3, <1>4, <1>5, <1>6, <1>7

\* A goal goes on, or ends.
LEMMA FeedbackStep ==
  ASSUME IInv, NEW g \in Goal, Feedback(g)
  PROVE  IInv'
  <1>1. /\ g \notin asked /\ Running(g) /\ ServerOf(g) \in Server
        /\ phase[ServerOf(g)] < Phases[ServerOf(g)]
        /\ phase' = [phase EXCEPT ![ServerOf(g)] = @ + 1]
        /\ UNCHANGED <<stage, asked, answer, queue, found, next>>
    BY GoalServer DEF Feedback, NextPhase, CancelRequested
  <1>2. TypeOK'
    <2>1. phase' \in [Server -> Nat] /\ \A t \in Server : phase'[t] <= Phases[t]
      <3>1. phase \in [Server -> Nat] /\ \A t \in Server : phase[t] <= Phases[t]
        BY DEF IInv, TypeOK
      <3>2. phase' \in [Server -> Nat]
        BY <1>1, <3>1
      <3>3. \A t \in Server : phase'[t] <= Phases[t]
        BY <1>1, <3>1, PhasesPositive
      <3> QED BY <3>2, <3>3
    <2> QED BY <1>1, <2>1 DEF IInv, TypeOK
  <1>3. CancelComes'
    <2>1. SUFFICES ASSUME NEW h \in asked, Running(h) PROVE phase'[ServerOf(h)] = 0
      BY <1>1 DEF IInv, CancelComes, Running
    <2>2. h \in Goal /\ h # g
      BY <1>1, MockAssumption DEF IInv, TypeOK, MockAssumption
    <2>3. ServerOf(h) # ServerOf(g) /\ ServerOf(h) \in Server
      BY <1>1, <2>1, <2>2, GoalServer DEF IInv, OneRuns
    <2>4. phase[ServerOf(h)] = 0
      BY <2>1 DEF IInv, CancelComes
    <2> QED BY <1>1, <2>3, <2>4 DEF IInv, TypeOK
  <1>4. QueuesAgree' /\ OneRuns' /\ SuccessIsLast' /\ InSequence' /\ SlotsExist'
    BY <1>1 DEF IInv, QueuesAgree, OneRuns, Running, SuccessIsLast, InSequence,
       SlotsExist, Succeeded
  <1> QED BY <1>2, <1>3, <1>4 DEF IInv

LEMMA EndStep ==
  ASSUME IInv, NEW g \in Goal, NEW r \in Result, End(g, r), Running(g),
         found' \in Seq(0 .. 3), next' \in Nat,
         g \in asked => r.code = CanceledCode[ServerOf(g)],
         ServerOf(g) = "perception" /\ r.code = 0 => r.slot \in 0 .. 3
  PROVE  IInv'
  <1>1. /\ stage' = [stage EXCEPT ![g] = "done"] /\ answer' = [answer EXCEPT ![g] = r]
        /\ UNCHANGED <<phase, asked, queue>>
    BY DEF End
  <1>2. /\ stage \in [Goal -> Stage] /\ answer \in [Goal -> Result \cup {None}]
        /\ asked \subseteq Goal /\ queue \in [Server -> Seq(Goal)]
    BY MockAssumption DEF IInv, TypeOK, MockAssumption
  <1>3. TypeOK'
    BY <1>1 DEF IInv, TypeOK, Stage
  <1>4. QueuesAgree'
    <2>1. \A s \in Server : \A i \in DOMAIN queue[s] : queue[s][i] # g
      BY DEF IInv, QueuesAgree, Running
    <2> QED BY <1>1, <1>2, <2>1 DEF IInv, QueuesAgree
  <1>5. OneRuns'
    BY <1>1, <1>2 DEF IInv, OneRuns, Running
  <1>6. CancelComes'
    BY <1>1, <1>2 DEF IInv, CancelComes, Running
  <1>7. SuccessIsLast' /\ SlotsExist'
    BY <1>1, <1>2 DEF IInv, SuccessIsLast, SlotsExist, Succeeded
  <1>8. InSequence'
    <2>1. SUFFICES ASSUME NEW c \in Client, NEW s \in DOMAIN Before,
                          stage'[<<c, s>>] # "new"
                   PROVE  Succeeded(<<c, Before[s]>>)'
      BY DEF InSequence
    <2>2. <<c, s>> \in Goal /\ <<c, Before[s]>> \in Goal
      BY BeforeServer DEF Goal
    <2>3. Succeeded(<<c, Before[s]>>)
      BY <1>1, <1>2, <2>1, <2>2 DEF IInv, InSequence, Running
    <2>4. <<c, Before[s]>> # g
      BY <2>2, <2>3 DEF IInv, SuccessIsLast, Running
    <2> QED BY <1>1, <1>2, <2>2, <2>3, <2>4 DEF Succeeded
  <1> QED BY <1>3, <1>4, <1>5, <1>6, <1>7, <1>8 DEF IInv

\* Who has been asked to cancel never reaches the end.
LEMMA ReachesUnasked ==
  ASSUME IInv, NEW g \in Goal, Reaches(g)
  PROVE  g \notin asked
  BY GoalServer, MockAssumption DEF IInv, CancelComes, Reaches, MockAssumption

LEMMA EndingsStep ==
  ASSUME IInv, NEW g \in Goal, Canceled(g) \/ Arrive(g) \/ FindSlot(g) \/ Place(g)
  PROVE  IInv'
  <1>1. found \in Seq(0 .. 3) /\ next \in Nat
    BY DEF IInv, TypeOK
  <1>2. CASE Canceled(g)
    <2>1. CanceledCode[ServerOf(g)] \in {2002, 3002, 4002}
      BY GoalServer, CodesDiffer
    <2>2. [code |-> CanceledCode[ServerOf(g)], slot |-> None] \in Result
      BY <2>1 DEF Result
    <2> QED BY <1>1, <1>2, <2>1, <2>2, EndStep DEF Canceled, NextPhase
  <1>3. CASE Arrive(g) \/ Place(g)
    <2>1. [code |-> 0, slot |-> None] \in Result /\ g \notin asked
      BY <1>3, ReachesUnasked DEF Result, Arrive, Place
    <2> QED BY <1>1, <1>3, <2>1, EndStep DEF Arrive, Place, Reaches
  <1>4. CASE FindSlot(g)
    <2>1. SlotIndex \in 0 .. 3
      BY <1>1 DEF SlotIndex
    <2>2. [code |-> 0, slot |-> SlotIndex] \in Result /\ g \notin asked
      BY <1>4, <2>1, ReachesUnasked DEF Result, FindSlot
    <2>3. found' \in Seq(0 .. 3) /\ next' \in Nat
      BY <1>1, <1>4, <2>1 DEF FindSlot
    <2> QED BY <1>4, <2>1, <2>2, <2>3, EndStep DEF FindSlot, Reaches
  <1> QED BY <1>2, <1>3, <1>4

LEMMA NextIInv == IInv /\ [Next]_vars => IInv'
  <1> SUFFICES ASSUME IInv, [Next]_vars PROVE IInv'
    OBVIOUS
  <1>1. ASSUME NEW g \in Goal, GoalCallback(g) \/ CancelCallback(g) \/ Feedback(g)
        PROVE  IInv'
    BY <1>1, GoalCallbackStep, CancelCallbackStep, FeedbackStep
  <1>2. ASSUME NEW g \in Goal, Canceled(g) \/ Arrive(g) \/ FindSlot(g) \/ Place(g)
        PROVE  IInv'
    BY <1>2, EndingsStep
  <1>3. ASSUME NEW s \in Server, Execute(s) PROVE IInv'
    BY <1>3, ExecuteStep
  <1>4. CASE UNCHANGED vars
    BY <1>4 DEF vars, IInv, TypeOK, QueuesAgree, OneRuns, Running, CancelComes,
       SuccessIsLast, InSequence, SlotsExist, Succeeded
  <1> QED BY <1>1, <1>2, <1>3, <1>4 DEF Next

\* Queues, the goal that runs, cancels and the client's order agree in every state.
THEOREM MockInvariant == Spec => []IInv
  BY InitIInv, NextIInv, PTL DEF Spec

\* Queues, results and counters of the three servers keep their types, and a
\* queue holds goals of its own server only.
THEOREM MockTypes == Spec => []TypeOK
  <1>1. IInv => TypeOK
    BY DEF IInv
  <1> QED BY <1>1, MockInvariant, PTL

\* A cancel that a mock server has accepted is carried out, and the client's next
\* goal is never sent, for any number of clients, goals and phases.
THEOREM CancelsAreHonoured == Spec => []CancelIsHonoured
  <1>1. IInv => CancelIsHonoured
    <2> SUFFICES ASSUME IInv, NEW g \in asked
                 PROVE  /\ stage[g] = "done" => answer[g].code = CanceledCode[ServerOf(g)]
                        /\ \A s \in DOMAIN Before :
                             Before[s] = ServerOf(g) => stage[<<g[1], s>>] = "new"
      BY DEF CancelIsHonoured
    <2>1. g \in Goal
      BY MockAssumption DEF IInv, TypeOK, MockAssumption
    <2>2. stage[g] = "done" => answer[g].code = CanceledCode[ServerOf(g)]
      BY DEF IInv, CancelComes
    <2>3. CanceledCode[ServerOf(g)] # 0
      BY <2>1, GoalServer, CodesDiffer
    <2>4. ~Succeeded(g)
      BY <2>1, <2>2, <2>3 DEF IInv, SuccessIsLast, Succeeded
    <2>5. ASSUME NEW s \in DOMAIN Before, Before[s] = ServerOf(g)
          PROVE  stage[<<g[1], s>>] = "new"
      <3>1. g[1] \in Client /\ <<g[1], Before[s]>> = g
        BY <2>1, <2>5 DEF Goal, ServerOf
      <3> QED BY <2>4, <3>1 DEF IInv, InSequence
    <2> QED BY <2>2, <2>5
  <1> QED BY <1>1, MockInvariant, PTL

\* Every slot that the perception mock answers with is one that the arm takes for
\* that client's book (mock_perception_server.py, grasp_planner.py).
THEOREM FoundSlotsDoFit == Spec => []FoundSlotsFit
  <1>1. IInv => FoundSlotsFit
    <2> SUFFICES ASSUME IInv, NEW c \in Client,
                        answer[<<c, "perception">>] # None,
                        answer[<<c, "perception">>].code = 0
                 PROVE  ArmTakesMockSlot(answer[<<c, "perception">>].slot, BookOf[c])
      BY DEF FoundSlotsFit
    <2>1. <<c, "perception">> \in Goal /\ ServerOf(<<c, "perception">>) = "perception"
      BY DEF Goal, Server, ServerOf
    <2>2. answer[<<c, "perception">>].slot \in 0 .. 3
      BY <2>1 DEF IInv, SlotsExist, Succeeded
    <2>3. BookOf[c] \in Book
      BY MockAssumption DEF MockAssumption
    <2> QED BY <2>2, <2>3, ArmTakesMockSlots
  <1> QED BY <1>1, MockInvariant, PTL
-------------------------------------------------------------------------------
(* The slots in turn *)

\* The goals that were answered with slot i, and when it was given away.
With(i) == {g \in Goal : answer[g] # None /\ answer[g].slot = i}
When(i) == {n \in DOMAIN found : found[n] = i}

\* Only what is over has an answer.  The slots go round, and each of them has as
\* many answers as it has been given away.
Answered == \A g \in Goal : answer[g] # None => stage[g] = "done"
Round == next = Len(found) /\ \A n \in DOMAIN found : found[n] = (n - 1) % 4
Counted == \A i \in 0 .. 3 : /\ IsFiniteSet(With(i)) /\ IsFiniteSet(When(i))
                             /\ Cardinality(With(i)) = Cardinality(When(i))
Turns == Answered /\ Round /\ Counted

LEMMA InitTurns == Init => Turns
  <1> SUFFICES ASSUME Init PROVE Turns
    OBVIOUS
  <1>1. Answered /\ Round
    BY DEF Init, Answered, Round
  <1>2. ASSUME NEW i \in 0 .. 3 PROVE With(i) = {} /\ When(i) = {}
    BY DEF Init, With, When
  <1>3. Counted
    BY <1>2, FS_EmptySet DEF Counted
  <1> QED BY <1>1, <1>3 DEF Turns

\* Nothing is answered.
LEMMA NoTurn ==
  ASSUME IInv, Turns, UNCHANGED <<answer, found, next>>,
         \A g \in Goal : stage[g] = "done" => stage'[g] = "done"
  PROVE  Turns'
  <1>1. Answered' /\ Round'
    BY DEF Turns, Answered, Round
  <1>2. \A i : With(i)' = With(i) /\ When(i)' = When(i)
    BY DEF With, When
  <1>3. Counted'
    BY <1>2 DEF Turns, Counted
  <1> QED BY <1>1, <1>3 DEF Turns

LEMMA EndAnswers ==
  ASSUME IInv, Turns, NEW g \in Goal, NEW r \in Result, End(g, r), Running(g)
  PROVE  /\ Answered'
         /\ \A i \in 0 .. 3 : /\ g \notin With(i)
                              /\ With(i)' = IF r.slot = i THEN With(i) \cup {g} ELSE With(i)
  <1>1. /\ stage' = [stage EXCEPT ![g] = "done"] /\ answer' = [answer EXCEPT ![g] = r]
    BY DEF End
  <1>2. stage \in [Goal -> Stage] /\ answer \in [Goal -> Result \cup {None}]
    BY DEF IInv, TypeOK
  <1>3. answer[g] = None /\ r # None
    BY MockAssumption DEF MockAssumption, Turns, Answered, Running
  <1>4. Answered'
    BY <1>1, <1>2 DEF Turns, Answered
  <1>5. ASSUME NEW i \in 0 .. 3
        PROVE  With(i)' = IF r.slot = i THEN With(i) \cup {g} ELSE With(i)
    BY <1>1, <1>2, <1>3 DEF With
  <1>6. \A i \in 0 .. 3 : g \notin With(i)
    BY <1>3 DEF With
  <1> QED BY <1>4, <1>5, <1>6

LEMMA SlotlessEndTurns ==
  ASSUME IInv, Turns, NEW g \in Goal, NEW r \in Result, End(g, r), Running(g),
         r.slot = None, UNCHANGED <<found, next>>
  PROVE  Turns'
  <1>1. \A i \in 0 .. 3 : With(i)' = With(i)
    BY EndAnswers, MockAssumption DEF MockAssumption
  <1>2. \A i : When(i)' = When(i)
    BY DEF When
  <1>3. Counted'
    BY <1>1, <1>2 DEF Turns, Counted
  <1>4. Round'
    BY DEF Turns, Round
  <1> QED BY <1>3, <1>4, EndAnswers DEF Turns

LEMMA FindSlotTurns ==
  ASSUME IInv, Turns, NEW g \in Goal, FindSlot(g)
  PROVE  Turns'
  <1> DEFINE r == [code |-> 0, slot |-> SlotIndex]
             n == Len(found) + 1
  <1>1. /\ found \in Seq(0 .. 3) /\ next \in Nat /\ next = Len(found)
        /\ SlotIndex = (n - 1) % 4 /\ SlotIndex \in 0 .. 3 /\ n \in Nat
    BY DEF IInv, TypeOK, Turns, Round, SlotIndex
  <1>2. /\ r \in Result /\ End(g, r) /\ Running(g) /\ r.slot = SlotIndex
        /\ found' = Append(found, SlotIndex) /\ next' = next + 1
    BY <1>1 DEF FindSlot, Reaches, Result
  <1>3. /\ DOMAIN found' = DOMAIN found \cup {n} /\ n \notin DOMAIN found
        /\ found'[n] = SlotIndex /\ Len(found') = n
        /\ \A k \in DOMAIN found : found'[k] = found[k]
    BY <1>1, <1>2
  <1>4. Round'
    BY <1>1, <1>2, <1>3 DEF Turns, Round
  <1> HIDE DEF r, n
  <1>5. ASSUME NEW i \in 0 .. 3
        PROVE  /\ n \notin When(i)
               /\ When(i)' = IF r.slot = i THEN When(i) \cup {n} ELSE When(i)
    BY <1>2, <1>3 DEF When
  <1>6. \A i \in 0 .. 3 :
           /\ g \notin With(i)
           /\ With(i)' = IF r.slot = i THEN With(i) \cup {g} ELSE With(i)
    BY <1>2, EndAnswers
  <1>7. ASSUME NEW i \in 0 .. 3
        PROVE  /\ IsFiniteSet(With(i)') /\ IsFiniteSet(When(i)')
               /\ Cardinality(With(i)') = Cardinality(When(i)')
    <2>1. /\ IsFiniteSet(With(i)) /\ IsFiniteSet(When(i))
          /\ Cardinality(With(i)) = Cardinality(When(i))
      BY DEF Turns, Counted
    <2>2. /\ IsFiniteSet(With(i) \cup {g})
          /\ Cardinality(With(i) \cup {g}) = Cardinality(With(i)) + 1
      <3>1. g \notin With(i)
        BY <1>6
      <3> QED BY <2>1, <3>1, FS_AddElement, Zenon
    <2>3. /\ IsFiniteSet(When(i) \cup {n})
          /\ Cardinality(When(i) \cup {n}) = Cardinality(When(i)) + 1
      <3>1. n \notin When(i)
        BY <1>5
      <3> QED BY <2>1, <3>1, FS_AddElement, Zenon
    <2> QED BY <1>5, <1>6, <2>1, <2>2, <2>3
  <1>8. Counted'
    BY <1>7 DEF Counted
  <1> QED BY <1>2, <1>4, <1>8, EndAnswers DEF Turns

LEMMA NextTurns == IInv /\ Turns /\ [Next]_vars => Turns'
  <1> SUFFICES ASSUME IInv, Turns, [Next]_vars PROVE Turns'
    OBVIOUS
  <1>0. stage \in [Goal -> Stage]
    BY DEF IInv, TypeOK
  <1>1. ASSUME NEW g \in Goal, GoalCallback(g) \/ CancelCallback(g) \/ Feedback(g)
        PROVE  Turns'
    <2>1. \A h \in Goal : stage[h] = "done" => stage'[h] = "done"
      BY <1>0, <1>1 DEF GoalCallback, CancelCallback, Feedback
    <2> QED BY <1>1, <2>1, NoTurn DEF GoalCallback, CancelCallback, Feedback
  <1>2. ASSUME NEW g \in Goal, Canceled(g) PROVE Turns'
    <2>1. [code |-> CanceledCode[ServerOf(g)], slot |-> None] \in Result
      BY GoalServer, CodesDiffer DEF Result
    <2> QED BY <1>2, <2>1, SlotlessEndTurns DEF Canceled, NextPhase
  <1>3. ASSUME NEW g \in Goal, Arrive(g) \/ Place(g) PROVE Turns'
    <2>1. [code |-> 0, slot |-> None] \in Result
      BY DEF Result
    <2> QED BY <1>3, <2>1, SlotlessEndTurns DEF Arrive, Place, Reaches
  <1>4. ASSUME NEW g \in Goal, FindSlot(g) PROVE Turns'
    BY <1>4, FindSlotTurns
  <1>5. ASSUME NEW s \in Server, Execute(s) PROVE Turns'
    <2>1. Head(queue[s]) \in Goal /\ stage[Head(queue[s])] = "accepted"
      BY <1>5 DEF Execute, IInv, TypeOK, QueuesAgree
    <2>2. \A h \in Goal : stage[h] = "done" => stage'[h] = "done"
      BY <1>0, <1>5, <2>1 DEF Execute
    <2> QED BY <1>5, <2>2, NoTurn DEF Execute
  <1>6. CASE UNCHANGED vars
    BY <1>6, NoTurn DEF vars
  <1> QED BY <1>1, <1>2, <1>3, <1>4, <1>5, <1>6 DEF Next

\* The slots that the mock gives out go round, each answer carries one, and each
\* that was given out is in an answer (_execute of mock_perception_server.py).
THEOREM SlotsGoRound == Spec => []Turns
  <1>1. Init => IInv /\ Turns
    BY InitIInv, InitTurns
  <1>2. IInv /\ Turns /\ [Next]_vars => (IInv /\ Turns)'
    BY NextIInv, NextTurns
  <1> QED BY <1>1, <1>2, PTL DEF Spec

\* Four slots in a row are four slots, and there is an answer for each slot that
\* was given away and no other, however many goals were cancelled in between.
THEOREM SlotsAreInTurn == Spec => []SlotsInTurn
  <1>1. IInv /\ Turns => SlotsInTurn
    <2> SUFFICES ASSUME IInv, Turns PROVE SlotsInTurn
      OBVIOUS
    <2>1. ASSUME NEW i \in DOMAIN found, NEW j \in DOMAIN found, i < j, j - i < 4
          PROVE  found[i] # found[j]
      <3>1. i \in Nat /\ j \in Nat /\ i >= 1 /\ found[i] = (i - 1) % 4 /\ found[j] = (j - 1) % 4
        BY DEF IInv, TypeOK, Turns, Round
      <3> QED BY <2>1, <3>1
    <2>2. \A i \in 0 .. 3 : Cardinality(With(i)) = Cardinality(When(i))
      BY DEF Turns, Counted
    <2> QED BY <2>1, <2>2 DEF SlotsInTurn, With, When
  <1> QED BY <1>1, MockInvariant, SlotsGoRound, PTL
-------------------------------------------------------------------------------
(* Each server is an action server.                                           *)

Status == [g \in Goal |-> StatusOf(g)]

\* One goal changes its status.
LEMMA StatusStep ==
  ASSUME NEW g \in Goal, NEW s, StatusOf(g)' = s,
         \A h \in Goal \ {g} : StatusOf(h)' = StatusOf(h)
  PROVE  Status' = [Status EXCEPT ![g] = s]
  BY DEF Status

LEMMA RespondShows ==
  ASSUME IInv, NEW g \in Goal, GoalCallback(g)
  PROVE  Service!Respond(g)
  <1>1. PICK s \in {"accepted", "refused"} : stage' = [stage EXCEPT ![g] = s]
    BY DEF GoalCallback
  <1>2. stage[g] = "new" /\ UNCHANGED <<asked, answer>>
    BY DEF GoalCallback
  <1>3. StatusOf(g) = "new" /\ StatusOf(g)' = s
    BY <1>1, <1>2 DEF StatusOf, IInv, TypeOK
  <1>4. \A h \in Goal \ {g} : StatusOf(h)' = StatusOf(h)
    BY <1>1, <1>2 DEF StatusOf, EndingOf, Succeeded, IInv, TypeOK
  <1>5. Status' = [Status EXCEPT ![g] = s]
    BY <1>3, <1>4, StatusStep
  <1> QED BY <1>2, <1>3, <1>5 DEF Status, Service!Respond

LEMMA CancelShows ==
  ASSUME IInv, NEW g \in Goal, CancelCallback(g)
  PROVE  Service!AskCancel(g)
  <1>1. stage[g] \in {"accepted", "running"} /\ asked' = asked \cup {g}
        /\ UNCHANGED <<stage, answer>>
    BY DEF CancelCallback
  <1>2. StatusOf(g) = "accepted"
    BY <1>1 DEF StatusOf
  <1>3. Status' = Status
    BY <1>1 DEF Status, StatusOf, EndingOf, Succeeded
  <1> QED BY <1>1, <1>2, <1>3 DEF Status, Service!AskCancel

LEMMA EndShows ==
  ASSUME IInv, NEW g \in Goal, NEW r \in Result, End(g, r), Running(g),
         r.code # 0 => g \in asked
  PROVE  Service!End(g)
  <1> DEFINE s == IF r.code = 0 THEN "succeeded" ELSE "canceled"
  <1>1. /\ stage' = [stage EXCEPT ![g] = "done"] /\ answer' = [answer EXCEPT ![g] = r]
        /\ UNCHANGED asked
    BY DEF End
  <1>2. StatusOf(g) = "accepted"
    BY DEF StatusOf, Running
  <1>3. Succeeded(g)' <=> r.code = 0
    BY <1>1, MockAssumption DEF Succeeded, IInv, TypeOK, MockAssumption
  <1>4. StatusOf(g)' = s
    BY <1>1, <1>3 DEF StatusOf, EndingOf, IInv, TypeOK
  <1>5. \A h \in Goal \ {g} : StatusOf(h)' = StatusOf(h)
    BY <1>1 DEF StatusOf, EndingOf, Succeeded, IInv, TypeOK
  <1>6. s \in Service!Ending /\ (s = "canceled" => g \in asked)
    BY DEF Service!Ending
  <1> HIDE DEF s
  <1>7. Status' = [Status EXCEPT ![g] = s]
    BY <1>4, <1>5, StatusStep
  <1>8. Status[g] = "accepted"
    BY <1>2 DEF Status
  <1>9. Service!EndAs(g, s)
    BY <1>1, <1>6, <1>7, <1>8 DEF Status, Service!EndAs
  <1> QED BY <1>6, <1>9 DEF Service!End

LEMMA EndingsShow ==
  ASSUME IInv, NEW g \in Goal, Canceled(g) \/ Arrive(g) \/ FindSlot(g) \/ Place(g)
  PROVE  Service!End(g)
  <1>1. CASE Canceled(g)
    <2>1. CanceledCode[ServerOf(g)] \in {2002, 3002, 4002}
      BY GoalServer, CodesDiffer
    <2>2. [code |-> CanceledCode[ServerOf(g)], slot |-> None] \in Result
      BY <2>1 DEF Result
    <2> QED BY <1>1, <2>2, EndShows DEF Canceled, NextPhase, CancelRequested
  <1>2. CASE Arrive(g) \/ Place(g)
    <2>1. [code |-> 0, slot |-> None] \in Result
      BY DEF Result
    <2> QED BY <1>2, <2>1, EndShows DEF Arrive, Place, Reaches
  <1>3. CASE FindSlot(g)
    <2>1. [code |-> 0, slot |-> SlotIndex] \in Result
      BY DEF Result, SlotIndex, IInv, TypeOK
    <2> QED BY <1>3, <2>1, EndShows DEF FindSlot, Reaches
  <1> QED BY <1>1, <1>2, <1>3

LEMMA RunShows ==
  ASSUME IInv, \/ \E s \in Server : Execute(s)
               \/ \E g \in Goal : Feedback(g)
               \/ UNCHANGED vars
  PROVE  UNCHANGED <<Status, asked>>
  <1>1. CASE UNCHANGED <<stage, asked, answer>>
    BY <1>1 DEF Status, StatusOf, EndingOf, Succeeded
  <1>2. ASSUME NEW s \in Server, Execute(s) PROVE UNCHANGED <<Status, asked>>
    <2>1. Head(queue[s]) \in Goal /\ stage[Head(queue[s])] = "accepted"
      BY <1>2 DEF Execute, IInv, TypeOK, QueuesAgree
    <2>2. \A g \in Goal : StatusOf(g)' = StatusOf(g)
      BY <1>2, <2>1 DEF Execute, StatusOf, EndingOf, Succeeded, IInv, TypeOK
    <2> QED BY <1>2, <2>2 DEF Status, Execute
  <1> QED BY <1>1, <1>2 DEF Feedback, vars

LEMMA InitShows == Init => Service!Init
  BY DEF Init, Service!Init, StatusOf

LEMMA NextShows ==
  IInv /\ [Next]_vars => [Service!Next]_<<Status, asked>>
  <1> SUFFICES ASSUME IInv, [Next]_vars
               PROVE  Service!Next \/ UNCHANGED <<Status, asked>>
    OBVIOUS
  <1>1. ASSUME NEW g \in Goal, GoalCallback(g) \/ CancelCallback(g)
        PROVE  Service!Next
    BY <1>1, RespondShows, CancelShows DEF Service!Next
  <1>2. ASSUME NEW g \in Goal, Canceled(g) \/ Arrive(g) \/ FindSlot(g) \/ Place(g)
        PROVE  Service!Next
    BY <1>2, EndingsShow DEF Service!Next
  <1> QED BY <1>1, <1>2, RunShows DEF Next

\* Goals of the mocks are refused, accepted, cancelled and ended as those of the
\* servers they stand for, which the same abstract service describes.
THEOREM MocksAreActionServers == Spec => ImplementsActionService
  <1>1. Init => Service!Init
    BY InitShows
  <1>2. IInv /\ [Next]_vars => [Service!Next]_<<Status, asked>>
    BY NextShows
  <1> QED BY <1>1, <1>2, MockInvariant, PTL
          DEF Spec, ImplementsActionService, Service!Spec, Status
===============================================================================
