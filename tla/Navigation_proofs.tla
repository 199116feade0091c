--------------------------- MODULE Navigation_proofs ---------------------------
(***************************************************************************)
(* What holds of the navigation node for any goals, however they overlap,  *)
(* and whatever Nav2 does with them.                                       *)
(***************************************************************************)
EXTENDS Navigation, TLAPS

\* How far Nav2 is with a goal follows from how far its coroutine is.
NotYetAsked(g) == stage[g] \in {"new", "refused", "accepted", "preparing"}
Over(g) == stage[g] \in {"leaving", "done"}

StagesAgree ==
  \A g \in Goal : /\ NotYetAsked(g) => nav2[g] = "none"
                  /\ stage[g] = "measuring" => nav2[g] = "succeeded"
                  /\ Over(g) <=> answer[g] # None

IInv == TypeOK /\ StagesAgree /\ IdleIsClean /\ CodeMeansStopped
-------------------------------------------------------------------------------
LEMMA InitIInv == Init => IInv
  BY NavigationAssumption
     DEF Init, IInv, TypeOK, StagesAgree, IdleIsClean, CodeMeansStopped, Stage,
         Executing, NotYetAsked, Over

\* Every step keeps the types.
LEMMA TypeStep ==
  ASSUME TypeOK, [Next]_vars
  PROVE  TypeOK'
  <1> USE DEF TypeOK, Stage, Answer, Ended, fields, execVars
  <1>1. ASSUME NEW g \in Goal, GoalCallback(g) \/ CancelCallback(g) PROVE TypeOK'
    BY <1>1 DEF GoalCallback, CancelCallback
  <1>2. ASSUME NEW g \in Goal, Execute(g) PROVE TypeOK'
    <2>1. CASE Begin(g) \/ SendGoal(g) \/ Accepted(g) \/ Leave(g)
      BY <2>1 DEF Begin, SendGoal, Accepted, Leave, FinalAnswer
    <2>5. ASSUME Raise(g), UNCHANGED <<fields, nav2>> PROVE TypeOK'
      BY <2>5 DEF Raise
    <2>2. ASSUME NEW s \in {"succeeded", "aborted"}, NEW c \in {0, 2001, 2002, 2003, 2004},
                 Conclude(g, s, c), UNCHANGED <<fields, nav2>>
          PROVE  TypeOK'
      BY <2>2 DEF Conclude
    <2>3. CASE NoServer(g) \/ NoTarget(g) \/ NotAccepted(g) \/ RelayRaises(g)
               \/ CheckTolerance(g)
      BY <2>2, <2>3, <2>5 DEF NoServer, NoTarget, NotAccepted, RelayRaises, CheckTolerance
    <2>4. CASE TakeResult(g)
      <3>1. CASE nav2[g] = "succeeded"
        BY <2>4, <3>1 DEF TakeResult
      <3>2. CASE nav2[g] # "succeeded"
        BY <2>2, <2>4, <3>2 DEF TakeResult
      <3> QED BY <3>1, <3>2
    <2> QED BY <1>2, <2>1, <2>3, <2>4 DEF Execute
  <1>3. ASSUME NEW g \in Goal, FeedbackArrives(g) \/ Nav2Responds(g) \/ Nav2Ends(g)
        PROVE  TypeOK'
    BY <1>3 DEF FeedbackArrives, Nav2Responds, Nav2Ends
  <1>4. CASE FeedbackRelayed
    BY <1>4 DEF FeedbackRelayed
  <1>5. CASE UNCHANGED vars
    BY <1>5 DEF vars
  <1> QED BY <1>1, <1>2, <1>3, <1>4, <1>5 DEF Next

\* How a goal ends: its status and code are recorded and it leaves, with Nav2 at
\* rest or busy with something that has no code.
LEMMA ConcludeStep ==
  ASSUME IInv, TypeOK', NEW g \in Goal, NEW s \in {"succeeded", "aborted"},
         NEW c \in {0, 2001, 2002, 2003, 2004},
         stage[g] \in {"preparing", "sent", "relaying", "measuring"},
         Conclude(g, s, c), UNCHANGED <<fields, nav2>>,
         s = "succeeded" => nav2[g] = "succeeded",
         c # 0 => nav2[g] \notin {"asked", "driving"}
  PROVE  IInv'
  <1> USE DEF IInv, TypeOK, Stage, Conclude, fields
  <1>1. [status |-> s, code |-> c] \in Answer
    BY DEF Answer
  <1>2. answer'[g] # None
    BY <1>1, NavigationAssumption
  <1>3. StagesAgree'
    BY <1>2 DEF StagesAgree, NotYetAsked, Over
  <1>4. CodeMeansStopped'
    BY DEF CodeMeansStopped
  <1>5. Executing' = Executing
    BY DEF Executing
  <1>6. IdleIsClean'
    BY <1>5 DEF IdleIsClean
  <1> QED BY <1>3, <1>4, <1>6

\* The steps of a goal that do not conclude it.
LEMMA GoOnStep ==
  ASSUME IInv, TypeOK', NEW g \in Goal,
         Begin(g) \/ SendGoal(g) \/ Accepted(g)
  PROVE  IInv'
  <1> USE DEF IInv, TypeOK, Stage, Begin, SendGoal, Accepted
  <1>1. StagesAgree'
    BY DEF StagesAgree, NotYetAsked, Over
  <1>2. CodeMeansStopped'
    BY DEF CodeMeansStopped, StagesAgree, Over
  <1>3. g \in Executing'
    BY DEF Executing
  <1> QED BY <1>1, <1>2, <1>3 DEF IdleIsClean

\* A goal that has been driven to stays so while it is measured.
LEMMA DrivenStep ==
  ASSUME IInv, TypeOK', NEW g \in Goal, TakeResult(g), nav2[g] = "succeeded"
  PROVE  IInv'
  <1> USE DEF IInv, TypeOK, Stage, TakeResult, fields
  <1>1. StagesAgree'
    BY DEF StagesAgree, NotYetAsked, Over
  <1>2. CodeMeansStopped'
    BY DEF CodeMeansStopped
  <1>3. g \in Executing'
    BY DEF Executing
  <1> QED BY <1>1, <1>2, <1>3 DEF IdleIsClean

\* A coroutine that raises has not ended its goal yet.
LEMMA RaiseStep ==
  ASSUME IInv, TypeOK', NEW g \in Goal, stage[g] \in {"relaying", "measuring"},
         Raise(g), UNCHANGED <<fields, nav2>>
  PROVE  IInv'
  <1> USE DEF IInv, TypeOK, Stage, Raise, fields
  <1>1. StagesAgree'
    BY DEF StagesAgree, NotYetAsked, Over
  <1>2. CodeMeansStopped'
    BY DEF CodeMeansStopped
  <1>3. g \in Executing'
    BY DEF Executing
  <1> QED BY <1>1, <1>2, <1>3 DEF IdleIsClean

\* The last thing a goal does is to clear the fields; if it raised, it ends then.
LEMMA LeaveStep ==
  ASSUME IInv, TypeOK', NEW g \in Goal, Leave(g)
  PROVE  IInv'
  <1> USE DEF IInv, TypeOK, Stage, Leave
  <1>0. FinalAnswer(g) # None
    BY NavigationAssumption DEF FinalAnswer, Answer, StagesAgree, Over
  <1>1. StagesAgree'
    BY <1>0 DEF StagesAgree, NotYetAsked, Over
  <1>2. CodeMeansStopped'
    BY DEF CodeMeansStopped, FinalAnswer, StagesAgree, Over
  <1>3. IdleIsClean'
    BY DEF IdleIsClean
  <1> QED BY <1>1, <1>2, <1>3

LEMMA ExecuteStep ==
  ASSUME IInv, TypeOK', NEW g \in Goal, Execute(g)
  PROVE  IInv'
  <1>1. CASE Begin(g) \/ SendGoal(g) \/ Accepted(g)
    BY <1>1, GoOnStep
  <1>2. CASE NoServer(g)
    BY <1>2, ConcludeStep DEF NoServer, IInv, StagesAgree, NotYetAsked
  <1>3. CASE NoTarget(g)
    BY <1>3, ConcludeStep DEF NoTarget, IInv, StagesAgree, NotYetAsked
  <1>4. CASE NotAccepted(g)
    BY <1>4, ConcludeStep DEF NotAccepted
  <1>5. CASE TakeResult(g)
    <2>1. CASE nav2[g] = "succeeded"
      BY <1>5, <2>1, DrivenStep
    <2>2. CASE nav2[g] # "succeeded"
      <3>1. nav2[g] = "aborted"
        BY <1>5, <2>2 DEF TakeResult, Ended
      <3> QED BY <1>5, <2>2, <3>1, ConcludeStep DEF TakeResult
    <2> QED BY <2>1, <2>2
  <1>6. CASE RelayRaises(g)
    BY <1>6, RaiseStep DEF RelayRaises
  <1>7. CASE CheckTolerance(g)
    BY <1>7, ConcludeStep, RaiseStep DEF CheckTolerance, IInv, StagesAgree
  <1>8. CASE Leave(g)
    BY <1>8, LeaveStep
  <1> QED BY <1>1, <1>2, <1>3, <1>4, <1>5, <1>6, <1>7, <1>8 DEF Execute

\* What happens to a goal before it is executed, and around it.
LEMMA AroundStep ==
  ASSUME IInv, TypeOK', NEW g \in Goal,
         \/ GoalCallback(g) \/ CancelCallback(g) \/ FeedbackArrives(g)
         \/ FeedbackRelayed \/ UNCHANGED vars
  PROVE  IInv'
  <1> USE DEF IInv, TypeOK, Stage, GoalCallback, CancelCallback, FeedbackArrives,
              FeedbackRelayed, fields, execVars, vars
  <1>1. StagesAgree'
    BY DEF StagesAgree, NotYetAsked, Over
  <1>2. CodeMeansStopped'
    BY DEF CodeMeansStopped
  <1>3. Executing' = Executing
    BY DEF Executing
  <1>4. IdleIsClean'
    BY <1>3 DEF IdleIsClean
  <1> QED BY <1>1, <1>2, <1>4

\* Nav2 only ever leaves what it was asked for or drives to.
LEMMA Nav2Step ==
  ASSUME IInv, TypeOK', NEW g \in Goal, Nav2Responds(g) \/ Nav2Ends(g)
  PROVE  IInv'
  <1> USE DEF IInv, TypeOK, Nav2Responds, Nav2Ends, fields, execVars, Ended
  <1>1. ~NotYetAsked(g) /\ stage[g] # "measuring" /\ nav2[g] \in {"asked", "driving"}
    BY DEF StagesAgree
  <1>2. \A h \in Goal : nav2'[h] # nav2[h] => nav2[h] \in {"asked", "driving"}
    BY <1>1
  <1>3. StagesAgree'
    BY <1>2 DEF StagesAgree, NotYetAsked, Over
  <1>4. \A h \in Goal : nav2[h] \notin {"asked", "driving"} => nav2'[h] = nav2[h]
    BY <1>2
  <1>5. CodeMeansStopped'
    <2>1. SUFFICES ASSUME NEW h \in Goal, answer'[h] # None
                   PROVE  /\ answer'[h].status = "succeeded" => nav2'[h] = "succeeded"
                          /\ answer'[h].code # 0 => nav2'[h] \notin {"asked", "driving"}
      BY DEF CodeMeansStopped
    <2> QED BY <1>4, <2>1 DEF CodeMeansStopped
  <1>6. IdleIsClean'
    BY DEF IdleIsClean, Executing
  <1> QED BY <1>3, <1>5, <1>6

LEMMA NextIInv == IInv /\ [Next]_vars => IInv'
  <1> SUFFICES ASSUME IInv, [Next]_vars PROVE IInv'
    OBVIOUS
  <1>1. TypeOK'
    BY TypeStep DEF IInv
  <1>2. ASSUME NEW g \in Goal, Execute(g) PROVE IInv'
    BY <1>1, <1>2, ExecuteStep
  <1>3. ASSUME NEW g \in Goal,
               GoalCallback(g) \/ CancelCallback(g) \/ FeedbackArrives(g)
        PROVE  IInv'
    BY <1>1, <1>3, AroundStep
  <1>4. ASSUME NEW g \in Goal, Nav2Responds(g) \/ Nav2Ends(g) PROVE IInv'
    BY <1>1, <1>4, Nav2Step
  <1>5. CASE FeedbackRelayed \/ UNCHANGED vars
    <2>1. CASE Goal = {}
      BY <1>1, <1>5, <2>1 DEF IInv, StagesAgree, CodeMeansStopped, IdleIsClean,
         Executing, FeedbackRelayed, fields, execVars, vars
    <2>2. CASE Goal # {}
      BY <1>1, <1>5, <2>2, AroundStep
    <2> QED BY <2>1, <2>2
  <1> QED BY <1>2, <1>3, <1>4, <1>5 DEF Next

\* Coroutines, Nav2 and the fields they share agree in every state.
THEOREM NavigationInvariant == Spec => []IInv
  BY InitIInv, NextIInv, PTL DEF Spec

\* The fields of the node, the answers and Nav2's part keep their types
\* (navigation_node.py).
THEOREM NavigationTypes == Spec => []TypeOK
  <1>1. IInv => TypeOK
    BY DEF IInv
  <1> QED BY <1>1, NavigationInvariant, PTL

\* Whatever number of goals overlap and however they end, the finally clause of
\* _execute_callback leaves nothing to the next goal once all of them are over.
THEOREM NothingIsLeft == Spec => []IdleIsClean
  <1>1. IInv => IdleIsClean
    BY DEF IInv
  <1> QED BY <1>1, NavigationInvariant, PTL

\* Success means that Nav2 has driven to this goal, a code that Nav2 does not
\* drive to it, for any overlap of goals (_execute_callback).
THEOREM CodesAreTrue == Spec => []CodeMeansStopped
  <1>1. IInv => CodeMeansStopped
    BY DEF IInv
  <1> QED BY <1>1, NavigationInvariant, PTL
-------------------------------------------------------------------------------
(* The node is an action server.                                              *)

Status == [g \in Goal |-> StatusOf(g)]

\* A step that leaves the stage of every goal in the same part of its life and
\* every answer as it is does not show.
LEMMA HiddenStep ==
  ASSUME IInv, NEW g \in Goal, NEW s \in Stage \ {"new", "refused"},
         stage[g] \notin {"new", "refused"},
         stage' = [stage EXCEPT ![g] = s], UNCHANGED <<asked, answer>>
  PROVE  UNCHANGED <<Status, asked>>
  <1>1. \A h \in Goal : StatusOf(h)' = StatusOf(h)
    BY DEF StatusOf, IInv, TypeOK
  <1> QED BY <1>1 DEF Status

\* One goal changes its status.
LEMMA StatusStep ==
  ASSUME NEW g \in Goal, NEW s, StatusOf(g)' = s,
         \A h \in Goal \ {g} : StatusOf(h)' = StatusOf(h)
  PROVE  Status' = [Status EXCEPT ![g] = s]
  BY DEF Status

\* A goal that ends shows it, once.
LEMMA EndShows ==
  ASSUME NEW g \in Goal, NEW s \in {"succeeded", "aborted"},
         StatusOf(g) = "accepted", StatusOf(g)' = s, UNCHANGED asked,
         \A h \in Goal \ {g} : StatusOf(h)' = StatusOf(h)
  PROVE  Service!End(g)
  <1>1. Status' = [Status EXCEPT ![g] = s]
    BY StatusStep
  <1>2. Status[g] = "accepted" /\ s # "canceled" /\ s \in Service!Ending
    BY DEF Status, Service!Ending
  <1>3. Service!EndAs(g, s)
    BY <1>1, <1>2 DEF Status, Service!EndAs
  <1> QED BY <1>2, <1>3 DEF Service!End

\* Conclude is the end of the goal to its client.
LEMMA ConcludeShows ==
  ASSUME IInv, NEW g \in Goal, NEW s \in {"succeeded", "aborted"},
         NEW c \in {0, 2001, 2002, 2003, 2004},
         stage[g] \in {"preparing", "sent", "relaying", "measuring"},
         Conclude(g, s, c)
  PROVE  Service!End(g)
  <1>1. [status |-> s, code |-> c] # None
    BY NavigationAssumption DEF Answer
  <1>2. answer[g] = None
    BY DEF IInv, StagesAgree, Over
  <1>3. StatusOf(g) = "accepted" /\ StatusOf(g)' = s
    BY <1>1, <1>2 DEF Conclude, IInv, TypeOK, StatusOf
  <1>4. \A h \in Goal \ {g} : StatusOf(h)' = StatusOf(h)
    BY DEF Conclude, IInv, TypeOK, StatusOf
  <1> QED BY <1>3, <1>4, EndShows DEF Conclude

\* So is, for a goal that has raised, the end of the finally clause.
LEMMA LeaveShows ==
  ASSUME IInv, NEW g \in Goal, Leave(g)
  PROVE  Service!End(g) \/ UNCHANGED <<Status, asked>>
  <1> USE DEF IInv, TypeOK, Leave
  <1>1. \A h \in Goal \ {g} : StatusOf(h)' = StatusOf(h)
    BY DEF StatusOf
  <1>2. CASE stage[g] = "raising"
    <2>1. StatusOf(g) = "accepted"
      BY <1>2 DEF StagesAgree, Over, StatusOf
    <2>2. answer'[g] = [status |-> "aborted", code |-> 0] /\ stage'[g] = "done"
      BY <1>2 DEF FinalAnswer
    <2>3. answer'[g] # None
      BY <2>2, NavigationAssumption DEF Answer
    <2>4. StatusOf(g)' = "aborted"
      BY <2>2, <2>3 DEF StatusOf
    <2> QED BY <1>1, <2>1, <2>4, EndShows
  <1>3. CASE stage[g] = "leaving"
    <2>1. UNCHANGED <<asked, answer>>
      BY <1>3 DEF FinalAnswer
    <2> QED BY <1>3, <2>1, HiddenStep DEF Stage
  <1> QED BY <1>2, <1>3

LEMMA ExecuteShows ==
  ASSUME IInv, NEW g \in Goal, Execute(g)
  PROVE  Service!End(g) \/ UNCHANGED <<Status, asked>>
  <1>1. CASE Begin(g) \/ SendGoal(g) \/ Accepted(g)
    BY <1>1, HiddenStep DEF Begin, SendGoal, Accepted, Stage
  <1>2. CASE NoServer(g) \/ NoTarget(g)
    BY <1>2, ConcludeShows DEF NoServer, NoTarget
  <1>3. CASE NotAccepted(g)
    BY <1>3, ConcludeShows DEF NotAccepted
  <1>4. CASE TakeResult(g)
    <2>1. CASE nav2[g] = "succeeded"
      BY <1>4, <2>1, HiddenStep DEF TakeResult, Stage
    <2>2. CASE nav2[g] # "succeeded"
      BY <1>4, <2>2, ConcludeShows DEF TakeResult
    <2> QED BY <2>1, <2>2
  <1>5. CASE RelayRaises(g)
    BY <1>5, HiddenStep DEF RelayRaises, Raise, Stage
  <1>6. CASE CheckTolerance(g)
    <2>1. CASE target = None
      BY <1>6, <2>1, HiddenStep DEF CheckTolerance, Raise, Stage
    <2>2. CASE target # None
      BY <1>6, <2>2, ConcludeShows DEF CheckTolerance
    <2> QED BY <2>1, <2>2
  <1>7. CASE Leave(g)
    BY <1>7, LeaveShows
  <1> QED BY <1>1, <1>2, <1>3, <1>4, <1>5, <1>6, <1>7 DEF Execute

LEMMA GoalCallbackShows ==
  ASSUME IInv, NEW g \in Goal, GoalCallback(g)
  PROVE  Service!Respond(g)
  <1> USE DEF IInv, TypeOK, GoalCallback
  <1>1. PICK s \in {"accepted", "refused"} : stage' = [stage EXCEPT ![g] = s]
    OBVIOUS
  <1>2. answer[g] = None
    BY DEF StagesAgree, Over
  <1>3. StatusOf(g) = "new" /\ StatusOf(g)' = s
    BY <1>1, <1>2 DEF StatusOf
  <1>4. \A h \in Goal \ {g} : StatusOf(h)' = StatusOf(h)
    BY <1>1 DEF StatusOf
  <1>5. Status' = [Status EXCEPT ![g] = s]
    BY <1>3, <1>4 DEF Status
  <1> QED BY <1>3, <1>5 DEF Status, Service!Respond

LEMMA CancelCallbackShows ==
  ASSUME IInv, NEW g \in Goal, CancelCallback(g)
  PROVE  Service!AskCancel(g)
  <1> USE DEF IInv, TypeOK, CancelCallback
  <1>1. StatusOf(g) = "accepted"
    BY DEF StagesAgree, Over, StatusOf, Executing
  <1>2. Status' = Status
    BY DEF Status, StatusOf
  <1> QED BY <1>1, <1>2 DEF Status, Service!AskCancel

LEMMA InitShows == Init => Service!Init
  BY DEF Init, Service!Init, StatusOf

LEMMA NextShows ==
  IInv /\ [Next]_vars => [Service!Next]_<<Status, asked>>
  <1> SUFFICES ASSUME IInv, [Next]_vars
               PROVE  Service!Next \/ UNCHANGED <<Status, asked>>
    OBVIOUS
  <1>1. ASSUME NEW g \in Goal, Execute(g) \/ GoalCallback(g) \/ CancelCallback(g)
        PROVE  Service!Next \/ UNCHANGED <<Status, asked>>
    BY <1>1, ExecuteShows, GoalCallbackShows, CancelCallbackShows DEF Service!Next
  <1>2. ASSUME NEW g \in Goal, FeedbackArrives(g) \/ Nav2Responds(g) \/ Nav2Ends(g)
        PROVE  UNCHANGED <<Status, asked>>
    BY <1>2 DEF FeedbackArrives, Nav2Responds, Nav2Ends, execVars, Status, StatusOf
  <1>3. CASE FeedbackRelayed \/ UNCHANGED vars
    BY <1>3 DEF FeedbackRelayed, execVars, vars, Status, StatusOf
  <1> QED BY <1>1, <1>2, <1>3 DEF Next

\* Goals of /navigate_to_target are refused, accepted, cancelled and ended as
\* those of any action server, whatever Nav2 does and however goals overlap.
THEOREM NavigationIsAnActionServer == Spec => ImplementsActionService
  <1>1. Init => Service!Init
    BY InitShows
  <1>2. IInv /\ [Next]_vars => [Service!Next]_<<Status, asked>>
    BY NextShows
  <1> QED BY <1>1, <1>2, NavigationInvariant, PTL
          DEF Spec, ImplementsActionService, Service!Spec, Status
===============================================================================
