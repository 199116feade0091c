----------------------------- MODULE MockServers ------------------------------
(***************************************************************************)
(* The three mock action servers (mock_navigation_server.py,               *)
(* mock_perception_server.py, mock_manipulation_server.py) and clients     *)
(* that have books shelved by them, each its own, all at the same time.    *)
(*                                                                         *)
(* A server is one thread.  It runs a goal without looking up, so nothing  *)
(* is accepted and no cancel is heard until the goal ends; the goals it    *)
(* has accepted wait in a queue.  When rclpy starts a goal it has          *)
(* accepted, and what it does before, is left to choice.                   *)
(***************************************************************************)
EXTENDS Integers, Sequences, FiniteSets, SlotContract

CONSTANTS
  Client,     \* each with one book
  BookOf,     \* what the goals of a client say of the book
  Impatient,  \* goals that may be asked to cancel
  Phases,     \* bound: of each server; the code has 4, 5 and 9
  AtOnce,     \* bound: clients that are served at a time
  None

Server == {"navigation", "perception", "manipulation"}
Goal == Client \X Server
ServerOf(g) == g[2]

CanceledCode == [navigation |-> 2002, perception |-> 3002, manipulation |-> 4002]
Result == [code : {0, 2002, 3002, 4002}, slot : (0 .. 3) \cup {None}]

ASSUME MockAssumption == /\ BookOf \in [Client -> Book]
                         /\ Impatient \subseteq Goal
                         /\ Phases \in [Server -> Nat \ {0}]
                         /\ AtOnce \in Nat \ {0}
                         /\ None \notin Result \cup (0 .. 3)

VARIABLES
  stage,   \* of each goal at its server
  phase,   \* of the goal that runs: how many phases it has reported
  asked,   \* goals with is_cancel_requested
  answer,  \* the result, None before
  queue,   \* of each server: accepted goals that have not started
  found,   \* the slots the perception server has given away, in order
  next     \* _next_slot_index

vars == <<stage, phase, asked, answer, queue, found, next>>

Stage == {"new", "refused", "accepted", "running", "done"}

\* The thread of the server is free.
Idle(s) == \A g \in Goal : ServerOf(g) = s => stage[g] # "running"

Before == [perception |-> "navigation", manipulation |-> "perception"]
Succeeded(g) == answer[g] # None /\ answer[g].code = 0

\* Clients whose book is on its way: some goal is with a server, or the next one
\* is about to be sent.
OnItsWay(c) == /\ stage[<<c, "navigation">>] # "new"
               /\ \A s \in Server : /\ stage[<<c, s>>] # "refused"
                                    /\ stage[<<c, s>>] = "done" => Succeeded(<<c, s>>)
               /\ stage[<<c, "manipulation">>] # "done"

\* A client drives to the shelf, asks for a slot, and has the book placed.
Sends(g) ==
  IF ServerOf(g) = "navigation"
  THEN Cardinality({c \in Client : OnItsWay(c)}) < AtOnce
  ELSE Succeeded(<<g[1], Before[ServerOf(g)]>>)

\* What each server wants of a goal.
ValidDrive(book) == book.named
ValidDetection(book) == book.named /\ Positive(book)
ValidPlacement(book) == book.named /\ Sized(book)
Valid(g) == LET book == BookOf[g[1]]
            IN  CASE ServerOf(g) = "navigation"   -> ValidDrive(book)
                  [] ServerOf(g) = "perception"   -> ValidDetection(book)
                  [] ServerOf(g) = "manipulation" -> ValidPlacement(book)

Init ==
  /\ stage = [g \in Goal |-> "new"] /\ phase = [s \in Server |-> 0]
  /\ asked = {} /\ answer = [g \in Goal |-> None]
  /\ queue = [s \in Server |-> <<>>]
  /\ found = <<>> /\ next = 0
-------------------------------------------------------------------------------
GoalCallback(g) ==
  /\ stage[g] = "new" /\ Sends(g) /\ Idle(ServerOf(g))
  /\ IF Valid(g)
     THEN /\ stage' = [stage EXCEPT ![g] = "accepted"]
          /\ queue' = [queue EXCEPT ![ServerOf(g)] = Append(@, g)]
     ELSE stage' = [stage EXCEPT ![g] = "refused"] /\ UNCHANGED queue
  /\ UNCHANGED <<phase, asked, answer, found, next>>

\* Mutant: callbacks run beside the goal.
CancelBesideGoal(g) ==
  /\ stage[g] \in {"accepted", "running"} /\ g \in Impatient \ asked
  /\ asked' = asked \cup {g}
  /\ UNCHANGED <<stage, phase, answer, queue, found, next>>

CancelCallback(g) ==
  /\ stage[g] \in {"accepted", "running"} /\ g \in Impatient \ asked
  /\ Idle(ServerOf(g))
  /\ asked' = asked \cup {g}
  /\ UNCHANGED <<stage, phase, answer, queue, found, next>>

Execute(s) ==
  /\ Idle(s) /\ queue[s] # <<>>
  /\ stage' = [stage EXCEPT ![Head(queue[s])] = "running"]
  /\ queue' = [queue EXCEPT ![s] = Tail(@)]
  /\ phase' = [phase EXCEPT ![s] = 0]
  /\ UNCHANGED <<asked, answer, found, next>>

Running(g) == stage[g] = "running"
NextPhase(g) == /\ Running(g) /\ phase[ServerOf(g)] < Phases[ServerOf(g)]

End(g, result) == /\ stage' = [stage EXCEPT ![g] = "done"]
                  /\ answer' = [answer EXCEPT ![g] = result]
                  /\ UNCHANGED <<phase, asked, queue>>

\* Mutant: one flag for all goals of a server.
Cancels(g) == \E h \in asked : ServerOf(h) = ServerOf(g)

\* Every phase begins with a look at the cancel flag.
CancelRequested(g) == g \in asked

\* Mutant: a cancelled goal has no code.
CanceledUncoded(g) == /\ NextPhase(g) /\ CancelRequested(g)
                      /\ End(g, [code |-> None, slot |-> None])
                      /\ UNCHANGED <<found, next>>

Canceled(g) == /\ NextPhase(g) /\ CancelRequested(g)
               /\ End(g, [code |-> CanceledCode[ServerOf(g)], slot |-> None])
               /\ UNCHANGED <<found, next>>

Feedback(g) == /\ NextPhase(g) /\ ~CancelRequested(g)
               /\ phase' = [phase EXCEPT ![ServerOf(g)] = @ + 1]
               /\ UNCHANGED <<stage, asked, answer, queue, found, next>>

Reaches(g) == Running(g) /\ phase[ServerOf(g)] = Phases[ServerOf(g)]

Arrive(g) == /\ Reaches(g) /\ ServerOf(g) = "navigation"
             /\ End(g, [code |-> 0, slot |-> None])
             /\ UNCHANGED <<found, next>>

\* Mutant: the first slot is given away twice.
SlotIndexLate == Larger(next - 1, 0) % 4

SlotIndex == next % 4

FindSlot(g) == /\ Reaches(g) /\ ServerOf(g) = "perception"
               /\ End(g, [code |-> 0, slot |-> SlotIndex])
               /\ found' = Append(found, SlotIndex)
               /\ next' = next + 1

Place(g) == /\ Reaches(g) /\ ServerOf(g) = "manipulation"
            /\ End(g, [code |-> 0, slot |-> None])
            /\ UNCHANGED <<found, next>>
-------------------------------------------------------------------------------
Next == \/ \E g \in Goal : \/ GoalCallback(g) \/ CancelCallback(g)
                           \/ Canceled(g) \/ Feedback(g)
                           \/ Arrive(g) \/ FindSlot(g) \/ Place(g)
        \/ \E s \in Server : Execute(s)

Spec == Init /\ [][Next]_vars
-------------------------------------------------------------------------------
(* Properties *)

TypeOK ==
  /\ stage \in [Goal -> Stage]
  /\ phase \in [Server -> Nat] /\ \A s \in Server : phase[s] <= Phases[s]
  /\ asked \subseteq Impatient
  /\ answer \in [Goal -> Result \cup {None}]
  /\ queue \in [Server -> Seq(Goal)]
  /\ \A s \in Server : \A i \in DOMAIN queue[s] : ServerOf(queue[s][i]) = s
  /\ found \in Seq(0 .. 3) /\ next \in Nat

\* A cancel that is accepted is not too late: the goal it is for ends as
\* canceled, and what the client wanted next is never asked for.  (That the flag
\* is looked at in every phase has no part in this.)
CancelIsHonoured ==
  \A g \in asked : /\ stage[g] = "done" => answer[g].code = CanceledCode[ServerOf(g)]
                   /\ \A s \in DOMAIN Before :
                        Before[s] = ServerOf(g) => stage[<<g[1], s>>] = "new"

\* Four books in a row go to four places, whichever goals were cancelled or
\* refused in between, and every answer names the slot that was taken for it.
SlotsInTurn ==
  /\ \A i, j \in DOMAIN found : i < j /\ j - i < 4 => found[i] # found[j]
  /\ \A i \in 0 .. 3 :
       Cardinality({g \in Goal : answer[g] # None /\ answer[g].slot = i})
         = Cardinality({n \in DOMAIN found : found[n] = i})

\* The arm takes the slot that the mock has found for a book, with a margin
\* above the arm's side clearance, unless the book is too high for the slots of
\* the mock and its margin too small to make up for it.
Ordinary(book) == book.named /\ Positive(book) /\ Resolvable(book) /\ book.margin > SideClearance
Low(book) == book.margin > HeightClearance \/ book.height + HeightClearance < 3000
ArmTakesMockSlot(i, book) == Ordinary(book) /\ Low(book) => ArmTakes(MockSlot(i, book), book)
FoundSlotsFit ==
  \A c \in Client : LET r == answer[<<c, "perception">>]
                    IN  r # None /\ r.code = 0 => ArmTakesMockSlot(r.slot, BookOf[c])

EndingOf(g) == IF Succeeded(g) THEN "succeeded" ELSE "canceled"
StatusOf(g) == CASE stage[g] \in {"new", "refused"} -> stage[g]
                 [] stage[g] = "done" -> EndingOf(g)
                 [] OTHER -> "accepted"
Service == INSTANCE ActionService WITH status <- [g \in Goal |-> StatusOf(g)],
                                       asked <- asked

\* To its clients each mock is an action server like the one it stands for.
ImplementsActionService == Service!Spec
===============================================================================
