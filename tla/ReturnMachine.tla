----------------------------- MODULE ReturnMachine -----------------------------
(***************************************************************************)
(* The virtual return machine (shelving_system/return_machine_node.py) and *)
(* the planner at the other end of the topic.  A tray is what the ROS      *)
(* parameters say, it is checked and published on request or once by a     *)
(* timer; the task manager plans the jobs in the order of the topic.       *)
(***************************************************************************)
EXTENDS JobPlanner, FiniteSets

CONSTANTS Trays,          \* contents the ROS parameters may have
          ShelfMapFiles,  \* what shelf_map.yaml may hold
          JobIds,         \* the fresh identifiers uuid4 gives out, in order
          TopicDepth      \* depth of the topic's queue

TrayContents == [trayId : Raw, bookIds : Seq(Raw), rfidTags : Seq(Raw), codes : Seq(Raw)]

ASSUME ReturnMachineAssumption ==
  /\ Trays \subseteq TrayContents
  /\ \A file \in ShelfMapFiles : file.shelves \in Seq(Shelf)
  /\ JobIds \in Seq(Text \ {Blank})
  /\ TopicDepth \in Nat \ {0}
  /\ NoPlan \notin Planned

VARIABLES tray,     \* the parameters: trayId, bookIds, rfidTags, codes
          timer,    \* _auto_publish_timer is armed
          issued,   \* how many identifiers were used
          topic,    \* published messages not yet taken
          reply,    \* answer to the last publish request
          map,      \* the planner's shelf map
          taken,    \* the message planned last, or NoPlan
          outcome   \* its plan, or NoPlan

vars == <<tray, timer, issued, topic, reply, map, taken, outcome>>

\* validate_tray_data: identifiers are compared as they were written.
ValidTrayData(t) ==
  /\ t.bookIds # <<>>
  /\ Len(t.bookIds) = Len(t.rfidTags) /\ Len(t.bookIds) = Len(t.codes)
  /\ Distinct(t.bookIds)
  /\ Identifiers(t.bookIds) /\ Identifiers(t.rfidTags) /\ Identifiers(t.codes)

\* _read_tray_parameters, _create_tray_job
Acceptable(t) == Strip(t.trayId) # Blank /\ ValidTrayData(t)
TrayJob(t, id) == [jobId |-> [text |-> id, padded |-> FALSE],
                   trayId |-> [t.trayId EXCEPT !.padded = FALSE],
                   bookIds |-> t.bookIds, rfidTags |-> t.rfidTags,
                   codes |-> t.codes]

\* The maps the node goes on with: it ends at once if the file is not valid.
ShelfMaps == {LoadedMap(file) : file \in {f \in ShelfMapFiles : ValidShelfMap(f)}}

Init == /\ tray \in Trays
        /\ timer \in BOOLEAN
        /\ issued = 0
        /\ topic = <<>>
        /\ reply = "none"
        /\ map \in ShelfMaps
        /\ taken = NoPlan /\ outcome = NoPlan

\* Mutant: the queue of the topic grows without a bound.
PublishUnbounded(t) ==
  /\ issued < Len(JobIds)
  /\ issued' = issued + 1
  /\ topic' = Append(topic, TrayJob(t, JobIds[issued + 1]))

\* Publishing a tray: a full queue keeps the last messages.
Publish(t) ==
  /\ issued < Len(JobIds)
  /\ issued' = issued + 1
  /\ LET queue == Append(topic, TrayJob(t, JobIds[issued + 1]))
     IN topic' = IF Len(queue) > TopicDepth THEN Tail(queue) ELSE queue

SetParameters == /\ tray' \in Trays
                 /\ UNCHANGED <<timer, issued, topic, reply, map, taken, outcome>>

\* _handle_publish_request
PublishRequest ==
  /\ IF Acceptable(tray)
     THEN Publish(tray) /\ reply' = "published"
     ELSE reply' = "refused" /\ UNCHANGED <<issued, topic>>
  /\ UNCHANGED <<tray, timer, map, taken, outcome>>

\* _publish_from_timer: the timer is destroyed whether or not a tray was sent.
TimerFires ==
  /\ timer /\ timer' = FALSE
  /\ IF Acceptable(tray) THEN Publish(tray) ELSE UNCHANGED <<issued, topic>>
  /\ UNCHANGED <<tray, reply, map, taken, outcome>>

\* The task manager plans the next message (see TaskManager for the rest).
Plan == /\ topic # <<>>
        /\ topic' = Tail(topic)
        /\ taken' = Head(topic)
        /\ outcome' = CreatePlan(Head(topic), map)
        /\ UNCHANGED <<tray, timer, issued, reply, map>>

Next == SetParameters \/ PublishRequest \/ TimerFires \/ Plan
Spec == Init /\ [][Next]_vars
-------------------------------------------------------------------------------
(* Properties *)

TypeOK ==
  /\ tray \in Trays /\ timer \in BOOLEAN /\ issued \in 0 .. Len(JobIds)
  /\ Len(topic) <= TopicDepth
  /\ reply \in {"none", "published", "refused"}
  /\ map \in ShelfMaps
  /\ Range(topic) \subseteq
       {TrayJob(t, JobIds[i]) : t \in Trays, i \in 1 .. issued}

\* The shelf of a book is the one with the longest matching prefix, the first
\* in the file among several of that length: the loop of the code against the
\* definition of the longest match.  That prefix says something of the book: a
\* blank one, which could match every book, does not get past the start.
Candidates(code) == {i \in DOMAIN map.entries : Match(map.entries[i], code)}
LongestFirst(code) ==
  CHOOSE i \in Candidates(code) : \A k \in Candidates(code) :
    \/ Len(map.entries[i].prefix) > Len(map.entries[k].prefix)
    \/ Len(map.entries[i].prefix) = Len(map.entries[k].prefix) /\ i <= k
LongestPrefixWins ==
  outcome # NoPlan =>
    \A i \in DOMAIN taken.codes :
      LET best == map.entries[LongestFirst(Strip(taken.codes[i]))]
      IN outcome.tasks[i].shelf = best.shelf /\ ~IsBlank(best.prefix)

\* A plan is what the task manager assumes of it: at least one task, no book
\* twice, one task for each book of the tray in the order of the tray.
PlanCoversTray ==
  outcome # NoPlan =>
    /\ outcome.tasks # <<>>
    /\ \A i, k \in DOMAIN outcome.tasks :
         outcome.tasks[i].book = outcome.tasks[k].book => i = k
    /\ Len(outcome.tasks) = Len(taken.bookIds)
    /\ \A i \in DOMAIN outcome.tasks :
         outcome.tasks[i].book = Strip(taken.bookIds[i])

\* Of the trays the return machine lets through, planning refuses only those
\* with a location or a shelf the map does not have or a shelf it does not name,
\* or with two books whose identifiers differ in white space alone.
RefusedForAReason ==
  taken # NoPlan /\ outcome = NoPlan =>
    \/ ~{"home", "return_station"} \subseteq map.locations
    \/ \E i \in DOMAIN taken.codes :
         LET code == Strip(taken.codes[i])
         IN Candidates(code) = {} \/ map.entries[LongestFirst(code)].shelf = NoId
    \/ \E i, k \in DOMAIN taken.bookIds :
         /\ taken.bookIds[i] # taken.bookIds[k]
         /\ Strip(taken.bookIds[i]) = Strip(taken.bookIds[k])
===============================================================================
