----------------------------- MODULE StateMachine -----------------------------
(***************************************************************************)
(* The top-level workflow table of shelving_system/state_machine.py: the   *)
(* states and the transitions that StateMachine.transition() permits.      *)
(* fail() is not restricted by the table, it forces FAILED from any state. *)
(***************************************************************************)

SystemState ==
  {"INITIALIZING", "IDLE", "PLANNING", "NAV_TO_RETURN", "RECEIVE_TRAY",
   "SELECT_BOOK", "NAV_TO_SHELF", "DETECT_TARGET_SLOT", "PLACE_BOOK",
   "UPDATE_DATA", "NEXT_BOOK", "RETURN_HOME", "COMPLETED", "FAILED",
   "WAIT_FOR_OPERATOR"}

\* The states in which a job is being worked on: each has an exit to FAILED
\* and one to the operator besides its forward transitions.
WorkingState ==
  {"PLANNING", "NAV_TO_RETURN", "RECEIVE_TRAY", "SELECT_BOOK",
   "NAV_TO_SHELF", "DETECT_TARGET_SLOT", "PLACE_BOOK", "UPDATE_DATA",
   "NEXT_BOOK", "RETURN_HOME"}

Forward ==
  {<<"INITIALIZING", "IDLE">>,
   <<"IDLE", "PLANNING">>,
   <<"PLANNING", "NAV_TO_RETURN">>,
   <<"NAV_TO_RETURN", "RECEIVE_TRAY">>,
   <<"RECEIVE_TRAY", "SELECT_BOOK">>,
   <<"SELECT_BOOK", "NAV_TO_SHELF">>,
   <<"NAV_TO_SHELF", "DETECT_TARGET_SLOT">>,
   <<"DETECT_TARGET_SLOT", "PLACE_BOOK">>,
   <<"PLACE_BOOK", "UPDATE_DATA">>,
   <<"UPDATE_DATA", "NEXT_BOOK">>,
   <<"NEXT_BOOK", "SELECT_BOOK">>,
   <<"NEXT_BOOK", "RETURN_HOME">>,
   <<"RETURN_HOME", "COMPLETED">>,
   <<"COMPLETED", "IDLE">>,
   <<"WAIT_FOR_OPERATOR", "IDLE">>,
   <<"FAILED", "IDLE">>}

AllowedTransitions ==
  Forward
    \cup ((WorkingState \cup {"INITIALIZING"})
            \X {"FAILED", "WAIT_FOR_OPERATOR"})
    \cup ({"IDLE", "WAIT_FOR_OPERATOR"} \X {"FAILED"})

\* Mutant: the table lacks the way from one book to the next.
CanTransitionOnce(current, next) ==
  <<current, next>> \in AllowedTransitions \ {<<"NEXT_BOOK", "SELECT_BOOK">>}

CanTransition(current, next) == <<current, next>> \in AllowedTransitions
===============================================================================
