---------------------------- MODULE MCMockServers -----------------------------
(* The profiles of book_profiles.yaml, a thick book whose slot is what its      *)
(* margin makes it, books without sizes and without a name.  One goal may be   *)
(* cancelled.                                                                  *)
EXTENDS MockServers

Sizes(w, h, t, m) ==
  [named |-> TRUE, width |-> w, height |-> h, thickness |-> t, margin |-> m]
MCBookOf == [standard |-> Sizes(1800, 2400, 350, 100),
             thin     |-> Sizes(1700, 2300, 200, 100),
             large    |-> Sizes(2200, 3000, 500, 150),
             thick    |-> Sizes(1800, 2400, 760, 60),
             unknown  |-> Sizes(0, 0, 0, 0),
             nameless |-> [Sizes(1800, 2400, 350, 100) EXCEPT !.named = FALSE]]
MCClient == DOMAIN MCBookOf
MCPhases == [navigation |-> 1, perception |-> 2, manipulation |-> 1]
MCImpatient == {<<"standard", "perception">>}
===============================================================================
