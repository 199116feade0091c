---------------------------- MODULE MCReturnMachine ----------------------------
(* Trays that pass or fail each check of the return machine and the planner, *)
(* shelf maps with nested, equal, padded and missing prefixes or a shelf     *)
(* without a name, and files that each fail one check of the start.          *)
EXTENDS ReturnMachine, TLC

Plain(text) == [text |-> text, padded |-> FALSE]
Padded(text) == [text |-> text, padded |-> TRUE]
A == <<"a">>
B == <<"b">>
Tray(books, codes) ==
  [trayId |-> Plain(<<"t">>), bookIds |-> books,
   rfidTags |-> [i \in DOMAIN books |-> Plain(<<"r">>)], codes |-> codes]

MCTrays == {
  Tray(<<Plain(A), Padded(B)>>, <<Plain(<<"1", "2">>), Padded(<<"1">>)>>),
  Tray(<<Plain(A)>>, <<Plain(<<"2", "1", "1">>)>>),
  Tray(<<Plain(A), Padded(A)>>, <<Plain(<<"1">>), Plain(<<"1">>)>>),
  Tray(<<Plain(A), Plain(A)>>, <<Plain(<<"1">>), Plain(<<"1">>)>>),
  Tray(<<Plain(A), Plain(Blank)>>, <<Plain(<<"1">>), Plain(<<"1">>)>>),
  Tray(<<Plain(A)>>, <<Plain(<<"1">>), Plain(<<"2">>)>>),
  Tray(<<>>, <<>>),
  [Tray(<<Plain(A)>>, <<Plain(<<"1">>)>>) EXCEPT !.trayId = Padded(Blank)]}

OneShelf(id, prefixes, pose) == [id |-> id, prefixes |-> prefixes, pose |-> pose]
Places(names) == [name \in names |-> PoseFields]
Both == {"home", "return_station"}
File(frame, names, shelves) ==
  [frame |-> frame, locations |-> Places(names), shelves |-> shelves]
MCShelfMapFiles == {
  File(A, Both, <<OneShelf("s1", <<<<"1">>, <<"2", "1">>>>, PoseFields),
                  OneShelf("s2", <<<<"1", "2">>, <<"2">>>>, PoseFields),
                  OneShelf("s3", <<<<"2", "1">>>>, PoseFields)>>),
  File(A, Both, <<OneShelf("s1", <<<<" ", "1">>>>, PoseFields),
                  OneShelf("s2", <<<<"2">>>>, PoseFields)>>),
  File(A, {"home"}, <<OneShelf("s1", <<<<"1">>>>, PoseFields)>>),
  File(A, Both, <<OneShelf("s1", <<<<"1", "2">>, <<"2">>>>, PoseFields),
                  OneShelf(NoId, <<<<"1">>>>, PoseFields)>>),
  File(A, Both, <<OneShelf("s1", <<<<"1", "2">>, <<>>>>, PoseFields)>>),
  File(A, Both, <<OneShelf("s1", <<<<"1">>>>, {<<"position", "x">>})>>),
  File(<<" ">>, Both, <<OneShelf("s1", <<<<"1">>>>, PoseFields)>>),
  [File(A, Both, <<OneShelf("s1", <<<<"1">>>>, PoseFields)>>)
     EXCEPT !.locations["home"] = {}],
  File(A, Both, <<OneShelf("s1", <<>>, PoseFields)>>),
  File(A, Both, <<>>)}
MCJobIds == <<<<"j1">>, <<"j2">>, <<"j3">>>>
===============================================================================
