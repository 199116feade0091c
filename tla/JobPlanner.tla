------------------------------ MODULE JobPlanner ------------------------------
(***************************************************************************)
(* How a TrayJob message becomes a plan: JobPlanner.create_plan of         *)
(* shelving_system/job_planner.py, with the look-ups it makes in           *)
(* shelving_system/yaml_data_manager.py.                                   *)
(*                                                                         *)
(* A string as received is a record [text, padded]: its text without       *)
(* surrounding white space, a sequence of symbols, and whether it has any. *)
(***************************************************************************)
EXTENDS Naturals, Sequences, SequencesExt

CONSTANTS NoPlan,  \* create_plan raised one of the exceptions its caller handles
          NoId     \* a key of the file that is no identifier, such as a number

Text == Seq(STRING)
Raw == [text : Text, padded : BOOLEAN]

Blank == <<>>
Strip(raw) == raw.text
NotStripped(raws) == raws  \* mutant: compared as written
StripAll(raws) == [i \in DOMAIN raws |-> Strip(raws[i])]

\* shelf_map.yaml: its frame, its named locations, and its shelves in file
\* order, each with an identifier, prefixes and a pose.  Texts are as written,
\* with " " for white space; of a pose it matters which fields are numbers.
IsBlank(text) == \A i \in DOMAIN text : text[i] = " "
PoseFields == {"position"} \X {"x", "y", "z"}
                \cup {"orientation"} \X {"x", "y", "z", "w"}
ValidPose(pose) == PoseFields \subseteq pose

Shelf == [id : STRING \cup {NoId}, prefixes : Seq(Text), pose : SUBSET PoseFields]
Entry == [prefix : Text, shelf : STRING \cup {NoId}]

\* Mutant: any text will do as a prefix.
AnyPrefixes(prefixes) == prefixes # <<>>
ValidPrefixes(prefixes) ==
  prefixes # <<>> /\ \A i \in DOMAIN prefixes : ~IsBlank(prefixes[i])

\* What the node requires of the file when it starts.  Identifiers of shelves
\* are looked at later, when a book is planned for them.
ValidShelfMap(file) ==
  /\ ~IsBlank(file.frame)
  /\ file.shelves # <<>>
  /\ \A shelf \in Range(file.shelves) :
       ValidPrefixes(shelf.prefixes) /\ ValidPose(shelf.pose)
  /\ \A pose \in Range(file.locations) : ValidPose(pose)

\* The file as create_plan reads it: the locations it names, and its prefixes
\* with the shelves they belong to, in file order.
LoadedMap(file) ==
  [locations |-> DOMAIN file.locations,
   entries   |-> FlattenSeq([i \in DOMAIN file.shelves |->
                   [k \in DOMAIN file.shelves[i].prefixes |->
                     [prefix |-> file.shelves[i].prefixes[k],
                      shelf  |-> file.shelves[i].id]]])]

Match(entry, code) == IsPrefix(entry.prefix, code)

\* Mutant: among equally long prefixes the last one wins.
BestMatchLast(entries, code) ==
  LET AsGood(i, other) ==
        /\ Match(entries[i], code)
        /\ other = 0 \/ Len(entries[i].prefix) >= Len(entries[other].prefix)
      best[i \in 0 .. Len(entries)] ==
        IF i = 0 THEN 0 ELSE IF AsGood(i, best[i - 1]) THEN i ELSE best[i - 1]
  IN best[Len(entries)]

\* The loop of get_shelf_for_classification: an entry replaces the best one so
\* far only if its prefix is strictly longer.
Better(entries, code, i, other) ==
  /\ Match(entries[i], code)
  /\ other = 0 \/ Len(entries[i].prefix) > Len(entries[other].prefix)
BestMatch(entries, code) ==
  LET best[i \in 0 .. Len(entries)] ==
        IF i = 0 THEN 0
        ELSE IF Better(entries, code, i, best[i - 1]) THEN i ELSE best[i - 1]
  IN best[Len(entries)]

\* Mutant: only the whole code is looked up.
HasShelfExactly(entries, code) ==
  \E i \in DOMAIN entries : entries[i].prefix = code

HasShelf(entries, code) == BestMatch(entries, code) # 0
ShelfFor(entries, code) == entries[BestMatch(entries, code)].shelf

\* A book can be planned if its code has a shelf and that shelf a name.  The
\* default profile that every task is given was found when the node started.
CanPlan(entries, code) == HasShelf(entries, code) /\ ShelfFor(entries, code) # NoId

Identifiers(raws) == \A i \in DOMAIN raws : Strip(raws[i]) # Blank
Distinct(texts) == \A i, k \in DOMAIN texts : texts[i] = texts[k] => i = k

\* The checks of create_plan before any task is created.
WellFormed(m) ==
  /\ Strip(m.jobId) # Blank /\ Strip(m.trayId) # Blank
  /\ Identifiers(m.bookIds) /\ Identifiers(m.rfidTags) /\ Identifiers(m.codes)
  /\ m.bookIds # <<>>
  /\ Len(m.bookIds) = Len(m.rfidTags) /\ Len(m.bookIds) = Len(m.codes)
  /\ Distinct(StripAll(m.bookIds))

\* The two drives of every job have somewhere to go.
Located(map) == {"home", "return_station"} \subseteq map.locations

\* JobPlan
Planned == [job : Text, tasks : Seq([book : Text, shelf : STRING \cup {NoId}])]

CreatePlan(m, map) ==
  IF \/ ~WellFormed(m)
     \/ ~Located(map)
     \/ \E i \in DOMAIN m.codes : ~CanPlan(map.entries, Strip(m.codes[i]))
  THEN NoPlan
  ELSE [job   |-> Strip(m.jobId),
        tasks |-> [i \in 1 .. Len(m.bookIds) |->
                     [book  |-> Strip(m.bookIds[i]),
                      shelf |-> ShelfFor(map.entries, Strip(m.codes[i]))]]]
===============================================================================
