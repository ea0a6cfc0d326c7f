--------------------------- MODULE NodeSetupProofs ---------------------------
(***************************************************************************)
(* Proofs about NodeSetup: for any number of keys, backups, blocks and     *)
(* runs of the scripts, and wherever these are interrupted.                *)
(***************************************************************************)
EXTENDS NodeSetup, TLAPS

node == dir[Node]
backup == dir[run.backup]

Directory == [here : BOOLEAN, key : Keys \cup {NoKey},
              pv : {NoState} \cup 0..MaxHeight, db : BOOLEAN]

Options == [script : {"none", "wizard", "create", "quick", "upgrade"},
            backup : Backups \cup {Static}, preserve : BOOLEAN, copy : BOOLEAN,
            restore : BOOLEAN, start : BOOLEAN, intact : BOOLEAN,
            key : Keys \cup {NoKey}, db : BOOLEAN]

Steps == {"idle", "rsync", "remake", "save", "remove", "config", "init", "reset",
          "data", "return", "start", "replace", "rename"}

\* No script runs while the service does, and a directory that is not there
\* holds no key.
TypeInv ==
    /\ dir \in [Places -> Directory]
    /\ running \in BOOLEAN
    /\ running => pc = "idle" /\ node.key # NoKey /\ node.pv # NoState
    /\ height \in 0..MaxHeight
    /\ signed \in [Keys -> 0..height]
    /\ created \in Keys
    /\ dated \in {0} \cup Backups
    /\ pc \in Steps
    /\ run \in Options
    /\ forgone \subseteq Keys
    /\ \A p \in Places : ~dir[p].here => dir[p].key = NoKey

\* Where the key and its signing state are, step by step of a script: what a
\* step is about to overwrite or delete is somewhere else already.
PhaseInv ==
    /\ pc \in {"remake", "save"} /\ node.key # NoKey => backup.key = node.key
    /\ pc \in {"save", "return"} => backup.pv = NoState
    /\ pc = "remove" /\ node.key # NoKey => backup.key = node.key /\ backup.pv >= node.pv
    /\ pc \in {"config", "rename"} => node = Missing
    /\ pc = "data" => run.script # "quick"
    /\ pc \in {"init", "reset", "data"} /\ run.script # "quick" =>
          /\ node.pv <= 0
          /\ run.restore /\ backup.here /\ backup.key # NoKey => node.key = backup.key

\* The key of the run, with a state that knows all it has signed.
Holds(d) == d.key = run.key /\ d.pv >= signed[run.key]

\* A wizard that found an intact node has the key and its state in the node, in
\* the backup and in the node again.
WizardInv ==
    run.intact /\ run.restore /\ pc # "idle" =>
        /\ run.key \in Keys /\ run.script = "wizard"
        /\ pc \in {"rsync", "remake", "save"} => Holds(node) /\ (run.db => node.db)
        /\ pc \in {"remake", "save"} => backup.here
        /\ pc \in {"remove", "config", "init", "reset", "data"} =>
              /\ backup.here /\ Holds(backup)
              /\ run.preserve /\ run.db => backup.db
        /\ pc \in {"return", "start"} =>
              /\ Holds(node)
              /\ run.preserve /\ run.db => node.db

SetupInv == TypeInv /\ PhaseInv /\ Recoverable /\ WizardInv
-----------------------------------------------------------------------------
(* What the steps have in common.                                          *)

\* The node's directory and that of the backup are two places.
LEMMA PlaceFacts ==
    ASSUME TypeInv
    PROVE  /\ Node \in Places /\ Old \in Places /\ run.backup \in Places
           /\ Node # Old /\ run.backup # Node /\ run.backup # Old
           /\ node \in Directory /\ backup \in Directory /\ dir[Old] \in Directory
           /\ NoKey \notin Keys /\ 1 \in Keys /\ Keys \subseteq Nat
           /\ NoState \notin Nat
           /\ Missing \in Directory
  <1>1. run.backup \in Backups \cup {Static}
    BY DEF TypeInv, Options
  <1>2. /\ Node \in Places /\ Old \in Places /\ run.backup \in Places
        /\ Node # Old /\ run.backup # Node /\ run.backup # Old
    BY <1>1, SetupAssumption DEF Places
  <1>3. node \in Directory /\ backup \in Directory /\ dir[Old] \in Directory
    BY <1>2 DEF TypeInv, node, backup
  <1>4. NoKey \notin Keys /\ 1 \in Keys /\ Keys \subseteq Nat /\ NoState \notin Nat
    <2>1. \A n \in Keys : n \in Nat /\ n >= 1
      <3>1. PICK n : Keys = 1..n
        BY SetupAssumption
      <3>2. QED
        BY <3>1
    <2>2. QED
      BY <2>1, SetupAssumption DEF NoKey, NoState
  <1>5. Missing \in Directory
    BY DEF Missing, Directory
  <1>6. QED
    BY <1>2, <1>3, <1>4, <1>5

\* The part of the type invariant that is about the directories.
DirOK ==
    /\ dir \in [Places -> Directory]
    /\ \A p \in Places : ~dir[p].here => dir[p].key = NoKey

\* A step of a script leaves the service stopped and keeps the types when what
\* it writes has them.
LEMMA TypeStep ==
    ASSUME TypeInv, pc # "idle", pc' \in Steps, DirOK',
           UNCHANGED <<running, height, signed, dated, run>>,
           created' \in Keys, forgone' \subseteq Keys
    PROVE  TypeInv'
  BY DEF TypeInv, DirOK

\* The key of a place is, after the step, at some place with as good a state.
Kept(p) ==
    LET d == dir[p]
    IN  d.key \in Keys \ forgone' /\ signed[d.key] > 0 /\ d.pv >= signed[d.key] =>
            \E q \in Places : dir'[q].key = d.key /\ dir'[q].pv >= d.pv

\* Nothing is lost by a step that keeps the key of every place.
LEMMA KeptRecoverable ==
    ASSUME TypeInv, TypeInv', Recoverable, signed' = signed, forgone \subseteq forgone',
           \A p \in Places : Kept(p)
    PROVE  Recoverable'
  <1> SUFFICES ASSUME NEW key \in Keys, signed[key] > 0, key \notin forgone'
               PROVE  \E p \in Places : dir'[p].key = key /\ dir'[p].pv >= signed[key]
    BY DEF Recoverable
  <1>1. PICK p \in Places : dir[p].key = key /\ dir[p].pv >= signed[key]
    BY DEF Recoverable
  <1>2. PICK q \in Places : dir'[q].key = key /\ dir'[q].pv >= dir[p].pv
    BY <1>1 DEF Kept
  <1>3. dir[p].pv \in Int /\ dir'[q].pv \in Int /\ signed[key] \in Int
    BY SetupAssumption DEF TypeInv, Directory, NoState
  <1>4. QED
    BY <1>1, <1>2, <1>3

\* A place the step does not touch keeps its key.
LEMMA KeptUntouched ==
    ASSUME TypeInv, NEW p \in Places, dir'[p] = dir[p]
    PROVE  Kept(p)
  <1>1. dir[p].pv \in Int
    BY SetupAssumption DEF TypeInv, Directory, NoState
  <1>2. QED
    BY <1>1 DEF Kept

\* A place whose state is at most that of genesis keeps nothing that matters.
LEMMA KeptNothing ==
    ASSUME TypeInv, NEW p \in Places, dir[p].key = NoKey \/ dir[p].pv <= 0
    PROVE  Kept(p)
  <1>1. ASSUME dir[p].key \in Keys, signed[dir[p].key] > 0, dir[p].pv >= signed[dir[p].key]
        PROVE  FALSE
    <2>1. dir[p].pv \in Int /\ signed[dir[p].key] \in Int
      BY <1>1, SetupAssumption DEF TypeInv, Directory, NoState
    <2>2. dir[p].key # NoKey
      BY <1>1, PlaceFacts
    <2>3. QED
      BY <1>1, <2>1, <2>2
  <1>2. QED
    BY <1>1 DEF Kept
-----------------------------------------------------------------------------
(* The steps that make a backup.                                           *)

\* Rsync writes the key next to whatever the backup holds; a key it overwrites
\* is given up.
LEMMA RsyncInv ==
    ASSUME SetupInv, Rsync
    PROVE  SetupInv'
  <1> DEFINE written == [backup EXCEPT !.here = TRUE,
                                       !.key = IF node.key = NoKey THEN @ ELSE node.key]
  <1>1. TypeInv
    BY DEF SetupInv
  <1>2. written \in Directory /\ written.here
        /\ written.key = (IF node.key = NoKey THEN backup.key ELSE node.key)
        /\ written.pv = backup.pv /\ written.db = backup.db
    BY <1>1, PlaceFacts DEF Directory
  <1>3. /\ pc = "rsync" /\ pc' = "remake"
        /\ UNCHANGED <<running, height, signed, dated, run, created>>
        /\ dir' = [dir EXCEPT ![run.backup] = written]
        /\ forgone' = forgone \cup
             (IF NoKey # backup.key /\ node.key \notin {NoKey, backup.key} THEN {backup.key} ELSE {})
    <2>1. pc = "rsync" /\ pc' = "remake" /\ UNCHANGED <<running, height, signed, dated, run, created>>
      BY DEF Rsync, Step
    <2>2. dir' = [dir EXCEPT ![run.backup] = written]
      BY DEF Rsync, node, backup
    <2>3. forgone' = forgone \cup
             (IF NoKey # backup.key /\ node.key \notin {NoKey, backup.key} THEN {backup.key} ELSE {})
      BY DEF Rsync, node, backup
    <2>4. QED
      BY <2>1, <2>2, <2>3
  <1> HIDE DEF written
  <1>4. \A p \in Places : dir'[p] = IF p = run.backup THEN written ELSE dir[p]
    BY <1>1, <1>3 DEF TypeInv
  <1>5. TypeInv'
    <2>1. DirOK'
      BY <1>1, <1>2, <1>3, <1>4 DEF DirOK, TypeInv
    <2>2. forgone' \subseteq Keys
      BY <1>1, <1>3, PlaceFacts DEF TypeInv, Directory
    <2>3. created' \in Keys /\ pc' \in Steps /\ pc # "idle"
      BY <1>1, <1>3 DEF TypeInv, Steps
    <2>4. QED
      BY <1>1, <1>3, <2>1, <2>2, <2>3, TypeStep
  <1>6. node' = node /\ backup' = written
    BY <1>1, <1>3, <1>4, PlaceFacts DEF node, backup
  <1>7. Recoverable'
    <2>1. Kept(run.backup)
      <3>1. CASE node.key \in {NoKey, backup.key} \/ backup.key = NoKey
        <4>1. backup.key = NoKey \/ written.key = backup.key
          BY <1>2, <3>1
        <4>2. backup.pv \in Int
          BY <1>1, PlaceFacts, SetupAssumption DEF Directory, NoState
        <4>3. CASE backup.key = NoKey
          BY <1>1, <4>3, KeptNothing, PlaceFacts DEF backup
        <4>4. CASE written.key = backup.key
          BY <1>1, <1>2, <1>4, <4>2, <4>4, PlaceFacts DEF Kept, backup
        <4>5. QED
          BY <4>1, <4>3, <4>4
      <3>2. CASE node.key \notin {NoKey, backup.key} /\ backup.key # NoKey
        BY <1>3, <3>2 DEF Kept, backup
      <3>3. QED
        BY <3>1, <3>2
    <2>2. \A p \in Places : Kept(p)
      BY <1>1, <1>4, <2>1, KeptUntouched
    <2>3. QED
      BY <1>1, <1>3, <1>5, <2>2, KeptRecoverable DEF SetupInv
  <1>8. PhaseInv'
    BY <1>2, <1>3, <1>6 DEF PhaseInv
  <1>9. WizardInv'
    BY <1>2, <1>3, <1>6 DEF WizardInv, SetupInv, Holds
  <1>10. QED
    BY <1>5, <1>7, <1>8, <1>9 DEF SetupInv

\* RemakeData deletes the state of the backup: the node has the same key with
\* as good a state, or the key is given up.
LEMMA RemakeDataInv ==
    ASSUME SetupInv, RemakeData
    PROVE  SetupInv'
  <1> DEFINE written == [backup EXCEPT !.pv = NoState, !.db = FALSE]
  <1>1. TypeInv
    BY DEF SetupInv
  <1>2. /\ written \in Directory /\ written.here = backup.here /\ written.key = backup.key
        /\ written.pv = NoState
    BY <1>1, PlaceFacts DEF Directory
  <1>3. /\ pc = "remake" /\ pc' = "save"
        /\ UNCHANGED <<running, height, signed, dated, run, created>>
    BY DEF RemakeData, Step
  <1>4. forgone' = forgone \cup
          (IF backup.pv > node.pv \/ (backup.pv # NoState /\ backup.key # node.key)
           THEN {backup.key} \ {NoKey} ELSE {})
    BY DEF RemakeData, node, backup
  <1>5. \A p \in Places : dir'[p] = IF p = run.backup THEN written ELSE dir[p]
    BY <1>1, PlaceFacts DEF RemakeData, TypeInv, backup, Directory
  <1>6. dir' \in [Places -> Directory]
    <2>1. dir' = [dir EXCEPT ![run.backup].pv = NoState, ![run.backup].db = FALSE]
      BY DEF RemakeData
    <2>2. DOMAIN dir' = Places /\ dir' = [p \in Places |-> dir'[p]]
      BY <1>1, <2>1 DEF TypeInv
    <2>3. QED
      BY <1>1, <1>2, <1>5, <2>2 DEF TypeInv
  <1> HIDE DEF written
  <1>7. TypeInv'
    <2>1. DirOK'
      BY <1>1, <1>2, <1>5, <1>6 DEF DirOK, TypeInv, backup
    <2>2. forgone' \subseteq Keys
      BY <1>1, <1>4, PlaceFacts DEF TypeInv, Directory
    <2>3. created' \in Keys /\ pc' \in Steps /\ pc # "idle"
      BY <1>1, <1>3 DEF TypeInv, Steps
    <2>4. QED
      BY <1>1, <1>3, <2>1, <2>2, <2>3, TypeStep
  <1>8. node' = node /\ backup' = written
    BY <1>1, <1>3, <1>5, PlaceFacts DEF node, backup
  <1>9. Recoverable'
    <2>1. Kept(run.backup)
      <3>1. CASE backup.key = NoKey \/ backup.pv = NoState
        BY <1>1, <3>1, KeptNothing, PlaceFacts DEF backup, NoState
      <3>2. CASE backup.key # NoKey /\ (backup.pv > node.pv \/ (backup.pv # NoState /\ backup.key # node.key))
        BY <1>4, <3>2 DEF Kept, backup
      <3>3. CASE ~(backup.pv > node.pv) /\ backup.key = node.key
        <4>1. backup.pv \in Int /\ node.pv \in Int
          BY <1>1, PlaceFacts, SetupAssumption DEF Directory, NoState
        <4>2. node.key = backup.key /\ node.pv >= backup.pv
          BY <3>3, <4>1
        <4>3. dir'[Node] = node /\ Node \in Places
          BY <1>1, <1>5, PlaceFacts DEF node
        <4>4. QED
          BY <4>2, <4>3 DEF Kept, backup
      <3>4. QED
        BY <3>1, <3>2, <3>3
    <2>2. \A p \in Places : Kept(p)
      BY <1>1, <1>5, <2>1, KeptUntouched
    <2>3. QED
      BY <1>1, <1>3, <1>4, <1>7, <2>2, KeptRecoverable DEF SetupInv
  <1>10. PhaseInv'
    BY <1>2, <1>3, <1>8 DEF PhaseInv, SetupInv
  <1>11. WizardInv'
    BY <1>2, <1>3, <1>8 DEF WizardInv, SetupInv, Holds
  <1>12. QED
    BY <1>7, <1>9, <1>10, <1>11 DEF SetupInv

\* SaveData gives the backup, which has the key, the state of the node.
LEMMA SaveDataInv ==
    ASSUME SetupInv, SaveData
    PROVE  SetupInv'
  <1> DEFINE moved == run.preserve /\ ~run.copy
             written == [backup EXCEPT !.pv = node.pv, !.db = run.preserve /\ node.db]
             left == [node EXCEPT !.pv = IF moved THEN NoState ELSE @, !.db = @ /\ ~moved]
  <1>1. TypeInv
    BY DEF SetupInv
  <1>2. /\ written \in Directory /\ written.here = backup.here /\ written.key = backup.key
        /\ written.pv = node.pv /\ written.db = (run.preserve /\ node.db)
    BY <1>1, PlaceFacts DEF Directory, TypeInv, Options
  <1>3. /\ left \in Directory /\ left.here = node.here /\ left.key = node.key
        /\ left.pv \in {NoState, node.pv}
    BY <1>1, PlaceFacts DEF Directory, TypeInv, Options
  <1>4. /\ pc = "save" /\ pc' = IF run.script = "create" THEN "idle" ELSE "remove"
        /\ UNCHANGED <<running, height, signed, dated, run, created, forgone>>
    BY DEF SaveData, Step
  <1>5. /\ dir' \in [Places -> Directory]
        /\ \A p \in Places : dir'[p] = IF p = run.backup THEN written
                                       ELSE IF p = Node THEN left ELSE dir[p]
    <2>1. dir' = [dir EXCEPT ![run.backup].pv = node.pv,
                             ![run.backup].db = run.preserve /\ node.db,
                             ![Node].pv = IF moved THEN NoState ELSE @,
                             ![Node].db = @ /\ ~moved]
      BY DEF SaveData, node
    <2>2. dir' = [dir EXCEPT ![run.backup] = written, ![Node] = left]
      BY <1>1, <2>1, PlaceFacts DEF TypeInv, node, backup, Directory
    <2> HIDE DEF written, left
    <2>3. QED
      BY <1>1, <1>2, <1>3, <2>2, PlaceFacts DEF TypeInv
  <1> HIDE DEF written, left
  <1>6. TypeInv'
    <2>1. DirOK'
      BY <1>1, <1>2, <1>3, <1>5 DEF DirOK, TypeInv, backup, node
    <2>2. created' \in Keys /\ pc' \in Steps /\ pc # "idle" /\ forgone' \subseteq Keys
      BY <1>1, <1>4 DEF TypeInv, Steps
    <2>3. QED
      BY <1>1, <1>4, <2>1, <2>2, TypeStep
  <1>7. node' = left /\ backup' = written
    BY <1>1, <1>4, <1>5, PlaceFacts DEF node, backup
  <1>8. node.pv \in Int /\ node.pv >= NoState
    BY <1>1, PlaceFacts, SetupAssumption DEF Directory, NoState
  <1>9. Recoverable'
    <2>1. backup.pv <= 0
      BY <1>4 DEF SetupInv, PhaseInv, NoState
    <2>2. Kept(run.backup)
      BY <1>1, <2>1, KeptNothing, PlaceFacts DEF backup
    <2>3. Kept(Node)
      <3>1. CASE node.key = NoKey
        BY <1>1, <3>1, KeptNothing, PlaceFacts DEF node
      <3>2. CASE node.key # NoKey
        <4>1. written.key = node.key /\ written.pv >= node.pv
          BY <1>2, <1>4, <1>8, <3>2 DEF SetupInv, PhaseInv
        <4>2. dir'[run.backup] = written /\ run.backup \in Places
          BY <1>1, <1>5, PlaceFacts
        <4>3. QED
          BY <4>1, <4>2 DEF Kept, node
      <3>3. QED
        BY <3>1, <3>2
    <2>4. \A p \in Places : Kept(p)
      BY <1>1, <1>5, <2>2, <2>3, KeptUntouched
    <2>5. QED
      BY <1>1, <1>4, <1>6, <2>4, KeptRecoverable DEF SetupInv
  <1>10. PhaseInv'
    <2>1. left.key # NoKey => written.key = left.key /\ written.pv >= left.pv
      BY <1>2, <1>3, <1>4, <1>8 DEF SetupInv, PhaseInv, NoState
    <2>2. QED
      BY <1>4, <1>7, <2>1 DEF PhaseInv
  <1>11. WizardInv'
    <2>1. node.key \in Keys => backup.key = node.key
      BY <1>1, <1>4, PlaceFacts DEF SetupInv, PhaseInv
    <2>2. QED
      BY <1>2, <1>4, <1>7, <2>1 DEF WizardInv, SetupInv, Holds
  <1>12. QED
    BY <1>6, <1>9, <1>10, <1>11 DEF SetupInv
-----------------------------------------------------------------------------
(* The steps that remove, restore and reset the node.                      *)

\* What the wizard removes is in the backup.
LEMMA RemoveNodeInv ==
    ASSUME SetupInv, RemoveNode
    PROVE  SetupInv'
  <1>1. TypeInv
    BY DEF SetupInv
  <1>2. /\ pc = "remove" /\ pc' = "config"
        /\ UNCHANGED <<running, height, signed, dated, run, created, forgone>>
    BY DEF RemoveNode, Step
  <1>3. \A p \in Places : dir'[p] = IF p = Node THEN Missing ELSE dir[p]
    BY <1>1 DEF RemoveNode, TypeInv
  <1>4. TypeInv'
    <2>1. DirOK'
      BY <1>1, <1>3, PlaceFacts DEF DirOK, TypeInv, RemoveNode, Missing
    <2>2. created' \in Keys /\ pc' \in Steps /\ pc # "idle" /\ forgone' \subseteq Keys
      BY <1>1, <1>2 DEF TypeInv, Steps
    <2>3. QED
      BY <1>1, <1>2, <2>1, <2>2, TypeStep
  <1>5. node' = Missing /\ backup' = backup
    BY <1>1, <1>2, <1>3, PlaceFacts DEF node, backup
  <1>6. Recoverable'
    <2>1. Kept(Node)
      <3>1. CASE node.key = NoKey
        BY <1>1, <3>1, KeptNothing, PlaceFacts DEF node
      <3>2. CASE node.key # NoKey
        <4>1. backup.key = node.key /\ backup.pv >= node.pv
          BY <1>2, <3>2 DEF SetupInv, PhaseInv
        <4>2. dir'[run.backup] = backup /\ run.backup \in Places
          BY <1>1, <1>3, PlaceFacts DEF backup
        <4>3. QED
          BY <4>1, <4>2 DEF Kept, node
      <3>3. QED
        BY <3>1, <3>2
    <2>2. \A p \in Places : Kept(p)
      BY <1>1, <1>3, <2>1, KeptUntouched
    <2>3. QED
      BY <1>1, <1>2, <1>4, <2>2, KeptRecoverable DEF SetupInv
  <1>7. PhaseInv'
    BY <1>2, <1>5 DEF PhaseInv
  <1>8. WizardInv'
    BY <1>2, <1>5 DEF WizardInv, SetupInv, Holds
  <1>9. QED
    BY <1>4, <1>6, <1>7, <1>8 DEF SetupInv

\* The node takes the key of the backup.
LEMMA RestoreConfigInv ==
    ASSUME SetupInv, RestoreConfig
    PROVE  SetupInv'
  <1> DEFINE taken == run.restore /\ backup.here
             written == IF taken THEN [node EXCEPT !.here = TRUE, !.key = backup.key] ELSE node
  <1>1. TypeInv
    BY DEF SetupInv
  <1>2. /\ pc = "config" /\ pc' = "init"
        /\ UNCHANGED <<running, height, signed, dated, run, created, forgone>>
    BY DEF RestoreConfig, Step
  <1>3. node = Missing
    BY <1>2 DEF SetupInv, PhaseInv
  <1>4. /\ written \in Directory /\ (~written.here => written.key = NoKey)
        /\ written.pv = NoState
        /\ taken => written.key = backup.key
    BY <1>1, <1>3, PlaceFacts DEF Directory, Missing
  <1>5. dir' \in [Places -> Directory] /\ \A p \in Places : dir'[p] = IF p = Node THEN written ELSE dir[p]
    <2>1. dir' = [dir EXCEPT ![Node] = written]
      <3>1. CASE taken
        BY <3>1 DEF RestoreConfig, node, backup
      <3>2. CASE ~taken
        BY <1>1, <3>2, PlaceFacts DEF RestoreConfig, node, backup, TypeInv
      <3>3. QED
        BY <3>1, <3>2
    <2> HIDE DEF written
    <2>2. QED
      BY <1>1, <1>4, <2>1 DEF TypeInv
  <1> HIDE DEF written
  <1>6. TypeInv'
    <2>1. DirOK'
      BY <1>1, <1>4, <1>5 DEF DirOK, TypeInv
    <2>2. created' \in Keys /\ pc' \in Steps /\ pc # "idle" /\ forgone' \subseteq Keys
      BY <1>1, <1>2 DEF TypeInv, Steps
    <2>3. QED
      BY <1>1, <1>2, <2>1, <2>2, TypeStep
  <1>7. node' = written /\ backup' = backup
    BY <1>1, <1>2, <1>5, PlaceFacts DEF node, backup
  <1>8. Recoverable'
    <2>1. Kept(Node)
      BY <1>1, <1>3, KeptNothing, PlaceFacts DEF node, Missing
    <2>2. \A p \in Places : Kept(p)
      BY <1>1, <1>5, <2>1, KeptUntouched
    <2>3. QED
      BY <1>1, <1>2, <1>6, <2>2, KeptRecoverable DEF SetupInv
  <1>9. PhaseInv'
    BY <1>2, <1>4, <1>7 DEF PhaseInv, NoState
  <1>10. WizardInv'
    BY <1>2, <1>7 DEF WizardInv, SetupInv, Holds
  <1>11. QED
    BY <1>6, <1>8, <1>9, <1>10 DEF SetupInv

\* What starting, initialising or resetting a node makes of its directory: a
\* key that is there stays, one that is not is generated.
LEMMA GenerateFacts ==
    ASSUME TypeInv, CanGenerate(node), CountKey(node)
    PROVE  /\ created' \in Keys
           /\ LoadOrGenFilePV(node) \in Directory
           /\ node.key # NoKey => LoadOrGenFilePV(node) = node
           /\ node.key = NoKey => LoadOrGenFilePV(node).pv = 0
           /\ LoadOrGenFilePV(node).key # NoKey
           /\ LoadOrGenFilePV(node).here
           /\ resetAll(node) \in Directory
           /\ resetAll(node).key # NoKey
           /\ node.key # NoKey => resetAll(node).key = node.key
           /\ resetAll(node).pv = 0
           /\ resetAll(node).here
  <1>1. node \in Directory /\ (~node.here => node.key = NoKey)
    BY PlaceFacts DEF TypeInv, node
  <1>2. 0 \in 0..MaxHeight
    BY SetupAssumption
  <1> DEFINE new == [node EXCEPT !.here = TRUE, !.key = created + 1, !.pv = 0]
             reset == [node EXCEPT !.pv = 0, !.db = FALSE]
  <1>3. CASE node.key # NoKey
    <2>1. LoadOrGenFilePV(node) = node /\ resetAll(node) = reset
      BY <1>3 DEF LoadOrGenFilePV, resetAll
    <2>2. /\ reset \in Directory /\ reset.key = node.key /\ reset.pv = 0 /\ reset.here = node.here
      BY <1>1, <1>2 DEF Directory
    <2> HIDE DEF reset
    <2>3. created' \in Keys
      BY <1>3 DEF CountKey, TypeInv
    <2>4. QED
      BY <1>1, <1>3, <2>1, <2>2, <2>3
  <1>4. CASE node.key = NoKey
    <2>1. created + 1 \in Keys /\ created' = created + 1 /\ created + 1 # NoKey
      BY <1>4, PlaceFacts DEF CanGenerate, CountKey
    <2>2. LoadOrGenFilePV(node) = new /\ resetAll(node) = [new EXCEPT !.db = FALSE]
      BY <1>4 DEF LoadOrGenFilePV, resetAll, Generate
    <2>3. new \in Directory /\ new.key = created + 1 /\ new.pv = 0 /\ new.here
      BY <1>1, <1>2, <2>1 DEF Directory
    <2> HIDE DEF new
    <2>4. LET d == [new EXCEPT !.db = FALSE]
          IN  d \in Directory /\ d.key = new.key /\ d.pv = new.pv /\ d.here = new.here
      BY <2>3 DEF Directory
    <2>5. QED
      BY <1>4, <2>1, <2>2, <2>3, <2>4
  <1>5. QED
    BY <1>3, <1>4

\* genesisd init generates a key when the backup had none.
LEMMA InitNodeInv ==
    ASSUME SetupInv, InitNode
    PROVE  SetupInv'
  <1> DEFINE written == [LoadOrGenFilePV(node) EXCEPT !.here = TRUE]
  <1>1. TypeInv /\ CanGenerate(node) /\ CountKey(node)
    BY DEF SetupInv, InitNode, node
  <1>2. /\ pc = "init" /\ pc' = "reset"
        /\ UNCHANGED <<running, height, signed, dated, run, forgone>>
    BY DEF InitNode, Step
  <1>3. /\ written \in Directory /\ written.here
        /\ node.key # NoKey => written.key = node.key /\ written.pv = node.pv
        /\ node.key = NoKey => written.pv = 0
    BY <1>1, GenerateFacts DEF Directory
  <1>4. dir' \in [Places -> Directory] /\ \A p \in Places : dir'[p] = IF p = Node THEN written ELSE dir[p]
    <2>1. dir' = [dir EXCEPT ![Node] = written]
      BY DEF InitNode, node
    <2> HIDE DEF written
    <2>2. QED
      BY <1>1, <1>3, <2>1 DEF TypeInv
  <1> HIDE DEF written
  <1>5. TypeInv'
    <2>1. DirOK'
      BY <1>1, <1>3, <1>4 DEF DirOK, TypeInv
    <2>2. created' \in Keys /\ pc' \in Steps /\ pc # "idle" /\ forgone' \subseteq Keys
      BY <1>1, <1>2, GenerateFacts DEF TypeInv, Steps
    <2>3. QED
      BY <1>1, <1>2, <2>1, <2>2, TypeStep
  <1>6. node' = written /\ backup' = backup
    BY <1>1, <1>2, <1>4, PlaceFacts DEF node, backup
  <1>7. Recoverable'
    <2>1. Kept(Node)
      <3>1. CASE node.key = NoKey
        BY <1>1, <3>1, KeptNothing, PlaceFacts DEF node
      <3>2. CASE node.key # NoKey
        <4>1. node.pv \in Int
          BY <1>1, PlaceFacts, SetupAssumption DEF Directory, NoState
        <4>2. QED
          BY <1>1, <1>3, <1>4, <3>2, <4>1, PlaceFacts DEF Kept, node
      <3>3. QED
        BY <3>1, <3>2
    <2>2. \A p \in Places : Kept(p)
      BY <1>1, <1>4, <2>1, KeptUntouched
    <2>3. QED
      BY <1>1, <1>2, <1>5, <2>2, KeptRecoverable DEF SetupInv
  <1>8. PhaseInv'
    BY <1>2, <1>3, <1>6 DEF PhaseInv, SetupInv
  <1>9. WizardInv'
    BY <1>2, <1>6 DEF WizardInv, SetupInv, Holds
  <1>10. QED
    BY <1>5, <1>7, <1>8, <1>9 DEF SetupInv

\* unsafe-reset-all meets a state that knows of signatures in the quick setup
\* only, which gives the key up.
LEMMA ResetNodeInv ==
    ASSUME SetupInv, ResetNode
    PROVE  SetupInv'
  <1> DEFINE written == resetAll(node)
  <1>1. TypeInv /\ CanGenerate(node) /\ CountKey(node)
    BY DEF SetupInv, ResetNode, node
  <1>2. /\ pc = "reset" /\ pc' = IF run.script = "quick" THEN "idle" ELSE "data"
        /\ UNCHANGED <<running, height, signed, dated, run>>
    BY DEF ResetNode, Step
  <1>3. forgone' = forgone \cup (IF run.script = "quick" THEN {node.key} \ {NoKey} ELSE {})
    BY DEF ResetNode, node
  <1>4. /\ written \in Directory /\ written.here /\ written.pv = 0
        /\ node.key # NoKey => written.key = node.key
    BY <1>1, GenerateFacts
  <1>5. dir' \in [Places -> Directory] /\ \A p \in Places : dir'[p] = IF p = Node THEN written ELSE dir[p]
    <2>1. dir' = [dir EXCEPT ![Node] = written]
      BY DEF ResetNode, node
    <2> HIDE DEF written
    <2>2. QED
      BY <1>1, <1>4, <2>1 DEF TypeInv
  <1> HIDE DEF written
  <1>6. TypeInv'
    <2>1. DirOK'
      BY <1>1, <1>4, <1>5 DEF DirOK, TypeInv
    <2>2. created' \in Keys /\ pc' \in Steps /\ pc # "idle"
      BY <1>1, <1>2, GenerateFacts DEF Steps
    <2>3. forgone' \subseteq Keys
      BY <1>1, <1>3, PlaceFacts DEF TypeInv, Directory
    <2>4. QED
      BY <1>1, <1>2, <2>1, <2>2, <2>3, TypeStep
  <1>7. node' = written /\ backup' = backup
    BY <1>1, <1>2, <1>5, PlaceFacts DEF node, backup
  <1>8. Recoverable'
    <2>1. Kept(Node)
      <3>1. CASE node.key = NoKey
        BY <1>1, <3>1, KeptNothing, PlaceFacts DEF node
      <3>2. CASE node.key # NoKey /\ run.script = "quick"
        BY <1>3, <3>2 DEF Kept, node
      <3>3. CASE run.script # "quick"
        <4>1. node.pv <= 0
          BY <1>2, <3>3 DEF SetupInv, PhaseInv
        <4>2. QED
          BY <1>1, <4>1, KeptNothing, PlaceFacts DEF node
      <3>4. QED
        BY <3>1, <3>2, <3>3
    <2>2. \A p \in Places : Kept(p)
      BY <1>1, <1>5, <2>1, KeptUntouched
    <2>3. QED
      BY <1>1, <1>2, <1>3, <1>6, <2>2, KeptRecoverable DEF SetupInv
  <1>9. PhaseInv'
    BY <1>2, <1>4, <1>7 DEF PhaseInv, SetupInv
  <1>10. WizardInv'
    BY <1>2, <1>7 DEF WizardInv, SetupInv, Holds
  <1>11. QED
    BY <1>6, <1>8, <1>9, <1>10 DEF SetupInv

\* Moving the data out of the backup, the node having the key of the backup.
LEMMA RestoreDataInv ==
    ASSUME SetupInv, RestoreData
    PROVE  SetupInv'
  <1> DEFINE restored == run.restore /\ backup.here
             found == backup.pv # NoState \/ (run.preserve /\ backup.db)
             moves == restored /\ found /\ run.preserve
             copies == restored /\ found /\ ~run.preserve
             written == IF moves THEN [node EXCEPT !.pv = IF backup.pv = NoState THEN @ ELSE backup.pv,
                                                   !.db = backup.db]
                        ELSE IF copies THEN [node EXCEPT !.pv = backup.pv]
                        ELSE node
             left == IF moves THEN [backup EXCEPT !.pv = NoState, !.db = FALSE] ELSE backup
  <1>1. TypeInv /\ run.preserve \in BOOLEAN /\ run.restore \in BOOLEAN
    BY DEF SetupInv, TypeInv, Options
  <1>2. /\ pc = "data" /\ pc' = IF moves THEN "return" ELSE "start"
        /\ UNCHANGED <<running, height, signed, dated, run, created, forgone>>
    BY DEF RestoreData, Step, backup
  <1>3. /\ written \in Directory /\ written.here = node.here /\ written.key = node.key
        /\ (moves \/ copies) /\ backup.pv # NoState => written.pv = backup.pv
        /\ moves => written.db = backup.db
    BY <1>1, PlaceFacts DEF Directory
  <1>4. /\ left \in Directory /\ left.here = backup.here /\ left.key = backup.key
        /\ moves => left.pv = NoState
        /\ ~moves => left = backup
    BY <1>1, PlaceFacts DEF Directory
  <1>5. /\ dir' \in [Places -> Directory]
        /\ \A p \in Places : dir'[p] = IF p = run.backup THEN left
                                       ELSE IF p = Node THEN written ELSE dir[p]
    <2>1. dir' = [dir EXCEPT ![Node] = written, ![run.backup] = left]
      <3>1. CASE moves
        <4>1. dir' = [dir EXCEPT ![Node].pv = IF backup.pv = NoState THEN @ ELSE backup.pv,
                                 ![Node].db = backup.db,
                                 ![run.backup].pv = NoState, ![run.backup].db = FALSE]
          BY <3>1 DEF RestoreData, backup
        <4>2. QED
          BY <1>1, <3>1, <4>1, PlaceFacts DEF TypeInv, node, backup, Directory
      <3>2. CASE copies
        <4>1. dir' = [dir EXCEPT ![Node].pv = backup.pv]
          BY <3>2 DEF RestoreData, backup
        <4>2. QED
          BY <1>1, <3>2, <4>1, PlaceFacts DEF TypeInv, node, backup, Directory
      <3>3. CASE ~moves /\ ~copies
        <4>1. dir' = dir
          BY <1>1, <3>3 DEF RestoreData, backup
        <4>2. QED
          BY <1>1, <3>3, <4>1, PlaceFacts DEF TypeInv, node, backup
      <3>4. QED
        BY <3>1, <3>2, <3>3
    <2> HIDE DEF written, left
    <2>2. QED
      BY <1>1, <1>3, <1>4, <2>1, PlaceFacts DEF TypeInv
  <1> HIDE DEF written, left
  <1>6. TypeInv'
    <2>1. DirOK'
      BY <1>1, <1>3, <1>4, <1>5 DEF DirOK, TypeInv, backup, node
    <2>2. created' \in Keys /\ pc' \in Steps /\ pc # "idle" /\ forgone' \subseteq Keys
      BY <1>1, <1>2 DEF TypeInv, Steps
    <2>3. QED
      BY <1>1, <1>2, <2>1, <2>2, TypeStep
  <1>7. node' = written /\ backup' = left
    BY <1>1, <1>2, <1>5, PlaceFacts DEF node, backup
  <1>8. backup.pv \in Int
    BY <1>1, PlaceFacts, SetupAssumption DEF Directory, NoState
  <1>9. Recoverable'
    <2>1. Kept(Node)
      <3>1. node.pv <= 0
        BY <1>2 DEF SetupInv, PhaseInv
      <3>2. QED
        BY <1>1, <3>1, KeptNothing, PlaceFacts DEF node
    <2>2. Kept(run.backup)
      <3>1. CASE backup.key = NoKey \/ backup.pv = NoState
        BY <1>1, <3>1, KeptNothing, PlaceFacts DEF backup, NoState
      <3>2. CASE ~moves
        BY <1>1, <1>4, <1>5, <3>2, KeptUntouched, PlaceFacts DEF backup
      <3>3. CASE moves /\ backup.key # NoKey /\ backup.pv # NoState
        <4>1. written.key = backup.key /\ written.pv >= backup.pv
          <5>1. node.key = backup.key
            BY <1>2, <3>3 DEF SetupInv, PhaseInv
          <5>2. QED
            BY <1>3, <1>8, <3>3, <5>1
        <4>2. dir'[Node] = written /\ Node \in Places
          BY <1>1, <1>5, PlaceFacts
        <4>3. QED
          BY <4>1, <4>2 DEF Kept, backup
      <3>4. QED
        BY <3>1, <3>2, <3>3
    <2>3. \A p \in Places : Kept(p)
      BY <1>1, <1>5, <2>1, <2>2, KeptUntouched
    <2>4. QED
      BY <1>1, <1>2, <1>6, <2>3, KeptRecoverable DEF SetupInv
  <1>10. PhaseInv'
    BY <1>2, <1>4, <1>7 DEF PhaseInv
  <1>11. WizardInv'
    <2> SUFFICES ASSUME run.intact, run.restore PROVE WizardInv'
      BY <1>2 DEF WizardInv
    <2>1. /\ run.key \in Keys /\ run.script = "wizard"
          /\ backup.here /\ Holds(backup)
          /\ run.preserve /\ run.db => backup.db
      BY <1>2 DEF SetupInv, WizardInv
    <2>2. run.key # NoKey /\ signed[run.key] \in Nat
      BY <1>1, <2>1, PlaceFacts, SetupAssumption DEF TypeInv
    <2>3. backup.pv # NoState /\ node.key = backup.key
      BY <1>2, <1>8, <2>1, <2>2 DEF SetupInv, PhaseInv, Holds, NoState
    <2>4. Holds(written) /\ (run.preserve /\ run.db => written.db)
      BY <1>1, <1>3, <2>1, <2>3 DEF Holds
    <2>5. QED
      BY <1>2, <1>7, <2>1, <2>4 DEF WizardInv, Holds
  <1>12. QED
    BY <1>6, <1>9, <1>10, <1>11 DEF SetupInv

\* The backup, emptied by the move, gets the state back.
LEMMA ReturnStateInv ==
    ASSUME SetupInv, ReturnState
    PROVE  SetupInv'
  <1> DEFINE written == [backup EXCEPT !.pv = node.pv]
  <1>1. TypeInv
    BY DEF SetupInv
  <1>2. /\ pc = "return" /\ pc' = "start"
        /\ UNCHANGED <<running, height, signed, dated, run, created, forgone>>
    BY DEF ReturnState, Step
  <1>3. written \in Directory /\ written.here = backup.here /\ written.key = backup.key
    BY <1>1, PlaceFacts DEF Directory
  <1>4. dir' \in [Places -> Directory] /\ \A p \in Places : dir'[p] = IF p = run.backup THEN written ELSE dir[p]
    <2>1. dir' = [dir EXCEPT ![run.backup] = written]
      BY DEF ReturnState, node, backup
    <2> HIDE DEF written
    <2>2. QED
      BY <1>1, <1>3, <2>1 DEF TypeInv
  <1> HIDE DEF written
  <1>5. TypeInv'
    <2>1. DirOK'
      BY <1>1, <1>3, <1>4 DEF DirOK, TypeInv, backup
    <2>2. created' \in Keys /\ pc' \in Steps /\ pc # "idle" /\ forgone' \subseteq Keys
      BY <1>1, <1>2 DEF TypeInv, Steps
    <2>3. QED
      BY <1>1, <1>2, <2>1, <2>2, TypeStep
  <1>6. node' = node
    BY <1>1, <1>4, PlaceFacts DEF node
  <1>7. Recoverable'
    <2>1. Kept(run.backup)
      <3>1. backup.pv <= 0
        BY <1>2 DEF SetupInv, PhaseInv, NoState
      <3>2. QED
        BY <1>1, <3>1, KeptNothing, PlaceFacts DEF backup
    <2>2. \A p \in Places : Kept(p)
      BY <1>1, <1>4, <2>1, KeptUntouched
    <2>3. QED
      BY <1>1, <1>2, <1>5, <2>2, KeptRecoverable DEF SetupInv
  <1>8. PhaseInv'
    BY <1>2 DEF PhaseInv
  <1>9. WizardInv'
    BY <1>2, <1>6 DEF WizardInv, SetupInv, Holds
  <1>10. QED
    BY <1>5, <1>7, <1>8, <1>9 DEF SetupInv

\* What starting the service does: it fails and leaves everything as it is, or
\* the key and its state stay and the service runs.
LEMMA StartNodeFacts ==
    ASSUME TypeInv, Recoverable, StartNode, forgone' = forgone, signed' = signed
    PROVE  /\ DirOK' /\ created' \in Keys
           /\ running' \in BOOLEAN
           /\ running' => node'.key # NoKey /\ node'.pv # NoState
           /\ \A p \in Places : Kept(p)
           /\ node.key # NoKey => node'.key = node.key /\ node'.pv = node.pv
           /\ node.db => node'.db
  <1> DEFINE written == [LoadOrGenFilePV(node) EXCEPT !.db = TRUE]
  <1>1. CASE Exits(node)
    <2>1. running' = FALSE /\ dir' = dir /\ created' = created
      BY <1>1 DEF StartNode, node
    <2>2. \A p \in Places : Kept(p)
      BY <2>1, KeptUntouched
    <2>3. QED
      BY <2>1, <2>2 DEF TypeInv, DirOK, node
  <1>2. CASE ~Exits(node)
    <2>1. CanGenerate(node) /\ CountKey(node) /\ running' = TRUE
      BY <1>2 DEF StartNode, node
    <2>2. dir' = [dir EXCEPT ![Node] = written]
      BY <1>2 DEF StartNode, node
    <2>3. /\ written \in Directory /\ written.here /\ written.key # NoKey /\ written.db
          /\ node.key # NoKey => written.key = node.key /\ written.pv = node.pv
          /\ node.key = NoKey => written.pv = 0
      BY <2>1, GenerateFacts DEF Directory
    <2>4. created' \in Keys
      BY <2>1, GenerateFacts
    <2> HIDE DEF written
    <2>5. dir' \in [Places -> Directory] /\ \A p \in Places : dir'[p] = IF p = Node THEN written ELSE dir[p]
      BY <2>2, <2>3 DEF TypeInv
    <2>6. node' = written /\ written.pv # NoState
      BY <1>2, <2>3, <2>5, PlaceFacts DEF node, Exits, NoState
    <2>7. DirOK'
      BY <2>3, <2>5 DEF DirOK, TypeInv
    <2>8. Kept(Node)
      <3>1. CASE node.key = NoKey
        BY <3>1, KeptNothing, PlaceFacts DEF node
      <3>2. CASE node.key # NoKey
        <4>1. node.pv \in Int
          BY PlaceFacts, SetupAssumption DEF Directory, NoState
        <4>2. QED
          BY <2>3, <2>5, <3>2, <4>1, PlaceFacts DEF Kept, node
      <3>3. QED
        BY <3>1, <3>2
    <2>9. \A p \in Places : Kept(p)
      BY <2>5, <2>8, KeptUntouched
    <2>10. QED
      BY <2>1, <2>3, <2>4, <2>6, <2>7, <2>9
  <1>3. QED
    BY <1>1, <1>2

\* The last step of the wizard starts the service or leaves the node alone.
LEMMA FinishWizardInv ==
    ASSUME SetupInv, FinishWizard
    PROVE  /\ SetupInv'
           /\ node.key # NoKey => node'.key = node.key /\ node'.pv = node.pv
           /\ node.db => node'.db
  <1>1. TypeInv /\ Recoverable
    BY DEF SetupInv
  <1>2. /\ pc = "start" /\ pc' = "idle"
        /\ UNCHANGED <<height, signed, dated, run, forgone>>
    BY DEF FinishWizard, Step
  <1>3. /\ DirOK' /\ created' \in Keys
        /\ running' \in BOOLEAN
        /\ running' => node'.key # NoKey /\ node'.pv # NoState
        /\ \A p \in Places : Kept(p)
        /\ node.key # NoKey => node'.key = node.key /\ node'.pv = node.pv
        /\ node.db => node'.db
    <2>1. CASE run.start
      <3>1. StartNode
        BY <2>1 DEF FinishWizard
      <3>2. QED
        BY <1>1, <1>2, <3>1, StartNodeFacts
    <2>2. CASE ~run.start
      <3>1. UNCHANGED <<dir, running, created>>
        BY <2>2 DEF FinishWizard
      <3>2. \A p \in Places : Kept(p)
        BY <1>1, <3>1, KeptUntouched
      <3>3. QED
        BY <1>1, <1>2, <3>1, <3>2 DEF TypeInv, DirOK, node
    <2>3. QED
      BY <2>1, <2>2
  <1>4. TypeInv'
    BY <1>1, <1>2, <1>3 DEF TypeInv, DirOK, Steps
  <1>5. Recoverable'
    BY <1>1, <1>2, <1>3, <1>4, KeptRecoverable
  <1>6. PhaseInv' /\ WizardInv'
    BY <1>2 DEF PhaseInv, WizardInv
  <1>7. QED
    BY <1>3, <1>4, <1>5, <1>6 DEF SetupInv

\* The operator, or the machine, starts the service.
LEMMA OperatorStartsInv ==
    ASSUME SetupInv, OperatorStarts
    PROVE  SetupInv'
  <1>1. TypeInv /\ Recoverable /\ StartNode
    BY DEF SetupInv, OperatorStarts
  <1>2. pc = "idle" /\ UNCHANGED <<height, signed, dated, pc, run, forgone>>
    BY DEF OperatorStarts
  <1>3. /\ DirOK' /\ created' \in Keys
        /\ running' \in BOOLEAN
        /\ running' => node'.key # NoKey /\ node'.pv # NoState
        /\ \A p \in Places : Kept(p)
    BY <1>1, <1>2, StartNodeFacts
  <1>4. TypeInv'
    BY <1>1, <1>2, <1>3 DEF TypeInv, DirOK, Steps
  <1>5. Recoverable'
    BY <1>1, <1>2, <1>3, <1>4, KeptRecoverable
  <1>6. PhaseInv' /\ WizardInv'
    BY <1>2 DEF PhaseInv, WizardInv
  <1>7. QED
    BY <1>4, <1>5, <1>6 DEF SetupInv

\* The node signs with the key and notes the height in the state next to it.
LEMMA SignInv ==
    ASSUME SetupInv, Sign
    PROVE  SetupInv'
  <1> DEFINE written == [node EXCEPT !.pv = height']
  <1>1. TypeInv
    BY DEF SetupInv
  <1>2. /\ running /\ pc = "idle" /\ node.key \in Keys
        /\ height' = height + 1 /\ height' \in 0..MaxHeight
    <2>1. running /\ height < MaxHeight /\ height' = height + 1
      BY DEF Sign
    <2>2. pc = "idle" /\ node.key # NoKey
      BY <1>1, <2>1 DEF TypeInv
    <2>3. node.key \in Keys
      BY <1>1, <2>2, PlaceFacts DEF Directory
    <2>4. height' \in 0..MaxHeight
      BY <1>1, <2>1, SetupAssumption DEF TypeInv
    <2>5. QED
      BY <2>1, <2>2, <2>3, <2>4
  <1>3. UNCHANGED <<running, created, dated, pc, run, runs, forgone>>
    BY DEF Sign
  <1>4. written \in Directory /\ written.here = node.here /\ written.key = node.key /\ written.pv = height'
    BY <1>1, <1>2, PlaceFacts DEF Directory
  <1>5. dir' \in [Places -> Directory] /\ \A p \in Places : dir'[p] = IF p = Node THEN written ELSE dir[p]
    <2>1. dir' = [dir EXCEPT ![Node] = written]
      BY DEF Sign, node
    <2> HIDE DEF written
    <2>2. QED
      BY <1>1, <1>4, <2>1 DEF TypeInv
  <1>6. /\ signed' \in [Keys -> 0..height']
        /\ \A key \in Keys : signed'[key] = IF key = node.key THEN height' ELSE signed[key]
    BY <1>1, <1>2, SetupAssumption DEF Sign, TypeInv, node
  <1> HIDE DEF written
  <1>7. node' = written /\ written.pv # NoState
    BY <1>1, <1>2, <1>4, <1>5, PlaceFacts DEF node, NoState
  <1>8. TypeInv'
    BY <1>1, <1>2, <1>3, <1>4, <1>5, <1>6, <1>7 DEF TypeInv, node
  <1>9. Recoverable'
    <2> SUFFICES ASSUME NEW key \in Keys, signed'[key] > 0, key \notin forgone'
                 PROVE  \E p \in Places : dir'[p].key = key /\ dir'[p].pv >= signed'[key]
      BY DEF Recoverable
    <2>1. CASE key = node.key
      BY <1>1, <1>2, <1>4, <1>6, <1>7, <2>1, PlaceFacts DEF node
    <2>2. CASE key # node.key
      <3>1. PICK p \in Places : dir[p].key = key /\ dir[p].pv >= signed[key]
        BY <1>3, <1>6, <2>2 DEF SetupInv, Recoverable
      <3>2. QED
        BY <1>5, <1>6, <2>2, <3>1 DEF node
    <2>3. QED
      BY <2>1, <2>2
  <1>10. PhaseInv' /\ WizardInv'
    BY <1>2, <1>3 DEF PhaseInv, WizardInv
  <1>11. QED
    BY <1>8, <1>9, <1>10 DEF SetupInv
-----------------------------------------------------------------------------
(* The beginning and the end of a script.                                  *)

\* A script begins: the service is stopped and what the node is like is noted.
LEMMA BeginInv ==
    ASSUME SetupInv, NEW options \in Options, NEW step \in Steps, Begin(options, step),
           dated' \in {0} \cup Backups,
           step \in {"rsync", "init", "replace"} \/ (step = "remove" /\ ~node.here),
           step = "init" => options.script = "quick",
           options.restore => options.script = "wizard" /\ (node.here => step = "rsync")
    PROVE  SetupInv'
  <1> DEFINE noted == [options EXCEPT !.intact = Intact(node), !.key = node.key, !.db = node.db]
  <1>1. TypeInv
    BY DEF SetupInv
  <1>2. /\ pc' = step /\ running' = FALSE
        /\ UNCHANGED <<dir, height, signed, created, forgone>>
    BY DEF Begin
  <1>3. run' = noted
    BY DEF Begin, node
  <1>4. Intact(node) \in BOOLEAN
    BY DEF Intact
  <1>5. /\ noted \in Options /\ noted.script = options.script /\ noted.restore = options.restore
        /\ noted.intact = Intact(node) /\ noted.key = node.key /\ noted.db = node.db
    BY <1>1, <1>4, PlaceFacts DEF Options, Directory
  <1> HIDE DEF noted
  <1>6. TypeInv'
    BY <1>1, <1>2, <1>3, <1>5 DEF TypeInv
  <1>7. Recoverable'
    BY <1>2 DEF SetupInv, Recoverable
  <1>8. node' = node /\ (~node.here => node.key = NoKey)
    BY <1>1, <1>2, PlaceFacts DEF node, TypeInv
  <1>9. PhaseInv'
    BY <1>2, <1>3, <1>5, <1>8 DEF PhaseInv
  <1>10. WizardInv'
    <2> SUFFICES ASSUME Intact(node), options.restore PROVE WizardInv'
      BY <1>3, <1>5 DEF WizardInv
    <2>1. node.key # NoKey /\ node.pv >= signed[node.key] /\ step = "rsync"
      BY <1>8 DEF Intact
    <2>2. node.key \in Keys
      BY <1>1, <2>1, PlaceFacts DEF Directory
    <2>3. QED
      BY <1>2, <1>3, <1>5, <1>8, <2>1, <2>2 DEF WizardInv, Holds
  <1>11. QED
    BY <1>6, <1>7, <1>9, <1>10 DEF SetupInv

\* Each script begins so.
LEMMA ScriptsInv ==
    ASSUME SetupInv,
           \/ \E b \in Backups \cup {Static}, preserve, restore, start \in BOOLEAN :
                Wizard(b, preserve, restore, start)
           \/ \E b \in Backups \cup {Static}, preserve, copy \in BOOLEAN :
                CreateBackup(b, preserve, copy)
           \/ QuickSetup \/ Upgrade
    PROVE  SetupInv'
  <1>1. NoRun \in Options /\ NoRun.restore = FALSE
    BY DEF NoRun, Options
  <1>2. dated \in {0} \cup Backups
    BY DEF SetupInv, TypeInv
  <1>3. ASSUME NEW b \in Backups \cup {Static}, NEW preserve \in BOOLEAN, NEW restore \in BOOLEAN,
               NEW start \in BOOLEAN, Wizard(b, preserve, restore, start)
        PROVE  SetupInv'
    <2> DEFINE options == [NoRun EXCEPT !.script = "wizard", !.backup = b, !.preserve = preserve,
                                        !.restore = restore, !.start = start]
               step == IF node.here THEN "rsync" ELSE "remove"
    <2>1. options \in Options /\ options.script = "wizard"
      BY <1>1 DEF Options
    <2>2. Begin(options, step) /\ dated' \in {0} \cup Backups
      BY <1>2, <1>3 DEF Wizard, Named, node
    <2>3. step \in Steps /\ (node.here => step = "rsync") /\ (~node.here => step = "remove")
      BY DEF Steps
    <2> HIDE DEF options, step
    <2>4. QED
      BY <2>1, <2>2, <2>3, BeginInv
  <1>4. ASSUME NEW b \in Backups \cup {Static}, NEW preserve \in BOOLEAN, NEW copy \in BOOLEAN,
               CreateBackup(b, preserve, copy)
        PROVE  SetupInv'
    <2> DEFINE options == [NoRun EXCEPT !.script = "create", !.backup = b, !.preserve = preserve,
                                        !.copy = copy]
    <2>1. options \in Options /\ options.restore = FALSE
      BY <1>1 DEF Options
    <2>2. Begin(options, "rsync") /\ dated' \in {0} \cup Backups
      BY <1>2, <1>4 DEF CreateBackup, Named
    <2> HIDE DEF options
    <2>3. QED
      BY <2>1, <2>2, BeginInv DEF Steps
  <1>5. CASE QuickSetup
    <2> DEFINE options == [NoRun EXCEPT !.script = "quick"]
    <2>1. options \in Options /\ options.script = "quick" /\ options.restore = FALSE
      BY <1>1 DEF Options
    <2>2. Begin(options, "init") /\ dated' \in {0} \cup Backups
      BY <1>2, <1>5 DEF QuickSetup
    <2> HIDE DEF options
    <2>3. QED
      BY <2>1, <2>2, BeginInv DEF Steps
  <1>6. CASE Upgrade
    <2> DEFINE options == [NoRun EXCEPT !.script = "upgrade"]
    <2>1. options \in Options /\ options.restore = FALSE
      BY <1>1 DEF Options
    <2>2. Begin(options, "replace") /\ dated' \in {0} \cup Backups
      BY <1>2, <1>6 DEF Upgrade
    <2> HIDE DEF options
    <2>3. QED
      BY <2>1, <2>2, BeginInv DEF Steps
  <1>7. QED
    BY <1>3, <1>4, <1>5, <1>6

\* The upgrade removes a node when there is another to take its place, and gives
\* up the key of the one it removes.
LEMMA RemoveReplacedInv ==
    ASSUME SetupInv, RemoveReplaced
    PROVE  SetupInv'
  <1>1. TypeInv
    BY DEF SetupInv
  <1>2. /\ pc = "replace" /\ pc' = IF dir[Old].here THEN "rename" ELSE "idle"
        /\ UNCHANGED <<running, height, signed, dated, run, created>>
        /\ forgone' = forgone \cup (IF dir[Old].here THEN {node.key} \ {NoKey} ELSE {})
    BY DEF RemoveReplaced, Step, node
  <1>3. \A p \in Places : dir'[p] = IF p = Node /\ dir[Old].here THEN Missing ELSE dir[p]
    BY <1>1 DEF RemoveReplaced, TypeInv
  <1>4. TypeInv'
    <2>1. DirOK'
      BY <1>1, <1>3, PlaceFacts DEF DirOK, TypeInv, RemoveReplaced, Missing
    <2>2. created' \in Keys /\ pc' \in Steps /\ pc # "idle"
      BY <1>1, <1>2 DEF TypeInv, Steps
    <2>3. forgone' \subseteq Keys
      BY <1>1, <1>2, PlaceFacts DEF TypeInv, Directory
    <2>4. QED
      BY <1>1, <1>2, <2>1, <2>2, <2>3, TypeStep
  <1>5. Recoverable'
    <2>1. Kept(Node)
      <3>1. CASE ~dir[Old].here
        BY <1>1, <1>3, <3>1, KeptUntouched, PlaceFacts
      <3>2. CASE node.key = NoKey
        BY <1>1, <3>2, KeptNothing, PlaceFacts DEF node
      <3>3. CASE dir[Old].here /\ node.key # NoKey
        BY <1>2, <3>3 DEF Kept, node
      <3>4. QED
        BY <3>1, <3>2, <3>3
    <2>2. \A p \in Places : Kept(p)
      BY <1>1, <1>3, <2>1, KeptUntouched
    <2>3. QED
      BY <1>1, <1>2, <1>4, <2>2, KeptRecoverable DEF SetupInv
  <1>6. PhaseInv'
    BY <1>1, <1>2, <1>3, PlaceFacts DEF PhaseInv, node
  <1>7. WizardInv'
    BY <1>2 DEF WizardInv, SetupInv
  <1>8. QED
    BY <1>4, <1>5, <1>6, <1>7 DEF SetupInv

\* The old directory takes the place that has been made free.
LEMMA RenameOldInv ==
    ASSUME SetupInv, RenameOld
    PROVE  SetupInv'
  <1>1. TypeInv
    BY DEF SetupInv
  <1>2. /\ pc = "rename" /\ pc' = "idle"
        /\ UNCHANGED <<running, height, signed, dated, run, created, forgone>>
    BY DEF RenameOld, Step
  <1>3. \A p \in Places : dir'[p] = IF p = Node THEN dir[Old] ELSE IF p = Old THEN Missing ELSE dir[p]
    BY <1>1, PlaceFacts DEF RenameOld, TypeInv
  <1>4. TypeInv'
    <2>1. DirOK'
      BY <1>1, <1>3, PlaceFacts DEF DirOK, TypeInv, RenameOld, Missing
    <2>2. created' \in Keys /\ pc' \in Steps /\ pc # "idle" /\ forgone' \subseteq Keys
      BY <1>1, <1>2 DEF TypeInv, Steps
    <2>3. QED
      BY <1>1, <1>2, <2>1, <2>2, TypeStep
  <1>5. Recoverable'
    <2>1. Kept(Node)
      <3>1. node = Missing
        BY <1>2 DEF SetupInv, PhaseInv
      <3>2. QED
        BY <1>1, <3>1, KeptNothing, PlaceFacts DEF node, Missing
    <2>2. Kept(Old)
      <3>1. dir[Old].pv \in Int
        BY <1>1, PlaceFacts, SetupAssumption DEF Directory, NoState
      <3>2. QED
        BY <1>1, <1>3, <3>1, PlaceFacts DEF Kept
    <2>3. \A p \in Places : Kept(p)
      BY <1>1, <1>3, <2>1, <2>2, KeptUntouched
    <2>4. QED
      BY <1>1, <1>2, <1>4, <2>3, KeptRecoverable DEF SetupInv
  <1>6. PhaseInv' /\ WizardInv'
    BY <1>2 DEF PhaseInv, WizardInv
  <1>7. QED
    BY <1>4, <1>5, <1>6 DEF SetupInv

\* A script that ends early leaves things as they are, or, in the middle of
\* rm -rf, some of what the backup has.
LEMMA InterruptInv ==
    ASSUME SetupInv, Interrupt
    PROVE  SetupInv'
  <1>1. TypeInv
    BY DEF SetupInv
  <1>2. /\ pc # "idle" /\ pc' = "idle"
        /\ UNCHANGED <<running, height, signed, dated, run, created, forgone>>
    BY DEF Interrupt
  <1>3. CASE UNCHANGED dir
    <2>1. TypeInv'
      BY <1>1, <1>2, <1>3 DEF TypeInv, Steps, node
    <2>2. Recoverable'
      BY <1>2, <1>3 DEF SetupInv, Recoverable
    <2>3. PhaseInv' /\ WizardInv'
      BY <1>2 DEF PhaseInv, WizardInv
    <2>4. QED
      BY <2>1, <2>2, <2>3 DEF SetupInv
  <1>4. CASE ~UNCHANGED dir
    <2>1. PICK key \in {NoKey, node.key}, pv \in {NoState, node.pv}, db \in BOOLEAN :
            /\ pc = "remove"
            /\ dir' = [dir EXCEPT ![Node] = [@ EXCEPT !.key = key, !.pv = pv, !.db = db]]
      BY <1>4 DEF Interrupt, node
    <2> DEFINE left == [node EXCEPT !.key = key, !.pv = pv, !.db = db]
    <2>2. left \in Directory /\ left.here = node.here /\ left.key \in {NoKey, node.key}
      BY <1>1, <2>1, PlaceFacts DEF Directory
    <2>3. dir' = [dir EXCEPT ![Node] = left]
      BY <2>1 DEF node
    <2> HIDE DEF left
    <2>4. dir' \in [Places -> Directory] /\ \A p \in Places : dir'[p] = IF p = Node THEN left ELSE dir[p]
      BY <1>1, <2>2, <2>3 DEF TypeInv
    <2>5. TypeInv'
      <3>1. DirOK'
        BY <1>1, <2>2, <2>4 DEF DirOK, TypeInv, node
      <3>2. created' \in Keys /\ pc' \in Steps /\ forgone' \subseteq Keys
        BY <1>1, <1>2 DEF TypeInv, Steps
      <3>3. QED
        BY <1>1, <1>2, <3>1, <3>2, TypeStep
    <2>6. Kept(Node)
      <3>1. CASE node.key = NoKey
        BY <1>1, <3>1, KeptNothing, PlaceFacts DEF node
      <3>2. CASE node.key # NoKey
        <4>1. backup.key = node.key /\ backup.pv >= node.pv
          BY <2>1, <3>2 DEF SetupInv, PhaseInv
        <4>2. dir'[run.backup] = backup /\ run.backup \in Places
          BY <1>1, <2>4, PlaceFacts DEF backup
        <4>3. QED
          BY <4>1, <4>2 DEF Kept, node
      <3>3. QED
        BY <3>1, <3>2
    <2>7. \A p \in Places : Kept(p)
      BY <1>1, <2>4, <2>6, KeptUntouched
    <2>8. Recoverable'
      BY <1>1, <1>2, <2>5, <2>7, KeptRecoverable DEF SetupInv
    <2>9. PhaseInv' /\ WizardInv'
      BY <1>2 DEF PhaseInv, WizardInv
    <2>10. QED
      BY <2>5, <2>8, <2>9 DEF SetupInv
  <1>5. QED
    BY <1>3, <1>4
-----------------------------------------------------------------------------
(* The theorems.                                                           *)

\* A node set up once, and no script running.
LEMMA SetupInvInit == Init => SetupInv
  <1> SUFFICES ASSUME Init PROVE SetupInv
    OBVIOUS
  <1> DEFINE first == [here |-> TRUE, key |-> 1, pv |-> 0, db |-> TRUE]
  <1>1. first \in Directory /\ Missing \in Directory
    BY SetupAssumption DEF Directory, Missing
  <1>2. PICK place \in {Node, Old} : dir = [p \in Places |-> IF p = place THEN first ELSE Missing]
    BY DEF Init
  <1>3. first.here /\ first.key = 1 /\ first.pv = 0 /\ Missing.key = NoKey /\ Missing.here = FALSE
    BY DEF Missing
  <1> HIDE DEF first
  <1>4. NoRun \in Options /\ NoKey # 1 /\ NoState # 0 /\ Node \in Places
    BY DEF NoRun, Options, NoKey, NoState, Places
  <1>5. dir \in [Places -> Directory] /\ \A p \in Places : dir[p] \in {first, Missing}
    BY <1>1, <1>2
  <1>6. running \in BOOLEAN /\ (running => node = first)
    <2>1. node \in {first, Missing} /\ running = node.here
      BY <1>4, <1>5 DEF Init, node
    <2>2. QED
      BY <1>3, <2>1
  <1>7. TypeInv
    <2>1. \A p \in Places : ~dir[p].here => dir[p].key = NoKey
      BY <1>3, <1>5
    <2>2. running => node.key # NoKey /\ node.pv # NoState
      BY <1>3, <1>4, <1>6
    <2>3. height \in 0..MaxHeight /\ signed \in [Keys -> 0..height]
      BY SetupAssumption DEF Init
    <2>4. created \in Keys /\ dated \in {0} \cup Backups /\ pc = "idle" /\ forgone \subseteq Keys /\ run = NoRun
      BY SetupAssumption DEF Init
    <2>5. QED
      BY <1>4, <1>5, <1>6, <2>1, <2>2, <2>3, <2>4 DEF TypeInv, Steps
  <1>8. Recoverable /\ PhaseInv /\ WizardInv
    BY DEF Init, Recoverable, PhaseInv, WizardInv
  <1>9. QED
    BY <1>7, <1>8 DEF SetupInv

\* Every step of the node, of a script and of its interruption.
LEMMA SetupInvNext == SetupInv /\ [Next]_vars => SetupInv'
  <1> SUFFICES ASSUME SetupInv, [Next]_vars PROVE SetupInv'
    OBVIOUS
  <1>1. CASE UNCHANGED vars
    <2>1. node' = node /\ backup' = backup
      BY <1>1 DEF vars, node, backup
    <2>2. TypeInv'
      BY <1>1, <2>1 DEF vars, SetupInv, TypeInv
    <2>3. PhaseInv' /\ Recoverable' /\ WizardInv'
      BY <1>1, <2>1 DEF vars, SetupInv, PhaseInv, Recoverable, WizardInv, Holds
    <2>4. QED
      BY <2>2, <2>3 DEF SetupInv
  <1>2. QED
    BY <1>1, OperatorStartsInv, SignInv, ScriptsInv, RsyncInv, RemakeDataInv, SaveDataInv,
       RemoveNodeInv, RestoreConfigInv, InitNodeInv, ResetNodeInv, RestoreDataInv, ReturnStateInv,
       FinishWizardInv, RemoveReplacedInv, RenameOldInv, InterruptInv, Zenon
    DEF Next

\* A running node always has its key and a signing state.
THEOREM TypeCorrect == Spec => []TypeOK
  <1>1. SetupInv => TypeOK
    BY DEF SetupInv, TypeInv, TypeOK, Directory, node
  <1>2. QED
    BY <1>1, SetupInvInit, SetupInvNext, PTL DEF Spec

\* However the scripts are mixed and interrupted, no key that has signed is left
\* without a signing state that knows of it, unless the key was given up.
THEOREM AlwaysRecoverable == Spec => []Recoverable
  <1>1. SetupInv => Recoverable
    BY DEF SetupInv
  <1>2. QED
    BY <1>1, SetupInvInit, SetupInvNext, PTL DEF Spec

\* A wizard that gets to its end gives an intact node back key and state.
THEOREM AlwaysRestoresSigningState == Spec => RestoresSigningState
  <1>1. SetupInv /\ [Next]_vars =>
          (pc = "start" /\ pc' = "idle" /\ run.intact /\ run.restore =>
            /\ dir'[Node].key = run.key
            /\ dir'[Node].pv >= signed[run.key]
            /\ run.preserve /\ run.db => dir'[Node].db)
    <2> SUFFICES ASSUME SetupInv, [Next]_vars,
                        pc = "start", pc' = "idle", run.intact, run.restore
                 PROVE  /\ node'.key = run.key
                        /\ node'.pv >= signed[run.key]
                        /\ run.preserve /\ run.db => node'.db
      BY DEF node
    <2>1. Holds(node) /\ (run.preserve /\ run.db => node.db) /\ run.key \in Keys
      BY DEF SetupInv, WizardInv
    <2>2. node.key # NoKey
      BY <2>1, PlaceFacts DEF SetupInv, Holds
    <2>3. CASE FinishWizard
      BY <2>1, <2>2, <2>3, FinishWizardInv DEF Holds
    <2>4. CASE Interrupt
      <3>1. node' = node
        BY <2>4 DEF Interrupt, node
      <3>2. QED
        BY <2>1, <3>1 DEF Holds
    <2>5. FinishWizard \/ Interrupt
      BY DEF Next, vars, OperatorStarts, Sign, Wizard, CreateBackup, QuickSetup, Upgrade, Begin,
             Step, Rsync, RemakeData, SaveData, RemoveNode, RestoreConfig, InitNode, ResetNode,
             RestoreData, ReturnState, RemoveReplaced, RenameOld
    <2>6. QED
      BY <2>3, <2>4, <2>5
  <1>2. QED
    BY <1>1, SetupInvInit, SetupInvNext, PTL DEF Spec, RestoresSigningState
=============================================================================
