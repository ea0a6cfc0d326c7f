------------------------------ MODULE NodeSetup ------------------------------
(***************************************************************************)
(* The scripts that set up, back up and upgrade a node (setup/*.sh and     *)
(* utils/backup/create.sh), step by step.  The shell does not stop at a    *)
(* failing command, and a script may be interrupted between any two.       *)
(*                                                                         *)
(* A directory matters for its consensus key, for the last height it       *)
(* signed (priv_validator_state.json) and for its database.  The key and   *)
(* its signing state belong together: whoever runs the key with an older   *)
(* state may sign a height twice.                                          *)
(***************************************************************************)
EXTENDS Integers, FiniteSets

CONSTANTS
    Keys,        \* consensus keys that can be generated, in this order: 1..n
    Backups,     \* time-based names of backup directories: 1..n
    Node,        \* $NODE_DIR, which is .genesis
    Old,         \* .genesisd
    Static,      \* the name given with --backup-dir
    MaxHeight,   \* bound: blocks of the chain
    MaxRuns      \* bound: runs of scripts

NoKey == 0
NoState == -1
Places == {Node, Old, Static} \cup Backups

ASSUME SetupAssumption ==
    /\ Keys = 1..Cardinality(Keys) /\ Backups = 1..Cardinality(Backups)
    /\ 1 \in Keys
    /\ Node # Old /\ Static \notin {Node, Old} /\ Backups \cap {Node, Old, Static} = {}
    /\ MaxHeight \in Nat /\ MaxRuns \in Nat

VARIABLES
    dir,       \* directories: [here, key, pv, db]
    running,   \* the service
    height,    \* of the chain
    signed,    \* the last height signed with a key
    created,   \* keys generated so far
    dated,     \* time-based backup directories so far
    pc,        \* the next step of the script that runs, or "idle"
    run,       \* its options, and what it found
    runs,      \* runs so far
    forgone    \* keys given up: the script said so, or a backup was reused

vars == <<dir, running, height, signed, created, dated, pc, run, runs, forgone>>

Missing == [here |-> FALSE, key |-> NoKey, pv |-> NoState, db |-> FALSE]

\* The key is in use with a signing state that knows all it signed.
Intact(d) == d.key # NoKey /\ d.pv >= signed[d.key]

NoRun == [script |-> "none", backup |-> Static, preserve |-> FALSE, copy |-> FALSE,
          restore |-> FALSE, start |-> FALSE, intact |-> FALSE, key |-> NoKey, db |-> FALSE]

\* A validator's node under the old or the present name of the directory.
Init ==
    /\ \E place \in {Node, Old} :
        dir = [p \in Places |-> IF p = place
                                THEN [here |-> TRUE, key |-> 1, pv |-> 0, db |-> TRUE]
                                ELSE Missing]
    /\ running = dir[Node].here
    /\ height = 0
    /\ signed = [key \in Keys |-> 0]
    /\ created = 1
    /\ dated = 0
    /\ pc = "idle"
    /\ run = NoRun
    /\ runs = 0
    /\ forgone = {}
-----------------------------------------------------------------------------
(* The node.                                                               *)

\* GenFilePV and Save.
Generate(d) == [d EXCEPT !.here = TRUE, !.key = created + 1, !.pv = 0]

\* LoadOrGenFilePV: exits when the key is there and its state is not.
LoadOrGenFilePV(d) == IF d.key = NoKey THEN Generate(d) ELSE d
Exits(d) == d.key # NoKey /\ d.pv = NoState

CanGenerate(d) == d.key = NoKey => created + 1 \in Keys
CountKey(d) == created' = IF d.key = NoKey THEN created + 1 ELSE created

\* resetAll: the data goes, the key stays and its state is that of genesis.
resetAll(d) ==
    IF d.key = NoKey THEN [Generate(d) EXCEPT !.db = FALSE]
    ELSE [d EXCEPT !.pv = 0, !.db = FALSE]

\* systemctl start.
StartNode ==
    LET node == dir[Node]
    IN  IF Exits(node) THEN running' = FALSE /\ UNCHANGED <<dir, created>>
        ELSE /\ CanGenerate(node)
             /\ running' = TRUE
             /\ dir' = [dir EXCEPT ![Node] = [LoadOrGenFilePV(node) EXCEPT !.db = TRUE]]
             /\ CountKey(node)

\* The operator, or the machine as it boots.
OperatorStarts ==
    /\ pc = "idle" /\ ~running
    /\ StartNode
    /\ UNCHANGED <<height, signed, dated, pc, run, runs, forgone>>

Sign ==
    /\ running /\ height < MaxHeight
    /\ height' = height + 1
    /\ dir' = [dir EXCEPT ![Node].pv = height']
    /\ signed' = [signed EXCEPT ![dir[Node].key] = height']
    /\ UNCHANGED <<running, created, dated, pc, run, runs, forgone>>
-----------------------------------------------------------------------------
(* Steps of the scripts.                                                   *)

\* Mutant: the service keeps running.
BeginRunning(options, step) ==
    /\ pc = "idle" /\ runs < MaxRuns
    /\ runs' = runs + 1
    /\ pc' = step
    /\ run' = [options EXCEPT !.intact = Intact(dir[Node]), !.key = dir[Node].key,
                              !.db = dir[Node].db]
    /\ UNCHANGED <<dir, running, height, signed, created, forgone>>

\* Every script stops the service first.
Begin(options, step) ==
    /\ pc = "idle" /\ runs < MaxRuns
    /\ runs' = runs + 1
    /\ pc' = step
    /\ run' = [options EXCEPT !.intact = Intact(dir[Node]), !.key = dir[Node].key,
                              !.db = dir[Node].db]
    /\ running' = FALSE
    /\ UNCHANGED <<dir, height, signed, created, forgone>>

\* The name of the backup directory: a new one, or the one that is given.
Named(backup) ==
    \/ dated + 1 \in Backups /\ backup = dated + 1 /\ dated' = dated + 1
    \/ backup = Static /\ UNCHANGED dated

Wizard(backup, preserve, restore, start) ==
    /\ Begin([NoRun EXCEPT !.script = "wizard", !.backup = backup, !.preserve = preserve,
                           !.restore = restore, !.start = start],
             IF dir[Node].here THEN "rsync" ELSE "remove")
    /\ Named(backup)

CreateBackup(backup, preserve, copy) ==
    /\ dir[Node].here
    /\ Begin([NoRun EXCEPT !.script = "create", !.backup = backup, !.preserve = preserve,
                           !.copy = copy],
             "rsync")
    /\ Named(backup)

QuickSetup == Begin([NoRun EXCEPT !.script = "quick"], "init") /\ UNCHANGED dated
Upgrade == Begin([NoRun EXCEPT !.script = "upgrade"], "replace") /\ UNCHANGED dated

Step(from, to) == pc = from /\ pc' = to /\ UNCHANGED <<height, signed, dated, run, runs>>

\* rsync without data: a key that the directory already holds is overwritten.
Rsync ==
    LET node == dir[Node]
        held == dir[run.backup]
    IN  /\ Step("rsync", "remake")
        /\ dir' = [dir EXCEPT ![run.backup] =
                    [held EXCEPT !.here = TRUE, !.key = IF node.key = NoKey THEN @ ELSE node.key]]
        /\ forgone' = forgone \cup
            (IF NoKey # held.key /\ node.key \notin {NoKey, held.key} THEN {held.key} ELSE {})
        /\ UNCHANGED <<running, created>>

\* rm -r "$BACKUP_DIR"/data and mkdir: what the directory held is deleted.
RemakeData ==
    LET held == dir[run.backup]
    IN  /\ Step("remake", "save")
        /\ dir' = [dir EXCEPT ![run.backup].pv = NoState, ![run.backup].db = FALSE]
        /\ forgone' = forgone \cup
            (IF held.pv > dir[Node].pv \/ (held.pv # NoState /\ held.key # dir[Node].key)
             THEN {held.key} \ {NoKey} ELSE {})
        /\ UNCHANGED <<running, created>>

\* Mutant: the signing state is backed up with the database or not at all.
SaveDatabaseOnly ==
    LET node == dir[Node]
    IN  /\ Step("save", IF run.script = "create" THEN "idle" ELSE "remove")
        /\ dir' = [dir EXCEPT ![run.backup].pv = IF run.preserve THEN node.pv ELSE @,
                              ![run.backup].db = run.preserve /\ node.db,
                              ![Node].pv = IF run.preserve /\ ~run.copy THEN NoState ELSE @,
                              ![Node].db = @ /\ ~(run.preserve /\ ~run.copy)]
        /\ UNCHANGED <<running, created, forgone>>

\* mv or cp of the whole data directory, or cp of the signing state.
SaveData ==
    LET node == dir[Node]
    IN  /\ Step("save", IF run.script = "create" THEN "idle" ELSE "remove")
        /\ dir' = [dir EXCEPT ![run.backup].pv = node.pv,
                              ![run.backup].db = run.preserve /\ node.db,
                              ![Node].pv = IF run.preserve /\ ~run.copy THEN NoState ELSE @,
                              ![Node].db = @ /\ ~(run.preserve /\ ~run.copy)]
        /\ UNCHANGED <<running, created, forgone>>

\* rm -rf $NODE_DIR, of the wizard.
RemoveNode ==
    /\ Step("remove", "config")
    /\ dir' = [dir EXCEPT ![Node] = Missing]
    /\ UNCHANGED <<running, created, forgone>>

\* The files of the backup, without data, unless --no-restore is given or
\* there is no backup.
RestoreConfig ==
    LET backup == dir[run.backup]
    IN  /\ Step("config", "init")
        /\ dir' = IF run.restore /\ backup.here
                  THEN [dir EXCEPT ![Node] = [@ EXCEPT !.here = TRUE, !.key = backup.key]]
                  ELSE dir
        /\ UNCHANGED <<running, created, forgone>>

\* genesisd init -o, which gives up when the key is there without its state.
InitNode ==
    /\ CanGenerate(dir[Node])
    /\ Step("init", "reset")
    /\ dir' = [dir EXCEPT ![Node] = [LoadOrGenFilePV(@) EXCEPT !.here = TRUE]]
    /\ CountKey(dir[Node])
    /\ UNCHANGED <<running, forgone>>

\* genesisd tendermint unsafe-reset-all.  The quick setup resets a node that
\* nothing has backed up.
ResetNode ==
    /\ CanGenerate(dir[Node])
    /\ Step("reset", IF run.script = "quick" THEN "idle" ELSE "data")
    /\ dir' = [dir EXCEPT ![Node] = resetAll(@)]
    /\ CountKey(dir[Node])
    /\ forgone' = forgone \cup (IF run.script = "quick" THEN {dir[Node].key} \ {NoKey} ELSE {})
    /\ UNCHANGED running

\* Mutant: only a database that was preserved comes back.
RestoreDatabaseOnly ==
    LET backup == dir[run.backup]
        restored == run.restore /\ backup.here /\ backup.pv # NoState /\ run.preserve
    IN  /\ Step("data", IF restored THEN "return" ELSE "start")
        /\ dir' = IF restored
                  THEN [dir EXCEPT ![Node].pv = backup.pv, ![Node].db = backup.db,
                                   ![run.backup].pv = NoState, ![run.backup].db = FALSE]
                  ELSE dir
        /\ UNCHANGED <<running, created, forgone>>

\* mv of the backed up data, or cp of the signing state; neither happens when
\* there is nothing to restore.
RestoreData ==
    LET backup == dir[run.backup]
        restored == run.restore /\ backup.here
        found == IF run.preserve THEN backup.pv # NoState \/ backup.db ELSE backup.pv # NoState
    IN  /\ Step("data", IF restored /\ found /\ run.preserve THEN "return" ELSE "start")
        /\ dir' = IF ~(restored /\ found) THEN dir
                  ELSE IF run.preserve
                  THEN [dir EXCEPT ![Node].pv = IF backup.pv = NoState THEN @ ELSE backup.pv,
                                   ![Node].db = backup.db,
                                   ![run.backup].pv = NoState, ![run.backup].db = FALSE]
                  ELSE [dir EXCEPT ![Node].pv = backup.pv]
        /\ UNCHANGED <<running, created, forgone>>

\* "the mv removes the priv_validator_state from the backup, so reintroduce it".
ReturnState ==
    /\ Step("return", "start")
    /\ dir' = [dir EXCEPT ![run.backup].pv = dir[Node].pv]
    /\ UNCHANGED <<running, created, forgone>>

\* The service is installed and, without --no-service and --no-start, started.
FinishWizard ==
    /\ Step("start", "idle")
    /\ IF run.start THEN StartNode ELSE UNCHANGED <<dir, running, created>>
    /\ UNCHANGED forgone

\* upgrade.sh: rm -rf of .genesis and mv of .genesisd, if there is one.
RemoveReplaced ==
    /\ Step("replace", IF dir[Old].here THEN "rename" ELSE "idle")
    /\ dir' = IF dir[Old].here THEN [dir EXCEPT ![Node] = Missing] ELSE dir
    /\ forgone' = forgone \cup (IF dir[Old].here THEN {dir[Node].key} \ {NoKey} ELSE {})
    /\ UNCHANGED <<running, created>>

RenameOld ==
    /\ Step("rename", "idle")
    /\ dir' = [dir EXCEPT ![Node] = dir[Old], ![Old] = Missing]
    /\ UNCHANGED <<running, created, forgone>>

\* A script ends between two commands, or in the middle of rm -rf.
Interrupt ==
    /\ pc # "idle"
    /\ pc' = "idle"
    /\ \/ UNCHANGED dir
       \/ /\ pc = "remove"
          /\ \E key \in {NoKey, dir[Node].key}, pv \in {NoState, dir[Node].pv}, db \in BOOLEAN :
                /\ db => dir[Node].db
                /\ dir' = [dir EXCEPT ![Node] = [@ EXCEPT !.key = key, !.pv = pv, !.db = db]]
    /\ UNCHANGED <<running, height, signed, created, dated, run, runs, forgone>>

Next ==
    \/ OperatorStarts
    \/ Sign
    \/ \E b \in Backups \cup {Static}, preserve, restore, start \in BOOLEAN :
        Wizard(b, preserve, restore, start)
    \/ \E b \in Backups \cup {Static}, preserve, copy \in BOOLEAN : CreateBackup(b, preserve, copy)
    \/ QuickSetup \/ Upgrade
    \/ Rsync \/ RemakeData \/ SaveData \/ RemoveNode
    \/ RestoreConfig \/ InitNode \/ ResetNode \/ RestoreData \/ ReturnState \/ FinishWizard
    \/ RemoveReplaced \/ RenameOld
    \/ Interrupt

Spec == Init /\ [][Next]_vars
-----------------------------------------------------------------------------
(* Properties.                                                             *)

\* A running node has its key and a signing state on disk.
TypeOK ==
    /\ dir \in [Places -> [here : BOOLEAN, key : Keys \cup {NoKey},
                           pv : {NoState} \cup 0..MaxHeight, db : BOOLEAN]]
    /\ running \in BOOLEAN
    /\ running => dir[Node].key # NoKey /\ dir[Node].pv # NoState
    /\ height \in 0..MaxHeight
    /\ signed \in [Keys -> 0..height]
    /\ created \in Keys /\ dated \in {0} \cup Backups
    /\ forgone \subseteq Keys

\* Wherever the scripts are interrupted and in whatever order they are run, a
\* key that has signed is on disk next to a signing state that knows all of it.
\* The exceptions are the ones the scripts give notice of (the quick setup
\* resets, the upgrade replaces a directory) and a backup directory that is
\* used again while it holds another key or a later state.
Recoverable ==
    \A key \in Keys : signed[key] > 0 /\ key \notin forgone =>
        \E p \in Places : dir[p].key = key /\ dir[p].pv >= signed[key]

\* A wizard that starts from an intact node and gets to its end without an
\* interruption gives the node back its key, with a signing state that knows
\* all the key has signed, and with --preserve-db its database.
RestoresSigningState ==
    [][pc = "start" /\ pc' = "idle" /\ run.intact /\ run.restore =>
        /\ dir'[Node].key = run.key
        /\ dir'[Node].pv >= signed[run.key]
        /\ run.preserve /\ run.db => dir'[Node].db]_vars
=============================================================================
