------------------------------ MODULE FrozenModel ------------------------------
(***************************************************************************)
(* The frozen serving model: a process mines (app/server.py, main), writes *)
(* what its Lab serves to a new file (serving_model, write_serving_model), *)
(* and scorers load the file at any later time, a replaced scorer again    *)
(* (_load_serving_model).  Processes end at any step; a loss of power      *)
(* takes a file that the directory does not hold yet; an operator removes  *)
(* a file to publish another under its name, or damages one.               *)
(*                                                                         *)
(* A model is its rules and its configuration, and stands for the digest   *)
(* of its content.  What mining finds is new: rules are counted.           *)
(***************************************************************************)
EXTENDS Naturals, FiniteSets

CONSTANTS
    Process,     \* operating-system processes, each runs one command line
    Path,        \* model files
    Setup,     \* configurations
    DefaultSetup, NoSetup, NoPath,
    MaxMinings,  \* bound: times that any process mines
    MaxMishaps   \* bound: processes that end, files removed or damaged, power losses

ASSUME FrozenAssumption ==
    /\ DefaultSetup \in Setup /\ NoSetup \notin Setup /\ NoPath \notin Path
    /\ {MaxMinings, MaxMishaps} \subseteq Nat

VARIABLES
    files,      \* what is at each path
    synced,     \* the paths whose directory entry survives a loss of power
    processes,  \* command line, place and Lab of each process
    rulesMined, \* rules found so far
    lives,      \* how often each path was emptied (history)
    sightings,  \* models written to and installed from a life of a path (history)
    mishaps

frozenVars == <<files, synced, processes, rulesMined, lives, sightings, mishaps>>

NoModel == [rules |-> 0, setting |-> DefaultSetup]
\* digest is what the file says of itself, model is what it holds.
File(digest, m) == [digest |-> digest, model |-> m]
NoFile == File(NoModel, NoModel)

\* --workers, --serving-only, --serving-model, --export-serving-model,
\* --export-only and --config-file
CommandLine ==
    [pool : BOOLEAN, frozen : BOOLEAN, load : Path \cup {NoPath}, export : Path \cup {NoPath},
     exportOnly : BOOLEAN, setting : Setup \cup {NoSetup}]

\* What the parser of the command line lets through.
Admitted(line) ==
    /\ line.exportOnly => line.export # NoPath
    /\ line.setting # NoSetup => line.load = NoPath
    /\ line.frozen => line.load # NoPath
    /\ line.pool => line.load # NoPath /\ line.export = NoPath

\* --serving-only and the model of the pool go to each scorer.
ScorerLine(pool) == [pool EXCEPT !.pool = FALSE, !.frozen = TRUE]

AnyLine == CHOOSE line \in CommandLine : ~line.pool /\ line.load = NoPath /\ line.export = NoPath
Free == [at |-> "free", line |-> AnyLine, file |-> NoFile, life |-> 0,
         serves |-> NoModel, reports |-> NoModel]

FrozenInit ==
    /\ files = [f \in Path |-> NoFile] /\ synced = {}
    /\ processes = [p \in Process |-> Free]
    /\ rulesMined = 0 /\ mishaps = 0
    /\ lives = [f \in Path |-> 0] /\ sightings = {}

-----------------------------------------------------------------------------
Started(line) == [Free EXCEPT !.at = "started", !.line = line]

StartProcess(p) ==
    /\ processes[p].at = "free"
    /\ \E line \in CommandLine :
         Admitted(line) /\ processes' = [processes EXCEPT ![p] = Started(line)]
    /\ UNCHANGED <<files, synced, rulesMined, lives, sightings, mishaps>>

\* The pool starts a scorer, for the first time or in place of one that ended.
SpawnScorer(pool, p) ==
    /\ processes[pool].at = "started" /\ processes[pool].line.pool
    /\ processes[p].at = "free"
    /\ processes' = [processes EXCEPT ![p] = Started(ScorerLine(processes[pool].line))]
    /\ UNCHANGED <<files, synced, rulesMined, lives, sightings, mishaps>>

\* The file is read as a whole; without one the process ends.
ReadModel(p) ==
    LET f == processes[p].line.load IN
    /\ processes[p].at = "started" /\ ~processes[p].line.pool /\ f # NoPath
    /\ processes' = [processes EXCEPT ![p] =
                       IF files[f] = NoFile THEN Free
                       ELSE [@ EXCEPT !.at = "read", !.file = files[f], !.life = lives[f]]]
    /\ UNCHANGED <<files, synced, rulesMined, lives, sightings, mishaps>>

Sighting(f, life, m) == [path |-> f, life |-> life, model |-> m]

\* Mutant of InstallModel: the content is not compared with its digest.
InstallAnyModel(p) ==
    LET file == processes[p].file IN
    /\ processes[p].at = "read"
    /\ processes' = [processes EXCEPT ![p] = [@ EXCEPT !.at = "built", !.serves = file.model,
                                                          !.reports = file.digest]]
    /\ sightings' = sightings \cup {Sighting(processes[p].line.load, processes[p].life, file.model)}
    /\ UNCHANGED <<files, synced, rulesMined, lives, mishaps>>

\* Rules and configuration come from the model.  One that its digest does not
\* fit ends the process, before it serves.
InstallModel(p) ==
    LET file == processes[p].file
        fits == file.digest = file.model
    IN
    /\ processes[p].at = "read"
    /\ processes' = [processes EXCEPT ![p] =
                       IF fits THEN [@ EXCEPT !.at = "built", !.serves = file.model,
                                              !.reports = file.digest]
                       ELSE Free]
    /\ sightings' = sightings \cup
         (IF fits THEN {Sighting(processes[p].line.load, processes[p].life, file.model)} ELSE {})
    /\ UNCHANGED <<files, synced, rulesMined, lives, mishaps>>

MinedModel(setting) == [rules |-> rulesMined + 1, setting |-> setting]

\* A process without a model mines one, with the configuration it was given.
MineModel(p) ==
    LET s == processes[p].line.setting IN
    /\ processes[p].at = "started" /\ ~processes[p].line.pool
    /\ processes[p].line.load = NoPath
    /\ rulesMined < MaxMinings /\ rulesMined' = rulesMined + 1
    /\ processes' = [processes EXCEPT ![p] =
                       [@ EXCEPT !.at = "built",
                                 !.serves = MinedModel(IF s = NoSetup THEN DefaultSetup ELSE s)]]
    /\ UNCHANGED <<files, synced, lives, sightings, mishaps>>

\* Mutant of ExportModel: the temporary file is renamed to the target.
ExportOverwrites(p) ==
    LET line == processes[p].line  m == processes[p].serves IN
    /\ processes[p].at = "built" /\ line.export # NoPath
    /\ files' = [files EXCEPT ![line.export] = File(m, m)]
    /\ sightings' = sightings \cup {Sighting(line.export, lives[line.export], m)}
    /\ processes' = [processes EXCEPT ![p] =
                       IF line.exportOnly THEN Free ELSE [@ EXCEPT !.at = "serves"]]
    /\ UNCHANGED <<synced, rulesMined, lives, mishaps>>

\* The content is synced to a file of a name of its own, which is then linked
\* to the target: that refuses one that is there, and ends the process.
ExportModel(p) ==
    LET line == processes[p].line  m == processes[p].serves IN
    /\ processes[p].at = "built" /\ line.export # NoPath
    /\ IF files[line.export] # NoFile
       THEN processes' = [processes EXCEPT ![p] = Free] /\ UNCHANGED <<files, sightings>>
       ELSE /\ files' = [files EXCEPT ![line.export] = File(m, m)]
            /\ sightings' = sightings \cup {Sighting(line.export, lives[line.export], m)}
            /\ processes' = [processes EXCEPT ![p] =
                               IF line.exportOnly THEN Free ELSE [@ EXCEPT !.at = "serves"]]
    /\ UNCHANGED <<synced, rulesMined, lives, mishaps>>

ServeModel(p) ==
    /\ processes[p].at = "built" /\ processes[p].line.export = NoPath
    /\ processes' = [processes EXCEPT ![p].at = "serves"]
    /\ UNCHANGED <<files, synced, rulesMined, lives, sightings, mishaps>>

\* Mutant of MineOn: --serving-only is not asked.
MineOnAnyway(p) ==
    /\ processes[p].at = "serves"
    /\ rulesMined < MaxMinings /\ rulesMined' = rulesMined + 1
    /\ \E s \in Setup : processes' = [processes EXCEPT ![p].serves = MinedModel(s)]
    /\ UNCHANGED <<files, synced, lives, sightings, mishaps>>

\* After events, /api/mine or /api/config the Lab serves another model, and
\* still names the one it started from.  A frozen one refuses.
MineOn(p) ==
    /\ processes[p].at = "serves" /\ ~processes[p].line.frozen
    /\ rulesMined < MaxMinings /\ rulesMined' = rulesMined + 1
    /\ \E s \in Setup : processes' = [processes EXCEPT ![p].serves = MinedModel(s)]
    /\ UNCHANGED <<files, synced, lives, sightings, mishaps>>

-----------------------------------------------------------------------------
(* What happens to processes and files.                                    *)
Mishap == mishaps < MaxMishaps /\ mishaps' = mishaps + 1
Emptied(gone) == [f \in Path |-> IF f \in gone THEN lives[f] + 1 ELSE lives[f]]

\* It is stopped or crashes, at whatever place.
ProcessEnds(p) ==
    /\ processes[p].at # "free" /\ Mishap
    /\ processes' = [processes EXCEPT ![p] = Free]
    /\ UNCHANGED <<files, synced, rulesMined, lives, sightings>>

\* An operator makes room for another model.
RemoveFile(f) ==
    /\ files[f] # NoFile /\ Mishap
    /\ files' = [files EXCEPT ![f] = NoFile]
    /\ synced' = synced \ {f}
    /\ lives' = Emptied({f})
    /\ UNCHANGED <<processes, rulesMined, sightings>>

\* Bits rot, or a rule is edited by hand.
DamageFile(f) ==
    /\ files[f] # NoFile /\ Mishap
    /\ files' = [files EXCEPT ![f].model = NoModel]
    /\ UNCHANGED <<synced, processes, rulesMined, lives, sightings>>

\* The directory is not synced by write_serving_model, only some time later.
DirectorySynced(f) ==
    /\ files[f] # NoFile /\ f \notin synced
    /\ synced' = synced \cup {f}
    /\ UNCHANGED <<files, processes, rulesMined, lives, sightings, mishaps>>

PowerLoss ==
    /\ Mishap
    /\ \E gone \in SUBSET {f \in Path \ synced : files[f] # NoFile} :
         /\ files' = [f \in Path |-> IF f \in gone THEN NoFile ELSE files[f]]
         /\ lives' = Emptied(gone)
    /\ processes' = [p \in Process |-> Free]
    /\ UNCHANGED <<synced, rulesMined, sightings>>

FrozenNext ==
    \/ PowerLoss
    \/ \E f \in Path : RemoveFile(f) \/ DamageFile(f) \/ DirectorySynced(f)
    \/ \E p \in Process :
         \/ StartProcess(p) \/ ReadModel(p) \/ InstallModel(p) \/ MineModel(p)
         \/ ExportModel(p) \/ ServeModel(p) \/ MineOn(p) \/ ProcessEnds(p)
         \/ \E pool \in Process : SpawnScorer(pool, p)

FrozenSpec == FrozenInit /\ [][FrozenNext]_frozenVars

-----------------------------------------------------------------------------
(* A process with --serving-only serves what some process wrote to the file *)
(* it loaded, rules and configuration, and reports the digest of just that, *)
(* whatever happened to the file or is asked of the process since.          *)
FrozenServesWhatWasWritten ==
    \A p \in Process : processes[p].at = "serves" /\ processes[p].line.frozen =>
      /\ processes[p].serves = processes[p].reports
      /\ processes[p].serves # NoModel
      /\ Sighting(processes[p].line.load, processes[p].life, processes[p].serves) \in sightings

(* Until a path is emptied, all who wrote it and all who loaded it, a scorer *)
(* and the one that replaces it among them, mean the same model.            *)
OneModelPerLife ==
    \A s, t \in sightings : s.path = t.path /\ s.life = t.life => s.model = t.model

(* app/server.py:1678-1838, lab_lifecycle.py:1507 "immutable model for      *)
(* scorer startup": the scorers of a pool agree and never serve a model     *)
(* that was damaged, half written, overwritten or mined on.                 *)
FrozenSound == FrozenServesWhatWasWritten /\ OneModelPerLife
=============================================================================
