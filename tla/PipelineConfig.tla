--------------------------- MODULE PipelineConfig ---------------------------
(***************************************************************************)
(* Which tasks a slave supports: the thread of src/pipeline.cpp that looks *)
(* at cfg/task.json every 3 seconds and reads it when its size has         *)
(* changed, while an administrator replaces the file at any moment.        *)
(***************************************************************************)
EXTENDS Naturals, FiniteSets, Sequences, SequencesExt, SeqFilter

CONSTANTS
  PlTask,    \* task names, numbers in their order in std::map
  PlFile     \* the contents task.json may be given, one after the other:
             \* records of size, whether it can be read, and the names in it

\* Two contents never have one size: the thread compares nothing else.
ASSUME PlSizesDiffer ==
  \A f, g \in PlFile : f.size = g.size => f = g

\* An empty file names no task.
ASSUME PlFileAssumption ==
  /\ PlTask \subseteq Nat
  /\ \A f \in PlFile : /\ f.size \in Nat /\ f.names \subseteq PlTask
                       /\ f.size = 0 => f.names = {}

VARIABLES
  plFile,    \* the content of task.json, and the contents it has had
  plCfg,     \* the configuration of each task: good, bad or unreadable
  algs,      \* alg_vec
  pl         \* AlgThread: where it stands and its locals

plVars == <<plFile, plCfg, algs, pl>>

PlInitial(on) ==
  /\ plFile \in [now : PlFile, had : {{}}]
  /\ plCfg \in [PlTask -> {"good", "bad", "missing"}]
  /\ algs = <<>>
  /\ pl = [at |-> IF on THEN "poll" ELSE "off", size |-> 0, last |-> 0,
           map |-> {}, todo |-> {}, whole |-> TRUE]
  /\ ~on => plFile.now = (CHOOSE f \in PlFile : TRUE) /\ plCfg = [t \in PlTask |-> "good"]

PlKeeps == UNCHANGED <<plFile, plCfg>>

\* external: the administrator puts another file in its place.
PlEdit ==
  /\ pl.at # "off"
  /\ \E f \in PlFile \ (plFile.had \cup {plFile.now}) :
       plFile' = [now |-> f, had |-> plFile.had \cup {plFile.now}]
  /\ UNCHANGED <<plCfg, algs, pl>>

\* AlgThread compares the size with the one it has seen.
PlPoll ==
  /\ pl.at = "poll"
  /\ pl' = [pl EXCEPT !.size = plFile.now.size,
                      !.at = IF plFile.now.size # pl.last THEN "read" ELSE "poll"]
  /\ UNCHANGED algs /\ PlKeeps

\* UpdateTask: the names and configurations of the file.
PlRead ==
  /\ pl.at = "read"
  /\ pl' = IF plFile.now.ok
           THEN [pl EXCEPT !.at = "add", !.map = plFile.now.names,
                           !.todo = plFile.now.names, !.whole = TRUE]
           ELSE [pl EXCEPT !.at = "keep", !.whole = FALSE]
  /\ UNCHANGED algs /\ PlKeeps

\* GetAlgTask, which other threads call too (TaskParams::Start).
Supported(n) == n \in Range(algs)

\* UpdateTaskByConfig, one name: a configuration that cannot be read ends the
\* update, a known task is passed over, and so is one that does not parse.
PlAdd ==
  /\ pl.at = "add" /\ pl.todo # {}
  /\ LET n == CHOOSE x \in pl.todo : \A y \in pl.todo : x <= y
     IN  IF plCfg[n] = "missing"
         THEN pl' = [pl EXCEPT !.at = "keep", !.whole = FALSE] /\ UNCHANGED algs
         ELSE /\ pl' = [pl EXCEPT !.todo = @ \ {n}]
              /\ algs' = IF ~Supported(n) /\ plCfg[n] = "good" THEN Append(algs, n) ELSE algs
  /\ PlKeeps

\* CheckIfDelAlg: remove_if and erase take out the tasks not in the file any more.
PlDel ==
  /\ pl.at = "add" /\ pl.todo = {}
  /\ algs' = Kept(algs, pl.map)
  /\ pl' = [pl EXCEPT !.at = "keep"]
  /\ PlKeeps

\* Mutant: the size is looked up again after the update.
PlSizeAgain == plFile.now.size

\* last_size = size: the size from before the file was read.
PlLastSize == pl.size

PlKeep ==
  /\ pl.at = "keep"
  /\ pl' = [pl EXCEPT !.at = "poll", !.last = PlLastSize]
  /\ UNCHANGED algs /\ PlKeeps

PlNext == PlEdit \/ PlPoll \/ PlRead \/ PlAdd \/ PlDel \/ PlKeep

PlSpec == (\E on \in BOOLEAN : PlInitial(on)) /\ [][PlNext]_plVars

-----------------------------------------------------------------------------
(* Properties *)

\* When AlgThread has nothing left to do, the supported tasks are the ones of
\* the file as it is now whose configuration parses, each once, whenever the
\* file was replaced - between the look at its size and its reading too.
\* (After a file or a configuration that cannot be read the size counts as
\* seen and nothing is deleted: see README.)
PlSupportsTheFile ==
  pl.at = "poll" /\ pl.last = plFile.now.size /\ pl.whole =>
    /\ Range(algs) = {n \in plFile.now.names : plCfg[n] = "good"}
    /\ Len(algs) = Cardinality(Range(algs))
=============================================================================
