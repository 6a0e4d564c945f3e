----------------------------- MODULE EdgeConfig -----------------------------
(***************************************************************************)
(* The configuration file (pkg/config/config.go).  main loads it, and the  *)
(* program saves what it has filled in: above all the edge id, under which *)
(* the cloud and the service table know the agent.                         *)
(*                                                                         *)
(* Several runs of the program follow each other, each ended by a signal,  *)
(* an error or a crash at any step; the file stays.                        *)
(***************************************************************************)
CONSTANTS Ids,         \* edge ids that GenerateID may yield
          NoId,        \* edge_id is empty
          Missing,     \* there is no file
          Unreadable   \* the file is truncated, or not YAML

\* complete: every setting that has a default is there.
Settings == [id: Ids \cup {NoId}, complete: BOOLEAN, cloud: BOOLEAN, key: BOOLEAN]

ASSUME ConfigAssumption ==
    NoId \notin Ids /\ Missing \notin Settings /\ Unreadable \notin Settings

VARIABLES main,      \* where main is
          file,      \* the configuration file
          cfg,       \* the configuration in memory
          damaged    \* history: the file was lost, or a read of it failed, when an
                     \* edge id was in use

configVars == <<main, file, cfg, damaged>>

Blank == [id |-> NoId, complete |-> FALSE, cloud |-> FALSE, key |-> FALSE]

Off == {"off", "panicked"}

-----------------------------------------------------------------------------

\* What the file gives; the error of reading one that gives nothing is ignored.
Content == IF file \in Settings THEN file ELSE Blank

\* The environment overrides what was read.
Overridden(read, env) == [read EXCEPT !.cloud = @ \/ env.cloud, !.key = @ \/ env.key]

\* Mutant: a new id is not saved unless something else is.
LacksDefaults(c) == ~ c.complete

\* Whether there is something to save: not what the environment has set.
Lacks(c) == c.id = NoId \/ ~ c.complete

\* Mutant: a missing id is left so.
LoadAsIs(inUse) == \E env \in [cloud: BOOLEAN, key: BOOLEAN] :
    /\ main \in Off
    /\ cfg' = [Overridden(Content, env) EXCEPT !.complete = TRUE]
    /\ main' = IF Lacks(Content) THEN "save" ELSE "store"
    /\ UNCHANGED <<file, damaged>>

\* Load and EnsureDefaultConfig.  A new id is not one of those in use.  The
\* error of reading a good file is ignored too: it will be replaced.
Load(inUse) == \E env \in [cloud: BOOLEAN, key: BOOLEAN], read \in {Content, Blank} :
    /\ main \in Off
    /\ \/ read.id # NoId /\ cfg' = [Overridden(read, env) EXCEPT !.complete = TRUE]
       \/ /\ read.id = NoId
          /\ \E i \in Ids \ inUse :
                cfg' = [Overridden(read, env) EXCEPT !.complete = TRUE, !.id = i]
    /\ main' = IF Lacks(read) THEN "save" ELSE "store"
    /\ damaged' = (damaged \/ (read # Content /\ inUse # {}))
    /\ UNCHANGED file

\* Save truncates the file, which may fail, ...
Truncate ==
    /\ main = "save"
    /\ file' = Unreadable
    /\ main' = "write"
    /\ UNCHANGED <<cfg, damaged>>

\* ... and then writes it.
Write ==
    /\ main = "write"
    /\ file' = cfg
    /\ main' = "store"
    /\ UNCHANGED <<cfg, damaged>>

\* The run ends: an exit, a crash, or an error that is fatal, as that of a
\* write is.
Ends(inUse) ==
    /\ cfg' = Blank
    /\ damaged' = (damaged \/ (main = "write" /\ inUse # {}))
    /\ UNCHANGED file

\* A user edits the settings other than the id, or spoils the file.
UserEdits(inUse) ==
    /\ main \in Off \cup {"serve"}
    /\ \/ /\ file \in Settings
          /\ file' \in {s \in Settings : s.id = file.id}
          /\ UNCHANGED damaged
       \/ /\ file' \in {Missing, Unreadable}
          /\ damaged' = (damaged \/ inUse # {})
    /\ UNCHANGED <<main, cfg>>

-----------------------------------------------------------------------------

ConfigInit ==
    /\ main = "off" /\ cfg = Blank /\ damaged = FALSE
    /\ file \in {Missing} \cup Settings

\* The id that the next run will load, or this one is about to save.
Identity == IF main = "write" THEN cfg.id ELSE Content.id
=============================================================================
