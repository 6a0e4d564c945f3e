------------------------------ MODULE HAAddon ------------------------------
(***************************************************************************)
(* UpdateHAConfig, which main starts in the background and the expose      *)
(* handler again at any time: the version of Home Assistant decides        *)
(* between its store (HAStore) and configuration.yaml (HAYaml).            *)
(* The agent may crash and start again at any step.                        *)
(***************************************************************************)
EXTENDS HAYaml

VARIABLES mode,     \* where Home Assistant takes its configuration from
          mapped    \* the add-on sees Home Assistant's directory

vars == <<storeVars, yamlVars, mode, mapped>>

-----------------------------------------------------------------------------

\* The version is read off the disk, or Core is asked for it.
UpdateHAConfig(c) ==
    /\ run[c] \in Resting
    /\ \/ ~ mapped /\ Go(c, "version") /\ UNCHANGED yamlVars
       \/ mapped /\ mode = "store" /\ Go(c, "dial") /\ UNCHANGED yamlVars
       \/ mapped /\ mode = "yaml" /\ StartPatching(c)
    /\ disturbed' = disturbed \ {c}
    /\ UNCHANGED <<coreVars, live, want, expired, mode, mapped>>

\* A directory that is not mapped holds no file to patch.  The time for the
\* next step begins anew.
AskVersion(c) ==
    /\ run[c] = "version"
    /\ \/ /\ core # "down" /\ c \notin expired
          /\ Go(c, IF mode = "store" THEN "dial" ELSE "failed")
          /\ expired' = expired \ {c}
          /\ UNCHANGED <<live, want>>
       \/ GivesUp(c)
    /\ UNCHANGED <<coreVars, disturbed, yamlVars, mode, mapped>>

\* A crash of the agent ends all runs; the files and Core stay as they are.
Crash ==
    /\ Running # {}
    /\ run' = [c \in Callers |-> "idle"]
    /\ live' = {} /\ expired' = {} /\ disturbed' = {}
    /\ want' = [c \in Callers |-> NoConfig]
    /\ copy' = [c \in Callers |-> Unreadable]
    /\ next' = [c \in Callers |-> 1]
    /\ skipped' = {}
    /\ torn' = (torn \/ \E c \in Callers : run[c] = "writeFile")
    /\ UNCHANGED <<coreVars, file, mode, mapped>>

\* What Home Assistant does not use has some fixed value.
Init ==
    /\ StoreInit /\ YamlInit
    /\ mapped \in BOOLEAN
    /\ \/ mode = "store" /\ file = Unreadable
       \/ /\ mode = "yaml" /\ file \in InitFiles
          /\ core = "up" /\ stable = [proxies |-> {}, forwarded |-> FALSE]

Continue(c) == \/ AskVersion(c)
               \/ StoreRun(c) /\ UNCHANGED <<yamlVars, mode, mapped>>
               \/ YamlRun(c) /\ UNCHANGED <<mode, mapped>>

Next == \/ \E c \in Callers : UpdateHAConfig(c) \/ Continue(c)
        \/ mode = "store" /\ CoreNext /\ UNCHANGED <<yamlVars, mode, mapped>>
        \/ Crash

Spec == Init /\ [][Next]_vars

\* The Go scheduler runs every caller, and its timer ends.
LiveSpec == /\ Spec
            /\ \A c \in Callers : WF_vars(Continue(c)) /\ WF_vars(Expire(c) /\ UNCHANGED <<yamlVars, mode, mapped>>)

-----------------------------------------------------------------------------
(* Properties *)

HATypeOK == /\ StoreTypeOK /\ YamlTypeOK
            /\ mode \in {"store", "yaml"} /\ mapped \in BOOLEAN

\* When callers have patched the file at the same time, each overwriting what
\* the other wrote since it read, the file still ends with every subnet, as
\* long as their writes did not mix: "trusts each subnet through
\* configuration.yaml".  Two subnets withstand it, as every copy that is written
\* has the first; from three on, two callers can lose one (run ha_yaml_race).
FileEndsTrusted ==
    mode = "yaml" /\ ~ torn /\ (\A c \in Callers : run[c] \notin Patching)
        => \A c \in Callers : run[c] = "ok" => FileTrusts(file)
=============================================================================
