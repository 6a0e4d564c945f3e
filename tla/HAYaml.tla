------------------------------- MODULE HAYaml -------------------------------
(***************************************************************************)
(* The Home Assistant add-on and configuration.yaml, where Home Assistant  *)
(* was configured up to 2026.7 (pkg/haaddon/config.go).  A caller of       *)
(* HAStore reads the file, patches it and writes it back, once for each    *)
(* subnet.  The rest of the file is carried along and left out, and so is  *)
(* its layout but for neat: whether the add-on laid it out.                *)
(***************************************************************************)
EXTENDS HAStore, Naturals, Sequences

CONSTANTS SubnetList,   \* the subnets in the order in which they are added
          Scalar,       \* a trusted_proxies that is not a list: one address,
                        \* or an !include
          Unreadable,   \* a file that is truncated, or not YAML
          InitFiles     \* the files a user may have

\* The http section.  A mapping may have trusted_proxies more than once.
Files == [http: {"absent", "mapping", "other"}, forwarded: BOOLEAN, neat: BOOLEAN,
          lists: Seq({Scalar} \cup SUBSET (Subnets \cup Foreign))]

ASSUME HAYamlAssumption ==
    /\ SubnetList \in Seq(Subnets) /\ SubnetList # <<>> /\ Subnets = {SubnetList[k] : k \in DOMAIN SubnetList}
    /\ InitFiles \subseteq Files /\ Unreadable \notin Files
    /\ \A list \in SUBSET (Subnets \cup Foreign) : Scalar # list

VARIABLES file,      \* configuration.yaml
          next,      \* the subnet a caller is at
          copy,      \* the file it is about to write
          skipped,   \* callers that met an error, which is only logged
          torn       \* history: two writes have mixed, or a crash cut one

yamlVars == <<file, next, copy, skipped, torn>>

-----------------------------------------------------------------------------
(* The patch *)

\* Anything but a mapping is replaced by one, use_x_forwarded_for is set, and
\* the first trusted_proxies decides: a list is extended, and for anything
\* else a second trusted_proxies is appended.
Patch(f, subnet) ==
    LET lists == IF f.http = "mapping" THEN f.lists ELSE <<>> IN
    [http |-> "mapping", forwarded |-> TRUE, neat |-> TRUE,
     lists |-> IF lists # <<>> /\ Head(lists) # Scalar
               THEN [lists EXCEPT ![1] = @ \cup {subnet}]
               ELSE Append(lists, {subnet})]

\* Home Assistant's loader takes the last of several equal keys.
FileTrusts(f) ==
    /\ f \in Files /\ f.lists # <<>> /\ f.forwarded
    /\ f.lists[Len(f.lists)] # Scalar
    /\ Subnets \subseteq f.lists[Len(f.lists)]

-----------------------------------------------------------------------------
(* updateHAConfigYAML *)

StartPatching(c) ==
    /\ Go(c, "readFile")
    /\ next' = [next EXCEPT ![c] = 1]
    /\ skipped' = skipped \ {c}
    /\ UNCHANGED <<file, copy, torn>>

\* Mutant: the subnets after the first one are forgotten.
AdvanceOnce(c) ==
    /\ next' = [next EXCEPT ![c] = @ + 1]
    /\ Go(c, IF c \in skipped' THEN "failed" ELSE "ok")

\* On to the next subnet, after an error too.
Advance(c) ==
    /\ next' = [next EXCEPT ![c] = @ + 1]
    /\ Go(c, IF next[c] < Len(SubnetList) THEN "readFile"
             ELSE IF c \in skipped' THEN "failed" ELSE "ok")

ReadFile(c) ==
    /\ run[c] = "readFile"
    /\ \/ /\ file = Unreadable
          /\ skipped' = skipped \cup {c}
          /\ Advance(c) /\ UNCHANGED copy
       \/ /\ file # Unreadable /\ Patch(file, SubnetList[next[c]]) = file
          /\ UNCHANGED <<skipped, copy>>
          /\ Advance(c)
       \/ /\ file # Unreadable /\ Patch(file, SubnetList[next[c]]) # file
          /\ copy' = [copy EXCEPT ![c] = Patch(file, SubnetList[next[c]])]
          /\ Go(c, "truncate") /\ UNCHANGED <<next, skipped>>
    /\ UNCHANGED <<coreVars, live, want, expired, disturbed, file, torn>>

\* os.WriteFile truncates the file before it writes.
Truncate(c) ==
    /\ run[c] = "truncate"
    /\ file' = Unreadable
    /\ Go(c, "writeFile")
    /\ UNCHANGED <<coreVars, live, want, expired, disturbed, next, copy, skipped, torn>>

\* Over what another caller has written meanwhile, whose tail may remain.
WriteFile(c) ==
    /\ run[c] = "writeFile"
    /\ \/ file = Unreadable /\ file' = copy[c] /\ UNCHANGED torn
       \/ file # Unreadable /\ file' \in {file, copy[c], Unreadable} /\ torn' = TRUE
    /\ copy' = [copy EXCEPT ![c] = Unreadable]
    /\ UNCHANGED skipped
    /\ Advance(c)
    /\ UNCHANGED <<coreVars, live, want, expired, disturbed>>

YamlRun(c) == ReadFile(c) \/ Truncate(c) \/ WriteFile(c)

-----------------------------------------------------------------------------

YamlInit ==
    /\ next = [c \in Callers |-> 1]
    /\ copy = [c \in Callers |-> Unreadable]
    /\ skipped = {} /\ torn = FALSE

YamlTypeOK ==
    /\ file \in Files \cup {Unreadable}
    /\ next \in [Callers -> 1..(Len(SubnetList) + 1)]
    /\ copy \in [Callers -> Files \cup {Unreadable}]
    /\ skipped \subseteq Callers /\ torn \in BOOLEAN
=============================================================================
