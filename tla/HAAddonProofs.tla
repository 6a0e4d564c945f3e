--------------------------- MODULE HAAddonProofs ---------------------------
(***************************************************************************)
(* Theorems about HAAddon: its type invariant, that what the add-on stages *)
(* is what Core has plus what is missing, that a run that ends well leaves *)
(* a confirmed configuration that trusts the add-on, and what a patched    *)
(* configuration.yaml ends with.                                           *)
(***************************************************************************)
EXTENDS HAAddon, TLAPS

Places == Resting \cup Calling \cup {"version", "dial", "redial"} \cup Patching

(* Extending a configuration gives one that trusts the add-on.               *)
LEMMA TrustedType ==
    ASSUME NEW config \in Configs
    PROVE  WithTrustedProxies(config) \in Configs /\ Trusts(WithTrustedProxies(config))
  <1>1. WithTrustedProxies(config) \in Configs
    BY DEF WithTrustedProxies, Configs
  <1>2. WithTrustedProxies(WithTrustedProxies(config)) = WithTrustedProxies(config)
    BY DEF WithTrustedProxies
  <1> QED
    BY <1>1, <1>2 DEF Trusts

-----------------------------------------------------------------------------
(***************************************************************************)
(* The store.  TypeOK is not inductive: what is staged is a configuration  *)
(* because a caller that is about to send one has one.  The two conjuncts  *)
(* that make it so are those of StagesWhatIsMissing: a caller whose        *)
(* connection lives knows what Core has, since Core drops all connections  *)
(* before it changes what it runs.                                         *)
(***************************************************************************)
Fresh == \A c \in live : run[c] = "configure"
             => want[c] = WithTrustedProxies(Active) /\ ~ Trusts(Active)

StoreInv == /\ StoreTypeOK
            /\ Fresh
            /\ core \in {"stopping", "down"} => live = {}

LEMMA ActiveType == StoreTypeOK => Active \in Configs /\ Base = Active
  BY DEF StoreTypeOK, Active, Base, OnTrial

LEMMA StoreInitOK == Init => StoreInv
  BY HAStoreAssumption DEF Init, StoreInit, StoreInv, StoreTypeOK, Fresh, Resting

(* A step of one caller that leaves Core alone and sends nothing.            *)
LEMMA CallerStep ==
    ASSUME StoreInv, NEW c \in Callers, NEW place \in Places,
           UNCHANGED coreVars, Go(c, place),
           live' \subseteq live \cup {c}, core \in {"stopping", "down"} => live' = {},
           expired' \subseteq expired \cup {c}, disturbed' \subseteq disturbed,
           \/ place # "configure" /\ (want' = want \/ want' = [want EXCEPT ![c] = NoConfig])
           \/ want' = [want EXCEPT ![c] = WithTrustedProxies(Active)] /\ ~ Trusts(Active)
    PROVE  StoreInv'
  <1>1. Active' = Active /\ WithTrustedProxies(Active) \in Configs
    BY ActiveType, TrustedType DEF StoreInv, coreVars, Active, OnTrial
  <1>2. run' \in [Callers -> Places] /\ want' \in [Callers -> Configs \cup {NoConfig}]
    BY <1>1 DEF Go, StoreInv, StoreTypeOK, Places
  <1>3. StoreTypeOK'
    BY <1>2 DEF StoreInv, StoreTypeOK, coreVars, Places
  <1>4. \A d \in Callers \ {c} : run'[d] = run[d] /\ want'[d] = want[d]
    BY DEF Go, StoreInv, StoreTypeOK
  <1>5. run'[c] = place
    BY DEF Go, StoreInv, StoreTypeOK
  <1>6. place = "configure" => want'[c] = WithTrustedProxies(Active) /\ ~ Trusts(Active)
    BY DEF StoreInv, StoreTypeOK
  <1>7. live' \subseteq Callers
    BY DEF StoreInv, StoreTypeOK
  <1>8. Fresh'
    BY <1>1, <1>4, <1>5, <1>6, <1>7 DEF Fresh, StoreInv, Trusts, WithTrustedProxies
  <1> QED
    BY <1>3, <1>8 DEF StoreInv, coreVars

(* Core changes what it runs only when nobody is connected to it.            *)
LEMMA CoreStep == StoreInv /\ CoreNext => StoreInv'
  <1> SUFFICES ASSUME StoreInv, CoreNext PROVE StoreInv'
    OBVIOUS
  <1> USE DEF StoreInv, StoreTypeOK, Fresh, runVars
  <1>1. CASE CoreStops \/ CoreRuns
    BY <1>1 DEF CoreStops, CoreRuns, Active, OnTrial
  <1>2. CASE CoreStarts
    BY <1>2 DEF CoreStarts, Running, OnTrial
  <1>3. CASE CoreRestarts \/ Revert
    BY <1>3 DEF CoreRestarts, Revert, Running
  <1>4. CASE UserApplies
    BY <1>4, HAStoreAssumption DEF UserApplies, Stage, Running
  <1>5. CASE UserConfirms
    <2>1. Active' = Active
      BY <1>5 DEF UserConfirms, Promoted, Active, OnTrial
    <2> QED
      BY <1>5, <2>1 DEF UserConfirms, Promoted, OnTrial, Trusts
  <1> QED
    BY <1>1, <1>2, <1>3, <1>4, <1>5 DEF CoreNext

(* The calls that change Core's configuration.                               *)
LEMMA ConfigureStep ==
    ASSUME StoreInv, NEW c \in Callers, Configure(c) PROVE StoreInv'
  <1>1. want[c] \in Configs
    BY ActiveType, TrustedType DEF Configure, StoreInv, Fresh
  <1>2. CASE Stage(want[c])
    <2>1. run' \in [Callers -> Places] /\ want' \in [Callers -> Configs \cup {NoConfig}]
      BY <1>2 DEF Configure, Stage, Go, Proceed, StoreInv, StoreTypeOK, Places, Resting, Calling
    <2>2. expired' \subseteq Callers /\ disturbed' = disturbed
      BY <1>2 DEF Configure, Proceed, StoreInv, StoreTypeOK
    <2> QED
      BY <1>1, <1>2, <2>1, <2>2 DEF Stage, StoreInv, StoreTypeOK, Fresh, Places
  <1>3. CASE UNCHANGED coreVars
    <2>1. PICK place \in {"dial", "confirm"} : Go(c, place) /\ live' \subseteq live /\ expired' \subseteq expired
      BY <1>3 DEF Configure, Proceed, Over, Resting, Stage, coreVars, StoreInv, StoreTypeOK
    <2> QED
      BY <1>3, <2>1, CallerStep DEF Configure, Places, Calling, StoreInv
  <1> QED
    BY <1>2, <1>3 DEF Configure

LEMMA PromoteStep ==
    ASSUME StoreInv, NEW c \in Callers, Promote(c) PROVE StoreInv'
  <1>1. CASE Promoted /\ \E end \in {"ok", "failed"} : Proceed(c, end)
    <2>1. Active' = Active
      BY <1>1 DEF Promoted, Active, OnTrial
    <2>2. \A d \in live' : d \in live /\ run'[d] = run[d]
      BY <1>1 DEF Proceed, Go, Over, Resting, StoreInv, StoreTypeOK
    <2>3. Fresh'
      BY <1>1, <2>1, <2>2 DEF Promote, Fresh, StoreInv, Trusts
    <2> QED
      BY <1>1, <2>3 DEF Promote, Promoted, Proceed, Go, Over, Resting, OnTrial, StoreInv, StoreTypeOK
  <1>2. CASE UNCHANGED coreVars /\ Proceed(c, "recheck")
    BY <1>2, CallerStep DEF Promote, Proceed, Over, Places, Calling, StoreInv
  <1> QED
    BY <1>1, <1>2 DEF Promote

(* The other steps of a caller.                                              *)
LEMMA OtherStep ==
    ASSUME StoreInv, NEW c \in Callers,
           UpdateHAConfig(c) \/ AskVersion(c) \/ Dial(c) \/ CallFails(c) \/ Read(c) \/ Redial(c)
              \/ Confirm(c) \/ Recheck(c)
    PROVE  StoreInv'
  <1> USE DEF Places, Resting, Calling, Patching, Proceed, Over
  <1>1. CASE UpdateHAConfig(c)
    BY <1>1, CallerStep DEF UpdateHAConfig, StartPatching, StoreInv
  <1>2. CASE AskVersion(c)
    BY <1>2, CallerStep DEF AskVersion, GivesUp, StoreInv
  <1>3. CASE Dial(c)
    BY <1>3, CallerStep DEF Dial, Connects, GivesUp, StoreInv
  <1>4. CASE CallFails(c)
    BY <1>4, CallerStep DEF CallFails, StoreInv
  <1>5. CASE Read(c)
    BY <1>5, CallerStep, ActiveType DEF Read, StoreInv
  <1>6. CASE Redial(c)
    BY <1>6, CallerStep DEF Redial, Connects, GivesUp, StoreInv
  <1>7. CASE Confirm(c) \/ Recheck(c)
    BY <1>7, CallerStep DEF Confirm, Recheck, StoreInv
  <1> QED
    BY <1>1, <1>2, <1>3, <1>4, <1>5, <1>6, <1>7

(* A step of the YAML patch touches the place of its caller only.            *)
LEMMA YamlCallerStep ==
    ASSUME StoreInv, NEW c \in Callers, YamlRun(c)
    PROVE  StoreInv'
  <1>1. \E place \in {"truncate", "writeFile", "readFile", "failed", "ok"} : Go(c, place)
    BY DEF YamlRun, ReadFile, Truncate, WriteFile, Advance
  <1>2. UNCHANGED <<coreVars, live, want, expired, disturbed>>
    BY DEF YamlRun, ReadFile, Truncate, WriteFile
  <1> QED
    BY <1>1, <1>2, CallerStep DEF Places, Resting, Patching, StoreInv

LEMMA StoreStep == StoreInv /\ [Next]_vars => StoreInv'
  <1> SUFFICES ASSUME StoreInv, [Next]_vars PROVE StoreInv'
    OBVIOUS
  <1>1. ASSUME NEW c \in Callers, UpdateHAConfig(c) \/ Continue(c) PROVE StoreInv'
    <2>1. CASE StoreRun(c)
      <3>1. CASE Expire(c)
        BY <3>1 DEF Expire, coreVars, StoreInv, StoreTypeOK, Fresh, Active, OnTrial, Trusts
      <3> QED
        BY <2>1, <3>1, OtherStep, ConfigureStep, PromoteStep DEF StoreRun
    <2> QED
      BY <1>1, <2>1, OtherStep, YamlCallerStep DEF Continue
  <1>2. CASE Crash
    BY <1>2 DEF Crash, coreVars, StoreInv, StoreTypeOK, Fresh, Resting
  <1>3. CASE UNCHANGED vars
    BY <1>3 DEF vars, storeVars, coreVars, runVars, StoreInv, StoreTypeOK, Fresh, Active, OnTrial,
                Trusts
  <1> QED
    BY <1>1, <1>2, <1>3, CoreStep DEF Next

(* A step of a caller moves that caller only.                                *)
LEMMA OnlyItself ==
    ASSUME StoreInv, NEW c \in Callers, UpdateHAConfig(c) \/ Continue(c),
           NEW d \in Callers, d # c
    PROVE  run'[d] = run[d]
  <1>1. (\E place \in Places : Go(c, place)) \/ UNCHANGED run
    <2> USE DEF Places, Resting, Calling, Patching, Proceed
    <2>1. CASE UpdateHAConfig(c)
      BY <2>1 DEF UpdateHAConfig, StartPatching
    <2>2. CASE AskVersion(c)
      BY <2>2 DEF AskVersion, GivesUp
    <2>3. CASE Dial(c) \/ Redial(c)
      BY <2>3 DEF Dial, Redial, Connects, GivesUp
    <2>4. CASE CallFails(c) \/ Read(c) \/ Expire(c)
      BY <2>4 DEF CallFails, Read, Expire
    <2>5. CASE Configure(c)
      BY <2>5 DEF Configure
    <2>6. CASE Confirm(c) \/ Promote(c) \/ Recheck(c)
      BY <2>6 DEF Confirm, Promote, Recheck
    <2>7. CASE YamlRun(c)
      BY <2>7 DEF YamlRun, ReadFile, Truncate, WriteFile, Advance
    <2> QED
      BY <2>1, <2>2, <2>3, <2>4, <2>5, <2>6, <2>7 DEF Continue, StoreRun
  <1> QED
    BY <1>1 DEF Go, StoreInv, StoreTypeOK

(* Configure is the only step by which a caller stops Core.                  *)
LEMMA OnlyConfigure ==
    ASSUME StoreInv, [Next]_vars, NEW c \in Callers,
           run[c] = "configure", run'[c] # "configure", core = "up", core' = "stopping"
    PROVE  Configure(c)
  <1>1. \E d \in Callers : UpdateHAConfig(d) \/ Continue(d)
    BY DEF Next, CoreNext, CoreStops, CoreStarts, CoreRuns, CoreRestarts, Revert, UserApplies,
           UserConfirms, Crash, coreVars, runVars, vars, storeVars
  <1>2. UpdateHAConfig(c) \/ Continue(c)
    BY <1>1, OnlyItself
  <1>3. ~ UpdateHAConfig(c) /\ ~ AskVersion(c) /\ ~ YamlRun(c)
    BY DEF UpdateHAConfig, AskVersion, YamlRun, ReadFile, Truncate, WriteFile, Resting
  <1>4. ~ Dial(c) /\ ~ CallFails(c) /\ ~ Read(c) /\ ~ Redial(c) /\ ~ Confirm(c) /\ ~ Promote(c)
            /\ ~ Recheck(c) /\ ~ Expire(c)
    BY DEF Dial, CallFails, Read, Redial, Confirm, Promote, Recheck, Expire, coreVars
  <1> QED
    BY <1>2, <1>3, <1>4 DEF Continue, StoreRun

(***************************************************************************)
(* What configureTrustedProxies sends is never built upon a configuration  *)
(* that has been replaced since it was read, with any number of callers    *)
(* and users: no setting is lost, and Core is not restarted for nothing.   *)
(***************************************************************************)
THEOREM StagesOnlyWhatIsMissing == Spec => StagesWhatIsMissing
  <1> DEFINE Staged(c) ==
        run[c] = "configure" /\ run'[c] # "configure" /\ core = "up" /\ core' = "stopping"
          => ~ Trusts(Active) /\ pending' = WithTrustedProxies(Active)
  <1>1. ASSUME StoreInv, [Next]_vars PROVE \A c \in Callers : Staged(c)
    <2> SUFFICES ASSUME NEW c \in Callers, run[c] = "configure", run'[c] # "configure",
                        core = "up", core' = "stopping"
                 PROVE  ~ Trusts(Active) /\ pending' = WithTrustedProxies(Active)
      OBVIOUS
    <2>1. Configure(c)
      BY <1>1, OnlyConfigure
    <2> QED
      BY <1>1, <2>1 DEF Configure, Stage, StoreInv, Fresh, coreVars
  <1>2. StoreInv /\ [Next]_vars => [\A c \in Callers : Staged(c)]_storeVars
    BY <1>1
  <1> QED
    BY <1>2, StoreInitOK, StoreStep, PTL DEF Spec, StagesWhatIsMissing

-----------------------------------------------------------------------------
(***************************************************************************)
(* From when a caller has found or staged a configuration that trusts the  *)
(* add-on, Core keeps one that does, unless the caller is disturbed: what  *)
(* other callers stage trusts the add-on too, and a promotion, or a trial  *)
(* that Core drops, leaves what Core runs as it is.                        *)
(***************************************************************************)
After == {"redial", "confirm", "promote", "recheck"}

Kept == \A c \in Callers \ disturbed : run[c] \in After => Trusts(Active)

LEMMA KeptInit == Init => Kept
  BY DEF Init, StoreInit, Kept, After

(* A caller's step goes on to After only when Core trusts the add-on.        *)
LEMMA KeptCaller ==
    ASSUME StoreInv, Kept, NEW c \in Callers, UpdateHAConfig(c) \/ Continue(c)
    PROVE  Kept'
  <1>1. \A d \in Callers \ {c} : run'[d] = run[d]
    BY OnlyItself
  <1>2. disturbed' \subseteq disturbed /\ disturbed \subseteq disturbed' \cup {c}
    BY DEF UpdateHAConfig, Continue, AskVersion, StoreRun, Dial, CallFails, Read, Configure, Redial,
           Confirm, Promote, Recheck, Expire, YamlRun, ReadFile, Truncate, WriteFile
  <1> DEFINE Same == Active' = Active
             Mine == c \notin disturbed' /\ run'[c] \in After => Trusts(Active)
  <1>3. ASSUME Same, Mine PROVE Kept'
    BY <1>1, <1>2, <1>3 DEF Kept, Trusts, WithTrustedProxies
  <1> USE DEF Go, Proceed, After, StoreInv, StoreTypeOK, Resting, Calling, Patching
  <1>4. CASE UpdateHAConfig(c)
    BY <1>3, <1>4 DEF UpdateHAConfig, StartPatching, coreVars, Active, OnTrial
  <1>5. CASE AskVersion(c) \/ Dial(c) \/ CallFails(c)
    BY <1>3, <1>5 DEF AskVersion, Dial, Connects, GivesUp, CallFails, coreVars, Active, OnTrial
  <1>6. CASE Read(c)
    BY <1>3, <1>6, ActiveType DEF Read, coreVars, Active, OnTrial
  <1>7. CASE Configure(c)
    <2>1. Trusts(want[c])
      BY <1>7, ActiveType, TrustedType DEF Configure, Fresh
    <2>2. CASE Stage(want[c])
      <3>1. Active' = want[c]
        BY <1>7, <2>2, HAStoreAssumption, ActiveType, TrustedType DEF Configure, Fresh, Stage, Active, OnTrial
      <3> QED
        BY <2>1, <3>1 DEF Kept, Trusts, WithTrustedProxies
    <2>3. CASE UNCHANGED coreVars
      <3>1. Same
        BY <2>3 DEF coreVars, Active, OnTrial
      <3>2. run'[c] \in After => want[c] = Active
        BY <1>7, <2>3 DEF Configure, Stage, coreVars
      <3> QED
        BY <1>3, <2>1, <3>1, <3>2
    <2> QED
      BY <1>7, <2>2, <2>3 DEF Configure
  <1>8. CASE Redial(c) \/ Confirm(c) \/ Recheck(c)
    <2>1. Same
      BY <1>8 DEF Redial, Confirm, Recheck, coreVars, Active, OnTrial
    <2>2. run[c] \in After /\ disturbed' = disturbed
      BY <1>8 DEF Redial, Confirm, Recheck
    <2> QED
      BY <1>3, <2>1, <2>2 DEF Kept
  <1>9. CASE Promote(c)
    <2>1. Same
      BY <1>9 DEF Promote, Promoted, coreVars, Active, OnTrial
    <2>2. run[c] \in After /\ disturbed' = disturbed
      BY <1>9 DEF Promote
    <2> QED
      BY <1>3, <2>1, <2>2 DEF Kept
  <1>10. CASE Expire(c)
    BY <1>3, <1>10 DEF Expire, coreVars, Active, OnTrial, Kept
  <1>11. CASE YamlRun(c)
    BY <1>3, <1>11 DEF YamlRun, ReadFile, Truncate, WriteFile, Advance, coreVars, Active, OnTrial
  <1> QED
    BY <1>4, <1>5, <1>6, <1>7, <1>8, <1>9, <1>10, <1>11 DEF Continue, StoreRun

(* Core or a user that takes a configuration away disturbs who is running.   *)
LEMMA KeptCore == StoreInv /\ Kept /\ CoreNext => Kept'
  <1> SUFFICES ASSUME StoreInv, Kept, CoreNext PROVE Kept'
    OBVIOUS
  <1>1. ASSUME Active' = Active, run' = run, disturbed' = disturbed PROVE Kept'
    BY <1>1 DEF Kept, Trusts, WithTrustedProxies
  <1>2. ASSUME run' = run, disturbed' = Running PROVE Kept'
    BY <1>2 DEF Kept, Running, After, Resting
  <1>3. CASE CoreStops \/ CoreRuns \/ CoreRestarts \/ UserConfirms
    BY <1>1, <1>3 DEF CoreStops, CoreRuns, CoreRestarts, UserConfirms, Promoted, runVars, Active, OnTrial
  <1>4. CASE CoreStarts
    BY <1>1, <1>2, <1>4 DEF CoreStarts, runVars, Active, OnTrial
  <1>5. CASE Revert \/ UserApplies
    BY <1>2, <1>5 DEF Revert, UserApplies
  <1> QED
    BY <1>3, <1>4, <1>5 DEF CoreNext

LEMMA KeptStep == StoreInv /\ Kept /\ [Next]_vars => Kept'
  <1> SUFFICES ASSUME StoreInv, Kept, [Next]_vars PROVE Kept'
    OBVIOUS
  <1>1. CASE Crash
    BY <1>1 DEF Crash, Kept, After
  <1>2. CASE UNCHANGED vars
    BY <1>2 DEF vars, storeVars, coreVars, runVars, Kept, Active, OnTrial, Trusts, WithTrustedProxies
  <1> QED
    BY <1>1, <1>2, KeptCaller, KeptCore DEF Next

(***************************************************************************)
(* A run that ends well, undisturbed by users and by Core, leaves Core     *)
(* with a confirmed configuration that trusts the add-on, however many     *)
(* callers share the trial and whatever an earlier crash left behind.      *)
(***************************************************************************)
THEOREM OkMeansTrusted == Spec => OkIsTrusted
  <1> DEFINE Ended(c) == run[c] \in Calling /\ run'[c] = "ok" /\ c \notin disturbed
                           => Trusts(stable') /\ (pending' = NoConfig \/ failed')
  <1>1. ASSUME StoreInv, Kept, [Next]_vars, NEW c \in Callers PROVE Ended(c)
    <2> SUFFICES ASSUME run[c] \in Calling, run'[c] = "ok", c \notin disturbed
                 PROVE  Trusts(stable') /\ (pending' = NoConfig \/ failed')
      OBVIOUS
    <2>1. UpdateHAConfig(c) \/ Continue(c)
      <3>1. run' # run /\ ~ Crash
        BY DEF Crash, Calling
      <3>2. ~ CoreNext
        BY <3>1 DEF CoreNext, CoreStops, CoreStarts, CoreRuns, CoreRestarts, Revert, UserApplies,
                    UserConfirms, runVars
      <3> QED
        BY <1>1, <3>1, <3>2, OnlyItself DEF Next, vars, storeVars, runVars, Calling
    <2>2. Read(c) \/ Confirm(c) \/ Promote(c) \/ Recheck(c)
      BY <1>1, <2>1 DEF UpdateHAConfig, Continue, AskVersion, StoreRun, YamlRun, ReadFile, Truncate,
                        WriteFile, Dial, Redial, CallFails, Configure, Expire, Go, Proceed, Resting,
                        Calling, StoreInv, StoreTypeOK
    <2>3. CASE Read(c)
      BY <1>1, <2>3 DEF Read, Proceed, Go, coreVars, Base, OnTrial, StoreInv, StoreTypeOK, Trusts
    <2>4. CASE Confirm(c) \/ Recheck(c)
      BY <1>1, <2>4 DEF Confirm, Recheck, Proceed, Go, coreVars, Kept, After, Active, OnTrial, StoreInv,
                        StoreTypeOK, Trusts
    <2>5. CASE Promote(c)
      BY <1>1, <2>5 DEF Promote, Promoted, Proceed, Go, Kept, After, Active, OnTrial, StoreInv,
                        StoreTypeOK, Trusts, WithTrustedProxies
    <2> QED
      BY <2>2, <2>3, <2>4, <2>5
  <1>2. StoreInv /\ Kept /\ [Next]_vars => [\A c \in Callers : Ended(c)]_storeVars
    BY <1>1
  <1> QED
    BY <1>2, StoreInitOK, StoreStep, KeptInit, KeptStep, PTL DEF Spec, OkIsTrusted

-----------------------------------------------------------------------------
(***************************************************************************)
(* configuration.yaml.  A caller that patches is at one of the subnets,    *)
(* and what it is about to write is a patched file.                        *)
(***************************************************************************)
YamlInv == /\ YamlTypeOK
           /\ \A c \in Callers : run[c] \in Patching => next[c] \in 1..Len(SubnetList)
           /\ mode \in {"store", "yaml"} /\ mapped \in BOOLEAN

(* A patched file is a file.                                                 *)
LEMMA PatchType ==
    ASSUME NEW f \in Files, NEW subnet \in Subnets PROVE Patch(f, subnet) \in Files
  <1> DEFINE Entry == {Scalar} \cup SUBSET (Subnets \cup Foreign)
             lists == IF f.http = "mapping" THEN f.lists ELSE <<>>
  <1>1. lists \in Seq(Entry)
    BY DEF Files
  <1>2. Append(lists, {subnet}) \in Seq(Entry)
    BY <1>1
  <1>3. lists # <<>> /\ Head(lists) # Scalar => [lists EXCEPT ![1] = @ \cup {subnet}] \in Seq(Entry)
    <2> SUFFICES ASSUME lists # <<>>, Head(lists) # Scalar
                 PROVE  [lists EXCEPT ![1] = @ \cup {subnet}] \in Seq(Entry)
      OBVIOUS
    <2>1. lists[1] \in SUBSET (Subnets \cup Foreign)
      BY <1>1
    <2>2. lists[1] \cup {subnet} \in Entry
      BY <2>1
    <2> HIDE DEF lists, Entry
    <2> QED
      BY <1>1, <2>2
  <1> QED
    BY <1>2, <1>3 DEF Patch, Files

LEMMA YamlInitOK == Init => YamlInv
  <1>1. 1 \in 1..(Len(SubnetList) + 1)
    BY HAYamlAssumption
  <1>2. InitFiles \subseteq Files
    BY HAYamlAssumption
  <1>3. Init => YamlTypeOK
    BY <1>1, <1>2 DEF Init, YamlInit, YamlTypeOK
  <1> QED
    BY <1>3 DEF Init, StoreInit, YamlInv, Patching

(* A step that is not of the patch lets nobody enter it.                     *)
LEMMA OutsideStep ==
    ASSUME StoreInv, YamlInv, UNCHANGED <<yamlVars, mode, mapped>>,
           \A c \in Callers : run'[c] \in Patching => run'[c] = run[c]
    PROVE  YamlInv'
  BY DEF YamlInv, YamlTypeOK, yamlVars

LEMMA PatchingStep ==
    ASSUME StoreInv, YamlInv, NEW c \in Callers, YamlRun(c), UNCHANGED <<mode, mapped>>
    PROVE  YamlInv'
  <1> USE DEF YamlInv, YamlTypeOK, Patching
  <1>1. next[c] \in 1..Len(SubnetList) /\ Len(SubnetList) \in Nat /\ SubnetList[next[c]] \in Subnets
    BY HAYamlAssumption DEF YamlRun, ReadFile, Truncate, WriteFile
  <1>2. ASSUME Advance(c)
        PROVE  /\ next' \in [Callers -> 1..(Len(SubnetList) + 1)]
               /\ \A d \in Callers : run'[d] \in Patching => next'[d] \in 1..Len(SubnetList)
    <2>1. next' = [next EXCEPT ![c] = next[c] + 1]
      BY <1>2 DEF Advance
    <2>2. run'[c] \in Patching => next[c] < Len(SubnetList)
      BY <1>2 DEF Advance, Go, StoreInv, StoreTypeOK
    <2>3. \A d \in Callers \ {c} : run'[d] = run[d]
      BY <1>2 DEF Advance, Go, StoreInv, StoreTypeOK
    <2> QED
      BY <1>1, <2>1, <2>2, <2>3
  <1>3. ASSUME NEW place \in {"truncate", "writeFile"}, run[c] \in Patching, Go(c, place), next' = next
        PROVE  \A d \in Callers : run'[d] \in Patching => next'[d] \in 1..Len(SubnetList)
    BY <1>3 DEF Go, StoreInv, StoreTypeOK
  <1>4. CASE ReadFile(c)
    <2>1. copy' \in [Callers -> Files \cup {Unreadable}]
      BY <1>1, <1>4, PatchType DEF ReadFile
    <2>2. skipped' \subseteq Callers /\ UNCHANGED <<file, torn>>
      BY <1>4 DEF ReadFile
    <2>3. Advance(c) \/ (Go(c, "truncate") /\ next' = next /\ run[c] \in Patching)
      BY <1>4 DEF ReadFile
    <2> QED
      BY <1>2, <1>3, <2>1, <2>2, <2>3
  <1>5. CASE Truncate(c)
    BY <1>3, <1>5 DEF Truncate
  <1>6. CASE WriteFile(c)
    BY <1>2, <1>6 DEF WriteFile
  <1> QED
    BY <1>4, <1>5, <1>6 DEF YamlRun

LEMMA YamlStep == StoreInv /\ YamlInv /\ [Next]_vars => YamlInv'
  <1> SUFFICES ASSUME StoreInv, YamlInv, [Next]_vars PROVE YamlInv'
    OBVIOUS
  <1>1. ASSUME NEW c \in Callers, UpdateHAConfig(c) PROVE YamlInv'
    <2>1. CASE StartPatching(c)
      BY <1>1, <2>1, HAYamlAssumption
         DEF UpdateHAConfig, StartPatching, Go, YamlInv, YamlTypeOK, StoreInv, StoreTypeOK
    <2>2. CASE UNCHANGED yamlVars /\ (Go(c, "version") \/ Go(c, "dial"))
      BY <1>1, <2>2, OutsideStep DEF UpdateHAConfig, Go, Patching, StoreInv, StoreTypeOK
    <2> QED
      BY <1>1, <2>1, <2>2 DEF UpdateHAConfig
  <1>2. ASSUME NEW c \in Callers, AskVersion(c) \/ (StoreRun(c) /\ UNCHANGED <<yamlVars, mode, mapped>>)
        PROVE  YamlInv'
    <2>1. (\E place \in Places \ Patching : Go(c, place)) \/ UNCHANGED run
      BY <1>2 DEF AskVersion, StoreRun, Dial, CallFails, Read, Configure, Redial, Confirm, Promote, Recheck,
                  Expire, Connects, GivesUp, Proceed, Places, Patching, Resting, Calling
    <2>2. UNCHANGED <<yamlVars, mode, mapped>>
      BY <1>2 DEF AskVersion
    <2> QED
      BY <2>1, <2>2, OutsideStep DEF Go, StoreInv, StoreTypeOK
  <1>3. CASE CoreNext /\ UNCHANGED <<yamlVars, mode, mapped>>
    BY <1>3, OutsideStep DEF CoreNext, CoreStops, CoreStarts, CoreRuns, CoreRestarts, Revert,
                             UserApplies, UserConfirms, runVars
  <1>4. CASE Crash
    BY <1>4, HAYamlAssumption DEF Crash, YamlInv, YamlTypeOK, Patching
  <1>5. CASE UNCHANGED vars
    BY <1>5, OutsideStep DEF vars, storeVars, runVars
  <1> QED
    BY <1>1, <1>2, <1>3, <1>4, <1>5, PatchingStep DEF Next, Continue

(* Type correctness.                                                         *)
THEOREM TypeCorrect == Spec => []HATypeOK
  <1>1. StoreInv /\ YamlInv => HATypeOK
    BY DEF StoreInv, YamlInv, HATypeOK
  <1> QED
    BY <1>1, StoreInitOK, StoreStep, YamlInitOK, YamlStep, PTL DEF Spec
-----------------------------------------------------------------------------
(***************************************************************************)
(* What the patched file ends with.  A caller finds in the file the        *)
(* subnets it is past, or it cannot read it, and writes them back; so the  *)
(* last one to write or to read leaves all of them.  That holds as long as *)
(* a copy of the file that another caller read earlier, and writes back,   *)
(* is not behind: with one caller, or with two subnets, of which every     *)
(* copy has the first.  Nobody restores a third one: see ha_yaml_race.     *)
(***************************************************************************)
Listed(f) ==
    /\ f.http = "mapping" /\ f.forwarded
    /\ \E list \in SUBSET (Subnets \cup Foreign) : f.lists = <<list>>

\* trusted_proxies is given once and as a list, or is not given.
Plain(f) == f.http = "mapping" =>
    f.lists = <<>> \/ \E list \in SUBSET (Subnets \cup Foreign) : f.lists = <<list>>

PlainFiles == \A f \in InitFiles : Plain(f)
NobodyBehind == Len(SubnetList) <= 2 \/ \A c, d \in Callers : c = d

\* The file trusts the first n subnets.
Carries(f, n) == n > 0 => Listed(f) /\ \A j \in 1..n : SubnetList[j] \in f.lists[1]

WellFormed == /\ file # Unreadable => Plain(file)
              /\ file = Unreadable /\ mode = "yaml" => \E c \in Callers : run[c] = "writeFile"
Passed == \A c \in Callers : run[c] \in Patching =>
    /\ file # Unreadable => Carries(file, next[c] - 1)
    /\ run[c] # "readFile" => copy[c] \in Files /\ Carries(copy[c], next[c])
Ended == (\E c \in Callers : run[c] = "ok") =>
    \/ file # Unreadable /\ Carries(file, Len(SubnetList))
    \/ \E c \in Callers : run[c] \in Patching
ByMode == \A c \in Callers : IF mode = "yaml" THEN run[c] \in Resting \cup Patching \cup {"version"}
                                              ELSE run[c] \notin Patching

FileInv == ByMode /\ (~ torn => WellFormed /\ Passed /\ (mode = "yaml" => Ended))

(* The list of the subnets has them all.                                     *)
LEMMA SubnetsAre ==
    /\ Len(SubnetList) \in Nat \ {0}
    /\ \A k \in 1..Len(SubnetList) : SubnetList[k] \in Subnets
    /\ Subnets = {SubnetList[k] : k \in 1..Len(SubnetList)}
  BY HAYamlAssumption

(* A patched file has one list, with the subnet and what was in it.          *)
LEMMA PatchLists ==
    ASSUME NEW f \in Files, Plain(f), NEW subnet \in Subnets
    PROVE  /\ Listed(Patch(f, subnet)) /\ subnet \in Patch(f, subnet).lists[1]
           /\ Listed(f) => f.lists[1] \subseteq Patch(f, subnet).lists[1]
  <1> DEFINE lists == IF f.http = "mapping" THEN f.lists ELSE <<>>
             g == Patch(f, subnet)
  <1>1. g.http = "mapping" /\ g.forwarded
    BY DEF Patch
  <1>2. CASE lists = <<>>
    <2>1. g.lists = <<{subnet}>>
      <3>1. g.lists = Append(lists, {subnet})
        BY <1>2 DEF Patch
      <3>2. Append(<<>>, {subnet}) = <<{subnet}>>
        OBVIOUS
      <3> QED
        BY <1>2, <3>1, <3>2
    <2>2. ASSUME Listed(f) PROVE FALSE
      <3>1. PICK list \in SUBSET (Subnets \cup Foreign) : lists = <<list>>
        BY <2>2 DEF Listed
      <3>2. <<list>> # <<>>
        OBVIOUS
      <3> QED
        BY <1>2, <3>1, <3>2
    <2> QED
      BY <1>1, <2>1, <2>2 DEF Listed
  <1>3. CASE lists # <<>>
    <2>1. PICK list \in SUBSET (Subnets \cup Foreign) : lists = <<list>> /\ f.lists = <<list>>
      BY <1>3 DEF Plain
    <2>2. list # Scalar /\ Head(lists) = list
      BY <2>1, HAYamlAssumption
    <2>3. g.lists = [lists EXCEPT ![1] = @ \cup {subnet}]
      BY <1>3, <2>2 DEF Patch
    <2>4. g.lists = <<list \cup {subnet}>>
      BY <2>1, <2>3
    <2> QED
      BY <1>1, <2>1, <2>4 DEF Listed
  <1> QED
    BY <1>2, <1>3

(* A list is one of the forms that the patch keeps.                          *)
LEMMA ListedIsPlain == \A f : Listed(f) => Plain(f)
  BY DEF Listed, Plain

(* What trusts more subnets trusts fewer.                                    *)
LEMMA CarriesFewer ==
    ASSUME NEW f, NEW m \in Nat, NEW n \in Nat, n <= m, Carries(f, m)
    PROVE  Carries(f, n)
  BY DEF Carries

(* Initially nobody patches.                                                 *)
LEMMA FileInit == PlainFiles /\ Init => FileInv
  BY HAYamlAssumption DEF PlainFiles, Init, StoreInit, YamlInit, FileInv, WellFormed, Passed, Ended, ByMode,
                          Resting, Patching

(* A step of a caller that does not patch.                                   *)
LEMMA OutsidePatch ==
    ASSUME StoreInv, FileInv, UNCHANGED <<yamlVars, mode>>, NEW c \in Callers,
           \A d \in Callers \ {c} : run'[d] = run[d],
           \/ run'[c] = run[c]
           \/ /\ run[c] \notin Patching /\ run'[c] \notin Patching
              /\ mode = "yaml" => run'[c] \in {"idle", "failed", "version"}
    PROVE  FileInv'
  <1>1. \A d \in Callers : (run[d] \in Patching \/ run'[d] \in Patching) => run'[d] = run[d]
    OBVIOUS
  <1>2. ByMode'
    BY DEF FileInv, ByMode, Resting
  <1>3. UNCHANGED <<file, next, copy, torn, mode>>
    BY DEF yamlVars
  <1>4. ASSUME ~ torn PROVE WellFormed' /\ Passed'
    BY <1>1, <1>3, <1>4 DEF FileInv, WellFormed, Passed, Patching
  <1>5. ASSUME ~ torn, mode = "yaml" PROVE Ended'
    <2>1. \A d \in Callers : run'[d] = "ok" => run[d] = "ok"
      BY <1>5
    <2> QED
      BY <1>1, <1>3, <1>5, <2>1 DEF FileInv, Ended
  <1> QED
    BY <1>2, <1>3, <1>4, <1>5 DEF FileInv

(* Reading: an unreadable file is somebody's who is about to write it, and   *)
(* a file that needs no patch has the subnet.                                *)
LEMMA ReadFileStep ==
    ASSUME StoreInv, YamlInv, FileInv, NEW c \in Callers, ReadFile(c), mode' = mode
    PROVE  FileInv'
  <1> DEFINE n == Len(SubnetList)  k == next[c]
  <1>1. /\ run \in [Callers -> Places] /\ next \in [Callers -> 1..(n + 1)]
        /\ copy \in [Callers -> Files \cup {Unreadable}] /\ file \in Files \cup {Unreadable}
        /\ run[c] = "readFile" /\ k \in 1..n /\ n \in Nat /\ SubnetList[k] \in Subnets
        /\ UNCHANGED <<file, torn, mode>> /\ mode = "yaml"
    BY SubnetsAre DEF StoreInv, StoreTypeOK, YamlInv, YamlTypeOK, FileInv, ByMode, ReadFile, Patching, Places
  <1>2. ASSUME Advance(c)
        PROVE  /\ next' = [next EXCEPT ![c] = k + 1]
               /\ \A d \in Callers : run'[d] = IF d = c THEN run'[c] ELSE run[d]
               /\ IF k < n THEN run'[c] = "readFile" ELSE run'[c] \in {"failed", "ok"}
    BY <1>1, <1>2 DEF Advance, Go
  <1>3. CASE file = Unreadable /\ Advance(c) /\ UNCHANGED copy
    <2>1. ASSUME ~ torn PROVE WellFormed' /\ Passed' /\ Ended'
      <3>1. PICK w \in Callers : run[w] = "writeFile"
        BY <1>1, <1>3, <2>1 DEF FileInv, WellFormed
      <3>2. run'[w] = "writeFile"
        BY <1>1, <1>2, <1>3, <3>1
      <3>3. Passed'
        BY <1>1, <1>2, <1>3, <2>1 DEF FileInv, Passed, Patching
      <3> QED
        BY <1>1, <1>3, <3>2, <3>3 DEF WellFormed, Ended, Patching
    <2>2. ByMode'
      BY <1>1, <1>2, <1>3 DEF FileInv, ByMode, Resting, Patching
    <2> QED
      BY <1>1, <2>1, <2>2 DEF FileInv
  <1>4. CASE file # Unreadable /\ Patch(file, SubnetList[k]) = file /\ Advance(c) /\ UNCHANGED copy
    <2>1. ASSUME ~ torn PROVE WellFormed' /\ Passed' /\ Ended'
      <3>1. Carries(file, k)
        <4>1. Plain(file) /\ Carries(file, k - 1)
          BY <1>1, <1>4, <2>1 DEF FileInv, WellFormed, Passed, Patching
        <4>2. Listed(file) /\ SubnetList[k] \in file.lists[1]
          BY <1>1, <1>4, <4>1, PatchLists
        <4>3. ASSUME NEW j \in 1..k PROVE SubnetList[j] \in file.lists[1]
          BY <1>1, <4>1, <4>2 DEF Carries
        <4> QED
          BY <4>2, <4>3 DEF Carries
      <3>2. next'[c] = k + 1 /\ \A d \in Callers \ {c} : next'[d] = next[d]
        BY <1>1, <1>2, <1>4
      <3>3. run'[c] # "readFile" => run'[c] \notin Patching
        BY <1>2, <1>4 DEF Patching
      <3>4. Passed'
        <4>1. ASSUME NEW d \in Callers, run'[d] \in Patching
              PROVE  /\ Carries(file, next'[d] - 1)
                     /\ run'[d] # "readFile" => copy[d] \in Files /\ Carries(copy[d], next'[d])
          <5>1. CASE d = c
            <6>1. next'[d] - 1 = k
              BY <1>1, <3>2, <5>1
            <6> QED
              BY <3>1, <3>3, <4>1, <5>1, <6>1
          <5>2. CASE d # c
            <6>1. run'[d] = run[d] /\ next'[d] = next[d]
              BY <1>2, <1>4, <3>2, <5>2
            <6> QED
              BY <1>4, <2>1, <4>1, <6>1 DEF FileInv, Passed
          <5> QED
            BY <5>1, <5>2
        <4> QED
          BY <1>1, <1>4, <4>1 DEF Passed
      <3>5. WellFormed'
        BY <1>1, <1>4, <2>1 DEF FileInv, WellFormed
      <3>6. Ended'
        <4>1. CASE k < n
          BY <1>2, <1>4, <4>1 DEF Ended, Patching
        <4>2. CASE ~ (k < n)
          <5>1. k = n
            BY <1>1, <4>2
          <5> QED
            BY <1>1, <1>4, <3>1, <5>1 DEF Ended
        <4> QED
          BY <4>1, <4>2
      <3> QED
        BY <3>4, <3>5, <3>6
    <2>2. ByMode'
      BY <1>1, <1>2, <1>4 DEF FileInv, ByMode, Resting, Patching
    <2> QED
      BY <1>1, <2>1, <2>2 DEF FileInv
  <1>5. CASE /\ file # Unreadable /\ copy' = [copy EXCEPT ![c] = Patch(file, SubnetList[k])]
             /\ Go(c, "truncate") /\ next' = next
    <2>0. \A d \in Callers : /\ run'[d] = IF d = c THEN "truncate" ELSE run[d]
                             /\ copy'[d] = IF d = c THEN Patch(file, SubnetList[k]) ELSE copy[d]
      BY <1>1, <1>5 DEF Go
    <2>1. ASSUME ~ torn PROVE WellFormed' /\ Passed' /\ Ended'
      <3>1. Patch(file, SubnetList[k]) \in Files /\ Carries(Patch(file, SubnetList[k]), k)
        <4>1. Plain(file) /\ Carries(file, k - 1)
          BY <1>1, <1>5, <2>1 DEF FileInv, WellFormed, Passed, Patching
        <4>2. /\ Listed(Patch(file, SubnetList[k]))
              /\ SubnetList[k] \in Patch(file, SubnetList[k]).lists[1]
              /\ Listed(file) => file.lists[1] \subseteq Patch(file, SubnetList[k]).lists[1]
          BY <1>1, <1>5, <4>1, PatchLists
        <4>3. ASSUME NEW j \in 1..k PROVE SubnetList[j] \in Patch(file, SubnetList[k]).lists[1]
          <5>1. CASE j = k
            BY <4>2, <5>1
          <5>2. CASE j # k
            <6>1. k - 1 > 0 /\ j \in 1..(k - 1)
              BY <1>1, <5>2
            <6>2. Listed(file) /\ SubnetList[j] \in file.lists[1]
              BY <4>1, <6>1 DEF Carries
            <6> QED
              BY <4>2, <6>2
          <5> QED
            BY <5>1, <5>2
        <4>4. Patch(file, SubnetList[k]) \in Files
          BY <1>1, <1>5, PatchType
        <4> QED
          BY <4>2, <4>3, <4>4 DEF Carries
      <3>2. Passed'
        <4>1. ASSUME NEW d \in Callers, run'[d] \in Patching
              PROVE  /\ Carries(file, next[d] - 1)
                     /\ run'[d] # "readFile" => copy'[d] \in Files /\ Carries(copy'[d], next[d])
          <5>1. CASE d = c
            BY <1>1, <1>5, <2>0, <2>1, <3>1, <5>1 DEF FileInv, Passed, Patching
          <5>2. CASE d # c
            BY <1>5, <2>0, <2>1, <4>1, <5>2 DEF FileInv, Passed
          <5> QED
            BY <5>1, <5>2
        <4> QED
          BY <1>1, <1>5, <4>1 DEF Passed
      <3> QED
        BY <1>1, <1>5, <2>0, <2>1, <3>2 DEF FileInv, WellFormed, Ended, Patching
    <2>2. ByMode'
      BY <1>1, <2>0 DEF FileInv, ByMode, Resting, Patching
    <2> QED
      BY <1>1, <2>1, <2>2 DEF FileInv
  <1> QED
    BY <1>3, <1>4, <1>5 DEF ReadFile

(* Truncating: the caller is about to write.                                 *)
LEMMA TruncateStep ==
    ASSUME StoreInv, YamlInv, FileInv, NEW c \in Callers, Truncate(c), mode' = mode
    PROVE  FileInv'
  <1>1. /\ \A d \in Callers : run'[d] = IF d = c THEN "writeFile" ELSE run[d]
        /\ run[c] = "truncate" /\ file' = Unreadable /\ UNCHANGED <<next, copy, torn>>
    BY DEF Truncate, Go, StoreInv, StoreTypeOK
  <1>2. ByMode'
    BY <1>1 DEF FileInv, ByMode, Resting, Patching
  <1>3. ASSUME ~ torn PROVE WellFormed' /\ Passed' /\ Ended'
    <2>1. Passed'
      BY <1>1, <1>3 DEF FileInv, Passed, Patching
    <2> QED
      BY <1>1, <2>1 DEF WellFormed, Ended, Patching
  <1> QED
    BY <1>1, <1>2, <1>3 DEF FileInv

(* Writing: the copy is not behind what any other caller is past.            *)
LEMMA WriteFileStep ==
    ASSUME NobodyBehind, StoreInv, YamlInv, FileInv, NEW c \in Callers, WriteFile(c), mode' = mode
    PROVE  FileInv'
  <1> DEFINE n == Len(SubnetList)  k == next[c]
  <1>1. /\ run \in [Callers -> Places] /\ next \in [Callers -> 1..(n + 1)]
        /\ copy \in [Callers -> Files \cup {Unreadable}]
        /\ run[c] = "writeFile" /\ k \in 1..n /\ n \in Nat /\ mode = "yaml"
        /\ \A d \in Callers : run[d] \in Patching => next[d] \in 1..n
    BY SubnetsAre DEF StoreInv, StoreTypeOK, YamlInv, YamlTypeOK, FileInv, ByMode, WriteFile, Patching, Places
  <1>2. /\ next' = [next EXCEPT ![c] = k + 1]
        /\ \A d \in Callers : run'[d] = IF d = c THEN run'[c] ELSE run[d]
        /\ IF k < n THEN run'[c] = "readFile" ELSE run'[c] \in {"failed", "ok"}
    BY <1>1 DEF WriteFile, Advance, Go
  <1>3. ByMode'
    BY <1>1, <1>2 DEF FileInv, ByMode, Resting, Patching
  <1>4. CASE torn'
    BY <1>3, <1>4 DEF FileInv
  <1>5. CASE ~ torn'
    <2>1. ~ torn /\ file' = copy[c] /\ copy[c] \in Files /\ Carries(copy[c], k)
      BY <1>1, <1>5 DEF WriteFile, FileInv, Passed, Patching
    <2>2. file' # Unreadable
      BY <2>1, HAYamlAssumption
    <2>3. WellFormed'
      BY <1>1, <2>1, <2>2, ListedIsPlain DEF WellFormed, Carries
    <2>4. \A d \in Callers \ {c} : next'[d] = next[d] /\ copy'[d] = copy[d]
      BY <1>1, <1>2 DEF WriteFile
    <2>5. Passed'
      <3>1. ASSUME NEW d \in Callers, run'[d] \in Patching
            PROVE  /\ Carries(file', next'[d] - 1)
                   /\ run'[d] # "readFile" => copy'[d] \in Files /\ Carries(copy'[d], next'[d])
        <4>1. CASE d = c
          <5>1. next'[d] - 1 = k /\ run'[d] = "readFile"
            BY <1>1, <1>2, <3>1, <4>1 DEF Patching
          <5> QED
            BY <2>1, <5>1
        <4>2. CASE d # c
          <5>1. run[d] \in Patching /\ run'[d] = run[d] /\ next'[d] = next[d]
            BY <1>2, <2>4, <3>1, <4>2
          <5>2. next[d] - 1 \in Nat /\ next[d] - 1 <= k
            BY <1>1, <4>2, <5>1 DEF NobodyBehind
          <5>3. Carries(file', next[d] - 1)
            BY <1>1, <2>1, <5>2, CarriesFewer
          <5>4. run[d] # "readFile" => copy[d] \in Files /\ Carries(copy[d], next[d])
            BY <2>1, <5>1 DEF FileInv, Passed
          <5> QED
            BY <2>4, <4>2, <5>1, <5>3, <5>4
        <4> QED
          BY <4>1, <4>2
      <3> QED
        BY <3>1 DEF Passed
    <2>6. Ended'
      <3>1. CASE k < n
        BY <1>2, <3>1 DEF Ended, Patching
      <3>2. CASE ~ (k < n)
        <4>1. k = n
          BY <1>1, <3>2
        <4> QED
          BY <2>1, <2>2, <4>1 DEF Ended
      <3> QED
        BY <3>1, <3>2
    <2> QED
      BY <1>3, <2>3, <2>5, <2>6 DEF FileInv
  <1> QED
    BY <1>4, <1>5

(* Every step keeps the invariant of the file.                               *)
LEMMA FileStep ==
    ASSUME NobodyBehind, StoreInv, YamlInv, FileInv, [Next]_vars PROVE FileInv'
  <1>t. run \in [Callers -> Places]
    BY DEF StoreInv, StoreTypeOK, Places
  <1>1. ASSUME NEW c \in Callers, UpdateHAConfig(c) PROVE FileInv'
    <2>1. CASE mode = "yaml" /\ StartPatching(c)
      <3>1. /\ \A d \in Callers : /\ run'[d] = IF d = c THEN "readFile" ELSE run[d]
                                  /\ next'[d] = IF d = c THEN 1 ELSE next[d]
            /\ run[c] \notin Patching /\ UNCHANGED <<file, copy, torn, mode>>
        BY <1>1, <2>1 DEF UpdateHAConfig, StartPatching, Go, YamlInv, YamlTypeOK, StoreInv, StoreTypeOK,
                          Resting, Patching
      <3>2. ByMode'
        BY <2>1, <3>1 DEF FileInv, ByMode, Patching
      <3>3. ASSUME ~ torn PROVE WellFormed' /\ Passed' /\ Ended'
        <4>1. WellFormed'
          BY <3>1, <3>3 DEF FileInv, WellFormed, Patching
        <4>2. Passed'
          <5>1. ASSUME NEW d \in Callers, run'[d] \in Patching
                PROVE  /\ file # Unreadable => Carries(file, next'[d] - 1)
                       /\ run'[d] # "readFile" => copy[d] \in Files /\ Carries(copy[d], next'[d])
            <6>1. CASE d = c
              BY <3>1, <6>1 DEF Carries
            <6>2. CASE d # c
              BY <3>1, <3>3, <5>1, <6>2 DEF FileInv, Passed
            <6> QED
              BY <6>1, <6>2
          <5> QED
            BY <3>1, <5>1 DEF Passed
        <4> QED
          BY <3>1, <4>1, <4>2 DEF Ended, Patching
      <3> QED
        BY <3>1, <3>2, <3>3 DEF FileInv
    <2>2. CASE /\ UNCHANGED <<yamlVars, mode>> /\ run[c] \in Resting
               /\ Go(c, "version") \/ (mode # "yaml" /\ Go(c, "dial"))
      <3>1. /\ \A d \in Callers \ {c} : run'[d] = run[d]
            /\ run'[c] \in {"version", "dial"} /\ (mode = "yaml" => run'[c] = "version")
        BY <1>t, <2>2 DEF Go
      <3> QED
        BY <2>2, <3>1, OutsidePatch DEF Resting, Patching
    <2> QED
      BY <1>1, <2>1, <2>2 DEF UpdateHAConfig
  <1>2. ASSUME NEW c \in Callers, AskVersion(c) PROVE FileInv'
    <2>1. PICK place \in {"dial", "failed"} : Go(c, place) /\ (mode = "yaml" => place = "failed")
      BY <1>2 DEF AskVersion, GivesUp, Proceed
    <2> QED
      BY <1>t, <1>2, <2>1, OutsidePatch DEF AskVersion, Go, Patching
  <1>3. ASSUME NEW c \in Callers, StoreRun(c), UNCHANGED <<yamlVars, mode, mapped>> PROVE FileInv'
    <2>1. CASE Expire(c)
      BY <1>3, <2>1, OutsidePatch DEF Expire
    <2>2. CASE ~ Expire(c)
      <3>1. run[c] \in Calling \cup {"dial", "redial"}
        BY <1>3, <2>2 DEF StoreRun, Dial, CallFails, Read, Configure, Redial, Confirm, Promote, Recheck, Calling
      <3>2. PICK place \in Places \ Patching : Go(c, place)
        BY <1>3, <2>2 DEF StoreRun, Dial, CallFails, Read, Configure, Redial, Confirm, Promote, Recheck,
                          Connects, GivesUp, Proceed, Places, Patching, Resting, Calling
      <3>3. mode # "yaml"
        BY <3>1 DEF FileInv, ByMode, Calling, Resting, Patching
      <3>4. run'[c] = place /\ \A d \in Callers \ {c} : run'[d] = run[d]
        BY <1>t, <3>2 DEF Go
      <3> QED
        BY <1>3, <3>1, <3>3, <3>4, OutsidePatch DEF Calling, Patching
    <2> QED
      BY <2>1, <2>2
  <1>4. ASSUME NEW c \in Callers, YamlRun(c), UNCHANGED <<mode, mapped>> PROVE FileInv'
    BY <1>4, ReadFileStep, TruncateStep, WriteFileStep DEF YamlRun
  <1>5. CASE run' = run /\ UNCHANGED <<yamlVars, mode>>
    BY <1>5 DEF yamlVars, FileInv, ByMode, WellFormed, Passed, Ended
  <1>6. CASE Crash
    <2>1. /\ \A c \in Callers : run'[c] = "idle"
          /\ (torn' <=> torn \/ \E c \in Callers : run[c] = "writeFile")
          /\ UNCHANGED <<file, mode>>
      BY <1>6 DEF Crash
    <2>2. ASSUME ~ torn' PROVE WellFormed' /\ Passed' /\ Ended'
      BY <2>1, <2>2 DEF FileInv, WellFormed, Passed, Ended, Patching
    <2>3. ByMode'
      BY <2>1 DEF ByMode, Resting, Patching
    <2> QED
      BY <2>2, <2>3 DEF FileInv
  <1>7. CASE CoreNext /\ UNCHANGED <<yamlVars, mode, mapped>>
    <2>1. run' = run
      BY <1>7 DEF CoreNext, CoreStops, CoreStarts, CoreRuns, CoreRestarts, Revert,
                  UserApplies, UserConfirms, runVars
    <2> QED
      BY <1>5, <1>7, <2>1
  <1>8. CASE UNCHANGED vars
    BY <1>5, <1>8 DEF vars, storeVars, runVars
  <1> QED
    BY <1>1, <1>2, <1>3, <1>4, <1>6, <1>7, <1>8 DEF Next, Continue

(***************************************************************************)
(* The file ends with every subnet, also when an expose request patches it *)
(* while the run of the boot does, and whatever crashes, if it gave        *)
(* trusted_proxies at most once and as a list, no two writes mixed, and    *)
(* either there are no more than two subnets or only one caller at a time. *)
(***************************************************************************)
THEOREM FileTrustsEverySubnet ==
    ASSUME PlainFiles, NobodyBehind PROVE Spec => []FileEndsTrusted
  <1>1. YamlInv /\ FileInv => FileEndsTrusted
    <2> SUFFICES ASSUME YamlInv, FileInv, mode = "yaml", ~ torn,
                        \A d \in Callers : run[d] \notin Patching,
                        NEW c \in Callers, run[c] = "ok"
                 PROVE  FileTrusts(file)
      BY DEF FileEndsTrusted
    <2>1. file # Unreadable /\ Carries(file, Len(SubnetList))
      BY DEF FileInv, Ended
    <2>2. Listed(file) /\ \A j \in 1..Len(SubnetList) : SubnetList[j] \in file.lists[1]
      BY <2>1, SubnetsAre DEF Carries
    <2>3. PICK list \in SUBSET (Subnets \cup Foreign) : file.lists = <<list>>
      BY <2>2 DEF Listed
    <2>4. Len(file.lists) = 1 /\ file.lists # <<>> /\ file.lists[1] = list /\ list # Scalar
      BY <2>3, HAYamlAssumption
    <2>5. Subnets \subseteq list
      BY <2>2, <2>4, SubnetsAre
    <2>6. file \in Files /\ file.forwarded
      BY <2>1, <2>2 DEF YamlInv, YamlTypeOK, Listed
    <2> QED
      BY <2>4, <2>5, <2>6 DEF FileTrusts
  <1>2. Init => FileInv
    BY FileInit
  <1>3. StoreInv /\ YamlInv /\ FileInv /\ [Next]_vars => FileInv'
    BY FileStep
  <1> QED
    BY <1>1, <1>2, <1>3, StoreInitOK, StoreStep, YamlInitOK, YamlStep, PTL DEF Spec
=============================================================================
