------------------------------ MODULE HAStore ------------------------------
(***************************************************************************)
(* The Home Assistant add-on and the store in which Home Assistant Core    *)
(* keeps its http configuration since 2026.8 (pkg/haaddon/httpstore.go,    *)
(* client.go).  A configuration is tried: Core stages it, restarts into    *)
(* it, and reverts to the confirmed one some minutes later unless it is    *)
(* promoted.                                                               *)
(*                                                                         *)
(* A caller is a goroutine that runs UpdateHAConfig.  Every call over the  *)
(* websocket is one action; Core and its users act between any two.        *)
(***************************************************************************)
CONSTANTS Callers,       \* goroutines of UpdateHAConfig that exist together
          Subnets,       \* the networks the add-on wants to be trusted
          Foreign,       \* what others have put in the configuration
          UserConfigs,   \* bound: configurations that users apply
          NoConfig       \* nothing is staged

\* trusted_proxies and use_x_forwarded_for; what else a configuration holds
\* goes the way of the entries in Foreign.
Configs == [proxies: SUBSET (Subnets \cup Foreign), forwarded: BOOLEAN]

ASSUME HAStoreAssumption == UserConfigs \subseteq Configs /\ NoConfig \notin Configs

VARIABLES core,       \* Core: up, stopping, down or starting
          stable,     \* the configuration last confirmed
          pending,    \* the one staged, or NoConfig
          failed,     \* pending carries an error: its trial is over
          run,        \* where each caller is; ok and failed end a run
          live,       \* callers whose connection to Core works
          want,       \* what a caller is about to send to Core
          expired,    \* callers whose retryTimeout is over
          disturbed   \* history: callers during whose run a user changed the
                      \* configuration or Core gave a trial up

coreVars == <<core, stable, pending, failed>>
runVars == <<run, live, want, expired>>
storeVars == <<coreVars, runVars, disturbed>>

Resting == {"idle", "ok", "failed"}
Calling == {"read", "configure", "confirm", "promote", "recheck"}
Patching == {"readFile", "truncate", "writeFile"}    \* see HAYaml

Go(c, place) == run' = [run EXCEPT ![c] = place]

\* A run that is over closes its connection and stops its timer.
Over(place, c) == IF place \in Resting THEN {c} ELSE {}

Proceed(c, place) == /\ Go(c, place)
                     /\ live' = live \ Over(place, c)
                     /\ expired' = expired \ Over(place, c)

-----------------------------------------------------------------------------
(* Configurations *)

OnTrial == pending # NoConfig /\ ~ failed

\* What Core runs, or is about to.
Active == IF OnTrial THEN pending ELSE stable

\* Mutant: a configuration that failed its trial is built upon.
ActiveOrFailed == IF pending # NoConfig THEN pending ELSE stable

\* What configureTrustedProxies builds upon.
Base == IF OnTrial THEN pending ELSE stable

WithTrustedProxies(base) ==
    [proxies |-> base.proxies \cup Subnets, forwarded |-> TRUE]

Trusts(config) == WithTrustedProxies(config) = config

-----------------------------------------------------------------------------
(* The add-on *)

\* Mutant: whenReady tries without end.
ConnectsLate(c, place) ==
    /\ core # "down"
    /\ live' = IF core = "stopping" THEN live \ {c} ELSE live \cup {c}
    /\ Go(c, place)
    /\ UNCHANGED <<want, expired>>

\* Connecting to a Core that is still shutting down looks like a success.
Connects(c, place) ==
    /\ core # "down" /\ c \notin expired
    /\ live' = IF core = "stopping" THEN live \ {c} ELSE live \cup {c}
    /\ Go(c, place)
    /\ UNCHANGED <<want, expired>>

\* whenReady tries again while Core is not there, until its time is up.  Any
\* other error is final: a refused token, which the Supervisor's proxy also
\* gives while Core is down, or a reply that is none.
GivesUp(c) == Proceed(c, "failed") /\ UNCHANGED want

Dial(c) ==
    /\ run[c] = "dial"
    /\ Connects(c, "read") \/ GivesUp(c)
    /\ UNCHANGED <<coreVars, disturbed>>

\* A call fails, and that is final: its connection broke, Core refuses it, or
\* the reply cannot be read.
CallFails(c) ==
    /\ run[c] \in Calling
    /\ Proceed(c, "failed")
    /\ want' = [want EXCEPT ![c] = NoConfig]
    /\ UNCHANGED <<coreVars, disturbed>>

\* Mutant: a trial that trusts the add-on is left alone.
ReadAndLeave(c) ==
    /\ run[c] = "read" /\ c \in live
    /\ \/ Trusts(Base) /\ Proceed(c, "ok") /\ UNCHANGED want
       \/ /\ ~ Trusts(Base)
          /\ Proceed(c, "configure")
          /\ want' = [want EXCEPT ![c] = WithTrustedProxies(Base)]
    /\ UNCHANGED <<coreVars, disturbed>>

\* The first half of configureTrustedProxies.
Read(c) ==
    /\ run[c] = "read" /\ c \in live
    /\ \/ /\ Trusts(Base)
          /\ Proceed(c, IF OnTrial THEN "confirm" ELSE "ok")
          /\ UNCHANGED want
       \/ /\ ~ Trusts(Base)
          /\ Proceed(c, "configure")
          /\ want' = [want EXCEPT ![c] = WithTrustedProxies(Base)]
    /\ UNCHANGED <<coreVars, disturbed>>

\* Core stages a configuration and restarts, which breaks all connections.
Stage(config) ==
    /\ pending' = config /\ failed' = FALSE
    /\ core' = "stopping" /\ live' = {}
    /\ UNCHANGED stable

\* Core refuses while it starts, and restarts unless it runs that configuration
\* already.  The reply to the call may be lost.
Configure(c) ==
    /\ run[c] = "configure" /\ c \in live
    /\ \/ /\ core = "starting"
          /\ Go(c, "dial") /\ live' = live \ {c}
          /\ UNCHANGED <<coreVars, expired>>
       \/ /\ core = "up"
          /\ IF want[c] = Active
             THEN Proceed(c, "confirm") /\ UNCHANGED coreVars
             ELSE /\ Stage(want[c])
                  /\ \/ Go(c, "redial") /\ UNCHANGED expired
                     \/ Go(c, "failed") /\ expired' = expired \ {c}
    /\ want' = [want EXCEPT ![c] = NoConfig]
    /\ UNCHANGED disturbed

\* Its own timeout is an error that whenReady may take for a Core that is not
\* ready, and begin again.
Redial(c) ==
    /\ run[c] = "redial"
    /\ \/ Connects(c, "confirm")
       \/ GivesUp(c)
       \/ Go(c, "dial") /\ UNCHANGED <<live, want, expired>>
    /\ UNCHANGED <<coreVars, disturbed>>

Confirm(c) ==
    /\ run[c] = "confirm" /\ c \in live
    /\ Proceed(c, IF OnTrial THEN "promote" ELSE "ok")
    /\ UNCHANGED <<coreVars, want, disturbed>>

\* Mutant: whatever is in the slot is promoted.
PromotedBlind == /\ stable' = pending /\ pending' = NoConfig
                 /\ UNCHANGED <<core, failed>>

Promoted == /\ OnTrial
            /\ stable' = pending /\ pending' = NoConfig
            /\ UNCHANGED <<core, failed>>

\* What is on trial is promoted, whoever staged it; the reply may be lost.  Or
\* Core refuses.
Promote(c) ==
    /\ run[c] = "promote" /\ c \in live
    /\ \/ Promoted /\ \E end \in {"ok", "failed"} : Proceed(c, end)
       \/ Proceed(c, "recheck") /\ UNCHANGED coreVars
    /\ UNCHANGED <<want, disturbed>>

\* "Re-read before calling a lost race a failure."
Recheck(c) ==
    /\ run[c] = "recheck" /\ c \in live
    /\ Proceed(c, IF OnTrial THEN "failed" ELSE "ok")
    /\ UNCHANGED <<coreVars, want, disturbed>>

Expire(c) ==
    /\ run[c] \notin Resting /\ c \notin expired
    /\ expired' = expired \cup {c}
    /\ UNCHANGED <<coreVars, run, live, want, disturbed>>

StoreRun(c) == \/ Dial(c) \/ CallFails(c) \/ Read(c) \/ Configure(c) \/ Redial(c)
               \/ Confirm(c) \/ Promote(c) \/ Recheck(c) \/ Expire(c)

-----------------------------------------------------------------------------
(* Core and its users *)

Running == {c \in Callers : run[c] \notin Resting}

CoreStops ==
    /\ core = "stopping" /\ core' = "down"
    /\ UNCHANGED <<stable, pending, failed, runVars, disturbed>>

\* Core drops a trial that equals the confirmed configuration, tries another
\* one, or fails to apply it.
CoreStarts ==
    /\ core = "down" /\ core' = "starting"
    /\ \/ ~ OnTrial /\ UNCHANGED <<pending, failed, disturbed>>
       \/ /\ OnTrial /\ pending' = IF pending = stable THEN NoConfig ELSE pending
          /\ UNCHANGED <<failed, disturbed>>
       \/ /\ OnTrial /\ pending # stable
          /\ failed' = TRUE /\ disturbed' = Running
          /\ UNCHANGED pending
    /\ UNCHANGED <<stable, runVars>>

CoreRuns ==
    /\ core = "starting" /\ core' = "up"
    /\ UNCHANGED <<stable, pending, failed, runVars, disturbed>>

CoreRestarts ==
    /\ core = "up" /\ core' = "stopping" /\ live' = {}
    /\ UNCHANGED <<stable, pending, failed, run, want, expired, disturbed>>

Revert ==
    /\ OnTrial /\ core \in {"starting", "up"}
    /\ failed' = TRUE /\ core' = "stopping" /\ live' = {}
    /\ disturbed' = Running
    /\ UNCHANGED <<stable, pending, run, want, expired>>

UserApplies ==
    /\ core = "up"
    /\ \E config \in UserConfigs \ {Active} : Stage(config)
    /\ disturbed' = Running
    /\ UNCHANGED <<run, want, expired>>

UserConfirms == core = "up" /\ Promoted /\ UNCHANGED <<runVars, disturbed>>

CoreNext == \/ CoreStops \/ CoreStarts \/ CoreRuns \/ CoreRestarts
            \/ Revert \/ UserApplies \/ UserConfirms

-----------------------------------------------------------------------------

StoreInit ==
    /\ core \in {"down", "up"}
    /\ stable \in UserConfigs /\ pending = NoConfig /\ failed = FALSE
    /\ run = [c \in Callers |-> "idle"]
    /\ live = {} /\ expired = {} /\ disturbed = {}
    /\ want = [c \in Callers |-> NoConfig]

StoreTypeOK ==
    /\ core \in {"up", "stopping", "down", "starting"}
    /\ stable \in Configs /\ pending \in Configs \cup {NoConfig} /\ failed \in BOOLEAN
    /\ run \in [Callers -> Resting \cup Calling \cup {"version", "dial", "redial"} \cup Patching]
    /\ live \subseteq Callers /\ expired \subseteq Callers /\ disturbed \subseteq Callers
    /\ want \in [Callers -> Configs \cup {NoConfig}]

\* Each round trip reads a configuration and later sends one that replaces it
\* as a whole, with nothing that compares the two.  What the add-on stages is
\* nevertheless what Core has at that moment plus the missing subnets, however
\* callers and users overlap, and Core is restarted only when it does not trust
\* the add-on ("settings we have no opinion on survive the round trip").
StagesWhatIsMissing == [][\A c \in Callers :
    run[c] = "configure" /\ run'[c] # "configure" /\ core = "up" /\ core' = "stopping"
        => ~ Trusts(Active) /\ pending' = WithTrustedProxies(Active)]_storeVars

\* A run that ends well leaves Core with a confirmed configuration that trusts
\* the add-on, unless a user or Core interfered with it: also when it resumes
\* what a crash interrupted and when it shares the trial with another caller.
OkIsTrusted == [][\A c \in Callers :
    run[c] \in Calling /\ run'[c] = "ok" /\ c \notin disturbed
        => Trusts(stable') /\ (pending' = NoConfig \/ failed')]_storeVars

\* A run ends, whatever Core does.
RunEnds == \A c \in Callers : run[c] \notin Resting ~> run[c] \in Resting
=============================================================================
