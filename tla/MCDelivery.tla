------------------------------- MODULE MCDelivery -------------------------------
(***************************************************************************)
(* Six components between the streams of ticks, configurations and events  *)
(* and the clients that are served from them, checked in one run.  They    *)
(* share no state, so a behaviour of the run is a behaviour of one of      *)
(* them: part says of which.                                               *)
(***************************************************************************)
EXTENDS Connections, FrequencyFeed, TickStreams, SignalConfigs, RegistryEvents,
        GreeksCache, TLC

CONSTANTS s1, s2, s3, fast, slow

MCOwner == (s1 :> "ann") @@ (s2 :> "ann") @@ (s3 :> "bob")
MCInterval == (fast :> 2) @@ (slow :> 3)

VARIABLE part

Parts == {"connections", "feed", "ticks", "configs", "registry", "greeks"}

allVars == <<wsVars, feedVars, tickVars, configVars, registryVars, greeksVars>>

PartsInit ==
    /\ part \in Parts
    /\ ConnectionsInit /\ FeedInit /\ TicksInit /\ ConfigsInit /\ RegistryInit /\ GreeksInit
    /\ part # "ticks" => configured = {}
    /\ part # "greeks" => spot = QuietTask.spot

\* What the others keep while one of them moves.
BesideConnections == UNCHANGED <<part, feedVars, tickVars, configVars, registryVars, greeksVars>>
BesideFeed == UNCHANGED <<part, wsVars, tickVars, configVars, registryVars, greeksVars>>
BesideTicks == UNCHANGED <<part, wsVars, feedVars, configVars, registryVars, greeksVars>>
BesideConfigs == UNCHANGED <<part, wsVars, feedVars, tickVars, registryVars, greeksVars>>
BesideRegistry == UNCHANGED <<part, wsVars, feedVars, tickVars, configVars, greeksVars>>
BesideGreeks == UNCHANGED <<part, wsVars, feedVars, tickVars, configVars, registryVars>>

PartsNext ==
    \/ part = "connections" /\ ConnectionsNext /\ BesideConnections
    \/ part = "feed" /\ FeedNext /\ BesideFeed
    \/ part = "ticks" /\ TicksNext /\ BesideTicks
    \/ part = "configs" /\ ConfigsNext /\ BesideConfigs
    \/ part = "registry" /\ RegistryNext /\ BesideRegistry
    \/ part = "greeks" /\ GreeksNext /\ BesideGreeks

\* The fairness of the specification of each part.
PartsSpec ==
    /\ PartsInit /\ [][PartsNext]_<<part, allVars>>
    /\ \A p \in Processors : WF_tickVars(part = "ticks" /\ Step(p) /\ BesideTicks)
    /\ \A h \in Handlers : WF_configVars(part = "configs" /\ HandlerStep(h) /\ BesideConfigs)
    /\ WF_registryVars(part = "registry" /\ ConsumerStep /\ BesideRegistry)
    /\ WF_registryVars(part = "registry" /\ StopReturns /\ BesideRegistry)
=================================================================================
