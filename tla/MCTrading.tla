-------------------------------- MODULE MCTrading --------------------------------
(***************************************************************************)
(* Five services that work for one user's positions, checked in one run:   *)
(* trailing stops, strategies, alerts, the caches of the metadata all      *)
(* three ask for, and the clients of the brokers.  They share no state, so *)
(* a behaviour of the run is one of one of them: part says of which.       *)
(***************************************************************************)
EXTENDS TrailingStops, Strategies, Alerts, MetadataCaches, Brokers

CONSTANTS n1, n2

VARIABLE part

allVars == <<stopVars, strategyVars, alertVars, metadataVars, brokerVars>>

PartsInit ==
    /\ part \in {"stops", "strategies", "alerts", "metadata", "brokers"}
    /\ StopsInit /\ StrategyInit /\ AlertsInit /\ MetadataInit /\ BrokersInit
    /\ alert["a1"].instrument = n1   \* the instruments are alike
    /\ part # "alerts" =>
          \A a \in AlertIds : alert[a].instrument = n1 /\ alert[a].kind = "price"

\* What the others keep while one of them moves.
BesideStops == UNCHANGED <<part, strategyVars, alertVars, metadataVars, brokerVars>>
BesideStrategies == UNCHANGED <<part, stopVars, alertVars, metadataVars, brokerVars>>
BesideAlerts == UNCHANGED <<part, stopVars, strategyVars, metadataVars, brokerVars>>
BesideMetadata == UNCHANGED <<part, stopVars, strategyVars, alertVars, brokerVars>>
BesideBrokers == UNCHANGED <<part, stopVars, strategyVars, alertVars, metadataVars>>

\* Calls of the brokers are alike: they are named in the order they begin.
NamedInOrder ==
    /\ making["m2"] # "new" => making["m1"] # "new"
    /\ order["b2"].at # "new" => order["b1"].at # "new"

PartsNext ==
    \/ part = "stops" /\ StopsNext /\ BesideStops
    \/ part = "strategies" /\ StrategyNext /\ BesideStrategies
    \/ part = "alerts" /\ AlertsNext /\ BesideAlerts
    \/ part = "metadata" /\ MetadataNext /\ BesideMetadata
    \/ part = "brokers" /\ BrokersNext /\ NamedInOrder' /\ BesideBrokers

\* The fairness of the specification of each part.
PartsSpec ==
    /\ PartsInit /\ [][PartsNext]_<<part, allVars>>
    /\ WF_stopVars(part = "stops" /\ StopLoop /\ BesideStops)
    /\ WF_alertVars(part = "alerts" /\ MonitoringStep /\ BesideAlerts)

\* Metadata and brokers promise by their states alone.
ClientsPromise == MetadataPromise /\ BrokersPromise
==================================================================================
