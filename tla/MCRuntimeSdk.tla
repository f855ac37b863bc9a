---------------------------- MODULE MCRuntimeSdk ----------------------------
(***************************************************************************)
(* What the clients of the platform do, side by side.  A behaviour is one  *)
(* of                                                                      *)
(*   "call":    ModelCall, a call of an SDK or the connector;              *)
(*   "refresh": RuntimeClient, its configuration;                          *)
(*   "gateway": GatewayUsage, the usage of a request served by LiteLLM;    *)
(*   "beats":   ConnectorHeartbeat, what is known of the connector;        *)
(* and leaves the other parts in an initial state.                         *)
(***************************************************************************)
EXTENDS ModelCall

CONSTANTS Background, Manual, MaxVersion, Unsupported, MaxRefreshFaults, None

VARIABLES half,
          kind, latest, acked, snapshot, file, pending, loop, refreshFaults,
          request, attempts, spool, normalized, full,
          clock, skew, beats, underway, receipts, instance, registered, connection, slips

Refresh == INSTANCE RuntimeClient WITH MaxFaults <- MaxRefreshFaults, faults <- refreshFaults

Gateway == INSTANCE GatewayUsage WITH
    MaxTokens <- 1, MaxCandidates <- 2, MaxAttempts <- 2, MaxVaried <- 1

Beats == INSTANCE ConnectorHeartbeat WITH
    MaxTime <- 2, Skews <- {0, 2}, MaxSkew <- 1, StaleAfter <- 1, OfflineAfter <- 1,
    MaxBeats <- 2, MaxSlips <- 1

refreshVars == <<kind, latest, acked, snapshot, file, pending, loop, refreshFaults>>
gatewayVars == <<request, attempts, spool, normalized, full>>
beatVars == <<clock, skew, beats, underway, receipts, instance, registered, connection, slips>>
allVars == <<half, vars, refreshVars, gatewayVars, beatVars>>

SdkInit ==
    /\ half \in {"call", "refresh", "gateway", "beats"}
    /\ Init /\ Refresh!Init /\ Gateway!Init /\ Beats!Init
    /\ half # "refresh" => kind = "sdk"
    /\ half # "call" => client = [kind |-> "node", failClosed |-> TRUE, hardLimit |-> TRUE]
    /\ half # "beats" => skew = 0

(* A request at the proxy and the heartbeats come to rest by themselves.   *)
SdkNext ==
    /\ UNCHANGED half
    /\ \/ half = "call" /\ Next /\ UNCHANGED <<refreshVars, gatewayVars, beatVars>>
       \/ half = "refresh" /\ Refresh!Next /\ UNCHANGED <<vars, gatewayVars, beatVars>>
       \/ half = "gateway" /\ Gateway!Next /\ UNCHANGED <<vars, refreshVars, beatVars>>
       \/ half = "beats" /\ Beats!Next /\ UNCHANGED <<vars, refreshVars, gatewayVars>>
       \/ half \in {"gateway", "beats"} /\ UNCHANGED allVars

(* The fairness of the first two modules, each in its own half.            *)
SdkFairness ==
    /\ WF_vars(half = "call" /\ Steps)
    /\ WF_vars(half = "call" /\ Expire)
    /\ \A i \in 1..MaxEvents : WF_vars(half = "call" /\ (Commit(i) \/ DeadLetter(i)))
    /\ WF_refreshVars(half = "refresh" /\ Refresh!Step(Background))
    /\ WF_refreshVars(half = "refresh" /\ loop[Manual].at # "idle" /\ Refresh!Step(Manual))

SdkSpec ==
    /\ SdkInit
    /\ [][SdkNext]_allVars
    /\ SdkFairness

(* What the clients tell the control plane is so: acknowledgements of      *)
(* configuration versions (RuntimeClient), usage events and the lines made *)
(* of them (GatewayUsage) and heartbeats (ConnectorHeartbeat).             *)
ReportsAreTrue == Refresh!ReportsAreTrue /\ Gateway!EventsAreTrue /\ Beats!HeartbeatsAreTrue

(* The other properties of RuntimeClient, stated there.                    *)
NeverOlder == Refresh!NeverOlder
NewestTakesEffect == Refresh!NewestTakesEffect
=============================================================================
