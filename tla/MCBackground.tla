---------------------------- MODULE MCBackground ----------------------------
(***************************************************************************)
(* The background goroutines for TLC, for what must come about: the        *)
(* health checker, the tasks a shutdown waits for, the alert dispatcher    *)
(* and the live feed.  They share no state, so one run checks them side by *)
(* side: a behaviour is about one of them and the others rest.             *)
(***************************************************************************)
EXTENDS MCChecker, Telemetry, Alerts, Hub

VARIABLE about

Parts == {"checker", "telemetry", "alerts", "hub"}

backgroundVars == <<vars, telemetryVars, alertVars, hubVars>>

BackgroundInit ==
    /\ about \in Parts
    /\ Init
    /\ TelemetryInit /\ keeps = {"counts", "entries"}
    /\ AlertsInit /\ \A c \in 1 .. Channels : stored[c] = [enabled |-> TRUE, interval |-> Day]
    /\ HubInit

BackgroundNext ==
    /\ UNCHANGED about
    /\ \/ about = "checker" /\ Next /\ UNCHANGED <<telemetryVars, alertVars, hubVars>>
       \/ about = "telemetry" /\ TelemetryNext /\ UNCHANGED <<vars, alertVars, hubVars>>
       \/ about = "alerts" /\ AlertsNext /\ UNCHANGED <<vars, telemetryVars, hubVars>>
       \/ about = "hub" /\ HubNext /\ UNCHANGED <<vars, telemetryVars, alertVars>>

\* Fairness is asked of the part that moves.
BackgroundFairness ==
    \/ about = "checker" /\ Fairness
    \/ about = "telemetry" /\ TelemetryFairness
    \/ about = "alerts" /\ AlertsFairness
    \/ about = "hub" /\ HubFairness

BackgroundSpec == BackgroundInit /\ [][BackgroundNext]_<<about, backgroundVars>> /\ BackgroundFairness
=============================================================================
