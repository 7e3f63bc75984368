----------------------------- MODULE MCMonitoring -----------------------------
(***************************************************************************)
(* Model-checking instance of what watches the system: the anomaly engine, *)
(* the traffic monitor, tickets and pairing codes, the model registry.  A  *)
(* scene takes the operations that bear on each other.                     *)
(***************************************************************************)
EXTENDS Anomalies, Traffic, OneTimeCodes, Registry

CONSTANT MaxClock
VARIABLE scene

MCSerials == [j1 |-> "disk", j2 |-> "disk"]
MCFar == {<<"home", "abroad">>}
Smart(r, h, f, n) == [reallocated |-> r, hot |-> h, failing |-> f, nvme_hot |-> n]
MCSnapshots == {Smart(TRUE, TRUE, FALSE, TRUE), Smart(FALSE, FALSE, TRUE, FALSE),
                Smart(FALSE, FALSE, FALSE, FALSE)}

\* The two threads of the scenes with jobs, which wipe the one drive.
ASSUME MCMonitoringAssumption ==
  /\ {"j1", "j2"} \subseteq Jobs /\ \E j \in Jobs : serial_of[j] = "disk"

vars == <<clock, anomalyVars, registryVars, trafficVars, codeVars, scene>>

MCInit ==
  /\ AnomaliesInit /\ RegistryInit /\ TrafficInit /\ CodesInit
  /\ scene \in {"failures", "logins", "drives", "jobs", "batch", "traffic", "sockets", "pairing", "models"}
  /\ scene # "models" => promotes /\ global = 0

In(s) == scene = s /\ UNCHANGED scene
Others == UNCHANGED <<registryVars, trafficVars, codeVars>>

Callers ==
  \/ In("failures") /\ \E e \in Emails, ip \in Addresses : LoginFailed(e, ip)
  \/ In("logins")   /\ Len(logins) < 3 /\ \E user \in Users, ip \in Addresses : LoginSuccess(user, ip)
  \/ In("drives")   /\ (RoleRises \/ \E s \in Snapshots : DeviceSeen("disk", s))
  \/ In("jobs")     /\ \E j \in Jobs : JobCompleted(j) \/ JobChecked(j)
  \/ In("batch")    /\ (JobCompleted("j1") \/ JobChecked("j1") \/ JobFailed("j2") \/ Nightly("j1"))
Recorders ==
  /\ scene \in {"failures", "logins", "drives", "jobs", "batch"} /\ UNCHANGED scene
  /\ \/ Acknowledge \/ Crash \/ \E t \in Threads : Record(t)
     \/ scene \in {"failures", "logins"} /\ Tick

Ticks == /\ clock < MaxClock /\ clock' = clock + 1
         /\ UNCHANGED <<anomalyVars, trafficVars, codeVars>>

MCNext ==
  \/ Callers /\ Others
  \/ Recorders /\ Others
  \/ In("traffic") /\ Monitor /\ UNCHANGED <<anomalyVars, codeVars, registryVars>>
  \/ In("sockets") /\ Sockets /\ UNCHANGED <<anomalyVars, trafficVars, registryVars>>
  \/ In("pairing") /\ Pairing /\ UNCHANGED <<anomalyVars, trafficVars, registryVars>>
  \/ In("models")  /\ Models /\ UNCHANGED <<clock, anomalyVars, trafficVars, codeVars>>
  \/ scene \in {"traffic", "sockets", "pairing"} /\ Ticks /\ UNCHANGED <<registryVars, scene>>

MCSpec == MCInit /\ [][MCNext]_vars

=============================================================================
