----------------------------- MODULE PortJanitor -----------------------------
(***************************************************************************)
(* cleanup_port_mappings of watchdog/scripts/network-utilities.py.  After  *)
(* kubectl is switched to the cluster, the node ports in use are collected *)
(* namespace by namespace; then, zone by zone, the port mappings are read  *)
(* and those not in use are dropped, by writing back the others.  The      *)
(* services are those of the context kubectl was switched to last.         *)
(***************************************************************************)
EXTENDS Kubectl, Naturals, Sequences, FiniteSets

CONSTANTS
  port_context,       \* k8s_context, the option of this command
  ServiceNamespace, Zone, Port,
  MaxDeploys          \* bound

ASSUME PortJanitorAssumption == MaxDeploys \in Nat /\ port_context \in Cluster

VARIABLES
  services,      \* context -> namespace -> node ports in use
  mappings,      \* zone -> ports mapped
  port_pc, toScan, toPrune,
  active_ports, existing_mappings, zone,
  deploys,
  since          \* history: ports that got a service since the scan began

portState == <<services, mappings, port_pc, toScan, toPrune, active_ports, existing_mappings,
               zone, deploys, since>>
portVars == <<current, portState>>

PortInit ==
  /\ current \in Cluster
  /\ services \in [Cluster -> {s \in [ServiceNamespace -> SUBSET Port] :
       \A m, n \in ServiceNamespace : m # n => s[m] \cap s[n] = {}}]
  /\ mappings \in [Zone -> SUBSET Port]
  /\ port_pc = "context" /\ toScan = ServiceNamespace /\ toPrune = Zone
  /\ active_ports = {} /\ existing_mappings = {} /\ zone \in Zone
  /\ deploys = 0 /\ since = {}

\* kubectl config use-context
use_port_context ==
  /\ port_pc = "context" /\ port_pc' = "scan" /\ use_cluster(port_context)
  /\ UNCHANGED <<services, mappings, toScan, toPrune, active_ports, existing_mappings, zone,
                 deploys, since>>

\* get_active_node_ports: one namespace of those listed
get_services ==
  /\ port_pc = "scan" /\ toScan # {}
  /\ \E ns \in toScan : /\ active_ports' = active_ports \cup services[current][ns]
                        /\ toScan' = toScan \ {ns}
  /\ UNCHANGED <<current, services, mappings, port_pc, toPrune, existing_mappings, zone,
                 deploys, since>>

\* get_mapped_ports of the next zone
get_mapped_ports ==
  /\ port_pc = "scan" /\ toScan = {} /\ toPrune # {} /\ port_pc' = "set"
  /\ \E z \in toPrune : /\ zone' = z /\ toPrune' = toPrune \ {z}
                        /\ existing_mappings' = mappings[z]
  /\ UNCHANGED <<current, services, mappings, toScan, active_ports, deploys, since>>

\* set_port_mappings with the mappings that are in use
set_port_mappings ==
  /\ port_pc = "set" /\ port_pc' = "scan"
  /\ mappings' = [mappings EXCEPT ![zone] = existing_mappings \cap active_ports]
  /\ UNCHANGED <<current, services, toScan, toPrune, active_ports, existing_mappings, zone,
                 deploys, since>>

\* kubectl or gcloud fails, at any of its calls: execute_command ends the program.
port_command_fails ==
  /\ port_pc \in {"context", "scan", "set"} /\ (port_pc = "scan" => toScan # {} \/ toPrune # {})
  /\ port_pc' = "aborted"
  /\ UNCHANGED <<current, services, mappings, toScan, toPrune, active_ports, existing_mappings,
                 zone, deploys, since>>

\* A service with a port of its own is deployed and mapped while this runs (external).
Deploys ==
  /\ deploys < MaxDeploys /\ deploys' = deploys + 1
  /\ \E ns \in ServiceNamespace, z \in Zone, q \in Port :
       /\ \A m \in ServiceNamespace : q \notin services[port_context][m]
       /\ services' = [services EXCEPT ![port_context][ns] = @ \cup {q}]
       /\ mappings' = [mappings EXCEPT ![z] = @ \cup {q}]
       /\ since' = IF port_pc = "context" THEN since ELSE since \cup {q}
  /\ UNCHANGED <<current, port_pc, toScan, toPrune, active_ports, existing_mappings, zone>>

PortNext ==
  \/ use_port_context \/ get_services \/ get_mapped_ports \/ set_port_mappings
  \/ port_command_fails \/ Deploys

-----------------------------------------------------------------------------
InUse == UNION {services[port_context][ns] : ns \in ServiceNamespace}

\* A mapping that goes is of a port no service had when the scan began.
OnlyUnusedGo ==
  \A z \in Zone : mappings[z] \ mappings'[z] \subseteq (Port \ InUse) \cup since

\* What is left of a zone when it is written is in use, and nothing was mapped
\* that was not.
OnlyUsedAreLeft ==
  port_pc = "set" /\ port_pc' = "scan" =>
    mappings'[zone] \subseteq InUse \cap mappings[zone]
=============================================================================
