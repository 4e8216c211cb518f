------------------------------ MODULE MCScripts ------------------------------
(***************************************************************************)
(* The programs that are run by hand or by a schedule: the one that makes  *)
(* the genesis ledger, the one that compares the nodes' best tips, the one *)
(* that draws blocks and gossip from the logs, the two clean-up commands   *)
(* of network-utilities.py and the exporter of the build jobs' metrics.    *)
(* `script' names the one that runs, and the others stay as they start.    *)
(* Of the clean-up commands, which share the configuration of kubectl,     *)
(* both run, one of them on clusters that have nothing for it.             *)
(***************************************************************************)
EXTENDS GenesisLedger, TestnetDrawings, NetworkUtilities, BuildkiteExporter

VARIABLE script

\* A staker of the community, and one who gives a whale's key.
MCRowKey == {Key("csv", 1), Key("online_whale", 1)}

scriptVars == <<ledgerVars, compareVars, visualizerVars, cleanupVars, exporterVars>>

\* Chains that begin at block a, of which one is a prefix of another and two
\* fork, and one that begins later.
MCChains == {<<"a", "b">>, <<"a", "b", "c">>, <<"a", "d">>, <<"b", "c">>}

\* A chain of three links with a fork on its second block.
MCParent == [h \in {"b", "c", "d", "e"} |->
               CASE h = "b" -> "a" [] h = "c" -> "b" [] h = "d" -> "c" [] h = "e" -> "b"]

\* Two clusters with namespaces of the same names; two patterns, of which both
\* match the second name.  The port mappings are those of the second cluster.
MCContexts == <<"east", "west">>
MCNamespace == <<"ci-1", "ci-net">>
MCPatterns == <<{"ci-net"}, {"ci-1", "ci-net"}>>

Init ==
  /\ script \in {"ledger", "compare", "visualizer", "namespaces", "ports", "exporter"}
  /\ script # "ledger" => present = [d \in Directories |-> 0] /\ csv = NoCsv
  /\ script # "compare" => kind = [i \in PodIds |-> "other"]
  /\ script # "visualizer" => vis_pc = "blockchain"
  /\ script # "namespaces" => age = [x \in Cluster |-> [i \in NamespaceIds |-> Gone]]
  /\ script \notin {"namespaces", "ports"} => current = port_context
  /\ script # "ports" =>
       /\ services = [x \in Cluster |-> [n \in ServiceNamespace |-> {}]]
       /\ mappings = [z \in Zone |-> {}]
       /\ zone = CHOOSE z \in Zone : TRUE
  /\ script # "exporter" =>
       /\ jobs = [j \in Job |-> CHOOSE r \in JobRecord : r.state = "SCHEDULED"]
       /\ agents = {}
  /\ LedgerInit /\ CompareInit /\ VisualizerInit
  /\ CleanupInit /\ ExporterInit
  /\ \A x \in Cluster \ {port_context} : services[x] = [n \in ServiceNamespace |-> {}]

Next ==
  /\ UNCHANGED script
  /\ \/ /\ script = "ledger" /\ LedgerNext
        /\ UNCHANGED <<compareVars, visualizerVars, cleanupVars, exporterVars>>
     \/ /\ script = "compare" /\ CompareNext
        /\ UNCHANGED <<ledgerVars, visualizerVars, cleanupVars, exporterVars>>
     \/ /\ script = "visualizer" /\ VisualizerNext
        /\ UNCHANGED <<ledgerVars, compareVars, cleanupVars, exporterVars>>
     \/ /\ script = "namespaces" /\ CleanupNext /\ deploys' = deploys
        /\ UNCHANGED <<ledgerVars, compareVars, visualizerVars, exporterVars>>
     \/ /\ script = "ports" /\ CleanupNext /\ recreated' = recreated
        /\ UNCHANGED <<ledgerVars, compareVars, visualizerVars, exporterVars>>
     \/ /\ script = "exporter" /\ ExporterNext
        /\ UNCHANGED <<ledgerVars, compareVars, visualizerVars, cleanupVars>>

Spec == Init /\ [][Next]_<<script, scriptVars>>
=============================================================================
