-------------------------- MODULE MCWatchdogChecks --------------------------
(***************************************************************************)
(* What the watchdog runs: the checks of the cluster and of the nodes'     *)
(* status, the network report with the tree of its blocks, and the         *)
(* commands on a pod that all of them use.  The event loop runs one check  *)
(* at a time and they keep no state in common: `check' names the one whose *)
(* steps are looked at, and the others stay as they start.                 *)
(***************************************************************************)
EXTENDS ClusterMetrics, NodeStatus, ForkTree, NetworkReport, ExecOnPod

VARIABLE check

\* One pod that every check looks at, and two that each is missed by some.
MCPods == <<"seed-1", "archive-1", "node-1">>
MCContainer ==
  [p \in {MCPods[i] : i \in 1..3} |->
     CASE p = "seed-1" -> "seed" [] p = "archive-1" -> "archive" [] p = "node-1" -> "mina"]

\* Two nodes are seen by two seeds.  The chains fork after block 1: 2 and 3 on
\* one branch, 4 on the other, which is shorter than MinChain.
MCPeer == {"p1", "p2"}
MCSeeds == <<"seed1", "seed2">>
MCChain == {<<1, 2, 3>>, <<1, 4>>}
MCPhrases == <<"deadline", "refused">>

\* Genesis 1, a branch 2-3-4 and a branch 5-6 from the same parent.
MCBlock == 1..6
MCParent == <<1, 1, 2, 3, 1, 5>>
MCPeers == <<"p1", "p2", "p3">>

\* One node produces blocks for a participant with two keys; another
\* participant has a key nobody uses, and a third has none.
MCProducers == [p \in MCPeer |-> IF p = "p1" THEN {"k1"} ELSE {}]
MCAccounts == <<[discord |-> "ann", key |-> "k1"], [discord |-> "ann", key |-> "k2"],
                [discord |-> "bob", key |-> "k3"], [discord |-> "eve", key |-> ""]>>

Init ==
  /\ check \in {"cluster", "status", "tree", "report", "exec"}
  /\ ClusterInit /\ StatusInit /\ TreeInit /\ ReportInit /\ ExecInit
  /\ check # "cluster" => phase = [p \in Pod |-> TRUE]
  /\ check # "exec" => output = <<>> /\ compares

Next ==
  /\ UNCHANGED check
  /\ \/ /\ check = "cluster" /\ ClusterNext
        /\ UNCHANGED <<statusVars, treeVars, reportVars, execVars>>
     \/ /\ check = "status" /\ StatusNext
        /\ UNCHANGED <<clusterVars, treeVars, reportVars, execVars>>
     \/ /\ check = "tree" /\ TreeNext
        /\ UNCHANGED <<clusterVars, statusVars, reportVars, execVars>>
     \/ /\ check = "report" /\ ReportNext
        /\ UNCHANGED <<clusterVars, statusVars, treeVars, execVars>>
     \/ /\ check = "exec" /\ ExecNext
        /\ UNCHANGED <<clusterVars, statusVars, treeVars, reportVars>>

Spec ==
  Init /\ [][Next]_<<check, clusterVars, statusVars, treeVars, reportVars, execVars>>
=============================================================================
