-------------------------- MODULE NamespaceJanitor --------------------------
(***************************************************************************)
(* cleanup_namespace_resources of watchdog/scripts/network-utilities.py.   *)
(* For each context: kubectl is switched to it, the namespaces are listed  *)
(* once, and for each pattern those that match and are old are emptied and *)
(* deleted, by their names.  kubectl acts on the context it was switched   *)
(* to last, by this command or by another one with the same configuration. *)
(* Meanwhile others may make a namespace again.  A kubectl that fails ends *)
(* the command.  (Ages are those of one run, during which they stay.)      *)
(***************************************************************************)
EXTENDS Kubectl, Naturals, Sequences, FiniteSets

CONSTANTS
  k8s_context,        \* sequence of the contexts to clean up
  namespace_pattern,  \* sequence of patterns: the sets of names they match
  Namespace,          \* names, in the order of the listing
  cleanup_older_than,
  MaxAge, MaxRecreated  \* bounds: on ages, on the namespaces others make

ASSUME NamespaceJanitorAssumption ==
  /\ cleanup_older_than \in Nat /\ MaxAge \in Nat /\ MaxRecreated \in Nat
  /\ k8s_context \in Seq(Cluster) /\ Namespace \in Seq(STRING)
  /\ namespace_pattern \in Seq(SUBSET STRING)

VARIABLES
  age,        \* context -> name -> age of the namespace, or Gone
  ctx_i, pattern_i, ns_i,  \* indices of the three loops
  listing,    \* response.items: name -> age when listed, or Gone
  janitor_pc,
  emptied,    \* <<context, name>>: namespaces that are there, without their resources
  recreated   \* history: <<context, name, ctx_i>>, made again during that part of the loop

janitorVars == <<age, current, ctx_i, pattern_i, ns_i, listing, janitor_pc, emptied, recreated>>

Gone == MaxAge + 1
NamespaceIds == 1..Len(Namespace)

JanitorInit ==
  /\ age \in [Cluster -> [NamespaceIds -> 0..Gone]]
  /\ current \in Cluster
  /\ ctx_i = 0 /\ pattern_i = 1 /\ ns_i = 1 /\ listing = [i \in NamespaceIds |-> Gone]
  /\ janitor_pc = "context" /\ emptied = {} /\ recreated = {}

\* The first namespace of the first pattern, if there is one.
EntersLoops ==
  janitor_pc' = IF Namespace = <<>> \/ namespace_pattern = <<>> THEN "context" ELSE "namespaces"

\* *mutant*: kubectl is left at its context
use_context_not ==
  /\ janitor_pc = "context" /\ ctx_i < Len(k8s_context)
  /\ ctx_i' = ctx_i + 1 /\ pattern_i' = 1 /\ ns_i' = 1
  /\ listing' = age[k8s_context[ctx_i + 1]] /\ EntersLoops
  /\ UNCHANGED <<age, current, emptied, recreated>>

\* kubectl config use-context, and the listing of the context's namespaces,
\* which the client library makes in the context it is told
use_context ==
  /\ janitor_pc = "context" /\ ctx_i < Len(k8s_context)
  /\ ctx_i' = ctx_i + 1 /\ pattern_i' = 1 /\ ns_i' = 1
  /\ use_cluster(k8s_context[ctx_i + 1])
  /\ listing' = age[k8s_context[ctx_i + 1]] /\ EntersLoops
  /\ UNCHANGED <<age, emptied, recreated>>

finish ==
  /\ janitor_pc = "context" /\ ctx_i = Len(k8s_context) /\ janitor_pc' = "done"
  /\ UNCHANGED <<age, current, ctx_i, pattern_i, ns_i, listing, emptied, recreated>>

Matches(pattern, name) == name \in namespace_pattern[pattern]

Cleans(i, pattern) ==
  /\ listing[i] # Gone /\ Matches(pattern, Namespace[i])
  /\ listing[i] >= cleanup_older_than

\* The next namespace, of the next pattern after the last.
Advances ==
  IF ns_i < Len(Namespace)
  THEN ns_i' = ns_i + 1 /\ janitor_pc' = "namespaces" /\ UNCHANGED pattern_i
  ELSE IF pattern_i < Len(namespace_pattern)
  THEN ns_i' = 1 /\ pattern_i' = pattern_i + 1 /\ janitor_pc' = "namespaces"
  ELSE ns_i' = 1 /\ pattern_i' = 1 /\ janitor_pc' = "context"

skip ==
  /\ janitor_pc = "namespaces" /\ ~Cleans(ns_i, pattern_i) /\ Advances
  /\ UNCHANGED <<age, current, ctx_i, listing, emptied, recreated>>

\* kubectl delete all -n ns --all, which finds nothing in a namespace that is gone
delete_all ==
  /\ janitor_pc = "namespaces" /\ Cleans(ns_i, pattern_i) /\ janitor_pc' = "delete ns"
  /\ emptied' = emptied \cup {e \in {<<current, ns_i>>} : age[current][ns_i] # Gone}
  /\ UNCHANGED <<age, current, ctx_i, pattern_i, ns_i, listing, recreated>>

\* kubectl delete ns
delete_ns ==
  /\ janitor_pc = "delete ns" /\ age[current][ns_i] # Gone /\ Advances
  /\ age' = [age EXCEPT ![current][ns_i] = Gone]
  /\ emptied' = emptied \ {<<current, ns_i>>}
  /\ UNCHANGED <<current, ctx_i, listing, recreated>>

\* A kubectl ends with an error, for whatever reason, or the listing raises;
\* execute_command ends the program (with an error of its own, as it has no
\* stderr to print).  To delete a namespace that is gone always fails.
command_fails ==
  /\ \/ janitor_pc = "context" /\ ctx_i < Len(k8s_context)
     \/ janitor_pc = "namespaces" /\ Cleans(ns_i, pattern_i)
     \/ janitor_pc = "delete ns"
  /\ janitor_pc' = "aborted"
  /\ UNCHANGED <<age, current, ctx_i, pattern_i, ns_i, listing, emptied, recreated>>

\* A namespace is made, after it was deleted by others if it was there: a test
\* is over and the next one starts (external).
Recreates(ctx, i) ==
  /\ Cardinality(recreated) < MaxRecreated /\ ctx_i > 0
  /\ age' = [age EXCEPT ![ctx][i] = 0]
  /\ emptied' = emptied \ {<<ctx, i>>}
  /\ recreated' = recreated \cup {<<ctx, i, ctx_i>>}
  /\ UNCHANGED <<current, ctx_i, pattern_i, ns_i, listing, janitor_pc>>

JanitorNext ==
  \/ use_context \/ finish \/ skip \/ delete_all \/ delete_ns \/ command_fails
  \/ \E ctx \in Cluster, i \in NamespaceIds : Recreates(ctx, i)

-----------------------------------------------------------------------------
Targets(ctx) ==
  {i \in NamespaceIds :
     /\ age[ctx][i] # Gone /\ age[ctx][i] >= cleanup_older_than
     /\ \E q \in DOMAIN namespace_pattern : Matches(q, Namespace[i])}

\* Loses its resources, or goes.
Suffers(ctx, i) ==
  \/ <<ctx, i>> \in emptied' \ emptied
  \/ age[ctx][i] # Gone /\ age'[ctx][i] = Gone
=============================================================================
