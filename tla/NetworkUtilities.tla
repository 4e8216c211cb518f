-------------------------- MODULE NetworkUtilities --------------------------
(***************************************************************************)
(* The two clean-up commands of watchdog/scripts/network-utilities.py, at  *)
(* the same time and with one configuration of kubectl: each may switch it *)
(* to another cluster while the other one is at work.  Nothing else is     *)
(* shared, so what a command does with a configuration of its own (in a    *)
(* container for each, as a cron job of the cluster runs them) is what it  *)
(* does here while the other one rests.                                    *)
(***************************************************************************)
EXTENDS NamespaceJanitor, PortJanitor

VARIABLES
  switched,   \* history: the contexts, as places in k8s_context, during whose
              \* cleaning the other command switched kubectl
  astray      \* history: kubectl was switched during the scan of the services

cleanupVars == <<janitorVars, portState, switched, astray>>

CleanupInit == JanitorInit /\ PortInit /\ switched = {} /\ astray = FALSE

CleanupNext ==
  \/ /\ JanitorNext
     /\ astray' = (astray \/ (port_pc = "scan" /\ toScan # {} /\ current' # current))
     /\ UNCHANGED <<portState, switched>>
  \/ /\ PortNext
     /\ switched' = switched \cup {k \in {ctx_i} : current' # current /\ janitor_pc \in {"namespaces", "delete ns"}}
     /\ UNCHANGED <<age, ctx_i, pattern_i, ns_i, listing, janitor_pc, emptied, recreated, astray>>

CleanupSpec == CleanupInit /\ [][CleanupNext]_cleanupVars

-----------------------------------------------------------------------------
\* Whatever is emptied or deleted, in any of the clusters, is a target in that
\* cluster, or is so young that it was made after the listing, or kubectl was
\* switched by another command since: a young namespace with the name of an old
\* one elsewhere is left alone.  (Line 136: "target namespaces which have
\* exceeded some AGE threshold".)
OnlyTargetsSuffer ==
  ctx_i \notin switched =>
    \A ctx \in Cluster : \A i \in NamespaceIds :
      Suffers(ctx, i) => i \in Targets(ctx) \/ <<ctx, i, ctx_i>> \in recreated

\* Nothing is left half deleted: a namespace that is there without its resources
\* is the one at hand, or the one over which the command gave up.
NoneIsHalfDeleted ==
  switched = {} =>
    \A e \in emptied : janitor_pc \in {"delete ns", "aborted"} /\ e = <<k8s_context[ctx_i], ns_i>>

\* When the command ends without an error no target is left in a context it was
\* not led away from, but for what was made after the listing.
NoTargetIsLeft ==
  janitor_pc = "done" =>
    \A k \in DOMAIN k8s_context : k \notin switched =>
      \A i \in Targets(k8s_context[k]) :
        \E m \in k..Len(k8s_context) : <<k8s_context[k], i, m>> \in recreated

\* The clean-up commands remove what they should and nothing else, whatever
\* command of theirs fails, unless the one switches kubectl under the other or a
\* namespace is made again between its listing and its deletion: old namespaces
\* of the right cluster, mappings of ports nobody used before.
CleanupIsExact ==
  [][ /\ OnlyTargetsSuffer /\ (NoneIsHalfDeleted /\ NoTargetIsLeft)'
      /\ astray \/ (OnlyUnusedGo /\ OnlyUsedAreLeft) ]_cleanupVars
=============================================================================
