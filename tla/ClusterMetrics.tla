--------------------------- MODULE ClusterMetrics ---------------------------
(***************************************************************************)
(* The watchdog's checks of the cluster (services/watchdog/metrics.py).    *)
(* Pods crash and are restarted, fall silent and leave the Running phase;  *)
(* a check may run at any moment and `gauge' holds what it set.  Times are *)
(* ages, cut off at MaxAge.  A pod has one container that matters; each    *)
(* check looks for containers of other names.                              *)
(***************************************************************************)
EXTENDS Naturals, FiniteSets, Sequences, SequencesExt, FiniteSetsExt

CONSTANTS
  Pods,       \* sequence of the namespace's pods, in the order the API lists them
  Container,  \* pod -> the name of its container
  Window, one_hour,   \* half an hour; an hour
  MaxAge,     \* bound on ages, above every window
  MaxRestarted,   \* bound on the number of pods that are ever restarted
  None

ASSUME ClusterMetricsAssumption ==
  /\ IsFiniteSet(ToSet(Pods))
  /\ Window \in Nat /\ one_hour \in Nat
  /\ MaxAge \in Nat /\ MaxAge > Window /\ MaxAge > one_hour
  /\ MaxRestarted \in Nat
  /\ None \notin {"status", "UnboundLocalError"}

Pod == ToSet(Pods)

VARIABLES
  phase,      \* pod -> it is Running
  up,         \* pod -> age of its container's current run
  terminated, \* pod -> last_state.terminated: ages of the start and end of the
              \* run before, or None; restart_count is 0 exactly when it is None
  silent,     \* pod -> age of the last line any run of it wrote
  logged,     \* pod -> the current run wrote a line
  gauge,      \* what the check that ran last did with its gauge, until the cluster changes
  tellers     \* running daemons that could tell that check the chain id

cluster == <<phase, up, terminated, silent, logged>>
clusterVars == <<cluster, gauge, tellers>>

ClusterInit ==
  /\ phase \in [Pod -> BOOLEAN]
  /\ up = [p \in Pod |-> 0] /\ terminated = [p \in Pod |-> None]
  /\ silent = [p \in Pod |-> MaxAge] /\ logged = [p \in Pod |-> FALSE]
  /\ gauge = None /\ tellers = {}

-----------------------------------------------------------------------------
\* The cluster (external).
Unchecked == gauge' = None /\ tellers' = {}

Older(a) == IF a < MaxAge THEN a + 1 ELSE MaxAge

Tick ==
  /\ up' = [p \in Pod |-> Older(up[p])] /\ silent' = [p \in Pod |-> Older(silent[p])]
  /\ terminated' = [p \in Pod |->
       IF terminated[p] = None THEN None
       ELSE [started_at |-> Older(terminated[p].started_at),
             finished_at |-> Older(terminated[p].finished_at)]]
  /\ Unchecked /\ UNCHANGED <<phase, logged>>

\* The new run has a log of its own, with nothing in it.
Crash(p) ==
  /\ phase[p]
  /\ Cardinality({q \in Pod \ {p} : terminated[q] # None}) < MaxRestarted
  /\ terminated' = [terminated EXCEPT ![p] = [started_at |-> up[p], finished_at |-> 0]]
  /\ up' = [up EXCEPT ![p] = 0] /\ logged' = [logged EXCEPT ![p] = FALSE]
  /\ Unchecked /\ UNCHANGED <<phase, silent>>

Logs(p) ==
  /\ phase[p]
  /\ silent' = [silent EXCEPT ![p] = 0] /\ logged' = [logged EXCEPT ![p] = TRUE]
  /\ Unchecked /\ UNCHANGED <<phase, up, terminated>>

PhaseChanges(p) ==
  /\ phase' = [phase EXCEPT ![p] = ~@]
  /\ Unchecked /\ UNCHANGED <<up, terminated, silent, logged>>

-----------------------------------------------------------------------------
Sets(check, outcome, num, den) ==
  gauge' = [of |-> check, outcome |-> outcome, num |-> num, den |-> den]

\* num / den, which raises when den is 0
SetsFraction(check, num, den) ==
  IF den = 0 THEN Sets(check, "raised", 0, 0) ELSE Sets(check, "set", num, den)

Running == {p \in Pod : phase[p]}

\* The running pods whose container has one of the names.
With(names) == {p \in Running : Container[p] \in names}

\* The age of the restart is taken from the start of the run that ended.
restarted_recently(p) ==
  /\ terminated[p] # None
  /\ terminated[p].started_at <= Window

collect_cluster_crashes ==
  LET mina_containers == With({"coda", "seed", "coordinator", "archive"})
  IN  /\ SetsFraction("cluster_crashes",
           Cardinality({p \in mina_containers : restarted_recently(p)}),
           Cardinality(mina_containers))
      /\ UNCHANGED <<cluster, tellers>>

\* read_namespaced_pod_log(since_seconds=one_hour), of the container's current
\* run, is empty.
has_no_logs(p) == ~logged[p] \/ silent[p] > one_hour

LogWatched == With({"coda", "seed", "coordinator"})

\* The fraction is of all the pods that run.
pods_with_no_new_logs ==
  /\ SetsFraction("pods_with_no_new_logs",
       Cardinality({p \in LogWatched : has_no_logs(p)}), Cardinality(Running))
  /\ UNCHANGED <<cluster, tellers>>

Daemons == With({"coda", "mina", "seed"})

\* Their places in the list.
daemon_containers == {i \in DOMAIN Pods : Pods[i] \in Daemons}

\* *mutant*: the first pod decides
get_chain_id_first(ds, answer) ==
  IF ds = {} \/ answer[Pods[Min(ds)]] # "status" THEN None ELSE "status"

\* `answer' is what mina client status gives on each pod: a status with the
\* chain id, some other text, or an exception of the exec.  The handler of an
\* exception prints `resp', which the first pod may have left unbound.
get_chain_id(ds, answer) ==
  IF ds = {} THEN None
  ELSE IF answer[Pods[Min(ds)]] = "exception" THEN "UnboundLocalError"
  ELSE IF \E i \in ds : answer[Pods[i]] = "status" THEN "status" ELSE None

\* check_libp2p answers with the seeds it could connect to, out of the list.
check_seed_list_up ==
  \E answer \in [Pod -> {"status", "text", "exception"}], seeds \in 0..2 :
  \E online \in 0..seeds :
    LET chain_id == get_chain_id(daemon_containers, answer)
    IN  /\ CASE chain_id = "status" -> SetsFraction("seeds_reachable", online, seeds)
             [] chain_id = None -> Sets("seeds_reachable", "quiet", 0, 0)
             [] OTHER -> Sets("seeds_reachable", "raised", 0, 0)
        /\ tellers' = {p \in Daemons : answer[p] = "status"}
        /\ UNCHANGED cluster

\* The age of the newest block in the bucket; min raises without one.
check_google_storage_bucket ==
  /\ \E ages \in SUBSET (0..MaxAge) :
       IF ages = {} THEN Sets("recent_google_bucket_blocks", "raised", 0, 0)
       ELSE Sets("recent_google_bucket_blocks", "set", Min(ages), 1)
  /\ UNCHANGED <<cluster, tellers>>

ClusterNext ==
  \/ Tick \/ \E p \in Pod : Crash(p) \/ Logs(p) \/ PhaseChanges(p)
  \/ /\ gauge = None
     /\ \/ collect_cluster_crashes \/ pods_with_no_new_logs
        \/ check_seed_list_up \/ check_google_storage_bucket

ClusterSpec == ClusterInit /\ [][ClusterNext]_clusterVars

-----------------------------------------------------------------------------
Ages == 0..MaxAge

ClusterTypeOK ==
  /\ phase \in [Pod -> BOOLEAN] /\ up \in [Pod -> Ages] /\ silent \in [Pod -> Ages]
  /\ logged \in [Pod -> BOOLEAN]
  /\ terminated \in [Pod -> {None} \cup [started_at : Ages, finished_at : Ages]]
  /\ gauge # None => /\ gauge.outcome \in {"set", "raised", "quiet"}
                     /\ gauge.outcome = "set" => gauge.den > 0
  /\ tellers \subseteq Pod

RestartedWithin(w) ==
  {p \in Running : terminated[p] # None /\ terminated[p].finished_at <= w}

\* Wrote nothing for the hour, over all of its runs, or has a container that
\* was started within it.
SilentOrNew == {p \in Running : silent[p] > one_hour \/ up[p] <= one_hour}

\* A container counted as crashed really was restarted within the half hour.  A
\* pod counted as silent wrote nothing for the hour, or its container started
\* within that hour: the lines of the run before do not count, so a node that
\* has just come back and not logged yet is counted, and no other that logs.
NoFalseAlarms ==
  gauge # None =>
    /\ gauge.of = "cluster_crashes" => gauge.num <= Cardinality(RestartedWithin(Window))
    /\ gauge.of = "pods_with_no_new_logs" =>
         gauge.num <= Cardinality(SilentOrNew)

\* The seed check leaves its gauge alone, without an error, only when no
\* running daemon could tell the chain id.
QuietMeansNoChainId == gauge # None /\ gauge.outcome = "quiet" => tellers = {}

\* What the checks show of a cluster that changes under them is true of it or
\* not shown: no fraction of an empty set, no alarm without a restart or an
\* hour's silence behind it, no gauge left alone without a reason.
AlarmsAreReal == ClusterTypeOK /\ NoFalseAlarms /\ QuietMeansNoChainId
=============================================================================
