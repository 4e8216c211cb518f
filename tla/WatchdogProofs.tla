--------------------------- MODULE WatchdogProofs ---------------------------
(***************************************************************************)
(* What the watchdog shows, for every cluster, every window and any number *)
(* of nodes and reports: its checks raise no false alarm, the gauges of    *)
(* the nodes' status fit one another, a report that is posted tells one    *)
(* consistent story and is right about forks, and the output of a command  *)
(* on a pod arrives or is warned about.                                    *)
(***************************************************************************)
EXTENDS ClusterMetrics, NodeStatus, ForkTree, NetworkReport, ExecOnPod,
        FiniteSetTheorems, FunctionTheorems, NumberLemmas, TLAPS

-----------------------------------------------------------------------------
(* The checks of the cluster. *)

\* A restarted container stopped no earlier than it had started.
RunsEndAfterTheyStart ==
  \A p \in Pod : terminated[p] # None =>
    terminated[p].finished_at <= terminated[p].started_at

\* The last line of a pod whose run wrote none is older than that run.
LinesOfTheRunBefore == \A p \in Pod : ~logged[p] => up[p] <= silent[p]

\* The containers that are counted as crashed are among those restarted within
\* the window, the pods counted as silent are silent or new, and there are
\* finitely many of each.
LEMMA CountedDeserveIt ==
  ASSUME ClusterTypeOK, RunsEndAfterTheyStart, LinesOfTheRunBefore, NEW names
  PROVE  /\ Cardinality({p \in With(names) : restarted_recently(p)})
              <= Cardinality(RestartedWithin(Window))
         /\ Cardinality(With(names)) \in Nat
         /\ Cardinality(Running) \in Nat
         /\ Cardinality({p \in LogWatched : has_no_logs(p)}) <= Cardinality(SilentOrNew)
         /\ Cardinality(RestartedWithin(Window)) \in Nat /\ Cardinality(SilentOrNew) \in Nat
<1>1. IsFiniteSet(Pod) /\ Running \subseteq Pod
  BY ClusterMetricsAssumption DEF Pod, Running
<1>2. /\ IsFiniteSet(Running) /\ IsFiniteSet(With(names))
      /\ IsFiniteSet(RestartedWithin(Window)) /\ IsFiniteSet(SilentOrNew)
  <2>1. With(names) \in SUBSET Pod /\ Running \in SUBSET Pod
    BY <1>1 DEF With
  <2>2. RestartedWithin(Window) \in SUBSET Pod /\ SilentOrNew \in SUBSET Pod
    BY <1>1 DEF RestartedWithin, SilentOrNew
  <2> QED
    BY <1>1, <2>1, <2>2, FS_Subset
<1>3. {p \in With(names) : restarted_recently(p)} \in SUBSET RestartedWithin(Window)
  <2> SUFFICES ASSUME NEW p \in With(names), restarted_recently(p)
               PROVE  p \in RestartedWithin(Window)
    OBVIOUS
  <2>0. p \in Running
    BY DEF With
  <2>1. p \in Pod /\ terminated[p] # None /\ terminated[p].started_at <= Window
    BY <1>1, <2>0 DEF restarted_recently
  <2>2. terminated[p] \in [started_at : Ages, finished_at : Ages]
    BY <2>1 DEF ClusterTypeOK
  <2>3. terminated[p].started_at \in Nat /\ terminated[p].finished_at \in Nat
    BY <2>2 DEF Ages
  <2>4. terminated[p].finished_at <= terminated[p].started_at
    BY <2>1 DEF RunsEndAfterTheyStart
  <2>5. terminated[p].finished_at <= Window
    BY <2>1, <2>3, <2>4, ClusterMetricsAssumption
  <2> QED
    BY <2>0, <2>1, <2>5 DEF RestartedWithin
<1>4. {p \in LogWatched : has_no_logs(p)} \in SUBSET SilentOrNew
  <2> SUFFICES ASSUME NEW p \in LogWatched, has_no_logs(p)
               PROVE  p \in SilentOrNew
    OBVIOUS
  <2>1. p \in Running /\ p \in Pod
    BY <1>1 DEF LogWatched, With
  <2>2. up[p] \in Nat /\ silent[p] \in Nat
    BY <2>1 DEF ClusterTypeOK, Ages
  <2>3. ~logged[p] => up[p] <= silent[p]
    BY <2>1 DEF LinesOfTheRunBefore
  <2>4. silent[p] > one_hour \/ up[p] <= one_hour
    BY <2>2, <2>3, ClusterMetricsAssumption DEF has_no_logs
  <2> QED
    BY <2>1, <2>4 DEF SilentOrNew
<1>5. Cardinality({p \in LogWatched : has_no_logs(p)}) <= Cardinality(SilentOrNew)
  BY <1>2, <1>4, FS_Subset
<1>6. Cardinality({p \in With(names) : restarted_recently(p)})
        <= Cardinality(RestartedWithin(Window))
  BY <1>2, <1>3, FS_Subset
<1> QED
  BY <1>2, <1>5, <1>6, FS_CardinalityType

\* What the gauge of a check may hold.
GaugeOK(g) ==
  /\ g.outcome \in {"set", "raised", "quiet"}
  /\ g.outcome = "set" => g.den > 0
  /\ g.of = "cluster_crashes" => g.num <= Cardinality(RestartedWithin(Window))
  /\ g.of = "pods_with_no_new_logs" => g.num <= Cardinality(SilentOrNew)

ClusterInv == AlarmsAreReal /\ RunsEndAfterTheyStart /\ LinesOfTheRunBefore

\* A gauge that may be shown, once the check has run on an unchanged cluster.
LEMMA ShownGauge ==
  ASSUME ClusterInv, UNCHANGED cluster, GaugeOK(gauge'), tellers' \subseteq Pod,
         gauge'.outcome = "quiet" => tellers' = {}
  PROVE  ClusterInv'
<1>1. ClusterTypeOK'
  BY DEF ClusterInv, AlarmsAreReal, ClusterTypeOK, cluster, GaugeOK
<1>2. RunsEndAfterTheyStart' /\ LinesOfTheRunBefore'
  BY DEF ClusterInv, RunsEndAfterTheyStart, LinesOfTheRunBefore, cluster
<1>3. /\ RestartedWithin(Window)' = RestartedWithin(Window)
      /\ SilentOrNew' = SilentOrNew
  BY DEF cluster, Running, RestartedWithin, SilentOrNew
<1>4. NoFalseAlarms'
  BY <1>3 DEF GaugeOK, NoFalseAlarms
<1>5. QuietMeansNoChainId'
  BY DEF QuietMeansNoChainId
<1> QED
  BY <1>1, <1>2, <1>4, <1>5 DEF ClusterInv, AlarmsAreReal

\* The checks: each shows a gauge that may be shown.
LEMMA ChecksShowTrueGauges ==
  ASSUME ClusterInv,
         \/ collect_cluster_crashes \/ pods_with_no_new_logs
         \/ check_seed_list_up \/ check_google_storage_bucket
  PROVE  ClusterInv'
<1> USE DEF Sets
<1>0. ClusterTypeOK /\ RunsEndAfterTheyStart /\ LinesOfTheRunBefore
  BY DEF ClusterInv, AlarmsAreReal
<1>1. CASE collect_cluster_crashes
  <2> DEFINE names == {"coda", "seed", "coordinator", "archive"}
             crashed == Cardinality({p \in With(names) : restarted_recently(p)})
             all == Cardinality(With(names))
  <2>1. /\ crashed <= Cardinality(RestartedWithin(Window)) /\ all \in Nat
        /\ Cardinality(RestartedWithin(Window)) \in Nat
    BY <1>0, CountedDeserveIt
  <2>2. /\ gauge' = IF all = 0
                    THEN [of |-> "cluster_crashes", outcome |-> "raised", num |-> 0, den |-> 0]
                    ELSE [of |-> "cluster_crashes", outcome |-> "set",
                          num |-> crashed, den |-> all]
        /\ UNCHANGED <<cluster, tellers>>
    BY <1>1 DEF collect_cluster_crashes, SetsFraction
  <2> HIDE DEF crashed, all
  <2>3. GaugeOK(gauge') /\ gauge'.outcome # "quiet"
    BY <2>1, <2>2 DEF GaugeOK
  <2> QED
    BY <1>0, <2>2, <2>3, ShownGauge DEF ClusterTypeOK
<1>2. CASE pods_with_no_new_logs
  <2> DEFINE quiet == Cardinality({p \in LogWatched : has_no_logs(p)})
             all == Cardinality(Running)
  <2>1. /\ quiet <= Cardinality(SilentOrNew) /\ all \in Nat
        /\ Cardinality(SilentOrNew) \in Nat
    BY <1>0, CountedDeserveIt
  <2>2. /\ gauge' = IF all = 0
                    THEN [of |-> "pods_with_no_new_logs", outcome |-> "raised", num |-> 0, den |-> 0]
                    ELSE [of |-> "pods_with_no_new_logs", outcome |-> "set",
                          num |-> quiet, den |-> all]
        /\ UNCHANGED <<cluster, tellers>>
    BY <1>2 DEF pods_with_no_new_logs, SetsFraction
  <2> HIDE DEF quiet, all
  <2>3. GaugeOK(gauge') /\ gauge'.outcome # "quiet"
    BY <2>1, <2>2 DEF GaugeOK
  <2> QED
    BY <1>0, <2>2, <2>3, ShownGauge DEF ClusterTypeOK
<1>3. CASE check_seed_list_up
  <2>1. PICK answer \in [Pod -> {"status", "text", "exception"}], seeds \in 0..2 :
          \E reached \in 0..seeds :
            LET chain_id == get_chain_id(daemon_containers, answer)
            IN  /\ CASE chain_id = "status" -> SetsFraction("seeds_reachable", reached, seeds)
                     [] chain_id = None -> Sets("seeds_reachable", "quiet", 0, 0)
                     [] OTHER -> Sets("seeds_reachable", "raised", 0, 0)
                /\ tellers' = {p \in Daemons : answer[p] = "status"}
                /\ UNCHANGED cluster
    BY <1>3 DEF check_seed_list_up
  <2>2. PICK reached \in 0..seeds :
            LET chain_id == get_chain_id(daemon_containers, answer)
            IN  /\ CASE chain_id = "status" -> SetsFraction("seeds_reachable", reached, seeds)
                     [] chain_id = None -> Sets("seeds_reachable", "quiet", 0, 0)
                     [] OTHER -> Sets("seeds_reachable", "raised", 0, 0)
                /\ tellers' = {p \in Daemons : answer[p] = "status"}
                /\ UNCHANGED cluster
    BY <2>1
  <2>3. tellers' \subseteq Pod
    BY <2>2 DEF Daemons, With, Running
  <2>4. PICK chain_id : chain_id = get_chain_id(daemon_containers, answer)
    OBVIOUS
  <2>5. chain_id \in {"status", "UnboundLocalError", None}
    BY <2>4 DEF get_chain_id
  <2>6. chain_id = None => tellers' = {}
    <3> SUFFICES ASSUME chain_id = None, NEW p \in Daemons
                 PROVE  answer[p] # "status"
      BY <2>2
    <3>1. PICK k \in DOMAIN Pods : Pods[k] = p
      BY DEF Daemons, With, Running, Pod, ToSet
    <3>2. k \in daemon_containers
      BY <3>1 DEF daemon_containers
    <3> QED
      BY <2>4, <3>1, <3>2, ClusterMetricsAssumption DEF get_chain_id
  <2>7. /\ gauge'.of = "seeds_reachable"
        /\ gauge'.outcome \in {"set", "raised", "quiet"}
        /\ gauge'.outcome = "set" => gauge'.den > 0
        /\ gauge'.outcome = "quiet" => chain_id = None
    <3>1. CASE chain_id = "status"
      <4>1. SetsFraction("seeds_reachable", reached, seeds)
        BY <2>2, <2>4, <3>1, ClusterMetricsAssumption
      <4> QED
        BY <4>1 DEF SetsFraction
    <3>2. CASE chain_id = None
      <4>1. Sets("seeds_reachable", "quiet", 0, 0)
        BY <2>2, <2>4, <3>2, ClusterMetricsAssumption
      <4> QED
        BY <3>2, <4>1
    <3>3. CASE chain_id = "UnboundLocalError"
      <4>1. Sets("seeds_reachable", "raised", 0, 0)
        BY <2>2, <2>4, <3>3, ClusterMetricsAssumption
      <4> QED
        BY <4>1
    <3> QED
      BY <2>5, <3>1, <3>2, <3>3
  <2>8. GaugeOK(gauge')
    BY <2>7 DEF GaugeOK
  <2> QED
    BY <2>2, <2>3, <2>6, <2>7, <2>8, ShownGauge
<1>4. CASE check_google_storage_bucket
  <2>1. /\ gauge'.of = "recent_google_bucket_blocks"
        /\ gauge'.outcome \in {"set", "raised"}
        /\ gauge'.outcome = "set" => gauge'.den = 1
        /\ UNCHANGED <<cluster, tellers>>
    BY <1>4 DEF check_google_storage_bucket
  <2>2. GaugeOK(gauge') /\ gauge'.outcome # "quiet"
    BY <2>1 DEF GaugeOK
  <2> QED
    BY <1>0, <2>1, <2>2, ShownGauge DEF ClusterTypeOK
<1> QED
  BY <1>1, <1>2, <1>3, <1>4

\* Time passes.
LEMMA TickKeepsAges ==
  ASSUME ClusterInv, Tick
  PROVE  ClusterInv'
<1>0. ClusterTypeOK /\ RunsEndAfterTheyStart /\ LinesOfTheRunBefore /\ MaxAge \in Nat
  BY ClusterMetricsAssumption DEF ClusterInv, AlarmsAreReal
<1>1. \A a \in Ages : Older(a) \in Ages
  BY <1>0 DEF Ages, Older
<1>2. \A a \in Ages, b \in Ages : a <= b => Older(a) <= Older(b)
  BY <1>0 DEF Ages, Older
<1>3. up' \in [Pod -> Ages] /\ silent' \in [Pod -> Ages]
  BY <1>0, <1>1 DEF Tick, ClusterTypeOK
<1>4. terminated' \in [Pod -> {None} \cup [started_at : Ages, finished_at : Ages]]
  BY <1>0, <1>1 DEF Tick, ClusterTypeOK
<1>5. RunsEndAfterTheyStart'
  <2> SUFFICES ASSUME NEW p \in Pod, terminated'[p] # None
               PROVE  terminated'[p].finished_at <= terminated'[p].started_at
    BY DEF RunsEndAfterTheyStart
  <2>1. /\ terminated[p] # None
        /\ terminated'[p] = [started_at |-> Older(terminated[p].started_at),
                             finished_at |-> Older(terminated[p].finished_at)]
    BY DEF Tick
  <2>2. terminated[p] \in [started_at : Ages, finished_at : Ages]
    BY <1>0, <2>1 DEF ClusterTypeOK
  <2>3. /\ terminated[p].started_at \in Ages /\ terminated[p].finished_at \in Ages
        /\ terminated[p].finished_at <= terminated[p].started_at
    BY <1>0, <2>1, <2>2 DEF RunsEndAfterTheyStart
  <2> QED
    BY <1>2, <2>1, <2>3
<1>6. gauge' = None /\ tellers' = {} /\ phase' = phase /\ logged' = logged
  BY DEF Tick, Unchecked
<1>7. LinesOfTheRunBefore'
  <2> SUFFICES ASSUME NEW p \in Pod, ~logged[p]
               PROVE  up'[p] <= silent'[p]
    BY <1>6 DEF LinesOfTheRunBefore
  <2>1. up[p] \in Ages /\ silent[p] \in Ages /\ up[p] <= silent[p]
    BY <1>0 DEF ClusterTypeOK, LinesOfTheRunBefore
  <2>2. up'[p] = Older(up[p]) /\ silent'[p] = Older(silent[p])
    BY DEF Tick
  <2> QED
    BY <1>2, <2>1, <2>2
<1> QED
  BY <1>0, <1>3, <1>4, <1>5, <1>6, <1>7
     DEF ClusterInv, AlarmsAreReal, ClusterTypeOK, NoFalseAlarms, QuietMeansNoChainId

\* A container crashes and starts again.
LEMMA CrashKeepsAges ==
  ASSUME ClusterInv, NEW p \in Pod, Crash(p)
  PROVE  ClusterInv'
<1>0. ClusterTypeOK /\ RunsEndAfterTheyStart /\ LinesOfTheRunBefore /\ 0 \in Ages
  BY ClusterMetricsAssumption DEF ClusterInv, AlarmsAreReal, Ages
<1>1. /\ up' = [up EXCEPT ![p] = 0] /\ logged' = [logged EXCEPT ![p] = FALSE]
      /\ silent' = silent /\ phase' = phase /\ gauge' = None /\ tellers' = {}
  BY DEF Crash, Unchecked
<1>2. PICK run : run = [started_at |-> up[p], finished_at |-> 0]
  OBVIOUS
<1>3. /\ run \in [started_at : Ages, finished_at : Ages]
      /\ run.finished_at <= run.started_at
  BY <1>0, <1>2 DEF ClusterTypeOK, Ages
<1>4. terminated' = [terminated EXCEPT ![p] = run]
  BY <1>2 DEF Crash
<1>5. terminated' \in [Pod -> {None} \cup [started_at : Ages, finished_at : Ages]]
  BY <1>0, <1>3, <1>4 DEF ClusterTypeOK
<1>6. RunsEndAfterTheyStart'
  BY <1>0, <1>3, <1>4 DEF RunsEndAfterTheyStart, ClusterTypeOK
<1>7. up' \in [Pod -> Ages] /\ logged' \in [Pod -> BOOLEAN]
  BY <1>0, <1>1 DEF ClusterTypeOK
<1>8. LinesOfTheRunBefore'
  <2> SUFFICES ASSUME NEW q \in Pod, ~logged'[q]
               PROVE  up'[q] <= silent[q]
    BY <1>1 DEF LinesOfTheRunBefore
  <2>1. CASE q = p
    BY <1>0, <1>1, <2>1 DEF ClusterTypeOK, Ages
  <2>2. CASE q # p
    BY <1>0, <1>1, <2>2 DEF ClusterTypeOK, LinesOfTheRunBefore
  <2> QED
    BY <2>1, <2>2
<1> QED
  BY <1>0, <1>1, <1>5, <1>6, <1>7, <1>8
     DEF ClusterInv, AlarmsAreReal, ClusterTypeOK, NoFalseAlarms, QuietMeansNoChainId

\* A container logs, or a pod's phase changes.
LEMMA LogsKeepAges ==
  ASSUME ClusterInv, NEW p \in Pod, Logs(p) \/ PhaseChanges(p)
  PROVE  ClusterInv'
<1>0. ClusterTypeOK /\ RunsEndAfterTheyStart /\ LinesOfTheRunBefore /\ 0 \in Ages
  BY ClusterMetricsAssumption DEF ClusterInv, AlarmsAreReal, Ages
<1>1. silent' \in [Pod -> Ages] /\ logged' \in [Pod -> BOOLEAN] /\ UNCHANGED <<up, terminated>>
  BY <1>0 DEF Logs, PhaseChanges, ClusterTypeOK
<1>2. phase' \in [Pod -> BOOLEAN]
  BY <1>0 DEF Logs, PhaseChanges, ClusterTypeOK
<1>3. gauge' = None /\ tellers' = {}
  BY DEF Logs, PhaseChanges, Unchecked
<1>4. RunsEndAfterTheyStart'
  BY <1>0, <1>1 DEF RunsEndAfterTheyStart
<1>5. LinesOfTheRunBefore'
  <2> SUFFICES ASSUME NEW q \in Pod, ~logged'[q]
               PROVE  up[q] <= silent'[q]
    BY <1>1 DEF LinesOfTheRunBefore
  <2>1. ~logged[q] /\ silent'[q] = silent[q]
    BY <1>0 DEF Logs, PhaseChanges, ClusterTypeOK
  <2> QED
    BY <1>0, <2>1 DEF LinesOfTheRunBefore
<1> QED
  BY <1>0, <1>1, <1>2, <1>3, <1>4, <1>5
     DEF ClusterInv, AlarmsAreReal, ClusterTypeOK, NoFalseAlarms, QuietMeansNoChainId

\* Whatever the pods do, the checks of metrics.py show no fraction of an empty
\* set, count no container as crashed that was not restarted within the window
\* and no pod as silent that wrote within the hour, unless its container started
\* within it, and leave the seeds' gauge alone only when no daemon could tell
\* the chain id.
THEOREM ChecksRaiseNoFalseAlarm == ClusterSpec => []AlarmsAreReal
<1>1. ClusterInit => ClusterInv
  <2> SUFFICES ASSUME ClusterInit PROVE ClusterInv
    OBVIOUS
  <2>1. 0 \in Ages /\ MaxAge \in Ages /\ 0 <= MaxAge
    BY ClusterMetricsAssumption DEF Ages
  <2>2. /\ up \in [Pod -> Ages] /\ silent \in [Pod -> Ages] /\ gauge = None /\ tellers = {}
        /\ logged \in [Pod -> BOOLEAN] /\ \A p \in Pod : up[p] <= silent[p]
        /\ terminated \in [Pod -> {None} \cup [started_at : Ages, finished_at : Ages]]
        /\ \A p \in Pod : terminated[p] = None
    BY <2>1 DEF ClusterInit
  <2>3. phase \in [Pod -> BOOLEAN]
    BY DEF ClusterInit
  <2> QED
    BY <2>2, <2>3 DEF ClusterInv, AlarmsAreReal, ClusterTypeOK, NoFalseAlarms,
       QuietMeansNoChainId, RunsEndAfterTheyStart, LinesOfTheRunBefore
<1>2. ClusterInv /\ [ClusterNext]_clusterVars => ClusterInv'
  <2> SUFFICES ASSUME ClusterInv, [ClusterNext]_clusterVars PROVE ClusterInv'
    OBVIOUS
  <2>1. CASE Tick \/ \E p \in Pod : Crash(p) \/ Logs(p) \/ PhaseChanges(p)
    BY <2>1, TickKeepsAges, CrashKeepsAges, LogsKeepAges
  <2>2. CASE /\ gauge = None
             /\ \/ collect_cluster_crashes \/ pods_with_no_new_logs
                \/ check_seed_list_up \/ check_google_storage_bucket
    BY <2>2, ChecksShowTrueGauges
  <2>3. CASE UNCHANGED clusterVars
    BY <2>3 DEF clusterVars, cluster, ClusterInv, AlarmsAreReal, ClusterTypeOK,
       NoFalseAlarms, QuietMeansNoChainId, RunsEndAfterTheyStart, LinesOfTheRunBefore,
       Running, RestartedWithin, SilentOrNew
  <2> QED
    BY <2>1, <2>2, <2>3 DEF ClusterNext
<1>3. ClusterInv => AlarmsAreReal
  BY DEF ClusterInv
<1> QED
  BY <1>1, <1>2, <1>3, PTL DEF ClusterSpec

-----------------------------------------------------------------------------
(* The network report. *)

\* What UptimeHours computes, as the chain of tests of add_resp.
LEMMA UptimeHoursIs ==
  ASSUME NEW a \in Nat
  PROVE  UptimeHours(a) = IF a < 60 THEN 1 ELSE IF a < 3600 THEN 6
                          ELSE IF a < 7200 THEN 12 ELSE IF a < 14400 THEN 24 ELSE 25
<1> DEFINE lists == {l \in UptimeLists : a < l.below}
           hours == {l.hours : l \in lists}
<1>0. UptimeHours(a) = IF lists = {} THEN 25 ELSE Min(hours)
  BY DEF UptimeHours
<1>1. ASSUME NEW m \in Nat, m \in hours, \A h \in hours : h \in Nat /\ m <= h
      PROVE  UptimeHours(a) = m
  <2>1. lists # {}
    BY <1>1
  <2>2. Min(hours) = m
    <3> HIDE DEF hours
    <3>1. \A h \in hours : (\A y \in hours : h <= y) => h = m
      BY <1>1
    <3> QED
      BY <1>1, <3>1 DEF Min
  <2> QED
    BY <1>0, <2>1, <2>2
<1>3. CASE a < 60
  <2>1. [below |-> 60, hours |-> 1] \in lists
    BY <1>3 DEF UptimeLists
  <2>2. 1 \in hours
    BY <2>1
  <2>3. \A l \in lists : l.hours \in Nat /\ 1 <= l.hours
    BY <1>3 DEF UptimeLists
  <2>4. \A h \in hours : h \in Nat /\ 1 <= h
    BY <2>3
  <2>5. UptimeHours(a) = 1
    BY <1>1, <2>2, <2>4
  <2> QED
    BY <1>3, <2>5
<1>4. CASE a >= 60 /\ a < 3600
  <2>1. [below |-> 3600, hours |-> 6] \in lists
    BY <1>4 DEF UptimeLists
  <2>2. 6 \in hours
    BY <2>1
  <2>3. \A l \in lists : l.hours \in Nat /\ 6 <= l.hours
    BY <1>4 DEF UptimeLists
  <2>4. \A h \in hours : h \in Nat /\ 6 <= h
    BY <2>3
  <2>5. UptimeHours(a) = 6
    BY <1>1, <2>2, <2>4
  <2> QED
    BY <1>4, <2>5
<1>5. CASE a >= 3600 /\ a < 7200
  <2>1. [below |-> 7200, hours |-> 12] \in lists
    BY <1>5 DEF UptimeLists
  <2>2. 12 \in hours
    BY <2>1
  <2>3. \A l \in lists : l.hours \in Nat /\ 12 <= l.hours
    BY <1>5 DEF UptimeLists
  <2>4. \A h \in hours : h \in Nat /\ 12 <= h
    BY <2>3
  <2>5. UptimeHours(a) = 12
    BY <1>1, <2>2, <2>4
  <2> QED
    BY <1>5, <2>5
<1>6. CASE a >= 7200 /\ a < 14400
  <2>1. [below |-> 14400, hours |-> 24] \in lists
    BY <1>6 DEF UptimeLists
  <2>2. 24 \in hours
    BY <2>1
  <2>3. \A l \in lists : l.hours \in Nat /\ 24 <= l.hours
    BY <1>6 DEF UptimeLists
  <2>4. \A h \in hours : h \in Nat /\ 24 <= h
    BY <2>3
  <2>5. UptimeHours(a) = 24
    BY <1>1, <2>2, <2>4
  <2> QED
    BY <1>6, <2>5
<1>7. CASE a >= 14400
  <2>1. lists = {}
    BY <1>7 DEF UptimeLists
  <2> QED
    BY <1>0, <1>7, <2>1
<1> QED
  BY <1>3, <1>4, <1>5, <1>6, <1>7

\* A longer uptime never goes to a list of fewer hours.
LEMMA UptimeHoursMonotone ==
  ASSUME NEW a \in Nat, NEW b \in Nat, a <= b
  PROVE  UptimeHours(a) <= UptimeHours(b)
BY UptimeHoursIs

\* A message that is cut fits, with the dots that stand for what is missing.
LEMMA TruncatedFits ==
  ASSUME NEW n \in MessageLengths
  PROVE  Truncated(n) <= discord_char_limit
<1>1. discord_char_limit \in Nat
  BY NetworkReportAssumption
<1>2. n \in Int
  BY <1>1 DEF MessageLengths
<1> QED
  BY <1>1, <1>2 DEF Truncated

\* Who is online and who is offline, of the nodes that answered.
LEMMA ParticipantsSplit ==
  ASSUME NEW producers, "" \notin producers
  PROVE  LET on == ParticipantsOnline(producers)  off == ParticipantsOffline(producers)
         IN  /\ on \cap off = {}
             /\ on \cup off =
                  {Accounts[i].discord : i \in {j \in DOMAIN Accounts : Accounts[j].key # ""}}
             /\ \A i \in DOMAIN Accounts :
                  Accounts[i].key \in producers => Accounts[i].discord \in on
<1> DEFINE rows == {i \in DOMAIN Accounts : Accounts[i].key # ""}
           keysOf(d) == {Accounts[i].key : i \in {j \in rows : Accounts[j].discord = d}}
           names == {Accounts[i].discord : i \in rows}
<1>1. DOMAIN discord_to_keys = names /\ \A d \in names : discord_to_keys[d] = keysOf(d)
  BY DEF discord_to_keys
<1>2. /\ ParticipantsOnline(producers) = {d \in names : keysOf(d) \cap producers # {}}
      /\ ParticipantsOffline(producers) = {d \in names : keysOf(d) \cap producers = {}}
  BY <1>1 DEF ParticipantsOnline, ParticipantsOffline
<1>3. ASSUME NEW i \in DOMAIN Accounts, Accounts[i].key \in producers
      PROVE  Accounts[i].discord \in ParticipantsOnline(producers)
  <2>1. i \in rows
    BY <1>3
  <2>2. Accounts[i].discord \in names /\ Accounts[i].key \in keysOf(Accounts[i].discord)
    BY <2>1
  <2> QED
    BY <1>2, <1>3, <2>2
<1> QED
  BY <1>2, <1>3

\* The nodes of the windows, as read_files counts them.
WindowNodes(w) == UNION {files[t] : t \in {u \in DOMAIN files : InWindow(u, w)}}

BlockProducers == UNION {Producers[p] : p \in answered}

\* What a report knows at each of its steps: who answered and for how long
\* they are up; from then on who is online; once it is written, that its own
\* file is among those that are read; and then the windows of all of them.
ReportInv ==
  /\ now \in Nat /\ answered \subseteq Peer /\ MessageFits
  /\ \A t \in DOMAIN files : t \in Nat
  /\ \A u \in uptimes : u.minutes \in Nat /\ u.hours = UptimeHours(u.minutes)
  /\ report_pc \in {"write", "read", "post"} =>
       /\ online = ParticipantsOnline(BlockProducers)
       /\ offline = ParticipantsOffline(BlockProducers)
  /\ report_pc \in {"read", "post"} => now \in DOMAIN files /\ files[now] = answered
  /\ report_pc = "post" => windows = [w \in Windows |-> WindowNodes(w)]

\* The strengthened invariant implies what a posted report promises.
LEMMA ReportInvSuffices ==
  ASSUME ReportInv
  PROVE  ReportIsConsistent
<1>1. UptimesAreOrdered
  BY UptimeHoursMonotone DEF ReportInv, UptimesAreOrdered
<1>2. ParticipantsPartition
  <2>1. "" \notin BlockProducers
    BY NetworkReportAssumption DEF ReportInv, BlockProducers
  <2>2. CASE report_pc = "post"
    <3>1. /\ online = ParticipantsOnline(BlockProducers)
          /\ offline = ParticipantsOffline(BlockProducers)
      BY <2>2 DEF ReportInv
    <3> QED
      BY <2>1, <3>1, ParticipantsSplit DEF ParticipantsPartition, BlockProducers
  <2> QED
    BY <2>2 DEF ParticipantsPartition
<1>3. WindowsAreConsistent
  <2> SUFFICES ASSUME report_pc = "post"
               PROVE  /\ \A w \in Windows : answered \subseteq windows[w]
                      /\ \A v, w \in Windows : v <= w => windows[v] \subseteq windows[w]
                      /\ \A w \in Windows : \A p \in windows[w] :
                           \E t \in DOMAIN files : p \in files[t] /\ now - t <= w
    BY DEF WindowsAreConsistent
  <2>1. /\ now \in Nat /\ now \in DOMAIN files /\ files[now] = answered
        /\ \A t \in DOMAIN files : t \in Nat
        /\ \A w \in Windows : w \in Nat /\ windows[w] = WindowNodes(w)
    BY NetworkReportAssumption DEF ReportInv
  <2>2. \A w \in Windows : \A p : p \in windows[w] <=>
           \E t \in DOMAIN files : p \in files[t] /\ now - t <= w
    BY <2>1 DEF WindowNodes, InWindow
  <2>3. ASSUME NEW w \in Windows PROVE answered \subseteq windows[w]
    BY <2>1, <2>2
  <2>4. ASSUME NEW v \in Windows, NEW w \in Windows, v <= w
        PROVE  windows[v] \subseteq windows[w]
    <3>1. \A t \in Nat : now - t <= v => now - t <= w
      BY <2>1, <2>4
    <3> QED
      BY <2>1, <2>2, <3>1
  <2> QED
    BY <2>2, <2>3, <2>4
<1> QED
  BY <1>1, <1>2, <1>3 DEF ReportInv, ReportIsConsistent

\* A report that is posted tells one consistent story, whatever the files of
\* earlier reports hold: the windows of make_report.py grow with their length
\* and hold this report, the participants are online or offline, the lists of
\* uptimes are in order, and no message exceeds the limit of discord.
THEOREM ReportsAreConsistent == ReportSpec => []ReportIsConsistent
<1>1. ReportInit => ReportInv
  <2> SUFFICES ASSUME ReportInit PROVE ReportInv
    OBVIOUS
  <2>1. DOMAIN files = {} /\ uptimes = {} /\ answered = {} /\ now = 0 /\ message = 0
    BY DEF ReportInit
  <2>2. report_pc = "sleep"
    BY DEF ReportInit
  <2>3. discord_char_limit \in Nat
    BY NetworkReportAssumption
  <2>4. MessageFits
    BY <2>1, <2>3 DEF MessageFits
  <2> QED
    BY <2>1, <2>2, <2>4 DEF ReportInv
<1>2. ReportInv /\ [ReportNext]_reportVars => ReportInv'
  <2> SUFFICES ASSUME ReportInv, [ReportNext]_reportVars PROVE ReportInv'
    OBVIOUS
  <2> USE DEF ReportInv
  <2>1. CASE main
    BY <2>1 DEF main, MessageFits
  <2>2. CASE add_resp
    <3>1. PICK peers \in SUBSET Peer, uptime \in Uptimes :
            /\ answered' = answered \cup peers
            /\ uptimes' = uptimes \cup
                 {[minutes |-> uptime, hours |-> UptimeHours(uptime)] : p \in peers}
      BY <2>2 DEF add_resp
    <3>2. \A u \in uptimes' : u.minutes \in Nat /\ u.hours = UptimeHours(u.minutes)
      <4>1. uptime \in Nat
        BY NetworkReportAssumption
      <4>2. PICK r : r = [minutes |-> uptime, hours |-> UptimeHours(uptime)]
        OBVIOUS
      <4>3. r.minutes \in Nat /\ r.hours = UptimeHours(r.minutes)
        BY <4>1, <4>2
      <4>4. \A u \in uptimes' : u \in uptimes \/ u = r
        BY <3>1, <4>2
      <4> QED
        BY <4>3, <4>4
    <3> QED
      BY <2>2, <3>1, <3>2 DEF add_resp, MessageFits
  <2>3. CASE participants
    BY <2>3 DEF participants, MessageFits, BlockProducers
  <2>4. CASE write_file
    <3>1. /\ DOMAIN files' = DOMAIN files \cup {now} /\ files'[now] = answered
      BY <2>4 DEF write_file, WithFile
    <3> QED
      BY <2>4, <3>1 DEF write_file, MessageFits, BlockProducers
  <2>5. CASE read_files
    <3>1. windows' = [w \in Windows |-> WindowNodes(w)']
      BY <2>5 DEF read_files, WindowNodes, InWindow
    <3> QED
      BY <2>5, <3>1 DEF read_files, MessageFits, BlockProducers
  <2>6. CASE post_report \/ post_error
    <3>1. MessageFits'
      BY <2>6, TruncatedFits DEF post_report, post_error, MessageFits
    <3> QED
      BY <2>6, <3>1 DEF post_report, post_error
  <2>7. CASE write_fails
    <3>1. DOMAIN files' = DOMAIN files \cup {now}
      BY <2>7 DEF write_fails, WithFile
    <3> QED
      BY <2>7, <3>1 DEF write_fails, MessageFits
  <2>8. CASE read_fails \/ crawl_fails \/ post_fails \/ post_error_fails
    BY <2>8 DEF read_fails, crawl_fails, post_fails, post_error_fails, MessageFits
  <2>9. CASE UNCHANGED reportVars
    BY <2>9 DEF reportVars, MessageFits, BlockProducers, WindowNodes, InWindow
  <2> QED
    BY <2>1, <2>2, <2>3, <2>4, <2>5, <2>6, <2>7, <2>8, <2>9 DEF ReportNext
<1>3. ReportInv => ReportIsConsistent
  BY ReportInvSuffices
<1> QED
  BY <1>1, <1>2, <1>3, PTL DEF ReportSpec

-----------------------------------------------------------------------------
(* The status of the nodes. *)

\* A set of natural numbers that is not empty has a least element.
LEMMA LeastOfNaturals ==
  ASSUME NEW S \in SUBSET Nat, S # {}
  PROVE  Min(S) \in S
BY NatLeast DEF Min

\* A finite set as a sequence: its elements, each once.
LEMMA SetToSeqIsOfSet ==
  ASSUME NEW S, IsFiniteSet(S)
  PROVE  /\ SetToSeq(S) \in Seq(S) /\ Len(SetToSeq(S)) = Cardinality(S)
         /\ \A i, j \in 1..Len(SetToSeq(S)) : SetToSeq(S)[i] = SetToSeq(S)[j] => i = j
<1>1. Cardinality(S) \in Nat /\ ExistsBijection(1..Cardinality(S), S)
  BY FS_CardinalityType
<1>2. \E f \in [1..Cardinality(S) -> S] : IsInjective(f)
  BY <1>1, Zenon DEF ExistsBijection, Bijection, Injection
<1>3. SetToSeq(S) \in [1..Cardinality(S) -> S] /\ IsInjective(SetToSeq(S))
  BY <1>2, Zenon DEF SetToSeq
<1>4. PICK s : s = SetToSeq(S)
  OBVIOUS
<1>5. s \in Seq(S) /\ Len(s) = Cardinality(S) /\ DOMAIN s = 1..Len(s)
  <2>1. s \in [1..Cardinality(S) -> S] /\ Cardinality(S) \in Nat
    BY <1>1, <1>3, <1>4
  <2> QED
    BY <2>1
<1>6. \A i, j \in 1..Len(s) : s[i] = s[j] => i = j
  BY <1>3, <1>4, <1>5 DEF IsInjective
<1> QED
  BY <1>4, <1>5, <1>6

ErrorRecord == [peer : Peer, error : SUBSET ToSet(Phrases)]
TableRow == [peer : Peer, resp : Valid]

\* An error is of one class.
LEMMA OneClass ==
  ASSUME NEW e
  PROVE  \E class \in Classes : ErrorClasses(e) = {class}
<1> DEFINE found == {i \in DOMAIN Phrases : Phrases[i] \in e}
<1>1. ErrorClasses(e) = IF found = {} THEN {"others"} ELSE {Phrases[Min(found)]}
  BY DEF ErrorClasses
<1>2. CASE found = {}
  BY <1>1, <1>2 DEF Classes
<1>3. CASE found # {}
  <2>1. DOMAIN Phrases = 1..Len(Phrases) /\ Len(Phrases) \in Nat
    BY NodeStatusAssumption
  <2>2. found \in SUBSET Nat
    BY <2>1
  <2>3. Min(found) \in DOMAIN Phrases
    BY <1>3, <2>2, LeastOfNaturals
  <2>4. Phrases[Min(found)] \in Classes
    BY <2>1, <2>3 DEF Classes, ToSet
  <2> QED
    BY <1>1, <1>3, <2>4
<1> QED
  BY <1>2, <1>3

\* The errors of the classes add up to all of them, if each is of one class:
\* the pairs of a class and a number up to how many it has are as many.
LEMMA ClassesAddUp ==
  ASSUME NEW n \in Nat, NEW Of \in [Classes -> SUBSET (1..n)],
         \A i \in 1..n : \E a \in Classes : i \in Of[a] /\ \A b \in Classes : i \in Of[b] => b = a,
         NEW D, \A x : x \in D <=> \E a \in Classes : \E k \in 1..Cardinality(Of[a]) : x = <<a, k>>
  PROVE  Cardinality(D) = n
<1>1. IsFiniteSet(1..n) /\ Cardinality(1..n) = n
  BY FS_Interval
<1>2. \A a \in Classes : Bijection(1..Cardinality(Of[a]), Of[a]) # {}
  <2> SUFFICES ASSUME NEW a \in Classes
               PROVE  Bijection(1..Cardinality(Of[a]), Of[a]) # {}
    OBVIOUS
  <2>1. IsFiniteSet(Of[a])
    BY <1>1, FS_Subset
  <2> QED
    BY <2>1, FS_CardinalityType DEF ExistsBijection
<1>3. PICK F : F = [a \in Classes |-> CHOOSE f : f \in Bijection(1..Cardinality(Of[a]), Of[a])]
  OBVIOUS
<1>4. \A a \in Classes : F[a] \in Bijection(1..Cardinality(Of[a]), Of[a])
  BY <1>2, <1>3, Zenon
<1>5. ASSUME NEW a \in Classes
      PROVE  /\ \A k \in 1..Cardinality(Of[a]) : F[a][k] \in Of[a]
             /\ \A k, l \in 1..Cardinality(Of[a]) : F[a][k] = F[a][l] => k = l
             /\ \A i \in Of[a] : \E k \in 1..Cardinality(Of[a]) : F[a][k] = i
  <2>1. PICK f : f = F[a]
    OBVIOUS
  <2>2. PICK m : m = 1..Cardinality(Of[a])
    OBVIOUS
  <2>3. f \in Injection(m, Of[a]) /\ f \in Surjection(m, Of[a])
    BY <1>4, <2>1, <2>2 DEF Bijection
  <2>4. /\ \A k \in m : f[k] \in Of[a]
        /\ \A k, l \in m : f[k] = f[l] => k = l
    BY <2>3 DEF Injection, IsInjective
  <2>5. \A i \in Of[a] : \E k \in m : f[k] = i
    BY <2>3 DEF Surjection
  <2> QED
    BY <2>1, <2>2, <2>4, <2>5
<1>6. PICK G : G = [x \in D |-> F[x[1]][x[2]]]
  OBVIOUS
<1>7. G \in Bijection(D, 1..n)
  <2>1. G \in [D -> 1..n]
    BY <1>5, <1>6
  <2>2. ASSUME NEW x \in D, NEW y \in D, G[x] = G[y] PROVE x = y
    <3>1. PICK a \in Classes : \E k \in 1..Cardinality(Of[a]) : x = <<a, k>>
      OBVIOUS
    <3>2. PICK k \in 1..Cardinality(Of[a]) : x = <<a, k>>
      BY <3>1
    <3>3. PICK b \in Classes : \E l \in 1..Cardinality(Of[b]) : y = <<b, l>>
      OBVIOUS
    <3>4. PICK l \in 1..Cardinality(Of[b]) : y = <<b, l>>
      BY <3>3
    <3>5. F[a][k] = F[b][l]
      BY <1>6, <2>2, <3>2, <3>4
    <3>6. F[a][k] \in Of[a] /\ F[b][l] \in Of[b] /\ F[a][k] \in 1..n
      BY <1>5
    <3>7. a = b
      BY <3>5, <3>6
    <3> QED
      BY <1>5, <3>2, <3>4, <3>5, <3>7
  <2>3. ASSUME NEW i \in 1..n PROVE \E x \in D : G[x] = i
    <3>1. PICK a \in Classes : i \in Of[a]
      OBVIOUS
    <3>2. PICK k \in 1..Cardinality(Of[a]) : F[a][k] = i
      BY <1>5, <3>1
    <3>3. <<a, k>> \in D
      OBVIOUS
    <3> QED
      BY <1>6, <3>2, <3>3
  <2> QED
    BY <2>1, <2>2, <2>3 DEF Bijection, Injection, Surjection, IsInjective
<1>8. ExistsBijection(1..n, D)
  BY <1>7, Fun_ExistsBijSymmetric DEF ExistsBijection
<1> QED
  BY <1>1, <1>8, FS_Bijection

\* Rows about some of the peers, as a sequence in any order.
LEMMA RowsOfSet ==
  ASSUME NEW ps \in SUBSET Peer, NEW S, NEW row \in Surjection(ps, S), NEW s, s = SetToSeq(S)
  PROVE  s \in Seq(S) /\ \A i, j \in 1..Len(s) : s[i] = s[j] => i = j
<1>1. IsFiniteSet(ps)
  BY NodeStatusAssumption, FS_Subset
<1>2. IsFiniteSet(S)
  BY <1>1, FS_Surjection
<1> QED
  BY <1>2, SetToSeqIsOfSet, Zenon

\* The table of answers: rows, no peer twice, all of them in the set.
TableOK(table, ps) ==
  /\ table \in Seq(TableRow)
  /\ \A i, j \in 1..Len(table) : table[i].peer = table[j].peer => i = j
  /\ \A i \in 1..Len(table) : table[i].peer \in ps

\* The answers of a further seed leave the first answer of a peer alone.
LEMMA MergeKeepsTable ==
  ASSUME NEW ps \in SUBSET Peer, NEW peers \in SUBSET Peer, NEW table, TableOK(table, ps),
         NEW resps \in [peers -> Valid \cup Error]
  PROVE  TableOK(Merge(table, resps), ps \cup peers)
<1> DEFINE known == {table[i].peer : i \in DOMAIN table}
           new == {q \in DOMAIN resps : ~IsError(resps[q]) /\ q \notin known}
           rows == {[peer |-> q, resp |-> resps[q]] : q \in new}
<1>1. Merge(table, resps) = table \o SetToSeq(rows)
  BY DEF Merge
<1>2. new \in SUBSET Peer /\ new \subseteq peers /\ \A q \in new : resps[q] \in Valid
  <2>1. \A r \in Error : IsError(r)
    BY DEF Error, IsError
  <2> QED
    BY <2>1
<1>3. PICK row : row = [q \in new |-> [peer |-> q, resp |-> resps[q]]]
  OBVIOUS
<1>4. row \in [new -> TableRow] /\ rows = {row[q] : q \in new}
  <2> HIDE DEF new
  <2> QED
    BY <1>2, <1>3 DEF TableRow
<1>5. PICK s : s = SetToSeq(rows)
  OBVIOUS
<1>6. s \in Seq(rows) /\ \A i, j \in 1..Len(s) : s[i] = s[j] => i = j
  <2> HIDE DEF new, rows
  <2>1. row \in Surjection(new, rows)
    BY <1>4 DEF Surjection
  <2> QED
    BY <1>2, <1>5, <2>1, RowsOfSet
<1>7. /\ \A x \in rows : x \in TableRow /\ x.peer \in peers /\ x.peer \notin known
      /\ \A x, y \in rows : x.peer = y.peer => x = y
  <2>1. \A x \in rows : \E q \in new : x = [peer |-> q, resp |-> resps[q]]
    OBVIOUS
  <2>2. \A q \in new : q \in Peer /\ q \in peers /\ q \notin known /\ resps[q] \in Valid
    BY <1>2
  <2> HIDE DEF new, rows, known
  <2> QED
    BY <2>1, <2>2 DEF TableRow
<1>8. table \in Seq(TableRow) /\ Len(table) \in Nat /\ DOMAIN table = 1..Len(table)
  BY DEF TableOK
<1>9. \A i \in 1..Len(table) : table[i].peer \in known /\ table[i].peer \in ps
  BY <1>8 DEF TableOK
<1> HIDE DEF new, rows, known
<1>10. /\ s \in Seq(TableRow) /\ Len(s) \in Nat
       /\ \A i \in 1..Len(s) : s[i] \in rows
  BY <1>6, <1>7
<1>11. PICK t : t = table \o s
  OBVIOUS
<1>12. /\ t \in Seq(TableRow) /\ Len(t) = Len(table) + Len(s)
       /\ \A i \in 1..Len(t) : t[i] = IF i <= Len(table) THEN table[i] ELSE s[i - Len(table)]
  BY <1>8, <1>10, <1>11
<1>13. \A i \in 1..Len(t) :
         \/ i \in 1..Len(table) /\ t[i] = table[i]
         \/ i > Len(table) /\ i - Len(table) \in 1..Len(s) /\ t[i] = s[i - Len(table)]
  BY <1>8, <1>10, <1>12
<1>14. \A i \in 1..Len(t) : t[i].peer \in ps \cup peers
  BY <1>7, <1>9, <1>10, <1>13
<1>15. ASSUME NEW i \in 1..Len(t), NEW j \in 1..Len(t), t[i].peer = t[j].peer
       PROVE  i = j
  <2>1. CASE i \in 1..Len(table) /\ j \in 1..Len(table)
    BY <1>12, <1>15, <2>1 DEF TableOK
  <2>2. CASE i > Len(table) /\ j > Len(table)
    <3>1. /\ i - Len(table) \in 1..Len(s) /\ j - Len(table) \in 1..Len(s)
          /\ t[i] = s[i - Len(table)] /\ t[j] = s[j - Len(table)]
      <4>1. \A x \in 1..Len(table) : ~(x > Len(table))
        BY <1>8
      <4>2. i \notin 1..Len(table) /\ j \notin 1..Len(table)
        BY <2>2, <4>1, Zenon
      <4> QED
        BY <1>13, <4>2, Zenon
    <3>2. s[i - Len(table)] = s[j - Len(table)]
      BY <1>7, <1>10, <1>15, <3>1
    <3>3. i - Len(table) = j - Len(table)
      BY <1>6, <3>1, <3>2
    <3> QED
      BY <1>8, <3>3
  <2>3. CASE i \in 1..Len(table) /\ j > Len(table)
    BY <1>7, <1>9, <1>10, <1>13, <1>15, <2>3
  <2>4. CASE i > Len(table) /\ j \in 1..Len(table)
    BY <1>7, <1>9, <1>10, <1>13, <1>15, <2>4
  <2> QED
    BY <1>8, <1>12, <2>1, <2>2, <2>3, <2>4
<1> QED
  BY <1>1, <1>5, <1>11, <1>12, <1>14, <1>15 DEF TableOK

\* A table has no more rows than there are peers in the set.
LEMMA TableIsNoLonger ==
  ASSUME NEW ps \in SUBSET Peer, NEW table, TableOK(table, ps)
  PROVE  Len(table) <= Cardinality(ps) /\ Cardinality(ps) \in Nat
<1>1. IsFiniteSet(ps)
  BY NodeStatusAssumption, FS_Subset
<1>2. Len(table) \in Nat
  BY DEF TableOK
<1>3. [i \in 1..Len(table) |-> table[i].peer] \in Injection(1..Len(table), ps)
  BY DEF TableOK, Injection, IsInjective
<1>4. Cardinality(1..Len(table)) <= Cardinality(ps)
  BY <1>1, <1>3, FS_Injection
<1>5. \A m \in Nat : Cardinality(1..m) = m
  BY FS_Interval
<1> QED
  BY <1>1, <1>2, <1>4, <1>5, FS_CardinalityType

Gauges ==
  [nodes_queried : Nat, nodes_responded : Nat, nodes_errored : Nat, by_class : [Classes -> Nat],
   near : Nat, synced : Nat, majority : Nat]

SeedGauges == [of : Nat, queried : Nat, responded : Nat]

\* The seeds' gauges, and how those of the round that is under way fit what it
\* has collected.
SeedsInv ==
  /\ by_seed \in [ToSet(Seeds) -> SeedGauges] /\ seeds_left \in Seq(ToSet(Seeds))
  /\ \A s \in ToSet(Seeds) : by_seed[s].of <= round
  /\ status_pc = "seeds" =>
       /\ set_in["answers"] < round
       /\ \A s \in ToSet(Seeds) : by_seed[s].of = round =>
            by_seed[s].queried <= Cardinality(peer_set)

\* What is collected, and the rounds the gauges are of: a round that has set
\* the gauges about answers goes on to those about the best tip.
StatusInv ==
  /\ peer_set \in SUBSET Peer /\ TableOK(peer_table, peer_set)
  /\ error_resps \in Seq(ErrorRecord)
  /\ gauges \in Gauges /\ round \in Nat /\ raised \in Nat
  /\ set_in \in [{"answers", "near_best_tip"} -> Nat]
  /\ status_pc = "tips" => set_in["answers"] = round
  /\ \A g \in {"answers", "near_best_tip"} : set_in[g] <= round
  /\ SeedsInv
  /\ StatusGaugesAgree

\* The errors a seed reports become records of errors.
LEMMA ErrorsAreRecords ==
  ASSUME NEW rows \in SUBSET Peer, NEW resps \in [rows -> Valid \cup Error], NEW seq,
         seq = SetToSeq({[peer |-> q, error |-> resps[q].error] :
                         q \in {r \in DOMAIN resps : IsError(resps[r])}})
  PROVE  seq \in Seq(ErrorRecord)
<1> DEFINE es == {r \in rows : IsError(resps[r])}
           recs == {[peer |-> q, error |-> resps[q].error] : q \in es}
<1>1. es \in SUBSET Peer /\ \A q \in es : resps[q].error \in SUBSET ToSet(Phrases)
  <2>1. \A r \in Valid : ~IsError(r)
    BY DEF Valid, IsError
  <2>2. \A q \in es : resps[q] \in Error
    BY <2>1
  <2> QED
    BY <2>2 DEF Error
<1>2. PICK row : row = [q \in es |-> [peer |-> q, error |-> resps[q].error]]
  OBVIOUS
<1>3. row \in [es -> ErrorRecord] /\ recs = {row[q] : q \in es}
  <2> HIDE DEF es
  <2> QED
    BY <1>1, <1>2 DEF ErrorRecord
<1>4. DOMAIN resps = rows
  OBVIOUS
<1>5. seq = SetToSeq(recs)
  BY <1>4
<1> HIDE DEF es, recs
<1>6. row \in Surjection(es, recs)
  BY <1>3 DEF Surjection
<1>7. seq \in Seq(recs)
  BY <1>1, <1>5, <1>6, RowsOfSet
<1>8. recs \subseteq ErrorRecord
  BY <1>3
<1> QED
  BY <1>7, <1>8

\* What a seed answers is added to what the others have.
LEMMA AskSeedKeeps ==
  ASSUME StatusInv, ask_seed
  PROVE  StatusInv'
<1>1. PICK peers \in SUBSET Peer : \E rows \in SUBSET peers : \E resps \in [rows -> Valid \cup Error] :
        /\ count_resps(Head(seeds_left), peers, resps)
        /\ peer_table' = Merge(peer_table, resps) \/ peer_table' = peer_table
  BY DEF ask_seed
<1>2. PICK rows \in SUBSET peers : \E resps \in [rows -> Valid \cup Error] :
        /\ count_resps(Head(seeds_left), peers, resps)
        /\ peer_table' = Merge(peer_table, resps) \/ peer_table' = peer_table
  BY <1>1
<1>3. PICK resps \in [rows -> Valid \cup Error] :
        /\ count_resps(Head(seeds_left), peers, resps)
        /\ peer_table' = Merge(peer_table, resps) \/ peer_table' = peer_table
  BY <1>2
<1>4. /\ status_pc = "seeds" /\ seeds_left # <<>> /\ seeds_left' = Tail(seeds_left)
      /\ UNCHANGED <<status_pc, gauges, set_in, round, raised>>
  BY DEF ask_seed
<1>5. PICK valid : valid = {q \in DOMAIN resps : ~IsError(resps[q])}
  OBVIOUS
<1>6. PICK seed : seed = Head(seeds_left)
  OBVIOUS
<1>7. PICK seq : seq = SetToSeq({[peer |-> q, error |-> resps[q].error] :
                                 q \in {r \in DOMAIN resps : IsError(resps[r])}})
  OBVIOUS
<1>8. /\ peer_set' = peer_set \cup peers
      /\ error_resps' = error_resps \o seq
      /\ by_seed' = [by_seed EXCEPT ![seed] =
           [of |-> round, queried |-> Cardinality(peers), responded |-> Cardinality(valid)]]
  BY <1>3, <1>5, <1>6, <1>7 DEF count_resps
<1>9. rows \in SUBSET Peer
  BY <1>2
<1>10. error_resps' \in Seq(ErrorRecord)
  <2>1. seq \in Seq(ErrorRecord)
    BY <1>7, <1>9, ErrorsAreRecords, Zenon
  <2>2. error_resps \in Seq(ErrorRecord)
    BY DEF StatusInv
  <2> QED
    BY <1>8, <2>1, <2>2
<1>11. peer_set' \in SUBSET Peer
  BY <1>8 DEF StatusInv
<1>12. TableOK(peer_table', peer_set')
  <2>1. CASE peer_table' = Merge(peer_table, resps)
    <3>1. TableOK(Merge(peer_table, resps), peer_set \cup rows)
      BY <1>9, MergeKeepsTable DEF StatusInv
    <3> QED
      BY <1>8, <2>1, <3>1 DEF TableOK
  <2>2. CASE peer_table' = peer_table
    BY <1>8, <2>2 DEF StatusInv, TableOK
  <2> QED
    BY <1>3, <2>1, <2>2
<1>13. /\ Cardinality(peers) \in Nat /\ Cardinality(valid) \in Nat
       /\ Cardinality(valid) <= Cardinality(peers)
       /\ Cardinality(peer_set) \in Nat /\ Cardinality(peer_set') \in Nat
       /\ Cardinality(peers) <= Cardinality(peer_set')
       /\ Cardinality(peer_set) <= Cardinality(peer_set')
  <2>1. valid \in SUBSET peers /\ peers \in SUBSET peer_set' /\ peer_set \in SUBSET peer_set'
    BY <1>5, <1>8
  <2>2. IsFiniteSet(peer_set')
    BY <1>11, NodeStatusAssumption, FS_Subset
  <2>3. /\ IsFiniteSet(peers) /\ Cardinality(peers) <= Cardinality(peer_set')
        /\ IsFiniteSet(peer_set) /\ Cardinality(peer_set) <= Cardinality(peer_set')
    BY <2>1, <2>2, FS_Subset
  <2>4. IsFiniteSet(valid) /\ Cardinality(valid) <= Cardinality(peers)
    BY <2>1, <2>3, FS_Subset
  <2> QED
    BY <2>2, <2>3, <2>4, FS_CardinalityType
<1>14. seed \in ToSet(Seeds) /\ seeds_left' \in Seq(ToSet(Seeds))
  BY <1>4, <1>6 DEF StatusInv, SeedsInv
<1>15. PICK new : new = [of |-> round, queried |-> Cardinality(peers), responded |-> Cardinality(valid)]
  OBVIOUS
<1>16. /\ new \in SeedGauges /\ new.of = round /\ new.queried = Cardinality(peers)
       /\ new.responded <= new.queried
  BY <1>13, <1>15 DEF SeedGauges, StatusInv
<1>17. by_seed' = [by_seed EXCEPT ![seed] = new]
  BY <1>8, <1>15
<1>18. /\ by_seed' \in [ToSet(Seeds) -> SeedGauges] /\ by_seed'[seed] = new
       /\ \A s \in ToSet(Seeds) : s # seed => by_seed'[s] = by_seed[s]
  BY <1>14, <1>16, <1>17 DEF StatusInv, SeedsInv
<1>19. SeedsInv'
  <2>1. \A s \in ToSet(Seeds) : by_seed'[s].of <= round'
    BY <1>4, <1>16, <1>18 DEF StatusInv, SeedsInv
  <2>2. ASSUME NEW s \in ToSet(Seeds), by_seed'[s].of = round
        PROVE  by_seed'[s].queried <= Cardinality(peer_set')
    <3>1. CASE s = seed
      BY <1>13, <1>16, <1>18, <3>1
    <3>2. CASE s # seed
      <4>1. by_seed'[s] = by_seed[s] /\ by_seed[s].queried \in Nat
        BY <1>18, <3>2 DEF StatusInv, SeedsInv, SeedGauges
      <4>2. by_seed[s].queried <= Cardinality(peer_set)
        BY <1>4, <2>2, <4>1 DEF StatusInv, SeedsInv
      <4> QED
        BY <1>13, <4>1, <4>2
    <3> QED
      BY <3>1, <3>2
  <2> QED
    BY <1>4, <1>14, <1>18, <2>1, <2>2 DEF StatusInv, SeedsInv
<1>20. SeedsFitTheWhole'
  <2> SUFFICES ASSUME NEW s \in ToSet(Seeds)
               PROVE  /\ by_seed'[s].responded <= by_seed'[s].queried
                      /\ by_seed'[s].of = set_in["answers"] =>
                           by_seed'[s].queried <= gauges.nodes_queried
    BY <1>4 DEF SeedsFitTheWhole
  <2>1. CASE s = seed
    BY <1>4, <1>16, <1>18, <2>1 DEF StatusInv, SeedsInv
  <2>2. CASE s # seed
    BY <1>18, <2>2 DEF StatusInv, StatusGaugesAgree, SeedsFitTheWhole
  <2> QED
    BY <2>1, <2>2
<1>21. gauges' \in Gauges /\ StatusGaugesAgree'
  BY <1>4, <1>20 DEF StatusInv, StatusGaugesAgree, RespondedWereQueried, ErrorClassesPartition,
     StaleIsCounted, MajorityIsNear
<1> QED
  BY <1>4, <1>10, <1>11, <1>12, <1>19, <1>21 DEF StatusInv

\* Nothing is collected, and the table of no answers is one.
LEMMA NothingCollected ==
  ASSUME peer_set' = {}, peer_table' = <<>>, error_resps' = <<>>
  PROVE  /\ peer_set' \in SUBSET Peer /\ TableOK(peer_table', peer_set')
         /\ error_resps' \in Seq(ErrorRecord)
BY DEF TableOK

\* A step that raises leaves the gauges, and is counted.
LEMMA RaiseKeeps ==
  ASSUME StatusInv, Raise, UNCHANGED <<by_seed, round>>
  PROVE  StatusInv'
<1>1. /\ UNCHANGED <<by_seed, gauges, set_in, round>>
      /\ status_pc' = "idle" /\ raised' = round /\ seeds_left' = <<>>
      /\ peer_set' = {} /\ peer_table' = <<>> /\ error_resps' = <<>>
  BY DEF Raise, Return
<1>2. StatusGaugesAgree'
  BY <1>1 DEF StatusInv, StatusGaugesAgree, RespondedWereQueried, ErrorClassesPartition,
     StaleIsCounted, SeedsFitTheWhole, MajorityIsNear
<1>3. SeedsInv'
  BY <1>1 DEF StatusInv, SeedsInv
<1>4. /\ peer_set' \in SUBSET Peer /\ TableOK(peer_table', peer_set')
      /\ error_resps' \in Seq(ErrorRecord)
  BY <1>1, NothingCollected
<1> QED
  BY <1>1, <1>2, <1>3, <1>4 DEF StatusInv

\* The gauges about answers and errors.
LEMMA SetAnswersKeeps ==
  ASSUME StatusInv, set_answers
  PROVE  StatusInv'
<1>1. CASE peer_table = <<>>
  <2>1. Raise /\ UNCHANGED <<by_seed, round>>
    BY <1>1 DEF set_answers
  <2> QED
    BY <2>1, RaiseKeeps
<1>2. CASE peer_table # <<>>
  <2> DEFINE Of(class) == {i \in DOMAIN error_resps : class \in ErrorClasses(error_resps[i].error)}
  <2>1. PICK counts : counts = [class \in Classes |-> Cardinality(Of(class))]
    OBVIOUS
  <2>2. /\ gauges' = [gauges EXCEPT !.nodes_queried = Cardinality(peer_set),
                                    !.nodes_responded = Len(peer_table),
                                    !.nodes_errored = Len(error_resps),
                                    !.by_class = counts]
        /\ set_in' = [set_in EXCEPT !["answers"] = round]
        /\ status_pc' = "tips" /\ status_pc = "seeds"
        /\ UNCHANGED <<raised, peer_set, peer_table, error_resps, round, by_seed, seeds_left>>
    BY <1>2, <2>1 DEF set_answers, collected
  <2>3. DOMAIN error_resps = 1..Len(error_resps) /\ Len(error_resps) \in Nat
    BY DEF StatusInv
  <2>4. \A class \in Classes : Cardinality(Of(class)) \in Nat
    <3> SUFFICES ASSUME NEW class \in Classes PROVE Cardinality(Of(class)) \in Nat
      OBVIOUS
    <3>1. IsFiniteSet(1..Len(error_resps)) /\ Of(class) \in SUBSET (1..Len(error_resps))
      BY <2>3, FS_Interval
    <3> HIDE DEF Of
    <3>2. IsFiniteSet(Of(class))
      BY <3>1, FS_Subset
    <3> QED
      BY <3>2, FS_CardinalityType
  <2>5. counts \in [Classes -> Nat]
    <3> HIDE DEF Of
    <3> QED
      BY <2>1, <2>4
  <2>6. Cardinality(UNION {{class} \X (1..counts[class]) : class \in Classes}) = Len(error_resps)
    <3>1. PICK sets : sets = [class \in Classes |-> Of(class)]
      OBVIOUS
    <3>2. sets \in [Classes -> SUBSET (1..Len(error_resps))]
      BY <2>3, <3>1
    <3>3. ASSUME NEW i \in 1..Len(error_resps)
          PROVE  \E a \in Classes : i \in sets[a] /\ \A b \in Classes : i \in sets[b] => b = a
      BY <2>3, <3>1, OneClass
    <3>4. PICK D : D = UNION {{class} \X (1..counts[class]) : class \in Classes}
      OBVIOUS
    <3>5. \A a \in Classes : counts[a] = Cardinality(sets[a])
      <4> HIDE DEF Of
      <4> QED
        BY <2>1, <3>1
    <3>6. \A x : x \in D <=> \E a \in Classes : \E k \in 1..counts[a] : x = <<a, k>>
      BY <3>4
    <3>7. \A x : x \in D <=> \E a \in Classes : \E k \in 1..Cardinality(sets[a]) : x = <<a, k>>
      BY <3>5, <3>6
    <3>8. Cardinality(D) = Len(error_resps)
      BY <2>3, <3>2, <3>3, <3>7, ClassesAddUp
    <3> QED
      BY <3>4, <3>8
  <2>7. Len(peer_table) <= Cardinality(peer_set) /\ Cardinality(peer_set) \in Nat /\ Len(peer_table) \in Nat
    BY TableIsNoLonger DEF StatusInv, TableOK
  <2> HIDE DEF Of
  <2>8. /\ gauges'.nodes_queried = Cardinality(peer_set) /\ gauges'.nodes_responded = Len(peer_table)
        /\ gauges'.nodes_errored = Len(error_resps) /\ gauges'.by_class = counts
        /\ gauges'.near = gauges.near /\ gauges'.synced = gauges.synced
        /\ gauges'.majority = gauges.majority
        /\ gauges' = [nodes_queried |-> Cardinality(peer_set), nodes_responded |-> Len(peer_table),
                      nodes_errored |-> Len(error_resps), by_class |-> counts,
                      near |-> gauges.near, synced |-> gauges.synced, majority |-> gauges.majority]
    BY <2>2 DEF StatusInv, Gauges
  <2>9. gauges' \in Gauges
    BY <2>3, <2>5, <2>7, <2>8 DEF StatusInv, Gauges
  <2>10. RespondedWereQueried' /\ MajorityIsNear'
    BY <2>7, <2>8 DEF RespondedWereQueried, MajorityIsNear, StatusInv, StatusGaugesAgree
  <2>11. ErrorClassesPartition'
    BY <2>6, <2>8 DEF ErrorClassesPartition
  <2>12. /\ set_in' \in [{"answers", "near_best_tip"} -> Nat] /\ set_in'["answers"] = round'
         /\ \A g \in {"answers", "near_best_tip"} : set_in'[g] <= round'
    BY <2>2 DEF StatusInv
  <2>13. StaleIsCounted'
    BY <2>2 DEF StaleIsCounted
  <2>14. SeedsInv'
    BY <2>2 DEF StatusInv, SeedsInv
  <2>15. SeedsFitTheWhole'
    <3> SUFFICES ASSUME NEW s \in ToSet(Seeds)
                 PROVE  /\ by_seed[s].responded <= by_seed[s].queried
                        /\ by_seed[s].of = round => by_seed[s].queried <= gauges'.nodes_queried
      BY <2>2, <2>12 DEF SeedsFitTheWhole
    <3> QED
      BY <2>2, <2>8 DEF StatusInv, SeedsInv, StatusGaugesAgree, SeedsFitTheWhole
  <2> QED
    BY <2>2, <2>9, <2>10, <2>11, <2>12, <2>13, <2>14, <2>15 DEF StatusInv, StatusGaugesAgree
<1> QED
  BY <1>1, <1>2

\* A node whose best tip is the most common one has a block near it.
LEMMA TipIsNear ==
  ASSUME StatusInv, NEW i \in DOMAIN peer_table, NEW tip,
         Resps[i].k_block_hashes # <<>>, Last(Resps[i].k_block_hashes) = tip
  PROVE  any_hash_in_last_n(Resps[i], last_n_protocol_states(tip))
<1>1. tip \in last_n_protocol_states(tip)
  BY DEF last_n_protocol_states
<1>2. peer_table \in Seq(TableRow)
  BY DEF StatusInv, TableOK
<1>3. peer_table[i] \in TableRow /\ Resps[i] = peer_table[i].resp
  BY <1>2 DEF Resps
<1>4. Resps[i].k_block_hashes \in Seq(Nat)
  BY <1>3, NodeStatusAssumption DEF TableRow, Valid
<1>5. PICK ch : ch = Resps[i].k_block_hashes
  OBVIOUS
<1>6. Len(ch) \in Nat \ {0} /\ ch[Len(ch)] = tip
  BY <1>4, <1>5 DEF Last
<1>7. Len(ch) \in (IF Len(ch) > N THEN Len(ch) - N + 1 ELSE 1)..Len(ch)
  BY <1>6, NodeStatusAssumption
<1> QED
  BY <1>1, <1>5, <1>6, <1>7 DEF any_hash_in_last_n

\* The gauges about the best tip.
LEMMA SetNearKeeps ==
  ASSUME StatusInv, set_near_best_tip
  PROVE  StatusInv'
<1> DEFINE tips == {b \in UNION {ToSet(Resps[i].k_block_hashes) : i \in DOMAIN peer_table} :
                      Votes(b) > 0}
           synced == {i \in DOMAIN peer_table : Synced(Resps[i])}
           near(tip) == {i \in synced : any_hash_in_last_n(Resps[i], last_n_protocol_states(tip))}
           major(tip) == {i \in synced :
             Resps[i].k_block_hashes # <<>> /\ Last(Resps[i].k_block_hashes) = tip}
<1>1. CASE tips = {} \/ synced = {}
  <2>1. Raise /\ UNCHANGED <<by_seed, round>>
    BY <1>1 DEF set_near_best_tip
  <2> QED
    BY <2>1, RaiseKeeps
<1>2. CASE ~(tips = {} \/ synced = {})
  <2>1. PICK tip :
          /\ gauges' = [gauges EXCEPT !.near = Cardinality(near(tip)),
                                      !.synced = Cardinality(synced),
                                      !.majority = Cardinality(major(tip))]
          /\ set_in' = [set_in EXCEPT !["near_best_tip"] = round]
          /\ Return /\ UNCHANGED raised
    BY <1>2 DEF set_near_best_tip
  <2>2. /\ UNCHANGED <<round, by_seed>> /\ status_pc = "tips" /\ status_pc' = "idle"
        /\ seeds_left' = <<>> /\ peer_set' = {} /\ peer_table' = <<>> /\ error_resps' = <<>>
    BY <2>1 DEF set_near_best_tip, Return
  <2>3. DOMAIN peer_table = 1..Len(peer_table) /\ Len(peer_table) \in Nat
    BY DEF StatusInv, TableOK
  <2>4. /\ synced \in SUBSET (1..Len(peer_table)) /\ near(tip) \in SUBSET synced
        /\ major(tip) \in SUBSET near(tip)
    BY <2>3, TipIsNear
  <2> HIDE DEF synced, near, major, tips
  <2>5. IsFiniteSet(synced)
    <3>1. IsFiniteSet(1..Len(peer_table))
      BY <2>3, FS_Interval
    <3> QED
      BY <2>4, <3>1, FS_Subset
  <2>6. IsFiniteSet(near(tip)) /\ Cardinality(near(tip)) <= Cardinality(synced)
    BY <2>4, <2>5, FS_Subset
  <2>7. IsFiniteSet(major(tip)) /\ Cardinality(major(tip)) <= Cardinality(near(tip))
    BY <2>4, <2>6, FS_Subset
  <2>8. /\ Cardinality(synced) \in Nat /\ Cardinality(near(tip)) \in Nat
        /\ Cardinality(major(tip)) \in Nat
    BY <2>5, <2>6, <2>7, FS_CardinalityType
  <2>9. gauges' = [nodes_queried |-> gauges.nodes_queried, nodes_responded |-> gauges.nodes_responded,
                   nodes_errored |-> gauges.nodes_errored, by_class |-> gauges.by_class,
                   near |-> Cardinality(near(tip)), synced |-> Cardinality(synced),
                   majority |-> Cardinality(major(tip))]
    BY <2>1 DEF StatusInv, Gauges
  <2>10. gauges' \in Gauges
    BY <2>8, <2>9 DEF StatusInv, Gauges
  <2>11. /\ RespondedWereQueried' /\ MajorityIsNear' /\ ErrorClassesPartition'
    BY <2>6, <2>7, <2>9 DEF RespondedWereQueried, MajorityIsNear, ErrorClassesPartition,
       StatusInv, StatusGaugesAgree
  <2>12. /\ set_in' \in [{"answers", "near_best_tip"} -> Nat]
         /\ \A g \in {"answers", "near_best_tip"} : set_in'[g] = round'
    BY <2>1, <2>2 DEF StatusInv
  <2>13. StaleIsCounted'
    BY <2>2, <2>12 DEF StaleIsCounted, StatusInv
  <2>14. SeedsInv'
    BY <2>2 DEF StatusInv, SeedsInv
  <2>15. SeedsFitTheWhole'
    <3>1. set_in'["answers"] = set_in["answers"] /\ gauges'.nodes_queried = gauges.nodes_queried
      BY <2>1, <2>9 DEF StatusInv
    <3> QED
      BY <2>2, <3>1 DEF StatusInv, StatusGaugesAgree, SeedsFitTheWhole
  <2>16. /\ peer_set' \in SUBSET Peer /\ TableOK(peer_table', peer_set')
         /\ error_resps' \in Seq(ErrorRecord)
    BY <2>2, NothingCollected
  <2> QED
    BY <2>1, <2>2, <2>10, <2>11, <2>12, <2>13, <2>14, <2>15, <2>16 DEF StatusInv, StatusGaugesAgree
<1> QED
  BY <1>1, <1>2

\* The gauges of node_status_metrics.py fit one another and the round they are
\* of, for any seeds and peers and whatever they answer, also half-way: no node
\* is counted that was not asked, every error is of one class, a gauge of the
\* whole network of an earlier round is accounted for by an exception, a seed's
\* gauges fit those of the whole network, and the nodes at the best tip are near.
THEOREM StatusGaugesFit == StatusSpec => []StatusGaugesAgree
<1>1. StatusInit => StatusInv
  <2> SUFFICES ASSUME StatusInit PROVE StatusInv
    OBVIOUS
  <2>1. /\ peer_set = {} /\ peer_table = <<>> /\ error_resps = <<>> /\ gauges = NoGauges
        /\ round = 0 /\ raised = 0 /\ status_pc = "idle" /\ seeds_left = <<>>
        /\ by_seed = [s \in ToSet(Seeds) |-> [of |-> 0, queried |-> 0, responded |-> 0]]
        /\ set_in \in [{"answers", "near_best_tip"} -> Nat]
        /\ \A g \in {"answers", "near_best_tip"} : set_in[g] = 0
    BY DEF StatusInit
  <2>2. TableOK(peer_table, peer_set) /\ error_resps \in Seq(ErrorRecord)
    BY <2>1 DEF TableOK
  <2>3. /\ NoGauges \in Gauges /\ NoGauges.by_class = [class \in Classes |-> 0]
        /\ NoGauges.nodes_errored = 0 /\ NoGauges.nodes_responded = 0 /\ NoGauges.nodes_queried = 0
        /\ NoGauges.near = 0 /\ NoGauges.synced = 0 /\ NoGauges.majority = 0
    BY DEF NoGauges, Gauges
  <2>4. ErrorClassesPartition
    <3>1. \A class \in Classes : {class} \X (1..gauges.by_class[class]) = {}
      BY <2>1, <2>3
    <3>2. UNION {{class} \X (1..gauges.by_class[class]) : class \in Classes} = {}
      BY <3>1
    <3> QED
      BY <2>1, <2>3, <3>2, FS_EmptySet DEF ErrorClassesPartition
  <2>5. RespondedWereQueried /\ MajorityIsNear /\ StaleIsCounted
    BY <2>1, <2>3 DEF RespondedWereQueried, MajorityIsNear, StaleIsCounted
  <2>6. SeedsInv /\ SeedsFitTheWhole
    BY <2>1, <2>3 DEF SeedsInv, SeedGauges, SeedsFitTheWhole
  <2> QED
    BY <2>1, <2>2, <2>3, <2>4, <2>5, <2>6 DEF StatusInv, StatusGaugesAgree
<1>2. StatusInv /\ [StatusNext]_statusVars => StatusInv'
  <2> SUFFICES ASSUME StatusInv, [StatusNext]_statusVars PROVE StatusInv'
    OBVIOUS
  <2>1. CASE collect_node_status_metrics
    <3>1. /\ peer_set' = {} /\ peer_table' = <<>> /\ error_resps' = <<>>
          /\ status_pc' = "seeds" /\ seeds_left' = Seeds /\ round' = round + 1
          /\ UNCHANGED <<by_seed, gauges, set_in, raised>>
      BY <2>1 DEF collect_node_status_metrics
    <3>2. /\ peer_set' \in SUBSET Peer /\ TableOK(peer_table', peer_set')
          /\ error_resps' \in Seq(ErrorRecord)
      BY <3>1, NothingCollected
    <3>3. gauges' \in Gauges /\ StatusGaugesAgree'
      BY <3>1 DEF StatusInv, StatusGaugesAgree, RespondedWereQueried, ErrorClassesPartition,
         StaleIsCounted, SeedsFitTheWhole, MajorityIsNear
    <3>4. SeedsInv'
      <4>1. \A s \in ToSet(Seeds) : by_seed[s].of \in Nat /\ by_seed[s].of <= round
        BY DEF StatusInv, SeedsInv, SeedGauges
      <4>2. set_in["answers"] < round + 1 /\ round \in Nat
        BY DEF StatusInv
      <4> QED
        BY <3>1, <4>1, <4>2, NodeStatusAssumption DEF StatusInv, SeedsInv
    <3> QED
      BY <3>1, <3>2, <3>3, <3>4 DEF StatusInv
  <2>2. CASE seed_fails \/ UNCHANGED statusVars
    <3>1. /\ UNCHANGED <<status_pc, peer_set, peer_table, error_resps, by_seed, gauges>>
          /\ UNCHANGED <<set_in, round, raised>>
      BY <2>2 DEF seed_fails, statusVars, collected
    <3>2. seeds_left' \in Seq(ToSet(Seeds))
      <4>1. seeds_left \in Seq(ToSet(Seeds))
        BY DEF StatusInv, SeedsInv
      <4>2. seeds_left' = seeds_left \/ (seeds_left # <<>> /\ seeds_left' = Tail(seeds_left))
        BY <2>2 DEF seed_fails, statusVars
      <4>3. PICK S : S = ToSet(Seeds)
        OBVIOUS
      <4>4. ASSUME seeds_left \in Seq(S), seeds_left # <<>>
            PROVE  Tail(seeds_left) \in Seq(S)
        BY <4>4
      <4> QED
        BY <4>1, <4>2, <4>3, <4>4
    <3>3. StatusGaugesAgree'
      BY <3>1 DEF StatusInv, StatusGaugesAgree, RespondedWereQueried, ErrorClassesPartition,
         StaleIsCounted, SeedsFitTheWhole, MajorityIsNear
    <3>4. SeedsInv'
      BY <3>1, <3>2 DEF StatusInv, SeedsInv
    <3> QED
      BY <3>1, <3>3, <3>4 DEF StatusInv
  <2>3. CASE round_raises
    BY <2>3, RaiseKeeps DEF round_raises
  <2> QED
    BY <2>1, <2>2, <2>3, AskSeedKeeps, SetAnswersKeeps, SetNearKeeps DEF StatusNext
<1>3. StatusInv => StatusGaugesAgree
  BY DEF StatusInv
<1> QED
  BY <1>1, <1>2, <1>3, PTL DEF StatusSpec

-----------------------------------------------------------------------------
(* Sequences that are put together piece by piece. *)

\* J[i] is what the first i sequences of ss are together.
Joins(J, S, ss) ==
  /\ J \in [0..Len(ss) -> Seq(S)] /\ J[0] = <<>>
  /\ \A i \in 0..(Len(ss) - 1) : J[i + 1] = J[i] \o ss[i + 1]

\* FlattenSeq joins the sequences from the first to the last.
LEMMA FlattenJoins ==
  ASSUME NEW S, NEW ss \in Seq(Seq(S))
  PROVE  \E J : Joins(J, S, ss) /\ FlattenSeq(ss) = J[Len(ss)]
<1> DEFINE step == [p \in Nat \X Seq(S) |-> IF p[1] < Len(ss) THEN p[2] \o ss[p[1] + 1] ELSE <<>>]
           Body(g, i) == IF i = 1 THEN ss[i] ELSE g[i - 1] \o ss[i]
<1>0. Len(ss) \in Nat /\ \A i \in 1..Len(ss) : ss[i] \in Seq(S)
  OBVIOUS
<1>1. step \in [Nat \X Seq(S) -> Seq(S)] /\ <<>> \in Seq(S)
  <2>1. ASSUME NEW p \in Nat \X Seq(S)
        PROVE  (IF p[1] < Len(ss) THEN p[2] \o ss[p[1] + 1] ELSE <<>>) \in Seq(S)
    <3>1. p[1] \in Nat /\ p[2] \in Seq(S)
      OBVIOUS
    <3>2. p[1] < Len(ss) => ss[p[1] + 1] \in Seq(S)
      BY <1>0, <3>1
    <3> QED
      BY <3>1, <3>2
  <2> QED
    BY <2>1
<1>2. PICK J : J \in Unrolled(Len(ss), Seq(S), <<>>, step)
  <2>1. Unrolled(Len(ss), Seq(S), <<>>, step) # {}
    <3> HIDE DEF step
    <3> QED
      BY <1>0, <1>1, UnrolledExists
  <2> QED
    BY <2>1
<1>3. /\ J \in [0..Len(ss) -> Seq(S)] /\ J[0] = <<>>
      /\ \A i \in 0..(Len(ss) - 1) : J[i + 1] = step[<<i, J[i]>>]
  BY <1>2 DEF Unrolled
<1>4. ASSUME NEW i \in 0..(Len(ss) - 1) PROVE J[i + 1] = J[i] \o ss[i + 1]
  <2>1. i \in Nat /\ i < Len(ss) /\ i \in 0..Len(ss)
    BY <1>0
  <2>2. J[i] \in Seq(S)
    <3>1. J \in [0..Len(ss) -> Seq(S)]
      BY <1>3
    <3> HIDE DEF step
    <3> QED
      BY <2>1, <3>1, Zenon
  <2>3. J[i + 1] = step[<<i, J[i]>>]
    BY <1>3, Zenon
  <2>4. step[<<i, J[i]>>] = IF i < Len(ss) THEN J[i] \o ss[i + 1] ELSE <<>>
    <3>1. PICK u : u = <<i, J[i]>>
      OBVIOUS
    <3>2. u \in Nat \X Seq(S) /\ u[1] = i /\ u[2] = J[i]
      BY <2>1, <2>2, <3>1
    <3>3. step[u] = IF u[1] < Len(ss) THEN u[2] \o ss[u[1] + 1] ELSE <<>>
      BY <3>2, Zenon
    <3> QED
      BY <3>1, <3>2, <3>3, Zenon
  <2> QED
    BY <2>1, <2>3, <2>4, Zenon
<1>5. Joins(J, S, ss)
  BY <1>3, <1>4 DEF Joins
<1>6. CASE Len(ss) = 0
  BY <1>3, <1>5, <1>6 DEF FlattenSeq
<1>7. CASE Len(ss) # 0
  <2>1. PICK w : w = [i \in 1..Len(ss) |-> J[i]]
    OBVIOUS
  <2>2. ASSUME NEW i \in 1..Len(ss) PROVE w[i] = Body(w, i)
    <3>1. i - 1 \in 0..(Len(ss) - 1) /\ i - 1 + 1 = i
      BY <1>0
    <3>2. J[i] = J[i - 1] \o ss[i]
      BY <1>4, <3>1
    <3>3. CASE i = 1
      <4>1. J[i - 1] = <<>> /\ ss[i] \in Seq(S)
        BY <1>0, <1>3, <3>3
      <4>2. J[i] = ss[i]
        BY <3>2, <4>1
      <4> QED
        BY <2>1, <3>3, <4>2
    <3>4. CASE i # 1
      <4>1. i - 1 \in 1..Len(ss)
        BY <1>0, <3>4
      <4> QED
        BY <2>1, <3>2, <3>4, <4>1
    <3> QED
      BY <3>3, <3>4
  <2>3. w = [i \in 1..Len(ss) |-> Body(w, i)]
    BY <2>1, <2>2
  <2>4. PICK v : v = CHOOSE h : h = [i \in 1..Len(ss) |-> Body(h, i)]
    OBVIOUS
  <2>5. v = [i \in 1..Len(ss) |-> Body(v, i)]
    <3> HIDE DEF Body
    <3> QED
      BY <2>3, <2>4
  <2>6. FlattenSeq(ss) = v[Len(ss)]
    BY <1>7, <2>4 DEF FlattenSeq
  <2>7. PICK P : P = {i \in Nat : i + 1 <= Len(ss) => v[i + 1] = J[i + 1]}
    OBVIOUS
  <2>8. 0 \in P
    <3>1. 1 \in 1..Len(ss)
      BY <1>0, <1>7
    <3>2. v[1] = ss[1]
      BY <2>5, <3>1
    <3>3. w[1] = ss[1] /\ w[1] = J[1]
      BY <2>1, <2>2, <3>1
    <3> QED
      BY <2>7, <3>2, <3>3
  <2>9. ASSUME NEW i \in Nat, i \in P PROVE i + 1 \in P
    <3>1. CASE i + 1 + 1 <= Len(ss)
      <4>1. PICK j \in 1..Len(ss) : j = i + 1
        BY <1>0, <3>1
      <4>2. PICK k \in 1..Len(ss) : k = j + 1
        BY <1>0, <3>1, <4>1
      <4>3. k # 1 /\ k - 1 = j /\ j \in 0..(Len(ss) - 1)
        BY <1>0, <4>1, <4>2
      <4>4. v[k] = v[j] \o ss[k]
        BY <2>5, <4>3
      <4>5. J[k] = J[j] \o ss[k]
        BY <1>4, <4>2, <4>3
      <4>6. v[j] = J[j]
        BY <2>7, <2>9, <4>1
      <4>7. v[k] = J[k]
        BY <4>4, <4>5, <4>6, Zenon
      <4>8. v[i + 1 + 1] = J[i + 1 + 1]
        BY <4>1, <4>2, <4>7, Zenon
      <4> QED
        BY <2>7, <4>8
    <3> QED
      BY <2>7, <3>1
  <2>10. Nat \subseteq P
    BY <2>8, <2>9, NatAll
  <2>11. v[Len(ss)] = J[Len(ss)]
    <3>1. PICK k \in Nat : k + 1 = Len(ss)
      <4>1. Len(ss) - 1 \in Nat /\ Len(ss) - 1 + 1 = Len(ss)
        BY <1>0, <1>7
      <4> QED
        BY <4>1
    <3>2. k \in P
      BY <2>10
    <3>3. k + 1 <= Len(ss) => v[k + 1] = J[k + 1]
      BY <2>7, <3>2
    <3> QED
      BY <1>0, <3>1, <3>3
  <2> QED
    BY <1>5, <2>6, <2>11, Zenon
<1> QED
  BY <1>6, <1>7

\* One sequence more is joined at the end.
LEMMA FlattenAppend ==
  ASSUME NEW S, NEW ss \in Seq(Seq(S)), NEW t \in Seq(S)
  PROVE  /\ FlattenSeq(ss) \in Seq(S)
         /\ FlattenSeq(Append(ss, t)) = FlattenSeq(ss) \o t
<1>1. PICK J : Joins(J, S, ss) /\ FlattenSeq(ss) = J[Len(ss)]
  BY FlattenJoins
<1>2. PICK tt \in Seq(Seq(S)) : tt = Append(ss, t)
  <2>1. Append(ss, t) \in Seq(Seq(S))
    OBVIOUS
  <2> QED
    BY <2>1
<1>3. PICK K : Joins(K, S, tt) /\ FlattenSeq(tt) = K[Len(tt)]
  BY FlattenJoins
<1>4. PICK n \in Nat : n = Len(ss)
  OBVIOUS
<1>5. Len(tt) = n + 1 /\ tt[n + 1] = t /\ \A i \in 1..n : tt[i] = ss[i]
  BY <1>2, <1>4
<1>6. PICK P : P = {i \in Nat : i <= n => K[i] = J[i]}
  OBVIOUS
<1>7. 0 \in P
  BY <1>1, <1>3, <1>6 DEF Joins
<1>8. ASSUME NEW i \in Nat, i \in P PROVE i + 1 \in P
  <2>1. CASE i + 1 <= n
    <3>1. i \in 0..(n - 1) /\ i \in 0..(n + 1 - 1) /\ i + 1 \in 1..n /\ i <= n
      BY <2>1
    <3>2. J[i + 1] = J[i] \o ss[i + 1]
      BY <1>1, <1>4, <3>1 DEF Joins
    <3>3. K[i + 1] = K[i] \o tt[i + 1]
      <4>1. i \in 0..(Len(tt) - 1)
        BY <1>5, <3>1
      <4> QED
        BY <1>3, <4>1 DEF Joins
    <3>4. tt[i + 1] = ss[i + 1] /\ K[i] = J[i]
      BY <1>5, <1>6, <1>8, <3>1
    <3>5. K[i + 1] = J[i + 1]
      BY <3>2, <3>3, <3>4, Zenon
    <3> QED
      BY <1>6, <3>5
  <2> QED
    BY <1>6, <2>1
<1>9. Nat \subseteq P
  BY <1>7, <1>8, NatAll
<1>10. K[n] = J[n]
  <2>1. n \in P
    BY <1>9
  <2> QED
    BY <1>6, <2>1
<1>11. K[n + 1] = K[n] \o t
  <2>1. n \in 0..(Len(tt) - 1)
    BY <1>5
  <2> QED
    BY <1>3, <1>5, <2>1 DEF Joins
<1>12. J[n] \in Seq(S)
  BY <1>1, <1>4 DEF Joins
<1> QED
  BY <1>1, <1>2, <1>3, <1>4, <1>5, <1>10, <1>11, <1>12

-----------------------------------------------------------------------------
(* The output of a command. *)

\* What a decoded frame is made of.
Symbols == [char : Nat, width : 1..3]

\* E[i] is the width of the first i symbols.
AddsWidths(E, s) ==
  /\ E \in [0..Len(s) -> Nat] /\ E[0] = 0
  /\ \A i \in 0..(Len(s) - 1) : E[i + 1] = E[i] + s[i + 1].width

\* EncodedLength adds the widths of the symbols.
LEMMA EncodedLengthAdds ==
  ASSUME NEW s \in Seq(Symbols)
  PROVE  \E E : AddsWidths(E, s) /\ EncodedLength(s) = E[Len(s)]
<1> DEFINE step == [p \in Nat \X Nat |-> IF p[1] < Len(s) THEN p[2] + s[p[1] + 1].width ELSE 0]
           Body(g, i) == IF i = 0 THEN 0 ELSE g[i - 1] + s[i].width
<1>0. Len(s) \in Nat /\ \A i \in 1..Len(s) : s[i].width \in Nat
  <2>1. \A i \in 1..Len(s) : s[i] \in Symbols
    OBVIOUS
  <2> QED
    BY <2>1 DEF Symbols
<1>1. step \in [Nat \X Nat -> Nat] /\ 0 \in Nat
  <2>1. ASSUME NEW p \in Nat \X Nat
        PROVE  (IF p[1] < Len(s) THEN p[2] + s[p[1] + 1].width ELSE 0) \in Nat
    <3>1. p[1] \in Nat /\ p[2] \in Nat
      OBVIOUS
    <3>2. p[1] < Len(s) => s[p[1] + 1].width \in Nat
      BY <1>0, <3>1
    <3> QED
      BY <3>1, <3>2
  <2> QED
    BY <2>1
<1>2. PICK E : E \in Unrolled(Len(s), Nat, 0, step)
  <2>1. Unrolled(Len(s), Nat, 0, step) # {}
    <3> HIDE DEF step
    <3> QED
      BY <1>0, <1>1, UnrolledExists
  <2> QED
    BY <2>1
<1>3. /\ E \in [0..Len(s) -> Nat] /\ E[0] = 0
      /\ \A i \in 0..(Len(s) - 1) : E[i + 1] = step[<<i, E[i]>>]
  BY <1>2 DEF Unrolled
<1>4. ASSUME NEW i \in 0..(Len(s) - 1) PROVE E[i + 1] = E[i] + s[i + 1].width
  <2>1. i \in Nat /\ i < Len(s) /\ i \in 0..Len(s)
    BY <1>0
  <2>2. E[i] \in Nat
    BY <1>3, <2>1
  <2>3. E[i + 1] = step[<<i, E[i]>>]
    BY <1>3
  <2> QED
    BY <2>1, <2>2, <2>3
<1>5. AddsWidths(E, s)
  BY <1>3, <1>4 DEF AddsWidths
<1>6. ASSUME NEW i \in 0..Len(s) PROVE E[i] = Body(E, i)
  <2>1. CASE i = 0
    BY <1>3, <2>1
  <2>2. CASE i # 0
    <3>1. i - 1 \in 0..(Len(s) - 1) /\ i - 1 + 1 = i
      BY <1>0, <2>2
    <3> QED
      BY <1>4, <2>2, <3>1
  <2> QED
    BY <2>1, <2>2
<1>7. E = [i \in 0..Len(s) |-> Body(E, i)]
  BY <1>3, <1>6
<1>8. PICK v : v = CHOOSE h : h = [i \in 0..Len(s) |-> Body(h, i)]
  OBVIOUS
<1>9. v = [i \in 0..Len(s) |-> Body(v, i)]
  <2> HIDE DEF Body
  <2> QED
    BY <1>7, <1>8
<1>10. EncodedLength(s) = v[Len(s)]
  BY <1>8 DEF EncodedLength
<1>11. PICK P : P = {i \in Nat : i <= Len(s) => v[i] = E[i]}
  OBVIOUS
<1>12. 0 \in P
  <2>1. v[0] = 0
    BY <1>0, <1>9
  <2> QED
    BY <1>3, <1>11, <2>1
<1>13. ASSUME NEW i \in Nat, i \in P PROVE i + 1 \in P
  <2>1. CASE i + 1 <= Len(s)
    <3>1. PICK k \in 0..Len(s) : k = i + 1
      BY <1>0, <2>1
    <3>2. k # 0 /\ k - 1 = i /\ i \in 0..(Len(s) - 1)
      BY <1>0, <3>1
    <3>3. v[k] = v[i] + s[k].width
      BY <1>9, <3>2
    <3>4. E[k] = E[i] + s[k].width
      BY <1>4, <3>1, <3>2
    <3>5. v[i] = E[i]
      BY <1>11, <1>13, <3>2
    <3>6. v[i + 1] = E[i + 1]
      BY <3>1, <3>3, <3>4, <3>5, Zenon
    <3> QED
      BY <1>11, <3>6
  <2> QED
    BY <1>11, <2>1
<1>14. Nat \subseteq P
  BY <1>12, <1>13, NatAll
<1>15. v[Len(s)] = E[Len(s)]
  BY <1>0, <1>11, <1>14
<1> QED
  BY <1>5, <1>10, <1>15, Zenon

\* The widths of two sequences of symbols add up.
LEMMA EncodedLengthConcat ==
  ASSUME NEW s \in Seq(Symbols), NEW t \in Seq(Symbols)
  PROVE  /\ EncodedLength(s) \in Nat
         /\ EncodedLength(s \o t) = EncodedLength(s) + EncodedLength(t)
<1>1. PICK E : AddsWidths(E, s) /\ EncodedLength(s) = E[Len(s)]
  BY EncodedLengthAdds
<1>2. PICK F : AddsWidths(F, t) /\ EncodedLength(t) = F[Len(t)]
  BY EncodedLengthAdds
<1>3. PICK u \in Seq(Symbols) : u = s \o t
  <2>1. s \o t \in Seq(Symbols)
    OBVIOUS
  <2> QED
    BY <2>1
<1>4. PICK G : AddsWidths(G, u) /\ EncodedLength(u) = G[Len(u)]
  BY EncodedLengthAdds
<1>5. PICK m \in Nat : m = Len(s)
  OBVIOUS
<1>6. PICK n \in Nat : n = Len(t)
  OBVIOUS
<1>7. /\ Len(u) = m + n /\ \A i \in 1..m : u[i] = s[i]
      /\ \A i \in 1..n : u[m + i] = t[i]
  BY <1>3, <1>5, <1>6
<1>8. /\ E \in [0..m -> Nat] /\ E[0] = 0
      /\ \A i \in 0..(m - 1) : E[i + 1] = E[i] + s[i + 1].width
  BY <1>1, <1>5 DEF AddsWidths
<1>9. /\ F \in [0..n -> Nat] /\ F[0] = 0
      /\ \A i \in 0..(n - 1) : F[i + 1] = F[i] + t[i + 1].width
  BY <1>2, <1>6 DEF AddsWidths
<1>10. /\ G \in [0..(m + n) -> Nat] /\ G[0] = 0
       /\ \A i \in 0..(m + n - 1) : G[i + 1] = G[i] + u[i + 1].width
  BY <1>4, <1>7 DEF AddsWidths
<1>11. PICK P : P = {i \in Nat : i <= m => G[i] = E[i]}
  OBVIOUS
<1>12. 0 \in P
  BY <1>8, <1>10, <1>11
<1>13. ASSUME NEW i \in Nat, i \in P PROVE i + 1 \in P
  <2>1. CASE i + 1 <= m
    <3>1. i \in 0..(m - 1) /\ i \in 0..(m + n - 1) /\ i + 1 \in 1..m /\ i <= m
      BY <2>1
    <3>2. E[i + 1] = E[i] + s[i + 1].width
      BY <1>8, <3>1
    <3>3. G[i + 1] = G[i] + u[i + 1].width
      BY <1>10, <3>1
    <3>4. u[i + 1] = s[i + 1] /\ G[i] = E[i]
      BY <1>7, <1>11, <1>13, <3>1
    <3>5. G[i + 1] = E[i + 1]
      BY <3>2, <3>3, <3>4, Zenon
    <3> QED
      BY <1>11, <3>5
  <2> QED
    BY <1>11, <2>1
<1>14. Nat \subseteq P
  BY <1>12, <1>13, NatAll
<1>15. G[m] = E[m] /\ E[m] \in Nat
  <2>1. m \in P
    BY <1>14
  <2> QED
    BY <1>8, <1>11, <2>1
<1>16. PICK Q : Q = {i \in Nat : i <= n => G[m + i] = E[m] + F[i]}
  OBVIOUS
<1>17. 0 \in Q
  <2>1. m + 0 = m /\ E[m] + F[0] = E[m]
    BY <1>9, <1>15
  <2>2. G[m + 0] = E[m] + F[0]
    BY <1>15, <2>1, Zenon
  <2> QED
    BY <1>16, <2>2
<1>18. ASSUME NEW i \in Nat, i \in Q PROVE i + 1 \in Q
  <2>1. CASE i + 1 <= n
    <3>1. i \in 0..(n - 1) /\ i \in 0..n /\ i + 1 \in 1..n /\ i <= n
      BY <2>1
    <3>2. PICK k \in 0..(m + n - 1) : k = m + i
      <4>1. m + i \in 0..(m + n - 1)
        BY <3>1
      <4> QED
        BY <4>1
    <3>3. k + 1 = m + (i + 1)
      BY <3>2
    <3>4. F[i + 1] = F[i] + t[i + 1].width
      BY <1>9, <3>1
    <3>5. G[k + 1] = G[k] + u[k + 1].width
      BY <1>10
    <3>6. u[k + 1] = t[i + 1]
      BY <1>7, <3>1, <3>3
    <3>7. G[k] = E[m] + F[i]
      BY <1>16, <1>18, <3>1, <3>2
    <3>8. PICK w : w = t[i + 1].width
      OBVIOUS
    <3>9. w \in Nat
      <4>1. t[i + 1] \in Symbols
        BY <1>6, <3>1
      <4> QED
        BY <3>8, <4>1 DEF Symbols
    <3>10. PICK f \in Nat : f = F[i]
      BY <1>9, <3>1
    <3>11. PICK e \in Nat : e = E[m]
      BY <1>15
    <3>12. G[k + 1] = (e + f) + w /\ F[i + 1] = f + w
      BY <3>4, <3>5, <3>6, <3>7, <3>8, <3>10, <3>11, Zenon
    <3>13. G[k + 1] = e + F[i + 1]
      BY <3>9, <3>12
    <3>14. G[m + (i + 1)] = E[m] + F[i + 1]
      BY <3>3, <3>11, <3>13, Zenon
    <3> QED
      BY <1>16, <3>14
  <2> QED
    BY <1>16, <2>1
<1>19. Nat \subseteq Q
  BY <1>17, <1>18, NatAll
<1>20. G[m + n] = E[m] + F[n]
  <2>1. n \in Q
    BY <1>19
  <2> QED
    BY <1>16, <2>1
<1> QED
  BY <1>1, <1>2, <1>3, <1>4, <1>5, <1>6, <1>7, <1>15, <1>20

\* The width of no symbol and of one.
LEMMA EncodedLengthOne ==
  /\ EncodedLength(<<>>) = 0
  /\ \A x \in Symbols : EncodedLength(<<x>>) = x.width
<1>1. EncodedLength(<<>>) = 0
  <2>1. <<>> \in Seq(Symbols)
    OBVIOUS
  <2>2. PICK E : AddsWidths(E, <<>>) /\ EncodedLength(<<>>) = E[Len(<<>>)]
    BY <2>1, EncodedLengthAdds
  <2> QED
    BY <2>2 DEF AddsWidths
<1>2. ASSUME NEW x \in Symbols PROVE EncodedLength(<<x>>) = x.width
  <2>1. PICK s \in Seq(Symbols) : s = <<x>>
    <3>1. <<x>> \in Seq(Symbols)
      OBVIOUS
    <3> QED
      BY <3>1
  <2>2. Len(s) = 1 /\ s[1] = x
    BY <2>1
  <2>3. PICK E : AddsWidths(E, s) /\ EncodedLength(s) = E[Len(s)]
    BY EncodedLengthAdds
  <2>4. 0 \in 0..(1 - 1) /\ 0 + 1 = 1
    OBVIOUS
  <2>5. E[1] = E[0] + s[1].width /\ E[0] = 0
    BY <2>2, <2>3, <2>4 DEF AddsWidths
  <2>6. x.width \in Nat
    BY DEF Symbols
  <2> QED
    BY <2>1, <2>2, <2>3, <2>5, <2>6
<1> QED
  BY <1>1, <1>2

Bytes == [char : Nat, part : 1..2, width : 1..2]

\* The character that the k-th byte of F belongs to.
CharAt(F, k) == IF k = 0 THEN 0 ELSE F[k].char

\* The k-th byte follows the byte before it: a first byte begins the next
\* character, a second one goes on with the character at hand.
Follows(F, k) ==
  /\ F[k].part = 1 => /\ F[k].char = CharAt(F, k - 1) + 1
                      /\ k > 1 => F[k - 1].part = F[k - 1].width
  /\ F[k].part = 2 => k > 1 /\ F[k - 1].part = 1 /\ F[k - 1].char = F[k].char

\* F is a file with the first i characters of ws.
Laid(F, ws, i) ==
  /\ F \in Seq(Bytes)
  /\ \A k \in 1..Len(F) : /\ F[k].char \in 1..i /\ F[k].width = ws[F[k].char]
                          /\ F[k].part <= F[k].width
  /\ \A k \in 1..Len(F) : Follows(F, k)
  /\ CharAt(F, Len(F)) = i
  /\ Len(F) > 0 => F[Len(F)].part = F[Len(F)].width

CharBytes(ws, k) == [j \in 1..ws[k] |-> [char |-> k, part |-> j, width |-> ws[k]]]

\* One character more is laid after the others.
LEMMA LaidGrows ==
  ASSUME NEW ws \in Seq(1..2), NEW i \in Nat, i + 1 <= Len(ws), NEW F, Laid(F, ws, i)
  PROVE  Laid(F \o CharBytes(ws, i + 1), ws, i + 1)
<1>1. PICK w \in 1..2 : w = ws[i + 1]
  <2>1. ws[i + 1] \in 1..2
    OBVIOUS
  <2> QED
    BY <2>1
<1>2. PICK c : c = CharBytes(ws, i + 1)
  OBVIOUS
<1>3. c = [j \in 1..w |-> [char |-> i + 1, part |-> j, width |-> w]]
  BY <1>1, <1>2 DEF CharBytes
<1>4. c \in Seq(Bytes) /\ Len(c) = w
  <2>1. c \in [1..w -> Bytes]
    BY <1>3 DEF Bytes
  <2> QED
    BY <2>1
<1>5. F \in Seq(Bytes)
  BY DEF Laid
<1>6. PICK n \in Nat : n = Len(F)
  BY <1>5
<1>7. PICK G \in Seq(Bytes) : G = F \o c
  <2>1. F \o c \in Seq(Bytes)
    BY <1>4, <1>5
  <2> QED
    BY <2>1
<1>8. /\ Len(G) = n + w
      /\ \A k \in 1..n : G[k] = F[k]
      /\ \A k \in 1..w : G[n + k] = c[k]
  BY <1>4, <1>5, <1>6, <1>7
<1>9. \A k \in 1..w : G[n + k] = [char |-> i + 1, part |-> k, width |-> w]
  BY <1>3, <1>8
<1>10. ASSUME NEW k \in 1..Len(G)
       PROVE  /\ G[k].char \in 1..(i + 1) /\ G[k].width = ws[G[k].char]
              /\ G[k].part <= G[k].width
              /\ Follows(G, k)
  <2>1. CASE k <= n
    <3>1. k \in 1..n /\ (k > 1 => k - 1 \in 1..n)
      BY <2>1
    <3>2. G[k] = F[k] /\ (k > 1 => G[k - 1] = F[k - 1])
      BY <1>8, <3>1
    <3>3. /\ F[k].char \in 1..i /\ F[k].width = ws[F[k].char]
          /\ F[k].part <= F[k].width
          /\ Follows(F, k)
      BY <1>6, <3>1 DEF Laid
    <3>4. CharAt(G, k - 1) = CharAt(F, k - 1)
      <4>1. k - 1 = 0 \/ k > 1
        BY <3>1
      <4> QED
        BY <3>2, <4>1 DEF CharAt
    <3>5. Follows(G, k)
      BY <3>2, <3>3, <3>4 DEF Follows
    <3> QED
      BY <3>2, <3>3, <3>5
  <2>2. CASE k > n
    <3>1. PICK j \in 1..w : k = n + j
      <4>1. k - n \in 1..w /\ k = n + (k - n)
        BY <1>8, <2>2
      <4> QED
        BY <4>1
    <3>2. G[k] = [char |-> i + 1, part |-> j, width |-> w]
      BY <1>9, <3>1
    <3>3. G[k].char = i + 1 /\ G[k].part = j /\ G[k].width = w
      BY <3>2
    <3>4. CASE j = 1
      <4>1. k - 1 = n
        BY <3>1, <3>4
      <4>2. CharAt(G, n) = i
        <5>1. CharAt(F, n) = i
          BY <1>6 DEF Laid
        <5>2. n = 0 \/ n \in 1..n
          OBVIOUS
        <5> QED
          BY <1>8, <5>1, <5>2 DEF CharAt
      <4>3. k > 1 => G[n].part = G[n].width
        <5>1. k > 1 => n > 0 /\ n \in 1..n
          BY <4>1
        <5> QED
          BY <1>6, <1>8, <5>1 DEF Laid
      <4> QED
        BY <1>1, <3>3, <3>4, <4>1, <4>2, <4>3 DEF Follows
    <3>5. CASE j = 2
      <4>1. k - 1 = n + 1 /\ 1 \in 1..w /\ k > 1
        BY <3>1, <3>5
      <4>2. G[k - 1] = [char |-> i + 1, part |-> 1, width |-> w]
        BY <1>9, <4>1
      <4> QED
        BY <1>1, <3>3, <3>5, <4>1, <4>2 DEF Follows
    <3> QED
      BY <3>4, <3>5
  <2> QED
    BY <2>1, <2>2
<1>11. /\ CharAt(G, Len(G)) = i + 1
       /\ G[Len(G)].part = G[Len(G)].width
  <2>1. w \in 1..w /\ n + w # 0
    OBVIOUS
  <2>2. G[n + w] = [char |-> i + 1, part |-> w, width |-> w]
    BY <1>9, <2>1
  <2> QED
    BY <1>8, <2>1, <2>2 DEF CharAt
<1>12. Laid(G, ws, i + 1)
  BY <1>10, <1>11 DEF Laid
<1> QED
  BY <1>2, <1>7, <1>12

\* The file a command's output is written to.
LEMMA FileIsLaid ==
  ASSUME NEW ws \in Seq(1..2)
  PROVE  Laid(BytesOf(ws), ws, Len(ws))
<1>1. PICK ss : ss = [k \in DOMAIN ws |-> CharBytes(ws, k)]
  OBVIOUS
<1>2. PICK n \in Nat : n = Len(ws)
  OBVIOUS
<1>3. ASSUME NEW k \in 1..n PROVE CharBytes(ws, k) \in Seq(Bytes)
  <2>1. PICK w \in 1..2 : w = ws[k]
    <3>1. ws[k] \in 1..2
      BY <1>2
    <3> QED
      BY <3>1
  <2>2. CharBytes(ws, k) \in [1..w -> Bytes]
    BY <2>1 DEF CharBytes, Bytes
  <2> QED
    BY <2>2
<1>4. ss \in Seq(Seq(Bytes)) /\ Len(ss) = n /\ \A k \in 1..n : ss[k] = CharBytes(ws, k)
  <2>1. DOMAIN ws = 1..n
    BY <1>2
  <2>2. ss = [k \in 1..n |-> CharBytes(ws, k)]
    BY <1>1, <2>1
  <2>3. ss \in [1..n -> Seq(Bytes)]
    BY <1>3, <2>2
  <2> QED
    BY <2>2, <2>3
<1>5. PICK J : Joins(J, Bytes, ss) /\ FlattenSeq(ss) = J[Len(ss)]
  BY <1>4, FlattenJoins
<1>6. BytesOf(ws) = J[n]
  BY <1>1, <1>4, <1>5 DEF BytesOf, CharBytes
<1>7. J[0] = <<>> /\ \A i \in 0..(n - 1) : J[i + 1] = J[i] \o CharBytes(ws, i + 1)
  <2>1. \A i \in 0..(n - 1) : i + 1 \in 1..n
    OBVIOUS
  <2> QED
    BY <1>4, <1>5, <2>1 DEF Joins
<1>8. PICK P : P = {i \in Nat : i <= n => Laid(J[i], ws, i)}
  OBVIOUS
<1>9. 0 \in P
  <2>1. Laid(<<>>, ws, 0)
    BY DEF Laid, CharAt
  <2> QED
    BY <1>7, <1>8, <2>1
<1>10. ASSUME NEW i \in Nat, i \in P PROVE i + 1 \in P
  <2>1. CASE i + 1 <= n
    <3>1. i \in 0..(n - 1) /\ i <= n
      BY <2>1
    <3>2. Laid(J[i], ws, i)
      BY <1>8, <1>10, <3>1
    <3>3. Laid(J[i] \o CharBytes(ws, i + 1), ws, i + 1)
      BY <1>2, <2>1, <3>2, LaidGrows
    <3>4. Laid(J[i + 1], ws, i + 1)
      BY <1>7, <3>1, <3>3
    <3> QED
      BY <1>8, <3>4
  <2> QED
    BY <1>8, <2>1
<1>11. Nat \subseteq P
  BY <1>9, <1>10, NatAll
<1>12. Laid(J[n], ws, n)
  <2>1. n \in P
    BY <1>11
  <2> QED
    BY <1>8, <2>1
<1> QED
  BY <1>2, <1>6, <1>12

\* The output as it was printed: Original is Printed(output).
Printed(ws) == [k \in DOMAIN ws |-> [char |-> k, width |-> ws[k]]]

IsAscii(ws) == \A k \in DOMAIN ws : ws[k] = 1

IsDamaged(d) == \E i \in 1..Len(d) : d[i] = Replacement

\* d is what became of the bytes p + 1 to q of the file F.  Its length tells
\* what happened to them: it is theirs, and d is what was printed, or it is
\* greater, and d holds a replacement.  `ahead' is the number of bytes after q
\* that a character of d already stands for.
Carries(d, F, ws, p, q, ahead) ==
  /\ d \in Seq(Symbols)
  /\ CharAt(F, p) <= CharAt(F, q)
  /\ EncodedLength(d) >= q - p + ahead
  /\ EncodedLength(d) = q - p + ahead =>
       d = SubSeq(Printed(ws), CharAt(F, p) + 1, CharAt(F, q))
  /\ EncodedLength(d) > q - p + ahead => IsDamaged(d)
  /\ IsAscii(ws) => EncodedLength(d) = q - p + ahead

\* What decode does with the k-th byte of a frame.
IsWhole(b, k) == k + b[k].width - b[k].part <= Len(b) /\ k >= b[k].part
SymbolAt(b, k) == IF ~IsWhole(b, k) THEN <<Replacement>>
                  ELSE IF b[k].part = 1
                  THEN <<[char |-> b[k].char, width |-> b[k].width]>>
                  ELSE <<>>

\* A character has been decoded whose second byte is still to come.
Ahead(b, k) == IF k > 0 /\ IsWhole(b, k) /\ b[k].part = 1 /\ b[k].width = 2 THEN 1 ELSE 0

\* The characters of a file, and the symbols they are printed as.
LEMMA CharsAreNumbered ==
  ASSUME NEW ws \in Seq(1..2), NEW F, Laid(F, ws, Len(ws)), NEW k \in 0..Len(F)
  PROVE  /\ Len(F) \in Nat /\ CharAt(F, k) \in 0..Len(ws)
         /\ Printed(ws) \in Seq(Symbols) /\ Len(Printed(ws)) = Len(ws)
         /\ \A c \in 1..Len(ws) : Printed(ws)[c] = [char |-> c, width |-> ws[c]]
<1>1. F \in Seq(Bytes)
  BY DEF Laid
<1>2. PICK n \in Nat : n = Len(ws)
  OBVIOUS
<1>3. CharAt(F, k) \in 0..n
  <2>1. CASE k = 0
    BY <2>1 DEF CharAt
  <2>2. CASE k # 0
    <3>1. k \in 1..Len(F)
      BY <1>1, <2>2
    <3>2. F[k].char \in 1..n
      BY <1>2, <3>1 DEF Laid
    <3> QED
      BY <2>2, <3>2 DEF CharAt
  <2> QED
    BY <2>1, <2>2
<1>4. Printed(ws) = [c \in 1..n |-> [char |-> c, width |-> ws[c]]]
  BY <1>2 DEF Printed
<1>5. Printed(ws) \in [1..n -> Symbols]
  <2>1. \A c \in 1..n : ws[c] \in 1..2
    BY <1>2
  <2> QED
    BY <1>4, <2>1 DEF Symbols
<1> QED
  BY <1>1, <1>2, <1>3, <1>4, <1>5

\* A character more after those that were printed before it.
LEMMA PrintedGrows ==
  ASSUME NEW s \in Seq(Symbols), NEW a \in Nat, NEW b \in Nat, a <= b, b + 1 <= Len(s)
  PROVE  SubSeq(s, a + 1, b) \o <<s[b + 1]>> = SubSeq(s, a + 1, b + 1)
<1>1. PICK t : t = SubSeq(s, a + 1, b)
  OBVIOUS
<1>2. PICK u : u = SubSeq(s, a + 1, b + 1)
  OBVIOUS
<1>3. t \in Seq(Symbols) /\ Len(t) = b - a /\ \A i \in 1..(b - a) : t[i] = s[a + i]
  BY <1>1
<1>4. u \in Seq(Symbols) /\ Len(u) = b - a + 1 /\ \A i \in 1..(b - a + 1) : u[i] = s[a + i]
  BY <1>2
<1>5. PICK v : v = t \o <<s[b + 1]>>
  OBVIOUS
<1>6. /\ v \in Seq(Symbols) /\ Len(v) = b - a + 1
      /\ \A i \in 1..(b - a) : v[i] = t[i]
      /\ v[b - a + 1] = s[b + 1]
  <2>1. s[b + 1] \in Symbols
    OBVIOUS
  <2>2. PICK w : w = <<s[b + 1]>>
    OBVIOUS
  <2>3. w \in Seq(Symbols) /\ Len(w) = 1 /\ w[1] = s[b + 1]
    BY <2>1, <2>2
  <2>4. /\ v \in Seq(Symbols) /\ Len(v) = Len(t) + 1
        /\ \A i \in 1..Len(t) : v[i] = t[i]
        /\ v[Len(t) + 1] = w[1]
    <3>1. v = t \o w /\ t \in Seq(Symbols) /\ Len(t) \in Nat
      BY <1>3, <1>5, <2>2
    <3>2. w \in Seq(Symbols) /\ Len(w) = 1
      BY <2>3
    <3>3. /\ t \o w \in Seq(Symbols) /\ Len(t \o w) = Len(t) + Len(w)
          /\ \A i \in 1..(Len(t) + Len(w)) :
               (t \o w)[i] = IF i <= Len(t) THEN t[i] ELSE w[i - Len(t)]
      BY <3>1, <3>2, JoinedSequences, Zenon
    <3>4. /\ \A i \in 1..Len(t) : i \in 1..(Len(t) + 1) /\ i <= Len(t)
          /\ Len(t) + 1 \in 1..(Len(t) + 1) /\ ~(Len(t) + 1 <= Len(t))
          /\ Len(t) + 1 - Len(t) = 1
      BY <3>1
    <3> QED
      BY <3>1, <3>2, <3>3, <3>4
  <2> QED
    BY <1>3, <2>3, <2>4
<1>7. \A i \in 1..(b - a + 1) : v[i] = u[i]
  <2>1. ASSUME NEW i \in 1..(b - a + 1) PROVE v[i] = u[i]
    <3>1. CASE i = b - a + 1
      <4>1. a + i = b + 1
        BY <3>1
      <4>2. u[i] = s[b + 1]
        BY <1>4, <4>1
      <4> QED
        BY <1>6, <3>1, <4>2
    <3>2. CASE i # b - a + 1
      <4>1. i \in 1..(b - a)
        BY <3>2
      <4> QED
        BY <1>3, <1>4, <1>6, <4>1
    <3> QED
      BY <3>1, <3>2
  <2> QED
    BY <2>1
<1> QED
  BY <1>1, <1>2, <1>4, <1>5, <1>6, <1>7

\* Decoding one byte more of a frame.
LEMMA CarriesGrows ==
  ASSUME NEW ws \in Seq(1..2), NEW F, Laid(F, ws, Len(ws)),
         NEW p \in Nat, NEW q \in Nat, p <= q, q <= Len(F),
         NEW b, b = SubSeq(F, p + 1, q),
         NEW k \in Nat, k < q - p,
         NEW d, Carries(d, F, ws, p, p + k, Ahead(b, k))
  PROVE  /\ SymbolAt(b, k + 1) \in Seq(Symbols)
         /\ Carries(d \o SymbolAt(b, k + 1), F, ws, p, p + (k + 1), Ahead(b, k + 1))
<1>1. F \in Seq(Bytes) /\ Len(F) \in Nat
  BY DEF Laid
<1>2. /\ b \in Seq(Bytes) /\ Len(b) = q - p
      /\ \A i \in 1..(q - p) : b[i] = F[p + i]
  <2>1. /\ SubSeq(F, p + 1, q) \in Seq(Bytes) /\ Len(SubSeq(F, p + 1, q)) = q - p
        /\ \A i \in 1..(q - p) : SubSeq(F, p + 1, q)[i] = F[p + i]
    BY <1>1, PieceOfSequence
  <2> QED
    BY <1>1, <2>1, Zenon
<1>3. PICK j \in 1..(q - p) : j = k + 1
  <2>1. k + 1 \in 1..(q - p)
    OBVIOUS
  <2> QED
    BY <2>1
<1>4. PICK r \in 1..Len(F) : r = p + j
  <2>1. p + j \in 1..Len(F)
    BY <1>1
  <2> QED
    BY <2>1
<1>5. r - 1 = p + k /\ r - 1 \in 0..Len(F)
  BY <1>3, <1>4
<1>6. PICK x \in Bytes : x = b[j] /\ x = F[r]
  <2>1. b[j] = F[r] /\ b[j] \in Bytes
    BY <1>2, <1>4
  <2> QED
    BY <2>1
<1>7. PICK c \in Nat : c = x.char
  BY DEF Bytes
<1>8. PICK w \in 1..2 : w = x.width
  BY DEF Bytes
<1>9. PICK h \in 1..2 : h = x.part
  BY DEF Bytes
<1>10. c \in 1..Len(ws) /\ w = ws[c] /\ h <= w
  BY <1>6, <1>7, <1>8, <1>9 DEF Laid
<1>11. Follows(F, r)
  BY DEF Laid
<1>12. CharAt(F, r) = c
  <2>1. r # 0
    OBVIOUS
  <2> QED
    BY <1>6, <1>7, <2>1, Zenon DEF CharAt
<1>13. PICK a \in Nat : a = CharAt(F, p)
  <2>1. p \in 0..Len(F)
    BY <1>1
  <2>2. CharAt(F, p) \in 0..Len(ws)
    BY CharsAreNumbered, <2>1
  <2> QED
    BY <2>2
<1>14. PICK z \in Nat : z = CharAt(F, r - 1)
  <2>1. CharAt(F, r - 1) \in 0..Len(ws)
    BY CharsAreNumbered, <1>5
  <2> QED
    BY <2>1
<1>15. PICK s \in Seq(Symbols) : s = Printed(ws)
  BY CharsAreNumbered, <1>5
<1>16. Len(s) = Len(ws) /\ \A i \in 1..Len(ws) : s[i] = [char |-> i, width |-> ws[i]]
  BY CharsAreNumbered, <1>5, <1>15
<1>17. PICK o : o = Ahead(b, k)
  OBVIOUS
<1>18. o \in 0..1
  BY <1>17 DEF Ahead
<1>19. PICK e \in Nat : e = EncodedLength(d)
  <2>1. d \in Seq(Symbols)
    BY DEF Carries
  <2> QED
    BY <2>1, EncodedLengthConcat
<1>20. /\ d \in Seq(Symbols) /\ a <= z
       /\ e >= k + o
       /\ e = k + o => d = SubSeq(s, a + 1, z)
       /\ e > k + o => IsDamaged(d)
       /\ IsAscii(ws) => e = k + o
  <2>1. p + k - p + o = k + o
    BY <1>18
  <2> QED
    BY <1>5, <1>13, <1>14, <1>15, <1>17, <1>19, <2>1 DEF Carries
<1>21. IsWhole(b, j) <=> j + w - h <= q - p /\ j >= h
  BY <1>2, <1>6, <1>8, <1>9 DEF IsWhole
<1>22. p + j - p = j /\ p + (k + 1) = p + j /\ r = p + j
  BY <1>3, <1>4
<1>23. \A g \in Seq(Symbols) :
         /\ d \o g \in Seq(Symbols)
         /\ EncodedLength(d \o g) = e + EncodedLength(g)
         /\ IsDamaged(d) => IsDamaged(d \o g)
  <2>1. ASSUME NEW g \in Seq(Symbols), IsDamaged(d) PROVE IsDamaged(d \o g)
    <3>1. PICK i \in 1..Len(d) : d[i] = Replacement
      BY <2>1 DEF IsDamaged
    <3>2. i \in 1..Len(d \o g) /\ (d \o g)[i] = Replacement
      BY <1>20, <3>1
    <3> QED
      BY <3>2 DEF IsDamaged
  <2>2. ASSUME NEW g \in Seq(Symbols)
        PROVE d \o g \in Seq(Symbols) /\ EncodedLength(d \o g) = e + EncodedLength(g)
    BY <1>19, <1>20, EncodedLengthConcat
  <2> QED
    BY <2>1, <2>2
<1>24. CASE ~IsWhole(b, j)
  <2>1. SymbolAt(b, j) = <<Replacement>> /\ Ahead(b, j) = 0
    BY <1>24 DEF SymbolAt, Ahead
  <2>2. Replacement \in Symbols /\ Replacement.width = 3
    BY DEF Replacement, Symbols
  <2>3. PICK g \in Seq(Symbols) : g = <<Replacement>>
    <3>1. <<Replacement>> \in Seq(Symbols)
      BY <2>2
    <3> QED
      BY <3>1
  <2>4. EncodedLength(g) = 3
    BY <2>2, <2>3, EncodedLengthOne
  <2>5. EncodedLength(d \o g) = e + 3 /\ d \o g \in Seq(Symbols)
    BY <1>23, <2>4
  <2>6. IsDamaged(d \o g)
    <3>1. Len(d) + 1 \in 1..Len(d \o g) /\ (d \o g)[Len(d) + 1] = Replacement
      BY <1>20, <2>2, <2>3
    <3> QED
      BY <3>1 DEF IsDamaged
  <2>7. e + 3 > j + 0
    BY <1>3, <1>18, <1>20
  <2>8. a <= CharAt(F, r)
    <3>1. h = 1 => c = z + 1
      BY <1>6, <1>7, <1>9, <1>11, <1>14 DEF Follows
    <3>2. h = 2 => c = z
      <4>1. h = 2 => r > 1 /\ F[r - 1].char = c
        BY <1>6, <1>7, <1>9, <1>11 DEF Follows
      <4>2. r > 1 => r - 1 # 0
        OBVIOUS
      <4> QED
        BY <1>14, <4>1, <4>2, Zenon DEF CharAt
    <3> QED
      BY <1>12, <1>20, <3>1, <3>2
  <2>9. ~IsAscii(ws)
    <3>1. IsAscii(ws) => w = 1
      BY <1>10 DEF IsAscii
    <3>2. w = 1 => h = 1
      BY <1>10
    <3> QED
      BY <1>21, <1>24, <3>1, <3>2
  <2>10. Carries(d \o g, F, ws, p, p + j, 0)
    BY <1>13, <1>22, <2>5, <2>6, <2>7, <2>8, <2>9 DEF Carries
  <2> QED
    BY <1>3, <2>1, <2>3, <2>10
<1>25. CASE IsWhole(b, j) /\ h = 1
  <2>1. PICK y \in Symbols : y = [char |-> c, width |-> w]
    <3>1. [char |-> c, width |-> w] \in Symbols
      BY DEF Symbols
    <3> QED
      BY <3>1
  <2>2. PICK g \in Seq(Symbols) : g = <<y>>
    <3>1. <<y>> \in Seq(Symbols)
      OBVIOUS
    <3> QED
      BY <3>1
  <2>3. SymbolAt(b, j) = g
    BY <1>6, <1>7, <1>8, <1>9, <1>25, <2>1, <2>2 DEF SymbolAt
  <2>4. Ahead(b, j) = w - 1
    <3>1. b[j].part = 1 /\ b[j].width = w /\ IsWhole(b, j) /\ j > 0
      <4>1. b[j].part = 1
        BY <1>6, <1>9, <1>25, Zenon
      <4>2. b[j].width = w
        BY <1>6, <1>8, Zenon
      <4>3. j > 0
        OBVIOUS
      <4> QED
        BY <1>25, <4>1, <4>2, <4>3, Zenon
    <3>2. Ahead(b, j) = IF w = 2 THEN 1 ELSE 0
      BY <3>1, Zenon DEF Ahead
    <3> QED
      BY <3>2
  <2>5. o = 0
    <3>1. k > 0 => b[k].part = b[k].width
      <4>1. k > 0 => r > 1 /\ k \in 1..(q - p)
        BY <1>3, <1>4
      <4>2. k > 0 => b[k] = F[r - 1]
        BY <1>2, <1>5, <4>1
      <4>3. F[r].part = 1
        BY <1>6, <1>9, <1>25, Zenon
      <4>4. r > 1 => F[r - 1].part = F[r - 1].width
        BY <1>11, <4>3, Zenon DEF Follows
      <4> QED
        BY <4>1, <4>2, <4>4, Zenon
    <3>2. 1 # 2
      OBVIOUS
    <3> QED
      BY <1>17, <3>1, <3>2, Zenon DEF Ahead
  <2>6. EncodedLength(g) = w
    BY <2>1, <2>2, EncodedLengthOne
  <2>7. EncodedLength(d \o g) = e + w /\ d \o g \in Seq(Symbols)
    BY <1>23, <2>6
  <2>8. c = z + 1
    BY <1>6, <1>7, <1>9, <1>11, <1>14, <1>25 DEF Follows
  <2>9. e = k => d \o g = SubSeq(s, a + 1, c)
    <3>1. s[c] = y
      BY <1>10, <1>16, <2>1
    <3>2. SubSeq(s, a + 1, z) \o <<s[z + 1]>> = SubSeq(s, a + 1, z + 1)
      <4>1. z + 1 <= Len(s) /\ a <= z
        BY <1>10, <1>16, <1>20, <2>8
      <4> QED
        BY <4>1, PrintedGrows
    <3>3. e = k => d = SubSeq(s, a + 1, z)
      BY <1>20, <2>5
    <3> QED
      BY <2>2, <2>8, <3>1, <3>2, <3>3, Zenon
  <2>10. e > k => IsDamaged(d \o g)
    BY <1>20, <1>23, <2>5
  <2>11. j + (w - 1) = k + w
    BY <1>3
  <2>12. p + j - p + (w - 1) = k + w
    BY <1>22, <2>11
  <2>13. /\ a <= c /\ e + w >= k + w
         /\ e + w = k + w => e = k
         /\ e + w > k + w => e > k
         /\ e = k => e + w = k + w
    BY <1>20, <2>5, <2>8
  <2>14. IsAscii(ws) => e = k
    BY <1>20, <2>5
  <2>15. Carries(d \o g, F, ws, p, p + j, w - 1)
    <3>0. PICK f \in Seq(Symbols) : f = d \o g
      BY <2>7
    <3>1. CharAt(F, p + j) = c
      BY <1>12, <1>22
    <3>2. PICK m : m = k + w
      OBVIOUS
    <3>3. PICK l : l = e + w
      OBVIOUS
    <3>4. /\ l >= m
          /\ l = m => f = SubSeq(s, a + 1, c)
          /\ l > m => IsDamaged(f)
          /\ IsAscii(ws) => l = m
      BY <2>9, <2>10, <2>13, <2>14, <3>0, <3>2, <3>3
    <3>5. m = p + j - p + (w - 1) /\ l = EncodedLength(f) /\ a <= c
      BY <2>7, <2>12, <2>13, <3>0, <3>2, <3>3
    <3>6. EncodedLength(f) >= p + j - p + (w - 1)
      BY <3>4, <3>5, Zenon
    <3>7. EncodedLength(f) = p + j - p + (w - 1) =>
            f = SubSeq(Printed(ws), CharAt(F, p) + 1, CharAt(F, p + j))
      <4>1. ASSUME EncodedLength(f) = p + j - p + (w - 1) PROVE l = m
        BY <4>1, <3>5, Zenon
      <4> QED
        BY <4>1, <1>13, <1>15, <3>1, <3>4, Zenon
    <3>8. EncodedLength(f) > p + j - p + (w - 1) => IsDamaged(f)
      BY <3>4, <3>5, Zenon
    <3>9. IsAscii(ws) => EncodedLength(f) = p + j - p + (w - 1)
      BY <3>4, <3>5, Zenon
    <3>10. CharAt(F, p) <= CharAt(F, p + j)
      BY <1>13, <3>5, <3>1, Zenon
    <3>11. Carries(f, F, ws, p, p + j, w - 1)
      BY <3>6, <3>7, <3>8, <3>9, <3>10 DEF Carries
    <3> QED
      BY <3>0, <3>11
  <2> QED
    BY <1>3, <2>3, <2>4, <2>15
<1>26. CASE IsWhole(b, j) /\ h = 2
  <2>1. SymbolAt(b, j) = <<>> /\ Ahead(b, j) = 0
    <3>1. b[j].part = 2 /\ IsWhole(b, j)
      BY <1>6, <1>9, <1>26, Zenon
    <3>2. b[j].part # 1
      BY <3>1
    <3> QED
      BY <3>1, <3>2, Zenon DEF SymbolAt, Ahead
  <2>2. w = 2 /\ j >= 2 /\ k > 0 /\ r > 1 /\ k \in 1..(q - p)
    BY <1>3, <1>4, <1>10, <1>21, <1>26
  <2>3. b[k] = F[r - 1] /\ F[r - 1].part = 1 /\ F[r - 1].char = c
    BY <1>2, <1>5, <1>6, <1>7, <1>9, <1>11, <1>26, <2>2 DEF Follows
  <2>4. F[r - 1].width = 2
    <3>1. r - 1 \in 1..Len(F)
      BY <2>2
    <3>2. F[r - 1].width = ws[c]
      BY <2>3, <3>1 DEF Laid
    <3> QED
      BY <1>10, <2>2, <3>2
  <2>5. o = 1
    <3>1. k + 2 - 1 <= q - p /\ k >= 1
      BY <1>3, <2>2
    <3>2. IsWhole(b, k)
      BY <1>2, <2>3, <2>4, <3>1 DEF IsWhole
    <3> QED
      BY <1>17, <2>2, <2>3, <2>4, <3>2 DEF Ahead
  <2>6. z = c
    BY <1>14, <2>2, <2>3 DEF CharAt
  <2>7. d \o <<>> = d
    BY <1>20
  <2>8. p + j - p + 0 = k + o
    BY <1>3, <1>22, <2>5
  <2>9. Carries(d, F, ws, p, p + j, 0)
    <3>1. CharAt(F, p + j) = z
      BY <1>12, <1>22, <2>6
    <3>2. PICK m : m = k + o
      OBVIOUS
    <3>3. m = p + j - p + 0
      BY <2>8, <3>2
    <3>4. /\ e >= m
          /\ e = m => d = SubSeq(s, a + 1, z)
          /\ e > m => IsDamaged(d)
          /\ IsAscii(ws) => e = m
      BY <1>20, <3>2
    <3>6. EncodedLength(d) >= p + j - p + 0
      BY <3>4, <3>3, <1>19, Zenon
    <3>7. EncodedLength(d) = p + j - p + 0 =>
            d = SubSeq(Printed(ws), CharAt(F, p) + 1, CharAt(F, p + j))
      <4>1. ASSUME EncodedLength(d) = p + j - p + 0 PROVE e = m
        BY <4>1, <3>3, <1>19, Zenon
      <4> QED
        BY <4>1, <1>13, <1>15, <3>1, <3>4, Zenon
    <3>8. EncodedLength(d) > p + j - p + 0 => IsDamaged(d)
      BY <3>4, <3>3, <1>19, Zenon
    <3>9. IsAscii(ws) => EncodedLength(d) = p + j - p + 0
      BY <3>4, <3>3, <1>19, Zenon
    <3>10. CharAt(F, p) <= CharAt(F, p + j)
      BY <1>13, <1>20, <3>1, Zenon
    <3> QED
      BY <1>20, <3>6, <3>7, <3>8, <3>9, <3>10 DEF Carries
  <2>10. d \o SymbolAt(b, j) = d /\ SymbolAt(b, j) \in Seq(Symbols)
    <3>1. <<>> \in Seq(Symbols)
      OBVIOUS
    <3> QED
      BY <2>1, <2>7, <3>1, Zenon
  <2> QED
    BY <1>3, <2>1, <2>9, <2>10
<1> QED
  BY <1>24, <1>25, <1>26

\* Nothing carries no byte.
LEMMA CarriesNothing ==
  ASSUME NEW ws \in Seq(1..2), NEW F, Laid(F, ws, Len(ws)), NEW p \in 0..Len(F)
  PROVE  Carries(<<>>, F, ws, p, p, 0)
<1>1. PICK a \in Nat : a = CharAt(F, p)
  <2>1. CharAt(F, p) \in 0..Len(ws)
    BY CharsAreNumbered
  <2> QED
    BY <2>1
<1>2. PICK s \in Seq(Symbols) : s = Printed(ws)
  BY CharsAreNumbered
<1>3. <<>> \in Seq(Symbols) /\ SubSeq(s, a + 1, a) = <<>>
  OBVIOUS
<1>4. EncodedLength(<<>>) = 0
  BY EncodedLengthOne
<1>5. p - p + 0 = 0 /\ p \in Nat
  <2>1. Len(F) \in Nat
    BY CharsAreNumbered
  <2> QED
    BY <2>1
<1>6. PICK d \in Seq(Symbols) : d = <<>>
  BY <1>3
<1>7. EncodedLength(d) = 0 /\ d = SubSeq(Printed(ws), CharAt(F, p) + 1, CharAt(F, p))
  BY <1>1, <1>2, <1>3, <1>4, <1>6
<1>8. EncodedLength(d) >= p - p + 0 /\ ~(EncodedLength(d) > p - p + 0)
      /\ EncodedLength(d) = p - p + 0
  BY <1>5, <1>7
<1>9. CharAt(F, p) <= CharAt(F, p)
  BY <1>1
<1>10. Carries(d, F, ws, p, p, 0)
  BY <1>7, <1>8, <1>9 DEF Carries
<1> QED
  BY <1>6, <1>10

\* A frame that is decoded by itself carries its bytes.
LEMMA DecodeCarries ==
  ASSUME NEW ws \in Seq(1..2), NEW F, Laid(F, ws, Len(ws)),
         NEW p \in Nat, NEW q \in Nat, p <= q, q <= Len(F)
  PROVE  Carries(decode(SubSeq(F, p + 1, q)), F, ws, p, q, 0)
<1>1. F \in Seq(Bytes) /\ Len(F) \in Nat
  BY DEF Laid
<1>2. PICK b : b = SubSeq(F, p + 1, q)
  OBVIOUS
<1>3. PICK n \in Nat : n = q - p
  <2>1. q - p \in Nat
    OBVIOUS
  <2> QED
    BY <2>1
<1>4. b \in Seq(Bytes) /\ Len(b) = n /\ DOMAIN b = 1..n
  BY <1>1, <1>2, <1>3
<1>5. ASSUME NEW k \in 1..n PROVE SymbolAt(b, k) \in Seq(Symbols)
  <2>1. PICK x \in Bytes : x = b[k]
    <3>1. b[k] \in Bytes
      BY <1>4
    <3> QED
      BY <3>1
  <2>2. [char |-> x.char, width |-> x.width] \in Symbols
    BY DEF Bytes, Symbols
  <2>3. Replacement \in Symbols
    BY DEF Replacement, Symbols
  <2>4. <<[char |-> x.char, width |-> x.width]>> \in Seq(Symbols)
    BY <2>2
  <2>5. <<Replacement>> \in Seq(Symbols) /\ <<>> \in Seq(Symbols)
    BY <2>3
  <2> QED
    BY <2>1, <2>4, <2>5, Zenon DEF SymbolAt
<1>6. PICK ss : ss = [k \in DOMAIN b |-> SymbolAt(b, k)]
  OBVIOUS
<1>7. ss \in Seq(Seq(Symbols)) /\ Len(ss) = n /\ \A k \in 1..n : ss[k] = SymbolAt(b, k)
  <2>1. ss = [k \in 1..n |-> SymbolAt(b, k)]
    BY <1>4, <1>6
  <2>2. ss \in [1..n -> Seq(Symbols)]
    BY <1>5, <2>1
  <2> QED
    BY <2>1, <2>2
<1>8. PICK J : Joins(J, Symbols, ss) /\ FlattenSeq(ss) = J[Len(ss)]
  BY <1>7, FlattenJoins
<1>9. decode(b) = J[n]
  <2>1. decode(b) = FlattenSeq(ss)
    BY <1>6, Zenon DEF decode, SymbolAt, IsWhole
  <2> QED
    BY <1>7, <1>8, <2>1
<1>10. J[0] = <<>> /\ \A i \in 0..(n - 1) : J[i + 1] = J[i] \o SymbolAt(b, i + 1)
  <2>1. \A i \in 0..(n - 1) : i + 1 \in 1..n
    OBVIOUS
  <2> QED
    BY <1>7, <1>8, <2>1 DEF Joins
<1>11. PICK P : P = {k \in Nat : k <= n => Carries(J[k], F, ws, p, p + k, Ahead(b, k))}
  OBVIOUS
<1>12. 0 \in P
  <2>1. p \in 0..Len(F) /\ p + 0 = p
    BY <1>1
  <2>2. Ahead(b, 0) = 0
    BY DEF Ahead
  <2>3. Carries(<<>>, F, ws, p, p, 0)
    BY <2>1, CarriesNothing
  <2>4. Carries(J[0], F, ws, p, p + 0, Ahead(b, 0))
    BY <1>10, <2>1, <2>2, <2>3
  <2> QED
    BY <1>11, <2>4
<1>13. ASSUME NEW k \in Nat, k \in P PROVE k + 1 \in P
  <2>1. CASE k + 1 <= n
    <3>1. k \in 0..(n - 1) /\ k < q - p /\ k <= n
      BY <1>3, <2>1
    <3>2. Carries(J[k], F, ws, p, p + k, Ahead(b, k))
      BY <1>11, <1>13, <3>1
    <3>3. Carries(J[k] \o SymbolAt(b, k + 1), F, ws, p, p + (k + 1), Ahead(b, k + 1))
      BY <1>2, <3>1, <3>2, CarriesGrows
    <3>4. Carries(J[k + 1], F, ws, p, p + (k + 1), Ahead(b, k + 1))
      BY <1>10, <3>1, <3>3
    <3> QED
      BY <1>11, <3>4
  <2> QED
    BY <1>11, <2>1
<1>14. Nat \subseteq P
  BY <1>12, <1>13, NatAll
<1>15. Carries(J[n], F, ws, p, p + n, Ahead(b, n))
  <2>1. n \in P
    BY <1>14
  <2> QED
    BY <1>11, <2>1
<1>16. p + n = q
  BY <1>3
<1>17. Ahead(b, n) = 0
  <2>1. ASSUME n > 0, b[n].part = 1, b[n].width = 2 PROVE ~IsWhole(b, n)
    BY <1>4, <2>1 DEF IsWhole
  <2> QED
    BY <2>1 DEF Ahead
<1> QED
  BY <1>2, <1>9, <1>15, <1>16, <1>17

\* Two pieces of printed text, one after the other.
LEMMA PrintedJoins ==
  ASSUME NEW s \in Seq(Symbols), NEW a \in Nat, NEW b \in Nat, NEW c \in Nat,
         a <= b, b <= c, c <= Len(s)
  PROVE  SubSeq(s, a + 1, b) \o SubSeq(s, b + 1, c) = SubSeq(s, a + 1, c)
<1>1. PICK m \in Nat : m = b - a
  <2>1. b - a \in Nat
    OBVIOUS
  <2> QED
    BY <2>1
<1>2. PICK n \in Nat : n = c - b
  <2>1. c - b \in Nat
    OBVIOUS
  <2> QED
    BY <2>1
<1>3. PICK t \in Seq(Symbols) : t = SubSeq(s, a + 1, b)
  <2>1. SubSeq(s, a + 1, b) \in Seq(Symbols)
    OBVIOUS
  <2> QED
    BY <2>1
<1>4. PICK u \in Seq(Symbols) : u = SubSeq(s, b + 1, c)
  <2>1. SubSeq(s, b + 1, c) \in Seq(Symbols)
    OBVIOUS
  <2> QED
    BY <2>1
<1>5. PICK v \in Seq(Symbols) : v = SubSeq(s, a + 1, c)
  <2>1. SubSeq(s, a + 1, c) \in Seq(Symbols)
    OBVIOUS
  <2> QED
    BY <2>1
<1>6. Len(t) = m /\ \A i \in 1..m : t[i] = s[a + i]
  BY <1>1, <1>3
<1>7. Len(u) = n /\ \A i \in 1..n : u[i] = s[b + i]
  BY <1>2, <1>4
<1>8. Len(v) = m + n /\ \A i \in 1..(m + n) : v[i] = s[a + i]
  BY <1>1, <1>2, <1>5
<1>9. PICK x \in Seq(Symbols) : x = t \o u
  <2>1. t \o u \in Seq(Symbols)
    OBVIOUS
  <2> QED
    BY <2>1
<1>10. /\ Len(x) = m + n
       /\ \A i \in 1..m : x[i] = t[i]
       /\ \A i \in 1..n : x[m + i] = u[i]
  <2>1. m = Len(t) /\ n = Len(u)
    BY <1>6, <1>7
  <2> QED
    BY <1>9, <2>1
<1>11. ASSUME NEW i \in 1..(m + n) PROVE x[i] = v[i]
  <2>1. CASE i <= m
    <3>1. i \in 1..m
      BY <2>1
    <3> QED
      BY <1>6, <1>8, <1>10, <3>1
  <2>2. CASE i > m
    <3>1. PICK j \in 1..n : i = m + j /\ b + j = a + i
      <4>1. i - m \in 1..n /\ i = m + (i - m) /\ b + (i - m) = a + i
        BY <1>1, <2>2
      <4> QED
        BY <4>1
    <3>2. x[i] = u[j] /\ u[j] = s[b + j]
      BY <1>7, <1>10, <3>1
    <3>3. v[i] = s[a + i]
      BY <1>8
    <3> QED
      BY <3>1, <3>2, <3>3
  <2> QED
    BY <2>1, <2>2
<1>12. x = v
  <2>1. DOMAIN x = 1..(m + n) /\ DOMAIN v = 1..(m + n)
    BY <1>8, <1>10
  <2>2. x = [i \in DOMAIN x |-> x[i]] /\ v = [i \in DOMAIN v |-> v[i]]
    OBVIOUS
  <2> QED
    BY <1>11, <2>1, <2>2
<1> QED
  BY <1>3, <1>4, <1>5, <1>9, <1>12

\* What carries two pieces of the file that meet carries both.
LEMMA CarriesBoth ==
  ASSUME NEW ws \in Seq(1..2), NEW F, Laid(F, ws, Len(ws)),
         NEW p \in Nat, NEW q \in Nat, NEW r \in Nat, p <= q, q <= r, r <= Len(F),
         NEW d, NEW g, Carries(d, F, ws, p, q, 0), Carries(g, F, ws, q, r, 0)
  PROVE  Carries(d \o g, F, ws, p, r, 0)
<1>1. Len(F) \in Nat
  BY DEF Laid
<1>2. p \in 0..Len(F) /\ q \in 0..Len(F) /\ r \in 0..Len(F)
  BY <1>1
<1>3. PICK a \in Nat : a = CharAt(F, p)
  BY <1>2, CharsAreNumbered
<1>4. PICK b \in Nat : b = CharAt(F, q)
  BY <1>2, CharsAreNumbered
<1>5. PICK c \in 0..Len(ws) : c = CharAt(F, r)
  BY <1>2, CharsAreNumbered
<1>6. PICK s \in Seq(Symbols) : s = Printed(ws)
  BY <1>2, CharsAreNumbered
<1>7. Len(s) = Len(ws) /\ c \in Nat
  BY <1>2, <1>6, CharsAreNumbered
<1>8. d \in Seq(Symbols) /\ g \in Seq(Symbols)
  BY DEF Carries
<1>9. PICK e \in Nat : e = EncodedLength(d)
  BY <1>8, EncodedLengthConcat
<1>10. PICK f \in Nat : f = EncodedLength(g)
  BY <1>8, EncodedLengthConcat
<1>11. PICK x \in Seq(Symbols) : x = d \o g
  <2>1. d \o g \in Seq(Symbols)
    BY <1>8
  <2> QED
    BY <2>1
<1>12. EncodedLength(x) = e + f
  BY <1>8, <1>9, <1>10, <1>11, EncodedLengthConcat
<1>13. PICK m \in Nat : m = q - p /\ q - p + 0 = m
  <2>1. q - p \in Nat /\ q - p + 0 = q - p
    OBVIOUS
  <2> QED
    BY <2>1
<1>14. PICK n \in Nat : n = r - q /\ r - q + 0 = n
  <2>1. r - q \in Nat /\ r - q + 0 = r - q
    OBVIOUS
  <2> QED
    BY <2>1
<1>15. r - p + 0 = m + n
  BY <1>13, <1>14
<1>16. /\ a <= b /\ e >= m
       /\ e = m => d = SubSeq(s, a + 1, b)
       /\ e > m => IsDamaged(d)
       /\ IsAscii(ws) => e = m
  BY <1>3, <1>4, <1>6, <1>9, <1>13 DEF Carries
<1>17. /\ b <= c /\ f >= n
       /\ f = n => g = SubSeq(s, b + 1, c)
       /\ f > n => IsDamaged(g)
       /\ IsAscii(ws) => f = n
  BY <1>4, <1>5, <1>6, <1>10, <1>14 DEF Carries
<1>18. IsDamaged(d) => IsDamaged(x)
  <2>1. ASSUME NEW i \in 1..Len(d), d[i] = Replacement PROVE IsDamaged(x)
    <3>1. i \in 1..Len(x) /\ x[i] = Replacement
      BY <1>8, <1>11, <2>1
    <3> QED
      BY <3>1 DEF IsDamaged
  <2> QED
    BY <2>1 DEF IsDamaged
<1>19. IsDamaged(g) => IsDamaged(x)
  <2>1. ASSUME NEW i \in 1..Len(g), g[i] = Replacement PROVE IsDamaged(x)
    <3>1. Len(d) + i \in 1..Len(x) /\ x[Len(d) + i] = Replacement
      BY <1>8, <1>11, <2>1
    <3> QED
      BY <3>1 DEF IsDamaged
  <2> QED
    BY <2>1 DEF IsDamaged
<1>20. e + f >= m + n /\ (e + f = m + n => e = m /\ f = n) /\ (e + f > m + n => e > m \/ f > n)
  BY <1>16, <1>17
<1>21. SubSeq(s, a + 1, b) \o SubSeq(s, b + 1, c) = SubSeq(s, a + 1, c)
  <2>1. c <= Len(s)
    BY <1>7
  <2> QED
    BY <1>7, <1>16, <1>17, <2>1, PrintedJoins
<1>22. PICK l : l = e + f
  OBVIOUS
<1>23. PICK k : k = m + n
  OBVIOUS
<1>24. /\ l >= k
       /\ l = k => x = SubSeq(s, a + 1, c)
       /\ l > k => IsDamaged(x)
       /\ IsAscii(ws) => l = k
  <2>1. l = k => x = SubSeq(s, a + 1, c)
    BY <1>11, <1>16, <1>17, <1>20, <1>21, <1>22, <1>23
  <2> QED
    BY <1>16, <1>17, <1>18, <1>19, <1>20, <1>22, <1>23, <2>1
<1>25. EncodedLength(x) = l /\ r - p + 0 = k
  BY <1>12, <1>15, <1>22, <1>23
<1>26. EncodedLength(x) >= r - p + 0
  BY <1>24, <1>25, Zenon
<1>27. EncodedLength(x) = r - p + 0 => x = SubSeq(Printed(ws), CharAt(F, p) + 1, CharAt(F, r))
  <2>1. ASSUME EncodedLength(x) = r - p + 0 PROVE l = k
    BY <1>25, <2>1, Zenon
  <2> QED
    BY <1>3, <1>5, <1>6, <1>24, <2>1, Zenon
<1>28. EncodedLength(x) > r - p + 0 => IsDamaged(x)
  BY <1>24, <1>25, Zenon
<1>29. IsAscii(ws) => EncodedLength(x) = r - p + 0
  BY <1>24, <1>25, Zenon
<1>30. CharAt(F, p) <= CharAt(F, r)
  BY <1>3, <1>4, <1>5, <1>7, <1>16, <1>17
<1>31. Carries(x, F, ws, p, r, 0)
  BY <1>26, <1>27, <1>28, <1>29, <1>30 DEF Carries
<1> QED
  BY <1>11, <1>31

\* What has been read of the file when n chunks have been.
ReadUpTo(n) == IF n * chunk_size < file_len THEN n * chunk_size ELSE file_len

\* While the file is read, the chunks together carry what has been read of it;
\* once one of them was short, they are shorter than that if no byte of them can
\* be damaged.
ChunksInv ==
  /\ file_len \in Nat /\ file_len <= Len(file) /\ chunks \in Seq(Seq(Symbols))
  /\ ~short => Carries(FlattenSeq(chunks), BytesOf(output), output, 0, ReadUpTo(Len(chunks)), 0)
  /\ short /\ IsAscii(output) =>
       EncodedLength(FlattenSeq(chunks)) < ReadUpTo(Len(chunks))

\* The file holds the beginning of the output.
ExecInv ==
  /\ output \in Seq(1..2) /\ short \in BOOLEAN
  /\ exec_pc \in {"run", "stat", "read", "done", "raised"}
  /\ exec_pc \in {"run", "stat"} => chunks = <<>> /\ ~short
  /\ exec_pc \in {"stat", "read"} => \E n \in 0..Len(BytesOf(output)) : file = Written(n)
  /\ exec_pc = "read" => ChunksInv
  /\ OutputIsIntactOrReported

\* What was printed, and the bytes of it.
LEMMA OutputIsLaid ==
  ASSUME output \in Seq(1..2), NEW F, F = BytesOf(output)
  PROVE  Laid(F, output, Len(output)) /\ F \in Seq(Bytes) /\ Len(F) \in Nat
<1>1. Laid(F, output, Len(output))
  BY FileIsLaid
<1> QED
  BY <1>1 DEF Laid

\* A piece of the beginning of a sequence.
LEMMA PieceOfBeginning ==
  ASSUME NEW S, NEW F \in Seq(S), NEW n \in Nat, n <= Len(F), NEW G, G = SubSeq(F, 1, n),
         NEW p \in Nat, NEW q \in Nat, p <= q, q <= n
  PROVE  G \in Seq(S) /\ Len(G) = n /\ SubSeq(G, p + 1, q) = SubSeq(F, p + 1, q)
<1>1. G = SubSeq(F, 0 + 1, n) /\ n - 0 = n /\ 0 <= n
  OBVIOUS
<1>2. G \in Seq(S) /\ Len(G) = n /\ \A i \in 1..n : G[i] = F[0 + i]
  BY <1>1, PieceOfSequence
<1>3. Len(F) \in Nat /\ q <= Len(F)
  OBVIOUS
<1>4. SubSeq(F, p + 1, q) = [i \in 1..(q - p) |-> F[p + i]]
  BY <1>3, PieceAsFunction
<1>5. SubSeq(G, p + 1, q) = [i \in 1..(q - p) |-> G[p + i]]
  BY <1>2, PieceAsFunction
<1>6. ASSUME NEW i \in 1..(q - p) PROVE G[p + i] = F[p + i]
  <2>1. p + i \in 1..n /\ 0 + (p + i) = p + i
    OBVIOUS
  <2> QED
    BY <1>2, <2>1
<1> QED
  BY <1>2, <1>4, <1>5, <1>6

\* head and tail cut the next piece out of the file.
LEMMA ChunkIsCut ==
  ASSUME NEW S, file \in Seq(S), file_len \in Nat, file_len <= Len(file),
         NEW i \in Nat, i < num_chunks
  PROVE  /\ i * chunk_size \in Nat /\ i * chunk_size < file_len
         /\ ReadUpTo(i) = i * chunk_size
         /\ ReadUpTo(i + 1) \in Nat /\ i * chunk_size <= ReadUpTo(i + 1)
         /\ ReadUpTo(i + 1) <= file_len
         /\ read_chunk(i) = SubSeq(file, i * chunk_size + 1, ReadUpTo(i + 1))
<1>1. PICK c \in Nat \ {0} : c = chunk_size
  BY ExecOnPodAssumption
<1>2. PICK n \in Nat : n = file_len
  OBVIOUS
<1>3. PICK m \in Nat : m = (n + c - 1) \div c
  <2>1. n + c - 1 \in Nat
    BY <1>1
  <2>2. (n + c - 1) \div c \in Nat
    BY <2>1
  <2> QED
    BY <2>2
<1>4. m * c <= n + c - 1
  <2>1. PICK k \in Nat : k = n + c - 1
    <3>1. n + c - 1 \in Nat
      OBVIOUS
    <3> QED
      BY <3>1
  <2>2. (k \div c) * c <= k
    OBVIOUS
  <2> QED
    BY <1>3, <2>1, <2>2
<1>5. i < m
  BY <1>1, <1>2, <1>3 DEF num_chunks
<1>6. PICK p \in Nat : p = i * c
  <2>1. i * c \in Nat
    OBVIOUS
  <2> QED
    BY <2>1
<1>7. (i + 1) * c = p + c
  BY <1>6
<1>8. (i + 1) * c <= m * c
  <2>1. PICK j \in Nat : m = (i + 1) + j
    <3>1. m - (i + 1) \in Nat /\ m = (i + 1) + (m - (i + 1))
      BY <1>5
    <3> QED
      BY <3>1
  <2>2. m * c = (i + 1) * c + j * c /\ j * c \in Nat
    BY <2>1
  <2> QED
    BY <2>2
<1>9. p < n
  <2>1. m * c \in Nat
    OBVIOUS
  <2> QED
    BY <1>4, <1>7, <1>8, <2>1
<1>10. PICK q \in Nat : q = (IF p + c < n THEN p + c ELSE n)
  <2>1. (IF p + c < n THEN p + c ELSE n) \in Nat
    OBVIOUS
  <2> QED
    BY <2>1
<1>11. p < q /\ q <= n
  BY <1>9, <1>10
<1>12. ReadUpTo(i) = p /\ ReadUpTo(i + 1) = q
  BY <1>1, <1>2, <1>6, <1>7, <1>9, <1>10 DEF ReadUpTo
<1>13. read_chunk(i) = read_segment(p, q - p)
  BY <1>1, <1>2, <1>6, <1>7, <1>10 DEF read_chunk
<1>14. read_segment(p, q - p) = SubSeq(file, p + 1, q)
  <2>0. Len(file) \in Nat /\ q <= Len(file)
    BY <1>2, <1>11
  <2>1. PICK head : head = SubSeq(file, 1, q)
    OBVIOUS
  <2>2. /\ head \in Seq(S) /\ Len(head) = q
        /\ SubSeq(head, p + 1, q) = SubSeq(file, p + 1, q)
    BY <1>11, <2>0, <2>1, PieceOfBeginning
  <2>3. (IF p + (q - p) < Len(file) THEN p + (q - p) ELSE Len(file)) = q
    BY <2>0
  <2>4. (IF Len(head) > q - p THEN Len(head) - (q - p) + 1 ELSE 1) = p + 1
    BY <1>11, <2>2
  <2>5. read_segment(p, q - p) = SubSeq(head, p + 1, q)
    BY <2>1, <2>2, <2>3, <2>4 DEF read_segment
  <2> QED
    BY <2>2, <2>5
<1> QED
  BY <1>1, <1>2, <1>6, <1>9, <1>11, <1>12, <1>13, <1>14

\* The last chunk ends where the file ends.
LEMMA LastChunkEnds ==
  ASSUME file_len \in Nat
  PROVE  num_chunks \in Nat /\ ReadUpTo(num_chunks) = file_len
<1>1. PICK c \in Nat \ {0} : c = chunk_size
  BY ExecOnPodAssumption
<1>2. PICK n \in Nat : n = file_len
  OBVIOUS
<1>3. PICK k \in Nat : k = n + c - 1
  <2>1. n + c - 1 \in Nat
    BY <1>1
  <2> QED
    BY <2>1
<1>4. PICK m \in Nat : m = k \div c
  <2>1. k \div c \in Nat
    OBVIOUS
  <2> QED
    BY <2>1
<1>5. k < (k \div c) * c + c
  OBVIOUS
<1>6. m * c >= n
  <2>1. PICK y \in Nat : y = m * c
    <3>1. m * c \in Nat
      OBVIOUS
    <3> QED
      BY <3>1
  <2>2. k < y + c
    BY <1>4, <1>5, <2>1
  <2> QED
    BY <1>3, <2>1, <2>2
<1>7. num_chunks = m
  BY <1>1, <1>2, <1>3, <1>4 DEF num_chunks
<1>8. m * c \in Nat
  OBVIOUS
<1> QED
  BY <1>1, <1>2, <1>6, <1>7, <1>8 DEF ReadUpTo

\* A piece of a piece of the file.
LEMMA CutOfCut ==
  ASSUME NEW S, NEW F \in Seq(S), NEW p \in Nat, NEW q \in Nat, p <= q, q <= Len(F),
         NEW b, b = SubSeq(F, p + 1, q), NEW cut \in 0..Len(b)
  PROVE  /\ p + cut \in Nat /\ p + cut <= q
         /\ SubSeq(b, 1, cut) = SubSeq(F, p + 1, p + cut)
         /\ SubSeq(b, cut + 1, Len(b)) = SubSeq(F, p + cut + 1, q)
<1>1. PICK n \in Nat : n = q - p
  <2>1. q - p \in Nat
    OBVIOUS
  <2> QED
    BY <2>1
<1>2. b \in Seq(S) /\ Len(b) = n /\ \A i \in 1..n : b[i] = F[p + i]
  <2>1. /\ SubSeq(F, p + 1, q) \in Seq(S) /\ Len(SubSeq(F, p + 1, q)) = q - p
        /\ \A i \in 1..(q - p) : SubSeq(F, p + 1, q)[i] = F[p + i]
    BY PieceOfSequence
  <2> QED
    BY <1>1, <2>1, Zenon
<1>3. cut \in Nat /\ cut <= n
  BY <1>2
<1>4. PICK r \in Nat : r = p + cut
  <2>1. p + cut \in Nat
    BY <1>3
  <2> QED
    BY <2>1
<1>5. r <= q /\ q = p + n /\ p <= r
  BY <1>1, <1>3, <1>4
<1>6. SubSeq(b, 1, cut) = SubSeq(F, p + 1, r)
  <2>1. SubSeq(b, 1, cut) = [i \in 1..cut |-> b[i]]
    BY <1>2, <1>3
  <2>2. SubSeq(F, p + 1, r) = [i \in 1..cut |-> F[p + i]]
    BY <1>3, <1>4, <1>5
  <2>3. \A i \in 1..cut : b[i] = F[p + i]
    BY <1>2, <1>3
  <2> QED
    BY <2>1, <2>2, <2>3
<1>7. SubSeq(b, cut + 1, n) = SubSeq(F, r + 1, q)
  <2>1. SubSeq(b, cut + 1, n) = [i \in 1..(n - cut) |-> b[cut + i]]
    <3>1. n <= Len(b)
      BY <1>2
    <3> QED
      BY <1>2, <1>3, <3>1, PieceAsFunction
  <2>2. SubSeq(F, r + 1, q) = [i \in 1..(n - cut) |-> F[r + i]]
    BY <1>3, <1>4, <1>5
  <2>3. ASSUME NEW i \in 1..(n - cut) PROVE b[cut + i] = F[r + i]
    <3>1. cut + i \in 1..n /\ p + (cut + i) = r + i
      BY <1>3, <1>4
    <3> QED
      BY <1>2, <3>1
  <2> QED
    BY <2>1, <2>2, <2>3
<1> QED
  BY <1>2, <1>4, <1>5, <1>6, <1>7

\* Reading a chunk, wherever the two frames meet and the second one ends.
LEMMA ReadKeepsCarrying ==
  ASSUME ExecInv, read_next
  PROVE  ExecInv'
<1>1. /\ exec_pc = "read" /\ Len(chunks) < num_chunks
      /\ UNCHANGED <<exec_pc, file, file_len, result, warned, output, compares>>
  BY DEF read_next
<1>2. PICK F : F = BytesOf(output)
  OBVIOUS
<1>3. /\ output \in Seq(1..2) /\ short \in BOOLEAN /\ file_len \in Nat /\ file_len <= Len(file)
      /\ chunks \in Seq(Seq(Symbols))
  BY <1>1 DEF ExecInv, ChunksInv
<1>4. Laid(F, output, Len(output)) /\ F \in Seq(Bytes) /\ Len(F) \in Nat
  BY <1>2, <1>3, OutputIsLaid
<1>5. PICK n \in 0..Len(F) : file = SubSeq(F, 1, n)
  BY <1>1, <1>2 DEF ExecInv, Written
<1>6. n \in Nat /\ n <= Len(F)
  BY <1>4
<1>7. file \in Seq(Bytes) /\ Len(file) = n
  BY <1>4, <1>5, <1>6, PieceOfBeginning
<1>8. PICK i \in Nat : i = Len(chunks)
  BY <1>3
<1>9. PICK p \in Nat : p = i * chunk_size
  BY <1>1, <1>3, <1>7, <1>8, ChunkIsCut
<1>10. PICK q \in Nat : q = ReadUpTo(i + 1)
  BY <1>1, <1>3, <1>7, <1>8, ChunkIsCut
<1>11. /\ p <= q /\ q <= file_len /\ ReadUpTo(i) = p
       /\ read_chunk(i) = SubSeq(file, p + 1, q)
  BY <1>1, <1>3, <1>7, <1>8, <1>9, <1>10, ChunkIsCut
<1>12. q <= n /\ q <= Len(F)
  BY <1>3, <1>4, <1>6, <1>7, <1>11
<1>13. PICK b : b = SubSeq(F, p + 1, q)
  OBVIOUS
<1>14. read_chunk(i) = b
  <2>1. SubSeq(file, p + 1, q) = SubSeq(F, p + 1, q)
    BY <1>4, <1>5, <1>6, <1>11, <1>12, PieceOfBeginning
  <2> QED
    BY <1>11, <1>13, <2>1
<1>15. b \in Seq(Bytes) /\ Len(b) = q - p
  BY <1>4, <1>11, <1>12, <1>13, PieceOfSequence
<1>16. PICK arrived \in 0..Len(b) : \E cut \in 0..arrived :
         /\ chunks' = Append(chunks, decode(SubSeq(b, 1, cut)) \o decode(SubSeq(b, cut + 1, arrived)))
         /\ short' = (short \/ arrived < Len(b))
  BY <1>8, <1>14 DEF read_next
<1>17. PICK cut \in 0..arrived :
         /\ chunks' = Append(chunks, decode(SubSeq(b, 1, cut)) \o decode(SubSeq(b, cut + 1, arrived)))
         /\ short' = (short \/ arrived < Len(b))
  BY <1>16
<1>18. arrived \in Nat /\ cut \in Nat /\ cut <= arrived /\ arrived <= Len(b)
  BY <1>15
<1>19. PICK m \in Nat : m = p + arrived
  <2>1. p + arrived \in Nat
    BY <1>18
  <2> QED
    BY <2>1
<1>20. p <= m /\ m <= q /\ m <= Len(F)
  BY <1>4, <1>12, <1>15, <1>18, <1>19
<1>21. PICK h : h = SubSeq(F, p + 1, m)
  OBVIOUS
<1>22. h = SubSeq(b, 1, arrived) /\ h \in Seq(Bytes) /\ Len(h) = arrived
  <2>1. SubSeq(b, 1, arrived) = SubSeq(F, p + 1, p + arrived)
    BY <1>4, <1>11, <1>12, <1>13, CutOfCut
  <2>2. Len(SubSeq(F, p + 1, m)) = m - p /\ SubSeq(F, p + 1, m) \in Seq(Bytes)
    BY <1>4, <1>20, PieceOfSequence
  <2> QED
    BY <1>18, <1>19, <1>21, <2>1, <2>2
<1>23. /\ SubSeq(b, 1, cut) = SubSeq(h, 1, cut)
       /\ SubSeq(b, cut + 1, arrived) = SubSeq(h, cut + 1, arrived)
  <2>1. SubSeq(h, 0 + 1, cut) = SubSeq(b, 0 + 1, cut)
    BY <1>15, <1>18, <1>22, PieceOfBeginning
  <2>2. SubSeq(h, cut + 1, arrived) = SubSeq(b, cut + 1, arrived)
    BY <1>15, <1>18, <1>22, PieceOfBeginning
  <2> QED
    BY <2>1, <2>2
<1>24. PICK r \in Nat : r = p + cut
  <2>1. p + cut \in Nat
    BY <1>18
  <2> QED
    BY <2>1
<1>25. /\ p <= r /\ r <= m /\ r <= Len(F)
       /\ SubSeq(h, 1, cut) = SubSeq(F, p + 1, r)
       /\ SubSeq(h, cut + 1, arrived) = SubSeq(F, r + 1, m)
  <2>1. cut \in 0..Len(h)
    BY <1>18, <1>22
  <2>2. /\ SubSeq(h, 1, cut) = SubSeq(F, p + 1, p + cut)
        /\ SubSeq(h, cut + 1, Len(h)) = SubSeq(F, p + cut + 1, m)
    BY <1>4, <1>20, <1>21, <2>1, CutOfCut
  <2>3. p <= r /\ r <= m /\ r <= Len(F)
    BY <1>4, <1>18, <1>19, <1>20, <1>24
  <2> QED
    BY <1>22, <1>24, <2>2, <2>3
<1>26. PICK d : d = decode(SubSeq(F, p + 1, r))
  OBVIOUS
<1>27. PICK g : g = decode(SubSeq(F, r + 1, m))
  OBVIOUS
<1>28. Carries(d, F, output, p, r, 0)
  BY <1>3, <1>4, <1>25, <1>26, DecodeCarries
<1>29. Carries(g, F, output, r, m, 0)
  BY <1>3, <1>4, <1>20, <1>25, <1>27, DecodeCarries
<1>30. PICK y : y = d \o g
  OBVIOUS
<1>31. Carries(y, F, output, p, m, 0)
  <2>1. Carries(d \o g, F, output, p, m, 0)
    BY <1>3, <1>4, <1>20, <1>25, <1>28, <1>29, CarriesBoth
  <2> QED
    BY <1>30, <2>1
<1>32. y \in Seq(Symbols)
  BY <1>31 DEF Carries
<1>33. PICK x : x = FlattenSeq(chunks)
  OBVIOUS
<1>34. chunks' = Append(chunks, y)
  BY <1>17, <1>23, <1>25, <1>26, <1>27, <1>30, Zenon
<1>35. x \in Seq(Symbols) /\ FlattenSeq(chunks') = x \o y
  BY <1>3, <1>32, <1>33, <1>34, FlattenAppend
<1>36. chunks' \in Seq(Seq(Symbols)) /\ Len(chunks') = i + 1
  BY <1>3, <1>8, <1>32, <1>34
<1>37. ReadUpTo(Len(chunks))' = q
  BY <1>1, <1>10, <1>36 DEF ReadUpTo
<1>38. short' = (short \/ arrived < Len(b)) /\ short' \in BOOLEAN
  BY <1>17
<1>39. (~short => Carries(FlattenSeq(chunks), BytesOf(output), output, 0, ReadUpTo(Len(chunks)), 0))'
  <2>1. SUFFICES ASSUME ~short'
                 PROVE  Carries(x \o y, F, output, 0, q, 0)
    BY <1>1, <1>2, <1>35, <1>37
  <2>2. ~short /\ m = q
    <3>1. ~short /\ ~(arrived < Len(b))
      BY <1>38, <2>1
    <3> QED
      BY <1>15, <1>18, <1>19, <3>1
  <2>3. Carries(x, F, output, 0, p, 0)
    <3>1. ChunksInv
      BY <1>1 DEF ExecInv
    <3> QED
      BY <1>2, <1>8, <1>11, <1>33, <2>2, <3>1 DEF ChunksInv
  <2>4. 0 \in Nat /\ 0 <= p
    OBVIOUS
  <2>5. Carries(y, F, output, p, q, 0)
    BY <1>31, <2>2
  <2> QED
    BY <1>3, <1>4, <1>11, <1>12, <2>3, <2>4, <2>5, CarriesBoth
<1>40. (short /\ IsAscii(output) => EncodedLength(FlattenSeq(chunks)) < ReadUpTo(Len(chunks)))'
  <2>1. SUFFICES ASSUME short', IsAscii(output)
                 PROVE  EncodedLength(x \o y) < q
    BY <1>1, <1>35, <1>37
  <2>2. EncodedLength(x \o y) = EncodedLength(x) + EncodedLength(y) /\ EncodedLength(x) \in Nat
    BY <1>32, <1>35, EncodedLengthConcat
  <2>3. EncodedLength(y) = m - p + 0
    BY <1>31, <2>1 DEF Carries
  <2>4. EncodedLength(x) <= p /\ (short => EncodedLength(x) < p)
    <3>1. ChunksInv
      BY <1>1 DEF ExecInv
    <3>2. CASE short
      <4>1. EncodedLength(x) < p
        BY <1>8, <1>11, <1>33, <2>1, <3>1, <3>2 DEF ChunksInv
      <4> QED
        BY <2>2, <4>1
    <3>3. CASE ~short
      <4>1. Carries(x, F, output, 0, p, 0)
        BY <1>2, <1>8, <1>11, <1>33, <3>1, <3>3 DEF ChunksInv
      <4>2. EncodedLength(x) = p - 0 + 0
        BY <2>1, <4>1 DEF Carries
      <4> QED
        BY <3>3, <4>2
    <3> QED
      BY <1>3, <3>2, <3>3
  <2>5. short \/ m < q
    <3>1. short \/ arrived < Len(b)
      BY <1>38, <2>1, Zenon
    <3>2. arrived < Len(b) => m < q
      BY <1>15, <1>18, <1>19
    <3> QED
      BY <3>1, <3>2
  <2>6. PICK e \in Nat : e = EncodedLength(x)
    BY <2>2
  <2>7. e <= p /\ (e < p \/ m < q)
    BY <2>4, <2>5, <2>6
  <2>8. e + (m - p + 0) < q
    BY <1>20, <2>7
  <2> QED
    BY <2>2, <2>3, <2>6, <2>8
<1>41. ChunksInv'
  BY <1>1, <1>3, <1>36, <1>39, <1>40 DEF ChunksInv
<1>42. OutputIsIntactOrReported'
  BY <1>1 DEF OutputIsIntactOrReported, AsciiArrives, DamageIsReported, LossIsReported
<1>43. (\E k \in 0..Len(BytesOf(output)) : file = Written(k))'
  BY <1>1 DEF ExecInv, Written
<1> QED
  BY <1>1, <1>3, <1>38, <1>41, <1>42, <1>43 DEF ExecInv

\* Joining the chunks: the comparison of the lengths tells whether they are
\* what was printed.
LEMMA JoinReportsDamage ==
  ASSUME ExecInv, join
  PROVE  ExecInv'
<1>1. /\ exec_pc = "read" /\ Len(chunks) = num_chunks /\ exec_pc' = "done"
      /\ result' = FlattenSeq(chunks) /\ warned' = (compares /\ LengthsDiffer(result'))
      /\ UNCHANGED <<file_len, chunks, short, output, compares>>
  BY DEF join
<1>2. PICK F : F = BytesOf(output)
  OBVIOUS
<1>3. /\ output \in Seq(1..2) /\ short \in BOOLEAN /\ file_len \in Nat /\ file_len <= Len(file)
      /\ chunks \in Seq(Seq(Symbols)) /\ ChunksInv
  BY <1>1 DEF ExecInv, ChunksInv
<1>4. Laid(F, output, Len(output)) /\ F \in Seq(Bytes) /\ Len(F) \in Nat
  BY <1>2, <1>3, OutputIsLaid
<1>5. file_len <= Len(F)
  <2>1. PICK k \in 0..Len(F) : file = SubSeq(F, 1, k)
    BY <1>1, <1>2 DEF ExecInv, Written
  <2>2. k \in Nat /\ k <= Len(F)
    BY <1>4
  <2>3. Len(file) = k
    BY <1>4, <2>1, <2>2, PieceOfBeginning
  <2> QED
    BY <1>3, <1>4, <2>2, <2>3
<1>6. PICK n \in Nat : n = file_len
  BY <1>3
<1>7. ReadUpTo(Len(chunks)) = n
  BY <1>1, <1>3, <1>6, LastChunkEnds
<1>8. PICK x : x = FlattenSeq(chunks)
  OBVIOUS
<1>9. x \in Seq(Symbols)
  <2>1. <<>> \in Seq(Symbols)
    OBVIOUS
  <2> QED
    BY <1>3, <1>8, <2>1, FlattenAppend
<1>10. PICK e \in Nat : e = EncodedLength(x)
  BY <1>9, EncodedLengthConcat
<1>11. warned' = (compares /\ e # n)
  BY <1>1, <1>6, <1>8, <1>10 DEF LengthsDiffer
<1>12. n \in 0..Len(F) /\ 0 \in 0..Len(F)
  BY <1>4, <1>5, <1>6
<1>13. PICK s \in Seq(Symbols) : s = Printed(output)
  BY <1>3, <1>4, <1>12, CharsAreNumbered
<1>14. Len(s) = Len(output) /\ \A k \in 1..Len(output) : s[k] = [char |-> k, width |-> output[k]]
  BY <1>3, <1>4, <1>12, <1>13, CharsAreNumbered
<1>15. PICK a \in 0..Len(output) : a = CharAt(F, n)
  BY <1>3, <1>4, <1>12, CharsAreNumbered
<1>16. CharAt(F, 0) = 0 /\ (n = Len(F) => a = Len(output))
  BY <1>4, <1>15 DEF CharAt, Laid
<1>17. Original' = s
  BY <1>1, <1>13 DEF Original, Printed
<1>18. Ascii' <=> IsAscii(output)
  BY <1>1 DEF Ascii, IsAscii
<1>19. ASSUME ~short
       PROVE  /\ e >= n
              /\ e = n => x = SubSeq(s, 1, a)
              /\ e > n => IsDamaged(x)
              /\ IsAscii(output) => e = n
  <2>1. Carries(x, F, output, 0, n, 0)
    BY <1>2, <1>3, <1>7, <1>8, <1>19 DEF ChunksInv
  <2>2. n - 0 + 0 = n /\ 0 + 1 = 1
    OBVIOUS
  <2> QED
    BY <1>10, <1>13, <1>15, <1>16, <2>1, <2>2 DEF Carries
<1>20. a \in Nat /\ a <= Len(s)
  BY <1>3, <1>14, <1>15
<1>21. ASSUME x = SubSeq(s, 1, a) PROVE IsPrefix(x, s)
  <2>1. 0 + 1 = 1 /\ a - 0 = a /\ 0 <= a
    BY <1>20
  <2>2. Len(SubSeq(s, 0 + 1, a)) = a - 0
    BY <1>20, <2>1, PieceOfSequence
  <2>3. Len(x) = a
    BY <1>21, <2>1, <2>2
  <2>4. SubSeq(x, 1, Len(x)) = x
    BY <1>9
  <2> QED
    BY <1>20, <1>21, <2>3, <2>4 DEF IsPrefix
<1>22. ~IsDamaged(s)
  <2>1. ASSUME NEW k \in 1..Len(s) PROVE s[k] # Replacement
    <3>1. s[k] = [char |-> k, width |-> output[k]] /\ k # 0
      BY <1>14
    <3>2. s[k].char = k /\ Replacement.char = 0
      BY <3>1 DEF Replacement
    <3> QED
      BY <3>1, <3>2
  <2> QED
    BY <2>1 DEF IsDamaged
<1>23. AsciiArrives'
  <2> SUFFICES ASSUME IsAscii(output), ~short
               PROVE  IsPrefix(x, s) /\ EncodedLength(x) = n
    BY <1>1, <1>6, <1>8, <1>17, <1>18 DEF AsciiArrives
  <2> QED
    BY <1>10, <1>19, <1>21
<1>24. DamageIsReported'
  <2> SUFFICES ASSUME compares, ~short
               PROVE  /\ e = n => IsPrefix(x, s)
                      /\ n = Len(F) => (e # n <=> x # s)
    <3>1. Measured' <=> n = Len(F)
      BY <1>1, <1>2, <1>6 DEF Measured
    <3>2. result' = x
      BY <1>1, <1>8
    <3>3. compares' = compares /\ short' = short
      BY <1>1
    <3>4. ASSUME compares PROVE warned' <=> e # n
      BY <1>11, <3>4
    <3> QED
      BY <1>17, <3>1, <3>2, <3>3, <3>4 DEF DamageIsReported
  <2>1. e = n => IsPrefix(x, s)
    BY <1>19, <1>21
  <2>2. ASSUME n = Len(F) PROVE e # n <=> x # s
    <3>1. SubSeq(s, 1, a) = s
      <4>1. a = Len(s)
        BY <1>14, <1>16, <2>2
      <4> QED
        BY <4>1
    <3>2. e = n => x = s
      BY <1>19, <3>1
    <3>3. e # n => e > n
      BY <1>19
    <3>4. e # n => x # s
      BY <1>19, <1>22, <3>3, Zenon
    <3> QED
      BY <3>2, <3>4
  <2> QED
    BY <2>1, <2>2
<1>25. LossIsReported'
  <2> SUFFICES ASSUME compares, IsAscii(output), short
               PROVE  e # n
    BY <1>1, <1>11, <1>18 DEF LossIsReported
  <2>1. EncodedLength(x) < n
    BY <1>3, <1>7, <1>8 DEF ChunksInv
  <2> QED
    BY <1>10, <2>1
<1> QED
  BY <1>1, <1>3, <1>23, <1>24, <1>25 DEF ExecInv, OutputIsIntactOrReported

\* The output of a command on a pod (util.py, exec_on_pod) arrives as it was
\* printed, as far as it was written when the file was measured, or the warning
\* about the lengths is printed; one whose characters are single bytes always
\* arrives, in exec_on_seed too, unless a read came back short, which exec_on_pod
\* then warns about.  For every output and every chunk size, and wherever frames
\* and timeouts cut what is received.
THEOREM OutputArrives == ExecSpec => []OutputIsIntactOrReported
<1>1. ExecInit => ExecInv
  <2> SUFFICES ASSUME ExecInit PROVE ExecInv
    OBVIOUS
  <2>1. PICK n \in 0..MaxChars : output \in [1..n -> 1..2]
    BY DEF ExecInit, Widths
  <2>2. n \in Nat
    BY ExecOnPodAssumption
  <2>3. output \in Seq(1..2)
    BY <2>1, <2>2
  <2> QED
    BY <2>3 DEF ExecInit, ExecInv, OutputIsIntactOrReported, AsciiArrives, DamageIsReported,
       LossIsReported
<1>2. ExecInv /\ [ExecNext]_execVars => ExecInv'
  <2> SUFFICES ASSUME ExecInv, [ExecNext]_execVars PROVE ExecInv'
    OBVIOUS
  <2>0. ASSUME exec_pc' # "done" PROVE OutputIsIntactOrReported'
    BY <2>0 DEF OutputIsIntactOrReported, AsciiArrives, DamageIsReported, LossIsReported
  <2>1. CASE run_command
    <3>1. /\ exec_pc = "run" /\ exec_pc' = "stat" /\ UNCHANGED <<chunks, short, output>>
          /\ \E n \in 0..Len(BytesOf(output)) : file' = Written(n)
      BY <2>1 DEF run_command
    <3>2. (\E n \in 0..Len(BytesOf(output)) : file = Written(n))'
      BY <3>1 DEF Written
    <3> QED
      BY <2>0, <3>1, <3>2 DEF ExecInv
  <2>2. CASE stat
    <3>1. /\ exec_pc = "stat" /\ exec_pc' = "read" /\ file_len' = Len(file)
          /\ UNCHANGED <<file, chunks, result, warned, short, output>>
      BY <2>2 DEF stat
    <3>2. output \in Seq(1..2) /\ chunks = <<>> /\ ~short /\ short \in BOOLEAN
      BY <3>1 DEF ExecInv
    <3>3. PICK F : F = BytesOf(output)
      OBVIOUS
    <3>4. Laid(F, output, Len(output)) /\ F \in Seq(Bytes) /\ Len(F) \in Nat
      BY <3>2, <3>3, OutputIsLaid
    <3>5. Len(file) \in Nat
      <4>1. PICK n \in 0..Len(F) : file = SubSeq(F, 1, n)
        BY <3>1, <3>3 DEF ExecInv, Written
      <4>2. n \in Nat /\ n <= Len(F)
        BY <3>4
      <4>3. Len(file) = n
        BY <3>4, <4>1, <4>2, PieceOfBeginning
      <4> QED
        BY <4>2, <4>3
    <3>6. Carries(<<>>, F, output, 0, 0, 0)
      BY <3>2, <3>4, CarriesNothing
    <3>7. FlattenSeq(<<>>) = <<>> /\ <<>> \in Seq(Seq(Symbols)) /\ Len(<<>>) = 0
      BY DEF FlattenSeq
    <3>8. ReadUpTo(Len(chunks))' = 0
      <4>1. 0 * chunk_size = 0
        BY ExecOnPodAssumption
      <4>2. Len(chunks)' = 0 /\ file_len' \in Nat
        BY <3>1, <3>2, <3>5, <3>7
      <4>3. ReadUpTo(Len(chunks))' = IF 0 * chunk_size < file_len' THEN 0 * chunk_size ELSE file_len'
        BY <4>2 DEF ReadUpTo
      <4> QED
        BY <4>1, <4>2, <4>3
    <3>9. Carries(FlattenSeq(chunks), BytesOf(output), output, 0, ReadUpTo(Len(chunks)), 0)'
      <4>1. Carries(FlattenSeq(chunks'), BytesOf(output'), output', 0, 0, 0)
        BY <3>1, <3>2, <3>3, <3>6, <3>7
      <4> QED
        BY <3>8, <4>1
    <3>10. ChunksInv'
      <4>1. /\ file_len' \in Nat /\ file_len' <= Len(file') /\ chunks' \in Seq(Seq(Symbols))
            /\ ~short'
        BY <3>1, <3>2, <3>5, <3>7
      <4> QED
        BY <3>9, <4>1 DEF ChunksInv
    <3>11. (\E n \in 0..Len(BytesOf(output)) : file = Written(n))'
      BY <3>1 DEF ExecInv, Written
    <3> QED
      BY <2>0, <3>1, <3>2, <3>10, <3>11 DEF ExecInv
  <2>3. CASE command_writes
    <3>1. /\ exec_pc \in {"stat", "read"}
          /\ UNCHANGED <<exec_pc, file_len, chunks, result, warned, short, output, compares>>
      BY <2>3 DEF command_writes
    <3>2. PICK F : F = BytesOf(output)
      OBVIOUS
    <3>3. F \in Seq(Bytes) /\ Len(F) \in Nat
      BY <3>2, OutputIsLaid DEF ExecInv
    <3>4. PICK n \in 0..Len(F) : file = SubSeq(F, 1, n)
      BY <3>1, <3>2 DEF ExecInv, Written
    <3>5. PICK m \in (Len(file) + 1)..Len(F) : file' = SubSeq(F, 1, m)
      BY <2>3, <3>2 DEF command_writes, Written
    <3>6. Len(file) = n /\ n \in Nat
      <4>1. n \in Nat /\ n <= Len(F)
        BY <3>3
      <4> QED
        BY <3>3, <3>4, <4>1, PieceOfBeginning
    <3>7. m \in Nat /\ n <= m /\ m <= Len(F)
      BY <3>3, <3>6
    <3>8. Len(file') = m
      BY <3>3, <3>5, <3>7, PieceOfBeginning
    <3>9. m \in 0..Len(BytesOf(output')) /\ file' = Written(m)'
      BY <3>1, <3>2, <3>3, <3>5, <3>7 DEF Written
    <3>10. exec_pc = "read" => ChunksInv'
      <4> SUFFICES ASSUME exec_pc = "read" PROVE ChunksInv'
        OBVIOUS
      <4>1. ChunksInv
        BY DEF ExecInv
      <4>2. file_len' \in Nat /\ file_len' <= Len(file')
        BY <3>1, <3>6, <3>7, <3>8, <4>1 DEF ChunksInv
      <4>3. ReadUpTo(Len(chunks))' = ReadUpTo(Len(chunks))
        BY <3>1 DEF ReadUpTo
      <4> QED
        BY <3>1, <4>1, <4>2, <4>3 DEF ChunksInv
    <3> QED
      BY <2>0, <3>1, <3>9, <3>10 DEF ExecInv
  <2>4. CASE read_next
    BY <2>4, ReadKeepsCarrying
  <2>5. CASE join
    BY <2>5, JoinReportsDamage
  <2>6. CASE exec_raises
    <3>1. exec_pc' = "raised" /\ UNCHANGED <<short, output>>
      BY <2>6 DEF exec_raises
    <3> QED
      BY <2>0, <3>1 DEF ExecInv
  <2>7. CASE UNCHANGED execVars
    BY <2>7 DEF execVars, ExecInv, ChunksInv, OutputIsIntactOrReported, AsciiArrives,
       DamageIsReported, LossIsReported, Original, Ascii, Measured, ReadUpTo, Written
  <2> QED
    BY <2>1, <2>2, <2>3, <2>4, <2>5, <2>6, <2>7 DEF ExecNext
<1>3. ExecInv => OutputIsIntactOrReported
  BY DEF ExecInv
<1> QED
  BY <1>1, <1>2, <1>3, PTL DEF ExecSpec

-----------------------------------------------------------------------------
(* The ancestors of a block. *)

\* The blocks of S and their parents.
OneUp(S) == S \cup {Parent[a] : a \in S}

\* After as many steps up as there are blocks, no step finds another block.
LEMMA AllAbove ==
  ASSUME NEW b \in Block, NEW M \in Nat, M = Cardinality(Block), NEW cl,
         cl[0] = {b}, \A n \in 1..M : cl[n] = OneUp(cl[n - 1])
  PROVE  /\ b \in cl[M] /\ cl[M] \subseteq Block
         /\ \A x \in cl[M] : Parent[x] \in cl[M]
         /\ \A T : b \in T /\ (\A x \in T : Parent[x] \in T) => cl[M] \subseteq T
<1>0. IsFiniteSet(Block) /\ Parent \in [Block -> Block]
  BY ForkTreeAssumption
<1> DEFINE Closed(S) == \A x \in S : Parent[x] \in S
<1>1. PICK P : P = {n \in Nat : n <= M => /\ cl[n] \in SUBSET Block /\ b \in cl[n]
                                          /\ Closed(cl[n]) \/ Cardinality(cl[n]) >= n + 1
                                          /\ \A T : b \in T /\ Closed(T) => cl[n] \subseteq T}
  OBVIOUS
<1>2. 0 \in P
  <2>1. Cardinality(cl[0]) = 1
    BY FS_Singleton
  <2>2. Cardinality(cl[0]) >= 0 + 1 /\ 0 \in Nat
    BY <2>1
  <2>3. cl[0] \in SUBSET Block /\ b \in cl[0] /\ \A T : b \in T => cl[0] \subseteq T
    OBVIOUS
  <2> QED
    BY <1>1, <2>2, <2>3
<1>3. ASSUME NEW n \in Nat, n \in P PROVE n + 1 \in P
  <2> SUFFICES ASSUME n + 1 <= M PROVE n + 1 \in P
    BY <1>1
  <2>1. /\ cl[n] \in SUBSET Block /\ b \in cl[n]
        /\ Closed(cl[n]) \/ Cardinality(cl[n]) >= n + 1
        /\ \A T : b \in T /\ Closed(T) => cl[n] \subseteq T
    BY <1>1, <1>3
  <2>2. cl[n + 1] = cl[n] \cup {Parent[a] : a \in cl[n]}
    <3>1. n + 1 \in 1..M /\ n + 1 - 1 = n
      OBVIOUS
    <3> QED
      BY <3>1 DEF OneUp
  <2>3. cl[n + 1] \in SUBSET Block /\ b \in cl[n + 1]
    BY <1>0, <2>1, <2>2
  <2>4. ASSUME NEW T, b \in T, Closed(T) PROVE cl[n + 1] \subseteq T
    BY <2>1, <2>2, <2>4
  <2>5. Closed(cl[n + 1]) \/ Cardinality(cl[n + 1]) >= n + 2
    <3>1. CASE Closed(cl[n])
      BY <2>2, <3>1
    <3>2. CASE ~Closed(cl[n])
      <4>1. PICK x \in cl[n] : Parent[x] \notin cl[n]
        BY <3>2
      <4>2. cl[n] \cup {Parent[x]} \subseteq cl[n + 1]
        BY <2>2, <4>1
      <4>3. IsFiniteSet(cl[n]) /\ IsFiniteSet(cl[n + 1])
        BY <1>0, <2>1, <2>3, FS_Subset
      <4>4. Cardinality(cl[n] \cup {Parent[x]}) = Cardinality(cl[n]) + 1
        BY <4>1, <4>3, FS_AddElement
      <4>5. Cardinality(cl[n] \cup {Parent[x]}) <= Cardinality(cl[n + 1])
        BY <4>2, <4>3, FS_Subset
      <4>6. Cardinality(cl[n]) \in Nat /\ Cardinality(cl[n + 1]) \in Nat
        BY <4>3, FS_CardinalityType
      <4> QED
        BY <2>1, <3>2, <4>4, <4>5, <4>6
    <3> QED
      BY <3>1, <3>2
  <2>6. n + 1 \in Nat /\ n + 1 + 1 = n + 2
    OBVIOUS
  <2> HIDE DEF Closed
  <2> QED
    BY <1>1, <2>3, <2>4, <2>5, <2>6
<1>4. M \in P
  <2>1. Nat \subseteq P
    BY <1>2, <1>3, NatAll
  <2> QED
    BY <2>1
<1>5. /\ cl[M] \in SUBSET Block /\ b \in cl[M]
      /\ Closed(cl[M]) \/ Cardinality(cl[M]) >= M + 1
      /\ \A T : b \in T /\ Closed(T) => cl[M] \subseteq T
  BY <1>1, <1>4
<1>6. Cardinality(cl[M]) \in Nat /\ Cardinality(cl[M]) <= M
  BY <1>0, <1>5, FS_Subset, FS_CardinalityType
<1> QED
  BY <1>5, <1>6

\* The ancestry of a block is the least set that holds it and the parent of each
\* of its members.
LEMMA AncestryIsClosure ==
  ASSUME NEW b \in Block
  PROVE  /\ b \in Ancestry(b) /\ Ancestry(b) \subseteq Block
         /\ \A x \in Ancestry(b) : Parent[x] \in Ancestry(b)
         /\ \A T : b \in T /\ (\A x \in T : Parent[x] \in T) => Ancestry(b) \subseteq T
<1>1. Parent \in [Block -> Block] /\ IsFiniteSet(Block)
  BY ForkTreeAssumption
<1>2. PICK M \in Nat : M = Cardinality(Block)
  BY <1>1, FS_CardinalityType
<1> DEFINE Body(g, n) == IF n = 0 THEN {b} ELSE g[n - 1] \cup {Parent[a] : a \in g[n - 1]}
<1>3. PICK S : S = SUBSET Block
  OBVIOUS
<1>4. PICK step : step = [p \in Nat \X S |-> OneUp(p[2])]
  OBVIOUS
<1>5. step \in [Nat \X S -> S] /\ {b} \in S
  <2>1. \A p \in Nat \X S : OneUp(p[2]) \in S
    BY <1>1, <1>3 DEF OneUp
  <2> QED
    BY <1>3, <1>4, <2>1
<1>6. PICK a : a \in Unrolled(M, S, {b}, step)
  BY <1>5, UnrolledExists
<1>7. /\ a \in [0..M -> S] /\ a[0] = {b}
      /\ \A i \in 0..(M - 1) : a[i + 1] = step[<<i, a[i]>>]
  BY <1>6 DEF Unrolled
<1>8. a = [n \in 0..Cardinality(Block) |-> Body(a, n)]
  <2>1. ASSUME NEW n \in 0..M, n # 0 PROVE a[n] = OneUp(a[n - 1])
    <3>1. PICK i \in 0..(M - 1) : i = n - 1
      BY <2>1
    <3>2. i + 1 = n /\ i \in Nat /\ i \in 0..M
      BY <2>1, <3>1
    <3>3. a[i] \in S
      BY <1>7, <3>2
    <3>4. step[<<i, a[i]>>] = OneUp(a[i])
      BY <1>4, <3>2, <3>3
    <3> QED
      BY <1>7, <3>1, <3>2, <3>4
  <2>2. \A n \in 0..M : a[n] = Body(a, n)
    BY <1>7, <2>1 DEF OneUp
  <2> HIDE DEF Body
  <2> QED
    BY <1>2, <1>7, <2>2
<1>9. PICK cl : cl = CHOOSE h : h = [n \in 0..Cardinality(Block) |-> Body(h, n)]
  OBVIOUS
<1>10. cl = [n \in 0..Cardinality(Block) |-> Body(cl, n)]
  <2> HIDE DEF Body
  <2> QED
    BY <1>8, <1>9
<1>11. cl[0] = {b} /\ \A n \in 1..M : cl[n] = OneUp(cl[n - 1])
  <2>1. \A n \in 0..M : cl[n] = Body(cl, n)
    <3> HIDE DEF Body
    <3> QED
      BY <1>2, <1>10
  <2>2. 0 \in 0..M /\ \A n \in 1..M : n \in 0..M /\ n # 0
    OBVIOUS
  <2> QED
    BY <2>1, <2>2, Zenon DEF OneUp
<1>12. Ancestry(b) = cl[M]
  BY <1>2, <1>9, Zenon DEF Ancestry
<1> QED
  BY <1>2, <1>11, <1>12, AllAbove

\* The height of a block: less than that of any child.
Height == CHOOSE h \in [Block -> Nat] : \A b \in Block : Parent[b] = b \/ h[Parent[b]] < h[b]

\* There are heights.
LEMMA HeightFalls ==
  /\ Height \in [Block -> Nat]
  /\ \A b \in Block : Parent[b] \in Block /\ (Parent[b] = b \/ Height[Parent[b]] < Height[b])
<1>1. PICK h \in [Block -> 0..Cardinality(Block)] : \A b \in Block : Parent[b] = b \/ h[Parent[b]] < h[b]
  BY ForkTreeAssumption
<1>2. h \in [Block -> Nat]
  <2>1. 0..Cardinality(Block) \subseteq Nat
    OBVIOUS
  <2> QED
    BY <1>1, <2>1
<1>3. /\ Height \in [Block -> Nat]
      /\ \A b \in Block : Parent[b] = b \/ Height[Parent[b]] < Height[b]
  BY <1>1, <1>2 DEF Height
<1> QED
  BY <1>3, ForkTreeAssumption

\* Ancestors are blocks, ancestors of an ancestor are ancestors, and those of a
\* block are itself and those of its parent.
LEMMA AncestryRules ==
  ASSUME NEW b \in Block
  PROVE  /\ b \in Ancestry(b) /\ Ancestry(b) \subseteq Block
         /\ Parent[b] \in Ancestry(b)
         /\ \A x \in Ancestry(b) : Ancestry(x) \subseteq Ancestry(b)
         /\ Ancestry(b) = {b} \cup Ancestry(Parent[b])
<1>1. /\ b \in Ancestry(b) /\ Ancestry(b) \subseteq Block
      /\ \A x \in Ancestry(b) : Parent[x] \in Ancestry(b)
  BY AncestryIsClosure
<1>2. ASSUME NEW x \in Ancestry(b) PROVE Ancestry(x) \subseteq Ancestry(b)
  <2>1. x \in Block
    BY <1>1
  <2>2. \A T : x \in T /\ (\A y \in T : Parent[y] \in T) => Ancestry(x) \subseteq T
    BY <2>1, AncestryIsClosure
  <2> QED
    BY <1>1, <2>2
<1>3. Parent[b] \in Block
  BY HeightFalls
<1>4. /\ Parent[b] \in Ancestry(Parent[b])
      /\ \A x \in Ancestry(Parent[b]) : Parent[x] \in Ancestry(Parent[b])
  BY <1>3, AncestryIsClosure
<1>5. PICK T : T = {b} \cup Ancestry(Parent[b])
  OBVIOUS
<1>6. b \in T /\ \A x \in T : Parent[x] \in T
  BY <1>4, <1>5
<1>7. Ancestry(b) \subseteq T
  BY <1>6, AncestryIsClosure
<1> QED
  BY <1>1, <1>2, <1>5, <1>7

\* A proper ancestor is lower.
LEMMA AncestorIsLower ==
  ASSUME NEW b \in Block, NEW x \in Ancestry(b), x # b
  PROVE  x \in Block /\ Height[x] < Height[b]
<1>1. PICK T : T = {y \in Block : y = b \/ Height[y] < Height[b]}
  OBVIOUS
<1>2. b \in T
  BY <1>1
<1>3. ASSUME NEW y \in T PROVE Parent[y] \in T
  <2>1. y \in Block /\ (y = b \/ Height[y] < Height[b])
    BY <1>1
  <2>2. Parent[y] \in Block /\ (Parent[y] = y \/ Height[Parent[y]] < Height[y])
    BY <2>1, HeightFalls
  <2>3. Height[y] \in Nat /\ Height[Parent[y]] \in Nat /\ Height[b] \in Nat
    BY <2>1, <2>2, HeightFalls
  <2>4. CASE Parent[y] = y
    BY <2>4
  <2>5. CASE Height[Parent[y]] < Height[y]
    <3>1. Height[Parent[y]] < Height[b]
      BY <2>1, <2>3, <2>5
    <3> QED
      BY <1>1, <2>2, <3>1
  <2> QED
    BY <2>2, <2>4, <2>5
<1>4. Ancestry(b) \subseteq T
  BY <1>2, <1>3, AncestryIsClosure
<1> QED
  BY <1>1, <1>4

\* Two blocks that are ancestors of each other are the same.
LEMMA AncestryIsOrder ==
  ASSUME NEW a \in Block, NEW b \in Block, a \in Ancestry(b), b \in Ancestry(a)
  PROVE  a = b
<1> SUFFICES ASSUME a # b PROVE FALSE
  OBVIOUS
<1>1. Height[a] < Height[b] /\ Height[b] < Height[a]
  BY AncestorIsLower
<1>2. Height[a] \in Nat /\ Height[b] \in Nat
  BY HeightFalls
<1> QED
  BY <1>1, <1>2

\* The ancestors of a block are on one chain.
LEMMA AncestorsAreLinear ==
  ASSUME NEW b \in Block, NEW x \in Ancestry(b), NEW y \in Ancestry(b)
  PROVE  x \in Ancestry(y) \/ y \in Ancestry(x)
<1>0. Ancestry(b) \subseteq Block
  BY AncestryRules
<1>1. PICK T : T = {z \in Block : x \in Ancestry(z) \/ z \in Ancestry(x)}
  OBVIOUS
<1>2. b \in T
  BY <1>1
<1>3. ASSUME NEW z \in T PROVE Parent[z] \in T
  <2>1. z \in Block /\ Parent[z] \in Block /\ x \in Block
    BY <1>0, <1>1, HeightFalls
  <2>2. CASE z \in Ancestry(x)
    <3>1. Parent[z] \in Ancestry(x)
      BY <2>1, <2>2, AncestryIsClosure
    <3> QED
      BY <1>1, <2>1, <3>1
  <2>3. CASE x \in Ancestry(z)
    <3>1. x = z \/ x \in Ancestry(Parent[z])
      BY <2>1, <2>3, AncestryRules
    <3>2. CASE x = z
      <4>1. z \in Ancestry(x)
        BY <2>1, <3>2, AncestryRules
      <4> QED
        BY <2>2, <4>1
    <3>3. CASE x \in Ancestry(Parent[z])
      BY <1>1, <2>1, <3>3
    <3> QED
      BY <3>1, <3>2, <3>3
  <2> QED
    BY <1>1, <2>2, <2>3
<1>4. Ancestry(b) \subseteq T
  BY <1>2, <1>3, AncestryIsClosure
<1> QED
  BY <1>1, <1>4

-----------------------------------------------------------------------------
(* The tree of the chains. *)

\* Children are in the tree and point back at their parent.
TreeOK(tree) ==
  /\ DOMAIN tree \subseteq Block
  /\ \A b \in DOMAIN tree : /\ tree[b].children \subseteq DOMAIN tree
                            /\ \A c \in tree[b].children : Parent[c] = b /\ c # b

\* A chain is a sequence of blocks that is not empty.
LEMMA ChainType ==
  ASSUME NEW c \in Chains
  PROVE  /\ c \in Seq(Block) /\ Len(c) \in Nat /\ Len(c) >= 1 /\ DOMAIN c = 1..Len(c)
         /\ \A i \in 1..(Len(c) - 1) : Parent[c[i + 1]] = c[i] /\ c[i + 1] # c[i]
         /\ Last(c) = c[Len(c)] /\ ToSet(c) = {c[i] : i \in 1..Len(c)}
<1>0. MaxLength \in Nat
  BY ForkTreeAssumption
<1>1. PICK n \in 1..MaxLength : c \in [1..n -> Block]
  BY DEF Chains
<1>2. n \in Nat /\ n >= 1
  BY <1>0
<1>3. c \in Seq(Block) /\ Len(c) = n /\ DOMAIN c = 1..n
  BY <1>1, <1>2
<1>4. IsChain(c)
  BY DEF Chains
<1> QED
  BY <1>2, <1>3, <1>4 DEF IsChain, Last, ToSet

\* A chain that is merged keeps the tree, adds its blocks, and leaves no block
\* without a child but its last and those that had none.
LEMMA AddChainOK ==
  ASSUME NEW tree, TreeOK(tree), NEW c \in Chains, NEW t, t = AddChain(tree, c)
  PROVE  /\ TreeOK(t) /\ DOMAIN t = DOMAIN tree \cup ToSet(c) /\ Last(c) \in DOMAIN t
         /\ \A b \in DOMAIN t : t[b].children = {} =>
              b = Last(c) \/ (b \in DOMAIN tree /\ tree[b].children = {})
<1>0. /\ c \in Seq(Block) /\ Len(c) \in Nat /\ Len(c) >= 1 /\ DOMAIN c = 1..Len(c)
      /\ \A i \in 1..(Len(c) - 1) : Parent[c[i + 1]] = c[i] /\ c[i + 1] # c[i]
      /\ Last(c) = c[Len(c)] /\ ToSet(c) = {c[i] : i \in 1..Len(c)}
  BY ChainType
<1>1. DOMAIN t = DOMAIN tree \cup ToSet(c)
  BY DEF AddChain
<1>2. ToSet(c) \subseteq Block /\ Last(c) \in ToSet(c)
  BY <1>0
<1>3. ASSUME NEW b \in ToSet(c)
      PROVE  /\ b \in DOMAIN tree => t[b].children = tree[b].children \cup child_or_none(c, b)
             /\ b \notin DOMAIN tree => t[b].children = child_or_none(c, b)
  BY <1>3 DEF AddChain
<1>4. ASSUME NEW b \in DOMAIN tree \ ToSet(c) PROVE t[b] = tree[b]
  BY <1>4 DEF AddChain
<1>5. ASSUME NEW b \in ToSet(c), NEW d \in child_or_none(c, b)
      PROVE  d \in ToSet(c) /\ Parent[d] = b /\ d # b
  <2>1. PICK i \in 1..(Len(c) - 1) : c[i] = b /\ d = c[i + 1]
    BY DEF child_or_none
  <2>2. i + 1 \in 1..Len(c)
    BY <1>0
  <2> QED
    BY <1>0, <2>1, <2>2
<1>6. ASSUME NEW b \in ToSet(c), child_or_none(c, b) = {} PROVE b = Last(c)
  <2>1. PICK i \in 1..Len(c) : b = c[i]
    BY <1>0
  <2>2. i \notin 1..(Len(c) - 1)
    BY <1>6, <2>1 DEF child_or_none
  <2>3. i = Len(c)
    <3>1. Len(c) \in Nat
      BY <1>0
    <3> QED
      BY <2>2, <3>1
  <2> QED
    BY <1>0, <2>1, <2>3
<1>7. ASSUME NEW b \in DOMAIN t
      PROVE  /\ t[b].children \subseteq DOMAIN t
             /\ \A d \in t[b].children : Parent[d] = b /\ d # b
             /\ t[b].children = {} => b = Last(c) \/ (b \in DOMAIN tree /\ tree[b].children = {})
  <2>1. CASE b \in ToSet(c) /\ b \in DOMAIN tree
    BY <1>1, <1>3, <1>5, <1>6, <2>1 DEF TreeOK
  <2>2. CASE b \in ToSet(c) /\ b \notin DOMAIN tree
    BY <1>1, <1>3, <1>5, <1>6, <2>2
  <2>3. CASE b \notin ToSet(c)
    BY <1>1, <1>4, <2>3 DEF TreeOK
  <2> QED
    BY <2>1, <2>2, <2>3
<1>8. TreeOK(t)
  <2>1. DOMAIN t \subseteq Block
    BY <1>1, <1>2 DEF TreeOK
  <2> QED
    BY <1>7, <2>1 DEF TreeOK
<1> QED
  BY <1>1, <1>2, <1>7, <1>8

-----------------------------------------------------------------------------
(* Descents in the tree. *)

\* The blocks of the tree that are no child.
RootsOf(tree) == DOMAIN tree \ UNION {tree[b].children : b \in DOMAIN tree}

\* A block that is no root is a child of its parent.
LEMMA ChildOfParent ==
  ASSUME NEW tree, TreeOK(tree), NEW b \in DOMAIN tree, b \notin RootsOf(tree)
  PROVE  Parent[b] \in DOMAIN tree /\ b \in tree[Parent[b]].children /\ Parent[b] # b
BY DEF TreeOK, RootsOf

\* With one root, every block of the tree descends from it.
LEMMA RootAbove ==
  ASSUME NEW tree, TreeOK(tree), NEW r, RootsOf(tree) = {r}
  PROVE  \A x \in DOMAIN tree : r \in Ancestry(x)
<1>0. DOMAIN tree \subseteq Block /\ r \in DOMAIN tree
  BY DEF TreeOK, RootsOf
<1>1. PICK Bad : Bad = {n \in Nat : \E x \in DOMAIN tree : n = Height[x] /\ r \notin Ancestry(x)}
  OBVIOUS
<1>2. Bad = {}
  <2> SUFFICES ASSUME Bad # {} PROVE FALSE
    OBVIOUS
  <2>1. PICK n \in Bad : \A m \in Bad : n <= m
    BY <1>1, NatLeast
  <2>2. PICK x \in DOMAIN tree : n = Height[x] /\ r \notin Ancestry(x)
    BY <1>1
  <2>3. x # r
    BY <1>0, <2>2, AncestryRules
  <2>4. Parent[x] \in DOMAIN tree /\ Parent[x] # x
    BY <2>3, ChildOfParent
  <2>5. Height[Parent[x]] < Height[x] /\ Height[Parent[x]] \in Nat /\ Height[x] \in Nat
    BY <1>0, <2>4, HeightFalls
  <2>6. r \notin Ancestry(Parent[x])
    BY <1>0, <2>2, AncestryRules
  <2>7. Height[Parent[x]] \in Bad
    BY <1>1, <2>4, <2>5, <2>6
  <2> QED
    BY <2>1, <2>2, <2>5, <2>7
<1> QED
  BY <1>0, <1>1, <1>2, HeightFalls

\* With one root, a block of the tree that has a descendant in the tree has a
\* child there.
LEMMA AncestorHasChild ==
  ASSUME NEW tree, TreeOK(tree), NEW r, RootsOf(tree) = {r},
         NEW a \in DOMAIN tree, NEW b \in DOMAIN tree, a \in Ancestry(b), a # b
  PROVE  tree[a].children # {}
<1>0. DOMAIN tree \subseteq Block /\ r \in DOMAIN tree
  BY DEF TreeOK, RootsOf
<1>3. \A x \in DOMAIN tree : r \in Ancestry(x)
  BY RootAbove
<1> SUFFICES ASSUME tree[a].children = {} PROVE FALSE
  OBVIOUS
<1>4. PICK Off : Off = {n \in Nat : \E x \in DOMAIN tree : n = Height[x] /\ a \in Ancestry(x) /\ a # x}
  OBVIOUS
<1>5. Off # {}
  BY <1>0, <1>4, HeightFalls
<1>6. PICK n \in Off : \A m \in Off : n <= m
  BY <1>4, <1>5, NatLeast
<1>7. PICK x \in DOMAIN tree : n = Height[x] /\ a \in Ancestry(x) /\ a # x
  BY <1>4
<1>8. x # r
  <2> SUFFICES ASSUME x = r PROVE FALSE
    OBVIOUS
  <2>1. r \in Ancestry(a) /\ a \in Ancestry(r)
    BY <1>3, <1>7
  <2> QED
    BY <1>0, <1>7, <2>1, AncestryIsOrder
<1>9. Parent[x] \in DOMAIN tree /\ x \in tree[Parent[x]].children /\ Parent[x] # x
  BY <1>8, ChildOfParent
<1>10. a # Parent[x]
  BY <1>9
<1>11. a \in Ancestry(Parent[x])
  BY <1>0, <1>7, AncestryRules
<1>12. Height[Parent[x]] < Height[x] /\ Height[Parent[x]] \in Nat /\ Height[x] \in Nat
  BY <1>0, <1>9, HeightFalls
<1>13. Height[Parent[x]] \in Off
  BY <1>4, <1>9, <1>10, <1>11, <1>12
<1> QED
  BY <1>6, <1>7, <1>12, <1>13

\* Below every block of the tree is one without children.
LEMMA LeafBelow ==
  ASSUME NEW tree, TreeOK(tree), NEW a \in DOMAIN tree
  PROVE  \E b \in DOMAIN tree : tree[b].children = {} /\ a \in Ancestry(b)
<1>0. DOMAIN tree \subseteq Block
  BY DEF TreeOK
<1>1. PICK h \in [Block -> 0..Cardinality(Block)] : \A b \in Block : Parent[b] = b \/ h[Parent[b]] < h[b]
  BY ForkTreeAssumption
<1>2. PICK M \in Nat : M = Cardinality(Block)
  BY ForkTreeAssumption, FS_CardinalityType
<1>3. PICK S : S = {n \in 0..M : \E b \in DOMAIN tree : a \in Ancestry(b) /\ h[b] = n}
  OBVIOUS
<1>4. S \in SUBSET (0..M) /\ S # {}
  <2>1. a \in Ancestry(a) /\ h[a] \in 0..M
    BY <1>0, <1>1, <1>2, AncestryRules
  <2> QED
    BY <1>3, <2>1
<1>5. PICK n \in S : \A m \in S : m <= n
  BY <1>4, NatGreatest
<1>6. PICK b \in DOMAIN tree : a \in Ancestry(b) /\ h[b] = n
  BY <1>3
<1>7. ASSUME NEW c \in tree[b].children PROVE FALSE
  <2>1. c \in DOMAIN tree /\ Parent[c] = b /\ c # b
    BY DEF TreeOK
  <2>2. a \in Ancestry(c)
    BY <1>0, <1>6, <2>1, AncestryRules
  <2>3. h[b] < h[c] /\ h[c] \in 0..M
    BY <1>0, <1>1, <1>2, <2>1
  <2>4. h[c] \in S
    BY <1>3, <2>1, <2>2, <2>3
  <2> QED
    BY <1>2, <1>3, <1>5, <1>6, <2>3, <2>4
<1> QED
  BY <1>6, <1>7

-----------------------------------------------------------------------------
(* Runs of blocks that are collapsed. *)

\* From b on, each block is the only child of the one before, as many nodes have
\* it as have b, and it has a child itself.
IsRun(tree, b, p, k) ==
  /\ p \in [0..k -> DOMAIN tree] /\ p[0] = b
  /\ \A i \in 1..k : /\ tree[p[i - 1]].children = {p[i]}
                     /\ tree[p[i]].peers = tree[b].peers /\ tree[p[i]].children # {}

\* run has the run of each block of the summary, and the children of the block
\* in the summary are those of the run's last block in the tree.
RunsOf(tree, s, run) ==
  \A d \in DOMAIN s :
    /\ s[d].intermediate_nodes \in Nat
    /\ IsRun(tree, d, run[d], s[d].intermediate_nodes)
    /\ s[d].children = tree[run[d][s[d].intermediate_nodes]].children

\* How the blocks of a summary come to be there: as roots, or as children of
\* another one.
Earned(tree, s) ==
  /\ DOMAIN s \subseteq DOMAIN tree
  /\ \A x \in DOMAIN s : x \in RootsOf(tree) \/ \E d \in DOMAIN s : x \in s[d].children

\* The predecessor in a run is the parent.
LEMMA RunParent ==
  ASSUME NEW tree, TreeOK(tree), NEW b, NEW p, NEW k \in Nat, IsRun(tree, b, p, k),
         NEW i \in 1..k
  PROVE  /\ i - 1 \in 0..k /\ p[i] \in DOMAIN tree /\ p[i - 1] \in DOMAIN tree
         /\ p[i - 1] = Parent[p[i]] /\ p[i] # p[i - 1] /\ p[i] \notin RootsOf(tree)
<1>1. i - 1 \in 0..k /\ i \in 0..k
  OBVIOUS
<1>2. p[i] \in DOMAIN tree /\ p[i - 1] \in DOMAIN tree /\ p[i] \in tree[p[i - 1]].children
  BY <1>1 DEF IsRun
<1> QED
  BY <1>1, <1>2 DEF TreeOK, RootsOf

\* No block is in two runs, or twice in one.
LEMMA RunsAreDisjoint ==
  ASSUME NEW tree, TreeOK(tree), NEW s, NEW run, RunsOf(tree, s, run), Earned(tree, s),
         NEW d \in DOMAIN s, NEW e \in DOMAIN s,
         NEW i \in 0..s[d].intermediate_nodes, NEW j \in 0..s[e].intermediate_nodes,
         run[d][i] = run[e][j]
  PROVE  d = e /\ i = j
<1> DEFINE K(x) == s[x].intermediate_nodes
<1>0. DOMAIN tree \subseteq Block /\ \A x \in DOMAIN tree : Height[x] \in Nat
  BY HeightFalls DEF TreeOK
<1>1. \A x \in DOMAIN s : K(x) \in Nat /\ IsRun(tree, x, run[x], K(x))
  BY DEF RunsOf
<1>2. \A x \in DOMAIN s : run[x][0] = x /\ \A m \in 0..K(x) : run[x][m] \in DOMAIN tree
  BY <1>1 DEF IsRun
<1> DEFINE Meet(x, y, m, n) == run[x][m] = run[y][n] /\ ~(x = y /\ m = n)
<1>3. PICK Bad : Bad = {h \in Nat : \E x, y \in DOMAIN s : \E m \in 0..K(x), n \in 0..K(y) :
                                      Meet(x, y, m, n) /\ h = Height[run[x][m]]}
  OBVIOUS
<1> SUFFICES ASSUME ~(d = e /\ i = j) PROVE FALSE
  OBVIOUS
<1>4. Height[run[d][i]] \in Bad
  BY <1>0, <1>2, <1>3
<1>5. PICK h \in Bad : \A g \in Bad : h <= g
  BY <1>3, <1>4, NatLeast
<1>6. PICK x \in DOMAIN s, y \in DOMAIN s : \E m \in 0..K(x), n \in 0..K(y) :
        Meet(x, y, m, n) /\ h = Height[run[x][m]]
  BY <1>3
<1>7. PICK m \in 0..K(x), n \in 0..K(y) : Meet(x, y, m, n) /\ h = Height[run[x][m]]
  BY <1>6
<1>8. K(x) \in Nat /\ K(y) \in Nat /\ IsRun(tree, x, run[x], K(x)) /\ IsRun(tree, y, run[y], K(y))
  BY <1>1
<1>9. ASSUME NEW u \in DOMAIN s, NEW v \in DOMAIN s, NEW a \in 0..K(u), NEW b \in 0..K(v),
             Meet(u, v, a, b), run[u][a] = Parent[run[x][m]], Parent[run[x][m]] # run[x][m]
      PROVE  FALSE
  <2>1. run[x][m] \in DOMAIN tree /\ run[u][a] \in DOMAIN tree
    BY <1>2
  <2>2. Height[run[u][a]] < Height[run[x][m]]
    BY <1>0, <1>9, <2>1, HeightFalls
  <2>3. Height[run[u][a]] \in Bad
    BY <1>0, <1>3, <1>9, <2>1
  <2>4. Height[run[u][a]] \in Nat /\ Height[run[x][m]] \in Nat
    BY <1>0, <2>1
  <2> QED
    BY <1>5, <1>7, <2>2, <2>3, <2>4
\* A block that starts a run cannot be inside another.
<1>10. ASSUME NEW u \in DOMAIN s, NEW v \in DOMAIN s, NEW b \in 1..K(v), u = run[v][b],
              u = run[x][m]
       PROVE  FALSE
  <2>0. K(v) \in Nat /\ IsRun(tree, v, run[v], K(v))
    BY <1>1
  <2>1. /\ b - 1 \in 0..K(v) /\ u \in DOMAIN tree
        /\ run[v][b - 1] = Parent[u] /\ u # Parent[u] /\ u \notin RootsOf(tree)
    <3>1. /\ b - 1 \in 0..K(v) /\ run[v][b] \in DOMAIN tree
          /\ run[v][b - 1] = Parent[run[v][b]] /\ run[v][b] # run[v][b - 1]
          /\ run[v][b] \notin RootsOf(tree)
      <4> HIDE DEF K
      <4> QED
        BY <2>0, RunParent
    <3> QED
      BY <1>10, <3>1
  <2>2. PICK w \in DOMAIN s : u \in s[w].children
    BY <2>1 DEF Earned
  <2>3. K(w) \in Nat /\ K(w) \in 0..K(w) /\ u \in tree[run[w][K(w)]].children
    BY <2>2 DEF RunsOf
  <2>4. run[w][K(w)] = Parent[u]
    BY <1>2, <2>3 DEF TreeOK
  <2>5. ~(w = v /\ K(w) = b - 1)
    BY <2>0
  <2>6. Meet(w, v, K(w), b - 1)
    BY <2>1, <2>4, <2>5
  <2> HIDE DEF Meet, K
  <2> QED
    BY <1>9, <1>10, <2>1, <2>3, <2>4, <2>6
<1>11. CASE m = 0 /\ n = 0
  BY <1>2, <1>7, <1>11
<1>12. CASE m = 0 /\ n # 0
  <2>1. n \in 1..K(y) /\ x = run[y][n] /\ x = run[x][m]
    BY <1>2, <1>7, <1>8, <1>12
  <2> HIDE DEF K
  <2> QED
    BY <1>10, <2>1
<1>13. CASE m # 0 /\ n = 0
  <2>1. m \in 1..K(x) /\ y = run[x][m]
    BY <1>2, <1>7, <1>8, <1>13
  <2> HIDE DEF K
  <2> QED
    BY <1>10, <2>1
<1>14. CASE m # 0 /\ n # 0
  <2>1. m \in 1..K(x) /\ n \in 1..K(y)
    BY <1>8, <1>14
  <2>2. /\ m - 1 \in 0..K(x) /\ run[x][m - 1] = Parent[run[x][m]]
        /\ run[x][m] # run[x][m - 1]
    <3> HIDE DEF K
    <3> QED
      BY <1>8, <2>1, RunParent
  <2>3. n - 1 \in 0..K(y) /\ run[y][n - 1] = Parent[run[y][n]]
    <3> HIDE DEF K
    <3> QED
      BY <1>8, <2>1, RunParent
  <2>4. ~(x = y /\ m - 1 = n - 1)
    BY <1>7, <1>8, <2>1
  <2>5. Meet(x, y, m - 1, n - 1)
    BY <1>7, <2>2, <2>3, <2>4
  <2>6. Parent[run[x][m]] # run[x][m]
    BY <2>2
  <2> HIDE DEF Meet, K
  <2> QED
    BY <1>9, <2>2, <2>3, <2>5, <2>6
<1> QED
  BY <1>11, <1>12, <1>13, <1>14

\* When the summary has the roots and the children of its blocks, every block is
\* in a run.
LEMMA RunsCoverTree ==
  ASSUME NEW tree, TreeOK(tree), NEW s, NEW run, RunsOf(tree, s, run),
         RootsOf(tree) \subseteq DOMAIN s, \A d \in DOMAIN s : s[d].children \subseteq DOMAIN s,
         NEW x \in DOMAIN tree
  PROVE  \E d \in DOMAIN s : \E i \in 0..s[d].intermediate_nodes : x = run[d][i]
<1> DEFINE K(y) == s[y].intermediate_nodes
           In(y) == \E d \in DOMAIN s : \E i \in 0..K(d) : y = run[d][i]
<1>0. DOMAIN tree \subseteq Block /\ \A y \in DOMAIN tree : Height[y] \in Nat
  BY HeightFalls DEF TreeOK
<1>1. \A d \in DOMAIN s : K(d) \in Nat /\ IsRun(tree, d, run[d], K(d)) /\ run[d][0] = d
  BY DEF RunsOf, IsRun
<1>2. \A d \in DOMAIN s : In(d)
  <2> SUFFICES ASSUME NEW d \in DOMAIN s PROVE In(d)
    BY Zenon
  <2>1. 0 \in 0..K(d) /\ d = run[d][0]
    BY <1>1
  <2> QED
    BY <2>1
<1>3. PICK Bad : Bad = {h \in Nat : \E y \in DOMAIN tree : ~In(y) /\ h = Height[y]}
  OBVIOUS
<1> SUFFICES ASSUME ~In(x) PROVE FALSE
  OBVIOUS
<1> HIDE DEF In
<1>4. Height[x] \in Bad
  BY <1>0, <1>3
<1>5. PICK h \in Bad : \A g \in Bad : h <= g
  BY <1>3, <1>4, NatLeast
<1>6. PICK y \in DOMAIN tree : ~In(y) /\ h = Height[y]
  BY <1>3
<1>7. y \notin RootsOf(tree)
  BY <1>2, <1>6
<1>8. Parent[y] \in DOMAIN tree /\ y \in tree[Parent[y]].children /\ Parent[y] # y
  BY <1>7, ChildOfParent
<1>9. Height[Parent[y]] < Height[y] /\ Height[Parent[y]] \in Nat /\ Height[y] \in Nat
  BY <1>0, <1>8, HeightFalls
<1>10. In(Parent[y])
  BY <1>3, <1>5, <1>6, <1>8, <1>9
<1>11. PICK d \in DOMAIN s : \E i \in 0..K(d) : Parent[y] = run[d][i]
  BY <1>10 DEF In
<1>12. PICK i \in 0..K(d) : Parent[y] = run[d][i]
  BY <1>11
<1>13. CASE i = K(d)
  <2>1. s[d].children = tree[Parent[y]].children
    BY <1>12, <1>13 DEF RunsOf
  <2>2. y \in DOMAIN s
    BY <1>8, <2>1
  <2> QED
    BY <1>2, <1>6, <2>2
<1>14. CASE i # K(d)
  <2>1. i + 1 \in 1..K(d) /\ i + 1 \in 0..K(d) /\ i + 1 - 1 = i
    BY <1>1, <1>14
  <2>2. tree[run[d][i + 1 - 1]].children = {run[d][i + 1]}
    BY <1>1, <2>1 DEF IsRun
  <2>3. y = run[d][i + 1]
    BY <1>8, <1>12, <2>1, <2>2
  <2>4. In(y)
    BY <2>1, <2>3 DEF In
  <2> QED
    BY <1>6, <2>4
<1> QED
  BY <1>13, <1>14

\* One turn of the loop that collapses a run.
Turn(peers, s) ==
  IF ~Collapses(peers, s.children) THEN s
  ELSE [children |-> UNION {fork_tree[c].children : c \in s.children},
        intermediate |-> s.intermediate + 1]

\* The state of the loop is of a run.
OfRun(b, s) ==
  \E p : IsRun(fork_tree, b, p, s.intermediate) /\ s.children = fork_tree[p[s.intermediate]].children

LoopState == [children : SUBSET DOMAIN fork_tree, intermediate : Nat]

\* A turn of the loop extends the run.
LEMMA TurnExtendsRun ==
  ASSUME TreeOK(fork_tree), NEW b \in DOMAIN fork_tree, NEW s \in LoopState, OfRun(b, s)
  PROVE  Turn(fork_tree[b].peers, s) \in LoopState /\ OfRun(b, Turn(fork_tree[b].peers, s))
<1>1. CASE ~Collapses(fork_tree[b].peers, s.children)
  BY <1>1 DEF Turn
<1>2. CASE Collapses(fork_tree[b].peers, s.children)
  <2>1. s.children \in SUBSET DOMAIN fork_tree /\ s.intermediate \in Nat
    BY DEF LoopState
  <2>2. IsFiniteSet(s.children)
    <3>1. s.children \in SUBSET Block
      BY <2>1 DEF TreeOK
    <3> QED
      BY <3>1, ForkTreeAssumption, FS_Subset
  <2>3. Cardinality(s.children) = 1
    BY <1>2 DEF Collapses
  <2>4. PICK c : s.children = {c}
    BY <2>2, <2>3, FS_Singleton
  <2>5. /\ c \in DOMAIN fork_tree /\ fork_tree[c].peers = fork_tree[b].peers
        /\ fork_tree[c].children # {}
    BY <1>2, <2>1, <2>4 DEF Collapses
  <2>6. PICK t : t = [children |-> fork_tree[c].children, intermediate |-> s.intermediate + 1]
    OBVIOUS
  <2>7. Turn(fork_tree[b].peers, s) = t
    <3>1. UNION {fork_tree[x].children : x \in s.children} = fork_tree[c].children
      BY <2>4
    <3> QED
      BY <1>2, <2>6, <3>1 DEF Turn
  <2>8. t \in LoopState
    BY <2>1, <2>5, <2>6 DEF LoopState, TreeOK
  <2>9. PICK p : IsRun(fork_tree, b, p, s.intermediate) /\ s.children = fork_tree[p[s.intermediate]].children
    BY DEF OfRun
  <2>10. PICK k \in Nat : k = s.intermediate
    BY <2>1
  <2>11. /\ p \in [0..k -> DOMAIN fork_tree] /\ p[0] = b
         /\ \A i \in 1..k : /\ fork_tree[p[i - 1]].children = {p[i]}
                            /\ fork_tree[p[i]].peers = fork_tree[b].peers /\ fork_tree[p[i]].children # {}
    BY <2>9, <2>10 DEF IsRun
  <2>12. PICK q : q = [i \in 0..(k + 1) |-> IF i = k + 1 THEN c ELSE p[i]]
    OBVIOUS
  <2>13. /\ q \in [0..(k + 1) -> DOMAIN fork_tree] /\ q[0] = b /\ q[k + 1] = c
         /\ \A i \in 0..k : q[i] = p[i]
    BY <2>5, <2>11, <2>12
  <2>14. ASSUME NEW i \in 1..(k + 1)
         PROVE  /\ fork_tree[q[i - 1]].children = {q[i]}
                /\ fork_tree[q[i]].peers = fork_tree[b].peers /\ fork_tree[q[i]].children # {}
    <3>1. CASE i = k + 1
      <4>1. i - 1 = k /\ k \in 0..k
        BY <3>1
      <4>2. q[i - 1] = p[k] /\ q[i] = c
        BY <2>13, <3>1, <4>1
      <4> QED
        BY <2>4, <2>5, <2>9, <2>10, <4>2
    <3>2. CASE i # k + 1
      <4>1. i \in 1..k /\ i \in 0..k /\ i - 1 \in 0..k
        BY <3>2
      <4>2. q[i] = p[i] /\ q[i - 1] = p[i - 1]
        BY <2>13, <4>1
      <4> QED
        BY <2>11, <4>1, <4>2
    <3> QED
      BY <3>1, <3>2
  <2>15. IsRun(fork_tree, b, q, k + 1)
    BY <2>13, <2>14 DEF IsRun
  <2>16. t.intermediate = k + 1 /\ t.children = fork_tree[q[k + 1]].children
    BY <2>6, <2>10, <2>13
  <2>17. OfRun(b, t)
    BY <2>15, <2>16 DEF OfRun
  <2> QED
    BY <2>7, <2>8, <2>17
<1> QED
  BY <1>1, <1>2

\* What the loop leaves is of a run.
LEMMA CollapsedIsRun ==
  ASSUME TreeOK(fork_tree), NEW b \in DOMAIN fork_tree
  PROVE  Collapsed(b) \in LoopState /\ OfRun(b, Collapsed(b))
<1>1. PICK M \in Nat : M = Cardinality(Block)
  BY ForkTreeAssumption, FS_CardinalityType
<1>2. PICK S : S = {s \in LoopState : OfRun(b, s)}
  OBVIOUS
<1>3. PICK first : first = [children |-> fork_tree[b].children, intermediate |-> 0]
  OBVIOUS
<1>4. first \in S
  <2>1. first \in LoopState
    BY <1>3 DEF LoopState, TreeOK
  <2>2. PICK p : p = [i \in 0..0 |-> b]
    OBVIOUS
  <2>3. IsRun(fork_tree, b, p, 0) /\ p[0] = b
    BY <2>2 DEF IsRun
  <2>4. OfRun(b, first)
    BY <1>3, <2>3 DEF OfRun
  <2> QED
    BY <1>2, <2>1, <2>4
<1> DEFINE peers == fork_tree[b].peers
           Body(g, n) == IF n = 0 THEN [children |-> fork_tree[b].children, intermediate |-> 0]
                         ELSE IF ~Collapses(peers, g[n - 1].children) THEN g[n - 1]
                         ELSE [children |-> UNION {fork_tree[c].children : c \in g[n - 1].children},
                               intermediate |-> g[n - 1].intermediate + 1]
<1>5. PICK step : step = [x \in Nat \X S |-> Turn(peers, x[2])]
  OBVIOUS
<1>6. step \in [Nat \X S -> S]
  <2>1. \A s \in S : Turn(peers, s) \in S
    BY <1>2, TurnExtendsRun
  <2>2. \A x \in Nat \X S : x[2] \in S
    OBVIOUS
  <2> HIDE DEF peers
  <2> QED
    BY <1>5, <2>1, <2>2
<1>7. PICK a : a \in Unrolled(M, S, first, step)
  BY <1>4, <1>6, UnrolledExists
<1>8. /\ a \in [0..M -> S] /\ a[0] = first
      /\ \A i \in 0..(M - 1) : a[i + 1] = step[<<i, a[i]>>]
  BY <1>7 DEF Unrolled
<1>9. ASSUME NEW n \in 0..M, n # 0 PROVE a[n] = Turn(peers, a[n - 1])
  <2>1. PICK i \in 0..(M - 1) : i = n - 1
    BY <1>9
  <2>2. i + 1 = n /\ i \in Nat /\ i \in 0..M
    BY <1>9, <2>1
  <2>3. a[i] \in S
    BY <1>8, <2>2
  <2>4. step[<<i, a[i]>>] = Turn(peers, a[i])
    <3> HIDE DEF peers
    <3> QED
      BY <1>5, <2>2, <2>3
  <2> HIDE DEF peers
  <2> QED
    BY <1>8, <2>1, <2>2, <2>4
<1>10. a = [n \in 0..Cardinality(Block) |-> Body(a, n)]
  <2>1. ASSUME NEW n \in 0..M PROVE a[n] = Body(a, n)
    <3>1. CASE n = 0
      BY <1>3, <1>8, <3>1
    <3>2. CASE n # 0
      <4>1. a[n] = Turn(peers, a[n - 1])
        BY <1>9, <3>2
      <4> QED
        BY <3>2, <4>1, Zenon DEF Turn
    <3> QED
      BY <3>1, <3>2
  <2> HIDE DEF Body
  <2> QED
    BY <1>1, <1>8, <2>1
<1>11. PICK after : after = CHOOSE h : h = [n \in 0..Cardinality(Block) |-> Body(h, n)]
  OBVIOUS
<1>12. after = [n \in 0..Cardinality(Block) |-> Body(after, n)]
  <2> HIDE DEF Body
  <2> QED
    BY <1>10, <1>11
<1>13. PICK P : P = {n \in Nat : n <= M => after[n] \in S}
  OBVIOUS
<1>14. 0 \in P
  <2>1. after[0] = Body(after, 0)
    <3> HIDE DEF Body
    <3> QED
      BY <1>1, <1>12
  <2>2. after[0] = first
    BY <1>3, <2>1, Zenon
  <2> QED
    BY <1>4, <1>13, <2>2
<1>15. ASSUME NEW n \in Nat, n \in P PROVE n + 1 \in P
  <2> SUFFICES ASSUME n + 1 <= M PROVE after[n + 1] \in S
    BY <1>13
  <2>1. after[n] \in S
    BY <1>13, <1>15
  <2>2. PICK m \in 0..M : m = n + 1 /\ m # 0 /\ m - 1 = n
    OBVIOUS
  <2>3. after[m] = Body(after, m)
    <3> HIDE DEF Body
    <3> QED
      BY <1>1, <1>12, <2>2
  <2>4. after[n + 1] = Turn(peers, after[n])
    <3>1. after[m] = Turn(peers, after[m - 1])
      BY <2>2, <2>3, Zenon DEF Turn
    <3> HIDE DEF peers
    <3> QED
      BY <2>2, <3>1
  <2> HIDE DEF Body
  <2> QED
    BY <1>2, <2>1, <2>4, TurnExtendsRun
<1>16. after[M] \in S
  <2>1. Nat \subseteq P
    BY <1>14, <1>15, NatAll
  <2> QED
    BY <1>13, <2>1
<1>17. Collapsed(b) = after[M]
  BY <1>1, <1>11, Zenon DEF Collapsed
<1> QED
  BY <1>2, <1>16, <1>17

-----------------------------------------------------------------------------
(* The report. *)

SummaryOf(b) == [children |-> Collapsed(b).children, peers |-> fork_tree[b].peers,
                 intermediate_nodes |-> Collapsed(b).intermediate]

\* The tree is one of the chains merged so far: their last blocks are in it, and
\* only they have no children.
MergeInv ==
  /\ chains \in Seq(Chains) /\ TreeOK(fork_tree) /\ Tips \subseteq DOMAIN fork_tree
  /\ \A b \in DOMAIN fork_tree : fork_tree[b].children = {} => b \in Tips

\* What is shown and what is still to do has the roots and the children of what is
\* shown, and nothing else.
SummaryInv ==
  /\ roots = RootsOf(fork_tree)
  /\ todo \cup DOMAIN summarized_fork_tree \subseteq DOMAIN fork_tree
  /\ roots \subseteq todo \cup DOMAIN summarized_fork_tree
  /\ \A b \in DOMAIN summarized_fork_tree :
       /\ summarized_fork_tree[b] = SummaryOf(b)
       /\ summarized_fork_tree[b].children \subseteq todo \cup DOMAIN summarized_fork_tree
  /\ \A x \in todo \cup DOMAIN summarized_fork_tree :
       x \in roots \/ \E d \in DOMAIN summarized_fork_tree : x \in summarized_fork_tree[d].children

ShownTips == {b \in DOMAIN summarized_fork_tree : summarized_fork_tree[b].children = {}}
TipParents ==
  {b \in DOMAIN summarized_fork_tree : summarized_fork_tree[b].children \cap ShownTips # {}}

\* What has_forks returns.
ForksFound ==
  LET roots_with_children == {r \in roots : fork_tree[r].children # {}}
  IN  \/ Cardinality(roots_with_children) > 1
      \/ Cardinality(roots_with_children) = 1 /\ Cardinality(TipParents) > 1

TreeInv ==
  /\ tree_pc \in {"merge", "summarize", "done"} /\ MergeInv
  /\ tree_pc = "merge" => DOMAIN summarized_fork_tree = {}
  /\ tree_pc # "merge" => SummaryInv
  /\ tree_pc = "done" => todo = {} /\ forks = ForksFound

\* The report begins without chains.
LEMMA TreeInitInv == TreeInit => TreeInv
<1> SUFFICES ASSUME TreeInit PROVE TreeInv
  OBVIOUS
<1>1. /\ tree_pc = "merge" /\ chains = << >> /\ DOMAIN fork_tree = {}
      /\ DOMAIN summarized_fork_tree = {}
  BY DEF TreeInit, Empty
<1>2. Tips = {}
  <2>1. DOMAIN chains = {}
    BY <1>1
  <2> QED
    BY <2>1 DEF Tips
<1>3. MergeInv
  BY <1>1, <1>2 DEF MergeInv, TreeOK
<1> QED
  BY <1>1, <1>3 DEF TreeInv

\* Collapsed, of any tree.
CollapsedIn(tree, b) ==
  LET peers == tree[b].peers
      Ends(children) == ~(/\ Cardinality(children) = 1
                          /\ \A c \in children : tree[c].peers = peers /\ tree[c].children # {})
      after[n \in 0..Cardinality(Block)] ==
        IF n = 0 THEN [children |-> tree[b].children, intermediate |-> 0]
        ELSE LET s == after[n - 1]
             IN  IF Ends(s.children) THEN s
                 ELSE [children |-> UNION {tree[c].children : c \in s.children},
                       intermediate |-> s.intermediate + 1]
  IN  after[Cardinality(Block)]

\* What the summary says of a block rests on the tree alone.
LEMMA SummaryIsOfTree ==
  ASSUME fork_tree' = fork_tree, NEW b
  PROVE  SummaryOf(b)' = SummaryOf(b)
<1>1. Collapsed(b) = CollapsedIn(fork_tree, b)
  BY Zenon DEF Collapsed, CollapsedIn, Collapses
<1>2. Collapsed(b)' = CollapsedIn(fork_tree', b)
  BY Zenon DEF Collapsed, CollapsedIn, Collapses
<1>3. Collapsed(b)' = Collapsed(b)
  BY <1>1, <1>2, Zenon
<1> QED
  BY <1>3, Zenon DEF SummaryOf

\* What is shown of a block is of a run.
LEMMA SummaryIsRun ==
  ASSUME TreeOK(fork_tree), NEW b \in DOMAIN fork_tree
  PROVE  /\ SummaryOf(b).intermediate_nodes \in Nat
         /\ SummaryOf(b).children \subseteq DOMAIN fork_tree
         /\ \E p : /\ IsRun(fork_tree, b, p, SummaryOf(b).intermediate_nodes)
                   /\ SummaryOf(b).children = fork_tree[p[SummaryOf(b).intermediate_nodes]].children
<1>1. Collapsed(b) \in LoopState /\ OfRun(b, Collapsed(b))
  BY CollapsedIsRun
<1>2. /\ SummaryOf(b).intermediate_nodes = Collapsed(b).intermediate
      /\ SummaryOf(b).children = Collapsed(b).children
  BY DEF SummaryOf
<1> QED
  BY <1>1, <1>2 DEF LoopState, OfRun

\* Merging the chain of another node keeps the invariant.
LEMMA AddChainStep ==
  ASSUME TreeInv, add_chain
  PROVE  TreeInv'
<1>1. PICK c \in Chains : chains' = Append(chains, c) /\ fork_tree' = AddChain(fork_tree, c)
  BY DEF add_chain
<1>2. chains \in Seq(Chains) /\ chains' \in Seq(Chains)
  BY <1>1 DEF TreeInv, MergeInv
<1>3. /\ DOMAIN chains' = 1..(Len(chains) + 1) /\ Len(chains) \in Nat /\ DOMAIN chains = 1..Len(chains)
      /\ chains'[Len(chains) + 1] = c /\ \A i \in 1..Len(chains) : chains'[i] = chains[i]
  BY <1>1, <1>2
<1>4. Tips' = Tips \cup {Last(c)}
  <2>1. Tips' = {Last(chains'[i]) : i \in DOMAIN chains'}
    BY DEF Tips
  <2>2. Tips = {Last(chains[i]) : i \in DOMAIN chains}
    BY DEF Tips
  <2>3. DOMAIN chains' = DOMAIN chains \cup {Len(chains) + 1}
    BY <1>3
  <2>4. \A i \in DOMAIN chains : chains'[i] = chains[i]
    BY <1>3
  <2> QED
    BY <1>3, <2>1, <2>2, <2>3, <2>4
<1>5. /\ TreeOK(fork_tree) /\ Tips \subseteq DOMAIN fork_tree
      /\ \A b \in DOMAIN fork_tree : fork_tree[b].children = {} => b \in Tips
  BY DEF TreeInv, MergeInv
<1>6. /\ TreeOK(fork_tree') /\ DOMAIN fork_tree' = DOMAIN fork_tree \cup ToSet(c)
      /\ Last(c) \in DOMAIN fork_tree'
      /\ \A b \in DOMAIN fork_tree' : fork_tree'[b].children = {} =>
           b = Last(c) \/ (b \in DOMAIN fork_tree /\ fork_tree[b].children = {})
  BY <1>1, <1>5, AddChainOK
<1>7. TreeOK(fork_tree)'
  BY <1>6 DEF TreeOK
<1>8. MergeInv'
  BY <1>2, <1>4, <1>5, <1>6, <1>7 DEF MergeInv
<1> QED
  BY <1>8 DEF TreeInv, add_chain

\* Invariants of the tree and the chains, and of what is shown, rest on them.
LEMMA MergeKept ==
  ASSUME MergeInv, UNCHANGED <<chains, fork_tree>>
  PROVE  MergeInv'
BY DEF MergeInv, Tips, TreeOK

\* The summary starts at the roots.
LEMMA FindRootsStep ==
  ASSUME TreeInv, find_roots
  PROVE  TreeInv'
<1>1. MergeInv'
  BY MergeKept DEF TreeInv, find_roots
<1>2. /\ tree_pc' = "summarize" /\ fork_tree' = fork_tree
      /\ roots' = RootsOf(fork_tree) /\ todo' = roots' /\ DOMAIN summarized_fork_tree' = {}
  BY DEF TreeInv, find_roots, RootsOf
<1>3. roots' \subseteq DOMAIN fork_tree
  BY <1>2 DEF RootsOf
<1>4. RootsOf(fork_tree)' = roots'
  BY <1>2 DEF RootsOf
<1>5. SummaryInv'
  BY <1>2, <1>3, <1>4 DEF SummaryInv
<1> QED
  BY <1>1, <1>2, <1>5 DEF TreeInv

\* A block that is added to the summary leaves its children to do.
LEMMA AddToSummaryStep ==
  ASSUME TreeInv, NEW b \in Block, add_to_summarized_tree(b)
  PROVE  TreeInv'
<1>1. MergeInv'
  BY MergeKept DEF TreeInv, add_to_summarized_tree
<1>2. /\ tree_pc = "summarize" /\ tree_pc' = "summarize" /\ b \in todo
      /\ fork_tree' = fork_tree /\ roots' = roots
  BY DEF add_to_summarized_tree
<1> DEFINE S == summarized_fork_tree
<1>3. /\ S' = [d \in DOMAIN S \cup {b} |-> IF d = b THEN SummaryOf(b) ELSE S[d]]
      /\ todo' = (todo \ {b}) \cup SummaryOf(b).children
  BY DEF add_to_summarized_tree, SummaryOf
<1>4. SummaryInv /\ TreeOK(fork_tree)
  BY <1>2 DEF TreeInv, MergeInv
<1>5. b \in DOMAIN fork_tree
  BY <1>2, <1>4 DEF SummaryInv
<1>6. SummaryOf(b).children \subseteq DOMAIN fork_tree
  BY <1>4, <1>5, SummaryIsRun
<1>7. DOMAIN S' = DOMAIN S \cup {b} /\ S'[b] = SummaryOf(b)
  BY <1>3
<1>8. \A d \in DOMAIN S : S'[d] = S[d]
  <2> SUFFICES ASSUME NEW d \in DOMAIN S PROVE S'[d] = S[d]
    OBVIOUS
  <2>1. S[d] = SummaryOf(d)
    BY <1>4 DEF SummaryInv
  <2>2. CASE d = b
    BY <1>7, <2>1, <2>2
  <2>3. CASE d # b
    <3> HIDE DEF S
    <3> QED
      BY <1>3, <2>3
  <2> QED
    BY <2>2, <2>3
<1>9. PICK seen : seen = todo \cup DOMAIN S
  OBVIOUS
<1>10. todo' \cup DOMAIN S' = seen \cup SummaryOf(b).children
  BY <1>2, <1>3, <1>7, <1>9
<1>11. ASSUME NEW d \in DOMAIN S'
       PROVE  S'[d] = SummaryOf(d)' /\ S'[d].children \subseteq todo' \cup DOMAIN S'
  <2>1. SummaryOf(d)' = SummaryOf(d)
    BY <1>2, SummaryIsOfTree
  <2>2. CASE d = b
    BY <1>7, <1>10, <2>1, <2>2
  <2>3. CASE d # b
    <3>1. d \in DOMAIN S
      BY <1>7, <2>3
    <3>2. S[d] = SummaryOf(d) /\ S[d].children \subseteq seen
      BY <1>4, <1>9, <3>1 DEF SummaryInv
    <3> QED
      BY <1>8, <1>10, <2>1, <3>1, <3>2
  <2> QED
    BY <2>2, <2>3
<1>12. ASSUME NEW x \in todo' \cup DOMAIN S'
       PROVE  x \in roots' \/ \E d \in DOMAIN S' : x \in S'[d].children
  <2>1. CASE x \in SummaryOf(b).children
    BY <1>7, <2>1
  <2>2. CASE x \in seen
    <3>1. x \in roots \/ \E d \in DOMAIN S : x \in S[d].children
      BY <1>4, <1>9, <2>2 DEF SummaryInv
    <3> QED
      BY <1>2, <1>7, <1>8, <3>1
  <2> QED
    BY <1>10, <2>1, <2>2
<1>13. roots = RootsOf(fork_tree) /\ seen \subseteq DOMAIN fork_tree /\ roots \subseteq seen
  BY <1>4, <1>9 DEF SummaryInv
<1>14. RootsOf(fork_tree)' = RootsOf(fork_tree)
  BY <1>2 DEF RootsOf
<1>15. SummaryInv'
  BY <1>2, <1>6, <1>10, <1>11, <1>12, <1>13, <1>14 DEF SummaryInv
<1> QED
  BY <1>1, <1>2, <1>15 DEF TreeInv

\* has_forks looks at the finished summary.
LEMMA HasForksStep ==
  ASSUME TreeInv, has_forks
  PROVE  TreeInv'
<1>1. MergeInv'
  BY MergeKept DEF TreeInv, has_forks
<1>2. /\ tree_pc = "summarize" /\ tree_pc' = "done" /\ todo = {}
      /\ UNCHANGED <<chains, fork_tree, roots, todo, summarized_fork_tree>>
  BY DEF has_forks
<1>3. SummaryInv
  BY <1>2 DEF TreeInv
<1>4. SummaryInv'
  <2>1. \A d : SummaryOf(d)' = SummaryOf(d)
    BY <1>2, SummaryIsOfTree
  <2>2. RootsOf(fork_tree)' = RootsOf(fork_tree)
    BY <1>2 DEF RootsOf
  <2> QED
    BY <1>2, <1>3, <2>1, <2>2 DEF SummaryInv
<1>5. forks' = ForksFound
  BY DEF has_forks, ForksFound, TipParents, ShownTips, MoreThanOneTipParent
<1>6. ForksFound' = ForksFound
  BY <1>2, Zenon DEF ForksFound, TipParents, ShownTips
<1> QED
  BY <1>1, <1>2, <1>4, <1>5, <1>6 DEF TreeInv

\* Every step keeps the invariant.
LEMMA TreeStep == TreeInv /\ [TreeNext]_treeVars => TreeInv'
<1> SUFFICES ASSUME TreeInv, [TreeNext]_treeVars PROVE TreeInv'
  OBVIOUS
<1>1. CASE add_chain
  BY <1>1, AddChainStep
<1>2. CASE find_roots
  BY <1>2, FindRootsStep
<1>3. CASE \E b \in Block : add_to_summarized_tree(b)
  BY <1>3, AddToSummaryStep
<1>4. CASE has_forks
  BY <1>4, HasForksStep
<1>5. CASE UNCHANGED treeVars
  <2>0. UNCHANGED <<tree_pc, chains, fork_tree, roots, todo, summarized_fork_tree, forks>>
    BY <1>5 DEF treeVars
  <2>1. MergeInv'
    BY <2>0, MergeKept DEF TreeInv
  <2>2. SummaryInv => SummaryInv'
    <3>1. \A d : SummaryOf(d)' = SummaryOf(d)
      BY <2>0, SummaryIsOfTree
    <3>2. RootsOf(fork_tree)' = RootsOf(fork_tree)
      BY <2>0 DEF RootsOf
    <3> QED
      BY <2>0, <3>1, <3>2 DEF SummaryInv
  <2>3. ForksFound' = ForksFound
    BY <2>0, Zenon DEF ForksFound, TipParents, ShownTips
  <2> QED
    BY <2>0, <2>1, <2>2, <2>3 DEF TreeInv
<1> QED
  BY <1>1, <1>2, <1>3, <1>4, <1>5 DEF TreeNext

\* A finished summary: its blocks are earned, the roots and the children of its
\* blocks are in it, and each block stands for a run.
Finished(s, run) ==
  /\ TreeOK(fork_tree) /\ Earned(fork_tree, s) /\ RunsOf(fork_tree, s, run)
  /\ roots = RootsOf(fork_tree) /\ roots \subseteq DOMAIN s
  /\ \A d \in DOMAIN s : s[d].children \subseteq DOMAIN s

\* The summary is finished when the report is done.
LEMMA DoneIsFinished ==
  ASSUME TreeInv, tree_pc = "done"
  PROVE  \E run : Finished(summarized_fork_tree, run)
<1> DEFINE S == summarized_fork_tree
           Fits(d, p) == IsRun(fork_tree, d, p, S[d].intermediate_nodes)
                         /\ S[d].children = fork_tree[p[S[d].intermediate_nodes]].children
<1>1. SummaryInv /\ todo = {} /\ TreeOK(fork_tree)
  BY DEF TreeInv, MergeInv
<1>2. /\ DOMAIN S \subseteq DOMAIN fork_tree /\ roots = RootsOf(fork_tree) /\ roots \subseteq DOMAIN S
      /\ \A d \in DOMAIN S : S[d].children \subseteq DOMAIN S
      /\ \A x \in DOMAIN S : x \in roots \/ \E d \in DOMAIN S : x \in S[d].children
  BY <1>1 DEF SummaryInv
<1>3. ASSUME NEW d \in DOMAIN S PROVE S[d].intermediate_nodes \in Nat /\ \E p : Fits(d, p)
  <2>1. S[d] = SummaryOf(d)
    BY <1>1 DEF SummaryInv
  <2> QED
    BY <1>1, <1>2, <2>1, SummaryIsRun
<1>4. PICK run : run = [d \in DOMAIN S |-> CHOOSE p : Fits(d, p)]
  OBVIOUS
<1>5. ASSUME NEW d \in DOMAIN S PROVE Fits(d, run[d])
  <2>1. run[d] = CHOOSE p : Fits(d, p)
    BY <1>4
  <2> HIDE DEF Fits
  <2> QED
    BY <1>3, <2>1
<1>6. RunsOf(fork_tree, S, run)
  BY <1>3, <1>5 DEF RunsOf
<1>7. Earned(fork_tree, S)
  BY <1>2 DEF Earned
<1>8. Finished(S, run)
  BY <1>1, <1>2, <1>6, <1>7 DEF Finished
<1> QED
  BY <1>8

\* Blocks shown are in the tree, and each of the tree is shown or counted once.
LEMMA SummaryIsComplete ==
  ASSUME TreeInv
  PROVE  SummaryKeepsBlocks
<1> SUFFICES ASSUME tree_pc = "done" PROVE SummaryKeepsBlocks
  BY DEF SummaryKeepsBlocks
<1> DEFINE S == summarized_fork_tree
<1>1. PICK run : Finished(S, run)
  BY DoneIsFinished
<1>2. PICK D : D = UNION {{<<b, i>> : i \in 0..S[b].intermediate_nodes} : b \in DOMAIN S}
  OBVIOUS
<1>3. \A z \in D : \E d \in DOMAIN S : \E i \in 0..S[d].intermediate_nodes : z = <<d, i>>
  BY <1>2
<1>4. \A d \in DOMAIN S : \A i \in 0..S[d].intermediate_nodes : <<d, i>> \in D
  BY <1>2
<1>5. PICK f : f = [z \in D |-> run[z[1]][z[2]]]
  OBVIOUS
<1>6. \A d \in DOMAIN S : \A i \in 0..S[d].intermediate_nodes :
        f[<<d, i>>] = run[d][i] /\ run[d][i] \in DOMAIN fork_tree
  <2> SUFFICES ASSUME NEW d \in DOMAIN S, NEW i \in 0..S[d].intermediate_nodes
               PROVE  f[<<d, i>>] = run[d][i] /\ run[d][i] \in DOMAIN fork_tree
    OBVIOUS
  <2>1. <<d, i>> \in D
    BY <1>4
  <2>2. f[<<d, i>>] = run[d][i]
    BY <1>5, <2>1
  <2>3. run[d] \in [0..S[d].intermediate_nodes -> DOMAIN fork_tree]
    BY <1>1 DEF Finished, RunsOf, IsRun
  <2> QED
    BY <2>2, <2>3
<1>7. f \in [D -> DOMAIN fork_tree]
  <2>1. \A z \in D : f[z] \in DOMAIN fork_tree
    BY <1>3, <1>6
  <2> QED
    BY <1>5, <2>1
<1>8. ASSUME NEW y \in D, NEW z \in D, f[y] = f[z] PROVE y = z
  <2>1. PICK d \in DOMAIN S : \E i \in 0..S[d].intermediate_nodes : y = <<d, i>>
    BY <1>3
  <2>2. PICK i \in 0..S[d].intermediate_nodes : y = <<d, i>>
    BY <2>1
  <2>3. PICK e \in DOMAIN S : \E j \in 0..S[e].intermediate_nodes : z = <<e, j>>
    BY <1>3
  <2>4. PICK j \in 0..S[e].intermediate_nodes : z = <<e, j>>
    BY <2>3
  <2>5. run[d][i] = run[e][j]
    BY <1>6, <1>8, <2>2, <2>4
  <2>6. TreeOK(fork_tree) /\ RunsOf(fork_tree, S, run) /\ Earned(fork_tree, S)
    BY <1>1 DEF Finished
  <2>7. d = e /\ i = j
    BY <2>5, <2>6, RunsAreDisjoint
  <2> QED
    BY <2>2, <2>4, <2>7
<1>9. ASSUME NEW x \in DOMAIN fork_tree PROVE \E z \in D : f[z] = x
  <2>1. /\ TreeOK(fork_tree) /\ RunsOf(fork_tree, S, run) /\ RootsOf(fork_tree) \subseteq DOMAIN S
        /\ \A d \in DOMAIN S : S[d].children \subseteq DOMAIN S
    BY <1>1 DEF Finished
  <2>2. PICK d \in DOMAIN S : \E i \in 0..S[d].intermediate_nodes : x = run[d][i]
    BY <2>1, RunsCoverTree
  <2>3. PICK i \in 0..S[d].intermediate_nodes : x = run[d][i]
    BY <2>2
  <2>4. f[<<d, i>>] = x
    BY <1>6, <2>3
  <2> QED
    BY <1>4, <2>4
<1>10. f \in Surjection(D, DOMAIN fork_tree) /\ f \in Injection(D, DOMAIN fork_tree)
  <2>1. \A x \in DOMAIN fork_tree : \E z \in D : f[z] = x
    BY <1>9
  <2>2. \A y, z \in D : f[y] = f[z] => y = z
    BY <1>8
  <2>3. DOMAIN f = D
    BY <1>7
  <2>4. f \in Surjection(D, DOMAIN fork_tree)
    BY <1>7, <2>1, Zenon DEF Surjection
  <2>5. f \in Injection(D, DOMAIN fork_tree)
    BY <1>7, <2>2, <2>3, Zenon DEF Injection, IsInjective
  <2> QED
    BY <2>4, <2>5
<1>11. IsFiniteSet(DOMAIN fork_tree)
  <2>1. DOMAIN fork_tree \in SUBSET Block
    BY DEF TreeInv, MergeInv, TreeOK
  <2> QED
    BY <2>1, ForkTreeAssumption, FS_Subset
<1>12. Cardinality(D) = Cardinality(DOMAIN fork_tree)
  BY <1>10, <1>11, FS_Injection
<1>13. DOMAIN S \subseteq DOMAIN fork_tree
  BY <1>1 DEF Finished, Earned
<1> QED
  BY <1>2, <1>12, <1>13 DEF SummaryKeepsBlocks

\* A block of a run descends from the run's first, and as many nodes have it.
LEMMA RunDescends ==
  ASSUME NEW tree, TreeOK(tree), NEW b, NEW p, NEW k \in Nat, IsRun(tree, b, p, k), NEW i \in 0..k
  PROVE  b \in Ancestry(p[i]) /\ tree[b].peers = tree[p[i]].peers
<1>0. p \in [0..k -> DOMAIN tree] /\ p[0] = b /\ DOMAIN tree \subseteq Block
  BY DEF IsRun, TreeOK
<1>1. PICK P : P = {n \in Nat : n <= k => b \in Ancestry(p[n])}
  OBVIOUS
<1>2. 0 \in P
  <2>1. b \in Block
    BY <1>0
  <2>2. b \in Ancestry(b)
    BY <2>1, AncestryRules
  <2> QED
    BY <1>0, <1>1, <2>2
<1>3. ASSUME NEW n \in Nat, n \in P PROVE n + 1 \in P
  <2> SUFFICES ASSUME n + 1 <= k PROVE b \in Ancestry(p[n + 1])
    BY <1>1
  <2>1. PICK m \in 1..k : m = n + 1 /\ m - 1 = n
    OBVIOUS
  <2>2. p[m] \in DOMAIN tree /\ p[m - 1] = Parent[p[m]]
    BY <2>1, RunParent
  <2>3. p[m] \in Block
    BY <1>0, <2>2
  <2>4. b \in Ancestry(p[m - 1])
    BY <1>1, <1>3, <2>1
  <2>5. b \in Ancestry(p[m])
    BY <2>2, <2>3, <2>4, AncestryRules
  <2> QED
    BY <2>1, <2>5
<1>4. b \in Ancestry(p[i])
  <2>1. Nat \subseteq P
    BY <1>2, <1>3, NatAll
  <2> QED
    BY <1>1, <2>1
<1>5. tree[b].peers = tree[p[i]].peers
  <2>1. CASE i = 0
    BY <1>0, <2>1
  <2>2. CASE i # 0
    <3>1. i \in 1..k
      BY <2>2
    <3> QED
      BY <3>1 DEF IsRun
  <2> QED
    BY <2>1, <2>2
<1> QED
  BY <1>4, <1>5

\* A block that is not shown has the peers of one that is, and descends from it.
LEMMA PeersAreOfRun ==
  ASSUME TreeInv
  PROVE  CollapsedBlocksHaveSamePeers
<1> SUFFICES ASSUME tree_pc = "done", NEW b \in DOMAIN fork_tree
             PROVE  \E a \in DOMAIN summarized_fork_tree \cap Ancestry(b) :
                      fork_tree[a].peers = fork_tree[b].peers
  BY DEF CollapsedBlocksHaveSamePeers
<1> DEFINE S == summarized_fork_tree
<1>1. PICK run : Finished(S, run)
  BY DoneIsFinished
<1>2. /\ TreeOK(fork_tree) /\ RunsOf(fork_tree, S, run) /\ RootsOf(fork_tree) \subseteq DOMAIN S
      /\ \A d \in DOMAIN S : S[d].children \subseteq DOMAIN S
  BY <1>1 DEF Finished
<1>3. PICK d \in DOMAIN S : \E i \in 0..S[d].intermediate_nodes : b = run[d][i]
  BY <1>2, RunsCoverTree
<1>4. PICK i \in 0..S[d].intermediate_nodes : b = run[d][i]
  BY <1>3
<1>5. S[d].intermediate_nodes \in Nat /\ IsRun(fork_tree, d, run[d], S[d].intermediate_nodes)
  BY <1>2 DEF RunsOf
<1>6. d \in Ancestry(b) /\ fork_tree[d].peers = fork_tree[b].peers
  BY <1>2, <1>4, <1>5, RunDescends
<1> QED
  BY <1>6

\* A finite set has more than one element exactly if two of them differ.
LEMMA MoreThanOne ==
  ASSUME NEW S, IsFiniteSet(S)
  PROVE  Cardinality(S) \in Nat /\ (Cardinality(S) > 1 <=> \E x, y \in S : x # y)
<1>1. Cardinality(S) \in Nat
  BY FS_CardinalityType
<1>2. Cardinality(S) = 0 <=> S = {}
  BY FS_EmptySet
<1>3. Cardinality(S) = 1 <=> \E x : S = {x}
  BY FS_Singleton
<1>4. ASSUME NEW x \in S, NEW y \in S, x # y PROVE Cardinality(S) > 1
  <2>1. Cardinality(S) # 0
    BY <1>2
  <2>2. Cardinality(S) # 1
    BY <1>3, <1>4
  <2> QED
    BY <1>1, <2>1, <2>2
<1>5. ASSUME \A x, y \in S : x = y PROVE ~(Cardinality(S) > 1)
  <2>1. CASE S = {}
    BY <1>2, <2>1
  <2>2. CASE S # {}
    <3>1. PICK x \in S : TRUE
      BY <2>2
    <3>2. S = {x}
      BY <1>5, <3>1
    <3> QED
      BY <1>3, <3>2
  <2> QED
    BY <2>1, <2>2
<1> QED
  BY <1>1, <1>4, <1>5

\* The tips shown are the blocks without children, and each but a root is a child
\* in the summary.
LEMMA TipsAreLeaves ==
  ASSUME TreeInv, tree_pc = "done"
  PROVE  /\ ShownTips = {x \in DOMAIN fork_tree : fork_tree[x].children = {}}
         /\ \A x \in ShownTips \ roots : \E p \in TipParents : x \in summarized_fork_tree[p].children
<1> DEFINE S == summarized_fork_tree
<1>1. PICK run : Finished(S, run)
  BY DoneIsFinished
<1>2. /\ TreeOK(fork_tree) /\ RunsOf(fork_tree, S, run) /\ RootsOf(fork_tree) \subseteq DOMAIN S
      /\ \A d \in DOMAIN S : S[d].children \subseteq DOMAIN S
      /\ Earned(fork_tree, S) /\ roots = RootsOf(fork_tree)
  BY <1>1 DEF Finished
<1>3. ASSUME NEW x \in ShownTips PROVE x \in DOMAIN fork_tree /\ fork_tree[x].children = {}
  <2>1. x \in DOMAIN S /\ S[x].children = {}
    BY DEF ShownTips
  <2>2. PICK k \in Nat : k = S[x].intermediate_nodes
    BY <1>2, <2>1 DEF RunsOf
  <2>3. IsRun(fork_tree, x, run[x], k) /\ fork_tree[run[x][k]].children = {}
    BY <1>2, <2>1, <2>2 DEF RunsOf
  <2>4. CASE k = 0
    BY <1>2, <2>1, <2>3, <2>4 DEF IsRun, Earned
  <2>5. CASE k # 0
    <3>1. k \in 1..k
      BY <2>5
    <3> QED
      BY <2>3, <3>1 DEF IsRun
  <2> QED
    BY <2>4, <2>5
<1>4. ASSUME NEW x \in DOMAIN fork_tree, fork_tree[x].children = {} PROVE x \in ShownTips
  <2>1. PICK d \in DOMAIN S : \E i \in 0..S[d].intermediate_nodes : x = run[d][i]
    BY <1>2, RunsCoverTree
  <2>2. PICK i \in 0..S[d].intermediate_nodes : x = run[d][i]
    BY <2>1
  <2>3. PICK k \in Nat : k = S[d].intermediate_nodes
    BY <1>2 DEF RunsOf
  <2>4. /\ IsRun(fork_tree, d, run[d], k) /\ S[d].children = fork_tree[run[d][k]].children
        /\ i \in 0..k
    BY <1>2, <2>2, <2>3 DEF RunsOf
  <2>5. i = 0
    <3> SUFFICES ASSUME i # 0 PROVE FALSE
      OBVIOUS
    <3>1. i \in 1..k
      BY <2>4
    <3> QED
      BY <1>4, <2>2, <2>4, <3>1 DEF IsRun
  <2>6. x = d
    BY <2>2, <2>4, <2>5 DEF IsRun
  <2>7. k = 0
    <3> SUFFICES ASSUME k # 0 PROVE FALSE
      OBVIOUS
    <3>1. 1 \in 1..k /\ 1 - 1 = 0
      OBVIOUS
    <3>2. fork_tree[run[d][0]].children = {run[d][1]}
      BY <2>4, <3>1 DEF IsRun
    <3> QED
      BY <1>4, <2>2, <2>5, <3>2
  <2>8. S[d].children = {}
    BY <1>4, <2>2, <2>4, <2>5, <2>7
  <2> QED
    BY <2>6, <2>8 DEF ShownTips
<1>5. ASSUME NEW x \in ShownTips \ roots PROVE \E p \in TipParents : x \in S[p].children
  <2>1. x \in DOMAIN S
    BY DEF ShownTips
  <2>2. PICK p \in DOMAIN S : x \in S[p].children
    BY <1>2, <1>5, <2>1 DEF Earned
  <2>3. p \in TipParents
    BY <2>2 DEF TipParents
  <2> QED
    BY <2>2, <2>3
<1> QED
  BY <1>3, <1>4, <1>5

\* The children that a block of the summary shows have the same parent, and no
\* two blocks show the same child.
LEMMA ShownChildren ==
  ASSUME TreeInv, tree_pc = "done",
         NEW p \in DOMAIN summarized_fork_tree, NEW x \in summarized_fork_tree[p].children
  PROVE  /\ \A y \in summarized_fork_tree[p].children : Parent[x] = Parent[y]
         /\ \A q \in DOMAIN summarized_fork_tree : x \in summarized_fork_tree[q].children => p = q
<1> DEFINE S == summarized_fork_tree
           K(d) == S[d].intermediate_nodes
<1>1. PICK run : Finished(S, run)
  BY DoneIsFinished
<1>2. TreeOK(fork_tree) /\ RunsOf(fork_tree, S, run) /\ Earned(fork_tree, S)
  BY <1>1 DEF Finished
<1>3. ASSUME NEW q \in DOMAIN S, NEW y \in S[q].children
      PROVE  K(q) \in Nat /\ K(q) \in 0..K(q) /\ Parent[y] = run[q][K(q)]
  <2>1. K(q) \in Nat /\ IsRun(fork_tree, q, run[q], K(q)) /\ y \in fork_tree[run[q][K(q)]].children
    BY <1>2, <1>3 DEF RunsOf
  <2>2. K(q) \in 0..K(q)
    BY <2>1
  <2>3. run[q][K(q)] \in DOMAIN fork_tree
    BY <2>1, <2>2 DEF IsRun
  <2> QED
    BY <1>2, <2>1, <2>2, <2>3 DEF TreeOK
<1>4. \A y \in S[p].children : Parent[x] = Parent[y]
  BY <1>3
<1>5. ASSUME NEW q \in DOMAIN S, x \in S[q].children PROVE p = q
  <2>1. /\ K(p) \in 0..K(p) /\ K(q) \in 0..K(q)
        /\ run[p][K(p)] = run[q][K(q)]
    BY <1>3, <1>5
  <2> QED
    BY <1>2, <2>1, RunsAreDisjoint
<1> QED
  BY <1>4, <1>5

\* With one root, has_forks counts the parents of the tips.
LEMMA OneRoot ==
  ASSUME TreeInv, tree_pc = "done", Cardinality(roots) = 1
  PROVE  /\ \E r : roots = {r} /\ r \in DOMAIN fork_tree
         /\ IsFiniteSet(TipParents)
         /\ forks => Cardinality(TipParents) > 1
         /\ Cardinality(TipParents) > 1 /\ (\E r \in roots : fork_tree[r].children # {}) => forks
<1>1. SummaryInv /\ todo = {} /\ forks = ForksFound /\ TreeOK(fork_tree)
  BY DEF TreeInv, MergeInv
<1>2. /\ roots \subseteq DOMAIN fork_tree /\ DOMAIN summarized_fork_tree \subseteq DOMAIN fork_tree
      /\ DOMAIN fork_tree \subseteq Block
  BY <1>1 DEF SummaryInv, TreeOK
<1>3. IsFiniteSet(roots)
  <2>1. roots \in SUBSET Block
    BY <1>2
  <2> QED
    BY <2>1, ForkTreeAssumption, FS_Subset
<1>4. PICK r : roots = {r}
  BY <1>3, FS_Singleton
<1>5. r \in DOMAIN fork_tree
  BY <1>2, <1>4
<1>6. IsFiniteSet(TipParents)
  <2>1. TipParents \in SUBSET Block
    BY <1>2 DEF TipParents
  <2> QED
    BY <2>1, ForkTreeAssumption, FS_Subset
<1>7. PICK R : R = {x \in roots : fork_tree[x].children # {}}
  OBVIOUS
<1>8. ForksFound <=> (Cardinality(R) > 1 \/ (Cardinality(R) = 1 /\ Cardinality(TipParents) > 1))
  BY <1>7 DEF ForksFound
<1>9. ~(Cardinality(R) > 1)
  <2>1. IsFiniteSet(R)
    <3>1. R \in SUBSET roots
      BY <1>7
    <3> QED
      BY <1>3, <3>1, FS_Subset
  <2>2. \A x, y \in R : x = y
    BY <1>4, <1>7
  <2> QED
    BY <2>1, <2>2, MoreThanOne
<1>10. (\E x \in roots : fork_tree[x].children # {}) => Cardinality(R) = 1
  <2> SUFFICES ASSUME NEW x \in roots, fork_tree[x].children # {} PROVE Cardinality(R) = 1
    OBVIOUS
  <2>1. R = {r}
    BY <1>4, <1>7
  <2> QED
    BY <2>1, FS_Singleton
<1> QED
  BY <1>1, <1>4, <1>5, <1>6, <1>8, <1>9, <1>10

\* Of two blocks without children none is an ancestor of the other.
LEMMA LeavesAreApart ==
  ASSUME TreeInv, tree_pc = "done", Cardinality(roots) = 1,
         NEW x \in ShownTips, NEW y \in ShownTips, x \in Ancestry(y)
  PROVE  x = y
<1>1. PICK r : roots = {r}
  BY OneRoot
<1>2. TreeOK(fork_tree) /\ RootsOf(fork_tree) = {r}
  BY <1>1 DEF TreeInv, MergeInv, SummaryInv
<1>3. x \in DOMAIN fork_tree /\ y \in DOMAIN fork_tree /\ fork_tree[x].children = {}
  BY TipsAreLeaves
<1> QED
  BY <1>2, <1>3, AncestorHasChild

\* On one chain, has_forks finds one tip and one parent of it.
LEMMA NoneInvented ==
  ASSUME TreeInv
  PROVE  NoForkOnOneChain
<1> SUFFICES ASSUME tree_pc = "done", Linear, Cardinality(roots) = 1, forks PROVE FALSE
  BY DEF NoForkOnOneChain
<1> DEFINE S == summarized_fork_tree
<1>1. PICK p \in TipParents, q \in TipParents : p # q
  BY OneRoot, MoreThanOne
<1>2. /\ p \in DOMAIN S /\ q \in DOMAIN S
      /\ S[p].children \cap ShownTips # {} /\ S[q].children \cap ShownTips # {}
  BY DEF TipParents
<1>3. PICK x \in S[p].children : x \in ShownTips
  BY <1>2
<1>4. PICK y \in S[q].children : y \in ShownTips
  BY <1>2
<1>5. x # y
  BY <1>1, <1>2, <1>3, <1>4, ShownChildren
<1>6. x \in Tips /\ y \in Tips
  BY <1>3, <1>4, TipsAreLeaves DEF TreeInv, MergeInv
<1>7. x \in Ancestry(y) \/ y \in Ancestry(x)
  BY <1>6 DEF Linear
<1> QED
  BY <1>3, <1>4, <1>5, <1>7, LeavesAreApart

\* A block that two or more blocks separate from another is no ancestor of it,
\* and neither is its parent.
LEMMA TwoBlocksApart ==
  ASSUME NEW a \in Block, NEW b \in Block, Cardinality(Ancestry(a) \ Ancestry(b)) >= 2
  PROVE  a \notin Ancestry(b) /\ Parent[a] \notin Ancestry(b)
<1>1. PICK D : D = Ancestry(a) \ Ancestry(b)
  OBVIOUS
<1>2. IsFiniteSet(D)
  <2>1. D \in SUBSET Block
    BY <1>1, AncestryRules
  <2> QED
    BY <2>1, ForkTreeAssumption, FS_Subset
<1>3. Cardinality(D) > 1
  BY <1>1, <1>2, FS_CardinalityType
<1>4. PICK x \in D, y \in D : x # y
  BY <1>2, <1>3, MoreThanOne
<1>5. Parent[a] \notin Ancestry(b)
  <2> SUFFICES ASSUME Parent[a] \in Ancestry(b) PROVE FALSE
    OBVIOUS
  <2>1. Ancestry(Parent[a]) \subseteq Ancestry(b)
    BY AncestryRules
  <2>2. Ancestry(a) = {a} \cup Ancestry(Parent[a])
    BY AncestryRules
  <2>3. \A z \in D : z = a
    BY <1>1, <2>1, <2>2
  <2> QED
    BY <1>4, <2>3
<1>6. a \notin Ancestry(b)
  BY <1>5, AncestryIsClosure
<1> QED
  BY <1>5, <1>6

\* Chains that differ in two blocks or more on each side have tips with different
\* parents.
LEMMA NoneMissed ==
  ASSUME TreeInv
  PROVE  NoMissedFork
<1> SUFFICES ASSUME tree_pc = "done", Cardinality(roots) = 1, NEW a \in Tips, NEW b \in Tips,
                    Cardinality(Ancestry(a) \ Ancestry(b)) >= 2,
                    Cardinality(Ancestry(b) \ Ancestry(a)) >= 2
             PROVE  forks
  BY DEF NoMissedFork
<1> DEFINE S == summarized_fork_tree
<1>1. /\ TreeOK(fork_tree) /\ DOMAIN fork_tree \subseteq Block
      /\ a \in DOMAIN fork_tree /\ b \in DOMAIN fork_tree
  BY DEF TreeInv, MergeInv, TreeOK
<1>2. /\ a \notin Ancestry(b) /\ Parent[a] \notin Ancestry(b)
      /\ b \notin Ancestry(a) /\ Parent[b] \notin Ancestry(a)
  BY <1>1, TwoBlocksApart
<1>3. PICK x \in DOMAIN fork_tree : fork_tree[x].children = {} /\ a \in Ancestry(x)
  BY <1>1, LeafBelow
<1>4. PICK y \in DOMAIN fork_tree : fork_tree[y].children = {} /\ b \in Ancestry(y)
  BY <1>1, LeafBelow
<1>5. x \in ShownTips /\ y \in ShownTips /\ x \in Block /\ y \in Block
  BY <1>1, <1>3, <1>4, TipsAreLeaves
\* No block has both as ancestors.
<1>6. ASSUME NEW z \in Block, a \in Ancestry(z), b \in Ancestry(z) PROVE FALSE
  BY <1>2, <1>6, AncestorsAreLinear
<1>7. x # y
  BY <1>3, <1>4, <1>5, <1>6
<1>8. PICK r : roots = {r} /\ r \in DOMAIN fork_tree
  BY OneRoot
<1>9. RootsOf(fork_tree) = {r}
  BY <1>8 DEF TreeInv, SummaryInv
<1>10. \A z \in DOMAIN fork_tree : r \in Ancestry(z)
  BY <1>1, <1>9, RootAbove
<1>11. x # r /\ y # r /\ fork_tree[r].children # {}
  <2>1. fork_tree[r].children # {}
    <3>1. x # r \/ y # r
      BY <1>7
    <3> QED
      BY <1>1, <1>8, <1>9, <1>10, <3>1, AncestorHasChild
  <2> QED
    BY <1>3, <1>4, <2>1
<1>12. PICK p \in TipParents : x \in S[p].children
  BY <1>5, <1>8, <1>11, TipsAreLeaves
<1>13. PICK q \in TipParents : y \in S[q].children
  BY <1>5, <1>8, <1>11, TipsAreLeaves
<1>14. p # q
  <2> SUFFICES ASSUME p = q PROVE FALSE
    OBVIOUS
  <2>1. p \in DOMAIN S
    BY DEF TipParents
  <2>2. Parent[x] = Parent[y] /\ Parent[x] \in Block
    BY <1>5, <1>12, <1>13, <2>1, ShownChildren, HeightFalls
  <2>3. a = x \/ a \in Ancestry(Parent[x])
    BY <1>3, <1>5, AncestryRules
  <2>4. b = y \/ b \in Ancestry(Parent[x])
    BY <1>4, <1>5, <2>2, AncestryRules
  <2>5. CASE a = x /\ b = y
    <3>1. Parent[b] \in Ancestry(b)
      BY <1>1, AncestryRules
    <3> QED
      BY <1>2, <2>2, <2>5, <3>1
  <2>6. CASE a = x /\ b \in Ancestry(Parent[x])
    <3>1. b \in Ancestry(a)
      BY <1>1, <2>6, AncestryRules
    <3> QED
      BY <1>2, <3>1
  <2>7. CASE a \in Ancestry(Parent[x]) /\ b = y
    <3>1. a \in Ancestry(b)
      BY <1>1, <2>2, <2>7, AncestryRules
    <3> QED
      BY <1>2, <3>1
  <2>8. CASE a \in Ancestry(Parent[x]) /\ b \in Ancestry(Parent[x])
    BY <1>6, <2>2, <2>8
  <2> QED
    BY <2>3, <2>4, <2>5, <2>6, <2>7, <2>8
<1>15. Cardinality(TipParents) > 1
  BY <1>14, OneRoot, MoreThanOne
<1> QED
  BY <1>8, <1>11, <1>15, OneRoot

\* Whatever chains the nodes report, the summary of make_report.py leaves no block
\* out and collapses only what the same number of nodes have, and has_forks warns
\* of chains that part for two blocks or more and never of a single chain, as long
\* as the chains meet.
THEOREM ForkReportsAreRight == TreeSpec => []ForkReportIsRight
<1>1. TreeSpec => []TreeInv
  BY TreeInitInv, TreeStep, PTL DEF TreeSpec
<1>2. TreeInv => ForkReportIsRight
  BY SummaryIsComplete, PeersAreOfRun, NoneMissed, NoneInvented DEF ForkReportIsRight
<1> QED
  BY <1>1, <1>2, PTL
=============================================================================
