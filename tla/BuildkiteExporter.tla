-------------------------- MODULE BuildkiteExporter --------------------------
(***************************************************************************)
(* buildkite/prometheus-exporter/exporter.py.  Every scrape of the metrics *)
(* port runs collect, in a thread of its own: it queries the jobs of the   *)
(* last interval and the agents of the organization, adds samples to       *)
(* metric families of its own, and yields them once all are complete.      *)
(***************************************************************************)
EXTENDS Naturals, Integers, Sequences, SequencesExt, FiniteSets, FiniteSetsExt

CONSTANTS
  Scrape,         \* scrapes, which may overlap
  Job, Agent,     \* identities
  JobTimes,       \* of the jobs' events
  Day,            \* what timedelta.seconds wraps at
  Label,          \* values of a sample's labels that tell jobs apart
  MAX_ARTIFACTS_COUNT   \* how many artifacts, and agents, a query returns

ASSUME BuildkiteExporterAssumption ==
  /\ Day \in Nat \ {0} /\ JobTimes \subseteq Nat
  /\ MAX_ARTIFACTS_COUNT \in Nat /\ IsFiniteSet(Job)

VARIABLES
  jobs,       \* what Buildkite has: job -> its record
  agents,     \* agents of the organization
  scrape_pc, todo,   \* scrape -> its state; jobs its query returned and are left
  metrics,    \* scrape -> family -> its samples, a sequence
  shown,      \* scrape -> what it answered
  fetched     \* history: scrape -> the jobs' records of its query

exporterVars == <<jobs, agents, scrape_pc, todo, metrics, shown, fetched>>

None == -1
NoKey == ""
Families == {"runtime", "waittime", "status", "exit_status", "artifact_size", "total_count"}
NoMetrics == [f \in Families |-> <<>>]

\* A job.  One that is not of type Command has none of these fields, and no
\* scheduledAt; one that has not started has neither agent nor start.
JobRecord ==
  {r \in [command : BOOLEAN, key : {"build", NoKey}, label : Label,
          state : {"FINISHED", "RUNNING", "SCHEDULED"},
          scheduledAt : {0}, startedAt : JobTimes \cup {None}, finishedAt : JobTimes \cup {None},
          artifacts : 0..1] :
     /\ (r.state = "SCHEDULED") = (r.startedAt = None)
     /\ (r.state = "FINISHED") = (r.finishedAt # None)
     /\ r.state = "FINISHED" => r.startedAt <= r.finishedAt
     /\ r.state # "FINISHED" => r.artifacts = 0
     /\ ~r.command => r.state = "SCHEDULED"}

ExporterInit ==
  /\ jobs \in [Job -> JobRecord] /\ agents \in SUBSET Agent
  /\ scrape_pc = [s \in Scrape |-> "idle"] /\ todo = [s \in Scrape |-> {}]
  /\ metrics = [s \in Scrape |-> NoMetrics] /\ shown = [s \in Scrape |-> NoMetrics]
  /\ fetched = [s \in Scrape |-> {}]

\* *mutant*: the families are made once, and shared
collect_shared(s) ==
  /\ scrape_pc[s] = "idle" /\ scrape_pc' = [scrape_pc EXCEPT ![s] = "jobs"]
  /\ metrics' = [metrics EXCEPT ![s] = LET t == CHOOSE t \in Scrape : \A u \in Scrape :
                    Len(metrics[t]["waittime"]) >= Len(metrics[u]["waittime"])
                  IN metrics[t]]
  /\ UNCHANGED <<jobs, agents, todo, shown, fetched>>

\* collect: new families
collect(s) ==
  /\ scrape_pc[s] = "idle" /\ scrape_pc' = [scrape_pc EXCEPT ![s] = "jobs"]
  /\ metrics' = [metrics EXCEPT ![s] = NoMetrics]
  /\ UNCHANGED <<jobs, agents, todo, shown, fetched>>

\* The keys of the steps of recent builds; a step without one counts as "pipeline".
list_pipeline_stepkeys == {IF jobs[j].key = NoKey THEN "pipeline" ELSE jobs[j].key : j \in Job}

\* The query of collect_job_data, for the jobs of these steps.
query_jobs(s) ==
  /\ scrape_pc[s] = "jobs" /\ scrape_pc' = [scrape_pc EXCEPT ![s] = "job"]
  /\ LET found == {j \in Job : jobs[j].key \in list_pipeline_stepkeys}
     IN  /\ todo' = [todo EXCEPT ![s] = found]
         /\ fetched' = [fetched EXCEPT ![s] = {<<j, jobs[j]>> : j \in found}]
  /\ UNCHANGED <<jobs, agents, metrics, shown>>

\* Either query may fail, and the scrape with it.
execute_qlquery_raises(s) ==
  /\ scrape_pc[s] = "jobs" \/ (scrape_pc[s] = "job" /\ todo[s] = {})
  /\ scrape_pc' = [scrape_pc EXCEPT ![s] = "failed"]
  /\ UNCHANGED <<jobs, agents, todo, metrics, shown, fetched>>

Sample(label, value) == [label |-> label, value |-> value]
Add(m, family, samples) == [m EXCEPT ![family] = @ \o samples]

\* (b - a).seconds
Seconds(b, a) == (b - a) % Day

\* The samples of a job.  The time an unstarted job has waited is that till now.
finished_job(m, r) ==
  Add(Add(Add(Add(m, "runtime", <<Sample(r.label, Seconds(r.finishedAt, r.startedAt))>>),
              "waittime", <<Sample(r.label, Seconds(r.startedAt, r.scheduledAt))>>),
          "exit_status", <<Sample(r.label, 1)>>),
      "artifact_size", [a \in 1..r.artifacts |-> Sample(r.label, a)])

unfinished_job(m, r, now) ==
  Add(Add(m, "status", <<Sample(r.label, 1)>>),
      "waittime", <<Sample(r.label, Seconds(IF r.startedAt # None THEN r.startedAt ELSE now, r.scheduledAt))>>)

\* collect_job_data: the next job
add_job(s) ==
  /\ scrape_pc[s] = "job"
  /\ \E j \in todo[s] : \E r \in {x[2] : x \in {y \in fetched[s] : y[1] = j}} :
       /\ r.command
       /\ todo' = [todo EXCEPT ![s] = @ \ {j}]
       /\ metrics' = [metrics EXCEPT ![s] = IF r.state = "FINISHED" THEN finished_job(@, r)
                                            ELSE unfinished_job(@, r, Max(JobTimes))]
  /\ UNCHANGED <<jobs, agents, scrape_pc, shown, fetched>>

\* A job with no scheduledAt: KeyError, and the scrape fails.
add_job_raises(s) ==
  /\ scrape_pc[s] = "job"
  /\ \E j \in todo[s] : \E x \in fetched[s] : x[1] = j /\ ~x[2].command
  /\ scrape_pc' = [scrape_pc EXCEPT ![s] = "failed"]
  /\ UNCHANGED <<jobs, agents, todo, metrics, shown, fetched>>

\* collect_agent_data: the limit of its query is MAX_ARTIFACTS_COUNT
collect_agent_data(s) ==
  /\ scrape_pc[s] = "job" /\ todo[s] = {} /\ scrape_pc' = [scrape_pc EXCEPT ![s] = "yield"]
  /\ \E first \in SUBSET agents :
       /\ Cardinality(first) = Min({MAX_ARTIFACTS_COUNT, Cardinality(agents)})
       /\ metrics' = [metrics EXCEPT ![s] = Add(@, "total_count", SetToSeq({Sample(a, 1) : a \in first}))]
  /\ UNCHANGED <<jobs, agents, todo, shown, fetched>>

\* The families are yielded to the registry.
Yield(s) ==
  /\ scrape_pc[s] = "yield" /\ scrape_pc' = [scrape_pc EXCEPT ![s] = "done"]
  /\ shown' = [shown EXCEPT ![s] = metrics[s]]
  /\ UNCHANGED <<jobs, agents, todo, metrics, fetched>>

\* A job goes on while scrapes look.
JobFinishes ==
  /\ \E j \in Job : \E t \in JobTimes :
       /\ jobs[j].state = "RUNNING" /\ t >= jobs[j].startedAt
       /\ jobs' = [jobs EXCEPT ![j].state = "FINISHED", ![j].finishedAt = t]
  /\ UNCHANGED <<agents, scrape_pc, todo, metrics, shown, fetched>>

ExporterNext ==
  \/ \E s \in Scrape : \/ collect(s) \/ query_jobs(s) \/ add_job(s) \/ add_job_raises(s)
                       \/ collect_agent_data(s) \/ Yield(s) \/ execute_qlquery_raises(s)
  \/ JobFinishes

ExporterSpec == ExporterInit /\ [][ExporterNext]_exporterVars

-----------------------------------------------------------------------------
Finished(s) == {x \in fetched[s] : x[2].state = "FINISHED"}

\* What a scrape shows is of one look at the pipeline, however scrapes overlap
\* and jobs go on: every job it fetched is counted once, as finished or as not.
EachJobOnce ==
  \A s \in Scrape : scrape_pc[s] = "done" =>
    /\ Len(shown[s]["waittime"]) = Cardinality(fetched[s])
    /\ Len(shown[s]["runtime"]) = Cardinality(Finished(s))
    /\ Len(shown[s]["exit_status"]) = Cardinality(Finished(s))
    /\ Len(shown[s]["status"]) = Cardinality(fetched[s]) - Cardinality(Finished(s))

\* A scrape shows everything or nothing: one that fails on a job shows neither
\* the jobs before it nor the agents.
AllOrNothing ==
  \A s \in Scrape :
    /\ shown[s] # NoMetrics => scrape_pc[s] = "done" /\ todo[s] = {}
    /\ scrape_pc[s] = "done" => \A x \in fetched[s] : x[2].command

\* A scrape shows one look at the pipeline, whole or not at all.
ScrapeIsOneLook == EachJobOnce /\ AllOrNothing
=============================================================================
