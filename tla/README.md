# A Mina node's transition frontier and the tools around a network, in TLA+

A Mina daemon keeps the recent part of the block chain in its *transition
frontier*: a tree of blocks ("breadcrumbs") below a root, with a pointer to the
best tip.  The frontier lives in memory, is copied to a RocksDB database through
a buffer, and rests on a snarked ledger and a root identifier on disk.  This
project models that part of the daemon, from the tree in memory to the files a
crash leaves behind, checks it with TLC and proves its core with TLAPS.

Around the daemons of a test network run the repository's Python programs: they
stop and start daemons, watch the network, report on it, hand out funds, clean
up the clusters and make genesis ledgers.  They are small, but they poll moving
targets, keep state across failures and are hardly tested.  The second part of
the project models them, one module a program.

Paths of the first part are relative to `src/src/lib/`, those of the second to
`src/`.

## 1. Inventory

### The daemon

| Component | State | Operations | What is hard | What makes it correct |
|---|---|---|---|---|
| Full frontier (`transition_frontier/full_frontier/`) | table of nodes (successors, length), root, best tip, protocol states of the root's scan state | create, calculate_diffs, apply_diffs, move_root, path and ancestor queries | cutting forks of any shape, the order of lookups and removals inside one root move, off-by-one at max_length | a tree of bounded depth, the best tip in it and best, no lookup raises, only forks are dropped |
| Diff buffer, sync (`transition_frontier/persistent_frontier/{diff_buffer,sync}.ml`) | buffer, flush job, closed flag | write, flush, close_and_finish_copy | notifications between the worker's end and the flush job's continuation; a close during a flush; overflow | every diff applied once and in order; a full buffer is flushed; a close leaves nothing |
| Worker and supervisor (`worker.ml`, `otp_lib/worker_supervisor.ml`) | work in progress, the supervisor's `thread` | perform, dispatch, close | the busy check is inverted | one batch at a time |
| Frontier database (`persistent_frontier/database.ml`) | root, best tip, arcs, transitions, protocol states | initialize, add, move_root, set_best_tip, check, crawl | crashes between batches | a tree at every crash point |
| Persistent frontier (`persistent_frontier.ml`) | the instance and its sync | fast_forward, load_full_frontier, reset_database | a database that lags behind the root | a loaded frontier is sound |
| Persistent root (`transition_frontier/persistent_root/`) | snarked ledger, checkpoints and their list, root identifier | enqueue, dequeue, load_from_disk, set_root_identifier, reset_to_genesis | two actors on the queue of checkpoints; files rewritten in place | the ledger of the database's root is always among them |
| Transition frontier (`transition_frontier/transition_frontier.ml`) | the above together | load, close, add_breadcrumb | the order of in-memory and on-disk effects | it always runs again |
| Transition router (`transition_router/`) | which controller runs, pipes | initialize, run | two bootstraps at once; writes to closed pipes | exactly one controller |
| Bootstrap controller (`bootstrap_controller/`) | current root, best seen, synced ledger | sync loop, root download, load | the root moves while its ledger syncs | the ledger loaded is the root's |
| Transition handler (`transition_handler/`) | unprocessed cache, catchup scheduler's timers | validate, process, schedule catchup | a block that arrives while its parent is caught up | no block is lost or processed twice |
| Catchup (`ledger_catchup/`, `full_catchup_tree.ml`) | tree of jobs | download, verify, build, retry | failures in the middle of a chain | every job ends or is retried |
| Frontier extensions (`transition_frontier/extensions/`) | root history, reference counts, best-tip diffs | handle_diffs | counts across root moves | they equal a recount |
| Consensus (`consensus/`) | local epoch ledgers | select, min-window density, root transition hook | long-range forks | selection is a strict order on short forks |
| Pools (`network_pool/`, `work_selector/`) | indexed pool, snark pool, in-flight work | add, replace, evict, remove | eviction cascades | indices agree with one another |
| Staged ledger and scan (`staged_ledger/`, `parallel_scan/`) | trees of jobs | update, free space | sizes at the boundary | jobs are completed in order |
| Ledgers (`merkle_mask/`, `syncable_ledger/`) | masks and their parents | register, commit, remove_and_reparent | the order of unregistering | no orphan mask |
| Pipes, caches (`pipe_lib/`, `cache_lib/`) | buffers | write, close, kill | overflow policy, close during a write | no lost item unless the policy says so |
| Block producer, trust system, networking, archive, Rosetta, proofs | | | timing, I/O, cryptography | |

How these interact: the router loads the frontier (`load_frontier`) or starts the
bootstrap controller, which writes a new root to the disk and loads from it.
The processor hands every new block to `add_breadcrumb_exn`, which computes the
diffs, applies them in memory, writes the snarked ledger and the root identifier
at once and *notifies* the buffer; the flush job passes batches to the worker,
which applies them to the database and drops checkpoints.  Everything runs in
one Async scheduler: a job is never interrupted, but between two jobs anything
may happen, and a crash may strike between any two writes.

### The tools around a network

| Program | State | Steps | What is hard | What makes it correct |
|---|---|---|---|---|
| Daemon puppeteer (`dockerfiles/puppeteer-context/`) | two request flags, the daemon's process, daemon-active | inactive and active loop, signal handlers, start.sh, stop.sh | a handler may run between any two steps | never two daemons; the file tells the truth; a request is heeded |
| Faucet bot (`automation/services/faucet/`) | active requests, counters, pending reactions | on_message in a coroutine a request, thread pool | calls that raise with the payment made | paid once, and only if approved or over whose check a stranger's reaction raised; nobody locked out |
| Sidecar (`automation/services/mina-bp-stats/sidecar/`) | the height to upload next | wait for sync, fetch, upload, start over | the node moves between two requests | only finalized blocks, and uploads go on |
| User agent (`automation/services/coda-user-agent/`) | recipient, counters | batches of payments on a schedule | answers that are lost | counters bound the payments |
| Watchdog (`automation/services/watchdog/{watchdog,util,metrics,node_status_metrics}.py`) | timers, gauges, the error counter | periodic checks in one event loop | a check that raises or blocks; output cut in chunks | each check goes on, in its turn; a stale gauge of the network is accounted for |
| Network report (`.../watchdog/{make_report.py,main.sh}`) | the files of earlier reports | crawl, fork tree, windows, post, loop | a failure at any step, files left behind | forks found, none invented; windows exact; reports go on |
| Janitors (`.../watchdog/scripts/network-utilities.py`) | listings of clusters and ports, kubectl's configuration | list, filter, delete or write back | a cluster that changes meanwhile, kubectl switched by the other command, commands that fail | only what is old or unused goes |
| Buildkite exporter (`automation/services/buildkite/`) | the samples of a scrape | queries, a sample a job | scrapes that overlap, queries that fail | one look at the pipeline, whole or not at all |
| Best tips and visualisation (`automation/scripts/testnet-validation/`) | a trie of block objects with an index by hash | threads with port-forwards and retries, insert, insertLink, draw | links out of order, retries inside retries | the graph is that of the chains; a process is left only by a call that raises |
| Genesis ledger (`scripts/generate-local-network-ledger.py`) | keys read so far, accounts | load, append, write | directories with any number of keys, rows that repeat one | delegates have accounts, each key that is read once has one |

These programs meet the daemon only through its command line, its GraphQL
endpoint and signals; what it answers is nondeterministic in their modules
(actions marked external).  They share no state with one another except that the
report and the watchdog use `exec_on_pod`, the two scripts on best tips the trie,
and the two clean-up commands the configuration of kubectl, if they run in one
place.

`PROJECT.json` lists every component with what is modelled, and the hazards with
the properties that cover them.

## 2. Modules

| Module | Models | Depends on |
|---|---|---|
| `Blocks` | the universe of blocks: parent, height, ancestors, chain selection, emitted proofs, protocol states, as constants with named assumptions | |
| `FrontierTree` | `full_frontier.ml` as operators on a frontier: nodes, diffs, root moves | `Blocks` |
| `FullFrontier` | the frontier in memory and what `add_breadcrumb_exn` does to it | `FrontierTree` |
| `FrontierQueries` | the recursive queries, as recursive functions | `FullFrontier` |
| `NumberLemmas` | least and greatest numbers, induction, functions defined by recursion, pieces of sequences: what the other proofs share | |
| `FrontierTreeProofs`, `FullFrontierProofs` | lemmas about the operators, theorems about `FullFrontier` and `FrontierQueries` | `NumberLemmas` |
| `DiffLog` | the abstract promise of the synchronisation: a log applied once and in order | |
| `DiffBuffer` | buffer, flush job, supervisor, worker and close, one step per wait on a deferred | `DiffLog` |
| `DiffBufferProofs` | theorems about `DiffBuffer`, the refinement included | |
| `WorkerSupervisor` | the supervisor alone, with any dispatcher | |
| `TransitionFrontier` | everything together with the disk: load, reset, bootstrap, run, close, crash | `FrontierTree`, an instance of `FullFrontier` |
| `TransitionFrontierProofs` | theorems about `TransitionFrontier` | `FrontierTreeProofs` |
| `MCFullFrontier`, `MCTransitionFrontier` | small universes of blocks for TLC | |
| `Puppeteer` | `mina_daemon_puppeteer.py`, start.sh, stop.sh | |
| `Faucet` | `tiny.py`, `faucet.py` | |
| `Sidecar` | `sidecar.py` and the node it polls | |
| `UserAgent` | `agent.py` and the daemon it calls | |
| `WatchdogLoop` | `watchdog.py`, `run_periodically` | |
| `ExecOnPod` | `exec_on_pod`, and `exec_on_seed`, which does not compare lengths | |
| `ClusterMetrics` | `metrics.py` and the cluster | |
| `TestnetNodes` | the nodes and the seeds they are asked through, for the next modules | |
| `NodeStatus` | `node_status_metrics.py` | `TestnetNodes` |
| `ForkTree` | the block tree of `make_report.py` | |
| `NetworkReport` | the rest of `make_report.py`, main.sh | `TestnetNodes` |
| `Kubectl` | the configuration of kubectl that both commands switch | |
| `NamespaceJanitor`, `PortJanitor` | the two clean-up commands of `network-utilities.py` | `Kubectl` |
| `NetworkUtilities` | the two together, with one configuration of kubectl | `NamespaceJanitor`, `PortJanitor` |
| `BuildkiteExporter` | `exporter.py` | |
| `BestTipTrie` | `best_tip_trie.py`, as operators on a heap of objects | |
| `CompareBestTip`, `BlockVisualizer` | `compare_best_tip.py`, `rebroadcasted_blocks_vis.py` | `BestTipTrie` |
| `TestnetDrawings` | the two together | `CompareBestTip`, `BlockVisualizer` |
| `GenesisLedger` | `generate-local-network-ledger.py` | |
| `ServiceProofs` | theorems about `Puppeteer`, `Faucet`, `Sidecar`, `UserAgent` and `WatchdogLoop` | |
| `WatchdogProofs` | theorems about `ClusterMetrics`, `NodeStatus`, `NetworkReport`, `ExecOnPod` and `ForkTree` | `NumberLemmas` |
| `ScriptProofs` | theorems about `NetworkUtilities`, `BuildkiteExporter`, `GenesisLedger` and `TestnetDrawings` | `NumberLemmas` |
| `MCServices` | the long-running programs together | `Puppeteer`, `Faucet`, `Sidecar`, `UserAgent`, `WatchdogLoop` |
| `MCWatchdogChecks` | the watchdog's checks and the report together | `ClusterMetrics`, `NodeStatus`, `ForkTree`, `NetworkReport`, `ExecOnPod` |
| `MCScripts` | the programs run by hand or on a schedule together | `GenesisLedger`, `TestnetDrawings`, `NetworkUtilities`, `BuildkiteExporter` |

### Correspondence with the code

*Blocks.*  A block is its state hash.  What the frontier asks of it (its parent,
its length, whether its staged ledger emitted a proof, which protocol states its
scan state refers to) does not change, so these are constants.  `Take` is the
verdict of `Consensus.Hooks.select`; `SelectAssumption` says what `select` does
on a short-range fork: longer first, then a strict order (VRF output, state
hash).  The assumption is the one the frontier's own code needs, see section 6.

*FullFrontier.*  The record `frontier` is the type `t` of `full_frontier.ml`;
`successor_hashes` and `length` are the fields of its nodes.  `add_breadcrumb_exn`
is one action because it runs in one job: it computes the diffs (New_node,
Root_transitioned, Best_tip_changed, in the order of the code) and applies them.
`LookupsSucceed` collects the conditions under which `find_exn`, `hd_exn` and
`add_exn` raise, each at the moment of the lookup: the transactions of an emitted
proof are applied when garbage and old root have left the table and before the
protocol states are replaced.

*TransitionFrontier.*  `disk` is what survives a crash.  A job computes its
effect in memory at once and leaves its writes in `script`; `WriteStep` makes one
of them, and only `Crash` may come between.  Files that the code rewrites in
place (`set_root_identifier`, the JSON list of checkpoints) pass through `Torn`,
ledgers that are overwritten through `Dirty`.  The value of a checkpoint file is
the ledger it holds; a listed checkpoint whose directory was removed counts as
`Dirty`, because opening it creates an empty ledger.  `phase` follows
`load_with_max_length`: "check" (the database is checked, reset or destroyed),
"continue" (`load_from_disk`), "start" (`load_from_persistence_and_start`), then
"running", "closing" (the router has closed the frontier), "bootstrap" and
"failed" (an exception ended the daemon).  `caller` tells the first load of a
daemon, which may retry with a fresh database, from the retry and from the load
that ends a bootstrap, whose every error is an exception.  An uninitialized, an
outdated and a foreign database are treated alike by the code and are one case.
Reading a truncated root identifier raises or yields the hash of no block; the
model allows both.  Two branches are left out: that of `load_from_disk` in which
copying a ledger fails (`Ledger_transfer failed`), which goes on like the one in which
no checkpoint matches, and the reset after `Failure` in `load_with_max_length`: of the
failures that lead there the model has only a missing best tip, and
`OnlyExpectedFailures` shows that there is none.

*DiffBuffer.*  Here every wait is a step: the worker's last diff, the moment its
deferred is determined, the supervisor's callback and the flush job's next look
at the buffer.  `TransitionFrontier` takes the last three as one step.

*The tools.*  An action is a stretch of code between two points at which something
else may happen: an await of a coroutine, a system call or a query, a bytecode at
which a signal handler may run.  `..._pc` or `stage` names those points.  A call
that may raise has an action for it where what the handlers and `finally` clauses
around it do, or what was done before it, can be seen by a property; an exception
that ends a program before it has done anything is left out.

* `Puppeteer`: signals are delivered at any `puppeteer_pc`; `sigtimedwait` may swallow one
  without its handler, `pause` returns on any.  The shell scripts run one at a
  time, as the test framework runs them.
* `Faucet`: a stage of a request is an await of `on_message`.  `wait_for('reaction_add')`
  hears the reactions of every channel; one of a `Stranger`, a user without roles as
  in a direct message, makes the check of every request that waits for approval
  raise, and their approval tasks are done.
* `Sidecar`: `fellBack` remembers that the node's chain got shorter since the
  height was computed; the model only reads it in properties.  Any request may fail,
  with the block served or not, and none need end.
* `WatchdogLoop`: `due` is the event loop's queue of the checks whose time has come;
  `passed` is a history of who was called since a check became due.
* `ClusterMetrics`: each of the checks has its own list of container names.  The log
  that is read is that of a container's current run: `silent` is the age of the last line
  of any of its runs, and `logged` says whether the current one wrote it.
* `ExecOnPod`: a byte knows its character; decoding a frame that cuts a character
  gives replacement characters, whose encoding is three bytes long.  An exec returns
  without an error when its time is up: the file may be measured while it is being
  written, and a chunk may come back short.  `compares` tells `exec_on_pod` from
  `exec_on_seed`.
* `NodeStatus`: `set_in` tells in which round a group of gauges was set; the last
  protocol states of a tip are the ends of the paths that lead up from it.
  `by_seed` are the gauges of a seed, which keep their values when the seed fails;
  an answer may raise a KeyError after some of them were set.
* `NetworkReport`: `UptimeList` takes the lists of uptimes below 10 and below 30 as one.
* The janitors: `current` is the cluster kubectl acts on.  Commands with a
  configuration each, as the cron jobs of the cluster have them, are the behaviours
  in which the other one rests.  `switched`, `astray` and `recreated` are histories for
  the properties (and the bound on what is made again); `emptied` holds the namespaces between `delete all` and
  `delete ns`.
* `BuildkiteExporter`: the samples of a metric are a sequence, in which a job that is
  counted twice shows.
* `GenesisLedger`: the csv is read row by row; a row may hold any key of `RowKey`,
  repeated or from a directory.  Keys in different files are different.
* `CompareBestTip`: `forwards` are the port-forwards that run, those of calls that
  ended included.
* `BestTipTrie`: a Python object is an index of `nodes`; `blocks` maps a hash to an
  object, and two objects may carry the same hash, as they do in the code.
* `BlockVisualizer`: one module for two commands, told apart by `vis_pc`.
* `ForkTree`: the while loop of `add_to_summarized_tree` is a recursive function of the
  number of its turns; the recursion over the children is the set `todo`.

Except for the two clean-up commands, which are composed and run together, the
programs share no variable, so a behaviour of several is a shuffle of one of each,
and what holds of each alone holds of all.  The three `MC` modules compose
them in that form: a variable names the program that runs, chosen at the start,
and the others stay in a fixed initial state.  `MCServices` states the fairness
of each service for the one that runs (`Runs`): the same actions as the
`...Fairness` of its module, which TLC cannot take with a guard around it.

Definitions whose comment says *mutant* are faulty variants of the definition
that follows them.  No specification uses them; they are there to show that the
properties notice such faults.

## 3. Runs

| Run | Bounds | Checks |
|---|---|---|
| `full_frontier` | 17 blocks: all forks to length 3 and a chain to length 5; max_length 2; any root | type, tree, depth, best tip, no raise, where the root moves, what is dropped, and the four recursive queries (`QueriesMatchReference`) |
| `frontier_path_comment` (violation) | same | the comment on the frontier's type |
| `transition_frontier` | 11 blocks, max_length 2, flush capacity 2 (so overflow at 9), two crashes | the eight safety properties below |
| `transition_frontier_liveness` | 11 blocks, max_length 1, flush capacity 2, one crash | `EventuallyRuns`, `CloseFinishes` |
| `root_identifier_written` (violation) | one crash | the message "should have been written already" |
| `mismatch_resets` (violation) | one crash | the comment on `load_from_disk` |
| `diff_buffer` | two diffs, batches of up to 2, flush capacity 2, 11 diffs in all (2 with the worker and 9 in the buffer: an overflow) | five safety properties, two liveness properties, refinement of `DiffLog` |
| `worker_supervisor` (violation) | two pieces of work | "prevents parallel dispatching" |
| `services` | puppeteer: three commands, two children; faucet: two requests of two users, one of them an approver, a stranger, one worker, one block; sidecar: threshold 2, k 4, chains to length 7; agent: batches of 2, 5 attempts; watchdog: three checks with the ratios of the real periods | `DaemonFileIsTrue`, `FaucetKeepsAccounts`, `FinalizedUnlessNodeFellBack`, `CountersBoundPayments`, `TakenInTurn`, and `ServicesGoOn` for the liveness of all five |
| `watchdog_checks` | cluster: three pods with containers that different checks look for, one of them restarted, ages to 2; status: two nodes, two seeds, two chains, one of them too short, two rounds; tree: a forked chain; report: three reports, two faults; exec: outputs of up to 5 characters of 1 or 2 bytes, chunks of 3 bytes | `AlarmsAreReal`, `StatusGaugesAgree`, `ForkReportIsRight`, `ReportIsConsistent`, `OutputIsIntactOrReported` |
| `scripts` | ledger: up to 3 keys a directory, csv of up to 3 rows, each with a key of its own, a whale's or none, 2 decimals; best tips: three pods, two workers; logs: five (three) entries of four blocks and two nodes; janitors: two clusters with two namespaces of the same names, two patterns, one namespace made again, two zones, two ports, one deployment, both commands at work; exporter: two scrapes, two jobs, two agents | `LedgerIsClosed`, `DrawingsMatchInputs`, `CleanupIsExact`, `ScrapeIsOneLook` |
| `puppeteer_stop` (violation) | two commands, one child | the header of the script on SIGUSR1 |

What `transition_frontier` shows:

* `DatabaseReplaysToFrontier`: database, worker's diffs and buffer, replayed in
  this order, always make the frontier in memory.
* `LedgersMatchRoots`: the snarked ledger and the identifier belong to the
  frontier's root, and the oldest checkpoint to the database's, however far the
  database lags behind.
* `DatabaseIsTree`, `LoadedFrontierIsSound`: whatever a crash leaves in the
  database is a tree, and what is loaded from it is a sound frontier of at most
  max_length blocks, although the database itself is for a while one block
  deeper.  The comparison of the root identifier in `fast_forward` is what
  rejects those states.
* `RunningStepsAreFrontierSteps`: from then on it takes only steps of
  `FullFrontier`, and no lookup raises.  The loaded best tip may be stale (a crash
  between New_node and Best_tip_changed); it never stops the root from moving
  along the best chain.
* `CleanCloseLosesNothing`: after a close the disk holds the whole frontier.
* `OnlyExpectedFailures`: the daemon never dies of a diff that cannot be applied,
  a missing best tip, a malformed database after the retry, or a bootstrap that
  leaves a disk that needs a bootstrap.

What the runs on the tools show, program by program:

* `DaemonFileIsTrue`: the puppeteer never enters inactive_loop, from which it starts
  a daemon, beside a living one, and no daemon runs without daemon-active except
  inside start_daemon.
* `FaucetKeepsAccounts`: the users tracked are those with a request under way, no
  user has two, funds go once and only to a request that an approver approved or that
  waited when a stranger's reaction made its check raise, and the counter never
  exceeds the payments.
* `FinalizedUnlessNodeFellBack`: the sidecar uploads what is a threshold below the tip,
  unless the node's chain became shorter in between.
* `CountersBoundPayments`: what the agent counts as sent was taken, and what was taken
  is counted as sent or as an error.
* `TakenInTurn`: while a check waits for its turn no other is called twice, however
  long the checks take.
* `ServicesGoOn`: a stop that began ends and a noted start is served; an approved or
  cancelled request ends; a sidecar whose node stays synced asks again and again for
  a block that is served; batches and checks go on whatever fails.  That calls
  outside come to an end, with an answer or an exception, is a hypothesis of each of
  its parts, since they have no time limit.
* `AlarmsAreReal`: a container counted as crashed was restarted within the half hour,
  a pod counted as silent wrote nothing for an hour or was started within it, and the
  seed check is quiet only when nobody could tell the chain id.
* `StatusGaugesAgree`: the gauges of the status check agree with one another, one of
  an earlier round is accounted for by a counted exception, and those of a seed fit
  the ones of the same round for the network.
* `ForkReportIsRight`, `ReportIsConsistent`: no fork is invented on one chain or missed
  on chains that meet, the summary keeps every block, the windows hold who answered
  in them, and the message fits.
* `OutputIsIntactOrReported`: what `exec_on_pod` returns without a warning is what the
  pod had printed when the file was measured, all of it if the command had ended,
  unless a chunk came back short and replacement characters make up its length.
  Of `exec_on_seed`, which compares nothing, only that ASCII arrives if no chunk came
  back short.
* `LedgerIsClosed`: every delegate has an account, every key that is read once has one,
  every staker has funds, and amounts are encoded exactly.
* `DrawingsMatchInputs`: the graphs are those of the chains and the log entries, the
  trie stays a tree, and a port-forward is left behind only by a call that ends with
  an exception.  Of best tips this is
  claimed for chains that begin at the same block: of `insert` the code itself says
  that it "should not assume chain begins at the root".
* `CleanupIsExact`: whatever command fails, what is emptied or deleted is a target in
  its cluster, or was made again after the listing; at most the namespace at which
  the command gave up is left half deleted, and none is left over when it ends well;
  the mappings that go are unused, or became used after the ports were collected, and
  those written back are in use.  All this as long as the other command has not
  switched kubectl meanwhile.
* `ScrapeIsOneLook`: every job appears once, from one look at the pipeline, or the
  scrape yields nothing.

The violations, with the lines they contradict, are the `findings` of
`PROJECT.json`:

1. a path of max_length + 1 blocks, against "inclusively, will be max_length";
2. a crash inside `reset_to_genesis_exn` leaves a disk without a root identifier
   on which every later start raises;
3. a ledger mismatch leads to a bootstrap and not to a reset to genesis;
4. the supervisor's `is_working` is the negation of what it should be;
5. puppeteer: a stop whose handler runs just before `pause()` is noted and never
   seen: the daemon goes on and stop.sh polls for ever.

Reading the tools to model them also showed where they differ from what they say.
The models do as the code does; the runs make no claim about these:

* puppeteer: a start noted while the daemon runs undoes the next stop; children
  forked after the listing survive a "full" stop;
* faucet: two payments in a block; a payment whose report fails is not counted; one
  reaction in a direct message pays every waiting request, although the help text
  says that a mod has to approve (`tiny.py:118`);
* sidecar: after a restart of the node with a shorter chain an unfinalized block is
  uploaded;
* user agent: a refused unlock is in neither counter;
* watchdog: a crash after half an hour of running is never counted; silence is
  measured over an hour, not ten minutes, and a pod that has just been restarted
  counts as silent; a node two seeds cannot reach counts twice (`watchdog.py:43`);
  the gauges of a seed that fails keep their values uncounted (`watchdog.py:34`); an
  exec that times out returns what it has, although the comment at `util.py:36` speaks
  of a result that "makes it over safely", and `exec_on_seed` never compares lengths;
* report: a syncing node raises the fork warning; the uptime lists mix minutes and
  seconds; a failure to post the error ends the loop; a torn file makes all later
  reports fail;
* genesis ledger: the wrong count is tested; the remainder gets no account; the
  annotated file is the plain one; a key that the csv repeats gets two accounts;
* best tips: a slow port-forward is left running and ends the script with a NameError; a late parent
  leaves its child below the root as well; the delay is drawn without its seconds;
* janitors: a namespace that two patterns match ends the command; one that was made
  again after the listing is deleted though it is young, against the threshold at
  `network-utilities.py:136`; one command switches kubectl under the other; a fresh
  port mapping may be removed;
* exporter: runtimes lose whole days, counts are samples of 1, the agents' limit is
  the artifacts'.

*Why the bounds are enough.*  Two crashes let a recovery itself be interrupted.
Eleven blocks with max_length 2 give two root moves with a proof each, both of
which may wait in the buffer, a fork that is dropped with a descendant, and a
best tip that changes its fork.  With flush capacity 2 the buffer holds a diff
when no flush is under way, which capacity 1 excludes.

For the tools the bounds are the smallest at which two of everything meet: two
requests and one worker, two seeds that know one node, two patterns that match one
namespace, two scrapes of one pipeline.  Ages are cut off one above the largest
window, so "older" is still told apart.  A chunk of 3 bytes puts two-byte
characters on both sides of a boundary and across it.  Numbers to encode lie
around every power of ten up to one digit more than the decimals.

*Deadlock* is checked in `transition_frontier` and in its liveness run.  In the
other runs it is not: the universe of blocks is used up, and a closed
synchronisation is at its end.

*Fairness.*  Weak fairness of `WriteStep`, `Load` and `Persist` (of `Copy` and
`Close` in `DiffBuffer`): the Async scheduler runs every job that is ready, and
these need nothing from outside.  Weak fairness of `Restart`: daemons are run
under a supervisor.  Strong fairness of a bootstrap that succeeds: the
controller's loop has no bound and retries with new peers, so it is assumed that
one of its attempts finds them.  Nothing is assumed of `add_breadcrumb_exn`,
`close` and `Crash`.

Of the tools: the interpreter runs a script that waits for nobody (weak fairness of
`Script` and `sh_returns`, of a request's steps except while it pays, of the sidecar's
`wake`, of `Agent` outside its calls, of the watchdog's `Tick` and `calls`).  A daemon
obeys SIGTERM and its children end after it.  Whether calls of other programs end,
and how, is left open: where a property needs that they end it says so.  That
asyncio takes coroutines in the order in which they became ready is no fairness
but the queue `due` of the model.  Nothing is assumed of users, approvers, crashes,
deployments or the order of answers.

## 4. Proofs

Eight modules hold theorems, each for every value of the constants that meets
the named assumptions of its module.

*The full frontier.*  `FullFrontierProofs` proves, for every universe of blocks that
satisfies the assumptions of `Blocks` and every positive max_length, that the full
frontier keeps its type, stays a tree, stays short, keeps its best tip best, never
raises, moves its root only along the best chain, drops only forks, and answers
the recursive queries rightly: all properties of the `full_frontier` run.

The invariant that is inductive is `Inductive`.  The tree alone is not: which
subtrees a root move cuts is known only if successors list exactly the children;
the depth rests on the stored lengths agreeing with blockchain lengths up to the
root's; that the best tip survives a root move rests on its depth, because a
block that moves the root is longer than any other and so is taken; and that no
lookup raises rests on the protocol states being those of the root.  What does not
speak of a behaviour is in `FrontierTreeProofs`: there the lemmas about
`successors_rec` show by the closure that defines it, and by `DescentAssumption` for
the ancestors, that the garbage is exactly the set of blocks that do not descend
from the heir, and that adding a breadcrumb makes a sound frontier of a sound one.
The proofs about the full frontier and those about the persistent one both rest on
them.

`QueriesAreRight` is about what four recursions compute.  A recursive function of
TLA+ is a CHOOSE, so that a proof first shows that the equation has a solution:
`Recursion` of `NumberLemmas` does it for a step function on the natural numbers, and
`NatAll` is induction with a set in place of a predicate.  Paths and ancestors then
climb in step with `Anc`, and the longest fork is the greatest distance of a
descendant.  A climb ends at the root, after no more turns than the block is high.

*The transition frontier.*  `TransitionFrontierProofs` proves all eight properties of
the `transition_frontier` run, for every universe of blocks, every max_length, every
flush capacity and any number of crashes at any point.  `MarkAssumption` says that
the marks for a missing, a torn and a dirty file are no block, database or list of
checkpoints.  The inductive invariant is `Inductive`, with four parts:

* `CrashSafe(disk, script, Settled)`: every prefix of the writes a job has still to make
  leaves a disk that can be started from (`DiskOK`), and all of them lead to `Settled`.
  `DiskOK` says more than that the database is a tree: a database that is deeper than
  max_length is never one that `fast_forward` takes for up to date, because the root
  identifier was written before the database learnt of the move.
* `LoadInv`: what each phase of a load has established, for each caller; the disk a
  bootstrap leaves needs no bootstrap.
* `RunInv`: the frontier in memory is sound and short, ledger and identifier are its
  root's, and `Reach`: the diffs not yet applied lead the database to the frontier, one
  by one, through databases that are themselves trees and whose root's ledger is the
  checkpoint at the head of what is left of the queue.  This is what ties the worker,
  which drops checkpoints, to the frontier, which adds them; neither
  `DatabaseReplaysToFrontier` nor `LedgersMatchRoots` is inductive without it.
* types, and that a failure is one of those `OnlyExpectedFailures` allows.

`Reach` speaks of sequences of any length.  Where its lemmas need an induction
(`ReachReplay` for `Replay`, prefixes for `CrashSafe`), they take the least index at
which the claim fails (`NatLeast`), since the induction theorems of the library have
operators for parameters.  `FrontierStepsOnly` shows that a running frontier takes only
steps of `FullFrontier`.

*The synchronisation.*  `DiffBufferProofs` proves, for every set of diffs and every
capacity, that batches never overlap, that a full buffer is being flushed, that a
finished close leaves nothing behind, and that the synchronisation implements
`DiffLog` under the mapping `pending <- work \o diff_array`.  The inductive invariant
adds that nothing is buffered once the close has handed over the rest.

*The services* (a section each of `ServiceProofs`).
`PuppeteerAssumption`, `FaucetAssumption`, ... name what is asked of the constants:
bounds are natural numbers, requests finitely many, periods and batches positive,
the sidecar's threshold at most k.

* Puppeteer: `DaemonFileIsTrue` for any number of commands.  What it needs
  besides itself is `StopHasTakenEffect`: the daemon is down from the moment
  stop_daemon waits for its children, and the file gone when stop_daemon is done.
  `DeliverMoves` says that a signal moves the script only out of `pause`.
* Faucet: `FaucetKeepsAccounts` for any users, requests, workers and blocks.
  `StagesAreEarned` carries the approval, or the stranger's reaction, from the moment it
  ends the approval task to the payment; the bound
  on the counter is inductive only for the paid requests that are done
  (`CountIsOfReported`).  `KeepsOpen`, `Opens` and `Closes` say how a step of one request
  changes the set of tracked users.
* Sidecar: `FinalizedUnlessNodeFellBack` for every threshold, from
  `TipIsFinalized`: while the chain has not become shorter, the height to ask for lies
  the threshold below its tip.
* User agent: `CountersBoundPayments` for every batch size, inductive with the
  counters as natural numbers.
* Watchdog loop: `TakenInTurn` for any list of checks, any periods and any time that
  a check takes.  `LoopInv` says that a check that was called and is due again stands in
  the queue behind every check that was due at the time (`Behind`), so that none of
  those sees it pass a second time.

*The watchdog's checks and the report* (`WatchdogProofs`).

* `AlarmsAreReal` for any pods, ages and windows.  It is inductive only with
  `RunsEndAfterTheyStart`: a restarted container stopped no earlier than it started,
  and `LinesOfTheRunBefore`: if the current run wrote nothing, the last line is no younger
  than the run.  That the counts are not too large is a lemma on the cardinality of the pods a
  check selects.
* `StatusGaugesAgree` for any finite set of nodes, any seeds and any list of phrases.
  `StatusInv` adds what the table may hold and that a round which sets the second group
  of gauges has set the first; `SeedsInv` bounds the gauges of a seed by the nodes asked
  so far in their round.  That the gauges of the error classes add up is shown
  by a bijection between the errors and the pairs of a class and a number.
* `ReportIsConsistent` for any windows, participants, failures and any number of
  reports.  `ReportInv` follows a report through its steps: who answered, who is online,
  that its own file is among those it reads, and the windows of all of them.  It rests
  on a public key never being the empty string, which is what a participant without a
  key has in its place.
* `OutputIsIntactOrReported` for every output of characters of one or two bytes, every
  chunk size and every place where frames, the measurement and timeouts cut it.
  `ChunksInv` says that what has been received is the decoding of what has been read,
  character by character; the encoded length of a decoding is at least the
  number of its bytes, and equal only if no character was cut, so that the comparison
  of lengths catches every damage and nothing else.
* `ForkReportIsRight` for any finite set of blocks and any chains.  `ForkTreeAssumption`
  asks that blocks have heights, which they have because a block names its parent by
  its hash.  `TreeInv` says that children point back at their parent, that only the
  last blocks of chains have no child, and that what is shown or still to do is the
  roots and the children of what is shown, and nothing else.  Each block that is shown
  stands for a run (`IsRun`); that runs are disjoint and cover the tree is shown at the
  lowest block at which they would not be, and gives a bijection between the blocks and
  the pairs of a run and a position.  The two claims about the warning then follow from
  the order of ancestors: leaves of the tree are tips of chains, and two leaves that
  one block of the summary shows are siblings.

*The scripts* (`ScriptProofs`).

* `CleanupIsExact` for any clusters, namespaces, patterns, zones and ports.  `JanitorInv`
  says of each context during which nobody else switched kubectl: once it has been dealt
  with it has no target left but what was made again (`Cleaned`); while it is at hand
  kubectl is at it, its listing is right but for what went or was made again since, and
  the loops have left no target behind (`LoopsInv`).  `PortInv`, unless the scan was led
  astray: a port in use that was not collected was deployed since, and mappings only
  grow between the reading and the writing.
* `ScrapeIsOneLook` for any jobs and any overlap of scrapes: the samples of a scrape
  count exactly the jobs it has come past, one each.
* `LedgerIsClosed` for any number of keys and rows and any number of decimals.
  `LedgerInv` says which keys the loops have come past, that no others have an account,
  and that there are no more stakers than offline fish, although the command compares
  the wrong numbers.  A key with two accounts is the key of two stakers, or of one and
  a directory (`Twice`), because every loop but that over the stakers reads keys of its
  own; `LedgerAccountsFit` are the three parts that follow from it.  The
  fourth, that balances are encoded exactly, is a fact about digits: the value of a
  sequence of digits is that of its front times a power of ten and that of its rest,
  so cutting it at the point loses nothing.
* `DrawingsMatchInputs` for any number of pods, workers, retries, chains and log entries.
  `ChainsAssumption` and `BlockVisualizerAssumption` say that a block has one parent,
  whoever tells of it, and that no block has the name of the trie's root.
  `VisualizerInv` and `CompareInv` describe the heap of objects: each object but the root
  is the child of exactly one, all can be reached from the root (`TreeTrie`), `blocks`
  names an object of each hash, and a hash that was only met as a parent has its object
  below the root, which is why the lookup of `insertLink` never fails.  The edges of the
  graph are kept equal to the links seen.  In `CompareInv` the answers that were
  inserted are those of pods that are done, so a late retry changes none of them, and
  a forward that runs is that of a call under way or of one that raised.

Only model-checked: liveness (`EventuallyRuns`, `CloseFinishes`, `CloseEnds`,
`FullBufferIsEmptied`, `ServicesGoOn`), which is out of the prover's reach.  Every
invariant and every action property of the passing runs is stated by a theorem.

What the induction over data costs: the library's induction theorems take operators,
which the provers cannot instantiate.  Recursions are therefore functions on numbers,
whose solutions `NumberLemmas` constructs, and an induction is on a set of numbers or
takes a least counterexample (`NatLeast`).

## 5. Plan

Done: `Blocks`, `FullFrontier`, `FrontierQueries`, `DiffLog`, `DiffBuffer`,
`WorkerSupervisor`, `TransitionFrontier`, the tools, and the proofs above.  Next, in
this order:

1. `TransitionRouter`: the controllers, their pipes and the race of transitions
   that each require a bootstrap; a breadcrumb that is added while the frontier
   closes.
2. `BootstrapController`: the sync loop, the root that moves during a sync and the
   collected transitions, as a refinement of `bootstrap` in `TransitionFrontier`.
3. `TransitionHandler`: validator, unprocessed cache, processor and catchup
   scheduler with its timers; then the catchup tree and super catchup's jobs.
4. `Extensions`: root history, reference counts and best-tip diffs against a
   recount of the frontier.
5. `Masks`: registration, commit and reparenting inside `move_root`.
6. Pure algorithms: the parallel scan, min-window density, the indexed pool.
7. Pipes and caches.

Theorems to come: the invariants of these modules.

## 6. Not modelled

* Cryptography, the staged ledger's contents and the verification of blocks: a
  block handed to the frontier is valid.
* The consensus local state (epoch ledger snapshots) that `move_root` notifies,
  the ledger masks of the breadcrumbs, metrics other than the longest fork.
* Long-range forks inside one frontier.  There `select` compares min-window
  densities and a longer block may be kept out; the frontier's code would then
  move its root away from its best tip.  `SelectAssumption` excludes this.
* The temporary ledger of `load_from_disk`: after a crash it is refilled with the
  same ledger.  Checkpoint directories that no list names stay on disk for ever.
* A frontier that is written to after its close (the router's business, see the
  plan).
* Of the tools: formatting, logging, pictures and configuration; sizes of artifacts;
  amounts and fees; what Kubernetes, Discord and Buildkite do inside.  The stack
  growth of the puppeteer's mutual recursion, which its comment admits.
* `scripts/node-status-crawl.py`: every peer it hears of is marked as seen before it is
  asked, so it ends after one round; nothing is left to explore.
* A kubectl that a signal kills: its status is negative, which `execute_command` takes
  for success.
* Scripts of a single pass (version comparisons, build warnings, deployment, log
  search), the notebooks, which are drafts of the visualisation, the test driver, and
  the reference of the signatures, whose arithmetic is out of a model checker's
  reach.
* The components that `PROJECT.json` marks `not_modelled`, each with its reason.
