------------------------- MODULE TransitionFrontier -------------------------
(***************************************************************************)
(* The transition frontier with its persistence: the full frontier in      *)
(* memory, the diff buffer and the worker that copy its diffs to the       *)
(* RocksDB database (persistent_frontier/), and the persistent root        *)
(* (persistent_root/): the snarked ledger, its checkpoints, and the root   *)
(* identifier.  A crash may happen between any two writes to the disk; the *)
(* daemon then loads the frontier again, resets it to genesis or           *)
(* bootstraps.                                                             *)
(*                                                                         *)
(* One Async job runs without interruption, so a job computes its whole    *)
(* effect in memory at once and leaves the writes it makes, in their       *)
(* order, in `script'; until they are done only a crash may intervene.     *)
(***************************************************************************)
EXTENDS FrontierTree, Functions

CONSTANTS
  FlushCapacity,   \* Diff_buffer.Capacity.flush
  MaxCrashes,      \* bound: crashes in a behaviour
  None,            \* nothing there
  Torn,            \* a file truncated and not written yet
  Dirty            \* a ledger that is no block's snarked ledger

ASSUME CapacityAssumption ==
  /\ FlushCapacity \in Nat \ {0}
  /\ MaxCrashes \in Nat

Checkpoints == Seq(Block \cup {Dirty})

Database ==
  [ root : Block, best_tip : Block
  , successor_hashes : UNION { [T -> SUBSET Block] : T \in SUBSET Block }
  , protocol_states : SUBSET Block ]

\* The marks are none of the values they stand in for.
ASSUME MarkAssumption ==
  /\ {None, Torn, Dirty} \cap Block = {}
  /\ None # Torn
  /\ None \notin Database
  /\ None \notin Checkpoints /\ Torn \notin Checkpoints

VARIABLES
  disk,        \* db, snarked_ledger, potential_snarked_ledgers, root_identifier
  script,      \* writes the running job has still to make
  phase,       \* what the daemon is doing
  caller,      \* who called load: "startup", "retry" or "bootstrap"
  mem,         \* the full frontier
  queue,       \* potential_snarked_ledgers of the persistent root instance
  diff_array,  \* diffs not yet handed to the worker
  dispatched,  \* diffs the worker has still to apply
  flush_job,   \* a flush job is running
  failure,     \* the exception that ended the daemon, None if there is none
  crashes

vars == <<disk, script, phase, caller, mem, queue, diff_array, dispatched,
          flush_job, failure, crashes>>

Full == INSTANCE FullFrontier WITH frontier <- mem, raised <- FALSE

-----------------------------------------------------------------------------
(* The disk.  A write replaces one of its files or makes one batch.        *)

Write(file, value) == [file |-> file, value |-> value]

\* The root identifier and the list of checkpoints are files that are
\* truncated first and filled afterwards.
set_root_identifier(r) ==
  << Write("root_identifier", Torn), Write("root_identifier", r) >>

write_potential_snarked_ledgers(q) ==
  << Write("potential_snarked_ledgers", Torn),
     Write("potential_snarked_ledgers", q) >>

\* Another ledger is written over the snarked ledger, account by account.
transfer_accounts(ledger) ==
  << Write("snarked_ledger", Dirty), Write("snarked_ledger", ledger) >>

Put(d, w) == [d EXCEPT ![w.file] = w.value]

\* One write of the running job.
WriteStep ==
  /\ script # << >>
  /\ disk' = Put(disk, Head(script))
  /\ script' = Tail(script)
  /\ UNCHANGED <<phase, caller, mem, queue, diff_array, dispatched, flush_job,
                 failure, crashes>>

-----------------------------------------------------------------------------
(* persistent_frontier/database.ml.  The arcs of a node are present exactly *)
(* when its transition is: every batch sets or removes both.               *)

initialize(r) ==
  [ root |-> r, best_tip |-> r, successor_hashes |-> [h \in {r} |-> {}]
  , protocol_states |-> Required[r] ]

Stored(db) == DOMAIN db.successor_hashes

add(db, b) ==
  IF Parent[b] \notin Stored(db) THEN db
  ELSE [db EXCEPT !.successor_hashes =
          [h \in Stored(db) \cup {b} |->
             IF h = b THEN {}
             ELSE IF h = Parent[b] THEN @[h] \cup {b} ELSE @[h]]]

\* Mutant: the garbage stays.
database_move_root_only(db, new_root, garbage) ==
  [db EXCEPT !.root = new_root, !.protocol_states = Required[new_root],
             !.successor_hashes = [h \in Stored(db) \ {db.root} |-> @[h]]]

database_move_root(db, new_root, garbage) ==
  [db EXCEPT !.root = new_root, !.protocol_states = Required[new_root],
             !.successor_hashes =
               [h \in Stored(db) \ (garbage \cup {db.root}) |-> @[h]]]

\* What the database becomes when the worker applies a diff.
apply_to_database(db, d) ==
  CASE d.type = "New_node" -> add(db, d.block)
    [] d.type = "Best_tip_changed" -> [db EXCEPT !.best_tip = d.block]
    [] d.type = "Root_transitioned" ->
         database_move_root(db, d.new_root, d.garbage)

\* The nodes crawl_successors visits.
Crawled(db) == {db.root} \cup successors_rec(db, db.root)

check(db) ==
  CASE db = None -> "Not_initialized"
    [] db # None /\ {db.root, db.best_tip} \subseteq Stored(db)
         /\ (\A h \in Crawled(db) : db.successor_hashes[h] \subseteq Stored(db))
         -> "Ok"
    [] OTHER -> "Corrupt"

\* Mutant: the protocol states are not read.
load_without_protocol_states(db) ==
  [ root |-> db.root, best_tip |-> db.best_tip
  , successor_hashes |-> [h \in Crawled(db) |-> db.successor_hashes[h]]
  , length |-> [h \in Crawled(db) |-> Height[h] - Height[db.root]]
  , protocol_states |-> {} ]

load_full_frontier(db) ==
  [ root |-> db.root, best_tip |-> db.best_tip
  , successor_hashes |-> [h \in Crawled(db) |-> db.successor_hashes[h]]
  , length |-> [h \in Crawled(db) |-> Height[h] - Height[db.root]]
  , protocol_states |-> db.protocol_states ]

reset_database_exn(r) == << Write("db", None), Write("db", initialize(r)) >>

-----------------------------------------------------------------------------
(* Starting.  The daemon starts on the disk an earlier run left behind, at  *)
(* first on an empty one.                                                   *)

EmptyDisk ==
  [ db |-> None, snarked_ledger |-> Dirty
  , potential_snarked_ledgers |-> None, root_identifier |-> None ]

Init ==
  /\ disk = EmptyDisk
  /\ script = << >> /\ phase = "check" /\ caller = "startup"
  /\ mem = None /\ queue = << >>
  /\ diff_array = << >> /\ dispatched = << >> /\ flush_job = FALSE
  /\ failure = None /\ crashes = 0

Idle(p) == phase = p /\ script = << >>

Goto(p) == phase' = p /\ UNCHANGED failure

Fail(why) == phase' = "failed" /\ failure' = why

volatile == <<mem, queue, diff_array, dispatched, flush_job>>

reset_to_genesis_exn ==
  << Write("snarked_ledger", Dirty), Write("potential_snarked_ledgers", None),
     Write("root_identifier", None) >>
  \o transfer_accounts(Genesis) \o set_root_identifier(Genesis)

\* load_with_max_length up to `continue'.  A database that was never
\* initialized is reset; a corrupt one is destroyed and the load retried
\* once, unless it is the load that ends a bootstrap.
check_database ==
  /\ Idle("check")
  /\ \/ /\ check(disk.db) = "Not_initialized"
        /\ script' = reset_database_exn(Genesis) \o reset_to_genesis_exn
        /\ Goto("continue") /\ UNCHANGED caller
     \/ /\ check(disk.db) = "Corrupt"
        /\ IF caller = "startup"
           THEN /\ script' = << Write("db", None) >>
                /\ caller' = "retry" /\ Goto("check")
           ELSE /\ Fail("persistent frontier malformed")
                /\ UNCHANGED <<script, caller>>
     \/ /\ check(disk.db) = "Ok"
        /\ Goto("continue") /\ UNCHANGED <<script, caller>>
  /\ UNCHANGED <<disk, volatile, crashes>>

\* Where a load that cannot use the disk ends: a bootstrap, unless it was a
\* bootstrap that called it.
BootstrapRequired(why) ==
  IF caller = "bootstrap" THEN Fail(why) ELSE Goto("bootstrap")

\* Every checkpoint is removed, then the list of them.
RemoveCheckpoints(q) ==
  IF q = None THEN << >>
  ELSE << Write("potential_snarked_ledgers", [i \in DOMAIN q |-> Dirty]),
          Write("potential_snarked_ledgers", None) >>

\* Persistent_root.load_from_disk: the snarked ledger becomes the checkpoint
\* that matches the root of the database, if there is one.
load_from_disk ==
  LET target == LedgerOf[disk.db.root]
      listed == disk.potential_snarked_ledgers
      found  == listed # None /\ target \in Range(listed)
  IN
  /\ Idle("continue")
  /\ \/ /\ listed = Torn
        /\ Fail("unreadable list of checkpoints") /\ UNCHANGED script
     \/ /\ listed # Torn /\ found
        /\ script' = transfer_accounts(target) \o RemoveCheckpoints(listed)
        /\ Goto("start")
     \/ /\ listed # Torn /\ ~found
        /\ script' = RemoveCheckpoints(listed)
        /\ IF disk.snarked_ledger = target THEN Goto("start")
           ELSE BootstrapRequired("snarked ledger mismatch")
  /\ UNCHANGED <<disk, caller, volatile, crashes>>

\* Mutant: the database is taken for up to date.
fast_forward_always(db, id) == id # None

\* A database whose root is not the persistent root is not fast-forwarded.
fast_forward(db, id) == id = db.root

\* load_from_persistence_and_start.  Reading a truncated root identifier
\* raises, or yields the hash of no block.
load_from_persistence_and_start ==
  LET id == disk.root_identifier IN
  /\ Idle("start")
  /\ \/ /\ id = None
        /\ Fail("no persistent root identifier found") /\ UNCHANGED mem
     \/ /\ id = Torn
        /\ Fail("unreadable root identifier") /\ UNCHANGED mem
     \/ /\ id # None /\ ~fast_forward(disk.db, id)
        /\ BootstrapRequired("bootstrap still required") /\ UNCHANGED mem
     \/ /\ fast_forward(disk.db, id)
        /\ IF disk.db.best_tip \in Crawled(disk.db)
           THEN Goto("running") /\ mem' = load_full_frontier(disk.db)
           ELSE Fail("best tip not found") /\ UNCHANGED mem
  /\ UNCHANGED <<disk, script, caller, queue, diff_array, dispatched,
                 flush_job, crashes>>

\* Mutant: the persistent root keeps its identifier.
BootstrapWrites_without_identifier(r) ==
  transfer_accounts(LedgerOf[r]) \o reset_database_exn(r)

BootstrapWrites(r) ==
  transfer_accounts(LedgerOf[r]) \o reset_database_exn(r)
  \o set_root_identifier(r)

\* Bootstrap_controller.run, as far as the disk is concerned.  The snarked
\* ledger is synced to some root's; if the rest of the root's data cannot
\* be had the loop starts again.
bootstrap(r) ==
  /\ Idle("bootstrap")
  /\ \/ /\ script' = transfer_accounts(LedgerOf[r])
        /\ UNCHANGED <<phase, caller>>
     \/ /\ script' = BootstrapWrites(r)
        /\ phase' = "check" /\ caller' = "bootstrap"
  /\ UNCHANGED <<disk, volatile, failure, crashes>>

-----------------------------------------------------------------------------
(* Running. *)

\* Mutant: a root that emitted no proof is not recorded.
RootWrites_of_proofs_only(d, q) ==
  IF d.just_emitted_a_proof
  THEN write_potential_snarked_ledgers(q)
       \o transfer_accounts(LedgerOf[d.new_root])
  ELSE << >>

\* The writes of a root transition: a checkpoint of the snarked ledger is
\* listed and the emitted transactions are committed to the ledger, if the
\* new root emitted a proof; then the root identifier is set.
RootWrites(d, q) ==
  (IF d.just_emitted_a_proof
   THEN write_potential_snarked_ledgers(q)
        \o transfer_accounts(IF disk.snarked_ledger = LedgerOf[mem.root]
                             THEN LedgerOf[d.new_root] ELSE Dirty)
   ELSE << >>)
  \o set_root_identifier(d.new_root)

\* At most one of the diffs of a breadcrumb moves the root.
RootDiffs(ds) == { d \in Range(ds) : d.type = "Root_transitioned" }

\* Mutant: the new diffs go to the front of the buffer.
write_to_front(diffs) ==
  LET buffer == diffs \o diff_array IN
  IF Len(buffer) >= FlushCapacity /\ ~flush_job
  THEN /\ dispatched' = buffer /\ diff_array' = << >> /\ flush_job' = TRUE
       /\ Goto("running")
  ELSE /\ diff_array' = buffer /\ UNCHANGED <<dispatched, flush_job>>
       /\ IF Len(buffer) > 4 * FlushCapacity
          THEN Fail("persistence buffer overflow") ELSE Goto("running")

\* Diff_buffer.write: the buffer is handed to the worker when it is full
\* enough and no flush is under way, and must not grow past its capacity.
write(diffs) ==
  LET buffer == diff_array \o diffs IN
  IF Len(buffer) >= FlushCapacity /\ ~flush_job
  THEN /\ dispatched' = buffer /\ diff_array' = << >> /\ flush_job' = TRUE
       /\ Goto("running")
  ELSE /\ diff_array' = buffer /\ UNCHANGED <<dispatched, flush_job>>
       /\ IF Len(buffer) > 4 * FlushCapacity
          THEN Fail("persistence buffer overflow") ELSE Goto("running")

add_breadcrumb_exn(b) ==
  /\ Idle("running")
  /\ b \notin Table(mem) \cup {Genesis}
  /\ Parent[b] \in Table(mem)
  /\ LET diffs == calculate_diffs(mem, b)
         roots == RootDiffs(diffs)
         proof == \E d \in roots : d.just_emitted_a_proof
     IN  /\ mem' = apply_diffs(mem, diffs)
         /\ queue' = IF proof THEN Append(queue, disk.snarked_ledger) ELSE queue
         /\ script' = IF roots = {} THEN << >>
                      ELSE RootWrites(CHOOSE d \in roots : TRUE, queue')
         /\ write(diffs)
  /\ UNCHANGED <<disk, caller, crashes>>

\* Worker.handle_diff.  A root transition that emitted a proof drops the
\* oldest checkpoint before the database moves.
dequeue_snarked_ledger ==
  << Write("potential_snarked_ledgers", [queue EXCEPT ![1] = Dirty]) >>
  \o write_potential_snarked_ledgers(Tail(queue))

handle_diff ==
  LET d == Head(dispatched)
      proof == d.type = "Root_transitioned" /\ d.just_emitted_a_proof
      lost  == d.type = "Root_transitioned" /\ d.new_root \notin Stored(disk.db)
  IN
  /\ script = << >> /\ phase \in {"running", "closing"} /\ dispatched # << >>
  /\ IF proof /\ queue = << >>
     THEN Fail("failed to apply a diff") /\ UNCHANGED <<script, queue, dispatched>>
     ELSE /\ script' = (IF proof THEN dequeue_snarked_ledger ELSE << >>)
                       \o (IF lost THEN << >>
                           ELSE << Write("db", apply_to_database(disk.db, d)) >>)
          /\ queue' = IF proof THEN Tail(queue) ELSE queue
          /\ dispatched' = Tail(dispatched)
          /\ IF lost THEN Fail("failed to apply a diff") ELSE UNCHANGED <<phase, failure>>
  /\ UNCHANGED <<disk, caller, mem, diff_array, flush_job, crashes>>

\* Mutant: the flush job never ends.
flush_forever ==
  /\ script = << >> /\ phase \in {"running", "closing"}
  /\ flush_job /\ dispatched = << >>
  /\ dispatched' = diff_array /\ diff_array' = << >>
  /\ UNCHANGED <<disk, script, phase, caller, mem, queue, flush_job, failure,
                 crashes>>

\* The flush job goes on with what was buffered meanwhile, or ends.
flush ==
  /\ script = << >> /\ phase \in {"running", "closing"}
  /\ flush_job /\ dispatched = << >>
  /\ flush_job' = (Len(diff_array) >= FlushCapacity)
  /\ dispatched' = IF flush_job' THEN diff_array ELSE << >>
  /\ diff_array' = IF flush_job' THEN << >> ELSE diff_array
  /\ UNCHANGED <<disk, script, phase, caller, mem, queue, failure, crashes>>

\* The router closes the frontier to bootstrap to a better chain; the
\* buffer then copies what it still holds.
close ==
  /\ Idle("running")
  /\ phase' = "closing"
  /\ UNCHANGED <<disk, script, caller, volatile, failure, crashes>>

\* Mutants: the rest of the buffer is dropped; the frontier stays in memory.
close_without_copy ==
  /\ Idle("closing") /\ ~flush_job
  /\ phase' = "bootstrap" /\ mem' = None /\ queue' = << >> /\ diff_array' = << >>
  /\ UNCHANGED <<disk, script, caller, dispatched, flush_job, failure, crashes>>

close_without_release ==
  /\ Idle("closing") /\ ~flush_job
  /\ phase' = "bootstrap"
  /\ UNCHANGED <<disk, script, caller, volatile, failure, crashes>>

close_and_finish_copy ==
  /\ Idle("closing") /\ ~flush_job
  /\ IF diff_array # << >>
     THEN /\ dispatched' = diff_array /\ diff_array' = << >>
          /\ flush_job' = TRUE
          /\ UNCHANGED <<phase, mem, queue>>
     ELSE /\ phase' = "bootstrap" /\ mem' = None /\ queue' = << >>
          /\ UNCHANGED <<dispatched, diff_array, flush_job>>
  /\ UNCHANGED <<disk, script, caller, failure, crashes>>

-----------------------------------------------------------------------------
(* Only the disk survives a crash or a raised exception. *)

Reboot ==
  /\ phase' = "check" /\ caller' = "startup" /\ script' = << >>
  /\ mem' = None /\ queue' = << >> /\ diff_array' = << >>
  /\ dispatched' = << >> /\ flush_job' = FALSE /\ failure' = None
  /\ UNCHANGED disk

Crash == crashes < MaxCrashes /\ crashes' = crashes + 1 /\ Reboot

Restart == Idle("failed") /\ Reboot /\ UNCHANGED crashes

Load == check_database \/ load_from_disk \/ load_from_persistence_and_start

Persist == handle_diff \/ flush \/ close_and_finish_copy

Next ==
  \/ WriteStep \/ Load \/ Persist \/ close \/ Crash \/ Restart
  \/ \E r \in Block : bootstrap(r)
  \/ \E b \in Block : add_breadcrumb_exn(b)

Spec == Init /\ [][Next]_vars

-----------------------------------------------------------------------------
(* Fairness: the daemon's own jobs are run by the Async scheduler, a failed *)
(* daemon is restarted, and a bootstrap that is tried again and again       *)
(* finds a peer that has the data of some root.                             *)

BootstrapSucceeds == \E r \in Block : bootstrap(r) /\ phase' = "check"

Fairness ==
  /\ WF_vars(WriteStep) /\ WF_vars(Load) /\ WF_vars(Persist)
  /\ WF_vars(Restart) /\ SF_vars(BootstrapSucceeds)

FairSpec == Spec /\ Fairness

-----------------------------------------------------------------------------
(* Properties. *)

Up == phase \in {"running", "closing"}

\* The disk d once the writes ws are made: the last one to a file counts.
Settle(d, ws) ==
  [file \in DOMAIN d |->
     LET last == { i \in DOMAIN ws : /\ ws[i].file = file
                                    /\ \A j \in DOMAIN ws :
                                         ws[j].file = file => j <= i }
     IN  IF last = {} THEN d[file] ELSE ws[CHOOSE i \in last : TRUE].value]

\* The disk once the running job is done.
Settled == Settle(disk, script)

\* The database once the diffs are applied to it, in their order.
Replay(db, diffs) ==
  LET after[n \in 0 .. Len(diffs)] ==
        IF n = 0 THEN db ELSE apply_to_database(after[n - 1], diffs[n])
  IN  after[Len(diffs)]

AsDatabase(f) ==
  [ root |-> f.root, best_tip |-> f.best_tip
  , successor_hashes |-> f.successor_hashes
  , protocol_states |-> f.protocol_states ]

IsDatabase(db) ==
  /\ Stored(db) \subseteq Block
  /\ db \in [ root : Block, best_tip : Block
            , successor_hashes : [Stored(db) -> SUBSET Block]
            , protocol_states : SUBSET Block ]

IsDiff(d) ==
  \/ d \in [type : {"New_node", "Best_tip_changed"}, block : Block]
  \/ d \in [ type : {"Root_transitioned"}, new_root : Block
           , garbage : SUBSET Block, just_emitted_a_proof : BOOLEAN ]

\* The files hold what their readers expect, or the marks a crash leaves in
\* them; there is a full frontier exactly while the daemon runs or closes.
TypeOK ==
  /\ DOMAIN disk = DOMAIN EmptyDisk
  /\ disk.db # None => IsDatabase(disk.db)
  /\ disk.snarked_ledger \in Block \cup {Dirty}
  /\ disk.potential_snarked_ledgers \in {None, Torn} \/
       Range(disk.potential_snarked_ledgers) \subseteq Block \cup {Dirty}
  /\ disk.root_identifier \in Block \cup {None, Torn}
  /\ \A i \in DOMAIN script : script[i].file \in DOMAIN disk
  /\ caller \in {"startup", "retry", "bootstrap"}
  /\ phase \in {"check", "continue", "start", "running", "closing",
               "bootstrap", "failed"}
  /\ IF Up THEN IsFrontier(mem) ELSE mem = None \/ phase = "failed"
  /\ \A d \in Range(diff_array \o dispatched) : IsDiff(d)
  /\ flush_job \in BOOLEAN /\ crashes \in 0 .. MaxCrashes

\* While the daemon runs, the database and the diffs it has not applied yet
\* (those of the worker, then those of the buffer) make the full frontier:
\* nothing is lost, applied twice or reordered between the two.
DatabaseReplaysToFrontier ==
  Up => Replay(Settled.db, dispatched \o diff_array) = AsDatabase(mem)

\* While the daemon runs, the snarked ledger and the root identifier are
\* those of the full frontier's root, and the oldest checkpoint (the snarked
\* ledger itself if there is none) is the ledger of the database's root,
\* which lags behind: it is the one a restart needs.
LedgersMatchRoots ==
  Up => /\ Settled.snarked_ledger = LedgerOf[mem.root]
        /\ Settled.root_identifier = mem.root
        /\ Head(Append(queue, Settled.snarked_ledger)) = LedgerOf[Settled.db.root]
        /\ queue # << >> => Settled.potential_snarked_ledgers = queue

\* At every point where a crash may strike the database holds a tree below
\* its root, at most one block deeper than max_length (a node may be written
\* before the move of the root it causes): a reload finds every stored block.
DatabaseIsTree ==
  disk.db # None =>
    IsTree(disk.db) /\ Within(disk.db, MaxLength + 1)

\* The frontier that is loaded, and every one it grows into, has the parts
\* of the full frontier's invariant that loading promises.
LoadedFrontierIsSound ==
  Up => /\ Sound(mem) /\ Within(mem, MaxLength)
        /\ mem.best_tip \in Table(mem)

\* A running frontier only takes the steps of a full frontier, and none of
\* its lookups fails, wherever it was loaded from.
RunningStepsAreFrontierSteps ==
  [][Up /\ mem' # None => Full!Next \/ UNCHANGED mem]_vars

\* When a close has finished, the disk holds all of the frontier and is
\* fit to be loaded again without a bootstrap.
CleanCloseLosesNothing ==
  [][phase = "closing" /\ phase' = "bootstrap" =>
       /\ load_full_frontier(disk.db) =
            [mem EXCEPT !.length = [h \in DOMAIN @ |-> @[h] - @[mem.root]]]
       /\ disk.root_identifier = disk.db.root
       /\ disk.snarked_ledger = LedgerOf[disk.db.root]
       /\ disk.potential_snarked_ledgers \in {None, << >>}]_vars

\* Whatever the order of crashes, the daemon fails only because its buffer
\* overflowed or because a crash struck while one of the two small files
\* was being written.  It never fails because a diff cannot be applied, a
\* loaded best tip is missing, a bootstrap left a disk that requires a
\* bootstrap, or a database is corrupt after a retry.
OnlyExpectedFailures ==
  failure \in { None, "persistence buffer overflow"
              , "unreadable list of checkpoints", "unreadable root identifier"
              , "no persistent root identifier found" }

\* The daemon runs again and again, whatever it had to reset, bootstrap or
\* restart for, unless a crash left one of the two small files truncated or
\* missing: those are never repaired.
Damaged == \/ disk.potential_snarked_ledgers = Torn
           \/ disk.root_identifier \in {None, Torn}

EventuallyRuns == []<>(phase = "running") \/ <>[]Damaged

\* A frontier that is being closed is copied to the end, unless the daemon
\* crashes.
CloseFinishes == phase = "closing" ~> phase # "closing"

-----------------------------------------------------------------------------
(* What comments and messages of the code say, and the code does not keep.  *)

\* load_from_persistence_and_start: "no persistent root identifier found
\* (should have been written already)".
RootIdentifierWasWritten ==
  Idle("start") => disk.root_identifier # None

\* load_from_disk, when neither the checkpoints nor the snarked ledger match:
\* "if not, we just reset all the persisted data and start from genesis".
MismatchResetsToGenesis ==
  [][phase = "continue" => phase' # "bootstrap"]_vars
=============================================================================
