---------------------------- MODULE ServiceProofs ----------------------------
(***************************************************************************)
(* The programs that accompany a testnet's daemons, for every value of     *)
(* their constants: the puppeteer's daemon file, the blocks the sidecar    *)
(* uploads, the user agent's counters, the turns of the watchdog's checks  *)
(* and the faucet's books.  The programs share no state; each section      *)
(* proves one of them.                                                     *)
(***************************************************************************)
EXTENDS Puppeteer, Faucet, Sidecar, UserAgent, WatchdogLoop, FiniteSetTheorems, TLAPS

-----------------------------------------------------------------------------
(* For any number of commands and children: the puppeteer never runs two   *)
(* daemons, and daemon-active tells the truth.                             *)


\* The type of the script's, the daemon's and the shell scripts' state.
THEOREM PuppeteerIsTyped == PuppeteerSpec => []PuppeteerTypeOK
<1>1. PuppeteerInit => PuppeteerTypeOK
  <2> SUFFICES ASSUME PuppeteerInit PROVE PuppeteerTypeOK
    OBVIOUS
  <2>1. active_daemon_request \in BOOLEAN /\ inactive_daemon_request \in BOOLEAN /\ file \in BOOLEAN
    BY Zenon DEF PuppeteerInit
  <2>2. commands \in 0..MaxCommands
    BY PuppeteerAssumption DEF PuppeteerInit
  <2>3. QED
    BY <2>1, <2>2 DEF PuppeteerInit, PuppeteerTypeOK, Inactive
<1>2. PuppeteerTypeOK /\ [PuppeteerNext]_puppeteerVars => PuppeteerTypeOK'
  <2> SUFFICES ASSUME PuppeteerTypeOK, [PuppeteerNext]_puppeteerVars
               PROVE  PuppeteerTypeOK'
    OBVIOUS
  <2> USE PuppeteerAssumption DEF PuppeteerTypeOK, Inactive, Active, Stopping
  <2>1. ASSUME NEW s, Deliver(s)
        PROVE  /\ active_daemon_request' \in BOOLEAN /\ inactive_daemon_request' \in BOOLEAN
               /\ puppeteer_pc' \in {puppeteer_pc, "poll"}
               /\ UNCHANGED <<child_pids, file>>
    BY <2>1 DEF Deliver, script
  <2>2. CASE start_sh
    BY <2>1, <2>2 DEF start_sh, Run
  <2>3. CASE stop_sh
    BY <2>1, <2>3 DEF stop_sh, Run
  <2>4. CASE sh_returns \/ Fork \/ ChildExits
    BY <2>4 DEF sh_returns, Fork, ChildExits, script
  <2>5. CASE DaemonDies
    BY <2>1, <2>5 DEF DaemonDies
  <2>6. CASE create_server \/ handle_request \/ sigtimedwait \/ check_request
    BY <2>6 DEF create_server, handle_request, sigtimedwait, check_request, Goto, script
  <2>7. CASE touch \/ reset \/ pause \/ cleanup_and_exit \/ poll
    BY <2>7 DEF touch, reset, pause, cleanup_and_exit, poll, Goto, script
  <2>8. CASE get_child_processes \/ wait_mina \/ wait_children \/ stopped
    BY <2>8 DEF get_child_processes, wait_mina, wait_children, stopped, Goto, script
  <2>9. CASE UNCHANGED puppeteerVars
    BY <2>9 DEF puppeteerVars, script
  <2>10. QED
    BY <2>2, <2>3, <2>4, <2>5, <2>6, <2>7, <2>8, <2>9 DEF PuppeteerNext, Script
<1>3. QED
  BY <1>1, <1>2, PTL DEF PuppeteerSpec

\* The daemon is gone once stop_daemon waits for its children, and so are it and
\* the file when stop_daemon is done.
StopHasTakenEffect ==
  /\ puppeteer_pc = "wait_children" => mina = "down"
  /\ puppeteer_pc = "stopped" => mina = "down" /\ ~file

PuppeteerInv == DaemonFileIsTrue /\ StopHasTakenEffect

\* Signals and the steps of others move the script only out of pause().
LEMMA DeliverMoves ==
  ASSUME NEW s, Deliver(s)
  PROVE  /\ file' = file
         /\ puppeteer_pc' = puppeteer_pc \/ (puppeteer_pc = "pause" /\ puppeteer_pc' = "poll")
BY DEF Deliver, script

\* Every step of the script, the daemon and the shell scripts keeps the invariant.
LEMMA PuppeteerStepInv == PuppeteerInv /\ [PuppeteerNext]_puppeteerVars => PuppeteerInv'
<1> SUFFICES ASSUME PuppeteerInv, [PuppeteerNext]_puppeteerVars
             PROVE  PuppeteerInv'
  OBVIOUS
<1> USE DEF PuppeteerInv, DaemonFileIsTrue, InactiveMeansStopped, NoFileNoDaemon,
            StopHasTakenEffect, Inactive
<1>1. CASE start_sh
  BY <1>1, DeliverMoves DEF start_sh, Run
<1>2. CASE stop_sh
  BY <1>2, DeliverMoves DEF stop_sh, Run
<1>3. CASE sh_returns
  BY <1>3 DEF sh_returns, script
<1>4. CASE Fork
  BY <1>4 DEF Fork, script
<1>5. CASE ChildExits
  BY <1>5 DEF ChildExits, script
<1>6. CASE DaemonDies
  BY <1>6, DeliverMoves DEF DaemonDies
<1>7. CASE create_server \/ handle_request \/ sigtimedwait \/ check_request
  BY <1>7 DEF create_server, handle_request, sigtimedwait, check_request, Goto, script
<1>8. CASE touch \/ reset \/ pause \/ cleanup_and_exit
  BY <1>8 DEF touch, reset, pause, cleanup_and_exit, Goto, script
<1>9. CASE poll
  BY <1>9 DEF poll, Goto, script
<1>10. CASE get_child_processes \/ wait_mina
  BY <1>10 DEF get_child_processes, wait_mina, Goto, script
<1>11. CASE wait_children
  BY <1>11 DEF wait_children, Goto
<1>12. CASE stopped
  BY <1>12 DEF stopped, Goto
<1>13. CASE UNCHANGED puppeteerVars
  BY <1>13 DEF puppeteerVars, script
<1>14. QED
  BY <1>1, <1>2, <1>3, <1>4, <1>5, <1>6, <1>7, <1>8, <1>9, <1>10, <1>11, <1>12, <1>13
     DEF PuppeteerNext, Script

\* Whatever signals arrive, at whichever step, and whenever the daemon dies:
\* inactive_loop, which starts a daemon, is never entered beside a living one,
\* and without daemon-active no daemon runs except in start_daemon itself.
THEOREM DaemonFileStaysTrue == PuppeteerSpec => []DaemonFileIsTrue
<1>1. PuppeteerInit => PuppeteerInv
  BY DEF PuppeteerInit, PuppeteerInv, DaemonFileIsTrue, InactiveMeansStopped,
         NoFileNoDaemon, StopHasTakenEffect, Inactive
<1>2. PuppeteerInv => DaemonFileIsTrue
  BY DEF PuppeteerInv
<1>3. QED
  BY <1>1, <1>2, PuppeteerStepInv, PTL DEF PuppeteerSpec

-----------------------------------------------------------------------------
(* For every finalization threshold and every chain: what the sidecar      *)
(* uploads is finalized unless the node's chain got shorter.               *)


\* The height to ask for is finalized as long as the node's chain has not become
\* shorter since it was computed, and an answer that was fetched is of a block.
TipIsFinalized ==
  /\ sidecar_pc \in {"fetch", "sleep"} /\ ~fellBack =>
       current_finalized_tip + FINALIZATION_THRESHOLD <= blockchainLength
  /\ sidecar_pc = "send" => block_data.length >= 1

SidecarInv == SidecarTypeOK /\ TipIsFinalized /\ FinalizedUnlessNodeFellBack

\* The sidecar starts with nothing read and nothing uploaded.
LEMMA SidecarInitInv == SidecarInit => SidecarInv
<1> SUFFICES ASSUME SidecarInit PROVE SidecarInv
  OBVIOUS
<1> USE SidecarAssumption DEF SidecarInit
<1>1. block_data \in [height : Heights \cup {0}, length : 0..MaxLength]
  OBVIOUS
<1>2. SidecarTypeOK
  BY <1>1 DEF SidecarTypeOK
<1>3. TipIsFinalized /\ FinalizedUnlessNodeFellBack
  BY DEF TipIsFinalized, FinalizedUnlessNodeFellBack
<1>4. QED
  BY <1>2, <1>3 DEF SidecarInv

\* Every step of the sidecar and of the node keeps the invariant.
LEMMA SidecarStepInv == SidecarInv /\ [SidecarNext]_sidecarVars => SidecarInv'
<1> SUFFICES ASSUME SidecarInv, [SidecarNext]_sidecarVars
             PROVE  SidecarInv'
  OBVIOUS
<1> USE SidecarAssumption
        DEF SidecarInv, SidecarTypeOK, TipIsFinalized, FinalizedUnlessNodeFellBack
<1>1. CASE NodeGrows
  <2>1. syncStatus' \in Statuses /\ blockchainLength' \in 1..MaxLength
    BY <1>1 DEF NodeGrows, Statuses
  <2>2. UNCHANGED <<sidecar_pc, current_finalized_tip, block_data, fellBack>>
        /\ blockchainLength' = blockchainLength + 1
    BY <1>1 DEF NodeGrows
  <2>3. SidecarTypeOK'
    BY <2>1, <2>2
  <2>4. TipIsFinalized'
    BY <2>2 DEF Heights
  <2>5. FinalizedUnlessNodeFellBack'
    BY <2>2
  <2>6. QED
    BY <2>3, <2>4, <2>5
<1>2. CASE NodeRestarts
  <2>1. syncStatus' \in Statuses /\ blockchainLength' \in 1..MaxLength
    BY <1>2 DEF NodeRestarts, Statuses
  <2>2. UNCHANGED <<sidecar_pc, current_finalized_tip, block_data>>
    BY <1>2 DEF NodeRestarts
  <2>3. fellBack' \in BOOLEAN
    BY <1>2 DEF NodeRestarts
  <2>4. ~fellBack' => ~fellBack /\ ~(blockchainLength' < blockchainLength)
    BY <1>2, Zenon DEF NodeRestarts
  <2>5. ~fellBack' => blockchainLength' = blockchainLength
    BY <1>2, <2>4 DEF NodeRestarts
  <2>6. SidecarTypeOK'
    BY <2>1, <2>2, <2>3
  <2>7. TipIsFinalized' /\ FinalizedUnlessNodeFellBack'
    BY <2>2, <2>4, <2>5
  <2>8. QED
    BY <2>6, <2>7
<1>3. CASE NodeSyncs
  BY <1>3 DEF NodeSyncs
<1>4. CASE check_mina_node_sync_state_and_fetch_head
  <2>1. current_finalized_tip' \in Heights
    BY <1>4 DEF check_mina_node_sync_state_and_fetch_head, SetTip, Heights
  <2>2. current_finalized_tip' + FINALIZATION_THRESHOLD = blockchainLength
    BY <1>4 DEF check_mina_node_sync_state_and_fetch_head, SetTip
  <2>3. UNCHANGED <<syncStatus, blockchainLength, block_data>>
        /\ sidecar_pc' = "fetch" /\ fellBack' = FALSE
    BY <1>4 DEF check_mina_node_sync_state_and_fetch_head, SetTip, node
  <2>4. SidecarTypeOK'
    BY <2>1, <2>3
  <2>5. TipIsFinalized' /\ FinalizedUnlessNodeFellBack'
    BY <2>1, <2>2, <2>3
  <2>6. QED
    BY <2>4, <2>5
<1>5. CASE fetch_block
  <2>1. current_finalized_tip \in Heights
    BY <1>5 DEF fetch_block, Served, Heights
  <2>2. /\ block_data' \in [height : Heights \cup {0}, length : 0..MaxLength]
        /\ block_data'.length = blockchainLength
        /\ block_data'.height = current_finalized_tip
    BY <1>5, <2>1 DEF fetch_block
  <2>3. QED
    BY <1>5, <2>1, <2>2 DEF fetch_block, node, Heights
<1>6. CASE send_update
  <2>1. block_data.length \in 1..MaxLength
    BY <1>6 DEF send_update
  <2>2. current_finalized_tip' \in Heights
    BY <1>6, <2>1 DEF send_update, Heights
  <2>3. UNCHANGED <<syncStatus, blockchainLength, block_data>> /\ sidecar_pc' = "sleep"
    BY <1>6 DEF send_update, node
  <2>4. fellBack' \in BOOLEAN
    BY <1>6 DEF send_update
  <2>5. ~fellBack' => ~(blockchainLength < block_data.length)
    BY <1>6, Zenon DEF send_update
  <2>6. current_finalized_tip' = block_data.length - FINALIZATION_THRESHOLD
    BY <1>6 DEF send_update
  <2>7. SidecarTypeOK'
    BY <2>2, <2>3, <2>4
  <2>8. TipIsFinalized' /\ FinalizedUnlessNodeFellBack'
    BY <2>1, <2>3, <2>5, <2>6
  <2>9. QED
    BY <2>7, <2>8
<1>7. CASE wake
  BY <1>7 DEF wake, node
<1>8. CASE sidecar_raises
  BY <1>8 DEF sidecar_raises, node
<1>9. CASE UNCHANGED sidecarVars
  BY <1>9 DEF sidecarVars, node
<1>10. QED
  BY <1>1, <1>2, <1>3, <1>4, <1>5, <1>6, <1>7, <1>8, <1>9 DEF SidecarNext, Loop

\* The type of the sidecar and of the node it polls; heights may be negative,
\* when the chain is shorter than the threshold.
THEOREM SidecarIsTyped == SidecarSpec => []SidecarTypeOK
<1>1. SidecarInv => SidecarTypeOK
  BY DEF SidecarInv
<1>2. QED
  BY <1>1, SidecarInitInv, SidecarStepInv, PTL DEF SidecarSpec

\* For every threshold and however the node grows, syncs and restarts between
\* two requests: send_update uploads a block that the answer it came with shows
\* to be finalized, unless the chain became shorter since its height was
\* computed.
THEOREM UploadsAreFinalized == SidecarSpec => []FinalizedUnlessNodeFellBack
<1>1. SidecarInv => FinalizedUnlessNodeFellBack
  BY DEF SidecarInv
<1>2. QED
  BY <1>1, SidecarInitInv, SidecarStepInv, PTL DEF SidecarSpec

-----------------------------------------------------------------------------
(* For every size of a batch and every number of attempts: the agent's     *)
(* counters bound the payments the daemon has taken.                       *)


\* The type of the agent's state: the index stays within a batch, and the
\* account to pay to is one the daemon has created.
THEOREM AgentIsTyped == AgentSpec => []AgentTypeOK
<1>1. AgentInit => AgentTypeOK
  <2> SUFFICES ASSUME AgentInit PROVE AgentTypeOK
    OBVIOUS
  <2>1. unlocked \in BOOLEAN
    BY Zenon DEF AgentInit
  <2>2. 0 \in 0..(AGENT_TX_BATCH_SIZE - 1) /\ 0 \in 0..MaxAttempts
    BY UserAgentAssumption
  <2>3. QED
    BY <2>1, <2>2 DEF AgentInit, AgentTypeOK
<1>2. AgentTypeOK /\ [AgentNext]_agentVars => AgentTypeOK'
  <2> SUFFICES ASSUME AgentTypeOK, [AgentNext]_agentVars
               PROVE  AgentTypeOK'
    OBVIOUS
  <2> USE UserAgentAssumption DEF AgentTypeOK
  <2>1. ASSUME Ends
        PROVE  i' \in 0..(AGENT_TX_BATCH_SIZE - 1) /\ agent_pc' \in {"idle", "attempt"}
    BY <2>1 DEF Ends
  <2>2. CASE run_pending
    BY <2>2 DEF run_pending, agentCounters
  <2>3. CASE send_transaction
    BY <2>3 DEF send_transaction, agentCounters
  <2>4. CASE get_to_account
    BY <2>4 DEF get_to_account, agentCounters
  <2>5. CASE unlock_wallet
    BY <2>5 DEF unlock_wallet, agentCounters
  <2>6. CASE unlock_raises
    <3>1. wallets' = wallets \/ wallets' = wallets + 1
      BY <2>6 DEF unlock_raises
    <3>2. unlocked' \in BOOLEAN
      BY <2>6 DEF unlock_raises
    <3>3. TRANSACTION_ERRORS' \in Nat
      BY <2>6 DEF unlock_raises
    <3>4. QED
      BY <2>1, <2>6, <3>1, <3>2, <3>3 DEF unlock_raises
  <2>7. CASE send_payment
    BY <2>1, <2>7 DEF send_payment
  <2>8. CASE payment_fails
    <3>1. payments' = payments \/ payments' = payments + 1
      BY <2>8 DEF payment_fails
    <3>2. QED
      BY <2>1, <2>8, <3>1 DEF payment_fails
  <2>9. CASE DaemonRestarts
    BY <2>9 DEF DaemonRestarts, agentCounters
  <2>10. CASE UNCHANGED agentVars
    BY <2>10 DEF agentVars, agentCounters
  <2>11. QED
    BY <2>2, <2>3, <2>4, <2>5, <2>6, <2>7, <2>8, <2>9, <2>10 DEF AgentNext, Agent
<1>3. QED
  BY <1>1, <1>2, PTL DEF AgentSpec

\* The payments and the counters, as numbers, with what is to be shown of them.
AgentInv ==
  /\ TRANSACTIONS_SENT \in Nat /\ TRANSACTION_ERRORS \in Nat /\ payments \in Nat
  /\ CountersBoundPayments

\* Every step of the agent, and a restart of the daemon, keeps the invariant.
LEMMA AgentStepInv == AgentInv /\ [AgentNext]_agentVars => AgentInv'
<1> SUFFICES ASSUME AgentInv, [AgentNext]_agentVars
             PROVE  AgentInv'
  OBVIOUS
<1> USE DEF AgentInv, CountersBoundPayments
<1>1. CASE run_pending \/ send_transaction \/ get_to_account \/ unlock_wallet
  BY <1>1 DEF run_pending, send_transaction, get_to_account, unlock_wallet, agentCounters
<1>2. CASE unlock_raises
  <2>1. TRANSACTION_ERRORS' = TRANSACTION_ERRORS \/ TRANSACTION_ERRORS' = TRANSACTION_ERRORS + 1
    BY <1>2 DEF unlock_raises
  <2>2. UNCHANGED <<TRANSACTIONS_SENT, payments>>
    BY <1>2 DEF unlock_raises
  <2>3. QED
    BY <2>1, <2>2
<1>3. CASE send_payment
  BY <1>3 DEF send_payment
<1>4. CASE payment_fails
  <2>1. payments' = payments \/ payments' = payments + 1
    BY <1>4 DEF payment_fails
  <2>2. QED
    BY <1>4, <2>1 DEF payment_fails
<1>5. CASE DaemonRestarts
  BY <1>5 DEF DaemonRestarts, agentCounters
<1>6. CASE UNCHANGED agentVars
  BY <1>6 DEF agentVars, agentCounters
<1>7. QED
  BY <1>1, <1>2, <1>3, <1>4, <1>5, <1>6 DEF AgentNext, Agent

\* However the calls to the daemon fail, with their effect or without, and
\* however often it restarts: what is counted as sent was taken, and what was
\* taken is counted as sent or as an error.
THEOREM CountersStayBounds == AgentSpec => []CountersBoundPayments
<1>1. AgentInit => AgentInv
  BY DEF AgentInit, AgentInv, CountersBoundPayments
<1>2. AgentInv => CountersBoundPayments
  BY DEF AgentInv
<1>3. QED
  BY <1>1, <1>2, AgentStepInv, PTL DEF AgentSpec

-----------------------------------------------------------------------------
(* For any list of checks with any periods: the watchdog's event loop takes*)
(* the checks in turn.                                                     *)
(*                                                                         *)
(* That no check is called twice while another waits is inductive only as  *)
(* a fact about the whole queue: a check stands behind all that were due   *)
(* when it was called last (Behind).  For a check that joins the queue this*)
(* holds because nobody has passed one that was not due.                   *)

LoopInv ==
  /\ LoopTypeOK
  /\ \A k \in DOMAIN due : timer[due[k]] = 0 /\ due[k] \notin running
  /\ \A c \in running : timer[c] = 0
  /\ \A j, k \in DOMAIN due : due[j] = due[k] => j = k
  /\ \A c \in Check : c \in Due \/ passed[c] = {}

Behind == \A j, k \in DOMAIN due : j <= k => due[j] \notin passed[due[k]]

\* Timers that run out join the queue at its end.
LEMMA TickKeepsTurns ==
  ASSUME LoopInv, Behind, Tick
  PROVE  LoopInv' /\ Behind'
<1>0. /\ LoopTypeOK
      /\ \A k \in DOMAIN due : timer[due[k]] = 0 /\ due[k] \notin running
      /\ \A c \in running : timer[c] = 0
      /\ \A j, k \in DOMAIN due : due[j] = due[k] => j = k
      /\ \A c \in Check : c \in Due \/ passed[c] = {}
  BY DEF LoopInv
<1> DEFINE S == {c \in Check : timer[c] = 1}
           n == Cardinality(S)
<1>1. n \in Nat
  BY FS_Subset, FS_CardinalityType, WatchdogLoopAssumption
<1>2. PICK s \in Arrangements(S) : due' = due \o s
  BY DEF Tick
<1> HIDE DEF n
<1>2a. s \in [1..n -> S] /\ \A j, k \in DOMAIN s : s[j] = s[k] => j = k
  BY <1>2, Zenon DEF Arrangements, n
<1>3. s \in Seq(Check) /\ Len(s) = n /\ \A k \in 1..n : s[k] \in S
  <2>1. s \in [1..n -> Check]
    BY <1>2a
  <2>2. s \in Seq(Check) /\ Len(s) = n
    BY <2>1, <1>1
  <2>3. QED
    BY <2>2, <1>2a
<1>4. \A j, k \in 1..n : s[j] = s[k] => j = k
  BY <1>2a
<1>5. /\ UNCHANGED <<running, passed>>
      /\ timer' = [c \in Check |-> IF timer[c] > 0 THEN timer[c] - 1 ELSE 0]
  BY DEF Tick
<1>6. due \in Seq(Check) /\ Len(due) \in Nat /\ timer \in [Check -> Nat]
  BY <1>0 DEF LoopTypeOK
<1>7. /\ due' \in Seq(Check) /\ DOMAIN due' = 1..(Len(due) + n)
      /\ \A k \in 1..Len(due) : due'[k] = due[k]
      /\ \A k \in (Len(due) + 1)..(Len(due) + n) : due'[k] = s[k - Len(due)]
  BY <1>1, <1>2, <1>3, <1>6
<1>8. DOMAIN due = 1..Len(due) /\ \A k \in 1..Len(due) : due[k] \in Check
  BY <1>6
<1>9. \A k \in 1..n : s[k] \in Check /\ timer[s[k]] = 1
  BY <1>3
<1>10. \A k \in 1..n : s[k] \notin Due /\ s[k] \notin running
  BY <1>0, <1>9 DEF Due
<1>11. \A k \in 1..n : passed[s[k]] = {}
  BY <1>0, <1>9, <1>10
<1>12. \A k \in DOMAIN due' : k \in 1..Len(due) \/ (k - Len(due) \in 1..n /\ due'[k] = s[k - Len(due)])
  <2> SUFFICES ASSUME NEW k \in 1..(Len(due) + n), k \notin 1..Len(due)
               PROVE  k - Len(due) \in 1..n /\ due'[k] = s[k - Len(due)]
    BY <1>7
  <2>1. k \in (Len(due) + 1)..(Len(due) + n) /\ k - Len(due) \in 1..n
    BY <1>1, <1>6
  <2>2. QED
    BY <2>1, <1>7
<1>13. \A k \in DOMAIN due' : timer'[due'[k]] = 0 /\ due'[k] \notin running'
  <2> TAKE k \in DOMAIN due'
  <2>1. CASE k \in 1..Len(due)
    BY <2>1, <1>0, <1>5, <1>7, <1>8
  <2>2. CASE k - Len(due) \in 1..n /\ due'[k] = s[k - Len(due)]
    BY <2>2, <1>5, <1>9, <1>10
  <2>3. QED
    BY <2>1, <2>2, <1>12
<1>14. \A j, k \in DOMAIN due' : due'[j] = due'[k] => j = k
  <2> SUFFICES ASSUME NEW j \in DOMAIN due', NEW k \in DOMAIN due', due'[j] = due'[k]
               PROVE  j = k
    OBVIOUS
  <2>1. CASE j \in 1..Len(due) /\ k \in 1..Len(due)
    BY <2>1, <1>0, <1>7, <1>8
  <2>2. CASE j \in 1..Len(due) /\ k \notin 1..Len(due)
    BY <2>2, <1>7, <1>8, <1>10, <1>12 DEF Due
  <2>3. CASE j \notin 1..Len(due) /\ k \in 1..Len(due)
    BY <2>3, <1>7, <1>8, <1>10, <1>12 DEF Due
  <2>4. CASE j \notin 1..Len(due) /\ k \notin 1..Len(due)
    <3>1. s[j - Len(due)] = s[k - Len(due)] /\ j - Len(due) \in 1..n /\ k - Len(due) \in 1..n
      BY <2>4, <1>12
    <3>2. j - Len(due) = k - Len(due)
      BY <3>1, <1>4
    <3>3. QED
      BY <3>2, <1>1, <1>6, <1>7
  <2>5. QED
    BY <2>1, <2>2, <2>3, <2>4
<1>15. Due \subseteq Due'
  <2> SUFFICES ASSUME NEW k \in 1..Len(due) PROVE due[k] \in Due'
    BY <1>8 DEF Due
  <2>1. k \in DOMAIN due' /\ due'[k] = due[k]
    BY <1>1, <1>6, <1>7
  <2>2. QED
    BY <2>1 DEF Due
<1>16. LoopTypeOK'
  <2>1. timer' \in [Check -> Nat] /\ \A c \in Check : timer'[c] <= Period[c]
    BY <1>0, <1>5, WatchdogLoopAssumption DEF LoopTypeOK
  <2>2. QED
    BY <2>1, <1>0, <1>5, <1>7 DEF LoopTypeOK
<1>17. \A c \in running' : timer'[c] = 0
  BY <1>0, <1>5 DEF LoopTypeOK
<1>18. \A c \in Check : c \in Due' \/ passed'[c] = {}
  BY <1>0, <1>5, <1>15
<1>19. Behind'
  <2> SUFFICES ASSUME NEW j \in DOMAIN due', NEW k \in DOMAIN due', j <= k
               PROVE  due'[j] \notin passed[due'[k]]
    BY <1>5 DEF Behind
  <2>1. CASE k \in 1..Len(due)
    <3>1. j \in 1..Len(due)
      BY <2>1, <1>1, <1>6, <1>7
    <3>2. QED
      BY <2>1, <3>1, <1>7, <1>8 DEF Behind
  <2>2. CASE k \notin 1..Len(due)
    BY <2>2, <1>11, <1>12
  <2>3. QED
    BY <2>1, <2>2
<1>20. QED
  BY <1>13, <1>14, <1>16, <1>17, <1>18, <1>19 DEF LoopInv

\* A call takes the head of the queue and passes the rest of it.
LEMMA CallKeepsTurns ==
  ASSUME LoopInv, Behind, calls
  PROVE  /\ LoopInv' /\ Behind'
         /\ \A c \in running' \ running : \A d \in Due : c \notin passed[d]
<1>0. /\ LoopTypeOK
      /\ \A k \in DOMAIN due : timer[due[k]] = 0 /\ due[k] \notin running
      /\ \A j, k \in DOMAIN due : due[j] = due[k] => j = k
      /\ \A c \in Check : c \in Due \/ passed[c] = {}
  BY DEF LoopInv
<1> DEFINE h == Head(due)
<1>1. due \in Seq(Check) /\ due # <<>> /\ Len(due) \in Nat \ {0}
  BY <1>0 DEF LoopTypeOK, calls
<1>2. DOMAIN due = 1..Len(due) /\ 1 \in DOMAIN due /\ h = due[1] /\ h \in Check
  BY <1>1
<1>3. /\ due' \in Seq(Check) /\ DOMAIN due' = 1..(Len(due) - 1)
      /\ \A k \in 1..(Len(due) - 1) : k + 1 \in DOMAIN due /\ due'[k] = due[k + 1]
  BY <1>1, <1>2 DEF calls
<1>4. running' = {h} /\ UNCHANGED timer
  BY DEF calls
<1>5. passed' = [d \in Check |-> IF d = h THEN {} ELSE
                                 IF d \in Due THEN passed[d] \cup {h} ELSE passed[d]]
  BY DEF calls, Passes
<1> HIDE DEF h
<1>6. \A k \in DOMAIN due' : due'[k] # h
  BY <1>0, <1>1, <1>2, <1>3
<1>7. \A d \in Due : d = h \/ d \in Due'
  <2> SUFFICES ASSUME NEW k \in DOMAIN due, due[k] # h PROVE due[k] \in Due'
    BY DEF Due
  <2>1. k - 1 \in 1..(Len(due) - 1) /\ k - 1 + 1 = k
    BY <1>1, <1>2
  <2>2. due'[k - 1] = due[k] /\ k - 1 \in DOMAIN due'
    BY <2>1, <1>3
  <2>3. QED
    BY <2>2 DEF Due
<1>8. LoopTypeOK'
  BY <1>0, <1>2, <1>3, <1>4, <1>5 DEF LoopTypeOK
<1>9. \A k \in DOMAIN due' : timer'[due'[k]] = 0 /\ due'[k] \notin running'
  BY <1>0, <1>3, <1>4, <1>6
<1>10. \A c \in running' : timer'[c] = 0
  BY <1>0, <1>2, <1>4
<1>11. \A j, k \in DOMAIN due' : due'[j] = due'[k] => j = k
  <2> SUFFICES ASSUME NEW j \in DOMAIN due', NEW k \in DOMAIN due', due'[j] = due'[k]
               PROVE  j = k
    OBVIOUS
  <2>1. j + 1 = k + 1
    BY <1>0, <1>3
  <2>2. QED
    BY <2>1, <1>1, <1>3
<1>12. \A c \in Check : c \in Due' \/ passed'[c] = {}
  BY <1>0, <1>5, <1>7
<1>13. Behind'
  <2> SUFFICES ASSUME NEW j \in DOMAIN due', NEW k \in DOMAIN due', j <= k
               PROVE  due'[j] \notin passed'[due'[k]]
    BY DEF Behind
  <2>1. due'[j] = due[j + 1] /\ due'[k] = due[k + 1] /\ j + 1 \in DOMAIN due /\ k + 1 \in DOMAIN due
    BY <1>3
  <2>2. due'[j] \notin passed[due'[k]]
    BY <2>1, <1>1, <1>3 DEF Behind
  <2>3. due'[j] # h /\ due'[k] # h /\ due'[k] \in Check
    BY <1>6, <1>3
  <2>4. passed'[due'[k]] \subseteq passed[due'[k]] \cup {h}
    BY <2>3, <1>5
  <2>5. QED
    BY <2>2, <2>3, <2>4
<1>14. \A c \in running' \ running : \A d \in Due : c \notin passed[d]
  <2> SUFFICES ASSUME NEW k \in DOMAIN due PROVE h \notin passed[due[k]]
    BY <1>4 DEF Due
  <2>1. 1 <= k
    BY <1>1, <1>2
  <2>2. QED
    BY <2>1, <1>2 DEF Behind
<1>15. QED
  BY <1>8, <1>9, <1>10, <1>11, <1>12, <1>13, <1>14 DEF LoopInv

\* A check that ends leaves the queue as it is.
LEMMA EndKeepsTurns ==
  ASSUME LoopInv, Behind, NEW c \in Check, run_periodically(c)
  PROVE  LoopInv' /\ Behind' /\ running' \subseteq running
<1>1. /\ UNCHANGED <<due, passed>> /\ c \in running /\ running' = running \ {c}
      /\ timer' = [timer EXCEPT ![c] = Period[c]]
  BY DEF run_periodically
<1>2. LoopTypeOK /\ Period[c] \in Nat
  BY WatchdogLoopAssumption DEF LoopInv
<1>3. LoopTypeOK'
  <2>1. timer' \in [Check -> Nat] /\ \A d \in Check : timer'[d] <= Period[d]
    BY <1>1, <1>2, WatchdogLoopAssumption DEF LoopTypeOK
  <2>2. QED
    BY <2>1, <1>1, <1>2 DEF LoopTypeOK
<1>4. \A d \in Check : d # c => timer'[d] = timer[d]
  BY <1>1, <1>2 DEF LoopTypeOK
<1>5. \A k \in DOMAIN due : due[k] # c /\ due[k] \in Check
  BY <1>1, <1>2 DEF LoopInv, LoopTypeOK
<1>6. Due' = Due
  BY <1>1 DEF Due
<1>7. \A k \in DOMAIN due : timer'[due[k]] = 0 /\ due[k] \notin running'
  BY <1>1, <1>4, <1>5 DEF LoopInv
<1>8. \A d \in running' : timer'[d] = 0
  BY <1>1, <1>2, <1>4 DEF LoopInv, LoopTypeOK
<1>9. Behind'
  BY <1>1 DEF Behind
<1>10. QED
  BY <1>1, <1>3, <1>6, <1>7, <1>8, <1>9 DEF LoopInv

\* The invariant of the loop, and what it says of a call.
LEMMA LoopStepInv ==
  ASSUME LoopInv, Behind, [LoopNext]_loopVars
  PROVE  /\ LoopInv' /\ Behind'
         /\ [\A c \in running' \ running : \A d \in Due : c \notin passed[d]]_loopVars
<1>1. CASE Tick
  <2>1. running' = running
    BY <1>1 DEF Tick
  <2>2. QED
    BY <1>1, <2>1, TickKeepsTurns
<1>2. CASE calls
  BY <1>2, CallKeepsTurns
<1>3. ASSUME NEW c \in Check, run_periodically(c)
      PROVE  /\ LoopInv' /\ Behind'
             /\ [\A d \in running' \ running : \A e \in Due : d \notin passed[e]]_loopVars
  BY <1>3, EndKeepsTurns
<1>4. CASE UNCHANGED loopVars
  <2>1. UNCHANGED <<timer, due, running, passed>>
    BY <1>4 DEF loopVars
  <2>2. Due' = Due
    BY <2>1 DEF Due
  <2>3. LoopInv' /\ Behind'
    BY <2>1, <2>2 DEF LoopInv, LoopTypeOK, Behind
  <2>4. QED
    BY <1>4, <2>3
<1>5. QED
  BY <1>1, <1>2, <1>3, <1>4 DEF LoopNext

\* At the start all checks are due and none has been called.
LEMMA LoopInitInv == main => LoopInv /\ Behind
<1> SUFFICES ASSUME main PROVE LoopInv /\ Behind
  OBVIOUS
<1>1. \A k \in DOMAIN fns : fns[k] \in Check
  BY WatchdogLoopAssumption
<1>2. LoopTypeOK
  BY WatchdogLoopAssumption DEF main, LoopTypeOK
<1>3. \A c \in Check : passed[c] = {} /\ timer[c] = 0
  BY DEF main
<1>4. QED
  BY <1>1, <1>2, <1>3, WatchdogLoopAssumption DEF main, LoopInv, Behind

\* Whatever the checks do and however long they take: while one waits for its
\* turn, no other is called twice.
THEOREM ChecksTakeTurns == LoopSpec => TakenInTurn
<1>1. main => LoopInv /\ Behind
  BY LoopInitInv
<1>2. /\ LoopInv /\ Behind /\ [LoopNext]_loopVars
      => /\ LoopInv' /\ Behind'
         /\ [\A c \in running' \ running : \A d \in Due : c \notin passed[d]]_loopVars
  BY LoopStepInv
<1>3. QED
  BY <1>1, <1>2, PTL DEF LoopSpec, TakenInTurn

-----------------------------------------------------------------------------
(* For any users, requests, workers and blocks: the faucet's books are     *)
(* right through every failure of a call.                                  *)
(*                                                                         *)
(* The promise is not inductive as it stands.  What a payment was made for *)
(* rests on what the reactions to a request were, from the moment it leaves*)
(* "waiting"; that the counter stays below the payments rests on every     *)
(* request that is being reported having been paid, and on counting the    *)
(* paid requests that are done, not all that were paid.                    *)

Stage == Open \cup {"unsent", "ignored", "failed", "done"}

Typed ==
  /\ stage \in [Request -> Stage] /\ requester \in [Request -> User]
  /\ approval \in [Request -> SUBSET (Approver \cup Stranger)]
  /\ paid \subseteq Request /\ TRANSACTION_COUNT \in Nat

\* A request that has left "waiting" towards a payment has an approval task that
\* is done, and one that is being reported has been paid.
StagesAreEarned ==
  \A r \in Request :
    /\ stage[r] \in {"approved", "queued", "paying", "reporting"} => approval[r] # {}
    /\ stage[r] = "reporting" => r \in paid
    /\ r \in paid => approval[r] # {}

Reported == {r \in paid : stage[r] = "done"}
CountIsOfReported == TRANSACTION_COUNT <= Cardinality(Reported)

FaucetInv ==
  Typed /\ StagesAreEarned /\ TracksOpenRequests /\ PaidOnce /\ CountIsOfReported

\* How the steps of one request change what is tracked: its stage stays open, is
\* opened by on_message, or is closed by the `finally' clause.
LEMMA KeepsOpen ==
  ASSUME TracksOpenRequests, NEW r \in Request, stage \in [Request -> Stage],
         NEW st \in Stage, stage[r] \in Open, st \in Open,
         stage' = [stage EXCEPT ![r] = st], UNCHANGED <<requester, ACTIVE_REQUESTS>>
  PROVE  TracksOpenRequests'
<1>1. \A q \in Request : (stage'[q] \in Open) <=> (stage[q] \in Open)
  OBVIOUS
<1>2. {q \in Request : stage'[q] \in Open} = {q \in Request : stage[q] \in Open}
  BY <1>1
<1>3. QED
  BY <1>1, <1>2 DEF TracksOpenRequests

\* The `finally' clause takes a closing request out of the tracked ones.
LEMMA Closes ==
  ASSUME TracksOpenRequests, NEW r \in Request, stage \in [Request -> Stage],
         NEW st, stage[r] \in Open, st \notin Open,
         stage' = [stage EXCEPT ![r] = st], UNCHANGED requester, Finally(r)
  PROVE  TracksOpenRequests'
<1>1. \A q \in Request : (stage'[q] \in Open) <=> (stage[q] \in Open /\ q # r)
  OBVIOUS
<1>2. {q \in Request : stage'[q] \in Open} = {q \in Request : stage[q] \in Open} \ {r}
  BY <1>1
<1>3. \A q \in Request : stage[q] \in Open /\ requester[q] = requester[r] => q = r
  BY DEF TracksOpenRequests
<1>4. ACTIVE_REQUESTS = {requester[q] : q \in {x \in Request : stage[x] \in Open}}
  BY DEF TracksOpenRequests
<1>5. ACTIVE_REQUESTS' = {requester[q] : q \in {x \in Request : stage'[x] \in Open}}
  BY <1>1, <1>3, <1>4 DEF Finally
<1>6. QED
  BY <1>1, <1>5 DEF TracksOpenRequests

\* on_message tracks the request it opens.
LEMMA Opens ==
  ASSUME TracksOpenRequests, NEW r \in Request, stage \in [Request -> Stage],
         NEW st \in Open, stage[r] = "unsent", requester[r] \notin ACTIVE_REQUESTS,
         stage' = [stage EXCEPT ![r] = st], UNCHANGED requester,
         ACTIVE_REQUESTS' = ACTIVE_REQUESTS \cup {requester[r]}
  PROVE  TracksOpenRequests'
<1>1. \A q \in Request : (stage'[q] \in Open) <=> (stage[q] \in Open \/ q = r)
  OBVIOUS
<1>2. \A q \in Request : stage[q] \in Open => requester[q] # requester[r]
  BY DEF TracksOpenRequests
<1>3. ACTIVE_REQUESTS = {requester[q] : q \in {x \in Request : stage[x] \in Open}}
  BY DEF TracksOpenRequests
<1>4. ACTIVE_REQUESTS' = {requester[q] : q \in {x \in Request : stage'[x] \in Open}}
  BY <1>1, <1>3
<1>5. QED
  BY <1>1, <1>2, <1>4 DEF TracksOpenRequests

\* Steps after which no further paid request is done leave the count's bound.
LEMMA CountKept ==
  ASSUME CountIsOfReported, Reported' = Reported, UNCHANGED TRANSACTION_COUNT
  PROVE  CountIsOfReported'
BY DEF CountIsOfReported

\* Every step of the handlers, the daemon and the users keeps the invariant.
LEMMA FaucetStepInv == FaucetInv /\ [FaucetNext]_faucetVars => FaucetInv'
<1> SUFFICES ASSUME FaucetInv, [FaucetNext]_faucetVars
             PROVE  FaucetInv'
  OBVIOUS
<1>t. Typed /\ StagesAreEarned /\ TracksOpenRequests /\ PaidOnce /\ CountIsOfReported
  BY DEF FaucetInv
<1>1. CASE new_block_callback \/ UNCHANGED faucetVars
  <2>1. UNCHANGED <<stage, requester, approval, ACTIVE_REQUESTS, TRANSACTION_COUNT, paid>>
    BY <1>1 DEF new_block_callback, faucetVars, faucetCounters
  <2>2. Reported' = Reported
    BY <2>1 DEF Reported
  <2>3. CountIsOfReported'
    BY <1>t, <2>1, <2>2, CountKept
  <2>4. Typed' /\ StagesAreEarned' /\ TracksOpenRequests' /\ PaidOnce'
    BY <1>t, <2>1 DEF Typed, StagesAreEarned, TracksOpenRequests, PaidOnce
  <2>5. QED
    BY <2>3, <2>4 DEF FaucetInv
<1>2. ASSUME NEW r \in Request, NEW parsed \in BOOLEAN, on_message(r, parsed)
      PROVE  FaucetInv'
  <2>1. /\ UNCHANGED <<requester, approval, TRANSACTION_COUNT, paid>>
        /\ stage[r] = "unsent"
    BY <1>2 DEF on_message, ToStage, faucetCounters
  <2>2. PICK st \in {"ignored", "too_many", "asking", "invalid"} : stage' = [stage EXCEPT ![r] = st]
    BY <1>2 DEF on_message, ToStage
  <2>3. r \notin paid
    BY <1>t, <2>1 DEF PaidOnce
  <2>4. Reported' = Reported
    BY <1>t, <2>1, <2>2, <2>3 DEF Reported, Typed
  <2>5. CountIsOfReported'
    BY <1>t, <2>1, <2>4, CountKept
  <2>6. Typed' /\ StagesAreEarned' /\ PaidOnce'
    BY <1>t, <2>1, <2>2, <2>3 DEF Typed, StagesAreEarned, PaidOnce, Stage, Open, Telling
  <2>7. TracksOpenRequests'
    <3>1. CASE requester[r] \in ACTIVE_REQUESTS
      <4>1. stage' = [stage EXCEPT ![r] = "ignored"] /\ UNCHANGED ACTIVE_REQUESTS
        BY <1>2, <3>1 DEF on_message, ToStage
      <4>2. \A q \in Request : (stage'[q] \in Open) <=> (stage[q] \in Open)
        BY <1>t, <2>1, <4>1 DEF Typed, Open, Telling
      <4>3. {q \in Request : stage'[q] \in Open} = {q \in Request : stage[q] \in Open}
        BY <4>2
      <4>4. QED
        BY <1>t, <2>1, <4>1, <4>2, <4>3 DEF TracksOpenRequests
    <3>2. CASE requester[r] \notin ACTIVE_REQUESTS
      <4>1. PICK s \in Open : stage' = [stage EXCEPT ![r] = s]
        BY <1>2, <3>2 DEF on_message, ToStage, Open, Telling
      <4>2. ACTIVE_REQUESTS' = ACTIVE_REQUESTS \cup {requester[r]}
        BY <1>2, <3>2 DEF on_message
      <4>3. QED
        BY <1>t, <2>1, <3>2, <4>1, <4>2, Opens DEF Typed
    <3>3. QED
      BY <3>1, <3>2
  <2>8. QED
    BY <2>5, <2>6, <2>7 DEF FaucetInv
<1>3. ASSUME NEW r \in Request, NEW u \in User, NEW emoji, reaction_add(r, u, emoji)
      PROVE  FaucetInv'
  <2>1. UNCHANGED <<stage, requester, ACTIVE_REQUESTS, TRANSACTION_COUNT, paid>>
    BY <1>3 DEF reaction_add, faucetCounters
  <2>2. \/ UNCHANGED approval
        \/ u \in Approver /\ approval' = [approval EXCEPT ![r] = {u}]
    BY <1>3 DEF reaction_add, check_approval
  <2>3. Reported' = Reported
    BY <2>1 DEF Reported
  <2>4. CountIsOfReported'
    BY <1>t, <2>1, <2>3, CountKept
  <2>5. Typed'
    BY <1>t, <2>1, <2>2 DEF Typed
  <2>6. \A q \in Request : approval[q] # {} => approval'[q] # {}
    BY <1>t, <2>2 DEF Typed
  <2>7. StagesAreEarned'
    BY <1>t, <2>1, <2>6 DEF StagesAreEarned
  <2>8. TracksOpenRequests' /\ PaidOnce'
    BY <1>t, <2>1 DEF TracksOpenRequests, PaidOnce
  <2>9. QED
    BY <2>4, <2>5, <2>7, <2>8 DEF FaucetInv
<1>3a. ASSUME NEW u \in Stranger, reaction_add_elsewhere(u)
      PROVE  FaucetInv'
  <2>1. UNCHANGED <<stage, requester, ACTIVE_REQUESTS, TRANSACTION_COUNT, paid>>
    BY <1>3a DEF reaction_add_elsewhere, faucetCounters
  <2>2. approval' = [r \in Request |-> IF stage[r] = "waiting" /\ approval[r] = {}
                                      THEN {u} ELSE approval[r]]
    BY <1>3a DEF reaction_add_elsewhere
  <2>3. Reported' = Reported
    BY <2>1 DEF Reported
  <2>4. CountIsOfReported'
    BY <1>t, <2>1, <2>3, CountKept
  <2>5. Typed'
    BY <1>t, <2>1, <2>2 DEF Typed
  <2>6. \A q \in Request : approval[q] # {} => approval'[q] # {}
    BY <1>t, <2>2 DEF Typed
  <2>7. StagesAreEarned'
    BY <1>t, <2>1, <2>6 DEF StagesAreEarned
  <2>8. TracksOpenRequests' /\ PaidOnce'
    BY <1>t, <2>1 DEF TracksOpenRequests, PaidOnce
  <2>9. QED
    BY <2>4, <2>5, <2>7, <2>8 DEF FaucetInv
<1>4. ASSUME NEW r \in Request,
             asked(r) \/ first_completed(r) \/ run_in_executor(r) \/ worker_takes(r)
      PROVE  FaucetInv'
  <2>1. UNCHANGED <<requester, approval, ACTIVE_REQUESTS, TRANSACTION_COUNT, paid>>
    BY <1>4 DEF asked, first_completed, run_in_executor, worker_takes, faucetCounters
  <2>2. stage[r] \in {"asking", "waiting", "approved", "queued"}
    BY <1>4 DEF asked, first_completed, run_in_executor, worker_takes, ToStage
  <2>3. PICK st \in {"waiting", "approved", "cancelled", "queued", "paying"} :
          /\ stage' = [stage EXCEPT ![r] = st]
          /\ st \in {"approved", "queued", "paying"} => approval[r] # {}
    BY <1>4, <1>t DEF asked, first_completed, run_in_executor, worker_takes, ToStage, StagesAreEarned
  <2>4. r \notin paid
    BY <1>t, <2>2 DEF PaidOnce
  <2>5. Reported' = Reported
    BY <1>t, <2>1, <2>3, <2>4 DEF Reported, Typed
  <2>6. CountIsOfReported'
    BY <1>t, <2>1, <2>5, CountKept
  <2>7. Typed' /\ StagesAreEarned' /\ PaidOnce'
    BY <1>t, <2>1, <2>3, <2>4 DEF Typed, StagesAreEarned, PaidOnce, Stage, Open, Telling
  <2>8. stage[r] \in Open /\ st \in Open /\ st \in Stage
    BY <2>2 DEF Open, Telling, Stage
  <2>9. TracksOpenRequests'
    BY <1>t, <2>1, <2>3, <2>8, KeepsOpen DEF Typed
  <2>10. QED
    BY <2>6, <2>7, <2>9 DEF FaucetInv
<1>5. ASSUME NEW r \in Request, faucet_transaction(r)
      PROVE  FaucetInv'
  <2>1. /\ UNCHANGED <<requester, approval, TRANSACTION_COUNT>>
        /\ stage[r] = "paying" /\ paid' = paid \cup {r}
    BY <1>5 DEF faucet_transaction, ToStage, faucetCounters
  <2>2. PICK st \in {"reporting", "failed"} : stage' = [stage EXCEPT ![r] = st]
    BY <1>5 DEF faucet_transaction, ToStage
  <2>3. r \notin paid
    BY <1>t, <2>1 DEF PaidOnce
  <2>4. Reported' = Reported
    BY <1>t, <2>1, <2>2, <2>3 DEF Reported, Typed
  <2>5. CountIsOfReported'
    BY <1>t, <2>1, <2>4, CountKept
  <2>6. Typed' /\ StagesAreEarned' /\ PaidOnce'
    BY <1>t, <2>1, <2>2 DEF Typed, StagesAreEarned, PaidOnce, Stage, Open, Telling
  <2>7. TracksOpenRequests'
    <3>1. CASE ToStage(r, "paying", "reporting") /\ UNCHANGED ACTIVE_REQUESTS
      <4>1. "paying" \in Open /\ "reporting" \in Open /\ "reporting" \in Stage
        BY DEF Open, Stage
      <4>2. QED
        BY <1>t, <2>1, <3>1, <4>1, KeepsOpen DEF Typed, ToStage
    <3>2. CASE ToStage(r, "paying", "failed") /\ Finally(r)
      <4>1. "paying" \in Open /\ "failed" \notin Open
        BY DEF Open, Telling
      <4>2. QED
        BY <1>t, <2>1, <3>2, <4>1, Closes DEF Typed, ToStage
    <3>3. QED
      BY <1>5, <3>1, <3>2 DEF faucet_transaction
  <2>8. QED
    BY <2>5, <2>6, <2>7 DEF FaucetInv
<1>6. ASSUME NEW r \in Request, reported(r)
      PROVE  FaucetInv'
  <2>1. /\ UNCHANGED <<requester, approval, paid>>
        /\ stage[r] = "reporting" /\ stage' = [stage EXCEPT ![r] = "done"]
        /\ TRANSACTION_COUNT' = TRANSACTION_COUNT + 1 /\ Finally(r)
    BY <1>6 DEF reported, ToStage
  <2>2. r \in paid
    BY <1>t, <2>1 DEF StagesAreEarned
  <2>3. Reported' = Reported \cup {r} /\ r \notin Reported
    BY <1>t, <2>1, <2>2 DEF Reported, Typed
  <2>4. IsFiniteSet(Reported)
    BY <1>t, FS_Subset, FaucetAssumption DEF Reported, Typed
  <2>5. Cardinality(Reported') = Cardinality(Reported) + 1 /\ Cardinality(Reported) \in Nat
    BY <2>3, <2>4, FS_AddElement, FS_CardinalityType
  <2>6. CountIsOfReported'
    BY <1>t, <2>1, <2>5 DEF CountIsOfReported, Typed
  <2>7. Typed' /\ StagesAreEarned' /\ PaidOnce'
    BY <1>t, <2>1 DEF Typed, StagesAreEarned, PaidOnce, Stage, Open, Telling
  <2>8. "reporting" \in Open /\ "done" \notin Open
    BY DEF Open, Telling
  <2>9. TracksOpenRequests'
    BY <1>t, <2>1, <2>8, Closes DEF Typed
  <2>10. QED
    BY <2>6, <2>7, <2>9 DEF FaucetInv
<1>7. ASSUME NEW r \in Request, told(r)
      PROVE  FaucetInv'
  <2>1. /\ UNCHANGED <<requester, approval, paid, TRANSACTION_COUNT>>
        /\ stage[r] \in Telling /\ stage' = [stage EXCEPT ![r] = "done"]
        /\ Finally(r)
    BY <1>7 DEF told, ToStage
  <2>2. r \notin paid
    BY <1>t, <2>1 DEF PaidOnce, Telling
  <2>3. Reported' = Reported
    BY <1>t, <2>1, <2>2 DEF Reported, Typed
  <2>4. CountIsOfReported'
    BY <1>t, <2>1, <2>3, CountKept
  <2>5. Typed' /\ StagesAreEarned' /\ PaidOnce'
    BY <1>t, <2>1 DEF Typed, StagesAreEarned, PaidOnce, Stage, Open, Telling
  <2>6. stage[r] \in Open /\ "done" \notin Open
    BY <2>1 DEF Open, Telling
  <2>7. TracksOpenRequests'
    BY <1>t, <2>1, <2>6, Closes DEF Typed
  <2>8. QED
    BY <2>4, <2>5, <2>7 DEF FaucetInv
<1>8. ASSUME NEW r \in Request, Raises(r)
      PROVE  FaucetInv'
  <2>1. /\ UNCHANGED <<requester, approval, paid, TRANSACTION_COUNT>>
        /\ stage[r] \in {"asking", "approved", "paying", "reporting"} \cup Telling
        /\ stage' = [stage EXCEPT ![r] = "failed"] /\ Finally(r)
    BY <1>8 DEF Raises, faucetCounters
  <2>2. stage[r] # "done"
    BY <2>1 DEF Telling
  <2>3. Reported' = Reported
    BY <1>t, <2>1, <2>2 DEF Reported, Typed
  <2>4. CountIsOfReported'
    BY <1>t, <2>1, <2>3, CountKept
  <2>5. Typed' /\ StagesAreEarned' /\ PaidOnce'
    BY <1>t, <2>1 DEF Typed, StagesAreEarned, PaidOnce, Stage, Open, Telling
  <2>6. stage[r] \in Open /\ "failed" \notin Open
    BY <2>1 DEF Open, Telling
  <2>7. TracksOpenRequests'
    BY <1>t, <2>1, <2>6, Closes DEF Typed
  <2>8. QED
    BY <2>4, <2>5, <2>7 DEF FaucetInv
<1>9. QED
  BY <1>1, <1>2, <1>3, <1>3a, <1>4, <1>5, <1>6, <1>7, <1>8 DEF FaucetNext, Proceeds

\* Whichever calls to Discord or the daemon raise, and however requests,
\* reactions and blocks interleave: users with a request under way are exactly
\* those tracked, funds go once and only to requests that an approver approved or
\* whose check raised, and the counter never exceeds the payments.
THEOREM BooksStayRight == FaucetSpec => []FaucetKeepsAccounts
<1>1. FaucetInit => FaucetInv
  <2> SUFFICES ASSUME FaucetInit PROVE FaucetInv
    OBVIOUS
  <2>1. Typed /\ StagesAreEarned /\ PaidOnce
    BY DEF FaucetInit, Typed, StagesAreEarned, PaidOnce, Stage
  <2>2. \A r \in Request : stage[r] \notin Open
    BY DEF FaucetInit, Open, Telling
  <2>3. TracksOpenRequests
    BY <2>2 DEF FaucetInit, TracksOpenRequests
  <2>4. Reported = {}
    BY DEF FaucetInit, Reported
  <2>5. CountIsOfReported
    BY <2>4, FS_EmptySet DEF FaucetInit, CountIsOfReported
  <2>6. QED
    BY <2>1, <2>3, <2>5 DEF FaucetInv
<1>2. FaucetInv => FaucetKeepsAccounts
  <2> SUFFICES ASSUME FaucetInv PROVE FaucetKeepsAccounts
    OBVIOUS
  <2>1. PaidWasApproved
    BY DEF FaucetInv, Typed, StagesAreEarned, PaidWasApproved
  <2>2. IsFiniteSet(paid)
    BY FS_Subset, FaucetAssumption DEF FaucetInv, Typed
  <2>3. /\ Cardinality(Reported) <= Cardinality(paid)
        /\ Cardinality(Reported) \in Nat /\ Cardinality(paid) \in Nat
    BY <2>2, FS_Subset, FS_CardinalityType DEF Reported
  <2>4. CountsOnlyPayments
    BY <2>3 DEF FaucetInv, Typed, CountIsOfReported, CountsOnlyPayments
  <2>5. QED
    BY <2>1, <2>4 DEF FaucetInv, FaucetKeepsAccounts
<1>3. QED
  BY <1>1, <1>2, FaucetStepInv, PTL DEF FaucetSpec
=============================================================================
