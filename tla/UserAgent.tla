------------------------------ MODULE UserAgent ------------------------------
(***************************************************************************)
(* The agent that sends test payments (services/coda-user-agent/agent.py). *)
(* Every batch of the schedule makes AGENT_TX_BATCH_SIZE attempts; each one*)
(* gets an account to pay to (created once), unlocks the sender's wallet   *)
(* and sends a payment.  Each call to the daemon may fail to connect, be   *)
(* answered with an error, or take effect and lose its answer; the daemon  *)
(* may restart, which locks the wallet again.                              *)
(***************************************************************************)
EXTENDS Naturals

CONSTANTS
  AGENT_TX_BATCH_SIZE,
  MaxAttempts   \* bound

ASSUME UserAgentAssumption ==
  AGENT_TX_BATCH_SIZE \in Nat \ {0} /\ MaxAttempts \in Nat

VARIABLES
  agent_pc, i,                                \* the call made next, attempts of the batch
  to_account,                           \* the cached account, 0 for None
  TRANSACTIONS_SENT, TRANSACTION_ERRORS,
  attempts,
  wallets, unlocked, payments           \* the daemon's: accounts created, lock, payments taken

agentCounters == <<TRANSACTIONS_SENT, TRANSACTION_ERRORS>>
agentVars == <<agent_pc, i, to_account, agentCounters, attempts, wallets, unlocked, payments>>

AgentInit ==
  /\ agent_pc = "idle" /\ i = 0 /\ to_account = 0
  /\ TRANSACTIONS_SENT = 0 /\ TRANSACTION_ERRORS = 0
  /\ attempts = 0 /\ wallets = 0 /\ unlocked = FALSE /\ payments = 0

-----------------------------------------------------------------------------
\* The end of an attempt: the next of the batch, or run_pending's sleep.
Ends ==
  /\ i' = (i + 1) % AGENT_TX_BATCH_SIZE
  /\ agent_pc' = IF i' = 0 THEN "idle" ELSE "attempt"

run_pending ==
  /\ agent_pc = "idle" /\ attempts < MaxAttempts /\ agent_pc' = "attempt"
  /\ UNCHANGED <<i, to_account, agentCounters, attempts, wallets, unlocked, payments>>

send_transaction ==
  /\ agent_pc = "attempt" /\ attempts < MaxAttempts
  /\ attempts' = attempts + 1
  /\ agent_pc' = IF to_account = 0 THEN "create" ELSE "unlock"
  /\ UNCHANGED <<i, to_account, agentCounters, wallets, unlocked, payments>>

\* create_wallet is answered.
get_to_account ==
  /\ agent_pc = "create" /\ agent_pc' = "unlock"
  /\ wallets' = wallets + 1 /\ to_account' = wallets'
  /\ UNCHANGED <<i, agentCounters, attempts, unlocked, payments>>

unlock_wallet ==
  /\ agent_pc = "unlock" /\ agent_pc' = "pay"
  /\ unlocked' = TRUE
  /\ UNCHANGED <<i, to_account, agentCounters, attempts, wallets, payments>>

\* create_wallet or unlock_wallet raises, after the daemon did what it was
\* asked or not; only a ConnectionError is counted.
unlock_raises ==
  /\ agent_pc \in {"create", "unlock"} /\ Ends
  /\ wallets' \in (IF agent_pc = "create" THEN {wallets, wallets + 1} ELSE {wallets})
  /\ unlocked' \in (IF agent_pc = "unlock" THEN {unlocked, TRUE} ELSE {unlocked})
  /\ TRANSACTION_ERRORS' \in {TRANSACTION_ERRORS, TRANSACTION_ERRORS + 1}
  /\ UNCHANGED <<to_account, TRANSACTIONS_SENT, attempts, payments>>

\* The daemon takes the payment when the wallet is (still) unlocked.
send_payment ==
  /\ agent_pc = "pay" /\ unlocked /\ Ends
  /\ payments' = payments + 1
  /\ TRANSACTIONS_SENT' = TRANSACTIONS_SENT + 1
  /\ UNCHANGED <<to_account, TRANSACTION_ERRORS, attempts, wallets, unlocked>>

\* *mutant*: an answer with errors counts as sent
payment_fails_counted ==
  /\ agent_pc = "pay" /\ Ends
  /\ TRANSACTIONS_SENT' = TRANSACTIONS_SENT + 1
  /\ UNCHANGED <<to_account, TRANSACTION_ERRORS, attempts, wallets, unlocked, payments>>

\* It raises, its answer holds errors, or its answer is lost.
payment_fails ==
  /\ agent_pc = "pay" /\ Ends
  /\ payments' \in (IF unlocked THEN {payments, payments + 1} ELSE {payments})
  /\ TRANSACTION_ERRORS' = TRANSACTION_ERRORS + 1
  /\ UNCHANGED <<to_account, TRANSACTIONS_SENT, attempts, wallets, unlocked>>

DaemonRestarts ==
  /\ unlocked /\ unlocked' = FALSE
  /\ UNCHANGED <<agent_pc, i, to_account, agentCounters, attempts, wallets, payments>>

Agent ==
  \/ run_pending \/ send_transaction \/ get_to_account \/ unlock_wallet
  \/ unlock_raises \/ send_payment \/ payment_fails

AgentNext == Agent \/ DaemonRestarts

\* The calls of the daemon, which may keep the script waiting.
Calling == {"create", "unlock", "pay"}

\* The script runs on where it waits for nobody.
AgentFairness == WF_agentVars(agent_pc \notin Calling /\ Agent)

AgentSpec == AgentInit /\ [][AgentNext]_agentVars /\ AgentFairness

-----------------------------------------------------------------------------
AgentTypeOK ==
  /\ agent_pc \in {"idle", "attempt", "create", "unlock", "pay"}
  /\ i \in 0..(AGENT_TX_BATCH_SIZE - 1) /\ to_account \in 0..wallets
  /\ TRANSACTIONS_SENT \in Nat /\ TRANSACTION_ERRORS \in Nat
  /\ attempts \in 0..MaxAttempts /\ wallets \in Nat
  /\ unlocked \in BOOLEAN /\ payments \in Nat

\* What the counters say of the daemon's payments: every one counted as sent
\* was taken, and one that was taken but not counted was counted as an error.
CountersBoundPayments ==
  /\ TRANSACTIONS_SENT <= payments
  /\ payments <= TRANSACTIONS_SENT + TRANSACTION_ERRORS

\* No failure of a call ends the agent: once a batch has begun every attempt of
\* it is made and the schedule goes on, up to the bound, as long as each call
\* ends in an answer or an exception.
BatchesGoOn ==
  (\A call \in Calling : []<>(agent_pc # call)) =>
    (agent_pc = "attempt" ~> attempts = MaxAttempts)
=============================================================================
