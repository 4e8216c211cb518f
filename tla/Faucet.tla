------------------------------- MODULE Faucet -------------------------------
(***************************************************************************)
(* The Discord bot that hands out testnet funds (services/faucet).  Each   *)
(* `$request' message runs its own on_message coroutine; `stage' names the *)
(* await at which the coroutine of a request is, where those of the others,*)
(* block notifications and reactions run.  A payment is made by a thread   *)
(* of an executor.  Any call to Discord or to the daemon may raise, and so *)
(* may the check of a reaction.                                            *)
(***************************************************************************)
EXTENDS Naturals, FiniteSets

CONSTANTS
  User,        \* members of the channel
  Approver,    \* those with the faucet-approvers role
  Stranger,    \* users as a direct message names them, without roles
  Request,     \* `$request' messages
  MaxWorkers,  \* threads of the executor
  MaxBlocks    \* bound: block notifications

ASSUME FaucetAssumption ==
  /\ Approver \subseteq User /\ Stranger \cap User = {} /\ IsFiniteSet(Request)
  /\ MaxWorkers \in Nat \ {0} /\ MaxBlocks \in Nat

VARIABLES
  stage,                        \* of each request
  requester,                    \* its author, once it arrived
  cancel, approval,             \* the two tasks that wait for a reaction: whose ended them
  ACTIVE_REQUESTS,              \* users with a request
  SENT_TRANSACTION_THIS_BLOCK,
  TRANSACTION_COUNT, PLEASE_WAIT_ERRORS,
  paid,                         \* requests the daemon has a payment of
  blocks                        \* notifications received

faucetCounters == <<SENT_TRANSACTION_THIS_BLOCK, TRANSACTION_COUNT, PLEASE_WAIT_ERRORS>>
faucetVars == <<stage, requester, cancel, approval, ACTIVE_REQUESTS, faucetCounters, paid, blocks>>

Telling == {"cancelled", "too_many", "invalid"}
Open == {"asking", "waiting", "approved", "queued", "paying", "reporting"} \cup Telling

FaucetInit ==
  /\ stage = [r \in Request |-> "unsent"]
  /\ requester \in [Request -> User]
  /\ cancel = [r \in Request |-> {}] /\ approval = [r \in Request |-> {}]
  /\ ACTIVE_REQUESTS = {} /\ SENT_TRANSACTION_THIS_BLOCK = FALSE
  /\ TRANSACTION_COUNT = 0 /\ PLEASE_WAIT_ERRORS = 0
  /\ paid = {} /\ blocks = 0

-----------------------------------------------------------------------------
new_block_callback ==
  /\ blocks < MaxBlocks
  /\ blocks' = blocks + 1
  /\ SENT_TRANSACTION_THIS_BLOCK' = FALSE
  /\ UNCHANGED <<stage, requester, cancel, approval, ACTIVE_REQUESTS,
                 TRANSACTION_COUNT, PLEASE_WAIT_ERRORS, paid>>

ToStage(r, from, to) == stage[r] = from /\ stage' = [stage EXCEPT ![r] = to]

\* on_message up to the first await of the request: it is ignored while its
\* author has another; otherwise the author is tracked and, when the message
\* has a public key and the block has no payment yet, the mods are asked.
on_message(r, parsed) ==
  /\ IF requester[r] \in ACTIVE_REQUESTS
     THEN ToStage(r, "unsent", "ignored") /\ UNCHANGED ACTIVE_REQUESTS
     ELSE /\ ToStage(r, "unsent", IF SENT_TRANSACTION_THIS_BLOCK THEN "too_many"
                               ELSE IF parsed THEN "asking" ELSE "invalid")
          /\ ACTIVE_REQUESTS' = ACTIVE_REQUESTS \cup {requester[r]}
  /\ UNCHANGED <<requester, cancel, approval, faucetCounters, paid, blocks>>

\* *mutant*: the entry is deleted on the way out of a normal return only
Finally_skipped(r) ==
  ACTIVE_REQUESTS' = IF stage'[r] = "failed" THEN ACTIVE_REQUESTS
                     ELSE ACTIVE_REQUESTS \ {requester[r]}

\* finally: del ACTIVE_REQUESTS[requester.id]
Finally(r) == ACTIVE_REQUESTS' = ACTIVE_REQUESTS \ {requester[r]}

\* An await of the coroutine raises.
Raises(r) ==
  /\ stage[r] \in {"asking", "approved", "paying", "reporting"} \cup Telling
  /\ stage' = [stage EXCEPT ![r] = "failed"]
  /\ Finally(r)
  /\ UNCHANGED <<requester, cancel, approval, faucetCounters, paid, blocks>>

\* The approval message is sent and both tasks wait for a reaction to it.
asked(r) ==
  /\ ToStage(r, "asking", "waiting")
  /\ UNCHANGED <<requester, cancel, approval, ACTIVE_REQUESTS, faucetCounters, paid, blocks>>

check_approval(r, u) == u \in Approver

check_cancel(r, u) == u = requester[r]

\* reaction_add, dispatched to the task it satisfies.
reaction_add(r, u, emoji) ==
  /\ stage[r] = "waiting"
  /\ \/ /\ emoji = "thumbsup" /\ check_approval(r, u) /\ approval[r] = {}
        /\ approval' = [approval EXCEPT ![r] = {u}] /\ UNCHANGED cancel
     \/ /\ emoji = "cross" /\ check_cancel(r, u) /\ cancel[r] = {}
        /\ cancel' = [cancel EXCEPT ![r] = {u}] /\ UNCHANGED approval
  /\ UNCHANGED <<stage, requester, ACTIVE_REQUESTS, faucetCounters, paid, blocks>>

\* A reaction in a direct message reaches every check that waits: the author
\* has no `roles', check_approval raises, and wait_for ends with the exception.
\* check_cancel compares the messages first and is not met.
reaction_add_elsewhere(u) ==
  /\ \E r \in Request : stage[r] = "waiting" /\ approval[r] = {}
  /\ approval' = [r \in Request |-> IF stage[r] = "waiting" /\ approval[r] = {}
                                  THEN {u} ELSE approval[r]]
  /\ UNCHANGED <<stage, requester, cancel, ACTIVE_REQUESTS, faucetCounters, paid, blocks>>

\* asyncio.wait returns some time after a task is done: both may be by then.
\* Nobody asks the approval task for its result: a failed one is in `done' too.
first_completed(r) ==
  /\ cancel[r] \cup approval[r] # {}
  /\ ToStage(r, "waiting", IF approval[r] # {} THEN "approved" ELSE "cancelled")
  /\ UNCHANGED <<requester, cancel, approval, ACTIVE_REQUESTS, faucetCounters, paid, blocks>>

\* 'Transaction Approved' is sent; the payment is given to the executor.
run_in_executor(r) ==
  /\ ToStage(r, "approved", "queued")
  /\ UNCHANGED <<requester, cancel, approval, ACTIVE_REQUESTS, faucetCounters, paid, blocks>>

worker_takes(r) ==
  /\ Cardinality({q \in Request : stage[q] = "paying"}) < MaxWorkers
  /\ ToStage(r, "queued", "paying")
  /\ UNCHANGED <<requester, cancel, approval, ACTIVE_REQUESTS, faucetCounters, paid, blocks>>

\* The daemon accepts the payment; its answer arrives, or is lost and raises.
faucet_transaction(r) ==
  /\ paid' = paid \cup {r}
  /\ \/ ToStage(r, "paying", "reporting") /\ UNCHANGED ACTIVE_REQUESTS
     \/ ToStage(r, "paying", "failed") /\ Finally(r)
  /\ UNCHANGED <<requester, cancel, approval, faucetCounters, blocks>>

\* 'Transaction Sent!' is sent.  SENT_TRANSACTION_THIS_BLOCK = True is
\* commented out.
reported(r) ==
  /\ ToStage(r, "reporting", "done")
  /\ TRANSACTION_COUNT' = TRANSACTION_COUNT + 1
  /\ Finally(r)
  /\ UNCHANGED <<requester, cancel, approval, paid, blocks,
                 SENT_TRANSACTION_THIS_BLOCK, PLEASE_WAIT_ERRORS>>

\* 'Transaction Cancelled!', "I've sent too many" or 'Invalid Parameters!!'
told(r) ==
  /\ stage[r] \in Telling /\ ToStage(r, stage[r], "done")
  /\ PLEASE_WAIT_ERRORS' = PLEASE_WAIT_ERRORS
                           + (IF stage[r] = "too_many" THEN 1 ELSE 0)
  /\ Finally(r)
  /\ UNCHANGED <<requester, cancel, approval, paid, blocks,
                 SENT_TRANSACTION_THIS_BLOCK, TRANSACTION_COUNT>>

\* What the event loop and the executor do by themselves for a request.
Proceeds(r) ==
  \/ asked(r) \/ first_completed(r) \/ run_in_executor(r) \/ worker_takes(r)
  \/ faucet_transaction(r) \/ reported(r) \/ told(r)

FaucetNext ==
  \/ new_block_callback
  \/ \E u \in Stranger : reaction_add_elsewhere(u)
  \/ \E r \in Request :
       \/ \E parsed \in BOOLEAN : on_message(r, parsed)
       \/ \E u \in User, emoji \in {"thumbsup", "cross"} : reaction_add(r, u, emoji)
       \/ Proceeds(r) \/ Raises(r)

\* The event loop runs every coroutine that can go on.  Nobody has to react to
\* an approval message, and the daemon may never answer a payment.
FaucetFairness ==
  \A r \in Request : WF_faucetVars(stage[r] # "paying" /\ (Proceeds(r) \/ Raises(r)))

FaucetSpec == FaucetInit /\ [][FaucetNext]_faucetVars /\ FaucetFairness

-----------------------------------------------------------------------------
\* ACTIVE_REQUESTS tracks exactly the users with a request under way, and no
\* user has two, whichever call raised: nobody is locked out of the faucet and
\* nobody is served twice at once.
TracksOpenRequests ==
  /\ ACTIVE_REQUESTS = {requester[r] : r \in {q \in Request : stage[q] \in Open}}
  /\ \A q, r \in Request :
       stage[q] \in Open /\ stage[r] \in Open /\ requester[q] = requester[r] => q = r

\* Funds leave the faucet only for a request that an approver has approved, or
\* over whose check a stranger's reaction raised while it waited.
PaidWasApproved == \A r \in paid : approval[r] \cap (Approver \cup Stranger) # {}

\* The counter of sent transactions never exceeds the payments made.
CountsOnlyPayments == TRANSACTION_COUNT <= Cardinality(paid)

\* A payment is made once: after it, its request never reaches the executor
\* again.
PaidOnce == \A r \in paid : stage[r] \in {"reporting", "done", "failed"}

\* The faucet's books are right through every failure of a call: who has a
\* request, what was approved, what was paid and what was counted agree.
FaucetKeepsAccounts ==
  TracksOpenRequests /\ PaidWasApproved /\ PaidOnce /\ CountsOnlyPayments

\* A request that a mod approves or its author cancels comes to an end, and
\* its author may ask again, unless the daemon leaves a payment without any
\* answer: no request waits on another for ever.
ReactionEndsRequest ==
  (\A r \in Request : []<>(stage[r] # "paying")) =>
  \A r \in Request :
    cancel[r] \cup approval[r] # {} ~> stage[r] \in {"done", "failed"}
=============================================================================
