------------------------------- MODULE Sidecar -------------------------------
(***************************************************************************)
(* The block producers' sidecar (services/mina-bp-stats/sidecar): it waits *)
(* until the node is SYNCED, then uploads, every few minutes, the block    *)
(* FINALIZATION_THRESHOLD below the tip the previous answer reported.  The *)
(* node moves between any two of its requests: it adds blocks, restarts    *)
(* with the blocks it had persisted, and catches up.  On any exception the *)
(* sidecar sleeps and starts over.                                         *)
(***************************************************************************)
EXTENDS Integers

CONSTANTS
  FINALIZATION_THRESHOLD,
  K,          \* blocks below the tip the node can still serve
  MaxLength   \* bound: the chain's length

ASSUME SidecarAssumption ==
  /\ FINALIZATION_THRESHOLD \in Nat /\ K \in Nat /\ MaxLength \in Nat
  /\ FINALIZATION_THRESHOLD <= K

VARIABLES
  syncStatus, blockchainLength,   \* the node's
  sidecar_pc,
  current_finalized_tip,
  block_data,                     \* the answer fetched last: height and length
  fellBack                        \* the node's chain got shorter since the tip was set

node == <<syncStatus, blockchainLength>>
sidecarVars == <<node, sidecar_pc, current_finalized_tip, block_data, fellBack>>

Statuses == {"BOOTSTRAP", "CATCHUP", "SYNCED"}
Heights == (1 - FINALIZATION_THRESHOLD)..MaxLength

SidecarInit ==
  /\ syncStatus \in Statuses /\ blockchainLength \in 1..MaxLength
  /\ sidecar_pc = "init" /\ current_finalized_tip = 0
  /\ block_data = [height |-> 0, length |-> 0] /\ fellBack = FALSE

-----------------------------------------------------------------------------
\* The node (external).
NodeGrows ==
  /\ blockchainLength < MaxLength /\ syncStatus # "BOOTSTRAP"
  /\ blockchainLength' = blockchainLength + 1
  /\ syncStatus' \in {"CATCHUP", "SYNCED"}
  /\ UNCHANGED <<sidecar_pc, current_finalized_tip, block_data, fellBack>>

NodeRestarts ==
  /\ blockchainLength' \in 1..blockchainLength
  /\ syncStatus' = "CATCHUP"
  /\ fellBack' = (fellBack \/ blockchainLength' < blockchainLength)
  /\ UNCHANGED <<sidecar_pc, current_finalized_tip, block_data>>

NodeSyncs ==
  /\ syncStatus' \in Statuses \ {syncStatus}
  /\ UNCHANGED <<blockchainLength, sidecar_pc, current_finalized_tip, block_data, fellBack>>

-----------------------------------------------------------------------------
SetTip(length) ==
  /\ current_finalized_tip' = length - FINALIZATION_THRESHOLD
  /\ fellBack' = FALSE

\* A turn of check_mina_node_sync_state_and_fetch_head that succeeds; the
\* others (another status, an exception) leave everything as it was.
check_mina_node_sync_state_and_fetch_head ==
  /\ sidecar_pc = "init" /\ syncStatus = "SYNCED"
  /\ SetTip(blockchainLength) /\ sidecar_pc' = "fetch"
  /\ UNCHANGED <<node, block_data>>

\* The node has a block at the height: it answers, whatever its sync status.
Served(h) ==
  /\ syncStatus # "BOOTSTRAP"
  /\ 1 <= h /\ h <= blockchainLength /\ blockchainLength - K <= h

fetch_block ==
  /\ sidecar_pc = "fetch" /\ Served(current_finalized_tip)
  /\ block_data' = [height |-> current_finalized_tip, length |-> blockchainLength]
  /\ sidecar_pc' = "send"
  /\ UNCHANGED <<node, current_finalized_tip, fellBack>>

\* *mutant*: the new tip is the node's, not the finalized one
send_update_tip ==
  /\ sidecar_pc = "send" /\ sidecar_pc' = "sleep"
  /\ current_finalized_tip' = block_data.length
  /\ fellBack' = (blockchainLength < block_data.length)
  /\ UNCHANGED <<node, block_data>>

\* The upload, and the new tip from the same answer (which by now may be
\* longer than the node's chain).
send_update ==
  /\ sidecar_pc = "send" /\ sidecar_pc' = "sleep"
  /\ current_finalized_tip' = block_data.length - FINALIZATION_THRESHOLD
  /\ fellBack' = (blockchainLength < block_data.length)
  /\ UNCHANGED <<node, block_data>>

\* time.sleep(FETCH_INTERVAL)
wake ==
  /\ sidecar_pc = "sleep" /\ sidecar_pc' = "fetch"
  /\ UNCHANGED <<node, current_finalized_tip, block_data, fellBack>>

\* Any exception: the request to the node fails, whether it could serve the
\* block or not, or the upload does.
sidecar_raises ==
  /\ sidecar_pc \in {"fetch", "send"} /\ sidecar_pc' = "init"
  /\ UNCHANGED <<node, current_finalized_tip, block_data, fellBack>>

Loop == check_mina_node_sync_state_and_fetch_head \/ fetch_block \/ send_update \/ wake

SidecarNext == NodeGrows \/ NodeRestarts \/ NodeSyncs \/ Loop \/ sidecar_raises

\* The script wakes up.  Its requests have no time limit: none need ever end,
\* and if they end, none need succeed.
SidecarFairness == WF_sidecarVars(wake)

SidecarSpec == SidecarInit /\ [][SidecarNext]_sidecarVars /\ SidecarFairness

-----------------------------------------------------------------------------
SidecarTypeOK ==
  /\ syncStatus \in Statuses /\ blockchainLength \in 1..MaxLength
  /\ sidecar_pc \in {"init", "fetch", "send", "sleep"}
  /\ current_finalized_tip \in Heights \cup {0}
  /\ block_data \in [height : Heights \cup {0}, length : 0..MaxLength]
  /\ fellBack \in BOOLEAN

\* A block is uploaded only when it is FINALIZATION_THRESHOLD below the tip of
\* the very answer it came with, as long as the node's chain has not become
\* shorter since the tip was set: growth and catch-up between the two requests
\* never make an unfinalized block pass for a finalized one.
FinalizedUnlessNodeFellBack ==
  sidecar_pc = "send" /\ ~fellBack => block_data.length - block_data.height >= FINALIZATION_THRESHOLD

\* When the node stays synced with a chain that is long enough, the sidecar
\* asks again and again for a block that the node serves: no height that it
\* cannot serve keeps the sidecar failing, whichever requests fail, as long as
\* each ends and a synced node's status is told at last.
UploadsGoOn ==
  /\ <>[](syncStatus = "SYNCED" /\ blockchainLength > FINALIZATION_THRESHOLD)
  /\ \A request \in {"init", "fetch", "send"} : []<>(sidecar_pc # request)
  => []<>(sidecar_pc = "fetch" /\ Served(current_finalized_tip))
=============================================================================
