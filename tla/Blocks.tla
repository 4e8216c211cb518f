------------------------------- MODULE Blocks -------------------------------
(***************************************************************************)
(* The universe of blocks ("external transitions") that a node may be      *)
(* given.  A block is identified by its state hash; everything the         *)
(* transition frontier asks of a block is a function of that hash, so it   *)
(* is a constant here: its parent, its blockchain length, its ancestors,   *)
(* the verdict of the chain-selection rule on it, whether the scan state   *)
(* emitted a ledger proof in it, and the protocol states its scan state    *)
(* still refers to.                                                        *)
(***************************************************************************)
EXTENDS Integers

CONSTANTS
  Block,      \* state hashes
  Genesis,    \* the state hash of the genesis block
  Parent,     \* parent_hash of every block but the genesis block
  Height,     \* blockchain_length
  Anc,        \* ancestors of a block, the block included
  Take,       \* <<existing, candidate>> for which select answers `Take
  Emits,      \* blocks with just_emitted_a_proof
  LedgerOf,   \* snarked ledger a block refers to, named by the emitting block
  Required,   \* required_state_hashes of the scan state at a block
  TxnStates   \* protocol states of the transactions a block's proof covers

ASSUME BlockAssumption ==
  /\ Genesis \in Block
  /\ Parent \in [Block \ {Genesis} -> Block]
  /\ Height \in [Block -> Nat]
  /\ \A b \in Block \ {Genesis} : Height[b] = Height[Parent[b]] + 1

ASSUME AncestorAssumption ==
  /\ Anc \in [Block -> SUBSET Block]
  /\ Anc[Genesis] = {Genesis}
  /\ \A b \in Block \ {Genesis} : Anc[b] = Anc[Parent[b]] \cup {b}

(***************************************************************************)
(* Every block descends from the genesis block: a set that holds the       *)
(* genesis block and the children of its members holds every block.        *)
(***************************************************************************)
ASSUME DescentAssumption ==
  \A S \in SUBSET Block :
    /\ Genesis \in S
    /\ \A b \in Block \ {Genesis} : Parent[b] \in S => b \in S
    => S = Block

(***************************************************************************)
(* Chain selection between blocks of one frontier.  The fork is            *)
(* short-range, so `select' compares the lengths first and a strict order  *)
(* (the VRF output, then the state hash) among equal lengths.              *)
(***************************************************************************)
ASSUME SelectAssumption ==
  /\ Take \subseteq Block \X Block
  /\ \A a, b \in Block : Height[b] > Height[a] => <<a, b>> \in Take
  /\ \A a, b \in Block : Height[b] < Height[a] => <<a, b>> \notin Take
  /\ \A a \in Block : <<a, a>> \notin Take
  /\ \A a, b, c \in Block :
       <<a, b>> \in Take /\ <<b, c>> \in Take => <<a, c>> \in Take

ASSUME LedgerAssumption ==
  /\ Emits \subseteq Block \ {Genesis}
  /\ LedgerOf \in [Block -> Block]
  /\ LedgerOf[Genesis] = Genesis
  /\ \A b \in Block \ {Genesis} :
       LedgerOf[b] = IF b \in Emits THEN b ELSE LedgerOf[Parent[b]]

(***************************************************************************)
(* A block's scan state holds transactions its parent's scan state held,   *)
(* and transactions whose protocol state is the parent; a proof emitted in *)
(* a block covers transactions the parent's scan state held.               *)
(***************************************************************************)
ASSUME ScanStateAssumption ==
  /\ Required \in [Block -> SUBSET Block]
  /\ TxnStates \in [Emits -> SUBSET Block]
  /\ \A b \in Block \ {Genesis} :
       Required[b] \subseteq Required[Parent[b]] \cup {Parent[b]}
  /\ \A b \in Emits : TxnStates[b] \subseteq Required[Parent[b]]
=============================================================================
