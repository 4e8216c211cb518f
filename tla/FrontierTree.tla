---------------------------- MODULE FrontierTree ----------------------------
(***************************************************************************)
(* A frontier as a value, and what full_frontier/full_frontier.ml computes *)
(* from it: the diffs of a new breadcrumb and the frontier they make.  The *)
(* modules that grow, load, persist and replay frontiers share these       *)
(* operators.  A frontier is a record:                                     *)
(*   root, best_tip     the two mutable pointers                           *)
(*   successor_hashes   node -> its children; its domain is the hash table *)
(*   length             node -> the length stored when it was added        *)
(*   protocol_states    protocol_states_for_root_scan_state                *)
(***************************************************************************)
EXTENDS Blocks, Sequences

CONSTANT MaxLength    \* max_length, the protocol constant k

ASSUME MaxLengthAssumption == MaxLength \in Nat \ {0}

-----------------------------------------------------------------------------
(* Queries. *)

Table(f) == DOMAIN f.successor_hashes

create(r) ==
  [ root |-> r, best_tip |-> r
  , successor_hashes |-> [h \in {r} |-> {}]
  , length |-> [h \in {r} |-> 0]
  , protocol_states |-> Required[r] ]

\* Below h: what every set that holds h's successors and is closed under
\* successors has in common.
successors_rec(f, h) ==
  { d \in Table(f) :
      \A S \in SUBSET Table(f) :
        /\ f.successor_hashes[h] \subseteq S
        /\ \A x \in S : f.successor_hashes[x] \subseteq S
        => d \in S }

\* The blocks on the path from the root (left out) to b, b included.
hash_path(f, b) == Anc[b] \ Anc[f.root]

\* Mutant: some successor of the root.
Heir_any(f, b) == CHOOSE h \in f.successor_hashes[f.root] : TRUE

\* The first block of that path.
Heir(f, b) == CHOOSE h \in hash_path(f, b) : Parent[h] = f.root

\* Mutant: looks in the table only.
find_protocol_state_in_table(f, table) == table

\* The hashes whose protocol state is found, when the table holds `table'.
find_protocol_state(f, table) == table \cup f.protocol_states

-----------------------------------------------------------------------------
(* Diffs. *)

New_node(b) == [type |-> "New_node", block |-> b]

Best_tip_changed(b) == [type |-> "Best_tip_changed", block |-> b]

Root_transitioned(h, garbage) ==
  [ type |-> "Root_transitioned", new_root |-> h, garbage |-> garbage
  , just_emitted_a_proof |-> h \in Emits ]

heir_siblings(f, heir) == f.successor_hashes[f.root] \ {heir}

\* Mutants: the siblings without what is below them; all but the heir.
garbage_without_descendants(f, heir) == heir_siblings(f, heir)

garbage_with_heirs_children(f, heir) == successors_rec(f, f.root) \ {heir}

garbage_breadcrumbs(f, heir) ==
  UNION { {s} \cup successors_rec(f, s) : s \in heir_siblings(f, heir) }

calculate_root_transition_diff(f, heir) ==
  Root_transitioned(heir, garbage_breadcrumbs(f, heir))

\* Mutant: measures the parent and not the new block.
TooLong_off_by_one(f, b) == f.length[Parent[b]] - f.length[f.root] > MaxLength

TooLong(f, b) == f.length[Parent[b]] + 1 - f.length[f.root] > MaxLength

\* Mutant: a root transition comes without a new best tip.
calculate_diffs_without_tip(f, b) ==
  LET node == New_node(b)
      root == calculate_root_transition_diff(f, Heir(f, b))
      taken == <<f.best_tip, b>> \in Take
  IN  IF TooLong(f, b) THEN << node, root >>
      ELSE IF taken THEN << node, Best_tip_changed(b) >> ELSE << node >>

calculate_diffs(f, b) ==
  LET node == New_node(b)
      root == calculate_root_transition_diff(f, Heir(f, b))
      tip  == Best_tip_changed(b)
      taken == <<f.best_tip, b>> \in Take
  IN  CASE  TooLong(f, b) /\  taken -> << node, root, tip >>
        []  TooLong(f, b) /\ ~taken -> << node, root >>
        [] ~TooLong(f, b) /\  taken -> << node, tip >>
        [] ~TooLong(f, b) /\ ~taken -> << node >>

-----------------------------------------------------------------------------
(* Applying diffs. *)

\* Mutant: the new node is not put into the table.
AddNode_to_parent_only(f, b) ==
  [f EXCEPT !.successor_hashes[Parent[b]] = @ \cup {b},
            !.length = [h \in DOMAIN @ \cup {b} |-> 0]]

AddNode(f, b) ==
  LET p == Parent[b] IN
  [ root |-> f.root, best_tip |-> f.best_tip
  , successor_hashes |-> [h \in Table(f) \cup {b} |->
                            IF h = b THEN {}
                            ELSE IF h = p THEN f.successor_hashes[p] \cup {b}
                            ELSE f.successor_hashes[h]]
  , length |-> [h \in Table(f) \cup {b} |->
                  IF h = b THEN f.length[p] + 1 ELSE f.length[h]]
  , protocol_states |-> f.protocol_states ]

Kept(table, f, garbage) == table \ (garbage \cup {f.root})

move_root(f, new_root, garbage) ==
  LET kept == Kept(Table(f), f, garbage) IN
  [ root |-> new_root, best_tip |-> f.best_tip
  , successor_hashes |-> [h \in kept |-> f.successor_hashes[h]]
  , length |-> [h \in kept |-> f.length[h]]
  , protocol_states |-> Required[new_root] ]

apply_diff(f, d) ==
  CASE d.type = "New_node" -> AddNode(f, d.block)
    [] d.type = "Best_tip_changed" -> [f EXCEPT !.best_tip = d.block]
    [] d.type = "Root_transitioned" -> move_root(f, d.new_root, d.garbage)

apply_diffs(f, ds) ==
  LET f1 == apply_diff(f, ds[1])
      f2 == IF Len(ds) > 1 THEN apply_diff(f1, ds[2]) ELSE f1
  IN  IF Len(ds) > 2 THEN apply_diff(f2, ds[3]) ELSE f2

-----------------------------------------------------------------------------
(* The lookups of calculate_diffs and apply_diffs that raise when they     *)
(* fail.  The transactions of an emitted proof are applied when the        *)
(* garbage and the old root have left the table and protocol_states is     *)
(* still the old root's.                                                   *)

LookupsSucceed(f, b) ==
  /\ {f.root, f.best_tip, Parent[b]} \subseteq Table(f)
  /\ b \notin Table(f)
  /\ TooLong(f, b) =>
       LET heir == Heir(f, b)
           garbage == garbage_breadcrumbs(f, heir)
       IN  /\ heir \in Table(f)
           /\ Required[heir] \subseteq f.protocol_states \cup {f.root}
           /\ heir \in Emits =>
                TxnStates[heir] \subseteq
                  find_protocol_state(f, Kept(Table(f) \cup {b}, f, garbage))

-----------------------------------------------------------------------------
(* Sound frontiers. *)

IsFrontier(f) ==
  LET T == Table(f) IN
  /\ T \subseteq Block
  /\ f \in [ root : Block, best_tip : Block
           , successor_hashes : [T -> SUBSET Block]
           , length : [T -> Nat]
           , protocol_states : SUBSET Block ]

\* The table is a tree below the root: the parent of every other node is in
\* it and lists the node, and nodes list exactly their children.
IsTree(f) ==
  /\ f.root \in Table(f)
  /\ \A h \in Table(f) : f.root \in Anc[h]
  /\ \A h \in Table(f) \ {f.root} : h # Genesis /\ Parent[h] \in Table(f)
  /\ \A h \in Table(f) : f.successor_hashes[h] =
       { c \in Table(f) \ {f.root} : Parent[c] = h }

\* No block is more than n blocks above the root, in blockchain length.
Within(f, n) ==
  \A h \in Table(f) : Height[h] - Height[f.root] \in 0 .. n

\* A tree whose stored lengths agree with the blockchain lengths, with the
\* protocol states of its root.
Sound(f) ==
  /\ IsFrontier(f)
  /\ IsTree(f)
  /\ \A h \in Table(f) :
       f.length[h] - f.length[f.root] = Height[h] - Height[f.root]
  /\ f.protocol_states = Required[f.root]
=============================================================================
