---------------------------- MODULE FullFrontier ----------------------------
(***************************************************************************)
(* The in-memory transition frontier (full_frontier/full_frontier.ml): a   *)
(* tree of breadcrumbs below a root, at most max_length deep, with a       *)
(* pointer to the best tip.                                                *)
(*                                                                         *)
(* The code looks blocks up with find_exn, hd_exn and add_exn; `raised'    *)
(* records that such a lookup failed, which takes the daemon down.         *)
(***************************************************************************)
EXTENDS FrontierTree

VARIABLES frontier, raised

vars == <<frontier, raised>>

-----------------------------------------------------------------------------
(* The specification.  A frontier is created at any root: the genesis      *)
(* block, a root read from disk, or one found by bootstrap.                *)

Init == /\ \E r \in Block : frontier = create(r)
        /\ raised = FALSE

\* Transition_frontier.add_breadcrumb_exn, as far as it concerns the full
\* frontier.  Its callers hand in a block that is new and whose parent is
\* in the frontier.
add_breadcrumb_exn(b) ==
  /\ ~raised
  /\ b \in Block \ (Table(frontier) \cup {Genesis})
  /\ Parent[b] \in Table(frontier)
  /\ raised' = ~LookupsSucceed(frontier, b)
  /\ frontier' = IF raised' THEN frontier
                 ELSE apply_diffs(frontier, calculate_diffs(frontier, b))

Next == \E b \in Block : add_breadcrumb_exn(b)

Spec == Init /\ [][Next]_vars

-----------------------------------------------------------------------------
(* Properties. *)

\* The pointers, the table and the flag have their types, and every node has
\* both its successors and its length.
TypeOK == IsFrontier(frontier) /\ raised \in BOOLEAN

\* The table is a tree below the root: the parent of every other node is in
\* it and lists the node, and nodes list exactly their children.  Moving
\* the root must cut whole subtrees for this to stay so.
FrontierIsTree == IsTree(frontier)

\* No block is more than max_length blocks above the root, measured in
\* blockchain length and not in the length the nodes store.
WithinMaxLength == Within(frontier, MaxLength)

\* The best tip is a block of the frontier, and `select' prefers none of the
\* others to it: the root never moves away from under the best tip.
BestTipIsBest ==
  /\ frontier.best_tip \in Table(frontier)
  /\ \A h \in Table(frontier) : <<frontier.best_tip, h>> \notin Take

\* No find_exn, hd_exn or add_exn of add_breadcrumb_exn fails: the protocol
\* states the next root needs are those of the old root and the old root
\* itself, and those of an emitted proof are still known when it is applied.
NeverRaises == ~raised

\* What the frontier's steps preserve.
Inductive ==
  /\ Sound(frontier)
  /\ WithinMaxLength
  /\ BestTipIsBest
  /\ raised = FALSE

\* The root only ever moves to one of its children, and that child is on
\* the chain of the new best tip: a block that was once the root stays an
\* ancestor of every later best tip.
RootMovesAlongBestChain ==
  [][frontier'.root # frontier.root =>
       /\ frontier'.root \in frontier.successor_hashes[frontier.root]
       /\ frontier'.root \in Anc[frontier'.best_tip]]_vars

\* A block leaves the frontier only in a step that moves the root, and only
\* if it is the old root or on a fork that leaves it at the new root's level.
OnlyForksAreDropped ==
  [][\A h \in Table(frontier) \ Table(frontier') :
       /\ frontier'.root # frontier.root
       /\ frontier'.root \notin Anc[h]]_vars

\* The comment on the type of the frontier: "Invariant: The path from the
\* root to the tip inclusively, will be max_length".
PathInclusiveAtMostMaxLength ==
  Height[frontier.best_tip] - Height[frontier.root] + 1 <= MaxLength
=============================================================================
