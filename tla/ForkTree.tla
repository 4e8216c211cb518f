------------------------------ MODULE ForkTree ------------------------------
(***************************************************************************)
(* The block tree of the network report (watchdog/make_report.py): the     *)
(* chains that the nodes report are merged into fork_tree, runs of blocks  *)
(* that the same number of nodes have are collapsed into                   *)
(* summarized_fork_tree, and has_forks decides from its tips whether the   *)
(* report carries a warning.                                               *)
(***************************************************************************)
EXTENDS Naturals, Sequences, SequencesExt, FiniteSets, FiniteSetsExt, Functions

CONSTANTS
  Block,
  Parent,     \* block -> its parent, or itself for the genesis block
  Peers,      \* sequence of the nodes that answered
  MaxLength   \* k: the length of a chain a node reports

\* A block names its parent by the hash, so that no block descends from itself:
\* blocks have heights.
ASSUME ForkTreeAssumption ==
  /\ IsFiniteSet(Block) /\ Parent \in [Block -> Block] /\ MaxLength \in Nat \ {0}
  /\ \E height \in [Block -> 0..Cardinality(Block)] :
       \A b \in Block : Parent[b] = b \/ height[Parent[b]] < height[b]

VARIABLES
  tree_pc, chains,              \* what each node reported
  fork_tree, roots,        \* block -> its known children and the nodes that have it
  todo,                    \* calls of add_to_summarized_tree still to be made
  summarized_fork_tree,
  forks                    \* has_forks()

treeVars == <<tree_pc, chains, fork_tree, roots, todo, summarized_fork_tree, forks>>

IsChain(c) == \A i \in 1..(Len(c) - 1) : Parent[c[i + 1]] = c[i] /\ c[i + 1] # c[i]
Chains == {c \in UNION {[1..n -> Block] : n \in 1..MaxLength} : IsChain(c)}

Empty == [b \in {} |-> 0]

TreeInit ==
  /\ tree_pc = "merge" /\ chains = <<>> /\ fork_tree = Empty /\ roots = {} /\ todo = {}
  /\ summarized_fork_tree = Empty /\ forks = FALSE

-----------------------------------------------------------------------------
\* The children of a block according to one chain: the next block, or none.
child_or_none(c, b) == {c[i + 1] : i \in {j \in 1..(Len(c) - 1) : c[j] = b}}

AddChain(tree, c) ==
  [b \in DOMAIN tree \cup ToSet(c) |->
     LET known == IF b \in DOMAIN tree THEN tree[b] ELSE [children |-> {}, peers |-> 0]
     IN  IF b \in ToSet(c)
         THEN [children |-> known.children \cup child_or_none(c, b),
               peers |-> known.peers + 1]
         ELSE known]

\* The next node of peer_table.
add_chain ==
  /\ tree_pc = "merge" /\ Len(chains) < Len(Peers)
  /\ \E c \in Chains : chains' = Append(chains, c) /\ fork_tree' = AddChain(fork_tree, c)
  /\ UNCHANGED <<tree_pc, roots, todo, summarized_fork_tree, forks>>

find_roots ==
  /\ tree_pc = "merge" /\ Len(chains) = Len(Peers) /\ tree_pc' = "summarize"
  /\ roots' = DOMAIN fork_tree \ UNION {fork_tree[b].children : b \in DOMAIN fork_tree}
  /\ todo' = roots'
  /\ UNCHANGED <<chains, fork_tree, summarized_fork_tree, forks>>

\* The condition of the while loop, and of the break inside.
Collapses(peers, children) ==
  /\ Cardinality(children) = 1
  /\ \A c \in children : fork_tree[c].peers = peers /\ fork_tree[c].children # {}

\* The state of the while loop after at most n turns.
Collapsed(b) ==
  LET peers == fork_tree[b].peers
      after[n \in 0..Cardinality(Block)] ==
        IF n = 0 THEN [children |-> fork_tree[b].children, intermediate |-> 0]
        ELSE LET s == after[n - 1]
             IN  IF ~Collapses(peers, s.children) THEN s
                 ELSE [children |-> UNION {fork_tree[c].children : c \in s.children},
                       intermediate |-> s.intermediate + 1]
  IN  after[Cardinality(Block)]

add_to_summarized_tree(b) ==
  /\ tree_pc = "summarize" /\ b \in todo
  /\ LET s == Collapsed(b)
     IN  /\ summarized_fork_tree' =
              [d \in DOMAIN summarized_fork_tree \cup {b} |->
                 IF d = b THEN [children |-> s.children, peers |-> fork_tree[b].peers,
                                intermediate_nodes |-> s.intermediate]
                 ELSE summarized_fork_tree[d]]
         /\ todo' = (todo \ {b}) \cup s.children
  /\ UNCHANGED <<tree_pc, chains, fork_tree, roots, forks>>

\* *mutant*: off by one
MoreThanOneTipParent_one(tip_parents) == Cardinality(tip_parents) >= 1

MoreThanOneTipParent(tip_parents) == Cardinality(tip_parents) > 1

has_forks ==
  /\ tree_pc = "summarize" /\ todo = {} /\ tree_pc' = "done"
  /\ LET S == summarized_fork_tree
         roots_with_children == {r \in roots : fork_tree[r].children # {}}
         tips == {b \in DOMAIN S : S[b].children = {}}
         tip_parents == {b \in DOMAIN S : S[b].children \cap tips # {}}
     IN  forks' = \/ Cardinality(roots_with_children) > 1
                  \/ /\ Cardinality(roots_with_children) = 1
                     /\ MoreThanOneTipParent(tip_parents)
  /\ UNCHANGED <<chains, fork_tree, roots, todo, summarized_fork_tree>>

TreeNext ==
  \/ add_chain \/ find_roots \/ \E b \in Block : add_to_summarized_tree(b)
  \/ has_forks

TreeSpec == TreeInit /\ [][TreeNext]_treeVars

-----------------------------------------------------------------------------
\* The chain of a block from the genesis block on, and the blocks of two
\* chains that they do not share.
Ancestry(b) ==
  LET up[n \in 0..Cardinality(Block)] ==
        IF n = 0 THEN {b} ELSE up[n - 1] \cup {Parent[a] : a \in up[n - 1]}
  IN  up[Cardinality(Block)]

Tips == {Last(chains[i]) : i \in DOMAIN chains}
Linear == \A a, b \in Tips : a \in Ancestry(b) \/ b \in Ancestry(a)

\* Nothing of the tree is lost in the summary: every block a node reported is
\* shown once or counted once as an intermediate one.
SummaryKeepsBlocks ==
  tree_pc = "done" =>
    /\ DOMAIN summarized_fork_tree \subseteq DOMAIN fork_tree
    /\ Cardinality(UNION {{<<b, i>> : i \in 0..summarized_fork_tree[b].intermediate_nodes} :
                            b \in DOMAIN summarized_fork_tree})
       = Cardinality(DOMAIN fork_tree)

\* A block that is not shown is held by as many nodes as the block it is
\* collapsed into: the number of nodes shown at a block is true of the whole run.
CollapsedBlocksHaveSamePeers ==
  tree_pc = "done" =>
    \A b \in DOMAIN fork_tree \ DOMAIN summarized_fork_tree :
      \E a \in DOMAIN summarized_fork_tree \cap Ancestry(b) :
        fork_tree[a].peers = fork_tree[b].peers

\* has_forks misses no fork: two nodes whose chains differ in two blocks or
\* more on each side raise the warning, provided their chains meet.
NoMissedFork ==
  tree_pc = "done" /\ Cardinality(roots) = 1 =>
    ((\E a, b \in Tips : /\ Cardinality(Ancestry(a) \ Ancestry(b)) >= 2
                         /\ Cardinality(Ancestry(b) \ Ancestry(a)) >= 2)
       => forks)

\* Nodes on a single chain, at whatever heights, raise no warning as long as
\* their chains meet.
NoForkOnOneChain == tree_pc = "done" /\ Linear /\ Cardinality(roots) = 1 => ~forks

\* What the report says of the reported chains: the summary leaves nothing out,
\* and the warning is given for forks and only for forks.
ForkReportIsRight ==
  SummaryKeepsBlocks /\ CollapsedBlocksHaveSamePeers /\ NoMissedFork /\ NoForkOnOneChain
=============================================================================
