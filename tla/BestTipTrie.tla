----------------------------- MODULE BestTipTrie -----------------------------
(***************************************************************************)
(* testnet-validation/best_tip_trie.py: a tree of Block objects, with      *)
(* `blocks' naming one object of each hash.  Objects are numbered in the   *)
(* order they are made; the first is the root.  A hash may have several    *)
(* objects, as insertChild only looks for it among the children of one.    *)
(***************************************************************************)
EXTENDS Naturals, Sequences, SequencesExt, FiniteSets, FiniteSetsExt

Root == 1
Block(hash) == [hash |-> hash, children |-> {}, labels |-> {}, value |-> 0]
EmptyTrie == [nodes |-> <<Block("root")>>, blocks |-> [h \in {} |-> Root], raised |-> FALSE]

Known(t, h) == h \in DOMAIN t.blocks

\* The child of n with this hash: a set of at most one object.
ChildOf(t, n, h) == {c \in t.nodes[n].children : t.nodes[c].hash = h}

\* The trie in which n has a child with the hash, and that child.
insertChild(t, n, h) ==
  IF ChildOf(t, n, h) # {}
  THEN [trie |-> t, node |-> CHOOSE c \in ChildOf(t, n, h) : TRUE]
  ELSE LET c == Len(t.nodes) + 1
           parent == [t.nodes[n] EXCEPT !.children = @ \cup {c}]
       IN  [trie |-> [t EXCEPT !.nodes = Append([t.nodes EXCEPT ![n] = parent], Block(h))],
            node |-> c]

\* self.blocks[h] = n
Names(t, h, n) ==
  [t EXCEPT !.blocks = [k \in DOMAIN t.blocks \cup {h} |-> IF k = h THEN n ELSE t.blocks[k]]]

\* One part of a chain, below the object that was reached.  A known part starts
\* again at its own object, and gets a child of its own hash.
InsertPart(at, h) ==
  LET r == insertChild(at.trie, IF Known(at.trie, h) THEN at.trie.blocks[h] ELSE at.node, h)
  IN  [trie |-> Names(r.trie, h, r.node), node |-> r.node]

insert(t, chain, label) ==
  LET start == IF Known(t, Last(chain)) THEN t.blocks[Last(chain)] ELSE Root
      after[k \in 0..Len(chain)] ==
        IF k = 0 THEN [trie |-> t, node |-> start]
        ELSE InsertPart(after[k - 1], chain[k])
      end == after[Len(chain)]
  IN  [end.trie EXCEPT !.nodes[end.node].labels = @ \cup {label}]

\* The child, known, moves from the root to below its new parent; it is an error
\* if the root has no such child.
SpliceParent(t, parent, child) ==
  IF ChildOf(t, Root, child) = {} THEN [t EXCEPT !.raised = TRUE]
  ELSE LET c == CHOOSE n \in ChildOf(t, Root, child) : TRUE
           r == insertChild([t EXCEPT !.nodes[Root].children = @ \ {c}], Root, parent)
           s == Names(r.trie, parent, r.node)
       IN  [s EXCEPT !.nodes[r.node].children = @ \cup {c}, !.nodes[c].value = @ + 1]

\* *mutant*: the parent is made anew below the root
insertLink_new_parent(t, parent, child, value) ==
  LET r == insertChild(t, Root, parent) IN
  IF Known(t, child) THEN SpliceParent(Names(r.trie, parent, r.node), parent, child)
  ELSE insert(t, <<parent, child>>, value)

insertLink(t, parent, child, value) ==
  IF Known(t, parent)
  THEN LET r == insertChild(t, t.blocks[parent], child)
       IN  [Names(r.trie, child, r.node) EXCEPT !.nodes[r.node].value = @ + 1]
  ELSE IF Known(t, child) THEN SpliceParent(t, parent, child)
  ELSE insert(t, <<parent, child>>, value)

\* render_fork: the edges of the graph, by hash, and those of the labels
render_fork(t) ==
  LET nodes == DOMAIN t.nodes
  IN  [edges  |-> UNION {{<<t.nodes[n].hash, t.nodes[c].hash>> : c \in t.nodes[n].children} : n \in nodes},
       labels |-> UNION {{<<l, t.nodes[n].hash>> : l \in t.nodes[n].labels} : n \in nodes}]

\* The objects form a tree: each but the root has exactly one parent, made
\* before it or moved below it, so the recursion of render_fork and nodes ends.
IsTree(t) ==
  LET parents(n) == {m \in DOMAIN t.nodes : n \in t.nodes[m].children}
      Below[k \in 0..Len(t.nodes)] ==
        IF k = 0 THEN {Root} ELSE Below[k - 1] \cup UNION {t.nodes[m].children : m \in Below[k - 1]}
  IN  /\ parents(Root) = {}
      /\ \A n \in DOMAIN t.nodes \ {Root} : Cardinality(parents(n)) = 1
      /\ Below[Len(t.nodes)] = DOMAIN t.nodes
=============================================================================
