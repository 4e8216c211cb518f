------------------------- MODULE FrontierTreeProofs -------------------------
(***************************************************************************)
(* Lemmas about blocks and frontiers as values, for every universe of      *)
(* blocks and every max_length: what adding a breadcrumb, moving the root  *)
(* and setting the best tip do to a sound frontier.                        *)
(***************************************************************************)
EXTENDS FrontierTree, NumberLemmas, TLAPS

-----------------------------------------------------------------------------
(* Ancestors. *)

\* A block is its own ancestor and has the ancestors of its parent.
LEMMA AncOf ==
  ASSUME NEW b \in Block
  PROVE  /\ b \in Anc[b]
         /\ Anc[b] \subseteq Block
         /\ b # Genesis => /\ Parent[b] \in Block
                           /\ Anc[b] = Anc[Parent[b]] \cup {b}
                           /\ Height[b] = Height[Parent[b]] + 1
BY BlockAssumption, AncestorAssumption

\* The genesis block is an ancestor of every block.
LEMMA GenesisIsAncestor ==
  \A b \in Block : Genesis \in Anc[b]
<1> DEFINE S == { b \in Block : Genesis \in Anc[b] }
<1>1. Genesis \in S
  BY BlockAssumption, AncOf
<1>2. \A b \in Block \ {Genesis} : Parent[b] \in S => b \in S
  BY AncOf
<1>3. S \in SUBSET Block
  OBVIOUS
<1>4. S = Block
  BY <1>1, <1>2, <1>3, DescentAssumption
<1> QED
  BY <1>4

\* An ancestor is no longer than its descendant, and shorter if it differs.
LEMMA AncestorIsShorter ==
  \A b \in Block : \A a \in Anc[b] :
    Height[a] <= Height[b] /\ (Height[a] = Height[b] => a = b)
<1> DEFINE S == { b \in Block : \A a \in Anc[b] :
                    Height[a] <= Height[b] /\ (Height[a] = Height[b] => a = b) }
<1>1. Genesis \in S
  BY BlockAssumption, AncestorAssumption
<1>2. ASSUME NEW b \in Block \ {Genesis}, Parent[b] \in S
      PROVE  b \in S
  <2>1. /\ Height[b] = Height[Parent[b]] + 1
        /\ Anc[b] = Anc[Parent[b]] \cup {b}
        /\ Parent[b] \in Block
        /\ Anc[b] \subseteq Block
    BY AncOf
  <2>2. /\ Height[b] \in Nat
        /\ Height[Parent[b]] \in Nat
        /\ \A a \in Anc[b] : Height[a] \in Nat
    BY <2>1, BlockAssumption
  <2>3. \A a \in Anc[Parent[b]] : Height[a] <= Height[Parent[b]]
    BY <1>2
  <2> QED
    BY <2>1, <2>2, <2>3
<1>3. S \in SUBSET Block
  OBVIOUS
<1>4. S = Block
  BY <1>1, <1>2, <1>3, DescentAssumption
<1> QED
  BY <1>4

\* The parent of an ancestor is an ancestor.
LEMMA ParentOfAncestor ==
  \A b \in Block : \A a \in Anc[b] \ {Genesis} : Parent[a] \in Anc[b]
<1> DEFINE S == { b \in Block :
                    \A a \in Anc[b] \ {Genesis} : Parent[a] \in Anc[b] }
<1>1. Genesis \in S
  BY BlockAssumption, AncestorAssumption
<1>2. \A b \in Block \ {Genesis} : Parent[b] \in S => b \in S
  BY AncOf
<1>3. S \in SUBSET Block
  OBVIOUS
<1>4. S = Block
  BY <1>1, <1>2, <1>3, DescentAssumption
<1> QED
  BY <1>4

\* Two ancestors of a block that have the same length are the same.
LEMMA AncestorsAreAChain ==
  \A b \in Block : \A a, c \in Anc[b] : Height[a] = Height[c] => a = c
<1> DEFINE S == { b \in Block :
                    \A a, c \in Anc[b] : Height[a] = Height[c] => a = c }
<1>1. Genesis \in S
  BY BlockAssumption, AncestorAssumption
<1>2. ASSUME NEW b \in Block \ {Genesis}, Parent[b] \in S
      PROVE  b \in S
  <2>1. /\ Height[b] = Height[Parent[b]] + 1
        /\ Anc[b] = Anc[Parent[b]] \cup {b}
        /\ Parent[b] \in Block
        /\ Anc[b] \subseteq Block
    BY AncOf
  <2>2. /\ Height[b] \in Nat
        /\ Height[Parent[b]] \in Nat
        /\ \A a \in Anc[b] : Height[a] \in Nat
    BY <2>1, BlockAssumption
  <2>3. \A a \in Anc[Parent[b]] : Height[a] <= Height[Parent[b]]
    BY <2>1, AncestorIsShorter
  <2>4. \A a \in Anc[Parent[b]] : Height[a] # Height[b]
    BY <2>1, <2>2, <2>3
  <2>5. \A a, c \in Anc[Parent[b]] : Height[a] = Height[c] => a = c
    BY <1>2
  <2> QED
    BY <2>1, <2>4, <2>5
<1>3. S \in SUBSET Block
  OBVIOUS
<1>4. S = Block
  BY <1>1, <1>2, <1>3, DescentAssumption
<1> QED
  BY <1>4

\* Between a block and a proper ancestor r there is a child of r.
LEMMA ChildOnPath ==
  ASSUME NEW r \in Block
  PROVE  \A b \in Block :
           r \in Anc[b] /\ b # r =>
             \E h \in Anc[b] \ Anc[r] : h # Genesis /\ Parent[h] = r
<1> DEFINE S == { b \in Block :
                    r \in Anc[b] /\ b # r =>
                      \E h \in Anc[b] \ Anc[r] :
                        h # Genesis /\ Parent[h] = r }
<1>1. Genesis \in S
  BY BlockAssumption, AncestorAssumption
<1>2. ASSUME NEW b \in Block \ {Genesis}, Parent[b] \in S,
             r \in Anc[b], b # r
      PROVE  \E h \in Anc[b] \ Anc[r] : h # Genesis /\ Parent[h] = r
  <2>1. /\ Height[b] = Height[Parent[b]] + 1
        /\ Anc[b] = Anc[Parent[b]] \cup {b}
        /\ Parent[b] \in Block
        /\ b \in Anc[b]
    BY AncOf
  <2>2. CASE Parent[b] = r
    <3>1. Height[b] \in Nat /\ Height[r] \in Nat
      BY BlockAssumption
    <3>2. b \notin Anc[r]
      BY <2>1, <2>2, <3>1, AncestorIsShorter
    <3> QED
      BY <2>1, <2>2, <3>2
  <2>3. CASE Parent[b] # r
    BY <1>2, <2>1, <2>3
  <2> QED
    BY <2>2, <2>3
<1>3. S \in SUBSET Block
  OBVIOUS
<1>4. \A b \in Block \ {Genesis} : Parent[b] \in S => b \in S
  BY <1>2
<1>5. S = Block
  BY <1>1, <1>3, <1>4, DescentAssumption
<1> QED
  BY <1>5

\* Of two ancestors of a block, the shorter one is an ancestor of the other.
LEMMA AncestorsNest ==
  \A b \in Block : \A a, c \in Anc[b] : Height[c] <= Height[a] => c \in Anc[a]
<1> DEFINE S == { b \in Block : \A a, c \in Anc[b] :
                    Height[c] <= Height[a] => c \in Anc[a] }
<1>1. Genesis \in S
  BY BlockAssumption, AncestorAssumption
<1>2. ASSUME NEW b \in Block \ {Genesis}, Parent[b] \in S
      PROVE  b \in S
  <2>1. /\ Height[b] = Height[Parent[b]] + 1
        /\ Anc[b] = Anc[Parent[b]] \cup {b}
        /\ Parent[b] \in Block
        /\ Anc[b] \subseteq Block
    BY AncOf
  <2>2. /\ Height[b] \in Nat
        /\ Height[Parent[b]] \in Nat
        /\ \A a \in Anc[b] : Height[a] \in Nat
    BY <2>1, BlockAssumption
  <2>3. \A a \in Anc[Parent[b]] : Height[a] <= Height[Parent[b]]
    BY <2>1, AncestorIsShorter
  <2>4. \A a \in Anc[Parent[b]] : ~(Height[b] <= Height[a])
    BY <2>1, <2>2, <2>3
  <2>5. \A a, c \in Anc[Parent[b]] : Height[c] <= Height[a] => c \in Anc[a]
    BY <1>2
  <2> QED
    BY <2>1, <2>4, <2>5
<1>3. S \in SUBSET Block
  OBVIOUS
<1>4. S = Block
  BY <1>1, <1>2, <1>3, DescentAssumption
<1> QED
  BY <1>4

\* The ancestors of an ancestor are ancestors.
LEMMA AncestorsOfAncestor ==
  \A b \in Block : \A a \in Anc[b] : Anc[a] \subseteq Anc[b]
<1> DEFINE S == { b \in Block : \A a \in Anc[b] : Anc[a] \subseteq Anc[b] }
<1>1. Genesis \in S
  BY BlockAssumption, AncestorAssumption
<1>2. \A b \in Block \ {Genesis} : Parent[b] \in S => b \in S
  BY AncOf
<1>3. S \in SUBSET Block
  OBVIOUS
<1>4. S = Block
  BY <1>1, <1>2, <1>3, DescentAssumption
<1> QED
  BY <1>4

\* A block has an ancestor at each height between an ancestor's and its own.
LEMMA AncestorAtHeight ==
  ASSUME NEW r \in Block
  PROVE  \A b \in Block : r \in Anc[b] =>
           \A h \in Height[r] .. Height[b] : \E a \in Anc[b] : Height[a] = h
<1> DEFINE S == { b \in Block : r \in Anc[b] =>
                    \A h \in Height[r] .. Height[b] :
                      \E a \in Anc[b] : Height[a] = h }
<1>1. Genesis \in S
  BY BlockAssumption, AncestorAssumption
<1>2. ASSUME NEW b \in Block \ {Genesis}, Parent[b] \in S
      PROVE  b \in S
  <2>1. /\ Height[b] = Height[Parent[b]] + 1
        /\ Anc[b] = Anc[Parent[b]] \cup {b}
        /\ Parent[b] \in Block
        /\ Height[b] \in Nat /\ Height[Parent[b]] \in Nat /\ Height[r] \in Nat
    BY AncOf, BlockAssumption
  <2>2. ASSUME r \in Anc[b], NEW h \in Height[r] .. Height[b]
        PROVE  \E a \in Anc[b] : Height[a] = h
    <3>1. CASE h = Height[b]
      BY <2>1, <3>1
    <3>2. CASE h # Height[b]
      <4>1. h \in Height[r] .. Height[Parent[b]] /\ r # b
        BY <2>1, <2>2, <3>2
      <4>2. r \in Anc[Parent[b]]
        BY <2>1, <2>2, <4>1
      <4> QED
        BY <1>2, <2>1, <4>1, <4>2
    <3> QED
      BY <3>1, <3>2
  <2> QED
    BY <2>2
<1>3. S \in SUBSET Block
  OBVIOUS
<1>4. S = Block
  BY <1>1, <1>2, <1>3, DescentAssumption
<1> QED
  BY <1>4

-----------------------------------------------------------------------------
(* Adding a node. *)

\* Adding a new child of a block of the tree gives a tree.
LEMMA AddNodeSound ==
  ASSUME NEW f, Sound(f),
         NEW b \in Block \ {Genesis}, b \notin Table(f), Parent[b] \in Table(f)
  PROVE  LET g == AddNode(f, b) IN
         /\ Table(g) = Table(f) \cup {b}
         /\ g.root = f.root /\ g.best_tip = f.best_tip
         /\ Sound(g)
<1> DEFINE g == AddNode(f, b)
           T == Table(f)
<1>1. IsFrontier(f) /\ IsTree(f)
  BY DEF Sound
<1>2. /\ T \subseteq Block
      /\ f.root \in T /\ f.best_tip \in Block
      /\ f.successor_hashes \in [T -> SUBSET Block]
      /\ f.length \in [T -> Nat]
      /\ f.protocol_states \in SUBSET Block
      /\ f = [ root |-> f.root, best_tip |-> f.best_tip
             , successor_hashes |-> f.successor_hashes, length |-> f.length
             , protocol_states |-> f.protocol_states ]
  BY <1>1 DEF IsFrontier, IsTree
<1>3. /\ g.root = f.root /\ g.best_tip = f.best_tip
      /\ g.protocol_states = f.protocol_states
      /\ g.length = [h \in T \cup {b} |->
                       IF h = b THEN f.length[Parent[b]] + 1 ELSE f.length[h]]
      /\ g.successor_hashes =
           [h \in T \cup {b} |->
              IF h = b THEN {}
              ELSE IF h = Parent[b]
                     THEN f.successor_hashes[Parent[b]] \cup {b}
              ELSE f.successor_hashes[h]]
      /\ g = [ root |-> g.root, best_tip |-> g.best_tip
             , successor_hashes |-> g.successor_hashes, length |-> g.length
             , protocol_states |-> g.protocol_states ]
  BY <1>2 DEF AddNode
<1>4. Table(g) = T \cup {b}
  BY <1>3 DEF Table
<1>5. IsFrontier(g)
  <2>1. g.length \in [T \cup {b} -> Nat]
    BY <1>2, <1>3
  <2>2. g.successor_hashes \in [T \cup {b} -> SUBSET Block]
    BY <1>2, <1>3
  <2> QED
    BY <1>2, <1>3, <1>4, <2>1, <2>2 DEF IsFrontier
<1>6. IsTree(g)
  <2>1. f.root \in Anc[b]
    BY <1>1, AncOf DEF IsTree
  <2>2. f.root # b /\ f.root \in T
    BY <1>2
  <2>3. \A h \in T : f.successor_hashes[h] =
                      { c \in T \ {f.root} : Parent[c] = h }
    BY <1>1 DEF IsTree
  <2>4. \A c \in T \ {f.root} : Parent[c] # b
    BY <1>1 DEF IsTree
  <2>5. ASSUME NEW h \in T \cup {b}
        PROVE  g.successor_hashes[h] =
                 { c \in (T \cup {b}) \ {f.root} : Parent[c] = h }
    <3>1. CASE h = b
      <4>1. b # Parent[b]
        OBVIOUS
      <4> QED
        BY <1>3, <2>4, <3>1, <4>1
    <3>2. CASE h # b /\ h = Parent[b]
      BY <1>3, <2>2, <2>3, <3>2
    <3>3. CASE h # b /\ h # Parent[b]
      BY <1>3, <2>2, <2>3, <3>3
    <3> QED
      BY <3>1, <3>2, <3>3
  <2>6. \A h \in T \cup {b} : f.root \in Anc[h]
    BY <1>1, <2>1 DEF IsTree
  <2>7. \A h \in (T \cup {b}) \ {f.root} :
          h # Genesis /\ Parent[h] \in T \cup {b}
    BY <1>1 DEF IsTree
  <2> QED
    <3>1. g.root = f.root /\ Table(g) = T \cup {b}
      BY <1>3, <1>4
    <3> QED
      BY <2>2, <2>5, <2>6, <2>7, <3>1, Zenon DEF IsTree
<1>7. \A h \in T \cup {b} :
        g.length[h] - g.length[g.root] = Height[h] - Height[g.root]
  <2>1. \A h \in T : f.length[h] - f.length[f.root] = Height[h] - Height[f.root]
    BY DEF Sound
  <2>2. Height[b] = Height[Parent[b]] + 1
    BY AncOf
  <2>3. \A h \in T \cup {b} : Height[h] \in Nat
    BY <1>2, BlockAssumption
  <2>4. \A h \in T : g.length[h] = f.length[h] /\ f.length[h] \in Nat
    BY <1>2, <1>3
  <2>5. g.length[b] = f.length[Parent[b]] + 1
    BY <1>3
  <2>6. f.root \in T /\ g.root = f.root
    BY <1>2, <1>3
  <2> QED
    BY <2>1, <2>2, <2>3, <2>4, <2>5, <2>6
<1>8. g.protocol_states = Required[g.root]
  BY <1>3 DEF Sound
<1> QED
  BY <1>3, <1>4, <1>5, <1>6, <1>7, <1>8 DEF Sound

-----------------------------------------------------------------------------
(* Moving the root. *)

\* successors_rec is the least set that holds the successors of h and is
\* closed under successors.
LEMMA SuccessorsRecIsLeast ==
  ASSUME NEW f, Sound(f), NEW h \in Table(f)
  PROVE  /\ successors_rec(f, h) \subseteq Table(f)
         /\ f.successor_hashes[h] \subseteq successors_rec(f, h)
         /\ \A x \in successors_rec(f, h) :
              f.successor_hashes[x] \subseteq successors_rec(f, h)
         /\ \A S \in SUBSET Table(f) :
              /\ f.successor_hashes[h] \subseteq S
              /\ \A x \in S : f.successor_hashes[x] \subseteq S
              => successors_rec(f, h) \subseteq S
<1>1. \A x \in Table(f) : f.successor_hashes[x] \subseteq Table(f)
  BY DEF Sound, IsTree
<1> QED
  BY <1>1 DEF successors_rec

\* The heir of a block that makes the frontier too long is a child of the
\* root, is in the table, and is on the way to the block.
LEMMA HeirIsOnPath ==
  ASSUME NEW f, Sound(f),
         NEW b \in Block \ {Genesis}, b \notin Table(f), Parent[b] \in Table(f),
         TooLong(f, b)
  PROVE  /\ Heir(f, b) \in Table(f) \ {f.root, Genesis}
         /\ Heir(f, b) \in f.successor_hashes[f.root]
         /\ Parent[Heir(f, b)] = f.root
         /\ Heir(f, b) \in Anc[b]
         /\ Heir(f, b) \notin Anc[f.root]
         /\ Parent[b] # f.root
<1> DEFINE T == Table(f)
           r == f.root
           heir == Heir(f, b)
<1>1. /\ T \subseteq Block /\ r \in T /\ r \in Block
      /\ f.length \in [T -> Nat]
  BY DEF Sound, IsTree, IsFrontier
<1>2. Parent[b] # r
  <2>1. f.length[r] \in Nat
    BY <1>1
  <2> QED
    BY <2>1, MaxLengthAssumption DEF TooLong
<1>3. r \in Anc[Parent[b]] /\ Anc[b] = Anc[Parent[b]] \cup {b} /\ b # r
  BY <1>1, AncOf DEF Sound, IsTree
<1>4. \E h \in Anc[b] \ Anc[r] : h # Genesis /\ Parent[h] = r
  BY <1>1, <1>3, ChildOnPath
<1>5. heir \in Anc[b] \ Anc[r] /\ Parent[heir] = r
  BY <1>4 DEF Heir, hash_path
<1>6. heir # Genesis /\ heir # r
  BY <1>1, <1>5, GenesisIsAncestor, AncOf
<1>7. heir # b
  BY <1>2, <1>5
<1>8. heir \in T
  <2> DEFINE S == { x \in Block : x \in T => Anc[x] \subseteq T \cup Anc[r] }
  <2>1. Genesis \in S
    BY <1>1, BlockAssumption, AncestorAssumption DEF Sound, IsTree
  <2>2. ASSUME NEW x \in Block \ {Genesis}, Parent[x] \in S
        PROVE  x \in S
    <3>1. CASE x \in T /\ x # r
      <4>1. Parent[x] \in T
        BY <3>1 DEF Sound, IsTree
      <4> QED
        BY <2>2, <3>1, <4>1, AncOf
    <3>2. CASE x = r \/ x \notin T
      BY <3>2
    <3> QED
      BY <3>1, <3>2
  <2>3. S \in SUBSET Block
    OBVIOUS
  <2>4. S = Block
    BY <2>1, <2>2, <2>3, DescentAssumption
  <2>5. Anc[Parent[b]] \subseteq T \cup Anc[r]
    BY <1>1, <2>4
  <2> QED
    BY <1>3, <1>5, <1>7, <2>5
<1>9. heir \in f.successor_hashes[r]
  BY <1>1, <1>5, <1>6, <1>8 DEF Sound, IsTree
<1> QED
  BY <1>2, <1>5, <1>6, <1>8, <1>9

\* The garbage of a root transition: the siblings of the heir and all that
\* is below them, and nothing on the way to the new block.
LEMMA GarbageIsForks ==
  ASSUME NEW f, Sound(f),
         NEW b \in Block \ {Genesis}, b \notin Table(f), Parent[b] \in Table(f),
         TooLong(f, b)
  PROVE  LET G == garbage_breadcrumbs(f, Heir(f, b)) IN
         /\ G \subseteq Table(f)
         /\ heir_siblings(f, Heir(f, b)) \subseteq G
         /\ \A x \in G : f.successor_hashes[x] \subseteq G
         /\ \A x \in G : x \notin Anc[b]
         /\ \A x \in G : Heir(f, b) \notin Anc[x]
         /\ \A x \in G : x # Genesis /\ (Parent[x] = f.root \/ Parent[x] \in G)
<1> DEFINE T == Table(f)
           r == f.root
           heir == Heir(f, b)
           G == garbage_breadcrumbs(f, heir)
           sib == heir_siblings(f, heir)
<1>1. /\ T \subseteq Block /\ r \in T /\ r \in Block
      /\ \A h \in T : f.successor_hashes[h] = { c \in T \ {r} : Parent[c] = h }
      /\ \A h \in T \ {r} : h # Genesis /\ Parent[h] \in T
  BY DEF Sound, IsTree, IsFrontier
<1>2. /\ heir \in T \ {r, Genesis} /\ heir \in f.successor_hashes[r]
      /\ Parent[heir] = r /\ heir \in Anc[b] /\ heir \notin Anc[r]
  BY HeirIsOnPath
<1>3. /\ sib \subseteq T \ {r, heir, Genesis}
      /\ \A s \in sib : Parent[s] = r
  BY <1>1 DEF heir_siblings
<1>4. /\ \A s \in sib : s \in G
      /\ \A s \in sib : successors_rec(f, s) \subseteq G
      /\ \A x \in G : \E s \in sib : x = s \/ x \in successors_rec(f, s)
  BY DEF garbage_breadcrumbs
<1>5. G \subseteq T
  BY <1>3, <1>4, SuccessorsRecIsLeast
<1>6. \A x \in G : f.successor_hashes[x] \subseteq G
  <2> SUFFICES ASSUME NEW x \in G PROVE f.successor_hashes[x] \subseteq G
    OBVIOUS
  <2>1. PICK s \in sib : x = s \/ x \in successors_rec(f, s)
    BY <1>4
  <2>2. s \in T
    BY <1>3
  <2>3. f.successor_hashes[x] \subseteq successors_rec(f, s)
    BY <2>1, <2>2, SuccessorsRecIsLeast
  <2> QED
    BY <1>4, <2>3
<1>7. \A x \in G : x \notin Anc[b]
  <2> DEFINE S == T \ Anc[b]
  <2>1. ASSUME NEW x \in S PROVE f.successor_hashes[x] \subseteq S
    BY <1>1, <2>1, ParentOfAncestor
  <2>2. sib \subseteq S
    <3> SUFFICES ASSUME NEW s \in sib, s \in Anc[b] PROVE FALSE
      BY <1>3
    <3>1. s # Genesis /\ s \in Block /\ heir \in Block
      BY <1>1, <1>2, <1>3
    <3>2. Height[s] = Height[r] + 1 /\ Height[heir] = Height[r] + 1
      BY <1>2, <1>3, <3>1, AncOf
    <3>3. s = heir
      BY <1>2, <3>2, AncestorsAreAChain
    <3> QED
      BY <1>3, <3>3
  <2>3. \A s \in sib : successors_rec(f, s) \subseteq S
    <3> SUFFICES ASSUME NEW s \in sib PROVE successors_rec(f, s) \subseteq S
      OBVIOUS
    <3>1. s \in S /\ s \in T
      BY <2>2
    <3>2. f.successor_hashes[s] \subseteq S
      BY <2>1, <3>1
    <3>3. S \in SUBSET T
      OBVIOUS
    <3> QED
      BY <2>1, <3>1, <3>2, <3>3, SuccessorsRecIsLeast
  <2> QED
    BY <1>4, <2>2, <2>3
<1>8. \A x \in G : heir \notin Anc[x]
  <2> DEFINE S == { x \in T \ {r} : heir \notin Anc[x] }
  <2>1. ASSUME NEW x \in S, NEW y \in f.successor_hashes[x]
        PROVE  y \in S
    <3>1. y \in T \ {r} /\ Parent[y] = x /\ y # Genesis /\ y \in Block
      BY <1>1, <2>1
    <3>2. y # heir
      BY <1>2, <2>1, <3>1
    <3> QED
      BY <2>1, <3>1, <3>2, AncOf
  <2>2. sib \subseteq S
    <3> SUFFICES ASSUME NEW s \in sib PROVE heir \notin Anc[s]
      BY <1>3
    <3>1. Anc[s] = Anc[r] \cup {s} /\ s # heir
      BY <1>1, <1>3, AncOf
    <3> QED
      BY <1>2, <3>1
  <2>3. \A s \in sib : successors_rec(f, s) \subseteq S
    <3> SUFFICES ASSUME NEW s \in sib PROVE successors_rec(f, s) \subseteq S
      OBVIOUS
    <3>1. s \in S /\ s \in T
      BY <2>2
    <3>2. f.successor_hashes[s] \subseteq S
      BY <2>1, <3>1
    <3>3. S \in SUBSET T
      OBVIOUS
    <3>4. \A x \in S : f.successor_hashes[x] \subseteq S
      BY <2>1
    <3> HIDE DEF S
    <3> QED
      BY <3>1, <3>2, <3>3, <3>4, SuccessorsRecIsLeast
  <2> QED
    BY <1>4, <2>2, <2>3
<1>9. \A x \in G : x # Genesis /\ (Parent[x] = r \/ Parent[x] \in G)
  <2> SUFFICES ASSUME NEW x \in G
               PROVE  x # Genesis /\ (Parent[x] = r \/ Parent[x] \in G)
    OBVIOUS
  <2>1. PICK s \in sib : x = s \/ x \in successors_rec(f, s)
    BY <1>4
  <2>2. s \in T
    BY <1>3
  <2>3. CASE x = s
    BY <1>3, <2>3
  <2>4. CASE x \in successors_rec(f, s)
    <3> DEFINE R == successors_rec(f, s)
               S == { y \in R : y # r /\ (Parent[y] = s \/ Parent[y] \in R) }
    <3>1. R \subseteq T /\ f.successor_hashes[s] \subseteq R
          /\ \A y \in R : f.successor_hashes[y] \subseteq R
      BY <2>2, SuccessorsRecIsLeast
    <3>2. f.successor_hashes[s] \subseteq S
      BY <1>1, <2>2, <3>1
    <3>3. \A y \in S : f.successor_hashes[y] \subseteq S
      BY <1>1, <3>1
    <3>4. S \in SUBSET T
      BY <3>1
    <3>5. R \subseteq S
      BY <2>2, <3>2, <3>3, <3>4, SuccessorsRecIsLeast
    <3>6. x \in S /\ x \in T
      BY <2>4, <3>1, <3>5
    <3>7. R \subseteq G /\ s \in G
      BY <1>4
    <3> QED
      BY <1>1, <3>6, <3>7
  <2> QED
    BY <2>1, <2>3, <2>4
<1>10. sib \subseteq G
  BY <1>4
<1> QED
  BY <1>5, <1>6, <1>7, <1>8, <1>9, <1>10

\* Moving the root to the heir, once the new block has been added, gives a
\* tree again, rooted at the heir.
LEMMA MoveRootSound ==
  ASSUME NEW f, Sound(f),
         NEW b \in Block \ {Genesis}, b \notin Table(f), Parent[b] \in Table(f),
         TooLong(f, b)
  PROVE  LET heir == Heir(f, b)
             G == garbage_breadcrumbs(f, heir)
             m == move_root(AddNode(f, b), heir, G)
         IN  /\ Table(m) = (Table(f) \cup {b}) \ (G \cup {f.root})
             /\ b \in Table(m)
             /\ m.root = heir
             /\ m.best_tip = f.best_tip
             /\ Sound(m)
<1> DEFINE T == Table(f)
           r == f.root
           heir == Heir(f, b)
           G == garbage_breadcrumbs(f, heir)
           g == AddNode(f, b)
           K == (T \cup {b}) \ (G \cup {r})
           m == move_root(g, heir, G)
<1>1. /\ heir \in T \ {r, Genesis} /\ heir \in f.successor_hashes[r]
      /\ Parent[heir] = r /\ heir \in Anc[b] /\ heir \notin Anc[r]
      /\ Parent[b] # r
  BY HeirIsOnPath
<1>2. /\ G \subseteq T
      /\ f.successor_hashes[r] \ {heir} \subseteq G
      /\ \A x \in G : f.successor_hashes[x] \subseteq G
      /\ \A x \in G : x \notin Anc[b]
      /\ \A x \in G : x # Genesis /\ (Parent[x] = r \/ Parent[x] \in G)
  BY GarbageIsForks DEF heir_siblings
<1>3. /\ Table(g) = T \cup {b} /\ g.root = r /\ g.best_tip = f.best_tip
      /\ Sound(g)
  BY AddNodeSound
<1>4. /\ T \subseteq Block /\ r \in T /\ r \in Block
      /\ \A h \in T : r \in Anc[h]
      /\ \A h \in T \ {r} : h # Genesis /\ Parent[h] \in T
      /\ \A h \in T : f.successor_hashes[h] = { c \in T \ {r} : Parent[c] = h }
  BY DEF Sound, IsTree, IsFrontier
<1>5. /\ \A h \in T \cup {b} :
           g.successor_hashes[h] = { c \in (T \cup {b}) \ {r} : Parent[c] = h }
      /\ \A h \in T \cup {b} : g.length[h] - g.length[r] = Height[h] - Height[r]
      /\ g.length \in [T \cup {b} -> Nat]
      /\ g.successor_hashes \in [T \cup {b} -> SUBSET Block]
      /\ f.best_tip \in Block
  BY <1>3 DEF Sound, IsTree, IsFrontier
<1> HIDE DEF g, G, heir
<1>6. m = [ root |-> heir, best_tip |-> f.best_tip
          , successor_hashes |-> [h \in K |-> g.successor_hashes[h]]
          , length |-> [h \in K |-> g.length[h]]
          , protocol_states |-> Required[heir] ]
  BY <1>3 DEF move_root, Kept
<1>7. Table(m) = K
  BY <1>6 DEF Table
<1>8. heir \in K /\ b \in K
  <2>1. b \notin G /\ b # r
    BY <1>2, <1>4
  <2>2. heir \notin G
    BY <1>1, <1>2
  <2> QED
    BY <1>1, <2>1, <2>2
<1>9. \A h \in K \ {heir} : h # Genesis /\ Parent[h] \in K
  <2> SUFFICES ASSUME NEW h \in K \ {heir}
               PROVE  h # Genesis /\ Parent[h] \in K
    OBVIOUS
  <2>1. CASE h = b
    <3>1. Parent[b] \in Anc[b]
      BY AncOf, ParentOfAncestor
    <3> QED
      BY <1>1, <1>2, <2>1, <3>1
  <2>2. CASE h # b
    <3>1. h \in T \ {r} /\ h \notin G /\ h # Genesis /\ Parent[h] \in T
      BY <1>4, <2>2
    <3>2. h \in f.successor_hashes[Parent[h]]
      BY <1>4, <3>1
    <3>3. Parent[h] # r
      BY <1>2, <3>1, <3>2
    <3>4. Parent[h] \notin G
      BY <1>2, <3>1, <3>2
    <3> QED
      BY <3>1, <3>3, <3>4
  <2> QED
    BY <2>1, <2>2
<1>10. \A h \in K : heir \in Anc[h]
  <2> DEFINE S == { x \in Block : x \in K => heir \in Anc[x] }
  <2>0. heir \in Block
    BY <1>1, <1>4
  <2>1. Genesis \in S
    BY <1>1, <1>9, <2>0, BlockAssumption, AncOf
  <2>2. ASSUME NEW x \in Block \ {Genesis}, Parent[x] \in S
        PROVE  x \in S
    <3>1. CASE x \in K /\ x # heir
      <4>1. Parent[x] \in K
        BY <1>9, <3>1
      <4> QED
        BY <2>2, <4>1, AncOf
    <3>2. CASE x = heir \/ x \notin K
      BY <2>0, <3>2, AncOf
    <3> QED
      BY <3>1, <3>2
  <2>3. S \in SUBSET Block
    OBVIOUS
  <2>4. S = Block
    BY <2>1, <2>2, <2>3, DescentAssumption
  <2> QED
    BY <1>4, <2>4
<1>11. \A h \in K : m.successor_hashes[h] = { c \in K \ {heir} : Parent[c] = h }
  <2> SUFFICES ASSUME NEW h \in K
               PROVE  g.successor_hashes[h] = { c \in K \ {heir} : Parent[c] = h }
    BY <1>6
  <2>1. \A c \in (T \cup {b}) \ {r} : Parent[c] = h => c # heir /\ c \notin G
    BY <1>1, <1>2
  <2> QED
    BY <1>5, <2>1
<1>12. \A h \in K : m.length[h] - m.length[heir] = Height[h] - Height[heir]
  <2>1. \A h \in K : m.length[h] = g.length[h]
    BY <1>6
  <2>2. \A h \in T \cup {b} : g.length[h] \in Nat /\ Height[h] \in Nat
    BY <1>4, <1>5, BlockAssumption
  <2>3. heir \in T \cup {b} /\ r \in T \cup {b}
    BY <1>1, <1>4
  <2> QED
    BY <1>5, <1>8, <2>1, <2>2, <2>3
<1>13. IsFrontier(m)
  <2>1. K \subseteq Block /\ heir \in Block
    BY <1>1, <1>4
  <2>2. [h \in K |-> g.length[h]] \in [K -> Nat]
    BY <1>5
  <2>3. [h \in K |-> g.successor_hashes[h]] \in [K -> SUBSET Block]
    BY <1>5
  <2>4. Required[heir] \in SUBSET Block
    BY <2>1, ScanStateAssumption
  <2> HIDE DEF K, m
  <2> QED
    BY <1>5, <1>6, <1>7, <2>1, <2>2, <2>3, <2>4 DEF IsFrontier
<1>14. m.root = heir /\ m.best_tip = f.best_tip /\ m.protocol_states = Required[heir]
  BY <1>6
<1>15. IsTree(m)
  BY <1>7, <1>8, <1>9, <1>10, <1>11, <1>14 DEF IsTree
<1>16. Sound(m)
  BY <1>7, <1>12, <1>13, <1>14, <1>15 DEF Sound
<1> QED
  BY <1>7, <1>8, <1>14, <1>16 DEF g, G, heir

-----------------------------------------------------------------------------
(* The diffs of a new breadcrumb. *)

\* Setting the best tip to a block of the frontier changes nothing else.
LEMMA SetTipSound ==
  ASSUME NEW f, Sound(f), NEW b \in Block
  PROVE  LET t == apply_diff(f, Best_tip_changed(b)) IN
         /\ t.best_tip = b /\ t.root = f.root /\ Table(t) = Table(f)
         /\ Sound(t)
<1> DEFINE t == apply_diff(f, Best_tip_changed(b))
<1>1. IsFrontier(f)
  BY DEF Sound
<1>2. t = [f EXCEPT !.best_tip = b]
  BY DEF apply_diff, Best_tip_changed
<1>3. /\ t.best_tip = b /\ t.root = f.root /\ t.length = f.length
      /\ t.successor_hashes = f.successor_hashes
      /\ t.protocol_states = f.protocol_states
  BY <1>1, <1>2 DEF IsFrontier
<1>4. Table(t) = Table(f)
  BY <1>3 DEF Table
<1>5. IsFrontier(t)
  BY <1>1, <1>2, <1>4 DEF IsFrontier
<1> HIDE DEF t
<1>6. Sound(t)
  BY <1>3, <1>4, <1>5 DEF Sound, IsTree
<1> QED
  BY <1>3, <1>4, <1>6 DEF t

\* What add_breadcrumb_exn's diffs do to the frontier.
LEMMA DiffsApplied ==
  ASSUME NEW f, NEW b
  PROVE  LET n == AddNode(f, b)
             heir == Heir(f, b)
             m == move_root(n, heir, garbage_breadcrumbs(f, heir))
             taken == <<f.best_tip, b>> \in Take
             tip == Best_tip_changed(b)
             result == apply_diffs(f, calculate_diffs(f, b))
         IN  /\  TooLong(f, b) /\  taken => result = apply_diff(m, tip)
             /\  TooLong(f, b) /\ ~taken => result = m
             /\ ~TooLong(f, b) /\  taken => result = apply_diff(n, tip)
             /\ ~TooLong(f, b) /\ ~taken => result = n
<1> DEFINE n == AddNode(f, b)
           heir == Heir(f, b)
           G == garbage_breadcrumbs(f, heir)
           taken == <<f.best_tip, b>> \in Take
           m == move_root(n, heir, G)
           d1 == New_node(b)
           d2 == calculate_root_transition_diff(f, heir)
           d3 == Best_tip_changed(b)
<1>1. apply_diff(f, d1) = n
  BY DEF apply_diff, New_node
<1>2. apply_diff(n, d2) = m
  BY DEF apply_diff, calculate_root_transition_diff, Root_transitioned
<1> HIDE DEF n, m, d1, d2, d3, heir, G
<1>3. CASE TooLong(f, b) /\ taken
  <2>1. calculate_diffs(f, b) = << d1, d2, d3 >>
    BY <1>3 DEF calculate_diffs, d1, d2, d3, heir
  <2> QED
    BY <1>1, <1>2, <1>3, <2>1 DEF apply_diffs, n, m, heir, G, d3
<1>4. CASE TooLong(f, b) /\ ~taken
  <2>1. calculate_diffs(f, b) = << d1, d2 >>
    BY <1>4 DEF calculate_diffs, d1, d2, d3, heir
  <2> QED
    BY <1>1, <1>2, <1>4, <2>1 DEF apply_diffs, n, m, heir, G
<1>5. CASE ~TooLong(f, b) /\ taken
  <2>1. calculate_diffs(f, b) = << d1, d3 >>
    BY <1>5 DEF calculate_diffs, d1, d2, d3, heir
  <2> QED
    BY <1>1, <1>5, <2>1 DEF apply_diffs, n, d3
<1>6. CASE ~TooLong(f, b) /\ ~taken
  <2>1. calculate_diffs(f, b) = << d1 >>
    BY <1>6 DEF calculate_diffs, d1, d2, d3, heir
  <2> QED
    BY <1>1, <1>6, <2>1 DEF apply_diffs, n
<1> QED
  BY <1>3, <1>4, <1>5, <1>6

\* The lookups of a new breadcrumb succeed in a sound frontier.
LEMMA LookupsSound ==
  ASSUME NEW f, Sound(f), f.best_tip \in Table(f),
         NEW b \in Block \ {Genesis}, b \notin Table(f), Parent[b] \in Table(f)
  PROVE  LookupsSucceed(f, b)
<1> DEFINE heir == Heir(f, b)
<1>1. f.root \in Table(f) /\ f.root \in Block
      /\ f.protocol_states = Required[f.root]
  BY DEF Sound, IsTree, IsFrontier
<1>2. ASSUME TooLong(f, b)
      PROVE  /\ heir \in Table(f)
             /\ Required[heir] \subseteq f.protocol_states \cup {f.root}
             /\ heir \in Emits => TxnStates[heir] \subseteq f.protocol_states
  <2>1. heir \in Table(f) \ {Genesis} /\ Parent[heir] = f.root
    BY <1>2, HeirIsOnPath
  <2>2. heir \in Block \ {Genesis}
    BY <2>1 DEF Sound, IsFrontier
  <2> QED
    BY <1>1, <2>1, <2>2, ScanStateAssumption
<1> QED
  BY <1>1, <1>2 DEF LookupsSucceed, find_protocol_state

\* How deep a new breadcrumb makes the frontier: one block too deep at most,
\* and then the breadcrumb is the longest block, is taken as the best tip and
\* moves the root up by one.
LEMMA GrowthIsBounded ==
  ASSUME NEW f, Sound(f), Within(f, MaxLength), f.best_tip \in Table(f),
         NEW b \in Block \ {Genesis}, b \notin Table(f), Parent[b] \in Table(f)
  PROVE  LET n == AddNode(f, b)
             heir == Heir(f, b)
             m == move_root(n, heir, garbage_breadcrumbs(f, heir))
         IN  /\ Within(n, MaxLength + 1)
             /\ ~TooLong(f, b) => Within(n, MaxLength)
             /\ TooLong(f, b) =>
                  /\ <<f.best_tip, b>> \in Take
                  /\ \A h \in Table(f) : <<b, h>> \notin Take
                  /\ Height[heir] = Height[f.root] + 1
                  /\ Within(m, MaxLength)
<1> DEFINE T == Table(f)
           n == AddNode(f, b)
           heir == Heir(f, b)
           m == move_root(n, heir, garbage_breadcrumbs(f, heir))
<1>1. /\ T \subseteq Block /\ f.root \in T
      /\ \A h \in T : /\ Height[h] \in Nat /\ Height[f.root] \in Nat
                       /\ f.length[h] \in Nat
                       /\ f.length[h] - f.length[f.root]
                            = Height[h] - Height[f.root]
                       /\ Height[h] - Height[f.root] \in 0 .. MaxLength
  BY BlockAssumption DEF Sound, IsTree, IsFrontier, Within
<1>2. Height[b] = Height[Parent[b]] + 1 /\ Height[b] \in Nat
  BY AncOf, BlockAssumption
<1>3. TooLong(f, b) <=> Height[b] - Height[f.root] > MaxLength
  BY <1>1, <1>2, MaxLengthAssumption DEF TooLong
<1>4. Table(n) = T \cup {b} /\ n.root = f.root
  BY AddNodeSound
<1>5. \A h \in T \cup {b} : Height[h] - Height[f.root] \in 0 .. (MaxLength + 1)
  BY <1>1, <1>2, MaxLengthAssumption
<1>6. Within(n, MaxLength + 1)
  BY <1>4, <1>5 DEF Within
<1>7. ASSUME ~TooLong(f, b) PROVE Within(n, MaxLength)
  BY <1>1, <1>2, <1>3, <1>4, <1>7, MaxLengthAssumption DEF Within
<1>8. ASSUME TooLong(f, b)
      PROVE  /\ <<f.best_tip, b>> \in Take
             /\ \A h \in Table(f) : <<b, h>> \notin Take
             /\ Height[heir] = Height[f.root] + 1
             /\ Within(m, MaxLength)
  <2>1. \A h \in T : Height[h] < Height[b]
    BY <1>1, <1>2, <1>3, <1>8, MaxLengthAssumption
  <2>2. /\ <<f.best_tip, b>> \in Take
        /\ \A h \in T : <<b, h>> \notin Take
    BY <1>1, <2>1, SelectAssumption
  <2>3. heir \in Block \ {Genesis} /\ Parent[heir] = f.root
    BY <1>1, <1>8, HeirIsOnPath
  <2>4. Height[heir] = Height[f.root] + 1
    BY <2>3, AncOf
  <2>5. Table(m) \subseteq T \cup {b} /\ m.root = heir /\ Sound(m)
    BY <1>8, MoveRootSound
  <2>6. ASSUME NEW h \in Table(m)
        PROVE  Height[h] - Height[heir] \in 0 .. MaxLength
    <3>1. heir \in Anc[h] /\ h \in Block
      BY <2>5 DEF Sound, IsTree, IsFrontier
    <3>2. Height[heir] <= Height[h] /\ Height[heir] \in Nat /\ Height[h] \in Nat
      BY <2>3, <3>1, AncestorIsShorter, BlockAssumption
    <3>3. Height[h] - Height[f.root] <= MaxLength + 1 /\ Height[f.root] \in Nat
      BY <1>1, <1>5, <2>5, MaxLengthAssumption
    <3> QED
      BY <2>4, <3>2, <3>3, MaxLengthAssumption
  <2> QED
    BY <2>2, <2>4, <2>5, <2>6 DEF Within
<1> QED
  BY <1>6, <1>7, <1>8
=============================================================================
