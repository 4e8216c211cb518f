------------------------- MODULE FullFrontierProofs -------------------------
(***************************************************************************)
(* Proofs about the full frontier, for every universe of blocks and every  *)
(* max_length.                                                             *)
(***************************************************************************)
EXTENDS FrontierQueries, FrontierTreeProofs, TLAPS

\* The invariant is preserved, the root moves along the best chain, and only
\* forks are dropped.
LEMMA AddBreadcrumbSound ==
  ASSUME Inductive, NEW b \in Block, add_breadcrumb_exn(b)
  PROVE  /\ Inductive'
         /\ frontier'.root # frontier.root =>
              /\ frontier'.root \in frontier.successor_hashes[frontier.root]
              /\ frontier'.root \in Anc[frontier'.best_tip]
         /\ \A h \in Table(frontier) \ Table(frontier') :
              /\ frontier'.root # frontier.root
              /\ frontier'.root \notin Anc[h]
<1> DEFINE f == frontier
           T == Table(f)
           n == AddNode(f, b)
           heir == Heir(f, b)
           G == garbage_breadcrumbs(f, heir)
           m == move_root(n, heir, G)
           taken == <<f.best_tip, b>> \in Take
           tip == Best_tip_changed(b)
<1>1. /\ Sound(f) /\ Within(f, MaxLength)
      /\ f.best_tip \in T /\ \A h \in T : <<f.best_tip, h>> \notin Take
  BY DEF Inductive, BestTipIsBest, WithinMaxLength
<1>2. b \in Block \ {Genesis} /\ b \notin T /\ Parent[b] \in T
  BY DEF add_breadcrumb_exn
<1>3. raised' = FALSE /\ f' = apply_diffs(f, calculate_diffs(f, b))
  BY <1>1, <1>2, LookupsSound DEF add_breadcrumb_exn
<1>4. T \subseteq Block /\ f.root \in T
  BY <1>1 DEF Sound, IsTree, IsFrontier
<1>5. CASE ~TooLong(f, b)
  <2>1. /\ Table(n) = T \cup {b} /\ n.root = f.root /\ n.best_tip = f.best_tip
        /\ Sound(n) /\ Within(n, MaxLength)
    BY <1>1, <1>2, <1>5, AddNodeSound, GrowthIsBounded
  <2>2. CASE taken
    <3>1. f' = apply_diff(n, tip)
      BY <1>3, <1>5, <2>2, DiffsApplied
    <3>2. /\ f'.best_tip = b /\ f'.root = f.root /\ Table(f') = T \cup {b}
          /\ Sound(f')
      BY <2>1, <3>1, SetTipSound
    <3>3. \A h \in T \cup {b} : <<b, h>> \notin Take
      BY <1>1, <1>4, <2>2, SelectAssumption
    <3>4. WithinMaxLength' /\ BestTipIsBest'
      BY <2>1, <3>2, <3>3 DEF WithinMaxLength, Within, BestTipIsBest
    <3> QED
      BY <1>3, <3>2, <3>4 DEF Inductive
  <2>3. CASE ~taken
    <3>1. f' = n
      BY <1>3, <1>5, <2>3, DiffsApplied
    <3>2. WithinMaxLength' /\ BestTipIsBest'
      BY <1>1, <2>1, <2>3, <3>1 DEF WithinMaxLength, BestTipIsBest
    <3> QED
      BY <1>3, <2>1, <3>1, <3>2 DEF Inductive
  <2> QED
    BY <2>2, <2>3
<1>6. CASE TooLong(f, b)
  <2>1. taken /\ (\A h \in T : <<b, h>> \notin Take) /\ Within(m, MaxLength)
    BY <1>1, <1>2, <1>6, GrowthIsBounded
  <2>2. /\ Table(m) = (T \cup {b}) \ (G \cup {f.root})
        /\ b \in Table(m) /\ m.root = heir /\ Sound(m)
    BY <1>1, <1>2, <1>6, MoveRootSound
  <2>3. f' = apply_diff(m, tip)
    BY <1>3, <1>6, <2>1, DiffsApplied
  <2>4. /\ f'.best_tip = b /\ f'.root = heir /\ Table(f') = Table(m)
        /\ Sound(f')
    BY <2>2, <2>3, SetTipSound
  <2>5. /\ heir \in T \ {f.root, Genesis} /\ heir \in f.successor_hashes[f.root]
        /\ heir \in Anc[b] /\ heir \notin Anc[f.root]
    BY <1>1, <1>2, <1>6, HeirIsOnPath
  <2>6. \A h \in Table(f') : <<b, h>> \notin Take
    BY <2>1, <2>2, <2>4, SelectAssumption
  <2>7. WithinMaxLength' /\ BestTipIsBest'
    BY <2>1, <2>2, <2>4, <2>6 DEF WithinMaxLength, Within, BestTipIsBest
  <2>8. Inductive'
    BY <1>3, <2>4, <2>7 DEF Inductive
  <2>9. \A h \in T \ Table(f') : heir \notin Anc[h]
    <3>1. \A x \in G : heir \notin Anc[x]
      BY <1>1, <1>2, <1>6, GarbageIsForks
    <3> QED
      BY <2>2, <2>4, <2>5, <3>1
  <2> QED
    BY <2>4, <2>5, <2>8, <2>9
<1> QED
  BY <1>5, <1>6

-----------------------------------------------------------------------------
(* The theorems. *)

\* A frontier created at a root is sound.
LEMMA InitSound == Init => Inductive
<1> SUFFICES ASSUME Init PROVE Inductive
  OBVIOUS
<1>1. PICK r \in Block : frontier = create(r)
  BY DEF Init
<1>2. /\ frontier.root = r /\ frontier.best_tip = r
      /\ frontier.successor_hashes = [h \in {r} |-> {}]
      /\ frontier.length = [h \in {r} |-> 0]
      /\ frontier.protocol_states = Required[r]
      /\ Table(frontier) = {r}
  BY <1>1 DEF create, Table
<1>3. IsFrontier(frontier)
  BY <1>1, <1>2, ScanStateAssumption DEF IsFrontier, create
<1>4. IsTree(frontier)
  BY <1>2, AncOf DEF IsTree
<1>5. Sound(frontier)
  <2>1. Height[r] \in Nat
    BY BlockAssumption
  <2> QED
    BY <1>2, <1>3, <1>4, <2>1 DEF Sound
<1>6. WithinMaxLength
  BY <1>2, BlockAssumption, MaxLengthAssumption DEF WithinMaxLength, Within
<1>7. BestTipIsBest
  BY <1>2, SelectAssumption DEF BestTipIsBest
<1> QED
  BY <1>5, <1>6, <1>7 DEF Init, Inductive

\* Adding a breadcrumb keeps the frontier sound and raises nothing.
LEMMA NextSound == Inductive /\ [Next]_vars => Inductive'
<1> SUFFICES ASSUME Inductive, [Next]_vars PROVE Inductive'
  OBVIOUS
<1>1. CASE Next
  BY <1>1, AddBreadcrumbSound DEF Next
<1>2. CASE UNCHANGED vars
  BY <1>2 DEF vars, Inductive, WithinMaxLength, BestTipIsBest
<1> QED
  BY <1>1, <1>2

\* The inductive invariant of the frontier.
THEOREM FrontierInvariant == Spec => []Inductive
  BY InitSound, NextSound, PTL DEF Spec

\* The frontier's table and pointers keep their types.
THEOREM FrontierTypeCorrect == Spec => []TypeOK
<1>1. Inductive => TypeOK
  BY DEF Inductive, Sound, TypeOK
<1> QED
  BY <1>1, FrontierInvariant, PTL

\* The frontier is always a tree below its root.
THEOREM FrontierStaysATree == Spec => []FrontierIsTree
<1>1. Inductive => FrontierIsTree
  BY DEF Inductive, Sound, FrontierIsTree
<1> QED
  BY <1>1, FrontierInvariant, PTL

\* No block of the frontier is more than max_length above the root.
THEOREM FrontierStaysShort == Spec => []WithinMaxLength
<1>1. Inductive => WithinMaxLength
  BY DEF Inductive
<1> QED
  BY <1>1, FrontierInvariant, PTL

\* The best tip is in the frontier, and no block of it is preferred to it.
THEOREM BestTipStaysBest == Spec => []BestTipIsBest
<1>1. Inductive => BestTipIsBest
  BY DEF Inductive
<1> QED
  BY <1>1, FrontierInvariant, PTL

\* None of the lookups of add_breadcrumb_exn ever raises.
THEOREM LookupsNeverRaise == Spec => []NeverRaises
<1>1. Inductive => NeverRaises
  BY DEF Inductive, NeverRaises
<1> QED
  BY <1>1, FrontierInvariant, PTL

\* The root moves only to a child on the chain of the new best tip.
THEOREM RootFollowsBestChain == Spec => RootMovesAlongBestChain
<1>1. Inductive /\ [Next]_vars =>
        [frontier'.root # frontier.root =>
           /\ frontier'.root \in frontier.successor_hashes[frontier.root]
           /\ frontier'.root \in Anc[frontier'.best_tip]]_vars
  BY AddBreadcrumbSound DEF Next
<1> QED
  BY <1>1, FrontierInvariant, PTL DEF Spec, RootMovesAlongBestChain

\* Moving the root drops the old root and the forks, and nothing else is
\* ever dropped.
THEOREM OnlyForksLeave == Spec => OnlyForksAreDropped
<1>1. Inductive /\ [Next]_vars =>
        [\A h \in Table(frontier) \ Table(frontier') :
           /\ frontier'.root # frontier.root
           /\ frontier'.root \notin Anc[h]]_vars
  BY AddBreadcrumbSound DEF Next
<1> QED
  BY <1>1, FrontierInvariant, PTL DEF Spec, OnlyForksAreDropped

-----------------------------------------------------------------------------
(* The recursive queries.  Each is compared with a closed form: the closed *)
(* form satisfies the defining equation, so the function the definition    *)
(* chooses satisfies it too, and the two agree step by step.               *)

AncestorAt(b, h) == CHOOSE a \in Anc[b] : Height[a] = h

\* The ancestor of a block at a given height exists and is the only one.
LEMMA AncestorAtIs ==
  ASSUME NEW r \in Block, NEW b \in Block, r \in Anc[b],
         NEW h \in Height[r] .. Height[b]
  PROVE  /\ AncestorAt(b, h) \in Anc[b]
         /\ AncestorAt(b, h) \in Block
         /\ Height[AncestorAt(b, h)] = h
         /\ r \in Anc[AncestorAt(b, h)]
         /\ \A a \in Anc[b] : Height[a] = h => a = AncestorAt(b, h)
<1>1. \E a \in Anc[b] : Height[a] = h
  BY AncestorAtHeight
<1>2. AncestorAt(b, h) \in Anc[b] /\ Height[AncestorAt(b, h)] = h
  BY <1>1 DEF AncestorAt
<1>3. AncestorAt(b, h) \in Block
  BY <1>2, AncOf
<1>4. Height[r] <= h
  BY BlockAssumption
<1>5. r \in Anc[AncestorAt(b, h)]
  BY <1>2, <1>3, <1>4, AncestorsNest
<1> QED
  BY <1>2, <1>3, <1>5, AncestorsAreAChain

\* How many blocks find_path lists, and which.
PathLen(f, n, b) ==
  IF n < Height[b] - Height[f.root] THEN n ELSE Height[b] - Height[f.root]

Path(f, n, b) ==
  [i \in 1 .. PathLen(f, n, b) |->
     AncestorAt(b, Height[b] - PathLen(f, n, b) + i)]

\* A descendant of the root that is not the root has a parent that descends
\* from the root, and the same ancestors up to the parent.
LEMMA ParentDescends ==
  ASSUME NEW f, f.root \in Block, NEW b \in Descendants(f), b # f.root
  PROVE  /\ b # Genesis /\ Parent[b] \in Descendants(f)
         /\ Height[b] = Height[Parent[b]] + 1
         /\ Height[f.root] <= Height[Parent[b]]
         /\ \A h \in Height[f.root] .. Height[Parent[b]] :
              AncestorAt(b, h) = AncestorAt(Parent[b], h)
<1>1. b \in Block /\ f.root \in Anc[b]
  BY DEF Descendants
<1>2. b # Genesis
  BY <1>1, AncestorAssumption
<1>3. /\ Parent[b] \in Block /\ Anc[b] = Anc[Parent[b]] \cup {b}
      /\ Height[b] = Height[Parent[b]] + 1
  BY <1>1, <1>2, AncOf
<1>4. f.root \in Anc[Parent[b]]
  BY <1>1, <1>3
<1>5. Height[f.root] <= Height[Parent[b]]
  BY <1>3, <1>4, AncestorIsShorter
<1>6. ASSUME NEW h \in Height[f.root] .. Height[Parent[b]]
      PROVE  AncestorAt(b, h) = AncestorAt(Parent[b], h)
  <2>1. h \in Height[f.root] .. Height[b]
    BY <1>1, <1>3, BlockAssumption
  <2>2. AncestorAt(Parent[b], h) \in Anc[b] /\ Height[AncestorAt(Parent[b], h)] = h
    BY <1>3, <1>4, AncestorAtIs
  <2> QED
    BY <1>1, <2>1, <2>2, AncestorAtIs
<1> QED
  BY <1>2, <1>3, <1>4, <1>5, <1>6 DEF Descendants

\* The closed form is a sequence of blocks that grows as find_path does.
LEMMA PathGrows ==
  ASSUME NEW f, f.root \in Block, NEW n \in Nat, NEW b \in Descendants(f)
  PROVE  /\ Path(f, n, b) \in Seq(Block)
         /\ Len(Path(f, n, b)) = PathLen(f, n, b)
         /\ n = 0 \/ b = f.root => Path(f, n, b) = << >>
         /\ n # 0 /\ b # f.root /\ Parent[b] = f.root => Path(f, n, b) = << b >>
         /\ n # 0 /\ b # f.root /\ Parent[b] # f.root =>
              Path(f, n, b) = Append(Path(f, n - 1, Parent[b]), b)
<1>1. b \in Block /\ f.root \in Anc[b] /\ Height[f.root] \in Nat /\ Height[b] \in Nat
      /\ Height[f.root] <= Height[b]
  BY BlockAssumption, AncestorIsShorter DEF Descendants
<1>2. PathLen(f, n, b) \in 0 .. Height[b] - Height[f.root]
  BY <1>1 DEF PathLen
<1>3. PICK l : l = PathLen(f, n, b)
  OBVIOUS
<1>4. Path(f, n, b) = [i \in 1 .. l |-> AncestorAt(b, Height[b] - l + i)]
  BY <1>3 DEF Path
<1>5. \A i \in 1 .. l : Height[b] - l + i \in Height[f.root] .. Height[b]
  BY <1>1, <1>2, <1>3
<1>6. \A i \in 1 .. l : AncestorAt(b, Height[b] - l + i) \in Block
  BY <1>1, <1>5, AncestorAtIs
<1>7. Path(f, n, b) \in Seq(Block) /\ Len(Path(f, n, b)) = l
  BY <1>2, <1>3, <1>4, <1>6
<1>8. ASSUME n = 0 \/ b = f.root PROVE Path(f, n, b) = << >>
  <2>1. l = 0
    BY <1>1, <1>3, <1>8 DEF PathLen
  <2> QED
    BY <2>1, <1>7
<1>9. AncestorAt(b, Height[b]) = b
  <2>1. Height[b] \in Height[f.root] .. Height[b] /\ b \in Anc[b]
    BY <1>1, AncOf
  <2> QED
    BY <1>1, <2>1, AncestorAtIs
<1>10. ASSUME n # 0, b # f.root, Parent[b] = f.root PROVE Path(f, n, b) = << b >>
  <2>1. Height[b] = Height[f.root] + 1
    BY <1>10, ParentDescends
  <2>2. l = 1
    BY <1>1, <1>3, <1>10, <2>1 DEF PathLen
  <2>3. Height[b] - l + 1 = Height[b]
    BY <2>2, <1>1
  <2>4. Path(f, n, b)[1] = b
    BY <1>4, <1>9, <2>2, <2>3
  <2> QED
    BY <1>7, <2>2, <2>4
<1>11. ASSUME n # 0, b # f.root, Parent[b] # f.root
       PROVE  Path(f, n, b) = Append(Path(f, n - 1, Parent[b]), b)
  <2>1. PICK p : p = Parent[b]
    OBVIOUS
  <2>2. /\ p \in Descendants(f) /\ Height[b] = Height[p] + 1
        /\ Height[f.root] <= Height[p]
        /\ \A h \in Height[f.root] .. Height[p] : AncestorAt(b, h) = AncestorAt(p, h)
    BY <1>11, <2>1, ParentDescends
  <2>3. p \in Block /\ f.root \in Anc[p] /\ Height[p] \in Nat
    BY <2>2, BlockAssumption DEF Descendants
  <2>4. l \in Nat /\ l # 0 /\ PathLen(f, n - 1, p) = l - 1
    BY <1>1, <1>2, <1>3, <1>11, <2>2, <2>3 DEF PathLen
  <2>5. Path(f, n - 1, p) = [i \in 1 .. l - 1 |-> AncestorAt(p, Height[p] - (l - 1) + i)]
    BY <2>4 DEF Path
  <2>6. \A i \in 1 .. l - 1 :
          /\ Height[p] - (l - 1) + i = Height[b] - l + i
          /\ Height[b] - l + i \in Height[f.root] .. Height[p]
    BY <1>1, <1>2, <1>3, <2>2, <2>3, <2>4
  <2>7. PICK s : s = Path(f, n - 1, p)
    OBVIOUS
  <2>8. s = [i \in 1 .. l - 1 |-> AncestorAt(b, Height[b] - l + i)]
    BY <2>2, <2>5, <2>6, <2>7
  <2>9. s \in Seq(Block) /\ Len(s) = l - 1
    BY <1>6, <2>4, <2>8
  <2>10. PICK t : t = Append(s, b)
    OBVIOUS
  <2>11. t \in Seq(Block) /\ Len(t) = l /\ t[l] = b
         /\ \A i \in 1 .. l - 1 : t[i] = AncestorAt(b, Height[b] - l + i)
    BY <1>1, <2>4, <2>8, <2>9, <2>10
  <2>12. Height[b] - l + l = Height[b]
    BY <1>1, <2>4
  <2>13. \A i \in 1 .. l : t[i] = AncestorAt(b, Height[b] - l + i)
    BY <1>9, <2>4, <2>11, <2>12
  <2>14. t = Path(f, n, b)
    BY <1>4, <1>7, <2>11, <2>13
  <2> QED
    BY <2>1, <2>7, <2>10, <2>14
<1> QED
  BY <1>3, <1>7, <1>8, <1>10, <1>11

\* find_path is its closed form.
LEMMA FindPathIs ==
  ASSUME NEW f, f.root \in Block
  PROVE  \A n \in Nat : \A b \in Descendants(f) :
           find_path(f)[n][b] = Path(f, n, b)
<1> DEFINE D == Descendants(f)
           Body(g, n) ==
             [b \in D |-> IF n = 0 \/ b = f.root THEN << >>
                          ELSE IF Parent[b] = f.root THEN << b >>
                          ELSE Append(g[n - 1][Parent[b]], b)]
           W == [n \in Nat |-> [b \in D |-> Path(f, n, b)]]
           path == CHOOSE g : g = [n \in Nat |-> Body(g, n)]
<1>1. \A n \in Nat : W[n] = Body(W, n)
  <2>1. ASSUME NEW n \in Nat, NEW b \in D
        PROVE  Path(f, n, b) = IF n = 0 \/ b = f.root THEN << >>
                               ELSE IF Parent[b] = f.root THEN << b >>
                               ELSE Append(W[n - 1][Parent[b]], b)
    <3>1. CASE n = 0 \/ b = f.root
      BY <3>1, PathGrows
    <3>2. CASE n # 0 /\ b # f.root
      <4>1. n - 1 \in Nat /\ Parent[b] \in D
        BY <3>2, ParentDescends
      <4>2. W[n - 1][Parent[b]] = Path(f, n - 1, Parent[b])
        BY <4>1
      <4> QED
        BY <3>2, <4>2, PathGrows
    <3> QED
      BY <3>1, <3>2
  <2> QED
    BY <2>1
<1>2. W = [n \in Nat |-> Body(W, n)]
  BY <1>1
<1>3. path = [n \in Nat |-> Body(path, n)]
  <2> HIDE DEF W, Body
  <2> QED
    BY <1>2
<1>4. find_path(f) = path
  BY DEF find_path
<1>5. \A n \in Nat : path[n] = Body(path, n)
  <2> HIDE DEF path, Body
  <2> QED
    BY <1>3
<1>6. PICK S : S = { n \in Nat : path[n] = W[n] }
  OBVIOUS
<1>7. 0 \in S
  <2>1. Body(path, 0) = Body(W, 0)
    OBVIOUS
  <2> HIDE DEF path, Body, W
  <2> QED
    BY <1>1, <1>5, <1>6, <2>1
<1>8. ASSUME NEW n \in Nat, n \in S PROVE n + 1 \in S
  <2>1. path[n] = W[n] /\ n + 1 \in Nat /\ n + 1 - 1 = n
    <3> HIDE DEF path, W, Body
    <3>1. path[n] = W[n]
      BY <1>6, <1>8, Zenon
    <3> QED
      BY <3>1
  <2> HIDE DEF path, W
  <2>2. Body(path, n + 1) = Body(W, n + 1)
    BY <2>1
  <2> HIDE DEF Body
  <2> QED
    BY <1>1, <1>5, <1>6, <2>1, <2>2
<1>9. Nat \subseteq S
  BY <1>7, <1>8, NatAll
<1>10. \A n \in Nat : path[n] = W[n]
  <2> HIDE DEF path, W
  <2> QED
    BY <1>6, <1>9
<1> HIDE DEF path
<1> QED
  BY <1>4, <1>10

\* A sound frontier's blocks, and the children of its blocks, descend from
\* its root.
LEMMA FrontierDescends ==
  ASSUME Inductive
  PROVE  /\ frontier.root \in Block /\ frontier.root \in Table(frontier)
         /\ Table(frontier) \subseteq Descendants(frontier)
         /\ frontier.best_tip \in Table(frontier)
         /\ \A b \in Block \ {Genesis} : Parent[b] \in Table(frontier) =>
              b \in Descendants(frontier) /\ b # frontier.root
<1>1. /\ frontier.root \in Block /\ frontier.root \in Table(frontier)
      /\ Table(frontier) \subseteq Block
      /\ \A h \in Table(frontier) : frontier.root \in Anc[h]
      /\ frontier.best_tip \in Table(frontier)
  BY DEF Inductive, Sound, IsFrontier, IsTree, BestTipIsBest
<1>2. ASSUME NEW b \in Block \ {Genesis}, Parent[b] \in Table(frontier)
      PROVE  frontier.root \in Anc[b] /\ b # frontier.root
  <2>1. /\ Anc[b] = Anc[Parent[b]] \cup {b} /\ Height[b] = Height[Parent[b]] + 1
        /\ Height[b] \in Nat /\ Height[Parent[b]] \in Nat
    BY <1>1, <1>2, AncOf, BlockAssumption
  <2>2. Height[frontier.root] <= Height[Parent[b]]
    BY <1>1, <1>2, AncestorIsShorter
  <2> QED
    BY <1>1, <1>2, <2>1, <2>2
<1> QED
  BY <1>1, <1>2 DEF Descendants

\* The path to a block, without a bound, is its ancestors above the root.
LEMMA PathMapIs ==
  ASSUME NEW f, f.root \in Block, NEW b \in Descendants(f)
  PROVE  /\ path_map(f, b) \in Seq(Block)
         /\ Len(path_map(f, b)) = Height[b] - Height[f.root]
         /\ Height[b] - Height[f.root] \in Nat
         /\ path_map(f, b) =
              [i \in 1 .. Height[b] - Height[f.root] |->
                 AncestorAt(b, Height[f.root] + i)]
         /\ Elements(path_map(f, b)) = Anc[b] \ Anc[f.root]
<1>1. b \in Block /\ f.root \in Anc[b] /\ Height[f.root] \in Nat /\ Height[b] \in Nat
      /\ Height[f.root] <= Height[b]
  BY BlockAssumption, AncestorIsShorter DEF Descendants
<1>2. PICK l : l = Height[b] - Height[f.root]
  OBVIOUS
<1>3. l \in Nat /\ PathLen(f, Height[b], b) = l
  BY <1>1, <1>2 DEF PathLen
<1>4. PICK p : p = path_map(f, b)
  OBVIOUS
<1>5. p = Path(f, Height[b], b)
  BY <1>1, <1>4, FindPathIs DEF path_map
<1>6. p \in Seq(Block) /\ Len(p) = l
  BY <1>1, <1>3, <1>5, PathGrows
<1>7. \A i \in 1 .. l : Height[b] - l + i = Height[f.root] + i
  BY <1>1, <1>2
<1>8. p = [i \in 1 .. l |-> AncestorAt(b, Height[f.root] + i)]
  BY <1>3, <1>5, <1>7 DEF Path
<1>9. ASSUME NEW i \in 1 .. l PROVE p[i] \in Anc[b] \ Anc[f.root]
  <2>1. Height[f.root] + i \in Height[f.root] .. Height[b]
    BY <1>1, <1>2
  <2>2. p[i] \in Anc[b] /\ Height[p[i]] = Height[f.root] + i
    BY <1>1, <1>8, <2>1, AncestorAtIs
  <2>3. p[i] \notin Anc[f.root]
    BY <1>1, <2>2, AncestorIsShorter
  <2> QED
    BY <2>2, <2>3
<1>10. ASSUME NEW a \in Anc[b] \ Anc[f.root]
       PROVE  \E i \in 1 .. l : p[i] = a
  <2>1. a \in Block /\ Height[a] \in Nat /\ Height[a] <= Height[b]
    BY <1>1, <1>10, AncOf, BlockAssumption, AncestorIsShorter
  <2>2. ~(Height[a] <= Height[f.root])
    BY <1>1, <1>10, AncestorsNest
  <2>3. PICK i \in 1 .. l : Height[f.root] + i = Height[a]
    <3>1. Height[a] - Height[f.root] \in 1 .. l
          /\ Height[f.root] + (Height[a] - Height[f.root]) = Height[a]
      BY <1>1, <1>2, <2>1, <2>2
    <3> QED
      BY <3>1
  <2>4. Height[a] \in Height[f.root] .. Height[b]
    BY <1>1, <2>1, <2>2
  <2>5. a = AncestorAt(b, Height[a])
    BY <1>1, <1>10, <2>4, AncestorAtIs
  <2> QED
    BY <1>8, <2>3, <2>5
<1>11. DOMAIN p = 1 .. l
  BY <1>8
<1>12. Elements(p) = Anc[b] \ Anc[f.root]
  BY <1>9, <1>10, <1>11 DEF Elements
<1> QED
  BY <1>2, <1>3, <1>4, <1>6, <1>8, <1>12

\* hash_path climbs to the root and leaves nothing out.
LEMMA PathsAreChainsHolds ==
  ASSUME Inductive PROVE PathsAreChains
<1> DEFINE f == frontier
<1> SUFFICES ASSUME NEW b \in Block \ {Genesis}, Parent[b] \in Table(f),
                    NEW p, p = path_map(f, b)
             PROVE  /\ Elements(p) = hash_path(f, b)
                    /\ Len(p) = Height[b] - Height[f.root]
                    /\ Parent[p[1]] = f.root
                    /\ \A i \in 2 .. Len(p) : Parent[p[i]] = p[i - 1]
  BY DEF PathsAreChains
<1> HIDE DEF f
<1>1. f.root \in Block /\ b \in Descendants(f) /\ b # f.root
  BY FrontierDescends DEF f
<1>2. /\ Len(p) = Height[b] - Height[f.root] /\ Height[b] - Height[f.root] \in Nat
      /\ p = [i \in 1 .. Height[b] - Height[f.root] |->
                AncestorAt(b, Height[f.root] + i)]
      /\ Elements(p) = Anc[b] \ Anc[f.root]
  BY <1>1, PathMapIs
<1>3. b \in Block /\ f.root \in Anc[b] /\ Height[f.root] \in Nat /\ Height[b] \in Nat
  BY <1>1, BlockAssumption DEF Descendants
<1>4. ASSUME NEW i \in 1 .. Len(p)
      PROVE  /\ p[i] \in Anc[b] /\ p[i] \in Block /\ p[i] # Genesis
             /\ Parent[p[i]] \in Anc[b]
             /\ Height[Parent[p[i]]] = Height[f.root] + i - 1
  <2>0. i \in Nat
    BY <1>2
  <2>1. Height[f.root] + i \in Height[f.root] .. Height[b]
    BY <1>2, <1>3
  <2>2. /\ p[i] \in Anc[b] /\ p[i] \in Block /\ Height[p[i]] = Height[f.root] + i
        /\ f.root \in Anc[p[i]]
    <3>1. p[i] = AncestorAt(b, Height[f.root] + i)
      BY <1>2
    <3> QED
      BY <1>1, <1>3, <2>1, <3>1, AncestorAtIs
  <2>3. p[i] # Genesis
    BY <1>3, <2>2, AncestorAssumption
  <2>4. Parent[p[i]] \in Anc[b] /\ Parent[p[i]] \in Block
        /\ Height[p[i]] = Height[Parent[p[i]]] + 1
    BY <1>3, <2>2, <2>3, ParentOfAncestor, AncOf
  <2>5. Height[Parent[p[i]]] \in Nat
    BY <2>4, BlockAssumption
  <2>6. Height[Parent[p[i]]] = Height[f.root] + i - 1
    <3>1. PICK x : x = Height[Parent[p[i]]]
      OBVIOUS
    <3>2. PICK y : y = Height[f.root]
      OBVIOUS
    <3>3. x \in Nat /\ y \in Nat /\ x + 1 = y + i
      BY <1>3, <2>2, <2>4, <2>5, <3>1, <3>2
    <3>4. x = y + i - 1
      BY <2>0, <3>3
    <3> QED
      BY <3>1, <3>2, <3>4
  <2> QED
    BY <2>2, <2>3, <2>4, <2>6
<1>5. Len(p) \in Nat /\ Len(p) # 0
  <2>1. Height[b] # Height[f.root]
    BY <1>1, <1>3, AncestorIsShorter
  <2> QED
    BY <1>2, <1>3, <2>1
<1>6. Parent[p[1]] = f.root
  <2>1. Parent[p[1]] \in Anc[b] /\ Height[Parent[p[1]]] = Height[f.root]
    BY <1>3, <1>4, <1>5
  <2> QED
    BY <1>3, <2>1, AncestorsAreAChain
<1>7. ASSUME NEW i \in 2 .. Len(p) PROVE Parent[p[i]] = p[i - 1]
  <2>1. i \in 1 .. Len(p) /\ i - 1 \in 1 .. Len(p)
    BY <1>5
  <2>2. Height[f.root] + (i - 1) \in Height[f.root] .. Height[b]
    BY <1>2, <1>3
  <2>3. p[i - 1] \in Anc[b] /\ Height[p[i - 1]] = Height[f.root] + (i - 1)
    <3>1. p[i - 1] = AncestorAt(b, Height[f.root] + (i - 1))
      BY <1>2, <2>1
    <3> QED
      BY <1>1, <1>3, <2>2, <3>1, AncestorAtIs
  <2>4. Height[Parent[p[i]]] = Height[f.root] + i - 1 /\ Parent[p[i]] \in Anc[b]
    BY <1>4, <2>1
  <2>5. Height[p[i - 1]] = Height[Parent[p[i]]]
    BY <1>3, <2>3, <2>4
  <2> QED
    BY <1>3, <2>3, <2>4, <2>5, AncestorsAreAChain
<1> QED
  BY <1>2, <1>6, <1>7 DEF hash_path

\* A bounded path is the end of the whole one.
LEMMA BoundedPathIsSuffixHolds ==
  ASSUME Inductive PROVE BoundedPathIsSuffix
<1> DEFINE f == frontier
           t == f.best_tip
<1>1. ASSUME NEW n \in 0 .. MaxLength + 1,
             NEW all, all = path_map(f, t),
             NEW p, p = best_tip_path(f, n),
             NEW len, len = IF n < Len(all) THEN n ELSE Len(all)
      PROVE  p = SubSeq(all, Len(all) - len + 1, Len(all))
  <2> HIDE DEF f
  <2>1. f.root \in Block /\ t \in Descendants(f) /\ n \in Nat
    BY FrontierDescends, MaxLengthAssumption DEF f
  <2>2. PICK l : l = Height[t] - Height[f.root]
    OBVIOUS
  <2>3. /\ l \in Nat /\ Len(all) = l /\ all \in Seq(Block)
        /\ all = [i \in 1 .. l |-> AncestorAt(t, Height[f.root] + i)]
    BY <1>1, <2>1, <2>2, PathMapIs
  <2>4. t \in Block /\ Height[t] \in Nat /\ Height[f.root] \in Nat
    BY <2>1, BlockAssumption DEF Descendants
  <2>5. len = PathLen(f, n, t) /\ len \in Nat /\ len <= l
    BY <1>1, <2>1, <2>2, <2>3 DEF PathLen
  <2>6. p = Path(f, n, t)
    BY <1>1, <2>1, FindPathIs DEF best_tip_path
  <2>7. p = [i \in 1 .. len |-> AncestorAt(t, Height[t] - len + i)]
    BY <2>5, <2>6 DEF Path
  <2>8. p \in Seq(Block) /\ Len(p) = len
    BY <2>1, <2>5, <2>6, PathGrows
  <2>9. PICK s : s = SubSeq(all, Len(all) - len + 1, Len(all))
    OBVIOUS
  <2>10. s = [i \in 1 .. len |-> all[l - len + i]]
    <3>1. PICK m \in Nat : m = l - len
      <4>1. l - len \in Nat
        BY <2>3, <2>5
      <4> QED
        BY <4>1
    <3>2. m <= l /\ l - m = len
      BY <2>3, <2>5, <3>1
    <3>3. SubSeq(all, m + 1, l) = [i \in 1 .. (l - m) |-> all[m + i]]
      BY <2>3, <3>2, PieceAsFunction
    <3> QED
      BY <2>3, <2>9, <3>1, <3>2, <3>3, Zenon
  <2>11. \A i \in 1 .. len : /\ l - len + i \in 1 .. l
                             /\ Height[f.root] + (l - len + i) = Height[t] - len + i
    <3>1. PICK hr \in Nat : hr = Height[f.root]
      BY <2>4, Zenon
    <3>2. PICK ht \in Nat : ht = Height[t]
      BY <2>4, Zenon
    <3>3. l = ht - hr
      BY <2>2, <3>1, <3>2, Zenon
    <3>4. \A i \in 1 .. len : l - len + i \in 1 .. l /\ hr + (l - len + i) = ht - len + i
      BY <2>3, <2>5, <3>3
    <3> QED
      BY <3>1, <3>2, <3>4, Zenon
  <2>12. \A i \in 1 .. len : s[i] = p[i]
    BY <2>3, <2>7, <2>10, <2>11
  <2> QED
    BY <2>7, <2>9, <2>10, <2>12
<1> QED
  BY <1>1 DEF BoundedPathIsSuffix

\* The height reached from b after n turns of `go'.
ClimbHeight(f, b, n) ==
  IF Height[b] - n >= Height[f.root] THEN Height[b] - n ELSE Height[f.root]

\* A block reached is an ancestor between the root and b.
LEMMA ClimbHeightIs ==
  ASSUME NEW f, f.root \in Block, NEW b \in Descendants(f), NEW n \in Nat
  PROVE  /\ ClimbHeight(f, b, n) \in Height[f.root] .. Height[b]
         /\ AncestorAt(b, ClimbHeight(f, b, n)) \in Anc[b]
         /\ AncestorAt(b, ClimbHeight(f, b, n)) \in Block
         /\ Height[AncestorAt(b, ClimbHeight(f, b, n))] = ClimbHeight(f, b, n)
         /\ f.root \in Anc[AncestorAt(b, ClimbHeight(f, b, n))]
         /\ \A a \in Anc[b] : Height[a] = ClimbHeight(f, b, n) =>
              a = AncestorAt(b, ClimbHeight(f, b, n))
<1>1. b \in Block /\ f.root \in Anc[b] /\ Height[f.root] \in Nat /\ Height[b] \in Nat
      /\ Height[f.root] <= Height[b]
  BY BlockAssumption, AncestorIsShorter DEF Descendants
<1>2. ClimbHeight(f, b, n) \in Height[f.root] .. Height[b]
  BY <1>1 DEF ClimbHeight
<1> QED
  BY <1>1, <1>2, AncestorAtIs

\* Climbing visits the ancestors one by one and then stays at the root.
LEMMA ClimbIs ==
  ASSUME NEW f, f.root \in Block, NEW b \in Descendants(f)
  PROVE  \A n \in Nat : Climb(f, b)[n] = AncestorAt(b, ClimbHeight(f, b, n))
<1> DEFINE Body(g, n) == IF n = 0 THEN b
                         ELSE IF g[n - 1] = f.root THEN f.root ELSE Parent[g[n - 1]]
           W == [n \in Nat |-> AncestorAt(b, ClimbHeight(f, b, n))]
           up == CHOOSE g : g = [n \in Nat |-> Body(g, n)]
<1>1. b \in Block /\ f.root \in Anc[b] /\ Height[f.root] \in Nat /\ Height[b] \in Nat
      /\ Height[f.root] <= Height[b] /\ b \in Anc[b]
  BY BlockAssumption, AncestorIsShorter, AncOf DEF Descendants
<1>2. ASSUME NEW n \in Nat PROVE W[n] = Body(W, n)
  <2>1. CASE n = 0
    <3>1. ClimbHeight(f, b, n) = Height[b]
      BY <1>1, <2>1 DEF ClimbHeight
    <3>2. W[n] = b
      BY <1>1, <3>1, ClimbHeightIs
    <3> QED
      BY <2>1, <3>2
  <2>2. CASE n # 0
    <3>1. n - 1 \in Nat
      BY <2>2
    <3>2. PICK v : v = W[n - 1]
      OBVIOUS
    <3>3. PICK h : h = ClimbHeight(f, b, n - 1)
      OBVIOUS
    <3>4. /\ v = AncestorAt(b, h) /\ h \in Height[f.root] .. Height[b]
          /\ v \in Anc[b] /\ v \in Block /\ Height[v] = h /\ f.root \in Anc[v]
      BY <3>1, <3>2, <3>3, ClimbHeightIs
    <3>5. CASE v = f.root
      <4>1. ClimbHeight(f, b, n) = Height[f.root]
        BY <1>1, <2>2, <3>3, <3>4, <3>5 DEF ClimbHeight
      <4>2. W[n] = f.root
        BY <1>1, <4>1, ClimbHeightIs
      <4> QED
        BY <2>2, <3>2, <3>5, <4>2
    <3>6. CASE v # f.root
      <4>1. v \in Descendants(f)
        BY <3>4 DEF Descendants
      <4>2. v # Genesis /\ Height[v] = Height[Parent[v]] + 1
            /\ Height[f.root] <= Height[Parent[v]] /\ Parent[v] \in Descendants(f)
        BY <3>6, <4>1, ParentDescends
      <4>3. Parent[v] \in Anc[b] /\ Height[Parent[v]] \in Nat
        BY <1>1, <3>4, <4>2, ParentOfAncestor, BlockAssumption DEF Descendants
      <4>4. PICK x : x = Height[Parent[v]]
        OBVIOUS
      <4>5. x \in Nat /\ h = x + 1 /\ Height[f.root] <= x
        BY <3>4, <4>2, <4>3, <4>4
      <4>6. ClimbHeight(f, b, n) = x
        BY <1>1, <2>2, <3>3, <4>5 DEF ClimbHeight
      <4>7. W[n] = Parent[v]
        BY <4>3, <4>4, <4>6, ClimbHeightIs
      <4> QED
        BY <2>2, <3>2, <3>6, <4>7
    <3> QED
      BY <3>5, <3>6
  <2> QED
    BY <2>1, <2>2
<1>3. W = [n \in Nat |-> Body(W, n)]
  BY <1>2
<1>4. up = [n \in Nat |-> Body(up, n)]
  <2> HIDE DEF W, Body
  <2> QED
    BY <1>3
<1>5. Climb(f, b) = up
  BY DEF Climb
<1>6. \A n \in Nat : up[n] = Body(up, n)
  <2> HIDE DEF up, Body
  <2> QED
    BY <1>4
<1>7. PICK S : S = { n \in Nat : up[n] = W[n] }
  OBVIOUS
<1>8. 0 \in S
  <2>1. Body(up, 0) = Body(W, 0)
    OBVIOUS
  <2> HIDE DEF up, Body, W
  <2> QED
    BY <1>2, <1>6, <1>7, <2>1
<1>9. ASSUME NEW n \in Nat, n \in S PROVE n + 1 \in S
  <2>1. up[n] = W[n] /\ n + 1 \in Nat /\ n + 1 - 1 = n
    BY <1>7, <1>9
  <2> HIDE DEF up, W
  <2>2. Body(up, n + 1) = Body(W, n + 1)
    BY <2>1
  <2> HIDE DEF Body
  <2> QED
    BY <1>2, <1>6, <1>7, <2>1, <2>2
<1>10. Nat \subseteq S
  BY <1>8, <1>9, NatAll
<1>11. \A n \in Nat : up[n] = W[n]
  <2> HIDE DEF up, W
  <2> QED
    BY <1>7, <1>10
<1> HIDE DEF up
<1> QED
  BY <1>5, <1>11

\* A turn that ends `go' while both blocks are above a common ancestor a
\* would come before the two climbs reach a; so the first turn that ends it
\* finds nothing lower than a.
LEMMA GoIsLowest ==
  ASSUME NEW f, f.root \in Block, NEW b1 \in Descendants(f), NEW b2 \in Descendants(f)
  PROVE  LET c == common_ancestor(f, b1, b2)
             common == Anc[b1] \cap Anc[b2]
         IN  c \in common /\ \A a \in common : Height[a] <= Height[c]
<1>1. PICK r : r = Height[f.root]
  OBVIOUS
<1>2. PICK h1 : h1 = Height[b1]
  OBVIOUS
<1>3. PICK h2 : h2 = Height[b2]
  OBVIOUS
<1>4. /\ b1 \in Block /\ f.root \in Anc[b1] /\ b2 \in Block /\ f.root \in Anc[b2]
      /\ r \in Nat /\ h1 \in Nat /\ h2 \in Nat /\ r <= h1 /\ r <= h2
  BY <1>1, <1>2, <1>3, BlockAssumption, AncestorIsShorter DEF Descendants
<1> DEFINE Low(h, n) == IF h - n >= r THEN h - n ELSE r
<1>5. PICK up1 : up1 = Climb(f, b1)
  OBVIOUS
<1>6. PICK up2 : up2 = Climb(f, b2)
  OBVIOUS
<1>7. \A n \in Nat : /\ up1[n] \in Anc[b1] /\ Height[up1[n]] = Low(h1, n)
                     /\ \A a \in Anc[b1] : Height[a] = Low(h1, n) => a = up1[n]
  <2>1. ASSUME NEW n \in Nat
        PROVE  /\ up1[n] \in Anc[b1] /\ Height[up1[n]] = Low(h1, n)
               /\ \A a \in Anc[b1] : Height[a] = Low(h1, n) => a = up1[n]
    <3>1. up1[n] = AncestorAt(b1, ClimbHeight(f, b1, n))
      BY <1>5, ClimbIs
    <3>2. ClimbHeight(f, b1, n) = Low(h1, n)
      BY <1>1, <1>2 DEF ClimbHeight
    <3> HIDE DEF Low
    <3> QED
      BY <3>1, <3>2, ClimbHeightIs
  <2> QED
    BY <2>1
<1>8. \A n \in Nat : /\ up2[n] \in Anc[b2] /\ Height[up2[n]] = Low(h2, n)
                     /\ \A a \in Anc[b2] : Height[a] = Low(h2, n) => a = up2[n]
  <2>1. ASSUME NEW n \in Nat
        PROVE  /\ up2[n] \in Anc[b2] /\ Height[up2[n]] = Low(h2, n)
               /\ \A a \in Anc[b2] : Height[a] = Low(h2, n) => a = up2[n]
    <3>1. up2[n] = AncestorAt(b2, ClimbHeight(f, b2, n))
      BY <1>6, ClimbIs
    <3>2. ClimbHeight(f, b2, n) = Low(h2, n)
      BY <1>1, <1>3 DEF ClimbHeight
    <3> HIDE DEF Low
    <3> QED
      BY <3>1, <3>2, ClimbHeightIs
  <2> QED
    BY <2>1
<1> HIDE DEF Low
<1>9. ASSUME NEW a \in Anc[b1] \cap Anc[b2], Height[a] >= r
      PROVE  \E m \in 0 .. h1 + h2 :
               /\ Met(up1, up2, m)
               /\ \A i, j \in Nat :
                    Low(h1, i) < Height[a] /\ Low(h2, j) < Height[a]
                      => i > m \/ j > m
  <2>1. PICK h : h = Height[a]
    OBVIOUS
  <2>2. h \in Nat /\ r <= h /\ h <= h1 /\ h <= h2
    BY <1>2, <1>3, <1>4, <1>9, <2>1, AncOf, BlockAssumption, AncestorIsShorter
  <2>3. h1 - h \in Nat /\ Low(h1, h1 - h) = h /\ h2 - h \in Nat /\ Low(h2, h2 - h) = h
    BY <1>4, <2>2 DEF Low
  <2>4. up1[h1 - h] = a /\ up2[h2 - h] = a
    BY <1>7, <1>8, <1>9, <2>1, <2>3
  <2>5. \A i \in Nat : /\ Low(h1, i) < h => i > h1 - h
                       /\ Low(h2, i) < h => i > h2 - h
    BY <1>4, <2>2 DEF Low
  <2>6. CASE h1 <= h2
    <3>1. h2 - h \in 0 .. h1 + h2 /\ h1 - h \in 0 .. h2 - h
      BY <1>4, <2>2, <2>6
    <3>2. Met(up1, up2, h2 - h)
      BY <2>4, <3>1 DEF Met
    <3> QED
      BY <2>1, <2>5, <3>1, <3>2
  <2>7. CASE ~(h1 <= h2)
    <3>1. h1 - h \in 0 .. h1 + h2 /\ h2 - h \in 0 .. h1 - h
      BY <1>4, <2>2, <2>7
    <3>2. Met(up1, up2, h1 - h)
      BY <2>4, <3>1 DEF Met
    <3> QED
      BY <2>1, <2>5, <3>1, <3>2
  <2> QED
    BY <2>6, <2>7
<1>10. PICK M : M = { n \in 0 .. h1 + h2 : Met(up1, up2, n) }
  OBVIOUS
<1>11. \E n \in 0 .. h1 + h2 :
         Met(up1, up2, n) /\ \A m \in 0 .. n - 1 : ~Met(up1, up2, m)
  <2>1. Height[f.root] >= r
    BY <1>1, <1>4
  <2>2. M \in SUBSET Nat /\ M # {}
    BY <1>4, <1>9, <1>10, <2>1
  <2>3. PICK n \in M : \A m \in M : n <= m
    BY <2>2, NatLeast
  <2> QED
    BY <1>4, <1>10, <2>3
<1>12. PICK n : n = CHOOSE k \in 0 .. h1 + h2 :
                   Met(up1, up2, k) /\ \A m \in 0 .. k - 1 : ~Met(up1, up2, m)
  OBVIOUS
<1>13. /\ n \in 0 .. h1 + h2 /\ Met(up1, up2, n)
       /\ \A m \in 0 .. n - 1 : ~Met(up1, up2, m)
  BY <1>11, <1>12
<1>14. PICK c : c = IF up2[n] \in { up1[i] : i \in 0 .. n } THEN up2[n] ELSE up1[n]
  OBVIOUS
<1>15. c = common_ancestor(f, b1, b2)
  BY <1>2, <1>3, <1>5, <1>6, <1>12, <1>14 DEF common_ancestor, go
<1>16. \E i, j \in 0 .. n : c = up1[i] /\ c = up2[j]
  BY <1>4, <1>13, <1>14 DEF Met
<1>17. PICK i \in 0 .. n, j \in 0 .. n : c = up1[i] /\ c = up2[j]
  BY <1>16
<1>18. i \in Nat /\ j \in Nat /\ n \in Nat /\ i <= n /\ j <= n
  BY <1>4, <1>13
<1>19. /\ c \in Anc[b1] \cap Anc[b2]
       /\ Height[c] = Low(h1, i) /\ Height[c] = Low(h2, j)
  <2>1. up1[i] \in Anc[b1] /\ Height[up1[i]] = Low(h1, i)
    BY <1>7, <1>18
  <2>2. up2[j] \in Anc[b2] /\ Height[up2[j]] = Low(h2, j)
    BY <1>8, <1>18
  <2> QED
    BY <1>17, <2>1, <2>2, Zenon
<1>20. Height[c] \in Nat /\ Height[c] >= r
  BY <1>4, <1>18, <1>19 DEF Low
<1>21. ASSUME NEW a \in Anc[b1] \cap Anc[b2] PROVE Height[a] <= Height[c]
  <2>1. Height[a] \in Nat
    BY <1>4, <1>21, AncOf, BlockAssumption
  <2> SUFFICES ASSUME Height[a] > Height[c] PROVE FALSE
    BY <1>20, <2>1
  <2>2. Height[a] >= r
    BY <1>4, <1>20, <2>1
  <2>3. PICK m \in 0 .. h1 + h2 :
               /\ Met(up1, up2, m)
               /\ \A k, l \in Nat :
                    Low(h1, k) < Height[a] /\ Low(h2, l) < Height[a]
                      => k > m \/ l > m
    BY <1>9, <2>2
  <2>4. Low(h1, i) < Height[a] /\ Low(h2, j) < Height[a]
    BY <1>19, <1>20, <2>1
  <2>5. i > m \/ j > m
    BY <1>18, <2>3, <2>4
  <2>6. m \in 0 .. n - 1
    BY <1>4, <1>18, <2>5
  <2> QED
    BY <1>13, <2>3, <2>6
<1> QED
  BY <1>15, <1>19, <1>21

\* common_ancestor is right for any two blocks of the frontier.
LEMMA CommonAncestorIsLowestHolds ==
  ASSUME Inductive PROVE CommonAncestorIsLowest
<1>1. frontier.root \in Block /\ Table(frontier) \subseteq Descendants(frontier)
  BY FrontierDescends
<1> QED
  BY <1>1, GoIsLowest DEF CommonAncestorIsLowest

\* A set of numbers with a bound has its maximum.
LEMMA MaxIs ==
  ASSUME NEW n \in Nat, NEW S \in SUBSET (0 .. n), S # {}
  PROVE  Max(S) \in S /\ \A y \in S : y <= Max(S)
<1>1. \E x \in S : \A y \in S : x >= y
  BY NatGreatest
<1> QED
  BY <1>1 DEF Max

\* An element that none exceeds is the maximum.
LEMMA MaxIsUnique ==
  ASSUME NEW S \in SUBSET Nat, NEW x \in S, \A y \in S : y <= x
  PROVE  Max(S) = x
<1>1. \E z \in S : \A y \in S : z >= y
  OBVIOUS
<1>2. Max(S) \in S /\ \A y \in S : Max(S) >= y
  BY <1>1 DEF Max
<1>3. PICK m : m = Max(S)
  OBVIOUS
<1>4. m \in Nat /\ x \in Nat /\ m <= x /\ m >= x
  BY <1>2, <1>3
<1> QED
  BY <1>3, <1>4

\* How far a block is off the best chain.
ForkOff(f, h) ==
  Height[h] - Max({ Height[a] : a \in Anc[h] \cap Anc[f.best_tip] })

\* What the queries rely on: the tree, its depth, and the best tip in it.
Grown(f) == Sound(f) /\ Within(f, MaxLength) /\ f.best_tip \in Table(f)

\* The blocks of a grown frontier.
LEMMA GrownBlocks ==
  ASSUME NEW f, Grown(f)
  PROVE  /\ f.root \in Block /\ f.root \in Table(f) /\ f.best_tip \in Table(f)
         /\ f.root \in Anc[f.best_tip]
         /\ \A h \in Table(f) :
              /\ h \in Block /\ f.root \in Anc[h] /\ h \in Anc[h]
              /\ Height[h] \in Nat /\ Height[h] - Height[f.root] \in 0 .. MaxLength
              /\ h # f.root => /\ h # Genesis /\ Parent[h] \in Table(f)
                               /\ Anc[h] = Anc[Parent[h]] \cup {h}
                               /\ Height[h] = Height[Parent[h]] + 1
<1>1. /\ Table(f) \subseteq Block /\ f.root \in Table(f) /\ f.best_tip \in Table(f)
      /\ \A h \in Table(f) : f.root \in Anc[h]
      /\ \A h \in Table(f) \ {f.root} : h # Genesis /\ Parent[h] \in Table(f)
      /\ \A h \in Table(f) : Height[h] - Height[f.root] \in 0 .. MaxLength
  BY DEF Grown, Sound, IsFrontier, IsTree, Within
<1>2. \A h \in Table(f) : h \in Block /\ h \in Anc[h] /\ Height[h] \in Nat
  BY <1>1, AncOf, BlockAssumption
<1>3. \A h \in Table(f) \ {f.root} : /\ Anc[h] = Anc[Parent[h]] \cup {h}
                                     /\ Height[h] = Height[Parent[h]] + 1
  BY <1>1, <1>2, AncOf
<1> QED
  BY <1>1, <1>2, <1>3

\* A block on the best chain is not off it; another is one further off than
\* its parent.
LEMMA ForkOffGrows ==
  ASSUME NEW f, Grown(f), NEW h \in Table(f)
  PROVE  /\ ForkOff(f, h) \in 0 .. MaxLength
         /\ h \in Anc[f.best_tip] => ForkOff(f, h) = 0
         /\ h \notin Anc[f.best_tip] => /\ h # f.root
                                        /\ ForkOff(f, h) = ForkOff(f, Parent[h]) + 1
<1> DEFINE K(x) == { Height[a] : a \in Anc[x] \cap Anc[f.best_tip] }
<1>1. ASSUME NEW x \in Table(f)
      PROVE  /\ Height[x] \in Nat /\ Height[f.root] \in Nat
             /\ K(x) \in SUBSET (0 .. Height[x]) /\ Height[f.root] \in K(x)
             /\ Max(K(x)) \in K(x)
             /\ \A y \in K(x) : y <= Max(K(x))
             /\ ForkOff(f, x) = Height[x] - Max(K(x))
             /\ ForkOff(f, x) \in 0 .. MaxLength
  <2>1. /\ x \in Block /\ f.root \in Anc[x] /\ f.root \in Anc[f.best_tip]
        /\ Height[x] \in Nat /\ Height[f.root] \in Nat
        /\ Height[x] - Height[f.root] \in 0 .. MaxLength
    BY GrownBlocks
  <2>2. \A a \in Anc[x] : Height[a] \in 0 .. Height[x]
    BY <2>1, AncestorIsShorter, AncOf, BlockAssumption
  <2>3. K(x) \in SUBSET (0 .. Height[x]) /\ Height[f.root] \in K(x)
    BY <2>1, <2>2
  <2>4. PICK k : k = K(x)
    OBVIOUS
  <2>5. Max(k) \in k /\ \A y \in k : y <= Max(k)
    BY <2>1, <2>3, <2>4, MaxIs
  <2>6. ForkOff(f, x) = Height[x] - Max(k)
    BY <2>4 DEF ForkOff
  <2>7. PICK m : m = Max(k)
    OBVIOUS
  <2>8. m \in Nat /\ m <= Height[x] /\ Height[f.root] <= m
    BY <2>1, <2>3, <2>4, <2>5, <2>7
  <2>9. ForkOff(f, x) \in 0 .. MaxLength
    BY <2>1, <2>6, <2>7, <2>8, MaxLengthAssumption
  <2> QED
    BY <2>1, <2>3, <2>4, <2>5, <2>6, <2>9
<1>2. ASSUME h \in Anc[f.best_tip] PROVE ForkOff(f, h) = 0
  <2>1. h \in Anc[h]
    BY GrownBlocks
  <2>2. Height[h] \in K(h)
    BY <1>2, <2>1
  <2>3. PICK m : m = Max(K(h))
    OBVIOUS
  <2>4. m \in 0 .. Height[h] /\ Height[h] <= m /\ Height[h] \in Nat
        /\ ForkOff(f, h) = Height[h] - m
    <3> HIDE DEF K
    <3> QED
      BY <1>1, <2>2, <2>3
  <2> QED
    BY <2>4
<1>3. ASSUME h \notin Anc[f.best_tip]
      PROVE  h # f.root /\ ForkOff(f, h) = ForkOff(f, Parent[h]) + 1
  <2>1. h # f.root
    BY <1>3, GrownBlocks
  <2>2. /\ Parent[h] \in Table(f) /\ Anc[h] = Anc[Parent[h]] \cup {h}
        /\ Height[h] = Height[Parent[h]] + 1
    BY <2>1, GrownBlocks
  <2>3. K(h) = K(Parent[h])
    <3>1. Anc[h] \cap Anc[f.best_tip] = Anc[Parent[h]] \cap Anc[f.best_tip]
      BY <1>3, <2>2
    <3> QED
      BY <3>1
  <2>4. PICK m : m = Max(K(h))
    OBVIOUS
  <2> HIDE DEF K
  <2>5. m \in 0 .. Height[h] /\ Height[h] \in Nat /\ Height[Parent[h]] \in Nat
        /\ ForkOff(f, h) = Height[h] - m /\ ForkOff(f, Parent[h]) = Height[Parent[h]] - m
    BY <1>1, <2>2, <2>3, <2>4
  <2> QED
    BY <2>1, <2>2, <2>5
<1> QED
  BY <1>1, <1>2, <1>3

\* The blocks of the frontier at or below h, and how far off the best chain
\* the furthest of them is.
Below(f, h) == { d \in Table(f) : h \in Anc[d] }

MaxOff(f, h) == Max({ ForkOff(f, d) : d \in Below(f, h) })

\* That maximum exists.
LEMMA MaxOffIs ==
  ASSUME NEW f, Grown(f), NEW h \in Table(f)
  PROVE  /\ h \in Below(f, h)
         /\ MaxOff(f, h) \in 0 .. MaxLength
         /\ \A d \in Below(f, h) : ForkOff(f, d) <= MaxOff(f, h)
         /\ \E d \in Below(f, h) : ForkOff(f, d) = MaxOff(f, h)
<1>1. PICK S : S = { ForkOff(f, d) : d \in Below(f, h) }
  OBVIOUS
<1>2. h \in Below(f, h)
  BY GrownBlocks DEF Below
<1>3. S \in SUBSET (0 .. MaxLength) /\ S # {} /\ MaxLength \in Nat
  BY <1>1, <1>2, ForkOffGrows, MaxLengthAssumption DEF Below
<1>4. Max(S) \in S /\ \A y \in S : y <= Max(S)
  BY <1>3, MaxIs
<1>5. MaxOff(f, h) = Max(S)
  BY <1>1 DEF MaxOff
<1> QED
  BY <1>1, <1>2, <1>3, <1>4, <1>5

\* Ancestors between the root and a block of the table are in the table.
LEMMA AncestorsInTable ==
  ASSUME NEW f, Grown(f)
  PROVE  \A d \in Table(f) : \A a \in Anc[d] : f.root \in Anc[a] => a \in Table(f)
<1> DEFINE S == { d \in Block : d \in Table(f) =>
                    \A a \in Anc[d] : f.root \in Anc[a] => a \in Table(f) }
<1>2. \A a \in Anc[f.root] : f.root \in Anc[a] => a = f.root
  <2>1. ASSUME NEW a \in Anc[f.root], f.root \in Anc[a] PROVE a = f.root
    <3>1. a \in Block /\ f.root \in Block /\ Height[a] \in Nat /\ Height[f.root] \in Nat
      BY <2>1, GrownBlocks, AncOf, BlockAssumption
    <3>2. Height[a] <= Height[f.root] /\ Height[f.root] <= Height[a]
      BY <2>1, <3>1, AncestorIsShorter
    <3>3. Height[a] = Height[f.root]
      BY <3>1, <3>2
    <3> QED
      BY <2>1, <3>1, <3>3, AncestorIsShorter
  <2> QED
    BY <2>1
<1>3. Genesis \in S
  BY BlockAssumption, AncestorAssumption
<1>4. ASSUME NEW d \in Block \ {Genesis}, Parent[d] \in S PROVE d \in S
  <2>1. CASE d = f.root
    BY <1>2, <2>1
  <2>2. CASE d # f.root /\ d \in Table(f)
    <3>1. Parent[d] \in Table(f) /\ Anc[d] = Anc[Parent[d]] \cup {d}
      BY <2>2, GrownBlocks
    <3> QED
      BY <1>4, <2>2, <3>1
  <2> QED
    BY <2>1, <2>2
<1>5. S \in SUBSET Block
  OBVIOUS
<1>6. S = Block
  BY <1>3, <1>4, <1>5, DescentAssumption
<1> QED
  BY <1>6, GrownBlocks

\* A block below h and not h is at or below one of h's children.
LEMMA BelowAChild ==
  ASSUME NEW f, Grown(f), NEW h \in Table(f), NEW d \in Below(f, h), d # h
  PROVE  \E c \in children(f, h) : d \in Below(f, c)
<1>1. d \in Table(f) /\ d \in Block /\ h \in Block /\ h \in Anc[d] /\ f.root \in Anc[h]
  BY GrownBlocks DEF Below
<1>2. PICK c \in Anc[d] \ Anc[h] : c # Genesis /\ Parent[c] = h
  BY <1>1, ChildOnPath
<1>3. c \in Block /\ Anc[c] = Anc[h] \cup {c}
  BY <1>1, <1>2, AncOf
<1>4. c \in Table(f)
  BY <1>1, <1>2, <1>3, AncestorsInTable
<1> QED
  BY <1>1, <1>2, <1>4 DEF children, Below

\* A child is a block of the frontier one above its parent.
LEMMA ChildIs ==
  ASSUME NEW f, Grown(f), NEW h \in Table(f), NEW c \in children(f, h)
  PROVE  /\ c \in Table(f) /\ c # f.root /\ Parent[c] = h
         /\ Anc[c] = Anc[h] \cup {c} /\ Height[c] = Height[h] + 1
         /\ c \notin Anc[f.root]
<1>1. c \in Table(f) /\ c # Genesis /\ Parent[c] = h /\ c \in Block /\ h \in Block
  BY GrownBlocks DEF children
<1>2. Anc[c] = Anc[h] \cup {c} /\ Height[c] = Height[h] + 1
  BY <1>1, AncOf
<1>3. Height[f.root] <= Height[h] /\ Height[h] \in Nat /\ Height[f.root] \in Nat
      /\ f.root \in Block
  BY <1>1, GrownBlocks, AncestorIsShorter
<1>4. c # f.root
  BY <1>2, <1>3
<1>5. ~(Height[c] <= Height[f.root])
  BY <1>2, <1>3
<1>6. c \notin Anc[f.root]
  BY <1>3, <1>5, AncestorIsShorter
<1> QED
  BY <1>1, <1>2, <1>4, <1>6

\* The furthest block below h is below one of h's children, if it has any.
LEMMA MaxOffStep ==
  ASSUME NEW f, Grown(f), NEW h \in Table(f)
  PROVE  /\ children(f, h) = {} => MaxOff(f, h) = ForkOff(f, h)
         /\ \A c \in children(f, h) : MaxOff(f, c) <= MaxOff(f, h)
         /\ children(f, h) # {} =>
              \E c \in children(f, h) : MaxOff(f, c) = MaxOff(f, h)
         /\ \A c \in children(f, h) :
              ForkOff(f, c) - ForkOff(f, h)
                = IF c \in Anc[f.best_tip] THEN 0 ELSE 1
<1>1. PICK d \in Below(f, h) : ForkOff(f, d) = MaxOff(f, h)
  BY MaxOffIs
<1>2. ASSUME NEW c \in children(f, h)
      PROVE  /\ MaxOff(f, c) <= MaxOff(f, h)
             /\ ForkOff(f, c) - ForkOff(f, h)
                  = IF c \in Anc[f.best_tip] THEN 0 ELSE 1
             /\ ForkOff(f, h) <= MaxOff(f, c)
  <2>1. c \in Table(f) /\ Parent[c] = h /\ Anc[c] = Anc[h] \cup {c} /\ c # f.root
        /\ c # Genesis /\ c \in Block /\ h \in Block
    BY ChildIs, GrownBlocks
  <2>2. Below(f, c) \subseteq Below(f, h)
    <3>1. \A x \in Table(f) : c \in Anc[x] => Anc[c] \subseteq Anc[x]
      BY GrownBlocks, AncestorsOfAncestor
    <3>2. h \in Anc[c]
      BY <2>1, AncOf
    <3> QED
      BY <3>1, <3>2 DEF Below
  <2>3. MaxOff(f, c) <= MaxOff(f, h)
    BY <2>1, <2>2, MaxOffIs
  <2>4. ForkOff(f, c) \in Nat /\ ForkOff(f, h) \in Nat /\ MaxOff(f, c) \in Nat
        /\ ForkOff(f, c) <= MaxOff(f, c)
    BY <2>1, ForkOffGrows, MaxOffIs, MaxLengthAssumption
  <2>5. CASE c \in Anc[f.best_tip]
    <3>1. h \in Anc[f.best_tip]
      BY <2>1, <2>5, GrownBlocks, ParentOfAncestor
    <3>2. ForkOff(f, c) = 0 /\ ForkOff(f, h) = 0
      BY <2>1, <2>5, <3>1, ForkOffGrows
    <3> QED
      BY <2>3, <2>4, <2>5, <3>2
  <2>6. CASE c \notin Anc[f.best_tip]
    <3>1. ForkOff(f, c) = ForkOff(f, h) + 1
      BY <2>1, <2>6, ForkOffGrows
    <3> QED
      BY <2>3, <2>4, <2>6, <3>1
  <2> QED
    BY <2>5, <2>6
<1>3. ASSUME children(f, h) = {} PROVE MaxOff(f, h) = ForkOff(f, h)
  <2>1. d = h
    BY <1>3, BelowAChild
  <2> QED
    BY <1>1, <2>1
<1>4. ASSUME children(f, h) # {}
      PROVE  \E c \in children(f, h) : MaxOff(f, c) = MaxOff(f, h)
  <2>1. \E c \in children(f, h) : MaxOff(f, h) <= MaxOff(f, c)
    <3>1. CASE d = h
      BY <1>1, <1>2, <1>4, <3>1
    <3>2. CASE d # h
      <4>1. PICK c \in children(f, h) : d \in Below(f, c)
        BY <3>2, BelowAChild
      <4>2. ForkOff(f, d) <= MaxOff(f, c)
        BY <4>1, ChildIs, MaxOffIs
      <4> QED
        BY <1>1, <4>1, <4>2
    <3> QED
      BY <3>1, <3>2
  <2>2. PICK c \in children(f, h) : MaxOff(f, h) <= MaxOff(f, c)
    BY <2>1
  <2>3. MaxOff(f, h) \in Nat /\ MaxOff(f, c) \in Nat
    BY ChildIs, MaxOffIs, MaxLengthAssumption
  <2>4. MaxOff(f, c) <= MaxOff(f, h)
    BY <1>2
  <2> QED
    BY <2>2, <2>3, <2>4
<1> QED
  BY <1>2, <1>3, <1>4

\* The fork metric, below any block, is the distance from there to the block
\* furthest off the best chain.
LEMMA LongestForkIs ==
  ASSUME NEW f, Grown(f)
  PROVE  longest_fork(f) = MaxOff(f, f.root)
<1> DEFINE T == Table(f)
           Val(c, x) == (IF c \in on_best_tip_path(f) THEN 0 ELSE 1) + x
           Body(g, h) == IF children(f, h) = {} THEN 0
                         ELSE Max({ Val(c, g[c]) : c \in children(f, h) })
           W == [h \in T |-> MaxOff(f, h) - ForkOff(f, h)]
           fork == CHOOSE g : g = [h \in T |-> Body(g, h)]
<1>1. on_best_tip_path(f) = Anc[f.best_tip] \ Anc[f.root]
  <2>1. f.root \in Block /\ f.best_tip \in Descendants(f)
    BY GrownBlocks DEF Descendants
  <2> QED
    BY <2>1, PathMapIs DEF on_best_tip_path
<1>2. ASSUME NEW h \in T
      PROVE  MaxOff(f, h) \in Nat /\ ForkOff(f, h) \in Nat
             /\ ForkOff(f, h) <= MaxOff(f, h)
  BY MaxOffIs, ForkOffGrows, MaxLengthAssumption
<1>3. ASSUME NEW h \in T PROVE W[h] = Body(W, h)
  <2>1. CASE children(f, h) = {}
    BY <1>2, <2>1, MaxOffStep
  <2>2. CASE children(f, h) # {}
    <3>1. PICK x : x = ForkOff(f, h)
      OBVIOUS
    <3>2. PICK m : m = MaxOff(f, h)
      OBVIOUS
    <3>3. x \in Nat /\ m \in Nat /\ x <= m
      BY <1>2, <3>1, <3>2
    <3>4. ASSUME NEW c \in children(f, h)
          PROVE  /\ Val(c, W[c]) = MaxOff(f, c) - x
                 /\ Val(c, W[c]) \in Nat
                 /\ Val(c, W[c]) <= m - x
      <4>1. c \in T /\ c \notin Anc[f.root]
        BY ChildIs
      <4>2. PICK e : e = IF c \in on_best_tip_path(f) THEN 0 ELSE 1
        OBVIOUS
      <4>3. ForkOff(f, c) - x = e /\ e \in Nat
        BY <1>1, <3>1, <4>1, <4>2, MaxOffStep
      <4>4. PICK y : y = ForkOff(f, c)
        OBVIOUS
      <4>5. PICK z : z = MaxOff(f, c)
        OBVIOUS
      <4>6. y \in Nat /\ z \in Nat /\ y <= z /\ z <= m
        BY <1>2, <3>2, <4>1, <4>4, <4>5, MaxOffStep
      <4>7. W[c] = z - y
        BY <4>1, <4>4, <4>5
      <4>8. Val(c, W[c]) = e + (z - y)
        BY <4>2, <4>7
      <4>9. e + (z - y) = z - x /\ z - x \in Nat /\ z - x <= m - x
        <5>1. y - x = e /\ e \in Nat
          BY <4>3, <4>4, Zenon
        <5> QED
          BY <3>3, <4>6, <5>1
      <4> HIDE DEF Val, W
      <4> QED
        BY <4>5, <4>8, <4>9
    <3>5. PICK V : V = { Val(c, W[c]) : c \in children(f, h) }
      OBVIOUS
    <3>6. PICK c \in children(f, h) : MaxOff(f, c) = m
      BY <2>2, <3>2, MaxOffStep
    <3>7. Val(c, W[c]) = m - x /\ Val(c, W[c]) \in V
      BY <3>4, <3>5, <3>6
    <3>8. V \in SUBSET Nat /\ \A y \in V : y <= m - x
      <4> HIDE DEF Val, W
      <4> QED
        BY <3>4, <3>5
    <3>9. m - x \in V
      BY <3>7
    <3>10. Max(V) = m - x
      BY <3>8, <3>9, MaxIsUnique
    <3>11. Body(W, h) = Max(V)
      BY <2>2, <3>5
    <3>12. W[h] = m - x
      BY <3>1, <3>2
    <3> QED
      BY <3>10, <3>11, <3>12, Zenon
  <2> QED
    BY <2>1, <2>2
<1>4. W = [h \in T |-> Body(W, h)]
  BY <1>3
<1>5. fork = [h \in T |-> Body(fork, h)]
  <2> HIDE DEF W, Body
  <2> QED
    BY <1>4
<1>6. longest_fork(f) = fork[f.root]
  BY DEF longest_fork
<1>7. \A h \in T : fork[h] = Body(fork, h)
  <2> HIDE DEF fork, Body
  <2> QED
    BY <1>5
<1>8. ASSUME NEW h \in T, \A c \in children(f, h) : fork[c] = W[c]
      PROVE  fork[h] = W[h]
  <2> HIDE DEF fork, W
  <2>1. Body(fork, h) = Body(W, h)
    <3>1. { Val(c, fork[c]) : c \in children(f, h) }
            = { Val(c, W[c]) : c \in children(f, h) }
      BY <1>8
    <3> HIDE DEF Val
    <3> QED
      BY <3>1
  <2> HIDE DEF Body
  <2> QED
    BY <1>3, <1>7, <2>1
<1>9. ASSUME NEW h0 \in T, fork[h0] # W[h0] PROVE FALSE
  <2> DEFINE Bad == { h \in T : fork[h] # W[h] }
             N == { Height[h] : h \in Bad }
             bound == Height[f.root] + MaxLength
  <2>1. bound \in Nat /\ N \in SUBSET (0 .. bound)
    <3>1. \A h \in T : Height[h] \in Nat /\ Height[h] - Height[f.root] \in 0 .. MaxLength
      BY GrownBlocks
    <3>2. Height[f.root] \in Nat /\ MaxLength \in Nat
      BY GrownBlocks, MaxLengthAssumption
    <3>3. \A h \in T : Height[h] \in 0 .. bound
      BY <3>1, <3>2
    <3> HIDE DEF fork, W
    <3> QED
      BY <3>2, <3>3
  <2>2. Height[h0] \in N
    BY <1>9
  <2>3. PICK n \in N : \A y \in N : y <= n
    <3> HIDE DEF N, bound
    <3> QED
      BY <2>1, <2>2, NatGreatest
  <2>4. PICK h \in Bad : n = Height[h]
    OBVIOUS
  <2>5. \A c \in children(f, h) : fork[c] = W[c]
    <3>1. ASSUME NEW c \in children(f, h), c \in Bad PROVE FALSE
      <4>1. h \in T
        OBVIOUS
      <4>2. Height[c] = Height[h] + 1 /\ Height[h] \in Nat
        BY <4>1, ChildIs, GrownBlocks
      <4>3. Height[c] \in N
        BY <3>1
      <4> HIDE DEF N
      <4> QED
        BY <2>3, <2>4, <4>2, <4>3
    <3>2. \A c \in children(f, h) : c \in T
      <4>1. h \in T
        OBVIOUS
      <4> QED
        BY <4>1, ChildIs
    <3> HIDE DEF fork, W
    <3> QED
      BY <3>1, <3>2
  <2> QED
    BY <1>8, <2>4, <2>5
<1>10. f.root \in T /\ f.root \in Anc[f.best_tip]
  BY GrownBlocks
<1>11. fork[f.root] = W[f.root]
  BY <1>9, <1>10
<1>12. ForkOff(f, f.root) = 0 /\ MaxOff(f, f.root) \in Nat
  BY <1>2, <1>10, ForkOffGrows
<1>13. W[f.root] = MaxOff(f, f.root)
  BY <1>10, <1>12
<1> HIDE DEF fork, W
<1> QED
  BY <1>6, <1>11, <1>13

\* The fork metric is right.
LEMMA LongestForkIsLongestHolds ==
  ASSUME Inductive PROVE LongestForkIsLongest
<1>1. Grown(frontier)
  BY DEF Grown, Inductive, WithinMaxLength, BestTipIsBest
<1>2. Below(frontier, frontier.root) = Table(frontier)
  BY <1>1, GrownBlocks DEF Below
<1>3. MaxOff(frontier, frontier.root)
        = Max({ ForkOff(frontier, h) : h \in Table(frontier) })
  BY <1>2 DEF MaxOff
<1>4. longest_fork(frontier) = MaxOff(frontier, frontier.root)
  BY <1>1, LongestForkIs
<1> QED
  BY <1>3, <1>4 DEF LongestForkIsLongest, ForkOff

\* The recursive queries of the frontier return what they are meant to, in
\* every state of every frontier.
THEOREM QueriesAreRight == Spec => []QueriesMatchReference
<1>1. Inductive => QueriesMatchReference
  BY PathsAreChainsHolds, BoundedPathIsSuffixHolds, CommonAncestorIsLowestHolds,
     LongestForkIsLongestHolds DEF QueriesMatchReference
<1> QED
  BY <1>1, FrontierInvariant, PTL
=============================================================================
