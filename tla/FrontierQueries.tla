--------------------------- MODULE FrontierQueries ---------------------------
(***************************************************************************)
(* The recursive queries of full_frontier.ml as the code computes them,    *)
(* against what they are meant to return.  They change nothing, so they    *)
(* are checked as invariants of the frontier's reachable states.           *)
(***************************************************************************)
EXTENDS FullFrontier, FiniteSetsExt

\* The blocks that descend from the root.
Descendants(f) == { b \in Block : f.root \in Anc[b] }

\* find_path: climbs from b, at most n blocks, and lists the blocks climbed
\* last first.
find_path(f) ==
  LET path[n \in Nat] ==
        [b \in Descendants(f) |->
           IF n = 0 \/ b = f.root THEN << >>
           ELSE IF Parent[b] = f.root THEN << b >>
           ELSE Append(path[n - 1][Parent[b]], b)]
  IN  path

\* Without a bound: no path from b is longer than its blockchain length.
path_map(f, b) == find_path(f)[Height[b]][b]

best_tip_path(f, max_length) == find_path(f)[max_length][f.best_tip]

\* The blocks that `go' visits from b, one a turn: parent_unless_root.
Climb(f, b) ==
  LET up[n \in Nat] ==
        IF n = 0 THEN b
        ELSE IF up[n - 1] = f.root THEN f.root ELSE Parent[up[n - 1]]
  IN  up

\* The n-th turn of `go' ends it.
Met(up1, up2, n) ==
  \/ up2[n] \in { up1[i] : i \in 0 .. n }
  \/ up1[n] \in { up2[i] : i \in 0 .. n }

\* What `go' returns at the turn that ends it.
go(up1, up2, turns) ==
  LET n == CHOOSE n \in 0 .. turns :
             Met(up1, up2, n) /\ \A m \in 0 .. n - 1 : ~Met(up1, up2, m)
  IN  IF up2[n] \in { up1[i] : i \in 0 .. n } THEN up2[n] ELSE up1[n]

\* Mutant: go starts at the blocks' parents.
proper_common_ancestor(f, b1, b2) ==
  go(Climb(f, Climb(f, b1)[1]), Climb(f, Climb(f, b2)[1]), Height[b1] + Height[b2])

common_ancestor(f, b1, b2) ==
  go(Climb(f, b1), Climb(f, b2), Height[b1] + Height[b2])

Elements(s) == { s[i] : i \in DOMAIN s }

on_best_tip_path(f) == Elements(path_map(f, f.best_tip))

children(f, b) == { h \in Table(f) \ {Genesis} : Parent[h] = b }

longest_fork(f) ==
  LET fork[subtree_root \in Table(f)] ==
        IF children(f, subtree_root) = {} THEN 0
        ELSE Max({ (IF c \in on_best_tip_path(f) THEN 0 ELSE 1) + fork[c]
                   : c \in children(f, subtree_root) })
  IN  fork[f.root]

-----------------------------------------------------------------------------

\* hash_path lists, parent before child, the blocks above the root up to the
\* given one, which may be in the frontier or about to be added to it.
PathsAreChains ==
  \A b \in Block \ {Genesis} :
    Parent[b] \in Table(frontier) =>
      LET p == path_map(frontier, b) IN
      /\ Elements(p) = hash_path(frontier, b)
      /\ Len(p) = Height[b] - Height[frontier.root]
      /\ Parent[p[1]] = frontier.root
      /\ \A i \in 2 .. Len(p) : Parent[p[i]] = p[i - 1]

\* best_tip_path ~max_length keeps the last blocks of the path.
BoundedPathIsSuffix ==
  \A n \in 0 .. MaxLength + 1 :
    LET all == path_map(frontier, frontier.best_tip)
        p == best_tip_path(frontier, n)
        len == IF n < Len(all) THEN n ELSE Len(all)
    IN  p = SubSeq(all, Len(all) - len + 1, Len(all))

\* common_ancestor, which climbs from both blocks at once and stops at the
\* root, returns the deepest block that both descend from.
CommonAncestorIsLowest ==
  \A b1, b2 \in Table(frontier) :
    LET c == common_ancestor(frontier, b1, b2)
        common == Anc[b1] \cap Anc[b2]
    IN  c \in common /\ \A a \in common : Height[a] <= Height[c]

\* The fork metric is the longest distance of a block from the best chain.
LongestForkIsLongest ==
  LET chain == Anc[frontier.best_tip]
      Off(h) == Height[h] - Max({ Height[a] : a \in Anc[h] \cap chain })
  IN  longest_fork(frontier)
        = Max({ Off(h) : h \in Table(frontier) })

\* The recursive queries of full_frontier.ml return what their names say, at
\* every root and for every block.
QueriesMatchReference ==
  /\ PathsAreChains /\ BoundedPathIsSuffix
  /\ CommonAncestorIsLowest /\ LongestForkIsLongest
=============================================================================
