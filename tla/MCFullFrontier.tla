--------------------------- MODULE MCFullFrontier ---------------------------
(***************************************************************************)
(* The full frontier on a small universe of blocks.  A block is the        *)
(* sequence of branch choices that leads to it from the genesis block, so  *)
(* its ancestors are its prefixes.                                         *)
(***************************************************************************)
EXTENDS FrontierQueries

\* Every fork up to length 3, and one chain that goes on to length 5.
MCBlock ==
  UNION { [1 .. n -> {1, 2}] : n \in 0 .. 3 }
    \cup { <<1, 2, 1, 1>>, <<1, 2, 1, 1, 1>> }
MCGenesis == << >>
MCParent  == [b \in MCBlock \ {<< >>} |-> SubSeq(b, 1, Len(b) - 1)]
MCHeight  == [b \in MCBlock |-> Len(b)]
MCAnc     == [b \in MCBlock |-> { SubSeq(b, 1, n) : n \in 0 .. Len(b) }]

\* Among blocks of one length, the one with the larger choices is taken.
Larger(a, b) == \E i \in 1 .. Len(a) :
                  a[i] < b[i] /\ \A j \in 1 .. i - 1 : a[j] = b[j]
MCTake == { p \in MCBlock \X MCBlock :
              \/ Len(p[2]) > Len(p[1])
              \/ Len(p[2]) = Len(p[1]) /\ Larger(p[1], p[2]) }

\* A proof comes out at every block of even length; the scan state refers to
\* the two blocks before it.
MCEmits    == { b \in MCBlock : Len(b) \in {2, 4} }
MCLedgerOf == [b \in MCBlock |-> SubSeq(b, 1, Len(b) - (Len(b) % 2))]
Back(b, d) == { SubSeq(b, 1, Len(b) - i) : i \in { j \in d : j <= Len(b) } }
MCRequired == [b \in MCBlock |-> Back(b, {1, 2})]
MCTxnStates == [b \in MCEmits |-> Back(b, {2, 3})]
=============================================================================
