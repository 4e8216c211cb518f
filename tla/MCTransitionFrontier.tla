------------------------ MODULE MCTransitionFrontier ------------------------
(***************************************************************************)
(* The persistent transition frontier on a small universe of blocks: a     *)
(* block is the sequence of branch choices that leads to it.               *)
(***************************************************************************)
EXTENDS TransitionFrontier

\* Two chains of four blocks, and a fork in each.
MCBlock   == { << >>, <<1>>, <<2>>, <<1, 1>>, <<2, 1>>, <<1, 2>>,
               <<1, 1, 1>>, <<2, 1, 1>>, <<2, 1, 2>>, <<1, 1, 1, 1>>, <<2, 1, 2, 1>> }
MCGenesis == << >>
MCParent  == [b \in MCBlock \ {<< >>} |-> SubSeq(b, 1, Len(b) - 1)]
MCHeight  == [b \in MCBlock |-> Len(b)]
MCAnc     == [b \in MCBlock |-> { SubSeq(b, 1, n) : n \in 0 .. Len(b) }]

\* Among blocks of one length, the one with the larger choices is taken.
Larger(a, b) == \E i \in 1 .. Len(a) :
                  a[i] < b[i] /\ \A j \in 1 .. i - 1 : a[j] = b[j]
MCTake    == { p \in MCBlock \X MCBlock :
                 \/ Len(p[2]) > Len(p[1])
                 \/ Len(p[2]) = Len(p[1]) /\ Larger(p[1], p[2]) }

\* Blocks of length 1 and 2 emit proofs: two root moves, each with a
\* checkpoint, may wait in the buffer.
MCEmits    == { b \in MCBlock : Len(b) \in {1, 2} }
MCLedgerOf == [b \in MCBlock |-> SubSeq(b, 1, IF Len(b) > 2 THEN 2 ELSE Len(b))]
Back(b, d) == { SubSeq(b, 1, Len(b) - i) : i \in { j \in d : j <= Len(b) } }
MCRequired == [b \in MCBlock |-> Back(b, {1, 2})]
MCTxnStates == [b \in MCEmits |-> Back(b, {2})]
=============================================================================
