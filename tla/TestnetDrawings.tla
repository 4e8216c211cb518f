--------------------------- MODULE TestnetDrawings ---------------------------
(***************************************************************************)
(* The two programs of testnet-validation that draw what a testnet does:   *)
(* compare_best_tip.py asks the nodes for their chains, and                *)
(* rebroadcasted_blocks_vis.py reads their logs.  They share the trie's    *)
(* code and no state.                                                      *)
(***************************************************************************)
EXTENDS CompareBestTip, BlockVisualizer

DrawingsSpec == CompareSpec /\ VisualizerSpec

-----------------------------------------------------------------------------
\* The graphs drawn of best tips and of logs are those of the inputs, in any
\* order of answers, entries and retries, and a helper process that is left
\* behind has made its call raise.
DrawingsMatchInputs ==
  /\ GraphIsOfTheChains /\ ForwardsAreClosed
  /\ LinksAreDrawn /\ NoKeyError /\ TrieIsTree /\ EdgesAreLogged
=============================================================================
