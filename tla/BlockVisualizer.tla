--------------------------- MODULE BlockVisualizer ---------------------------
(***************************************************************************)
(* testnet-validation/rebroadcasted_blocks_vis.py.                         *)
(*                                                                         *)
(* visualize_blockchain puts the link of every "Rebroadcasting" log entry  *)
(* into the trie, in the order the log service returns them.               *)
(*                                                                         *)
(* visualize_gossip_net sorts the entries into those of broadcasts,        *)
(* receptions and rebroadcasts, and draws for each block an edge from      *)
(* every sender to its receiver, weighted with the time it took.           *)
(***************************************************************************)
EXTENDS BestTipTrie, Integers

CONSTANTS
  Parent,        \* hash -> hash of its parent, for the blocks of the logs
  Peer,
  Gossiped,      \* bound: the blocks among the entries of the gossip log
  Times,         \* timestamps, in milliseconds
  Second,        \* milliseconds of a second: what timedelta.microseconds wraps at
  MaxEntries, max_entries   \* bound; option of the command

ASSUME BlockVisualizerAssumption ==
  /\ MaxEntries \in Nat /\ max_entries \in Nat /\ Second \in Nat \ {0} /\ Times \subseteq Nat
  /\ Gossiped \subseteq DOMAIN Parent
  /\ \A h \in DOMAIN Parent : h # "root" /\ Parent[h] # "root"

VARIABLES
  vis_pc, entries,      \* entries read, in order
  block_trie,
  received, rebroadcasting,   \* hash -> sequence of entries
  graphs            \* hash -> edges drawn for the block

visualizerVars == <<vis_pc, entries, block_trie, received, rebroadcasting, graphs>>

Hash == DOMAIN Parent

\* A log entry.  Stackdriver returns old entries too, which have no state hash,
\* and entries without labels.
Entry ==
  [kind : {"Received", "Rebroadcasting"}, hash : Gossiped, peer : Peer, sender : Peer,
   time : Times, usable : {TRUE}]
    \cup {[usable |-> FALSE]}

VisualizerInit ==
  /\ vis_pc = "blockchain" \/ vis_pc = "gossip"
  /\ entries = <<>> /\ block_trie = EmptyTrie
  /\ received = [h \in {} |-> <<>>] /\ rebroadcasting = [h \in {} |-> <<>>]
  /\ graphs = [h \in {} |-> {}]

-----------------------------------------------------------------------------
\* visualize_blockchain: one entry
insert_entry ==
  /\ vis_pc = "blockchain" /\ Len(entries) < MaxEntries /\ ~block_trie.raised
  /\ \E h \in Hash : \E p \in Peer :
       /\ entries' = Append(entries, [hash |-> h, peer |-> p])
       /\ block_trie' = insertLink(block_trie, Parent[h], h, p)
  /\ UNCHANGED <<vis_pc, received, rebroadcasting, graphs>>

-----------------------------------------------------------------------------
\* logs[state_hash].append(entry), or a list of its own
Logged(logs, e) ==
  IF e.hash \in DOMAIN logs THEN [logs EXCEPT ![e.hash] = Append(@, e)]
  ELSE [h \in DOMAIN logs \cup {e.hash} |-> IF h = e.hash THEN <<e>> ELSE logs[h]]

\* _process_log_iterator: one entry; the entry that reaches max_entries is dropped
sort_entry ==
  /\ vis_pc = "gossip" /\ Len(entries) < MaxEntries
  /\ \E e \in Entry :
       /\ entries' = Append(entries, e)
       /\ vis_pc' = IF Len(entries') = max_entries THEN "draw" ELSE "gossip"
       /\ LET used == e.usable /\ vis_pc' = "gossip"
          IN  /\ received' = IF used /\ e.kind = "Received" THEN Logged(received, e) ELSE received
              /\ rebroadcasting' = IF used /\ e.kind = "Rebroadcasting"
                                   THEN Logged(rebroadcasting, e) ELSE rebroadcasting
  /\ UNCHANGED <<block_trie, graphs>>

\* The iterator is at its end.
entries_end ==
  /\ vis_pc = "gossip" /\ vis_pc' = "draw"
  /\ UNCHANGED <<entries, block_trie, received, rebroadcasting, graphs>>

\* The first log of the peer: a set of at most one entry.
retrieve_log(logs, peer) ==
  LET of == {i \in DOMAIN logs : logs[i].peer = peer}
  IN  {logs[i] : i \in {j \in of : \A k \in of : j <= k}}

\* (receive - send).microseconds / 1000: what is left over whole seconds, and
\* counted from the second below when the difference is negative
Milliseconds(receive, send) == (receive - send) % Second

\* Without a log of the sender the edge has weight -1.
NoWeight == -1

EdgeOf(h, e) ==
  LET sent == retrieve_log(rebroadcasting[h], e.sender)
  IN  [sender |-> e.sender, receiver |-> e.peer,
       weight |-> IF sent = {} THEN NoWeight
                  ELSE Milliseconds(e.time, (CHOOSE l \in sent : TRUE).time)]

\* A graph for every block that was rebroadcast: of two entries with the same
\* sender and receiver, add_edge keeps the weight of the later.
draw ==
  /\ vis_pc = "draw" /\ vis_pc' = "done"
  /\ graphs' = [h \in DOMAIN rebroadcasting |->
       IF h \notin DOMAIN received THEN {}
       ELSE LET es == [i \in DOMAIN received[h] |-> EdgeOf(h, received[h][i])]
            IN  {es[i] : i \in {j \in DOMAIN es : \A k \in DOMAIN es :
                   k > j => es[k].sender # es[j].sender \/ es[k].receiver # es[j].receiver}}]
  /\ UNCHANGED <<entries, block_trie, received, rebroadcasting>>

VisualizerNext == insert_entry \/ sort_entry \/ entries_end \/ draw

VisualizerSpec == VisualizerInit /\ [][VisualizerNext]_visualizerVars

-----------------------------------------------------------------------------
Seen == {entries[i].hash : i \in DOMAIN entries}

\* Entries come in any order, again and again, and of blocks whose parents come
\* later or never: the graph has the link of every entry and no other, besides
\* those of the root.
LinksAreDrawn ==
  vis_pc = "blockchain" =>
    LET edges == render_fork(block_trie).edges
    IN  {e \in edges : e[1] # "root"} = {<<Parent[h], h>> : h \in Seen}

\* insertLink finds the child below the root whenever it looks for it there.
NoKeyError == ~block_trie.raised

\* The objects stay a tree when a block moves below its parent, so the
\* recursion that draws them ends.
TrieIsTree == IsTree(block_trie)

\* An edge is drawn from what both ends logged: there is one exactly for each
\* pair whose reception of the block was read, if anybody rebroadcast the
\* block, and it has a weight exactly if the sender's own entry was read.
EdgesAreLogged ==
  vis_pc = "done" =>
    LET read == {entries[i] : i \in {j \in DOMAIN entries : entries[j].usable /\ j # max_entries}}
        Of(h, kind) == {e \in read : e.hash = h /\ e.kind = kind}
    IN  /\ DOMAIN graphs = {h \in Hash : Of(h, "Rebroadcasting") # {}}
        /\ \A h \in DOMAIN graphs :
             /\ {<<g.sender, g.receiver>> : g \in graphs[h]}
                  = {<<e.sender, e.peer>> : e \in Of(h, "Received")}
             /\ \A g \in graphs[h] :
                  (g.weight # NoWeight) = (\E e \in Of(h, "Rebroadcasting") : e.peer = g.sender)
=============================================================================
