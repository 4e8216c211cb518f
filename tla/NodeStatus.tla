----------------------------- MODULE NodeStatus -----------------------------
(***************************************************************************)
(* The watchdog's node-status check (watchdog/node_status_metrics.py).  A  *)
(* round asks every seed in turn for its peers and their status, merges    *)
(* the answers, sets the gauges about answers and errors and then, from    *)
(* the chains of the nodes that answered, the fraction near the best tip.  *)
(* A step that raises leaves the gauges not yet set at the value of an     *)
(* earlier round, and run_periodically counts the exception; a seed that   *)
(* fails is passed over, its own gauges stay, and nothing is counted.      *)
(***************************************************************************)
EXTENDS TestnetNodes, Naturals, Sequences, SequencesExt, FiniteSets, FiniteSetsExt

CONSTANTS
  Chain,       \* chains a node may report: sequences of blocks, latest last
  Phrases,     \* sequence of the phrases the errors are told apart by, in that order
  N,           \* n: blocks from the best tip that count as near
  MinChain,    \* 290: nodes with a shorter chain have just joined
  MaxRounds    \* bound

ASSUME NodeStatusAssumption ==
  /\ N \in Nat \ {0} /\ MinChain \in Nat /\ MaxRounds \in Nat /\ Chain \subseteq Seq(Nat)
  /\ IsFiniteSet(Peer) /\ Phrases \in Seq(STRING) /\ Seeds \in Seq(ToSet(Seeds))

VARIABLES
  status_pc, seeds_left,                            \* seeds not asked yet in this round
  peer_set, peer_table, error_resps,   \* what collect_node_status has gathered
  by_seed,                             \* seed -> its gauges and the round that set them
  gauges,                              \* the other gauges' values
  set_in,                              \* group of gauges -> the round that set it
  round, raised                        \* the last round that raised

collected == <<peer_set, peer_table, error_resps>>
statusVars == <<status_pc, seeds_left, collected, by_seed, gauges, set_in, round, raised>>

\* The answer of a peer: its status, or an error whose text holds some of the
\* phrases (or none, or is no error message at all).
Valid == [sync_status : {"Synced", "Catchup"}, k_block_hashes : Chain]
Error == [error : SUBSET ToSet(Phrases)]
Classes == ToSet(Phrases) \cup {"others"}
IsError(r) == "error" \in DOMAIN r

NoGauges == [nodes_queried |-> 0, nodes_responded |-> 0, nodes_errored |-> 0,
             by_class |-> [c \in Classes |-> 0], near |-> 0, synced |-> 0, majority |-> 0]

StatusInit ==
  /\ status_pc = "idle" /\ seeds_left = <<>>
  /\ peer_set = {} /\ peer_table = <<>> /\ error_resps = <<>>
  /\ by_seed = [s \in ToSet(Seeds) |-> [of |-> 0, queried |-> 0, responded |-> 0]]
  /\ gauges = NoGauges /\ set_in = [g \in {"answers", "near_best_tip"} |-> 0]
  /\ round = 0 /\ raised = 0

-----------------------------------------------------------------------------
collect_node_status_metrics ==
  /\ status_pc = "idle" /\ round < MaxRounds
  /\ status_pc' = "seeds" /\ seeds_left' = Seeds /\ round' = round + 1
  /\ peer_set' = {} /\ peer_table' = <<>> /\ error_resps' = <<>>
  /\ UNCHANGED <<by_seed, gauges, set_in, raised>>

\* *mutant*: an answer is added for every seed that reports the peer
MergeAll(table, resps) ==
  table \o SetToSeq({[peer |-> p, resp |-> resps[p]] : p \in {q \in DOMAIN resps : ~IsError(resps[q])}})

\* peer_table keeps the first answer of a peer.
Merge(table, resps) ==
  LET known == {table[i].peer : i \in DOMAIN table}
      new == {p \in DOMAIN resps : ~IsError(resps[p]) /\ p \notin known}
  IN  table \o SetToSeq({[peer |-> p, resp |-> resps[p]] : p \in new})

\* add_resp up to the gauges of the seed.  The errors of several seeds about one
\* peer are all kept.
count_resps(seed, peers, resps) ==
  /\ peer_set' = peer_set \cup peers
  /\ error_resps' = error_resps
       \o SetToSeq({[peer |-> p, error |-> resps[p].error] : p \in {q \in DOMAIN resps : IsError(resps[q])}})
  /\ by_seed' = [by_seed EXCEPT ![seed] =
       [of |-> round, queried |-> Cardinality(peers),
        responded |-> Cardinality({p \in DOMAIN resps : ~IsError(resps[p])})]]

\* get-peers and node-status on the next seed, and add_resp.  An answer without
\* the node's address or peer id raises a KeyError once the seed's gauges are
\* set; it is caught with the others, and the table stays as it was.
ask_seed ==
  /\ status_pc = "seeds" /\ seeds_left # <<>> /\ seeds_left' = Tail(seeds_left)
  /\ \E peers \in SUBSET Peer : \E rows \in SUBSET peers : \E resps \in [rows -> Valid \cup Error] :
       /\ count_resps(Head(seeds_left), peers, resps)
       /\ \/ peer_table' = Merge(peer_table, resps)
          \/ (\E p \in rows : ~IsError(resps[p])) /\ UNCHANGED peer_table
  /\ UNCHANGED <<status_pc, gauges, set_in, round, raised>>

\* The exec raises, the seed's daemon cannot be reached or prints what is no
\* literal: the next seed.  A seed whose pod is not Running is not asked.
seed_fails ==
  /\ status_pc = "seeds" /\ seeds_left # <<>> /\ seeds_left' = Tail(seeds_left)
  /\ UNCHANGED <<status_pc, collected, by_seed, gauges, set_in, round, raised>>

-----------------------------------------------------------------------------
Resps == [i \in DOMAIN peer_table |-> peer_table[i].resp]
Synced(r) == r.sync_status = "Synced"

\* The if / elif chain: the first phrase the text holds.
ErrorClasses(error) ==
  LET found == {i \in DOMAIN Phrases : Phrases[i] \in error}
  IN  IF found = {} THEN {"others"} ELSE {Phrases[Min(found)]}

\* The check is left, and with it what it has gathered.
Return ==
  /\ status_pc' = "idle" /\ seeds_left' = <<>>
  /\ peer_set' = {} /\ peer_table' = <<>> /\ error_resps' = <<>>

Raise == Return /\ raised' = round /\ UNCHANGED <<gauges, set_in>>

\* What no handler of this file catches: the pods cannot be listed, a seed has
\* no daemon container or port, a status lacks a field.
round_raises ==
  status_pc # "idle" /\ Raise /\ UNCHANGED <<by_seed, round>>

\* The gauges about answers; without a single one the fraction of synced
\* nodes divides by 0 before any is set.
set_answers ==
  /\ status_pc = "seeds" /\ seeds_left = <<>>
  /\ IF peer_table = <<>> THEN Raise
     ELSE /\ gauges' =
               [gauges EXCEPT
                  !.nodes_queried = Cardinality(peer_set),
                  !.nodes_responded = Len(peer_table),
                  !.nodes_errored = Len(error_resps),
                  !.by_class = [c \in Classes |-> Cardinality(
                     {i \in DOMAIN error_resps : c \in ErrorClasses(error_resps[i].error)})]]
          /\ set_in' = [set_in EXCEPT !["answers"] = round]
          /\ status_pc' = "tips" /\ UNCHANGED <<seeds_left, collected, raised>>
  /\ UNCHANGED <<by_seed, round>>

\* child -> parent, over all the chains
IsParent(b, a) ==
  \E i \in DOMAIN peer_table : LET c == Resps[i].k_block_hashes
                               IN  \E k \in 1..(Len(c) - 1) : c[k] = a /\ c[k + 1] = b

\* The best tip and up to n of its ancestors, as far as some chain tells them.
last_n_protocol_states(tip) ==
  LET Blocks == UNION {ToSet(Resps[i].k_block_hashes) : i \in DOMAIN peer_table}
  IN  {tip} \cup
      {a \in Blocks : \E d \in 1..N : \E path \in [0..d -> Blocks] :
         /\ path[0] = tip /\ path[d] = a
         /\ \A k \in 1..d : IsParent(path[k - 1], path[k])}

any_hash_in_last_n(r, states) ==
  LET c == r.k_block_hashes
      from == IF Len(c) > N THEN Len(c) - N + 1 ELSE 1
  IN  \E k \in from..Len(c) : c[k] \in states

\* Nodes whose best tip is b, of those with a long enough chain.
Votes(b) ==
  Cardinality({i \in DOMAIN peer_table :
     LET c == Resps[i].k_block_hashes
     IN  c # <<>> /\ Len(c) >= MinChain /\ Last(c) = b})

\* The fraction of synced nodes near the best tip; max of no tips, or a
\* division by no synced node, raises.  Of several tips with the same number
\* of nodes the order of the answers decides.
set_near_best_tip ==
  /\ status_pc = "tips"
  /\ LET tips == {b \in UNION {ToSet(Resps[i].k_block_hashes) : i \in DOMAIN peer_table} :
                    Votes(b) > 0}
         synced == {i \in DOMAIN peer_table : Synced(Resps[i])}
     IN  IF tips = {} \/ synced = {} THEN Raise
         ELSE \E tip \in {b \in tips : \A a \in tips : Votes(a) <= Votes(b)} :
                LET states == last_n_protocol_states(tip)
                    near == {i \in synced : any_hash_in_last_n(Resps[i], states)}
                IN  /\ gauges' = [gauges EXCEPT
                          !.near = Cardinality(near), !.synced = Cardinality(synced),
                          !.majority = Cardinality({i \in synced :
                             Resps[i].k_block_hashes # <<>> /\ Last(Resps[i].k_block_hashes) = tip})]
                    /\ set_in' = [set_in EXCEPT !["near_best_tip"] = round]
                    /\ Return /\ UNCHANGED raised
  /\ UNCHANGED <<by_seed, round>>

StatusNext ==
  \/ collect_node_status_metrics \/ ask_seed \/ seed_fails \/ round_raises
  \/ set_answers \/ set_near_best_tip

StatusSpec == StatusInit /\ [][StatusNext]_statusVars

-----------------------------------------------------------------------------
\* A node that answered was asked, and is counted once, through however many
\* seeds it was asked.  (An error is counted once for every seed.)
RespondedWereQueried == gauges.nodes_responded <= gauges.nodes_queried

\* The gauges of the error classes add up to the gauge of errors (as many as
\* the pairs of a class and a number up to its gauge): every error is of exactly
\* one class, whatever phrases its text holds.
ErrorClassesPartition ==
  Cardinality(UNION {{class} \X (1..gauges.by_class[class]) : class \in Classes})
    = gauges.nodes_errored

\* Between rounds, a gauge of the whole network that is not of the last round is
\* accounted for: the exception of that round was counted.  The gauges of a
\* seed are not: they stay, uncounted, when the seed fails.
StaleIsCounted ==
  status_pc = "idle" /\ (\E g \in DOMAIN set_in : set_in[g] < round) => raised = round

\* Every synced node whose best tip is the most common one is counted as near
\* it, and no more nodes are than are synced.
MajorityIsNear == gauges.majority <= gauges.near /\ gauges.near <= gauges.synced

\* What a seed's gauges show of the round the gauges of the whole network are of
\* fits these, also where an answer of the seed raised half-way: no more nodes
\* answered the seed than it asked, and no more than were asked in all.
SeedsFitTheWhole ==
  \A s \in ToSet(Seeds) :
    /\ by_seed[s].responded <= by_seed[s].queried
    /\ by_seed[s].of = set_in["answers"] => by_seed[s].queried <= gauges.nodes_queried

\* The gauges of a round fit one another and the round they are of, through
\* seeds that overlap and steps that raise.
StatusGaugesAgree ==
  /\ RespondedWereQueried /\ ErrorClassesPartition /\ StaleIsCounted
  /\ SeedsFitTheWhole /\ MajorityIsNear
=============================================================================
