--------------------------- MODULE CompareBestTip ---------------------------
(***************************************************************************)
(* testnet-validation/compare_best_tip.py.  The pods of a namespace are    *)
(* asked for their best chain, each through a port-forward of its own, by  *)
(* a pool of threads; the answers go into a trie in the order of the pods. *)
(***************************************************************************)
EXTENDS BestTipTrie

CONSTANTS
  Chains,        \* what a daemon may answer: sequences of hashes
  MaxPods,       \* bound
  Workers,       \* max_workers
  ForwardTries, QueryTries   \* max_tries of doit and of get_best_chain

ASSUME CompareBestTipAssumption ==
  /\ MaxPods \in Nat /\ Workers \in Nat \ {0}
  /\ ForwardTries \in Nat \ {0} /\ QueryTries \in Nat \ {0}

\* A state hash covers the hash of the block's parent: a block has one parent,
\* whoever tells of it, and is in a chain once.
ASSUME ChainsAssumption ==
  /\ \A c \in Chains :
       /\ c \in Seq(STRING) /\ c # <<>>
       /\ \A i, j \in DOMAIN c : c[i] = c[j] => i = j
       /\ \A i \in DOMAIN c : c[i] # "root"
  /\ \A c, d \in Chains : \A i \in DOMAIN c \ {1} : \A j \in DOMAIN d \ {1} :
       c[i] = d[j] => c[i - 1] = d[j - 1]

VARIABLES
  kind,      \* pod -> "daemon" (block producer, coordinator) or "other"
  pod,       \* pod -> "queued", "query", "close", "retry", "done"
  answer,    \* pod -> its chain or NoAnswer, Timeout, Refused, NameError
  forwards,  \* pods whose port-forward runs
  tries,     \* pod -> [doit, get_best_chain]: attempts made
  trie, inserted, raised

compareVars == <<kind, pod, answer, forwards, tries, trie, inserted, raised>>

PodIds == 1..MaxPods
NoAnswer == <<"none">>
Timeout == <<"timeout">>
Refused == <<"refused">>
NameError == <<"NameError">>

CompareInit ==
  /\ kind \in [PodIds -> {"daemon", "other"}]
  /\ pod = [i \in PodIds |-> "queued"] /\ answer = [i \in PodIds |-> NoAnswer]
  /\ forwards = {} /\ tries = [i \in PodIds |-> [doit |-> 0, get_best_chain |-> 0]]
  /\ trie = EmptyTrie /\ inserted = 0 /\ raised = FALSE

Running == {i \in PodIds : pod[i] \notin {"queued", "done"}}

\* A thread takes the next pod; one that runs no daemon is done at once.
process_pod(i) ==
  /\ pod[i] = "queued" /\ \A j \in PodIds : j < i => pod[j] # "queued"
  /\ Cardinality(Running) < Workers
  /\ pod' = [pod EXCEPT ![i] = IF kind[i] = "daemon" THEN "retry" ELSE "done"]
  /\ UNCHANGED <<kind, answer, forwards, tries, trie, inserted, raised>>

\* doit starts the port-forward, at a port of the pod's index
doit(i) ==
  /\ pod[i] = "retry" /\ pod' = [pod EXCEPT ![i] = "query"]
  /\ forwards' = forwards \cup {i}
  /\ tries' = [tries EXCEPT ![i] = [doit |-> @.doit + 1, get_best_chain |-> 0]]
  /\ UNCHANGED <<kind, answer, trie, inserted, raised>>

\* One query.  A timeout or a refused connection is tried again, and the last
\* attempt's exception leaves get_best_chain.
get_best_chain(i) ==
  /\ pod[i] = "query"
  /\ tries' = [tries EXCEPT ![i].get_best_chain = @ + 1]
  /\ \E a \in Chains \cup {NoAnswer, Timeout, Refused} :
       /\ answer' = [answer EXCEPT ![i] = a]
       /\ pod' = [pod EXCEPT ![i] =
                    IF a \in {Timeout, Refused} /\ tries[i].get_best_chain + 1 < QueryTries
                    THEN "query" ELSE "close"]
  /\ UNCHANGED <<kind, forwards, trie, inserted, raised>>

\* What process_pod makes of doit's end: backoff calls it again, a refused
\* connection is logged, and a timeout is passed on to pool.map.
AfterDoit(i) ==
  IF answer[i] \in {Timeout, Refused} /\ tries[i].doit < ForwardTries THEN "retry" ELSE "done"

\* The `finally' of doit.
terminate_process(i) ==
  /\ pod[i] = "close" /\ pod' = [pod EXCEPT ![i] = AfterDoit(i)]
  /\ forwards' = forwards \ {i}
  /\ UNCHANGED <<kind, answer, tries, trie, inserted, raised>>

\* The process does not end in time and is left running: `logger' is not
\* defined there, and the NameError replaces doit's result.
terminate_process_late(i) ==
  /\ pod[i] = "close" /\ i \in forwards /\ pod' = [pod EXCEPT ![i] = "done"]
  /\ answer' = [answer EXCEPT ![i] = NameError]
  /\ UNCHANGED <<kind, forwards, tries, trie, inserted, raised>>

\* A port-forward ends by itself, or by the signal it got before.
ForwardEnds(i) ==
  /\ i \in forwards /\ forwards' = forwards \ {i}
  /\ UNCHANGED <<kind, pod, answer, tries, trie, inserted, raised>>

\* The loop over pool.map: results in the order of the pods.
insert_result ==
  LET i == inserted + 1 IN
  /\ ~raised /\ inserted < MaxPods /\ pod[i] = "done"
  /\ answer[i] \notin {Timeout, NameError}
  /\ inserted' = i
  /\ trie' = IF answer[i] \in Chains THEN insert(trie, answer[i], i) ELSE trie
  /\ UNCHANGED <<kind, pod, answer, forwards, tries, raised>>

result_raises ==
  LET i == inserted + 1 IN
  /\ ~raised /\ inserted < MaxPods /\ pod[i] = "done"
  /\ answer[i] \in {Timeout, NameError}
  /\ raised' = TRUE
  /\ UNCHANGED <<kind, pod, answer, forwards, tries, trie, inserted>>

Thread(i) == process_pod(i) \/ doit(i) \/ get_best_chain(i) \/ terminate_process(i)
                \/ terminate_process_late(i) \/ ForwardEnds(i)

CompareNext == (\E i \in PodIds : Thread(i)) \/ insert_result \/ result_raises

CompareSpec == CompareInit /\ [][CompareNext]_compareVars

-----------------------------------------------------------------------------
Inserted == {i \in 1..inserted : answer[i] \in Chains}
Links(chain) == {<<chain[k], chain[k + 1]>> : k \in 1..(Len(chain) - 1)}
SelfLoops(edges) == {e \in edges : e[1] = e[2]}

\* The drawn graph is that of the chains, for pods whose chains begin at the
\* same block: a link of any chain is drawn, nothing else but the loops of the
\* doubled objects is, and a pod's label hangs at the tip it answered.
GraphIsOfTheChains ==
  (\A i, j \in Inserted : Head(answer[i]) = Head(answer[j])) =>
  LET g == render_fork(trie)
  IN  /\ g.edges \ SelfLoops(g.edges)
           = UNION {Links(<<"root">> \o answer[i]) : i \in Inserted}
      /\ g.labels = {<<i, Last(answer[i])>> : i \in Inserted}

\* A port-forward outlives the call that started it, retries included, only if
\* it did not end in time, and then the call has no result but an exception.
ForwardsAreClosed ==
  \A i \in forwards : \/ pod[i] \in {"query", "close"}
                      \/ pod[i] = "done" /\ answer[i] = NameError
=============================================================================
