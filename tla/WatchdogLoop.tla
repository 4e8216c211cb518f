---------------------------- MODULE WatchdogLoop ----------------------------
(***************************************************************************)
(* The watchdog's main (services/watchdog/watchdog.py) and run_periodically*)
(* (util.py): one coroutine per check, each of which calls its check and   *)
(* then sleeps.  The checks are ordinary functions: while one runs (it may *)
(* wait ten minutes for a pod, or for ever for an address) the event loop  *)
(* runs none of the others, and their timers go on.  The event loop wakes  *)
(* the coroutines in the order in which their timers ran out.              *)
(***************************************************************************)
EXTENDS Naturals, Sequences, FiniteSets

CONSTANTS
  Check,     \* the checks
  fns,       \* the list of them
  Period     \* check -> time between two runs, in some unit

ASSUME WatchdogLoopAssumption ==
  /\ IsFiniteSet(Check) /\ Period \in [Check -> Nat \ {0}]
  /\ fns \in Seq(Check) /\ \A j, k \in DOMAIN fns : fns[j] = fns[k] => j = k

VARIABLES
  timer,     \* time left of each coroutine's sleep
  due,       \* the coroutines whose sleep is over, in that order
  running,   \* the check the event loop is in, as a set of at most one
  passed     \* check -> those called since it became due

loopVars == <<timer, due, running, passed>>

\* Every coroutine is started by ensure_future, in the order of fns.
main ==
  /\ timer = [c \in Check |-> 0] /\ due = fns
  /\ running = {} /\ passed = [c \in Check |-> {}]

-----------------------------------------------------------------------------
Due == {due[k] : k \in DOMAIN due}

\* The orders in which the timers of a set of checks may run out.
Arrangements(S) ==
  {s \in [1..Cardinality(S) -> S] : \A j, k \in DOMAIN s : s[j] = s[k] => j = k}

Tick ==
  /\ \E c \in Check : timer[c] > 0
  /\ timer' = [c \in Check |-> IF timer[c] > 0 THEN timer[c] - 1 ELSE 0]
  /\ \E s \in Arrangements({c \in Check : timer[c] = 1}) : due' = due \o s
  /\ UNCHANGED <<running, passed>>

Passes(c) ==
  passed' = [d \in Check |-> IF d = c THEN {} ELSE
                             IF d \in Due THEN passed[d] \cup {c} ELSE passed[d]]

\* *mutant*: the coroutine that became ready last goes first
calls_last ==
  /\ running = {} /\ due # <<>>
  /\ running' = {due[Len(due)]} /\ due' = SubSeq(due, 1, Len(due) - 1)
  /\ Passes(due[Len(due)])
  /\ UNCHANGED timer

\* fn()
calls ==
  /\ running = {} /\ due # <<>>
  /\ running' = {Head(due)} /\ due' = Tail(due)
  /\ Passes(Head(due))
  /\ UNCHANGED timer

\* It returns, or raises and the error is counted; the coroutine sleeps.
run_periodically(c) ==
  /\ c \in running
  /\ running' = running \ {c} /\ timer' = [timer EXCEPT ![c] = Period[c]]
  /\ UNCHANGED <<due, passed>>

LoopNext == Tick \/ calls \/ \E c \in Check : run_periodically(c)

\* Time passes and the event loop runs what is ready.  A check need not end:
\* some of what it waits for has no time limit.
LoopFairness == WF_loopVars(Tick) /\ WF_loopVars(calls)

LoopSpec == main /\ [][LoopNext]_loopVars /\ LoopFairness

-----------------------------------------------------------------------------
LoopTypeOK ==
  /\ timer \in [Check -> Nat] /\ \A c \in Check : timer[c] <= Period[c]
  /\ due \in Seq(Check) /\ running \subseteq Check
  /\ passed \in [Check -> SUBSET Check]

\* While a check waits for its turn no other is called twice, however long the
\* checks take and however many timers run out meanwhile: one with a short
\* period does not starve those with a long one.
TakenInTurn ==
  [][\A c \in running' \ running : \A d \in Due : c \notin passed[d]]_loopVars

\* After any check each check is called again, and so for ever, however often
\* it or another one raises, as long as no check waits for ever.
ChecksGoOn ==
  []<>(running = {}) => \A c \in Check : running # {} ~> c \in running
=============================================================================
