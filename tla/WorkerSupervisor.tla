-------------------------- MODULE WorkerSupervisor --------------------------
(***************************************************************************)
(* The supervisor of a worker (otp_lib/worker_supervisor.ml).  `thread' is *)
(* the deferred of the work dispatched last.  A deferred is determined     *)
(* some time before the callback on it runs, which is what resets `thread' *)
(* and returns the result to the dispatcher.                               *)
(***************************************************************************)
CONSTANTS
  Work,   \* inputs of the worker
  None    \* not one of them

VARIABLES
  thread,       \* the work dispatched last, or None
  performing,   \* what the worker is performing
  determined,   \* performed, and the callback has not run yet
  returned,     \* returned to the dispatcher
  raised        \* work whose dispatch raised "cannot dispatch to busy worker"

vars == <<thread, performing, determined, returned, raised>>

Init ==
  /\ thread = None
  /\ performing = {} /\ determined = {} /\ returned = {} /\ raised = {}

\* Option.value_map t.thread ~default:false ~f:Deferred.is_determined
is_working(th, done) == th # None /\ th \in done

dispatch(w) ==
  /\ w \notin performing \cup determined \cup returned \cup raised
  /\ IF is_working(thread, determined)
     THEN raised' = raised \cup {w} /\ UNCHANGED <<thread, performing>>
     ELSE /\ thread' = w /\ performing' = performing \cup {w}
          /\ UNCHANGED raised
  /\ UNCHANGED <<determined, returned>>

\* The worker's `perform' is done with w.
perform(w) ==
  /\ w \in performing
  /\ performing' = performing \ {w} /\ determined' = determined \cup {w}
  /\ UNCHANGED <<thread, returned, raised>>

\* The callback on w's deferred.
return(w) ==
  /\ w \in determined
  /\ thread' = None
  /\ determined' = determined \ {w} /\ returned' = returned \cup {w}
  /\ UNCHANGED <<performing, raised>>

Next == \E w \in Work : dispatch(w) \/ perform(w) \/ return(w)

Spec == Init /\ [][Next]_vars

-----------------------------------------------------------------------------
\* The module's own documentation: the supervisor "prevents parallel
\* dispatching of work to that worker".
NoParallelDispatch ==
  \A v, w \in performing : v = w
=============================================================================
