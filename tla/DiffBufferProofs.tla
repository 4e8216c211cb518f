-------------------------- MODULE DiffBufferProofs --------------------------
(***************************************************************************)
(* The synchronisation of the database, for every capacity and every set   *)
(* of diffs: its safety properties, and that it implements the log.        *)
(***************************************************************************)
EXTENDS DiffBuffer, TLAPS

\* A batch is a sequence of diffs.
LEMMA BatchType == Batch \subseteq Seq(Diff)
BY BufferAssumption DEF Batch

\* A dispatch by a flush job that found the worker idle.
LEMMA DispatchSound ==
  ASSUME Inductive, raised = {}, NEW buffer \in Seq(Diff), dispatch(buffer),
         flush_job \in {"none", "returned"}
  PROVE  /\ diff_array' = << >> /\ flush_job' = "waiting"
         /\ work = << >> /\ work' = buffer
         /\ thread' = "pending" /\ raised' = {}
<1>1. thread = "none" /\ work = << >>
  BY DEF Inductive, OneBatchAtATime, TypeOK
<1>2. ~is_working
  BY <1>1 DEF is_working
<1>3. << >> \o buffer = buffer
  OBVIOUS
<1> QED
  BY <1>1, <1>2, <1>3 DEF dispatch

\* The synchronisation starts idle and empty.
LEMMA InitInductive == Init => Inductive
BY BufferAssumption DEF Init, Inductive, TypeOK, OneBatchAtATime,
   FullBufferIsFlushed, should_flush

\* Every step of the buffer, the worker and the close keeps the invariant.
LEMMA NextInductive == Inductive /\ [Next]_vars => Inductive'
<1> SUFFICES ASSUME Inductive, [Next]_vars PROVE Inductive'
  OBVIOUS
<1> USE BufferAssumption
<1>e. Len(<< >>) = 0 /\ << >> \in Seq(Diff)
  OBVIOUS
<1>1. ASSUME NEW diffs \in Batch, write(diffs) PROVE Inductive'
  <2> DEFINE buffer == diff_array \o diffs
  <2>1. buffer \in Seq(Diff)
    <3>1. diff_array \in Seq(Diff) /\ diffs \in Seq(Diff)
      BY BatchType DEF Inductive, TypeOK
    <3> QED
      BY <3>1
  <2>2. CASE should_flush(buffer) /\ flush_job = "none"
    <3>1. dispatch(buffer) /\ UNCHANGED <<applied, closing>>
          /\ raised = {} /\ closing = "open"
      BY <1>1, <2>2 DEF write
    <3>2. /\ diff_array' = << >> /\ flush_job' = "waiting"
          /\ work' = buffer /\ thread' = "pending" /\ raised' = {}
      BY <2>1, <2>2, <3>1, DispatchSound
    <3> QED
      BY <1>e, <2>1, <3>1, <3>2 DEF Inductive, TypeOK, OneBatchAtATime,
         FullBufferIsFlushed, should_flush
  <2>3. CASE ~(should_flush(buffer) /\ flush_job = "none")
    <3>1. /\ diff_array' = buffer /\ closing = "open"
          /\ raised' \in {{}, {"persistence buffer overflow"}}
          /\ UNCHANGED <<flush_job, thread, work, applied, closing>>
      BY <1>1, <2>3 DEF write
    <3>2. should_flush(buffer) => flush_job # "none"
      BY <2>3
    <3> HIDE DEF buffer
    <3> QED
      BY <2>1, <3>1, <3>2 DEF Inductive, TypeOK, OneBatchAtATime,
         FullBufferIsFlushed, should_flush
  <2> QED
    BY <2>2, <2>3
<1>2. ASSUME handle_diff PROVE Inductive'
  BY <1>2 DEF handle_diff, Inductive, TypeOK, OneBatchAtATime,
     FullBufferIsFlushed, should_flush
<1>3. ASSUME performed PROVE Inductive'
  BY <1>3 DEF performed, Inductive, TypeOK, OneBatchAtATime,
     FullBufferIsFlushed, should_flush
<1>4. ASSUME returned PROVE Inductive'
  BY <1>4 DEF returned, Inductive, TypeOK, OneBatchAtATime,
     FullBufferIsFlushed, should_flush
<1>5. ASSUME flush_goes_on PROVE Inductive'
  <2>1. CASE should_flush(diff_array)
    <3>1. /\ dispatch(diff_array) /\ UNCHANGED <<applied, closing>>
          /\ raised = {} /\ flush_job = "returned"
          /\ diff_array \in Seq(Diff)
      BY <1>5, <2>1 DEF flush_goes_on, Inductive, TypeOK
    <3>2. /\ diff_array' = << >> /\ flush_job' = "waiting"
          /\ work' = diff_array /\ thread' = "pending" /\ raised' = {}
      BY <3>1, DispatchSound
    <3>3. closing # "closed"
      BY <3>1 DEF Inductive
    <3> QED
      BY <1>e, <3>1, <3>2, <3>3 DEF Inductive, TypeOK, OneBatchAtATime,
         FullBufferIsFlushed, should_flush
  <2>2. CASE ~should_flush(diff_array)
    BY <1>5, <2>2 DEF flush_goes_on, Inductive, TypeOK, OneBatchAtATime,
       FullBufferIsFlushed, should_flush
  <2> QED
    BY <2>1, <2>2
<1>6. ASSUME close PROVE Inductive'
  BY <1>6 DEF close, Inductive, TypeOK, OneBatchAtATime,
     FullBufferIsFlushed, should_flush
<1>7. ASSUME finish_copy PROVE Inductive'
  <2>1. CASE diff_array # << >>
    <3>1. /\ dispatch(diff_array) /\ closing' = "copying" /\ UNCHANGED applied
          /\ raised = {} /\ flush_job = "none" /\ diff_array \in Seq(Diff)
      BY <1>7, <2>1 DEF finish_copy, Inductive, TypeOK
    <3>2. /\ diff_array' = << >> /\ flush_job' = "waiting"
          /\ work' = diff_array /\ thread' = "pending" /\ raised' = {}
      BY <3>1, DispatchSound
    <3> QED
      BY <1>e, <3>1, <3>2 DEF Inductive, TypeOK, OneBatchAtATime,
         FullBufferIsFlushed, should_flush
  <2>2. CASE diff_array = << >>
    BY <1>7, <2>2 DEF finish_copy, Inductive, TypeOK, OneBatchAtATime,
       FullBufferIsFlushed, should_flush
  <2> QED
    BY <2>1, <2>2
<1>8. ASSUME close_worker PROVE Inductive'
  BY <1>8 DEF close_worker, is_working, Inductive, TypeOK, OneBatchAtATime,
     FullBufferIsFlushed, should_flush
<1>9. CASE UNCHANGED vars
  BY <1>9 DEF vars, Inductive, TypeOK, OneBatchAtATime, FullBufferIsFlushed,
     should_flush
<1> QED
  BY <1>1, <1>2, <1>3, <1>4, <1>5, <1>6, <1>7, <1>8, <1>9 DEF Next, Copy, Close

\* The inductive invariant holds in every state of the synchronisation.
THEOREM BufferInvariant == Spec => []Inductive
<1>1. Init => Inductive
  BY InitInductive
<1>2. Inductive /\ [Next]_vars => Inductive'
  BY NextInductive
<1> QED
  BY <1>1, <1>2, PTL DEF Spec

\* The buffer, the flush job, the worker and the close keep their types.
THEOREM BufferTypeCorrect == Spec => []TypeOK
<1>1. Inductive => TypeOK
  BY DEF Inductive
<1>2. QED
  BY <1>1, BufferInvariant, PTL

\* The worker gets one batch at a time, and the supervisor's check, which
\* tests the opposite of its name, never stops the flush job or the close.
THEOREM BatchesAreSequential == Spec => []OneBatchAtATime
<1>1. Inductive => OneBatchAtATime
  BY DEF Inductive
<1> QED
  BY <1>1, BufferInvariant, PTL

\* No notification falls between the flush job's last look at the buffer
\* and its end.
THEOREM NoLostFlush == Spec => []FullBufferIsFlushed
<1>1. Inductive => FullBufferIsFlushed
  BY DEF Inductive
<1> QED
  BY <1>1, BufferInvariant, PTL

\* When close_and_finish_copy is done, no diff is left in the buffer or with
\* the worker.
THEOREM CloseIsComplete == Spec => []CloseCopiesEverything
<1>1. Inductive => CloseCopiesEverything
  BY DEF Inductive, CloseCopiesEverything, OneBatchAtATime
<1> QED
  BY <1>1, BufferInvariant, PTL

\* A dispatch moves the buffer to the worker and leaves the log alone.
LEMMA DispatchKeepsLog ==
  ASSUME Inductive, raised = {}, dispatch(diff_array),
         flush_job \in {"none", "returned"}, UNCHANGED applied
  PROVE  UNCHANGED <<work \o diff_array, applied>>
<1>1. diff_array \in Seq(Diff)
  BY DEF Inductive, TypeOK
<1>2. diff_array' = << >> /\ work = << >> /\ work' = diff_array
  BY <1>1, DispatchSound
<1> QED
  BY <1>1, <1>2

\* Every step is a notification, an application of the oldest diff, or
\* leaves the log alone.
LEMMA StepsAreLogSteps ==
  Inductive /\ [Next]_vars => [Log!Next]_<<work \o diff_array, applied>>
<1> SUFFICES ASSUME Inductive, [Next]_vars
             PROVE  [Log!Next]_<<work \o diff_array, applied>>
  OBVIOUS
<1>t. diff_array \in Seq(Diff) /\ work \in Seq(Diff)
  BY DEF Inductive, TypeOK
<1>1. ASSUME NEW diffs \in Batch, write(diffs) PROVE Log!Notify
  <2>t. diffs \in Seq(Diff)
    BY BatchType
  <2> DEFINE buffer == diff_array \o diffs
  <2>b. buffer \in Seq(Diff)
    BY <1>t, <2>t
  <2>1. (work \o diff_array) \o diffs = work \o buffer
    BY <1>t, <2>t
  <2>2. CASE should_flush(buffer) /\ flush_job = "none"
    <3>1. dispatch(buffer) /\ UNCHANGED applied /\ raised = {}
      BY <1>1, <2>2 DEF write
    <3>2. diff_array' = << >> /\ work = << >> /\ work' = buffer
      BY <2>b, <2>2, <3>1, DispatchSound
    <3>3. work' \o diff_array' = work \o buffer
      BY <2>b, <3>2
    <3> QED
      BY <2>1, <3>1, <3>3 DEF Log!Notify
  <2>3. CASE ~(should_flush(buffer) /\ flush_job = "none")
    <3>1. diff_array' = buffer /\ UNCHANGED <<work, applied>>
      BY <1>1, <2>3 DEF write
    <3>2. work' \o diff_array' = (work \o diff_array) \o diffs
      BY <2>1, <3>1
    <3> QED
      BY <3>1, <3>2 DEF Log!Notify
  <2> QED
    BY <2>2, <2>3
<1>2. ASSUME handle_diff PROVE Log!Apply
  <2>1. work # << >> /\ work' = Tail(work) /\ UNCHANGED diff_array
        /\ applied' = Append(applied, Head(work))
    BY <1>2 DEF handle_diff
  <2>2. /\ work \o diff_array # << >>
        /\ Head(work \o diff_array) = Head(work)
        /\ Tail(work \o diff_array) = Tail(work) \o diff_array
    BY <1>t, <2>1
  <2> QED
    BY <2>1, <2>2 DEF Log!Apply
<1>3. ASSUME performed \/ returned \/ close \/ close_worker
      PROVE  UNCHANGED <<work \o diff_array, applied>>
  BY <1>3 DEF performed, returned, close, close_worker
<1>4. ASSUME flush_goes_on PROVE UNCHANGED <<work \o diff_array, applied>>
  <2>1. CASE should_flush(diff_array)
    BY <1>4, <2>1, DispatchKeepsLog DEF flush_goes_on
  <2>2. CASE ~should_flush(diff_array)
    BY <1>4, <2>2 DEF flush_goes_on
  <2> QED
    BY <2>1, <2>2
<1>5. ASSUME finish_copy PROVE UNCHANGED <<work \o diff_array, applied>>
  <2>1. CASE diff_array # << >>
    BY <1>5, <2>1, DispatchKeepsLog DEF finish_copy
  <2>2. CASE diff_array = << >>
    BY <1>5, <2>2 DEF finish_copy
  <2> QED
    BY <2>1, <2>2
<1>6. CASE UNCHANGED vars
  BY <1>6 DEF vars
<1> QED
  BY <1>1, <1>2, <1>3, <1>4, <1>5, <1>6 DEF Next, Copy, Close, Log!Next

\* Buffer, flush job, supervisor, worker and close together implement the
\* log: diffs are applied once each, in the order of the notifications.
THEOREM BufferImplementsLog == Spec => ImplementsDiffLog
<1>1. Init => Log!Init
  BY DEF Init, Log!Init
<1>2. Inductive /\ [Next]_vars => [Log!Next]_<<work \o diff_array, applied>>
  BY StepsAreLogSteps
<1> QED
  BY <1>1, <1>2, BufferInvariant, PTL DEF Spec, ImplementsDiffLog, Log!Spec
=============================================================================
