------------------------------ MODULE ExecOnPod ------------------------------
(***************************************************************************)
(* How the watchdog reads the output of a command off a pod (util.py,      *)
(* exec_on_pod; make_report.py, exec_on_seed, which does not compare the   *)
(* lengths): the output goes to a file, whose length is asked for and      *)
(* which is then read chunk by chunk with head and tail.  The client       *)
(* decodes the bytes of every frame it receives by itself, so a character  *)
(* that a chunk or a frame cuts in two becomes one replacement character   *)
(* for each of its bytes.  An exec that takes longer than its              *)
(* _request_timeout returns what has arrived, without an error: the        *)
(* command may still be writing when its file is measured and read, and a  *)
(* chunk may be short.                                                     *)
(***************************************************************************)
EXTENDS Naturals, Sequences, SequencesExt

CONSTANTS
  chunk_size,
  MaxChars    \* bound: characters of the output

ASSUME ExecOnPodAssumption == chunk_size \in Nat \ {0} /\ MaxChars \in Nat

VARIABLES
  exec_pc,
  file,       \* the temporary file: a sequence of bytes, or <<>> when there is none
  file_len, chunks, result, warned,
  short,      \* some chunk was returned before all of it had arrived
  output,     \* what the command prints
  compares    \* exec_on_pod, which compares the lengths, and not exec_on_seed

execVars == <<exec_pc, file, file_len, chunks, result, warned, short, output, compares>>

\* A character is one or two bytes wide; a byte knows the character it is of
\* and its place in it.
Widths == UNION {[1..n -> 1..2] : n \in 0..MaxChars}
BytesOf(ws) ==
  FlattenSeq([k \in DOMAIN ws |-> [j \in 1..ws[k] |-> [char |-> k, part |-> j, width |-> ws[k]]]])

Replacement == [char |-> 0, width |-> 3]

\* bytes.decode("utf-8", "replace") of one frame
decode(bytes) ==
  LET Whole(k) == /\ k + bytes[k].width - bytes[k].part <= Len(bytes)
                  /\ k >= bytes[k].part
      Symbol(k) == IF ~Whole(k) THEN <<Replacement>>
                   ELSE IF bytes[k].part = 1
                   THEN <<[char |-> bytes[k].char, width |-> bytes[k].width]>>
                   ELSE <<>>
  IN  FlattenSeq([k \in DOMAIN bytes |-> Symbol(k)])

\* len(s.encode('utf-8'))
EncodedLength(s) ==
  LET upto[k \in 0..Len(s)] == IF k = 0 THEN 0 ELSE upto[k - 1] + s[k].width
  IN  upto[Len(s)]

ExecInit ==
  /\ exec_pc = "run" /\ file = <<>> /\ file_len = 0 /\ chunks = <<>> /\ result = <<>>
  /\ warned = FALSE /\ short = FALSE /\ output \in Widths /\ compares \in BOOLEAN

-----------------------------------------------------------------------------
Written(n) == SubSeq(BytesOf(output), 1, n)

\* The exec returns when the command ends, or when the timeout passes.
run_command ==
  /\ exec_pc = "run" /\ exec_pc' = "stat"
  /\ \E n \in 0..Len(BytesOf(output)) : file' = Written(n)
  /\ UNCHANGED <<file_len, chunks, result, warned, short, output, compares>>

\* A command that was not waited for goes on (external).
command_writes ==
  /\ exec_pc \in {"stat", "read"}
  /\ \E n \in (Len(file) + 1)..Len(BytesOf(output)) : file' = Written(n)
  /\ UNCHANGED <<exec_pc, file_len, chunks, result, warned, short, output, compares>>

stat ==
  /\ exec_pc = "stat" /\ exec_pc' = "read"
  /\ file_len' = Len(file)
  /\ UNCHANGED <<file, chunks, result, warned, short, output, compares>>

num_chunks == (file_len + chunk_size - 1) \div chunk_size

\* cat file | head -c (start + size) | tail -c size
read_segment(start, size) ==
  LET head == SubSeq(file, 1, IF start + size < Len(file) THEN start + size ELSE Len(file))
  IN  SubSeq(head, IF Len(head) > size THEN Len(head) - size + 1 ELSE 1, Len(head))

read_chunk(i) ==
  LET end == IF (i + 1) * chunk_size < file_len THEN (i + 1) * chunk_size ELSE file_len
  IN  read_segment(i * chunk_size, end - i * chunk_size)

\* One read, received in two frames that meet at any byte, or cut off by the
\* timeout after any.
read_next ==
  /\ exec_pc = "read" /\ Len(chunks) < num_chunks
  /\ LET bytes == read_chunk(Len(chunks))
     IN  \E arrived \in 0..Len(bytes) : \E cut \in 0..arrived :
           /\ chunks' = Append(chunks, decode(SubSeq(bytes, 1, cut))
                                         \o decode(SubSeq(bytes, cut + 1, arrived)))
           /\ short' = (short \/ arrived < Len(bytes))
  /\ UNCHANGED <<exec_pc, file, file_len, result, warned, output, compares>>

\* An exec raises, or there is no length to read: stat found no file, or was
\* too slow.
exec_raises ==
  /\ exec_pc \in {"run", "stat", "read"} /\ exec_pc' = "raised"
  /\ UNCHANGED <<file, file_len, chunks, result, warned, short, output, compares>>

\* *mutant*: characters are counted, not bytes
LengthsDiffer_in_characters(s) == Len(s) # file_len

LengthsDiffer(s) == EncodedLength(s) # file_len

\* ''.join(chunks), rm, and the comparison of the lengths, in exec_on_pod
join ==
  /\ exec_pc = "read" /\ Len(chunks) = num_chunks /\ exec_pc' = "done"
  /\ result' = FlattenSeq(chunks) /\ file' = <<>>
  /\ warned' = (compares /\ LengthsDiffer(result'))
  /\ UNCHANGED <<file_len, chunks, short, output, compares>>

ExecNext ==
  run_command \/ command_writes \/ stat \/ read_next \/ exec_raises \/ join

ExecSpec == ExecInit /\ [][ExecNext]_execVars

-----------------------------------------------------------------------------
Original == [k \in DOMAIN output |-> [char |-> k, width |-> output[k]]]

Ascii == \A k \in DOMAIN output : output[k] = 1

\* The command had ended when its file was measured.
Measured == file_len = Len(BytesOf(output))

\* Output whose characters are single bytes arrives as it was printed, whatever
\* its length is with respect to the size of a chunk: as many bytes of it as the
\* file had when it was measured, which is all when the command ended in time.
AsciiArrives ==
  exec_pc = "done" /\ Ascii /\ ~short =>
    IsPrefix(result, Original) /\ EncodedLength(result) = file_len

\* In exec_on_pod, output that a cut has damaged never passes for what was
\* printed: without a warning it is the beginning of it, and all of it when the
\* command ended in time, which is then not warned about.
DamageIsReported ==
  exec_pc = "done" /\ compares /\ ~short =>
    /\ ~warned => IsPrefix(result, Original)
    /\ Measured => (warned <=> result # Original)

\* A chunk that came back short is warned about, when the characters are single
\* bytes.  (Wider ones may make up the length with replacement characters.)
LossIsReported == exec_pc = "done" /\ compares /\ Ascii /\ short => warned

\* Output arrives as far as it was written when the file was measured, or with
\* a warning, wherever chunks, frames and timeouts cut it.
OutputIsIntactOrReported == AsciiArrives /\ DamageIsReported /\ LossIsReported
=============================================================================
