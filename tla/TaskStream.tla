------------------------------- MODULE TaskStream -------------------------------
(***************************************************************************)
(* The stream of partial results of a task (api/v1/messages.py): chunks    *)
(* that sessions append under consecutive numbers, and the readers of the  *)
(* SSE endpoint, who poll for them; next to the intake that makes the      *)
(* task.  The status of the task is also written by the delivery worker    *)
(* and by reports (TaskLifecycle), whenever they like.                     *)
(***************************************************************************)
EXTENDS MessageIntake

CONSTANTS
  Appenders,     \* sessions of append_task_stream_chunk
  Readers,       \* generators of stream_task_chunks
  Data,          \* what a chunk says
  NoChunk,
  LastSequence   \* bound: sequence numbers of chunks

ASSUME StreamAssumption == LastSequence \in Nat

VARIABLES
  status,   \* of the task
  chunks,   \* task_stream_chunks, by sequence
  append,   \* what an appender has loaded and is going to add
  sent,     \* events a reader has yielded
  reading   \* a reader's loop is open, has ended with a final chunk, or was left

streamVars == <<status, chunks, append, sent, reading>>

Chunk      == [data : Data, final : BOOLEAN]
Sequences  == 0 .. LastSequence

ASSUME NoChunkAssumption == NoChunk \notin Chunk

TaskStatus == {"pending", "running", "closed"}
NoAppend   == [pc |-> "idle"]
Appending  == [pc : {"loaded"}, sequence : Sequences, chunk : Chunk, was : TaskStatus]

StreamInit ==
  /\ status = "pending"
  /\ chunks = [n \in Sequences |-> NoChunk]
  /\ append = [p \in Appenders |-> NoAppend]
  /\ sent = [r \in Readers |-> <<>>]
  /\ reading = [r \in Readers |-> "open"]

(* The executor sends any number it likes.  A number that is there already *)
(* is answered from the table, or refused with other data; one without its *)
(* predecessor is refused.                                                 *)
LoadAppend(p, n, c) ==
  /\ append[p] = NoAppend
  /\ chunks[n] = NoChunk
  /\ n > 0 => chunks[n - 1] # NoChunk
  /\ append' = [append EXCEPT ![p] = [pc |-> "loaded", sequence |-> n, chunk |-> c, was |-> status]]
  /\ UNCHANGED <<status, chunks, sent, reading>>

(* Mutant: (task_id, sequence) is not unique.                              *)
Replaceable(n) == TRUE

Free(n) == chunks[n] = NoChunk

(* The session commits, with the status of a task it found pending; or its *)
(* insertion fails on the unique key, and nothing is written.              *)
CommitAppend(p) ==
  /\ append[p] # NoAppend
  /\ append' = [append EXCEPT ![p] = NoAppend]
  /\ IF Free(append[p].sequence)
     THEN /\ chunks' = [chunks EXCEPT ![append[p].sequence] = append[p].chunk]
          /\ status' = IF append[p].was = "pending" THEN "running" ELSE status
     ELSE UNCHANGED <<status, chunks>>
  /\ UNCHANGED <<sent, reading>>

DropAppend(p) ==
  /\ append[p] # NoAppend
  /\ append' = [append EXCEPT ![p] = NoAppend]
  /\ UNCHANGED <<status, chunks, sent, reading>>

(* What a poll finds: the chunks from the reader's next number on, up to a *)
(* gap or the first final one.                                             *)
Ready(r) ==
  LET next == Len(sent[r])
  IN  {n \in next .. LastSequence :
         \A i \in next .. n : chunks[i] # NoChunk /\ (i < n => ~chunks[i].final)}

Poll(r) ==
  /\ reading[r] = "open"
  /\ \E last \in Ready(r) :
       /\ \A n \in Ready(r) : n <= last
       /\ sent' = [sent EXCEPT ![r] = @ \o [k \in 1 .. last + 1 - Len(@) |-> chunks[Len(@) + k - 1]]]
       /\ reading' = IF chunks[last].final THEN [reading EXCEPT ![r] = "ended"] ELSE reading
  /\ UNCHANGED <<status, chunks, append>>

(* The hour is over, or the client has gone.                               *)
Leave(r) ==
  /\ reading[r] = "open"
  /\ reading' = [reading EXCEPT ![r] = "left"]
  /\ UNCHANGED <<status, chunks, append, sent>>

TaskChanges ==
  /\ \/ status = "pending" /\ status' = "running"
     \/ status' = "closed"
  /\ UNCHANGED <<chunks, append, sent, reading>>

StreamNext ==
  \/ \E p \in Appenders : \/ CommitAppend(p) \/ DropAppend(p)
                          \/ \E n \in Sequences, c \in Chunk : LoadAppend(p, n, c)
  \/ \E r \in Readers : Poll(r) \/ Leave(r)
  \/ TaskChanges

StreamSpec == StreamInit /\ [][StreamNext]_streamVars

(* The two together.  Bound: the stream is that of the first task, whose   *)
(* send has ended, and the intake stands still from its first step;        *)
(* neither writes the other's rows.                                        *)
Sole == \E e \in Envelopes : e.id # NoId /\ audited[e] = 1 /\ inbox[e] = 0

SystemInit == Init /\ StreamInit

SystemNext ==
  \/ Next /\ StreamInit /\ UNCHANGED streamVars
  \/ /\ StreamNext /\ UNCHANGED vars
     /\ \A s \in Sessions : session[s] = Idle
     /\ reachable = Agents /\ TotalTasks = 1 /\ Sole

System == SystemInit /\ [][SystemNext]_<<vars, streamVars>>

--------------------------------------------------------------------------------
StreamTypeOK ==
  /\ status \in TaskStatus
  /\ chunks \in [Sequences -> Chunk \cup {NoChunk}]
  /\ append \in [Appenders -> {NoAppend} \cup Appending]
  /\ sent \in [Readers -> Seq(Chunk)]
  /\ reading \in [Readers -> {"open", "ended", "left"}]

(* Whatever appenders do at the same time, the stream has no gap, and      *)
(* every reader has yielded a prefix of it: the chunks that are in the     *)
(* table, in order, each once, none after a final one.  A reader's loop    *)
(* has ended exactly if its last one is final: readers that have ended     *)
(* have seen the same stream.                                              *)
StreamInOrder ==
  /\ \A n \in Sequences \ {0} : chunks[n] # NoChunk => chunks[n - 1] # NoChunk
  /\ \A r \in Readers :
       /\ Len(sent[r]) <= LastSequence + 1
       /\ \A k \in 1 .. Len(sent[r]) :
            /\ sent[r][k] = chunks[k - 1] /\ chunks[k - 1] # NoChunk
            /\ sent[r][k].final <=> (reading[r] = "ended" /\ k = Len(sent[r]))
       /\ reading[r] = "ended" => sent[r] # <<>>
===============================================================================
