-------------------------- MODULE SpeculativeStream --------------------------
(***************************************************************************)
(* SpeculativeStream of src/speculative_stream.py: a producer task reads a *)
(* response's body into a bounded queue before anybody is allowed to see   *)
(* it.  release_response opens the gate, which the body waits for before   *)
(* its completion side effects, and hands the queue to the client; cancel  *)
(* ends the producer and the body with it.  The body itself is whatever    *)
(* yields chunks; ChatTurn gives the real one.                             *)
(***************************************************************************)
EXTENDS Naturals, Sequences

CONSTANTS
  Chunks,      \* what the wrapped body may yield
  End,         \* the _END sentinel
  MaxChunks    \* max_chunks: KVEN2_SPECULATIVE_QUEUE_MAX_CHUNKS

ASSUME StreamAssumption == MaxChunks \in Nat \ {0} /\ End \notin Chunks

VARIABLES
  producer,    \* the producer task
  held,        \* what the producer is putting into the queue
  queue,
  gate,        \* release_gate is set
  consumer,    \* the released response
  produced,    \* what the body yielded (history)
  delivered,   \* what the client was sent (history)
  completed,   \* the body passed the gate and did its side effects
  failed       \* self.error is set

streamVars == <<producer, held, queue, gate, consumer, produced, delivered, completed, failed>>

ProducerStates == {"none", "pulling", "putting", "done", "cancelled"}
ConsumerStates == {"none", "released", "reading", "finished", "closed", "abandoned"}

StreamInit ==
  /\ producer = "none" /\ held = End /\ queue = <<>>
  /\ gate = FALSE /\ consumer = "none"
  /\ produced = <<>> /\ delivered = <<>>
  /\ completed = FALSE /\ failed = FALSE

-----------------------------------------------------------------------------
(* The producer                                                            *)

StartStream ==
  /\ producer = "none"
  /\ producer' = "pulling"
  /\ UNCHANGED <<held, queue, gate, consumer, produced, delivered, completed, failed>>

\* The body yields c; the producer goes on to put it.
Pull(c) ==
  /\ producer = "pulling"
  /\ producer' = "putting"
  /\ held' = c
  /\ produced' = Append(produced, c)
  /\ UNCHANGED <<queue, gate, consumer, delivered, failed>>

\* The body waits for the gate before the side effects of its completion,
\* and yields the last of its chunks in the same step.
PullPastGate(c) == gate /\ Pull(c) /\ completed' = TRUE

\* The body ends, or raises; either way the sentinel is put.
Exhaust(error) ==
  /\ producer = "pulling"
  /\ error \/ completed
  /\ failed' = error
  /\ producer' = "putting"
  /\ held' = End
  /\ UNCHANGED <<queue, gate, consumer, produced, delivered, completed>>

\* Mutant: a full queue drops the chunk.
PutLossy ==
  /\ producer = "putting"
  /\ queue' = IF Len(queue) < MaxChunks THEN Append(queue, held) ELSE queue
  /\ producer' = IF held = End THEN "done" ELSE "pulling"
  /\ UNCHANGED <<held, gate, consumer, produced, delivered, completed, failed>>

\* queue.put blocks while the queue is full.
Put ==
  /\ producer = "putting"
  /\ Len(queue) < MaxChunks
  /\ queue' = Append(queue, held)
  /\ producer' = IF held = End THEN "done" ELSE "pulling"
  /\ UNCHANGED <<held, gate, consumer, produced, delivered, completed, failed>>

-----------------------------------------------------------------------------
(* cancel: the task is cancelled wherever it waits, closes the body, and   *)
(* puts no sentinel.  The caller awaits it, so this is one step.           *)
Stopped == IF producer \in {"pulling", "putting"} THEN "cancelled" ELSE producer

CancelStream ==
  /\ consumer = "none"
  /\ producer # "none"
  /\ producer' = "cancelled"
  /\ UNCHANGED <<held, queue, gate, consumer, produced, delivered, completed, failed>>

-----------------------------------------------------------------------------
(* The released response                                                   *)

ReleaseStream ==
  /\ consumer = "none"
  /\ producer \notin {"none", "cancelled"}
  /\ gate' = TRUE
  /\ consumer' = "released"
  /\ UNCHANGED <<producer, held, queue, produced, delivered, completed, failed>>

\* The server iterates the response, unless the client is known to be gone.
OpenResponse ==
  /\ consumer = "released"
  /\ consumer' \in {"reading", "abandoned"}
  /\ UNCHANGED <<producer, held, queue, gate, produced, delivered, completed, failed>>

Consume ==
  /\ consumer = "reading"
  /\ queue # <<>>
  /\ queue' = Tail(queue)
  /\ IF Head(queue) = End
     THEN consumer' = "finished" /\ UNCHANGED delivered
     ELSE delivered' = Append(delivered, Head(queue)) /\ UNCHANGED consumer
  /\ UNCHANGED <<producer, held, gate, produced, completed, failed>>

\* The client disconnects while it reads: the finally clause stops the producer.
CloseResponse ==
  /\ consumer = "reading"
  /\ consumer' = "closed"
  /\ producer' = Stopped
  /\ UNCHANGED <<held, queue, gate, produced, delivered, completed, failed>>

-----------------------------------------------------------------------------
StreamNext ==
  \/ StartStream \/ Put
  \/ \E c \in Chunks : (Pull(c) /\ UNCHANGED completed) \/ PullPastGate(c)
  \/ \E error \in BOOLEAN : Exhaust(error)
  \/ CancelStream
  \/ ReleaseStream \/ OpenResponse \/ Consume \/ CloseResponse

StreamSpec == StreamInit /\ [][StreamNext]_streamVars

-----------------------------------------------------------------------------
StreamTypeOK ==
  /\ producer \in ProducerStates
  /\ held \in Chunks \cup {End}
  /\ queue \in Seq(Chunks \cup {End})
  /\ gate \in BOOLEAN /\ completed \in BOOLEAN /\ failed \in BOOLEAN
  /\ consumer \in ConsumerStates
  /\ produced \in Seq(Chunks) /\ delivered \in Seq(Chunks)

\* However much the body yields before the decision, what waits for it is
\* bounded (speculative_stream.py, "Chunks remain in a bounded queue").
QueueBounded == Len(queue) <= MaxChunks

\* Nothing the planner has not released is seen or completed: neither a
\* chunk at the client nor a memory of the turn (speculative_stream.py, "A
\* separate release gate may be used").
NothingBeforeRelease == (delivered # <<>> \/ completed) => gate

\* What the client was sent, what waits in the queue and what is being put
\* is what the body yielded, in that order: no chunk is lost or overtaken.
Waiting == IF queue # <<>> /\ queue[Len(queue)] = End
           THEN SubSeq(queue, 1, Len(queue) - 1) ELSE queue
Putting == IF producer = "putting" /\ held # End THEN <<held>> ELSE <<>>

DeliveredInOrder ==
  producer # "cancelled" => produced = delivered \o Waiting \o Putting
=============================================================================
