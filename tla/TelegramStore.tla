---------------------------- MODULE TelegramStore ----------------------------
(***************************************************************************)
(* The durable state of the Telegram Bot gateway (telegram_store.py): one  *)
(* SQLite database, every operation one BEGIN IMMEDIATE transaction, hence *)
(* one action here.  Row ids are AUTOINCREMENT, so a table whose rows are  *)
(* never deleted is a sequence and a row id is an index of it.             *)
(*                                                                         *)
(* An operation that raises rolls back and leaves the state alone: it is   *)
(* an action that is not enabled.  Texts, timestamps and counters that no  *)
(* decision reads (attempts, started_at, last_error) are left out; the     *)
(* stored message text is identified by its update.                        *)
(***************************************************************************)
EXTENDS Naturals, Sequences

CONSTANTS
  Streams,        \* (chat_id, user_id) pairs: relationship streams
  MaxUpdates,     \* bound on Telegram update ids, which are 1 .. MaxUpdates
  Replies,        \* possible answers of the model
  NoReply,        \* response_text IS NULL
  ChunkCount,     \* number of pieces split_telegram_text makes of a reply
  MessageIds      \* message ids used when the store runs alone (StoreNext)

ASSUME StoreAssumption ==
  /\ MaxUpdates \in Nat
  /\ NoReply \notin Replies
  /\ ChunkCount \in [Replies -> Nat \ {0}]
  /\ MessageIds \subseteq Nat \ {0}

VARIABLES
  offset,         \* telegram_state.next_update_offset
  inbox,          \* telegram_updates and telegram_media, by update id
  jobs,           \* telegram_jobs, telegram_job_messages, telegram_delivery_chunks
  transcript      \* telegram_messages

storeVars == <<offset, inbox, jobs, transcript>>

UpdateIds == 1 .. MaxUpdates
Larger(m, n) == IF m >= n THEN m ELSE n

\* An update is unknown, stored without media, or stored with media that is
\* still to be downloaded or is ready.
InboxStatus == {"absent", "text", "pending", "ready"}

JobStatus == {"queued", "processing", "responded", "sending", "delivered"}

\* mid is the Telegram message id of a delivered chunk, 0 while it has none.
Chunk == [status : {"pending", "sending", "delivered"}, mid : Nat]

\* ready: the debounce time ready_at has passed.  batch[1] is the update that
\* created the job, the job row's own update_id.
Job == [stream   : Streams,
        batch    : Seq(UpdateIds),
        ready    : BOOLEAN,
        status   : JobStatus,
        response : Replies \cup {NoReply},
        chunks   : Seq(Chunk)]

\* What a message replies to (reply_to_message_id): nothing, the message of an
\* update, or the piece of an answer that Telegram shows under an id.
Target == [of : {"nothing", "update", "piece"}, id : Nat]
NoTarget == [of |-> "nothing", id |-> 0]

Entry == [role : {"user", "assistant"}, stream : Streams, update : UpdateIds, reply : Target]

StoreTypeOK ==
  /\ offset \in 0 .. MaxUpdates + 1
  /\ inbox \in [UpdateIds -> InboxStatus]
  /\ jobs \in Seq(Job)
  /\ transcript \in Seq(Entry)

StoreInit ==
  /\ offset = 0
  /\ inbox = [u \in UpdateIds |-> "absent"]
  /\ jobs = << >>
  /\ transcript = << >>

BatchSet(j) == {jobs[j].batch[i] : i \in DOMAIN jobs[j].batch}

-----------------------------------------------------------------------------
(* Inbound updates                                                         *)

\* The queued jobs of a stream.
QueuedJobs(s) == {j \in DOMAIN jobs : jobs[j].stream = s /\ jobs[j].status = "queued"}

NewJob(s, u) == [stream |-> s, batch |-> <<u>>, ready |-> FALSE,
                 status |-> "queued", response |-> NoReply, chunks |-> << >>]

\* Mutant: the update joins every queued job of the stream.
JoinBatchEvery(u, s) ==
  IF QueuedJobs(s) = {}
  THEN jobs' = Append(jobs, NewJob(s, u))
  ELSE jobs' = [j \in DOMAIN jobs |->
                  IF j \in QueuedJobs(s)
                  THEN [jobs[j] EXCEPT !.batch = Append(@, u), !.ready = FALSE]
                  ELSE jobs[j]]

\* Mutant: the update joins the oldest queued job.
JoinBatchOldest(u, s) ==
  \/ /\ QueuedJobs(s) = {}
     /\ jobs' = Append(jobs, NewJob(s, u))
  \/ \E j \in QueuedJobs(s) :
       /\ \A k \in QueuedJobs(s) : j <= k
       /\ jobs' = [jobs EXCEPT ![j] = [jobs[j] EXCEPT !.batch = Append(@, u),
                                                      !.ready = FALSE]]

\* A new update joins the newest queued job of its stream, whose debounce
\* starts again, or opens a job when the stream has none.
JoinBatch(u, s) ==
  \/ /\ QueuedJobs(s) = {}
     /\ jobs' = Append(jobs, NewJob(s, u))
  \/ \E j \in QueuedJobs(s) :
       /\ \A k \in QueuedJobs(s) : k <= j
       /\ jobs' = [jobs EXCEPT ![j] = [jobs[j] EXCEPT !.batch = Append(@, u),
                                                      !.ready = FALSE]]

AdvanceUpdateOffset(n) ==
  /\ offset' = Larger(offset, n)
  /\ UNCHANGED <<inbox, jobs, transcript>>

UserEntry(u, s, reply) == [role |-> "user", stream |-> s, update |-> u, reply |-> reply]

\* Mutant: only the first message of a batch enters the transcript.
EnqueueNewUpdateFirstOnly(u, s, hasMedia, reply) ==
  /\ inbox[u] = "absent"
  /\ inbox' = [inbox EXCEPT ![u] = IF hasMedia THEN "pending" ELSE "text"]
  /\ JoinBatch(u, s)
  /\ transcript' = IF QueuedJobs(s) # {} THEN transcript
                   ELSE Append(transcript, UserEntry(u, s, reply))
  /\ offset' = Larger(offset, u + 1)

EnqueueNewUpdate(u, s, hasMedia, reply) ==
  /\ inbox[u] = "absent"
  /\ inbox' = [inbox EXCEPT ![u] = IF hasMedia THEN "pending" ELSE "text"]
  /\ JoinBatch(u, s)
  /\ transcript' = Append(transcript, UserEntry(u, s, reply))
  /\ offset' = Larger(offset, u + 1)

\* enqueue_text_update: an update stored before only moves the offset.
EnqueueTextUpdate(u, s, hasMedia, reply) ==
  \/ EnqueueNewUpdate(u, s, hasMedia, reply)
  \/ inbox[u] # "absent" /\ AdvanceUpdateOffset(u + 1)

\* complete_media for the update get_pending_media returns, the oldest one.
PendingMedia == {u \in UpdateIds : inbox[u] = "pending"}

CompleteMedia(u) ==
  /\ u \in PendingMedia
  /\ \A v \in PendingMedia : u <= v
  /\ inbox' = [inbox EXCEPT ![u] = "ready"]
  /\ UNCHANGED <<offset, jobs, transcript>>

\* Time passes until the ready_at of a queued job.
DebounceElapses(j) ==
  /\ j \in DOMAIN jobs
  /\ ~jobs[j].ready
  /\ jobs' = [jobs EXCEPT ![j].ready = TRUE]
  /\ UNCHANGED <<offset, inbox, transcript>>

-----------------------------------------------------------------------------
(* Generation                                                              *)

MediaReady(j) == \A i \in DOMAIN jobs[j].batch : inbox[jobs[j].batch[i]] # "pending"

\* Mutant: a stream may generate two answers at once.
ClaimableBeside(j) == jobs[j].status = "queued" /\ jobs[j].ready /\ MediaReady(j)

Claimable(j) ==
  /\ jobs[j].status = "queued"
  /\ jobs[j].ready
  /\ MediaReady(j)
  /\ \A k \in DOMAIN jobs : jobs[k].stream = jobs[j].stream => jobs[k].status # "processing"

\* claim_next_job
ClaimJob(j) ==
  /\ j \in DOMAIN jobs
  /\ Claimable(j)
  /\ \A k \in DOMAIN jobs : Claimable(k) => j <= k
  /\ jobs' = [jobs EXCEPT ![j].status = "processing"]
  /\ UNCHANGED <<offset, inbox, transcript>>

AssistantEntry(j) == [role   |-> "assistant", stream |-> jobs[j].stream,
                      update |-> jobs[j].batch[1], reply |-> NoTarget]

\* save_response: the assistant entry and the job's answer in one
\* transaction.  Saving the same answer again changes nothing; a different
\* one raises.
SaveResponse(j, r) ==
  \/ /\ jobs[j].response = NoReply
     /\ transcript' = Append(transcript, AssistantEntry(j))
     /\ jobs' = [jobs EXCEPT ![j] = [@ EXCEPT !.response = r, !.status = "responded"]]
     /\ UNCHANGED <<offset, inbox>>
  \/ /\ jobs[j].response = r
     /\ UNCHANGED storeVars

-----------------------------------------------------------------------------
(* Delivery                                                                *)

PendingChunks(r) == [c \in 1 .. ChunkCount[r] |-> [status |-> "pending", mid |-> 0]]

\* The chunks of a job at its claim: made on the first claim, kept after it.
ClaimChunks(j) == IF jobs[j].chunks = << >> THEN PendingChunks(jobs[j].response)
                                            ELSE jobs[j].chunks

\* Mutant: any pending chunk may be sent.
ClaimDeliveryAny(j, c) ==
  /\ j \in DOMAIN jobs
  /\ jobs[j].status = "responded"
  /\ c \in DOMAIN ClaimChunks(j)
  /\ ClaimChunks(j)[c].status = "pending"
  /\ jobs' = [jobs EXCEPT ![j] =
                [@ EXCEPT !.chunks = [ClaimChunks(j) EXCEPT ![c].status = "sending"],
                          !.status = "sending"]]
  /\ UNCHANGED <<offset, inbox, transcript>>

\* claim_next_delivery: the first responded job and its first chunk that is
\* not delivered, which must be pending.
ClaimDelivery(j, c) ==
  /\ j \in DOMAIN jobs
  /\ jobs[j].status = "responded"
  /\ \A k \in DOMAIN jobs : jobs[k].status = "responded" => j <= k
  /\ c \in DOMAIN ClaimChunks(j)
  /\ ClaimChunks(j)[c].status = "pending"
  /\ \A d \in 1 .. c - 1 : ClaimChunks(j)[d].status = "delivered"
  /\ jobs' = [jobs EXCEPT ![j] =
                [@ EXCEPT !.chunks = [ClaimChunks(j) EXCEPT ![c].status = "sending"],
                          !.status = "sending"]]
  /\ UNCHANGED <<offset, inbox, transcript>>

\* mark_delivery_chunk_delivered with the message id m Telegram returned.
\* Marking again with the same id changes nothing; another id, or a chunk
\* that is not being sent, raises.
MarkChunkDelivered(j, c, m) ==
  \/ /\ jobs[j].chunks[c].status = "sending"
     /\ jobs' = [jobs EXCEPT ![j] =
           [@ EXCEPT !.chunks[c] = [status |-> "delivered", mid |-> m],
                     !.status = IF \A d \in DOMAIN jobs[j].chunks \ {c} :
                                     jobs[j].chunks[d].status = "delivered"
                                THEN "delivered" ELSE "responded"]]
     /\ UNCHANGED <<offset, inbox, transcript>>
  \/ /\ jobs[j].chunks[c] = [status |-> "delivered", mid |-> m]
     /\ UNCHANGED storeVars

-----------------------------------------------------------------------------
(* Startup                                                                 *)

RecoveredChunk(ch) == IF ch.status = "sending" THEN [ch EXCEPT !.status = "pending"] ELSE ch

\* Mutants: a job being sent is generated again; a job being generated is
\* forgotten.
RecoveredStatusRestart(st) == IF st \in {"processing", "sending"} THEN "queued" ELSE st
RecoveredStatusForgotten(st) == IF st = "sending" THEN "responded" ELSE st

RecoveredStatus(st) == CASE st = "processing" -> "queued"
                         [] st = "sending"    -> "responded"
                         [] OTHER             -> st

\* recover_incomplete_jobs, the part that is about jobs and chunks.
RecoverJobs ==
  /\ jobs' = [j \in DOMAIN jobs |->
                [jobs[j] EXCEPT
                   !.status = RecoveredStatus(@),
                   !.chunks = [c \in DOMAIN jobs[j].chunks |-> RecoveredChunk(jobs[j].chunks[c])]]]
  /\ UNCHANGED <<offset, inbox, transcript>>

-----------------------------------------------------------------------------
(***************************************************************************)
(* The store by itself, called in any order its callers' discipline        *)
(* allows: an answer or a confirmation is saved for work that was claimed, *)
(* possibly more than once, and startup recovery may fall anywhere.        *)
(***************************************************************************)
StoreNext ==
  \/ \E u \in UpdateIds, s \in Streams, hasMedia \in BOOLEAN, reply \in Target :
       EnqueueTextUpdate(u, s, hasMedia, reply)
  \/ \E u \in UpdateIds : AdvanceUpdateOffset(u + 1) \/ CompleteMedia(u)
  \/ \E j \in DOMAIN jobs :
       \/ DebounceElapses(j)
       \/ ClaimJob(j)
       \/ jobs[j].status # "queued" /\ \E r \in Replies : SaveResponse(j, r)
       \/ jobs[j].response # NoReply /\ \E c \in DOMAIN ClaimChunks(j) : ClaimDelivery(j, c)
       \/ \E c \in DOMAIN jobs[j].chunks, m \in MessageIds : MarkChunkDelivered(j, c, m)
  \/ RecoverJobs

StoreSpec == StoreInit /\ [][StoreNext]_storeVars

-----------------------------------------------------------------------------
(* What holds of the store however it is called                            *)

\* Every update the store took is in exactly one place of exactly one job's
\* batch: it is neither lost nor answered twice (enqueue_text_update).
OneBatchPerUpdate ==
  /\ \A u \in UpdateIds : inbox[u] # "absent" => \E j \in DOMAIN jobs : u \in BatchSet(j)
  /\ \A j, k \in DOMAIN jobs : \A a \in DOMAIN jobs[j].batch, b \in DOMAIN jobs[k].batch :
       jobs[j].batch[a] = jobs[k].batch[b] => j = k /\ a = b

\* No job of a stream is being answered, or was answered, before every
\* earlier job of the stream has its answer: the context of an answer never
\* misses the answer to an earlier message (claim_next_job).
AnsweredInOrder ==
  \A j, k \in DOMAIN jobs :
    (j < k /\ jobs[j].stream = jobs[k].stream /\ jobs[k].status # "queued")
      => jobs[j].response # NoReply

\* The delivered pieces of an answer come first, at most one piece is being
\* sent and then the job is "sending", and a job is "delivered" when all its
\* pieces are (claim_next_delivery, mark_delivery_chunk_delivered, recovery).
ChunksMatchStatus ==
  \A j \in DOMAIN jobs :
    LET Are(st) == {c \in DOMAIN jobs[j].chunks : jobs[j].chunks[c].status = st}
    IN  /\ \A c \in DOMAIN jobs[j].chunks : \A d \in 1 .. c - 1 :
             jobs[j].chunks[c].status # "pending" => jobs[j].chunks[d].status = "delivered"
        /\ jobs[j].status = "sending" <=> Are("sending") # {}
        /\ jobs[j].status = "delivered" <=>
             jobs[j].chunks # << >> /\ Are("delivered") = DOMAIN jobs[j].chunks

\* A confirmed piece keeps its message id, through which replies to it are
\* resolved, and an answer keeps its text, whatever is called again.
ConfirmedIsFinal ==
  [][\A j \in DOMAIN jobs :
       /\ jobs[j].response # NoReply => jobs'[j].response = jobs[j].response
       /\ \A c \in DOMAIN jobs[j].chunks : jobs[j].chunks[c].status = "delivered" =>
            jobs'[j].chunks[c] = jobs[j].chunks[c]]_storeVars
=============================================================================
