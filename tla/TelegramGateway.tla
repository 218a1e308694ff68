--------------------------- MODULE TelegramGateway ---------------------------
(***************************************************************************)
(* The running Telegram Bot gateway: the polling, generation and delivery  *)
(* loops of telegram_runtime.py, one run_..._once at a time, around the    *)
(* durable store; Telegram's servers and Kven's chat route, which are      *)
(* external; crashes of the process at any point and its startup recovery. *)
(*                                                                         *)
(* The three loops are asyncio tasks: every store call and every HTTP call *)
(* is an await, so any step of one may fall between two steps of another.  *)
(* An exception ends the iteration of a loop, which starts over after      *)
(* error_delay.                                                            *)
(***************************************************************************)
EXTENDS TelegramCheckpoints

CONSTANTS
  Allowable,      \* values TELEGRAM_ALLOWED_USER_ID may have, as streams
  Kinds,          \* kinds of updates Telegram hands out, see UpdateKinds
  ReplyKinds,     \* what updates may reply to
  FaultyRuns,     \* the first runs of the process, in which calls may fail
  MaxRestarts     \* bound on process starts after the first

UpdateKinds == {"text", "image", "unsupported", "malformed"}

ASSUME GatewayAssumption ==
  /\ Allowable \subseteq Streams
  /\ Kinds \subseteq UpdateKinds
  /\ ReplyKinds \subseteq {"update", "piece"}
  /\ FaultyRuns \in Nat
  /\ MaxRestarts \in Nat

VARIABLES
  updates,        \* Telegram: the updates of the bot, in order of update id
  shown,          \* Telegram: the messages the owner was sent, id = index
  up,             \* the process runs
  allowed,        \* TELEGRAM_ALLOWED_USER_ID of this process
  poll,           \* polling loop: fetched updates not ingested yet
  gen,            \* generation loop: what it is working on
  delivery,       \* delivery loop: the claimed chunk and Telegram's answer
  restarts        \* number of starts after the first

processVars == <<up, allowed, poll, gen, delivery, restarts>>
vars == <<dbVars, updates, shown, processVars>>

\* Whether the model and Telegram may fail to answer in this run.
CallsMayFail == restarts < FaultyRuns

Idle == [pc |-> "idle"]
PollIdle == [pc |-> "idle", batch |-> {}]

GenStates == {Idle} \cup [pc : {"looking"}]
                    \cup [pc : {"generating"}, job : DOMAIN jobs]
                    \cup [pc : {"compacting"}, checkpoint : DOMAIN checkpoints]

DeliveryStates == {Idle} \cup [pc : {"claimed"}, job : DOMAIN jobs, chunk : Nat]
                         \cup [pc : {"sent"}, job : DOMAIN jobs, chunk : Nat, mid : DOMAIN shown]

TypeOK ==
  /\ CheckpointsTypeOK
  /\ updates \in Seq([stream : Streams, kind : UpdateKinds, reply : Target])
  /\ Len(updates) <= MaxUpdates
  /\ shown \in Seq([job : Nat, chunk : Nat, reply : Replies])
  /\ up \in BOOLEAN
  /\ allowed \in Streams
  /\ poll \in [pc : {"idle", "busy"}, batch : SUBSET UpdateIds]
  /\ gen \in GenStates
  /\ delivery \in DeliveryStates
  /\ restarts \in 0 .. MaxRestarts

Init ==
  /\ StoreInit
  /\ checkpoints = << >>
  /\ updates = << >>
  /\ shown = << >>
  /\ up = FALSE
  /\ allowed \in Allowable
  /\ poll = PollIdle
  /\ gen = Idle
  /\ delivery = Idle
  /\ restarts = 0

-----------------------------------------------------------------------------
(* Telegram's side: someone writes to the bot                              *)

\* The messages of stream s one may reply to: earlier ones of the user, and
\* pieces the user was shown, confirmed or not.
Repliable(s) ==
  {NoTarget}
  \cup [of : ReplyKinds \cap {"update"}, id : {u \in 1 .. Len(updates) : updates[u].stream = s}]
  \cup [of : ReplyKinds \cap {"piece"}, id : {m \in DOMAIN shown : jobs[shown[m].job].stream = s}]

UserSends(s, kind, reply) ==
  /\ Len(updates) < MaxUpdates
  /\ updates' = Append(updates, [stream |-> s, kind |-> kind, reply |-> reply])
  /\ UNCHANGED <<dbVars, shown, processVars>>

-----------------------------------------------------------------------------
(* Polling loop: run_polling_once                                          *)

\* Mutant: a fetched batch is acknowledged before it is stored.
PollFetchAcknowledges ==
  /\ up
  /\ poll.pc = "idle"
  /\ poll' = [pc |-> "busy", batch |-> {u \in 1 .. Len(updates) : u >= offset}]
  /\ offset' = Larger(offset, Len(updates) + 1)
  /\ UNCHANGED <<inbox, jobs, transcript, checkpoints, updates, shown,
                 up, allowed, gen, delivery, restarts>>

\* getUpdates from the stored offset; an empty answer goes straight to the
\* pending media.
PollFetch ==
  /\ up
  /\ poll.pc = "idle"
  /\ poll' = [pc |-> "busy", batch |-> {u \in 1 .. Len(updates) : u >= offset}]
  /\ UNCHANGED <<dbVars, updates, shown, up, allowed, gen, delivery, restarts>>

NextPolled(u) == u \in poll.batch /\ \A v \in poll.batch : u <= v

Ingested(u) ==
  /\ poll' = [poll EXCEPT !.batch = @ \ {u}]
  /\ UNCHANGED <<checkpoints, updates, shown, up, allowed, gen, delivery, restarts>>

\* A text or an image of the allowed user.
PollAccept(u) ==
  /\ up
  /\ NextPolled(u)
  /\ updates[u].stream = allowed
  /\ updates[u].kind \in {"text", "image"}
  /\ EnqueueTextUpdate(u, allowed, updates[u].kind = "image", updates[u].reply)
  /\ Ingested(u)

\* Anything else is skipped, but for good: the offset moves past it.
PollIgnore(u) ==
  /\ up
  /\ NextPolled(u)
  /\ updates[u].stream # allowed \/ updates[u].kind = "unsupported"
  /\ AdvanceUpdateOffset(u + 1)
  /\ Ingested(u)

PollAborted ==
  /\ poll' = PollIdle
  /\ UNCHANGED <<dbVars, updates, shown, up, allowed, gen, delivery, restarts>>

\* TelegramUpdateError leaves run_polling_once: the offset stays before the
\* update, the rest of the batch and the pending media wait.
PollMalformed(u) ==
  /\ up
  /\ NextPolled(u)
  /\ updates[u].stream = allowed
  /\ updates[u].kind = "malformed"
  /\ PollAborted

\* getFile and download of the oldest pending media.
PollDownload(u) ==
  /\ up
  /\ poll.pc = "busy" /\ poll.batch = {}
  /\ CompleteMedia(u)
  /\ UNCHANGED <<checkpoints, updates, shown, processVars>>

PollDownloadFails ==
  /\ up
  /\ CallsMayFail
  /\ poll.pc = "busy" /\ poll.batch = {}
  /\ PendingMedia # {}
  /\ PollAborted

PollEnds ==
  /\ up
  /\ poll.pc = "busy" /\ poll.batch = {}
  /\ PendingMedia = {}
  /\ PollAborted

-----------------------------------------------------------------------------
(* Generation loop: run_generation_once                                    *)

\* claim_next_job
GenClaim(j) ==
  /\ up
  /\ gen = Idle
  /\ ClaimJob(j)
  /\ gen' = [pc |-> "generating", job |-> j]
  /\ UNCHANGED <<checkpoints, updates, shown, up, allowed, poll, delivery, restarts>>

\* Kven answers with r and the answer is saved.
GenReply(r) ==
  /\ up
  /\ gen.pc = "generating"
  /\ SaveResponse(gen.job, r)
  /\ gen' = Idle
  /\ UNCHANGED <<checkpoints, updates, shown, up, allowed, poll, delivery, restarts>>

\* Building the context, the chat request or the save raises: nothing
\* gives the claimed job back.
GenFails ==
  /\ up
  /\ CallsMayFail
  /\ gen.pc = "generating"
  /\ gen' = Idle
  /\ UNCHANGED <<dbVars, updates, shown, up, allowed, poll, delivery, restarts>>

\* claim_next_job returns None; a job may become claimable before the loop
\* asks for a compaction.
GenFindsNoJob ==
  /\ up
  /\ gen = Idle
  /\ \A j \in DOMAIN jobs : ~Claimable(j)
  /\ gen' = [pc |-> "looking"]
  /\ UNCHANGED <<dbVars, updates, shown, up, allowed, poll, delivery, restarts>>

GenFindsNothing ==
  /\ up
  /\ gen.pc = "looking"
  /\ NothingToCompact
  /\ gen' = Idle
  /\ UNCHANGED <<dbVars, updates, shown, up, allowed, poll, delivery, restarts>>

GenClaimCompaction(c) ==
  /\ up
  /\ gen.pc = "looking"
  /\ ClaimCompaction(c)
  /\ gen' = [pc |-> "compacting", checkpoint |-> c]
  /\ UNCHANGED <<updates, shown, up, allowed, poll, delivery, restarts>>

\* The model's output validates.
GenCompactionValid ==
  /\ up
  /\ gen.pc = "compacting"
  /\ CompleteCompaction(gen.checkpoint)
  /\ gen' = Idle
  /\ UNCHANGED <<updates, shown, up, allowed, poll, delivery, restarts>>

\* The model call fails, or its output does not validate.
GenCompactionInvalid ==
  /\ up
  /\ CallsMayFail
  /\ gen.pc = "compacting"
  /\ FailCompaction(gen.checkpoint)
  /\ gen' = Idle
  /\ UNCHANGED <<updates, shown, up, allowed, poll, delivery, restarts>>

-----------------------------------------------------------------------------
(* Delivery loop: run_delivery_once                                        *)

DeliverClaim(j) ==
  /\ up
  /\ delivery = Idle
  /\ jobs[j].status = "responded"
  /\ \E c \in DOMAIN ClaimChunks(j) :
       /\ ClaimDelivery(j, c)
       /\ delivery' = [pc |-> "claimed", job |-> j, chunk |-> c]
  /\ UNCHANGED <<checkpoints, updates, shown, up, allowed, poll, gen, restarts>>

Show(d) == shown' = Append(shown, [job |-> d.job, chunk |-> d.chunk,
                                   reply |-> jobs[d.job].response])

\* sendMessage returns the id of the new message.
DeliverSend ==
  /\ up
  /\ delivery.pc = "claimed"
  /\ Show(delivery)
  /\ delivery' = [pc |-> "sent", job |-> delivery.job, chunk |-> delivery.chunk,
                  mid |-> Len(shown) + 1]
  /\ UNCHANGED <<dbVars, updates, up, allowed, poll, gen, restarts>>

\* sendMessage raises, before or after Telegram took the message: nothing
\* gives the claimed chunk back.
DeliverSendFails ==
  /\ up
  /\ CallsMayFail
  /\ delivery.pc = "claimed"
  /\ Show(delivery) \/ UNCHANGED shown
  /\ delivery' = Idle
  /\ UNCHANGED <<dbVars, updates, up, allowed, poll, gen, restarts>>

DeliverMark ==
  /\ up
  /\ delivery.pc = "sent"
  /\ MarkChunkDelivered(delivery.job, delivery.chunk, delivery.mid)
  /\ delivery' = Idle
  /\ UNCHANGED <<checkpoints, updates, shown, up, allowed, poll, gen, restarts>>

-----------------------------------------------------------------------------
(* The process                                                             *)

\* init and recover_incomplete_jobs run before the loops are started.
Start ==
  /\ ~up
  /\ up' = TRUE
  /\ allowed' \in Allowable
  /\ RecoverJobs
  /\ RecoverCheckpoints
  /\ UNCHANGED <<updates, shown, poll, gen, delivery, restarts>>

\* A crash, or a stop that cancels the three tasks wherever they are.
Crash ==
  /\ up
  /\ restarts < MaxRestarts
  /\ restarts' = restarts + 1
  /\ up' = FALSE
  /\ poll' = PollIdle
  /\ gen' = Idle
  /\ delivery' = Idle
  /\ UNCHANGED <<dbVars, updates, shown, allowed>>

Debounce(j) ==
  /\ DebounceElapses(j)
  /\ UNCHANGED <<checkpoints, updates, shown, processVars>>

PollStep ==
  \/ PollFetch
  \/ \E u \in UpdateIds : PollAccept(u) \/ PollIgnore(u) \/ PollMalformed(u) \/ PollDownload(u)
  \/ PollDownloadFails
  \/ PollEnds

GenStep ==
  \/ \E j \in DOMAIN jobs : GenClaim(j)
  \/ \E r \in Replies : GenReply(r)
  \/ GenFails
  \/ GenFindsNoJob
  \/ GenFindsNothing
  \/ \E c \in 1 .. Len(checkpoints) + 1 : GenClaimCompaction(c)
  \/ GenCompactionValid
  \/ GenCompactionInvalid

DeliverStep ==
  \/ \E j \in DOMAIN jobs : DeliverClaim(j)
  \/ DeliverSend
  \/ DeliverSendFails
  \/ DeliverMark

Next ==
  \/ \E s \in Streams, kind \in Kinds : \E reply \in Repliable(s) : UserSends(s, kind, reply)
  \/ PollStep
  \/ GenStep
  \/ DeliverStep
  \/ \E j \in DOMAIN jobs : Debounce(j)
  \/ Start
  \/ Crash

Spec == Init /\ [][Next]_vars

\* Each loop runs on while the process is up, the clock advances, and a
\* process that went down is started again (systemd).
Fairness ==
  /\ WF_vars(PollStep)
  /\ WF_vars(GenStep)
  /\ WF_vars(DeliverStep)
  /\ WF_vars(\E j \in DOMAIN jobs : Debounce(j))
  /\ WF_vars(Start)

FairSpec == Spec /\ Fairness

\* The operator restarts a process whose calls may have failed.
RestartedSpec == FairSpec /\ WF_vars(CallsMayFail /\ Crash)

-----------------------------------------------------------------------------
(* Safety                                                                  *)

\* Nothing the owner wrote is acknowledged to Telegram, which then forgets
\* it, before it is stored; stated where the allowlist never changes.
NothingSkipped ==
  \A u \in 1 .. Len(updates) :
    (u < offset /\ Allowable = {updates[u].stream} /\ updates[u].kind \in {"text", "image"})
      => inbox[u] # "absent"

\* A stream's updates are batched in the order they came, across jobs,
\* restarts and late media.
BatchesInArrivalOrder ==
  \A j, k \in DOMAIN jobs : jobs[j].stream = jobs[k].stream =>
    \A a \in DOMAIN jobs[j].batch, b \in DOMAIN jobs[k].batch :
      j < k \/ (j = k /\ a < b) => jobs[j].batch[a] < jobs[k].batch[b]

\* The transcript has one user entry per stored update and one assistant
\* entry per answered job, after everything it answers
\* (docs/TELEGRAM_OWNER_CONTINUITY.md).
TranscriptMatchesJobs ==
  LET UserRows(u)      == {i \in DOMAIN transcript :
                             transcript[i].role = "user" /\ transcript[i].update = u}
      AssistantRows(j) == {i \in DOMAIN transcript :
                             transcript[i].role = "assistant"
                             /\ transcript[i].update = jobs[j].batch[1]}
  IN  /\ \A u \in UpdateIds : Cardinality(UserRows(u)) = IF inbox[u] = "absent" THEN 0 ELSE 1
      /\ \A j \in DOMAIN jobs :
           Cardinality(AssistantRows(j)) = IF jobs[j].response = NoReply THEN 0 ELSE 1
      /\ \A j \in DOMAIN jobs : \A u \in BatchSet(j) :
           \A i \in AssistantRows(j), k \in UserRows(u) : k < i

\* What the owner reads is the saved answer, so nothing is sent before it is
\* durable and nothing sent is generated again.  Its pieces come in order,
\* repetitions being of the piece just read and paid for by a restart each,
\* and a delivered answer was shown whole.
ShownIsSaved ==
  /\ \A m \in DOMAIN shown : shown[m].reply = jobs[shown[m].job].response
  /\ \A m, n \in DOMAIN shown :
       m < n /\ shown[m].job = shown[n].job => shown[m].chunk <= shown[n].chunk
  /\ \A m \in DOMAIN shown :
       Cardinality({n \in DOMAIN shown : shown[n].job = shown[m].job
                                         /\ shown[n].chunk = shown[m].chunk}) <= restarts + 1
  /\ \A j \in DOMAIN jobs : jobs[j].status = "delivered" =>
       \A c \in 1 .. ChunkCount[jobs[j].response] :
         \E m \in DOMAIN shown : shown[m].job = j /\ shown[m].chunk = c

\* A pending or active checkpoint never covers a message still to be
\* answered, although jobs arrive and recover while it is made.
CheckpointSparesOpenTurns ==
  \A c \in DOMAIN checkpoints : checkpoints[c].status \in {"pending", "active"} =>
    \A j \in DOMAIN jobs :
      (jobs[j].stream = checkpoints[c].stream /\ jobs[j].status \in {"queued", "processing"})
        => \A i \in CurrentRows(j) : checkpoints[c].end < i

\* One active and one pending checkpoint per stream: the partial unique
\* indexes of the schema never fail a transaction.
CheckpointsUnique ==
  \A b, c \in DOMAIN checkpoints :
    /\ checkpoints[b].stream = checkpoints[c].stream
    /\ checkpoints[b].status = checkpoints[c].status
    /\ checkpoints[b].status \in {"pending", "active"}
    => b = c

\* Checkpoints keep apart from open turns and from each other.
CheckpointsKeepApart == CheckpointSparesOpenTurns /\ CheckpointsUnique

\* A compaction leaves the newest TailReserve entries exact
\* (docs/TELEGRAM_CONTEXT_COMPACTION.md, "Lifecycle, scheduling, and fallback"),
\* which the code ensures where TriggerEntries is not below TailReserve.
ReserveStaysExact ==
  \A c \in DOMAIN checkpoints :
    Cardinality({i \in Rows(checkpoints[c].stream) : i > checkpoints[c].end}) >= TailReserve

\* No piece of an answer reaches the owner twice
\* (docs/TELEGRAM_OWNER_CONTINUITY.md, deployment checklist, step 5).
NoDuplicateAnswer ==
  \A m, n \in DOMAIN shown :
    shown[m].job = shown[n].job /\ shown[m].chunk = shown[n].chunk => m = n

-----------------------------------------------------------------------------
(* Action properties                                                       *)

\* An answer, once saved, and the batch it answers are final, whatever
\* restarts, late calls and later messages do.
AnswersAreFinal ==
  [][\A j \in DOMAIN jobs : jobs[j].response # NoReply =>
       /\ jobs'[j].response = jobs[j].response
       /\ jobs'[j].batch = jobs[j].batch
       /\ jobs'[j].status \notin {"queued", "processing"}]_vars

\* The delivery loop confirms a piece that a message of the batch of the job
\* being generated replies to.
ConfirmsTarget ==
  /\ delivery.pc = "sent"
  /\ delivery' = Idle
  /\ \E i \in CurrentRows(gen.job) :
       transcript[i].reply = [of |-> "piece", id |-> delivery.mid]

\* The row of stream s that holds the answer of job j.
AnswerRows(s, j) == {i \in Rows(s) : /\ transcript[i].role = "assistant"
                                    /\ transcript[i].update = jobs[j].batch[1]}

\* The context is read in a transaction of its own, after the claim.  The moment
\* of that read decides one thing only: whether an answer that the batch replies
\* to, shown but not confirmed at the claim, is among the references.  Nothing
\* else that the other loops do meanwhile shows in the context.
ContextStable ==
  [][gen.pc = "generating" /\ gen' = gen =>
       \/ GenerationContext(gen.job)' = GenerationContext(gen.job)
       \/ /\ ConfirmsTarget
          /\ CoveredEnd(jobs[gen.job].stream)' = CoveredEnd(jobs[gen.job].stream)
          /\ CurrentRows(gen.job)' = CurrentRows(gen.job)
          /\ References(gen.job)' =
               References(gen.job) \cup AnswerRows(jobs[gen.job].stream, delivery.job)]_vars

\* The context of the job being generated never changes: untrue of the code,
\* see ContextStable.
ContextFixed ==
  [][gen.pc = "generating" /\ gen' = gen =>
       GenerationContext(gen.job)' = GenerationContext(gen.job)]_vars

\* The active checkpoint is only ever replaced by one that covers more.
CoverageGrows == [][\A s \in Streams : CoveredEnd(s)' >= CoveredEnd(s)]_vars

-----------------------------------------------------------------------------
(* Liveness                                                                *)

Answered(u) == \E j \in DOMAIN jobs : u \in BatchSet(j) /\ jobs[j].status = "delivered"

\* A malformed message of the owner stops polling for good: what comes after it
\* is not read, and images before it are not downloaded.
PollingStopsAt(v) == updates[v].stream \in Allowable /\ updates[v].kind = "malformed"

Unreachable(u) ==
  \E v \in 1 .. Len(updates) :
    /\ PollingStopsAt(v)
    /\ v < u \/ \E w \in 1 .. v : updates[w].kind = "image"

\* Whatever the owner writes is answered and the answer delivered, unless
\* polling stops before it is complete.
EveryMessageAnswered ==
  \A u \in UpdateIds :
    (u <= Len(updates) /\ Allowable = {updates[u].stream} /\ updates[u].kind \in {"text", "image"})
      ~> Answered(u) \/ Unreachable(u)
=============================================================================
