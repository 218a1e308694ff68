------------------------- MODULE TelegramStore_proofs -------------------------
(***************************************************************************)
(* In whatever order the store's transactions are called, every stored     *)
(* update is in exactly one batch and every stream is answered in order.   *)
(***************************************************************************)
EXTENDS TelegramStore, SequenceTheorems, TLAPS

-----------------------------------------------------------------------------
(* The inductive invariant                                                 *)

\* The job may be claimed as far as the debounce and its media go.
Settled(j) == jobs[j].ready /\ MediaReady(j)

BatchesStored ==
  \A j \in DOMAIN jobs :
    /\ jobs[j].batch # << >>
    /\ \A i \in DOMAIN jobs[j].batch : inbox[jobs[j].batch[i]] # "absent"

AnsweredStatus ==
  \A j \in DOMAIN jobs :
    jobs[j].response # NoReply <=> jobs[j].status \in {"responded", "sending", "delivered"}

ChunksAnswered == \A j \in DOMAIN jobs : jobs[j].chunks # << >> => jobs[j].response # NoReply

ClaimedSettled == \A j \in DOMAIN jobs : jobs[j].status # "queued" => Settled(j)

\* Only the newest job of a stream can still be waiting for its debounce or
\* for media.  This is what makes the lowest claimable job the oldest one.
EarlierSettled ==
  \A j, k \in DOMAIN jobs : j < k /\ jobs[j].stream = jobs[k].stream => Settled(j)

StoreInv ==
  /\ StoreTypeOK
  /\ BatchesStored
  /\ AnsweredStatus
  /\ ChunksAnswered
  /\ ClaimedSettled
  /\ EarlierSettled
  /\ AnsweredInOrder
  /\ OneBatchPerUpdate

-----------------------------------------------------------------------------
(* What a transaction never undoes                                         *)

\* No row goes away; an answer, what it answers and its confirmed pieces
\* are final.
Progress ==
  /\ DOMAIN jobs \subseteq DOMAIN jobs'
  /\ DOMAIN transcript \subseteq DOMAIN transcript'
  /\ \A k \in DOMAIN jobs :
       /\ DOMAIN jobs[k].chunks \subseteq DOMAIN jobs'[k].chunks
       /\ jobs[k].response # NoReply =>
            jobs'[k].response = jobs[k].response /\ jobs'[k].batch = jobs[k].batch
       /\ \A c \in DOMAIN jobs[k].chunks :
            jobs[k].chunks[c].status = "delivered" => jobs'[k].chunks[c] = jobs[k].chunks[c]

\* Only startup recovery queues a job again.
StaysClaimed == \A k \in DOMAIN jobs : jobs[k].status # "queued" => jobs'[k].status # "queued"

-----------------------------------------------------------------------------
(* How a transaction changes the job table                                 *)

LEMMA JobsTyped ==
  ASSUME StoreTypeOK
  PROVE  /\ Len(jobs) \in Nat
         /\ DOMAIN jobs = 1 .. Len(jobs)
         /\ \A j \in DOMAIN jobs :
              /\ jobs[j] \in Job
              /\ jobs[j].batch \in Seq(UpdateIds)
              /\ DOMAIN jobs[j].batch = 1 .. Len(jobs[j].batch)
              /\ Len(jobs[j].batch) \in Nat
              /\ \A i \in DOMAIN jobs[j].batch : jobs[j].batch[i] \in UpdateIds
<1>1. jobs \in Seq(Job)
  BY DEF StoreTypeOK
<1>2. Len(jobs) \in Nat /\ DOMAIN jobs = 1 .. Len(jobs)
  BY <1>1, LenProperties
<1>3. ASSUME NEW j \in DOMAIN jobs
      PROVE  jobs[j] \in Job /\ jobs[j].batch \in Seq(UpdateIds)
  <2>1. jobs[j] \in Job
    BY <1>1, <1>2, ElementOfSeq
  <2> QED
    BY <2>1 DEF Job
<1>4. ASSUME NEW j \in DOMAIN jobs
      PROVE  /\ DOMAIN jobs[j].batch = 1 .. Len(jobs[j].batch)
             /\ Len(jobs[j].batch) \in Nat
             /\ \A i \in DOMAIN jobs[j].batch : jobs[j].batch[i] \in UpdateIds
  <2>1. jobs[j].batch \in Seq(UpdateIds)
    BY <1>3
  <2> QED
    BY <2>1, LenProperties, ElementOfSeq
<1> QED
  BY <1>2, <1>3, <1>4

LEMMA UpdatedJob ==
  ASSUME StoreTypeOK, NEW j \in DOMAIN jobs, NEW e \in Job,
         jobs' = [jobs EXCEPT ![j] = e]
  PROVE  /\ jobs' \in Seq(Job)
         /\ DOMAIN jobs' = DOMAIN jobs
         /\ jobs'[j] = e
         /\ \A k \in DOMAIN jobs : k # j => jobs'[k] = jobs[k]
<1>1. jobs \in Seq(Job) /\ j \in 1 .. Len(jobs) /\ DOMAIN jobs = 1 .. Len(jobs)
  BY JobsTyped DEF StoreTypeOK
<1> QED
  BY <1>1, ExceptSeq, LenProperties

LEMMA AppendedJob ==
  ASSUME StoreTypeOK, NEW e \in Job, jobs' = Append(jobs, e)
  PROVE  /\ jobs' \in Seq(Job)
         /\ DOMAIN jobs' = DOMAIN jobs \cup {Len(jobs) + 1}
         /\ jobs'[Len(jobs) + 1] = e
         /\ \A k \in DOMAIN jobs : jobs'[k] = jobs[k] /\ k < Len(jobs) + 1
<1>1. jobs \in Seq(Job) /\ DOMAIN jobs = 1 .. Len(jobs) /\ Len(jobs) \in Nat
  BY JobsTyped DEF StoreTypeOK
<1> QED
  BY <1>1

LEMMA EmptyDomain == DOMAIN << >> = {}
OBVIOUS

LEMMA AppendedEntry ==
  ASSUME StoreTypeOK, NEW row, transcript' = Append(transcript, row)
  PROVE  DOMAIN transcript \subseteq DOMAIN transcript'
BY DEF StoreTypeOK

-----------------------------------------------------------------------------
(* Transactions that leave batches and streams alone                       *)

SameBatches ==
  /\ DOMAIN jobs' = DOMAIN jobs
  /\ \A k \in DOMAIN jobs : /\ jobs'[k].stream = jobs[k].stream
                            /\ jobs'[k].batch = jobs[k].batch
                            /\ jobs[k].ready => jobs'[k].ready
  /\ \A u \in UpdateIds : /\ inbox'[u] = "absent" <=> inbox[u] = "absent"
                          /\ inbox'[u] = "pending" => inbox[u] = "pending"

LEMMA SettledStays ==
  ASSUME StoreInv, SameBatches, NEW j \in DOMAIN jobs, Settled(j)
  PROVE  Settled(j)'
<1>1. \A i \in DOMAIN jobs[j].batch : jobs[j].batch[i] \in UpdateIds
  BY JobsTyped DEF StoreInv
<1> QED
  BY <1>1 DEF Settled, MediaReady, SameBatches

LEMMA SameBatchesInv ==
  ASSUME StoreInv, SameBatches
  PROVE  /\ BatchesStored'
         /\ EarlierSettled'
         /\ OneBatchPerUpdate'
<1>0. \A j \in DOMAIN jobs : \A i \in DOMAIN jobs[j].batch : jobs[j].batch[i] \in UpdateIds
  BY JobsTyped DEF StoreInv
<1>1. BatchesStored'
  BY <1>0 DEF StoreInv, SameBatches, BatchesStored
<1>2. EarlierSettled'
  <2> SUFFICES ASSUME NEW j \in DOMAIN jobs, NEW k \in DOMAIN jobs,
                      j < k, jobs[j].stream = jobs[k].stream
               PROVE  Settled(j)'
    BY DEF EarlierSettled, SameBatches
  <2>1. Settled(j)
    BY DEF StoreInv, EarlierSettled
  <2> QED
    BY <2>1, SettledStays
<1>3. OneBatchPerUpdate'
  <2>1. \A j \in DOMAIN jobs : BatchSet(j)' = BatchSet(j)
    BY DEF BatchSet, SameBatches
  <2>2. \A u \in UpdateIds : inbox'[u] # "absent" => \E j \in DOMAIN jobs : u \in BatchSet(j)
    BY DEF StoreInv, OneBatchPerUpdate, SameBatches
  <2>3. \A u \in UpdateIds : inbox'[u] # "absent" => \E j \in DOMAIN jobs' : u \in BatchSet(j)'
    BY <2>1, <2>2 DEF SameBatches
  <2>4. \A j, k \in DOMAIN jobs : \A a \in DOMAIN jobs[j].batch, b \in DOMAIN jobs[k].batch :
          jobs[j].batch[a] = jobs[k].batch[b] => j = k /\ a = b
    BY DEF StoreInv, OneBatchPerUpdate
  <2> QED
    BY <2>3, <2>4 DEF OneBatchPerUpdate, SameBatches
<1> QED
  BY <1>1, <1>2, <1>3

\* A transaction on one job that keeps its batch and does not claim it.
LEMMA OneJobInv ==
  ASSUME StoreInv, SameBatches, NEW j \in DOMAIN jobs,
         \A k \in DOMAIN jobs : k # j => jobs'[k] = jobs[k],
         jobs'[j].response # NoReply <=> jobs'[j].status \in {"responded", "sending", "delivered"},
         jobs'[j].chunks # << >> => jobs'[j].response # NoReply,
         jobs[j].response # NoReply => jobs'[j].response # NoReply,
         jobs[j].status = "queued" => jobs'[j].status = "queued"
  PROVE  AnsweredStatus' /\ ChunksAnswered' /\ ClaimedSettled' /\ AnsweredInOrder'
<1>1. AnsweredStatus' /\ ChunksAnswered'
  BY DEF StoreInv, AnsweredStatus, ChunksAnswered, SameBatches
<1>2. ClaimedSettled'
  <2> SUFFICES ASSUME NEW k \in DOMAIN jobs, jobs'[k].status # "queued"
               PROVE  Settled(k)'
    BY DEF ClaimedSettled, SameBatches
  <2>1. jobs[k].status # "queued"
    OBVIOUS
  <2>2. Settled(k)
    BY <2>1 DEF StoreInv, ClaimedSettled
  <2> QED
    BY <2>2, SettledStays
<1>3. AnsweredInOrder'
  <2> SUFFICES ASSUME NEW i \in DOMAIN jobs, NEW k \in DOMAIN jobs,
                      i < k, jobs[i].stream = jobs[k].stream, jobs'[k].status # "queued"
               PROVE  jobs'[i].response # NoReply
    BY DEF AnsweredInOrder, SameBatches
  <2>1. jobs[k].status # "queued"
    OBVIOUS
  <2>2. jobs[i].response # NoReply
    BY <2>1 DEF StoreInv, AnsweredInOrder
  <2> QED
    BY <2>2
<1> QED
  BY <1>1, <1>2, <1>3

-----------------------------------------------------------------------------
(* Each transaction on one claimed or recovered job                        *)

LEMMA ClaimChunksTyped ==
  ASSUME StoreTypeOK, NEW j \in DOMAIN jobs, jobs[j].response # NoReply
  PROVE  ClaimChunks(j) \in Seq(Chunk)
<1>1. jobs[j].response \in Replies /\ jobs[j].chunks \in Seq(Chunk)
  BY JobsTyped DEF Job
<1>2. ChunkCount[jobs[j].response] \in Nat
  BY <1>1, StoreAssumption
<1>3. PendingChunks(jobs[j].response) \in [1 .. ChunkCount[jobs[j].response] -> Chunk]
  BY DEF PendingChunks, Chunk
<1>4. PendingChunks(jobs[j].response) \in Seq(Chunk)
  BY <1>2, <1>3, SeqDef
<1> QED
  BY <1>1, <1>4 DEF ClaimChunks

LEMMA StutterInv ==
  ASSUME StoreInv, UNCHANGED storeVars
  PROVE  StoreInv' /\ Progress /\ StaysClaimed
BY DEF Progress, StaysClaimed, storeVars, StoreInv, StoreTypeOK, BatchesStored, AnsweredStatus, ChunksAnswered,
       ClaimedSettled, Settled, MediaReady, EarlierSettled, AnsweredInOrder, OneBatchPerUpdate, BatchSet

LEMMA DebounceElapsesInv ==
  ASSUME StoreInv, NEW j \in DOMAIN jobs, DebounceElapses(j)
  PROVE  StoreInv' /\ Progress /\ StaysClaimed
<1> DEFINE e == [jobs[j] EXCEPT !.ready = TRUE]
<1>1. jobs[j] \in Job
  BY JobsTyped DEF StoreInv
<1>2. e \in Job /\ jobs' = [jobs EXCEPT ![j] = e]
  BY <1>1 DEF Job, DebounceElapses
<1>3. /\ jobs' \in Seq(Job)
      /\ DOMAIN jobs' = DOMAIN jobs
      /\ jobs'[j] = e
      /\ \A k \in DOMAIN jobs : k # j => jobs'[k] = jobs[k]
  BY <1>2, UpdatedJob DEF StoreInv
<1> HIDE DEF e
<1>4. /\ e.stream = jobs[j].stream /\ e.batch = jobs[j].batch /\ e.ready
      /\ e.status = jobs[j].status /\ e.response = jobs[j].response
      /\ e.chunks = jobs[j].chunks
  BY <1>1 DEF e, Job
<1>5. SameBatches
  BY <1>3, <1>4 DEF SameBatches, DebounceElapses
<1>6. AnsweredStatus' /\ ChunksAnswered' /\ ClaimedSettled' /\ AnsweredInOrder'
  BY <1>3, <1>4, <1>5, OneJobInv DEF StoreInv, AnsweredStatus, ChunksAnswered
<1>7. Progress /\ StaysClaimed
  BY <1>2, <1>3, <1>4 DEF Progress, StaysClaimed, DebounceElapses
<1> QED
  BY <1>3, <1>5, <1>6, <1>7, SameBatchesInv DEF StoreInv, StoreTypeOK, DebounceElapses

LEMMA SaveResponseInv ==
  ASSUME StoreInv, NEW j \in DOMAIN jobs, NEW r \in Replies,
         jobs[j].status # "queued", SaveResponse(j, r)
  PROVE  StoreInv' /\ Progress /\ StaysClaimed
<1>1. CASE UNCHANGED storeVars
  BY <1>1, StutterInv
<1>2. CASE ~ UNCHANGED storeVars
  <2> DEFINE e == [jobs[j] EXCEPT !.response = r, !.status = "responded"]
             row == AssistantEntry(j)
  <2>0. /\ jobs' = [jobs EXCEPT ![j] = e]
        /\ transcript' = Append(transcript, row)
        /\ UNCHANGED <<offset, inbox>>
        /\ jobs[j].response = NoReply
    BY <1>2 DEF SaveResponse
  <2>1. jobs[j] \in Job
    BY JobsTyped DEF StoreInv
  <2>2. e \in Job
    BY <2>1 DEF Job, JobStatus
  <2>3. /\ jobs' \in Seq(Job)
        /\ DOMAIN jobs' = DOMAIN jobs
        /\ jobs'[j] = e
        /\ \A k \in DOMAIN jobs : k # j => jobs'[k] = jobs[k]
    BY <2>0, <2>2, UpdatedJob DEF StoreInv
  <2>4. transcript' \in Seq(Entry)
    <3>1. jobs[j].batch \in Seq(UpdateIds) /\ jobs[j].batch # << >>
      BY JobsTyped DEF StoreInv, BatchesStored
    <3>2. jobs[j].batch[1] \in UpdateIds
      BY <3>1, EmptySeq, LenProperties, ElementOfSeq
    <3>3. row \in Entry
      BY <2>1, <3>2 DEF Entry, Job, AssistantEntry, Target, NoTarget
    <3> QED
      BY <2>0, <3>3 DEF StoreInv, StoreTypeOK
  <2> HIDE DEF e, row
  <2>5. /\ e.stream = jobs[j].stream /\ e.batch = jobs[j].batch /\ e.ready = jobs[j].ready
        /\ e.status = "responded" /\ e.response = r /\ e.chunks = jobs[j].chunks
    BY <2>1 DEF e, Job
  <2>6. SameBatches
    BY <2>0, <2>3, <2>5 DEF SameBatches
  <2>7. AnsweredStatus' /\ ChunksAnswered' /\ ClaimedSettled' /\ AnsweredInOrder'
    BY <2>3, <2>5, <2>6, OneJobInv, StoreAssumption
  <2>8. DOMAIN transcript \subseteq DOMAIN transcript'
    BY <2>0, AppendedEntry DEF StoreInv
  <2>9. Progress /\ StaysClaimed
    BY <2>0, <2>3, <2>5, <2>8 DEF Progress, StaysClaimed
  <2> QED
    BY <2>0, <2>3, <2>4, <2>6, <2>7, <2>9, SameBatchesInv DEF StoreInv, StoreTypeOK
<1> QED
  BY <1>1, <1>2

LEMMA ClaimDeliveryInv ==
  ASSUME StoreInv, NEW j \in DOMAIN jobs, jobs[j].response # NoReply,
         NEW c \in DOMAIN ClaimChunks(j), ClaimDelivery(j, c)
  PROVE  StoreInv' /\ Progress /\ StaysClaimed
<1> DEFINE claimed == [ClaimChunks(j) EXCEPT ![c].status = "sending"]
           e == [jobs[j] EXCEPT !.chunks = claimed, !.status = "sending"]
<1>1. jobs[j] \in Job
  BY JobsTyped DEF StoreInv
<1>2. claimed \in Seq(Chunk)
  <2>1. ClaimChunks(j) \in Seq(Chunk) /\ DOMAIN ClaimChunks(j) = 1 .. Len(ClaimChunks(j))
    BY ClaimChunksTyped, LenProperties DEF StoreInv
  <2>2. ClaimChunks(j)[c] \in Chunk
    BY <2>1, ElementOfSeq
  <2>3. [ClaimChunks(j)[c] EXCEPT !.status = "sending"] \in Chunk
    BY <2>2 DEF Chunk
  <2>4. claimed = [ClaimChunks(j) EXCEPT ![c] = [ClaimChunks(j)[c] EXCEPT !.status = "sending"]]
    OBVIOUS
  <2> QED
    BY <2>1, <2>3, <2>4, ExceptSeq
<1>3. e \in Job /\ jobs' = [jobs EXCEPT ![j] = e] /\ UNCHANGED <<offset, inbox, transcript>>
  BY <1>1, <1>2 DEF Job, JobStatus, ClaimDelivery
<1>4. /\ jobs' \in Seq(Job)
      /\ DOMAIN jobs' = DOMAIN jobs
      /\ jobs'[j] = e
      /\ \A k \in DOMAIN jobs : k # j => jobs'[k] = jobs[k]
  BY <1>3, UpdatedJob DEF StoreInv
<1>5. /\ e.stream = jobs[j].stream /\ e.batch = jobs[j].batch /\ e.ready = jobs[j].ready
      /\ e.status = "sending" /\ e.response = jobs[j].response
  BY <1>1 DEF Job
<1> HIDE DEF e
<1>6. SameBatches
  BY <1>3, <1>4, <1>5 DEF SameBatches
<1>7. AnsweredStatus' /\ ChunksAnswered' /\ ClaimedSettled' /\ AnsweredInOrder'
  BY <1>4, <1>5, <1>6, OneJobInv DEF ClaimDelivery
<1>8. Progress /\ StaysClaimed
  <2>1. DOMAIN claimed = DOMAIN ClaimChunks(j)
    OBVIOUS
  <2>2. DOMAIN jobs[j].chunks \subseteq DOMAIN ClaimChunks(j)
    BY DEF ClaimChunks
  <2>3. \A d \in DOMAIN jobs[j].chunks :
           jobs[j].chunks[d].status = "delivered" => claimed[d] = jobs[j].chunks[d]
    <3>1. ClaimChunks(j)[c].status # "delivered"
      BY DEF ClaimDelivery
    <3>2. \A d \in DOMAIN ClaimChunks(j) : d # c => claimed[d] = ClaimChunks(j)[d]
      OBVIOUS
    <3> HIDE DEF claimed
    <3>3. ASSUME NEW d \in DOMAIN jobs[j].chunks
          PROVE  ClaimChunks(j) = jobs[j].chunks
      BY EmptyDomain DEF ClaimChunks
    <3> QED
      BY <3>1, <3>2, <3>3
  <2> HIDE DEF claimed
  <2>4. e.chunks = claimed
    BY <1>1 DEF e, Job
  <2> QED
    BY <1>3, <1>4, <1>5, <2>1, <2>2, <2>3, <2>4 DEF Progress, StaysClaimed
<1> QED
  BY <1>3, <1>4, <1>6, <1>7, <1>8, SameBatchesInv DEF StoreInv, StoreTypeOK

LEMMA MarkChunkDeliveredInv ==
  ASSUME StoreInv, NEW j \in DOMAIN jobs, NEW c \in DOMAIN jobs[j].chunks,
         NEW m \in Nat, MarkChunkDelivered(j, c, m)
  PROVE  StoreInv' /\ Progress /\ StaysClaimed
<1>1. CASE UNCHANGED storeVars
  BY <1>1, StutterInv
<1>2. CASE ~ UNCHANGED storeVars
  <2> DEFINE mark == [status |-> "delivered", mid |-> m]
             marked == [jobs[j].chunks EXCEPT ![c] = mark]
             st == IF \A d \in DOMAIN jobs[j].chunks \ {c} :
                        jobs[j].chunks[d].status = "delivered"
                   THEN "delivered" ELSE "responded"
             e == [jobs[j] EXCEPT !.chunks = marked, !.status = st]
  <2>1. jobs[j] \in Job
    BY JobsTyped DEF StoreInv
  <2>2. marked \in Seq(Chunk)
    <3>1. jobs[j].chunks \in Seq(Chunk) /\ mark \in Chunk
      BY <2>1 DEF Job, Chunk
    <3> HIDE DEF mark
    <3> QED
      BY <3>1, ExceptSeq, LenProperties
  <2>3. jobs' = [jobs EXCEPT ![j] = e] /\ UNCHANGED <<offset, inbox, transcript>>
    BY <1>2 DEF MarkChunkDelivered
  <2>4. e \in Job
    BY <2>1, <2>2 DEF Job, JobStatus
  <2>5. /\ jobs' \in Seq(Job)
        /\ DOMAIN jobs' = DOMAIN jobs
        /\ jobs'[j] = e
        /\ \A k \in DOMAIN jobs : k # j => jobs'[k] = jobs[k]
    BY <2>3, <2>4, UpdatedJob DEF StoreInv
  <2>6. /\ e.stream = jobs[j].stream /\ e.batch = jobs[j].batch /\ e.ready = jobs[j].ready
        /\ e.status \in {"delivered", "responded"} /\ e.response = jobs[j].response
    BY <2>1 DEF Job
  <2> HIDE DEF e
  <2>7. SameBatches
    BY <2>3, <2>5, <2>6 DEF SameBatches
  <2>8. jobs[j].response # NoReply /\ jobs[j].status # "queued"
    BY DEF StoreInv, AnsweredStatus, ChunksAnswered
  <2>9. AnsweredStatus' /\ ChunksAnswered' /\ ClaimedSettled' /\ AnsweredInOrder'
    BY <2>5, <2>6, <2>7, <2>8, OneJobInv
  <2>10. Progress /\ StaysClaimed
    <3>1. DOMAIN marked = DOMAIN jobs[j].chunks
      OBVIOUS
    <3>2. \A d \in DOMAIN jobs[j].chunks :
             jobs[j].chunks[d].status = "delivered" => marked[d] = jobs[j].chunks[d]
      <4>1. jobs[j].chunks[c].status # "delivered"
        BY <1>2 DEF MarkChunkDelivered
      <4> QED
        BY <4>1
    <3> HIDE DEF marked
    <3>3. e.chunks = marked
      BY <2>1 DEF e, Job
    <3> QED
      BY <2>3, <2>5, <2>6, <3>1, <3>2, <3>3 DEF Progress, StaysClaimed
  <2> QED
    BY <2>3, <2>5, <2>7, <2>9, <2>10, SameBatchesInv DEF StoreInv, StoreTypeOK
<1> QED
  BY <1>1, <1>2

LEMMA ClaimJobInv ==
  ASSUME StoreInv, NEW j \in DOMAIN jobs, ClaimJob(j)
  PROVE  StoreInv' /\ Progress /\ StaysClaimed
<1> DEFINE e == [jobs[j] EXCEPT !.status = "processing"]
<1>1. jobs[j] \in Job /\ jobs[j].status = "queued"
  BY JobsTyped DEF StoreInv, ClaimJob, Claimable
<1>2. e \in Job /\ jobs' = [jobs EXCEPT ![j] = e] /\ UNCHANGED <<offset, inbox, transcript>>
  BY <1>1 DEF Job, JobStatus, ClaimJob
<1>3. /\ jobs' \in Seq(Job)
      /\ DOMAIN jobs' = DOMAIN jobs
      /\ jobs'[j] = e
      /\ \A k \in DOMAIN jobs : k # j => jobs'[k] = jobs[k]
  BY <1>2, UpdatedJob DEF StoreInv
<1>4. /\ e.stream = jobs[j].stream /\ e.batch = jobs[j].batch /\ e.ready = jobs[j].ready
      /\ e.status = "processing" /\ e.response = jobs[j].response
      /\ e.chunks = jobs[j].chunks
  BY <1>1 DEF Job
<1> HIDE DEF e
<1>5. SameBatches
  BY <1>2, <1>3, <1>4 DEF SameBatches
<1>6. AnsweredStatus' /\ ChunksAnswered'
  BY <1>1, <1>3, <1>4 DEF StoreInv, AnsweredStatus, ChunksAnswered
<1>7. ClaimedSettled'
  <2> SUFFICES ASSUME NEW k \in DOMAIN jobs, jobs'[k].status # "queued"
               PROVE  Settled(k)'
    BY <1>3 DEF ClaimedSettled
  <2>1. Settled(k)
    BY <1>3 DEF StoreInv, ClaimedSettled, ClaimJob, Claimable, Settled
  <2> QED
    BY <2>1, <1>5, SettledStays
<1>8. AnsweredInOrder'
  <2> SUFFICES ASSUME NEW i \in DOMAIN jobs, NEW k \in DOMAIN jobs,
                      i < k, jobs[i].stream = jobs[k].stream, jobs'[k].status # "queued"
               PROVE  jobs[i].response # NoReply
    BY <1>3, <1>4 DEF AnsweredInOrder
  <2>1. CASE k # j
    BY <2>1, <1>3 DEF StoreInv, AnsweredInOrder
  <2>2. CASE k = j
    <3> SUFFICES ASSUME jobs[i].response = NoReply
                 PROVE  FALSE
      OBVIOUS
    <3>1. jobs[i].status \in JobStatus
      BY JobsTyped DEF StoreInv, Job
    <3>2. jobs[i].status \in {"queued", "processing"}
      BY <3>1 DEF StoreInv, AnsweredStatus, JobStatus
    <3>3. \A m \in DOMAIN jobs : jobs[m].stream = jobs[i].stream => jobs[m].status # "processing"
      BY <2>2 DEF ClaimJob, Claimable
    <3>4. Settled(i)
      BY DEF StoreInv, EarlierSettled
    <3>5. Claimable(i)
      BY <3>2, <3>3, <3>4 DEF Claimable, Settled
    <3>6. j <= i
      BY <3>5 DEF ClaimJob
    <3>7. i \in Nat /\ j \in Nat
      BY JobsTyped DEF StoreInv
    <3> QED
      BY <2>2, <3>6, <3>7
  <2> QED
    BY <2>1, <2>2
<1>9. Progress /\ StaysClaimed
  BY <1>2, <1>3, <1>4 DEF Progress, StaysClaimed
<1> QED
  BY <1>2, <1>3, <1>5, <1>6, <1>7, <1>8, <1>9, SameBatchesInv DEF StoreInv, StoreTypeOK

\* A transaction that leaves the job table alone.
LEMMA JobsKeptInv ==
  ASSUME StoreInv, SameBatches, UNCHANGED <<jobs, transcript>>, StoreTypeOK'
  PROVE  StoreInv' /\ Progress /\ StaysClaimed
<1>1. AnsweredStatus' /\ ChunksAnswered' /\ AnsweredInOrder'
  BY DEF StoreInv, AnsweredStatus, ChunksAnswered, AnsweredInOrder
<1>2. ClaimedSettled'
  <2> SUFFICES ASSUME NEW k \in DOMAIN jobs, jobs[k].status # "queued"
               PROVE  Settled(k)'
    BY DEF ClaimedSettled
  <2>1. Settled(k)
    BY DEF StoreInv, ClaimedSettled
  <2> QED
    BY <2>1, SettledStays
<1>3. Progress /\ StaysClaimed
  BY DEF Progress, StaysClaimed
<1> QED
  BY <1>1, <1>2, <1>3, SameBatchesInv DEF StoreInv

LEMMA CompleteMediaInv ==
  ASSUME StoreInv, NEW u \in UpdateIds, CompleteMedia(u)
  PROVE  StoreInv' /\ Progress /\ StaysClaimed
<1>1. /\ inbox[u] = "pending"
      /\ inbox \in [UpdateIds -> InboxStatus]
      /\ inbox' = [inbox EXCEPT ![u] = "ready"]
      /\ UNCHANGED <<offset, jobs, transcript>>
  BY DEF CompleteMedia, PendingMedia, StoreInv, StoreTypeOK
<1>2. SameBatches
  BY <1>1 DEF SameBatches
<1>3. StoreTypeOK'
  BY <1>1 DEF StoreInv, StoreTypeOK, InboxStatus
<1> QED
  BY <1>1, <1>2, <1>3, JobsKeptInv

LEMMA AdvanceUpdateOffsetInv ==
  ASSUME StoreInv, NEW n \in 0 .. MaxUpdates + 1, AdvanceUpdateOffset(n)
  PROVE  StoreInv' /\ Progress /\ StaysClaimed
<1>1. SameBatches
  BY DEF SameBatches, AdvanceUpdateOffset
<1>2. StoreTypeOK'
  BY StoreAssumption DEF StoreInv, StoreTypeOK, AdvanceUpdateOffset, Larger
<1> QED
  BY <1>1, <1>2, JobsKeptInv DEF AdvanceUpdateOffset

LEMMA RecoverJobsInv ==
  ASSUME StoreInv, RecoverJobs
  PROVE  StoreInv' /\ Progress
<1> DEFINE chunks(j) == [c \in DOMAIN jobs[j].chunks |-> RecoveredChunk(jobs[j].chunks[c])]
           e(j) == [jobs[j] EXCEPT !.status = RecoveredStatus(@), !.chunks = chunks(j)]
<1>1. jobs' = [j \in DOMAIN jobs |-> e(j)] /\ UNCHANGED <<offset, inbox, transcript>>
  BY DEF RecoverJobs
<1>2. ASSUME NEW j \in DOMAIN jobs
      PROVE  /\ e(j) \in Job
             /\ chunks(j) # << >> => jobs[j].chunks # << >>
             /\ DOMAIN chunks(j) = DOMAIN jobs[j].chunks
             /\ \A c \in DOMAIN jobs[j].chunks :
                  jobs[j].chunks[c].status = "delivered" => chunks(j)[c] = jobs[j].chunks[c]
             /\ e(j).chunks = chunks(j)
             /\ e(j).status = RecoveredStatus(jobs[j].status)
             /\ e(j).response = jobs[j].response
             /\ e(j).stream = jobs[j].stream /\ e(j).batch = jobs[j].batch
             /\ e(j).ready = jobs[j].ready
  <2>1. jobs[j] \in Job /\ jobs[j].chunks \in Seq(Chunk)
    BY JobsTyped DEF StoreInv, Job
  <2>2. /\ Len(jobs[j].chunks) \in Nat /\ DOMAIN jobs[j].chunks = 1 .. Len(jobs[j].chunks)
        /\ \A c \in DOMAIN jobs[j].chunks : jobs[j].chunks[c] \in Chunk
    BY <2>1, LenProperties, ElementOfSeq
  <2>3. \A c \in DOMAIN jobs[j].chunks : RecoveredChunk(jobs[j].chunks[c]) \in Chunk
    BY <2>2 DEF RecoveredChunk, Chunk
  <2>4. chunks(j) \in [1 .. Len(jobs[j].chunks) -> Chunk]
    BY <2>2, <2>3
  <2>5. chunks(j) \in Seq(Chunk)
    BY <2>2, <2>4, SeqDef
  <2>6. RecoveredStatus(jobs[j].status) \in JobStatus
    BY <2>1 DEF Job, JobStatus, RecoveredStatus
  <2>7. chunks(j) # << >> => jobs[j].chunks # << >>
    BY <2>2, <2>5, EmptySeq, LenProperties
  <2>8. /\ DOMAIN chunks(j) = DOMAIN jobs[j].chunks
        /\ \A c \in DOMAIN jobs[j].chunks :
             jobs[j].chunks[c].status = "delivered" => chunks(j)[c] = jobs[j].chunks[c]
    BY DEF RecoveredChunk
  <2> HIDE DEF chunks
  <2> QED
    BY <2>1, <2>5, <2>6, <2>7, <2>8 DEF Job
<1> HIDE DEF e
<1>3. jobs' \in Seq(Job) /\ DOMAIN jobs' = DOMAIN jobs
  <2>1. jobs' \in [1 .. Len(jobs) -> Job] /\ Len(jobs) \in Nat /\ DOMAIN jobs = 1 .. Len(jobs)
    BY <1>1, <1>2, JobsTyped DEF StoreInv
  <2> QED
    BY <2>1, SeqDef
<1>4. SameBatches
  BY <1>1, <1>2, <1>3 DEF SameBatches
<1>5. \A j \in DOMAIN jobs :
        /\ jobs'[j].status \in {"responded", "sending", "delivered"}
             <=> jobs[j].status \in {"responded", "sending", "delivered"}
        /\ jobs'[j].status # "queued" => jobs[j].status # "queued"
        /\ jobs'[j].response = jobs[j].response
        /\ jobs'[j].stream = jobs[j].stream
        /\ jobs'[j].chunks # << >> => jobs[j].chunks # << >>
  BY <1>1, <1>2 DEF RecoveredStatus
<1>6. AnsweredStatus' /\ ChunksAnswered' /\ AnsweredInOrder'
  BY <1>3, <1>5 DEF StoreInv, AnsweredStatus, ChunksAnswered, AnsweredInOrder
<1>7. ClaimedSettled'
  <2> SUFFICES ASSUME NEW k \in DOMAIN jobs, jobs[k].status # "queued"
               PROVE  Settled(k)'
    BY <1>3, <1>5 DEF ClaimedSettled
  <2>1. Settled(k)
    BY DEF StoreInv, ClaimedSettled
  <2> QED
    BY <2>1, <1>4, SettledStays
<1>8. Progress
  BY <1>1, <1>2, <1>3 DEF Progress
<1> QED
  BY <1>1, <1>3, <1>4, <1>6, <1>7, <1>8, SameBatchesInv DEF StoreInv, StoreTypeOK

-----------------------------------------------------------------------------
(* A new update                                                            *)

\* Nothing changes for the jobs whose batch the update does not join.
LEMMA OtherJobsSettled ==
  ASSUME StoreInv, NEW u \in UpdateIds, inbox[u] = "absent", NEW st \in InboxStatus,
         inbox' = [inbox EXCEPT ![u] = st],
         NEW j \in DOMAIN jobs, jobs'[j] = jobs[j], Settled(j)
  PROVE  Settled(j)'
<1>1. \A i \in DOMAIN jobs[j].batch : jobs[j].batch[i] \in UpdateIds /\ jobs[j].batch[i] # u
  BY JobsTyped DEF StoreInv, BatchesStored
<1>2. inbox \in [UpdateIds -> InboxStatus]
  BY DEF StoreInv, StoreTypeOK
<1> QED
  BY <1>1, <1>2 DEF Settled, MediaReady

LEMMA NewJobInv ==
  ASSUME StoreInv, NEW u \in UpdateIds, inbox[u] = "absent", NEW s \in Streams,
         NEW st \in InboxStatus \ {"absent"}, inbox' = [inbox EXCEPT ![u] = st],
         DOMAIN transcript \subseteq DOMAIN transcript',
         QueuedJobs(s) = {}, jobs' = Append(jobs, NewJob(s, u))
  PROVE  /\ jobs' \in Seq(Job)
         /\ BatchesStored' /\ AnsweredStatus' /\ ChunksAnswered' /\ ClaimedSettled'
         /\ EarlierSettled' /\ AnsweredInOrder' /\ OneBatchPerUpdate'
         /\ Progress /\ StaysClaimed
<1> DEFINE e == NewJob(s, u)
<1>0. PICK n \in Nat : n = Len(jobs) + 1
  BY JobsTyped DEF StoreInv
<1>1. e \in Job
  BY StoreAssumption DEF NewJob, Job, JobStatus
<1>2. /\ e.stream = s /\ e.batch = <<u>> /\ e.status = "queued"
      /\ e.response = NoReply /\ e.chunks = << >>
  BY DEF NewJob
<1>3. DOMAIN e.batch = {1} /\ e.batch[1] = u /\ e.batch # << >>
  BY <1>2
<1> HIDE DEF e
<1>4. /\ jobs' \in Seq(Job)
      /\ DOMAIN jobs' = DOMAIN jobs \cup {n}
      /\ jobs'[n] = e
      /\ \A k \in DOMAIN jobs : jobs'[k] = jobs[k] /\ k < n /\ k \in Nat
  <2>1. jobs' = Append(jobs, e)
    BY DEF e
  <2> QED
    BY <1>1, <1>0, <2>1, AppendedJob, JobsTyped DEF StoreInv
<1>5. inbox \in [UpdateIds -> InboxStatus] /\ inbox' \in [UpdateIds -> InboxStatus]
  BY DEF StoreInv, StoreTypeOK
<1>6. \A k \in DOMAIN jobs : \A i \in DOMAIN jobs[k].batch :
         jobs[k].batch[i] \in UpdateIds /\ jobs[k].batch[i] # u
  BY JobsTyped DEF StoreInv, BatchesStored
<1>7. BatchesStored'
  BY <1>3, <1>4, <1>5, <1>6 DEF StoreInv, BatchesStored
<1>8. AnsweredStatus' /\ ChunksAnswered'
  BY <1>2, <1>4 DEF StoreInv, AnsweredStatus, ChunksAnswered
<1>9. ClaimedSettled'
  <2> SUFFICES ASSUME NEW k \in DOMAIN jobs, jobs[k].status # "queued"
               PROVE  Settled(k)'
    BY <1>2, <1>4 DEF ClaimedSettled
  <2> QED
    BY <1>4, OtherJobsSettled DEF StoreInv, ClaimedSettled
<1>10. EarlierSettled'
  <2> SUFFICES ASSUME NEW j \in DOMAIN jobs', NEW k \in DOMAIN jobs', j < k,
                      jobs'[j].stream = jobs'[k].stream
               PROVE  Settled(j)'
    BY DEF EarlierSettled
  <2>1. j \in DOMAIN jobs
    BY <1>4, <1>0
  <2>2. Settled(j)
    <3>1. CASE k = n
      BY <1>2, <1>4, <2>1, <3>1 DEF StoreInv, ClaimedSettled, QueuedJobs
    <3>2. CASE k \in DOMAIN jobs
      BY <1>4, <2>1, <3>2 DEF StoreInv, EarlierSettled
    <3> QED
      BY <3>1, <3>2, <1>4
  <2> QED
    BY <1>4, <2>1, <2>2, OtherJobsSettled
<1>11. AnsweredInOrder'
  BY <1>2, <1>4, <1>0 DEF StoreInv, AnsweredInOrder
<1>12. OneBatchPerUpdate'
  <2>1. ASSUME NEW v \in UpdateIds, inbox'[v] # "absent"
        PROVE  \E j \in DOMAIN jobs' : v \in BatchSet(j)'
    <3>1. CASE v = u
      <4>1. u \in BatchSet(n)'
        BY <1>3, <1>4 DEF BatchSet
      <4> QED
        BY <1>4, <3>1, <4>1
    <3>2. CASE v # u
      <4>1. PICK j \in DOMAIN jobs : v \in BatchSet(j)
        BY <1>5, <2>1, <3>2 DEF StoreInv, OneBatchPerUpdate
      <4>2. v \in BatchSet(j)'
        BY <1>4, <4>1 DEF BatchSet
      <4> QED
        BY <1>4, <4>2
    <3> QED
      BY <3>1, <3>2
  <2>2. ASSUME NEW j \in DOMAIN jobs', NEW k \in DOMAIN jobs',
               NEW a \in DOMAIN jobs'[j].batch, NEW b \in DOMAIN jobs'[k].batch,
               jobs'[j].batch[a] = jobs'[k].batch[b]
        PROVE  j = k /\ a = b
    <3>1. CASE j \in DOMAIN jobs /\ k \in DOMAIN jobs
      BY <1>4, <2>2, <3>1 DEF StoreInv, OneBatchPerUpdate
    <3>2. CASE j = n \/ k = n
      BY <1>3, <1>4, <1>6, <2>2, <3>2
    <3> QED
      BY <3>1, <3>2, <1>4
  <2> QED
    BY <2>1, <2>2 DEF OneBatchPerUpdate
<1>13. Progress /\ StaysClaimed
  BY <1>4 DEF Progress, StaysClaimed
<1> QED
  BY <1>4, <1>7, <1>8, <1>9, <1>10, <1>11, <1>12, <1>13

LEMMA JoinedJobInv ==
  ASSUME StoreInv, NEW u \in UpdateIds, inbox[u] = "absent", NEW s \in Streams,
         NEW st \in InboxStatus \ {"absent"}, inbox' = [inbox EXCEPT ![u] = st],
         DOMAIN transcript \subseteq DOMAIN transcript',
         NEW j \in QueuedJobs(s), \A k \in QueuedJobs(s) : k <= j,
         jobs' = [jobs EXCEPT ![j] = [jobs[j] EXCEPT !.batch = Append(@, u), !.ready = FALSE]]
  PROVE  /\ jobs' \in Seq(Job)
         /\ BatchesStored' /\ AnsweredStatus' /\ ChunksAnswered' /\ ClaimedSettled'
         /\ EarlierSettled' /\ AnsweredInOrder' /\ OneBatchPerUpdate'
         /\ Progress /\ StaysClaimed
<1> DEFINE joined == Append(jobs[j].batch, u)
           e == [jobs[j] EXCEPT !.batch = joined, !.ready = FALSE]
<1>1. /\ j \in DOMAIN jobs /\ jobs[j] \in Job /\ jobs[j].batch \in Seq(UpdateIds)
      /\ jobs[j].stream = s /\ jobs[j].status = "queued"
  BY JobsTyped DEF StoreInv, QueuedJobs
<1>2. PICK last \in Nat : last = Len(jobs[j].batch) + 1
  BY <1>1, LenProperties
<1>3. /\ joined \in Seq(UpdateIds) /\ joined # << >>
      /\ DOMAIN joined = DOMAIN jobs[j].batch \cup {last}
      /\ joined[last] = u
      /\ \A a \in DOMAIN jobs[j].batch : joined[a] = jobs[j].batch[a]
  <2>1. /\ joined \in Seq(UpdateIds) /\ Len(joined) = last
        /\ Len(jobs[j].batch) \in Nat /\ DOMAIN jobs[j].batch = 1 .. last - 1
    BY <1>1, <1>2, LenProperties
  <2>2. joined # << >>
    <3> HIDE DEF joined
    <3>1. Len(<< >>) = 0
      BY EmptySeq
    <3>2. Len(joined) # 0
      BY <1>2, <2>1
    <3> QED
      BY <3>1, <3>2
  <2>3. DOMAIN joined = 1 .. last
    BY <2>1, LenProperties
  <2>4. joined[last] = u /\ \A a \in 1 .. last - 1 : joined[a] = jobs[j].batch[a]
    BY <1>1, <1>2
  <2> QED
    BY <1>2, <2>1, <2>2, <2>3, <2>4
<1> HIDE DEF joined
<1>4. e \in Job /\ jobs' = [jobs EXCEPT ![j] = e]
  <2>1. jobs' = [jobs EXCEPT ![j] = e]
    BY DEF joined
  <2> QED
    BY <1>1, <1>3, <2>1 DEF Job
<1>5. /\ e.stream = s /\ e.batch = joined /\ e.status = "queued"
      /\ e.response = jobs[j].response /\ e.chunks = jobs[j].chunks
  BY <1>1 DEF Job
<1> HIDE DEF e
<1>6. /\ jobs' \in Seq(Job)
      /\ DOMAIN jobs' = DOMAIN jobs
      /\ jobs'[j] = e
      /\ \A k \in DOMAIN jobs : k # j => jobs'[k] = jobs[k]
  BY <1>1, <1>4, UpdatedJob DEF StoreInv
<1>7. inbox \in [UpdateIds -> InboxStatus] /\ inbox' \in [UpdateIds -> InboxStatus]
  BY DEF StoreInv, StoreTypeOK
<1>8. \A k \in DOMAIN jobs : \A i \in DOMAIN jobs[k].batch :
         jobs[k].batch[i] \in UpdateIds /\ jobs[k].batch[i] # u
  BY JobsTyped DEF StoreInv, BatchesStored
<1>9. BatchesStored'
  <2>1. ASSUME NEW k \in DOMAIN jobs, k # j
        PROVE  jobs'[k].batch # << >> /\ \A i \in DOMAIN jobs'[k].batch : inbox'[jobs'[k].batch[i]] # "absent"
    BY <1>6, <1>7, <1>8, <2>1 DEF StoreInv, BatchesStored
  <2>2. \A i \in DOMAIN joined : inbox'[joined[i]] # "absent"
    BY <1>1, <1>3, <1>7, <1>8 DEF StoreInv, BatchesStored
  <2>3. jobs'[j].batch # << >> /\ \A i \in DOMAIN jobs'[j].batch : inbox'[jobs'[j].batch[i]] # "absent"
    BY <1>3, <1>5, <1>6, <2>2
  <2> QED
    BY <1>6, <2>1, <2>3 DEF BatchesStored
<1>10. AnsweredStatus' /\ ChunksAnswered' /\ AnsweredInOrder'
  BY <1>1, <1>5, <1>6 DEF StoreInv, AnsweredStatus, ChunksAnswered, AnsweredInOrder
<1>11. ClaimedSettled'
  <2> SUFFICES ASSUME NEW k \in DOMAIN jobs, k # j, jobs[k].status # "queued"
               PROVE  Settled(k)'
    BY <1>5, <1>6 DEF ClaimedSettled
  <2> QED
    BY <1>6, OtherJobsSettled DEF StoreInv, ClaimedSettled
<1>12. EarlierSettled'
  <2> SUFFICES ASSUME NEW i \in DOMAIN jobs, NEW k \in DOMAIN jobs, i < k,
                      jobs[i].stream = jobs[k].stream
               PROVE  Settled(i)'
    BY <1>1, <1>5, <1>6 DEF EarlierSettled
  <2>1. i # j
    <3> SUFFICES ASSUME i = j
                 PROVE  FALSE
      OBVIOUS
    <3>1. k \in Nat /\ j \in Nat
      BY JobsTyped DEF StoreInv
    <3>2. jobs[k].status # "queued"
      BY <1>1, <3>1 DEF QueuedJobs
    <3>3. jobs[j].response # NoReply
      BY <3>2 DEF StoreInv, AnsweredInOrder
    <3> QED
      BY <1>1, <3>3 DEF StoreInv, AnsweredStatus
  <2> QED
    BY <1>6, <2>1, OtherJobsSettled DEF StoreInv, EarlierSettled
<1>13. OneBatchPerUpdate'
  <2>1. ASSUME NEW v \in UpdateIds, inbox'[v] # "absent"
        PROVE  \E k \in DOMAIN jobs' : v \in BatchSet(k)'
    <3>1. CASE v = u
      <4>1. u \in BatchSet(j)'
        BY <1>3, <1>5, <1>6 DEF BatchSet
      <4> QED
        BY <1>1, <1>6, <3>1, <4>1
    <3>2. CASE v # u
      <4>1. PICK k \in DOMAIN jobs : v \in BatchSet(k)
        BY <1>7, <2>1, <3>2 DEF StoreInv, OneBatchPerUpdate
      <4>2. PICK a \in DOMAIN jobs[k].batch : v = jobs[k].batch[a]
        BY <4>1 DEF BatchSet
      <4>3. a \in DOMAIN jobs'[k].batch /\ v = jobs'[k].batch[a]
        BY <1>3, <1>5, <1>6, <4>2
      <4> QED
        BY <1>6, <4>3 DEF BatchSet
    <3> QED
      BY <3>1, <3>2
  <2>2. ASSUME NEW i \in DOMAIN jobs', NEW k \in DOMAIN jobs',
               NEW a \in DOMAIN jobs'[i].batch, NEW b \in DOMAIN jobs'[k].batch,
               jobs'[i].batch[a] = jobs'[k].batch[b]
        PROVE  i = k /\ a = b
    <3> DEFINE Old(m, c) == c \in DOMAIN jobs[m].batch /\ jobs'[m].batch[c] = jobs[m].batch[c]
               New(m, c) == m = j /\ c = last /\ jobs'[m].batch[c] = u
    <3>0. ASSUME NEW m \in DOMAIN jobs, NEW c \in DOMAIN jobs'[m].batch
          PROVE  Old(m, c) \/ New(m, c)
      <4>1. CASE m # j
        BY <1>6, <4>1
      <4>2. CASE m = j
        <5>1. jobs'[j].batch = joined
          BY <1>5, <1>6
        <5> QED
          BY <1>3, <4>2, <5>1
      <4> QED
        BY <4>1, <4>2
    <3> HIDE DEF Old, New
    <3>1. i \in DOMAIN jobs /\ k \in DOMAIN jobs
      BY <1>6
    <3>2. (Old(i, a) \/ New(i, a)) /\ (Old(k, b) \/ New(k, b))
      BY <3>0, <3>1
    <3>3. CASE Old(i, a) /\ Old(k, b)
      BY <2>2, <3>1, <3>3 DEF StoreInv, OneBatchPerUpdate, Old
    <3>4. CASE New(i, a) /\ New(k, b)
      BY <3>4 DEF New
    <3>5. CASE (Old(i, a) /\ New(k, b)) \/ (New(i, a) /\ Old(k, b))
      BY <1>8, <2>2, <3>1, <3>5 DEF Old, New
    <3> QED
      BY <3>2, <3>3, <3>4, <3>5
  <2> QED
    BY <1>6, <2>1, <2>2 DEF OneBatchPerUpdate
<1>14. Progress /\ StaysClaimed
  BY <1>1, <1>5, <1>6 DEF StoreInv, AnsweredStatus, Progress, StaysClaimed
<1> QED
  BY <1>6, <1>9, <1>10, <1>11, <1>12, <1>13, <1>14

LEMMA EnqueueNewUpdateInv ==
  ASSUME StoreInv, NEW u \in UpdateIds, NEW s \in Streams, NEW hasMedia \in BOOLEAN,
         NEW reply \in Target, EnqueueNewUpdate(u, s, hasMedia, reply)
  PROVE  StoreInv' /\ Progress /\ StaysClaimed
<1> DEFINE st == IF hasMedia THEN "pending" ELSE "text"
           row == UserEntry(u, s, reply)
<1>1. /\ inbox[u] = "absent" /\ JoinBatch(u, s)
      /\ st \in InboxStatus \ {"absent"} /\ inbox' = [inbox EXCEPT ![u] = st]
      /\ transcript' = Append(transcript, row) /\ offset' = Larger(offset, u + 1)
  BY DEF EnqueueNewUpdate, InboxStatus
<1>2. row \in Entry
  BY DEF Entry, UserEntry
<1> HIDE DEF st, row
<1>3. offset' \in 0 .. MaxUpdates + 1
  BY <1>1, StoreAssumption DEF StoreInv, StoreTypeOK, UpdateIds, Larger
<1>4. inbox' \in [UpdateIds -> InboxStatus] /\ transcript' \in Seq(Entry)
  BY <1>1, <1>2 DEF StoreInv, StoreTypeOK
<1>5. /\ jobs' \in Seq(Job)
      /\ BatchesStored' /\ AnsweredStatus' /\ ChunksAnswered' /\ ClaimedSettled'
      /\ EarlierSettled' /\ AnsweredInOrder' /\ OneBatchPerUpdate'
      /\ Progress /\ StaysClaimed
  <2>0. DOMAIN transcript \subseteq DOMAIN transcript'
    BY <1>1, AppendedEntry DEF StoreInv
  <2>1. CASE QueuedJobs(s) = {} /\ jobs' = Append(jobs, NewJob(s, u))
    BY <1>1, <2>0, <2>1, NewJobInv
  <2>2. CASE \E j \in QueuedJobs(s) :
               /\ \A k \in QueuedJobs(s) : k <= j
               /\ jobs' = [jobs EXCEPT ![j] = [jobs[j] EXCEPT !.batch = Append(@, u), !.ready = FALSE]]
    BY <1>1, <2>0, <2>2, JoinedJobInv
  <2> QED
    BY <1>1, <2>1, <2>2 DEF JoinBatch
<1> QED
  BY <1>3, <1>4, <1>5 DEF StoreInv, StoreTypeOK

-----------------------------------------------------------------------------
(* The theorems                                                            *)

LEMMA StoreInitInv ==
  ASSUME StoreInit
  PROVE  StoreInv
<1>1. jobs = << >> /\ DOMAIN jobs = {}
  BY DEF StoreInit
<1>2. StoreTypeOK
  BY StoreAssumption DEF StoreInit, StoreTypeOK, InboxStatus
<1> QED
  BY <1>1, <1>2 DEF StoreInit, StoreInv, BatchesStored, AnsweredStatus, ChunksAnswered,
       ClaimedSettled, EarlierSettled, AnsweredInOrder, OneBatchPerUpdate

LEMMA StoreNextInv ==
  ASSUME StoreInv, [StoreNext]_storeVars
  PROVE  StoreInv' /\ Progress
<1>0. \A u \in UpdateIds : u + 1 \in 0 .. MaxUpdates + 1
  BY StoreAssumption DEF UpdateIds
<1>1. CASE \E u \in UpdateIds, s \in Streams, hasMedia \in BOOLEAN, reply \in Target :
             EnqueueTextUpdate(u, s, hasMedia, reply)
  BY <1>0, <1>1, EnqueueNewUpdateInv, AdvanceUpdateOffsetInv DEF EnqueueTextUpdate
<1>2. CASE \E u \in UpdateIds : AdvanceUpdateOffset(u + 1) \/ CompleteMedia(u)
  BY <1>0, <1>2, AdvanceUpdateOffsetInv, CompleteMediaInv
<1>3. ASSUME NEW j \in DOMAIN jobs
      PROVE  DebounceElapses(j) \/ ClaimJob(j) => StoreInv' /\ Progress
  BY DebounceElapsesInv, ClaimJobInv
<1>4. ASSUME NEW j \in DOMAIN jobs, jobs[j].status # "queued",
             NEW r \in Replies, SaveResponse(j, r)
      PROVE  StoreInv' /\ Progress
  BY <1>4, SaveResponseInv
<1>5. ASSUME NEW j \in DOMAIN jobs, jobs[j].response # NoReply,
             NEW c \in DOMAIN ClaimChunks(j), ClaimDelivery(j, c)
      PROVE  StoreInv' /\ Progress
  BY <1>5, ClaimDeliveryInv
<1>6. ASSUME NEW j \in DOMAIN jobs, NEW c \in DOMAIN jobs[j].chunks, NEW m \in MessageIds,
             MarkChunkDelivered(j, c, m)
      PROVE  StoreInv' /\ Progress
  BY <1>6, MarkChunkDeliveredInv, StoreAssumption
<1>7. CASE RecoverJobs
  BY <1>7, RecoverJobsInv
<1>8. CASE UNCHANGED storeVars
  BY <1>8, StutterInv
<1> QED
  BY <1>1, <1>2, <1>3, <1>4, <1>5, <1>6, <1>7, <1>8 DEF StoreNext

\* The inductive invariant holds of the store however it is called.
THEOREM StoreInvariant == StoreSpec => []StoreInv
<1>1. StoreInit => StoreInv
  BY StoreInitInv
<1>2. StoreInv /\ [StoreNext]_storeVars => StoreInv'
  BY StoreNextInv
<1> QED
  BY <1>1, <1>2, PTL DEF StoreSpec

\* The rows of the database keep their types.
THEOREM StoreTypes == StoreSpec => []StoreTypeOK
<1>1. StoreInv => StoreTypeOK
  BY DEF StoreInv
<1> QED
  BY <1>1, StoreInvariant, PTL

\* A confirmed piece keeps its message id and an answer its text, whatever
\* is called again (mark_delivery_chunk_delivered, save_response).
THEOREM StoreConfirmed == StoreSpec => ConfirmedIsFinal
<1>1. StoreInv /\ [StoreNext]_storeVars =>
        [\A j \in DOMAIN jobs :
           /\ jobs[j].response # NoReply => jobs'[j].response = jobs[j].response
           /\ \A c \in DOMAIN jobs[j].chunks : jobs[j].chunks[c].status = "delivered" =>
                jobs'[j].chunks[c] = jobs[j].chunks[c]]_storeVars
  BY StoreNextInv DEF Progress
<1> QED
  BY <1>1, StoreInvariant, PTL DEF ConfirmedIsFinal, StoreSpec

=============================================================================
