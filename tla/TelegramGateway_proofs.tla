------------------------ MODULE TelegramGateway_proofs ------------------------
(***************************************************************************)
(* The running gateway calls its store only as StoreNext allows, whatever  *)
(* the interleaving of its loops, failures and crashes: what was proved of *)
(* the store holds of the gateway (GatewayInv).  On top of it, what the    *)
(* gateway's history has in order (HistoryInv): updates against batches    *)
(* and acknowledgements, the transcript against updates and answers, the   *)
(* messages shown against chunks and restarts, checkpoints against open    *)
(* turns.  Last, that the gateway implements TelegramPromise: each of its  *)
(* steps accepts, answers, shows or confirms for one job, or for none.     *)
(***************************************************************************)
EXTENDS TelegramRefinement, TelegramStore_proofs, FoldLemmas, FiniteSetTheorems

-----------------------------------------------------------------------------
(* The inductive invariant                                                 *)

\* The checkpoint table is a sequence, of rows of whatever type.
CheckpointRows == \E S : checkpoints \in Seq(S)

\* What is fetched and not ingested yet was sent.
FetchedSent == \A u \in poll.batch : u \in DOMAIN updates

\* The generation loop holds a job it claimed, the delivery loop a chunk,
\* and nothing once the process is down, when recovery gives them back.
GenClaimed == gen.pc = "generating" => jobs[gen.job].status # "queued"
DeliveryClaimed == delivery.pc # "idle" => delivery.chunk \in DOMAIN jobs[delivery.job].chunks
IdleWhileDown == ~up => gen = Idle /\ delivery = Idle

GatewayInv ==
  /\ StoreInv
  /\ TypeOK
  /\ CheckpointRows
  /\ FetchedSent
  /\ GenClaimed
  /\ DeliveryClaimed
  /\ IdleWhileDown

-----------------------------------------------------------------------------
(* The store under the gateway                                             *)

LEMMA OffsetTyped ==
  ASSUME GatewayInv, NEW u \in UpdateIds
  PROVE  u + 1 \in 0 .. MaxUpdates + 1
BY StoreAssumption DEF UpdateIds

\* What a fetched update replies to is stored with it.
LEMMA PolledReply ==
  ASSUME GatewayInv, NEW u, NextPolled(u)
  PROVE  u \in DOMAIN updates /\ updates[u].reply \in Target
<1>1. u \in DOMAIN updates
  BY DEF NextPolled, GatewayInv, FetchedSent
<1>2. updates \in Seq([stream : Streams, kind : UpdateKinds, reply : Target])
  BY DEF GatewayInv, TypeOK
<1>3. updates[u] \in [stream : Streams, kind : UpdateKinds, reply : Target]
  BY <1>1, <1>2, ElementOfSeq, LenProperties
<1> QED
  BY <1>1, <1>3

\* Every step of the gateway is a transaction of the store, or none.
LEMMA GatewayStore ==
  ASSUME GatewayInv, [Next]_vars
  PROVE  StoreInv' /\ Progress /\ (~up \/ StaysClaimed)
<1>1. CASE UNCHANGED storeVars
  BY <1>1, StutterInv DEF GatewayInv
<1>2. ASSUME NEW u \in UpdateIds, PollAccept(u) \/ PollIgnore(u) \/ PollDownload(u)
      PROVE  StoreInv' /\ Progress /\ StaysClaimed
  <2>1. CASE PollAccept(u)
    <3>1. allowed \in Streams /\ EnqueueTextUpdate(u, allowed, updates[u].kind = "image", updates[u].reply)
      BY <2>1 DEF PollAccept, GatewayInv, TypeOK
    <3>2. (updates[u].kind = "image") \in BOOLEAN
      OBVIOUS
    <3>3. updates[u].reply \in Target
      BY <2>1, PolledReply DEF PollAccept
    <3> QED
      BY <3>1, <3>2, <3>3, EnqueueNewUpdateInv, AdvanceUpdateOffsetInv, OffsetTyped
         DEF EnqueueTextUpdate, GatewayInv
  <2>2. CASE PollIgnore(u)
    BY <2>2, AdvanceUpdateOffsetInv, OffsetTyped DEF PollIgnore, GatewayInv
  <2>3. CASE PollDownload(u)
    BY <2>3, CompleteMediaInv DEF PollDownload, GatewayInv
  <2> QED
    BY <1>2, <2>1, <2>2, <2>3
<1>3. ASSUME NEW j \in DOMAIN jobs, GenClaim(j) \/ Debounce(j)
      PROVE  StoreInv' /\ Progress /\ StaysClaimed
  BY <1>3, ClaimJobInv, DebounceElapsesInv DEF GenClaim, Debounce, GatewayInv
<1>4. ASSUME NEW r \in Replies, GenReply(r)
      PROVE  StoreInv' /\ Progress /\ StaysClaimed
  <2>1. gen.job \in DOMAIN jobs /\ jobs[gen.job].status # "queued"
    BY <1>4 DEF GenReply, GatewayInv, TypeOK, GenStates, Idle, GenClaimed
  <2> QED
    BY <1>4, <2>1, SaveResponseInv DEF GenReply, GatewayInv
<1>5. ASSUME NEW j \in DOMAIN jobs, DeliverClaim(j)
      PROVE  StoreInv' /\ Progress /\ StaysClaimed
  <2>1. jobs[j].response # NoReply
    BY <1>5 DEF DeliverClaim, GatewayInv, StoreInv, AnsweredStatus
  <2> QED
    BY <1>5, <2>1, ClaimDeliveryInv DEF DeliverClaim, GatewayInv
<1>6. ASSUME DeliverMark
      PROVE  StoreInv' /\ Progress /\ StaysClaimed
  <2>1. /\ delivery.job \in DOMAIN jobs
        /\ delivery.chunk \in DOMAIN jobs[delivery.job].chunks
        /\ delivery.mid \in DOMAIN shown
    BY <1>6 DEF DeliverMark, GatewayInv, TypeOK, DeliveryStates, Idle, DeliveryClaimed
  <2>2. delivery.mid \in Nat
    BY <2>1, LenProperties DEF GatewayInv, TypeOK
  <2> QED
    BY <1>6, <2>1, <2>2, MarkChunkDeliveredInv DEF DeliverMark, GatewayInv
<1>7. ASSUME Start
      PROVE  StoreInv' /\ Progress /\ ~up
  BY <1>7, RecoverJobsInv DEF Start, GatewayInv
<1>8. Next => \/ UNCHANGED storeVars
              \/ \E u \in UpdateIds : PollAccept(u) \/ PollIgnore(u) \/ PollDownload(u)
              \/ \E j \in DOMAIN jobs : GenClaim(j) \/ Debounce(j) \/ DeliverClaim(j)
              \/ \E r \in Replies : GenReply(r)
              \/ DeliverMark
              \/ Start
  BY DEF Next, PollStep, GenStep, DeliverStep, UserSends, PollFetch, PollMalformed, PollAborted,
         PollDownloadFails, PollEnds, GenFails, GenFindsNoJob, GenFindsNothing,
         GenClaimCompaction, ClaimCompaction,
         GenCompactionValid, CompleteCompaction, GenCompactionInvalid, FailCompaction,
         DeliverSend, DeliverSendFails, Crash, dbVars, storeVars
<1>9. UNCHANGED vars => UNCHANGED storeVars
  BY DEF vars, dbVars, storeVars
<1> QED
  BY <1>1, <1>2, <1>3, <1>4, <1>5, <1>6, <1>7, <1>8, <1>9

-----------------------------------------------------------------------------
(* The checkpoint table                                                    *)

CheckpointRowsTyped ==
  \A c \in DOMAIN checkpoints :
    /\ DOMAIN checkpoints[c] = {"stream", "end", "digest", "status"}
    /\ checkpoints[c].stream \in Streams
    /\ checkpoints[c].end \in DOMAIN transcript
    /\ checkpoints[c].status \in CheckpointStatus

\* Rows that change only their status.
LEMMA RestatedRows ==
  ASSUME CheckpointRows, CheckpointRowsTyped, DOMAIN transcript \subseteq DOMAIN transcript',
         checkpoints' = [b \in DOMAIN checkpoints |-> checkpoints'[b]],
         \A b \in DOMAIN checkpoints :
           \/ checkpoints'[b] = checkpoints[b]
           \/ \E st \in CheckpointStatus :
                 checkpoints'[b] = [checkpoints[b] EXCEPT !.status = st]
  PROVE  CheckpointRows' /\ CheckpointRowsTyped' /\ DOMAIN checkpoints \subseteq DOMAIN checkpoints'
<1>1. PICK S : checkpoints \in Seq(S)
  BY DEF CheckpointRows
<1>2. DOMAIN checkpoints = 1 .. Len(checkpoints) /\ Len(checkpoints) \in Nat
  BY <1>1, LenProperties
<1>3. PICK T : checkpoints' \in [1 .. Len(checkpoints) -> T]
  <2>1. checkpoints' \in [1 .. Len(checkpoints) -> {checkpoints'[b] : b \in DOMAIN checkpoints}]
    BY <1>2
  <2> QED
    BY <2>1
<1>4. CheckpointRows'
  <2>1. checkpoints' \in Seq(T)
    BY <1>2, <1>3, SeqDef
  <2> QED
    BY <2>1 DEF CheckpointRows
<1>5. ASSUME NEW b \in DOMAIN checkpoints
      PROVE  /\ DOMAIN checkpoints'[b] = {"stream", "end", "digest", "status"}
             /\ checkpoints'[b].stream \in Streams
             /\ checkpoints'[b].end \in DOMAIN transcript
             /\ checkpoints'[b].status \in CheckpointStatus
  BY DEF CheckpointRowsTyped
<1> QED
  BY <1>4, <1>5 DEF CheckpointRowsTyped

\* The table only grows, and its rows keep their types.
LEMMA GatewayCheckpoints ==
  ASSUME GatewayInv, [Next]_vars, DOMAIN transcript \subseteq DOMAIN transcript'
  PROVE  CheckpointRows' /\ CheckpointRowsTyped' /\ DOMAIN checkpoints \subseteq DOMAIN checkpoints'
<1>1. PICK S : checkpoints \in Seq(S)
  BY DEF GatewayInv, CheckpointRows
<1>2. /\ CheckpointRows /\ CheckpointRowsTyped
      /\ DOMAIN checkpoints = 1 .. Len(checkpoints) /\ Len(checkpoints) \in Nat
  BY <1>1, LenProperties DEF GatewayInv, TypeOK, CheckpointsTypeOK, CheckpointRowsTyped
<1>3. CASE UNCHANGED checkpoints
  BY <1>2, <1>3 DEF CheckpointRows, CheckpointRowsTyped
<1>4. ASSUME NEW c, ClaimCompaction(c)
      PROVE  CheckpointRows' /\ CheckpointRowsTyped' /\ DOMAIN checkpoints \subseteq DOMAIN checkpoints'
  <2>0. PICK s \in Streams : \E e \in CompactionPrefix(s) :
          LET row == [stream |-> s, end |-> e, status |-> "pending",
                      digest |-> RowDigest(CompactionPrefix(s))]
          IN  \/ checkpoints' = Append(checkpoints, row)
              \/ c \in DOMAIN checkpoints /\ checkpoints' = [checkpoints EXCEPT ![c] = row]
    BY <1>4 DEF ClaimCompaction
  <2>1. PICK e \in CompactionPrefix(s) :
          LET row == [stream |-> s, end |-> e, status |-> "pending",
                      digest |-> RowDigest(CompactionPrefix(s))]
          IN  \/ checkpoints' = Append(checkpoints, row)
              \/ c \in DOMAIN checkpoints /\ checkpoints' = [checkpoints EXCEPT ![c] = row]
    BY <2>0
  <2>2. PICK row : row = [stream |-> s, end |-> e, status |-> "pending",
                          digest |-> RowDigest(CompactionPrefix(s))]
    OBVIOUS
  <2>3. /\ DOMAIN row = {"stream", "end", "digest", "status"}
        /\ row.stream \in Streams
        /\ row.end \in DOMAIN transcript
        /\ row.status \in CheckpointStatus
    BY <2>2 DEF CompactionPrefix, Rows, CheckpointStatus
  <2>4. checkpoints \in Seq(S \cup {row}) /\ row \in S \cup {row}
    BY <1>1, SeqMonotonic
  <2>5. CASE checkpoints' = Append(checkpoints, row)
    <3>1. /\ checkpoints' \in Seq(S \cup {row})
          /\ DOMAIN checkpoints' = DOMAIN checkpoints \cup {Len(checkpoints) + 1}
          /\ checkpoints'[Len(checkpoints) + 1] = row
          /\ \A b \in DOMAIN checkpoints : checkpoints'[b] = checkpoints[b]
      BY <2>4, <2>5
    <3> QED
      BY <1>2, <2>3, <3>1 DEF CheckpointRows, CheckpointRowsTyped
  <2>6. CASE c \in DOMAIN checkpoints /\ checkpoints' = [checkpoints EXCEPT ![c] = row]
    <3>1. /\ checkpoints' \in Seq(S \cup {row})
          /\ DOMAIN checkpoints' = DOMAIN checkpoints
          /\ checkpoints'[c] = row
          /\ \A b \in DOMAIN checkpoints : b # c => checkpoints'[b] = checkpoints[b]
      BY <1>2, <2>4, <2>6, ExceptSeq
    <3> QED
      BY <1>2, <2>3, <3>1 DEF CheckpointRows, CheckpointRowsTyped
  <2> QED
    BY <2>1, <2>2, <2>5, <2>6
<1>5. ASSUME NEW c, CompleteCompaction(c)
      PROVE  CheckpointRows' /\ CheckpointRowsTyped' /\ DOMAIN checkpoints \subseteq DOMAIN checkpoints'
  BY <1>2, <1>5, RestatedRows DEF CompleteCompaction, CheckpointStatus
<1>6. ASSUME NEW c, FailCompaction(c)
      PROVE  CheckpointRows' /\ CheckpointRowsTyped' /\ DOMAIN checkpoints \subseteq DOMAIN checkpoints'
  BY <1>2, <1>6, RestatedRows DEF FailCompaction, CheckpointStatus
<1>7. CASE RecoverCheckpoints
  BY <1>2, <1>7, RestatedRows DEF RecoverCheckpoints, CheckpointStatus
<1>8. Next => \/ UNCHANGED checkpoints
              \/ \E c : ClaimCompaction(c) \/ CompleteCompaction(c) \/ FailCompaction(c)
              \/ RecoverCheckpoints
  BY DEF Next, PollStep, GenStep, DeliverStep, UserSends, PollFetch, PollAccept, PollIgnore, Ingested,
         PollMalformed, PollAborted, PollDownload, PollDownloadFails, PollEnds, GenClaim, GenReply,
         GenFails, GenFindsNoJob, GenFindsNothing,
         GenClaimCompaction, GenCompactionValid, GenCompactionInvalid, DeliverClaim,
         DeliverSend, DeliverSendFails, DeliverMark, Start, Crash, Debounce, dbVars
<1>9. UNCHANGED vars => UNCHANGED checkpoints
  BY DEF vars, dbVars
<1> QED
  BY <1>3, <1>4, <1>5, <1>6, <1>7, <1>8, <1>9

LEMMA ClaimedRow ==
  ASSUME GatewayInv, NEW c, ClaimCompaction(c)
  PROVE  c \in DOMAIN checkpoints'
<1>1. PICK S : checkpoints \in Seq(S)
  BY DEF GatewayInv, CheckpointRows
<1>2. PICK row : \/ c = Len(checkpoints) + 1 /\ checkpoints' = Append(checkpoints, row)
                 \/ c \in DOMAIN checkpoints /\ checkpoints' = [checkpoints EXCEPT ![c] = row]
  BY DEF ClaimCompaction
<1> QED
  BY <1>1, <1>2

-----------------------------------------------------------------------------
(* The process and Telegram's side                                         *)

LEMMA RepliableTyped ==
  ASSUME GatewayInv, NEW s, NEW reply \in Repliable(s)
  PROVE  reply \in Target
<1>1. 1 .. Len(updates) \subseteq Nat /\ DOMAIN shown \subseteq Nat
  BY LenProperties DEF GatewayInv, TypeOK
<1>2. NoTarget \in Target
  BY DEF NoTarget, Target
<1>3. CASE reply \in [of : ReplyKinds \cap {"update"},
                        id : {u \in 1 .. Len(updates) : updates[u].stream = s}]
  BY <1>1, <1>3 DEF Target
<1>4. CASE reply \in [of : ReplyKinds \cap {"piece"},
                        id : {m \in DOMAIN shown : jobs[shown[m].job].stream = s}]
  BY <1>1, <1>4 DEF Target
<1> QED
  BY <1>2, <1>3, <1>4 DEF Repliable

LEMMA GatewayUpdates ==
  ASSUME GatewayInv, [Next]_vars
  PROVE  /\ updates' \in Seq([stream : Streams, kind : UpdateKinds, reply : Target])
         /\ Len(updates') <= MaxUpdates
         /\ up' \in BOOLEAN /\ allowed' \in Streams /\ restarts' \in 0 .. MaxRestarts
<1>1. /\ updates \in Seq([stream : Streams, kind : UpdateKinds, reply : Target])
      /\ Len(updates) <= MaxUpdates /\ MaxUpdates \in Nat
      /\ up \in BOOLEAN /\ allowed \in Streams
      /\ restarts \in 0 .. MaxRestarts /\ MaxRestarts \in Nat
      /\ Kinds \subseteq UpdateKinds /\ Allowable \subseteq Streams
  BY StoreAssumption, GatewayAssumption DEF GatewayInv, TypeOK
<1>2. ASSUME NEW s \in Streams, NEW kind \in Kinds, NEW reply \in Repliable(s),
             UserSends(s, kind, reply)
      PROVE  /\ updates' \in Seq([stream : Streams, kind : UpdateKinds, reply : Target])
             /\ Len(updates') <= MaxUpdates
  <2>1. reply \in Target
    BY RepliableTyped
  <2> QED
    BY <1>1, <1>2, <2>1 DEF UserSends
<1>3. Start => up' \in BOOLEAN /\ allowed' \in Streams /\ UNCHANGED <<updates, restarts>>
  BY <1>1 DEF Start
<1>4. Crash => up' \in BOOLEAN /\ restarts' \in 0 .. MaxRestarts /\ UNCHANGED <<updates, allowed>>
  <2>1. Crash => restarts < MaxRestarts /\ restarts' = restarts + 1
    BY DEF Crash
  <2>2. Crash => restarts' \in 0 .. MaxRestarts
    BY <1>1, <2>1
  <2> QED
    BY <2>2 DEF Crash
<1>5. Next => \/ UNCHANGED <<updates, up, allowed, restarts>>
              \/ \E s \in Streams, kind \in Kinds : \E reply \in Repliable(s) :
                   UserSends(s, kind, reply) /\ UNCHANGED <<up, allowed, restarts>>
              \/ Start
              \/ Crash
  BY DEF Next, PollStep, GenStep, DeliverStep, UserSends, PollFetch, PollAccept, PollIgnore, Ingested,
         PollMalformed, PollAborted, PollDownload, PollDownloadFails, PollEnds, GenClaim, GenReply,
         GenFails, GenFindsNoJob, GenFindsNothing,
         GenClaimCompaction, GenCompactionValid, GenCompactionInvalid, DeliverClaim,
         DeliverSend, DeliverSendFails, DeliverMark, Start, Crash, Debounce, processVars
<1>6. UNCHANGED vars => UNCHANGED <<updates, up, allowed, restarts>>
  BY DEF vars, processVars
<1> QED
  BY <1>1, <1>2, <1>3, <1>4, <1>5, <1>6

\* Telegram's updates only become more.
LEMMA SentStay ==
  ASSUME GatewayInv, [Next]_vars
  PROVE  /\ DOMAIN updates \subseteq DOMAIN updates'
         /\ \A u \in DOMAIN updates : updates'[u] = updates[u]
<1>1. updates \in Seq([stream : Streams, kind : UpdateKinds, reply : Target])
  BY DEF GatewayInv, TypeOK
<1>2. ASSUME NEW s, NEW kind, NEW reply, UserSends(s, kind, reply)
      PROVE  \E row : updates' = Append(updates, row)
  BY <1>2 DEF UserSends
<1>3. ASSUME NEW row, updates' = Append(updates, row)
      PROVE  /\ DOMAIN updates \subseteq DOMAIN updates'
             /\ \A u \in DOMAIN updates : updates'[u] = updates[u]
  BY <1>1, <1>3, LenProperties
<1>4. Next => \/ updates' = updates
              \/ \E s, kind, reply : UserSends(s, kind, reply)
  BY DEF Next, PollStep, GenStep, DeliverStep, PollFetch, PollAccept, PollIgnore, Ingested,
         PollMalformed, PollAborted, PollDownload, PollDownloadFails, PollEnds, GenClaim, GenReply,
         GenFails, GenFindsNoJob, GenFindsNothing,
         GenClaimCompaction, GenCompactionValid, GenCompactionInvalid, DeliverClaim,
         DeliverSend, DeliverSendFails, DeliverMark, Start, Crash, Debounce
<1>5. UNCHANGED vars => updates' = updates
  BY DEF vars
<1> QED
  BY <1>2, <1>3, <1>4, <1>5

\* Only a crash takes the process down.
LEMMA UpStays == Next => (up' = up \/ up' \/ Crash)
BY DEF Next, PollStep, GenStep, DeliverStep, UserSends, PollFetch, PollAccept, PollIgnore, Ingested,
       PollMalformed, PollAborted, PollDownload, PollDownloadFails, PollEnds, GenClaim, GenReply,
       GenFails, GenFindsNoJob, GenFindsNothing,
       GenClaimCompaction, GenCompactionValid, GenCompactionInvalid, DeliverClaim,
       DeliverSend, DeliverSendFails, DeliverMark, Start, Debounce, processVars

LEMMA GatewayPoll ==
  ASSUME GatewayInv, [Next]_vars
  PROVE  poll' \in [pc : {"idle", "busy"}, batch : SUBSET UpdateIds] /\ FetchedSent'
<1>1. poll \in [pc : {"idle", "busy"}, batch : SUBSET UpdateIds] /\ FetchedSent
  BY DEF GatewayInv, TypeOK
<1>2. CASE PollFetch
  <2>1. {u \in 1 .. Len(updates) : u >= offset} \subseteq UpdateIds
    BY StoreAssumption, LenProperties DEF GatewayInv, TypeOK, UpdateIds
  <2>2. DOMAIN updates = 1 .. Len(updates)
    BY LenProperties DEF GatewayInv, TypeOK
  <2>3. updates' = updates /\ poll' = [pc |-> "busy", batch |-> {u \in 1 .. Len(updates) : u >= offset}]
    BY <1>2 DEF PollFetch
  <2> QED
    BY <2>1, <2>2, <2>3 DEF FetchedSent
<1>3. Next => \/ poll' = poll \/ poll' = PollIdle \/ PollFetch
              \/ \E u \in UpdateIds : poll' = [poll EXCEPT !.batch = @ \ {u}]
  BY DEF Next, PollStep, GenStep, DeliverStep, UserSends, PollFetch, PollAccept, PollIgnore, Ingested,
         PollMalformed, PollAborted, PollDownload, PollDownloadFails, PollEnds, GenClaim, GenReply,
         GenFails, GenFindsNoJob, GenFindsNothing,
         GenClaimCompaction, GenCompactionValid, GenCompactionInvalid, DeliverClaim,
         DeliverSend, DeliverSendFails, DeliverMark, Start, Crash, Debounce, processVars
<1>4. UNCHANGED vars => poll' = poll
  BY DEF vars, processVars
<1>5. DOMAIN updates \subseteq DOMAIN updates'
  BY SentStay
<1> QED
  BY <1>1, <1>2, <1>3, <1>4, <1>5 DEF PollIdle, FetchedSent

\* The generation loop.
LEMMA GatewayGen ==
  ASSUME GatewayInv, [Next]_vars, Progress, ~up \/ StaysClaimed,
         DOMAIN checkpoints \subseteq DOMAIN checkpoints'
  PROVE  (gen \in GenStates)' /\ GenClaimed' /\ (~up' => gen' = Idle)
<1>1. gen \in GenStates /\ GenClaimed /\ (~up => gen = Idle)
  BY DEF GatewayInv, TypeOK, IdleWhileDown
<1>2. CASE gen' = Idle
  BY <1>2 DEF GenStates, GenClaimed, Idle
<1>3. CASE gen' = gen /\ (~up' => ~up)
  BY <1>1, <1>3 DEF GenStates, GenClaimed, Idle, Progress, StaysClaimed
<1>4. ASSUME NEW j \in DOMAIN jobs, GenClaim(j)
      PROVE  (gen \in GenStates)' /\ GenClaimed' /\ (~up' => gen' = Idle)
  <2>1. /\ jobs' = [jobs EXCEPT ![j].status = "processing"]
        /\ gen' = [pc |-> "generating", job |-> j] /\ up'
    BY <1>4 DEF GenClaim, ClaimJob
  <2>2. jobs[j] \in Job
    BY JobsTyped DEF GatewayInv, StoreInv
  <2>3. jobs'[j].status = "processing" /\ DOMAIN jobs' = DOMAIN jobs
    BY <2>1, <2>2 DEF Job
  <2> QED
    BY <2>1, <2>3 DEF GenStates, GenClaimed
<1>5. ASSUME NEW c, GenClaimCompaction(c)
      PROVE  (gen \in GenStates)' /\ GenClaimed' /\ (~up' => gen' = Idle)
  <2>1. c \in DOMAIN checkpoints'
    BY <1>5, ClaimedRow DEF GenClaimCompaction
  <2>2. gen' = [pc |-> "compacting", checkpoint |-> c] /\ up'
    BY <1>5 DEF GenClaimCompaction
  <2> QED
    BY <2>1, <2>2 DEF GenStates, GenClaimed
<1>6. Next => \/ gen' = Idle
              \/ gen' = gen
              \/ \E j \in DOMAIN jobs : GenClaim(j)
              \/ GenFindsNoJob
              \/ \E c : GenClaimCompaction(c)
  BY DEF Next, PollStep, GenStep, DeliverStep, UserSends, PollFetch, PollAccept, PollIgnore, Ingested,
         PollMalformed, PollAborted, PollDownload, PollDownloadFails, PollEnds, GenClaim, GenReply,
         GenFails, GenFindsNothing,
         GenClaimCompaction, GenCompactionValid, GenCompactionInvalid, DeliverClaim,
         DeliverSend, DeliverSendFails, DeliverMark, Start, Crash, Debounce, processVars
<1>7. UNCHANGED vars => gen' = gen /\ up' = up
  BY DEF vars, processVars
<1>8. Next => ((~up' => ~up) \/ gen' = Idle)
  BY UpStays DEF Crash
<1>9. GenFindsNoJob => (gen \in GenStates)' /\ GenClaimed' /\ (~up' => gen' = Idle)
  BY DEF GenFindsNoJob, GenStates, GenClaimed
<1> QED
  BY <1>2, <1>3, <1>4, <1>5, <1>6, <1>7, <1>8, <1>9

-----------------------------------------------------------------------------
(* The delivery loop                                                       *)

LEMMA GatewayShown ==
  ASSUME GatewayInv, [Next]_vars
  PROVE  /\ shown' \in Seq([job : Nat, chunk : Nat, reply : Replies])
         /\ DOMAIN shown \subseteq DOMAIN shown'
<1>1. shown \in Seq([job : Nat, chunk : Nat, reply : Replies])
  BY DEF GatewayInv, TypeOK
<1>2. ASSUME delivery.pc = "claimed", Show(delivery)
      PROVE  /\ shown' \in Seq([job : Nat, chunk : Nat, reply : Replies])
             /\ DOMAIN shown \subseteq DOMAIN shown'
  <2>1. /\ delivery.job \in DOMAIN jobs /\ delivery.chunk \in Nat
        /\ delivery.chunk \in DOMAIN jobs[delivery.job].chunks
    BY <1>2 DEF GatewayInv, TypeOK, DeliveryStates, Idle, DeliveryClaimed
  <2>2. jobs[delivery.job].response \in Replies /\ delivery.job \in Nat
    <3>1. jobs[delivery.job].response # NoReply
      BY <2>1, EmptyDomain DEF GatewayInv, StoreInv, ChunksAnswered
    <3> QED
      BY <2>1, <3>1, JobsTyped DEF GatewayInv, StoreInv, Job
  <2> QED
    BY <1>1, <1>2, <2>1, <2>2 DEF Show
<1>3. Next => \/ shown' = shown
              \/ delivery.pc = "claimed" /\ Show(delivery)
  BY DEF Next, PollStep, GenStep, DeliverStep, UserSends, PollFetch, PollAccept, PollIgnore, Ingested,
         PollMalformed, PollAborted, PollDownload, PollDownloadFails, PollEnds, GenClaim, GenReply,
         GenFails, GenFindsNoJob, GenFindsNothing,
         GenClaimCompaction, GenCompactionValid, GenCompactionInvalid, DeliverClaim,
         DeliverSend, DeliverSendFails, DeliverMark, Start, Crash, Debounce, processVars
<1>4. UNCHANGED vars => shown' = shown
  BY DEF vars
<1> QED
  BY <1>1, <1>2, <1>3, <1>4

LEMMA GatewayDelivery ==
  ASSUME GatewayInv, [Next]_vars, Progress
  PROVE  (delivery \in DeliveryStates)' /\ DeliveryClaimed' /\ (~up' => delivery' = Idle)
<1>1. /\ delivery \in DeliveryStates /\ DeliveryClaimed /\ (~up => delivery = Idle)
      /\ DOMAIN shown \subseteq DOMAIN shown'
      /\ delivery.pc # "idle" => delivery.job \in DOMAIN jobs
  <2>1. delivery \in DeliveryStates /\ DeliveryClaimed /\ (~up => delivery = Idle)
    BY DEF GatewayInv, TypeOK, IdleWhileDown
  <2>2. DOMAIN shown \subseteq DOMAIN shown'
    BY GatewayShown
  <2>3. delivery.pc # "idle" => delivery.job \in DOMAIN jobs
    BY <2>1 DEF DeliveryStates, Idle
  <2> QED
    BY <2>1, <2>2, <2>3
<1>2. CASE delivery' = Idle
  BY <1>2 DEF DeliveryStates, DeliveryClaimed, Idle
<1>3. CASE delivery' = delivery /\ (~up' => ~up)
  <2>1. (delivery \in DeliveryStates)'
    BY <1>1, <1>3 DEF DeliveryStates, Progress
  <2>2. DeliveryClaimed'
    BY <1>1, <1>3 DEF DeliveryClaimed, Progress
  <2> QED
    BY <1>1, <1>3, <2>1, <2>2
<1>4. ASSUME NEW j \in DOMAIN jobs, DeliverClaim(j)
      PROVE  (delivery \in DeliveryStates)' /\ DeliveryClaimed' /\ up'
  <2>1. PICK c \in DOMAIN ClaimChunks(j) :
          /\ ClaimDelivery(j, c)
          /\ delivery' = [pc |-> "claimed", job |-> j, chunk |-> c]
    BY <1>4 DEF DeliverClaim
  <2>2. jobs[j] \in Job /\ jobs[j].response # NoReply
    BY <1>4, JobsTyped DEF DeliverClaim, GatewayInv, StoreInv, AnsweredStatus
  <2>3. ClaimChunks(j) \in Seq(Chunk) /\ c \in Nat
    BY <2>2, ClaimChunksTyped, LenProperties DEF GatewayInv, StoreInv
  <2> DEFINE claimed == [ClaimChunks(j) EXCEPT ![c].status = "sending"]
  <2>4. jobs' = [jobs EXCEPT ![j] = [jobs[j] EXCEPT !.chunks = claimed, !.status = "sending"]]
    BY <2>1 DEF ClaimDelivery
  <2>5. c \in DOMAIN claimed
    BY <2>1
  <2> HIDE DEF claimed
  <2>6. jobs'[j].chunks = claimed /\ DOMAIN jobs' = DOMAIN jobs
    BY <2>2, <2>4 DEF Job
  <2>7. up'
    BY <1>4 DEF DeliverClaim
  <2> QED
    BY <2>1, <2>3, <2>5, <2>6, <2>7 DEF DeliveryStates, DeliveryClaimed
<1>5. CASE DeliverSend
  <2>1. /\ delivery' = [pc |-> "sent", job |-> delivery.job, chunk |-> delivery.chunk,
                        mid |-> Len(shown) + 1]
        /\ jobs' = jobs /\ up' /\ Show(delivery)
        /\ delivery.pc = "claimed"
    BY <1>5 DEF DeliverSend, dbVars
  <2>2. Len(shown) + 1 \in DOMAIN shown'
    BY <2>1 DEF Show, GatewayInv, TypeOK
  <2>3. delivery.job \in DOMAIN jobs /\ delivery.chunk \in Nat
    BY <1>1, <2>1 DEF DeliveryStates, Idle
  <2>4. (delivery \in DeliveryStates)'
    BY <2>1, <2>2, <2>3 DEF DeliveryStates
  <2>5. DeliveryClaimed'
    BY <1>1, <2>1 DEF DeliveryClaimed
  <2> QED
    BY <2>1, <2>4, <2>5
<1>6. Next => \/ delivery' = Idle
              \/ delivery' = delivery
              \/ \E j \in DOMAIN jobs : DeliverClaim(j)
              \/ DeliverSend
  BY DEF Next, PollStep, GenStep, DeliverStep, UserSends, PollFetch, PollAccept, PollIgnore, Ingested,
         PollMalformed, PollAborted, PollDownload, PollDownloadFails, PollEnds, GenClaim, GenReply,
         GenFails, GenFindsNoJob, GenFindsNothing,
         GenClaimCompaction, GenCompactionValid, GenCompactionInvalid,
         DeliverSendFails, DeliverMark, Start, Crash, Debounce, processVars
<1>7. UNCHANGED vars => delivery' = delivery /\ up' = up
  BY DEF vars, processVars
<1>8. Next => ((~up' => ~up) \/ delivery' = Idle)
  BY UpStays DEF Crash
<1> QED
  BY <1>2, <1>3, <1>4, <1>5, <1>6, <1>7, <1>8 DEF DeliverSend

-----------------------------------------------------------------------------
(* The theorems                                                            *)

LEMMA GatewayInitInv ==
  ASSUME Init
  PROVE  GatewayInv
<1>1. StoreInv /\ jobs = << >>
  BY StoreInitInv DEF Init, StoreInit
<1>2. checkpoints = << >> /\ DOMAIN checkpoints = {}
  BY DEF Init
<1>3. CheckpointRows
  BY <1>2, EmptySeq DEF CheckpointRows
<1>4. CheckpointsTypeOK
  BY <1>1, <1>2, EmptySeq DEF CheckpointsTypeOK, StoreInv
<1>5. /\ updates \in Seq([stream : Streams, kind : UpdateKinds, reply : Target])
      /\ Len(updates) <= MaxUpdates
      /\ shown \in Seq([job : Nat, chunk : Nat, reply : Replies])
  BY StoreAssumption, EmptySeq DEF Init
<1>6. up \in BOOLEAN /\ allowed \in Streams /\ restarts \in 0 .. MaxRestarts
  <2>1. up \in BOOLEAN
    BY DEF Init
  <2>2. allowed \in Streams /\ restarts \in 0 .. MaxRestarts
    BY GatewayAssumption DEF Init
  <2> QED
    BY <2>1, <2>2
<1>7. /\ poll \in [pc : {"idle", "busy"}, batch : SUBSET UpdateIds]
      /\ gen \in GenStates /\ delivery \in DeliveryStates
  BY DEF Init, GenStates, DeliveryStates, PollIdle
<1>8. TypeOK
  BY <1>4, <1>5, <1>6, <1>7 DEF TypeOK
<1>9. FetchedSent
  BY DEF Init, PollIdle, FetchedSent
<1> QED
  BY <1>1, <1>3, <1>8, <1>9 DEF Init, GatewayInv, GenClaimed, DeliveryClaimed, IdleWhileDown, Idle

LEMMA GatewayNextInv ==
  ASSUME GatewayInv, [Next]_vars
  PROVE  GatewayInv' /\ Progress
<1>1. StoreInv' /\ Progress /\ (~up \/ StaysClaimed)
  BY GatewayStore
<1>2. CheckpointRows' /\ CheckpointRowsTyped' /\ DOMAIN checkpoints \subseteq DOMAIN checkpoints'
  BY <1>1, GatewayCheckpoints DEF Progress
<1>3. CheckpointsTypeOK'
  <2>1. PICK S : checkpoints' \in Seq(S)
    BY <1>2 DEF CheckpointRows
  <2>2. DOMAIN checkpoints' = 1 .. Len(checkpoints')
    BY <2>1, LenProperties
  <2> QED
    BY <1>1, <1>2, <2>2 DEF CheckpointsTypeOK, CheckpointRowsTyped, StoreInv
<1>4. TypeOK'
  BY <1>1, <1>2, <1>3, GatewayUpdates, GatewayPoll, GatewayGen, GatewayShown, GatewayDelivery
     DEF TypeOK
<1> QED
  BY <1>1, <1>2, <1>4, GatewayPoll, GatewayGen, GatewayDelivery DEF GatewayInv, IdleWhileDown

\* The inductive invariant holds of the running gateway.
THEOREM GatewayInvariant == Spec => []GatewayInv
<1>1. Init => GatewayInv
  BY GatewayInitInv
<1>2. GatewayInv /\ [Next]_vars => GatewayInv'
  BY GatewayNextInv
<1> QED
  BY <1>1, <1>2, PTL DEF Spec

\* Every variable of the gateway keeps its type.
THEOREM GatewayTypes == Spec => []TypeOK
<1>1. GatewayInv => TypeOK
  BY DEF GatewayInv
<1> QED
  BY <1>1, GatewayInvariant, PTL

\* Every stored update is answered by exactly one job, whatever the loops,
\* failures and restarts do (enqueue_text_update).
THEOREM GatewayBatches == Spec => []OneBatchPerUpdate
<1>1. GatewayInv => OneBatchPerUpdate
  BY DEF GatewayInv, StoreInv
<1> QED
  BY <1>1, GatewayInvariant, PTL

\* A stream's jobs are answered in order: none is claimed before every
\* earlier one has its answer (claim_next_job).
THEOREM GatewayAnswersInOrder == Spec => []AnsweredInOrder
<1>1. GatewayInv => AnsweredInOrder
  BY DEF GatewayInv, StoreInv
<1> QED
  BY <1>1, GatewayInvariant, PTL

\* A saved answer and what it answers never change, and its job is never
\* generated again (save_response, recover_incomplete_jobs).
THEOREM GatewayAnswersFinal == Spec => AnswersAreFinal
<1>1. GatewayInv /\ [Next]_vars =>
        [\A j \in DOMAIN jobs : jobs[j].response # NoReply =>
           /\ jobs'[j].response = jobs[j].response
           /\ jobs'[j].batch = jobs[j].batch
           /\ jobs'[j].status \notin {"queued", "processing"}]_vars
  <2> SUFFICES ASSUME GatewayInv, [Next]_vars, NEW j \in DOMAIN jobs, jobs[j].response # NoReply
               PROVE  /\ jobs'[j].response = jobs[j].response
                      /\ jobs'[j].batch = jobs[j].batch
                      /\ jobs'[j].status \notin {"queued", "processing"}
    OBVIOUS
  <2>1. GatewayInv' /\ Progress
    BY GatewayNextInv
  <2>2. /\ jobs'[j].response = jobs[j].response /\ jobs'[j].batch = jobs[j].batch
        /\ j \in DOMAIN jobs'
    BY <2>1 DEF Progress
  <2>3. jobs'[j].status \in {"responded", "sending", "delivered"}
    BY <2>1, <2>2 DEF GatewayInv, StoreInv, AnsweredStatus
  <2> QED
    BY <2>2, <2>3
<1> QED
  BY <1>1, GatewayInvariant, PTL DEF AnswersAreFinal, Spec

-----------------------------------------------------------------------------
(* What Telegram hands out against what is stored                          *)

\* The batch being ingested is every update from the offset to its last, and
\* all that is stored lies before the offset.
PollOrdered ==
  /\ allowed \in Allowable
  /\ offset <= Len(updates) + 1
  /\ \A v \in poll.batch :
       /\ offset <= v /\ v <= Len(updates)
       /\ \A w \in UpdateIds : offset <= w /\ w <= v => w \in poll.batch
  /\ \A v \in UpdateIds : inbox[v] # "absent" => v < offset

-----------------------------------------------------------------------------
(* The transcript                                                          *)

UserRow(i, u) == transcript[i].role = "user" /\ transcript[i].update = u
AssistantRow(i, j) == transcript[i].role = "assistant" /\ transcript[i].update = jobs[j].batch[1]

\* One user row per stored update and no other.
UserRowsKept ==
  /\ \A u \in UpdateIds : inbox[u] # "absent" <=> \E i \in DOMAIN transcript : UserRow(i, u)
  /\ \A u \in UpdateIds : \A i, k \in DOMAIN transcript : UserRow(i, u) /\ UserRow(k, u) => i = k

\* One assistant row per answered job and no other.
AssistantRowsKept ==
  /\ \A j \in DOMAIN jobs :
       jobs[j].response # NoReply <=> \E i \in DOMAIN transcript : AssistantRow(i, j)
  /\ \A j \in DOMAIN jobs : \A i, k \in DOMAIN transcript :
       AssistantRow(i, j) /\ AssistantRow(k, j) => i = k
  /\ \A i \in DOMAIN transcript :
       transcript[i].role = "assistant" => inbox[transcript[i].update] # "absent"

AnswersFollow ==
  \A j \in DOMAIN jobs : \A u \in BatchSet(j) : \A i, k \in DOMAIN transcript :
    AssistantRow(i, j) /\ UserRow(k, u) => k < i

-----------------------------------------------------------------------------
(* What the owner was shown                                                *)

Copies(j, c) == {n \in DOMAIN shown : shown[n].job = j /\ shown[n].chunk = c}

\* The delivery loop holds a chunk that is being sent, the chunks before it
\* being confirmed, and the message it was given for it.
DeliveryHeld ==
  /\ delivery.pc # "idle" =>
       LET chunks == jobs[delivery.job].chunks
       IN  /\ chunks[delivery.chunk].status = "sending"
           /\ \A d \in 1 .. delivery.chunk - 1 : chunks[d].status = "delivered"
  /\ delivery.pc = "sent" => delivery.mid \in Copies(delivery.job, delivery.chunk)

ChunksCounted ==
  \A j \in DOMAIN jobs :
    /\ DOMAIN jobs[j].chunks # {} => DOMAIN jobs[j].chunks = 1 .. ChunkCount[jobs[j].response]
    /\ jobs[j].status = "delivered" =>
         /\ DOMAIN jobs[j].chunks # {}
         /\ \A c \in DOMAIN jobs[j].chunks : jobs[j].chunks[c].status = "delivered"

\* A chunk is shown after the chunks before it are confirmed.
ShownInOrder ==
  /\ \A m \in DOMAIN shown :
       /\ shown[m].job \in DOMAIN jobs
       /\ shown[m].reply = jobs[shown[m].job].response
       /\ shown[m].chunk \in DOMAIN jobs[shown[m].job].chunks
       /\ \A d \in 1 .. shown[m].chunk - 1 :
            jobs[shown[m].job].chunks[d].status = "delivered"
  /\ \A m, n \in DOMAIN shown :
       m < n /\ shown[m].job = shown[n].job => shown[m].chunk <= shown[n].chunk

ConfirmedShown ==
  \A j \in DOMAIN jobs : \A c \in DOMAIN jobs[j].chunks :
    jobs[j].chunks[c].status = "delivered" => Copies(j, c) # {}

\* In this run the process may have shown the chunk once more.
Taken(j, c) ==
  /\ up
  /\ jobs[j].chunks[c].status # "pending"
  /\ ~(delivery.pc = "claimed" /\ delivery.job = j /\ delivery.chunk = c)

CopiesBounded ==
  \A j \in DOMAIN jobs : \A c \in DOMAIN jobs[j].chunks :
    Cardinality(Copies(j, c)) <= restarts + IF Taken(j, c) THEN 1 ELSE 0

-----------------------------------------------------------------------------
(* Coverage                                                                *)

CoverageInStream ==
  \A c \in DOMAIN checkpoints : checkpoints[c].end \in Rows(checkpoints[c].stream)

\* A pending checkpoint covers what the active one covers.
CoverageOrdered ==
  \A b, c \in DOMAIN checkpoints :
    /\ checkpoints[b].stream = checkpoints[c].stream
    /\ checkpoints[b].status = "active"
    /\ checkpoints[c].status = "pending"
    => checkpoints[b].end <= checkpoints[c].end

-----------------------------------------------------------------------------
(* The updates arrive in order                                             *)

\* The offset moves past the first update of the batch.
LEMMA BatchAdvances ==
  ASSUME GatewayInv, PollOrdered, NEW u \in UpdateIds, NextPolled(u),
         offset' = Larger(offset, u + 1), poll' = [poll EXCEPT !.batch = @ \ {u}],
         UNCHANGED <<updates, allowed>>,
         \A v \in UpdateIds : inbox'[v] # "absent" => inbox[v] # "absent" \/ v = u
  PROVE  PollOrdered'
<1>1. /\ offset \in Nat /\ UpdateIds \subseteq Nat /\ poll.batch \subseteq UpdateIds
      /\ poll \in [pc : {"idle", "busy"}, batch : SUBSET UpdateIds]
  BY StoreAssumption DEF GatewayInv, TypeOK, StoreInv, StoreTypeOK, UpdateIds
<1>2. poll'.batch = poll.batch \ {u}
  BY <1>1
<1>3. u \in poll.batch /\ offset <= u /\ u <= Len(updates) /\ Len(updates) \in Nat
  BY LenProperties DEF NextPolled, PollOrdered, GatewayInv, TypeOK
<1>4. offset' = u + 1
  BY <1>1, <1>3 DEF Larger
<1>5. ASSUME NEW v \in poll'.batch
      PROVE  /\ offset' <= v /\ v <= Len(updates)
             /\ \A w \in UpdateIds : offset' <= w /\ w <= v => w \in poll'.batch
  <2>1. v \in poll.batch /\ v # u /\ u <= v /\ v \in Nat /\ u \in Nat
    BY <1>1, <1>2, <1>5 DEF NextPolled
  <2> QED
    BY <1>1, <1>2, <1>3, <1>4, <2>1 DEF PollOrdered
<1>6. ASSUME NEW v \in UpdateIds, inbox'[v] # "absent"
      PROVE  v < offset'
  BY <1>1, <1>3, <1>4, <1>6 DEF PollOrdered
<1>7. allowed' \in Allowable /\ offset' <= Len(updates') + 1
  BY <1>1, <1>3, <1>4 DEF PollOrdered
<1>8. updates' = updates
  OBVIOUS
<1> QED
  BY <1>5, <1>6, <1>7, <1>8 DEF PollOrdered

LEMMA PollOrderedKept ==
  ASSUME GatewayInv, PollOrdered, [Next]_vars
  PROVE  PollOrdered'
<1>1. /\ offset \in Nat /\ UpdateIds \subseteq Nat /\ poll.batch \subseteq UpdateIds
      /\ Len(updates) \in Nat /\ inbox \in [UpdateIds -> InboxStatus]
      /\ updates \in Seq([stream : Streams, kind : UpdateKinds, reply : Target])
  BY StoreAssumption, LenProperties DEF GatewayInv, TypeOK, StoreInv, StoreTypeOK, UpdateIds
<1>2. CASE UNCHANGED <<offset, inbox, updates, allowed, poll>>
  BY <1>2 DEF PollOrdered
<1>3. ASSUME NEW s \in Streams, NEW kind \in Kinds, NEW reply \in Repliable(s),
             UserSends(s, kind, reply)
      PROVE  PollOrdered'
  <2>1. UNCHANGED <<offset, inbox, allowed, poll>> /\ Len(updates') = Len(updates) + 1
    BY <1>1, <1>3, GatewayAssumption DEF UserSends, dbVars, processVars
  <2>2. offset <= Len(updates')  + 1 /\ \A v \in poll.batch : v <= Len(updates')
    <3>1. offset <= Len(updates) + 1 /\ \A v \in poll.batch : v \in Nat /\ v <= Len(updates)
      BY <1>1 DEF PollOrdered
    <3> QED
      BY <1>1, <2>1, <3>1
  <2> QED
    BY <2>1, <2>2 DEF PollOrdered
<1>4. CASE PollFetch
  <2>1. /\ poll'.batch = {u \in 1 .. Len(updates) : u >= offset}
        /\ UNCHANGED <<offset, inbox, updates, allowed>>
    BY <1>4 DEF PollFetch, dbVars
  <2>2. UpdateIds \subseteq Nat \ {0}
    BY DEF UpdateIds
  <2>3. ASSUME NEW v \in poll'.batch
        PROVE  /\ offset <= v /\ v <= Len(updates)
               /\ \A w \in UpdateIds : offset <= w /\ w <= v => w \in poll'.batch
    <3>1. v \in Nat /\ offset <= v /\ v <= Len(updates)
      BY <1>1, <2>1, <2>3
    <3>2. ASSUME NEW w \in UpdateIds, offset <= w, w <= v
          PROVE  w \in 1 .. Len(updates) /\ w >= offset
      BY <1>1, <2>2, <3>1, <3>2
    <3> QED
      BY <2>1, <3>1, <3>2
  <2> QED
    BY <2>1, <2>3 DEF PollOrdered
<1>5. ASSUME NEW u \in UpdateIds, PollAccept(u) \/ PollIgnore(u)
      PROVE  PollOrdered'
  <2>1. /\ NextPolled(u) /\ offset' = Larger(offset, u + 1)
        /\ poll' = [poll EXCEPT !.batch = @ \ {u}] /\ UNCHANGED <<updates, allowed>>
    BY <1>5 DEF PollAccept, PollIgnore, Ingested, EnqueueTextUpdate, EnqueueNewUpdate, AdvanceUpdateOffset
  <2>2. (\E st : inbox' = [inbox EXCEPT ![u] = st]) \/ inbox' = inbox
    BY <1>5 DEF PollAccept, PollIgnore, EnqueueTextUpdate, EnqueueNewUpdate, AdvanceUpdateOffset
  <2>3. \A v \in UpdateIds : inbox'[v] # "absent" => inbox[v] # "absent" \/ v = u
    BY <1>1, <2>2
  <2> QED
    BY <2>1, <2>3, BatchAdvances
<1>6. ASSUME NEW u \in UpdateIds, PollDownload(u)
      PROVE  PollOrdered'
  <2>1. /\ inbox[u] # "absent" /\ inbox' = [inbox EXCEPT ![u] = "ready"]
        /\ UNCHANGED <<offset, updates, allowed, poll>>
    BY <1>6 DEF PollDownload, CompleteMedia, PendingMedia, processVars
  <2>2. \A v \in UpdateIds : inbox'[v] # "absent" => inbox[v] # "absent"
    BY <1>1, <2>1
  <2> QED
    BY <2>1, <2>2 DEF PollOrdered
<1>7. CASE poll' = PollIdle /\ UNCHANGED <<offset, inbox, updates, allowed>>
  BY <1>7 DEF PollOrdered, PollIdle
<1>8. CASE Start
  BY <1>8 DEF PollOrdered, Start, RecoverJobs
<1>9. Next => \/ UNCHANGED <<offset, inbox, updates, allowed, poll>>
              \/ \E s \in Streams, kind \in Kinds : \E reply \in Repliable(s) :
                   UserSends(s, kind, reply)
              \/ PollFetch
              \/ \E u \in UpdateIds : PollAccept(u) \/ PollIgnore(u) \/ PollDownload(u)
              \/ poll' = PollIdle /\ UNCHANGED <<offset, inbox, updates, allowed>>
              \/ Start
  BY DEF Next, PollStep, GenStep, DeliverStep, PollMalformed, PollAborted,
         PollDownloadFails, PollEnds, GenClaim, ClaimJob, GenReply, SaveResponse, GenFails,
         GenFindsNoJob, GenFindsNothing,
         GenClaimCompaction, ClaimCompaction, GenCompactionValid, CompleteCompaction,
         GenCompactionInvalid, FailCompaction, DeliverClaim, ClaimDelivery, DeliverSend,
         DeliverSendFails, DeliverMark, MarkChunkDelivered, Crash, Debounce, DebounceElapses,
         dbVars, storeVars, processVars
<1>10. UNCHANGED vars => UNCHANGED <<offset, inbox, updates, allowed, poll>>
  BY DEF vars, dbVars, processVars
<1> QED
  BY <1>2, <1>3, <1>4, <1>5, <1>6, <1>7, <1>8, <1>9, <1>10

\* Nothing the owner wrote is acknowledged before it is stored
\* (run_polling_once, advance_update_offset).
LEMMA NothingSkippedKept ==
  ASSUME GatewayInv, PollOrdered, NothingSkipped, [Next]_vars
  PROVE  NothingSkipped'
<1>1. /\ offset \in Nat /\ UpdateIds \subseteq Nat /\ poll.batch \subseteq UpdateIds
      /\ Len(updates) \in Nat /\ Len(updates) <= MaxUpdates /\ inbox \in [UpdateIds -> InboxStatus]
      /\ updates \in Seq([stream : Streams, kind : UpdateKinds, reply : Target])
      /\ DOMAIN updates = 1 .. Len(updates) /\ 1 .. Len(updates) \subseteq UpdateIds
  BY StoreAssumption, LenProperties DEF GatewayInv, TypeOK, StoreInv, StoreTypeOK, UpdateIds
<1>2. CASE UNCHANGED <<offset, inbox, updates>>
  BY <1>2 DEF NothingSkipped
<1>3. ASSUME NEW s \in Streams, NEW kind \in Kinds, NEW reply \in Repliable(s),
             UserSends(s, kind, reply)
      PROVE  NothingSkipped'
  <2>1. /\ UNCHANGED <<offset, inbox>> /\ Len(updates') = Len(updates) + 1
        /\ \A v \in 1 .. Len(updates) : updates'[v] = updates[v]
    BY <1>1, <1>3, GatewayAssumption DEF UserSends, dbVars
  <2>2. ASSUME NEW v \in 1 .. Len(updates'), v < offset
        PROVE  v \in 1 .. Len(updates)
    BY <1>1, <2>1, <2>2 DEF PollOrdered
  <2> QED
    BY <2>1, <2>2 DEF NothingSkipped
<1>4. ASSUME NEW u \in UpdateIds, PollAccept(u) \/ PollIgnore(u)
      PROVE  NothingSkipped'
  <2>1. /\ NextPolled(u) /\ offset' = Larger(offset, u + 1) /\ updates' = updates
    BY <1>4 DEF PollAccept, PollIgnore, Ingested, EnqueueTextUpdate, EnqueueNewUpdate, AdvanceUpdateOffset
  <2>2. u \in Nat /\ offset <= u /\ offset' = u + 1
    <3>1. u \in Nat /\ offset <= u
      BY <1>1, <2>1 DEF NextPolled, PollOrdered
    <3> QED
      BY <1>1, <2>1, <3>1 DEF Larger
  <2>3. \A v \in UpdateIds : inbox[v] # "absent" => inbox'[v] # "absent"
    <3>1. (\E st \in {"pending", "text"} : inbox' = [inbox EXCEPT ![u] = st]) \/ inbox' = inbox
      BY <1>4 DEF PollAccept, PollIgnore, EnqueueTextUpdate, EnqueueNewUpdate, AdvanceUpdateOffset
    <3> QED
      BY <1>1, <3>1
  <2>4. PollAccept(u) => inbox'[u] # "absent"
    BY <1>1 DEF PollAccept, EnqueueTextUpdate, EnqueueNewUpdate, AdvanceUpdateOffset
  <2>5. PollIgnore(u) => ~(Allowable = {updates[u].stream} /\ updates[u].kind \in {"text", "image"})
    BY DEF PollIgnore, PollOrdered
  <2>6. ASSUME NEW v \in 1 .. Len(updates), v < offset', Allowable = {updates[v].stream},
               updates[v].kind \in {"text", "image"}
        PROVE  inbox'[v] # "absent"
    <3>1. CASE v < offset
      BY <1>1, <2>3, <2>6, <3>1 DEF NothingSkipped
    <3>2. CASE offset <= v
      <4>1. v \in poll.batch
        <5>1. u \in poll.batch /\ v <= u /\ v \in UpdateIds
          BY <1>1, <2>1, <2>2, <2>6 DEF NextPolled
        <5> QED
          BY <3>2, <5>1 DEF PollOrdered
      <4>2. v = u
        BY <1>1, <2>1, <2>2, <2>6, <4>1 DEF NextPolled
      <4> QED
        BY <1>4, <2>4, <2>5, <2>6, <4>2
    <3> QED
      BY <1>1, <3>1, <3>2
  <2> QED
    BY <2>1, <2>6 DEF NothingSkipped
<1>5. ASSUME NEW u \in UpdateIds, PollDownload(u)
      PROVE  NothingSkipped'
  <2>1. inbox' = [inbox EXCEPT ![u] = "ready"] /\ UNCHANGED <<offset, updates>>
    BY <1>5 DEF PollDownload, CompleteMedia
  <2>2. \A v \in UpdateIds : inbox[v] # "absent" => inbox'[v] # "absent"
    BY <1>1, <2>1
  <2> QED
    BY <1>1, <2>1, <2>2 DEF NothingSkipped
<1>6. Next => \/ UNCHANGED <<offset, inbox, updates>>
              \/ \E s \in Streams, kind \in Kinds : \E reply \in Repliable(s) :
                   UserSends(s, kind, reply)
              \/ \E u \in UpdateIds : PollAccept(u) \/ PollIgnore(u) \/ PollDownload(u)
  BY DEF Next, PollStep, GenStep, DeliverStep, PollFetch, PollMalformed, PollAborted,
         PollDownloadFails, PollEnds, GenClaim, ClaimJob, GenReply, SaveResponse, GenFails,
         GenFindsNoJob, GenFindsNothing,
         GenClaimCompaction, ClaimCompaction, GenCompactionValid, CompleteCompaction,
         GenCompactionInvalid, FailCompaction, DeliverClaim, ClaimDelivery, DeliverSend,
         DeliverSendFails, DeliverMark, MarkChunkDelivered, Crash, Start, RecoverJobs, Debounce,
         DebounceElapses, dbVars, storeVars
<1>7. UNCHANGED vars => UNCHANGED <<offset, inbox, updates>>
  BY DEF vars, dbVars
<1> QED
  BY <1>2, <1>3, <1>4, <1>5, <1>6, <1>7

\* A new update comes after every stored one.
LEMMA NewUpdateIsLast ==
  ASSUME GatewayInv, PollOrdered, NEW u \in UpdateIds, NextPolled(u)
  PROVE  /\ inbox[u] = "absent"
         /\ \A v \in UpdateIds : inbox[v] # "absent" => v < u
<1>1. /\ offset \in Nat /\ UpdateIds \subseteq Nat /\ poll.batch \subseteq UpdateIds
  BY StoreAssumption DEF GatewayInv, TypeOK, StoreInv, StoreTypeOK, UpdateIds
<1>2. u \in Nat /\ offset <= u
  BY <1>1 DEF NextPolled, PollOrdered
<1>3. \A v \in UpdateIds : inbox[v] # "absent" => v \in Nat /\ v < offset
  BY <1>1 DEF PollOrdered
<1> QED
  BY <1>1, <1>2, <1>3

-----------------------------------------------------------------------------
(* How a step changes the batches                                          *)

\* u became the last of the batch of job j of stream s, at place n; j is a
\* new job or was the last one of the stream.
Joined(u, s, j, n) ==
  /\ j \in DOMAIN jobs' /\ DOMAIN jobs' = DOMAIN jobs \cup {j}
  /\ n \in Nat \ {0} /\ DOMAIN jobs'[j].batch = 1 .. n /\ jobs'[j].batch[n] = u
  /\ jobs'[j].stream = s /\ jobs'[j].status = "queued" /\ jobs'[j].response = NoReply
  /\ \A k \in DOMAIN jobs \ {j} : jobs'[k] = jobs[k]
  /\ \A k \in DOMAIN jobs : jobs[k].stream = s => k <= j
  /\ j \in DOMAIN jobs =>
       /\ jobs[j].stream = s /\ jobs[j].status = "queued" /\ jobs[j].response = NoReply
       /\ n > 1 /\ DOMAIN jobs[j].batch = 1 .. n - 1
       /\ \A a \in 1 .. n - 1 : jobs'[j].batch[a] = jobs[j].batch[a]
       /\ jobs'[j].chunks = jobs[j].chunks
  /\ j \notin DOMAIN jobs => n = 1 /\ jobs'[j].chunks = << >>

LEMMA StoredUpdate ==
  ASSUME GatewayInv, NEW u \in UpdateIds, NEW s \in Streams, NEW hasMedia \in BOOLEAN,
         NEW reply, EnqueueNewUpdate(u, s, hasMedia, reply)
  PROVE  \E j, n \in Nat : Joined(u, s, j, n)
<1>0. /\ StoreTypeOK /\ Len(jobs) \in Nat /\ DOMAIN jobs = 1 .. Len(jobs) /\ jobs \in Seq(Job)
  BY JobsTyped DEF GatewayInv, StoreInv, StoreTypeOK
<1>1. CASE QueuedJobs(s) = {} /\ jobs' = Append(jobs, NewJob(s, u))
  <2>1. PICK e : e = NewJob(s, u)
    OBVIOUS
  <2>2. e \in Job
    BY <2>1, StoreAssumption DEF NewJob, Job, JobStatus
  <2>3. /\ e.stream = s /\ e.batch = <<u>> /\ e.status = "queued"
        /\ e.response = NoReply /\ e.chunks = << >>
    BY <2>1 DEF NewJob
  <2>4. PICK j \in Nat : j = Len(jobs) + 1
    BY <1>0
  <2>5. /\ DOMAIN jobs' = DOMAIN jobs \cup {j} /\ jobs'[j] = e
        /\ \A k \in DOMAIN jobs : jobs'[k] = jobs[k] /\ k < j /\ k \in Nat
    BY <1>0, <1>1, <2>1, <2>2, <2>4, AppendedJob
  <2>6. DOMAIN e.batch = 1 .. 1 /\ e.batch[1] = u
    BY <2>3
  <2>7. j \notin DOMAIN jobs
    BY <2>5
  <2>8. Joined(u, s, j, 1)
    BY <2>3, <2>5, <2>6, <2>7 DEF Joined
  <2> QED
    BY <2>8
<1>2. ASSUME NEW j \in QueuedJobs(s), \A k \in QueuedJobs(s) : k <= j,
             jobs' = [jobs EXCEPT ![j] = [jobs[j] EXCEPT !.batch = Append(@, u), !.ready = FALSE]]
      PROVE  \E i, n \in Nat : Joined(u, s, i, n)
  <2>1. /\ j \in DOMAIN jobs /\ jobs[j].stream = s /\ jobs[j].status = "queued" /\ j \in Nat
        /\ jobs[j] \in Job /\ jobs[j].batch \in Seq(UpdateIds)
    BY <1>0, <1>2, JobsTyped DEF QueuedJobs
  <2>2. jobs[j].response = NoReply /\ jobs[j].batch # << >>
    BY <2>1 DEF GatewayInv, StoreInv, AnsweredStatus, BatchesStored
  <2>3. PICK batch : batch = Append(jobs[j].batch, u)
    OBVIOUS
  <2>4. PICK n \in Nat : n = Len(jobs[j].batch) + 1
    BY <2>1, LenProperties
  <2>5. /\ batch \in Seq(UpdateIds) /\ DOMAIN batch = 1 .. n /\ batch[n] = u /\ n > 1
        /\ DOMAIN jobs[j].batch = 1 .. n - 1
        /\ \A a \in 1 .. n - 1 : batch[a] = jobs[j].batch[a]
    <3>1. batch \in Seq(UpdateIds) /\ Len(batch) = n /\ Len(jobs[j].batch) = n - 1
      BY <2>1, <2>3, <2>4, LenProperties
    <3>2. batch[n] = u /\ \A a \in 1 .. n - 1 : batch[a] = jobs[j].batch[a]
      BY <2>1, <2>3, <2>4, <3>1
    <3>3. Len(jobs[j].batch) # 0
      BY <2>1, <2>2, EmptySeq
    <3> QED
      BY <2>1, <2>4, <3>1, <3>2, <3>3, LenProperties
  <2>6. PICK e : e = [jobs[j] EXCEPT !.batch = batch, !.ready = FALSE]
    OBVIOUS
  <2>7. e \in Job
    BY <2>1, <2>5, <2>6 DEF Job
  <2>8. /\ e.stream = s /\ e.status = "queued" /\ e.response = NoReply /\ e.batch = batch
        /\ e.chunks = jobs[j].chunks
    BY <2>1, <2>2, <2>6 DEF Job
  <2>9. /\ DOMAIN jobs' = DOMAIN jobs /\ jobs'[j] = e
        /\ \A k \in DOMAIN jobs : k # j => jobs'[k] = jobs[k]
    <3>1. jobs' = [jobs EXCEPT ![j] = e]
      BY <1>2, <2>3, <2>6
    <3> QED
      BY <1>0, <2>1, <2>7, <3>1, UpdatedJob
  <2>10. ASSUME NEW k \in DOMAIN jobs, jobs[k].stream = s
         PROVE  k <= j
    <3>1. CASE jobs[k].status = "queued"
      BY <1>2, <2>10, <3>1 DEF QueuedJobs
    <3>2. CASE jobs[k].status # "queued" /\ j < k
      BY <2>1, <2>2, <2>10, <3>2 DEF GatewayInv, StoreInv, AnsweredInOrder
    <3> QED
      BY <1>0, <2>1, <3>1, <3>2
  <2>11. Joined(u, s, j, n)
    <3>1. /\ j \in DOMAIN jobs' /\ DOMAIN jobs' = DOMAIN jobs \cup {j}
          /\ \A k \in DOMAIN jobs \ {j} : jobs'[k] = jobs[k]
          /\ jobs'[j].stream = s /\ jobs'[j].status = "queued" /\ jobs'[j].response = NoReply
          /\ jobs'[j].batch = batch /\ jobs'[j].chunks = jobs[j].chunks
      BY <2>1, <2>8, <2>9
    <3>2. n \in Nat \ {0}
      BY <2>5
    <3> QED
      BY <2>1, <2>2, <2>5, <2>10, <3>1, <3>2 DEF Joined
  <2> QED
    BY <2>1, <2>11
<1> QED
  BY <1>1, <1>2 DEF EnqueueNewUpdate, JoinBatch

-----------------------------------------------------------------------------
(* What the other transactions do to a job                                 *)

OnlyJob(j) == DOMAIN jobs' = DOMAIN jobs /\ \A k \in DOMAIN jobs \ {j} : jobs'[k] = jobs[k]

SameBatch(k) == jobs'[k].stream = jobs[k].stream /\ jobs'[k].batch = jobs[k].batch

LEMMA StatedJob ==
  ASSUME GatewayInv, NEW j \in DOMAIN jobs, ClaimJob(j) \/ DebounceElapses(j)
  PROVE  /\ OnlyJob(j) /\ SameBatch(j)
         /\ jobs'[j].response = jobs[j].response /\ jobs'[j].chunks = jobs[j].chunks
         /\ \/ jobs'[j].status = jobs[j].status
            \/ jobs[j].status = "queued" /\ jobs'[j].status = "processing"
         /\ UNCHANGED <<offset, inbox, transcript>>
<1>1. jobs[j] \in Job
  BY JobsTyped DEF GatewayInv, StoreInv
<1> QED
  BY <1>1 DEF ClaimJob, Claimable, DebounceElapses, OnlyJob, SameBatch, Job

LEMMA SavedAnswer ==
  ASSUME GatewayInv, NEW j \in DOMAIN jobs, NEW r \in Replies, SaveResponse(j, r),
         ~ UNCHANGED storeVars
  PROVE  /\ OnlyJob(j) /\ SameBatch(j)
         /\ jobs[j].response = NoReply /\ jobs'[j].response = r
         /\ jobs'[j].chunks = jobs[j].chunks /\ jobs'[j].status = "responded"
         /\ transcript' = Append(transcript, AssistantEntry(j))
         /\ UNCHANGED <<offset, inbox>>
<1>1. jobs[j] \in Job
  BY JobsTyped DEF GatewayInv, StoreInv
<1>2. /\ jobs' = [jobs EXCEPT ![j] = [jobs[j] EXCEPT !.response = r, !.status = "responded"]]
      /\ jobs[j].response = NoReply
  BY DEF SaveResponse
<1>3. OnlyJob(j)
  BY <1>2 DEF OnlyJob
<1>4. /\ SameBatch(j) /\ jobs'[j].response = r
      /\ jobs'[j].chunks = jobs[j].chunks /\ jobs'[j].status = "responded"
  BY <1>1, <1>2 DEF SameBatch, Job
<1> QED
  BY <1>2, <1>3, <1>4 DEF SaveResponse

LEMMA ClaimedChunk ==
  ASSUME GatewayInv, NEW j \in DOMAIN jobs, NEW c \in DOMAIN ClaimChunks(j), ClaimDelivery(j, c)
  PROVE  /\ OnlyJob(j) /\ SameBatch(j)
         /\ jobs[j].status = "responded" /\ jobs[j].response # NoReply
         /\ jobs'[j].response = jobs[j].response /\ jobs'[j].status = "sending"
         /\ DOMAIN jobs'[j].chunks = DOMAIN ClaimChunks(j)
         /\ jobs'[j].chunks[c].status = "sending"
         /\ \A d \in DOMAIN ClaimChunks(j) \ {c} : jobs'[j].chunks[d] = ClaimChunks(j)[d]
         /\ UNCHANGED <<offset, inbox, transcript>>
<1>1. jobs[j] \in Job
  BY JobsTyped DEF GatewayInv, StoreInv
<1>2. jobs[j].status = "responded" /\ jobs[j].response # NoReply
  BY DEF ClaimDelivery, GatewayInv, StoreInv, AnsweredStatus
<1>3. PICK chunks : chunks = [ClaimChunks(j) EXCEPT ![c].status = "sending"]
  OBVIOUS
<1>4. jobs' = [jobs EXCEPT ![j] = [jobs[j] EXCEPT !.chunks = chunks, !.status = "sending"]]
  BY <1>3 DEF ClaimDelivery
<1>5. /\ OnlyJob(j) /\ SameBatch(j) /\ jobs'[j].chunks = chunks
      /\ jobs'[j].response = jobs[j].response /\ jobs'[j].status = "sending"
  BY <1>1, <1>4 DEF OnlyJob, SameBatch, Job
<1>6. /\ DOMAIN chunks = DOMAIN ClaimChunks(j)
      /\ \A d \in DOMAIN ClaimChunks(j) \ {c} : chunks[d] = ClaimChunks(j)[d]
  BY <1>3
<1>7. chunks[c].status = "sending"
  <2>1. ClaimChunks(j) \in Seq(Chunk)
    BY <1>2, ClaimChunksTyped DEF GatewayInv, StoreInv
  <2>2. ClaimChunks(j)[c] \in Chunk
    BY <2>1, ElementOfSeq, LenProperties
  <2>3. chunks[c] = [ClaimChunks(j)[c] EXCEPT !.status = "sending"]
    BY <1>3
  <2> QED
    BY <2>2, <2>3 DEF Chunk
<1> QED
  BY <1>2, <1>5, <1>6, <1>7 DEF ClaimDelivery

LEMMA MarkedChunk ==
  ASSUME GatewayInv, NEW j \in DOMAIN jobs, NEW c \in DOMAIN jobs[j].chunks, NEW m \in Nat,
         MarkChunkDelivered(j, c, m),
         jobs[j].chunks[c].status = "sending" \/ ~ UNCHANGED storeVars
  PROVE  /\ OnlyJob(j) /\ SameBatch(j)
         /\ jobs'[j].response = jobs[j].response
         /\ DOMAIN jobs'[j].chunks = DOMAIN jobs[j].chunks
         /\ jobs'[j].chunks[c] = [status |-> "delivered", mid |-> m]
         /\ \A d \in DOMAIN jobs[j].chunks \ {c} : jobs'[j].chunks[d] = jobs[j].chunks[d]
         /\ jobs'[j].status = IF \A d \in DOMAIN jobs[j].chunks \ {c} :
                                   jobs[j].chunks[d].status = "delivered"
                              THEN "delivered" ELSE "responded"
         /\ UNCHANGED <<offset, inbox, transcript>>
<1>1. jobs[j] \in Job
  BY JobsTyped DEF GatewayInv, StoreInv
<1> DEFINE mark == [status |-> "delivered", mid |-> m]
           marked == [jobs[j].chunks EXCEPT ![c] = mark]
           state == IF \A d \in DOMAIN jobs[j].chunks \ {c} :
                         jobs[j].chunks[d].status = "delivered"
                    THEN "delivered" ELSE "responded"
           e == [jobs[j] EXCEPT !.chunks = marked, !.status = state]
<1>2. jobs' = [jobs EXCEPT ![j] = e] /\ UNCHANGED <<offset, inbox, transcript>>
  BY DEF MarkChunkDelivered
<1>3. /\ DOMAIN marked = DOMAIN jobs[j].chunks /\ marked[c] = mark
      /\ \A d \in DOMAIN jobs[j].chunks \ {c} : marked[d] = jobs[j].chunks[d]
  OBVIOUS
<1> HIDE DEF marked, state
<1>4. /\ e.stream = jobs[j].stream /\ e.batch = jobs[j].batch /\ e.response = jobs[j].response
      /\ e.chunks = marked /\ e.status = state
  BY <1>1 DEF Job
<1> HIDE DEF e
<1>5. OnlyJob(j) /\ jobs'[j] = e
  BY <1>2 DEF OnlyJob
<1> QED
  BY <1>2, <1>3, <1>4, <1>5 DEF SameBatch, state

LEMMA RecoveredJob ==
  ASSUME GatewayInv, RecoverJobs, NEW j \in DOMAIN jobs
  PROVE  /\ SameBatch(j)
         /\ jobs'[j].response = jobs[j].response
         /\ jobs'[j].status = RecoveredStatus(jobs[j].status)
         /\ DOMAIN jobs'[j].chunks = DOMAIN jobs[j].chunks
         /\ \A c \in DOMAIN jobs[j].chunks :
              jobs'[j].chunks[c] = RecoveredChunk(jobs[j].chunks[c])
<1>1. jobs[j] \in Job
  BY JobsTyped DEF GatewayInv, StoreInv
<1>2. PICK chunks : chunks = [c \in DOMAIN jobs[j].chunks |-> RecoveredChunk(jobs[j].chunks[c])]
  OBVIOUS
<1>3. jobs'[j] = [jobs[j] EXCEPT !.status = RecoveredStatus(@), !.chunks = chunks]
  BY <1>2 DEF RecoverJobs
<1>4. /\ SameBatch(j) /\ jobs'[j].response = jobs[j].response
      /\ jobs'[j].status = RecoveredStatus(jobs[j].status) /\ jobs'[j].chunks = chunks
  BY <1>1, <1>3 DEF SameBatch, Job
<1> QED
  BY <1>2, <1>4

-----------------------------------------------------------------------------
(* Every step of the gateway, by what it does to the store                 *)

Stores(u) ==
  /\ PollAccept(u) /\ NextPolled(u)
  /\ EnqueueNewUpdate(u, allowed, updates[u].kind = "image", updates[u].reply)
Saves(r) == GenReply(r) /\ ~ UNCHANGED storeVars
Marks == DeliverMark /\ ~ UNCHANGED storeVars

\* Whatever else happens leaves the jobs and the transcript alone.
LEMMA StoreSteps ==
  ASSUME GatewayInv, [Next]_vars
  PROVE  \/ UNCHANGED <<jobs, transcript>>
         \/ \E u \in UpdateIds : Stores(u)
         \/ \E j \in DOMAIN jobs : GenClaim(j) \/ Debounce(j)
         \/ \E r \in Replies : Saves(r)
         \/ \E j \in DOMAIN jobs : DeliverClaim(j)
         \/ Marks
         \/ Start
<1>1. ASSUME NEW u \in UpdateIds, PollAccept(u)
      PROVE  Stores(u) \/ UNCHANGED <<jobs, transcript>>
  BY <1>1 DEF PollAccept, EnqueueTextUpdate, AdvanceUpdateOffset, Stores
<1>2. ASSUME NEW r \in Replies, GenReply(r)
      PROVE  Saves(r) \/ UNCHANGED <<jobs, transcript>>
  BY <1>2 DEF Saves, storeVars
<1>3. DeliverMark => Marks \/ UNCHANGED <<jobs, transcript>>
  BY DEF Marks, storeVars
<1>4. Next => \/ UNCHANGED <<jobs, transcript>>
              \/ \E u \in UpdateIds : PollAccept(u)
              \/ \E j \in DOMAIN jobs : GenClaim(j) \/ Debounce(j)
              \/ \E r \in Replies : GenReply(r)
              \/ \E j \in DOMAIN jobs : DeliverClaim(j)
              \/ DeliverMark
              \/ Start
  BY DEF Next, PollStep, GenStep, DeliverStep, UserSends, PollFetch,
         AdvanceUpdateOffset, PollIgnore, PollMalformed, PollAborted, PollDownload, CompleteMedia,
         PollDownloadFails, PollEnds, GenFails, GenFindsNoJob, GenFindsNothing,
         GenClaimCompaction, ClaimCompaction,
         GenCompactionValid, CompleteCompaction, GenCompactionInvalid, FailCompaction,
         DeliverSend, DeliverSendFails, Crash, dbVars, storeVars
<1>5. UNCHANGED vars => UNCHANGED <<jobs, transcript>>
  BY DEF vars, dbVars
<1> QED
  BY <1>1, <1>2, <1>3, <1>4, <1>5

\* What the two loops work on exists.
LEMMA HeldWork ==
  ASSUME GatewayInv
  PROVE  /\ gen.pc = "generating" => gen.job \in DOMAIN jobs /\ jobs[gen.job].status # "queued"
         /\ delivery.pc # "idle" => /\ delivery.job \in DOMAIN jobs
                                    /\ delivery.chunk \in DOMAIN jobs[delivery.job].chunks
         /\ delivery.pc = "sent" => delivery.mid \in DOMAIN shown /\ delivery.mid \in Nat
<1>1. DOMAIN shown \subseteq Nat
  BY LenProperties DEF GatewayInv, TypeOK
<1>2. gen.pc = "generating" => gen.job \in DOMAIN jobs
  BY DEF GatewayInv, TypeOK, GenStates, Idle
<1>3. delivery.pc # "idle" => delivery.job \in DOMAIN jobs
  BY DEF GatewayInv, TypeOK, DeliveryStates, Idle
<1>4. delivery.pc = "sent" => delivery.mid \in DOMAIN shown
  BY DEF GatewayInv, TypeOK, DeliveryStates, Idle
<1> QED
  BY <1>1, <1>2, <1>3, <1>4 DEF GatewayInv, GenClaimed, DeliveryClaimed

BatchesKept == DOMAIN jobs' = DOMAIN jobs /\ \A k \in DOMAIN jobs : SameBatch(k)

\* Only a new update changes a batch.
LEMMA BatchSteps ==
  ASSUME GatewayInv, [Next]_vars
  PROVE  BatchesKept \/ \E u \in UpdateIds : Stores(u)
<1>1. CASE jobs' = jobs
  BY <1>1 DEF BatchesKept, SameBatch
<1>2. ASSUME NEW j \in DOMAIN jobs, OnlyJob(j), SameBatch(j)
      PROVE  BatchesKept
  BY <1>2 DEF OnlyJob, BatchesKept, SameBatch
<1>3. ASSUME NEW j \in DOMAIN jobs, GenClaim(j) \/ Debounce(j)
      PROVE  BatchesKept
  BY <1>2, <1>3, StatedJob DEF GenClaim, Debounce
<1>4. ASSUME NEW r \in Replies, Saves(r)
      PROVE  BatchesKept
  BY <1>2, <1>4, HeldWork, SavedAnswer DEF Saves, GenReply
<1>5. ASSUME NEW j \in DOMAIN jobs, DeliverClaim(j)
      PROVE  BatchesKept
  <2>1. PICK c \in DOMAIN ClaimChunks(j) : ClaimDelivery(j, c)
    BY <1>5 DEF DeliverClaim
  <2> QED
    BY <1>2, <2>1, ClaimedChunk
<1>6. Marks => BatchesKept
  BY <1>2, HeldWork, MarkedChunk DEF Marks, DeliverMark
<1>7. Start => BatchesKept
  BY RecoveredJob DEF Start, RecoverJobs, BatchesKept
<1> QED
  BY <1>1, <1>3, <1>4, <1>5, <1>6, <1>7, StoreSteps

\* A stream's updates are batched in the order they came
\* (enqueue_text_update).
LEMMA BatchesOrderedKept ==
  ASSUME GatewayInv, PollOrdered, BatchesInArrivalOrder, [Next]_vars
  PROVE  BatchesInArrivalOrder'
<1>1. CASE BatchesKept
  BY <1>1 DEF BatchesKept, SameBatch, BatchesInArrivalOrder
<1>2. ASSUME NEW u \in UpdateIds, Stores(u)
      PROVE  BatchesInArrivalOrder'
  <2>1. allowed \in Streams /\ UpdateIds \subseteq Nat
    BY DEF GatewayInv, TypeOK, UpdateIds
  <2>2. PICK j \in Nat, n \in Nat : Joined(u, allowed, j, n)
    <3>1. (updates[u].kind = "image") \in BOOLEAN
      OBVIOUS
    <3> QED
      BY <1>2, <2>1, <3>1, StoredUpdate DEF Stores
  <2>3. \A k \in DOMAIN jobs : /\ DOMAIN jobs[k].batch \subseteq Nat /\ k \in Nat
                               /\ \A a \in DOMAIN jobs[k].batch :
                                    jobs[k].batch[a] \in Nat /\ jobs[k].batch[a] < u
    <3>1. \A k \in DOMAIN jobs : \A a \in DOMAIN jobs[k].batch :
             jobs[k].batch[a] \in UpdateIds /\ inbox[jobs[k].batch[a]] # "absent"
      BY JobsTyped DEF GatewayInv, StoreInv, BatchesStored
    <3>2. \A v \in UpdateIds : inbox[v] # "absent" => v < u
      BY <1>2, NewUpdateIsLast DEF Stores
    <3>3. \A k \in DOMAIN jobs : DOMAIN jobs[k].batch \subseteq Nat /\ k \in Nat
      BY JobsTyped DEF GatewayInv, StoreInv
    <3> QED
      BY <2>1, <3>1, <3>2, <3>3
  <2> SUFFICES ASSUME NEW i \in DOMAIN jobs', NEW k \in DOMAIN jobs',
                      jobs'[i].stream = jobs'[k].stream,
                      NEW a \in DOMAIN jobs'[i].batch, NEW b \in DOMAIN jobs'[k].batch,
                      i < k \/ (i = k /\ a < b)
               PROVE  jobs'[i].batch[a] < jobs'[k].batch[b]
    BY DEF BatchesInArrivalOrder
  \* Places that were taken before keep their updates.
  <2>4. ASSUME NEW h \in DOMAIN jobs', NEW x \in DOMAIN jobs'[h].batch, ~(h = j /\ x = n)
        PROVE  /\ h \in DOMAIN jobs /\ x \in DOMAIN jobs[h].batch
               /\ jobs'[h].batch[x] = jobs[h].batch[x] /\ jobs[h].stream = jobs'[h].stream
    <3>1. CASE h # j
      BY <2>2, <2>4, <3>1 DEF Joined
    <3>2. CASE h = j
      BY <2>2, <2>4, <3>2 DEF Joined
    <3> QED
      BY <3>1, <3>2
  <2>5. CASE i = j /\ a = n
    <3>1. k \in Nat /\ (k = j => b <= n)
      BY <2>2, <2>3 DEF Joined
    <3>2. k # j => k \in DOMAIN jobs /\ jobs[k].stream = allowed
      BY <2>2, <2>4, <2>5 DEF Joined
    <3>3. k <= j
      BY <2>2, <3>1, <3>2 DEF Joined
    <3> QED
      BY <2>2, <2>5, <3>1, <3>3 DEF Joined
  <2>6. CASE ~(i = j /\ a = n) /\ k = j /\ b = n
    BY <2>2, <2>3, <2>4, <2>6 DEF Joined
  <2>7. CASE ~(i = j /\ a = n) /\ ~(k = j /\ b = n)
    BY <2>4, <2>7 DEF BatchesInArrivalOrder
  <2> QED
    BY <2>5, <2>6, <2>7
<1> QED
  BY <1>1, <1>2, BatchSteps

-----------------------------------------------------------------------------
(* How a step changes the transcript                                       *)

SameInbox == \A v \in UpdateIds : inbox'[v] = "absent" <=> inbox[v] = "absent"

\* Row n is new.
Entered(n, row) ==
  /\ n \in Nat /\ DOMAIN transcript' = DOMAIN transcript \cup {n}
  /\ transcript'[n] = row
  /\ \A i \in DOMAIN transcript : i \in Nat /\ i < n /\ transcript'[i] = transcript[i]

LEMMA EntryAppended ==
  ASSUME GatewayInv, NEW row, transcript' = Append(transcript, row)
  PROVE  \E n \in Nat : Entered(n, row)
<1>1. transcript \in Seq(Entry) /\ Len(transcript) \in Nat /\ DOMAIN transcript = 1 .. Len(transcript)
  BY LenProperties DEF GatewayInv, StoreInv, StoreTypeOK
<1>2. PICK n \in Nat : n = Len(transcript) + 1
  BY <1>1
<1>3. /\ DOMAIN transcript' = DOMAIN transcript \cup {n} /\ transcript'[n] = row
      /\ \A i \in DOMAIN transcript : transcript'[i] = transcript[i]
  BY <1>1, <1>2
<1>4. \A i \in DOMAIN transcript : i \in Nat /\ i < n
  BY <1>1, <1>2
<1> QED
  BY <1>3, <1>4 DEF Entered

QuietStep ==
  /\ transcript' = transcript /\ SameInbox /\ BatchesKept
  /\ \A j \in DOMAIN jobs : jobs'[j].response = jobs[j].response

LEMMA TranscriptSteps ==
  ASSUME GatewayInv, [Next]_vars
  PROVE  \/ QuietStep
         \/ \E u \in UpdateIds : Stores(u)
         \/ \E r \in Replies : Saves(r)
<1>1. SameInbox \/ \E u \in UpdateIds : Stores(u)
  <2>1. inbox \in [UpdateIds -> InboxStatus]
    BY DEF GatewayInv, StoreInv, StoreTypeOK
  <2>2. ASSUME NEW u \in UpdateIds, PollAccept(u)
        PROVE  SameInbox \/ Stores(u)
    BY <2>2 DEF PollAccept, EnqueueTextUpdate, AdvanceUpdateOffset, Stores, SameInbox
  <2>3. ASSUME NEW u \in UpdateIds, PollDownload(u)
        PROVE  SameInbox
    BY <2>1, <2>3 DEF PollDownload, CompleteMedia, PendingMedia, SameInbox
  <2>4. inbox' = inbox => SameInbox
    BY DEF SameInbox
  <2>5. Next => inbox' = inbox \/ \E u \in UpdateIds : PollAccept(u) \/ PollDownload(u)
    BY DEF Next, PollStep, GenStep, DeliverStep, UserSends, PollFetch, PollIgnore,
         AdvanceUpdateOffset, PollMalformed, PollAborted,
         PollDownloadFails, PollEnds, GenClaim, ClaimJob, GenReply, SaveResponse, GenFails,
         GenFindsNoJob, GenFindsNothing,
         GenClaimCompaction, ClaimCompaction, GenCompactionValid, CompleteCompaction,
         GenCompactionInvalid, FailCompaction, DeliverClaim, ClaimDelivery, DeliverSend,
         DeliverSendFails, DeliverMark, MarkChunkDelivered, Crash, Start, RecoverJobs, Debounce,
         DebounceElapses, dbVars, storeVars
  <2>6. UNCHANGED vars => inbox' = inbox
    BY DEF vars, dbVars
  <2> QED
    BY <2>2, <2>3, <2>4, <2>5, <2>6
<1> DEFINE Same == transcript' = transcript /\ \A j \in DOMAIN jobs : jobs'[j].response = jobs[j].response
<1>2. UNCHANGED <<jobs, transcript>> => Same
  OBVIOUS
<1>3. ASSUME NEW j \in DOMAIN jobs, GenClaim(j) \/ Debounce(j)
      PROVE  Same
  BY <1>3, StatedJob DEF GenClaim, Debounce, OnlyJob
<1>4. ASSUME NEW j \in DOMAIN jobs, DeliverClaim(j)
      PROVE  Same
  <2>1. PICK c \in DOMAIN ClaimChunks(j) : ClaimDelivery(j, c)
    BY <1>4 DEF DeliverClaim
  <2> QED
    BY <2>1, ClaimedChunk DEF OnlyJob
<1>5. Marks => Same
  BY HeldWork, MarkedChunk DEF Marks, DeliverMark, OnlyJob
<1>6. Start => Same
  BY RecoveredJob DEF Start, RecoverJobs
<1>7. Same \/ (\E u \in UpdateIds : Stores(u)) \/ (\E r \in Replies : Saves(r))
  BY <1>2, <1>3, <1>4, <1>5, <1>6, StoreSteps
<1> QED
  BY <1>1, <1>7, BatchSteps DEF QuietStep

\* A batch is not empty, and its updates are no other job's.
LEMMA FirstOfBatch ==
  ASSUME StoreInv, NEW j \in DOMAIN jobs
  PROVE  /\ 1 \in DOMAIN jobs[j].batch /\ jobs[j].batch[1] \in UpdateIds
         /\ inbox[jobs[j].batch[1]] # "absent"
         /\ \A k \in DOMAIN jobs : jobs[k].batch[1] = jobs[j].batch[1] => k = j
<1>1. ASSUME NEW k \in DOMAIN jobs
      PROVE  1 \in DOMAIN jobs[k].batch /\ jobs[k].batch[1] \in UpdateIds
  <2>1. /\ jobs[k].batch \in Seq(UpdateIds) /\ jobs[k].batch # << >>
        /\ Len(jobs[k].batch) \in Nat /\ DOMAIN jobs[k].batch = 1 .. Len(jobs[k].batch)
    BY JobsTyped DEF StoreInv, BatchesStored
  <2>2. Len(jobs[k].batch) # 0
    BY <2>1, EmptySeq
  <2>3. 1 \in DOMAIN jobs[k].batch
    BY <2>1, <2>2
  <2> QED
    BY <2>3, JobsTyped DEF StoreInv
<1> QED
  BY <1>1 DEF StoreInv, BatchesStored, OneBatchPerUpdate

LEMMA RowsTyped ==
  ASSUME GatewayInv, NEW i \in DOMAIN transcript
  PROVE  /\ i \in Nat /\ transcript[i] \in Entry
         /\ transcript[i].update \in UpdateIds /\ transcript[i].role \in {"user", "assistant"}
<1>1. transcript \in Seq(Entry) /\ DOMAIN transcript = 1 .. Len(transcript)
  BY LenProperties DEF GatewayInv, StoreInv, StoreTypeOK
<1>2. i \in Nat /\ transcript[i] \in Entry
  BY <1>1, ElementOfSeq
<1> QED
  BY <1>2 DEF Entry

RowsInv == UserRowsKept /\ AssistantRowsKept /\ AnswersFollow

LEMMA QuietRows ==
  ASSUME GatewayInv, RowsInv, QuietStep
  PROVE  RowsInv'
<1>1. /\ transcript \in Seq(Entry) /\ DOMAIN transcript = 1 .. Len(transcript)
      /\ \A i \in DOMAIN transcript : transcript[i] \in Entry
  BY LenProperties, ElementOfSeq DEF GatewayInv, StoreInv, StoreTypeOK
<1>2. \A i \in DOMAIN transcript : transcript[i].update \in UpdateIds
  BY <1>1 DEF Entry
<1>3. UserRowsKept'
  BY DEF RowsInv, UserRowsKept, UserRow, QuietStep, SameInbox
<1>4. \A j \in DOMAIN jobs : jobs'[j].batch = jobs[j].batch /\ jobs'[j].response = jobs[j].response
  BY DEF QuietStep, BatchesKept, SameBatch
<1>5. AssistantRowsKept'
  <2>1. \A i \in DOMAIN transcript :
          transcript[i].role = "assistant" => inbox'[transcript[i].update] # "absent"
    BY <1>2 DEF RowsInv, AssistantRowsKept, QuietStep, SameInbox
  <2>2. \A j \in DOMAIN jobs, i \in DOMAIN transcript : AssistantRow(i, j)' <=> AssistantRow(i, j)
    BY <1>4 DEF AssistantRow, QuietStep
  <2>3. DOMAIN jobs' = DOMAIN jobs /\ transcript' = transcript
    BY DEF QuietStep, BatchesKept
  <2> QED
    BY <1>4, <2>1, <2>2, <2>3 DEF RowsInv, AssistantRowsKept
<1>6. AnswersFollow'
  BY <1>4 DEF RowsInv, AnswersFollow, AssistantRow, UserRow, BatchSet, QuietStep, BatchesKept
<1> QED
  BY <1>3, <1>5, <1>6 DEF RowsInv

LEMMA StoredRows ==
  ASSUME GatewayInv, GatewayInv', RowsInv, NEW u \in UpdateIds, Stores(u), PollOrdered
  PROVE  RowsInv'
<1>1. inbox[u] = "absent" /\ allowed \in Streams /\ u \in Nat
  BY NewUpdateIsLast DEF Stores, GatewayInv, TypeOK, UpdateIds
<1>2. PICK j \in Nat, n \in Nat : Joined(u, allowed, j, n)
  <2>1. (updates[u].kind = "image") \in BOOLEAN
    OBVIOUS
  <2> QED
    BY <1>1, <2>1, StoredUpdate DEF Stores
<1>3. PICK row : row = UserEntry(u, allowed, updates[u].reply)
  OBVIOUS
<1>4. PICK m \in Nat : Entered(m, row)
  BY <1>3, EntryAppended DEF Stores, EnqueueNewUpdate
<1>5. /\ row.role = "user" /\ row.update = u
      /\ DOMAIN transcript' = DOMAIN transcript \cup {m} /\ transcript'[m] = row
      /\ \A i \in DOMAIN transcript : i \in Nat /\ i < m /\ transcript'[i] = transcript[i]
  BY <1>3, <1>4 DEF Entered, UserEntry
<1>6. /\ inbox'[u] # "absent"
      /\ \A v \in UpdateIds \ {u} : inbox'[v] = inbox[v]
  <2>1. \E st \in {"pending", "text"} : inbox' = [inbox EXCEPT ![u] = st]
    BY DEF Stores, EnqueueNewUpdate
  <2> QED
    BY <2>1 DEF GatewayInv, StoreInv, StoreTypeOK
<1>7. \A i \in DOMAIN transcript :
        transcript[i].update \in UpdateIds /\ transcript[i].role \in {"user", "assistant"}
  BY RowsTyped
<1>8. \A i \in DOMAIN transcript' : i # m => i \in DOMAIN transcript /\ transcript'[i] = transcript[i]
  BY <1>5
<1>9. \A i \in DOMAIN transcript : transcript[i].update # u
  <2>1. ASSUME NEW i \in DOMAIN transcript
        PROVE  inbox[transcript[i].update] # "absent"
    BY <1>7 DEF RowsInv, UserRowsKept, UserRow, AssistantRowsKept
  <2> QED
    BY <1>1, <2>1
<1>10. UserRowsKept'
  <2>1. \A v \in UpdateIds, i \in DOMAIN transcript : UserRow(i, v)' <=> UserRow(i, v)
    BY <1>5 DEF UserRow
  <2>2. \A v \in UpdateIds : UserRow(m, v)' <=> v = u
    BY <1>5 DEF UserRow
  <2>3. \A i \in DOMAIN transcript : ~UserRow(i, u)
    BY <1>9 DEF UserRow
  <2>4. ASSUME NEW v \in UpdateIds
        PROVE  inbox'[v] # "absent" <=> \E i \in DOMAIN transcript' : UserRow(i, v)'
    BY <1>5, <1>6, <2>1, <2>2, <2>4 DEF RowsInv, UserRowsKept
  <2>5. ASSUME NEW v \in UpdateIds, NEW i \in DOMAIN transcript', NEW k \in DOMAIN transcript',
               UserRow(i, v)', UserRow(k, v)'
        PROVE  i = k
    BY <1>8, <2>1, <2>2, <2>3, <2>5 DEF RowsInv, UserRowsKept
  <2> QED
    BY <2>4, <2>5 DEF UserRowsKept
\* The first update of a batch, hence its answer, is as before.
<1>11. ASSUME NEW i \in DOMAIN transcript', NEW k \in DOMAIN jobs', AssistantRow(i, k)'
       PROVE  i \in DOMAIN transcript /\ k \in DOMAIN jobs /\ AssistantRow(i, k)
  <2>1. transcript'[i].role = "assistant" /\ transcript'[i].update = jobs'[k].batch[1]
    BY <1>11 DEF AssistantRow
  <2>2. i \in DOMAIN transcript /\ transcript'[i] = transcript[i]
    BY <1>5, <2>1
  <2>3. k \in DOMAIN jobs
    BY <1>2, <1>9, <2>1, <2>2 DEF Joined
  <2>4. jobs'[k].batch[1] = jobs[k].batch[1]
    BY <1>2, <2>3 DEF Joined
  <2> QED
    BY <2>1, <2>2, <2>3, <2>4 DEF AssistantRow
<1>12. ASSUME NEW i \in DOMAIN transcript, NEW k \in DOMAIN jobs, AssistantRow(i, k)
       PROVE  AssistantRow(i, k)'
  <2>1. jobs'[k].batch[1] = jobs[k].batch[1]
    <3>1. CASE k = j
      BY <1>2, <3>1 DEF Joined
    <3>2. CASE k # j
      BY <1>2, <3>2 DEF Joined
    <3> QED
      BY <3>1, <3>2
  <2> QED
    BY <1>5, <1>12, <2>1 DEF AssistantRow
<1>13. \A k \in DOMAIN jobs : jobs'[k].response = jobs[k].response
  BY <1>2 DEF Joined
<1>14. AssistantRowsKept'
  <2>1. ASSUME NEW k \in DOMAIN jobs'
        PROVE  jobs'[k].response # NoReply <=> \E i \in DOMAIN transcript' : AssistantRow(i, k)'
    <3>1. CASE k \in DOMAIN jobs
      BY <1>5, <1>11, <1>12, <1>13, <3>1 DEF RowsInv, AssistantRowsKept
    <3>2. CASE k \notin DOMAIN jobs
      BY <1>2, <1>11, <3>2 DEF Joined
    <3> QED
      BY <3>1, <3>2
  <2>2. ASSUME NEW k \in DOMAIN jobs', NEW i \in DOMAIN transcript', NEW h \in DOMAIN transcript',
               AssistantRow(i, k)', AssistantRow(h, k)'
        PROVE  i = h
    BY <1>11, <2>2 DEF RowsInv, AssistantRowsKept
  <2>3. ASSUME NEW i \in DOMAIN transcript', transcript'[i].role = "assistant"
        PROVE  inbox'[transcript'[i].update] # "absent"
    BY <1>5, <1>6, <1>7, <1>9, <2>3 DEF RowsInv, AssistantRowsKept
  <2> QED
    BY <2>1, <2>2, <2>3 DEF AssistantRowsKept
<1>15. AnswersFollow'
  <2> SUFFICES ASSUME NEW k \in DOMAIN jobs', NEW v \in BatchSet(k)',
                      NEW i \in DOMAIN transcript', NEW h \in DOMAIN transcript',
                      AssistantRow(i, k)', UserRow(h, v)'
               PROVE  h < i
    BY DEF AnswersFollow
  <2>1. i \in DOMAIN transcript /\ k \in DOMAIN jobs /\ AssistantRow(i, k)
    BY <1>11
  <2>2. k # j
    BY <1>2, <2>1 DEF Joined, RowsInv, AssistantRowsKept
  <2>3. BatchSet(k)' = BatchSet(k)
    BY <1>2, <2>1, <2>2 DEF Joined, BatchSet
  <2>4. v # u
    <3>1. ASSUME NEW a \in DOMAIN jobs[k].batch
          PROVE  jobs[k].batch[a] # u
      BY <1>1, <2>1 DEF GatewayInv, StoreInv, BatchesStored
    <3> QED
      BY <2>3, <3>1 DEF BatchSet
  <2>5. h \in DOMAIN transcript /\ UserRow(h, v)
    BY <1>5, <2>4 DEF UserRow
  <2> QED
    BY <2>1, <2>3, <2>5 DEF RowsInv, AnswersFollow
<1> QED
  BY <1>10, <1>14, <1>15 DEF RowsInv

LEMMA SavedRows ==
  ASSUME GatewayInv, RowsInv, NEW r \in Replies, Saves(r)
  PROVE  RowsInv'
<1>1. PICK j \in DOMAIN jobs : j = gen.job
  BY HeldWork DEF Saves, GenReply
<1>2. /\ OnlyJob(j) /\ SameBatch(j) /\ jobs[j].response = NoReply /\ jobs'[j].response = r
      /\ transcript' = Append(transcript, AssistantEntry(j))
      /\ UNCHANGED <<offset, inbox>>
  BY <1>1, SavedAnswer DEF Saves, GenReply
<1>3. PICK row : row = AssistantEntry(j)
  OBVIOUS
<1>4. PICK m \in Nat : Entered(m, row)
  BY <1>2, <1>3, EntryAppended
<1>5. /\ row.role = "assistant" /\ row.update = jobs[j].batch[1]
      /\ DOMAIN transcript' = DOMAIN transcript \cup {m} /\ transcript'[m] = row
      /\ \A i \in DOMAIN transcript : i \in Nat /\ i < m /\ transcript'[i] = transcript[i]
  BY <1>3, <1>4 DEF Entered, AssistantEntry
<1>6. /\ DOMAIN jobs' = DOMAIN jobs
      /\ \A k \in DOMAIN jobs : /\ jobs'[k].batch = jobs[k].batch
                                /\ k # j => jobs'[k].response = jobs[k].response
  BY <1>2 DEF OnlyJob, SameBatch
<1>7. r # NoReply
  BY StoreAssumption
<1>8. UserRowsKept'
  <2>1. \A v \in UpdateIds, i \in DOMAIN transcript : UserRow(i, v)' <=> UserRow(i, v)
    BY <1>5 DEF UserRow
  <2>2. \A v \in UpdateIds : ~UserRow(m, v)'
    BY <1>5 DEF UserRow
  <2> QED
    BY <1>2, <1>5, <2>1, <2>2 DEF RowsInv, UserRowsKept
<1>9. \A i \in DOMAIN transcript, k \in DOMAIN jobs : AssistantRow(i, k)' <=> AssistantRow(i, k)
  BY <1>5, <1>6 DEF AssistantRow
<1>10. \A k \in DOMAIN jobs : AssistantRow(m, k)' <=> k = j
  <2>1. \A k \in DOMAIN jobs : jobs[k].batch[1] = jobs[j].batch[1] => k = j
    BY FirstOfBatch DEF GatewayInv
  <2> QED
    BY <1>5, <1>6, <2>1 DEF AssistantRow
<1>11. \A i \in DOMAIN transcript : ~AssistantRow(i, j)
  BY <1>2 DEF RowsInv, AssistantRowsKept
<1>12. AssistantRowsKept'
  <2>1. ASSUME NEW k \in DOMAIN jobs
        PROVE  jobs'[k].response # NoReply <=> \E i \in DOMAIN transcript' : AssistantRow(i, k)'
    <3>1. CASE k = j
      BY <1>2, <1>5, <1>7, <1>10, <3>1
    <3>2. CASE k # j
      BY <1>5, <1>6, <1>9, <1>10, <3>2 DEF RowsInv, AssistantRowsKept
    <3> QED
      BY <3>1, <3>2
  <2>2. ASSUME NEW k \in DOMAIN jobs, NEW i \in DOMAIN transcript', NEW h \in DOMAIN transcript',
               AssistantRow(i, k)', AssistantRow(h, k)'
        PROVE  i = h
    BY <1>5, <1>9, <1>10, <1>11, <2>2 DEF RowsInv, AssistantRowsKept
  <2>3. ASSUME NEW i \in DOMAIN transcript', transcript'[i].role = "assistant"
        PROVE  inbox'[transcript'[i].update] # "absent"
    <3>1. inbox[jobs[j].batch[1]] # "absent"
      BY FirstOfBatch DEF GatewayInv
    <3> QED
      BY <1>2, <1>5, <2>3, <3>1 DEF RowsInv, AssistantRowsKept
  <2> QED
    BY <1>6, <2>1, <2>2, <2>3 DEF AssistantRowsKept
<1>13. AnswersFollow'
  <2> SUFFICES ASSUME NEW k \in DOMAIN jobs, NEW v \in BatchSet(k),
                      NEW i \in DOMAIN transcript', NEW h \in DOMAIN transcript',
                      AssistantRow(i, k)', UserRow(h, v)'
               PROVE  h < i
    BY <1>6 DEF AnswersFollow, BatchSet
  <2>1. h \in DOMAIN transcript /\ UserRow(h, v)
    BY <1>5 DEF UserRow
  <2>2. CASE i = m
    BY <1>5, <2>1, <2>2
  <2>3. CASE i # m
    BY <1>5, <1>9, <2>1, <2>3 DEF RowsInv, AnswersFollow
  <2> QED
    BY <2>2, <2>3
<1> QED
  BY <1>8, <1>12, <1>13 DEF RowsInv

\* The transcript has one row per stored update and one per answer, after
\* what it answers (enqueue_text_update, save_response).
LEMMA RowsNextInv ==
  ASSUME GatewayInv, GatewayInv', PollOrdered, RowsInv, [Next]_vars
  PROVE  RowsInv'
BY TranscriptSteps, QuietRows, StoredRows, SavedRows

LEMMA RowsCounted ==
  ASSUME RowsInv
  PROVE  TranscriptMatchesJobs
<1> DEFINE UserRows(u) == {i \in DOMAIN transcript :
                             transcript[i].role = "user" /\ transcript[i].update = u}
           AssistantRows(j) == {i \in DOMAIN transcript :
                                  transcript[i].role = "assistant"
                                  /\ transcript[i].update = jobs[j].batch[1]}
<1>1. ASSUME NEW u \in UpdateIds
      PROVE  Cardinality(UserRows(u)) = IF inbox[u] = "absent" THEN 0 ELSE 1
  <2>1. CASE inbox[u] = "absent"
    <3>1. UserRows(u) = {}
      BY <2>1 DEF RowsInv, UserRowsKept, UserRow
    <3> QED
      BY <2>1, <3>1, FS_EmptySet
  <2>2. CASE inbox[u] # "absent"
    <3>1. PICK i \in DOMAIN transcript : UserRow(i, u)
      BY <2>2 DEF RowsInv, UserRowsKept
    <3>2. UserRows(u) = {i}
      BY <3>1 DEF RowsInv, UserRowsKept, UserRow
    <3> QED
      BY <2>2, <3>2, FS_Singleton
  <2> QED
    BY <2>1, <2>2
<1>2. ASSUME NEW j \in DOMAIN jobs
      PROVE  Cardinality(AssistantRows(j)) = IF jobs[j].response = NoReply THEN 0 ELSE 1
  <2>1. CASE jobs[j].response = NoReply
    <3>1. AssistantRows(j) = {}
      BY <2>1 DEF RowsInv, AssistantRowsKept, AssistantRow
    <3> QED
      BY <2>1, <3>1, FS_EmptySet
  <2>2. CASE jobs[j].response # NoReply
    <3>1. PICK i \in DOMAIN transcript : AssistantRow(i, j)
      BY <2>2 DEF RowsInv, AssistantRowsKept
    <3>2. AssistantRows(j) = {i}
      BY <3>1 DEF RowsInv, AssistantRowsKept, AssistantRow
    <3> QED
      BY <2>2, <3>2, FS_Singleton
  <2> QED
    BY <2>1, <2>2
<1>3. ASSUME NEW j \in DOMAIN jobs, NEW u \in BatchSet(j),
             NEW i \in AssistantRows(j), NEW k \in UserRows(u)
      PROVE  k < i
  BY DEF RowsInv, AnswersFollow, AssistantRow, UserRow
<1> QED
  BY <1>1, <1>2, <1>3 DEF TranscriptMatchesJobs

-----------------------------------------------------------------------------
(* How a step changes what is being delivered                              *)

LEMMA ChunksTyped ==
  ASSUME GatewayInv, NEW j \in DOMAIN jobs
  PROVE  /\ DOMAIN jobs[j].chunks \subseteq Nat \ {0}
         /\ \A c \in DOMAIN jobs[j].chunks : \A d \in 1 .. c - 1 : d \in DOMAIN jobs[j].chunks
         /\ DOMAIN jobs[j].chunks # {} => jobs[j].response # NoReply
<1>1. jobs[j].chunks \in Seq(Chunk)
  BY JobsTyped DEF GatewayInv, StoreInv, Job
<1>2. DOMAIN jobs[j].chunks = 1 .. Len(jobs[j].chunks) /\ Len(jobs[j].chunks) \in Nat
  BY <1>1, LenProperties
<1>3. DOMAIN jobs[j].chunks # {} => jobs[j].response # NoReply
  BY EmptyDomain DEF GatewayInv, StoreInv, ChunksAnswered
<1> QED
  BY <1>2, <1>3

ChunksKept ==
  /\ DOMAIN jobs \subseteq DOMAIN jobs'
  /\ \A k \in DOMAIN jobs' \ DOMAIN jobs :
       DOMAIN jobs'[k].chunks = {} /\ jobs'[k].status # "delivered"
  /\ \A k \in DOMAIN jobs :
       /\ jobs'[k].chunks = jobs[k].chunks
       /\ DOMAIN jobs[k].chunks # {} => jobs'[k].response = jobs[k].response
       /\ jobs'[k].status = "delivered" => jobs[k].status = "delivered"

LEMMA ChunkSteps ==
  ASSUME GatewayInv, [Next]_vars
  PROVE  \/ ChunksKept
         \/ \E j \in DOMAIN jobs : DeliverClaim(j)
         \/ Marks
         \/ Start
<1>1. UNCHANGED <<jobs, transcript>> => ChunksKept
  BY DEF ChunksKept
<1>2. ASSUME NEW j \in DOMAIN jobs, GenClaim(j) \/ Debounce(j)
      PROVE  ChunksKept
  BY <1>2, StatedJob DEF GenClaim, Debounce, OnlyJob, ChunksKept
<1>3. ASSUME NEW u \in UpdateIds, Stores(u)
      PROVE  ChunksKept
  <2>1. PICK j \in Nat, n \in Nat : Joined(u, allowed, j, n)
    <3>1. (updates[u].kind = "image") \in BOOLEAN /\ allowed \in Streams
      BY DEF GatewayInv, TypeOK
    <3> QED
      BY <1>3, <3>1, StoredUpdate DEF Stores
  <2>2. \A k \in DOMAIN jobs \ {j} : jobs'[k] = jobs[k]
    BY <2>1 DEF Joined
  <2>3. j \in DOMAIN jobs => /\ jobs'[j].chunks = jobs[j].chunks /\ jobs'[j].status # "delivered"
                             /\ jobs'[j].response = jobs[j].response
    BY <2>1 DEF Joined
  <2>4. j \notin DOMAIN jobs => DOMAIN jobs'[j].chunks = {} /\ jobs'[j].status # "delivered"
    BY <2>1, EmptyDomain DEF Joined
  <2>5. DOMAIN jobs' = DOMAIN jobs \cup {j}
    BY <2>1 DEF Joined
  <2> QED
    BY <2>2, <2>3, <2>4, <2>5 DEF ChunksKept
<1>4. ASSUME NEW r \in Replies, Saves(r)
      PROVE  ChunksKept
  <2>1. PICK j \in DOMAIN jobs : j = gen.job
    BY <1>4, HeldWork DEF Saves, GenReply
  <2>2. /\ OnlyJob(j) /\ jobs[j].response = NoReply /\ jobs'[j].chunks = jobs[j].chunks
        /\ jobs'[j].status = "responded"
    BY <1>4, <2>1, SavedAnswer DEF Saves, GenReply
  <2>3. DOMAIN jobs[j].chunks = {}
    BY <2>2, ChunksTyped
  <2> QED
    BY <2>2, <2>3 DEF OnlyJob, ChunksKept
<1> QED
  BY <1>1, <1>2, <1>3, <1>4, StoreSteps

\* The delivery loop and the process.
LEMMA DeliverySteps ==
  ASSUME [Next]_vars
  PROVE  \/ UNCHANGED <<shown, delivery, up, restarts>>
         \/ \E j \in DOMAIN jobs : DeliverClaim(j)
         \/ DeliverSend
         \/ DeliverSendFails
         \/ DeliverMark
         \/ Start
         \/ Crash
<1>1. UNCHANGED vars => UNCHANGED <<shown, delivery, up, restarts>>
  BY DEF vars, processVars
<1> QED
  BY <1>1 DEF Next, PollStep, GenStep, DeliverStep, UserSends, PollFetch, PollAccept, PollIgnore, Ingested,
         PollMalformed, PollAborted, PollDownload, PollDownloadFails, PollEnds, GenClaim, GenReply,
         GenFails, GenFindsNoJob, GenFindsNothing,
         GenClaimCompaction, GenCompactionValid, GenCompactionInvalid, Debounce, processVars

LEMMA CopiesFinite ==
  ASSUME GatewayInv, NEW j, NEW c
  PROVE  IsFiniteSet(Copies(j, c)) /\ Cardinality(Copies(j, c)) \in Nat
<1>1. DOMAIN shown = 1 .. Len(shown) /\ Len(shown) \in Nat
  BY LenProperties DEF GatewayInv, TypeOK
<1>2. IsFiniteSet(1 .. Len(shown))
  BY <1>1, FS_Interval
<1>3. Copies(j, c) \subseteq 1 .. Len(shown)
  BY <1>1 DEF Copies
<1> QED
  BY <1>2, <1>3, FS_Subset, FS_CardinalityType

ShownInv == DeliveryHeld /\ ChunksCounted /\ ShownInOrder /\ ConfirmedShown /\ CopiesBounded

\* Steps that change neither the chunks nor what is shown.
LEMMA KeptShown ==
  ASSUME GatewayInv, ShownInv, ChunksKept, shown' = shown,
         \/ UNCHANGED <<delivery, up, restarts>>
         \/ delivery' = Idle /\ UNCHANGED <<up, restarts>>
         \/ Crash
  PROVE  ShownInv'
<1>1. DeliveryHeld'
  <2>1. CASE delivery' = Idle
    BY <2>1 DEF DeliveryHeld, Idle
  <2>2. CASE delivery' = delivery
    BY <2>2, HeldWork DEF ShownInv, DeliveryHeld, ChunksKept, Copies
  <2> QED
    BY <2>1, <2>2 DEF Crash
<1>2. ChunksCounted'
  BY DEF ShownInv, ChunksCounted, ChunksKept
<1>3. ShownInOrder'
  <2>1. ASSUME NEW m \in DOMAIN shown
        PROVE  /\ shown[m].job \in DOMAIN jobs'
               /\ shown[m].reply = jobs'[shown[m].job].response
               /\ shown[m].chunk \in DOMAIN jobs'[shown[m].job].chunks
               /\ \A d \in 1 .. shown[m].chunk - 1 :
                    jobs'[shown[m].job].chunks[d].status = "delivered"
    BY DEF ShownInv, ShownInOrder, ChunksKept
  <2> QED
    BY <2>1 DEF ShownInv, ShownInOrder
<1>4. ConfirmedShown'
  BY DEF ShownInv, ConfirmedShown, ChunksKept, Copies
<1>5. CopiesBounded'
  <2>1. ASSUME NEW j \in DOMAIN jobs', NEW c \in DOMAIN jobs'[j].chunks
        PROVE  Cardinality(Copies(j, c)) <= restarts' + IF Taken(j, c)' THEN 1 ELSE 0
    <3>1. j \in DOMAIN jobs /\ c \in DOMAIN jobs[j].chunks /\ jobs'[j].chunks = jobs[j].chunks
      BY DEF ChunksKept
    <3>2. Cardinality(Copies(j, c)) <= restarts + IF Taken(j, c) THEN 1 ELSE 0
      BY <3>1 DEF ShownInv, CopiesBounded
    <3>3. Cardinality(Copies(j, c)) \in Nat /\ restarts \in Nat
      BY CopiesFinite, GatewayAssumption DEF GatewayInv, TypeOK
    <3>4. CASE Crash
      BY <3>2, <3>3, <3>4 DEF Crash
    <3>5. CASE UNCHANGED <<up, restarts>> /\ (delivery' = Idle \/ delivery' = delivery)
      <4>1. Taken(j, c) => Taken(j, c)'
        BY <3>1, <3>5 DEF Taken, Idle
      <4> QED
        BY <3>2, <3>3, <3>5, <4>1
    <3> QED
      BY <3>4, <3>5
  <2>2. \A j, c : Copies(j, c)' = Copies(j, c)
    BY DEF Copies
  <2> QED
    BY <2>1, <2>2 DEF CopiesBounded
<1> QED
  BY <1>1, <1>2, <1>3, <1>4, <1>5 DEF ShownInv

\* A chunk is shown.
LEMMA SentShown ==
  ASSUME GatewayInv, ShownInv, UNCHANGED <<jobs, up, restarts>>, up, delivery.pc = "claimed", Show(delivery),
         \/ delivery' = Idle
         \/ delivery' = [pc |-> "sent", job |-> delivery.job, chunk |-> delivery.chunk,
                         mid |-> Len(shown) + 1]
  PROVE  ShownInv'
<1>1. PICK j \in DOMAIN jobs : j = delivery.job
  BY HeldWork
<1>2. PICK c \in DOMAIN jobs[j].chunks : c = delivery.chunk
  BY <1>1, HeldWork
<1>3. PICK m \in Nat : m = Len(shown) + 1
  BY LenProperties DEF GatewayInv, TypeOK
<1>4. PICK row : row = [job |-> j, chunk |-> c, reply |-> jobs[j].response]
  OBVIOUS
<1>5. /\ DOMAIN shown' = DOMAIN shown \cup {m} /\ shown'[m] = row
      /\ \A n \in DOMAIN shown : n \in Nat /\ n < m /\ shown'[n] = shown[n]
  <2>1. shown \in Seq([job : Nat, chunk : Nat, reply : Replies])
    BY DEF GatewayInv, TypeOK
  <2>2. shown' = Append(shown, row)
    BY <1>1, <1>2, <1>4 DEF Show
  <2>3. DOMAIN shown = 1 .. Len(shown) /\ Len(shown) \in Nat
    BY <2>1, LenProperties
  <2>4. /\ DOMAIN shown' = DOMAIN shown \cup {m} /\ shown'[m] = row
        /\ \A n \in DOMAIN shown : shown'[n] = shown[n]
    BY <1>3, <2>1, <2>2, <2>3
  <2> QED
    BY <1>3, <2>3, <2>4
<1>6. row.job = j /\ row.chunk = c /\ row.reply = jobs[j].response
  BY <1>4
<1>7. /\ jobs[j].chunks[c].status = "sending"
      /\ \A d \in 1 .. c - 1 : jobs[j].chunks[d].status = "delivered"
  BY <1>1, <1>2 DEF ShownInv, DeliveryHeld
<1>8. Copies(j, c)' = Copies(j, c) \cup {m}
  BY <1>5, <1>6 DEF Copies
<1>9. ASSUME NEW k, NEW d, ~(k = j /\ d = c)
      PROVE  Copies(k, d)' = Copies(k, d)
  BY <1>5, <1>6, <1>9 DEF Copies
<1>10. DeliveryHeld'
  <2>1. CASE delivery' = Idle
    BY <2>1 DEF DeliveryHeld, Idle
  <2>2. CASE delivery' = [pc |-> "sent", job |-> delivery.job, chunk |-> delivery.chunk,
                          mid |-> Len(shown) + 1]
    <3>1. delivery'.job = j /\ delivery'.chunk = c /\ delivery'.mid = m
      BY <1>1, <1>2, <1>3, <2>2
    <3>2. m \in Copies(j, c)'
      BY <1>8
    <3> QED
      BY <1>7, <3>1, <3>2 DEF DeliveryHeld
  <2> QED
    BY <2>1, <2>2
<1>11. ChunksCounted'
  BY DEF ShownInv, ChunksCounted
<1>12. ShownInOrder'
  <2>1. ASSUME NEW n \in DOMAIN shown'
        PROVE  /\ shown'[n].job \in DOMAIN jobs
               /\ shown'[n].reply = jobs[shown'[n].job].response
               /\ shown'[n].chunk \in DOMAIN jobs[shown'[n].job].chunks
               /\ \A d \in 1 .. shown'[n].chunk - 1 :
                    jobs[shown'[n].job].chunks[d].status = "delivered"
    BY <1>5, <1>6, <1>7 DEF ShownInv, ShownInOrder
  <2>2. ASSUME NEW n \in DOMAIN shown, shown[n].job = j
        PROVE  shown[n].chunk <= c
    <3>1. shown[n].chunk \in DOMAIN jobs[j].chunks /\ shown[n].chunk \in Nat /\ c \in Nat \ {0}
      BY <2>2, ChunksTyped DEF ShownInv, ShownInOrder
    <3>2. c \notin 1 .. shown[n].chunk - 1
      BY <1>7, <2>2 DEF ShownInv, ShownInOrder
    <3> QED
      BY <3>1, <3>2
  <2>3. ASSUME NEW n \in DOMAIN shown', NEW h \in DOMAIN shown', n < h, shown'[n].job = shown'[h].job
        PROVE  shown'[n].chunk <= shown'[h].chunk
    <3>1. n \in DOMAIN shown
      BY <1>5, <2>3
    <3> QED
      BY <1>5, <1>6, <2>2, <2>3, <3>1 DEF ShownInv, ShownInOrder
  <2> QED
    BY <2>1, <2>3 DEF ShownInOrder
<1>13. ConfirmedShown'
  BY <1>8, <1>9 DEF ShownInv, ConfirmedShown
<1>14. CopiesBounded'
  <2>1. ASSUME NEW k \in DOMAIN jobs, NEW d \in DOMAIN jobs[k].chunks
        PROVE  Cardinality(Copies(k, d)') <= restarts + IF Taken(k, d)' THEN 1 ELSE 0
    <3>1. /\ Cardinality(Copies(k, d)) <= restarts + IF Taken(k, d) THEN 1 ELSE 0
          /\ Cardinality(Copies(k, d)) \in Nat /\ restarts \in Nat
      BY CopiesFinite, GatewayAssumption DEF ShownInv, CopiesBounded, GatewayInv, TypeOK
    <3>2. CASE k = j /\ d = c
      <4>1. ~Taken(k, d) /\ Taken(k, d)'
        BY <1>1, <1>2, <1>7, <3>2 DEF Taken, Idle
      <4>2. m \notin Copies(k, d) /\ IsFiniteSet(Copies(k, d))
        <5>1. IsFiniteSet(Copies(k, d))
          BY CopiesFinite
        <5>2. m \notin Copies(k, d)
          BY <1>5 DEF Copies
        <5> QED
          BY <5>1, <5>2
      <4>3. Copies(k, d)' = Copies(k, d) \cup {m}
        BY <1>8, <3>2 DEF Copies
      <4>4. Cardinality(Copies(k, d)') = Cardinality(Copies(k, d)) + 1
        BY <4>2, <4>3, FS_AddElement
      <4> QED
        BY <3>1, <4>1, <4>4
    <3>3. CASE ~(k = j /\ d = c)
      <4>1. Taken(k, d) => Taken(k, d)'
        BY <3>3 DEF Taken, Idle
      <4> QED
        BY <1>9, <3>1, <3>3, <4>1
    <3> QED
      BY <3>2, <3>3
  <2> QED
    BY <2>1 DEF CopiesBounded
<1> QED
  BY <1>10, <1>11, <1>12, <1>13, <1>14 DEF ShownInv

\* A chunk is claimed.
LEMMA ClaimShown ==
  ASSUME GatewayInv, ShownInv, NEW j \in DOMAIN jobs, DeliverClaim(j)
  PROVE  ShownInv'
<1>1. PICK c \in DOMAIN ClaimChunks(j) :
        /\ ClaimDelivery(j, c)
        /\ delivery' = [pc |-> "claimed", job |-> j, chunk |-> c]
  BY DEF DeliverClaim
<1>2. delivery = Idle /\ UNCHANGED <<shown, up, restarts>>
  BY DEF DeliverClaim
<1>3. /\ OnlyJob(j) /\ jobs[j].response # NoReply /\ jobs'[j].response = jobs[j].response
      /\ jobs'[j].status = "sending"
      /\ DOMAIN jobs'[j].chunks = DOMAIN ClaimChunks(j)
      /\ jobs'[j].chunks[c].status = "sending"
      /\ \A d \in DOMAIN ClaimChunks(j) \ {c} : jobs'[j].chunks[d] = ClaimChunks(j)[d]
  BY <1>1, ClaimedChunk
<1>4. /\ ClaimChunks(j)[c].status = "pending"
      /\ \A d \in 1 .. c - 1 : ClaimChunks(j)[d].status = "delivered"
  BY <1>1 DEF ClaimDelivery
<1>5. \/ /\ DOMAIN jobs[j].chunks = {}
         /\ DOMAIN ClaimChunks(j) = 1 .. ChunkCount[jobs[j].response]
         /\ \A d \in DOMAIN ClaimChunks(j) : ClaimChunks(j)[d].status = "pending"
      \/ ClaimChunks(j) = jobs[j].chunks
  BY EmptyDomain DEF ClaimChunks, PendingChunks
<1>6. \A k, d : Copies(k, d)' = Copies(k, d)
  BY <1>2 DEF Copies
<1>7. c \in Nat \ {0} /\ DOMAIN ClaimChunks(j) # {}
  <2>1. ClaimChunks(j) \in Seq(Chunk)
    BY <1>3, ClaimChunksTyped DEF GatewayInv, StoreInv
  <2> QED
    BY <1>1, <2>1, LenProperties
<1>8. \A d \in DOMAIN ClaimChunks(j) : jobs'[j].chunks[d].status = "delivered" =>
        d # c /\ DOMAIN jobs[j].chunks # {} /\ ClaimChunks(j) = jobs[j].chunks
        /\ jobs[j].chunks[d].status = "delivered"
  BY <1>3, <1>5
<1>9. DeliveryHeld'
  <2>1. \A d \in 1 .. c - 1 : jobs'[j].chunks[d].status = "delivered"
    <3>1. ClaimChunks(j) \in Seq(Chunk)
      BY <1>3, ClaimChunksTyped DEF GatewayInv, StoreInv
    <3>2. \A d \in 1 .. c - 1 : d \in DOMAIN ClaimChunks(j) \ {c}
      BY <1>1, <3>1, LenProperties
    <3> QED
      BY <1>3, <1>4, <3>2
  <2> QED
    BY <1>1, <1>3, <2>1 DEF DeliveryHeld
<1>10. ChunksCounted'
  BY <1>3, <1>5 DEF ShownInv, ChunksCounted, OnlyJob
<1>11. ShownInOrder'
  <2>1. ASSUME NEW m \in DOMAIN shown
        PROVE  /\ shown[m].job \in DOMAIN jobs'
               /\ shown[m].reply = jobs'[shown[m].job].response
               /\ shown[m].chunk \in DOMAIN jobs'[shown[m].job].chunks
               /\ \A d \in 1 .. shown[m].chunk - 1 :
                    jobs'[shown[m].job].chunks[d].status = "delivered"
    <3>1. CASE shown[m].job # j
      BY <1>3, <3>1 DEF ShownInv, ShownInOrder, OnlyJob
    <3>2. CASE shown[m].job = j
      <4>1. /\ shown[m].chunk \in DOMAIN jobs[j].chunks /\ shown[m].reply = jobs[j].response
            /\ \A d \in 1 .. shown[m].chunk - 1 :
                 d \in DOMAIN jobs[j].chunks /\ jobs[j].chunks[d].status = "delivered"
        BY <3>2, ChunksTyped DEF ShownInv, ShownInOrder
      <4>2. ClaimChunks(j) = jobs[j].chunks
        BY <1>5, <4>1
      <4>3. \A d \in 1 .. shown[m].chunk - 1 : jobs'[j].chunks[d].status = "delivered"
        BY <1>3, <1>4, <4>1, <4>2
      <4> QED
        BY <1>3, <3>2, <4>1, <4>2, <4>3 DEF OnlyJob
    <3> QED
      BY <3>1, <3>2
  <2> QED
    BY <1>2, <2>1 DEF ShownInv, ShownInOrder
<1>12. ConfirmedShown'
  BY <1>3, <1>6, <1>8 DEF ShownInv, ConfirmedShown, OnlyJob
<1>13. CopiesBounded'
  <2>1. ASSUME NEW k \in DOMAIN jobs, NEW d \in DOMAIN jobs'[k].chunks
        PROVE  Cardinality(Copies(k, d)) <= restarts + IF Taken(k, d)' THEN 1 ELSE 0
    <3>1. Cardinality(Copies(k, d)) \in Nat /\ restarts \in Nat
      BY CopiesFinite, GatewayAssumption DEF GatewayInv, TypeOK
    <3>2. CASE k # j
      <4>1. jobs'[k] = jobs[k]
        BY <1>3, <3>2 DEF OnlyJob
      <4>2. Taken(k, d) => Taken(k, d)'
        BY <1>1, <1>2, <3>2, <4>1 DEF Taken, Idle
      <4> QED
        BY <3>1, <4>1, <4>2 DEF ShownInv, CopiesBounded
    <3>3. CASE k = j /\ DOMAIN jobs[j].chunks = {}
      <4>1. Copies(k, d) = {}
        BY <3>3 DEF ShownInv, ShownInOrder, Copies
      <4>2. Cardinality(Copies(k, d)) = 0
        BY <4>1, FS_EmptySet
      <4> QED
        BY <3>1, <4>2
    <3>4. CASE k = j /\ DOMAIN jobs[j].chunks # {}
      <4>1. ClaimChunks(j) = jobs[j].chunks /\ d \in DOMAIN jobs[j].chunks
        BY <1>3, <1>5, <3>4
      <4>2. Cardinality(Copies(k, d)) <= restarts + IF Taken(k, d) THEN 1 ELSE 0
        BY <3>4, <4>1 DEF ShownInv, CopiesBounded
      <4>3. CASE d = c
        <5>1. ~Taken(k, d)
          BY <1>4, <3>4, <4>1, <4>3 DEF Taken
        <5> QED
          BY <3>1, <4>2, <5>1
      <4>4. CASE d # c
        <5>1. jobs'[k].chunks[d] = jobs[k].chunks[d]
          BY <1>3, <3>4, <4>1, <4>4
        <5>2. Taken(k, d) => Taken(k, d)'
          BY <1>1, <1>2, <4>4, <5>1 DEF Taken, Idle
        <5> QED
          BY <3>1, <4>2, <5>2
      <4> QED
        BY <4>3, <4>4
    <3> QED
      BY <3>2, <3>3, <3>4
  <2>2. DOMAIN jobs' = DOMAIN jobs /\ restarts' = restarts
    BY <1>2, <1>3 DEF OnlyJob
  <2> QED
    BY <1>6, <2>1, <2>2 DEF CopiesBounded
<1> QED
  BY <1>9, <1>10, <1>11, <1>12, <1>13 DEF ShownInv

\* A chunk is confirmed.
LEMMA MarkShown ==
  ASSUME GatewayInv, ShownInv, DeliverMark
  PROVE  ShownInv'
<1>1. PICK j \in DOMAIN jobs : j = delivery.job
  BY HeldWork DEF DeliverMark
<1>2. PICK c \in DOMAIN jobs[j].chunks : c = delivery.chunk
  BY <1>1, HeldWork DEF DeliverMark
<1>3. /\ up /\ delivery.pc = "sent" /\ MarkChunkDelivered(j, c, delivery.mid)
      /\ delivery' = Idle /\ UNCHANGED <<shown, up, restarts>>
  BY <1>1, <1>2 DEF DeliverMark
<1>4. jobs[j].chunks[c].status = "sending" /\ delivery.mid \in Copies(j, c) /\ delivery.mid \in Nat
  BY <1>1, <1>2, <1>3, HeldWork DEF ShownInv, DeliveryHeld
<1>5. /\ OnlyJob(j) /\ jobs'[j].response = jobs[j].response
      /\ DOMAIN jobs'[j].chunks = DOMAIN jobs[j].chunks
      /\ jobs'[j].chunks[c].status = "delivered"
      /\ \A d \in DOMAIN jobs[j].chunks \ {c} : jobs'[j].chunks[d] = jobs[j].chunks[d]
      /\ jobs'[j].status = IF \A d \in DOMAIN jobs[j].chunks \ {c} :
                                jobs[j].chunks[d].status = "delivered"
                           THEN "delivered" ELSE "responded"
  <2>1. PICK m \in Nat : m = delivery.mid
    BY <1>4
  <2>2. jobs'[j].chunks[c] = [status |-> "delivered", mid |-> m]
    BY <1>3, <1>4, <2>1, MarkedChunk
  <2>3. jobs'[j].chunks[c].status = "delivered"
    BY <2>2
  <2> QED
    BY <1>3, <1>4, <2>1, <2>3, MarkedChunk
<1>6. \A k, d : Copies(k, d)' = Copies(k, d)
  BY <1>3 DEF Copies
<1>7. DeliveryHeld'
  BY <1>3 DEF DeliveryHeld, Idle
<1>8. ChunksCounted'
  <2>1. jobs'[j].status = "delivered" =>
          \A d \in DOMAIN jobs'[j].chunks : jobs'[j].chunks[d].status = "delivered"
    BY <1>5
  <2> QED
    BY <1>5, <2>1 DEF ShownInv, ChunksCounted, OnlyJob
<1>9. ShownInOrder'
  <2>1. ASSUME NEW m \in DOMAIN shown
        PROVE  /\ shown[m].job \in DOMAIN jobs'
               /\ shown[m].reply = jobs'[shown[m].job].response
               /\ shown[m].chunk \in DOMAIN jobs'[shown[m].job].chunks
               /\ \A d \in 1 .. shown[m].chunk - 1 :
                    jobs'[shown[m].job].chunks[d].status = "delivered"
    <3>1. CASE shown[m].job # j
      BY <1>5, <3>1 DEF ShownInv, ShownInOrder, OnlyJob
    <3>2. CASE shown[m].job = j
      <4>1. /\ shown[m].chunk \in DOMAIN jobs[j].chunks /\ shown[m].reply = jobs[j].response
            /\ \A d \in 1 .. shown[m].chunk - 1 :
                 d \in DOMAIN jobs[j].chunks /\ jobs[j].chunks[d].status = "delivered"
        BY <3>2, ChunksTyped DEF ShownInv, ShownInOrder
      <4>2. \A d \in 1 .. shown[m].chunk - 1 : jobs'[j].chunks[d].status = "delivered"
        BY <1>5, <4>1
      <4> QED
        BY <1>5, <3>2, <4>1, <4>2 DEF OnlyJob
    <3> QED
      BY <3>1, <3>2
  <2> QED
    BY <1>3, <2>1 DEF ShownInv, ShownInOrder
<1>10. ConfirmedShown'
  <2>1. Copies(j, c) # {}
    BY <1>4
  <2> QED
    BY <1>5, <1>6, <2>1 DEF ShownInv, ConfirmedShown, OnlyJob
<1>11. CopiesBounded'
  <2>1. ASSUME NEW k \in DOMAIN jobs, NEW d \in DOMAIN jobs[k].chunks
        PROVE  Taken(k, d) => Taken(k, d)'
    BY <1>3, <1>5 DEF Taken, OnlyJob, Idle
  <2>2. ASSUME NEW k \in DOMAIN jobs, NEW d \in DOMAIN jobs[k].chunks
        PROVE  Cardinality(Copies(k, d)) <= restarts + IF Taken(k, d)' THEN 1 ELSE 0
    <3>1. Cardinality(Copies(k, d)) \in Nat /\ restarts \in Nat
      BY CopiesFinite, GatewayAssumption DEF GatewayInv, TypeOK
    <3> QED
      BY <2>1, <3>1 DEF ShownInv, CopiesBounded
  <2>3. /\ DOMAIN jobs' = DOMAIN jobs /\ restarts' = restarts
        /\ \A k \in DOMAIN jobs : DOMAIN jobs'[k].chunks = DOMAIN jobs[k].chunks
    BY <1>3, <1>5 DEF OnlyJob
  <2> QED
    BY <1>6, <2>2, <2>3 DEF CopiesBounded
<1> QED
  BY <1>7, <1>8, <1>9, <1>10, <1>11 DEF ShownInv

\* Startup gives the chunks that were being sent back.
LEMMA StartShown ==
  ASSUME GatewayInv, ShownInv, Start
  PROVE  ShownInv'
<1>1. /\ ~up /\ up' = TRUE /\ RecoverJobs /\ UNCHANGED <<shown, delivery, restarts>>
      /\ delivery = Idle /\ DOMAIN jobs' = DOMAIN jobs
  BY DEF Start, RecoverJobs, GatewayInv, IdleWhileDown
<1>2. ASSUME NEW j \in DOMAIN jobs
      PROVE  /\ jobs'[j].response = jobs[j].response
             /\ jobs'[j].status = "delivered" <=> jobs[j].status = "delivered"
             /\ DOMAIN jobs'[j].chunks = DOMAIN jobs[j].chunks
  BY <1>1, RecoveredJob DEF RecoveredStatus
<1>3. ASSUME NEW j \in DOMAIN jobs, NEW c \in DOMAIN jobs[j].chunks
      PROVE  jobs'[j].chunks[c].status = "delivered" <=> jobs[j].chunks[c].status = "delivered"
  <2>1. jobs[j].chunks[c] \in Chunk
    <3>1. jobs[j].chunks \in Seq(Chunk)
      BY JobsTyped DEF GatewayInv, StoreInv, Job
    <3> QED
      BY <3>1, ElementOfSeq, LenProperties
  <2>2. jobs'[j].chunks[c] = RecoveredChunk(jobs[j].chunks[c])
    BY <1>1, RecoveredJob
  <2> QED
    BY <2>1, <2>2 DEF RecoveredChunk, Chunk
<1>4. \A k, d : Copies(k, d)' = Copies(k, d)
  BY <1>1 DEF Copies
<1>5. DeliveryHeld'
  BY <1>1 DEF DeliveryHeld, Idle
<1>6. ChunksCounted'
  BY <1>1, <1>2, <1>3 DEF ShownInv, ChunksCounted
<1>7. ShownInOrder'
  <2>1. ASSUME NEW m \in DOMAIN shown
        PROVE  \A d \in 1 .. shown[m].chunk - 1 :
                 jobs'[shown[m].job].chunks[d].status = "delivered"
    <3>1. /\ shown[m].job \in DOMAIN jobs
          /\ \A d \in 1 .. shown[m].chunk - 1 :
               /\ d \in DOMAIN jobs[shown[m].job].chunks
               /\ jobs[shown[m].job].chunks[d].status = "delivered"
      BY ChunksTyped DEF ShownInv, ShownInOrder
    <3> QED
      BY <1>3, <3>1
  <2> QED
    BY <1>1, <1>2, <2>1 DEF ShownInv, ShownInOrder
<1>8. ConfirmedShown'
  BY <1>1, <1>2, <1>3, <1>4 DEF ShownInv, ConfirmedShown
<1>9. CopiesBounded'
  <2>1. ASSUME NEW k \in DOMAIN jobs, NEW d \in DOMAIN jobs[k].chunks
        PROVE  Cardinality(Copies(k, d)) <= restarts + IF Taken(k, d)' THEN 1 ELSE 0
    <3>1. Cardinality(Copies(k, d)) \in Nat /\ restarts \in Nat
      BY CopiesFinite, GatewayAssumption DEF GatewayInv, TypeOK
    <3>2. ~Taken(k, d)
      BY <1>1 DEF Taken
    <3> QED
      BY <3>1, <3>2 DEF ShownInv, CopiesBounded
  <2> QED
    BY <1>1, <1>2, <1>4, <2>1 DEF CopiesBounded
<1> QED
  BY <1>5, <1>6, <1>7, <1>8, <1>9 DEF ShownInv

LEMMA ShownNextInv ==
  ASSUME GatewayInv, ShownInv, [Next]_vars
  PROVE  ShownInv'
<1>1. ASSUME NEW j \in DOMAIN jobs, DeliverClaim(j)
      PROVE  ShownInv'
  BY <1>1, ClaimShown
<1>2. CASE DeliverMark
  BY <1>2, MarkShown
<1>3. CASE Start
  BY <1>3, StartShown
<1>4. CASE DeliverSend
  BY <1>4, SentShown DEF DeliverSend, dbVars
<1>5. CASE DeliverSendFails
  <2>1. jobs' = jobs => ChunksKept
    BY DEF ChunksKept
  <2> QED
    BY <1>5, <2>1, SentShown, KeptShown DEF DeliverSendFails, dbVars
<1>6. CASE Crash
  <2>1. ChunksKept /\ shown' = shown
    BY <1>6 DEF Crash, ChunksKept, dbVars
  <2> QED
    BY <1>6, <2>1, KeptShown
<1>7. CASE ChunksKept /\ UNCHANGED <<shown, delivery, up, restarts>>
  BY <1>7, KeptShown
<1> QED
  BY <1>1, <1>2, <1>3, <1>4, <1>5, <1>6, <1>7, ChunkSteps, DeliverySteps DEF Marks

\* What the owner reads is the saved answer, in order, each piece at most
\* once per start of the process (claim_next_delivery, run_delivery_once).
LEMMA ShownSaved ==
  ASSUME GatewayInv, ShownInv
  PROVE  ShownIsSaved
<1>1. ASSUME NEW m \in DOMAIN shown
      PROVE  Cardinality({n \in DOMAIN shown : shown[n].job = shown[m].job
                                               /\ shown[n].chunk = shown[m].chunk}) <= restarts + 1
  <2>1. shown[m].job \in DOMAIN jobs /\ shown[m].chunk \in DOMAIN jobs[shown[m].job].chunks
    BY DEF ShownInv, ShownInOrder
  <2>2. /\ Cardinality(Copies(shown[m].job, shown[m].chunk)) \in Nat /\ restarts \in Nat
        /\ Cardinality(Copies(shown[m].job, shown[m].chunk))
             <= restarts + IF Taken(shown[m].job, shown[m].chunk) THEN 1 ELSE 0
    BY <2>1, CopiesFinite, GatewayAssumption DEF ShownInv, CopiesBounded, GatewayInv, TypeOK
  <2>3. Cardinality(Copies(shown[m].job, shown[m].chunk)) <= restarts + 1
    BY <2>2
  <2> QED
    BY <2>3 DEF Copies
<1>2. ASSUME NEW j \in DOMAIN jobs, jobs[j].status = "delivered",
             NEW c \in 1 .. ChunkCount[jobs[j].response]
      PROVE  \E m \in DOMAIN shown : shown[m].job = j /\ shown[m].chunk = c
  <2>1. c \in DOMAIN jobs[j].chunks /\ jobs[j].chunks[c].status = "delivered"
    BY <1>2 DEF ShownInv, ChunksCounted
  <2> QED
    BY <2>1 DEF ShownInv, ConfirmedShown, Copies
<1> QED
  BY <1>1, <1>2 DEF ShownIsSaved, ShownInv, ShownInOrder

-----------------------------------------------------------------------------
(* How a step changes the checkpoints                                      *)

LEMMA CheckpointTyped ==
  ASSUME GatewayInv, NEW c \in DOMAIN checkpoints
  PROVE  /\ DOMAIN checkpoints[c] = {"stream", "end", "digest", "status"}
         /\ checkpoints[c].stream \in Streams
         /\ checkpoints[c].end \in DOMAIN transcript /\ checkpoints[c].end \in Nat
         /\ checkpoints[c].status \in CheckpointStatus
<1>1. DOMAIN transcript \subseteq Nat
  BY RowsTyped
<1> QED
  BY <1>1 DEF GatewayInv, TypeOK, CheckpointsTypeOK

\* The rows other than c, and the coverage of every row, are as before.
Restates(c) ==
  /\ c \in DOMAIN checkpoints /\ DOMAIN checkpoints' = DOMAIN checkpoints
  /\ \A b \in DOMAIN checkpoints : /\ checkpoints'[b].stream = checkpoints[b].stream
                                   /\ checkpoints'[b].end = checkpoints[b].end

Fails(c) ==
  /\ Restates(c) /\ checkpoints[c].status = "pending" /\ checkpoints'[c].status = "failed"
  /\ \A b \in DOMAIN checkpoints \ {c} : checkpoints'[b] = checkpoints[b]

Completes(c) ==
  /\ Restates(c) /\ checkpoints[c].status = "pending" /\ checkpoints'[c].status = "active"
  /\ \A b \in DOMAIN checkpoints \ {c} :
       checkpoints'[b].status =
         IF checkpoints[b].stream = checkpoints[c].stream /\ checkpoints[b].status = "active"
         THEN "superseded" ELSE checkpoints[b].status

Claims(c, s, e) ==
  /\ s \in Streams /\ CompactableStream(s) /\ Cardinality(Rows(s)) >= TriggerEntries
  /\ e \in CompactionPrefix(s) /\ \A i \in CompactionPrefix(s) : i <= e
  /\ DOMAIN checkpoints' = DOMAIN checkpoints \cup {c}
  /\ c \in DOMAIN checkpoints => checkpoints[c].status = "failed"
  /\ checkpoints'[c].stream = s /\ checkpoints'[c].end = e /\ checkpoints'[c].status = "pending"
  /\ \A b \in DOMAIN checkpoints \ {c} : checkpoints'[b] = checkpoints[b]

Recovers ==
  /\ DOMAIN checkpoints' = DOMAIN checkpoints
  /\ \A b \in DOMAIN checkpoints :
       /\ checkpoints'[b].stream = checkpoints[b].stream
       /\ checkpoints'[b].end = checkpoints[b].end
       /\ checkpoints'[b].status = IF checkpoints[b].status = "pending" THEN "failed"
                                   ELSE checkpoints[b].status

LEMMA ClaimedCheckpoint ==
  ASSUME GatewayInv, NEW c, ClaimCompaction(c)
  PROVE  \E s, e : Claims(c, s, e)
<1>1. PICK S : checkpoints \in Seq(S)
  BY DEF GatewayInv, CheckpointRows
<1>2. DOMAIN checkpoints = 1 .. Len(checkpoints) /\ Len(checkpoints) \in Nat
  BY <1>1, LenProperties
<1>3. PICK s \in Streams :
        /\ CompactableStream(s) /\ Cardinality(Rows(s)) >= TriggerEntries
        /\ \E e \in CompactionPrefix(s) :
             LET row == [stream |-> s, end |-> e, status |-> "pending",
                         digest |-> RowDigest(CompactionPrefix(s))]
             IN  /\ \A i \in CompactionPrefix(s) : i <= e
                 /\ \/ c = Len(checkpoints) + 1 /\ checkpoints' = Append(checkpoints, row)
                    \/ /\ c \in DOMAIN checkpoints /\ checkpoints[c].status = "failed"
                       /\ checkpoints' = [checkpoints EXCEPT ![c] = row]
  BY DEF ClaimCompaction, CompactionDue, FailedFrontier
<1>4. PICK e \in CompactionPrefix(s) :
        LET row == [stream |-> s, end |-> e, status |-> "pending",
                    digest |-> RowDigest(CompactionPrefix(s))]
        IN  /\ \A i \in CompactionPrefix(s) : i <= e
            /\ \/ c = Len(checkpoints) + 1 /\ checkpoints' = Append(checkpoints, row)
               \/ /\ c \in DOMAIN checkpoints /\ checkpoints[c].status = "failed"
                  /\ checkpoints' = [checkpoints EXCEPT ![c] = row]
  BY <1>3
<1>5. PICK row : row = [stream |-> s, end |-> e, status |-> "pending",
                        digest |-> RowDigest(CompactionPrefix(s))]
  OBVIOUS
<1>6. row.stream = s /\ row.end = e /\ row.status = "pending"
  BY <1>5
<1>7. CASE c = Len(checkpoints) + 1 /\ checkpoints' = Append(checkpoints, row)
  <2>1. /\ DOMAIN checkpoints' = DOMAIN checkpoints \cup {c} /\ checkpoints'[c] = row
        /\ \A b \in DOMAIN checkpoints : checkpoints'[b] = checkpoints[b]
    BY <1>1, <1>2, <1>7
  <2>2. c \notin DOMAIN checkpoints
    BY <1>2, <1>7
  <2> QED
    BY <1>3, <1>4, <1>6, <2>1, <2>2 DEF Claims
<1>8. CASE /\ c \in DOMAIN checkpoints /\ checkpoints[c].status = "failed"
           /\ checkpoints' = [checkpoints EXCEPT ![c] = row]
  BY <1>3, <1>4, <1>6, <1>8 DEF Claims
<1> QED
  BY <1>4, <1>5, <1>7, <1>8

LEMMA CompletedCheckpoint ==
  ASSUME GatewayInv, NEW c \in DOMAIN checkpoints, CompleteCompaction(c)
  PROVE  Completes(c)
<1>1. \A b \in DOMAIN checkpoints : DOMAIN checkpoints[b] = {"stream", "end", "digest", "status"}
  BY CheckpointTyped
<1>2. PICK s : s = checkpoints[c].stream
  OBVIOUS
<1>3. /\ checkpoints[c].status = "pending"
      /\ checkpoints' = [b \in DOMAIN checkpoints |->
            CASE b = c -> [checkpoints[b] EXCEPT !.status = "active"]
              [] checkpoints[b].stream = s /\ checkpoints[b].status = "active"
                   -> [checkpoints[b] EXCEPT !.status = "superseded"]
              [] OTHER -> checkpoints[b]]
  BY <1>2 DEF CompleteCompaction
<1>4. checkpoints'[c] = [checkpoints[c] EXCEPT !.status = "active"]
  BY <1>3
<1>5. ASSUME NEW b \in DOMAIN checkpoints \ {c}
      PROVE  checkpoints'[b] = IF checkpoints[b].stream = s /\ checkpoints[b].status = "active"
                               THEN [checkpoints[b] EXCEPT !.status = "superseded"]
                               ELSE checkpoints[b]
  BY <1>3
<1>6. Restates(c)
  <2>1. DOMAIN checkpoints' = DOMAIN checkpoints
    BY <1>3
  <2> QED
    BY <1>1, <1>4, <1>5, <2>1 DEF Restates
<1> QED
  BY <1>1, <1>2, <1>3, <1>4, <1>5, <1>6 DEF Completes

LEMMA FailedCheckpoint ==
  ASSUME GatewayInv, NEW c \in DOMAIN checkpoints, FailCompaction(c)
  PROVE  Fails(c)
<1>1. DOMAIN checkpoints[c] = {"stream", "end", "digest", "status"}
  BY CheckpointTyped
<1> QED
  BY <1>1 DEF FailCompaction, Fails, Restates

LEMMA RecoveredCheckpoints ==
  ASSUME GatewayInv, RecoverCheckpoints
  PROVE  Recovers
<1>1. \A b \in DOMAIN checkpoints : DOMAIN checkpoints[b] = {"stream", "end", "digest", "status"}
  BY CheckpointTyped
<1>2. ASSUME NEW b \in DOMAIN checkpoints
      PROVE  checkpoints'[b] = IF checkpoints[b].status = "pending"
                               THEN [checkpoints[b] EXCEPT !.status = "failed"]
                               ELSE checkpoints[b]
  BY DEF RecoverCheckpoints
<1>3. DOMAIN checkpoints' = DOMAIN checkpoints
  BY DEF RecoverCheckpoints
<1> QED
  BY <1>1, <1>2, <1>3 DEF Recovers

LEMMA CheckpointSteps ==
  ASSUME GatewayInv, [Next]_vars
  PROVE  \/ UNCHANGED checkpoints
         \/ UNCHANGED storeVars /\ \E c, s, e : Claims(c, s, e)
         \/ UNCHANGED storeVars /\ \E c : Completes(c)
         \/ UNCHANGED storeVars /\ \E c : Fails(c)
         \/ Start /\ Recovers
<1>1. ASSUME NEW c, GenClaimCompaction(c)
      PROVE  UNCHANGED storeVars /\ \E s, e : Claims(c, s, e)
  BY <1>1, ClaimedCheckpoint DEF GenClaimCompaction, ClaimCompaction
<1>2. gen.pc = "compacting" => gen.checkpoint \in DOMAIN checkpoints
  BY DEF GatewayInv, TypeOK, GenStates, Idle
<1>3. GenCompactionValid => UNCHANGED storeVars /\ Completes(gen.checkpoint)
  BY <1>2, CompletedCheckpoint DEF GenCompactionValid, CompleteCompaction
<1>4. GenCompactionInvalid => UNCHANGED storeVars /\ Fails(gen.checkpoint)
  BY <1>2, FailedCheckpoint DEF GenCompactionInvalid, FailCompaction
<1>5. Start => Recovers
  BY RecoveredCheckpoints DEF Start
<1>6. Next => \/ UNCHANGED checkpoints
              \/ \E c : GenClaimCompaction(c)
              \/ GenCompactionValid
              \/ GenCompactionInvalid
              \/ Start
  BY DEF Next, PollStep, GenStep, DeliverStep, UserSends, PollFetch, PollAccept, PollIgnore, Ingested,
         PollMalformed, PollAborted, PollDownload, PollDownloadFails, PollEnds, GenClaim, GenReply,
         GenFails, GenFindsNoJob, GenFindsNothing, DeliverClaim, DeliverSend,
         DeliverSendFails, DeliverMark, Crash, Debounce, dbVars
<1>7. UNCHANGED vars => UNCHANGED checkpoints
  BY DEF vars, dbVars
<1> QED
  BY <1>1, <1>3, <1>4, <1>5, <1>6, <1>7

\* The partial unique indexes of the schema never fail a transaction
\* (claim_next_compaction, complete_compaction).
LEMMA UniqueNextInv ==
  ASSUME GatewayInv, CheckpointsUnique, [Next]_vars
  PROVE  CheckpointsUnique'
<1>1. CASE UNCHANGED checkpoints
  BY <1>1 DEF CheckpointsUnique
<1>2. ASSUME NEW c, NEW s, NEW e, Claims(c, s, e)
      PROVE  CheckpointsUnique'
  <2>1. ~ \E b \in DOMAIN checkpoints : checkpoints[b].stream = s /\ checkpoints[b].status = "pending"
    BY <1>2 DEF Claims, CompactableStream
  <2> QED
    BY <1>2, <2>1 DEF Claims, CheckpointsUnique
<1>3. ASSUME NEW c, Completes(c)
      PROVE  CheckpointsUnique'
  BY <1>3 DEF Completes, Restates, CheckpointsUnique
<1>4. ASSUME NEW c, Fails(c)
      PROVE  CheckpointsUnique'
  BY <1>4 DEF Fails, Restates, CheckpointsUnique
<1>5. Recovers => CheckpointsUnique'
  BY DEF Recovers, CheckpointsUnique
<1> QED
  BY <1>1, <1>2, <1>3, <1>4, <1>5, CheckpointSteps

-----------------------------------------------------------------------------
(* Checkpoints against the transcript and the jobs                         *)

\* An open turn is one without an answer.
LEMMA OpenTurn ==
  ASSUME GatewayInv, NEW j \in DOMAIN jobs
  PROVE  jobs[j].status \in {"queued", "processing"} <=> jobs[j].response = NoReply
<1>1. jobs[j].status \in JobStatus
  BY JobsTyped DEF GatewayInv, StoreInv, Job
<1> QED
  BY <1>1 DEF GatewayInv, StoreInv, AnsweredStatus, JobStatus

\* Every step keeps the transcript or adds a row at its end.
LEMMA TranscriptGrows ==
  ASSUME GatewayInv, [Next]_vars
  PROVE  transcript' = transcript \/ \E n, row : Entered(n, row)
<1>1. ASSUME NEW u \in UpdateIds, Stores(u)
      PROVE  \E n, row : Entered(n, row)
  BY <1>1, EntryAppended DEF Stores, EnqueueNewUpdate
<1>2. ASSUME NEW r \in Replies, Saves(r)
      PROVE  \E n, row : Entered(n, row)
  <2>1. gen.job \in DOMAIN jobs
    BY <1>2, HeldWork DEF Saves, GenReply
  <2> QED
    BY <1>2, <2>1, SavedAnswer, EntryAppended DEF Saves, GenReply
<1> QED
  BY <1>1, <1>2, TranscriptSteps DEF QuietStep

\* A stream's rows only become more, at the end.
LEMMA RowsGrow ==
  ASSUME GatewayInv, [Next]_vars, NEW s
  PROVE  /\ Rows(s) \subseteq Rows(s)'
         /\ \A i \in Rows(s)' \ Rows(s) : \A k \in DOMAIN transcript : k < i
<1>1. CASE transcript' = transcript
  BY <1>1 DEF Rows
<1>2. ASSUME NEW n, NEW row, Entered(n, row)
      PROVE  /\ Rows(s) \subseteq Rows(s)'
             /\ \A i \in Rows(s)' \ Rows(s) : \A k \in DOMAIN transcript : k < i
  BY <1>2 DEF Entered, Rows
<1> QED
  BY <1>1, <1>2, TranscriptGrows

\* The user rows of a job in a quiet step, and when an update is stored.
LEMMA TurnRows ==
  ASSUME GatewayInv, GatewayInv', PollOrdered, RowsInv, [Next]_vars,
         NEW j \in DOMAIN jobs', jobs'[j].status \in {"queued", "processing"},
         NEW i \in CurrentRows(j)'
  PROVE  \/ \A k \in DOMAIN transcript : k < i
         \/ /\ j \in DOMAIN jobs /\ jobs[j].status \in {"queued", "processing"}
            /\ jobs'[j].stream = jobs[j].stream /\ i \in CurrentRows(j)
<1>1. jobs'[j].response = NoReply
  BY DEF GatewayInv, StoreInv, AnsweredStatus
<1>2. /\ i \in DOMAIN transcript' /\ transcript'[i].stream = jobs'[j].stream
      /\ transcript'[i].role = "user" /\ transcript'[i].update \in BatchSet(j)'
  BY DEF CurrentRows, Rows
<1>3. CASE QuietStep
  <2>1. j \in DOMAIN jobs /\ jobs[j].response = NoReply /\ jobs'[j].stream = jobs[j].stream
        /\ BatchSet(j)' = BatchSet(j) /\ transcript' = transcript
    BY <1>1, <1>3 DEF QuietStep, BatchesKept, SameBatch, BatchSet
  <2> QED
    BY <1>2, <2>1, OpenTurn DEF CurrentRows, Rows
<1>4. ASSUME NEW r \in Replies, Saves(r), ~ \A k \in DOMAIN transcript : k < i
      PROVE  /\ j \in DOMAIN jobs /\ jobs[j].status \in {"queued", "processing"}
             /\ jobs'[j].stream = jobs[j].stream /\ i \in CurrentRows(j)
  <2>1. PICK h \in DOMAIN jobs : h = gen.job
    BY <1>4, HeldWork DEF Saves, GenReply
  <2>2. OnlyJob(h) /\ jobs'[h].response = r
    BY <1>4, <2>1, SavedAnswer DEF Saves, GenReply
  <2>3. j \in DOMAIN jobs /\ jobs'[j] = jobs[j]
    BY <1>1, <2>2, StoreAssumption DEF OnlyJob
  <2>4. BatchSet(j)' = BatchSet(j)
    BY <2>3 DEF BatchSet
  <2>5. i \in DOMAIN transcript /\ transcript'[i] = transcript[i]
    BY <1>2, <1>4, TranscriptGrows DEF Entered
  <2> QED
    BY <1>2, <2>3, <2>4, <2>5 DEF CurrentRows, Rows
<1>5. ASSUME NEW u \in UpdateIds, Stores(u), ~ \A k \in DOMAIN transcript : k < i
      PROVE  /\ j \in DOMAIN jobs /\ jobs[j].status \in {"queued", "processing"}
             /\ jobs'[j].stream = jobs[j].stream /\ i \in CurrentRows(j)
  <2>1. PICK h \in Nat, n \in Nat : Joined(u, allowed, h, n)
    <3>1. (updates[u].kind = "image") \in BOOLEAN /\ allowed \in Streams
      BY DEF GatewayInv, TypeOK
    <3> QED
      BY <1>5, <3>1, StoredUpdate DEF Stores
  <2>2. i \in DOMAIN transcript /\ transcript'[i] = transcript[i]
    BY <1>2, <1>5, TranscriptGrows DEF Entered
  <2>3. transcript[i].update # u
    <3>1. inbox[u] = "absent"
      BY <1>5, NewUpdateIsLast DEF Stores
    <3>2. inbox[transcript[i].update] # "absent"
      BY <1>2, <2>2, RowsTyped DEF RowsInv, UserRowsKept, UserRow
    <3> QED
      BY <3>1, <3>2
  <2>4. PICK a \in DOMAIN jobs'[j].batch : jobs'[j].batch[a] = transcript[i].update
    BY <1>2, <2>2 DEF BatchSet
  <2>5. j \in DOMAIN jobs /\ a \in DOMAIN jobs[j].batch /\ jobs[j].batch[a] = transcript[i].update
    <3>1. CASE j # h
      BY <2>1, <2>4, <3>1 DEF Joined
    <3>2. CASE j = h
      <4>1. a # n
        BY <2>1, <2>3, <2>4, <3>2 DEF Joined
      <4> QED
        BY <2>1, <2>4, <3>2, <4>1 DEF Joined
    <3> QED
      BY <3>1, <3>2
  <2>6. transcript[i].update \in BatchSet(j)
    BY <2>5 DEF BatchSet
  <2>7. jobs'[j].stream = jobs[j].stream /\ jobs[j].status \in {"queued", "processing"}
    BY <2>1, <2>5 DEF Joined
  <2> QED
    BY <1>2, <2>2, <2>5, <2>6, <2>7 DEF CurrentRows, Rows
<1> QED
  BY <1>3, <1>4, <1>5, TranscriptSteps

\* A checkpoint in use never covers a message still to be answered
\* (claim_next_compaction).
LEMMA SparesNextInv ==
  ASSUME GatewayInv, GatewayInv', PollOrdered, RowsInv, CheckpointSparesOpenTurns, [Next]_vars
  PROVE  CheckpointSparesOpenTurns'
<1> DEFINE Live(status) == status \in {"pending", "active"}
<1>1. ASSUME NEW c \in DOMAIN checkpoints', Live(checkpoints'[c].status)
      PROVE  \/ /\ c \in DOMAIN checkpoints /\ Live(checkpoints[c].status)
                /\ checkpoints'[c].stream = checkpoints[c].stream
                /\ checkpoints'[c].end = checkpoints[c].end
             \/ /\ UNCHANGED storeVars
                /\ CompactableStream(checkpoints'[c].stream)
  <2>1. CASE UNCHANGED checkpoints
    BY <1>1, <2>1
  <2>2. ASSUME NEW b, NEW s, NEW e, Claims(b, s, e), UNCHANGED storeVars
        PROVE  \/ /\ c \in DOMAIN checkpoints /\ Live(checkpoints[c].status)
                  /\ checkpoints'[c].stream = checkpoints[c].stream
                  /\ checkpoints'[c].end = checkpoints[c].end
               \/ /\ UNCHANGED storeVars
                  /\ CompactableStream(checkpoints'[c].stream)
    BY <1>1, <2>2 DEF Claims
  <2>3. ASSUME NEW b, Completes(b)
        PROVE  /\ c \in DOMAIN checkpoints /\ Live(checkpoints[c].status)
               /\ checkpoints'[c].stream = checkpoints[c].stream
               /\ checkpoints'[c].end = checkpoints[c].end
    BY <1>1, <2>3 DEF Completes, Restates
  <2>4. ASSUME NEW b, Fails(b)
        PROVE  /\ c \in DOMAIN checkpoints /\ Live(checkpoints[c].status)
               /\ checkpoints'[c].stream = checkpoints[c].stream
               /\ checkpoints'[c].end = checkpoints[c].end
    BY <1>1, <2>4 DEF Fails, Restates
  <2>5. ASSUME Recovers
        PROVE  /\ c \in DOMAIN checkpoints /\ Live(checkpoints[c].status)
               /\ checkpoints'[c].stream = checkpoints[c].stream
               /\ checkpoints'[c].end = checkpoints[c].end
    BY <1>1, <2>5 DEF Recovers
  <2> QED
    BY <2>1, <2>2, <2>3, <2>4, <2>5, CheckpointSteps
<1> HIDE DEF Live
<1>2. ASSUME NEW c \in DOMAIN checkpoints', Live(checkpoints'[c].status), NEW j \in DOMAIN jobs',
             jobs'[j].stream = checkpoints'[c].stream, jobs'[j].status \in {"queued", "processing"},
             NEW i \in CurrentRows(j)'
      PROVE  checkpoints'[c].end < i
  <2>1. CASE UNCHANGED storeVars /\ CompactableStream(checkpoints'[c].stream)
    BY <1>2, <2>1 DEF storeVars, CompactableStream
  <2>2. CASE /\ c \in DOMAIN checkpoints /\ Live(checkpoints[c].status)
             /\ checkpoints'[c].stream = checkpoints[c].stream
             /\ checkpoints'[c].end = checkpoints[c].end
    <3>1. CASE \A k \in DOMAIN transcript : k < i
      BY <2>2, <3>1, CheckpointTyped
    <3>2. CASE /\ j \in DOMAIN jobs /\ jobs[j].status \in {"queued", "processing"}
               /\ jobs'[j].stream = jobs[j].stream /\ i \in CurrentRows(j)
      BY <1>2, <2>2, <3>2 DEF CheckpointSparesOpenTurns, Live
    <3> QED
      BY <1>2, <3>1, <3>2, TurnRows
  <2> QED
    BY <1>1, <1>2, <2>1, <2>2
<1> QED
  BY <1>2 DEF CheckpointSparesOpenTurns, Live

-----------------------------------------------------------------------------
(* Coverage                                                                *)

RowsBeyond(s, e) == {i \in Rows(s) : i > e}

LEMMA RowsFinite ==
  ASSUME GatewayInv, NEW s, NEW e
  PROVE  /\ IsFiniteSet(Rows(s)) /\ IsFiniteSet(RowsBeyond(s, e))
         /\ Cardinality(Rows(s)) \in Nat /\ Cardinality(RowsBeyond(s, e)) \in Nat
<1>1. DOMAIN transcript = 1 .. Len(transcript) /\ Len(transcript) \in Nat
  BY LenProperties DEF GatewayInv, StoreInv, StoreTypeOK
<1>2. IsFiniteSet(1 .. Len(transcript))
  BY <1>1, FS_Interval
<1>3. Rows(s) \subseteq 1 .. Len(transcript) /\ RowsBeyond(s, e) \subseteq 1 .. Len(transcript)
  BY <1>1 DEF Rows, RowsBeyond
<1> QED
  BY <1>2, <1>3, FS_Subset, FS_CardinalityType

\* What lies beyond a row only becomes more.
LEMMA BeyondGrows ==
  ASSUME GatewayInv, GatewayInv', [Next]_vars, NEW s, NEW e
  PROVE  Cardinality(RowsBeyond(s, e)) <= Cardinality(RowsBeyond(s, e)')
<1>1. RowsBeyond(s, e) \subseteq RowsBeyond(s, e)'
  BY RowsGrow DEF RowsBeyond
<1>2. IsFiniteSet(RowsBeyond(s, e)')
  <2>1. DOMAIN transcript' = 1 .. Len(transcript') /\ Len(transcript') \in Nat
    BY LenProperties DEF GatewayInv, StoreInv, StoreTypeOK
  <2>2. IsFiniteSet(1 .. Len(transcript'))
    BY <2>1, FS_Interval
  <2>3. RowsBeyond(s, e)' \subseteq 1 .. Len(transcript')
    BY <2>1 DEF Rows, RowsBeyond
  <2> QED
    BY <2>2, <2>3, FS_Subset
<1>3. \A S, T : IsFiniteSet(T) /\ S \subseteq T => Cardinality(S) <= Cardinality(T)
  BY FS_Subset
<1> QED
  BY <1>1, <1>2, <1>3

\* A checkpoint ends with an entry of its stream (claim_next_compaction).
LEMMA InStreamNextInv ==
  ASSUME GatewayInv, CoverageInStream, [Next]_vars
  PROVE  CoverageInStream'
<1> DEFINE Ends(c) == /\ checkpoints'[c].end \in DOMAIN transcript'
                      /\ transcript'[checkpoints'[c].end].stream = checkpoints'[c].stream
<1>1. ASSUME NEW c \in DOMAIN checkpoints,
             checkpoints'[c].stream = checkpoints[c].stream, checkpoints'[c].end = checkpoints[c].end
      PROVE  Ends(c)
  <2>1. PICK s, e : s = checkpoints[c].stream /\ e = checkpoints[c].end
    OBVIOUS
  <2>2. e \in Rows(s)
    BY <2>1 DEF CoverageInStream
  <2>3. Rows(s) \subseteq Rows(s)'
    BY RowsGrow
  <2>4. e \in DOMAIN transcript' /\ transcript'[e].stream = s
    BY <2>2, <2>3 DEF Rows
  <2> QED
    BY <1>1, <2>1, <2>4
<1>2. ASSUME NEW b, NEW s, NEW e, Claims(b, s, e), UNCHANGED storeVars, NEW c \in DOMAIN checkpoints'
      PROVE  Ends(c)
  <2>1. CASE c = b
    BY <1>2, <2>1 DEF Claims, CompactionPrefix, Rows, storeVars
  <2>2. CASE c # b
    <3>1. c \in DOMAIN checkpoints /\ checkpoints'[c] = checkpoints[c]
      BY <1>2, <2>2 DEF Claims
    <3> QED
      BY <1>1, <3>1
  <2> QED
    BY <2>1, <2>2
<1>3. UNCHANGED checkpoints => \A c \in DOMAIN checkpoints' : Ends(c)
  BY <1>1
<1>4. ASSUME NEW b, Restates(b)
      PROVE  \A c \in DOMAIN checkpoints' : Ends(c)
  BY <1>1, <1>4 DEF Restates
<1>5. Recovers => \A c \in DOMAIN checkpoints' : Ends(c)
  BY <1>1 DEF Recovers
<1>6. \A c \in DOMAIN checkpoints' : Ends(c)
  BY <1>2, <1>3, <1>4, <1>5, CheckpointSteps DEF Completes, Fails
<1> QED
  BY <1>6 DEF CoverageInStream, Rows

\* The threshold that starts a compaction is at least the exact tail it has
\* to leave, as in the defaults (telegram_store.py).
Reserved == TailReserve <= TriggerEntries

\* The covered range of a claimed compaction is all but the exact tail.
LEMMA ClaimedPrefix ==
  ASSUME Reserved, GatewayInv, NEW c, NEW s, NEW e, Claims(c, s, e)
  PROVE  \A i \in Rows(s) : i \in CompactionPrefix(s) <=> Cardinality(RowsBeyond(s, i)) >= TailReserve
<1>1. ~(Cardinality(Rows(s)) < TailReserve)
  <2>1. Cardinality(Rows(s)) \in Nat /\ TailReserve \in Nat /\ TriggerEntries \in Nat
    BY RowsFinite, CheckpointAssumption
  <2>2. Cardinality(Rows(s)) >= TriggerEntries
    BY DEF Claims
  <2> QED
    BY <2>1, <2>2 DEF Reserved
<1> QED
  BY <1>1 DEF CompactionPrefix, RowsBeyond

\* A compaction leaves the exact tail, which later messages only lengthen
\* (claim_next_compaction).
LEMMA ReserveNextInv ==
  ASSUME Reserved, GatewayInv, GatewayInv', ReserveStaysExact, [Next]_vars
  PROVE  ReserveStaysExact'
<1> DEFINE Beyond(c) == {i \in DOMAIN transcript' : /\ transcript'[i].stream = checkpoints'[c].stream
                                                   /\ i > checkpoints'[c].end}
<1>1. ASSUME NEW c \in DOMAIN checkpoints,
             checkpoints'[c].stream = checkpoints[c].stream, checkpoints'[c].end = checkpoints[c].end
      PROVE  Cardinality(Beyond(c)) >= TailReserve
  <2>1. PICK s, e : s = checkpoints[c].stream /\ e = checkpoints[c].end
    OBVIOUS
  <2>2. Cardinality(RowsBeyond(s, e)) >= TailReserve
    BY <2>1 DEF ReserveStaysExact, RowsBeyond
  <2>3. Cardinality(RowsBeyond(s, e)) <= Cardinality(RowsBeyond(s, e)')
    BY BeyondGrows
  <2>4. RowsBeyond(s, e)' = Beyond(c)
    BY <1>1, <2>1 DEF RowsBeyond, Rows
  <2>5. IsFiniteSet(RowsBeyond(s, e)')
    <3>1. DOMAIN transcript' = 1 .. Len(transcript') /\ Len(transcript') \in Nat
      BY LenProperties DEF GatewayInv, StoreInv, StoreTypeOK
    <3>2. IsFiniteSet(1 .. Len(transcript'))
      BY <3>1, FS_Interval
    <3>3. RowsBeyond(s, e)' \subseteq 1 .. Len(transcript')
      BY <3>1 DEF Rows, RowsBeyond
    <3> QED
      BY <3>2, <3>3, FS_Subset
  <2>6. /\ Cardinality(RowsBeyond(s, e)) \in Nat /\ Cardinality(RowsBeyond(s, e)') \in Nat
        /\ TailReserve \in Nat
    BY <2>5, RowsFinite, FS_CardinalityType, CheckpointAssumption
  <2>7. Cardinality(RowsBeyond(s, e)') >= TailReserve
    BY <2>2, <2>3, <2>6
  <2> QED
    BY <2>4, <2>7
<1>2. ASSUME NEW b, NEW s, NEW e, Claims(b, s, e), UNCHANGED storeVars, NEW c \in DOMAIN checkpoints'
      PROVE  Cardinality(Beyond(c)) >= TailReserve
  <2>1. CASE c = b
    <3>1. e \in Rows(s) /\ e \in CompactionPrefix(s)
      BY <1>2 DEF Claims, CompactionPrefix
    <3>2. Cardinality(RowsBeyond(s, e)) >= TailReserve
      BY <1>2, <3>1, ClaimedPrefix
    <3>3. Beyond(c) = RowsBeyond(s, e)
      BY <1>2, <2>1 DEF Claims, RowsBeyond, Rows, storeVars
    <3> QED
      BY <3>2, <3>3
  <2>2. CASE c # b
    <3>1. c \in DOMAIN checkpoints /\ checkpoints'[c] = checkpoints[c]
      BY <1>2, <2>2 DEF Claims
    <3> QED
      BY <1>1, <3>1
  <2> QED
    BY <2>1, <2>2
<1> HIDE DEF Beyond
<1>3. UNCHANGED checkpoints => \A c \in DOMAIN checkpoints' : Cardinality(Beyond(c)) >= TailReserve
  BY <1>1
<1>4. ASSUME NEW b, Restates(b)
      PROVE  \A c \in DOMAIN checkpoints' : Cardinality(Beyond(c)) >= TailReserve
  BY <1>1, <1>4 DEF Restates
<1>5. Recovers => \A c \in DOMAIN checkpoints' : Cardinality(Beyond(c)) >= TailReserve
  BY <1>1 DEF Recovers
<1>6. \A c \in DOMAIN checkpoints' : Cardinality(Beyond(c)) >= TailReserve
  BY <1>2, <1>3, <1>4, <1>5, CheckpointSteps DEF Completes, Fails
<1> QED
  BY <1>6 DEF ReserveStaysExact, Rows, Beyond

\* What is being compacted covers what is compacted already
\* (claim_next_compaction).
LEMMA OrderedNextInv ==
  ASSUME Reserved, GatewayInv, CheckpointsUnique, CoverageInStream, ReserveStaysExact,
         CoverageOrdered, [Next]_vars
  PROVE  CoverageOrdered'
<1>1. UNCHANGED checkpoints => CoverageOrdered'
  BY DEF CoverageOrdered
<1>2. ASSUME NEW c, NEW s, NEW e, Claims(c, s, e)
      PROVE  CoverageOrdered'
  <2>1. ASSUME NEW b \in DOMAIN checkpoints, checkpoints[b].stream = s
        PROVE  checkpoints[b].end <= e
    <3>1. PICK i : i = checkpoints[b].end
      OBVIOUS
    <3>2. i \in Rows(s) /\ Cardinality(RowsBeyond(s, i)) >= TailReserve
      BY <2>1, <3>1 DEF CoverageInStream, ReserveStaysExact, RowsBeyond
    <3>3. i \in CompactionPrefix(s)
      BY <1>2, <3>2, ClaimedPrefix
    <3> QED
      BY <1>2, <3>1, <3>3 DEF Claims
  <2>2. \A b \in DOMAIN checkpoints : checkpoints[b].stream = s => checkpoints[b].status # "pending"
    BY <1>2 DEF Claims, CompactableStream
  <2> QED
    BY <1>2, <2>1, <2>2 DEF Claims, CoverageOrdered
<1>3. ASSUME NEW c, Completes(c)
      PROVE  CoverageOrdered'
  <2>1. \A b \in DOMAIN checkpoints \ {c} :
          checkpoints[b].stream = checkpoints[c].stream => checkpoints[b].status # "pending"
    BY <1>3 DEF Completes, Restates, CheckpointsUnique
  <2> QED
    BY <1>3, <2>1 DEF Completes, Restates, CoverageOrdered
<1>4. ASSUME NEW c, Fails(c)
      PROVE  CoverageOrdered'
  BY <1>4 DEF Fails, Restates, CoverageOrdered
<1>5. Recovers => CoverageOrdered'
  BY DEF Recovers, CoverageOrdered
<1> QED
  BY <1>1, <1>2, <1>3, <1>4, <1>5, CheckpointSteps

ActiveOf(c, s) ==
  c \in DOMAIN checkpoints /\ checkpoints[c].stream = s /\ checkpoints[c].status = "active"

\* The covered range of a stream is its active checkpoint's.
CoveredByActive ==
  \A s : /\ \A c : ActiveOf(c, s) => CoveredEnd(s) = checkpoints[c].end
         /\ (\A c : ~ActiveOf(c, s)) => CoveredEnd(s) = 0

LEMMA ActiveCovers == CheckpointsUnique => CoveredByActive
<1> SUFFICES ASSUME CheckpointsUnique, NEW s
             PROVE  /\ \A c : ActiveOf(c, s) => CoveredEnd(s) = checkpoints[c].end
                    /\ (\A c : ~ActiveOf(c, s)) => CoveredEnd(s) = 0
  BY DEF CoveredByActive
<1>1. ASSUME NEW c, ActiveOf(c, s)
      PROVE  CoveredEnd(s) = checkpoints[c].end
  <2>1. PICK d : d = CHOOSE b \in DOMAIN checkpoints :
                       checkpoints[b].stream = s /\ checkpoints[b].status = "active"
    OBVIOUS
  <2>2. d \in DOMAIN checkpoints /\ checkpoints[d].stream = s /\ checkpoints[d].status = "active"
    BY <1>1, <2>1 DEF ActiveOf
  <2>3. d = c
    BY <1>1, <2>2 DEF ActiveOf, CheckpointsUnique
  <2> QED
    BY <1>1, <2>1, <2>3 DEF ActiveOf, CoveredEnd
<1>2. (\A c : ~ActiveOf(c, s)) => CoveredEnd(s) = 0
  BY DEF ActiveOf, CoveredEnd
<1> QED
  BY <1>1, <1>2

\* A new active checkpoint covers what the one it replaces covered
\* (complete_compaction).
LEMMA CoverageGrowsNext ==
  ASSUME GatewayInv, CheckpointsUnique, CheckpointsUnique', CoverageOrdered, [Next]_vars, NEW s
  PROVE  CoveredEnd(s)' >= CoveredEnd(s)
<1>0. CoveredByActive'
  BY ActiveCovers, PTL
<1>1. /\ \A c : ActiveOf(c, s) => CoveredEnd(s) = checkpoints[c].end
      /\ (\A c : ~ActiveOf(c, s)) => CoveredEnd(s) = 0
  BY ActiveCovers DEF CoveredByActive
<1>2. /\ \A c : ActiveOf(c, s)' => CoveredEnd(s)' = checkpoints'[c].end
      /\ (\A c : ~ActiveOf(c, s)') => CoveredEnd(s)' = 0
  BY <1>0 DEF CoveredByActive
<1>3. CoveredEnd(s) \in Nat
  <2>1. \A c : ActiveOf(c, s) => checkpoints[c].end \in Nat
    BY CheckpointTyped DEF ActiveOf
  <2> QED
    BY <1>1, <2>1
<1>4. ASSUME \A c : ActiveOf(c, s)' <=> ActiveOf(c, s),
             \A c : ActiveOf(c, s) => checkpoints'[c].end = checkpoints[c].end
      PROVE  CoveredEnd(s)' >= CoveredEnd(s)
  BY <1>1, <1>2, <1>3, <1>4
<1>5. UNCHANGED checkpoints => CoveredEnd(s)' >= CoveredEnd(s)
  BY <1>4 DEF ActiveOf
<1>6. ASSUME NEW c, NEW t, NEW e, Claims(c, t, e)
      PROVE  CoveredEnd(s)' >= CoveredEnd(s)
  BY <1>4, <1>6 DEF Claims, ActiveOf
<1>7. ASSUME NEW c, Completes(c)
      PROVE  CoveredEnd(s)' >= CoveredEnd(s)
  <2>1. CASE checkpoints[c].stream = s
    <3>1. ActiveOf(c, s)' /\ checkpoints'[c].end = checkpoints[c].end
      BY <1>7, <2>1 DEF Completes, Restates, ActiveOf
    <3>2. CoveredEnd(s)' = checkpoints[c].end
      BY <1>2, <3>1
    <3>3. \A b : ActiveOf(b, s) => checkpoints[b].end <= checkpoints[c].end
      BY <1>7, <2>1 DEF Completes, Restates, ActiveOf, CoverageOrdered
    <3>4. checkpoints[c].end \in Nat
      BY <1>7, CheckpointTyped DEF Completes, Restates
    <3> QED
      BY <1>1, <3>2, <3>3, <3>4
  <2>2. CASE checkpoints[c].stream # s
    BY <1>4, <1>7, <2>2 DEF Completes, Restates, ActiveOf
  <2> QED
    BY <2>1, <2>2
<1>8. ASSUME NEW c, Fails(c)
      PROVE  CoveredEnd(s)' >= CoveredEnd(s)
  BY <1>4, <1>8 DEF Fails, Restates, ActiveOf
<1>9. Recovers => CoveredEnd(s)' >= CoveredEnd(s)
  BY <1>4 DEF Recovers, ActiveOf
<1> QED
  BY <1>5, <1>6, <1>7, <1>8, <1>9, CheckpointSteps

-----------------------------------------------------------------------------
(* The context of the job being generated                                  *)

\* While an answer is generated the other loops only store updates, send
\* and confirm.
LEMMA MeanwhileSteps ==
  ASSUME GatewayInv, [Next]_vars, gen.pc = "generating", gen' = gen
  PROVE  checkpoints' = checkpoints /\ \A r \in Replies : ~ Saves(r)
<1>1. gen # Idle /\ up
  BY DEF Idle, GatewayInv, IdleWhileDown
<1>2. ~ Start /\ \A r \in Replies : ~ GenReply(r)
  BY <1>1 DEF Start, GenReply
<1>3. ~ GenCompactionValid /\ ~ GenCompactionInvalid /\ \A c : ~ GenClaimCompaction(c)
  BY <1>1 DEF GenCompactionValid, GenCompactionInvalid, GenClaimCompaction
<1>4. Next => \/ UNCHANGED checkpoints
              \/ \E c : GenClaimCompaction(c)
              \/ GenCompactionValid
              \/ GenCompactionInvalid
              \/ Start
  BY DEF Next, PollStep, GenStep, DeliverStep, UserSends, PollFetch, PollAccept, PollIgnore, Ingested,
         PollMalformed, PollAborted, PollDownload, PollDownloadFails, PollEnds, GenClaim, GenReply,
         GenFails, GenFindsNoJob, GenFindsNothing, DeliverClaim, DeliverSend,
         DeliverSendFails, DeliverMark, Crash, Debounce, dbVars
<1>5. UNCHANGED vars => UNCHANGED checkpoints
  BY DEF vars, dbVars
<1> QED
  BY <1>2, <1>3, <1>4, <1>5 DEF Saves

\* A message replies to an earlier one.
RepliesBack ==
  /\ \A u \in DOMAIN updates : updates[u].reply.of = "update" => updates[u].reply.id < u
  /\ \A i \in DOMAIN transcript :
       transcript[i].reply.of = "update" => transcript[i].reply.id < transcript[i].update

LEMMA RepliesNextInv ==
  ASSUME GatewayInv, RepliesBack, [Next]_vars
  PROVE  RepliesBack'
<1>1. \A u \in DOMAIN updates' : updates'[u].reply.of = "update" => updates'[u].reply.id < u
  <2>1. CASE updates' = updates
    BY <2>1 DEF RepliesBack
  <2>2. ASSUME NEW s \in Streams, NEW kind \in Kinds, NEW reply \in Repliable(s),
               UserSends(s, kind, reply)
        PROVE  \A u \in DOMAIN updates' : updates'[u].reply.of = "update" => updates'[u].reply.id < u
    <3>1. PICK row : row = [stream |-> s, kind |-> kind, reply |-> reply]
      OBVIOUS
    <3>2. /\ DOMAIN updates = 1 .. Len(updates) /\ Len(updates) \in Nat
          /\ updates \in Seq([stream : Streams, kind : UpdateKinds, reply : Target])
      BY LenProperties DEF GatewayInv, TypeOK
    <3>3. updates' = Append(updates, row)
      BY <2>2, <3>1 DEF UserSends
    <3>4. /\ DOMAIN updates' = DOMAIN updates \cup {Len(updates) + 1}
          /\ updates'[Len(updates) + 1] = row
          /\ \A u \in DOMAIN updates : updates'[u] = updates[u]
      BY <3>2, <3>3
    <3>5. reply.of = "update" => reply.id \in 1 .. Len(updates)
      BY GatewayAssumption DEF Repliable, NoTarget
    <3>6. row.reply.of = "update" => row.reply.id < Len(updates) + 1
      BY <3>1, <3>2, <3>5
    <3> QED
      BY <3>4, <3>6 DEF RepliesBack
  <2>3. Next => \/ updates' = updates
                \/ \E s \in Streams, kind \in Kinds : \E reply \in Repliable(s) :
                     UserSends(s, kind, reply)
    BY DEF Next, PollStep, GenStep, DeliverStep, PollFetch, PollAccept, PollIgnore, Ingested,
         PollMalformed, PollAborted, PollDownload, PollDownloadFails, PollEnds, GenClaim, GenReply,
         GenFails, GenFindsNoJob, GenFindsNothing,
         GenClaimCompaction, GenCompactionValid, GenCompactionInvalid, DeliverClaim,
         DeliverSend, DeliverSendFails, DeliverMark, Start, Crash, Debounce
  <2>4. UNCHANGED vars => updates' = updates
    BY DEF vars
  <2> QED
    BY <2>1, <2>2, <2>3, <2>4
<1>2. ASSUME NEW n, NEW row, Entered(n, row), row.reply.of = "update" => row.reply.id < row.update
      PROVE  \A i \in DOMAIN transcript' :
               transcript'[i].reply.of = "update" => transcript'[i].reply.id < transcript'[i].update
  BY <1>2 DEF Entered, RepliesBack
<1>3. ASSUME NEW u \in UpdateIds, Stores(u)
      PROVE  \E n, row : Entered(n, row) /\ (row.reply.of = "update" => row.reply.id < row.update)
  <2>1. PICK row : row = UserEntry(u, allowed, updates[u].reply)
    OBVIOUS
  <2>2. PICK n \in Nat : Entered(n, row)
    BY <1>3, <2>1, EntryAppended DEF Stores, EnqueueNewUpdate
  <2>3. row.reply = updates[u].reply /\ row.update = u
    BY <2>1 DEF UserEntry
  <2>4. u \in DOMAIN updates
    BY <1>3, PolledReply DEF Stores
  <2> QED
    BY <2>2, <2>3, <2>4 DEF RepliesBack
<1>4. ASSUME NEW r \in Replies, Saves(r)
      PROVE  \E n, row : Entered(n, row) /\ (row.reply.of = "update" => row.reply.id < row.update)
  <2>1. PICK j \in DOMAIN jobs : j = gen.job
    BY <1>4, HeldWork DEF Saves, GenReply
  <2>2. PICK row : row = AssistantEntry(j)
    OBVIOUS
  <2>3. PICK n \in Nat : Entered(n, row)
    BY <1>4, <2>1, <2>2, SavedAnswer, EntryAppended DEF Saves, GenReply
  <2>4. row.reply.of # "update"
    BY <2>2 DEF AssistantEntry, NoTarget
  <2> QED
    BY <2>3, <2>4
<1>5. QuietStep => \A i \in DOMAIN transcript' :
               transcript'[i].reply.of = "update" => transcript'[i].reply.id < transcript'[i].update
  BY DEF QuietStep, RepliesBack
<1>6. \A i \in DOMAIN transcript' :
        transcript'[i].reply.of = "update" => transcript'[i].reply.id < transcript'[i].update
  BY <1>2, <1>3, <1>4, <1>5, TranscriptSteps
<1> QED
  BY <1>1, <1>6 DEF RepliesBack

\* Which answers a reply to a piece can reach.
FirstsKept ==
  /\ DOMAIN jobs \subseteq DOMAIN jobs'
  /\ \A k \in DOMAIN jobs : jobs'[k].batch[1] = jobs[k].batch[1]
  /\ \A k \in DOMAIN jobs' \ DOMAIN jobs : \A m : ~ConfirmedAs(k, m)'

PiecesKept == \A k \in DOMAIN jobs : \A m : ConfirmedAs(k, m)' <=> ConfirmedAs(k, m)

PieceConfirmed ==
  \A k \in DOMAIN jobs : \A m :
    ConfirmedAs(k, m)' <=> ConfirmedAs(k, m) \/ (k = delivery.job /\ m = delivery.mid)

LEMMA FirstSteps ==
  ASSUME GatewayInv, [Next]_vars
  PROVE  FirstsKept
<1>1. CASE BatchesKept
  BY <1>1 DEF BatchesKept, SameBatch, FirstsKept
<1>2. ASSUME NEW u \in UpdateIds, Stores(u)
      PROVE  FirstsKept
  <2>1. PICK j \in Nat, n \in Nat : Joined(u, allowed, j, n)
    <3>1. (updates[u].kind = "image") \in BOOLEAN /\ allowed \in Streams
      BY DEF GatewayInv, TypeOK
    <3> QED
      BY <1>2, <3>1, StoredUpdate DEF Stores
  <2>2. \A k \in DOMAIN jobs : jobs'[k].batch[1] = jobs[k].batch[1]
    BY <2>1 DEF Joined
  <2>3. \A k \in DOMAIN jobs' \ DOMAIN jobs : DOMAIN jobs'[k].chunks = {}
    BY <2>1, EmptyDomain DEF Joined
  <2>4. \A k \in DOMAIN jobs' \ DOMAIN jobs : \A m : ~ConfirmedAs(k, m)'
    BY <2>3 DEF ConfirmedAs
  <2>5. DOMAIN jobs \subseteq DOMAIN jobs'
    BY <2>1 DEF Joined
  <2> QED
    BY <2>2, <2>4, <2>5 DEF FirstsKept
<1> QED
  BY <1>1, <1>2, BatchSteps

\* Only a confirmation makes a reply to a piece resolve.
LEMMA PieceSteps ==
  ASSUME GatewayInv, [Next]_vars, gen.pc = "generating", gen' = gen
  PROVE  PiecesKept \/ (Marks /\ PieceConfirmed)
<1>1. CASE ChunksKept
  BY <1>1 DEF ChunksKept, PiecesKept, ConfirmedAs
<1>2. ASSUME NEW j \in DOMAIN jobs, DeliverClaim(j)
      PROVE  PiecesKept
  <2>1. PICK c \in DOMAIN ClaimChunks(j) : ClaimDelivery(j, c)
    BY <1>2 DEF DeliverClaim
  <2>2. /\ OnlyJob(j) /\ DOMAIN jobs'[j].chunks = DOMAIN ClaimChunks(j)
        /\ jobs'[j].chunks[c].status = "sending"
        /\ \A d \in DOMAIN ClaimChunks(j) \ {c} : jobs'[j].chunks[d] = ClaimChunks(j)[d]
    BY <2>1, ClaimedChunk
  <2>3. ClaimChunks(j)[c].status = "pending"
    BY <2>1 DEF ClaimDelivery
  <2>4. PICK chunks : chunks = ClaimChunks(j)
    OBVIOUS
  <2>5. ASSUME NEW m
        PROVE  ConfirmedAs(j, m)' <=>
                 \E d \in DOMAIN chunks : chunks[d] = [status |-> "delivered", mid |-> m]
    BY <2>2, <2>3, <2>4 DEF ConfirmedAs
  <2>6. ASSUME NEW m
        PROVE  ConfirmedAs(j, m) <=>
                 \E d \in DOMAIN chunks : chunks[d] = [status |-> "delivered", mid |-> m]
    <3>1. CASE jobs[j].chunks = << >>
      <4>1. \A d \in DOMAIN chunks : chunks[d].status = "pending"
        BY <2>4, <3>1 DEF ClaimChunks, PendingChunks
      <4>2. DOMAIN jobs[j].chunks = {}
        BY <3>1, EmptyDomain
      <4> QED
        BY <4>1, <4>2 DEF ConfirmedAs
    <3>2. CASE jobs[j].chunks # << >>
      BY <2>4, <3>2 DEF ClaimChunks, ConfirmedAs
    <3> QED
      BY <3>1, <3>2
  <2>7. \A k \in DOMAIN jobs \ {j} : \A m : ConfirmedAs(k, m)' <=> ConfirmedAs(k, m)
    BY <2>2 DEF OnlyJob, ConfirmedAs
  <2> QED
    BY <2>5, <2>6, <2>7 DEF PiecesKept
<1>3. Marks => PieceConfirmed
  <2> SUFFICES ASSUME Marks PROVE PieceConfirmed
    OBVIOUS
  <2>1. PICK j, c, mid : /\ j = delivery.job /\ c = delivery.chunk /\ mid = delivery.mid
                         /\ j \in DOMAIN jobs /\ c \in DOMAIN jobs[j].chunks /\ mid \in Nat
    BY HeldWork DEF Marks, DeliverMark
  <2>2. MarkChunkDelivered(j, c, mid) /\ ~ UNCHANGED storeVars
    BY <2>1 DEF Marks, DeliverMark
  <2>3. /\ OnlyJob(j) /\ DOMAIN jobs'[j].chunks = DOMAIN jobs[j].chunks
        /\ jobs'[j].chunks[c] = [status |-> "delivered", mid |-> mid]
        /\ \A d \in DOMAIN jobs[j].chunks \ {c} : jobs'[j].chunks[d] = jobs[j].chunks[d]
    BY <2>1, <2>2, MarkedChunk
  <2>4. jobs[j].chunks[c].status = "sending"
    BY <2>2 DEF MarkChunkDelivered
  <2>5. \A k \in DOMAIN jobs \ {j} : \A m : ConfirmedAs(k, m)' <=> ConfirmedAs(k, m)
    BY <2>3 DEF OnlyJob, ConfirmedAs
  <2>6. ASSUME NEW m
        PROVE  ConfirmedAs(j, m)' <=> ConfirmedAs(j, m) \/ m = mid
    BY <2>1, <2>3, <2>4 DEF ConfirmedAs
  <2> QED
    BY <2>1, <2>5, <2>6 DEF PieceConfirmed
<1>4. ~ Start
  BY DEF Start, Idle, GatewayInv, IdleWhileDown
<1> QED
  BY <1>1, <1>2, <1>3, <1>4, ChunkSteps

\* A row that comes while job h is generated is a message after its batch.
LaterRow(h, n, row) ==
  /\ Entered(n, row) /\ row.role = "user" /\ row.update \in Nat
  /\ \A v \in BatchSet(h) : v \in Nat /\ v < row.update

\* What the loops do while job h is generated keeps its batch, and the rest of
\* what its prompt is made of but the references.
LEMMA TurnKept ==
  ASSUME GatewayInv, PollOrdered, [Next]_vars, gen.pc = "generating", gen' = gen,
         NEW h, h = gen.job
  PROVE  /\ h \in DOMAIN jobs /\ jobs'[h].stream = jobs[h].stream /\ BatchSet(h)' = BatchSet(h)
         /\ CoveredEnd(jobs[h].stream)' = CoveredEnd(jobs[h].stream)
         /\ CurrentRows(h)' = CurrentRows(h)
         /\ transcript' = transcript \/ \E n, row : LaterRow(h, n, row)
<1>1. h \in DOMAIN jobs /\ jobs[h].status # "queued"
  BY HeldWork
<1>2. checkpoints' = checkpoints /\ (QuietStep \/ \E u \in UpdateIds : Stores(u))
  BY MeanwhileSteps, TranscriptSteps
<1>3. PICK s : s = jobs[h].stream
  OBVIOUS
<1>4. PICK B : B = BatchSet(h)
  OBVIOUS
<1>5. ASSUME NEW u \in UpdateIds, Stores(u)
      PROVE  /\ jobs'[h].stream = s /\ BatchSet(h)' = B
             /\ \E n, row : LaterRow(h, n, row)
  <2>1. PICK j \in Nat, n \in Nat : Joined(u, allowed, j, n)
    <3>1. (updates[u].kind = "image") \in BOOLEAN /\ allowed \in Streams
      BY DEF GatewayInv, TypeOK
    <3> QED
      BY <1>5, <3>1, StoredUpdate DEF Stores
  <2>2. jobs'[h] = jobs[h]
    BY <1>1, <2>1 DEF Joined
  <2>3. PICK m, row : Entered(m, row) /\ row.update = u /\ row.role = "user"
    <3>1. PICK row : row = UserEntry(u, allowed, updates[u].reply)
      OBVIOUS
    <3>2. row.update = u /\ row.role = "user"
      BY <3>1 DEF UserEntry
    <3> QED
      BY <1>5, <3>1, <3>2, EntryAppended DEF Stores, EnqueueNewUpdate
  <2>4. \A v \in B : v \in Nat /\ v < u
    <3>1. \A a \in DOMAIN jobs[h].batch : jobs[h].batch[a] \in UpdateIds
                                          /\ inbox[jobs[h].batch[a]] # "absent"
      BY <1>1, JobsTyped DEF GatewayInv, StoreInv, BatchesStored
    <3>2. \A v \in UpdateIds : inbox[v] # "absent" => v < u
      BY <1>5, NewUpdateIsLast DEF Stores
    <3> QED
      BY <1>4, <3>1, <3>2 DEF BatchSet, UpdateIds
  <2>5. LaterRow(h, m, row)
    BY <1>4, <2>3, <2>4 DEF LaterRow, UpdateIds
  <2>6. BatchSet(h)' = B
    BY <1>4, <2>2 DEF BatchSet
  <2> QED
    BY <1>3, <2>2, <2>5, <2>6
<1>6. QuietStep => jobs'[h].stream = s /\ BatchSet(h)' = B /\ transcript' = transcript
  BY <1>1, <1>3, <1>4 DEF QuietStep, BatchesKept, SameBatch, BatchSet
<1>7. /\ jobs'[h].stream = s /\ BatchSet(h)' = B
      /\ transcript' = transcript \/ \E n, row : LaterRow(h, n, row)
  BY <1>2, <1>5, <1>6
<1>8. CoveredEnd(jobs[h].stream)' = CoveredEnd(jobs[h].stream)
  <2>1. CoveredEnd(s)' = CoveredEnd(s)
    BY <1>2 DEF CoveredEnd
  <2>2. CoveredEnd(jobs[h].stream)' = CoveredEnd(s)'
    BY <1>7
  <2> QED
    BY <1>3, <2>1, <2>2
<1>9. CurrentRows(h)' = CurrentRows(h)
  <2>1. CurrentRows(h)' = {i \in DOMAIN transcript' : /\ transcript'[i].stream = s
                                                      /\ transcript'[i].role = "user"
                                                      /\ transcript'[i].update \in B}
    BY <1>7 DEF CurrentRows, Rows
  <2>2. CurrentRows(h) = {i \in DOMAIN transcript : /\ transcript[i].stream = s
                                                    /\ transcript[i].role = "user"
                                                    /\ transcript[i].update \in B}
    BY <1>3, <1>4 DEF CurrentRows, Rows
  <2>3. ASSUME NEW n, NEW row, LaterRow(h, n, row)
        PROVE  CurrentRows(h)' = CurrentRows(h)
    <3>1. Entered(n, row) /\ row.update \notin B
      BY <1>4, <2>3 DEF LaterRow
    <3> QED
      BY <2>1, <2>2, <3>1 DEF Entered
  <2> QED
    BY <1>7, <2>1, <2>2, <2>3
<1> QED
  BY <1>1, <1>3, <1>4, <1>7, <1>8, <1>9

\* A row is reached by a reply as before, but for a reply to the piece that is
\* just confirmed, which reaches the answer it is a piece of.
LEMMA TargetKept ==
  ASSUME FirstsKept, PiecesKept, NEW i, transcript'[i] = transcript[i], NEW reply
  PROVE  IsTarget(i, reply)' <=> IsTarget(i, reply)
<1>1. (\E j \in DOMAIN jobs' : jobs'[j].batch[1] = transcript[i].update /\ ConfirmedAs(j, reply.id)')
        <=> \E j \in DOMAIN jobs : jobs[j].batch[1] = transcript[i].update /\ ConfirmedAs(j, reply.id)
  BY DEF FirstsKept, PiecesKept
<1> QED
  BY <1>1 DEF IsTarget

LEMMA TargetConfirmed ==
  ASSUME FirstsKept, PieceConfirmed, delivery.job \in DOMAIN jobs,
         NEW i, transcript'[i] = transcript[i], NEW reply
  PROVE  IsTarget(i, reply)' <=>
           \/ IsTarget(i, reply)
           \/ /\ reply.of = "piece" /\ reply.id = delivery.mid
              /\ transcript[i].role = "assistant"
              /\ transcript[i].update = jobs[delivery.job].batch[1]
<1>1. (\E j \in DOMAIN jobs' : jobs'[j].batch[1] = transcript[i].update /\ ConfirmedAs(j, reply.id)')
        <=> \/ \E j \in DOMAIN jobs : jobs[j].batch[1] = transcript[i].update /\ ConfirmedAs(j, reply.id)
            \/ reply.id = delivery.mid /\ transcript[i].update = jobs[delivery.job].batch[1]
  BY DEF FirstsKept, PieceConfirmed
<1> QED
  BY <1>1 DEF IsTarget

\* The references, as the rows the replies of the batch reach.
LEMMA ReferencesKept ==
  ASSUME GatewayInv, PollOrdered, RepliesBack, [Next]_vars, gen.pc = "generating", gen' = gen,
         NEW h, h = gen.job, PiecesKept
  PROVE  References(h)' = References(h)
<1>1. /\ h \in DOMAIN jobs /\ jobs'[h].stream = jobs[h].stream /\ BatchSet(h)' = BatchSet(h)
      /\ CurrentRows(h)' = CurrentRows(h)
      /\ transcript' = transcript \/ \E n, row : LaterRow(h, n, row)
  BY TurnKept
<1>2. PICK s, C : s = jobs[h].stream /\ C = CurrentRows(h)
  OBVIOUS
<1>3. \A k \in C : k \in DOMAIN transcript /\ transcript[k].update \in BatchSet(h)
  BY <1>2 DEF CurrentRows, Rows
<1>4. \A k \in DOMAIN transcript : k \in DOMAIN transcript' /\ transcript'[k] = transcript[k]
  BY <1>1 DEF LaterRow, Entered
<1>5. References(h) = {i \in DOMAIN transcript : /\ transcript[i].stream = s
                                                 /\ \E k \in C : IsTarget(i, transcript[k].reply)}
  BY <1>2 DEF References, Rows
<1>6. References(h)' = {i \in DOMAIN transcript' : /\ transcript'[i].stream = s
                                                   /\ \E k \in C : IsTarget(i, transcript[k].reply)'}
  BY <1>1, <1>2 DEF References, Rows
<1>7. FirstsKept
  BY FirstSteps
<1>8. ASSUME NEW i \in DOMAIN transcript, NEW k \in C
      PROVE  IsTarget(i, transcript[k].reply)' <=> IsTarget(i, transcript[k].reply)
  <2>1. PICK reply : reply = transcript[k].reply
    OBVIOUS
  <2>2. transcript'[k].reply = reply
    BY <1>3, <1>4, <2>1
  <2>3. IsTarget(i, reply)' <=> IsTarget(i, reply)
    BY <1>4, <1>7, TargetKept
  <2>4. IsTarget(i, transcript[k].reply)' <=> IsTarget(i, reply)'
    BY <2>2
  <2> QED
    BY <2>1, <2>3, <2>4
<1>9. ASSUME NEW n, NEW row, LaterRow(h, n, row), NEW k \in C
      PROVE  ~ IsTarget(n, transcript[k].reply)'
  <2>1. transcript'[n] = row /\ transcript'[k] = transcript[k]
    BY <1>3, <1>4, <1>9 DEF LaterRow, Entered
  <2>2. transcript[k].reply.of = "update" => transcript[k].reply.id < transcript[k].update
    BY <1>3 DEF RepliesBack
  <2>3. transcript[k].reply.id \in Nat /\ transcript[k].update \in Nat
    BY <1>3, RowsTyped DEF Entry, Target, UpdateIds
  <2>4. row.role = "user" /\ transcript[k].update < row.update /\ row.update \in Nat
    BY <1>3, <1>9 DEF LaterRow
  <2> QED
    BY <2>1, <2>2, <2>3, <2>4 DEF IsTarget
<1>10. CASE transcript' = transcript
  BY <1>5, <1>6, <1>8, <1>10
<1>11. ASSUME NEW n, NEW row, LaterRow(h, n, row)
       PROVE  References(h)' = References(h)
  <2>1. DOMAIN transcript' = DOMAIN transcript \cup {n}
    BY <1>11 DEF LaterRow, Entered
  <2>2. n \notin References(h)'
    BY <1>6, <1>9, <1>11
  <2> QED
    BY <1>4, <1>5, <1>6, <1>8, <2>1, <2>2
<1> QED
  BY <1>1, <1>10, <1>11

LEMMA ReferenceConfirmed ==
  ASSUME GatewayInv, PollOrdered, [Next]_vars, gen.pc = "generating", gen' = gen,
         NEW h, h = gen.job, Marks, PieceConfirmed
  PROVE  References(h)' =
           IF \E k \in CurrentRows(h) :
                transcript[k].reply = [of |-> "piece", id |-> delivery.mid]
           THEN References(h) \cup AnswerRows(jobs[h].stream, delivery.job)
           ELSE References(h)
<1>1. /\ h \in DOMAIN jobs /\ jobs'[h].stream = jobs[h].stream
      /\ CurrentRows(h)' = CurrentRows(h)
  BY TurnKept
<1>2. PICK s, C : s = jobs[h].stream /\ C = CurrentRows(h)
  OBVIOUS
<1>3. transcript' = transcript /\ delivery.job \in DOMAIN jobs /\ delivery.mid \in Nat
  BY HeldWork, MarkedChunk DEF Marks, DeliverMark
<1>4. \A k \in C : k \in DOMAIN transcript /\ transcript[k].reply \in Target
  BY <1>2, RowsTyped DEF CurrentRows, Rows, Entry
<1>5. References(h) = {i \in DOMAIN transcript : /\ transcript[i].stream = s
                                                 /\ \E k \in C : IsTarget(i, transcript[k].reply)}
  BY <1>2 DEF References, Rows
<1>6. References(h)' = {i \in DOMAIN transcript : /\ transcript[i].stream = s
                                                  /\ \E k \in C : IsTarget(i, transcript[k].reply)'}
  BY <1>1, <1>2, <1>3 DEF References, Rows
<1> DEFINE Answers1(i) == /\ transcript[i].role = "assistant"
                          /\ transcript[i].update = jobs[delivery.job].batch[1]
           Confirms(k) == transcript[k].reply = [of |-> "piece", id |-> delivery.mid]
<1>7. ASSUME NEW i \in DOMAIN transcript, NEW k \in C
      PROVE  IsTarget(i, transcript[k].reply)' <=>
               IsTarget(i, transcript[k].reply) \/ (Confirms(k) /\ Answers1(i))
  <2>1. PICK reply \in Target : reply = transcript[k].reply
    BY <1>4
  <2>2. FirstsKept
    BY FirstSteps
  <2>3. IsTarget(i, reply)' <=>
          \/ IsTarget(i, reply)
          \/ reply.of = "piece" /\ reply.id = delivery.mid /\ Answers1(i)
    BY <1>3, <2>2, TargetConfirmed
  <2>4. reply.of = "piece" /\ reply.id = delivery.mid <=> reply = [of |-> "piece", id |-> delivery.mid]
    BY DEF Target
  <2>5. IsTarget(i, transcript[k].reply)' <=> IsTarget(i, reply)'
    BY <1>3, <2>1
  <2> QED
    BY <2>1, <2>3, <2>4, <2>5
<1>8. AnswerRows(s, delivery.job) = {i \in DOMAIN transcript : transcript[i].stream = s /\ Answers1(i)}
  BY DEF AnswerRows, Rows
<1> HIDE DEF Answers1, Confirms
<1>9. CASE \E k \in C : Confirms(k)
  BY <1>5, <1>6, <1>7, <1>8, <1>9, <1>2 DEF Confirms
<1>10. CASE \A k \in C : ~Confirms(k)
  BY <1>5, <1>6, <1>7, <1>10, <1>2 DEF Confirms
<1> QED
  BY <1>9, <1>10

\* With the same references the whole prompt is the same.
LEMMA ContextKept ==
  ASSUME GatewayInv, PollOrdered, [Next]_vars, gen.pc = "generating", gen' = gen,
         NEW h, h = gen.job, References(h)' = References(h)
  PROVE  GenerationContext(h)' = GenerationContext(h)
<1>1. /\ h \in DOMAIN jobs /\ jobs'[h].stream = jobs[h].stream /\ BatchSet(h)' = BatchSet(h)
      /\ CoveredEnd(jobs[h].stream)' = CoveredEnd(jobs[h].stream)
      /\ CurrentRows(h)' = CurrentRows(h)
      /\ transcript' = transcript \/ \E n, row : LaterRow(h, n, row)
  BY TurnKept
<1>2. PICK s, B : s = jobs[h].stream /\ B = BatchSet(h)
  OBVIOUS
<1>3. PICK C, e : C = CurrentRows(h) \cup References(h) /\ e = CoveredEnd(jobs[h].stream)
  OBVIOUS
<1>4. OrdinaryRows(h)' = {i \in DOMAIN transcript' : /\ transcript'[i].stream = s /\ i \notin C
                                                     /\ \E v \in B : transcript'[i].update <= v
                                                     /\ i > e}
  BY <1>1, <1>2, <1>3 DEF OrdinaryRows, Rows
<1>5. OrdinaryRows(h) = {i \in DOMAIN transcript : /\ transcript[i].stream = s /\ i \notin C
                                                   /\ \E v \in B : transcript[i].update <= v
                                                   /\ i > e}
  BY <1>2, <1>3 DEF OrdinaryRows, Rows
<1>6. ASSUME NEW n, NEW row, LaterRow(h, n, row)
      PROVE  OrdinaryRows(h)' = OrdinaryRows(h)
  <2>1. ~ \E v \in B : transcript'[n].update <= v
    BY <1>2, <1>6 DEF LaterRow, Entered
  <2>2. n \notin OrdinaryRows(h)'
    BY <1>4, <2>1
  <2> QED
    BY <1>4, <1>5, <1>6, <2>2 DEF LaterRow, Entered
<1>7. OrdinaryRows(h)' = OrdinaryRows(h)
  BY <1>1, <1>4, <1>5, <1>6
<1>8. ContextRows(h)' = ContextRows(h)
  BY <1>1, <1>7 DEF ContextRows
<1> QED
  BY <1>1, <1>8 DEF GenerationContext

-----------------------------------------------------------------------------
(* The theorems about the whole gateway                                    *)

HistoryInv ==
  /\ GatewayInv
  /\ PollOrdered
  /\ NothingSkipped
  /\ BatchesInArrivalOrder
  /\ RowsInv
  /\ ShownInv
  /\ CheckpointsUnique
  /\ CheckpointSparesOpenTurns
  /\ CoverageInStream
  /\ RepliesBack

LEMMA HistoryInitInv ==
  ASSUME Init
  PROVE  HistoryInv
<1>1. GatewayInv
  BY GatewayInitInv
<1>2. /\ jobs = << >> /\ DOMAIN jobs = {} /\ transcript = << >> /\ DOMAIN transcript = {}
      /\ offset = 0 /\ \A u \in UpdateIds : inbox[u] = "absent"
  BY DEF Init, StoreInit
<1>3. /\ checkpoints = << >> /\ DOMAIN checkpoints = {} /\ updates = << >> /\ Len(updates) = 0
      /\ shown = << >> /\ DOMAIN shown = {} /\ delivery.pc = "idle" /\ poll.batch = {}
      /\ allowed \in Allowable
  BY DEF Init, Idle, PollIdle
<1>4. PollOrdered /\ NothingSkipped /\ BatchesInArrivalOrder
  BY <1>2, <1>3 DEF PollOrdered, NothingSkipped, BatchesInArrivalOrder
<1>5. RowsInv
  BY <1>2 DEF RowsInv, UserRowsKept, AssistantRowsKept, AnswersFollow
<1>6. ShownInv
  BY <1>2, <1>3 DEF ShownInv, DeliveryHeld, ChunksCounted, ShownInOrder, ConfirmedShown, CopiesBounded
<1>7. CheckpointsUnique /\ CheckpointSparesOpenTurns /\ CoverageInStream
  BY <1>3 DEF CheckpointsUnique, CheckpointSparesOpenTurns, CoverageInStream
<1> QED
  BY <1>1, <1>2, <1>3, <1>4, <1>5, <1>6, <1>7 DEF HistoryInv, RepliesBack

LEMMA HistoryNextInv ==
  ASSUME HistoryInv, [Next]_vars
  PROVE  HistoryInv'
<1>1. /\ GatewayInv /\ PollOrdered /\ NothingSkipped /\ BatchesInArrivalOrder /\ RowsInv
      /\ ShownInv /\ CheckpointsUnique /\ CheckpointSparesOpenTurns /\ CoverageInStream
      /\ RepliesBack
  BY DEF HistoryInv
<1>2. GatewayInv'
  BY <1>1, GatewayNextInv
<1>3. PollOrdered' /\ NothingSkipped' /\ BatchesInArrivalOrder'
  BY <1>1, PollOrderedKept, NothingSkippedKept, BatchesOrderedKept
<1>4. RowsInv'
  BY <1>1, <1>2, RowsNextInv
<1>5. ShownInv'
  BY <1>1, <1>2, ShownNextInv
<1>6. CheckpointsUnique' /\ CoverageInStream'
  BY <1>1, UniqueNextInv, InStreamNextInv
<1>7. CheckpointSparesOpenTurns'
  BY <1>1, <1>2, SparesNextInv
<1>8. RepliesBack'
  BY <1>1, RepliesNextInv
<1> QED
  BY <1>2, <1>3, <1>4, <1>5, <1>6, <1>7, <1>8 DEF HistoryInv

\* The inductive invariant over what Telegram handed out, the transcript,
\* what the owner was shown and the checkpoints holds of the gateway.
THEOREM HistoryInvariant == Spec => []HistoryInv
<1>1. Init => HistoryInv
  BY HistoryInitInv
<1>2. HistoryInv /\ [Next]_vars => HistoryInv'
  BY HistoryNextInv
<1> QED
  BY <1>1, <1>2, PTL DEF Spec

\* Nothing the owner wrote is acknowledged to Telegram before it is stored,
\* wherever the polling loop fails or the process dies (run_polling_once).
THEOREM GatewaySkipsNothing == Spec => []NothingSkipped
<1>1. HistoryInv => NothingSkipped
  BY DEF HistoryInv
<1> QED
  BY <1>1, HistoryInvariant, PTL

\* A stream's updates are batched in the order they came, across jobs,
\* restarts and late media (enqueue_text_update).
THEOREM GatewayBatchesInOrder == Spec => []BatchesInArrivalOrder
<1>1. HistoryInv => BatchesInArrivalOrder
  BY DEF HistoryInv
<1> QED
  BY <1>1, HistoryInvariant, PTL

\* The transcript has one user entry per stored update and one assistant
\* entry per answered job, after all it answers (save_response).
THEOREM GatewayTranscript == Spec => []TranscriptMatchesJobs
<1>1. HistoryInv => TranscriptMatchesJobs
  BY RowsCounted DEF HistoryInv
<1> QED
  BY <1>1, HistoryInvariant, PTL

\* The owner reads the saved answers, in order, each piece at most once more
\* per restart, and whole once delivered (run_delivery_once).
THEOREM GatewayShowsSaved == Spec => []ShownIsSaved
<1>1. HistoryInv => ShownIsSaved
  BY ShownSaved DEF HistoryInv
<1> QED
  BY <1>1, HistoryInvariant, PTL

\* A pending or active checkpoint covers no message still to be answered, and
\* a stream has one of each at most, whatever is claimed, completed, failed or
\* recovered meanwhile.
THEOREM GatewayCheckpointsApart == Spec => []CheckpointsKeepApart
<1>1. HistoryInv => CheckpointsKeepApart
  BY DEF HistoryInv, CheckpointsKeepApart
<1> QED BY <1>1, HistoryInvariant, PTL

\* Of all the other loops do after the claim of a job, one thing shows in its
\* prompt: the confirmation of a piece that its batch replies to, which adds
\* that answer to the references (build_generation_context,
\* mark_delivery_chunk_delivered).
THEOREM GatewayContextStable == Spec => ContextStable
<1>1. HistoryInv /\ [Next]_vars =>
        [gen.pc = "generating" /\ gen' = gen =>
           \/ GenerationContext(gen.job)' = GenerationContext(gen.job)
           \/ /\ ConfirmsTarget
              /\ CoveredEnd(jobs[gen.job].stream)' = CoveredEnd(jobs[gen.job].stream)
              /\ CurrentRows(gen.job)' = CurrentRows(gen.job)
              /\ References(gen.job)' =
                   References(gen.job) \cup AnswerRows(jobs[gen.job].stream, delivery.job)]_vars
  <2> SUFFICES ASSUME HistoryInv, [Next]_vars, gen.pc = "generating", gen' = gen
               PROVE  \/ GenerationContext(gen.job)' = GenerationContext(gen.job)
                      \/ /\ ConfirmsTarget
                         /\ CoveredEnd(jobs[gen.job].stream)' = CoveredEnd(jobs[gen.job].stream)
                         /\ CurrentRows(gen.job)' = CurrentRows(gen.job)
                         /\ References(gen.job)' =
                              References(gen.job) \cup AnswerRows(jobs[gen.job].stream, delivery.job)
    OBVIOUS
  <2>1. PICK h : h = gen.job
    OBVIOUS
  <2>2. GatewayInv /\ PollOrdered /\ RepliesBack
    BY DEF HistoryInv
  <2>3. /\ GenerationContext(gen.job)' = GenerationContext(h)'
        /\ CurrentRows(gen.job)' = CurrentRows(h)'
        /\ References(gen.job)' = References(h)'
        /\ CoveredEnd(jobs[gen.job].stream)' = CoveredEnd(jobs[h].stream)'
    BY <2>1
  <2>4. CASE References(h)' = References(h)
    BY <2>1, <2>2, <2>3, <2>4, ContextKept
  <2>5. CASE References(h)' # References(h)
    <3>1. Marks /\ PieceConfirmed
      BY <2>1, <2>2, <2>5, PieceSteps, ReferencesKept
    <3>2. /\ \E k \in CurrentRows(h) : transcript[k].reply = [of |-> "piece", id |-> delivery.mid]
          /\ References(h)' = References(h) \cup AnswerRows(jobs[h].stream, delivery.job)
      BY <2>1, <2>2, <2>5, <3>1, ReferenceConfirmed
    <3>3. ConfirmsTarget
      BY <2>1, <3>1, <3>2 DEF ConfirmsTarget, Marks, DeliverMark
    <3>4. /\ CoveredEnd(jobs[h].stream)' = CoveredEnd(jobs[h].stream)
          /\ CurrentRows(h)' = CurrentRows(h)
      BY <2>1, <2>2, TurnKept
    <3> QED
      BY <2>1, <2>3, <3>2, <3>3, <3>4
  <2> QED
    BY <2>4, <2>5
<1> QED
  BY <1>1, HistoryInvariant, PTL DEF ContextStable, Spec

\* Where the compaction threshold is at least the tail to be left exact, a
\* compaction leaves that tail (claim_next_compaction).
THEOREM GatewayReserve ==
  ASSUME Reserved
  PROVE  Spec => []ReserveStaysExact
<1>1. Init => ReserveStaysExact
  BY DEF Init, ReserveStaysExact
<1>2. HistoryInv /\ ReserveStaysExact /\ [Next]_vars => ReserveStaysExact'
  BY ReserveNextInv, GatewayNextInv DEF HistoryInv
<1> QED
  BY <1>1, <1>2, HistoryInvariant, PTL DEF Spec

\* There, too, the active checkpoint is only ever replaced by one that
\* covers more (complete_compaction).
THEOREM GatewayCoverageGrows ==
  ASSUME Reserved
  PROVE  Spec => CoverageGrows
<1>1. Init => CoverageOrdered
  BY DEF Init, CoverageOrdered
<1>2. HistoryInv /\ ReserveStaysExact /\ CoverageOrdered /\ [Next]_vars => CoverageOrdered'
  BY OrderedNextInv DEF HistoryInv
<1>3. HistoryInv /\ HistoryInv' /\ CoverageOrdered /\ [Next]_vars =>
        [\A s \in Streams : CoveredEnd(s)' >= CoveredEnd(s)]_vars
  BY CoverageGrowsNext DEF HistoryInv
<1> QED
  BY <1>1, <1>2, <1>3, HistoryInvariant, GatewayReserve, PTL DEF CoverageGrows, Spec

-----------------------------------------------------------------------------
(* The promise to the people who write: the parts of jobs J and messages M *)

OpenParts(J, s) == [j \in DOMAIN J |-> OpenPart(J[j], s)]
AnswerParts(J, s) == [j \in DOMAIN J |-> AnswerPart(J[j], s)]
ConfirmedParts(J, s) == [j \in DOMAIN J |-> ConfirmedPart(J[j], s)]

Number(J, j) == Len(FlattenSeq([k \in 1 .. j |-> AnswerPart(J[k], J[j].stream)]))

ReadRow(J, row, s) ==
  IF J[row.job].stream = s THEN <<<<Number(J, row.job), row.chunk>>>> ELSE << >>

ReadParts(J, M, s) == [m \in DOMAIN M |-> ReadRow(J, M[m], s)]

AnswerRow(A) == [batch : Seq(A), reply : Replies]

LEMMA DeliveredCounted ==
  ASSUME NEW job \in Job
  PROVE  /\ IsFiniteSet(Delivered(job)) /\ Cardinality(Delivered(job)) \in Nat
         /\ job.chunks = << >> => Delivered(job) = {}
<1>1. job.chunks \in Seq(Chunk)
  BY DEF Job
<1>2. DOMAIN job.chunks = 1 .. Len(job.chunks) /\ Len(job.chunks) \in Nat
  BY <1>1, LenProperties
<1>3. IsFiniteSet(1 .. Len(job.chunks)) /\ Delivered(job) \subseteq 1 .. Len(job.chunks)
  BY <1>2, FS_Interval DEF Delivered
<1>4. job.chunks = << >> => Delivered(job) = {}
  BY DEF Delivered
<1> QED
  BY <1>3, <1>4, FS_Subset, FS_CardinalityType

LEMMA JobParts ==
  ASSUME NEW job \in Job, NEW A, job.batch \in Seq(A), NEW s
  PROVE  /\ OpenPart(job, s) \in Seq(A)
         /\ AnswerPart(job, s) \in Seq(AnswerRow(A))
         /\ ConfirmedPart(job, s) \in Seq(Nat)
         /\ Len(AnswerPart(job, s)) = Len(ConfirmedPart(job, s))
<1>1. OpenPart(job, s) \in Seq(A)
  BY EmptySeq DEF OpenPart
<1>2. CASE Answers(job, s)
  <2>1. job.response \in Replies
    BY <1>2 DEF Answers, Job
  <2>2. PICK row : row = [batch |-> job.batch, reply |-> job.response]
    OBVIOUS
  <2>3. row \in AnswerRow(A)
    BY <2>1, <2>2 DEF AnswerRow
  <2>4. PICK n : n = Cardinality(Delivered(job))
    OBVIOUS
  <2>5. n \in Nat
    BY <2>4, DeliveredCounted
  <2>6. AnswerPart(job, s) = <<row>> /\ ConfirmedPart(job, s) = <<n>>
    BY <1>2, <2>2, <2>4 DEF AnswerPart, ConfirmedPart
  <2> QED
    BY <1>1, <2>3, <2>5, <2>6
<1>3. CASE ~Answers(job, s)
  <2>1. AnswerPart(job, s) = << >> /\ ConfirmedPart(job, s) = << >>
    BY <1>3 DEF AnswerPart, ConfirmedPart
  <2> QED
    BY <1>1, <2>1, EmptySeq
<1> QED
  BY <1>2, <1>3

\* The batches are of elements of A.
Batched(J, A) == J \in Seq(Job) /\ \A j \in DOMAIN J : J[j].batch \in Seq(A)

LEMMA PartsTyped ==
  ASSUME NEW J, NEW A, Batched(J, A), NEW s
  PROVE  /\ OpenParts(J, s) \in Seq(Seq(A)) /\ Len(OpenParts(J, s)) = Len(J)
         /\ AnswerParts(J, s) \in Seq(Seq(AnswerRow(A))) /\ Len(AnswerParts(J, s)) = Len(J)
         /\ ConfirmedParts(J, s) \in Seq(Seq(Nat)) /\ Len(ConfirmedParts(J, s)) = Len(J)
         /\ \A j \in 1 .. Len(J) : /\ OpenParts(J, s)[j] = OpenPart(J[j], s)
                                   /\ AnswerParts(J, s)[j] = AnswerPart(J[j], s)
                                   /\ ConfirmedParts(J, s)[j] = ConfirmedPart(J[j], s)
                                   /\ Len(AnswerPart(J[j], s)) = Len(ConfirmedPart(J[j], s))
<1>0. J \in Seq(Job) /\ \A j \in DOMAIN J : J[j].batch \in Seq(A)
  BY DEF Batched
<1>1. PICK n \in Nat : n = Len(J) /\ DOMAIN J = 1 .. n
  BY <1>0, LenProperties
<1>2. \A j \in 1 .. n : /\ OpenPart(J[j], s) \in Seq(A)
                        /\ AnswerPart(J[j], s) \in Seq(AnswerRow(A))
                        /\ ConfirmedPart(J[j], s) \in Seq(Nat)
                        /\ Len(AnswerPart(J[j], s)) = Len(ConfirmedPart(J[j], s))
  BY <1>0, <1>1, ElementOfSeq, JobParts
<1>3. /\ OpenParts(J, s) = [j \in 1 .. n |-> OpenPart(J[j], s)]
      /\ AnswerParts(J, s) = [j \in 1 .. n |-> AnswerPart(J[j], s)]
      /\ ConfirmedParts(J, s) = [j \in 1 .. n |-> ConfirmedPart(J[j], s)]
  BY <1>1 DEF OpenParts, AnswerParts, ConfirmedParts
<1> QED
  BY <1>1, <1>2, <1>3

\* The parts of the first n jobs.
LEMMA FirstParts ==
  ASSUME NEW J, NEW A, Batched(J, A), NEW s,
         NEW n \in 1 .. Len(J)
  PROVE  SubSeq(AnswerParts(J, s), 1, n) = [k \in 1 .. n |-> AnswerPart(J[k], s)]
<1>1. PICK p : p = AnswerParts(J, s)
  OBVIOUS
<1>2. p \in Seq(Seq(AnswerRow(A))) /\ \A j \in 1 .. Len(J) : p[j] = AnswerPart(J[j], s)
  BY <1>1, PartsTyped
<1>3. Len(p) = Len(J) /\ Len(J) \in Nat
  BY <1>1, PartsTyped, LenProperties DEF Batched
<1>4. \A k \in 1 .. n : k \in 1 .. Len(J)
  BY <1>3
<1>5. PICK q : q = [k \in 1 .. n |-> AnswerPart(J[k], s)]
  OBVIOUS
<1>6. \A k \in 1 .. n : p[k] \in Seq(AnswerRow(A)) /\ q[k] = p[k]
  BY <1>2, <1>3, <1>4, <1>5, ElementOfSeq
<1>7. q \in Seq(Seq(AnswerRow(A))) /\ Len(q) = n
  <2>1. q = [k \in 1 .. n |-> q[k]] /\ n \in Nat
    BY <1>5
  <2>2. \A k \in 1 .. n : q[k] \in Seq(AnswerRow(A))
    BY <1>6
  <2> QED
    BY ONLY <2>1, <2>2
<1>8. SubSeq(q, 1, n) = SubSeq(p, 1, n)
  <2>1. 1 \in Nat \ {0} /\ n \in Nat /\ n <= Len(p) /\ n <= Len(q)
    BY <1>3, <1>7
  <2>2. \A k \in 1 .. n : q[k] = p[k]
    BY <1>6
  <2> QED
    BY ONLY <1>2, <1>7, <2>1, <2>2, SameStretch
<1>9. SubSeq(q, 1, n) = q
  BY <1>7, SubSeqFull
<1> QED
  BY <1>1, <1>5, <1>8, <1>9

\* An answered job's number is its place among the answers and the counts of
\* confirmed pieces of its stream.
LEMMA Numbered ==
  ASSUME NEW J, NEW A, Batched(J, A),
         NEW j \in DOMAIN J, NEW s, s = J[j].stream, J[j].response # NoReply
  PROVE  /\ Number(J, j) \in DOMAIN FlattenSeq(AnswerParts(J, s))
         /\ FlattenSeq(AnswerParts(J, s))[Number(J, j)]
              = [batch |-> J[j].batch, reply |-> J[j].response]
         /\ Number(J, j) \in DOMAIN FlattenSeq(ConfirmedParts(J, s))
         /\ FlattenSeq(ConfirmedParts(J, s))[Number(J, j)] = Cardinality(Delivered(J[j]))
         /\ Number(J, j) = Len(FlattenSeq(SubSeq(ConfirmedParts(J, s), 1, j)))
<1>1. PICK p, q : p = AnswerParts(J, s) /\ q = ConfirmedParts(J, s)
  OBVIOUS
<1>2. /\ p \in Seq(Seq(AnswerRow(A))) /\ q \in Seq(Seq(Nat)) /\ Len(p) = Len(J) /\ Len(q) = Len(J)
      /\ \A k \in 1 .. Len(J) : /\ p[k] = AnswerPart(J[k], s) /\ q[k] = ConfirmedPart(J[k], s)
                                /\ Len(AnswerPart(J[k], s)) = Len(ConfirmedPart(J[k], s))
  BY <1>1, PartsTyped
<1>3. DOMAIN J = 1 .. Len(J) /\ Len(J) \in Nat /\ j \in 1 .. Len(J)
  BY LenProperties DEF Batched
<1>4. Number(J, j) = Len(FlattenSeq(SubSeq(p, 1, j)))
  <2>1. SubSeq(AnswerParts(J, s), 1, j) = [k \in 1 .. j |-> AnswerPart(J[k], s)]
    BY <1>3, FirstParts
  <2> QED
    BY <1>1, <2>1 DEF Number
<1>5. PICK row : row = [batch |-> J[j].batch, reply |-> J[j].response]
  OBVIOUS
<1>6. J[j] \in Job /\ row \in AnswerRow(A)
  <2>1. J[j] \in Job
    BY <1>3, ElementOfSeq DEF Batched
  <2>2. J[j].response \in Replies /\ J[j].batch \in Seq(A)
    BY <2>1 DEF Job, Batched
  <2> QED
    BY <1>5, <2>1, <2>2 DEF AnswerRow
<1>7. PICK n \in Nat : n = Cardinality(Delivered(J[j]))
  BY <1>6, DeliveredCounted
<1>8. p[j] = <<row>> /\ q[j] = <<n>>
  BY <1>2, <1>3, <1>5, <1>7 DEF AnswerPart, ConfirmedPart, Answers
<1>9. /\ Len(FlattenSeq(SubSeq(p, 1, j))) \in 1 .. Len(FlattenSeq(p))
      /\ FlattenSeq(p)[Len(FlattenSeq(SubSeq(p, 1, j)))] = row
  <2>1. j \in 1 .. Len(p) /\ p \in Seq(Seq(AnswerRow(A))) /\ row \in AnswerRow(A) /\ p[j] = <<row>>
    BY <1>2, <1>3, <1>6, <1>8
  <2> QED
    BY ONLY <2>1, FlattenUnit
<1>10. /\ Len(FlattenSeq(SubSeq(q, 1, j))) \in 1 .. Len(FlattenSeq(q))
       /\ FlattenSeq(q)[Len(FlattenSeq(SubSeq(q, 1, j)))] = n
  <2>1. j \in 1 .. Len(q) /\ q \in Seq(Seq(Nat)) /\ n \in Nat /\ q[j] = <<n>>
    BY <1>2, <1>3, <1>8
  <2> QED
    BY ONLY <2>1, FlattenUnit
<1>11. Len(FlattenSeq(SubSeq(p, 1, j))) = Len(FlattenSeq(SubSeq(q, 1, j)))
  <2>1. PICK r, t : r = SubSeq(p, 1, j) /\ t = SubSeq(q, 1, j)
    OBVIOUS
  <2>2. \A k \in 1 .. j : k \in 1 .. Len(J)
    BY <1>3
  <2>3. /\ 1 \in Int /\ j \in Int /\ \A k \in 1 .. j : p[k] \in Seq(AnswerRow(A))
        /\ \A k \in 1 .. j : q[k] \in Seq(Nat)
    BY <1>2, <1>3, <2>2, ElementOfSeq
  <2>4. /\ r \in Seq(Seq(AnswerRow(A))) /\ Len(r) = (IF 1 <= j THEN j - 1 + 1 ELSE 0)
        /\ \A k \in 1 .. j - 1 + 1 : r[k] = p[1 + k - 1]
    BY ONLY <2>1, <2>3, SubSeqProperties
  <2>5. /\ t \in Seq(Seq(Nat)) /\ Len(t) = (IF 1 <= j THEN j - 1 + 1 ELSE 0)
        /\ \A k \in 1 .. j - 1 + 1 : t[k] = q[1 + k - 1]
    BY ONLY <2>1, <2>3, SubSeqProperties
  <2>6. \A k \in 1 .. Len(r) : k \in 1 .. j - 1 + 1 /\ 1 + k - 1 = k /\ k \in 1 .. Len(J)
    BY <2>2, <2>4, <1>3
  <2>7. SameLengths(r, t)
    <3>1. Len(r) = Len(t)
      BY <2>4, <2>5
    <3>2. \A k \in 1 .. Len(r) : Len(r[k]) = Len(t[k])
      BY <1>2, <2>4, <2>5, <2>6
    <3> QED
      BY <3>1, <3>2 DEF SameLengths
  <2>8. r \in Seq(Seq(AnswerRow(A))) /\ t \in Seq(Seq(Nat))
    BY <2>4, <2>5
  <2>9. Len(FlattenSeq(r)) = Len(FlattenSeq(t))
    BY ONLY <2>7, <2>8, FlattenLengths
  <2> QED
    BY <2>1, <2>9
<1>12. /\ DOMAIN FlattenSeq(p) = 1 .. Len(FlattenSeq(p))
       /\ DOMAIN FlattenSeq(q) = 1 .. Len(FlattenSeq(q))
  BY <1>2, FlattenTyped, LenProperties
<1> QED
  BY <1>1, <1>4, <1>5, <1>7, <1>9, <1>10, <1>11, <1>12

\* What waits and what is answered of a stream.
SameConversation(job, next) ==
  next.stream = job.stream /\ next.batch = job.batch /\ next.response = job.response

SameParts(J, K) ==
  /\ DOMAIN K = DOMAIN J
  /\ \A j \in DOMAIN J : SameConversation(J[j], K[j]) /\ Delivered(K[j]) = Delivered(J[j])

LEMMA PartsKept ==
  ASSUME NEW J, NEW K, SameParts(J, K), NEW s
  PROVE  /\ OpenParts(K, s) = OpenParts(J, s)
         /\ AnswerParts(K, s) = AnswerParts(J, s)
         /\ ConfirmedParts(K, s) = ConfirmedParts(J, s)
BY DEF SameParts, SameConversation, OpenParts, OpenPart, AnswerParts, AnswerPart, Answers,
       ConfirmedParts, ConfirmedPart

\* A job at the end brings its parts to the end.
LEMMA PartsAppended ==
  ASSUME NEW J, NEW K, NEW A, Batched(J, A), Batched(K, A), OneMore(J, K), NEW s
  PROVE  /\ FlattenSeq(OpenParts(K, s)) = FlattenSeq(OpenParts(J, s)) \o OpenPart(K[Len(K)], s)
         /\ FlattenSeq(AnswerParts(K, s)) = FlattenSeq(AnswerParts(J, s)) \o AnswerPart(K[Len(K)], s)
         /\ FlattenSeq(ConfirmedParts(K, s))
              = FlattenSeq(ConfirmedParts(J, s)) \o ConfirmedPart(K[Len(K)], s)
<1>1. PICK n \in Nat : n = Len(J)
  BY LenProperties DEF Batched
<1>3. Len(K) = n + 1 /\ \A k \in 1 .. n : K[k] = J[k]
  BY <1>1 DEF OneMore
<1>4. n + 1 \in 1 .. Len(K) /\ Len(K) = n + 1
  BY <1>3
<1>5. FlattenSeq(OpenParts(K, s)) = FlattenSeq(OpenParts(J, s)) \o OpenPart(K[Len(K)], s)
  <2>1. PICK p, q : p = OpenParts(J, s) /\ q = OpenParts(K, s)
    OBVIOUS
  <2>2. p \in Seq(Seq(A)) /\ Len(p) = n /\ \A k \in 1 .. n : p[k] = OpenPart(J[k], s)
    BY <1>1, <2>1, PartsTyped
  <2>3. q \in Seq(Seq(A)) /\ Len(q) = n + 1 /\ \A k \in 1 .. n + 1 : q[k] = OpenPart(K[k], s)
    BY <1>4, <2>1, PartsTyped
  <2>4. \A k \in 1 .. n : q[k] = p[k]
    BY <1>3, <2>2, <2>3
  <2>5. q[n + 1] = OpenPart(K[Len(K)], s)
    BY <1>4, <2>3
  <2>6. OneMore(p, q)
    BY <2>2, <2>3, <2>4 DEF OneMore
  <2>7. FlattenSeq(q) = FlattenSeq(p) \o q[Len(q)]
    BY <2>2, <2>3, <2>6, FlattenGrown
  <2> QED
    BY <2>1, <2>3, <2>5, <2>7
<1>6. FlattenSeq(AnswerParts(K, s)) = FlattenSeq(AnswerParts(J, s)) \o AnswerPart(K[Len(K)], s)
  <2>1. PICK p, q : p = AnswerParts(J, s) /\ q = AnswerParts(K, s)
    OBVIOUS
  <2>2. p \in Seq(Seq(AnswerRow(A))) /\ Len(p) = n /\ \A k \in 1 .. n : p[k] = AnswerPart(J[k], s)
    BY <1>1, <2>1, PartsTyped
  <2>3. /\ q \in Seq(Seq(AnswerRow(A))) /\ Len(q) = n + 1
        /\ \A k \in 1 .. n + 1 : q[k] = AnswerPart(K[k], s)
    BY <1>4, <2>1, PartsTyped
  <2>4. \A k \in 1 .. n : q[k] = p[k]
    BY <1>3, <2>2, <2>3
  <2>5. q[n + 1] = AnswerPart(K[Len(K)], s)
    BY <1>4, <2>3
  <2>6. OneMore(p, q)
    BY <2>2, <2>3, <2>4 DEF OneMore
  <2>7. FlattenSeq(q) = FlattenSeq(p) \o q[Len(q)]
    BY <2>2, <2>3, <2>6, FlattenGrown
  <2> QED
    BY <2>1, <2>3, <2>5, <2>7
<1>7. FlattenSeq(ConfirmedParts(K, s))
        = FlattenSeq(ConfirmedParts(J, s)) \o ConfirmedPart(K[Len(K)], s)
  <2>1. PICK p, q : p = ConfirmedParts(J, s) /\ q = ConfirmedParts(K, s)
    OBVIOUS
  <2>2. p \in Seq(Seq(Nat)) /\ Len(p) = n /\ \A k \in 1 .. n : p[k] = ConfirmedPart(J[k], s)
    BY <1>1, <2>1, PartsTyped
  <2>3. /\ q \in Seq(Seq(Nat)) /\ Len(q) = n + 1
        /\ \A k \in 1 .. n + 1 : q[k] = ConfirmedPart(K[k], s)
    BY <1>4, <2>1, PartsTyped
  <2>4. \A k \in 1 .. n : q[k] = p[k]
    BY <1>3, <2>2, <2>3
  <2>5. q[n + 1] = ConfirmedPart(K[Len(K)], s)
    BY <1>4, <2>3
  <2>6. OneMore(p, q)
    BY <2>2, <2>3, <2>4 DEF OneMore
  <2>7. FlattenSeq(q) = FlattenSeq(p) \o q[Len(q)]
    BY <2>2, <2>3, <2>6, FlattenGrown
  <2> QED
    BY <2>1, <2>3, <2>5, <2>7
<1> QED
  BY <1>5, <1>6, <1>7

\* The mapping, by the parts, before and after a step.
LEMMA Mapped ==
  ASSUME DOMAIN jobs = 1 .. Len(jobs), NEW s
  PROVE  /\ WaitingOf(s) = FlattenSeq(OpenParts(jobs, s))
         /\ AnswersOf(s) = FlattenSeq(AnswerParts(jobs, s))
         /\ ConfirmedOf(s) = FlattenSeq(ConfirmedParts(jobs, s))
         /\ ReadOf(s) = FlattenSeq(ReadParts(jobs, shown, s))
<1>1. WaitingOf(s) = FlattenSeq(OpenParts(jobs, s))
  BY DEF WaitingOf, OpenParts
<1>2. AnswersOf(s) = FlattenSeq(AnswerParts(jobs, s))
  BY DEF AnswersOf, AnswersThrough, AnswerParts
<1>3. ConfirmedOf(s) = FlattenSeq(ConfirmedParts(jobs, s))
  BY DEF ConfirmedOf, ConfirmedParts
<1>4. ReadOf(s) = FlattenSeq(ReadParts(jobs, shown, s))
  BY DEF ReadOf, ReadParts, ReadRow, ReadPart, AnswerNumber, AnswersThrough, Number
<1> QED
  BY <1>1, <1>2, <1>3, <1>4

LEMMA MappedNext ==
  ASSUME DOMAIN jobs' = 1 .. Len(jobs'), NEW s
  PROVE  /\ WaitingOf(s)' = FlattenSeq(OpenParts(jobs', s))
         /\ AnswersOf(s)' = FlattenSeq(AnswerParts(jobs', s))
         /\ ConfirmedOf(s)' = FlattenSeq(ConfirmedParts(jobs', s))
         /\ ReadOf(s)' = FlattenSeq(ReadParts(jobs', shown', s))
<1>1. WaitingOf(s)' = FlattenSeq(OpenParts(jobs', s))
  BY DEF WaitingOf, OpenParts
<1>2. AnswersOf(s)' = FlattenSeq(AnswerParts(jobs', s))
  BY DEF AnswersOf, AnswersThrough, AnswerParts
<1>3. ConfirmedOf(s)' = FlattenSeq(ConfirmedParts(jobs', s))
  BY DEF ConfirmedOf, ConfirmedParts
<1>4. ReadOf(s)' = FlattenSeq(ReadParts(jobs', shown', s))
  BY DEF ReadOf, ReadParts, ReadRow, ReadPart, AnswerNumber, AnswersThrough, Number
<1> QED
  BY <1>1, <1>2, <1>3, <1>4

LEMMA JobsBatched ==
  ASSUME GatewayInv
  PROVE  Batched(jobs, UpdateIds) /\ DOMAIN jobs = 1 .. Len(jobs) /\ Len(jobs) \in Nat
BY JobsTyped DEF GatewayInv, StoreInv, StoreTypeOK, Batched

LEMMA JobsBatchedNext ==
  ASSUME GatewayInv'
  PROVE  Batched(jobs', UpdateIds) /\ DOMAIN jobs' = 1 .. Len(jobs') /\ Len(jobs') \in Nat
<1>1. jobs' \in Seq(Job)
  BY DEF GatewayInv, StoreInv, StoreTypeOK
<1>2. DOMAIN jobs' = 1 .. Len(jobs') /\ Len(jobs') \in Nat
  BY <1>1, LenProperties
<1>3. \A j \in DOMAIN jobs' : jobs'[j] \in Job
  BY <1>1, <1>2, ElementOfSeq
<1>4. \A j \in DOMAIN jobs' : jobs'[j].batch \in Seq(UpdateIds)
  BY <1>3 DEF Job
<1> QED
  BY <1>1, <1>2, <1>4 DEF Batched

\* What was shown belongs to answered jobs.
LEMMA ShownAnswered ==
  ASSUME GatewayInv, ShownInv, NEW m \in DOMAIN shown
  PROVE  /\ shown[m].job \in DOMAIN jobs /\ jobs[shown[m].job].response # NoReply
         /\ shown[m].chunk \in Nat /\ shown[m].job \in Nat
<1>1. /\ shown[m].job \in DOMAIN jobs
      /\ shown[m].chunk \in DOMAIN jobs[shown[m].job].chunks
  BY DEF ShownInv, ShownInOrder
<1>2. PICK j \in DOMAIN jobs : j = shown[m].job
  BY <1>1
<1>3. DOMAIN jobs[j].chunks # {} /\ shown[m].chunk \in DOMAIN jobs[j].chunks
  BY <1>1, <1>2
<1>4. jobs[j].response # NoReply /\ DOMAIN jobs[j].chunks \subseteq Nat
  BY <1>3, ChunksTyped
<1>5. DOMAIN jobs \subseteq Nat
  BY JobsBatched
<1> QED
  BY <1>1, <1>2, <1>3, <1>4, <1>5

\* An answer that is saved does not renumber those that were shown.
LEMMA ReadUnchanged ==
  ASSUME GatewayInv, GatewayInv', ShownInv, shown' = shown, NEW s,
         \A k \in DOMAIN jobs : jobs'[k].stream = jobs[k].stream,
         \A i \in DOMAIN jobs : jobs[i].response # NoReply =>
           \A k \in 1 .. i : AnswerPart(jobs'[k], jobs[i].stream) = AnswerPart(jobs[k], jobs[i].stream)
  PROVE  ReadOf(s)' = ReadOf(s)
<1>1. ASSUME NEW m \in DOMAIN shown
      PROVE  /\ jobs'[shown[m].job].stream = jobs[shown[m].job].stream
             /\ Number(jobs', shown[m].job) = Number(jobs, shown[m].job)
  <2>1. PICK i \in DOMAIN jobs : i = shown[m].job /\ jobs[i].response # NoReply
    BY ShownAnswered
  <2>2. \A k \in 1 .. i : AnswerPart(jobs'[k], jobs[i].stream) = AnswerPart(jobs[k], jobs[i].stream)
    BY <2>1
  <2>3. jobs'[i].stream = jobs[i].stream
    OBVIOUS
  <2>4. Number(jobs', i) = Number(jobs, i)
    BY <2>2, <2>3 DEF Number
  <2> QED
    BY <2>1, <2>3, <2>4
<1>2. ReadParts(jobs', shown', s) = ReadParts(jobs, shown, s)
  BY <1>1 DEF ReadParts, ReadRow
<1>3. ReadOf(s) = FlattenSeq(ReadParts(jobs, shown, s))
  BY JobsBatched, Mapped
<1>4. ReadOf(s)' = FlattenSeq(ReadParts(jobs', shown', s))
  BY JobsBatchedNext, MappedNext
<1> QED
  BY <1>2, <1>3, <1>4

\* Nothing about stream s changes.
Unmoved(s) ==
  /\ WaitingOf(s)' = WaitingOf(s)
  /\ AnswersOf(s)' = AnswersOf(s)
  /\ ConfirmedOf(s)' = ConfirmedOf(s)
  /\ ReadOf(s)' = ReadOf(s)

\* A claim, a recovery or a confirmation already noted moves nothing.
LEMMA QuietPromise ==
  ASSUME GatewayInv, GatewayInv', ShownInv, SameParts(jobs, jobs'), shown' = shown, NEW s
  PROVE  Unmoved(s)
<1>1. /\ OpenParts(jobs', s) = OpenParts(jobs, s)
      /\ AnswerParts(jobs', s) = AnswerParts(jobs, s)
      /\ ConfirmedParts(jobs', s) = ConfirmedParts(jobs, s)
  BY PartsKept
<1>2. \A k \in DOMAIN jobs : jobs'[k].stream = jobs[k].stream
  BY DEF SameParts, SameConversation
<1>3. \A i \in DOMAIN jobs : \A k \in 1 .. i : k \in DOMAIN jobs
  BY JobsBatched
<1>4. \A k \in DOMAIN jobs : \A t : AnswerPart(jobs'[k], t) = AnswerPart(jobs[k], t)
  BY DEF SameParts, SameConversation, AnswerPart, Answers
<1>5. \A i \in DOMAIN jobs : jobs[i].response # NoReply =>
        \A k \in 1 .. i : AnswerPart(jobs'[k], jobs[i].stream) = AnswerPart(jobs[k], jobs[i].stream)
  BY <1>3, <1>4
<1>6. ReadOf(s)' = ReadOf(s)
  BY <1>2, <1>5, ReadUnchanged
<1>7. /\ WaitingOf(s) = FlattenSeq(OpenParts(jobs, s))
      /\ AnswersOf(s) = FlattenSeq(AnswerParts(jobs, s))
      /\ ConfirmedOf(s) = FlattenSeq(ConfirmedParts(jobs, s))
  BY JobsBatched, Mapped
<1>8. /\ WaitingOf(s)' = FlattenSeq(OpenParts(jobs', s))
      /\ AnswersOf(s)' = FlattenSeq(AnswerParts(jobs', s))
      /\ ConfirmedOf(s)' = FlattenSeq(ConfirmedParts(jobs', s))
  BY JobsBatchedNext, MappedNext
<1> QED
  BY <1>1, <1>6, <1>7, <1>8 DEF Unmoved

\* The numbers of the pieces before the one being sent are the confirmed ones.
LEMMA HeldConfirmed ==
  ASSUME GatewayInv, ShownInv, delivery.pc # "idle"
  PROVE  /\ delivery.job \in DOMAIN jobs /\ delivery.chunk \in Nat \ {0}
         /\ jobs[delivery.job].response \in Replies
         /\ delivery.chunk <= ChunkCount[jobs[delivery.job].response]
         /\ Delivered(jobs[delivery.job]) = 1 .. delivery.chunk - 1
         /\ Cardinality(Delivered(jobs[delivery.job])) + 1 = delivery.chunk
<1>1. PICK j \in DOMAIN jobs : j = delivery.job
  BY HeldWork
<1>2. PICK c \in DOMAIN jobs[j].chunks : c = delivery.chunk
  BY <1>1, HeldWork
<1>3. /\ c \in Nat \ {0} /\ DOMAIN jobs[j].chunks \subseteq Nat \ {0}
      /\ \A d \in 1 .. c - 1 : d \in DOMAIN jobs[j].chunks
      /\ jobs[j].response # NoReply /\ jobs[j] \in Job
  BY ChunksTyped, JobsTyped DEF GatewayInv, StoreInv
<1>4. /\ jobs[j].chunks[c].status = "sending"
      /\ \A d \in 1 .. c - 1 : jobs[j].chunks[d].status = "delivered"
  BY <1>1, <1>2 DEF ShownInv, DeliveryHeld
<1>5. jobs[j].response \in Replies
  BY <1>3 DEF Job
<1>6. c <= ChunkCount[jobs[j].response]
  <2>1. DOMAIN jobs[j].chunks = 1 .. ChunkCount[jobs[j].response]
    BY DEF ShownInv, ChunksCounted
  <2> QED
    BY <2>1, <1>5, StoreAssumption
<1>7. ASSUME NEW d \in DOMAIN jobs[j].chunks, jobs[j].chunks[d].status = "delivered"
      PROVE  d \in 1 .. c - 1
  <2>1. PICK m \in DOMAIN shown : shown[m].job = j /\ shown[m].chunk = d
    BY <1>7 DEF ShownInv, ConfirmedShown, Copies
  <2>2. \A e \in 1 .. d - 1 : jobs[j].chunks[e].status = "delivered"
    BY <2>1 DEF ShownInv, ShownInOrder
  <2>3. d # c /\ ~(c \in 1 .. d - 1)
    BY <1>4, <1>7, <2>2
  <2>4. d \in Nat \ {0}
    BY <1>3
  <2> QED
    BY <1>3, <2>3, <2>4
<1>8. Delivered(jobs[j]) = 1 .. c - 1
  <2>1. \A d \in 1 .. c - 1 : d \in Delivered(jobs[j])
    BY <1>3, <1>4 DEF Delivered
  <2>2. \A d \in Delivered(jobs[j]) : d \in 1 .. c - 1
    BY <1>7 DEF Delivered
  <2> QED
    BY <2>1, <2>2
<1>9. Cardinality(1 .. c - 1) = c - 1
  <2>1. 1 \in Int /\ c - 1 \in Int
    BY <1>3
  <2>2. Cardinality(1 .. c - 1) = IF 1 > c - 1 THEN 0 ELSE c - 1 - 1 + 1
    BY ONLY <2>1, FS_Interval
  <2> QED
    BY <1>3, <2>2
<1> QED
  BY <1>1, <1>2, <1>3, <1>5, <1>6, <1>8, <1>9

\* A stored update waits at the end of its stream; nothing else changes.
LEMMA AcceptedUpdate ==
  ASSUME GatewayInv, GatewayInv', ShownInv, NEW u \in UpdateIds, NEW s \in Streams,
         NEW j \in Nat, NEW n \in Nat, Joined(u, s, j, n), shown' = shown
  PROVE  /\ WaitingOf(s)' = Append(WaitingOf(s), u)
         /\ \A t : t # s => WaitingOf(t)' = WaitingOf(t)
         /\ \A t : /\ AnswersOf(t)' = AnswersOf(t)
                   /\ ConfirmedOf(t)' = ConfirmedOf(t)
                   /\ ReadOf(t)' = ReadOf(t)
<1>1. PICK J, K : J = jobs /\ K = jobs'
  OBVIOUS
<1>2. /\ Batched(J, UpdateIds) /\ DOMAIN J = 1 .. Len(J) /\ Len(J) \in Nat
      /\ Batched(K, UpdateIds) /\ DOMAIN K = 1 .. Len(K) /\ Len(K) \in Nat
  BY <1>1, JobsBatched, JobsBatchedNext
<1>3. /\ j \in DOMAIN K /\ DOMAIN K = DOMAIN J \cup {j}
      /\ n \in Nat \ {0} /\ DOMAIN K[j].batch = 1 .. n /\ K[j].batch[n] = u
      /\ K[j].stream = s /\ K[j].response = NoReply
      /\ \A k \in DOMAIN J \ {j} : K[k] = J[k]
      /\ \A k \in DOMAIN J : J[k].stream = s => k <= j
      /\ j \in DOMAIN J =>
           /\ J[j].stream = s /\ J[j].response = NoReply
           /\ n > 1 /\ DOMAIN J[j].batch = 1 .. n - 1
           /\ \A a \in 1 .. n - 1 : K[j].batch[a] = J[j].batch[a]
      /\ j \notin DOMAIN J => n = 1
  BY <1>1 DEF Joined
<1>4. K[j].batch \in Seq(UpdateIds) /\ \A k \in DOMAIN J : J[k].batch \in Seq(UpdateIds)
  BY <1>2, <1>3 DEF Batched
<1>5. \A t : /\ AnswerPart(K[j], t) = << >> /\ ConfirmedPart(K[j], t) = << >>
             /\ t # s => OpenPart(K[j], t) = << >>
  BY <1>3 DEF AnswerPart, ConfirmedPart, OpenPart, Answers
<1>6. OpenPart(K[j], s) = K[j].batch
  BY <1>3 DEF OpenPart
<1>7. /\ FlattenSeq(OpenParts(K, s)) = Append(FlattenSeq(OpenParts(J, s)), u)
      /\ \A t : t # s => FlattenSeq(OpenParts(K, t)) = FlattenSeq(OpenParts(J, t))
      /\ \A t : /\ FlattenSeq(AnswerParts(K, t)) = FlattenSeq(AnswerParts(J, t))
                /\ FlattenSeq(ConfirmedParts(K, t)) = FlattenSeq(ConfirmedParts(J, t))
  <2>1. CASE j \notin DOMAIN J
    <3>1. j = Len(J) + 1 /\ Len(K) = Len(J) + 1 /\ j = Len(K)
      <4>1. PICK a, b \in Nat : a = Len(J) /\ b = Len(K)
        BY <1>2
      <4>2. j \in 1 .. b /\ 1 .. b = 1 .. a \cup {j} /\ j \notin 1 .. a
        BY <1>2, <1>3, <2>1, <4>1
      <4>3. j > a /\ j <= b /\ a + 1 \in 1 .. b /\ b \in 1 .. b
        BY <4>2
      <4>4. a + 1 \in 1 .. a \cup {j} /\ b \in 1 .. a \cup {j}
        BY <4>2, <4>3
      <4>5. a + 1 = j /\ b = j
        BY <4>3, <4>4
      <4> QED
        BY <4>1, <4>5
    <3>2. OneMore(J, K)
      <4>1. \A k \in 1 .. Len(J) : K[k] = J[k]
        BY <1>2, <1>3, <2>1
      <4> QED
        BY <3>1, <4>1 DEF OneMore
    <3>3. \A t : /\ FlattenSeq(OpenParts(K, t)) = FlattenSeq(OpenParts(J, t)) \o OpenPart(K[j], t)
                 /\ FlattenSeq(AnswerParts(K, t)) = FlattenSeq(AnswerParts(J, t)) \o AnswerPart(K[j], t)
                 /\ FlattenSeq(ConfirmedParts(K, t))
                      = FlattenSeq(ConfirmedParts(J, t)) \o ConfirmedPart(K[j], t)
      <4> TAKE t
      <4>1. Batched(J, UpdateIds) /\ Batched(K, UpdateIds) /\ OneMore(J, K)
        BY <1>2, <3>2
      <4>2. /\ FlattenSeq(OpenParts(K, t)) = FlattenSeq(OpenParts(J, t)) \o OpenPart(K[Len(K)], t)
            /\ FlattenSeq(AnswerParts(K, t)) = FlattenSeq(AnswerParts(J, t)) \o AnswerPart(K[Len(K)], t)
            /\ FlattenSeq(ConfirmedParts(K, t))
                 = FlattenSeq(ConfirmedParts(J, t)) \o ConfirmedPart(K[Len(K)], t)
        BY ONLY <4>1, PartsAppended
      <4> QED
        BY <3>1, <4>2
    <3>4. \A t : /\ FlattenSeq(OpenParts(J, t)) \in Seq(UpdateIds)
                 /\ FlattenSeq(AnswerParts(J, t)) \in Seq(AnswerRow(UpdateIds))
                 /\ FlattenSeq(ConfirmedParts(J, t)) \in Seq(Nat)
      BY <1>2, PartsTyped, FlattenTyped
    <3>5. K[j].batch = <<u>>
      <4>1. Len(K[j].batch) = 1 /\ K[j].batch[1] = u
        <5>1. PICK b : b = K[j].batch
          OBVIOUS
        <5>2. b \in Seq(UpdateIds) /\ DOMAIN b = 1 .. 1 /\ b[1] = u
          BY <1>3, <1>4, <2>1, <5>1
        <5>3. PICK l \in Nat : l = Len(b) /\ DOMAIN b = 1 .. l
          BY <5>2, LenProperties
        <5>4. 1 .. l = 1 .. 1
          BY <5>2, <5>3
        <5>5. 1 \in 1 .. l /\ (l > 1 => l \in 1 .. l)
          BY <5>4
        <5>6. l = 1
          BY <5>4, <5>5
        <5> QED
          BY <5>1, <5>2, <5>3, <5>6
      <4> QED
        BY <1>4, <4>1
    <3>6. FlattenSeq(OpenParts(K, s)) = Append(FlattenSeq(OpenParts(J, s)), u)
      <4>1. PICK w : w = FlattenSeq(OpenParts(J, s))
        OBVIOUS
      <4>2. w \in Seq(UpdateIds)
        BY <3>4, <4>1
      <4>3. w \o <<u>> = Append(w, u)
        BY <4>2
      <4> QED
        BY <1>6, <3>3, <3>5, <4>1, <4>3
    <3>7. \A t : /\ t # s => FlattenSeq(OpenParts(K, t)) = FlattenSeq(OpenParts(J, t)) \o << >>
                 /\ FlattenSeq(AnswerParts(K, t)) = FlattenSeq(AnswerParts(J, t)) \o << >>
                 /\ FlattenSeq(ConfirmedParts(K, t)) = FlattenSeq(ConfirmedParts(J, t)) \o << >>
      BY <1>5, <3>3
    <3>8. \A t : /\ FlattenSeq(OpenParts(J, t)) \o << >> = FlattenSeq(OpenParts(J, t))
                 /\ FlattenSeq(AnswerParts(J, t)) \o << >> = FlattenSeq(AnswerParts(J, t))
                 /\ FlattenSeq(ConfirmedParts(J, t)) \o << >> = FlattenSeq(ConfirmedParts(J, t))
      BY <3>4, ConcatEmptySeq
    <3> QED
      BY <3>6, <3>7, <3>8
  <2>2. CASE j \in DOMAIN J
    <3>1. DOMAIN K = DOMAIN J /\ Len(K) = Len(J) /\ j \in 1 .. Len(J)
      <4>1. PICK a, b \in Nat : a = Len(J) /\ b = Len(K)
        BY <1>2
      <4>2. DOMAIN K = DOMAIN J /\ 1 .. b = 1 .. a /\ j \in 1 .. a
        BY <1>2, <1>3, <2>2, <4>1
      <4>3. a >= 1 /\ b >= 1
        BY <4>2
      <4>4. a \in 1 .. b /\ b \in 1 .. a
        BY <4>2, <4>3
      <4>5. a = b
        BY <4>4
      <4> QED
        BY <4>1, <4>2, <4>5
    <3>2. \A t : AnswerPart(J[j], t) = << >> /\ ConfirmedPart(J[j], t) = << >>
      BY <1>3, <2>2 DEF AnswerPart, ConfirmedPart, Answers
    <3>3. \A t : \A k \in DOMAIN J : /\ AnswerPart(K[k], t) = AnswerPart(J[k], t)
                                     /\ ConfirmedPart(K[k], t) = ConfirmedPart(J[k], t)
      BY <1>3, <1>5, <3>2
    <3>4. \A t : AnswerParts(K, t) = AnswerParts(J, t) /\ ConfirmedParts(K, t) = ConfirmedParts(J, t)
      BY <3>1, <3>3 DEF AnswerParts, ConfirmedParts
    <3>5. \A t : t # s => OpenPart(J[j], t) = << >>
      BY <1>3, <2>2 DEF OpenPart
    <3>6. \A t : t # s => \A k \in DOMAIN J : OpenPart(K[k], t) = OpenPart(J[k], t)
      BY <1>3, <1>5, <3>5
    <3>7. \A t : t # s => OpenParts(K, t) = OpenParts(J, t)
      BY <3>1, <3>6 DEF OpenParts
    <3>8. FlattenSeq(OpenParts(K, s)) = Append(FlattenSeq(OpenParts(J, s)), u)
      <4>1. PICK p, q : p = OpenParts(J, s) /\ q = OpenParts(K, s)
        OBVIOUS
      <4>2. /\ p \in Seq(Seq(UpdateIds)) /\ Len(p) = Len(J)
            /\ \A k \in 1 .. Len(J) : p[k] = OpenPart(J[k], s)
        BY <1>2, <4>1, PartsTyped
      <4>3. /\ q \in Seq(Seq(UpdateIds)) /\ Len(q) = Len(J)
            /\ \A k \in 1 .. Len(J) : q[k] = OpenPart(K[k], s)
        BY <1>2, <3>1, <4>1, PartsTyped
      <4>4. SameBut(p, q, j)
        <5>1. \A k \in 1 .. Len(J) : k # j => K[k] = J[k]
          BY <1>2, <1>3
        <5>2. \A k \in 1 .. Len(J) : k # j => q[k] = p[k]
          BY <4>2, <4>3, <5>1
        <5>3. Len(p) = Len(J) /\ Len(q) = Len(J)
          BY <4>2, <4>3
        <5> QED
          BY ONLY <5>2, <5>3 DEF SameBut
      <4>5. EmptyAfter(p, j)
        <5>1. \A k \in 1 .. Len(J) : j < k => J[k].stream # s
          BY <1>2, <1>3
        <5> QED
          BY <4>2, <5>1 DEF OpenPart, EmptyAfter
      <4>6. PICK a \in Seq(UpdateIds) : FlattenSeq(p) = a \o p[j] /\ FlattenSeq(q) = a \o q[j]
        <5>1. /\ p \in Seq(Seq(UpdateIds)) /\ q \in Seq(Seq(UpdateIds)) /\ j \in 1 .. Len(p)
              /\ SameBut(p, q, j) /\ EmptyAfter(p, j)
          BY <3>1, <4>2, <4>3, <4>4, <4>5
        <5> QED
          BY ONLY <5>1, FlattenLast
      <4>7. p[j] = J[j].batch /\ q[j] = K[j].batch
        BY <1>3, <1>6, <2>2, <3>1, <4>2, <4>3 DEF OpenPart
      <4>8. PICK b, c : b = J[j].batch /\ c = K[j].batch
        OBVIOUS
      <4>9. b \in Seq(UpdateIds) /\ c \in Seq(UpdateIds)
        BY <1>4, <2>2, <4>8
      <4>10. c = Append(b, u)
        <5>1. Len(b) = n - 1 /\ Len(c) = n
          BY <1>3, <2>2, <4>8, <4>9, LenProperties
        <5>2. PICK d : d = Append(b, u)
          OBVIOUS
        <5>3. /\ d \in Seq(UpdateIds) /\ Len(d) = n /\ d[n] = u
              /\ \A a1 \in 1 .. n - 1 : d[a1] = b[a1]
          BY <1>3, <4>9, <5>1, <5>2
        <5>4. \A x \in 1 .. n : x = n \/ x \in 1 .. n - 1
          BY <1>3
        <5>5. \A x \in 1 .. n : c[x] = d[x]
          BY <1>3, <2>2, <4>8, <5>3, <5>4
        <5>6. c = d
          BY <4>9, <5>1, <5>3, <5>5, SeqEqual
        <5> QED
          BY <5>2, <5>6
      <4>11. a \o c = Append(a \o b, u)
        <5>1. b \o <<u>> = Append(b, u) /\ <<u>> \in Seq(UpdateIds)
          BY <4>9
        <5>2. a \o (b \o <<u>>) = (a \o b) \o <<u>>
          BY SMTT(20), <4>6, <4>9, <5>1, ConcatAssociative
        <5>3. PICK e : e = a \o b
          OBVIOUS
        <5>4. e \in Seq(UpdateIds)
          BY <4>6, <4>9, <5>3, ConcatProperties
        <5>5. e \o <<u>> = Append(e, u)
          BY <5>4
        <5> QED
          BY <4>10, <5>1, <5>2, <5>3, <5>5
      <4> QED
        BY <4>1, <4>6, <4>7, <4>8, <4>11
    <3> QED
      BY <3>4, <3>7, <3>8
  <2> QED
    BY <2>1, <2>2
<1>8. \A t : ReadOf(t)' = ReadOf(t)
  <2>1. \A k \in DOMAIN J : K[k].stream = J[k].stream
    BY <1>3
  <2>2. ASSUME NEW i \in DOMAIN J, J[i].response # NoReply, NEW k \in 1 .. i
        PROVE  AnswerPart(K[k], J[i].stream) = AnswerPart(J[k], J[i].stream)
    <3>1. k \in DOMAIN J
      BY <1>2
    <3>2. CASE k # j
      BY <1>3, <3>1, <3>2
    <3>3. CASE k = j
      BY <1>3, <1>5, <3>1, <3>3 DEF AnswerPart, Answers
    <3> QED
      BY <3>2, <3>3
  <2> QED
    BY <1>1, <2>1, <2>2, ReadUnchanged
<1>9. \A t : /\ WaitingOf(t) = FlattenSeq(OpenParts(J, t))
             /\ AnswersOf(t) = FlattenSeq(AnswerParts(J, t))
             /\ ConfirmedOf(t) = FlattenSeq(ConfirmedParts(J, t))
  BY <1>1, <1>2, Mapped
<1>10. \A t : /\ WaitingOf(t)' = FlattenSeq(OpenParts(K, t))
              /\ AnswersOf(t)' = FlattenSeq(AnswerParts(K, t))
              /\ ConfirmedOf(t)' = FlattenSeq(ConfirmedParts(K, t))
  BY <1>1, <1>2, MappedNext
<1> QED
  BY <1>7, <1>8, <1>9, <1>10

AnswerTo(batch, reply) == [batch |-> batch, reply |-> reply]

\* Reply r is saved for job j, of stream s and with batch b.
Answering(j, r, s, b) ==
  /\ j \in DOMAIN jobs /\ r \in Replies /\ s = jobs[j].stream /\ b = jobs[j].batch
  /\ jobs[j].status # "queued" /\ OnlyJob(j) /\ SameBatch(j)
  /\ jobs[j].response = NoReply /\ jobs'[j].response = r /\ jobs'[j].chunks = jobs[j].chunks

\* A saved answer takes the oldest waiting messages of its stream, all of the
\* job's batch, and comes after every other answer there.
LEMMA SavedPromise ==
  ASSUME GatewayInv, GatewayInv', ShownInv, shown' = shown,
         NEW j, NEW r, NEW s, NEW b, Answering(j, r, s, b)
  PROVE  /\ Len(b) \in 1 .. Len(WaitingOf(s))
         /\ WaitingOf(s)' = SubSeq(WaitingOf(s), Len(b) + 1, Len(WaitingOf(s)))
         /\ SubSeq(WaitingOf(s), 1, Len(b)) = b
         /\ AnswersOf(s)' = Append(AnswersOf(s), AnswerTo(b, r))
         /\ ConfirmedOf(s)' = Append(ConfirmedOf(s), 0)
         /\ \A t : t # s => /\ WaitingOf(t)' = WaitingOf(t)
                            /\ AnswersOf(t)' = AnswersOf(t)
                            /\ ConfirmedOf(t)' = ConfirmedOf(t)
         /\ \A t : ReadOf(t)' = ReadOf(t)
<1>0. /\ j \in DOMAIN jobs /\ r \in Replies /\ s = jobs[j].stream /\ b = jobs[j].batch
      /\ jobs[j].status # "queued" /\ OnlyJob(j) /\ SameBatch(j)
      /\ jobs[j].response = NoReply /\ jobs'[j].response = r /\ jobs'[j].chunks = jobs[j].chunks
  BY DEF Answering
<1> USE <1>0
<1>1. PICK J, K : J = jobs /\ K = jobs'
  OBVIOUS
<1>2. /\ Batched(J, UpdateIds) /\ DOMAIN J = 1 .. Len(J) /\ Len(J) \in Nat
      /\ Batched(K, UpdateIds) /\ DOMAIN K = 1 .. Len(K) /\ Len(K) \in Nat
  BY <1>1, JobsBatched, JobsBatchedNext
<1>3. s = J[j].stream
  BY <1>1
<1>4. b = J[j].batch
  BY <1>1
<1>5. /\ DOMAIN K = DOMAIN J /\ \A k \in DOMAIN J \ {j} : K[k] = J[k]
      /\ K[j].stream = s /\ K[j].batch = b /\ J[j].response = NoReply /\ K[j].response = r
      /\ K[j].chunks = J[j].chunks /\ j \in DOMAIN J
  BY <1>1, <1>3, <1>4 DEF OnlyJob, SameBatch
<1>6. Len(K) = Len(J) /\ j \in 1 .. Len(J)
  <2>1. PICK x, y \in Nat : x = Len(J) /\ y = Len(K)
    BY <1>2
  <2>2. 1 .. y = 1 .. x /\ j \in 1 .. x
    BY <1>2, <1>5, <2>1
  <2>3. x \in 1 .. y /\ y \in 1 .. x
    BY <2>2
  <2> QED
    BY <2>1, <2>2, <2>3
<1>7. r # NoReply
  BY StoreAssumption
<1>8. b \in Seq(UpdateIds) /\ b # << >> /\ J[j].chunks = << >> /\ J[j] \in Job
  <2>1. J[j].chunks = << >>
    BY <1>1, <1>5 DEF GatewayInv, StoreInv, ChunksAnswered
  <2>2. b # << >>
    BY <1>1, <1>4 DEF GatewayInv, StoreInv, BatchesStored
  <2> QED
    BY <1>2, <1>4, <1>6, <2>1, <2>2, ElementOfSeq DEF Batched
\* Earlier jobs of the stream are answered, later ones are not.
<1>9. \A k \in DOMAIN J : J[k].stream = s /\ k < j => J[k].response # NoReply
  BY <1>1, <1>3 DEF GatewayInv, StoreInv, AnsweredInOrder
<1>10. \A k \in DOMAIN J : J[k].stream = s /\ j < k => J[k].response = NoReply
  <2> TAKE k \in DOMAIN J
  <2> HAVE J[k].stream = s /\ j < k
  <2>1. J[k].response # NoReply => J[k].status # "queued"
    BY <1>1 DEF GatewayInv, StoreInv, AnsweredStatus
  <2>2. J[k].status # "queued" => J[j].response # NoReply
    BY <1>1, <1>3 DEF GatewayInv, StoreInv, AnsweredInOrder
  <2> QED
    BY <1>5, <2>1, <2>2
<1>11. \A t : t # s => /\ OpenParts(K, t) = OpenParts(J, t)
                       /\ AnswerParts(K, t) = AnswerParts(J, t)
                       /\ ConfirmedParts(K, t) = ConfirmedParts(J, t)
  <2> SUFFICES ASSUME NEW t, t # s
               PROVE  /\ OpenParts(K, t) = OpenParts(J, t)
                      /\ AnswerParts(K, t) = AnswerParts(J, t)
                      /\ ConfirmedParts(K, t) = ConfirmedParts(J, t)
    OBVIOUS
  <2>1. /\ OpenPart(K[j], t) = << >> /\ OpenPart(J[j], t) = << >>
        /\ AnswerPart(K[j], t) = << >> /\ AnswerPart(J[j], t) = << >>
        /\ ConfirmedPart(K[j], t) = << >> /\ ConfirmedPart(J[j], t) = << >>
    BY <1>3, <1>5 DEF OpenPart, AnswerPart, ConfirmedPart, Answers
  <2>2. \A k \in DOMAIN J : /\ OpenPart(K[k], t) = OpenPart(J[k], t)
                            /\ AnswerPart(K[k], t) = AnswerPart(J[k], t)
                            /\ ConfirmedPart(K[k], t) = ConfirmedPart(J[k], t)
    BY <1>5, <2>1
  <2> QED
    BY <1>5, <2>2 DEF OpenParts, AnswerParts, ConfirmedParts
<1>12. PICK c \in Seq(UpdateIds) :
         FlattenSeq(OpenParts(J, s)) = b \o c /\ FlattenSeq(OpenParts(K, s)) = c
  <2>1. PICK p, q : p = OpenParts(J, s) /\ q = OpenParts(K, s)
    OBVIOUS
  <2>2. /\ p \in Seq(Seq(UpdateIds)) /\ Len(p) = Len(J)
        /\ \A k \in 1 .. Len(J) : p[k] = OpenPart(J[k], s)
    BY <1>2, <2>1, PartsTyped
  <2>3. /\ q \in Seq(Seq(UpdateIds)) /\ Len(q) = Len(J)
        /\ \A k \in 1 .. Len(J) : q[k] = OpenPart(K[k], s)
    <3>1. /\ q \in Seq(Seq(UpdateIds)) /\ Len(q) = Len(K)
          /\ \A k \in 1 .. Len(K) : q[k] = OpenPart(K[k], s)
      BY <1>2, <2>1, PartsTyped
    <3> QED
      BY <1>6, <3>1
  <2>4. SameBut(p, q, j) /\ j \in 1 .. Len(p)
    <3>1. \A k \in 1 .. Len(J) : k # j => K[k] = J[k]
      BY <1>2, <1>5
    <3>2. \A k \in 1 .. Len(J) : k # j => q[k] = p[k]
      BY <2>2, <2>3, <3>1
    <3>3. Len(p) = Len(J) /\ Len(q) = Len(J) /\ j \in 1 .. Len(J)
      BY <1>6, <2>2, <2>3
    <3> QED
      BY ONLY <3>2, <3>3 DEF SameBut
  <2>5. EmptyBefore(p, j)
    BY <1>2, <1>9, <2>2 DEF OpenPart, EmptyBefore
  <2>6. PICK c \in Seq(UpdateIds) : FlattenSeq(p) = p[j] \o c /\ FlattenSeq(q) = q[j] \o c
    <3>1. /\ p \in Seq(Seq(UpdateIds)) /\ q \in Seq(Seq(UpdateIds)) /\ j \in 1 .. Len(p)
          /\ SameBut(p, q, j) /\ EmptyBefore(p, j)
      BY <2>2, <2>3, <2>4, <2>5
    <3>2. /\ FlattenSeq(SubSeq(p, j + 1, Len(p))) \in Seq(UpdateIds)
          /\ FlattenSeq(p) = p[j] \o FlattenSeq(SubSeq(p, j + 1, Len(p)))
          /\ FlattenSeq(q) = q[j] \o FlattenSeq(SubSeq(p, j + 1, Len(p)))
      BY ONLY <3>1, FlattenFirst
    <3> QED
      BY <3>2
  <2>7. p[j] = b
    BY <1>3, <1>4, <1>5, <1>6, <2>2 DEF OpenPart
  <2>8. q[j] = << >>
    BY <1>5, <1>6, <1>7, <2>3 DEF OpenPart
  <2>9. << >> \o c = c
    BY ConcatEmptySeq
  <2> QED
    BY <2>1, <2>6, <2>7, <2>8, <2>9
<1>13. PICK row : row = [batch |-> b, reply |-> r]
  OBVIOUS
<1>14. row \in AnswerRow(UpdateIds)
  BY <1>8, <1>13 DEF AnswerRow
<1>15. FlattenSeq(AnswerParts(K, s)) = Append(FlattenSeq(AnswerParts(J, s)), row)
  <2>1. PICK p, q : p = AnswerParts(J, s) /\ q = AnswerParts(K, s)
    OBVIOUS
  <2>2. /\ p \in Seq(Seq(AnswerRow(UpdateIds))) /\ Len(p) = Len(J)
        /\ \A k \in 1 .. Len(J) : p[k] = AnswerPart(J[k], s)
    BY <1>2, <2>1, PartsTyped
  <2>3. /\ q \in Seq(Seq(AnswerRow(UpdateIds))) /\ Len(q) = Len(J)
        /\ \A k \in 1 .. Len(J) : q[k] = AnswerPart(K[k], s)
    <3>1. /\ q \in Seq(Seq(AnswerRow(UpdateIds))) /\ Len(q) = Len(K)
          /\ \A k \in 1 .. Len(K) : q[k] = AnswerPart(K[k], s)
      BY <1>2, <2>1, PartsTyped
    <3> QED
      BY <1>6, <3>1
  <2>4. SameBut(p, q, j) /\ j \in 1 .. Len(p)
    <3>1. \A k \in 1 .. Len(J) : k # j => K[k] = J[k]
      BY <1>2, <1>5
    <3>2. \A k \in 1 .. Len(J) : k # j => q[k] = p[k]
      BY <2>2, <2>3, <3>1
    <3>3. Len(p) = Len(J) /\ Len(q) = Len(J) /\ j \in 1 .. Len(J)
      BY <1>6, <2>2, <2>3
    <3> QED
      BY ONLY <3>2, <3>3 DEF SameBut
  <2>5. EmptyAfter(p, j)
    BY <1>2, <1>10, <2>2 DEF AnswerPart, Answers, EmptyAfter
  <2>6. PICK a \in Seq(AnswerRow(UpdateIds)) : FlattenSeq(p) = a \o p[j] /\ FlattenSeq(q) = a \o q[j]
    <3>1. p \in Seq(Seq(AnswerRow(UpdateIds))) /\ q \in Seq(Seq(AnswerRow(UpdateIds)))
      BY <2>2, <2>3
    <3> QED
      BY ONLY <3>1, <2>4, <2>5, FlattenLast
  <2>7. p[j] = << >>
    BY <1>5, <1>6, <2>2 DEF AnswerPart, Answers
  <2>8. q[j] = <<row>>
    BY <1>5, <1>6, <1>7, <1>13, <2>3 DEF AnswerPart, Answers
  <2>9. a \o << >> = a /\ a \o <<row>> = Append(a, row)
    BY <1>14, ConcatEmptySeq
  <2> QED
    BY <2>1, <2>6, <2>7, <2>8, <2>9
<1>16. FlattenSeq(ConfirmedParts(K, s)) = Append(FlattenSeq(ConfirmedParts(J, s)), 0)
  <2>1. PICK p, q : p = ConfirmedParts(J, s) /\ q = ConfirmedParts(K, s)
    OBVIOUS
  <2>2. /\ p \in Seq(Seq(Nat)) /\ Len(p) = Len(J)
        /\ \A k \in 1 .. Len(J) : p[k] = ConfirmedPart(J[k], s)
    BY <1>2, <2>1, PartsTyped
  <2>3. /\ q \in Seq(Seq(Nat)) /\ Len(q) = Len(J)
        /\ \A k \in 1 .. Len(J) : q[k] = ConfirmedPart(K[k], s)
    <3>1. /\ q \in Seq(Seq(Nat)) /\ Len(q) = Len(K)
          /\ \A k \in 1 .. Len(K) : q[k] = ConfirmedPart(K[k], s)
      BY <1>2, <2>1, PartsTyped
    <3> QED
      BY <1>6, <3>1
  <2>4. SameBut(p, q, j) /\ j \in 1 .. Len(p)
    <3>1. \A k \in 1 .. Len(J) : k # j => K[k] = J[k]
      BY <1>2, <1>5
    <3>2. \A k \in 1 .. Len(J) : k # j => q[k] = p[k]
      BY <2>2, <2>3, <3>1
    <3>3. Len(p) = Len(J) /\ Len(q) = Len(J) /\ j \in 1 .. Len(J)
      BY <1>6, <2>2, <2>3
    <3> QED
      BY ONLY <3>2, <3>3 DEF SameBut
  <2>5. EmptyAfter(p, j)
    BY <1>2, <1>10, <2>2 DEF ConfirmedPart, Answers, EmptyAfter
  <2>6. PICK a \in Seq(Nat) : FlattenSeq(p) = a \o p[j] /\ FlattenSeq(q) = a \o q[j]
    <3>1. p \in Seq(Seq(Nat)) /\ q \in Seq(Seq(Nat))
      BY <2>2, <2>3
    <3> QED
      BY ONLY <3>1, <2>4, <2>5, FlattenLast
  <2>7. p[j] = << >>
    BY <1>5, <1>6, <2>2 DEF ConfirmedPart, Answers
  <2>8. q[j] = <<0>>
    <3>1. Delivered(K[j]) = {}
      BY <1>5, <1>8 DEF Delivered
    <3>2. Cardinality(Delivered(K[j])) = 0
      BY <3>1, FS_EmptySet
    <3> QED
      BY <1>5, <1>6, <1>7, <2>3, <3>2 DEF ConfirmedPart, Answers
  <2>9. a \o << >> = a /\ a \o <<0>> = Append(a, 0)
    BY ConcatEmptySeq
  <2> QED
    BY <2>1, <2>6, <2>7, <2>8, <2>9
<1>17. \A t : ReadOf(t)' = ReadOf(t)
  <2>1. \A k \in DOMAIN J : K[k].stream = J[k].stream
    BY <1>3, <1>5
  <2>2. ASSUME NEW i \in DOMAIN J, J[i].response # NoReply, NEW k \in 1 .. i
        PROVE  AnswerPart(K[k], J[i].stream) = AnswerPart(J[k], J[i].stream)
    <3>1. k \in DOMAIN J /\ k <= i
      BY <1>2
    <3>2. CASE k # j
      BY <1>5, <3>1, <3>2
    <3>3. CASE k = j
      <4>1. j < i
        BY <1>2, <1>5, <2>2, <3>1, <3>3
      <4>2. J[i].stream # s
        BY <1>10, <2>2, <4>1
      <4> QED
        BY <1>3, <1>5, <3>3, <4>2 DEF AnswerPart, Answers
    <3> QED
      BY <3>2, <3>3
  <2> QED
    BY <1>1, <2>1, <2>2, ReadUnchanged
<1>18. \A t : /\ WaitingOf(t) = FlattenSeq(OpenParts(J, t))
              /\ AnswersOf(t) = FlattenSeq(AnswerParts(J, t))
              /\ ConfirmedOf(t) = FlattenSeq(ConfirmedParts(J, t))
  BY <1>1, <1>2, Mapped
<1>19. \A t : /\ WaitingOf(t)' = FlattenSeq(OpenParts(K, t))
              /\ AnswersOf(t)' = FlattenSeq(AnswerParts(K, t))
              /\ ConfirmedOf(t)' = FlattenSeq(ConfirmedParts(K, t))
  BY <1>1, <1>2, MappedNext
<1>20. /\ Len(b) \in 1 .. Len(b \o c)
       /\ SubSeq(b \o c, 1, Len(b)) = b
       /\ SubSeq(b \o c, Len(b) + 1, Len(b \o c)) = c
  <2>1. /\ SubSeq(b \o c, 1, Len(b)) = b /\ SubSeq(b \o c, Len(b) + 1, Len(b \o c)) = c
        /\ Len(b) <= Len(b \o c)
    <3>1. PICK A : A = UpdateIds
      OBVIOUS
    <3>2. b \in Seq(A) /\ c \in Seq(A)
      BY <1>8, <1>12, <3>1
    <3> QED
      BY ONLY <3>2, ConcatApart
  <2>2. PICK x \in Nat : x = Len(b)
    BY <1>8, LenProperties
  <2>3. x # 0
    BY <1>8, <2>2, EmptySeq
  <2>4. PICK y \in Nat : y = Len(b \o c)
    <3>1. b \o c \in Seq(UpdateIds)
      BY <1>8, ConcatProperties
    <3> QED
      BY <3>1, LenProperties
  <2>5. x \in 1 .. y
    BY <2>1, <2>2, <2>3, <2>4
  <2> QED
    BY <2>1, <2>2, <2>4, <2>5
<1>21. PICK w : w = WaitingOf(s)
  OBVIOUS
<1>22. w = b \o c
  BY <1>12, <1>18, <1>21
<1>23. Len(b) \in 1 .. Len(w) /\ SubSeq(w, 1, Len(b)) = b /\ SubSeq(w, Len(b) + 1, Len(w)) = c
  BY <1>20, <1>22
<1>24. WaitingOf(s)' = SubSeq(w, Len(b) + 1, Len(w))
  BY <1>12, <1>19, <1>23
<1>25. AnswersOf(s)' = Append(AnswersOf(s), AnswerTo(b, r))
  BY <1>13, <1>15, <1>18, <1>19 DEF AnswerTo
<1>26. ConfirmedOf(s)' = Append(ConfirmedOf(s), 0)
  BY <1>16, <1>18, <1>19
<1>27. \A t : t # s => /\ WaitingOf(t)' = WaitingOf(t)
                       /\ AnswersOf(t)' = AnswersOf(t)
                       /\ ConfirmedOf(t)' = ConfirmedOf(t)
  BY <1>11, <1>18, <1>19
<1> QED
  BY <1>17, <1>21, <1>23, <1>24, <1>25, <1>26, <1>27

\* Every message shown is a piece of an answered job.
Shows(J, M) ==
  /\ M \in Seq([job : Nat, chunk : Nat, reply : Replies])
  /\ \A m \in DOMAIN M : M[m].job \in DOMAIN J /\ J[M[m].job].response # NoReply

LEMMA NumberTyped ==
  ASSUME NEW J, NEW A, Batched(J, A), NEW j \in DOMAIN J, J[j].response # NoReply
  PROVE  Number(J, j) \in Nat
<1>1. PICK s : s = J[j].stream
  OBVIOUS
<1>2. Number(J, j) \in DOMAIN FlattenSeq(AnswerParts(J, s))
  BY <1>1, Numbered
<1>3. FlattenSeq(AnswerParts(J, s)) \in Seq(AnswerRow(A))
  BY PartsTyped, FlattenTyped
<1>4. DOMAIN FlattenSeq(AnswerParts(J, s)) \subseteq Nat
  BY <1>3, LenProperties
<1> QED
  BY <1>2, <1>4

LEMMA ReadTyped ==
  ASSUME NEW J, NEW A, Batched(J, A), NEW M, Shows(J, M), NEW s
  PROVE  /\ ReadParts(J, M, s) \in Seq(Seq(Nat \X Nat)) /\ Len(ReadParts(J, M, s)) = Len(M)
         /\ \A m \in 1 .. Len(M) : ReadParts(J, M, s)[m] = ReadRow(J, M[m], s)
<1>1. PICK n \in Nat : n = Len(M) /\ DOMAIN M = 1 .. n
  BY LenProperties DEF Shows
<1>2. PICK p : p = ReadParts(J, M, s)
  OBVIOUS
<1>3. p = [m \in 1 .. n |-> ReadRow(J, M[m], s)]
  BY <1>1, <1>2 DEF ReadParts
<1>4. ASSUME NEW m \in 1 .. n
      PROVE  p[m] \in Seq(Nat \X Nat)
  <2>1. M[m] \in [job : Nat, chunk : Nat, reply : Replies] /\ Number(J, M[m].job) \in Nat
    BY <1>1, NumberTyped, ElementOfSeq DEF Shows
  <2>2. <<Number(J, M[m].job), M[m].chunk>> \in Nat \X Nat
    BY <2>1
  <2>3. PICK x : x = <<Number(J, M[m].job), M[m].chunk>>
    OBVIOUS
  <2>4. PICK P : P = Nat \X Nat
    OBVIOUS
  <2>5. x \in P /\ (p[m] = <<x>> \/ p[m] = << >>)
    BY <1>3, <2>2, <2>3, <2>4 DEF ReadRow
  <2>6. <<x>> \in Seq(P) /\ << >> \in Seq(P)
    BY <2>5, EmptySeq
  <2> QED
    BY <2>4, <2>5, <2>6
<1>5. p = [m \in 1 .. n |-> p[m]]
  BY <1>3
<1>6. p \in Seq(Seq(Nat \X Nat)) /\ Len(p) = n
  <2>1. PICK P : P = Seq(Nat \X Nat)
    OBVIOUS
  <2>2. \A m \in 1 .. n : p[m] \in P
    BY <1>4, <2>1
  <2>3. p \in Seq(P) /\ Len(p) = n
    BY ONLY <1>5, <2>2, n \in Nat
  <2> QED
    BY <2>1, <2>3
<1> QED
  BY <1>1, <1>2, <1>3, <1>6

LEMMA ShownPieces ==
  ASSUME GatewayInv, ShownInv
  PROVE  Shows(jobs, shown) /\ DOMAIN shown = 1 .. Len(shown) /\ Len(shown) \in Nat
<1>1. shown \in Seq([job : Nat, chunk : Nat, reply : Replies])
  BY DEF GatewayInv, TypeOK
<1> QED
  BY <1>1, ShownAnswered, LenProperties DEF Shows

\* The answer of the job being delivered, the pieces confirmed and the piece
\* that is next.
LEMMA HeldAnswer ==
  ASSUME GatewayInv, ShownInv, delivery.pc # "idle",
         NEW j, j = delivery.job, NEW s, s = jobs[j].stream
  PROVE  /\ j \in DOMAIN jobs /\ Number(jobs, j) \in Nat
         /\ Number(jobs, j) \in DOMAIN AnswersOf(s) /\ Number(jobs, j) \in DOMAIN ConfirmedOf(s)
         /\ ConfirmedOf(s)[Number(jobs, j)] + 1 = delivery.chunk
         /\ ConfirmedOf(s)[Number(jobs, j)] \in Nat
         /\ ConfirmedOf(s)[Number(jobs, j)] < ChunkCount[AnswersOf(s)[Number(jobs, j)].reply]
<1>1. Batched(jobs, UpdateIds) /\ DOMAIN jobs = 1 .. Len(jobs) /\ Len(jobs) \in Nat
  BY JobsBatched
<1>2. /\ j \in DOMAIN jobs /\ jobs[j].response \in Replies
      /\ delivery.chunk \in Nat \ {0}
      /\ delivery.chunk <= ChunkCount[jobs[j].response]
      /\ Cardinality(Delivered(jobs[j])) + 1 = delivery.chunk
  BY HeldConfirmed
<1>3. jobs[j].response # NoReply /\ ChunkCount[jobs[j].response] \in Nat
  BY <1>2, StoreAssumption
<1>4. Number(jobs, j) \in Nat
  BY <1>1, <1>2, <1>3, NumberTyped
<1>5. /\ AnswersOf(s) = FlattenSeq(AnswerParts(jobs, s))
      /\ ConfirmedOf(s) = FlattenSeq(ConfirmedParts(jobs, s))
  BY <1>1, Mapped
<1>6. /\ Number(jobs, j) \in DOMAIN AnswersOf(s)
      /\ AnswersOf(s)[Number(jobs, j)] = [batch |-> jobs[j].batch, reply |-> jobs[j].response]
      /\ Number(jobs, j) \in DOMAIN ConfirmedOf(s)
      /\ ConfirmedOf(s)[Number(jobs, j)] = Cardinality(Delivered(jobs[j]))
  BY <1>1, <1>2, <1>3, <1>5, Numbered
<1>7. PICK n \in Nat : n = Cardinality(Delivered(jobs[j]))
  <2>1. jobs[j] \in Job
    BY <1>2, JobsTyped DEF GatewayInv, StoreInv
  <2> QED
    BY <2>1, DeliveredCounted
<1>8. PICK c \in Nat : c = delivery.chunk
  BY <1>2
<1>9. n + 1 = c /\ n < ChunkCount[jobs[j].response]
  BY <1>2, <1>3, <1>7, <1>8
<1>10. AnswersOf(s)[Number(jobs, j)].reply = jobs[j].response
  BY <1>6
<1> QED
  BY <1>2, <1>4, <1>6, <1>7, <1>8, <1>9, <1>10

\* A piece that is sent is the next one of its answer.
LEMMA ShownPromise ==
  ASSUME GatewayInv, GatewayInv', ShownInv, jobs' = jobs, delivery.pc = "claimed", Show(delivery),
         NEW j, j = delivery.job, NEW s, s = jobs[j].stream, NEW a, a = Number(jobs, j)
  PROVE  /\ ReadOf(s)' = Append(ReadOf(s), <<a, ConfirmedOf(s)[a] + 1>>)
         /\ \A t : t # s => ReadOf(t)' = ReadOf(t)
         /\ \A t : /\ WaitingOf(t)' = WaitingOf(t)
                   /\ AnswersOf(t)' = AnswersOf(t)
                   /\ ConfirmedOf(t)' = ConfirmedOf(t)
<1>1. PICK J, M, N : J = jobs /\ M = shown /\ N = shown'
  OBVIOUS
<1>2. Batched(J, UpdateIds) /\ DOMAIN J = 1 .. Len(J) /\ Len(J) \in Nat
  BY <1>1, JobsBatched
<1>3. /\ j \in DOMAIN J /\ a \in Nat /\ ConfirmedOf(s)[a] + 1 = delivery.chunk
  BY <1>1, HeldAnswer
<1>4. delivery.chunk \in Nat /\ J[j].response \in Replies /\ J[j].response # NoReply /\ s = J[j].stream
  BY <1>1, HeldConfirmed, StoreAssumption
<1>5. PICK c \in Nat : c = delivery.chunk
  BY <1>4
<1>6. PICK row : row = [job |-> j, chunk |-> c, reply |-> J[j].response]
  OBVIOUS
<1>7. /\ N = Append(M, row) /\ row \in [job : Nat, chunk : Nat, reply : Replies]
      /\ row.job = j /\ row.chunk = c
  BY <1>1, <1>2, <1>3, <1>4, <1>5, <1>6 DEF Show
<1>8. Shows(J, M) /\ DOMAIN M = 1 .. Len(M) /\ Len(M) \in Nat
  BY <1>1, ShownPieces
<1>9. PICK n \in Nat : n = Len(M)
  BY <1>8
<1>10. /\ N \in Seq([job : Nat, chunk : Nat, reply : Replies]) /\ Len(N) = n + 1
       /\ N[n + 1] = row /\ \A m \in 1 .. n : N[m] = M[m]
  <2>1. PICK R : R = [job : Nat, chunk : Nat, reply : Replies]
    OBVIOUS
  <2>2. M \in Seq(R) /\ row \in R
    BY <1>7, <1>8, <2>1 DEF Shows
  <2>3. N \in Seq(R) /\ Len(N) = n + 1 /\ N[n + 1] = row /\ \A m \in 1 .. n : N[m] = M[m]
    BY <1>7, <1>9, <2>2
  <2> QED
    BY <2>1, <2>3
<1>11. DOMAIN N = 1 .. n + 1 /\ \A m \in 1 .. n + 1 : m = n + 1 \/ m \in 1 .. n
  <2>1. DOMAIN N = 1 .. Len(N)
    BY <1>10, LenProperties
  <2> QED
    BY <1>9, <1>10, <2>1
<1>12. Shows(J, N)
  <2>1. \A m \in 1 .. n : M[m].job \in DOMAIN J /\ J[M[m].job].response # NoReply
    BY <1>8, <1>9 DEF Shows
  <2>2. \A m \in 1 .. n + 1 : N[m].job \in DOMAIN J /\ J[N[m].job].response # NoReply
    BY <1>3, <1>4, <1>7, <1>10, <1>11, <2>1
  <2> QED
    BY <1>10, <1>11, <2>2 DEF Shows
<1>13. \A t : FlattenSeq(ReadParts(J, N, t)) = FlattenSeq(ReadParts(J, M, t)) \o ReadParts(J, N, t)[n + 1]
  <2> TAKE t
  <2>1. PICK p, q : p = ReadParts(J, M, t) /\ q = ReadParts(J, N, t)
    OBVIOUS
  <2>2. /\ p \in Seq(Seq(Nat \X Nat)) /\ Len(p) = n
        /\ \A m \in 1 .. n : p[m] = ReadRow(J, M[m], t)
    BY <1>2, <1>8, <1>9, <2>1, ReadTyped
  <2>3. /\ q \in Seq(Seq(Nat \X Nat)) /\ Len(q) = n + 1
        /\ \A m \in 1 .. n + 1 : q[m] = ReadRow(J, N[m], t)
    <3>1. /\ q \in Seq(Seq(Nat \X Nat)) /\ Len(q) = Len(N)
          /\ \A m \in 1 .. Len(N) : q[m] = ReadRow(J, N[m], t)
      BY <1>2, <1>12, <2>1, ReadTyped
    <3> QED
      BY <1>10, <3>1
  <2>4. OneMore(p, q)
    <3>1. \A m \in 1 .. n : m \in 1 .. n + 1
      OBVIOUS
    <3>2. \A m \in 1 .. n : q[m] = p[m]
      BY <1>10, <2>2, <2>3, <3>1
    <3> QED
      BY <2>2, <2>3, <3>2 DEF OneMore
  <2>5. p \in Seq(Seq(Nat \X Nat)) /\ q \in Seq(Seq(Nat \X Nat)) /\ OneMore(p, q)
    BY <2>2, <2>3, <2>4
  <2>6. FlattenSeq(q) = FlattenSeq(p) \o q[Len(q)]
    BY ONLY <2>5, FlattenGrown
  <2> QED
    BY <2>1, <2>3, <2>6
<1>14. \A t : ReadParts(J, N, t)[n + 1] = IF s = t THEN <<<<a, c>>>> ELSE << >>
  <2> TAKE t
  <2>1. n + 1 \in DOMAIN N
    BY <1>11
  <2> QED
    BY <1>1, <1>4, <1>7, <1>10, <2>1 DEF ReadParts, ReadRow
<1>15. \A t : FlattenSeq(ReadParts(J, M, t)) \in Seq(Nat \X Nat)
  BY <1>2, <1>8, ReadTyped, FlattenTyped
<1>16. \A t : /\ WaitingOf(t) = FlattenSeq(OpenParts(J, t))
              /\ AnswersOf(t) = FlattenSeq(AnswerParts(J, t))
              /\ ConfirmedOf(t) = FlattenSeq(ConfirmedParts(J, t))
              /\ ReadOf(t) = FlattenSeq(ReadParts(J, M, t))
  BY <1>1, <1>2, Mapped
<1>17. \A t : /\ WaitingOf(t)' = FlattenSeq(OpenParts(J, t))
              /\ AnswersOf(t)' = FlattenSeq(AnswerParts(J, t))
              /\ ConfirmedOf(t)' = FlattenSeq(ConfirmedParts(J, t))
              /\ ReadOf(t)' = FlattenSeq(ReadParts(J, N, t))
  <2>1. DOMAIN jobs' = 1 .. Len(jobs') /\ jobs' = J
    BY <1>1, <1>2
  <2> QED
    BY <1>1, <2>1, MappedNext
<1>18. \A t : t # s => ReadOf(t)' = ReadOf(t)
  BY <1>13, <1>14, <1>15, <1>16, <1>17, ConcatEmptySeq
<1>19. ReadOf(s)' = Append(ReadOf(s), <<a, c>>)
  <2>1. PICK P, x, w : P = Nat \X Nat /\ x = <<a, c>> /\ w = ReadOf(s)
    OBVIOUS
  <2>2. x \in P
    BY <1>3, <1>5, <2>1
  <2>3. w \in Seq(P)
    BY <1>15, <1>16, <2>1
  <2>4. w \o <<x>> = Append(w, x)
    BY <2>2, <2>3
  <2>5. ReadOf(s)' = w \o <<x>>
    BY <1>13, <1>14, <1>16, <1>17, <2>1
  <2> QED
    BY <2>1, <2>4, <2>5
<1> QED
  BY <1>3, <1>5, <1>16, <1>17, <1>18, <1>19

\* A piece that is confirmed was shown, and is the next one of its answer.
LEMMA ConfirmedPromise ==
  ASSUME GatewayInv, GatewayInv', ShownInv, Marks,
         NEW j, j = delivery.job, NEW s, s = jobs[j].stream, NEW a, a = Number(jobs, j)
  PROVE  /\ \E i \in DOMAIN ReadOf(s) : ReadOf(s)[i] = <<a, ConfirmedOf(s)[a] + 1>>
         /\ ConfirmedOf(s)' = [ConfirmedOf(s) EXCEPT ![a] = ConfirmedOf(s)[a] + 1]
         /\ \A t : t # s => ConfirmedOf(t)' = ConfirmedOf(t)
         /\ \A t : /\ WaitingOf(t)' = WaitingOf(t)
                   /\ AnswersOf(t)' = AnswersOf(t)
                   /\ ReadOf(t)' = ReadOf(t)
<1>1. PICK J, K, M : J = jobs /\ K = jobs' /\ M = shown
  OBVIOUS
<1>2. /\ Batched(J, UpdateIds) /\ DOMAIN J = 1 .. Len(J) /\ Len(J) \in Nat
      /\ Batched(K, UpdateIds) /\ DOMAIN K = 1 .. Len(K) /\ Len(K) \in Nat
  BY <1>1, JobsBatched, JobsBatchedNext
<1>3. delivery.pc = "sent" /\ MarkChunkDelivered(delivery.job, delivery.chunk, delivery.mid) /\ shown' = M
  BY <1>1 DEF Marks, DeliverMark
<1>4. /\ j \in DOMAIN J /\ a \in Nat /\ ConfirmedOf(s)[a] + 1 = delivery.chunk
      /\ ConfirmedOf(s)[a] \in Nat
  BY <1>1, <1>3, HeldAnswer
<1>5. /\ delivery.chunk \in Nat /\ J[j].response \in Replies /\ J[j].response # NoReply
      /\ s = J[j].stream /\ Cardinality(Delivered(J[j])) + 1 = delivery.chunk
  BY <1>1, <1>3, HeldConfirmed, StoreAssumption
<1>6. PICK c \in Nat : c = delivery.chunk
  BY <1>5
<1>7. c \in DOMAIN J[j].chunks /\ delivery.mid \in Nat
  BY <1>1, <1>3, <1>6, HeldWork
<1>8. J[j].chunks[c].status = "sending" /\ delivery.mid \in Copies(j, c)
  BY <1>1, <1>3, <1>6 DEF ShownInv, DeliveryHeld
<1>9. /\ OnlyJob(j) /\ SameBatch(j)
      /\ jobs'[j].response = jobs[j].response
      /\ DOMAIN jobs'[j].chunks = DOMAIN jobs[j].chunks
      /\ jobs'[j].chunks[c].status = "delivered"
      /\ \A d \in DOMAIN jobs[j].chunks \ {c} : jobs'[j].chunks[d] = jobs[j].chunks[d]
  <2>1. PICK m \in Nat : m = delivery.mid
    BY <1>7
  <2>2. MarkChunkDelivered(j, c, m) /\ c \in DOMAIN jobs[j].chunks /\ j \in DOMAIN jobs
    BY <1>1, <1>3, <1>4, <1>6, <1>7, <2>1 DEF Marks, DeliverMark
  <2>3. jobs[j].chunks[c].status = "sending"
    BY <1>1, <1>8
  <2>4. jobs'[j].chunks[c] = [status |-> "delivered", mid |-> m]
    BY <2>2, <2>3, MarkedChunk
  <2>5. jobs'[j].chunks[c].status = "delivered"
    BY <2>4
  <2> QED
    BY <2>2, <2>3, <2>5, MarkedChunk
<1>10. /\ DOMAIN K = DOMAIN J /\ \A k \in DOMAIN J \ {j} : K[k] = J[k]
       /\ SameConversation(J[j], K[j])
       /\ DOMAIN K[j].chunks = DOMAIN J[j].chunks
       /\ K[j].chunks[c].status = "delivered"
       /\ \A d \in DOMAIN J[j].chunks \ {c} : K[j].chunks[d] = J[j].chunks[d]
  BY <1>1, <1>9 DEF OnlyJob, SameBatch, SameConversation
<1>11. Len(K) = Len(J) /\ j \in 1 .. Len(J)
  <2>1. PICK x, y \in Nat : x = Len(J) /\ y = Len(K)
    BY <1>2
  <2>2. 1 .. y = 1 .. x /\ j \in 1 .. x
    BY <1>2, <1>4, <1>10, <2>1
  <2>3. x \in 1 .. y /\ y \in 1 .. x
    BY <2>2
  <2> QED
    BY <2>1, <2>2, <2>3
<1>12. \A t : OpenParts(K, t) = OpenParts(J, t) /\ AnswerParts(K, t) = AnswerParts(J, t)
  BY <1>10 DEF SameConversation, OpenParts, OpenPart, AnswerParts, AnswerPart, Answers
<1>13. \A t : t # s => ConfirmedParts(K, t) = ConfirmedParts(J, t)
  BY <1>5, <1>10 DEF SameConversation, ConfirmedParts, ConfirmedPart, Answers
<1>14. PICK n \in Nat : n = Cardinality(Delivered(J[j])) /\ n + 1 = c
  <2>1. J[j] \in Job
    BY <1>2, <1>11, ElementOfSeq DEF Batched
  <2>2. Cardinality(Delivered(J[j])) \in Nat
    BY <2>1, DeliveredCounted
  <2> QED
    BY <1>5, <1>6, <2>2
<1>15. Cardinality(Delivered(K[j])) = n + 1
  <2>1. Delivered(K[j]) = Delivered(J[j]) \cup {c} /\ c \notin Delivered(J[j])
    BY <1>7, <1>8, <1>1, <1>10 DEF Delivered
  <2>2. J[j] \in Job
    BY <1>2, <1>11, ElementOfSeq DEF Batched
  <2>3. IsFiniteSet(Delivered(J[j]))
    BY <2>2, DeliveredCounted
  <2>4. PICK D : D = Delivered(J[j])
    OBVIOUS
  <2>5. IsFiniteSet(D) /\ c \notin D
    BY <2>1, <2>3, <2>4
  <2>6. Cardinality(D \cup {c}) = Cardinality(D) + 1
    BY ONLY <2>5, FS_AddElement
  <2> QED
    BY <1>14, <2>1, <2>4, <2>6
<1>16. PICK p, q : p = ConfirmedParts(J, s) /\ q = ConfirmedParts(K, s)
  OBVIOUS
<1>17. /\ p \in Seq(Seq(Nat)) /\ Len(p) = Len(J)
       /\ \A k \in 1 .. Len(J) : p[k] = ConfirmedPart(J[k], s)
  <2>1. Batched(J, UpdateIds) /\ p = ConfirmedParts(J, s)
    BY <1>2, <1>16
  <2>2. PICK A : A = UpdateIds
    OBVIOUS
  <2>3. Batched(J, A) /\ p = ConfirmedParts(J, s)
    BY <2>1, <2>2
  <2> QED
    BY ONLY <2>3, PartsTyped
<1>18. /\ q \in Seq(Seq(Nat)) /\ Len(q) = Len(J)
       /\ \A k \in 1 .. Len(J) : q[k] = ConfirmedPart(K[k], s)
  <2>1. PICK A : A = UpdateIds
    OBVIOUS
  <2>2. Batched(K, A) /\ q = ConfirmedParts(K, s)
    BY <1>2, <1>16, <2>1
  <2>3. /\ q \in Seq(Seq(Nat)) /\ Len(q) = Len(K)
        /\ \A k \in 1 .. Len(K) : q[k] = ConfirmedPart(K[k], s)
    BY ONLY <2>2, PartsTyped
  <2> QED
    BY <1>11, <2>3
<1>19. p[j] = <<n>> /\ q[j] = <<n + 1>>
  BY <1>5, <1>10, <1>11, <1>14, <1>15, <1>17, <1>18 DEF ConfirmedPart, Answers, SameConversation
<1>20. SameBut(p, q, j)
  <2>1. SUFFICES ASSUME NEW k \in 1 .. Len(J), k # j
                 PROVE  q[k] = p[k]
    BY <1>17, <1>18 DEF SameBut
  <2>2. k \in DOMAIN J \ {j}
    BY <1>2, <2>1
  <2>3. K[k] = J[k]
    BY <1>10, <2>2
  <2> QED
    BY <1>17, <1>18, <2>1, <2>3
<1>21. FlattenSeq(q) = [FlattenSeq(p) EXCEPT ![Len(FlattenSeq(SubSeq(p, 1, j)))] = n + 1]
  <2>1. PICK m \in Nat : m = n + 1
    OBVIOUS
  <2>2. /\ p \in Seq(Seq(Nat)) /\ q \in Seq(Seq(Nat)) /\ j \in 1 .. Len(p) /\ SameBut(p, q, j)
        /\ n \in Nat /\ p[j] = <<n>> /\ m \in Nat /\ q[j] = <<m>>
    BY <1>11, <1>17, <1>18, <1>19, <1>20, <2>1
  <2>3. FlattenSeq(q) = Replaced(FlattenSeq(p), Len(FlattenSeq(SubSeq(p, 1, j))), m)
    BY ONLY <2>2, FlattenReplace
  <2> QED
    BY <2>1, <2>3 DEF Replaced
<1>22. a = Len(FlattenSeq(SubSeq(p, 1, j)))
  <2>1. Batched(J, UpdateIds) /\ j \in DOMAIN J /\ s = J[j].stream /\ J[j].response # NoReply
    BY <1>2, <1>4, <1>5
  <2>2. Number(J, j) = Len(FlattenSeq(SubSeq(ConfirmedParts(J, s), 1, j)))
    BY ONLY <2>1, Numbered
  <2> QED
    BY <1>1, <1>16, <2>2
<1>23. \A t : /\ WaitingOf(t) = FlattenSeq(OpenParts(J, t))
              /\ AnswersOf(t) = FlattenSeq(AnswerParts(J, t))
              /\ ConfirmedOf(t) = FlattenSeq(ConfirmedParts(J, t))
              /\ ReadOf(t) = FlattenSeq(ReadParts(J, M, t))
  BY <1>1, <1>2, Mapped
<1>24. \A t : /\ WaitingOf(t)' = FlattenSeq(OpenParts(K, t))
              /\ AnswersOf(t)' = FlattenSeq(AnswerParts(K, t))
              /\ ConfirmedOf(t)' = FlattenSeq(ConfirmedParts(K, t))
  BY <1>1, <1>2, MappedNext
<1>25. \A t : ReadOf(t)' = ReadOf(t)
  <2>1. \A k \in DOMAIN J : K[k].stream = J[k].stream
    BY <1>10 DEF SameConversation
  <2>2. \A k \in DOMAIN J : \A t : AnswerPart(K[k], t) = AnswerPart(J[k], t)
    BY <1>10 DEF SameConversation, AnswerPart, Answers
  <2>3. \A i \in DOMAIN J : \A k \in 1 .. i : k \in DOMAIN J
    BY <1>2
  <2>4. \A i \in DOMAIN J : J[i].response # NoReply =>
          \A k \in 1 .. i : AnswerPart(K[k], J[i].stream) = AnswerPart(J[k], J[i].stream)
    BY <2>2, <2>3
  <2> QED
    BY <1>1, <1>3, <2>1, <2>4, ReadUnchanged
<1>26. \E i \in DOMAIN ReadOf(s) : ReadOf(s)[i] = <<a, c>>
  <2>1. PICK m \in DOMAIN M : M[m].job = j /\ M[m].chunk = c
    BY <1>1, <1>8 DEF Copies
  <2>2. Shows(J, M) /\ DOMAIN M = 1 .. Len(M)
    BY <1>1, ShownPieces
  <2>3. PICK P, x, v : P = Nat \X Nat /\ x = <<a, c>> /\ v = ReadParts(J, M, s)
    OBVIOUS
  <2>4. x \in P
    BY <1>4, <2>3
  <2>5. v \in Seq(Seq(P)) /\ Len(v) = Len(M) /\ \A i \in 1 .. Len(M) : v[i] = ReadRow(J, M[i], s)
    BY <1>2, <2>2, <2>3, ReadTyped
  <2>6. m \in 1 .. Len(v) /\ v[m] = <<x>>
    BY <1>1, <1>5, <2>1, <2>2, <2>3, <2>5 DEF ReadRow
  <2>7. v \in Seq(Seq(P)) /\ m \in 1 .. Len(v) /\ x \in P /\ v[m] = <<x>>
    BY <2>4, <2>5, <2>6
  <2>8. /\ Len(FlattenSeq(SubSeq(v, 1, m))) \in 1 .. Len(FlattenSeq(v))
        /\ FlattenSeq(v)[Len(FlattenSeq(SubSeq(v, 1, m)))] = x
    BY ONLY <2>7, FlattenUnit
  <2>9. DOMAIN FlattenSeq(v) = 1 .. Len(FlattenSeq(v))
    BY <2>5, FlattenTyped, LenProperties
  <2> QED
    BY <1>23, <2>3, <2>8, <2>9
<1>27. ConfirmedOf(s)[a] + 1 = c
  BY <1>4, <1>6
<1>28. ConfirmedOf(s)' = [ConfirmedOf(s) EXCEPT ![a] = c]
  BY <1>14, <1>16, <1>21, <1>22, <1>23, <1>24
<1> QED
  BY <1>12, <1>13, <1>23, <1>24, <1>25, <1>26, <1>27, <1>28

\* A claimed chunk is pending: nothing that counts as delivered changes.
LEMMA ClaimPromise ==
  ASSUME GatewayInv, NEW j \in DOMAIN jobs, DeliverClaim(j)
  PROVE  SameParts(jobs, jobs')
<1>1. PICK c \in DOMAIN ClaimChunks(j) : ClaimDelivery(j, c)
  BY DEF DeliverClaim
<1>2. /\ OnlyJob(j) /\ SameBatch(j)
      /\ jobs'[j].response = jobs[j].response
      /\ DOMAIN jobs'[j].chunks = DOMAIN ClaimChunks(j)
      /\ jobs'[j].chunks[c].status = "sending"
      /\ \A d \in DOMAIN ClaimChunks(j) \ {c} : jobs'[j].chunks[d] = ClaimChunks(j)[d]
  BY <1>1, ClaimedChunk
<1>3. ClaimChunks(j)[c].status = "pending"
  BY <1>1 DEF ClaimDelivery
<1>4. \/ /\ DOMAIN jobs[j].chunks = {}
         /\ \A d \in DOMAIN ClaimChunks(j) : ClaimChunks(j)[d].status = "pending"
      \/ ClaimChunks(j) = jobs[j].chunks
  BY EmptyDomain DEF ClaimChunks, PendingChunks
<1>5. \A d \in DOMAIN ClaimChunks(j) :
        jobs'[j].chunks[d].status = "delivered" <=> ClaimChunks(j)[d].status = "delivered"
  BY <1>2, <1>3
<1>6. Delivered(jobs'[j]) = Delivered(jobs[j])
  BY <1>2, <1>4, <1>5 DEF Delivered
<1> QED
  BY <1>2, <1>6 DEF OnlyJob, SameBatch, SameParts, SameConversation

\* Neither does a recovery change what is delivered.
LEMMA StartPromise ==
  ASSUME GatewayInv, Start
  PROVE  SameParts(jobs, jobs')
<1>1. RecoverJobs /\ DOMAIN jobs' = DOMAIN jobs
  BY DEF Start, RecoverJobs
<1>2. ASSUME NEW j \in DOMAIN jobs
      PROVE  SameConversation(jobs[j], jobs'[j]) /\ Delivered(jobs'[j]) = Delivered(jobs[j])
  <2>1. /\ SameBatch(j) /\ jobs'[j].response = jobs[j].response
        /\ DOMAIN jobs'[j].chunks = DOMAIN jobs[j].chunks
        /\ \A c \in DOMAIN jobs[j].chunks : jobs'[j].chunks[c] = RecoveredChunk(jobs[j].chunks[c])
    BY <1>1, RecoveredJob
  <2>2. ASSUME NEW c \in DOMAIN jobs[j].chunks
        PROVE  RecoveredChunk(jobs[j].chunks[c]).status = "delivered" <=> jobs[j].chunks[c].status = "delivered"
    <3>1. jobs[j].chunks \in Seq(Chunk)
      BY JobsTyped DEF GatewayInv, StoreInv, Job
    <3>2. jobs[j].chunks[c] \in Chunk
      BY <3>1, ElementOfSeq, LenProperties
    <3> QED
      BY <3>2 DEF RecoveredChunk, Chunk
  <2>3. Delivered(jobs'[j]) = Delivered(jobs[j])
    BY <2>1, <2>2 DEF Delivered
  <2> QED
    BY <2>1, <2>3 DEF SameBatch, SameConversation
<1> QED
  BY <1>1, <1>2 DEF SameParts

\* Every step of the gateway, by what it does to the promise.
LEMMA PromiseSteps ==
  ASSUME GatewayInv, [Next]_vars
  PROVE  \/ SameParts(jobs, jobs') /\ shown' = shown
         \/ \E u \in UpdateIds : Stores(u) /\ shown' = shown
         \/ \E r \in Replies : Saves(r) /\ shown' = shown
         \/ Marks
         \/ jobs' = jobs /\ delivery.pc = "claimed" /\ Show(delivery)
<1>1. CASE jobs' = jobs
  <2>1. SameParts(jobs, jobs')
    BY <1>1 DEF SameParts, SameConversation
  <2>2. shown' = shown \/ (delivery.pc = "claimed" /\ Show(delivery))
    BY DeliverySteps DEF DeliverClaim, DeliverSend, DeliverSendFails, DeliverMark, Start, Crash
  <2> QED
    BY <1>1, <2>1, <2>2
<1>2. ASSUME NEW u \in UpdateIds, Stores(u)
      PROVE  shown' = shown
  BY <1>2 DEF Stores, PollAccept, Ingested
<1>3. ASSUME NEW j \in DOMAIN jobs, GenClaim(j) \/ Debounce(j)
      PROVE  SameParts(jobs, jobs') /\ shown' = shown
  <2>1. shown' = shown
    BY <1>3 DEF GenClaim, Debounce, vars
  <2>2. /\ OnlyJob(j) /\ SameBatch(j)
        /\ jobs'[j].response = jobs[j].response /\ jobs'[j].chunks = jobs[j].chunks
    BY <1>3, StatedJob DEF GenClaim, Debounce
  <2> QED
    BY <2>1, <2>2 DEF OnlyJob, SameBatch, SameParts, SameConversation, Delivered
<1>4. ASSUME NEW r \in Replies, Saves(r)
      PROVE  shown' = shown
  BY <1>4 DEF Saves, GenReply
<1>5. ASSUME NEW j \in DOMAIN jobs, DeliverClaim(j)
      PROVE  SameParts(jobs, jobs') /\ shown' = shown
  BY <1>5, ClaimPromise DEF DeliverClaim
<1>6. Start => SameParts(jobs, jobs') /\ shown' = shown
  BY StartPromise DEF Start
<1> QED
  BY <1>1, <1>2, <1>3, <1>4, <1>5, <1>6, StoreSteps

-----------------------------------------------------------------------------
(* The gateway keeps the promise                                           *)

\* What waits or is answered came before a new update.
LEMMA TakenBefore ==
  ASSUME GatewayInv, PollOrdered, NEW u \in UpdateIds, NextPolled(u), NEW s \in Streams
  PROVE  \A v \in Promise!Taken(s) : v < u
<1>1. PICK V : V = {v \in UpdateIds : v < u}
  OBVIOUS
<1>2. Batched(jobs, V) /\ DOMAIN jobs = 1 .. Len(jobs)
  <2>1. Batched(jobs, UpdateIds) /\ DOMAIN jobs = 1 .. Len(jobs)
    BY JobsBatched
  <2>2. ASSUME NEW j \in DOMAIN jobs
        PROVE  jobs[j].batch \in Seq(V)
    <3>1. PICK b : b = jobs[j].batch
      OBVIOUS
    <3>2. b \in Seq(UpdateIds)
      BY <2>1, <3>1 DEF Batched
    <3>3. \A i \in DOMAIN b : inbox[b[i]] # "absent"
      BY <3>1 DEF GatewayInv, StoreInv, BatchesStored
    <3>4. DOMAIN b = 1 .. Len(b) /\ Len(b) \in Nat /\ \A i \in 1 .. Len(b) : b[i] \in UpdateIds
      BY <3>2, LenProperties, ElementOfSeq
    <3>5. \A i \in 1 .. Len(b) : b[i] \in V
      BY <1>1, <3>3, <3>4, NewUpdateIsLast
    <3>6. b = [i \in 1 .. Len(b) |-> b[i]]
      BY <3>2, <3>4
    <3> QED
      BY <3>1, <3>4, <3>5, <3>6
  <2> QED
    BY <2>1, <2>2 DEF Batched
<1>3. WaitingOf(s) \in Seq(V) /\ AnswersOf(s) \in Seq(AnswerRow(V))
  BY <1>2, Mapped, PartsTyped, FlattenTyped
<1>4. \A q \in Seq(V) : \A i \in DOMAIN q : q[i] \in V
  BY LenProperties, ElementOfSeq
<1>5. \A i \in DOMAIN AnswersOf(s) : AnswersOf(s)[i].batch \in Seq(V)
  <2>1. PICK w : w = AnswersOf(s)
    OBVIOUS
  <2>2. \A i \in DOMAIN w : w[i] \in AnswerRow(V)
    BY <1>3, <2>1, LenProperties, ElementOfSeq
  <2> QED
    BY <2>1, <2>2 DEF AnswerRow
<1>6. \A v \in Promise!Taken(s) : v \in V
  BY <1>3, <1>4, <1>5 DEF Promise!Taken, Promise!Elements
<1> QED
  BY <1>1, <1>6

LEMMA AcceptKept ==
  ASSUME GatewayInv, GatewayInv', PollOrdered, ShownInv, NEW u \in UpdateIds, Stores(u), shown' = shown
  PROVE  Promise!PromiseNext
<1>1. PICK s \in Streams : s = allowed
  BY DEF GatewayInv, TypeOK
<1>2. PICK j \in Nat, n \in Nat : Joined(u, s, j, n)
  <2>1. (updates[u].kind = "image") \in BOOLEAN
    OBVIOUS
  <2> QED
    BY <1>1, <2>1, StoredUpdate DEF Stores
<1>3. /\ WaitingOf(s)' = Append(WaitingOf(s), u)
      /\ \A t : t # s => WaitingOf(t)' = WaitingOf(t)
      /\ \A t : /\ AnswersOf(t)' = AnswersOf(t)
                /\ ConfirmedOf(t)' = ConfirmedOf(t)
                /\ ReadOf(t)' = ReadOf(t)
  BY <1>2, AcceptedUpdate
<1>4. \A v \in Promise!Taken(s) : v < u
  BY TakenBefore DEF Stores
<1>5. Promise!Accept(s, u)
  BY <1>3, <1>4 DEF Promise!Accept
<1> QED
  BY <1>5 DEF Promise!PromiseNext

LEMMA AnswerKept ==
  ASSUME GatewayInv, GatewayInv', ShownInv, NEW r \in Replies, Saves(r), shown' = shown
  PROVE  Promise!PromiseNext
<1>1. PICK j \in DOMAIN jobs : j = gen.job /\ jobs[j].status # "queued"
  BY HeldWork DEF Saves, GenReply
<1>2. /\ OnlyJob(j) /\ SameBatch(j)
      /\ jobs[j].response = NoReply /\ jobs'[j].response = r
      /\ jobs'[j].chunks = jobs[j].chunks
  BY <1>1, SavedAnswer DEF Saves, GenReply
<1>3. PICK s, b : s = jobs[j].stream /\ b = jobs[j].batch
  OBVIOUS
<1>4. s \in Streams
  <2>1. jobs[j] \in Job
    BY JobsTyped DEF GatewayInv, StoreInv
  <2> QED
    BY <1>3, <2>1 DEF Job
<1>5. /\ Len(b) \in 1 .. Len(WaitingOf(s))
      /\ WaitingOf(s)' = SubSeq(WaitingOf(s), Len(b) + 1, Len(WaitingOf(s)))
      /\ SubSeq(WaitingOf(s), 1, Len(b)) = b
      /\ AnswersOf(s)' = Append(AnswersOf(s), AnswerTo(b, r))
      /\ ConfirmedOf(s)' = Append(ConfirmedOf(s), 0)
      /\ \A t : t # s => /\ WaitingOf(t)' = WaitingOf(t)
                         /\ AnswersOf(t)' = AnswersOf(t)
                         /\ ConfirmedOf(t)' = ConfirmedOf(t)
      /\ \A t : ReadOf(t)' = ReadOf(t)
  <2>1. GatewayInv /\ GatewayInv' /\ ShownInv /\ shown' = shown /\ Answering(j, r, s, b)
    BY <1>1, <1>2, <1>3 DEF Answering
  <2> QED
    BY ONLY <2>1, SavedPromise
<1>6. PICK n : n = Len(b)
  OBVIOUS
<1>7. Promise!Answer(s, n, r)
  BY <1>4, <1>5, <1>6 DEF Promise!Answer, AnswerTo
<1>8. n \in 1 .. Len([t \in Streams |-> WaitingOf(t)][s])
  BY <1>4, <1>5, <1>6
<1> QED
  BY <1>4, <1>7, <1>8 DEF Promise!PromiseNext

LEMMA ShowKept ==
  ASSUME GatewayInv, GatewayInv', ShownInv, jobs' = jobs, delivery.pc = "claimed", Show(delivery)
  PROVE  Promise!PromiseNext
<1>1. PICK j, s, a : j = delivery.job /\ s = jobs[j].stream /\ a = Number(jobs, j)
  <2>1. PICK j : j = delivery.job
    OBVIOUS
  <2>2. PICK s, a : s = jobs[j].stream /\ a = Number(jobs, j)
    OBVIOUS
  <2> QED
    BY <2>1, <2>2
<1>2. /\ j \in DOMAIN jobs /\ a \in DOMAIN AnswersOf(s)
      /\ ConfirmedOf(s)[a] < ChunkCount[AnswersOf(s)[a].reply]
  BY <1>1, HeldAnswer
<1>3. s \in Streams
  <2>1. jobs[j] \in Job
    BY <1>2, JobsTyped DEF GatewayInv, StoreInv
  <2> QED
    BY <1>1, <2>1 DEF Job
<1>4. /\ ReadOf(s)' = Append(ReadOf(s), <<a, ConfirmedOf(s)[a] + 1>>)
      /\ \A t : t # s => ReadOf(t)' = ReadOf(t)
      /\ \A t : /\ WaitingOf(t)' = WaitingOf(t)
                /\ AnswersOf(t)' = AnswersOf(t)
                /\ ConfirmedOf(t)' = ConfirmedOf(t)
  BY <1>1, ShownPromise
<1>5. Promise!Show(s, a)
  BY <1>2, <1>3, <1>4 DEF Promise!Show, Promise!Unconfirmed
<1>6. a \in DOMAIN [t \in Streams |-> AnswersOf(t)][s]
  BY <1>2, <1>3
<1> QED
  BY <1>3, <1>5, <1>6 DEF Promise!PromiseNext

LEMMA ConfirmKept ==
  ASSUME GatewayInv, GatewayInv', ShownInv, Marks
  PROVE  Promise!PromiseNext
<1>0. delivery.pc # "idle"
  BY DEF Marks, DeliverMark
<1>1. PICK j, s, a : j = delivery.job /\ s = jobs[j].stream /\ a = Number(jobs, j)
  <2>1. PICK j : j = delivery.job
    OBVIOUS
  <2>2. PICK s, a : s = jobs[j].stream /\ a = Number(jobs, j)
    OBVIOUS
  <2> QED
    BY <2>1, <2>2
<1>2. j \in DOMAIN jobs /\ a \in DOMAIN AnswersOf(s)
  BY <1>0, <1>1, HeldAnswer
<1>3. s \in Streams
  <2>1. jobs[j] \in Job
    BY <1>2, JobsTyped DEF GatewayInv, StoreInv
  <2> QED
    BY <1>1, <2>1 DEF Job
<1>4. /\ \E i \in DOMAIN ReadOf(s) : ReadOf(s)[i] = <<a, ConfirmedOf(s)[a] + 1>>
      /\ ConfirmedOf(s)' = [ConfirmedOf(s) EXCEPT ![a] = ConfirmedOf(s)[a] + 1]
      /\ \A t : t # s => ConfirmedOf(t)' = ConfirmedOf(t)
      /\ \A t : /\ WaitingOf(t)' = WaitingOf(t)
                /\ AnswersOf(t)' = AnswersOf(t)
                /\ ReadOf(t)' = ReadOf(t)
  BY <1>1, ConfirmedPromise
<1>5. Promise!Confirm(s, a)
  BY <1>2, <1>3, <1>4 DEF Promise!Confirm, Promise!Elements
<1>6. a \in DOMAIN [t \in Streams |-> AnswersOf(t)][s]
  BY <1>2, <1>3
<1> QED
  BY <1>3, <1>5, <1>6 DEF Promise!PromiseNext

LEMMA QuietKept ==
  ASSUME GatewayInv, GatewayInv', ShownInv, SameParts(jobs, jobs'), shown' = shown
  PROVE  UNCHANGED Promise!vars
<1>1. \A t : /\ WaitingOf(t)' = WaitingOf(t)
             /\ AnswersOf(t)' = AnswersOf(t)
             /\ ConfirmedOf(t)' = ConfirmedOf(t)
             /\ ReadOf(t)' = ReadOf(t)
  BY QuietPromise DEF Unmoved
<1> QED
  BY <1>1 DEF Promise!vars

\* Whatever crashes, failed calls, late media and interleavings of the three
\* loops do, each stream's conversation is one the promise allows: the gateway
\* implements TelegramPromise.
THEOREM GatewayKeepsPromise == Spec => PromiseKept
<1>1. Init => Promise!PromiseInit
  <2> SUFFICES ASSUME Init PROVE Promise!PromiseInit
    OBVIOUS
  <2>1. jobs = << >> /\ shown = << >> /\ DOMAIN jobs = {} /\ DOMAIN shown = {} /\ DOMAIN jobs = 1 .. Len(jobs)
    BY DEF Init, StoreInit
  <2>2. \A s : /\ OpenParts(jobs, s) = << >> /\ AnswerParts(jobs, s) = << >>
               /\ ConfirmedParts(jobs, s) = << >> /\ ReadParts(jobs, shown, s) = << >>
    BY <2>1 DEF OpenParts, AnswerParts, ConfirmedParts, ReadParts
  <2>3. \A s : /\ WaitingOf(s) = << >> /\ AnswersOf(s) = << >>
               /\ ConfirmedOf(s) = << >> /\ ReadOf(s) = << >>
    BY <2>1, <2>2, Mapped, FlattenEmpty
  <2> QED
    BY <2>3 DEF Promise!PromiseInit
<1>2. HistoryInv /\ HistoryInv' /\ [Next]_vars => [Promise!PromiseNext]_(Promise!vars)
  <2> SUFFICES ASSUME HistoryInv, HistoryInv', [Next]_vars
               PROVE  Promise!PromiseNext \/ UNCHANGED Promise!vars
    OBVIOUS
  <2>1. GatewayInv /\ PollOrdered /\ ShownInv /\ GatewayInv'
    BY DEF HistoryInv
  <2> QED
    BY <2>1, PromiseSteps, AcceptKept, AnswerKept, ShowKept, ConfirmKept, QuietKept
<1> QED
  BY <1>1, <1>2, HistoryInvariant, PTL DEF Spec, PromiseKept, Promise!PromiseSpec
=============================================================================
