------------------------- MODULE TelegramCheckpoints -------------------------
(***************************************************************************)
(* Context compaction checkpoints (telegram_compaction_checkpoints) and    *)
(* the prompt projection they are made for: build_generation_context,      *)
(* claim_next_compaction, complete_compaction, fail_compaction.            *)
(*                                                                         *)
(* A transcript entry costs one token: the budgets below count entries.    *)
(* The payload of a checkpoint is not modelled, only whether the model's   *)
(* answer is valid.                                                        *)
(***************************************************************************)
EXTENDS TelegramStore, FiniteSets

CONSTANTS
  CompactionEnabled,   \* TELEGRAM_COMPACTION_ENABLED
  TriggerEntries,      \* TELEGRAM_COMPACTION_TRIGGER_TOKEN_THRESHOLD
  TailReserve,         \* TELEGRAM_COMPACTION_EXACT_TAIL_RESERVE
  MinEntries,          \* TELEGRAM_COMPACTION_MIN_ENTRIES
  TailBudget           \* TELEGRAM_EXACT_TAIL_TOKEN_BUDGET

\* load_telegram_gateway_config accepts any positive integers, in any order.
ASSUME CheckpointAssumption ==
  /\ CompactionEnabled \in BOOLEAN
  /\ {TriggerEntries, TailReserve, MinEntries, TailBudget} \subseteq Nat \ {0}

VARIABLE checkpoints   \* telegram_compaction_checkpoints

dbVars == <<offset, inbox, jobs, transcript, checkpoints>>

CheckpointStatus == {"pending", "active", "superseded", "failed"}

\* digest is the content source_digest hashes: the covered entries.  The
\* covered range starts at the first entry of the stream.
CheckpointsTypeOK ==
  /\ StoreTypeOK
  /\ DOMAIN checkpoints = 1 .. Len(checkpoints)
  /\ \A c \in DOMAIN checkpoints :
       /\ DOMAIN checkpoints[c] = {"stream", "end", "digest", "status"}
       /\ checkpoints[c].stream \in Streams
       /\ checkpoints[c].end \in DOMAIN transcript
       /\ checkpoints[c].status \in CheckpointStatus

Rows(s) == {i \in DOMAIN transcript : transcript[i].stream = s}
RowsThrough(s, e) == {i \in Rows(s) : i <= e}
RowDigest(rows) == [i \in rows |-> transcript[i]]

-----------------------------------------------------------------------------
(* The prompt                                                              *)

\* The active checkpoint's coverage, 0 when the stream has none.
CoveredEnd(s) ==
  IF \E c \in DOMAIN checkpoints : checkpoints[c].stream = s /\ checkpoints[c].status = "active"
  THEN checkpoints[CHOOSE c \in DOMAIN checkpoints :
                     checkpoints[c].stream = s /\ checkpoints[c].status = "active"].end
  ELSE 0

CurrentRows(j) == {i \in Rows(jobs[j].stream) :
                     transcript[i].role = "user" /\ transcript[i].update \in BatchSet(j)}

\* A piece of the answer of job j was confirmed under message id m.
ConfirmedAs(j, m) ==
  \E c \in DOMAIN jobs[j].chunks : jobs[j].chunks[c] = [status |-> "delivered", mid |-> m]

\* Row i is the message a user replied to, or the answer a confirmed piece of
\* which they replied to.
IsTarget(i, reply) ==
  \/ /\ reply.of = "update"
     /\ transcript[i].role = "user" /\ transcript[i].update = reply.id
  \/ /\ reply.of = "piece"
     /\ transcript[i].role = "assistant"
     /\ \E j \in DOMAIN jobs : /\ jobs[j].batch[1] = transcript[i].update
                              /\ ConfirmedAs(j, reply.id)

\* The rows of the stream, however old, that messages of the batch reply to.
References(j) == {i \in Rows(jobs[j].stream) :
                    \E k \in CurrentRows(j) : IsTarget(i, transcript[k].reply)}

\* Mutant: the context is everything the stream has.
OrdinaryRowsAll(j) == {i \in Rows(jobs[j].stream) \ (CurrentRows(j) \cup References(j)) :
                         i > CoveredEnd(jobs[j].stream)}

\* Rows up to the last update of the batch, after the checkpoint.
OrdinaryRows(j) == {i \in Rows(jobs[j].stream) \ (CurrentRows(j) \cup References(j)) :
                      /\ \E u \in BatchSet(j) : transcript[i].update <= u
                      /\ i > CoveredEnd(jobs[j].stream)}

\* The newest ordinary rows that fit beside the batch and its references, then
\* the batch.
ContextRows(j) ==
  LET fixed    == Cardinality(CurrentRows(j)) + Cardinality(References(j))
      ordinary == OrdinaryRows(j)
  IN  CurrentRows(j) \cup {i \in ordinary :
        Cardinality({k \in ordinary : k >= i}) + fixed <= TailBudget}

\* What build_generation_context returns for job j.
GenerationContext(j) == [covered    |-> CoveredEnd(jobs[j].stream),
                         rows       |-> ContextRows(j),
                         references |-> References(j) \ CurrentRows(j)]

-----------------------------------------------------------------------------
(* The life of a checkpoint                                                *)

\* Mutant: an entry counts towards the tail behind it.
CompactionPrefixOneMore(s) ==
  IF Cardinality(Rows(s)) < TailReserve
  THEN Rows(s)
  ELSE {i \in Rows(s) : Cardinality({k \in Rows(s) : k >= i}) >= TailReserve}

\* Everything before the newest TailReserve entries, and everything when
\* there are fewer.
CompactionPrefix(s) ==
  IF Cardinality(Rows(s)) < TailReserve
  THEN Rows(s)
  ELSE {i \in Rows(s) : Cardinality({k \in Rows(s) : k > i}) >= TailReserve}

\* Mutant: only queued jobs hold compaction back.
CompactableStreamBeside(s) ==
  /\ Rows(s) # {}
  /\ ~ \E j \in DOMAIN jobs : jobs[j].stream = s /\ jobs[j].status = "queued"
  /\ ~ \E c \in DOMAIN checkpoints : checkpoints[c].stream = s /\ checkpoints[c].status = "pending"

CompactableStream(s) ==
  /\ Rows(s) # {}
  /\ ~ \E j \in DOMAIN jobs : jobs[j].stream = s /\ jobs[j].status \in {"queued", "processing"}
  /\ ~ \E c \in DOMAIN checkpoints : checkpoints[c].stream = s /\ checkpoints[c].status = "pending"

\* Streams are numbered in the order of their first entries.
OlderStream(s, t) == \E i \in Rows(s) : \A k \in Rows(t) : i <= k

\* The stream claim_next_compaction looks at is long enough, up to row e.
CompactionDue(s, e) ==
  /\ CompactionEnabled
  /\ CompactableStream(s)
  /\ \A t \in Streams : CompactableStream(t) => OlderStream(s, t)
  /\ Cardinality(Rows(s)) >= TriggerEntries
  /\ Cardinality(CompactionPrefix(s)) >= MinEntries
  /\ e \in CompactionPrefix(s) /\ \A i \in CompactionPrefix(s) : i <= e

NewFrontier(s, e) ==
  \A b \in DOMAIN checkpoints : ~(checkpoints[b].stream = s /\ checkpoints[b].end = e)

FailedFrontier(s, e, c) ==
  checkpoints[c].stream = s /\ checkpoints[c].end = e /\ checkpoints[c].status = "failed"

\* claim_next_compaction leaves checkpoint c pending: a new row, or the
\* failed one at the same frontier.  A frontier that is already active or
\* superseded claims nothing.
ClaimCompaction(c) ==
  /\ \E s \in Streams : \E e \in CompactionPrefix(s) :
       LET row == [stream |-> s, end |-> e, status |-> "pending",
                   digest |-> RowDigest(CompactionPrefix(s))]
       IN  /\ CompactionDue(s, e)
           /\ \/ /\ NewFrontier(s, e)
                 /\ c = Len(checkpoints) + 1
                 /\ checkpoints' = Append(checkpoints, row)
              \/ /\ c \in DOMAIN checkpoints
                 /\ FailedFrontier(s, e, c)
                 /\ checkpoints' = [checkpoints EXCEPT ![c] = row]
  /\ UNCHANGED storeVars

\* claim_next_compaction returns None.
NothingToCompact ==
  \A s \in Streams : \A e \in CompactionPrefix(s) : CompactionDue(s, e) =>
    /\ ~NewFrontier(s, e)
    /\ \A c \in DOMAIN checkpoints : ~FailedFrontier(s, e, c)

\* complete_compaction with a valid payload: the old active checkpoint is
\* superseded in the transaction that activates the new one.
CompleteCompaction(c) ==
  LET s == checkpoints[c].stream IN
  /\ checkpoints[c].status = "pending"
  /\ RowDigest(RowsThrough(s, checkpoints[c].end)) = checkpoints[c].digest
  /\ checkpoints' = [b \in DOMAIN checkpoints |->
        CASE b = c -> [checkpoints[b] EXCEPT !.status = "active"]
          [] checkpoints[b].stream = s /\ checkpoints[b].status = "active"
               -> [checkpoints[b] EXCEPT !.status = "superseded"]
          [] OTHER -> checkpoints[b]]
  /\ UNCHANGED storeVars

\* fail_compaction
FailCompaction(c) ==
  /\ checkpoints[c].status = "pending"
  /\ checkpoints' = [checkpoints EXCEPT ![c].status = "failed"]
  /\ UNCHANGED storeVars

\* Mutant: startup fails the active checkpoint too.
RecoverCheckpointsAll ==
  checkpoints' = [c \in DOMAIN checkpoints |-> [checkpoints[c] EXCEPT !.status = "failed"]]

\* recover_incomplete_jobs, the part that is about checkpoints.
RecoverCheckpoints ==
  checkpoints' = [c \in DOMAIN checkpoints |->
                    IF checkpoints[c].status = "pending"
                    THEN [checkpoints[c] EXCEPT !.status = "failed"]
                    ELSE checkpoints[c]]
=============================================================================
