-------------------------- MODULE TelegramRefinement --------------------------
(***************************************************************************)
(* The gateway implements TelegramPromise.  A stream's waiting messages    *)
(* are the batches of its unanswered jobs and its answers those of its     *)
(* answered jobs, both in job order; confirmed pieces are the delivered    *)
(* chunks.  Claims, restarts, failures and media map to stuttering.        *)
(***************************************************************************)
EXTENDS TelegramGateway, SequencesExt

\* What a job contributes to its stream: messages that wait, an answer, how
\* far the answer is confirmed.
Answers(job, s) == job.stream = s /\ job.response # NoReply

OpenPart(job, s) == IF job.stream = s /\ job.response = NoReply THEN job.batch ELSE << >>

AnswerPart(job, s) ==
  IF Answers(job, s) THEN <<[batch |-> job.batch, reply |-> job.response]>> ELSE << >>

Delivered(job) == {c \in DOMAIN job.chunks : job.chunks[c].status = "delivered"}

ConfirmedPart(job, s) == IF Answers(job, s) THEN <<Cardinality(Delivered(job))>> ELSE << >>

WaitingOf(s) == FlattenSeq([j \in DOMAIN jobs |-> OpenPart(jobs[j], s)])

AnswersThrough(s, n) == FlattenSeq([j \in 1 .. n |-> AnswerPart(jobs[j], s)])
AnswersOf(s) == AnswersThrough(s, Len(jobs))

ConfirmedOf(s) == FlattenSeq([j \in DOMAIN jobs |-> ConfirmedPart(jobs[j], s)])

\* The place of job j among the answers of its stream.
AnswerNumber(j) == Len(AnswersThrough(jobs[j].stream, j))

ReadPart(m, s) ==
  IF jobs[m.job].stream = s THEN <<<<AnswerNumber(m.job), m.chunk>>>> ELSE << >>

ReadOf(s) == FlattenSeq([m \in DOMAIN shown |-> ReadPart(shown[m], s)])

Promise == INSTANCE TelegramPromise WITH
  waiting   <- [s \in Streams |-> WaitingOf(s)],
  answers   <- [s \in Streams |-> AnswersOf(s)],
  confirmed <- [s \in Streams |-> ConfirmedOf(s)],
  read      <- [s \in Streams |-> ReadOf(s)]

\* Whatever crashes, failed calls, late media and interleavings of the three
\* loops do, each stream's conversation is one TelegramPromise allows: all
\* that is accepted is answered in order, once, with a final answer whose
\* pieces arrive in order.
PromiseKept == Promise!PromiseSpec
=============================================================================
