--------------------------- MODULE TelegramPromise ---------------------------
(***************************************************************************)
(* What the Telegram gateway promises the people it talks to, without      *)
(* jobs, loops, restarts or errors.  In every stream, messages are         *)
(* accepted in order; an answer takes the oldest waiting messages, as many *)
(* as it likes, and is final; the pieces of an answer are shown in order,  *)
(* the next one only after the last is confirmed, an unconfirmed one       *)
(* possibly again.                                                         *)
(***************************************************************************)
EXTENDS Naturals, Sequences

CONSTANTS
  Streams,
  UpdateIds,
  Replies,
  ChunkCount

VARIABLES
  waiting,     \* per stream, the accepted messages without an answer
  answers,     \* per stream, the answers: what they answer, with what
  confirmed,   \* per stream and answer, how many pieces are confirmed
  read         \* per stream, the pieces shown: <<answer, piece>>

vars == <<waiting, answers, confirmed, read>>

PromiseInit ==
  /\ waiting = [s \in Streams |-> << >>]
  /\ answers = [s \in Streams |-> << >>]
  /\ confirmed = [s \in Streams |-> << >>]
  /\ read = [s \in Streams |-> << >>]

Elements(q) == {q[i] : i \in DOMAIN q}

Taken(s) == Elements(waiting[s])
            \cup UNION {Elements(answer.batch) : answer \in Elements(answers[s])}

Accept(s, u) ==
  /\ \A v \in Taken(s) : v < u
  /\ waiting' = [waiting EXCEPT ![s] = Append(@, u)]
  /\ UNCHANGED <<answers, confirmed, read>>

Answer(s, n, r) ==
  /\ n \in 1 .. Len(waiting[s])
  /\ answers' = [answers EXCEPT ![s] =
                   Append(@, [batch |-> SubSeq(waiting[s], 1, n), reply |-> r])]
  /\ waiting' = [waiting EXCEPT ![s] = SubSeq(@, n + 1, Len(@))]
  /\ confirmed' = [confirmed EXCEPT ![s] = Append(@, 0)]
  /\ UNCHANGED read

Unconfirmed(s, a) == confirmed[s][a] < ChunkCount[answers[s][a].reply]

Show(s, a) ==
  /\ Unconfirmed(s, a)
  /\ read' = [read EXCEPT ![s] = Append(@, <<a, confirmed[s][a] + 1>>)]
  /\ UNCHANGED <<waiting, answers, confirmed>>

Confirm(s, a) ==
  /\ <<a, confirmed[s][a] + 1>> \in Elements(read[s])
  /\ confirmed' = [confirmed EXCEPT ![s][a] = @ + 1]
  /\ UNCHANGED <<waiting, answers, read>>

PromiseNext ==
  \E s \in Streams :
    \/ \E u \in UpdateIds : Accept(s, u)
    \/ \E n \in 1 .. Len(waiting[s]), r \in Replies : Answer(s, n, r)
    \/ \E a \in DOMAIN answers[s] : Show(s, a) \/ Confirm(s, a)

PromiseSpec == PromiseInit /\ [][PromiseNext]_vars
=============================================================================
