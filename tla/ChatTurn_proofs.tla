--------------------------- MODULE ChatTurn_proofs ---------------------------
(***************************************************************************)
(* The speculative stream by itself, and the turn that drives it.          *)
(*                                                                         *)
(* The stream, for a queue of any capacity and any chunks: the inductive   *)
(* invariant StreamInv, and from it the promises of the class.             *)
(*                                                                         *)
(* The turn, for any requests, tools, settings and lengths of an answer:   *)
(*  - TurnInv: in which phases of the handler a speculation may exist,     *)
(*    that nothing has been shown, returned or remembered while the turn   *)
(*    is open, and that whoever turns to another way of answering has      *)
(*    ended the producer first; hence a speculated answer and the          *)
(*    planner's decision exclude each other;                               *)
(*  - CallsInv: the calls returned, by induction over the proposals that   *)
(*    ValidateCalls folds;                                                 *)
(*  - MarkupInv: what a continuation has sent, and the beginning of a      *)
(*    marker it holds back;                                                *)
(*  - SpeechInv: that what a speculation has read fits its events, so that *)
(*    the turn implements the stream;                                      *)
(*  - AnswerInv: what the generation has said of its text so far           *)
(*    (GeneratorTells), and that the memory task was given what was said.  *)
(***************************************************************************)
EXTENDS ChatTurn, FoldLemmas, SequenceTheorems, FiniteSetTheorems, TLAPS

\* The sentinel is the last thing put, and nobody waits behind it.
EndIsLast ==
  /\ \A i \in 1..Len(queue) : queue[i] = End => i = Len(queue)
  /\ producer \in {"none", "pulling", "putting"} => queue \in Seq(Chunks)

\* Only a released response is read, and a released stream has its gate open.
ReadersReleased ==
  /\ consumer # "none" => gate
  /\ delivered # <<>> => consumer # "none"
  /\ completed => gate

StreamInv ==
  /\ StreamTypeOK /\ QueueBounded /\ EndIsLast /\ ReadersReleased /\ DeliveredInOrder

-----------------------------------------------------------------------------
\* Each step keeps the types: every variable is assigned from its own domain.
LEMMA StreamTypesStep == StreamTypeOK /\ [StreamNext]_streamVars => StreamTypeOK'
<1> SUFFICES ASSUME StreamTypeOK, [StreamNext]_streamVars PROVE StreamTypeOK'
  OBVIOUS
<1> USE DEF StreamTypeOK, ProducerStates, ConsumerStates
<1>1. CASE StartStream BY <1>1 DEF StartStream
<1>2. CASE Put BY <1>2 DEF Put
<1>3. ASSUME NEW c \in Chunks, Pull(c) /\ UNCHANGED completed PROVE StreamTypeOK'
  BY <1>3 DEF Pull
<1>4. ASSUME NEW c \in Chunks, PullPastGate(c) PROVE StreamTypeOK'
  BY <1>4 DEF PullPastGate, Pull
<1>5. ASSUME NEW error \in BOOLEAN, Exhaust(error) PROVE StreamTypeOK'
  BY <1>5 DEF Exhaust
<1>6. CASE CancelStream BY <1>6 DEF CancelStream
<1>7. CASE ReleaseStream BY <1>7 DEF ReleaseStream
<1>8. CASE OpenResponse BY <1>8 DEF OpenResponse
<1>9. CASE Consume
  <2>1. Head(queue) \in Chunks \cup {End} /\ Tail(queue) \in Seq(Chunks \cup {End})
    BY <1>9, HeadTailProperties DEF Consume
  <2>2. CASE Head(queue) = End
    BY <1>9, <2>1, <2>2 DEF Consume
  <2>3. CASE Head(queue) # End
    <3>1. Append(delivered, Head(queue)) \in Seq(Chunks) BY <2>1, <2>3
    <3> QED BY <1>9, <2>1, <2>3, <3>1 DEF Consume
  <2> QED BY <2>2, <2>3
<1>10. CASE CloseResponse BY <1>10 DEF CloseResponse, Stopped
<1>11. CASE UNCHANGED streamVars BY <1>11 DEF streamVars
<1> QED BY <1>1, <1>2, <1>3, <1>4, <1>5, <1>6, <1>7, <1>8, <1>9, <1>10, <1>11 DEF StreamNext

\* Only Put lengthens the queue, and it waits for room.
LEMMA QueueBoundedStep ==
  StreamTypeOK /\ QueueBounded /\ [StreamNext]_streamVars => QueueBounded'
<1> SUFFICES ASSUME StreamTypeOK, QueueBounded, [StreamNext]_streamVars PROVE QueueBounded'
  OBVIOUS
<1> USE StreamAssumption DEF StreamTypeOK, QueueBounded
<1>1. CASE Put BY <1>1 DEF Put
<1>2. CASE Consume
  <2>1. Len(Tail(queue)) = Len(queue) - 1 /\ Len(queue) \in Nat
    BY <1>2, HeadTailProperties DEF Consume
  <2> QED BY <1>2, <2>1 DEF Consume
<1>3. CASE UNCHANGED queue BY <1>3
<1>4. Put \/ Consume \/ UNCHANGED queue
  BY DEF StreamNext, streamVars, StartStream, Pull, PullPastGate, Exhaust, CancelStream,
         ReleaseStream, OpenResponse, CloseResponse
<1> QED BY <1>1, <1>2, <1>3, <1>4

\* What is only the last of a sequence is only the last of its tail.
LEMMA LastOfTail ==
  ASSUME NEW S, NEW q \in Seq(S), q # <<>>, NEW e,
         \A i \in 1..Len(q) : q[i] = e => i = Len(q)
  PROVE \A i \in 1..Len(Tail(q)) : Tail(q)[i] = e => i = Len(Tail(q))
<1> DEFINE t == Tail(q)
<1>1. Len(q) \in Nat BY LenProperties
<1>2. Len(t) = Len(q) - 1 /\ \A i \in 1..Len(t) : t[i] = q[i + 1]
  BY HeadTailProperties
<1> HIDE DEF t
<1>3. ASSUME NEW i \in 1..Len(t), t[i] = e PROVE i = Len(t)
  <2>1. i + 1 \in 1..Len(q) BY <1>1, <1>2
  <2>2. q[i + 1] = e BY <1>2, <1>3
  <2>3. i + 1 = Len(q) BY <2>1, <2>2
  <2> QED BY <1>1, <1>2, <2>3
<1> QED BY <1>3 DEF t

\* The sentinel enters the queue once, and its producer never runs again.
LEMMA EndIsLastStep ==
  StreamTypeOK /\ EndIsLast /\ [StreamNext]_streamVars => EndIsLast'
<1> SUFFICES ASSUME StreamTypeOK, EndIsLast, [StreamNext]_streamVars PROVE EndIsLast'
  OBVIOUS
<1> USE StreamAssumption DEF StreamTypeOK, EndIsLast
<1>1. CASE Put
  <2>1. queue \in Seq(Chunks) /\ \A i \in 1..Len(queue) : queue[i] # End
    BY <1>1, ElementOfSeq DEF Put
  <2>2. queue' = Append(queue, held) /\ Len(queue') = Len(queue) + 1
    BY <1>1 DEF Put
  <2>3. \A i \in 1..Len(queue) : queue'[i] = queue[i]
    BY <2>2
  <2>4. held # End => queue' \in Seq(Chunks)
    BY <2>1, <2>2
  <2>5. held = End => producer' = "done"
    BY <1>1 DEF Put
  <2>6. \A i \in 1..Len(queue') : queue'[i] = End => i = Len(queue')
    BY <2>1, <2>2, <2>3
  <2> QED BY <2>4, <2>5, <2>6
<1>2. CASE Consume
  <2>1. queue # <<>> /\ queue' = Tail(queue) /\ producer' = producer BY <1>2 DEF Consume
  <2>2. queue \in Seq(Chunks) => queue' \in Seq(Chunks) BY <2>1, HeadTailProperties
  <2>3. \A i \in 1..Len(queue') : queue'[i] = End => i = Len(queue') BY <2>1, LastOfTail
  <2> QED BY <2>1, <2>2, <2>3
<1>3. CASE UNCHANGED queue /\ (producer' \in {"none", "pulling", "putting"}
                                 => producer \in {"none", "pulling", "putting"})
  BY <1>3
<1>4. \/ Put \/ Consume
      \/ UNCHANGED queue /\ (producer' \in {"none", "pulling", "putting"}
                               => producer \in {"none", "pulling", "putting"})
  BY DEF StreamNext, streamVars, StartStream, Pull, PullPastGate, Exhaust, CancelStream,
         ReleaseStream, OpenResponse, CloseResponse, Stopped
<1> QED BY <1>1, <1>2, <1>3, <1>4

\* The gate stays open once a response is released.
LEMMA ReadersReleasedStep ==
  StreamTypeOK /\ ReadersReleased /\ [StreamNext]_streamVars => ReadersReleased'
<1> USE DEF StreamTypeOK, ReadersReleased
<1>1. CASE StreamNext
  BY <1>1 DEF StreamNext, StartStream, Pull, PullPastGate, Exhaust, Put, CancelStream,
     ReleaseStream, OpenResponse, Consume, CloseResponse
<1>2. CASE UNCHANGED streamVars BY <1>2 DEF streamVars
<1> QED BY <1>1, <1>2

-----------------------------------------------------------------------------
\* What waits is the queue without its sentinel, which can only be its last.
WaitingIn(q) == IF q # <<>> /\ q[Len(q)] = End THEN SubSeq(q, 1, Len(q) - 1) ELSE q

LEMMA WaitingIsSeq ==
  ASSUME NEW q \in Seq(Chunks \cup {End}), \A i \in 1..Len(q) : q[i] = End => i = Len(q)
  PROVE WaitingIn(q) \in Seq(Chunks)
<1>0. Len(q) \in Nat BY LenProperties
<1>1. CASE q # <<>> /\ q[Len(q)] = End
  <2>1. \A i \in 1..(Len(q) - 1) : q[i] \in Chunks
    <3> SUFFICES ASSUME NEW i \in 1..(Len(q) - 1) PROVE q[i] \in Chunks
      OBVIOUS
    <3>1. i \in 1..Len(q) /\ i # Len(q) BY <1>0
    <3>2. q[i] \in Chunks \cup {End} BY <3>1, ElementOfSeq
    <3> QED BY <3>1, <3>2
  <2>2. Len(q) - 1 \in Int /\ 1 \in Int BY <1>0
  <2>3. SubSeq(q, 1, Len(q) - 1) \in Seq(Chunks)
    BY <2>1, <2>2, SubSeqProperties, Zenon
  <2> QED BY <1>1, <2>3 DEF WaitingIn
<1>2. CASE ~(q # <<>> /\ q[Len(q)] = End)
  <2>1. \A i \in 1..Len(q) : q[i] \in Chunks
    <3> SUFFICES ASSUME NEW i \in 1..Len(q) PROVE q[i] \in Chunks
      OBVIOUS
    <3>1. q # <<>> BY <1>0
    <3>2. q[i] # End BY <1>2, <3>1
    <3>3. q[i] \in Chunks \cup {End} BY ElementOfSeq
    <3> QED BY <3>2, <3>3
  <2>2. Len(q) \in Int /\ 1 \in Int BY <1>0
  <2>3. SubSeq(q, 1, Len(q)) \in Seq(Chunks)
    BY <2>1, <2>2, SubSeqProperties, Zenon
  <2> QED BY <1>2, <2>3, SubSeqFull DEF WaitingIn
<1> QED BY <1>1, <1>2

\* A queue without a sentinel waits whole.
LEMMA WaitingWhole ==
  ASSUME NEW q, q \in Seq(Chunks), queue = q PROVE Waiting = q
<1>1. q # <<>> => q[Len(q)] \in Chunks BY EmptySeq, ElementOfSeq
<1> QED BY <1>1, StreamAssumption DEF Waiting

\* Putting keeps the order: a chunk goes to the end of what waits, the
\* sentinel adds nothing to it.
LEMMA PutKeepsOrder ==
  StreamTypeOK /\ EndIsLast /\ DeliveredInOrder /\ Put => DeliveredInOrder'
<1> SUFFICES ASSUME StreamTypeOK, EndIsLast, DeliveredInOrder, Put PROVE DeliveredInOrder'
  OBVIOUS
<1> USE DEF StreamTypeOK, EndIsLast
<1>1. queue \in Seq(Chunks) /\ queue' = Append(queue, held) BY DEF Put
<1>2. Waiting = queue BY <1>1, WaitingWhole
<1>3. producer' # "putting" /\ producer = "putting" BY DEF Put
<1>4. Putting' = <<>> BY <1>3 DEF Putting
<1>5. produced = delivered \o queue \o Putting BY <1>2, <1>3 DEF DeliveredInOrder
<1>6. produced' = produced /\ delivered' = delivered BY DEF Put
<1>7. CASE held = End
  <2>1. Putting = <<>> BY <1>7 DEF Putting
  <2>2. /\ queue' # <<>> /\ queue'[Len(queue')] = End
        /\ SubSeq(queue', 1, Len(queue') - 1) = queue
    BY <1>1, <1>7
  <2>3. Waiting' = queue BY <2>2 DEF Waiting
  <2> QED BY <1>4, <1>5, <1>6, <2>1, <2>3 DEF DeliveredInOrder
<1>8. CASE held # End
  <2>1. Putting = <<held>> /\ held \in Chunks BY <1>3, <1>8 DEF Putting
  <2>2. queue' \in Seq(Chunks) /\ queue' = queue \o <<held>> BY <1>1, <2>1
  <2>3. Waiting' = queue'
    <3>1. queue' # <<>> /\ queue'[Len(queue')] = held BY <1>1
    <3> QED BY <3>1, <1>8 DEF Waiting
  <2>4. (delivered \o queue) \o <<held>> = delivered \o (queue \o <<held>>)
    BY <1>1, <2>1, ConcatAssociative, <<held>> \in Seq(Chunks)
  <2>5. delivered \o queue' \in Seq(Chunks) BY <2>2, ConcatProperties
  <2>6. (delivered \o queue') \o <<>> = delivered \o queue' BY <2>5, ConcatEmptySeq
  <2> QED BY <1>4, <1>5, <1>6, <2>1, <2>2, <2>3, <2>4, <2>6 DEF DeliveredInOrder
<1> QED BY <1>7, <1>8

\* The head of a sequence stays at the front of what precedes its last element.
LEMMA HeadIsFirst ==
  ASSUME NEW S, NEW q \in Seq(S), q # <<>>, Len(q) >= 2
  PROVE SubSeq(q, 1, Len(q) - 1) = <<q[1]>> \o SubSeq(q, 2, Len(q) - 1)
<1> DEFINE n == Len(q) - 1
<1>1. Len(q) \in Nat BY LenProperties
<1>2. 1 \in 1..Len(q) /\ n \in 1..Len(q) BY <1>1
<1> HIDE DEF n
<1>3. SubSeq(q, 1, n) = <<q[1]>> \o SubSeq(q, 1 + 1, n) BY <1>2, SubSeqRecursiveFirst
<1> QED BY <1>3 DEF n

\* Moving the head of what follows to the end of what precedes changes nothing.
LEMMA HeadMoves ==
  ASSUME NEW S, NEW s \in Seq(S), NEW e \in S, NEW t \in Seq(S)
  PROVE s \o (<<e>> \o t) = (s \o <<e>>) \o t
<1>1. <<e>> \in Seq(S) OBVIOUS
<1> QED BY <1>1, ConcatAssociative

\* Reading keeps the order: the head of the queue moves behind what was sent.
LEMMA ConsumeKeepsOrder ==
  StreamTypeOK /\ EndIsLast /\ DeliveredInOrder /\ Consume => DeliveredInOrder'
<1> SUFFICES ASSUME StreamTypeOK, EndIsLast, DeliveredInOrder, Consume,
                    producer' # "cancelled"
             PROVE produced' = delivered' \o Waiting' \o Putting'
  BY DEF DeliveredInOrder
<1> USE DEF StreamTypeOK
<1>1. Putting' = Putting /\ Putting \in Seq(Chunks) BY DEF Consume, Putting
<1>2. produced' = produced /\ produced = delivered \o Waiting \o Putting
  BY DEF Consume, DeliveredInOrder
<1>3. queue # <<>> /\ queue' = Tail(queue) BY DEF Consume
<1>4. Len(queue) \in Nat \ {0} BY <1>3, EmptySeq
<1>5. Head(queue) = queue[1] BY <1>3
<1>6. CASE Head(queue) = End
  <2>1. Len(queue) = 1
    <3>1. 1 \in 1..Len(queue) BY <1>4
    <3> QED BY <1>5, <1>6, <3>1 DEF EndIsLast
  <2>2. queue' = <<>> BY <1>3, <2>1
  <2>3. Waiting' = <<>> BY <2>2 DEF Waiting
  <2>4. Waiting = <<>>
    <3>1. SubSeq(queue, 1, 0) = <<>> BY SubSeqEmpty
    <3> QED BY <1>3, <1>5, <1>6, <2>1, <3>1 DEF Waiting
  <2>5. delivered' = delivered BY <1>6 DEF Consume
  <2> QED BY <1>1, <1>2, <2>3, <2>4, <2>5
<1>7. CASE Head(queue) # End
  <2> DEFINE c == Head(queue)
  <2>1. c \in Chunks BY <1>3, <1>7, HeadTailProperties
  <2>2. delivered' = delivered \o <<c>>
    <3>1. delivered' = Append(delivered, c) BY <1>7 DEF Consume
    <3> QED BY <2>1, <3>1, AppendIsConcat
  <2>3. EndIsLast' BY EndIsLastStep DEF StreamNext
  <2>4. StreamTypeOK' BY StreamTypesStep DEF StreamNext
  <2>5. Waiting' \in Seq(Chunks) /\ Waiting \in Seq(Chunks)
    BY <2>3, <2>4, WaitingIsSeq DEF EndIsLast, Waiting, WaitingIn
  <2>6. Waiting = <<c>> \o Waiting'
    <3>1. CASE queue[Len(queue)] = End
      <4>1. Len(queue) >= 2 BY <1>4, <1>5, <1>7, <3>1
      <4>2. /\ queue' \in Seq(Chunks \cup {End}) /\ Len(queue') = Len(queue) - 1
            /\ \A i \in 1..Len(queue') : queue'[i] = queue[i + 1]
        BY <1>3, HeadTailProperties
      <4>3. queue'[Len(queue')] = End /\ queue' # <<>> BY <3>1, <4>1, <4>2
      <4>4. Waiting' = SubSeq(queue', 1, Len(queue) - 2) BY <4>2, <4>3 DEF Waiting
      <4>5. Waiting = SubSeq(queue, 1, Len(queue) - 1) BY <1>3, <3>1 DEF Waiting
      <4>6. queue = <<c>> \o queue' BY <1>3
      <4>7. SubSeq(queue, 1, Len(queue) - 1) = <<c>> \o SubSeq(queue, 2, Len(queue) - 1)
        BY <1>3, <1>5, <4>1, HeadIsFirst
      <4>8. SubSeq(queue', 1, Len(queue) - 2) = SubSeq(queue, 2, Len(queue) - 1)
        BY <1>3, <4>1, <4>2
      <4> QED BY <4>4, <4>5, <4>7, <4>8
    <3>2. CASE queue[Len(queue)] # End
      <4>1. Waiting = queue BY <3>2 DEF Waiting
      <4>2. Waiting' = queue'
        <5>1. queue' # <<>> => queue'[Len(queue')] = queue[Len(queue)]
          BY <1>3, <1>4, HeadTailProperties, EmptySeq
        <5> QED BY <3>2, <5>1 DEF Waiting
      <4>3. queue = <<c>> \o queue' BY <1>3
      <4> QED BY <4>1, <4>2, <4>3
    <3> QED BY <3>1, <3>2
  <2>7. delivered \o (<<c>> \o Waiting') = (delivered \o <<c>>) \o Waiting'
    BY SMTT(20), <2>1, <2>5, HeadMoves
  <2> QED BY <1>1, <1>2, <2>2, <2>6, <2>7
<1> QED BY <1>6, <1>7

\* Nothing else touches what is sent, and only the body adds to what it yielded.
LEMMA DeliveredInOrderStep ==
  StreamTypeOK /\ EndIsLast /\ DeliveredInOrder /\ [StreamNext]_streamVars => DeliveredInOrder'
<1> SUFFICES ASSUME StreamTypeOK, EndIsLast, DeliveredInOrder, [StreamNext]_streamVars
             PROVE DeliveredInOrder'
  OBVIOUS
<1> USE DEF StreamTypeOK
<1>1. CASE \E c \in Chunks : Pull(c)
  <2>1. PICK c \in Chunks : Pull(c) BY <1>1
  <2>2. /\ Putting = <<>> /\ Putting' = <<c>> /\ Waiting' = Waiting
        /\ delivered' = delivered /\ produced' = produced \o <<c>>
        /\ produced = delivered \o Waiting \o Putting
    BY <2>1, StreamAssumption DEF Pull, Putting, Waiting, DeliveredInOrder
  <2>3. delivered \o Waiting \in Seq(Chunks)
    BY WaitingIsSeq, ConcatProperties DEF EndIsLast, Waiting, WaitingIn
  <2>4. (delivered \o Waiting) \o <<>> = delivered \o Waiting BY <2>3, ConcatEmptySeq
  <2> QED BY <2>2, <2>4 DEF DeliveredInOrder
<1>2. CASE Put BY <1>2, PutKeepsOrder
<1>3. CASE Consume BY <1>3, ConsumeKeepsOrder
<1>4. CASE /\ UNCHANGED <<queue, produced, delivered>> /\ producer # "cancelled"
           /\ Putting' = Putting
  BY <1>4 DEF DeliveredInOrder, Waiting
<1>5. CASE producer' = "cancelled" BY <1>5 DEF DeliveredInOrder
<1>6. CASE \E error \in BOOLEAN : Exhaust(error) BY <1>4, <1>6 DEF Exhaust, Putting
<1>7. CASE StartStream BY <1>4, <1>7 DEF StartStream, Putting
<1>8. CASE /\ UNCHANGED <<queue, produced, delivered, producer, held>>
  BY <1>4, <1>5, <1>8 DEF Putting
<1>9. CASE CloseResponse BY <1>5, <1>8, <1>9 DEF CloseResponse, Stopped
<1>10. CASE CancelStream BY <1>5, <1>10 DEF CancelStream
<1>11. CASE ReleaseStream BY <1>8, <1>11 DEF ReleaseStream
<1>12. CASE OpenResponse BY <1>8, <1>12 DEF OpenResponse
<1>13. CASE UNCHANGED streamVars BY <1>8, <1>13 DEF streamVars
<1> QED
  BY <1>1, <1>2, <1>3, <1>6, <1>7, <1>9, <1>10, <1>11, <1>12, <1>13
     DEF StreamNext, PullPastGate

-----------------------------------------------------------------------------
\* The whole invariant holds of the fresh stream and every step keeps it.
THEOREM StreamInvariant == StreamSpec => []StreamInv
<1>1. StreamInit => StreamInv
  <2> SUFFICES ASSUME StreamInit PROVE StreamInv
    OBVIOUS
  <2> USE StreamAssumption DEF StreamInit
  <2>1. StreamTypeOK
    <3>1. <<>> \in Seq(Chunks) /\ <<>> \in Seq(Chunks \cup {End}) BY EmptySeq
    <3> QED BY <3>1, Zenon DEF StreamTypeOK, ProducerStates, ConsumerStates
  <2>2. QueueBounded /\ ReadersReleased
    BY DEF QueueBounded, ReadersReleased
  <2>3. EndIsLast BY DEF EndIsLast
  <2>4. Waiting = <<>> /\ Putting = <<>> BY DEF Waiting, Putting
  <2>5. DeliveredInOrder BY <2>4 DEF DeliveredInOrder
  <2> QED BY <2>1, <2>2, <2>3, <2>5 DEF StreamInv
<1>2. StreamInv /\ [StreamNext]_streamVars => StreamInv'
  BY StreamTypesStep, QueueBoundedStep, EndIsLastStep, ReadersReleasedStep,
     DeliveredInOrderStep DEF StreamInv
<1> QED BY <1>1, <1>2, PTL DEF StreamSpec

\* However long the planner takes, no more chunks wait than the queue holds.
THEOREM StreamQueueBounded == StreamSpec => []QueueBounded
<1>1. StreamInv => QueueBounded BY DEF StreamInv
<1> QED BY <1>1, StreamInvariant, PTL

\* Nothing is shown, and no side effect of completion happens, before the release.
THEOREM StreamNothingBeforeRelease == StreamSpec => []NothingBeforeRelease
<1>1. StreamInv => NothingBeforeRelease
  BY DEF StreamInv, ReadersReleased, NothingBeforeRelease
<1> QED BY <1>1, StreamInvariant, PTL

\* The client gets the body's chunks in the body's order, with none missing.
THEOREM StreamDeliveredInOrder == StreamSpec => []DeliveredInOrder
<1>1. StreamInv => DeliveredInOrder BY DEF StreamInv
<1> QED BY <1>1, StreamInvariant, PTL

-----------------------------------------------------------------------------
\* The phases in which the turn is open: the client has been given nothing.
Open == {"received", "loading", "passing", "thinking", "looping", "looped", "collecting",
         "native", "starting", "planning", "deciding", "final"}

\* The phases of a turn with a speculation.
Speculating == {"starting", "planning", "released", "serving", "answered", "left", "failed", "lost"}

Phases == Open \cup Ended \cup {"live", "released", "serving"}

Runs == producer \in {"pulling", "putting", "done"}

Fields == DOMAIN NoGen

TurnInv ==
  /\ phase \in Phases /\ producer \in ProducerStates /\ consumer \in ConsumerStates
  /\ DOMAIN gen = Fields /\ gen.spec \in BOOLEAN
  /\ phase \in Open => ~gate /\ shown = <<>> /\ calls = <<>> /\ remembered = <<>>
  /\ gen.spec =>
       /\ phase \in Speculating
       /\ body.stream /\ ~turn.rag /\ body.choice # "required"
       /\ ~gate => shown = <<>> /\ remembered = <<>>
  /\ Runs => gen.spec
  /\ calls # <<>> => phase = "answered" /\ ~Runs
  /\ consumer # "none" => gate
  /\ phase \in {"released", "serving"} => gen.spec /\ gate

-----------------------------------------------------------------------------
(* The generator's own steps                                               *)

SpecKept == gen'.spec = gen.spec /\ DOMAIN gen' = DOMAIN gen

\* What a step of generate() may do: of a speculation, give the producer an
\* event and, past the gate, remember; of a live answer, send and remember.
GeneratorStep ==
  /\ SpecKept /\ UNCHANGED <<handlerVars, gate, consumer>>
  /\ \/ /\ gen.spec /\ producer = "pulling" /\ producer' \in {"pulling", "putting"}
        /\ UNCHANGED shown
        /\ gate \/ UNCHANGED remembered
     \/ ~gen.spec /\ phase = "live" /\ UNCHANGED producer

LEMMA FieldNames ==
  /\ Fields = {"mode", "thinking", "spec", "stage", "pieces", "thoughts", "pending", "settled",
               "text", "sent", "streamed", "guard", "refused"}
  /\ \A mode, thinking : \A spec \in BOOLEAN :
       LET g == NewGen(mode, thinking, spec) IN DOMAIN g = Fields /\ g.spec = spec
<1>1. Fields = {"mode", "thinking", "spec", "stage", "pieces", "thoughts", "pending", "settled",
               "text", "sent", "streamed", "guard", "refused"}
  BY DEF Fields, NoGen
<1>2. ASSUME NEW mode, NEW thinking, NEW spec \in BOOLEAN
      PROVE  LET g == NewGen(mode, thinking, spec) IN DOMAIN g = Fields /\ g.spec = spec
  BY <1>1 DEF NewGen, Fields
<1> QED BY <1>1, <1>2

\* An event leaves the generator as one of the two kinds of steps.
LEMMA YieldStep ==
  ASSUME TurnInv, Running, NEW c, Yield(c) \/ Quiet,
         SpecKept, UNCHANGED <<handlerVars, remembered>>
  PROVE  GeneratorStep
BY DEF TurnInv, Running, Yield, Quiet, Pull, GeneratorStep, streamVars

\* Every step of the generator is one of the two kinds.
LEMMA GenerateSteps ==
  ASSUME TurnInv, Generate
  PROVE  GeneratorStep \/ ReturnLive
<1> USE FieldNames DEF TurnInv
<1>1. ASSUME NEW piece, HoldPiece(piece) PROVE GeneratorStep
  BY <1>1, YieldStep DEF HoldPiece, MorePieces, Reading, SpecKept
<1>2. ASSUME NEW piece, BlockMarkup(piece) PROVE GeneratorStep
  BY <1>2, YieldStep DEF BlockMarkup, MorePieces, Reading, SpecKept, Read
<1>3. ASSUME NEW piece, StopLoop(piece) PROVE GeneratorStep
  BY <1>3, YieldStep DEF StopLoop, MorePieces, Reading, SpecKept, Read
<1>4. ASSUME NEW piece, EmitPiece(piece) PROVE GeneratorStep
  <2>1. SpecKept /\ Running /\ UNCHANGED <<handlerVars, remembered>>
    BY <1>4 DEF EmitPiece, MorePieces, Reading, SpecKept, Read
  <2>2. \E c : Yield(c) \/ Quiet BY <1>4 DEF EmitPiece
  <2> QED BY <2>1, <2>2, YieldStep
<1>5. ASSUME NEW loops, EmitReasoning(loops) PROVE GeneratorStep
  <2>1. SpecKept /\ Running /\ UNCHANGED <<handlerVars, remembered>>
    BY <1>5 DEF EmitReasoning, Reading, SpecKept
  <2>2. Yield(<<>>) \/ Quiet BY <1>5 DEF EmitReasoning
  <2> QED BY <2>1, <2>2, YieldStep
<1>6. ASSUME BlockCalls PROVE GeneratorStep
  BY <1>6, YieldStep DEF BlockCalls, Reading, SpecKept
<1>7. ASSUME BackendFails PROVE GeneratorStep
  BY <1>7, YieldStep DEF BackendFails, Reading, SpecKept
<1>8. ASSUME BackendDone PROVE GeneratorStep
  BY <1>8, YieldStep DEF BackendDone, Reading, SpecKept
<1>9. ASSUME NEW text, NEW proposes, JsonAnswer(text, proposes) PROVE GeneratorStep
  BY <1>9, YieldStep DEF JsonAnswer, Reading, SpecKept
<1>10. ASSUME Conclude PROVE GeneratorStep
  <2>1. SpecKept /\ Running /\ UNCHANGED <<handlerVars, remembered>>
    BY <1>10 DEF Conclude, SpecKept
  <2>2. \E c : Yield(c) \/ Quiet BY <1>10 DEF Conclude
  <2> QED BY <2>1, <2>2, YieldStep
<1>11. ASSUME PassGate PROVE GeneratorStep
  <2>1. SpecKept /\ Running /\ UNCHANGED handlerVars BY <1>11 DEF PassGate, SpecKept
  <2>2. CASE gen.spec
    <3>1. gate /\ \E c : Pull(c) /\ UNCHANGED shown BY <1>11, <2>2 DEF PassGate, PullPastGate
    <3> QED BY <2>1, <2>2, <3>1 DEF GeneratorStep, Pull, Running
  <2>3. CASE ~gen.spec
    <3>1. UNCHANGED streamVars BY <1>11, <2>3 DEF PassGate
    <3> QED BY <2>1, <2>3, <3>1 DEF GeneratorStep, Running, streamVars
  <2> QED BY <2>2, <2>3
<1>12. ASSUME SendTerminal PROVE GeneratorStep
  BY <1>12, YieldStep DEF SendTerminal, SpecKept
<1>13. ASSUME ReturnSpeculative PROVE GeneratorStep
  BY <1>13 DEF ReturnSpeculative, Exhaust, GeneratorStep, SpecKept
<1> QED
  BY <1>1, <1>2, <1>3, <1>4, <1>5, <1>6, <1>7, <1>8, <1>9, <1>10, <1>11, <1>12, <1>13
  DEF Generate

LEMMA GeneratorKeepsInv ==
  ASSUME TurnInv, GeneratorStep
  PROVE  TurnInv'
<1> USE DEF TurnInv
<1>1. /\ UNCHANGED <<phase, body, turn, calls, gate, consumer>>
      /\ gen'.spec = gen.spec /\ DOMAIN gen' = DOMAIN gen
  BY DEF GeneratorStep, SpecKept, handlerVars
<1>2. CASE gen.spec
  <2>1. /\ producer = "pulling" /\ producer' \in {"pulling", "putting"}
        /\ UNCHANGED shown
        /\ gate \/ UNCHANGED remembered
    BY <1>2 DEF GeneratorStep
  <2>2. calls = <<>> BY <2>1 DEF Runs
  <2> QED BY <1>1, <1>2, <2>1, <2>2 DEF Runs, ProducerStates
<1>3. CASE ~gen.spec
  <2>1. phase = "live" /\ UNCHANGED producer BY <1>3 DEF GeneratorStep
  <2> QED BY <1>1, <1>3, <2>1 DEF Runs, Open
<1> QED BY <1>2, <1>3

-----------------------------------------------------------------------------
(* The handler's steps                                                     *)

\* From an open phase to another, or to an end, nothing of the stream moving.
LEMMA RoutingKeepsInv ==
  ASSUME TurnInv, ~gen.spec, phase \in Open, UNCHANGED <<streamVars, gen>>,
         phase' \in (Open \ {"starting"}) \cup {"failed", "left"},
         UNCHANGED <<shown, calls, remembered>>
  PROVE  TurnInv'
BY DEF TurnInv, streamVars, Runs, Open, Phases, Speculating, Ended

\* The turn is answered without a speculation.
LEMMA AnswerKeepsInv ==
  ASSUME TurnInv, ~gen.spec, phase \in Open, UNCHANGED <<streamVars, gen>>, phase' = "answered"
  PROVE  TurnInv'
BY DEF TurnInv, streamVars, Runs, Open, Phases, Ended

\* A live answer begins when nothing speculates any more.
LEMMA LiveKeepsInv ==
  ASSUME TurnInv, phase \in Open, NEW mode, NEW thinking, gen' = NewGen(mode, thinking, FALSE),
         phase' = "live", UNCHANGED <<calls, consumer, gate>>, ~Runs', producer' \in ProducerStates
  PROVE  TurnInv'
<1>1. DOMAIN gen' = Fields /\ gen'.spec = FALSE BY FieldNames
<1> QED BY <1>1 DEF TurnInv, Runs, Open, Phases

\* The handler answers in another way: what speculated is cancelled.
LEMMA CancelledRuns ==
  ASSUME TurnInv, CancelSpeculation
  PROVE  ~Runs' /\ producer' \in ProducerStates /\ UNCHANGED <<consumer, gate>>
BY DEF TurnInv, CancelSpeculation, CancelStream, Runs, streamVars, ProducerStates

\* What the router may say.
LEMMA ResultDecisions ==
  ASSUME NEW result \in RouteResults(body)
  PROVE  result.decision \in {"ERROR", "TOOL", "NO_TOOL"}
<1>1. RoutingError.decision = "ERROR" BY DEF RoutingError
<1>2. ASSUME NEW name, NEW r \in ArgumentResults(name) PROVE r.decision \in {"ERROR", "TOOL"}
  <2>1. r = RoutingError \/ r = [decision |-> "TOOL", mode |-> "", tool |-> name]
    BY <1>2 DEF ArgumentResults
  <2>2. CASE r = RoutingError BY <1>1, <2>2
  <2>3. CASE r = [decision |-> "TOOL", mode |-> "", tool |-> name] BY <2>3
  <2> QED BY <2>1, <2>2, <2>3
<1>3. CASE result = RoutingError BY <1>1, <1>3
<1>4. CASE \E s : result = s /\ s.decision = "NO_TOOL" BY <1>4
<1>5. CASE \E name : result \in ArgumentResults(name) BY <1>2, <1>5
<1>6. \/ result = RoutingError
      \/ \E s : result = s /\ s.decision = "NO_TOOL"
      \/ \E name : result \in ArgumentResults(name)
  <2> DEFINE Of(s) == IF s.decision = "NO_TOOL" THEN {s}
                      ELSE IF s.tool \in body.tools THEN ArgumentResults(s.tool) ELSE {}
             selected == IF ForcedTool(body.choice) = "absent" THEN Selections(body)
                         ELSE {[decision |-> "TOOL", mode |-> "", tool |-> ForcedTool(body.choice)]}
  <2>1. result \in {RoutingError} \cup UNION {Of(s) : s \in selected}
    BY DEF RouteResults
  <2>2. result = RoutingError \/ \E s \in selected : result \in Of(s)
    <3> HIDE DEF Of, selected
    <3> QED BY <2>1
  <2> QED BY <2>2
<1> QED BY <1>3, <1>4, <1>5, <1>6

\* Planning comes from an open phase and a speculation only from planning.
LEMMA HandleKeepsInv ==
  ASSUME TurnInv, Handle
  PROVE  TurnInv'
<1> USE DEF TurnInv
<1>1. \A q \in Open \ {"starting", "planning"} : phase = q => ~gen.spec
  BY DEF Open, Speculating
<1>2. CASE Receive
  BY <1>1, <1>2, RoutingKeepsInv DEF Receive, Open
<1>3. CASE LoadContext
  BY <1>1, <1>3, RoutingKeepsInv DEF LoadContext, Open
<1>4. ASSUME NEW text, NEW list, PassThrough(text, list) PROVE TurnInv'
  BY <1>1, <1>4, AnswerKeepsInv DEF PassThrough, Open
<1>5. ASSUME NEW mode, ChooseThinking(mode) PROVE TurnInv'
  <2>1. phase = "thinking" /\ ~gen.spec /\ UNCHANGED <<streamVars, calls, shown, remembered>>
    BY <1>1, <1>5 DEF ChooseThinking, Open
  <2>2. CASE phase' = "live" /\ \E thinks : gen' = NewGen("main", thinks, FALSE)
    <3>1. PICK thinks : gen' = NewGen("main", thinks, FALSE) BY <2>2
    <3>2. UNCHANGED <<calls, consumer, gate, producer>> /\ ~Runs' /\ phase \in Open
      BY <2>1 DEF streamVars, Runs, Open
    <3> QED BY <2>2, <3>1, <3>2, LiveKeepsInv
  <2>3. CASE phase' \in {"looping", "collecting"} /\ UNCHANGED gen
    BY <2>1, <2>3, RoutingKeepsInv DEF Open
  <2>4. \/ phase' = "live" /\ \E thinks : gen' = NewGen("main", thinks, FALSE)
        \/ phase' \in {"looping", "collecting"} /\ UNCHANGED gen
    BY <1>5 DEF ChooseThinking
  <2> QED BY <2>2, <2>3, <2>4
<1>6. ASSUME NEW b, Collect(b) PROVE TurnInv'
  BY <1>1, <1>6, AnswerKeepsInv DEF Collect, Collected, Open
<1>7. ASSUME NEW b, FinalBuffered(b) PROVE TurnInv'
  BY <1>1, <1>7, AnswerKeepsInv DEF FinalBuffered, Collected, Open
<1>8. ASSUME NEW requested, LoopDecision(requested) PROVE TurnInv'
  BY <1>1, <1>8, RoutingKeepsInv DEF LoopDecision, Open
<1>9. ASSUME NEW b, NEW succeeded, LoopFinal(b, succeeded) PROVE TurnInv'
  <2>1. phase = "looped" /\ UNCHANGED <<streamVars, gen>> /\ phase' = "answered"
    BY <1>9 DEF LoopFinal, Collected
  <2> QED BY <1>1, <2>1, AnswerKeepsInv DEF Open
<1>10. CASE ContinueLive
  <2>1. phase = "native" /\ ~gen.spec /\ UNCHANGED <<streamVars, calls>>
    BY <1>1, <1>10 DEF ContinueLive, Open
  <2>2. phase' = "live" /\ \E mode, thinks : gen' = NewGen(mode, thinks, FALSE)
    BY <1>10 DEF ContinueLive
  <2>3. PICK mode, thinks : gen' = NewGen(mode, thinks, FALSE) BY <2>2
  <2>4. UNCHANGED <<calls, consumer, gate, producer>> /\ ~Runs' /\ phase \in Open
    BY <2>1 DEF streamVars, Runs, Open
  <2> QED BY <2>2, <2>3, <2>4, LiveKeepsInv
<1>11. CASE AnswerDirective
  BY <1>1, <1>11, AnswerKeepsInv DEF AnswerDirective, Open
<1>12. CASE FollowDirective
  BY <1>1, <1>12, RoutingKeepsInv DEF FollowDirective, Open
<1>13. ASSUME \E mode : NoToolFinal(mode), phase \in Open, ~gen.spec,
              UNCHANGED <<streamVars, shown, calls, remembered>>
       PROVE  TurnInv'
  <2>1. CASE phase' = "final" /\ UNCHANGED gen
    BY <1>13, <2>1, RoutingKeepsInv DEF Open
  <2>2. CASE phase' = "live" /\ \E thinks : gen' = NewGen("main", thinks, FALSE)
    <3>1. PICK thinks : gen' = NewGen("main", thinks, FALSE) BY <2>2
    <3>2. UNCHANGED <<calls, consumer, gate, producer>> /\ ~Runs' BY <1>13 DEF streamVars, Runs
    <3> QED BY <1>13, <2>2, <3>1, <3>2, LiveKeepsInv
  <2> QED BY <1>13, <2>1, <2>2 DEF NoToolFinal
<1>14. CASE AnswerWithoutTools
  <2>1. \E mode : NoToolFinal(mode) BY <1>14 DEF AnswerWithoutTools
  <2>2. phase = "native" /\ UNCHANGED <<streamVars, shown, calls, remembered>>
    BY <1>14 DEF AnswerWithoutTools, Routed
  <2>3. phase \in Open /\ ~gen.spec BY <1>1, <2>2 DEF Open
  <2> QED BY ONLY <1>13, <2>1, <2>2, <2>3
<1>15. ASSUME NEW ok, NEW text, NEW proposes, ContinueDraft(ok, text, proposes) PROVE TurnInv'
  <2>1. phase = "native" /\ ~gen.spec /\ UNCHANGED <<streamVars, gen, calls>>
    BY <1>1, <1>15 DEF ContinueDraft, Open
  <2>2. phase' = "answered" \/ (phase' = phase /\ UNCHANGED <<shown, remembered>>)
    BY <1>15 DEF ContinueDraft
  <2>3. CASE phase' = "answered" BY <2>1, <2>3, AnswerKeepsInv DEF Open
  <2>4. CASE phase' = phase /\ UNCHANGED <<shown, remembered>>
    BY <2>1, <2>4, RoutingKeepsInv DEF Open
  <2> QED BY <2>2, <2>3, <2>4
<1>16. CASE Speculate
  <2>1. /\ phase = "native" /\ phase' = "starting" /\ ~gen.spec
        /\ UNCHANGED <<body, turn, shown, calls, remembered, gate, consumer>>
        /\ producer' = "pulling"
    BY <1>1, <1>16 DEF Speculate, Planned, Routed, StartStream, Open
  <2>2. body.stream /\ ~turn.rag /\ body.choice # "required"
    BY <1>16 DEF Speculate, Eligible
  <2>3. DOMAIN gen' = Fields /\ gen'.spec = TRUE BY <1>16, FieldNames DEF Speculate
  <2> QED BY <2>1, <2>2, <2>3 DEF Runs, Open, Phases, Speculating, ProducerStates
<1>17. CASE SpeculationStarted
  BY <1>17 DEF SpeculationStarted, streamVars, Runs, Open, Phases, Speculating
<1>18. CASE PlanOnly
  BY <1>1, <1>18, RoutingKeepsInv DEF PlanOnly, Planned, Routed, Open
<1>19. ASSUME phase = "planning", CancelSpeculation, \E mode : NoToolFinal(mode),
              UNCHANGED <<shown, calls, remembered>>
       PROVE  TurnInv'
  <2>1. ~Runs' /\ producer' \in ProducerStates /\ UNCHANGED <<consumer, gate>>
    BY <1>19, CancelledRuns
  <2>2. CASE phase' = "live" /\ \E thinks : gen' = NewGen("main", thinks, FALSE)
    <3>1. PICK thinks : gen' = NewGen("main", thinks, FALSE) BY <2>2
    <3> QED BY <1>19, <2>1, <2>2, <3>1, LiveKeepsInv DEF Open
  <2>3. CASE ~gen.spec
    BY <1>13, <1>19, <2>3 DEF CancelSpeculation, Open
  <2> QED BY <1>19, <2>2, <2>3 DEF NoToolFinal
<1>20. ASSUME NEW result, PlannerDecides(result), result \in RouteResults(body) PROVE TurnInv'
  <2>1. CASE PlannerFails
    <3>1. \E mode : NoToolFinal(mode) BY <2>1 DEF PlannerFails
    <3> QED BY <1>19, <2>1, <3>1 DEF PlannerFails
  <2>2. ASSUME NEW name, PlannerCalls(name) PROVE TurnInv'
    <3>1. ~Runs' /\ producer' \in ProducerStates /\ UNCHANGED <<consumer, gate>>
      BY <2>2, CancelledRuns DEF PlannerCalls
    <3> QED BY <2>2, <3>1 DEF PlannerCalls, Open, Phases, Ended, Speculating
  <2>3. ASSUME NEW mode, PlannerAnswers(mode) PROVE TurnInv'
    <3>1. CASE gen.spec /\ ReleaseStream /\ phase' = "released" /\ UNCHANGED gen
      BY <2>3, <3>1 DEF PlannerAnswers, ReleaseStream, Runs, Open, Phases, Speculating,
         ConsumerStates
    <3>2. CASE CancelSpeculation /\ NoToolFinal(mode)
      BY <1>19, <2>3, <3>2 DEF PlannerAnswers
    <3> QED BY <2>3, <3>1, <3>2 DEF PlannerAnswers
  <2>4. CASE PlannerRefused
    <3>1. ~gen.spec /\ UNCHANGED streamVars BY <2>4 DEF PlannerRefused, CancelSpeculation
    <3> QED BY <2>4, <3>1, RoutingKeepsInv DEF PlannerRefused, Open
  <2>5. result.decision \in {"ERROR", "TOOL", "NO_TOOL"} BY <1>20, ResultDecisions
  <2> QED BY <1>20, <2>1, <2>2, <2>3, <2>4, <2>5 DEF PlannerDecides
<1>21. CASE DecideWithModel
  BY <1>1, <1>21, RoutingKeepsInv DEF DecideWithModel, Routed, Open
<1>22. ASSUME NEW d, DecisionCalls(d) PROVE TurnInv'
  BY <1>1, <1>22, AnswerKeepsInv DEF DecisionCalls, Open
<1>23. ASSUME NEW d, DecisionCorrected(d) PROVE TurnInv'
  BY <1>1, <1>23, RoutingKeepsInv DEF DecisionCorrected, Open
<1>24. ASSUME NEW d, DecisionAnswers(d) PROVE TurnInv'
  <2>1. \E mode : NoToolFinal(mode) BY <1>24 DEF DecisionAnswers
  <2>2. phase = "deciding" /\ UNCHANGED <<streamVars, shown, calls, remembered>>
    BY <1>24 DEF DecisionAnswers
  <2>3. phase \in Open /\ ~gen.spec BY <1>1, <2>2 DEF Open
  <2> QED BY ONLY <1>13, <2>1, <2>2, <2>3
<1> QED
  BY <1>2, <1>3, <1>4, <1>5, <1>6, <1>7, <1>8, <1>9, <1>10, <1>11, <1>12, <1>14, <1>15, <1>16,
     <1>17, <1>18, <1>20, <1>21, <1>22, <1>23, <1>24 DEF Handle

-----------------------------------------------------------------------------
\* The other steps: the queue, the released response, and disturbances.
LEMMA OthersKeepInv ==
  ASSUME TurnInv, ReturnLive \/ Enqueue \/ Serve \/ Disturb \/ Finished \/ UNCHANGED chatVars
  PROVE  TurnInv'
<1> USE DEF TurnInv
<1>1. CASE ReturnLive
  BY <1>1 DEF ReturnLive, streamVars, Runs, Open, Phases, Ended, Speculating
<1>2. CASE Enqueue
  BY <1>2 DEF Enqueue, Put, handlerVars, Runs, ProducerStates
<1>3. CASE ServeReleased
  BY <1>3 DEF ServeReleased, OpenResponse, Runs, ConsumerStates, Open, Phases, Ended, Speculating
<1>4. CASE SendReleased
  BY <1>4 DEF SendReleased, Consume, Runs, ConsumerStates, Open, Phases, Ended, Speculating
<1>5. CASE GatewayError
  <2>1. phase \in Open /\ ~gen.spec BY <1>5 DEF GatewayError, Open, Speculating
  <2> QED BY <1>5, <2>1, RoutingKeepsInv DEF GatewayError
<1>6. CASE LeaveReleased
  BY <1>6 DEF LeaveReleased, CloseResponse, Stopped, Runs, ProducerStates, ConsumerStates, Open,
         Phases, Ended, Speculating
<1>7. CASE LeaveLive
  BY <1>7 DEF LeaveLive, streamVars, Runs, Open, Phases, Ended, Speculating
<1>8. CASE PlannerAborts
  <2>1. ~Runs' /\ producer' \in ProducerStates /\ UNCHANGED <<consumer, gate>>
    BY <1>8, CancelledRuns DEF PlannerAborts
  <2> QED BY <1>8, <2>1 DEF PlannerAborts, Open, Phases, Ended, Speculating
<1>9. CASE CancelledAtStart
  BY <1>9 DEF CancelledAtStart, streamVars, Runs, Open, Phases, Ended, Speculating
<1>10. CASE Finished \/ UNCHANGED chatVars
  BY <1>10 DEF Finished, chatVars, streamVars, handlerVars, Runs
<1> QED BY <1>1, <1>2, <1>3, <1>4, <1>5, <1>6, <1>7, <1>8, <1>9, <1>10 DEF Serve, Disturb

\* The invariant holds of every reachable state of a turn.
THEOREM TurnInvariant == ChatSpec => []TurnInv
<1>1. ChatInit => TurnInv
  <2>1. ASSUME ChatInit PROVE TurnInv
    <3>1. DOMAIN gen = Fields BY <2>1 DEF ChatInit, Fields
    <3>2. gen.spec = FALSE BY <2>1 DEF ChatInit, NoGen
    <3>3. /\ producer = "none" /\ consumer = "none" /\ gate = FALSE /\ phase = "received"
          /\ shown = <<>> /\ calls = <<>> /\ remembered = <<>>
      BY <2>1 DEF ChatInit, StreamInit
    <3> QED
      BY <3>1, <3>2, <3>3 DEF TurnInv, Phases, Open, ProducerStates, ConsumerStates, Runs
  <2> QED BY <2>1
<1>2. TurnInv /\ [ChatNext]_chatVars => TurnInv'
  BY GenerateSteps, GeneratorKeepsInv, HandleKeepsInv, OthersKeepInv DEF ChatNext
<1> QED BY <1>1, <1>2, PTL DEF ChatSpec

\* The decision and the speculation exclude each other: an answer the planner
\* has not released is neither seen nor remembered, and when the turn is
\* answered otherwise nothing of it is left running (routes.py,
\* _proxy_hybrid_native_openai_tool_protocol; speculative_stream.py).
THEOREM TurnHasOneGeneration == ChatSpec => []OneGeneration
<1>1. TurnInv => OneGeneration
  BY DEF TurnInv, OneGeneration, Answer, Runs, Speculating
<1> QED BY <1>1, TurnInvariant, PTL

-----------------------------------------------------------------------------
(* The calls a client is given                                             *)

\* Along a fold the value stays in a set that each element keeps it in.
LEMMA FoldStaysIn ==
  ASSUME NEW n \in Nat, NEW run, NEW Good, run[1 .. 0] \in Good,
         \A i \in 1 .. n : run[1 .. (i - 1)] \in Good => run[1 .. i] \in Good
  PROVE  run[1 .. n] \in Good
<1> DEFINE Fine == {i \in Nat : i <= n => run[1 .. i] \in Good}
<1>1. 0 \in Fine OBVIOUS
<1>2. ASSUME NEW i \in Nat, i \in Fine PROVE i + 1 \in Fine
  <2> SUFFICES ASSUME i + 1 <= n PROVE run[1 .. (i + 1)] \in Good OBVIOUS
  <2>1. i + 1 \in 1 .. n /\ (i + 1) - 1 = i /\ i <= n OBVIOUS
  <2>2. run[1 .. i] \in Good BY <1>2, <2>1
  <2> QED BY <2>1, <2>2
<1>3. Nat \subseteq Fine
  <2> HIDE DEF Fine
  <2> QED BY <1>1, <1>2, SetInduction
<1>4. n \in Fine BY <1>3
<1> QED BY <1>4

\* The same when what is kept depends on how far the fold has come.
LEMMA FoldStaysWithin ==
  ASSUME NEW n \in Nat, NEW run, NEW Within, run[1 .. 0] \in Within[0],
         \A i \in 1 .. n : run[1 .. (i - 1)] \in Within[i - 1] => run[1 .. i] \in Within[i]
  PROVE  run[1 .. n] \in Within[n]
<1> DEFINE Fine == {i \in Nat : i <= n => run[1 .. i] \in Within[i]}
<1>1. 0 \in Fine OBVIOUS
<1>2. ASSUME NEW i \in Nat, i \in Fine PROVE i + 1 \in Fine
  <2> SUFFICES ASSUME i + 1 <= n PROVE run[1 .. (i + 1)] \in Within[i + 1] OBVIOUS
  <2>1. i + 1 \in 1 .. n /\ (i + 1) - 1 = i /\ i <= n OBVIOUS
  <2>2. run[1 .. i] \in Within[i] BY <1>2, <2>1
  <2> QED BY <2>1, <2>2
<1>3. Nat \subseteq Fine
  <2> HIDE DEF Fine
  <2> QED BY <1>1, <1>2, SetInduction
<1>4. n \in Fine BY <1>3
<1> QED BY <1>4

\* What has been accepted of a list of calls.
CallsAccepted(accepted, seen, mutated, allowed) ==
  /\ Len(accepted) <= MaxCalls
  /\ \A i \in 1 .. Len(accepted) :
       /\ accepted[i] \in seen /\ ValidCall(accepted[i], allowed)
       /\ accepted[i].name \in MutatingTools => mutated
  /\ \A i, j \in 1 .. Len(accepted) : accepted[i] = accepted[j] => i = j
  /\ \A i, j \in 1 .. Len(accepted) :
       accepted[i].name \in MutatingTools /\ accepted[j].name \in MutatingTools => i = j

Considering(S) == [seen : SUBSET S, mutated : BOOLEAN, accepted : Seq(S)]

LEMMA ConsideredKeeps ==
  ASSUME NEW S, NEW allowed, NEW done \in Considering(S), NEW call \in S,
         CallsAccepted(done.accepted, done.seen, done.mutated, allowed),
         NEW next, next = Considered(done, call, allowed)
  PROVE  /\ next \in Considering(S)
         /\ CallsAccepted(next.accepted, next.seen, next.mutated, allowed)
<1> USE DEF Considering
<1>0. Len(done.accepted) \in Nat /\ MaxCalls \in Nat BY ToolAssumption
<1>1. CASE ~ValidCall(call, allowed) \/ call \in done.seen
  BY <1>1 DEF Considered
<1>2. CASE ~(~ValidCall(call, allowed) \/ call \in done.seen)
           /\ call.name \in MutatingTools /\ done.mutated
  <2>1. next = [done EXCEPT !.seen = @ \cup {call}] BY <1>2 DEF Considered
  <2>2. /\ next \in Considering(S) /\ next.accepted = done.accepted
        /\ next.seen = done.seen \cup {call} /\ next.mutated = done.mutated
    BY <2>1
  <2> QED BY <2>2 DEF CallsAccepted
<1>3. CASE ~(~ValidCall(call, allowed) \/ call \in done.seen)
           /\ ~(call.name \in MutatingTools /\ done.mutated)
  <2>1. next = [seen |-> done.seen \cup {call},
        mutated |-> done.mutated \/ call.name \in MutatingTools,
        accepted |-> IF Len(done.accepted) >= MaxCalls THEN done.accepted
                     ELSE Append(done.accepted, call)]
    BY <1>3 DEF Considered
  <2>2. /\ next \in Considering(S)
        /\ next.seen = done.seen \cup {call}
        /\ next.mutated = (done.mutated \/ call.name \in MutatingTools)
    <3>1. PICK taken : taken = IF Len(done.accepted) >= MaxCalls THEN done.accepted
                             ELSE Append(done.accepted, call)
      OBVIOUS
    <3>2. PICK mutates \in BOOLEAN : mutates = (done.mutated \/ call.name \in MutatingTools)
      OBVIOUS
    <3>3. taken \in Seq(S) BY <3>1
    <3>4. next = [seen |-> done.seen \cup {call}, mutated |-> mutates, accepted |-> taken]
      BY ONLY <2>1, <3>1, <3>2
    <3>5. done.seen \cup {call} \in SUBSET S OBVIOUS
    <3> QED BY ONLY <3>2, <3>3, <3>4, <3>5 DEF Considering
  <2>3. CASE Len(done.accepted) >= MaxCalls
    <3>1. next.accepted = done.accepted BY <2>1, <2>3
    <3> QED BY <2>2, <3>1 DEF CallsAccepted
  <2>4. CASE ~(Len(done.accepted) >= MaxCalls)
    <3>1. next.accepted = Append(done.accepted, call) BY <2>1, <2>4
    <3>2. PICK a, b : a = done.accepted /\ b = next.accepted OBVIOUS
    <3>3. /\ a \in Seq(S) /\ b = Append(a, call) /\ Len(b) = Len(a) + 1
          /\ b[Len(b)] = call /\ \A i \in 1 .. Len(a) : b[i] = a[i]
      BY <3>1, <3>2
    <3>4. \A i \in 1 .. Len(b) : i = Len(b) \/ i \in 1 .. Len(a) BY <1>0, <3>2, <3>3
    <3>5. call \notin done.seen /\ ValidCall(call, allowed)
          /\ ~(call.name \in MutatingTools /\ done.mutated)
      BY <1>3
    <3>6. Len(b) <= MaxCalls BY <1>0, <2>4, <3>2, <3>3
    <3>7. \A i \in 1 .. Len(a) :
            /\ a[i] \in done.seen /\ ValidCall(a[i], allowed)
            /\ a[i].name \in MutatingTools => done.mutated
      BY <3>2 DEF CallsAccepted
    <3>8. CallsAccepted(a, done.seen, done.mutated, allowed) BY <3>2
    <3>9. CallsAccepted(b, next.seen, next.mutated, allowed)
      <4>1. ASSUME NEW i \in 1 .. Len(b)
            PROVE  /\ b[i] \in next.seen /\ ValidCall(b[i], allowed)
                   /\ b[i].name \in MutatingTools => next.mutated
        BY <2>2, <3>3, <3>4, <3>5, <3>7
      <4>2. ASSUME NEW i \in 1 .. Len(b), NEW j \in 1 .. Len(b), b[i] = b[j] PROVE i = j
        BY <3>3, <3>4, <3>5, <3>7, <3>8, <4>2 DEF CallsAccepted
      <4>3. ASSUME NEW i \in 1 .. Len(b), NEW j \in 1 .. Len(b),
                   b[i].name \in MutatingTools, b[j].name \in MutatingTools
            PROVE  i = j
        BY <3>3, <3>4, <3>5, <3>7, <3>8, <4>3 DEF CallsAccepted
      <4> QED BY <3>6, <4>1, <4>2, <4>3 DEF CallsAccepted
    <3> QED BY <2>2, <3>2, <3>9
  <2> QED BY <2>3, <2>4
<1> QED BY <1>1, <1>2, <1>3

\* _validate_and_limit_native_tool_calls, of any list of calls.
LEMMA ValidatedCalls ==
  ASSUME NEW list, DOMAIN list = 1 .. Len(list), Len(list) \in Nat, NEW allowed
  PROVE  \E seen, mutated :
           /\ CallsAccepted(ValidateCalls(list, allowed), seen, mutated, allowed)
           /\ Len(ValidateCalls(list, allowed)) \in Nat
           /\ \A i \in 1 .. Len(ValidateCalls(list, allowed)) :
                \E k \in 1 .. Len(list) : ValidateCalls(list, allowed)[i] = list[k]
<1>0. PICK n : n = Len(list) OBVIOUS
<1> DEFINE S == {list[i] : i \in 1 .. n}
<1>1. n \in Nat /\ DOMAIN list = 1 .. n /\ \A i \in 1 .. n : list[i] \in S BY <1>0
<1> HIDE DEF S
<1>2. PICK A : A = Considering(S) OBVIOUS
<1> DEFINE K(done, call) == Considered(done, call, allowed)
           Begin == [seen |-> {}, mutated |-> FALSE, accepted |-> <<>>]
           Good == {done \in A : CallsAccepted(done.accepted, done.seen, done.mutated, allowed)}
           take == [x \in Good \X (1 .. n) |-> K(x[1], list[x[2]])]
           Follows(g) == g = [s \in SUBSET DOMAIN list |->
                               IF s = {} THEN Begin
                               ELSE K(g[s \ {Max(s)}], list[Max(s)])]
           run == CHOOSE g : Follows(g)
<1>3. ValidateCalls(list, allowed) = run[1 .. n].accepted
  <2>1. ValidateCalls(list, allowed) = run[DOMAIN list].accepted
    BY DEF ValidateCalls, FoldLeft, MapThenFoldSet
  <2> QED BY <1>1, <2>1
<1>4. PICK base : base = Begin OBVIOUS
<1>5. base \in Good
  <2>1. base.accepted = <<>> /\ base.seen = {} /\ base.mutated = FALSE BY <1>4
  <2>2. base \in A
    <3>1. <<>> \in Seq(S) /\ {} \in SUBSET S /\ FALSE \in BOOLEAN OBVIOUS
    <3> QED BY ONLY <1>2, <1>4, <3>1 DEF Considering
  <2>3. CallsAccepted(base.accepted, base.seen, base.mutated, allowed)
    BY <2>1, ToolAssumption DEF CallsAccepted
  <2> QED BY <2>2, <2>3
<1>6. ASSUME NEW done \in Good, NEW i \in 1 .. n PROVE K(done, list[i]) \in Good
  <2>1. PICK next : next = Considered(done, list[i], allowed) OBVIOUS
  <2>2. /\ done \in Considering(S) /\ list[i] \in S
        /\ CallsAccepted(done.accepted, done.seen, done.mutated, allowed)
    BY <1>1, <1>2
  <2>3. /\ next \in Considering(S)
        /\ CallsAccepted(next.accepted, next.seen, next.mutated, allowed)
    BY ONLY <2>1, <2>2, ConsideredKeeps
  <2> QED BY <1>2, <2>1, <2>3
<1>7. take \in [Good \X (1 .. n) -> Good]
  <2> HIDE DEF Good, K
  <2> QED BY <1>6
<1>8. PICK g : FollowsFold(g, Good, n, base, take)
  <2>1. n \in Nat /\ FoldStep(take, Good, n) BY <1>1, <1>7 DEF FoldStep
  <2> HIDE DEF take, Good
  <2> QED BY <1>5, <2>1, FoldExists
<1>9. ASSUME NEW s \in SUBSET (1 .. n), s # {}
      PROVE  take[<<g[s \ {Max(s)}], Max(s)>>] = K(g[s \ {Max(s)}], list[Max(s)])
  <2>1. Max(s) \in s BY <1>1, <1>9, LargestPosition
  <2> HIDE DEF K, Good
  <2>2. g[s \ {Max(s)}] \in Good /\ Max(s) \in 1 .. n BY <1>8, <2>1 DEF FollowsFold
  <2> QED BY <2>2
<1>10. Follows(g)
  <2> HIDE DEF take, K, Good
  <2>1. g \in [SUBSET DOMAIN list -> Good] BY <1>1, <1>8 DEF FollowsFold
  <2>2. ASSUME NEW s \in SUBSET DOMAIN list
        PROVE  g[s] = IF s = {} THEN Begin ELSE K(g[s \ {Max(s)}], list[Max(s)])
    <3>1. CASE s = {} BY <1>1, <1>4, <1>8, <3>1 DEF FollowsFold
    <3>2. CASE s # {} BY <1>1, <1>8, <1>9, <3>2 DEF FollowsFold
    <3> QED BY <3>1, <3>2
  <2> HIDE DEF Begin
  <2> QED BY <2>1, <2>2
<1>11. Follows(run) BY <1>10
<1>12. run[1 .. 0] \in Good
  <2> HIDE DEF run, K, Good
  <2>1. {} \in SUBSET DOMAIN list /\ 1 .. 0 = {} OBVIOUS
  <2>2. run[{}] = Begin
    <3> HIDE DEF Begin
    <3> QED BY <1>11, <2>1
  <2> HIDE DEF Begin
  <2> QED BY <1>4, <1>5, <2>1, <2>2
<1>13. ASSUME NEW i \in 1 .. n, run[1 .. (i - 1)] \in Good PROVE run[1 .. i] \in Good
  <2> HIDE DEF run, K, Good, Begin
  <2>1. /\ Max(1 .. i) = i /\ (1 .. i) \ {i} = 1 .. (i - 1) /\ 1 .. i # {}
        /\ 1 .. i \in SUBSET (1 .. n)
    BY <1>1, FoldPrefix
  <2>2. run[1 .. i] = K(run[(1 .. i) \ {Max(1 .. i)}], list[Max(1 .. i)])
    BY <1>1, <1>11, <2>1
  <2>3. run[1 .. i] = K(run[1 .. (i - 1)], list[i]) BY <2>1, <2>2
  <2> QED BY <1>6, <1>13, <2>3
<1>14. run[1 .. n] \in Good
  <2> HIDE DEF run, Good
  <2> QED BY <1>1, <1>12, <1>13, FoldStaysIn
<1>15. PICK done : done = run[1 .. n] OBVIOUS
<1>16. /\ CallsAccepted(done.accepted, done.seen, done.mutated, allowed)
       /\ done.accepted \in Seq(S)
  <2>1. done \in Considering(S)
        /\ CallsAccepted(done.accepted, done.seen, done.mutated, allowed)
    <3> HIDE DEF run
    <3> QED BY <1>2, <1>14, <1>15
  <2> QED BY <2>1 DEF Considering
<1>17. \A i \in 1 .. Len(done.accepted) : \E k \in 1 .. n : done.accepted[i] = list[k]
  <2>1. \A i \in 1 .. Len(done.accepted) : done.accepted[i] \in S BY <1>16
  <2> QED BY <2>1 DEF S
<1> HIDE DEF run
<1> QED BY <1>0, <1>3, <1>15, <1>16, <1>17

BodyFields == {"messages", "tools", "choice", "stream", "compaction"}
Shaped(b) == DOMAIN b = BodyFields /\ b.choice \in ToolChoices

\* What the policies leave of a request: nothing that is blocked.
LEMMA PoliciesKeep ==
  ASSUME NEW b \in Request, NEW kept, kept = MemoryWritePolicy(LibraryPolicy(b))
  PROVE  /\ Shaped(kept) /\ kept.tools \cap BlockedTools = {} /\ kept.messages = b.messages
         /\ Shaped(PrepareNative(kept)) /\ PrepareNative(kept).tools = kept.tools
<1>1. PICK lib : lib = LibraryPolicy(b) OBVIOUS
<1>2. DOMAIN b = BodyFields /\ b.choice \in ToolChoices BY DEF Request, BodyFields
<1>3. /\ Shaped(lib) /\ lib.tools \cap BlockedTools = {} /\ lib.messages = b.messages
  <2>1. PICK choice : choice = IF b.choice \in BlockedTools THEN "absent" ELSE b.choice OBVIOUS
  <2>2. choice \in ToolChoices BY <1>2, <2>1 DEF ToolChoices
  <2>3. lib = [b EXCEPT !.tools = b.tools \ BlockedTools, !.choice = choice]
    BY <1>1, <2>1 DEF LibraryPolicy
  <2> QED BY ONLY <1>2, <2>2, <2>3 DEF Shaped, BodyFields
<1>4. /\ Shaped(kept) /\ kept.tools \cap BlockedTools = {} /\ kept.messages = lib.messages
  <2>1. kept = lib \/ kept = [lib EXCEPT !.tools = {}, !.choice = "absent"]
    BY <1>1 DEF MemoryWritePolicy
  <2>2. "absent" \in ToolChoices BY DEF ToolChoices
  <2> QED BY ONLY <1>3, <2>1, <2>2 DEF Shaped, BodyFields
<1>5. Shaped(PrepareNative(kept)) /\ PrepareNative(kept).tools = kept.tools
  <2>1. PrepareNative(kept) = kept \/ PrepareNative(kept) = [kept EXCEPT !.choice = "none"]
    BY DEF PrepareNative
  <2>2. "none" \in ToolChoices BY DEF ToolChoices, Modes
  <2> QED BY ONLY <1>4, <2>1, <2>2 DEF Shaped, BodyFields
<1> QED BY <1>3, <1>4, <1>5

\* What each place of the handler knows of the request, as far as calls go.
CallsInv ==
  /\ Shaped(body)
  /\ phase = "received" => body \in Requests
  /\ phase # "received" => body.tools \cap BlockedTools = {}
  /\ phase = "passing" => turn.internal
  /\ phase \in {"starting", "planning"} => body.choice # "none"
  /\ phase = "deciding" => ~settings.planner \/ body.choice = "required"
  /\ CallsAnswerTheRequest

\* A step that returns no call and does not touch the request.
CallsApart ==
  /\ UNCHANGED <<body, settings, calls>>
  /\ phase' = phase \/ phase' \notin {"received", "passing", "starting", "planning", "deciding"}
  /\ phase' = "received" => phase = "received"
  /\ phase' # "received" => phase # "received"
  /\ phase = "passing" \/ calls # <<>> => UNCHANGED turn
  /\ calls # <<>> => UNCHANGED <<shown, remembered>>

LEMMA ApartKeeps ==
  ASSUME CallsInv, CallsApart
  PROVE  CallsInv'
BY DEF CallsInv, CallsApart, CallsAnswerTheRequest

\* Calls that were validated are calls the client can execute.
LEMMA ReturnKeeps ==
  ASSUME TurnInv, CallsInv, NEW list, DOMAIN list = 1 .. Len(list), Len(list) \in Nat,
         calls' = ValidateCalls(list, body.tools), phase' = "answered", phase \in Open,
         phase # "received", UNCHANGED <<body, settings, turn, shown, remembered>>,
         \A i \in 1 .. Len(calls') : settings.planner /\ body.choice # "required"
            => body.choice \in {"absent", "auto", calls'[i].name}
  PROVE  CallsInv'
<1>1. shown' = <<>> /\ remembered' = <<>> BY DEF TurnInv
<1>2. PICK c : c = calls' OBVIOUS
<1>3. PICK seen, mutated : CallsAccepted(c, seen, mutated, body.tools) /\ Len(c) \in Nat
  BY <1>2, ValidatedCalls
<1>4. /\ Len(c) <= MaxCalls
      /\ \A i, j \in 1 .. Len(c) : c[i] = c[j] => i = j
      /\ \A i \in 1 .. Len(c) : c[i].name \in body.tools /\ c[i].args # "bad"
  BY <1>3 DEF CallsAccepted, ValidCall
<1>5. Cardinality({i \in 1 .. Len(c) : c[i].name \in MutatingTools}) <= 1
  <2>0. PICK M : M = {i \in 1 .. Len(c) : c[i].name \in MutatingTools} OBVIOUS
  <2>1. \A i, j \in M : i = j BY <1>3, <2>0 DEF CallsAccepted
  <2>2. Cardinality(M) <= 1
    <3>1. CASE M = {} BY ONLY <3>1, FS_EmptySet
    <3>2. CASE M # {}
      <4>1. PICK i \in M : TRUE BY <3>2
      <4>2. M = {i} BY <2>1, <4>1
      <4>3. Cardinality({i}) = 1 BY FS_Singleton
      <4> QED BY ONLY <4>2, <4>3
    <3> QED BY <3>1, <3>2
  <2> QED BY <2>0, <2>2
<1>6. body.tools \cap BlockedTools = {} BY DEF CallsInv
<1>7. \A i \in 1 .. Len(c) : c[i].name \in body.tools \ BlockedTools BY <1>4, <1>6
<1>8. CallsAnswerTheRequest'
  BY <1>1, <1>2, <1>4, <1>5, <1>7 DEF CallsAnswerTheRequest
<1> QED BY <1>8 DEF CallsInv

\* The planner calls the tool that is asked for.
LEMMA RoutedCall ==
  ASSUME NEW result \in RouteResults(body), result.decision = "TOOL",
         body.choice \in ToolChoices \ {"none", "required"}
  PROVE  body.choice \in {"absent", "auto", result.tool}
<1>1. CASE ForcedTool(body.choice) = "absent"
  BY <1>1 DEF ForcedTool, ToolChoices, Modes
<1>2. CASE ForcedTool(body.choice) # "absent"
  <2>1. ForcedTool(body.choice) = body.choice BY <1>2 DEF ForcedTool
  <2>2. PICK s : s = [decision |-> "TOOL", mode |-> "", tool |-> body.choice] OBVIOUS
  <2>3. s.decision = "TOOL" /\ s.tool = body.choice BY <2>2
  <2> DEFINE Of(r) == IF r.decision = "NO_TOOL" THEN {r}
                      ELSE IF r.tool \in body.tools THEN ArgumentResults(r.tool) ELSE {}
  <2>4. result \in {RoutingError} \cup UNION {Of(r) : r \in {s}}
    BY <1>2, <2>1, <2>2 DEF RouteResults
  <2>5. result \in {RoutingError} \cup Of(s)
    <3> HIDE DEF Of
    <3> QED BY <2>4
  <2>6. result # RoutingError
    <3>1. RoutingError.decision = "ERROR" BY DEF RoutingError
    <3> QED BY <3>1
  <2>7. result \in ArgumentResults(body.choice) BY <2>3, <2>5, <2>6
  <2>8. result = [decision |-> "TOOL", mode |-> "", tool |-> body.choice]
    BY <2>6, <2>7 DEF ArgumentResults
  <2> QED BY <2>8
<1> QED BY <1>1, <1>2

\* The settings are read once.
LEMMA SettingsKept ==
  ASSUME [ChatNext]_chatVars
  PROVE  UNCHANGED settings
<1>1. CASE Handle
  <2>1. CASE \/ Receive \/ LoadContext
             \/ \E text, list : PassThrough(text, list)
             \/ \E mode : ChooseThinking(mode)
             \/ \E b : Collect(b) \/ FinalBuffered(b)
             \/ \E requested : LoopDecision(requested)
             \/ \E b, succeeded : LoopFinal(b, succeeded)
    BY <2>1 DEF Receive, LoadContext, PassThrough, ChooseThinking, Collect, FinalBuffered,
       LoopDecision, LoopFinal
  <2>2. CASE \/ ContinueLive \/ AnswerDirective \/ FollowDirective \/ AnswerWithoutTools
             \/ \E ok, proposes, text : ContinueDraft(ok, text, proposes)
             \/ Speculate \/ SpeculationStarted \/ PlanOnly
    BY <2>2 DEF ContinueLive, AnswerDirective, FollowDirective, AnswerWithoutTools, ContinueDraft,
       Speculate, SpeculationStarted, PlanOnly
  <2>3. ASSUME NEW result \in RouteResults(body), PlannerDecides(result) PROVE UNCHANGED settings
    <3>1. CASE \/ PlannerFails \/ PlannerRefused \/ \E name : PlannerCalls(name)
               \/ \E mode : PlannerAnswers(mode)
      BY <3>1 DEF PlannerFails, PlannerCalls, PlannerAnswers, PlannerRefused
    <3> QED BY <2>3, <3>1, ResultDecisions DEF PlannerDecides
  <2>4. CASE \/ DecideWithModel
             \/ \E d : DecisionCalls(d) \/ DecisionCorrected(d) \/ DecisionAnswers(d)
    BY <2>4 DEF DecideWithModel, DecisionCalls, DecisionCorrected, DecisionAnswers
  <2> QED BY <1>1, <2>1, <2>2, <2>3, <2>4 DEF Handle
<1>2. CASE Generate
  BY <1>2 DEF Generate, HoldPiece, BlockMarkup, StopLoop, EmitPiece, EmitReasoning, BlockCalls,
     BackendFails, BackendDone, JsonAnswer, Conclude, PassGate, SendTerminal, ReturnLive,
     ReturnSpeculative
<1>3. CASE Enqueue \/ Serve \/ Disturb \/ Finished \/ UNCHANGED chatVars
  BY <1>3 DEF Enqueue, Serve, ServeReleased, SendReleased, Disturb, GatewayError, LeaveReleased,
     LeaveLive, PlannerAborts, CancelledAtStart, Finished, chatVars
<1> QED BY <1>1, <1>2, <1>3 DEF ChatNext

\* The generator, the queue and the released response return no calls.
LEMMA OthersApart ==
  ASSUME TurnInv, Generate \/ Enqueue \/ Serve \/ Disturb \/ Finished \/ UNCHANGED chatVars
  PROVE  CallsApart
<1> USE DEF CallsApart
<1>0. calls # <<>> => phase = "answered" /\ ~Runs BY DEF TurnInv
<1>1. UNCHANGED settings BY SettingsKept DEF ChatNext
<1>2. CASE GeneratorStep
  BY <1>0, <1>1, <1>2 DEF GeneratorStep, handlerVars, Runs
<1>3. CASE ReturnLive
  BY <1>0, <1>3 DEF ReturnLive
<1>4. CASE Enqueue \/ Finished \/ UNCHANGED chatVars
  BY <1>4 DEF Enqueue, Finished, chatVars, handlerVars
<1>5. CASE Serve
  BY <1>0, <1>5 DEF Serve, ServeReleased, SendReleased
<1>6. CASE Disturb
  BY <1>0, <1>6 DEF Disturb, GatewayError, LeaveReleased, LeaveLive, PlannerAborts, CancelledAtStart
<1> QED BY <1>2, <1>3, <1>4, <1>5, <1>6, GenerateSteps

\* Nor does the handler but for four of its answers.
LEMMA HandleCalls ==
  ASSUME TurnInv, CallsInv, Handle
  PROVE  CallsInv'
<1>0. calls # <<>> => phase = "answered" BY DEF TurnInv
<1>1. UNCHANGED settings BY SettingsKept DEF ChatNext
<1>2. phase \in Open => calls = <<>> BY DEF TurnInv
<1>3. CASE Receive
  <2>1. /\ phase = "received" /\ body \in Request /\ calls' = <<>>
        /\ phase' \in {"loading", "passing", "collecting"}
        /\ phase' = "passing" => turn'.internal
    BY <1>2, <1>3, ChatAssumption DEF Receive, CallsInv, Open
  <2>2. PICK kept : kept = MemoryWritePolicy(LibraryPolicy(body)) OBVIOUS
  <2>3. Shaped(body') /\ body'.tools \cap BlockedTools = {}
    BY <1>3, <2>1, <2>2, PoliciesKeep DEF Receive
  <2> QED BY <2>1, <2>3 DEF CallsInv, CallsAnswerTheRequest, Shaped
<1>4. ASSUME NEW text, NEW list, PassThrough(text, list) PROVE CallsInv'
  BY <1>1, <1>4 DEF PassThrough, CallsInv, CallsAnswerTheRequest
<1>5. CASE \/ LoadContext
           \/ \E mode : ChooseThinking(mode)
           \/ \E b : Collect(b) \/ FinalBuffered(b)
           \/ \E requested : LoopDecision(requested)
           \/ \E b, succeeded : LoopFinal(b, succeeded)
  <2>1. CallsApart
    BY <1>0, <1>1, <1>5 DEF LoadContext, ChooseThinking, Collect, FinalBuffered, Collected,
       LoopDecision, LoopFinal, CallsApart
  <2> QED BY <2>1, ApartKeeps
<1>6. CASE ContinueLive
  <2>1. Shaped(body') /\ body'.tools = body.tools
    BY <1>6 DEF ContinueLive, CallsInv, Shaped, BodyFields
  <2> QED BY <1>2, <1>6, <2>1 DEF ContinueLive, CallsInv, CallsAnswerTheRequest, Open
<1>7. CASE FollowDirective
  <2>1. Directive(body) \in ToolChoices BY <1>7 DEF FollowDirective, ToolChoices
  <2>2. Shaped(body') /\ body'.tools = body.tools
    BY <1>7, <2>1 DEF FollowDirective, ForceTool, CallsInv, Shaped, BodyFields
  <2> QED BY <1>2, <1>7, <2>2 DEF FollowDirective, CallsInv, CallsAnswerTheRequest, Open
<1>8. CASE \/ AnswerDirective \/ AnswerWithoutTools
           \/ \E ok, proposes, text : ContinueDraft(ok, text, proposes)
  <2>1. CallsApart
    BY <1>0, <1>1, <1>8 DEF AnswerDirective, AnswerWithoutTools, Routed, NoToolFinal,
       ContinueDraft, CallsApart
  <2> QED BY <2>1, ApartKeeps
<1>9. CASE Speculate \/ SpeculationStarted \/ PlanOnly
  <2>1. /\ phase \in {"native", "starting"} /\ phase' \in {"starting", "planning"}
        /\ UNCHANGED <<body, calls>>
        /\ phase = "native" => body.choice # "none"
    BY <1>9 DEF Speculate, SpeculationStarted, PlanOnly, Planned, Routed
  <2> QED BY <1>2, <2>1 DEF CallsInv, CallsAnswerTheRequest, Open
<1>10. ASSUME NEW result \in RouteResults(body), PlannerDecides(result), phase = "planning"
       PROVE  CallsInv'
  <2>1. CASE result.decision = "TOOL"
    <3>1. PICK call : call = [name |-> result.tool, args |-> "a"] OBVIOUS
    <3>2. PICK list : list = <<call>> OBVIOUS
    <3>3. /\ calls' = ValidateCalls(list, body.tools) /\ phase' = "answered"
          /\ UNCHANGED <<body, turn, shown, remembered>>
      BY <1>10, <2>1, <3>1, <3>2 DEF PlannerDecides, PlannerCalls
    <3>4. DOMAIN list = 1 .. Len(list) /\ Len(list) = 1 /\ list[1] = call BY <3>2
    <3>5. \A i \in 1 .. Len(calls') : calls'[i].name = result.tool
      <4>1. \A i \in 1 .. Len(calls') : \E k \in 1 .. Len(list) : calls'[i] = list[k]
        BY <3>3, <3>4, ValidatedCalls
      <4> QED BY <3>1, <3>4, <4>1
    <3>6. body.choice # "none" /\ body.choice \in ToolChoices
      BY <1>10 DEF CallsInv, Shaped
    <3>7. body.choice # "required" => body.choice \in {"absent", "auto", result.tool}
      BY <2>1, <3>6, RoutedCall
    <3>8. \A i \in 1 .. Len(calls') : settings.planner /\ body.choice # "required"
            => body.choice \in {"absent", "auto", calls'[i].name}
      BY <3>5, <3>7
    <3>9. phase \in Open /\ phase # "received" BY <1>10 DEF Open
    <3> QED BY ONLY TurnInv, CallsInv, <1>1, <3>3, <3>4, <3>8, <3>9, ReturnKeeps
  <2>2. CASE PlannerFails \/ \E mode : PlannerAnswers(mode)
    <3>1. CallsApart
      BY <1>0, <1>1, <2>2 DEF PlannerFails, PlannerAnswers, NoToolFinal, CallsApart
    <3> QED BY <3>1, ApartKeeps
  <2>3. CASE PlannerRefused
    BY <1>2, <1>10, <2>3 DEF PlannerRefused, CallsInv, CallsAnswerTheRequest, Open
  <2> QED BY <1>10, <2>1, <2>2, <2>3, ResultDecisions DEF PlannerDecides
<1>11. CASE DecideWithModel
  BY <1>1, <1>2, <1>11 DEF DecideWithModel, Routed, CallsInv, CallsAnswerTheRequest, Open
<1>12. ASSUME NEW d \in Decisions, DecisionCalls(d) PROVE CallsInv'
  <2>1. /\ phase = "deciding" /\ calls' = ValidateCalls(d.calls, body.tools)
        /\ phase' = "answered" /\ UNCHANGED <<body, turn, shown, remembered>>
    BY <1>12 DEF DecisionCalls, Accepted
  <2>2. PICK list : list = d.calls OBVIOUS
  <2>3. DOMAIN list = 1 .. Len(list) /\ Len(list) \in Nat
    <3>1. list \in CallLists \/ list = <<>> BY <1>12, <2>2 DEF Decisions
    <3> QED BY <3>1, ChatAssumption
  <2>4. settings.planner /\ body.choice # "required" => FALSE BY <2>1 DEF CallsInv
  <2>5. phase \in Open /\ phase # "received" BY <2>1 DEF Open
  <2> QED BY ONLY TurnInv, CallsInv, <1>1, <2>1, <2>2, <2>3, <2>4, <2>5, ReturnKeeps
<1>13. ASSUME NEW d, DecisionCorrected(d) \/ DecisionAnswers(d) PROVE CallsInv'
  <2>1. CallsApart
    BY <1>0, <1>1, <1>13 DEF DecisionCorrected, DecisionAnswers, NoToolFinal, CallsApart
  <2> QED BY <2>1, ApartKeeps
<1> QED
  BY <1>3, <1>4, <1>5, <1>6, <1>7, <1>8, <1>9, <1>10, <1>11, <1>12, <1>13 DEF Handle

LEMMA CallsNextInv ==
  ASSUME TurnInv, CallsInv, [ChatNext]_chatVars
  PROVE  CallsInv'
BY HandleCalls, OthersApart, ApartKeeps DEF ChatNext

LEMMA CallsInitially ==
  ASSUME ChatInit
  PROVE  CallsInv
<1>1. body \in Requests /\ phase = "received" /\ calls = <<>> BY DEF ChatInit
<1>2. body \in Request BY <1>1, ChatAssumption
<1>3. Shaped(body) BY <1>2 DEF Request, Shaped, BodyFields
<1> QED BY <1>1, <1>3 DEF CallsInv, CallsAnswerTheRequest

\* Whatever a model proposes, a client is given calls it can execute
\* (_validate_and_limit_native_tool_calls) and has asked for
\* (_proxy_hybrid_native_openai_tool_protocol).
THEOREM TurnCallsAnswer == ChatSpec => []CallsAnswerTheRequest
<1>1. ChatInit => CallsInv BY CallsInitially
<1>2. TurnInv /\ CallsInv /\ [ChatNext]_chatVars => CallsInv' BY CallsNextInv
<1>3. CallsInv => CallsAnswerTheRequest BY DEF CallsInv
<1> QED BY <1>1, <1>2, <1>3, TurnInvariant, PTL DEF ChatSpec

-----------------------------------------------------------------------------
(* No tool markup in an answer from tool results                           *)

Shows == Tokens \cup {"!"}

\* A beginning of a text.
LEMMA BeginningOf ==
  ASSUME NEW S, NEW s \in Seq(S), NEW n \in 0 .. Len(s)
  PROVE  /\ SubSeq(s, 1, n) \in Seq(S) /\ Len(SubSeq(s, 1, n)) = n
         /\ \A i \in 1 .. n : SubSeq(s, 1, n)[i] = s[i]
<1>1. PICK m \in Int : m = 1 OBVIOUS
<1>2. Len(s) \in Nat /\ n \in Int /\ \A i \in m .. n : s[i] \in S BY <1>1
<1>3. /\ SubSeq(s, m, n) \in Seq(S)
      /\ Len(SubSeq(s, m, n)) = IF m <= n THEN n - m + 1 ELSE 0
      /\ \A i \in 1 .. n - m + 1 : SubSeq(s, m, n)[i] = s[m + i - 1]
  BY ONLY <1>2, SubSeqProperties, m \in Int
<1>4. n - 1 + 1 = n /\ (IF 1 <= n THEN n - 1 + 1 ELSE 0) = n OBVIOUS
<1>5. \A i \in 1 .. n : 1 + i - 1 = i OBVIOUS
<1> QED BY <1>1, <1>3, <1>4, <1>5

LEMMA NoMarkersBefore ==
  ASSUME NEW S, NEW s \in Seq(S), Markers(s) = {}, NEW n \in 0 .. Len(s)
  PROVE  Markers(SubSeq(s, 1, n)) = {}
<1>1. PICK p : p = SubSeq(s, 1, n) OBVIOUS
<1>2. Len(p) = n /\ \A i \in 1 .. n : p[i] = s[i] BY <1>1, BeginningOf
<1>3. Len(s) \in Nat OBVIOUS
<1>4. ASSUME NEW i \in 1 .. Len(p), MarkerAt(p, i) PROVE FALSE
  <2>1. i \in 1 .. Len(s) /\ MarkerAt(s, i) BY <1>2, <1>3, <1>4 DEF MarkerAt, TagAt
  <2> QED BY <2>1 DEF Markers
<1> QED BY <1>1, <1>4 DEF Markers

LEMMA NoMarkersCut ==
  ASSUME NEW S, NEW s \in Seq(S), Markers(s) = {}
  PROVE  CutLoop(s) \in Seq(S) /\ Markers(CutLoop(s)) = {}
<1>1. CASE Loops(s)
  <2>1. Len(s) \in Nat /\ Len(s) - 1 \in 0 .. Len(s) BY <1>1 DEF Loops
  <2> QED BY <1>1, <2>1, BeginningOf, NoMarkersBefore DEF CutLoop, Front
<1>2. CASE ~Loops(s) BY <1>2 DEF CutLoop
<1> QED BY <1>1, <1>2

LEMMA CutTyped ==
  ASSUME NEW S, NEW s \in Seq(S)
  PROVE  CutLoop(s) \in Seq(S) /\ Len(CutLoop(s)) <= Len(s)
<1>1. CASE Loops(s)
  <2>1. PICK n : n = Len(s) - 1 OBVIOUS
  <2>2. Len(s) \in Nat /\ n \in 0 .. Len(s) /\ n <= Len(s) BY <1>1, <2>1 DEF Loops
  <2>3. SubSeq(s, 1, n) \in Seq(S) /\ Len(SubSeq(s, 1, n)) = n BY <2>2, BeginningOf
  <2> QED BY <1>1, <2>1, <2>2, <2>3 DEF CutLoop, Front
<1>2. CASE ~Loops(s)
  <2>1. Len(s) <= Len(s) OBVIOUS
  <2> QED BY <1>2, <2>1 DEF CutLoop
<1> QED BY <1>1, <1>2

\* A marker has to be completed by what is added.
LEMMA NoMarkersAdded ==
  ASSUME NEW S, NEW s \in Seq(S), NEW token \in S, Markers(s) = {}, token # "e",
         ~(token = ">" /\ s # <<>> /\ s[Len(s)] = "<")
  PROVE  Append(s, token) \in Seq(S) /\ Markers(Append(s, token)) = {}
<1>1. PICK a : a = Append(s, token) OBVIOUS
<1>2. /\ a \in Seq(S) /\ Len(s) \in Nat /\ Len(a) = Len(s) + 1 /\ a[Len(a)] = token
      /\ \A i \in 1 .. Len(s) : a[i] = s[i]
  BY <1>1
<1>3. ASSUME NEW i \in 1 .. Len(a), MarkerAt(a, i) PROVE FALSE
  <2>1. CASE i = Len(a) BY <1>2, <1>3, <2>1 DEF MarkerAt, TagAt
  <2>2. CASE i = Len(s) /\ i \in 1 .. Len(s)
    <3>1. s # <<>> BY <2>2
    <3>2. a[i] = s[i] /\ i + 1 = Len(a) BY <1>2, <2>2
    <3>3. MarkerAt(s, i) BY <1>2, <1>3, <2>2, <3>1, <3>2 DEF MarkerAt, TagAt
    <3> QED BY <2>2, <3>3 DEF Markers
  <2>3. CASE i \in 1 .. Len(s) /\ i + 1 \in 1 .. Len(s)
    <3>1. a[i] = s[i] /\ a[i + 1] = s[i + 1] /\ i < Len(s) BY <1>2, <2>3
    <3>2. MarkerAt(s, i) BY <1>3, <3>1 DEF MarkerAt, TagAt
    <3> QED BY <2>3, <3>2 DEF Markers
  <2>4. \/ i = Len(a) \/ (i = Len(s) /\ i \in 1 .. Len(s))
        \/ (i \in 1 .. Len(s) /\ i + 1 \in 1 .. Len(s))
    BY <1>2
  <2> QED BY <2>1, <2>2, <2>3, <2>4
<1> QED BY <1>1, <1>2, <1>3 DEF Markers

\* The text before its first marker.
LEMMA BeforeFirst ==
  ASSUME NEW S, NEW s \in Seq(S), Markers(s) # {}
  PROVE  \E m \in Markers(s) :
           /\ BeforeMarker(s) = SubSeq(s, 1, m - 1) /\ m - 1 \in 0 .. Len(s)
           /\ Markers(SubSeq(s, 1, m - 1)) = {}
<1>1. Len(s) \in Nat /\ Markers(s) \in SUBSET (1 .. Len(s)) BY DEF Markers
<1>2. \E m \in Markers(s) : \A j \in Markers(s) : m <= j
  <2>1. Markers(s) \subseteq Nat BY <1>1
  <2>2. PICK m \in Markers(s) : \A j \in Markers(s) : ~(<<j, m>> \in OpToRel(<, Nat))
    BY <2>1, WFMin, NatLessThanWellFounded
  <2>3. \A j \in Markers(s) : m <= j
    <3> TAKE j \in Markers(s)
    <3>1. ~(j < m) BY <2>1, <2>2 DEF OpToRel
    <3> QED BY <2>1, <3>1
  <2> QED BY <2>3
<1>3. PICK m : m = CHOOSE i \in Markers(s) : \A j \in Markers(s) : i <= j OBVIOUS
<1>4. m \in Markers(s) /\ \A j \in Markers(s) : m <= j BY <1>2, <1>3
<1>5. BeforeMarker(s) = SubSeq(s, 1, m - 1) BY <1>3 DEF BeforeMarker
<1>6. m \in 1 .. Len(s) /\ m - 1 \in 0 .. Len(s) BY <1>1, <1>4
<1>7. PICK p : p = SubSeq(s, 1, m - 1) OBVIOUS
<1>8. Len(p) = m - 1 /\ \A i \in 1 .. m - 1 : p[i] = s[i] BY <1>6, <1>7, BeginningOf
<1>9. ASSUME NEW i \in 1 .. Len(p), MarkerAt(p, i) PROVE FALSE
  <2>1. i \in 1 .. Len(s) /\ MarkerAt(s, i) BY <1>1, <1>6, <1>8, <1>9 DEF MarkerAt, TagAt
  <2>2. i \in Markers(s) /\ i < m BY <1>6, <1>8, <2>1 DEF Markers
  <2> QED BY <1>4, <1>6, <2>2
<1> QED BY <1>4, <1>5, <1>6, <1>7, <1>9 DEF Markers

\* What has been sent and what is sent next are the beginning of the text.
LEMMA SentFurther ==
  ASSUME NEW S, NEW s \in Seq(S), NEW a \in 0 .. Len(s), NEW b \in a .. Len(s)
  PROVE  SubSeq(s, 1, a) \o SubSeq(s, a + 1, b) = SubSeq(s, 1, b)
<1>1. 1 \in 1 .. Len(s) + 1 /\ a \in 1 - 1 .. Len(s) OBVIOUS
<1> QED BY <1>1, ConcatAdjacentSubSeq

LEMMA SameBeginning ==
  ASSUME NEW S, NEW s \in Seq(S), NEW t \in Seq(S), NEW n \in 0 .. Len(s)
  PROVE  SubSeq(s \o t, 1, n) = SubSeq(s, 1, n)
<1>1. CASE n = 0 BY <1>1, SubSeqEmpty
<1>2. CASE n > 0
  <2>1. 1 \in 1 .. Len(s) /\ n \in 1 .. Len(s) BY <1>2
  <2> QED BY <2>1, SubSeqOfConcat1
<1> QED BY <1>1, <1>2

\* What has been cleaned of a text so far.
LEMMA CleanedKeeps ==
  ASSUME NEW S, NEW s \in Seq(S), NEW token \in S, Markers(s) = {},
         NEW next, next = Cleaned(s, token)
  PROVE  next \in Seq(S) /\ Markers(next) = {} /\ Len(next) <= Len(s) + 1
<1>0. Len(s) \in Nat /\ (s # <<>> => Last(s) = s[Len(s)] /\ Len(s) - 1 \in 0 .. Len(s))
  BY DEF Last
<1>1. CASE token = "e" BY <1>1 DEF Cleaned
<1>2. CASE token # "e" /\ token = ">" /\ s # <<>> /\ Last(s) = "<"
  <2>1. next = SubSeq(s, 1, Len(s) - 1) BY <1>2 DEF Cleaned, Front
  <2>2. PICK n : n = Len(s) - 1 OBVIOUS
  <2>3. n \in 0 .. Len(s) /\ n <= Len(s) + 1 BY <1>0, <1>2, <2>2
  <2>4. SubSeq(s, 1, n) \in Seq(S) /\ Len(SubSeq(s, 1, n)) = n BY <2>3, BeginningOf
  <2>5. Markers(SubSeq(s, 1, n)) = {} BY <2>3, NoMarkersBefore
  <2> QED BY <2>1, <2>2, <2>3, <2>4, <2>5
<1>3. CASE token # "e" /\ ~(token = ">" /\ s # <<>> /\ Last(s) = "<")
  <2>1. next = Append(s, token) BY <1>3 DEF Cleaned
  <2>2. ~(token = ">" /\ s # <<>> /\ s[Len(s)] = "<") BY <1>0, <1>3
  <2>3. Len(Append(s, token)) = Len(s) + 1 OBVIOUS
  <2> QED BY <1>3, <2>1, <2>2, <2>3, NoMarkersAdded
<1> QED BY <1>1, <1>2, <1>3

\* _clean_direct_native_answer, of any text: no marker is left.
LEMMA CleanHasNoMarkers ==
  ASSUME NEW S, NEW s \in Seq(S)
  PROVE  Clean(s) \in Seq(S) /\ Markers(Clean(s)) = {} /\ Len(Clean(s)) <= Len(s)
<1>0. PICK n : n = Len(s) OBVIOUS
<1>1. n \in Nat /\ DOMAIN s = 1 .. n /\ \A i \in 1 .. n : s[i] \in S BY <1>0
<1>2. PICK A : A = Seq(S) OBVIOUS
<1> DEFINE Good == {done \in A : Markers(done) = {}}
           take == [x \in Good \X (1 .. n) |-> Cleaned(x[1], s[x[2]])]
           Follows(g) == g = [p \in SUBSET DOMAIN s |->
                               IF p = {} THEN <<>>
                               ELSE Cleaned(g[p \ {Max(p)}], s[Max(p)])]
           run == CHOOSE g : Follows(g)
           Within == [i \in 0 .. n |-> {done \in Good : Len(done) <= i}]
<1>3. Clean(s) = run[1 .. n]
  <2>1. Clean(s) = run[DOMAIN s]
    BY DEF Clean, FoldLeft, MapThenFoldSet
  <2> QED BY <1>1, <2>1
<1>4. PICK base : base = <<>> OBVIOUS
<1>5. base \in Good
  <2>1. base \in A BY <1>2, <1>4
  <2>2. Markers(base) = {} BY <1>4 DEF Markers
  <2> QED BY <2>1, <2>2
<1>6. ASSUME NEW done \in Good, NEW i \in 1 .. n
      PROVE  Cleaned(done, s[i]) \in Good /\ Len(Cleaned(done, s[i])) <= Len(done) + 1
  <2>1. PICK next : next = Cleaned(done, s[i]) OBVIOUS
  <2>2. done \in Seq(S) /\ s[i] \in S /\ Markers(done) = {} BY <1>1, <1>2
  <2>3. next \in Seq(S) /\ Markers(next) = {} /\ Len(next) <= Len(done) + 1
    BY ONLY <2>1, <2>2, CleanedKeeps
  <2> QED BY <1>2, <2>1, <2>3
<1>7. take \in [Good \X (1 .. n) -> Good]
  <2> HIDE DEF Good
  <2> QED BY <1>6
<1>8. PICK g : FollowsFold(g, Good, n, base, take)
  <2>1. n \in Nat /\ FoldStep(take, Good, n) BY <1>1, <1>7 DEF FoldStep
  <2> HIDE DEF take, Good
  <2> QED BY <1>5, <2>1, FoldExists
<1>9. ASSUME NEW p \in SUBSET (1 .. n), p # {}
      PROVE  take[<<g[p \ {Max(p)}], Max(p)>>] = Cleaned(g[p \ {Max(p)}], s[Max(p)])
  <2>1. Max(p) \in p BY <1>1, <1>9, LargestPosition
  <2> HIDE DEF Good
  <2>2. g[p \ {Max(p)}] \in Good /\ Max(p) \in 1 .. n BY <1>8, <2>1 DEF FollowsFold
  <2> QED BY <2>2
<1>10. Follows(g)
  <2> HIDE DEF take, Good
  <2>1. g \in [SUBSET DOMAIN s -> Good] BY <1>1, <1>8 DEF FollowsFold
  <2>2. ASSUME NEW p \in SUBSET DOMAIN s
        PROVE  g[p] = IF p = {} THEN <<>> ELSE Cleaned(g[p \ {Max(p)}], s[Max(p)])
    <3>1. CASE p = {} BY <1>1, <1>4, <1>8, <3>1 DEF FollowsFold
    <3>2. CASE p # {} BY <1>1, <1>8, <1>9, <3>2 DEF FollowsFold
    <3> QED BY <3>1, <3>2
  <2> QED BY <2>1, <2>2
<1>11. Follows(run) BY <1>10
<1>12. run[1 .. 0] \in Within[0]
  <2> HIDE DEF run
  <2>1. {} \in SUBSET DOMAIN s /\ 1 .. 0 = {} OBVIOUS
  <2>2. run[{}] = base
    <3> HIDE DEF Good, take
    <3> QED BY <1>4, <1>11, <2>1
  <2>3. Len(base) <= 0 BY <1>4
  <2> HIDE DEF Good
  <2> QED BY <1>1, <1>5, <2>1, <2>2, <2>3
<1>13. ASSUME NEW i \in 1 .. n, run[1 .. (i - 1)] \in Within[i - 1]
       PROVE  run[1 .. i] \in Within[i]
  <2> HIDE DEF run, Good
  <2>1. /\ Max(1 .. i) = i /\ (1 .. i) \ {i} = 1 .. (i - 1) /\ 1 .. i # {}
        /\ 1 .. i \in SUBSET (1 .. n)
    BY <1>1, FoldPrefix
  <2>2. run[1 .. i] = Cleaned(run[(1 .. i) \ {Max(1 .. i)}], s[Max(1 .. i)])
    BY <1>1, <1>11, <2>1
  <2>3. run[1 .. i] = Cleaned(run[1 .. (i - 1)], s[i]) BY <2>1, <2>2
  <2>4. i - 1 \in 0 .. n /\ i \in 0 .. n BY <1>1
  <2>5. PICK before : before = run[1 .. (i - 1)] OBVIOUS
  <2>6. before \in Good /\ Len(before) <= i - 1 BY <1>13, <2>4, <2>5
  <2>7. PICK after : after = Cleaned(before, s[i]) OBVIOUS
  <2>8. after \in Good /\ Len(after) <= Len(before) + 1 BY <1>6, <2>6, <2>7
  <2>9. Len(before) \in Nat /\ Len(after) \in Nat
    <3>1. before \in Seq(S) /\ after \in Seq(S) BY <1>2, <2>6, <2>8 DEF Good
    <3> QED BY <3>1
  <2>10. Len(after) <= i BY <2>6, <2>8, <2>9
  <2> QED BY <2>3, <2>4, <2>5, <2>7, <2>8, <2>10
<1>14. run[1 .. n] \in Within[n]
  <2> HIDE DEF run, Within
  <2> QED BY <1>1, <1>12, <1>13, FoldStaysWithin
<1>15. PICK done : done = run[1 .. n] OBVIOUS
<1>16. done \in Seq(S) /\ Markers(done) = {} /\ Len(done) <= n
  <2> HIDE DEF run
  <2>1. n \in 0 .. n BY <1>1
  <2> QED BY <1>2, <1>14, <1>15, <2>1
<1> HIDE DEF run
<1> QED BY <1>0, <1>3, <1>15, <1>16

LEMMA NoticeAdded ==
  ASSUME NEW s \in Seq(Shows), Markers(s) = {}
  PROVE  s \o Notice \in Seq(Shows) /\ Markers(s \o Notice) = {}
<1>1. PICK token : token = "!" OBVIOUS
<1>2. token \in Shows /\ token # "e" /\ token # ">" BY <1>1 DEF Shows
<1>3. s \o Notice = Append(s, token) BY <1>1 DEF Notice
<1> QED BY <1>2, <1>3, NoMarkersAdded

\* What has been sent of a continuation: a beginning of its text, up to where
\* a marker might still begin; and once the text ends, no more than is safe.
ReadingSafely ==
  /\ gen.guard = "" /\ Markers(gen.text) = {}
  /\ gen.sent <= SafeEmitEnd(gen.text) /\ shown = SubSeq(gen.text, 1, gen.sent)
  /\ gen.pieces = 0 => gen.sent = 0

EndedSafely ==
  /\ gen.guard = "" => gen.sent <= Len(gen.text) /\ shown = SubSeq(gen.text, 1, gen.sent)
  /\ gen.guard = "markup" => IsPrefix(shown, gen.text)
  /\ gen.guard # "" => Markers(gen.text) = {}

GeneratorSafe ==
  /\ gen.mode = "continuation" /\ gen.stage # "none"
  /\ gen.text \in Seq(Shows) /\ gen.pending \in Seq(Tokens)
  /\ gen.sent \in Nat /\ gen.pieces \in Nat
  /\ ~gen.streamed => shown = <<>>
  /\ gen.stage = "reading" => ReadingSafely
  /\ gen.stage = "ended" => EndedSafely
  /\ gen.stage = "gate" => Markers(gen.text) = {}

Continues == turn.continues /\ ~turn.internal

\* An answer from tool results, wherever its turn is.
ContinuedSafely ==
  /\ turn.native /\ calls = <<>> /\ ~gen.spec
  /\ phase \in {"loading", "native", "live", "answered", "left", "failed"}
  /\ shown \in Seq(Shows) /\ Markers(shown) = {}
  /\ phase = "live" \/ gen.stage # "none" => GeneratorSafe

MarkupInv ==
  /\ DOMAIN turn = {"rag", "internal", "native", "continues", "rows"}
  /\ phase = "received" => ~turn.continues /\ gen.stage = "none"
  /\ phase \in {"loading", "native"} /\ Continues => gen.stage = "none"
  /\ Continues => ContinuedSafely

\* The adapter's normalizer gives something once it has decided.
LEMMA NormalGives ==
  ASSUME gen.pending \in Seq(Tokens), NEW piece \in Tokens, Settled(piece)
  PROVE  Normal(piece) \in Seq(Tokens) /\ Len(Normal(piece)) >= 1
<1>1. CASE gen.settled BY <1>1 DEF Normal
<1>2. CASE ~gen.settled
  <2>1. PICK b : b = Buffer(piece) OBVIOUS
  <2>2. b \in Seq(Tokens) /\ Len(b) = Len(gen.pending) + 1 /\ Len(gen.pending) \in Nat
    BY <2>1 DEF Buffer
  <2>3. b # <<"e">> /\ Normal(piece) = Decided(b)
    BY <1>2, <2>1 DEF Settled, Undecided, Normal
  <2>4. CASE Head(b) # "e" BY <2>2, <2>3, <2>4 DEF Decided
  <2>5. CASE Head(b) = "e"
    <3>1. Normal(piece) = Tail(b) BY <2>3, <2>5 DEF Decided
    <3>2. b # <<>> /\ Tail(b) \in Seq(Tokens) /\ Len(Tail(b)) = Len(b) - 1
      BY <2>2
    <3>3. Len(b) # 1
      <4>1. SUFFICES ASSUME Len(b) = 1 PROVE FALSE OBVIOUS
      <4>2. b[1] = "e" BY <2>5, <3>2
      <4>3. b = <<"e">> BY <2>2, <4>1, <4>2
      <4> QED BY <2>3, <4>3
    <3> QED BY <2>2, <3>1, <3>2, <3>3
  <2> QED BY <2>4, <2>5
<1> QED BY <1>1, <1>2

LEMMA TokensShow == \A s \in Seq(Tokens) : s \in Seq(Shows)
BY DEF Shows

LEMMA TextsShow == \A s \in Texts : s \in Seq(Shows)
<1>1. ASSUME NEW s \in Texts PROVE s \in Seq(Tokens)
  <2>1. PICK n \in 0 .. MaxPieces : s \in [1 .. n -> Tokens] BY DEF Texts
  <2>2. n \in Nat BY ChatAssumption
  <2> QED BY <2>1, <2>2
<1> QED BY <1>1, TokensShow

\* What may be sent of a text stays so when the text grows.
LEMMA SafeEnds ==
  ASSUME NEW S, NEW s \in Seq(S), NEW t \in Seq(S), Len(t) >= 1
  PROVE  /\ SafeEmitEnd(s) \in 0 .. Len(s)
         /\ SafeEmitEnd(s) <= SafeEmitEnd(s \o t)
         /\ SafeEmitEnd(s \o t) \in 0 .. Len(s \o t)
<1>1. /\ s \o t \in Seq(S) /\ Len(s \o t) = Len(s) + Len(t) /\ Len(s) \in Nat /\ Len(t) \in Nat
      /\ s # <<>> => Len(s) >= 1
  OBVIOUS
<1> QED BY <1>1 DEF SafeEmitEnd

\* A marker that a piece completes begins where nothing has been sent yet.
LEMMA MarkerUnsent ==
  ASSUME NEW S, NEW s \in Seq(S), NEW t \in Seq(S), Markers(s) = {},
         NEW m \in Markers(s \o t)
  PROVE  SafeEmitEnd(s) <= m - 1
<1>1. PICK c : c = s \o t OBVIOUS
<1>2. /\ c \in Seq(S) /\ Len(s) \in Nat /\ Len(c) = Len(s) + Len(t) /\ Len(t) \in Nat
      /\ \A i \in 1 .. Len(s) : c[i] = s[i]
  BY <1>1
<1>3. m \in 1 .. Len(c) /\ MarkerAt(c, m) BY <1>1 DEF Markers
<1>4. CASE m > Len(s) BY <1>2, <1>3, <1>4 DEF SafeEmitEnd
<1>5. CASE m \in 1 .. Len(s) /\ m # Len(s)
  <2>1. m + 1 \in 1 .. Len(s) /\ m \in 1 .. Len(s) BY <1>2, <1>5
  <2>2. c[m] = s[m] /\ c[m + 1] = s[m + 1] BY <1>2, <2>1
  <2>3. MarkerAt(s, m) BY <1>2, <1>3, <2>1, <2>2 DEF MarkerAt, TagAt
  <2> QED BY <2>1, <2>3 DEF Markers
<1>6. CASE m \in 1 .. Len(s) /\ m = Len(s)
  <2>1. c[m] = s[m] BY <1>2, <1>6
  <2>2. s[m] # "e" BY <1>6 DEF Markers, MarkerAt
  <2>3. s[m] = "<" BY <1>3, <2>1, <2>2 DEF MarkerAt, TagAt
  <2>4. s # <<>> BY <1>6
  <2> QED BY <1>2, <1>6, <2>3, <2>4 DEF SafeEmitEnd
<1> QED BY <1>2, <1>3, <1>4, <1>5, <1>6

ShownSafely == shown \in Seq(Shows) /\ Markers(shown) = {}

\* A continuation that is being generated.
LiveSafely ==
  DOMAIN gen = Fields /\ phase = "live" /\ ~gen.spec /\ ShownSafely /\ GeneratorSafe

LEMMA HoldSafely ==
  ASSUME LiveSafely, NEW piece \in Tokens, HoldPiece(piece)
  PROVE  ShownSafely' /\ GeneratorSafe'
<1>1. UNCHANGED shown /\ gen.stage = "reading" /\ gen.pieces \in Nat /\ gen.pending \in Seq(Tokens)
  BY DEF HoldPiece, Quiet, MorePieces, Reading, LiveSafely, GeneratorSafe
<1>2. PICK b : b = Buffer(piece) OBVIOUS
<1>3. b \in Seq(Tokens) BY <1>1, <1>2 DEF Buffer
<1>4. gen' = [gen EXCEPT !.pieces = @ + 1, !.pending = b] BY <1>2 DEF HoldPiece
<1>5. /\ gen'.mode = gen.mode /\ gen'.stage = "reading" /\ gen'.text = gen.text
      /\ gen'.sent = gen.sent /\ gen'.guard = gen.guard /\ gen'.streamed = gen.streamed
      /\ gen'.pending = b /\ gen'.pieces = gen.pieces + 1
  BY <1>1, <1>4, FieldNames DEF LiveSafely
<1>6. ReadingSafely BY <1>1 DEF LiveSafely, GeneratorSafe
<1>7. ReadingSafely'
  <2>1. gen'.pieces # 0 BY <1>1, <1>5
  <2> QED BY ONLY <1>1, <1>5, <1>6, <2>1 DEF ReadingSafely
<1>8. gen'.pieces \in Nat BY <1>1, <1>5
<1>9. ShownSafely' BY <1>1 DEF LiveSafely, ShownSafely
<1>10. GeneratorSafe'
  <2>1. GeneratorSafe BY DEF LiveSafely
  <2> QED BY ONLY <1>1, <1>3, <1>5, <1>7, <1>8, <2>1 DEF GeneratorSafe
<1> QED BY <1>9, <1>10

LEMMA CandidateTyped ==
  ASSUME LiveSafely, NEW piece \in Tokens, Settled(piece), gen.stage = "reading"
  PROVE  \E t \in Seq(Shows) :
           /\ Len(t) >= 1 /\ Candidate(piece) = gen.text \o t
           /\ Candidate(piece) \in Seq(Shows) /\ Len(Candidate(piece)) = Len(gen.text) + Len(t)
           /\ gen.sent \in 0 .. SafeEmitEnd(gen.text)
           /\ SafeEmitEnd(gen.text) \in 0 .. Len(gen.text)
           /\ SafeEmitEnd(gen.text) <= SafeEmitEnd(Candidate(piece))
           /\ SafeEmitEnd(Candidate(piece)) \in 0 .. Len(Candidate(piece))
           /\ shown = SubSeq(Candidate(piece), 1, gen.sent)
<1>1. gen.pending \in Seq(Tokens) /\ gen.text \in Seq(Shows) /\ ReadingSafely /\ gen.sent \in Nat
  BY DEF LiveSafely, GeneratorSafe
<1>2. PICK t : t = Normal(piece) OBVIOUS
<1>3. t \in Seq(Shows) /\ Len(t) >= 1 BY <1>1, <1>2, NormalGives, TokensShow
<1>4. PICK s : s = gen.text OBVIOUS
<1>5. s \in Seq(Shows) /\ Candidate(piece) = s \o t BY <1>1, <1>2, <1>4 DEF Candidate
<1>6. s \o t \in Seq(Shows) /\ Len(s \o t) = Len(s) + Len(t) /\ Len(s) \in Nat BY <1>3, <1>5
<1>7. /\ SafeEmitEnd(s) \in 0 .. Len(s) /\ SafeEmitEnd(s) <= SafeEmitEnd(s \o t)
      /\ SafeEmitEnd(s \o t) \in 0 .. Len(s \o t)
  BY <1>3, <1>5, SafeEnds
<1>8. gen.sent \in 0 .. SafeEmitEnd(s) /\ shown = SubSeq(s, 1, gen.sent)
  <2>1. gen.sent <= SafeEmitEnd(s) /\ shown = SubSeq(s, 1, gen.sent)
    BY ONLY <1>1, <1>4 DEF ReadingSafely
  <2>2. SafeEmitEnd(s) \in Nat BY <1>6, <1>7
  <2> QED BY ONLY <1>1, <2>1, <2>2
<1>9. gen.sent \in 0 .. Len(s) BY <1>6, <1>7, <1>8
<1>10. SubSeq(s \o t, 1, gen.sent) = SubSeq(s, 1, gen.sent)
  BY <1>3, <1>5, <1>9, SameBeginning
<1> QED BY <1>3, <1>4, <1>5, <1>6, <1>7, <1>8, <1>10

LEMMA BlockSafely ==
  ASSUME LiveSafely, NEW piece \in Tokens, BlockMarkup(piece)
  PROVE  ShownSafely' /\ GeneratorSafe'
<1>1. /\ UNCHANGED shown /\ gen.stage = "reading" /\ Settled(piece)
      /\ Markers(Candidate(piece)) # {}
  BY DEF BlockMarkup, Quiet, MorePieces, Reading, Forbidden
<1>2. PICK t \in Seq(Shows) :
           /\ Len(t) >= 1 /\ Candidate(piece) = gen.text \o t
           /\ Candidate(piece) \in Seq(Shows)
           /\ gen.sent \in 0 .. SafeEmitEnd(gen.text)
           /\ SafeEmitEnd(gen.text) \in 0 .. Len(gen.text)
           /\ shown = SubSeq(Candidate(piece), 1, gen.sent)
  BY <1>1, CandidateTyped
<1>3. PICK c : c = Candidate(piece) OBVIOUS
<1>4. c \in Seq(Shows) BY <1>2, <1>3
<1>5. PICK m \in Markers(c) :
           /\ BeforeMarker(c) = SubSeq(c, 1, m - 1) /\ m - 1 \in 0 .. Len(c)
           /\ Markers(SubSeq(c, 1, m - 1)) = {}
  BY <1>1, <1>3, <1>4, BeforeFirst
<1>6. gen.text \in Seq(Shows) /\ Markers(gen.text) = {}
  BY <1>1 DEF LiveSafely, GeneratorSafe, ReadingSafely
<1>7. gen.sent <= m - 1
  <2>1. SafeEmitEnd(gen.text) <= m - 1 BY <1>2, <1>3, <1>5, <1>6, MarkerUnsent
  <2> QED BY <1>2, <1>5, <2>1
<1>8. PICK p : p = BeforeMarker(c) OBVIOUS
<1>9. p \in Seq(Shows) /\ Len(p) = m - 1 /\ Markers(p) = {}
  BY <1>4, <1>5, <1>8, BeginningOf
<1>10. IsPrefix(shown, p)
  <2>1. gen.sent \in 0 .. Len(c) /\ gen.sent \in 0 .. Len(p) BY <1>2, <1>5, <1>7, <1>9
  <2>2. PICK q : q = shown OBVIOUS
  <2>3. q = SubSeq(c, 1, gen.sent) BY <1>2, <1>3, <2>2
  <2>4. q \in Seq(Shows) /\ Len(q) = gen.sent /\ \A i \in 1 .. gen.sent : q[i] = c[i]
    BY <1>4, <2>1, <2>3, BeginningOf
  <2>5. \A i \in 1 .. gen.sent : p[i] = c[i]
    <3>1. \A i \in 1 .. m - 1 : p[i] = c[i] BY <1>4, <1>5, <1>8, BeginningOf
    <3> QED BY <1>5, <1>7, <2>1, <3>1
  <2>6. PICK r : r = SubSeq(p, 1, gen.sent) OBVIOUS
  <2>7. r \in Seq(Shows) /\ Len(r) = gen.sent /\ \A i \in 1 .. gen.sent : r[i] = p[i]
    BY <1>9, <2>1, <2>6, BeginningOf
  <2>8. r = q BY <2>4, <2>5, <2>7
  <2>9. SubSeq(q, 1, Len(q)) = q
    <3>1. PICK u : u = SubSeq(q, 1, Len(q)) OBVIOUS
    <3>2. Len(q) \in 0 .. Len(q) BY <2>1, <2>4
    <3>3. u \in Seq(Shows) /\ Len(u) = Len(q) /\ \A i \in 1 .. Len(q) : u[i] = q[i]
      BY <2>4, <3>1, <3>2, BeginningOf
    <3> QED BY <2>4, <3>1, <3>3
  <2> QED BY <1>9, <2>1, <2>2, <2>4, <2>6, <2>8, <2>9 DEF IsPrefix
<1>11. gen' = [gen EXCEPT !.pieces = @ + 1, !.pending = <<>>, !.settled = TRUE,
                          !.text = p, !.guard = "markup", !.stage = "ended"]
  BY <1>3, <1>8 DEF BlockMarkup, Read
<1>12. /\ gen'.mode = gen.mode /\ gen'.stage = "ended" /\ gen'.text = p
       /\ gen'.sent = gen.sent /\ gen'.guard = "markup" /\ gen'.streamed = gen.streamed
       /\ gen'.pending = <<>> /\ gen'.pieces = gen.pieces + 1
  BY <1>11, FieldNames DEF LiveSafely
<1> QED
  BY <1>1, <1>9, <1>10, <1>12 DEF LiveSafely, ShownSafely, GeneratorSafe, EndedSafely

LEMMA LoopSafely ==
  ASSUME LiveSafely, NEW piece \in Tokens, StopLoop(piece)
  PROVE  ShownSafely' /\ GeneratorSafe'
<1>1. /\ UNCHANGED shown /\ gen.stage = "reading" /\ Settled(piece)
      /\ Markers(Candidate(piece)) = {}
  BY DEF StopLoop, Quiet, MorePieces, Reading, Forbidden, LiveSafely, GeneratorSafe
<1>2. PICK c : c = CutLoop(Candidate(piece)) OBVIOUS
<1>3. c \in Seq(Shows) /\ Markers(c) = {} BY <1>1, <1>2, CandidateTyped, NoMarkersCut
<1>4. gen' = [gen EXCEPT !.pieces = @ + 1, !.pending = <<>>, !.settled = TRUE,
                         !.text = c, !.guard = "repeated", !.stage = "ended"]
  BY <1>2 DEF StopLoop, Read
<1>5. /\ gen'.mode = gen.mode /\ gen'.stage = "ended" /\ gen'.text = c
      /\ gen'.sent = gen.sent /\ gen'.guard = "repeated" /\ gen'.streamed = gen.streamed
      /\ gen'.pending = <<>> /\ gen'.pieces = gen.pieces + 1
  BY <1>4, FieldNames DEF LiveSafely
<1> QED BY <1>1, <1>3, <1>5 DEF LiveSafely, ShownSafely, GeneratorSafe, EndedSafely

LEMMA EmitSafely ==
  ASSUME LiveSafely, NEW piece \in Tokens, EmitPiece(piece)
  PROVE  ShownSafely' /\ GeneratorSafe'
<1>0. gen.mode = "continuation" /\ ~gen.spec BY DEF LiveSafely, GeneratorSafe
<1>1. gen.stage = "reading" /\ Settled(piece) /\ Markers(Candidate(piece)) = {}
  BY <1>0 DEF EmitPiece, MorePieces, Reading, Forbidden
<1>2. PICK c : c = Candidate(piece) OBVIOUS
<1>3. PICK safe : safe = SafeEmitEnd(c) OBVIOUS
<1>4. /\ c \in Seq(Shows) /\ Len(c) \in Nat /\ gen.sent \in 0 .. Len(c)
      /\ safe \in gen.sent .. Len(c) /\ shown = SubSeq(c, 1, gen.sent)
  <2>1. PICK t \in Seq(Shows) :
           /\ c \in Seq(Shows) /\ Len(c) = Len(gen.text) + Len(t)
           /\ gen.sent \in 0 .. SafeEmitEnd(gen.text)
           /\ SafeEmitEnd(gen.text) \in 0 .. Len(gen.text)
           /\ SafeEmitEnd(gen.text) <= safe /\ safe \in 0 .. Len(c)
           /\ shown = SubSeq(c, 1, gen.sent)
    BY <1>1, <1>2, <1>3, CandidateTyped
  <2> QED BY <2>1
<1>5. PICK new : new = SubSeq(c, gen.sent + 1, safe) OBVIOUS
<1>6. SentUpTo(c) = safe BY <1>0, <1>3 DEF SentUpTo
<1>7. /\ gen' = [Read(piece) EXCEPT !.text = c, !.sent = IF safe > @ THEN safe ELSE @,
                                    !.streamed = @ \/ new # <<>>]
      /\ IF new = <<>> THEN Quiet ELSE Yield(new)
  BY <1>2, <1>5, <1>6 DEF EmitPiece
<1>8. /\ gen'.mode = gen.mode /\ gen'.stage = gen.stage /\ gen'.text = c
      /\ gen'.sent = safe /\ gen'.guard = gen.guard
      /\ gen'.streamed = (gen.streamed \/ new # <<>>)
      /\ gen'.pending = <<>> /\ gen'.pieces = gen.pieces + 1
  <2>1. PICK r : r = Read(piece) OBVIOUS
  <2>2. /\ DOMAIN r = Fields /\ r.mode = gen.mode /\ r.stage = gen.stage /\ r.sent = gen.sent
        /\ r.guard = gen.guard /\ r.streamed = gen.streamed /\ r.pending = <<>>
        /\ r.pieces = gen.pieces + 1
    BY <2>1, FieldNames DEF Read, LiveSafely
  <2>3. (IF safe > gen.sent THEN safe ELSE gen.sent) = safe BY <1>4
  <2> QED BY <1>7, <2>1, <2>2, <2>3, FieldNames
<1>9. shown' = SubSeq(c, 1, safe)
  <2>1. shown \o new = SubSeq(c, 1, safe) BY <1>4, <1>5, SentFurther
  <2>2. CASE new = <<>>
    <3>1. shown \in Seq(Shows) BY DEF LiveSafely, ShownSafely
    <3>2. shown \o new = shown BY <2>2, <3>1
    <3> QED BY <1>7, <2>1, <2>2, <3>2 DEF Quiet
  <2>3. CASE new # <<>> BY <1>0, <1>7, <2>1, <2>3 DEF Yield
  <2> QED BY <2>2, <2>3
<1>10. ShownSafely'
  <2>1. safe \in 0 .. Len(c) BY <1>4
  <2>2. SubSeq(c, 1, safe) \in Seq(Shows) BY <1>4, <2>1, BeginningOf
  <2>3. Markers(SubSeq(c, 1, safe)) = {} BY <1>1, <1>2, <1>4, <2>1, NoMarkersBefore
  <2> QED BY <1>9, <2>2, <2>3 DEF ShownSafely
<1>11. ReadingSafely'
  <2>1. ReadingSafely BY <1>1 DEF LiveSafely, GeneratorSafe
  <2>2. gen'.pieces # 0 BY <1>8 DEF LiveSafely, GeneratorSafe
  <2>3. gen'.sent <= SafeEmitEnd(gen'.text) BY <1>3, <1>4, <1>8
  <2> QED BY ONLY <1>1, <1>2, <1>8, <1>9, <2>1, <2>2, <2>3 DEF ReadingSafely
<1>12. ~gen'.streamed => shown' = <<>>
  <2>1. ~gen.streamed => shown = <<>> BY DEF LiveSafely, GeneratorSafe
  <2> QED BY <1>7, <1>8, <2>1 DEF Quiet
<1>13. gen'.pieces \in Nat /\ gen'.sent \in Nat /\ gen'.pending \in Seq(Tokens)
  BY <1>4, <1>8 DEF LiveSafely, GeneratorSafe
<1> QED BY ONLY <1>0, <1>1, <1>4, <1>8, <1>10, <1>11, <1>12, <1>13 DEF GeneratorSafe

\* The text ends without another piece.
LEMMA BackendSafely ==
  ASSUME LiveSafely, BackendDone \/ BackendFails \/ BlockCalls \/ \E loops : EmitReasoning(loops)
  PROVE  ShownSafely' /\ GeneratorSafe'
<1>1. gen.stage = "reading" /\ ReadingSafely /\ gen.text \in Seq(Shows)
  BY DEF BackendDone, BackendFails, BlockCalls, EmitReasoning, Reading, LiveSafely, GeneratorSafe
<1>2. UNCHANGED shown
  <2>1. CASE \E loops : EmitReasoning(loops)
    <3>1. Quiet \/ Yield(<<>>) BY <2>1 DEF EmitReasoning
    <3>2. ~gen.spec /\ shown \o <<>> = shown BY DEF LiveSafely, ShownSafely
    <3> QED BY <3>1, <3>2 DEF Quiet, Yield
  <2> QED BY <2>1 DEF BackendDone, BackendFails, BlockCalls, Quiet
<1>3. /\ gen'.mode = gen.mode /\ gen'.sent = gen.sent /\ gen'.streamed = gen.streamed
      /\ gen'.pending = gen.pending /\ gen'.pieces = gen.pieces
      /\ \/ gen'.stage = "reading" /\ gen'.text = gen.text /\ gen'.guard = gen.guard
         \/ gen'.stage = "ended" /\ gen'.text = gen.text
         \/ gen'.stage = "ended" /\ gen'.text = Notice /\ gen'.guard # ""
            /\ gen'.guard # "markup"
      /\ gen'.guard # "markup"
  <2>0. DOMAIN gen = Fields /\ gen.guard = "" BY <1>1 DEF LiveSafely, ReadingSafely
  <2>1. CASE BackendDone BY <1>1, <2>0, <2>1, FieldNames DEF BackendDone
  <2>2. CASE BackendFails BY <1>1, <2>0, <2>2, FieldNames DEF BackendFails
  <2>3. CASE BlockCalls BY <1>1, <2>0, <2>3, FieldNames DEF BlockCalls
  <2>4. ASSUME NEW loops, EmitReasoning(loops)
        PROVE  /\ \/ gen' = [gen EXCEPT !.guard = "repeated", !.stage = "ended"]
                  \/ gen' = [gen EXCEPT !.thoughts = @ + 1]
    BY <2>4 DEF EmitReasoning
  <2>5. CASE gen' = [gen EXCEPT !.guard = "repeated", !.stage = "ended"]
    BY <1>1, <2>0, <2>5, FieldNames
  <2>6. CASE gen' = [gen EXCEPT !.thoughts = @ + 1]
    BY <1>1, <2>0, <2>6, FieldNames
  <2> QED BY <2>1, <2>2, <2>3, <2>4, <2>5, <2>6
<1>4. Notice \in Seq(Shows) /\ Markers(Notice) = {}
  <2>1. PICK s : s = <<>> OBVIOUS
  <2>2. s \in Seq(Shows) /\ Markers(s) = {} /\ s \o Notice = Notice
    BY <2>1 DEF Markers, Notice
  <2> QED BY <2>2, NoticeAdded
<1>5. gen.sent <= Len(gen.text)
  <2>1. PICK s : s = gen.text OBVIOUS
  <2>2. SafeEmitEnd(s) <= Len(s) /\ SafeEmitEnd(s) \in Int /\ Len(s) \in Nat
    BY <1>1, <2>1 DEF SafeEmitEnd
  <2>3. gen.sent <= SafeEmitEnd(s) /\ gen.sent \in Nat
    BY <1>1, <2>1 DEF ReadingSafely, LiveSafely, GeneratorSafe
  <2> QED BY <2>1, <2>2, <2>3
<1>6. ShownSafely' BY <1>2 DEF LiveSafely, ShownSafely
<1>7. CASE gen'.stage = "reading" /\ gen'.text = gen.text /\ gen'.guard = gen.guard
  <2>1. ReadingSafely' BY <1>1, <1>2, <1>3, <1>7 DEF ReadingSafely
  <2> QED BY <1>2, <1>3, <1>6, <1>7, <2>1 DEF LiveSafely, GeneratorSafe
<1>8. CASE gen'.stage = "ended" /\ gen'.text = gen.text
  <2>1. EndedSafely' BY <1>1, <1>2, <1>3, <1>5, <1>8 DEF EndedSafely, ReadingSafely
  <2> QED BY <1>2, <1>3, <1>6, <1>8, <2>1 DEF LiveSafely, GeneratorSafe
<1>9. CASE gen'.stage = "ended" /\ gen'.text = Notice /\ gen'.guard # ""
           /\ gen'.guard # "markup"
  <2>1. EndedSafely' BY <1>4, <1>9 DEF EndedSafely
  <2> QED BY <1>2, <1>3, <1>4, <1>6, <1>9, <2>1 DEF LiveSafely, GeneratorSafe
<1> QED BY <1>3, <1>7, <1>8, <1>9

LEMMA NormalizedShows ==
  ASSUME NEW text \in Seq(Shows)
  PROVE  Normalized(text) \in Seq(Shows)
<1>1. CASE Undecided(text)
  <2>1. PICK n : n = Normalized(text) OBVIOUS
  <2>2. n = text \/ n = <<>> BY <1>1, <2>1 DEF Normalized, Unfinished
  <2>3. <<>> \in Seq(Shows) OBVIOUS
  <2>4. CASE n = text BY <2>1, <2>4
  <2>5. CASE n = <<>> BY <2>1, <2>3, <2>5
  <2> QED BY <2>2, <2>4, <2>5
<1>2. CASE ~Undecided(text)
  <2>1. text # <<>> BY <1>2 DEF Undecided
  <2>2. Tail(text) \in Seq(Shows) BY <2>1
  <2> QED BY <1>2, <2>2 DEF Normalized, Decided
<1> QED BY <1>1, <1>2

LEMMA JsonSafely ==
  ASSUME LiveSafely, NEW text \in Texts, NEW proposes, JsonAnswer(text, proposes)
  PROVE  ShownSafely' /\ GeneratorSafe'
<1>1. gen.stage = "reading" /\ ReadingSafely /\ gen.pieces = 0 /\ UNCHANGED shown
  BY DEF JsonAnswer, Reading, Quiet, LiveSafely, GeneratorSafe
<1>2. gen.sent = 0 /\ shown = <<>>
  <2>1. gen.sent = 0 /\ shown = SubSeq(gen.text, 1, gen.sent) BY <1>1 DEF ReadingSafely
  <2>2. PICK n \in Int : n = 0 OBVIOUS
  <2>3. PICK m \in Int : m = 1 OBVIOUS
  <2>4. SubSeq(gen.text, m, n) = <<>> BY <2>2, <2>3, SubSeqEmpty
  <2> QED BY <2>1, <2>2, <2>3, <2>4
<1>3. text \in Seq(Shows) BY TextsShow
<1>4. PICK blocked \in BOOLEAN : blocked = (gen.mode = "continuation" /\ proposes)
  <2>1. (gen.mode = "continuation" /\ proposes) \in BOOLEAN OBVIOUS
  <2> QED BY <2>1
<1>5. PICK answer : answer = IF blocked THEN <<>>
                             ELSE IF gen.settled THEN text ELSE Normalized(text)
  OBVIOUS
<1>6. answer \in Seq(Shows) /\ (blocked => answer = <<>>)
  <2>1. Normalized(text) \in Seq(Shows) BY <1>3, NormalizedShows
  <2> QED BY <1>3, <1>5, <2>1
<1>7. gen' = [gen EXCEPT !.stage = "ended", !.settled = TRUE, !.text = answer,
                         !.guard = IF blocked THEN "calls" ELSE ""]
  BY <1>4, <1>5 DEF JsonAnswer
<1>8. /\ gen'.mode = gen.mode /\ gen'.stage = "ended" /\ gen'.text = answer
      /\ gen'.sent = gen.sent /\ gen'.guard = (IF blocked THEN "calls" ELSE "")
      /\ gen'.streamed = gen.streamed /\ gen'.pending = gen.pending
      /\ gen'.pieces = gen.pieces
  BY <1>7, FieldNames DEF LiveSafely
<1>9. EndedSafely'
  <2>1. CASE blocked
    <3>1. gen'.text = <<>> /\ gen'.guard = "calls" BY <1>6, <1>8, <2>1
    <3>2. Markers(gen'.text) = {} BY <3>1 DEF Markers
    <3> QED BY <3>1, <3>2 DEF EndedSafely
  <2>2. CASE ~blocked
    <3>1. gen'.guard = "" /\ gen'.sent = 0 BY <1>2, <1>8, <2>2
    <3>2. Len(answer) \in Nat BY ONLY <1>6
    <3>3. PICK n \in Int, m \in Int : n = 0 /\ m = 1 OBVIOUS
    <3>4. SubSeq(answer, m, n) = <<>> BY <3>3, SubSeqEmpty
    <3>5. PICK t, k : t = gen'.text /\ k = gen'.sent OBVIOUS
    <3>6. t = answer /\ k = n /\ shown' = <<>> BY <1>1, <1>2, <1>8, <3>1, <3>3, <3>5
    <3>7. k <= Len(t) BY <3>2, <3>3, <3>6
    <3>8. shown' = SubSeq(t, m, k) BY ONLY <3>4, <3>6
    <3>9. shown' = SubSeq(gen'.text, 1, gen'.sent) BY ONLY <3>3, <3>5, <3>8
    <3> QED BY ONLY <3>1, <3>5, <3>7, <3>9 DEF EndedSafely
  <2> QED BY <2>1, <2>2
<1> QED BY <1>1, <1>6, <1>8, <1>9 DEF LiveSafely, ShownSafely, GeneratorSafe

\* Before the end only a gated text is looked at again.
LEMMA GateSafely ==
  ASSUME LiveSafely, PassGate \/ SendTerminal
  PROVE  ShownSafely' /\ GeneratorSafe'
<1>1. CASE SendTerminal
  <2>1. UNCHANGED shown
    <3>1. shown \o <<>> = shown /\ ~gen.spec BY DEF LiveSafely, ShownSafely
    <3> QED BY <1>1, <3>1 DEF SendTerminal, Yield
  <2>2. gen' = [gen EXCEPT !.stage = "done"] BY <1>1 DEF SendTerminal
  <2>3. /\ gen'.mode = gen.mode /\ gen'.stage = "done" /\ gen'.text = gen.text
        /\ gen'.sent = gen.sent /\ gen'.guard = gen.guard /\ gen'.streamed = gen.streamed
        /\ gen'.pending = gen.pending /\ gen'.pieces = gen.pieces
    BY <2>2, FieldNames DEF LiveSafely
  <2> QED BY <2>1, <2>3 DEF LiveSafely, ShownSafely, GeneratorSafe
<1>2. CASE PassGate
  <2>1. PICK reply : reply = IF ~gen.refused /\ gen.text = <<>> THEN Notice ELSE gen.text
    OBVIOUS
  <2>2. gen.text \in Seq(Shows) /\ Markers(gen.text) = {} /\ ~gen.spec
    BY <1>2 DEF PassGate, LiveSafely, GeneratorSafe
  <2>3. reply \in Seq(Shows) /\ Markers(reply) = {}
    <3>1. PICK s : s = <<>> OBVIOUS
    <3>2. s \in Seq(Shows) /\ Markers(s) = {} /\ s \o Notice = Notice
      BY <3>1 DEF Markers, Notice
    <3>3. Notice \in Seq(Shows) /\ Markers(Notice) = {} BY <3>2, NoticeAdded
    <3> QED BY <2>1, <2>2, <3>3
  <2>4. shown' = shown \o (IF gen.streamed THEN <<>> ELSE reply)
    BY <1>2, <2>1, <2>2 DEF PassGate
  <2>5. shown' = shown \/ shown' = reply
    <3>1. shown \in Seq(Shows) /\ (~gen.streamed => shown = <<>>)
      BY DEF LiveSafely, ShownSafely, GeneratorSafe
    <3>2. shown \o <<>> = shown /\ <<>> \o reply = reply BY <2>3, <3>1
    <3> QED BY <2>4, <3>1, <3>2
  <2>6. ShownSafely' BY <2>3, <2>5 DEF LiveSafely, ShownSafely
  <2>7. PICK stage \in {"done", "terminal"} :
          stage = IF gen.streamed THEN "done" ELSE "terminal"
    OBVIOUS
  <2>8. gen' = [gen EXCEPT !.text = reply, !.streamed = TRUE,
                  !.guard = IF (~gen.refused /\ gen.text = <<>>) /\ @ = "" THEN "empty" ELSE @,
                  !.stage = stage]
    BY <1>2, <2>1, <2>7 DEF PassGate
  <2>9. /\ gen'.mode = gen.mode /\ gen'.stage = stage /\ gen'.text = reply
        /\ gen'.sent = gen.sent /\ gen'.streamed = TRUE
        /\ gen'.pending = gen.pending /\ gen'.pieces = gen.pieces
    BY <2>8, FieldNames DEF LiveSafely
  <2> QED BY <2>3, <2>6, <2>7, <2>9 DEF LiveSafely, GeneratorSafe
<1> QED BY <1>1, <1>2

\* What is sent when a text that no guard stopped is complete.
LEMMA RestSafely ==
  ASSUME NEW text \in Seq(Shows), NEW tail \in Seq(Shows), NEW sent \in 0 .. Len(text),
         NEW before, before = SubSeq(text, 1, sent), Markers(text \o tail) = {}
  PROVE  LET all == before \o SubSeq(text \o tail, sent + 1, Len(text \o tail))
         IN all \in Seq(Shows) /\ Markers(all) = {}
<1>1. PICK whole : whole = text \o tail OBVIOUS
<1>2. /\ whole \in Seq(Shows) /\ Len(whole) = Len(text) + Len(tail)
      /\ Len(text) \in Nat /\ Len(tail) \in Nat
  BY <1>1
<1>3. PICK n : n = Len(whole) OBVIOUS
<1>4. n \in 0 .. Len(whole) /\ sent \in 0 .. Len(whole) /\ n \in sent .. Len(whole)
  BY <1>2, <1>3
<1>5. before = SubSeq(whole, 1, sent) BY <1>1, SameBeginning
<1>6. before \o SubSeq(whole, sent + 1, n) = SubSeq(whole, 1, n)
  BY <1>2, <1>4, <1>5, SentFurther
<1>7. SubSeq(whole, 1, n) \in Seq(Shows) /\ Markers(SubSeq(whole, 1, n)) = {}
  BY <1>1, <1>2, <1>4, BeginningOf, NoMarkersBefore
<1> QED BY <1>1, <1>3, <1>6, <1>7

LEMMA ConcludeSafely ==
  ASSUME LiveSafely, Conclude
  PROVE  ShownSafely' /\ GeneratorSafe'
<1>1. /\ gen.stage = "ended" /\ EndedSafely /\ gen.mode = "continuation" /\ ~gen.spec
      /\ gen.text \in Seq(Shows) /\ gen.pending \in Seq(Tokens) /\ gen.sent \in Nat
      /\ shown \in Seq(Shows) /\ Markers(shown) = {} /\ (~gen.streamed => shown = <<>>)
  BY DEF Conclude, LiveSafely, ShownSafely, GeneratorSafe
<1>2. PICK tail : tail = IF gen.guard = "" /\ ~gen.settled THEN Unfinished(gen.pending) ELSE <<>>
  OBVIOUS
<1>3. PICK text : text = gen.text OBVIOUS
<1>4. PICK whole : whole = text \o tail OBVIOUS
<1>5. PICK marked \in BOOLEAN : marked = (gen.guard = "" /\ Markers(whole) # {})
  <2>1. (gen.guard = "" /\ Markers(whole) # {}) \in BOOLEAN OBVIOUS
  <2> QED BY <2>1
<1>6. PICK client : client = IF marked THEN BeforeMarker(whole) ELSE whole OBVIOUS
<1>7. PICK reply : reply = Clean(client) OBVIOUS
<1>8. PICK guard : guard = IF Loops(reply) THEN "repeated"
                           ELSE IF marked THEN "markup" ELSE gen.guard
  OBVIOUS
<1>9. PICK refused \in BOOLEAN : refused = (guard \notin {"", "repeated"})
  <2>1. (guard \notin {"", "repeated"}) \in BOOLEAN OBVIOUS
  <2> QED BY <2>1
<1>10. PICK rest : rest = IF guard = "" THEN SubSeq(client, gen.sent + 1, Len(client)) ELSE <<>>
  OBVIOUS
<1>11. PICK out : out = IF refused THEN Notice ELSE rest OBVIOUS
<1>12. PICK final : final = IF refused THEN <<>> ELSE CutLoop(reply) OBVIOUS
<1>13. /\ gen' = [gen EXCEPT !.stage = "gate", !.guard = guard, !.refused = refused,
                     !.text = final, !.streamed = @ \/ out # <<>>]
       /\ IF out = <<>> THEN Quiet ELSE Yield(out)
  <2>1. marked = (gen.mode = "continuation" /\ gen.guard = "" /\ Markers(whole) # {})
    BY <1>1, <1>5
  <2>2. refused = (gen.mode = "continuation" /\ guard \notin {"", "repeated"})
    BY <1>1, <1>9
  <2>3. rest = IF gen.mode = "continuation" /\ guard = ""
               THEN SubSeq(client, gen.sent + 1, Len(client)) ELSE <<>>
    BY <1>1, <1>10
  <2> QED
    BY ONLY Conclude, <1>2, <1>3, <1>4, <1>6, <1>7, <1>8, <1>11, <1>12, <2>1, <2>2, <2>3
    DEF Conclude
<1>14. tail \in Seq(Shows)
  <2>1. <<>> \in Seq(Shows) OBVIOUS
  <2>2. gen.pending \in Seq(Shows) BY <1>1, TokensShow
  <2>3. tail = <<>> \/ tail = gen.pending BY <1>2 DEF Unfinished
  <2> QED BY <2>1, <2>2, <2>3
<1>15. text \in Seq(Shows) /\ whole \in Seq(Shows) BY <1>1, <1>3, <1>4, <1>14
<1>16. client \in Seq(Shows)
  <2>1. CASE marked
    <3>1. PICK m \in Markers(whole) :
             BeforeMarker(whole) = SubSeq(whole, 1, m - 1) /\ m - 1 \in 0 .. Len(whole)
      BY <1>5, <1>15, <2>1, BeforeFirst
    <3>2. SubSeq(whole, 1, m - 1) \in Seq(Shows) BY <1>15, <3>1, BeginningOf
    <3> QED BY <1>6, <2>1, <3>1, <3>2
  <2>2. CASE ~marked BY <1>6, <1>15, <2>2
  <2> QED BY <2>1, <2>2
<1>17. final \in Seq(Shows) /\ Markers(final) = {}
  <2>1. reply \in Seq(Shows) /\ Markers(reply) = {} BY <1>7, <1>16, CleanHasNoMarkers
  <2>2. CutLoop(reply) \in Seq(Shows) /\ Markers(CutLoop(reply)) = {} BY <2>1, NoMarkersCut
  <2>3. PICK s : s = <<>> OBVIOUS
  <2>4. s \in Seq(Shows) /\ Markers(s) = {} BY <2>3 DEF Markers
  <2>5. final = s \/ final = CutLoop(reply) BY <1>12, <2>3
  <2> QED BY <2>2, <2>4, <2>5
<1>18. shown' = shown \o out
  <2>1. CASE out = <<>>
    <3>1. shown \o <<>> = shown BY <1>1
    <3> QED BY <1>13, <2>1, <3>1 DEF Quiet
  <2>2. CASE out # <<>> BY <1>1, <1>13, <2>2 DEF Yield
  <2> QED BY <2>1, <2>2
<1>19. ShownSafely'
  <2>1. CASE refused
    <3>1. shown' = shown \o Notice BY <1>11, <1>18, <2>1
    <3>2. shown \o Notice \in Seq(Shows) /\ Markers(shown \o Notice) = {}
      BY <1>1, NoticeAdded
    <3> QED BY <3>1, <3>2 DEF ShownSafely
  <2>2. CASE ~refused /\ guard # ""
    <3>1. out = <<>> BY <1>10, <1>11, <2>2
    <3>2. shown' = shown BY <1>1, <1>18, <3>1
    <3> QED BY <1>1, <3>2 DEF ShownSafely
  <2>3. CASE ~refused /\ guard = ""
    <3>1. gen.guard = "" /\ ~marked BY <1>8, <2>3
    <3>2. client = whole /\ Markers(whole) = {} BY <1>5, <1>6, <3>1
    <3>3. gen.sent <= Len(text) /\ shown = SubSeq(text, 1, gen.sent)
      BY <1>1, <1>3, <3>1 DEF EndedSafely
    <3>4. PICK sent, before : sent = gen.sent /\ before = shown OBVIOUS
    <3>5. sent \in 0 .. Len(text) /\ before = SubSeq(text, 1, sent)
      BY <1>1, <1>15, <3>3, <3>4
    <3>6. PICK all : all = before \o SubSeq(text \o tail, sent + 1, Len(text \o tail)) OBVIOUS
    <3>7. all \in Seq(Shows) /\ Markers(all) = {}
      BY ONLY <1>4, <1>14, <1>15, <3>2, <3>5, <3>6, RestSafely
    <3>8. shown' = all
      BY <1>4, <1>10, <1>11, <1>18, <2>3, <3>2, <3>4, <3>6
    <3> QED BY <3>7, <3>8 DEF ShownSafely
  <2> QED BY <2>1, <2>2, <2>3
<1>20. /\ gen'.mode = gen.mode /\ gen'.stage = "gate" /\ gen'.text = final
       /\ gen'.sent = gen.sent /\ gen'.streamed = (gen.streamed \/ out # <<>>)
       /\ gen'.pending = gen.pending /\ gen'.pieces = gen.pieces
  BY <1>13, FieldNames DEF LiveSafely
<1>21. ~gen'.streamed => shown' = <<>>
  BY <1>1, <1>13, <1>20 DEF Quiet
<1>22. gen.pieces \in Nat BY DEF LiveSafely, GeneratorSafe
<1> QED BY <1>1, <1>17, <1>19, <1>20, <1>21, <1>22 DEF GeneratorSafe

\* Every step of generate() of a continuation.
LEMMA ContinuationGenerates ==
  ASSUME LiveSafely, Generate, ~ReturnLive
  PROVE  ShownSafely' /\ GeneratorSafe'
<1>1. ASSUME NEW piece \in Tokens,
             HoldPiece(piece) \/ BlockMarkup(piece) \/ StopLoop(piece) \/ EmitPiece(piece)
      PROVE  ShownSafely' /\ GeneratorSafe'
  BY <1>1, HoldSafely, BlockSafely, LoopSafely, EmitSafely
<1>2. CASE BackendDone \/ BackendFails \/ BlockCalls \/ \E loops : EmitReasoning(loops)
  BY <1>2, BackendSafely
<1>3. ASSUME NEW text \in Texts, NEW proposes, JsonAnswer(text, proposes)
      PROVE  ShownSafely' /\ GeneratorSafe'
  BY <1>3, JsonSafely
<1>4. CASE Conclude BY <1>4, ConcludeSafely
<1>5. CASE PassGate \/ SendTerminal BY <1>5, GateSafely
<1>6. ~ReturnSpeculative BY DEF ReturnSpeculative, LiveSafely
<1> QED BY <1>1, <1>2, <1>3, <1>4, <1>5, <1>6 DEF Generate

TurnKept ==
  /\ DOMAIN turn' = DOMAIN turn /\ turn'.continues = turn.continues
  /\ turn'.internal = turn.internal /\ turn'.native = turn.native

\* Only a request that has just come is read as a continuation.
LEMMA OnlyReceiveReads ==
  ASSUME TurnInv, MarkupInv, [ChatNext]_chatVars, ~Receive
  PROVE  /\ TurnKept
         /\ phase' = "received" => phase = "received" /\ gen' = gen
<1>1. CASE Handle
  <2>1. CASE \/ LoadContext
             \/ \E text, list : PassThrough(text, list)
             \/ \E mode : ChooseThinking(mode)
             \/ \E b : Collect(b) \/ FinalBuffered(b)
             \/ \E requested : LoopDecision(requested)
             \/ \E b, succeeded : LoopFinal(b, succeeded)
    BY <2>1 DEF LoadContext, PassThrough, ChooseThinking, Collect, FinalBuffered, Collected,
       LoopDecision, LoopFinal, TurnKept
  <2>2. CASE \/ ContinueLive \/ AnswerDirective \/ FollowDirective \/ AnswerWithoutTools
             \/ \E ok, proposes, text : ContinueDraft(ok, text, proposes)
             \/ Speculate \/ SpeculationStarted \/ PlanOnly
    BY <2>2 DEF ContinueLive, AnswerDirective, FollowDirective, AnswerWithoutTools, ContinueDraft,
       Speculate, SpeculationStarted, PlanOnly, Planned, Routed, NoToolFinal, TurnKept
  <2>3. ASSUME NEW result \in RouteResults(body), PlannerDecides(result)
        PROVE  TurnKept /\ phase' # "received"
    <3>1. CASE \/ PlannerFails \/ PlannerRefused \/ \E name : PlannerCalls(name)
               \/ \E mode : PlannerAnswers(mode)
      BY <3>1 DEF PlannerFails, PlannerCalls, PlannerAnswers, PlannerRefused, NoToolFinal, TurnKept
    <3> QED BY <2>3, <3>1, ResultDecisions DEF PlannerDecides
  <2>4. CASE \/ DecideWithModel
             \/ \E d : DecisionCalls(d) \/ DecisionCorrected(d)
    BY <2>4 DEF DecideWithModel, DecisionCalls, DecisionCorrected, TurnKept
  <2>5. ASSUME NEW d, DecisionAnswers(d) PROVE TurnKept /\ phase' # "received"
    BY <2>5 DEF DecisionAnswers, NoToolFinal, TurnKept
  <2> QED BY <1>1, <2>1, <2>2, <2>3, <2>4, <2>5 DEF Handle
<1>2. CASE Generate
  <2>1. GeneratorStep \/ ReturnLive BY <1>2, GenerateSteps
  <2>2. UNCHANGED turn /\ (phase = "received" => FALSE) /\ phase' # "received"
    BY <2>1 DEF GeneratorStep, ReturnLive, handlerVars, TurnInv, Speculating
  <2> QED BY <2>2 DEF TurnKept
<1>3. CASE Enqueue \/ Serve \/ Disturb \/ Finished \/ UNCHANGED chatVars
  BY <1>3 DEF Enqueue, Serve, ServeReleased, SendReleased, Disturb, GatewayError, LeaveReleased,
     LeaveLive, PlannerAborts, CancelledAtStart, Finished, chatVars, handlerVars, TurnKept
<1> QED BY <1>1, <1>2, <1>3 DEF ChatNext

\* A turn that is no continuation, or a service prompt.
LEMMA ElseMarkup ==
  ASSUME MarkupInv, ~Continues, TurnKept,
         phase' = "received" => phase = "received" /\ gen' = gen
  PROVE  MarkupInv'
BY DEF MarkupInv, Continues, TurnKept

LEMMA ContinuedNext ==
  ASSUME TurnInv, MarkupInv, Continues, [ChatNext]_chatVars, ~Receive
  PROVE  MarkupInv'
<1>1. TurnKept /\ phase' # "received" BY OnlyReceiveReads DEF MarkupInv, Continues
<1>2. Continues' BY <1>1 DEF Continues, TurnKept
<1>3. ContinuedSafely BY DEF MarkupInv
<1>4. SUFFICES /\ phase' \in {"loading", "native"} => gen'.stage = "none"
               /\ ContinuedSafely'
  BY <1>1, <1>2 DEF MarkupInv, TurnKept
<1>5. phase \in Open => shown = <<>> BY DEF TurnInv
<1>6. CASE LoadContext
  <2>1. /\ phase = "loading" /\ phase' = "native" /\ UNCHANGED <<turn, gen, shown, calls>>
    BY <1>3, <1>6 DEF LoadContext, ContinuedSafely
  <2>2. gen.stage = "none" BY <2>1 DEF MarkupInv
  <2> QED BY <1>3, <2>1, <2>2 DEF ContinuedSafely
<1>7. CASE ContinueLive
  <2>1. /\ phase = "native" /\ phase' = "live" /\ UNCHANGED <<turn, shown, calls>>
        /\ gen' = NewGen("continuation", settings.continuationThinking, FALSE)
    BY <1>7 DEF ContinueLive
  <2>2. gen'.spec = FALSE /\ gen'.mode = "continuation" /\ gen'.stage = "reading"
        /\ gen'.text = <<>> /\ gen'.pending = <<>> /\ gen'.sent = 0 /\ gen'.pieces = 0
        /\ gen'.streamed = FALSE /\ gen'.guard = ""
    BY <2>1 DEF NewGen, NoGen
  <2>3. shown = <<>> BY <1>5, <2>1 DEF Open
  <2>4. PICK s : s = <<>> OBVIOUS
  <2>5. s \in Seq(Shows) /\ s \in Seq(Tokens) /\ Markers(s) = {} /\ SafeEmitEnd(s) = 0
    BY <2>4 DEF Markers, SafeEmitEnd
  <2>6. SubSeq(s, 1, 0) = <<>>
    <3>1. PICK n \in Int, m \in Int : n = 0 /\ m = 1 OBVIOUS
    <3>2. SubSeq(s, m, n) = <<>> BY <3>1, SubSeqEmpty
    <3> QED BY <3>1, <3>2
  <2>7. ReadingSafely'
    <3>1. gen'.text = s /\ shown' = <<>> BY <2>1, <2>2, <2>3, <2>4
    <3>2. SafeEmitEnd(gen'.text) = 0 /\ Markers(gen'.text) = {} BY ONLY <2>5, <3>1
    <3>3. shown' = SubSeq(gen'.text, 1, gen'.sent) BY ONLY <2>2, <2>6, <3>1
    <3>4. gen'.sent <= SafeEmitEnd(gen'.text)
      <4>1. 0 <= 0 OBVIOUS
      <4> QED BY ONLY <2>2, <3>2, <4>1
    <3>5. gen'.pieces = 0 => gen'.sent = 0 BY ONLY <2>2
    <3> QED BY ONLY <2>2, <3>2, <3>3, <3>4, <3>5 DEF ReadingSafely
  <2>8. GeneratorSafe'
    <3>1. gen'.text \in Seq(Shows) /\ gen'.pending \in Seq(Tokens)
      BY ONLY <2>2, <2>4, <2>5
    <3>2. gen'.sent \in Nat /\ gen'.pieces \in Nat
      <4>1. 0 \in Nat OBVIOUS
      <4> QED BY ONLY <2>2, <4>1
    <3>3. shown' = <<>> BY <2>1, <2>3
    <3> QED BY ONLY <2>2, <2>7, <3>1, <3>2, <3>3 DEF GeneratorSafe
  <2> QED BY <1>3, <2>1, <2>2, <2>3, <2>4, <2>5, <2>8 DEF ContinuedSafely
<1>8. ASSUME NEW ok, NEW proposes, NEW text \in Texts, ContinueDraft(ok, text, proposes)
      PROVE  ContinuedSafely' /\ gen'.stage = "none"
  <2>1. /\ phase = "native" /\ phase' \in {"native", "answered"} /\ UNCHANGED <<turn, gen, calls>>
        /\ shown' \in {shown, Notice, CutLoop(Clean(text))}
    BY <1>8 DEF ContinueDraft
  <2>2. gen.stage = "none" BY <2>1 DEF MarkupInv
  <2>3. text \in Seq(Shows) BY TextsShow
  <2>4. Clean(text) \in Seq(Shows) /\ Markers(Clean(text)) = {} BY <2>3, CleanHasNoMarkers
  <2>5. CutLoop(Clean(text)) \in Seq(Shows) /\ Markers(CutLoop(Clean(text))) = {}
    BY <2>4, NoMarkersCut
  <2>6. PICK s : s = <<>> OBVIOUS
  <2>7. s \in Seq(Shows) /\ Markers(s) = {} /\ s \o Notice = Notice
    BY <2>6 DEF Markers, Notice
  <2>8. Notice \in Seq(Shows) /\ Markers(Notice) = {} BY <2>7, NoticeAdded
  <2>9. shown' \in Seq(Shows) /\ Markers(shown') = {}
    BY <1>3, <2>1, <2>5, <2>8 DEF ContinuedSafely
  <2> QED BY <1>3, <2>1, <2>2, <2>9 DEF ContinuedSafely
<1>9. CASE Generate
  <2>1. CASE ReturnLive
    BY <1>3, <2>1 DEF ReturnLive, ContinuedSafely, GeneratorSafe, ReadingSafely, EndedSafely
  <2>2. CASE ~ReturnLive
    <3>1. GeneratorStep BY <1>9, <2>2, GenerateSteps
    <3>2. phase = "live" /\ ~gen.spec /\ UNCHANGED <<phase, turn, calls>> /\ gen'.spec = gen.spec
      BY <1>3, <3>1 DEF ContinuedSafely, GeneratorStep, SpecKept, handlerVars
    <3>3. LiveSafely BY <1>3, <3>2 DEF ContinuedSafely, LiveSafely, ShownSafely, TurnInv
    <3>4. ShownSafely' /\ GeneratorSafe' BY <1>9, <2>2, <3>3, ContinuationGenerates
    <3> QED BY <1>3, <3>2, <3>4 DEF ContinuedSafely, ShownSafely
  <2> QED BY <2>1, <2>2
<1>10. CASE GatewayError \/ LeaveLive \/ Enqueue \/ Finished \/ UNCHANGED chatVars
  <2>1. /\ UNCHANGED <<turn, gen, shown, calls>>
        /\ phase' = phase \/ phase' \in {"failed", "left"}
    BY <1>10 DEF GatewayError, LeaveLive, Enqueue, Finished, chatVars, handlerVars
  <2>2. phase' = "live" => phase = "live" BY <2>1
  <2>3. phase' \in {"loading", "native"} => gen.stage = "none" BY <2>1 DEF MarkupInv
  <2>4. GeneratorSafe => GeneratorSafe'
    BY <2>1 DEF GeneratorSafe, ReadingSafely, EndedSafely
  <2> QED BY <1>3, <2>1, <2>2, <2>3, <2>4 DEF ContinuedSafely
<1>11. \/ LoadContext \/ ContinueLive \/ Generate
       \/ GatewayError \/ LeaveLive \/ Enqueue \/ Finished \/ UNCHANGED chatVars
       \/ \E ok, proposes \in BOOLEAN, text \in Texts : ContinueDraft(ok, text, proposes)
  <2>1. /\ phase \in {"loading", "native", "live", "answered", "left", "failed"}
        /\ turn.continues /\ ~Receive
    BY <1>3 DEF ContinuedSafely, Continues
  <2>2. CASE Handle
    <3>1. \/ LoadContext \/ ContinueLive
          \/ \E ok, proposes \in BOOLEAN, text \in Texts : ContinueDraft(ok, text, proposes)
      BY <2>1, <2>2 DEF Handle, Receive, ChooseThinking, LoopDecision, AnswerDirective,
         FollowDirective, AnswerWithoutTools, Routed, Speculate, Planned, SpeculationStarted,
         PlanOnly, DecideWithModel
    <3> QED BY <3>1
  <2>3. CASE Serve \/ Disturb
    <3>1. GatewayError \/ LeaveLive
      BY <2>1, <2>3 DEF Serve, ServeReleased, SendReleased, Disturb, LeaveReleased, PlannerAborts,
         CancelledAtStart
    <3> QED BY <3>1
  <2> QED BY <2>2, <2>3 DEF ChatNext
<1> QED BY <1>6, <1>7, <1>8, <1>9, <1>10, <1>11

LEMMA ReceiveMarkup ==
  ASSUME TurnInv, CallsInv, MarkupInv, Receive
  PROVE  MarkupInv'
<1>1. PICK kept : kept = MemoryWritePolicy(LibraryPolicy(body)) OBVIOUS
<1>2. /\ phase = "received" /\ turn' = Classify(kept) /\ UNCHANGED <<gen, shown, calls>>
      /\ phase' = IF ~turn'.internal THEN "loading"
                  ELSE IF turn'.native THEN "passing" ELSE "collecting"
  BY <1>1 DEF Receive
<1>3. body \in Request BY <1>2, ChatAssumption DEF CallsInv
<1>4. kept.messages \in Seq(Message)
  <2>1. kept.messages = body.messages BY <1>1, <1>3, PoliciesKeep
  <2>2. body.messages \in Seq(Message) BY <1>3 DEF Request
  <2> QED BY <2>1, <2>2
<1>5. gen.stage = "none" BY <1>2 DEF MarkupInv
<1>6. DOMAIN turn' = {"rag", "internal", "native", "continues", "rows"}
  BY <1>2 DEF Classify
<1>7. turn'.continues = Continuation(kept.messages) /\ turn'.native = NativeProtocol(kept)
  BY <1>2 DEF Classify
<1>8. turn'.continues => turn'.native
  <2>1. PICK m : m = kept.messages OBVIOUS
  <2>2. Len(m) \in Nat BY <1>4, <2>1
  <2>3. ASSUME Continuation(m) PROVE NativeProtocol(kept)
    <3>1. PICK i \in 1 .. Len(m) - 1 : m[i].text = "calls" BY <2>3 DEF Continuation
    <3>2. i \in 1 .. Len(m) BY <2>2, <3>1
    <3> QED BY <2>1, <3>1, <3>2 DEF NativeProtocol
  <2> QED BY <1>7, <2>1, <2>3
<1>9. shown = <<>> /\ calls = <<>> /\ ~gen.spec BY <1>2 DEF TurnInv, Open, Speculating
<1>10. PICK s : s = <<>> OBVIOUS
<1>11. s \in Seq(Shows) /\ Markers(s) = {} BY <1>10 DEF Markers
<1> QED
  BY <1>2, <1>5, <1>6, <1>8, <1>9, <1>10, <1>11 DEF MarkupInv, Continues, ContinuedSafely

\* However the tokens of a continuation are cut into pieces, and whatever the
\* model goes on to ask for, no tool markup reaches the client
\* (_stream_main_chat_response, _continuation_safe_emit_end).
THEOREM TurnShowsNoMarkup == ChatSpec => []NoToolMarkup
<1>1. ChatInit => CallsInv /\ MarkupInv
  <2> SUFFICES ASSUME ChatInit PROVE CallsInv /\ MarkupInv OBVIOUS
  <2>1. MarkupInv
    <3>1. /\ turn = [rag |-> FALSE, internal |-> FALSE, native |-> FALSE,
                     continues |-> FALSE, rows |-> <<>>]
          /\ gen = NoGen
      BY DEF ChatInit
    <3>2. /\ DOMAIN turn = {"rag", "internal", "native", "continues", "rows"}
          /\ ~turn.continues /\ gen.stage = "none"
      BY <3>1 DEF NoGen
    <3> QED BY <3>2 DEF MarkupInv, Continues
  <2> QED BY <2>1, CallsInitially
<1>2. TurnInv /\ CallsInv /\ MarkupInv /\ [ChatNext]_chatVars => (CallsInv /\ MarkupInv)'
  BY CallsNextInv, ReceiveMarkup, ContinuedNext, ElseMarkup, OnlyReceiveReads
<1>3. MarkupInv => NoToolMarkup
  BY DEF MarkupInv, NoToolMarkup, Continues, ContinuedSafely, GeneratorSafe, EndedSafely
<1> QED BY <1>1, <1>2, <1>3, TurnInvariant, PTL DEF ChatSpec

-----------------------------------------------------------------------------
(* The turn implements the stream                                          *)

\* What a speculative generation has read fits what one event may carry.
SpeaksSafely ==
  /\ gen.mode = "main"
  /\ gen.text \in Seq(Shows) /\ gen.pending \in Seq(Tokens)
  /\ gen.sent \in Nat /\ gen.pieces \in Nat
  /\ gen.stage = "reading" =>
       gen.guard = "" /\ Len(gen.text) + Len(gen.pending) <= gen.pieces
  /\ gen.pieces <= MaxPieces
  /\ Len(gen.text) <= MaxPieces
  /\ gen.stage = "ended" /\ gen.guard = "" => Len(gen.text) + Len(gen.pending) <= MaxPieces

SpeechInv == gen.spec => SpeaksSafely

LEMMA ContentIsChunk ==
  ASSUME NEW s \in Seq(Shows), Len(s) <= MaxPieces
  PROVE  s \in Chunks
<1>1. PICK n : n = Len(s) OBVIOUS
<1>2. n \in 0 .. MaxPieces /\ s \in [1 .. n -> Shows] BY <1>1, ChatAssumption
<1>3. s \in Contents BY <1>2 DEF Contents, Shows
<1> QED BY <1>3, ChatAssumption

\* A speculation that runs.
Speaking == DOMAIN gen = Fields /\ gen.spec /\ SpeaksSafely

\* What a step of the generator is for the stream.
StreamMoves ==
  \/ UNCHANGED streamVars
  \/ \E c \in Chunks : (Pull(c) /\ UNCHANGED completed) \/ PullPastGate(c)
  \/ Exhaust(FALSE)

LEMMA YieldMoves ==
  ASSUME Speaking, NEW c \in Seq(Shows), Len(c) <= MaxPieces, Yield(c) \/ Quiet
  PROVE  StreamMoves
BY ContentIsChunk DEF Speaking, Yield, Quiet, StreamMoves

LEMMA NothingMoves ==
  ASSUME Speaking, Yield(<<>>) \/ Quiet
  PROVE  StreamMoves
<1>1. PICK c : c = <<>> OBVIOUS
<1>2. c \in Seq(Shows) /\ Len(c) <= MaxPieces BY <1>1, ChatAssumption
<1> QED BY <1>1, <1>2, YieldMoves

LEMMA NoticeIsContent == Notice \in Seq(Shows) /\ Len(Notice) = 1 /\ 1 <= MaxPieces
<1>1. PICK token : token = "!" OBVIOUS
<1>2. token \in Shows /\ Notice = <<token>> BY <1>1 DEF Shows, Notice
<1>3. <<token>> \in Seq(Shows) /\ Len(<<token>>) = 1 BY <1>2
<1>4. 1 <= MaxPieces BY ChatAssumption
<1> QED BY <1>2, <1>3, <1>4

LEMMA HoldSpeaks ==
  ASSUME Speaking, NEW piece \in Tokens, HoldPiece(piece)
  PROVE  SpeaksSafely' /\ StreamMoves
<1>1. gen.stage = "reading" /\ gen.pieces < MaxPieces /\ StreamMoves
  BY NothingMoves DEF HoldPiece, MorePieces, Reading
<1>2. SpeaksSafely BY DEF Speaking
<1>3. PICK b : b = Buffer(piece) OBVIOUS
<1>4. PICK q, k, m : q = gen.pending /\ k = gen.pieces /\ m = Len(gen.text) OBVIOUS
<1>5. /\ q \in Seq(Tokens) /\ k \in Nat /\ m \in Nat /\ m + Len(q) <= k /\ k < MaxPieces
      /\ Len(q) \in Nat
  <2>1. q \in Seq(Tokens) /\ k \in Nat /\ m + Len(q) <= k /\ k < MaxPieces
    BY <1>1, <1>2, <1>4 DEF SpeaksSafely
  <2>2. gen.text \in Seq(Shows) BY <1>2 DEF SpeaksSafely
  <2>3. m \in Nat BY ONLY <1>4, <2>2
  <2>4. Len(q) \in Nat BY ONLY <2>1
  <2> QED BY ONLY <2>1, <2>3, <2>4
<1>6. b = Append(q, piece) BY <1>3, <1>4 DEF Buffer
<1>7. b \in Seq(Tokens) /\ Len(b) = Len(q) + 1 BY <1>5, <1>6
<1>8. k + 1 \in Nat /\ k + 1 <= MaxPieces /\ m + Len(b) <= k + 1
  BY <1>5, <1>7, ChatAssumption
<1>9. gen' = [gen EXCEPT !.pieces = @ + 1, !.pending = b] BY <1>3 DEF HoldPiece
<1>10. /\ gen'.mode = gen.mode /\ gen'.stage = "reading" /\ gen'.text = gen.text
       /\ gen'.sent = gen.sent /\ gen'.guard = gen.guard /\ gen'.pending = b
       /\ gen'.pieces = gen.pieces + 1
  BY <1>1, <1>9, FieldNames DEF Speaking
<1>11. /\ gen'.pieces \in Nat /\ gen'.pieces <= MaxPieces
       /\ Len(gen'.text) + Len(gen'.pending) <= gen'.pieces
  BY ONLY <1>4, <1>8, <1>10
<1> QED BY ONLY <1>1, <1>2, <1>7, <1>10, <1>11 DEF SpeaksSafely

LEMMA CandidateSpeaks ==
  ASSUME Speaking, NEW piece \in Tokens, Settled(piece), gen.stage = "reading",
         gen.pieces < MaxPieces
  PROVE  /\ Candidate(piece) \in Seq(Shows)
         /\ Len(Candidate(piece)) <= gen.pieces + 1 /\ gen.pieces + 1 <= MaxPieces
         /\ gen.pieces + 1 \in Nat
<1>1. SpeaksSafely BY DEF Speaking
<1>2. /\ gen.text \in Seq(Shows) /\ gen.pending \in Seq(Tokens) /\ gen.pieces \in Nat
      /\ Len(gen.text) + Len(gen.pending) <= gen.pieces
  BY <1>1 DEF SpeaksSafely
<1>3. PICK t : t = Normal(piece) OBVIOUS
<1>4. t \in Seq(Tokens) /\ Len(t) >= 1 BY <1>2, <1>3, NormalGives
<1>5. Len(t) <= Len(gen.pending) + 1
  <2>1. PICK b : b = Buffer(piece) OBVIOUS
  <2>2. b \in Seq(Tokens) /\ Len(b) = Len(gen.pending) + 1 /\ b # <<>>
        /\ Len(gen.pending) \in Nat
    BY <1>2, <2>1 DEF Buffer
  <2>3. Len(Tail(b)) = Len(b) - 1 /\ Len(<<piece>>) = 1 BY <2>2
  <2>4. t = <<piece>> \/ t = b \/ t = Tail(b) BY <1>3, <2>1 DEF Normal, Decided
  <2> QED BY <2>2, <2>3, <2>4
<1>6. PICK s : s = gen.text OBVIOUS
<1>7. s \in Seq(Shows) /\ t \in Seq(Shows) /\ Candidate(piece) = s \o t
  BY <1>2, <1>3, <1>4, <1>6, TokensShow DEF Candidate
<1>8. s \o t \in Seq(Shows) /\ Len(s \o t) = Len(s) + Len(t) BY <1>7
<1>9. Len(s) \in Nat /\ Len(t) \in Nat /\ Len(gen.pending) \in Nat BY <1>2, <1>4, <1>6
<1>10. PICK k, m : k = gen.pieces /\ m = Len(gen.pending) OBVIOUS
<1>11. k \in Nat /\ m \in Nat /\ Len(s) + m <= k /\ Len(t) <= m + 1 /\ k < MaxPieces
  BY <1>2, <1>5, <1>6, <1>9, <1>10
<1>12. Len(s) + Len(t) <= k + 1 /\ k + 1 <= MaxPieces /\ k + 1 \in Nat
  BY <1>9, <1>11, ChatAssumption
<1> QED BY <1>7, <1>8, <1>10, <1>12

LEMMA LoopSpeaks ==
  ASSUME Speaking, NEW piece \in Tokens, StopLoop(piece)
  PROVE  SpeaksSafely' /\ StreamMoves
<1>1. gen.stage = "reading" /\ Settled(piece) /\ gen.pieces < MaxPieces /\ StreamMoves
  BY NothingMoves DEF StopLoop, MorePieces, Reading
<1>2. PICK c : c = CutLoop(Candidate(piece)) OBVIOUS
<1>3. c \in Seq(Shows) /\ Len(c) <= MaxPieces /\ gen.pieces + 1 \in Nat
      /\ gen.pieces + 1 <= MaxPieces
  <2>1. PICK s : s = Candidate(piece) OBVIOUS
  <2>2. s \in Seq(Shows) /\ Len(s) <= gen.pieces + 1 /\ gen.pieces + 1 <= MaxPieces
        /\ gen.pieces + 1 \in Nat
    BY <1>1, <2>1, CandidateSpeaks
  <2>3. c \in Seq(Shows) /\ Len(c) <= Len(s) BY <1>2, <2>1, <2>2, CutTyped
  <2>4. Len(c) \in Nat /\ Len(s) \in Nat BY <2>2, <2>3
  <2> QED BY <2>2, <2>3, <2>4, ChatAssumption
<1>4. gen' = [gen EXCEPT !.pieces = @ + 1, !.pending = <<>>, !.settled = TRUE,
                         !.text = c, !.guard = "repeated", !.stage = "ended"]
  BY <1>2 DEF StopLoop, Read
<1>5. /\ gen'.mode = gen.mode /\ gen'.stage = "ended" /\ gen'.text = c
      /\ gen'.sent = gen.sent /\ gen'.guard = "repeated"
      /\ gen'.pending = <<>> /\ gen'.pieces = gen.pieces + 1
  BY <1>4, FieldNames DEF Speaking
<1>6. gen.mode = "main" /\ gen.sent \in Nat BY DEF Speaking, SpeaksSafely
<1>7. <<>> \in Seq(Tokens) OBVIOUS
<1>8. SpeaksSafely' BY ONLY <1>3, <1>5, <1>6, <1>7 DEF SpeaksSafely
<1> QED BY <1>1, <1>8

LEMMA EmitSpeaks ==
  ASSUME Speaking, NEW piece \in Tokens, EmitPiece(piece)
  PROVE  SpeaksSafely' /\ StreamMoves
<1>0. SpeaksSafely BY DEF Speaking
<1>1. gen.stage = "reading" /\ Settled(piece) /\ gen.pieces < MaxPieces
      /\ gen.sent \in Nat /\ gen.mode = "main" /\ gen.guard = ""
  BY <1>0 DEF EmitPiece, MorePieces, Reading, SpeaksSafely
<1>2. PICK c : c = Candidate(piece) OBVIOUS
<1>3. /\ c \in Seq(Shows) /\ Len(c) <= gen.pieces + 1 /\ gen.pieces + 1 <= MaxPieces
      /\ gen.pieces + 1 \in Nat
  BY <1>1, <1>2, CandidateSpeaks
<1>4. PICK safe : safe = Len(c) OBVIOUS
<1>5. safe \in Nat /\ safe <= MaxPieces BY <1>3, <1>4, ChatAssumption
<1>6. PICK first : first = gen.sent + 1 /\ first \in Nat
  <2>1. PICK n : n = gen.sent OBVIOUS
  <2>2. n \in Nat BY ONLY <1>1, <2>1
  <2>3. n + 1 \in Nat BY ONLY <2>2
  <2> QED BY <2>1, <2>3
<1>7. PICK new : new = SubSeq(c, first, safe) OBVIOUS
<1>8. SentUpTo(c) = safe BY <1>1, <1>4 DEF SentUpTo
<1>9. new \in Seq(Shows) /\ Len(new) <= MaxPieces
  <2>1. first \in Int /\ safe \in Int /\ first >= 1
    <3>1. PICK n : n = gen.sent OBVIOUS
    <3>2. n \in Nat /\ first = n + 1 BY <1>1, <1>6, <3>1
    <3> QED BY <1>5, <3>2
  <2>2. \A i \in first .. safe : c[i] \in Shows BY <1>3, <1>4, <2>1
  <2>3. /\ SubSeq(c, first, safe) \in Seq(Shows)
        /\ Len(SubSeq(c, first, safe)) = IF first <= safe THEN safe - first + 1 ELSE 0
    BY ONLY <2>1, <2>2, SubSeqProperties
  <2> QED BY <1>5, <1>7, <2>1, <2>3, ChatAssumption
<1>10. /\ gen' = [Read(piece) EXCEPT !.text = c, !.sent = IF safe > @ THEN safe ELSE @,
                                     !.streamed = @ \/ new # <<>>]
       /\ IF new = <<>> THEN Quiet ELSE Yield(new)
  BY <1>2, <1>6, <1>7, <1>8 DEF EmitPiece
<1>11. StreamMoves BY <1>9, <1>10, YieldMoves
<1>12. /\ gen'.mode = gen.mode /\ gen'.stage = gen.stage /\ gen'.text = c
       /\ gen'.sent = (IF safe > gen.sent THEN safe ELSE gen.sent) /\ gen'.guard = gen.guard
       /\ gen'.pending = <<>> /\ gen'.pieces = gen.pieces + 1
  <2>1. PICK r : r = Read(piece) OBVIOUS
  <2>2. /\ DOMAIN r = Fields /\ r.mode = gen.mode /\ r.stage = gen.stage /\ r.sent = gen.sent
        /\ r.guard = gen.guard /\ r.pending = <<>> /\ r.pieces = gen.pieces + 1
    BY <2>1, FieldNames DEF Read, Speaking
  <2> QED BY <1>10, <2>1, <2>2, FieldNames
<1>13. gen'.sent \in Nat BY <1>1, <1>5, <1>12
<1>14. PICK p : p = gen'.pending OBVIOUS
<1>15. p \in Seq(Tokens) /\ Len(p) = 0 BY <1>12, <1>14
<1>16. PICK k : k = gen.pieces + 1 OBVIOUS
<1>17. Len(c) + Len(p) <= k /\ Len(c) <= MaxPieces /\ k \in Nat /\ k <= MaxPieces
  BY <1>3, <1>4, <1>5, <1>15, <1>16
<1>18. gen'.pieces = k BY <1>12, <1>16
<1>19. SpeaksSafely'
  BY ONLY <1>1, <1>3, <1>12, <1>13, <1>14, <1>15, <1>17, <1>18 DEF SpeaksSafely
<1> QED BY <1>11, <1>19

LEMMA BackendSpeaks ==
  ASSUME Speaking, BackendDone \/ BackendFails \/ \E loops : EmitReasoning(loops)
  PROVE  SpeaksSafely' /\ StreamMoves
<1>1. gen.stage = "reading" /\ SpeaksSafely /\ DOMAIN gen = Fields
  BY DEF BackendDone, BackendFails, EmitReasoning, Reading, Speaking
<1>2. StreamMoves
  <2>1. Quiet \/ Yield(<<>>) BY DEF BackendDone, BackendFails, EmitReasoning
  <2> QED BY <2>1, NothingMoves
<1>3. /\ gen'.mode = gen.mode /\ gen'.sent = gen.sent /\ gen'.pending = gen.pending
      /\ gen'.pieces = gen.pieces
      /\ \/ gen'.stage = "reading" /\ gen'.text = gen.text /\ gen'.guard = gen.guard
         \/ gen'.stage = "ended" /\ gen'.text = gen.text
         \/ gen'.stage = "ended" /\ gen'.text = Notice /\ gen'.guard = "exception"
  <2>1. CASE BackendDone BY <1>1, <2>1, FieldNames DEF BackendDone
  <2>2. CASE BackendFails BY <1>1, <2>2, FieldNames DEF BackendFails
  <2>3. ASSUME NEW loops, EmitReasoning(loops)
        PROVE  /\ \/ gen' = [gen EXCEPT !.guard = "repeated", !.stage = "ended"]
                  \/ gen' = [gen EXCEPT !.thoughts = @ + 1]
    BY <2>3 DEF EmitReasoning
  <2>4. CASE gen' = [gen EXCEPT !.guard = "repeated", !.stage = "ended"]
    BY <1>1, <2>4, FieldNames
  <2>5. CASE gen' = [gen EXCEPT !.thoughts = @ + 1]
    BY <1>1, <2>5, FieldNames
  <2> QED BY <2>1, <2>2, <2>3, <2>4, <2>5
<1>4. PICK q, k, t : q = Len(gen.pending) /\ k = gen.pieces /\ t = Len(gen.text) OBVIOUS
<1>5. q \in Nat /\ k \in Nat /\ t \in Nat /\ t + q <= k /\ k <= MaxPieces
  <2>1. gen.text \in Seq(Shows) /\ gen.pending \in Seq(Tokens) /\ gen.pieces \in Nat
        /\ Len(gen.text) + Len(gen.pending) <= gen.pieces /\ gen.pieces <= MaxPieces
    BY ONLY <1>1 DEF SpeaksSafely
  <2>2. q \in Nat BY ONLY <1>4, <2>1
  <2>3. t \in Nat BY ONLY <1>4, <2>1
  <2> QED BY ONLY <1>4, <2>1, <2>2, <2>3
<1>6. t + q <= MaxPieces BY <1>5, ChatAssumption
<1>7. CASE gen'.stage = "reading" /\ gen'.text = gen.text /\ gen'.guard = gen.guard
  <2>1. SpeaksSafely' BY ONLY <1>1, <1>3, <1>7 DEF SpeaksSafely
  <2> QED BY <1>2, <2>1
<1>8. CASE gen'.stage = "ended" /\ gen'.text = gen.text
  <2>1. Len(gen'.text) + Len(gen'.pending) <= MaxPieces BY ONLY <1>3, <1>4, <1>6, <1>8
  <2>2. SpeaksSafely' BY ONLY <1>1, <1>3, <1>8, <2>1 DEF SpeaksSafely
  <2> QED BY <1>2, <2>2
<1>9. CASE gen'.stage = "ended" /\ gen'.text = Notice /\ gen'.guard = "exception"
  <2>1. gen'.text \in Seq(Shows) /\ Len(gen'.text) <= MaxPieces BY <1>9, NoticeIsContent
  <2>2. SpeaksSafely' BY ONLY <1>1, <1>3, <1>9, <2>1 DEF SpeaksSafely
  <2> QED BY <1>2, <2>2
<1> QED BY <1>3, <1>7, <1>8, <1>9

LEMMA NormalizedFits ==
  ASSUME NEW text \in Seq(Shows)
  PROVE  Len(Normalized(text)) <= Len(text)
<1>0. Len(text) \in Nat OBVIOUS
<1>1. CASE Undecided(text)
  <2>1. PICK n : n = Normalized(text) OBVIOUS
  <2>2. n = text \/ n = <<>> BY <1>1, <2>1 DEF Normalized, Unfinished
  <2>3. CASE n = text BY <1>0, <2>1, <2>3
  <2>4. CASE n = <<>>
    <3>1. Len(n) = 0 BY <2>4
    <3> QED BY <1>0, <2>1, <3>1
  <2> QED BY <2>2, <2>3, <2>4
<1>2. CASE ~Undecided(text)
  <2>1. text # <<>> BY <1>2 DEF Undecided
  <2>2. Len(Tail(text)) = Len(text) - 1 BY <2>1
  <2>3. PICK n : n = Normalized(text) OBVIOUS
  <2>4. n = text \/ n = Tail(text) BY <1>2, <2>3 DEF Normalized, Decided
  <2>5. CASE n = text BY <1>0, <2>3, <2>5
  <2>6. CASE n = Tail(text) BY <1>0, <2>2, <2>3, <2>6
  <2> QED BY <2>4, <2>5, <2>6
<1> QED BY <1>1, <1>2

LEMMA JsonSpeaks ==
  ASSUME Speaking, NEW text \in Texts, NEW proposes, JsonAnswer(text, proposes)
  PROVE  SpeaksSafely' /\ StreamMoves
<1>1. gen.stage = "reading" /\ SpeaksSafely /\ gen.pieces = 0 /\ gen.mode = "main"
  BY DEF JsonAnswer, Reading, Speaking, SpeaksSafely
<1>2. StreamMoves BY NothingMoves DEF JsonAnswer
<1>3. text \in Seq(Shows) /\ Len(text) \in Nat /\ Len(text) <= MaxPieces
  <2>1. PICK n \in 0 .. MaxPieces : text \in [1 .. n -> Tokens] BY DEF Texts
  <2>2. n \in Nat /\ n <= MaxPieces BY ChatAssumption
  <2>3. text \in Seq(Tokens) /\ Len(text) = n BY <2>1, <2>2
  <2> QED BY <2>2, <2>3, TokensShow
<1>4. PICK answer : answer = IF gen.settled THEN text ELSE Normalized(text) OBVIOUS
<1>5. answer \in Seq(Shows) /\ Len(answer) <= MaxPieces
  <2>1. PICK n : n = Normalized(text) OBVIOUS
  <2>2. n \in Seq(Shows) /\ Len(n) <= Len(text) BY <1>3, <2>1, NormalizedShows, NormalizedFits
  <2>3. Len(n) \in Nat BY <2>2
  <2>4. Len(n) <= MaxPieces BY <1>3, <2>2, <2>3, ChatAssumption
  <2>5. answer = text \/ answer = n BY <1>4, <2>1
  <2> QED BY <1>3, <2>2, <2>4, <2>5
<1>6. gen' = [gen EXCEPT !.stage = "ended", !.settled = TRUE, !.text = answer, !.guard = ""]
  <2>1. gen.mode # "continuation" BY <1>1
  <2> QED BY <1>4, <2>1 DEF JsonAnswer
<1>7. /\ gen'.mode = gen.mode /\ gen'.stage = "ended" /\ gen'.text = answer
      /\ gen'.sent = gen.sent /\ gen'.guard = "" /\ gen'.pending = gen.pending
      /\ gen'.pieces = gen.pieces
  BY <1>6, FieldNames DEF Speaking
<1>8. Len(gen'.text) + Len(gen'.pending) <= MaxPieces
  <2>1. PICK q, t, a : q = Len(gen.pending) /\ t = Len(gen.text) /\ a = Len(answer) OBVIOUS
  <2>2. gen.text \in Seq(Shows) /\ gen.pending \in Seq(Tokens)
        /\ Len(gen.text) + Len(gen.pending) <= gen.pieces
    BY ONLY <1>1 DEF SpeaksSafely
  <2>3. q \in Nat BY ONLY <2>1, <2>2
  <2>4. t \in Nat BY ONLY <2>1, <2>2
  <2>5. t + q <= 0 BY ONLY <1>1, <2>1, <2>2
  <2>6. a \in Nat /\ a <= MaxPieces BY ONLY <1>5, <2>1
  <2>7. a + q <= MaxPieces BY <2>3, <2>4, <2>5, <2>6, ChatAssumption
  <2> QED BY ONLY <1>7, <2>1, <2>7
<1>9. SpeaksSafely' BY ONLY <1>1, <1>5, <1>7, <1>8 DEF SpeaksSafely
<1> QED BY <1>2, <1>9

LEMMA ConcludeSpeaks ==
  ASSUME Speaking, Conclude
  PROVE  SpeaksSafely' /\ StreamMoves
<1>1. /\ gen.stage = "ended" /\ SpeaksSafely /\ gen.mode = "main" /\ gen.mode # "continuation"
      /\ gen.text \in Seq(Shows) /\ gen.pending \in Seq(Tokens)
  BY DEF Conclude, Speaking, SpeaksSafely
<1>2. PICK tail : tail = IF gen.guard = "" /\ ~gen.settled THEN Unfinished(gen.pending) ELSE <<>>
  OBVIOUS
<1>3. PICK text : text = gen.text OBVIOUS
<1>4. PICK whole : whole = text \o tail OBVIOUS
<1>5. PICK reply : reply = Clean(whole) OBVIOUS
<1>6. PICK guard : guard = IF Loops(reply) THEN "repeated" ELSE gen.guard OBVIOUS
<1>7. PICK final : final = CutLoop(reply) OBVIOUS
<1>8. /\ gen' = [gen EXCEPT !.stage = "gate", !.guard = guard, !.refused = FALSE,
                            !.text = final, !.streamed = @ \/ <<>> # <<>>]
      /\ Quiet
  BY <1>1, <1>2, <1>3, <1>4, <1>5, <1>6, <1>7 DEF Conclude
<1>9. whole \in Seq(Shows) /\ Len(whole) <= MaxPieces
  <2>1. PICK p : p = gen.pending OBVIOUS
  <2>2. p \in Seq(Shows) /\ text \in Seq(Shows) /\ Len(text) <= MaxPieces
        /\ (gen.guard = "" => Len(text) + Len(p) <= MaxPieces)
    BY <1>1, <1>3, <2>1, TokensShow DEF SpeaksSafely
  <2>3. CASE gen.guard = "" /\ tail = p
    <3>0. p \in Seq(Shows) /\ text \in Seq(Shows) BY <2>2
    <3>1. text \o p \in Seq(Shows) /\ Len(text \o p) = Len(text) + Len(p) BY ONLY <3>0
    <3> QED BY <1>4, <2>2, <2>3, <3>1
  <2>4. CASE tail = <<>>
    <3>0. text \in Seq(Shows) BY <2>2
    <3>1. text \o <<>> = text BY ONLY <3>0
    <3> QED BY <1>4, <2>2, <2>4, <3>1
  <2>5. tail = <<>> \/ (gen.guard = "" /\ tail = p) BY <1>2, <2>1 DEF Unfinished
  <2> QED BY <2>3, <2>4, <2>5
<1>10. final \in Seq(Shows) /\ Len(final) <= MaxPieces
  <2>1. reply \in Seq(Shows) /\ Len(reply) <= Len(whole) BY <1>5, <1>9, CleanHasNoMarkers
  <2>2. final \in Seq(Shows) /\ Len(final) <= Len(reply) BY <1>7, <2>1, CutTyped
  <2>3. Len(reply) \in Nat /\ Len(final) \in Nat /\ Len(whole) \in Nat BY <1>9, <2>1, <2>2
  <2> QED BY <1>9, <2>1, <2>2, <2>3, ChatAssumption
<1>11. /\ gen'.mode = gen.mode /\ gen'.stage = "gate" /\ gen'.text = final
       /\ gen'.sent = gen.sent /\ gen'.pending = gen.pending /\ gen'.pieces = gen.pieces
  BY <1>8, FieldNames DEF Speaking
<1>12. SpeaksSafely' BY ONLY <1>1, <1>10, <1>11 DEF SpeaksSafely
<1> QED BY <1>8, <1>12, NothingMoves

LEMMA GateSpeaks ==
  ASSUME Speaking, PassGate \/ SendTerminal
  PROVE  SpeaksSafely' /\ StreamMoves
<1>1. SpeaksSafely /\ gen.spec BY DEF Speaking
<1>2. CASE SendTerminal
  <2>1. gen' = [gen EXCEPT !.stage = "done"] /\ StreamMoves
    BY <1>2, NothingMoves DEF SendTerminal
  <2>2. /\ gen'.mode = gen.mode /\ gen'.stage = "done" /\ gen'.text = gen.text
        /\ gen'.sent = gen.sent /\ gen'.pending = gen.pending /\ gen'.pieces = gen.pieces
    BY <2>1, FieldNames DEF Speaking
  <2>3. SpeaksSafely' BY ONLY <1>1, <2>2 DEF SpeaksSafely
  <2> QED BY <2>1, <2>3
<1>3. CASE PassGate
  <2>1. PICK reply : reply = IF ~gen.refused /\ gen.text = <<>> THEN Notice ELSE gen.text
    OBVIOUS
  <2>2. reply \in Seq(Shows) /\ Len(reply) <= MaxPieces
    <3>1. gen.text \in Seq(Shows) /\ Len(gen.text) <= MaxPieces BY <1>1 DEF SpeaksSafely
    <3>2. Len(Notice) <= MaxPieces /\ Notice \in Seq(Shows) BY NoticeIsContent
    <3> QED BY <2>1, <3>1, <3>2
  <2>3. PICK event : event = IF gen.streamed THEN <<>> ELSE reply OBVIOUS
  <2>4. event \in Seq(Shows) /\ Len(event) <= MaxPieces
    <3>1. PICK e : e = <<>> OBVIOUS
    <3>2. e \in Seq(Shows) /\ Len(e) <= MaxPieces BY <3>1, ChatAssumption
    <3> QED BY <2>2, <2>3, <3>1, <3>2
  <2>5. StreamMoves
    <3>1. PullPastGate(event) BY <1>1, <1>3, <2>1, <2>3 DEF PassGate
    <3>2. event \in Chunks BY <2>4, ContentIsChunk
    <3> QED BY <3>1, <3>2 DEF StreamMoves
  <2>6. PICK stage \in {"done", "terminal"} :
          stage = IF gen.streamed THEN "done" ELSE "terminal"
    OBVIOUS
  <2>7. gen' = [gen EXCEPT !.text = reply, !.streamed = TRUE,
                  !.guard = IF (~gen.refused /\ gen.text = <<>>) /\ @ = "" THEN "empty" ELSE @,
                  !.stage = stage]
    BY <1>3, <2>1, <2>6 DEF PassGate
  <2>8. /\ gen'.mode = gen.mode /\ gen'.stage = stage /\ gen'.text = reply
        /\ gen'.sent = gen.sent /\ gen'.pending = gen.pending /\ gen'.pieces = gen.pieces
    BY <2>7, FieldNames DEF Speaking
  <2>9. SpeaksSafely' BY ONLY <1>1, <2>2, <2>6, <2>8 DEF SpeaksSafely
  <2> QED BY <2>5, <2>9
<1> QED BY <1>2, <1>3

LEMMA SpeechGenerates ==
  ASSUME Speaking, Generate, ~ReturnLive
  PROVE  SpeaksSafely' /\ StreamMoves
<1>0. gen.mode # "continuation" BY DEF Speaking, SpeaksSafely
<1>1. ASSUME NEW piece \in Tokens,
             HoldPiece(piece) \/ BlockMarkup(piece) \/ StopLoop(piece) \/ EmitPiece(piece)
      PROVE  SpeaksSafely' /\ StreamMoves
  <2>1. ~BlockMarkup(piece) BY <1>0 DEF BlockMarkup, Forbidden
  <2> QED BY <1>1, <2>1, HoldSpeaks, LoopSpeaks, EmitSpeaks
<1>2. CASE BackendDone \/ BackendFails \/ \E loops : EmitReasoning(loops)
  BY <1>2, BackendSpeaks
<1>3. ~BlockCalls BY <1>0 DEF BlockCalls
<1>4. ASSUME NEW text \in Texts, NEW proposes, JsonAnswer(text, proposes)
      PROVE  SpeaksSafely' /\ StreamMoves
  BY <1>4, JsonSpeaks
<1>5. CASE Conclude BY <1>5, ConcludeSpeaks
<1>6. CASE PassGate \/ SendTerminal BY <1>6, GateSpeaks
<1>7. CASE ReturnSpeculative
  BY <1>7 DEF ReturnSpeculative, Speaking, SpeaksSafely, StreamMoves
<1> QED BY <1>1, <1>2, <1>3, <1>4, <1>5, <1>6, <1>7 DEF Generate

\* A step of the turn that is a step of the stream, and leaves what is read fit.
Implements == [StreamNext]_streamVars /\ SpeechInv'

LEMMA MovesImplement ==
  ASSUME StreamMoves
  PROVE  [StreamNext]_streamVars
<1>1. FALSE \in BOOLEAN OBVIOUS
<1> QED BY <1>1 DEF StreamMoves, StreamNext

LEMMA StillImplements ==
  ASSUME SpeechInv, [StreamNext]_streamVars, UNCHANGED gen
  PROVE  Implements
BY DEF SpeechInv, SpeaksSafely, Implements

LEMMA UnreadImplements ==
  ASSUME [StreamNext]_streamVars, NEW mode, NEW thinking, gen' = NewGen(mode, thinking, FALSE)
  PROVE  Implements
<1>1. gen'.spec = FALSE BY FieldNames
<1> QED BY <1>1 DEF Implements, SpeechInv

\* What speculates is cancelled, if anything does.
LEMMA CancelImplements ==
  ASSUME CancelSpeculation
  PROVE  [StreamNext]_streamVars
BY DEF CancelSpeculation, StreamNext

LEMMA AnsweredAnew ==
  ASSUME SpeechInv, [StreamNext]_streamVars, NEW mode, NoToolFinal(mode)
  PROVE  Implements
<1>1. UNCHANGED gen \/ \E thinks : gen' = NewGen("main", thinks, FALSE) BY DEF NoToolFinal
<1> QED BY <1>1, StillImplements, UnreadImplements

LEMMA SpeculateImplements ==
  ASSUME Speculate
  PROVE  Implements
<1>1. StreamNext BY DEF Speculate, StreamNext
<1>2. PICK thinks : thinks = HybridThinking("FAST", FALSE) OBVIOUS
<1>3. gen' = NewGen("main", thinks, TRUE) BY <1>2 DEF Speculate
<1>4. /\ gen'.mode = "main" /\ gen'.stage = "reading" /\ gen'.text = <<>> /\ gen'.pending = <<>>
      /\ gen'.sent = 0 /\ gen'.pieces = 0 /\ gen'.guard = ""
  BY <1>3 DEF NewGen, NoGen
<1>5. PICK s : s = <<>> OBVIOUS
<1>6. s \in Seq(Shows) /\ s \in Seq(Tokens) /\ Len(s) = 0 BY ONLY <1>5
<1>7. Len(s) + Len(s) <= 0 /\ Len(s) <= MaxPieces /\ 0 <= MaxPieces /\ 0 \in Nat
  BY <1>6, ChatAssumption
<1>8. Len(s) + Len(s) <= MaxPieces BY <1>6, ChatAssumption
<1>9. gen'.text = s /\ gen'.pending = s BY <1>4, <1>5
<1>10. SpeaksSafely' BY ONLY <1>4, <1>6, <1>7, <1>8, <1>9 DEF SpeaksSafely
<1> QED BY <1>1, <1>10 DEF Implements, SpeechInv

LEMMA HandleImplements ==
  ASSUME SpeechInv, Handle
  PROVE  Implements
<1>1. ASSUME UNCHANGED <<streamVars, gen>> PROVE Implements
  BY <1>1, StillImplements
<1>2. CASE Receive \/ LoadContext \/ AnswerDirective \/ FollowDirective \/ SpeculationStarted
             \/ PlanOnly \/ DecideWithModel
  BY <1>1, <1>2 DEF Receive, LoadContext, AnswerDirective, FollowDirective,
       SpeculationStarted, PlanOnly, DecideWithModel
<1>3. ASSUME NEW text, NEW list, PassThrough(text, list) PROVE Implements
  BY <1>1, <1>3 DEF PassThrough
<1>4. ASSUME NEW mode, ChooseThinking(mode) PROVE Implements
  <2>1. UNCHANGED streamVars /\ (UNCHANGED gen \/ \E thinks : gen' = NewGen("main", thinks, FALSE))
    BY <1>4 DEF ChooseThinking
  <2> QED BY <1>1, <2>1, UnreadImplements
<1>5. ASSUME NEW b, Collect(b) \/ FinalBuffered(b) PROVE Implements
  BY <1>1, <1>5 DEF Collect, FinalBuffered
<1>6. ASSUME NEW requested, LoopDecision(requested) PROVE Implements
  BY <1>1, <1>6 DEF LoopDecision
<1>7. ASSUME NEW b, NEW succeeded, LoopFinal(b, succeeded) PROVE Implements
  BY <1>1, <1>7 DEF LoopFinal
<1>8. CASE ContinueLive
  <2>1. UNCHANGED streamVars /\ \E thinks : gen' = NewGen("continuation", thinks, FALSE)
    BY <1>8 DEF ContinueLive
  <2> QED BY <2>1, UnreadImplements
<1>9. CASE AnswerWithoutTools
  <2>1. UNCHANGED streamVars /\ \E mode : NoToolFinal(mode) BY <1>9 DEF AnswerWithoutTools
  <2> QED BY <2>1, AnsweredAnew
<1>10. ASSUME NEW ok, NEW text, NEW proposes, ContinueDraft(ok, text, proposes) PROVE Implements
  BY <1>1, <1>10 DEF ContinueDraft
<1>11. CASE Speculate BY <1>11, SpeculateImplements
<1>12. ASSUME NEW result, PlannerDecides(result), result \in RouteResults(body)
       PROVE  Implements
  <2>1. CASE PlannerFails
    <3>1. CancelSpeculation /\ \E mode : NoToolFinal(mode) BY <2>1 DEF PlannerFails
    <3> QED BY <3>1, CancelImplements, AnsweredAnew
  <2>2. ASSUME NEW name, PlannerCalls(name) PROVE Implements
    BY <2>2, CancelImplements, StillImplements DEF PlannerCalls
  <2>3. ASSUME NEW mode, PlannerAnswers(mode) PROVE Implements
    <3>1. CASE ReleaseStream /\ UNCHANGED gen BY <3>1, StillImplements DEF StreamNext
    <3>2. CASE CancelSpeculation /\ NoToolFinal(mode) BY <3>2, CancelImplements, AnsweredAnew
    <3> QED BY <2>3, <3>1, <3>2 DEF PlannerAnswers
  <2>4. CASE PlannerRefused BY <2>4, CancelImplements, StillImplements DEF PlannerRefused
  <2>5. result.decision \in {"ERROR", "TOOL", "NO_TOOL"} BY <1>12, ResultDecisions
  <2> QED BY <1>12, <2>1, <2>2, <2>3, <2>4, <2>5 DEF PlannerDecides
<1>13. ASSUME NEW d, DecisionCalls(d) \/ DecisionCorrected(d) PROVE Implements
  BY <1>1, <1>13 DEF DecisionCalls, DecisionCorrected
<1>14. ASSUME NEW d, DecisionAnswers(d) PROVE Implements
  <2>1. UNCHANGED streamVars /\ \E mode : NoToolFinal(mode) BY <1>14 DEF DecisionAnswers
  <2> QED BY <2>1, AnsweredAnew
<1> QED
  BY <1>2, <1>3, <1>4, <1>5, <1>6, <1>7, <1>8, <1>9, <1>10, <1>11, <1>12, <1>13, <1>14 DEF Handle

LEMMA GenerateImplements ==
  ASSUME TurnInv, SpeechInv, Generate
  PROVE  Implements
<1>1. CASE ReturnLive BY <1>1, StillImplements DEF ReturnLive
<1>2. CASE ~ReturnLive /\ gen.spec
  <2>1. Speaking BY <1>2 DEF Speaking, TurnInv, SpeechInv
  <2>2. SpeaksSafely' /\ StreamMoves BY <1>2, <2>1, SpeechGenerates
  <2> QED BY <2>2, MovesImplement DEF Implements, SpeechInv
<1>3. CASE ~ReturnLive /\ ~gen.spec
  <2>1. GeneratorStep BY <1>3, GenerateSteps
  <2>2. ~gen'.spec BY <1>3, <2>1 DEF GeneratorStep, SpecKept
  <2>3. UNCHANGED streamVars
    <3>1. ASSUME NEW c, Yield(c) \/ Quiet PROVE UNCHANGED streamVars
      BY <1>3, <3>1 DEF Yield, Quiet
    <3>2. CASE PassGate BY <1>3, <3>2 DEF PassGate
    <3>3. ~ReturnSpeculative BY <1>3 DEF ReturnSpeculative
    <3>4. ASSUME NEW piece, EmitPiece(piece) PROVE \E c : Yield(c) \/ Quiet
      BY <3>4 DEF EmitPiece
    <3>5. Conclude => \E c : Yield(c) \/ Quiet BY DEF Conclude
    <3>6. ASSUME NEW piece, HoldPiece(piece) \/ BlockMarkup(piece) \/ StopLoop(piece)
          PROVE  Quiet
      BY <3>6 DEF HoldPiece, BlockMarkup, StopLoop
    <3>7. ASSUME NEW loops, EmitReasoning(loops) PROVE Yield(<<>>) \/ Quiet
      BY <3>7 DEF EmitReasoning
    <3>8. BlockCalls \/ BackendFails \/ BackendDone => Quiet
      BY DEF BlockCalls, BackendFails, BackendDone
    <3>9. ASSUME NEW text, NEW proposes, JsonAnswer(text, proposes) PROVE Quiet
      BY <3>9 DEF JsonAnswer
    <3>10. SendTerminal => Yield(<<>>) BY DEF SendTerminal
    <3> QED
      BY <1>3, <3>1, <3>2, <3>3, <3>4, <3>5, <3>6, <3>7, <3>8, <3>9, <3>10 DEF Generate
  <2> QED BY <2>2, <2>3 DEF Implements, SpeechInv
<1> QED BY <1>1, <1>2, <1>3

LEMMA OthersImplement ==
  ASSUME SpeechInv, Enqueue \/ Serve \/ Disturb \/ Finished \/ UNCHANGED chatVars
  PROVE  Implements
<1>1. UNCHANGED gen
  BY DEF Enqueue, Serve, ServeReleased, SendReleased, Disturb, GatewayError, LeaveReleased,
    LeaveLive, PlannerAborts, CancelledAtStart, Finished, chatVars
<1>2. [StreamNext]_streamVars
  <2>1. Enqueue \/ Serve => StreamNext
    BY DEF Enqueue, Serve, ServeReleased, SendReleased, StreamNext
  <2>2. GatewayError \/ LeaveLive \/ CancelledAtStart => UNCHANGED streamVars
    BY DEF GatewayError, LeaveLive, CancelledAtStart
  <2>3. LeaveReleased => StreamNext BY DEF LeaveReleased, StreamNext
  <2>4. PlannerAborts => [StreamNext]_streamVars BY CancelImplements DEF PlannerAborts
  <2>5. Finished \/ UNCHANGED chatVars => UNCHANGED streamVars BY DEF Finished, chatVars
  <2> QED BY <2>1, <2>2, <2>3, <2>4, <2>5 DEF Disturb
<1> QED BY <1>1, <1>2, StillImplements

\* Whatever the turn does, its SpeculativeStream is used as the class allows:
\* started once, fed only with what one event may carry, closed by the body
\* only after the gate, read only when it is released, and cancelled only while
\* nobody reads it (routes.py, _proxy_hybrid_native_openai_tool_protocol).
THEOREM TurnImplementsStream == ChatSpec => StreamSpec
<1>1. ChatInit => StreamInit /\ SpeechInv
  <2>1. ASSUME ChatInit PROVE ~gen.spec
    <3>1. gen.spec = FALSE BY <2>1 DEF ChatInit, NoGen
    <3> QED BY <3>1
  <2> QED BY <2>1 DEF ChatInit, SpeechInv
<1>2. TurnInv /\ SpeechInv /\ [ChatNext]_chatVars => [StreamNext]_streamVars /\ SpeechInv'
  BY HandleImplements, GenerateImplements, OthersImplement DEF ChatNext, Implements
<1> QED BY <1>1, <1>2, TurnInvariant, PTL DEF ChatSpec, StreamSpec

\* What the client is sent of a released answer is what the generator yielded,
\* in that order (speculative_stream.py; routes.py).
THEOREM TurnDeliversInOrder == ChatSpec => []DeliveredInOrder
BY TurnImplementsStream, StreamDeliveredInOrder, PTL

-----------------------------------------------------------------------------
(* What is remembered is what was said                                     *)

\* strip_reasoning, of any text: no thinking is left, nothing is added.
LEMMA StripTyped ==
  ASSUME NEW S, NEW s \in Seq(S)
  PROVE  StripReasoning(s) \in Seq(S \ {"e"})
<1>1. PICK A : A = S \ {"e"} OBVIOUS
<1>2. PICK p : p = [i \in 1 .. Len(s) |-> IF s[i] = "e" THEN <<>> ELSE <<s[i]>>] OBVIOUS
<1>3. p \in Seq(Seq(A))
  <2>1. PICK n : n = Len(s) OBVIOUS
  <2>2. n \in Nat /\ \A i \in 1 .. n : s[i] \in S BY <2>1
  <2>3. ASSUME NEW i \in 1 .. n PROVE (IF s[i] = "e" THEN <<>> ELSE <<s[i]>>) \in Seq(A)
    <3>1. CASE s[i] = "e" BY <3>1
    <3>2. CASE s[i] # "e" BY <1>1, <2>2, <3>2
    <3> QED BY <3>1, <3>2
  <2>4. p \in [1 .. n -> Seq(A)] BY <1>2, <2>1, <2>3
  <2> QED BY <2>2, <2>4
<1>4. FlattenSeq(p) \in Seq(A) BY ONLY <1>3, FlattenTyped
<1> QED BY <1>1, <1>2, <1>4 DEF StripReasoning

\* Where there is no thinking it leaves the text alone.
LEMMA StripSame ==
  ASSUME NEW S, NEW s \in Seq(S), Markers(s) = {}
  PROVE  StripReasoning(s) = s
<1>1. \A i \in 1 .. Len(s) : s[i] # "e" BY DEF Markers, MarkerAt
<1>2. PICK p : p = [i \in 1 .. Len(s) |-> <<s[i]>>] OBVIOUS
<1>3. p = [i \in 1 .. Len(s) |-> IF s[i] = "e" THEN <<>> ELSE <<s[i]>>] BY <1>1, <1>2
<1>4. FlattenSeq(p) = s BY ONLY <1>2, s \in Seq(S), FlattenUnits
<1> QED BY <1>3, <1>4 DEF StripReasoning

\* Once is enough.
LEMMA StripTwice ==
  ASSUME NEW S, NEW s \in Seq(S \ {"e"})
  PROVE  StripReasoning(s) = s
<1>1. PICK A : A = S \ {"e"} OBVIOUS
<1>2. s \in Seq(A) BY <1>1
<1>3. \A i \in 1 .. Len(s) : s[i] # "e" BY <1>1, <1>2
<1>4. PICK p : p = [i \in 1 .. Len(s) |-> <<s[i]>>] OBVIOUS
<1>5. p = [i \in 1 .. Len(s) |-> IF s[i] = "e" THEN <<>> ELSE <<s[i]>>] BY <1>3, <1>4
<1>6. FlattenSeq(p) = s BY ONLY <1>2, <1>4, FlattenUnits
<1> QED BY <1>5, <1>6 DEF StripReasoning

\* A text of the model's own has no notice of the gateway in it.
LEMMA TokensNoNotice ==
  ASSUME NEW s \in Seq(Tokens \cup {"t"})
  PROVE  ~Has(s, "!")
<1>1. PICK A : A = Tokens \cup {"t"} OBVIOUS
<1>2. \A i \in 1 .. Len(s) : s[i] \in A BY <1>1
<1>3. "!" \notin A BY <1>1 DEF Tokens
<1> QED BY <1>2, <1>3 DEF Has

\* A row of a conversation without tool protocol and sources.
Rows == [role : {"system", "user", "assistant", "tool"}, text : STRING \cup {"plain"}, tool : STRING]
Remembers == {m \in Rows : m.role # "tool" /\ m.text \notin {"calls", "rag"}}

\* _sanitize_messages_for_write_path, of any conversation of a client.
LEMMA WritePathClean ==
  ASSUME NEW ms \in Seq(Message)
  PROVE  WritePathMessages(ms) \in Seq(Remembers)
<1>1. PICK rows : rows = WithoutSources(ms) OBVIOUS
<1>2. PICK n : n = Len(ms) OBVIOUS
<1>3. n \in Nat /\ \A i \in 1 .. n : ms[i] \in Message BY <1>2
<1>4. /\ rows = [i \in 1 .. n |-> IF ms[i].text = "rag" THEN [ms[i] EXCEPT !.text = "plain"]
                                 ELSE ms[i]]
  BY <1>1, <1>2 DEF WithoutSources
<1>5. ASSUME NEW i \in 1 .. n PROVE rows[i] \in Rows /\ rows[i].text # "rag"
  <2>1. PICK m : m = ms[i] OBVIOUS
  <2>2. m \in Message BY <1>3, <2>1
  <2>3. rows[i] = IF m.text = "rag" THEN [m EXCEPT !.text = "plain"] ELSE m BY <1>4, <2>1
  <2>4. CASE m.text = "rag"
    <3>1. PICK x : x = [m EXCEPT !.text = "plain"] OBVIOUS
    <3>2. PICK r \in {"system", "user", "assistant", "tool"}, t \in STRING, c \in STRING :
            m = [role |-> r, text |-> t, tool |-> c]
      BY ONLY <2>2 DEF Message
    <3>3. x = [role |-> r, text |-> "plain", tool |-> c] BY ONLY <3>1, <3>2
    <3>4. x \in Rows /\ x.text = "plain" BY ONLY <3>3, <3>2 DEF Rows
    <3> QED BY <2>3, <2>4, <3>1, <3>4
  <2>5. CASE m.text # "rag" BY <2>2, <2>3, <2>5 DEF Message, Rows
  <2> QED BY <2>4, <2>5
<1>6. Len(rows) = n BY <1>3, <1>4
<1>7. PICK p : p = [i \in 1 .. n |-> IF rows[i].role # "tool" /\ rows[i].text \notin {"calls"}
                                    THEN <<rows[i]>> ELSE <<>>]
  OBVIOUS
<1>8. p \in Seq(Seq(Remembers))
  <2>1. ASSUME NEW i \in 1 .. n PROVE p[i] \in Seq(Remembers)
    <3>1. PICK m : m = rows[i] OBVIOUS
    <3>2. m \in Rows /\ m.text # "rag" BY <1>5, <3>1
    <3>3. p[i] = IF m.role # "tool" /\ m.text \notin {"calls"} THEN <<m>> ELSE <<>> BY <1>7, <3>1
    <3>4. m.role # "tool" /\ m.text # "calls" => m \in Remembers BY <3>2 DEF Remembers
    <3>5. m \in Remembers => <<m>> \in Seq(Remembers) OBVIOUS
    <3> QED BY <3>3, <3>4, <3>5
  <2>2. p \in [1 .. n -> Seq(Remembers)] BY <1>7, <2>1
  <2> QED BY <1>3, <2>2
<1>9. FlattenSeq(p) \in Seq(Remembers) BY ONLY <1>8, FlattenTyped
<1>10. WritePathMessages(ms) = FlattenSeq(p)
  BY <1>1, <1>6, <1>7 DEF WritePathMessages, Without
<1> QED BY <1>9, <1>10

\* What the client is to be shown of the generation that runs, or was shown.
Said == IF gen.spec THEN FlattenSeq(produced) ELSE shown
SaidTyped == IF gen.spec THEN produced \in Seq(Seq(Shows)) ELSE shown \in Seq(Shows)

\* Up to a guard's intervention, what is said is a beginning of the text.
Telling ==
  /\ gen.text \in Seq(Tokens) /\ gen.sent \in 0 .. Len(gen.text)
  /\ Said = SubSeq(gen.text, 1, gen.sent)
  /\ gen.streamed <=> gen.sent # 0
  /\ ~gen.settled => gen.text = <<>>

\* An answer without tool results is sent as it is read.
ReadingTells ==
  /\ gen.guard = "" /\ Telling
  /\ gen.mode = "main" => gen.sent = Len(gen.text)
  /\ gen.pieces = 0 => gen.text = <<>>

EndedTells ==
  gen.guard = "" => Telling /\ (gen.mode = "main" => gen.sent \in {0, Len(gen.text)})

\* At the gate the text is what was said, cleaned, or nothing has been said.
GateTells ==
  gen.guard = "" =>
    /\ ~gen.refused /\ gen.text \in Seq(Tokens) /\ Markers(gen.text) = {}
    /\ IF gen.streamed THEN gen.text = Clean(Said) ELSE Said = <<>>

GeneratorTells ==
  /\ gen.mode \in {"main", "continuation"} /\ SaidTyped
  /\ gen.text \in Seq(Shows) /\ gen.pending \in Seq(Tokens) /\ gen.pieces \in Nat
  /\ gen.stage \in {"reading", "ended", "gate", "terminal", "done"}
  /\ gen.stage = "reading" => ReadingTells
  /\ gen.stage = "ended" => EndedTells
  /\ gen.stage = "gate" => GateTells

\* A generation that is running.
Told == DOMAIN gen = Fields /\ gen.spec \in BOOLEAN /\ GeneratorTells

LEMMA SaidIsText ==
  ASSUME SaidTyped
  PROVE  Said \in Seq(Shows)
BY FlattenTyped DEF SaidTyped, Said

\* An event adds what it carries, whoever runs the generator.
LEMMA SaidFurther ==
  ASSUME SaidTyped, gen'.spec = gen.spec, NEW c \in Seq(Shows), Yield(c)
  PROVE  SaidTyped' /\ Said' = Said \o c
<1>1. CASE gen.spec
  <2>1. produced \in Seq(Seq(Shows)) /\ produced' = Append(produced, c)
    BY <1>1 DEF Yield, Pull, SaidTyped
  <2>2. PICK p : p = produced OBVIOUS
  <2>3. p \in Seq(Seq(Shows)) BY <2>1, <2>2
  <2>4. FlattenSeq(Append(p, c)) = FlattenSeq(p) \o c BY ONLY <2>3, c \in Seq(Shows), FlattenAppend
  <2>5. Append(p, c) \in Seq(Seq(Shows)) BY <2>3
  <2> QED BY <1>1, <2>1, <2>2, <2>4, <2>5 DEF Said, SaidTyped
<1>2. CASE ~gen.spec
  <2>1. shown \in Seq(Shows) /\ shown' = shown \o c BY <1>2 DEF Yield, SaidTyped
  <2> QED BY <1>2, <2>1 DEF Said, SaidTyped
<1> QED BY <1>1, <1>2

LEMMA SaidStays ==
  ASSUME SaidTyped, gen'.spec = gen.spec, Quiet \/ Yield(<<>>)
  PROVE  SaidTyped' /\ Said' = Said
<1>1. CASE Quiet BY <1>1 DEF Quiet, Said, SaidTyped, streamVars
<1>2. CASE Yield(<<>>)
  <2>1. PICK c : c = <<>> OBVIOUS
  <2>2. c \in Seq(Shows) /\ Yield(c) BY <1>2, <2>1
  <2>3. SaidTyped' /\ Said' = Said \o c BY <2>2, SaidFurther
  <2>4. PICK s : s = Said OBVIOUS
  <2>5. s \in Seq(Shows) BY <2>4, SaidIsText
  <2>6. s \o c = s BY ONLY <2>1, <2>5, ConcatEmptySeq
  <2> QED BY <2>3, <2>4, <2>6
<1> QED BY <1>1, <1>2

LEMMA HoldTells ==
  ASSUME Told, NEW piece \in Tokens, HoldPiece(piece)
  PROVE  GeneratorTells'
<1>1. gen.stage = "reading" /\ GeneratorTells /\ gen.spec \in BOOLEAN
  BY DEF HoldPiece, MorePieces, Reading, Told
<1>2. PICK b : b = Buffer(piece) OBVIOUS
<1>3. b \in Seq(Tokens) BY <1>1, <1>2 DEF Buffer, GeneratorTells
<1>4. gen' = [gen EXCEPT !.pieces = @ + 1, !.pending = b] BY <1>2 DEF HoldPiece
<1>5. /\ gen'.mode = gen.mode /\ gen'.stage = "reading" /\ gen'.text = gen.text
      /\ gen'.sent = gen.sent /\ gen'.guard = gen.guard /\ gen'.streamed = gen.streamed
      /\ gen'.pending = b /\ gen'.pieces = gen.pieces + 1 /\ gen'.spec = gen.spec
      /\ gen'.settled = gen.settled
  BY <1>1, <1>4, FieldNames DEF Told
<1>6. SaidTyped' /\ Said' = Said BY <1>1, <1>5, SaidStays DEF HoldPiece, GeneratorTells
<1>7. gen.pieces \in Nat /\ ReadingTells BY <1>1 DEF GeneratorTells
<1>8. gen'.pieces \in Nat /\ gen'.pieces # 0 BY <1>5, <1>7
<1>9. Telling' BY ONLY <1>5, <1>6, <1>7 DEF Telling, ReadingTells
<1>10. ReadingTells' BY ONLY <1>5, <1>7, <1>8, <1>9 DEF ReadingTells
<1> QED BY ONLY <1>1, <1>3, <1>5, <1>6, <1>8, <1>10 DEF GeneratorTells

\* The text with another piece: what was said is still a beginning of it.
LEMMA CandidateTells ==
  ASSUME Told, gen.stage = "reading", NEW piece \in Tokens, Settled(piece)
  PROVE  \E t \in Seq(Tokens) :
           /\ Len(t) >= 1 /\ Candidate(piece) = gen.text \o t
           /\ Candidate(piece) \in Seq(Tokens) /\ Len(Candidate(piece)) = Len(gen.text) + Len(t)
           /\ gen.sent \in 0 .. Len(gen.text) /\ gen.sent \in 0 .. Len(Candidate(piece))
           /\ Said = SubSeq(Candidate(piece), 1, gen.sent)
<1>1. gen.pending \in Seq(Tokens) /\ Telling BY DEF Told, GeneratorTells, ReadingTells
<1>2. PICK t : t = Normal(piece) OBVIOUS
<1>3. t \in Seq(Tokens) /\ Len(t) >= 1 BY <1>1, <1>2, NormalGives
<1>4. PICK s, n : s = gen.text /\ n = gen.sent OBVIOUS
<1>5. s \in Seq(Tokens) /\ n \in 0 .. Len(s) /\ Said = SubSeq(s, 1, n)
  BY ONLY <1>1, <1>4 DEF Telling
<1>6. PICK c : c = s \o t OBVIOUS
<1>7. c \in Seq(Tokens) /\ Len(c) = Len(s) + Len(t) /\ Len(s) \in Nat /\ Len(t) \in Nat
  BY ONLY <1>3, <1>5, <1>6
<1>8. n \in 0 .. Len(c) BY ONLY <1>5, <1>7
<1>9. SubSeq(s \o t, 1, n) = SubSeq(s, 1, n) BY ONLY <1>3, <1>5, SameBeginning
<1>10. Candidate(piece) = c BY <1>2, <1>4, <1>6 DEF Candidate
<1> QED BY ONLY <1>3, <1>4, <1>5, <1>6, <1>7, <1>8, <1>9, <1>10

\* What a guard stops is no longer followed.
LEMMA StoppedTells ==
  ASSUME Told, SaidTyped', gen'.mode = gen.mode, gen'.stage = "ended", gen'.guard # "",
         gen'.text \in Seq(Shows), gen'.pending \in Seq(Tokens), gen'.pieces \in Nat
  PROVE  GeneratorTells'
BY DEF Told, GeneratorTells, EndedTells

LEMMA BlockTells ==
  ASSUME Told, NEW piece \in Tokens, BlockMarkup(piece)
  PROVE  GeneratorTells'
<1>1. /\ gen.stage = "reading" /\ Settled(piece) /\ Quiet /\ gen.pieces \in Nat
      /\ Markers(Candidate(piece)) # {} /\ SaidTyped
  BY DEF BlockMarkup, MorePieces, Reading, Forbidden, Told, GeneratorTells
<1>2. PICK c : c = Candidate(piece) OBVIOUS
<1>3. PICK p : p = BeforeMarker(c) OBVIOUS
<1>4. c \in Seq(Shows) BY <1>1, <1>2, CandidateTells, TokensShow
<1>5. p \in Seq(Shows)
  <2>1. PICK m \in Markers(c) :
           BeforeMarker(c) = SubSeq(c, 1, m - 1) /\ m - 1 \in 0 .. Len(c)
    BY <1>1, <1>2, <1>4, BeforeFirst
  <2>2. SubSeq(c, 1, m - 1) \in Seq(Shows) BY <1>4, <2>1, BeginningOf
  <2> QED BY <1>3, <2>1, <2>2
<1>6. gen' = [gen EXCEPT !.pieces = @ + 1, !.pending = <<>>, !.settled = TRUE,
                         !.text = p, !.guard = "markup", !.stage = "ended"]
  BY <1>2, <1>3 DEF BlockMarkup, Read
<1>7. /\ gen'.mode = gen.mode /\ gen'.stage = "ended" /\ gen'.text = p /\ gen'.guard = "markup"
      /\ gen'.pending = <<>> /\ gen'.pieces = gen.pieces + 1 /\ gen'.spec = gen.spec
  BY <1>6, FieldNames DEF Told
<1>8. SaidTyped' BY <1>1, <1>7, SaidStays
<1>9. <<>> \in Seq(Tokens) OBVIOUS
<1>10. gen'.pieces \in Nat BY <1>1, <1>7
<1> QED BY <1>5, <1>7, <1>8, <1>9, <1>10, StoppedTells

LEMMA LoopTells ==
  ASSUME Told, NEW piece \in Tokens, StopLoop(piece)
  PROVE  GeneratorTells'
<1>1. gen.stage = "reading" /\ Settled(piece) /\ Quiet /\ gen.pieces \in Nat /\ SaidTyped
  BY DEF StopLoop, MorePieces, Reading, Told, GeneratorTells
<1>2. PICK c : c = Candidate(piece) OBVIOUS
<1>3. c \in Seq(Shows) BY <1>1, <1>2, CandidateTells, TokensShow
<1>4. PICK p : p = CutLoop(c) OBVIOUS
<1>5. p \in Seq(Shows) BY <1>3, <1>4, CutTyped
<1>6. gen' = [gen EXCEPT !.pieces = @ + 1, !.pending = <<>>, !.settled = TRUE,
                         !.text = p, !.guard = "repeated", !.stage = "ended"]
  BY <1>2, <1>4 DEF StopLoop, Read
<1>7. /\ gen'.mode = gen.mode /\ gen'.stage = "ended" /\ gen'.text = p /\ gen'.guard = "repeated"
      /\ gen'.pending = <<>> /\ gen'.pieces = gen.pieces + 1 /\ gen'.spec = gen.spec
  BY <1>6, FieldNames DEF Told
<1>8. SaidTyped' BY <1>1, <1>7, SaidStays
<1>9. <<>> \in Seq(Tokens) OBVIOUS
<1>10. gen'.pieces \in Nat BY <1>1, <1>7
<1> QED BY <1>5, <1>7, <1>8, <1>9, <1>10, StoppedTells

LEMMA EmitTells ==
  ASSUME Told, NEW piece \in Tokens, EmitPiece(piece)
  PROVE  GeneratorTells'
<1>1. /\ gen.stage = "reading" /\ Settled(piece) /\ GeneratorTells /\ ReadingTells
      /\ gen.pieces \in Nat /\ SaidTyped
  BY DEF EmitPiece, MorePieces, Reading, Told, GeneratorTells
<1>2. PICK c : c = Candidate(piece) OBVIOUS
<1>3. PICK k, n, m : k = Len(gen.text) /\ n = gen.sent /\ m = Len(c) OBVIOUS
<1>4. /\ c \in Seq(Tokens) /\ k \in Nat /\ m \in Nat /\ m >= k + 1
      /\ n \in 0 .. k /\ n \in 0 .. m /\ Said = SubSeq(c, 1, n)
  <2>1. PICK t \in Seq(Tokens) :
          /\ Len(t) >= 1 /\ c \in Seq(Tokens) /\ m = k + Len(t)
          /\ n \in 0 .. k /\ n \in 0 .. m /\ Said = SubSeq(c, 1, n)
    BY <1>1, <1>2, <1>3, CandidateTells
  <2>2. gen.text \in Seq(Tokens) BY ONLY <1>1 DEF ReadingTells, Telling
  <2>3. k \in Nat BY ONLY <1>3, <2>2
  <2>4. Len(t) \in Nat OBVIOUS
  <2> QED BY ONLY <2>1, <2>3, <2>4
<1>5. PICK safe : safe = SentUpTo(c) OBVIOUS
<1>6. safe \in 0 .. m /\ (gen.mode = "main" => safe = m)
  <2>1. safe = m \/ (c # <<>> /\ safe = m - 1) BY <1>3, <1>5 DEF SentUpTo, SafeEmitEnd
  <2>2. gen.mode = "main" => safe = m BY <1>3, <1>5 DEF SentUpTo
  <2> QED BY <1>4, <2>1, <2>2
<1>7. PICK first \in Nat : first = n + 1 BY <1>4
<1>8. PICK new : new = SubSeq(c, first, safe) OBVIOUS
<1>9. /\ gen' = [Read(piece) EXCEPT !.text = c, !.sent = IF safe > @ THEN safe ELSE @,
                                    !.streamed = @ \/ new # <<>>]
      /\ IF new = <<>> THEN Quiet ELSE Yield(new)
  BY <1>2, <1>3, <1>5, <1>7, <1>8 DEF EmitPiece
<1>10. PICK upto : upto = IF safe > n THEN safe ELSE n OBVIOUS
<1>11. upto \in n .. m /\ upto \in 0 .. m /\ (gen.mode = "main" => upto = m)
  BY <1>4, <1>6, <1>10
<1>12. /\ gen'.mode = gen.mode /\ gen'.stage = "reading" /\ gen'.text = c /\ gen'.sent = upto
       /\ gen'.guard = gen.guard /\ gen'.streamed = (gen.streamed \/ new # <<>>)
       /\ gen'.pending = <<>> /\ gen'.pieces = gen.pieces + 1 /\ gen'.spec = gen.spec
       /\ gen'.settled = TRUE
  <2>1. PICK r : r = Read(piece) OBVIOUS
  <2>2. /\ DOMAIN r = Fields /\ r.mode = gen.mode /\ r.stage = "reading" /\ r.sent = n
        /\ r.guard = gen.guard /\ r.streamed = gen.streamed /\ r.pending = <<>>
        /\ r.pieces = gen.pieces + 1 /\ r.spec = gen.spec /\ r.settled = TRUE
    BY <1>1, <1>3, <2>1, FieldNames DEF Read, Told
  <2> QED BY <1>9, <1>10, <2>1, <2>2, FieldNames
<1>13. /\ new \in Seq(Shows)
       /\ new = <<>> <=> safe <= n
  <2>1. first \in Int /\ safe \in Int /\ \A i \in first .. safe : c[i] \in Shows
    <3>1. \A i \in first .. safe : i \in 1 .. Len(c) BY <1>3, <1>4, <1>6, <1>7
    <3>2. \A i \in 1 .. Len(c) : c[i] \in Shows BY <1>4 DEF Shows
    <3> QED BY <1>6, <3>1, <3>2
  <2>2. /\ SubSeq(c, first, safe) \in Seq(Shows)
        /\ Len(SubSeq(c, first, safe)) = IF first <= safe THEN safe - first + 1 ELSE 0
    BY ONLY <2>1, SubSeqProperties
  <2>3. new \in Seq(Shows) /\ Len(new) = IF first <= safe THEN safe - first + 1 ELSE 0
    BY ONLY <1>8, <2>2
  <2>4. new = <<>> <=> Len(new) = 0 BY ONLY <2>3
  <2> QED BY <1>4, <1>6, <1>7, <2>1, <2>3, <2>4
<1>14. SaidTyped' /\ Said' = SubSeq(c, 1, upto)
  <2>1. CASE new = <<>>
    <3>1. SaidTyped' /\ Said' = Said BY <1>1, <1>9, <1>12, <2>1, SaidStays
    <3>2. upto = n BY <1>4, <1>6, <1>10, <1>13, <2>1
    <3> QED BY <1>4, <3>1, <3>2
  <2>2. CASE new # <<>>
    <3>1. Yield(new) BY <1>9, <2>2
    <3>2. SaidTyped' /\ Said' = Said \o new BY <1>1, <1>12, <1>13, <3>1, SaidFurther
    <3>3. upto = safe BY <1>4, <1>6, <1>10, <1>13, <2>2
    <3>4. SubSeq(c, 1, n) \o SubSeq(c, n + 1, upto) = SubSeq(c, 1, upto)
      BY ONLY <1>3, <1>4, <1>11, SentFurther
    <3> QED BY ONLY <1>4, <1>7, <1>8, <3>2, <3>3, <3>4
  <2> QED BY <2>1, <2>2
<1>15. gen'.streamed <=> gen'.sent # 0
  <2>1. gen.streamed <=> n # 0 BY ONLY <1>1, <1>3 DEF ReadingTells, Telling
  <2>2. gen'.streamed <=> (n # 0 \/ new # <<>>) BY ONLY <1>12, <2>1
  <2>3. (n # 0 \/ new # <<>>) <=> upto # 0 BY ONLY <1>4, <1>6, <1>10, <1>13
  <2> QED BY ONLY <1>12, <2>2, <2>3
<1>16. Telling' BY ONLY <1>3, <1>4, <1>11, <1>12, <1>14, <1>15 DEF Telling
<1>17. gen'.pieces \in Nat /\ gen'.pieces # 0 BY <1>1, <1>12
<1>18. ReadingTells'
  <2>1. gen.guard = "" BY ONLY <1>1 DEF ReadingTells
  <2> QED BY ONLY <1>3, <1>11, <1>12, <1>16, <1>17, <2>1 DEF ReadingTells
<1>19. gen'.text \in Seq(Shows) /\ gen'.pending \in Seq(Tokens)
  <2>1. <<>> \in Seq(Tokens) OBVIOUS
  <2> QED BY <1>4, <1>12, <2>1, TokensShow
<1> QED BY ONLY <1>1, <1>12, <1>14, <1>17, <1>18, <1>19 DEF GeneratorTells

LEMMA BackendTells ==
  ASSUME Told, BackendDone \/ BackendFails \/ BlockCalls \/ \E loops : EmitReasoning(loops)
  PROVE  GeneratorTells'
<1>1. /\ gen.stage = "reading" /\ GeneratorTells /\ ReadingTells /\ SaidTyped
      /\ DOMAIN gen = Fields
  BY DEF BackendDone, BackendFails, BlockCalls, EmitReasoning, Reading, Told, GeneratorTells
<1>2. Quiet \/ Yield(<<>>) BY DEF BackendDone, BackendFails, BlockCalls, EmitReasoning
<1>3. /\ gen'.mode = gen.mode /\ gen'.sent = gen.sent /\ gen'.streamed = gen.streamed
      /\ gen'.pending = gen.pending /\ gen'.pieces = gen.pieces /\ gen'.spec = gen.spec
      /\ gen'.settled = gen.settled
      /\ \/ gen'.stage = "reading" /\ gen'.text = gen.text /\ gen'.guard = gen.guard
         \/ gen'.stage = "ended" /\ gen'.text = gen.text /\ gen'.guard = gen.guard
         \/ gen'.stage = "ended" /\ gen'.text \in {gen.text, Notice} /\ gen'.guard # ""
  <2>1. CASE BackendDone BY <1>1, <2>1, FieldNames DEF BackendDone
  <2>2. CASE BackendFails BY <1>1, <2>2, FieldNames DEF BackendFails
  <2>3. CASE BlockCalls BY <1>1, <2>3, FieldNames DEF BlockCalls
  <2>4. ASSUME NEW loops, EmitReasoning(loops)
        PROVE  /\ \/ gen' = [gen EXCEPT !.guard = "repeated", !.stage = "ended"]
                  \/ gen' = [gen EXCEPT !.thoughts = @ + 1]
    BY <2>4 DEF EmitReasoning
  <2>5. CASE gen' = [gen EXCEPT !.guard = "repeated", !.stage = "ended"]
    BY <1>1, <2>5, FieldNames
  <2>6. CASE gen' = [gen EXCEPT !.thoughts = @ + 1]
    BY <1>1, <2>6, FieldNames
  <2> QED BY <2>1, <2>2, <2>3, <2>4, <2>5, <2>6
<1>4. SaidTyped' /\ Said' = Said BY <1>1, <1>2, <1>3, SaidStays
<1>5. gen'.text \in Seq(Shows) /\ gen'.pending \in Seq(Tokens) /\ gen'.pieces \in Nat
  BY <1>1, <1>3, NoticeIsContent DEF GeneratorTells
<1>6. gen'.text = gen.text => Telling'
  BY ONLY <1>1, <1>3, <1>4 DEF Telling, ReadingTells
<1>7. CASE gen'.stage = "reading" /\ gen'.text = gen.text /\ gen'.guard = gen.guard
  <2>1. ReadingTells' BY ONLY <1>1, <1>3, <1>6, <1>7 DEF ReadingTells
  <2> QED BY ONLY <1>1, <1>3, <1>4, <1>5, <1>7, <2>1 DEF GeneratorTells
<1>8. CASE gen'.stage = "ended" /\ gen'.text = gen.text /\ gen'.guard = gen.guard
  <2>1. EndedTells' BY ONLY <1>1, <1>3, <1>6, <1>8 DEF EndedTells, ReadingTells
  <2> QED BY ONLY <1>1, <1>3, <1>4, <1>5, <1>8, <2>1 DEF GeneratorTells
<1>9. CASE gen'.stage = "ended" /\ gen'.guard # ""
  BY <1>3, <1>4, <1>5, <1>9, StoppedTells
<1> QED BY <1>3, <1>7, <1>8, <1>9

LEMMA NormalizedTokens ==
  ASSUME NEW text \in Seq(Tokens)
  PROVE  Normalized(text) \in Seq(Tokens)
<1>1. CASE Undecided(text)
  <2>1. PICK n : n = Normalized(text) OBVIOUS
  <2>2. n = text \/ n = <<>> BY <1>1, <2>1 DEF Normalized, Unfinished
  <2>3. <<>> \in Seq(Tokens) OBVIOUS
  <2>4. CASE n = text BY <2>1, <2>4
  <2>5. CASE n = <<>> BY <2>1, <2>3, <2>5
  <2> QED BY <2>2, <2>4, <2>5
<1>2. CASE ~Undecided(text)
  <2>1. text # <<>> BY <1>2 DEF Undecided
  <2>2. Tail(text) \in Seq(Tokens) BY <2>1
  <2> QED BY <1>2, <2>2 DEF Normalized, Decided
<1> QED BY <1>1, <1>2

LEMMA TextsTokens == \A s \in Texts : s \in Seq(Tokens)
<1>1. ASSUME NEW s \in Texts PROVE s \in Seq(Tokens)
  <2>1. PICK n \in 0 .. MaxPieces : s \in [1 .. n -> Tokens] BY DEF Texts
  <2>2. n \in Nat BY ChatAssumption
  <2> QED BY <2>1, <2>2
<1> QED BY <1>1

\* An answer in one piece comes when nothing has been said.
LEMMA JsonTells ==
  ASSUME Told, NEW text \in Texts, NEW proposes, JsonAnswer(text, proposes)
  PROVE  GeneratorTells'
<1>1. /\ gen.stage = "reading" /\ GeneratorTells /\ ReadingTells /\ SaidTyped /\ gen.pieces = 0
      /\ DOMAIN gen = Fields /\ Quiet
  BY DEF JsonAnswer, Reading, Told, GeneratorTells
<1>2. gen.sent = 0 /\ ~gen.streamed /\ Said = <<>>
  <2>1. PICK t, k, n : t = gen.text /\ k = gen.sent /\ n = Len(t) OBVIOUS
  <2>2. t = <<>> /\ k \in 0 .. n /\ Said = SubSeq(t, 1, k) /\ (gen.streamed <=> k # 0)
    BY ONLY <1>1, <2>1 DEF ReadingTells, Telling
  <2>3. n = 0 BY <2>1, <2>2
  <2>4. k = 0 BY ONLY <2>2, <2>3
  <2>5. PICK a \in Int, b \in Int : a = 1 /\ b = 0 OBVIOUS
  <2>6. SubSeq(t, a, b) = <<>> BY <2>5, SubSeqEmpty
  <2> QED BY ONLY <2>1, <2>2, <2>4, <2>5, <2>6
<1>3. PICK blocked \in BOOLEAN : blocked = (gen.mode = "continuation" /\ proposes)
  <2>1. (gen.mode = "continuation" /\ proposes) \in BOOLEAN OBVIOUS
  <2> QED BY <2>1
<1>4. PICK answer : answer = IF blocked THEN <<>>
                             ELSE IF gen.settled THEN text ELSE Normalized(text)
  OBVIOUS
<1>5. answer \in Seq(Tokens)
  <2>1. text \in Seq(Tokens) BY TextsTokens
  <2>2. Normalized(text) \in Seq(Tokens) BY <2>1, NormalizedTokens
  <2>3. <<>> \in Seq(Tokens) OBVIOUS
  <2> QED BY <1>4, <2>1, <2>2, <2>3
<1>6. gen' = [gen EXCEPT !.stage = "ended", !.settled = TRUE, !.text = answer,
                         !.guard = IF blocked THEN "calls" ELSE ""]
  BY <1>3, <1>4 DEF JsonAnswer
<1>7. /\ gen'.mode = gen.mode /\ gen'.stage = "ended" /\ gen'.text = answer
      /\ gen'.sent = gen.sent /\ gen'.streamed = gen.streamed /\ gen'.pending = gen.pending
      /\ gen'.pieces = gen.pieces /\ gen'.spec = gen.spec /\ gen'.settled = TRUE
  BY <1>1, <1>6, FieldNames
<1>8. SaidTyped' /\ Said' = <<>> BY <1>1, <1>2, <1>7, SaidStays
<1>9. EndedTells'
  <2>1. PICK n \in Nat : n = Len(answer) BY <1>5
  <2>2. PICK a \in Int, b \in Int : a = 1 /\ b = 0 OBVIOUS
  <2>3. SubSeq(answer, a, b) = <<>> BY <2>2, SubSeqEmpty
  <2>4. 0 \in 0 .. n BY <2>1
  <2>5. Telling' BY ONLY <1>2, <1>5, <1>7, <1>8, <2>1, <2>2, <2>3, <2>4 DEF Telling
  <2>6. gen'.sent \in {0, Len(gen'.text)} BY <1>2, <1>7
  <2> QED BY ONLY <2>5, <2>6 DEF EndedTells
<1>10. gen'.text \in Seq(Shows) /\ gen'.pending \in Seq(Tokens) /\ gen'.pieces \in Nat
  <2>1. answer \in Seq(Shows) BY <1>5, TokensShow
  <2> QED BY <1>1, <1>7, <2>1 DEF GeneratorTells
<1> QED BY ONLY <1>1, <1>7, <1>8, <1>9, <1>10 DEF GeneratorTells

\* A continuation sends the rest of the text; another answer has sent it all,
\* or nothing and leaves the whole reply to the gate.
RestOf(text, sent, whole) ==
  /\ whole \in Seq(Tokens)
  /\ SubSeq(whole, sent + 1, Len(whole)) \in Seq(Tokens)
  /\ SubSeq(text, 1, sent) \o SubSeq(whole, sent + 1, Len(whole)) = whole

LEMMA RestTells ==
  ASSUME NEW text \in Seq(Tokens), NEW tail \in Seq(Tokens), NEW sent \in 0 .. Len(text),
         NEW whole, whole = text \o tail
  PROVE  RestOf(text, sent, whole)
<1>1. /\ whole \in Seq(Tokens) /\ Len(whole) = Len(text) + Len(tail)
      /\ Len(text) \in Nat /\ Len(tail) \in Nat
  OBVIOUS
<1>2. PICK n : n = Len(whole) OBVIOUS
<1>3. n \in Nat /\ sent \in 0 .. n /\ n \in sent .. n /\ n \in 0 .. n BY ONLY <1>1, <1>2, sent \in 0 .. Len(text)
<1>4. SubSeq(text \o tail, 1, sent) = SubSeq(text, 1, sent)
  BY ONLY text \in Seq(Tokens), tail \in Seq(Tokens), sent \in 0 .. Len(text), SameBeginning
<1>5. SubSeq(whole, 1, sent) \o SubSeq(whole, sent + 1, n) = SubSeq(whole, 1, n)
  BY ONLY <1>1, <1>2, <1>3, SentFurther
<1>6. SubSeq(whole, 1, n) = whole
  <2>1. PICK p : p = SubSeq(whole, 1, n) OBVIOUS
  <2>2. p \in Seq(Tokens) /\ Len(p) = n /\ \A i \in 1 .. n : p[i] = whole[i]
    BY ONLY <1>1, <1>2, <1>3, <2>1, BeginningOf
  <2>3. p = whole BY ONLY <1>1, <1>2, <2>2, SeqEqual
  <2> QED BY <2>1, <2>3
<1>7. SubSeq(whole, sent + 1, n) \in Seq(Tokens)
  <2>1. PICK first \in Nat : first = sent + 1 BY <1>3
  <2>2. first \in Int /\ n \in Int /\ \A i \in first .. n : whole[i] \in Tokens
    <3>1. \A i \in first .. n : i \in 1 .. Len(whole) BY ONLY <1>2, <1>3, <2>1
    <3>2. \A i \in 1 .. Len(whole) : whole[i] \in Tokens BY <1>1
    <3> QED BY <1>3, <3>1, <3>2
  <2> QED BY ONLY <2>1, <2>2, SubSeqProperties
<1> QED BY <1>1, <1>2, <1>4, <1>5, <1>6, <1>7 DEF RestOf

LEMMA ConcludeTells ==
  ASSUME Told, Conclude
  PROVE  GeneratorTells'
<1>1. /\ gen.stage = "ended" /\ EndedTells /\ gen.mode \in {"main", "continuation"} /\ SaidTyped
      /\ gen.text \in Seq(Shows) /\ gen.pending \in Seq(Tokens) /\ gen.pieces \in Nat
  BY DEF Conclude, Told, GeneratorTells
<1>2. PICK tail : tail = IF gen.guard = "" /\ ~gen.settled THEN Unfinished(gen.pending) ELSE <<>>
  OBVIOUS
<1>3. PICK text, sent : text = gen.text /\ sent = gen.sent OBVIOUS
<1>4. PICK whole : whole = text \o tail OBVIOUS
<1>5. PICK marked \in BOOLEAN :
        marked = (gen.mode = "continuation" /\ gen.guard = "" /\ Markers(whole) # {})
  <2>1. (gen.mode = "continuation" /\ gen.guard = "" /\ Markers(whole) # {}) \in BOOLEAN OBVIOUS
  <2> QED BY <2>1
<1>6. PICK client : client = IF marked THEN BeforeMarker(whole) ELSE whole OBVIOUS
<1>7. PICK reply : reply = Clean(client) OBVIOUS
<1>8. PICK guard : guard = IF Loops(reply) THEN "repeated"
                           ELSE IF marked THEN "markup" ELSE gen.guard
  OBVIOUS
<1>9. PICK refused \in BOOLEAN :
        refused = (gen.mode = "continuation" /\ guard \notin {"", "repeated"})
  <2>1. (gen.mode = "continuation" /\ guard \notin {"", "repeated"}) \in BOOLEAN OBVIOUS
  <2> QED BY <2>1
<1>10. PICK rest : rest = IF gen.mode = "continuation" /\ guard = ""
                          THEN SubSeq(client, sent + 1, Len(client)) ELSE <<>>
  OBVIOUS
<1>11. PICK out : out = IF refused THEN Notice ELSE rest OBVIOUS
<1>12. PICK final : final = IF refused THEN <<>> ELSE CutLoop(reply) OBVIOUS
<1>13. /\ gen' = [gen EXCEPT !.stage = "gate", !.guard = guard, !.refused = refused,
                     !.text = final, !.streamed = @ \/ out # <<>>]
       /\ IF out = <<>> THEN Quiet ELSE Yield(out)
  BY ONLY Conclude, <1>2, <1>3, <1>4, <1>5, <1>6, <1>7, <1>8, <1>9, <1>10, <1>11, <1>12
  DEF Conclude
<1>14. /\ gen'.mode = gen.mode /\ gen'.stage = "gate" /\ gen'.text = final /\ gen'.guard = guard
       /\ gen'.refused = refused /\ gen'.streamed = (gen.streamed \/ out # <<>>)
       /\ gen'.pending = gen.pending /\ gen'.pieces = gen.pieces /\ gen'.spec = gen.spec
  BY <1>13, FieldNames DEF Told
<1>15. tail \in Seq(Tokens)
  <2>1. <<>> \in Seq(Tokens) OBVIOUS
  <2>2. tail = <<>> \/ tail = gen.pending BY <1>2 DEF Unfinished
  <2> QED BY <1>1, <2>1, <2>2
<1>16. text \in Seq(Shows) /\ whole \in Seq(Shows)
  <2>1. tail \in Seq(Shows) BY <1>15, TokensShow
  <2> QED BY <1>1, <1>3, <1>4, <2>1
<1>17. client \in Seq(Shows)
  <2>1. CASE marked
    <3>1. PICK m \in Markers(whole) :
             BeforeMarker(whole) = SubSeq(whole, 1, m - 1) /\ m - 1 \in 0 .. Len(whole)
      BY <1>5, <1>16, <2>1, BeforeFirst
    <3>2. SubSeq(whole, 1, m - 1) \in Seq(Shows) BY <1>16, <3>1, BeginningOf
    <3> QED BY <1>6, <2>1, <3>1, <3>2
  <2>2. CASE ~marked BY <1>6, <1>16, <2>2
  <2> QED BY <2>1, <2>2
<1>18. final \in Seq(Shows)
  <2>1. reply \in Seq(Shows) BY <1>7, <1>17, CleanHasNoMarkers
  <2>2. CutLoop(reply) \in Seq(Shows) BY <2>1, CutTyped
  <2>3. <<>> \in Seq(Shows) OBVIOUS
  <2> QED BY <1>12, <2>2, <2>3
<1>19. ASSUME guard = ""
       PROVE  /\ gen.guard = "" /\ ~marked /\ ~refused /\ client = whole /\ final = reply
              /\ text \in Seq(Tokens) /\ sent \in 0 .. Len(text)
              /\ Said = SubSeq(text, 1, sent) /\ (gen.streamed <=> sent # 0)
              /\ (~gen.settled => text = <<>>)
              /\ (gen.mode = "main" => sent \in {0, Len(text)})
              /\ rest \in Seq(Tokens)
  <2>1. gen.guard = "" /\ ~marked /\ ~Loops(reply) BY <1>8, <1>19
  <2>2. ~refused BY <1>9, <1>19
  <2>3. client = whole /\ final = reply BY <1>6, <1>12, <2>1, <2>2 DEF CutLoop
  <2>4. Telling /\ (gen.mode = "main" => gen.sent \in {0, Len(gen.text)})
    BY ONLY <1>1, <2>1 DEF EndedTells
  <2>5. /\ text \in Seq(Tokens) /\ sent \in 0 .. Len(text)
        /\ Said = SubSeq(text, 1, sent) /\ (gen.streamed <=> sent # 0)
        /\ (~gen.settled => text = <<>>)
        /\ (gen.mode = "main" => sent \in {0, Len(text)})
    BY ONLY <1>3, <2>4 DEF Telling
  <2>6. SubSeq(whole, sent + 1, Len(whole)) \in Seq(Tokens)
    <3>1. RestOf(text, sent, whole) BY ONLY <1>4, <1>15, <2>5, RestTells
    <3> QED BY ONLY <3>1 DEF RestOf
  <2>7. <<>> \in Seq(Tokens) OBVIOUS
  <2>8. rest \in Seq(Tokens) BY ONLY <1>10, <2>3, <2>6, <2>7
  <2> QED BY ONLY <2>1, <2>2, <2>3, <2>5, <2>8
<1>20. out \in Seq(Shows)
  <2>1. <<>> \in Seq(Shows) OBVIOUS
  <2>2. CASE guard = "" BY <1>11, <1>19, <2>2, TokensShow
  <2>3. CASE guard # "" BY <1>10, <1>11, <2>1, <2>3, NoticeIsContent
  <2> QED BY <2>2, <2>3
<1>21. SaidTyped' /\ Said' = Said \o out
  <2>1. CASE out = <<>>
    <3>1. PICK s : s = Said OBVIOUS
    <3>2. s \in Seq(Shows) BY <1>1, <3>1, SaidIsText
    <3>3. s \o <<>> = s BY ONLY <3>2, ConcatEmptySeq
    <3>4. SaidTyped' /\ Said' = Said BY <1>1, <1>13, <1>14, <2>1, SaidStays
    <3> QED BY ONLY <2>1, <3>1, <3>3, <3>4
  <2>2. CASE out # <<>> BY <1>1, <1>13, <1>14, <1>20, <2>2, SaidFurther
  <2> QED BY <2>1, <2>2
<1>22. ASSUME guard = "" PROVE final \in Seq(Tokens) /\ Markers(final) = {} /\ whole \in Seq(Tokens)
  <2>1. text \in Seq(Tokens) /\ sent \in 0 .. Len(text) /\ client = whole /\ final = reply
    BY <1>19, <1>22
  <2>2. RestOf(text, sent, whole) BY ONLY <1>4, <1>15, <2>1, RestTells
  <2>3. whole \in Seq(Tokens) BY ONLY <2>2 DEF RestOf
  <2> QED BY <1>7, <2>1, <2>3, CleanHasNoMarkers
<1>23. ASSUME guard = "" PROVE IF gen.streamed \/ out # <<>> THEN final = Clean(Said') ELSE Said' = <<>>
  <2>0. /\ text \in Seq(Tokens) /\ sent \in 0 .. Len(text) /\ client = whole /\ final = Clean(whole)
        /\ Said = SubSeq(text, 1, sent) /\ (gen.streamed <=> sent # 0) /\ out = rest
        /\ (~gen.settled => text = <<>>) /\ (gen.mode = "main" => sent \in {0, Len(text)})
    BY <1>7, <1>11, <1>19, <1>23
  <2>1. PICK a \in Int, b \in Int : a = 1 /\ b = 0 OBVIOUS
  <2>2. SubSeq(text, a, b) = <<>> BY <2>1, SubSeqEmpty
  <2>3. ~gen.streamed => Said = <<>> BY ONLY <2>0, <2>1, <2>2
  <2>4. CASE gen.mode = "continuation"
    <3>1. out = SubSeq(whole, sent + 1, Len(whole)) BY <1>10, <1>23, <2>0, <2>4
    <3>0. text \in Seq(Tokens) /\ sent \in 0 .. Len(text) BY ONLY <2>0
    <3>2. RestOf(text, sent, whole)
      BY ONLY <1>4, <1>15, <3>0, RestTells
    <3>3. Said' = whole BY ONLY <1>21, <2>0, <3>1, <3>2 DEF RestOf
    <3>4. out = <<>> /\ Said = <<>> => Said' = <<>>
      <4>1. <<>> \o <<>> = <<>> OBVIOUS
      <4> QED BY ONLY <1>21, <4>1
    <3> QED BY ONLY <2>0, <2>3, <3>3, <3>4
  <2>5. CASE gen.mode = "main"
    <3>1. out = <<>> BY <1>10, <2>0, <2>5
    <3>2. PICK s : s = Said OBVIOUS
    <3>3. s \in Seq(Shows) BY <1>1, <3>2, SaidIsText
    <3>4. s \o <<>> = s BY ONLY <3>3, ConcatEmptySeq
    <3>5. Said' = Said BY ONLY <1>21, <3>1, <3>2, <3>4
    <3>6. ASSUME gen.streamed PROVE Said = whole
      <4>1. sent # 0 /\ sent = Len(text) BY <2>0, <2>5, <3>6
      <4>2. text # <<>>
        <5>1. CASE text = <<>> BY <4>1, <5>1
        <5> QED BY <5>1
      <4>3. tail = <<>> BY <1>2, <2>0, <4>2
      <4>4. text \o <<>> = text BY ONLY <2>0, ConcatEmptySeq
      <4>5. SubSeq(text, 1, Len(text)) = text
        <5>1. Len(text) \in 0 .. Len(text) BY ONLY <2>0
        <5>2. PICK p : p = SubSeq(text, 1, Len(text)) OBVIOUS
        <5>3. p \in Seq(Tokens) /\ Len(p) = Len(text) /\ \A i \in 1 .. Len(text) : p[i] = text[i]
          BY ONLY <2>0, <5>1, <5>2, BeginningOf
        <5>4. p = text BY ONLY <2>0, <5>3, SeqEqual
        <5> QED BY <5>2, <5>4
      <4> QED BY ONLY <1>4, <2>0, <4>1, <4>3, <4>4, <4>5
    <3> QED BY ONLY <2>0, <2>3, <3>1, <3>5, <3>6
  <2> QED BY <1>1, <2>4, <2>5
<1>24. GateTells'
  <2>1. CASE guard = ""
    <3>1. ~refused /\ final \in Seq(Tokens) /\ Markers(final) = {}
          /\ IF gen.streamed \/ out # <<>> THEN final = Clean(Said') ELSE Said' = <<>>
      BY <1>19, <1>22, <1>23, <2>1
    <3> QED BY ONLY <1>14, <3>1 DEF GateTells
  <2>2. CASE guard # "" BY ONLY <1>14, <2>2 DEF GateTells
  <2> QED BY <2>1, <2>2
<1> QED BY ONLY <1>1, <1>14, <1>18, <1>21, <1>24 DEF GeneratorTells

\* What the task is given: the turn's rows and what was said, or, where there
\* was only reasoning, the diagnostic that a plain request got instead.
RemembersReply(r) ==
  /\ remembered = <<[rows |-> turn.rows, reply |-> r]>> /\ ~turn.internal
  /\ (r = Notice /\ gen.mode = "none" /\ ~body.stream) \/ ~Has(r, "!")
  /\ r \in {Clean(Said), StripReasoning(Said)}
  /\ gen.mode = "none" => phase = "answered"

MemoryInv ==
  /\ remembered = <<>> \/ \E r : RemembersReply(r)
  /\ gen.mode # "none" /\ gen.stage \in {"reading", "ended", "gate"} => remembered = <<>>

\* At the gate a reply that no guard stopped is what was said, cleaned; or it
\* is said now, and there is no thinking left in it to remove.
LEMMA PassTells ==
  ASSUME Told, MemoryInv, PassGate
  PROVE  GeneratorTells' /\ MemoryInv'
<1>1. /\ gen.stage = "gate" /\ gen.mode \in {"main", "continuation"} /\ GateTells /\ SaidTyped
      /\ gen.text \in Seq(Shows) /\ gen.pending \in Seq(Tokens) /\ gen.pieces \in Nat
      /\ gen.spec \in BOOLEAN /\ DOMAIN gen = Fields
  BY DEF PassGate, Told, GeneratorTells
<1>2. remembered = <<>> /\ gen.mode # "none" BY <1>1 DEF MemoryInv
<1>3. PICK silent \in BOOLEAN : silent = (~gen.refused /\ gen.text = <<>>)
  <2>1. (~gen.refused /\ gen.text = <<>>) \in BOOLEAN OBVIOUS
  <2> QED BY <2>1
<1>4. PICK reply : reply = IF silent THEN Notice ELSE gen.text OBVIOUS
<1>5. reply \in Seq(Shows) BY <1>1, <1>4, NoticeIsContent
<1>6. PICK event : event = IF gen.streamed THEN <<>> ELSE reply OBVIOUS
<1>7. event \in Seq(Shows)
  <2>1. <<>> \in Seq(Shows) OBVIOUS
  <2> QED BY <1>5, <1>6, <2>1
<1>8. PICK stage \in {"done", "terminal"} : stage = IF gen.streamed THEN "done" ELSE "terminal"
  OBVIOUS
<1>9. PICK guard : guard = IF silent /\ gen.guard = "" THEN "empty" ELSE gen.guard OBVIOUS
<1>10. /\ gen' = [gen EXCEPT !.text = reply, !.streamed = TRUE, !.guard = guard, !.stage = stage]
       /\ ScheduleWritePath(reply, gen'.guard # "")
       /\ IF gen.spec THEN PullPastGate(event) /\ UNCHANGED shown
          ELSE shown' = shown \o event /\ UNCHANGED streamVars
       /\ UNCHANGED <<phase, body, turn>>
  BY <1>3, <1>4, <1>6, <1>8, <1>9 DEF PassGate, handlerVars
<1>11. /\ gen'.mode = gen.mode /\ gen'.stage = stage /\ gen'.text = reply /\ gen'.guard = guard
       /\ gen'.pending = gen.pending /\ gen'.pieces = gen.pieces /\ gen'.spec = gen.spec
  BY <1>1, <1>10, FieldNames
<1>12. SaidTyped' /\ Said' = Said \o event
  <2>1. CASE gen.spec
    <3>1. produced \in Seq(Seq(Shows)) /\ produced' = Append(produced, event)
      BY <1>1, <1>10, <2>1 DEF PullPastGate, Pull, SaidTyped
    <3>2. PICK p : p = produced OBVIOUS
    <3>3. p \in Seq(Seq(Shows)) BY <3>1, <3>2
    <3>4. FlattenSeq(Append(p, event)) = FlattenSeq(p) \o event
      BY ONLY <3>3, <1>7, FlattenAppend
    <3>5. Append(p, event) \in Seq(Seq(Shows)) BY <1>7, <3>3
    <3> QED BY <1>11, <2>1, <3>1, <3>2, <3>4, <3>5 DEF Said, SaidTyped
  <2>2. CASE ~gen.spec
    <3>1. shown \in Seq(Shows) /\ shown' = shown \o event BY <1>1, <1>10, <2>2 DEF SaidTyped
    <3> QED BY <1>7, <1>11, <2>2, <3>1 DEF Said, SaidTyped
  <2> QED BY <2>1, <2>2
<1>13. GeneratorTells'
  <2>1. stage \notin {"reading", "ended", "gate"} BY <1>8
  <2>2. stage \in {"reading", "ended", "gate", "terminal", "done"} BY <1>8
  <2> QED BY ONLY <1>1, <1>5, <1>11, <1>12, <2>1, <2>2 DEF GeneratorTells
<1>14. ASSUME guard = "", ~turn.internal,
              remembered' = Append(remembered, [rows |-> turn.rows, reply |-> reply])
       PROVE  RemembersReply(reply)'
  <2>1. gen.guard = "" /\ ~silent BY <1>9, <1>14
  <2>2. /\ reply = gen.text /\ reply \in Seq(Tokens) /\ Markers(reply) = {}
        /\ IF gen.streamed THEN reply = Clean(Said) ELSE Said = <<>>
    BY <1>1, <1>4, <2>1 DEF GateTells
  <2>3. remembered' = <<[rows |-> turn.rows, reply |-> reply]>>
    <3>1. PICK row : row = [rows |-> turn.rows, reply |-> reply] OBVIOUS
    <3>2. Append(<<>>, row) = <<row>> OBVIOUS
    <3> QED BY ONLY <1>2, <1>14, <3>1, <3>2
  <2>4. reply \in Seq(Tokens \cup {"t"}) BY <2>2
  <2>5. ~Has(reply, "!") BY ONLY <2>4, TokensNoNotice
  <2>6. CASE gen.streamed
    <3>1. PICK s : s = Said OBVIOUS
    <3>2. s \in Seq(Shows) BY <1>1, <3>1, SaidIsText
    <3>3. s \o <<>> = s BY ONLY <3>2, ConcatEmptySeq
    <3>4. Said' = Said BY <1>6, <1>12, <2>6, <3>1, <3>3
    <3>5. reply = Clean(Said') BY <2>2, <2>6, <3>4
    <3> QED BY <1>2, <1>10, <1>11, <1>14, <2>3, <2>5, <3>5 DEF RemembersReply
  <2>7. CASE ~gen.streamed
    <3>1. Said' = <<>> \o reply BY <1>6, <1>12, <2>2, <2>7
    <3>2. <<>> \o reply = reply BY ONLY <2>2, ConcatEmptySeq
    <3>3. StripReasoning(reply) = reply BY ONLY <2>2, StripSame
    <3>4. reply = StripReasoning(Said') BY <3>1, <3>2, <3>3
    <3> QED BY <1>2, <1>10, <1>11, <1>14, <2>3, <2>5, <3>4 DEF RemembersReply
  <2> QED BY <2>6, <2>7
<1>15. remembered' = <<>> \/ RemembersReply(reply)'
  <2>1. \/ remembered' = remembered
        \/ /\ guard = "" /\ ~turn.internal
           /\ remembered' = Append(remembered, [rows |-> turn.rows, reply |-> reply])
    BY <1>10, <1>11 DEF ScheduleWritePath, Remember
  <2> QED BY <1>2, <1>14, <2>1
<1>16. gen'.stage \notin {"reading", "ended", "gate"} BY <1>8, <1>11
<1>17. MemoryInv' BY ONLY <1>15, <1>16 DEF MemoryInv
<1> QED BY <1>13, <1>17

\* A memory that is there stays what was said.
LEMMA MemoryStays ==
  ASSUME MemoryInv, UNCHANGED <<remembered, turn, body>>, gen'.mode = gen.mode, Said' = Said,
         gen.mode = "none" => phase' = phase,
         gen'.stage \in {"reading", "ended", "gate"} => gen.stage \in {"reading", "ended", "gate"}
  PROVE  MemoryInv'
<1>1. CASE remembered = <<>>
  <2>1. remembered' = <<>> BY <1>1
  <2> QED BY ONLY <2>1 DEF MemoryInv
<1>2. CASE remembered # <<>>
  <2>1. PICK r : RemembersReply(r) BY <1>2 DEF MemoryInv
  <2>2. RemembersReply(r)' BY <2>1 DEF RemembersReply
  <2>3. gen'.mode # "none" /\ gen'.stage \in {"reading", "ended", "gate"} => remembered' = <<>>
    BY DEF MemoryInv
  <2> QED BY ONLY <2>2, <2>3 DEF MemoryInv
<1> QED BY <1>1, <1>2

LEMMA TerminalTells ==
  ASSUME Told, MemoryInv, SendTerminal
  PROVE  GeneratorTells' /\ MemoryInv'
<1>1. /\ gen.stage = "terminal" /\ GeneratorTells /\ SaidTyped /\ DOMAIN gen = Fields
      /\ gen' = [gen EXCEPT !.stage = "done"] /\ Yield(<<>>)
      /\ UNCHANGED <<remembered, turn, body, phase>>
  BY DEF SendTerminal, Told, GeneratorTells, handlerVars
<1>2. /\ gen'.mode = gen.mode /\ gen'.stage = "done" /\ gen'.text = gen.text
      /\ gen'.pending = gen.pending /\ gen'.pieces = gen.pieces /\ gen'.spec = gen.spec
  BY <1>1, FieldNames
<1>3. SaidTyped' /\ Said' = Said BY <1>1, <1>2, SaidStays
<1>4. GeneratorTells' BY ONLY <1>1, <1>2, <1>3 DEF GeneratorTells
<1> QED BY <1>1, <1>2, <1>3, <1>4, MemoryStays

\* Every step of the generator.
LEMMA GenerateTells ==
  ASSUME Told, MemoryInv, Generate, ~ReturnLive
  PROVE  GeneratorTells' /\ MemoryInv'
<1>1. gen.mode # "none" BY DEF Told, GeneratorTells
<1>2. ASSUME gen.stage \in {"reading", "ended"}, UNCHANGED remembered PROVE MemoryInv'
  <2>1. remembered = <<>> BY <1>1, <1>2 DEF MemoryInv
  <2>2. remembered' = <<>> BY <1>2, <2>1
  <2> QED BY ONLY <2>2 DEF MemoryInv
<1>3. ASSUME NEW piece \in Tokens,
             HoldPiece(piece) \/ BlockMarkup(piece) \/ StopLoop(piece) \/ EmitPiece(piece)
      PROVE  GeneratorTells' /\ MemoryInv'
  <2>1. gen.stage = "reading" /\ UNCHANGED remembered
    BY <1>3 DEF HoldPiece, BlockMarkup, StopLoop, EmitPiece, MorePieces, Reading
  <2> QED BY <1>2, <1>3, <2>1, HoldTells, BlockTells, LoopTells, EmitTells
<1>4. CASE BackendDone \/ BackendFails \/ BlockCalls \/ \E loops : EmitReasoning(loops)
  <2>1. gen.stage = "reading" /\ UNCHANGED remembered
    BY <1>4 DEF BackendDone, BackendFails, BlockCalls, EmitReasoning, Reading
  <2> QED BY <1>2, <1>4, <2>1, BackendTells
<1>5. ASSUME NEW text \in Texts, NEW proposes, JsonAnswer(text, proposes)
      PROVE  GeneratorTells' /\ MemoryInv'
  <2>1. gen.stage = "reading" /\ UNCHANGED remembered BY <1>5 DEF JsonAnswer, Reading
  <2> QED BY <1>2, <1>5, <2>1, JsonTells
<1>6. CASE Conclude
  <2>1. gen.stage = "ended" /\ UNCHANGED remembered BY <1>6 DEF Conclude
  <2> QED BY <1>2, <1>6, <2>1, ConcludeTells
<1>7. CASE PassGate BY <1>7, PassTells
<1>8. CASE SendTerminal BY <1>8, TerminalTells
<1>9. CASE ReturnSpeculative
  <2>1. UNCHANGED <<gen, shown, produced, remembered, turn, body, phase>>
    BY <1>9 DEF ReturnSpeculative, Exhaust, handlerVars
  <2>2. Said' = Said /\ (SaidTyped => SaidTyped') BY <2>1 DEF Said, SaidTyped
  <2>3. MemoryInv' BY <2>1, <2>2, MemoryStays
  <2>4. GeneratorTells'
    BY <2>1, <2>2 DEF Told, GeneratorTells, ReadingTells, EndedTells, GateTells, Telling
  <2> QED BY <2>3, <2>4
<1> QED BY <1>3, <1>4, <1>5, <1>6, <1>7, <1>8, <1>9 DEF Generate

\* What the stream has come to: read only while its producer lives or is done,
\* and finished when everything it yielded was sent.
StreamPast ==
  /\ gate => consumer # "none"
  /\ consumer \in {"released", "reading", "finished"} => producer \notin {"none", "cancelled"}
  /\ consumer = "finished" => producer = "done" /\ delivered = produced
  /\ producer = "none" => produced = <<>>

LEMMA FinishedPast ==
  ASSUME StreamInv, StreamPast, Consume, consumer' = "finished"
  PROVE  StreamPast'
<1>1. /\ consumer = "reading" /\ queue # <<>> /\ Head(queue) = End
      /\ UNCHANGED <<producer, produced, delivered>> /\ producer \in ProducerStates
      /\ queue \in Seq(Chunks \cup {End}) /\ delivered \in Seq(Chunks)
  BY DEF Consume, StreamInv, StreamTypeOK
<1>2. queue[1] = End /\ 1 \in 1 .. Len(queue) BY <1>1
<1>3. Len(queue) = 1 BY <1>2 DEF StreamInv, EndIsLast
<1>4. producer = "done"
  <2>1. queue \notin Seq(Chunks) BY <1>2, StreamAssumption
  <2> QED BY <1>1, <2>1 DEF StreamInv, EndIsLast, StreamPast, ProducerStates
<1>5. Waiting = <<>>
  <2>1. Waiting = SubSeq(queue, 1, Len(queue) - 1) BY <1>1, <1>2, <1>3 DEF Waiting
  <2>2. PICK a \in Int, b \in Int : a = 1 /\ b = 0 OBVIOUS
  <2>3. SubSeq(queue, a, b) = <<>> BY <2>2, SubSeqEmpty
  <2> QED BY <1>3, <2>1, <2>2, <2>3
<1>6. Putting = <<>> BY <1>4 DEF Putting
<1>7. produced = delivered
  <2>1. produced = delivered \o <<>> \o <<>> BY <1>4, <1>5, <1>6 DEF StreamInv, DeliveredInOrder
  <2>2. delivered \o <<>> = delivered BY <1>1
  <2> QED BY <2>1, <2>2
<1> QED BY <1>1, <1>4, <1>7 DEF StreamPast

LEMMA PastStep ==
  ASSUME StreamInv, StreamPast, [StreamNext]_streamVars
  PROVE  StreamPast'
<1>1. CASE Consume
  <2>1. CASE consumer' = "finished" BY <1>1, <2>1, FinishedPast
  <2>2. CASE consumer' # "finished" BY <1>1, <2>2 DEF Consume, StreamPast
  <2> QED BY <2>1, <2>2
<1>2. ASSUME NEW c, Pull(c) PROVE StreamPast' BY <1>2 DEF Pull, StreamPast
<1>3. ASSUME NEW error, Exhaust(error) PROVE StreamPast' BY <1>3 DEF Exhaust, StreamPast
<1>4. CASE Put
  <2>1. /\ producer = "putting" /\ producer' \in {"done", "pulling"}
        /\ UNCHANGED <<gate, consumer, produced, delivered>>
    BY <1>4 DEF Put
  <2> QED BY <2>1 DEF StreamPast
<1>6. CASE StartStream BY <1>6 DEF StartStream, StreamPast
<1>7. CASE CancelStream BY <1>7 DEF CancelStream, StreamPast
<1>8. CASE ReleaseStream BY <1>8 DEF ReleaseStream, StreamPast
<1>9. CASE OpenResponse BY <1>9 DEF OpenResponse, StreamPast
<1>10. CASE CloseResponse
  <2>1. /\ consumer = "reading" /\ consumer' = "closed" /\ producer' \in {"cancelled", producer}
        /\ UNCHANGED <<gate, produced, delivered>>
    BY <1>10 DEF CloseResponse, Stopped
  <2> QED BY <2>1 DEF StreamPast
<1>5. CASE UNCHANGED streamVars BY <1>5 DEF streamVars, StreamPast
<1> QED
  BY <1>1, <1>2, <1>3, <1>4, <1>5, <1>6, <1>7, <1>8, <1>9, <1>10 DEF StreamNext, PullPastGate

\* A released answer that has been read to its end is all that was yielded.
LEMMA StreamIsPast == StreamSpec => []StreamPast
<1>1. StreamInit => StreamPast BY DEF StreamInit, StreamPast
<1>2. StreamInv /\ StreamPast /\ [StreamNext]_streamVars => StreamPast' BY PastStep
<1> QED BY <1>1, <1>2, StreamInvariant, PTL DEF StreamSpec

\* When a request is given what it asked for, a released answer has been read
\* to its end, and a request that is open has no answer but a speculation.
PhaseInv ==
  /\ gate => gen.spec /\ phase \in {"released", "serving", "answered", "left"}
  /\ gate /\ phase = "answered" => consumer = "finished"
  /\ phase \in Open => gen.mode = "none" \/ gen.spec
  /\ gen.mode = "none" => ~gen.spec /\ phase # "live"

TurnFields == {"rag", "internal", "native", "continues", "rows"}

\* The rows of a turn that may be remembered.
RowsInv ==
  /\ DOMAIN turn = TurnFields
  /\ ~turn.internal => turn.rows \in Seq(Remembers)

AnswerInv ==
  /\ RowsInv /\ PhaseInv /\ MemoryInv
  /\ gen.mode # "none" => GeneratorTells

LEMMA RowsStay ==
  ASSUME RowsInv, turn' = turn
  PROVE  RowsInv'
BY DEF RowsInv

\* What is said stays what it was when the generator does not step.
LEMMA TellsStay ==
  ASSUME GeneratorTells, UNCHANGED gen, IF gen.spec THEN UNCHANGED produced ELSE UNCHANGED shown
  PROVE  GeneratorTells' /\ Said' = Said
<1>1. SaidTyped' = SaidTyped /\ Said' = Said BY DEF Said, SaidTyped
<1>2. UNCHANGED gen OBVIOUS
<1>3. Telling' = Telling BY ONLY <1>1, <1>2 DEF Telling
<1>4. ReadingTells' = ReadingTells /\ EndedTells' = EndedTells
  BY ONLY <1>2, <1>3 DEF ReadingTells, EndedTells
<1>5. GateTells' = GateTells BY ONLY <1>1, <1>2 DEF GateTells
<1> QED BY ONLY GeneratorTells, <1>1, <1>2, <1>4, <1>5 DEF GeneratorTells

\* While the request is open nothing is said: the handler goes on, or gives an
\* answer that is not remembered, and a speculation goes on speaking.
LEMMA OpenKeepsAnswer ==
  ASSUME TurnInv, AnswerInv, phase \in Open, UNCHANGED <<gen, produced, gate, remembered>>,
         phase' # "live", RowsInv'
  PROVE  AnswerInv'
<1>1. ~gate /\ remembered = <<>> BY DEF TurnInv
<1>2. gen.mode = "none" \/ gen.spec BY DEF AnswerInv, PhaseInv
<1>3. PhaseInv' BY <1>1, <1>2 DEF AnswerInv, PhaseInv
<1>4. MemoryInv'
  <2>1. remembered' = <<>> BY <1>1
  <2> QED BY ONLY <2>1 DEF MemoryInv
<1>5. ASSUME gen.mode # "none" PROVE GeneratorTells'
  <2>1. gen.spec /\ GeneratorTells BY <1>2, <1>5 DEF AnswerInv
  <2> QED BY <2>1, TellsStay
<1> QED BY <1>3, <1>4, <1>5 DEF AnswerInv

\* A generation begins with nothing said.
LEMMA NewTells ==
  ASSUME NEW mode \in {"main", "continuation"}, NEW thinking, NEW spec \in BOOLEAN,
         gen' = NewGen(mode, thinking, spec),
         IF spec THEN produced' = <<>> ELSE shown' = <<>>
  PROVE  GeneratorTells'
<1>1. /\ gen'.mode = mode /\ gen'.spec = spec /\ gen'.stage = "reading" /\ gen'.pieces = 0
      /\ gen'.pending = <<>> /\ gen'.settled = thinking /\ gen'.text = <<>> /\ gen'.sent = 0
      /\ gen'.streamed = FALSE /\ gen'.guard = ""
  BY DEF NewGen, NoGen
<1>2. SaidTyped' /\ Said' = <<>>
  <2>1. PICK e : e = <<>> OBVIOUS
  <2>2. e \in Seq(Seq(Shows)) /\ e \in Seq(Shows) BY <2>1
  <2>3. FlattenSeq(e) = <<>> BY <2>1, FlattenEmpty
  <2> QED BY <1>1, <2>1, <2>2, <2>3 DEF Said, SaidTyped
<1>3. PICK s, n : s = <<>> /\ n = 0 OBVIOUS
<1>4. s \in Seq(Tokens) /\ s \in Seq(Shows) /\ Len(s) = 0 /\ n \in 0 .. Len(s) BY <1>3
<1>5. SubSeq(s, 1, n) = <<>>
  <2>1. PICK a \in Int, b \in Int : a = 1 /\ b = 0 OBVIOUS
  <2>2. SubSeq(s, a, b) = <<>> BY <2>1, SubSeqEmpty
  <2> QED BY ONLY <1>3, <2>1, <2>2
<1>6. Telling' BY ONLY <1>1, <1>2, <1>3, <1>4, <1>5 DEF Telling
<1>7. ReadingTells' BY ONLY <1>1, <1>3, <1>4, <1>6 DEF ReadingTells
<1>8. gen'.text \in Seq(Shows) /\ gen'.pending \in Seq(Tokens) BY ONLY <1>1, <1>3, <1>4
<1>9. gen'.mode \in {"main", "continuation"} /\ gen'.pieces \in Nat
  <2>1. gen'.mode \in {"main", "continuation"} BY ONLY <1>1, mode \in {"main", "continuation"}
  <2>2. gen'.pieces = n BY ONLY <1>1, <1>3
  <2>3. n \in Nat BY ONLY <1>3
  <2> QED BY ONLY <2>1, <2>2, <2>3
<1>10. gen'.stage = "reading" BY <1>1
<1> QED BY ONLY <1>2, <1>7, <1>8, <1>9, <1>10 DEF GeneratorTells

\* A live answer begins.
LEMMA LiveKeepsAnswer ==
  ASSUME TurnInv, AnswerInv, phase \in Open, NEW mode \in {"main", "continuation"}, NEW thinking,
         gen' = NewGen(mode, thinking, FALSE), phase' = "live",
         UNCHANGED <<shown, gate, remembered>>, RowsInv'
  PROVE  AnswerInv'
<1>1. ~gate /\ remembered' = <<>> /\ shown' = <<>> BY DEF TurnInv
<1>2. gen'.mode = mode BY DEF NewGen, NoGen
<1>3. PhaseInv' BY <1>1, <1>2 DEF PhaseInv, Open
<1>4. MemoryInv' BY ONLY <1>1 DEF MemoryInv
<1>5. GeneratorTells' BY <1>1, NewTells
<1> QED BY <1>3, <1>4, <1>5 DEF AnswerInv

\* The handler answers, and what it says is remembered.
LEMMA RememberKeepsAnswer ==
  ASSUME TurnInv, AnswerInv, phase \in Open, ~gen.spec, UNCHANGED <<gen, gate, turn, body>>,
         phase' = "answered", NEW reply, NEW guarded, ScheduleWritePath(reply, guarded),
         ~guarded => /\ (reply = Notice /\ ~body.stream) \/ ~Has(reply, "!")
                     /\ reply \in {Clean(shown'), StripReasoning(shown')}
  PROVE  AnswerInv'
<1>1. ~gate /\ remembered = <<>> BY DEF TurnInv
<1>2. gen.mode = "none" BY DEF AnswerInv, PhaseInv
<1>3. PhaseInv' BY <1>1, <1>2 DEF PhaseInv, Open
<1>4. RowsInv' BY RowsStay DEF AnswerInv
<1>5. MemoryInv'
  <2>1. CASE UNCHANGED remembered
    <3>1. remembered' = <<>> BY <1>1, <2>1
    <3> QED BY ONLY <3>1 DEF MemoryInv
  <2>2. CASE ~turn.internal /\ ~guarded /\ Remember(reply)
    <3>1. PICK row : row = [rows |-> turn.rows, reply |-> reply] OBVIOUS
    <3>2. remembered' = <<row>> BY <1>1, <2>2, <3>1 DEF Remember
    <3>3. Said' = shown' BY DEF Said
    <3>4. RemembersReply(reply)' BY <1>2, <2>2, <3>1, <3>2, <3>3 DEF RemembersReply
    <3> QED BY ONLY <1>2, <3>4, gen' = gen DEF MemoryInv
  <2> QED BY <2>1, <2>2 DEF ScheduleWritePath
<1> QED BY <1>2, <1>3, <1>4, <1>5 DEF AnswerInv

\* What a buffered backend gives the client, and what is remembered of it.
LEMMA LinesSaid ==
  ASSUME NEW b \in Backend
  PROVE  /\ Lines(b) \in Seq(Tokens)
         /\ StripReasoning(StripReasoning(Lines(b))) = StripReasoning(Lines(b))
         /\ ~Has(StripReasoning(Lines(b)), "!")
<1>1. b.text \in Seq(Tokens)
  <2>1. b.text \in Texts BY DEF Backend
  <2> QED BY <2>1, TextsTokens
<1>2. PICK s : s = StripReasoning(b.text) OBVIOUS
<1>3. s \in Seq(Tokens)
  <2>1. s \in Seq(Tokens \ {"e"}) BY ONLY <1>1, <1>2, StripTyped
  <2> QED BY <2>1
<1>4. PICK l : l = Lines(b) OBVIOUS
<1>5. l \in Seq(Tokens)
  <2>1. CutLoop(b.text) \in Seq(Tokens) BY ONLY <1>1, CutTyped
  <2>2. CutLoop(s) \in Seq(Tokens) BY ONLY <1>3, CutTyped
  <2> QED BY <1>1, <1>2, <1>4, <2>1, <2>2 DEF Lines
<1>6. PICK r : r = StripReasoning(l) OBVIOUS
<1>7. r \in Seq(Tokens \ {"e"}) BY ONLY <1>5, <1>6, StripTyped
<1>8. StripReasoning(r) = r BY ONLY <1>7, StripTwice
<1>9. ~Has(r, "!")
  <2>1. r \in Seq(Tokens \cup {"t"}) BY <1>7
  <2> QED BY ONLY <2>1, TokensNoNotice
<1> QED BY <1>4, <1>5, <1>6, <1>8, <1>9

LEMMA CollectedTells ==
  ASSUME TurnInv, AnswerInv, phase \in Open, ~gen.spec, UNCHANGED <<gen, gate, turn, body>>,
         NEW b \in Backend, Collected(b)
  PROVE  AnswerInv'
<1>1. PICK reply, guarded : reply = StripReasoning(Lines(b)) /\ guarded = Guarded(b) OBVIOUS
<1>2. /\ shown' = IF body.stream THEN Lines(b) ELSE reply
      /\ ScheduleWritePath(reply, guarded) /\ phase' = "answered"
  BY <1>1 DEF Collected
<1>3. ~Has(reply, "!") /\ StripReasoning(reply) = reply BY <1>1, LinesSaid
<1>4. reply = StripReasoning(shown') BY <1>1, <1>2, <1>3
<1> QED BY <1>2, <1>3, <1>4, RememberKeepsAnswer

LEMMA FinalTells ==
  ASSUME TurnInv, AnswerInv, phase \in Open, ~gen.spec, UNCHANGED <<gen, gate, turn, body>>,
         NEW b \in Backend, FinalBuffered(b)
  PROVE  AnswerInv'
<1>1. CASE body.stream BY <1>1, CollectedTells DEF FinalBuffered
<1>2. CASE ~body.stream
  <2>1. PICK answer : answer = IF b.text = <<>> /\ b.thoughts THEN Notice
                               ELSE StripReasoning(b.text)
    OBVIOUS
  <2>2. PICK reply, guarded : reply = CutLoop(answer) /\ guarded = Loops(answer) OBVIOUS
  <2>3. shown' = reply /\ ScheduleWritePath(reply, guarded) /\ phase' = "answered"
    BY <1>2, <2>1, <2>2 DEF FinalBuffered
  <2>4. CASE answer = Notice
    <3>1. ~Loops(answer) BY <2>4, NoticeIsContent DEF Loops
    <3>2. reply = Notice BY <2>2, <2>4, <3>1 DEF CutLoop
    <3>3. PICK S : S = {"!"} OBVIOUS
    <3>4. Notice \in Seq(S \ {"e"})
      <4>1. "!" \in S \ {"e"} BY <3>3
      <4> QED BY <4>1 DEF Notice
    <3>5. StripReasoning(Notice) = Notice BY ONLY <3>4, StripTwice
    <3> QED BY <1>2, <2>3, <3>2, <3>5, RememberKeepsAnswer
  <2>5. CASE answer = StripReasoning(b.text)
    <3>1. b.text \in Seq(Tokens)
      <4>1. b.text \in Texts BY DEF Backend
      <4> QED BY <4>1, TextsTokens
    <3>2. PICK A : A = Tokens \ {"e"} OBVIOUS
    <3>3. answer \in Seq(A) BY <2>5, <3>1, <3>2, StripTyped
    <3>4. reply \in Seq(A) BY ONLY <2>2, <3>3, CutTyped
    <3>5. StripReasoning(reply) = reply BY <3>2, <3>4, StripTwice
    <3>6. ~Has(reply, "!")
      <4>1. reply \in Seq(Tokens \cup {"t"}) BY <3>2, <3>4
      <4> QED BY ONLY <4>1, TokensNoNotice
    <3> QED BY <2>3, <3>5, <3>6, RememberKeepsAnswer
  <2> QED BY <2>1, <2>4, <2>5
<1> QED BY <1>1, <1>2

LEMMA LoopFinalTells ==
  ASSUME TurnInv, AnswerInv, phase \in Open, ~gen.spec, UNCHANGED <<gen, gate, turn, body>>,
         NEW b \in Backend, NEW succeeded, LoopFinal(b, succeeded)
  PROVE  AnswerInv'
<1>1. CASE Collected(b) BY <1>1, CollectedTells
<1>2. CASE shown' = <<"t">> /\ ScheduleWritePath(<<"t">>, FALSE) /\ phase' = "answered"
  <2>1. PICK S : S = {"t"} OBVIOUS
  <2>2. PICK s : s = <<"t">> OBVIOUS
  <2>3. s \in Seq(S \ {"e"})
    <3>1. "t" \in S \ {"e"} BY <2>1
    <3> QED BY <2>2, <3>1
  <2>4. StripReasoning(s) = s BY ONLY <2>3, StripTwice
  <2>5. s \in Seq(Tokens \cup {"t"}) BY <2>2
  <2>6. ~Has(s, "!") BY ONLY <2>5, TokensNoNotice
  <2>7. PICK guarded : guarded = FALSE OBVIOUS
  <2>8. ScheduleWritePath(s, guarded) /\ s = StripReasoning(shown') BY <1>2, <2>2, <2>4, <2>7
  <2> QED BY <1>2, <2>6, <2>8, RememberKeepsAnswer
<1> QED BY <1>1, <1>2 DEF LoopFinal

\* A draft that is accepted is cleaned already.
LEMMA DraftTells ==
  ASSUME TurnInv, AnswerInv, phase = "native", ~gen.spec,
         NEW ok, NEW text \in Texts, NEW proposes, ContinueDraft(ok, text, proposes)
  PROVE  AnswerInv'
<1>1. /\ UNCHANGED <<streamVars, body, turn, gen>> /\ phase \in Open
  BY DEF ContinueDraft, Open
<1>2. PICK draft : draft = Clean(text) OBVIOUS
<1>3. PICK reply, guarded : reply = CutLoop(draft) /\ guarded = Loops(draft) OBVIOUS
<1>4. \/ shown' = reply /\ ScheduleWritePath(reply, guarded) /\ phase' = "answered"
      \/ phase' \in {"answered", phase} /\ UNCHANGED remembered
  BY <1>2, <1>3 DEF ContinueDraft
<1>5. CASE shown' = reply /\ ScheduleWritePath(reply, guarded) /\ phase' = "answered"
  <2>1. draft \in Seq(Tokens) /\ Markers(draft) = {} BY <1>2, TextsTokens, CleanHasNoMarkers
  <2>2. ASSUME ~guarded PROVE reply = StripReasoning(shown') /\ ~Has(reply, "!")
    <3>1. reply = draft BY <1>3, <2>2 DEF CutLoop
    <3>2. StripReasoning(draft) = draft BY ONLY <2>1, StripSame
    <3>3. draft \in Seq(Tokens \cup {"t"}) BY <2>1
    <3>4. ~Has(draft, "!") BY ONLY <3>3, TokensNoNotice
    <3> QED BY <1>5, <3>1, <3>2, <3>4
  <2> QED BY <1>1, <1>5, <2>2, RememberKeepsAnswer DEF streamVars
<1>6. CASE phase' \in {"answered", phase} /\ UNCHANGED remembered
  <2>1. phase' # "live" /\ RowsInv' BY <1>1, <1>6, RowsStay DEF AnswerInv
  <2> QED BY <1>1, <1>6, <2>1, OpenKeepsAnswer DEF streamVars
<1> QED BY <1>4, <1>5, <1>6

\* What the turn keeps of the conversation, once the policies have applied.
LEMMA ReceiveTells ==
  ASSUME TurnInv, CallsInv, AnswerInv, Receive
  PROVE  AnswerInv'
<1>1. PICK kept : kept = MemoryWritePolicy(LibraryPolicy(body)) OBVIOUS
<1>2. /\ phase = "received" /\ turn' = Classify(kept) /\ UNCHANGED <<streamVars, gen, remembered>>
      /\ phase' \in {"loading", "passing", "collecting"}
  BY <1>1 DEF Receive
<1>3. body \in Request BY <1>2, ChatAssumption DEF CallsInv
<1>4. kept.messages \in Seq(Message)
  <2>1. kept.messages = body.messages BY <1>1, <1>3, PoliciesKeep
  <2>2. body.messages \in Seq(Message) BY <1>3 DEF Request
  <2> QED BY <2>1, <2>2
<1>5. DOMAIN turn' = TurnFields BY <1>2 DEF Classify, TurnFields
<1>6. ASSUME ~turn'.internal PROVE turn'.rows \in Seq(Remembers)
  <2>1. ~kept.compaction BY <1>2, <1>6 DEF Classify
  <2>2. turn'.rows = WritePathMessages(kept.messages) BY <1>2, <2>1 DEF Classify
  <2> QED BY <1>4, <2>2, WritePathClean
<1>7. RowsInv' BY <1>5, <1>6 DEF RowsInv
<1> QED BY <1>2, <1>7, OpenKeepsAnswer DEF Open, streamVars

\* No tools are to be called: a live answer begins, or one is awaited.
LEMMA NoToolTells ==
  ASSUME TurnInv, AnswerInv, phase \in Open, NEW mode, NoToolFinal(mode),
         UNCHANGED <<shown, produced, gate, remembered>>, RowsInv'
  PROVE  AnswerInv'
<1>1. CASE phase' = "live" /\ \E thinks : gen' = NewGen("main", thinks, FALSE)
  <2>1. PICK thinks : gen' = NewGen("main", thinks, FALSE) BY <1>1
  <2>2. PICK main \in {"main", "continuation"} : main = "main" OBVIOUS
  <2>3. gen' = NewGen(main, thinks, FALSE) BY <2>1, <2>2
  <2> QED BY <1>1, <2>3, LiveKeepsAnswer
<1>2. CASE phase' = "final" /\ UNCHANGED gen BY <1>2, OpenKeepsAnswer
<1> QED BY <1>1, <1>2 DEF NoToolFinal

LEMMA SpeculateTells ==
  ASSUME TurnInv, StreamPast, AnswerInv, Speculate
  PROVE  AnswerInv'
<1>1. /\ phase = "native" /\ phase' = "starting" /\ producer = "none"
      /\ UNCHANGED <<turn, remembered, gate, produced>>
  BY DEF Speculate, Planned, Routed, StartStream
<1>2. ~gate /\ remembered' = <<>> /\ produced' = <<>> BY <1>1 DEF TurnInv, Open, StreamPast
<1>3. PICK thinks : gen' = NewGen("main", thinks, TRUE) BY DEF Speculate
<1>4. gen'.mode = "main" /\ gen'.spec = TRUE BY <1>3 DEF NewGen, NoGen
<1>5. PhaseInv' BY <1>1, <1>2, <1>4 DEF PhaseInv
<1>6. MemoryInv' BY ONLY <1>2 DEF MemoryInv
<1>7. RowsInv' BY <1>1, RowsStay DEF AnswerInv
<1>8. GeneratorTells'
  <2>1. PICK main \in {"main", "continuation"} : main = "main" OBVIOUS
  <2>2. PICK spec \in BOOLEAN : spec = TRUE OBVIOUS
  <2>3. gen' = NewGen(main, thinks, spec) BY <1>3, <2>1, <2>2
  <2> QED BY <1>2, <2>2, <2>3, NewTells
<1> QED BY <1>5, <1>6, <1>7, <1>8 DEF AnswerInv

LEMMA ReleaseTells ==
  ASSUME TurnInv, AnswerInv, phase = "planning", gen.spec, ReleaseStream, phase' = "released",
         UNCHANGED <<gen, turn, remembered>>
  PROVE  AnswerInv'
<1>1. remembered' = <<>> /\ UNCHANGED produced BY DEF TurnInv, Open, ReleaseStream
<1>2. gen.mode # "none" BY DEF AnswerInv, PhaseInv
<1>3. PhaseInv' BY <1>2 DEF PhaseInv, Open
<1>4. MemoryInv' BY ONLY <1>1 DEF MemoryInv
<1>5. RowsInv' BY RowsStay DEF AnswerInv
<1>6. GeneratorTells' BY <1>1, <1>2, TellsStay DEF AnswerInv
<1> QED BY <1>3, <1>4, <1>5, <1>6 DEF AnswerInv

LEMMA CancelledSays ==
  ASSUME CancelSpeculation
  PROVE  UNCHANGED <<gate, produced>>
BY DEF CancelSpeculation, CancelStream, streamVars

LEMMA PlannerTells ==
  ASSUME TurnInv, AnswerInv, phase = "planning", NEW result \in RouteResults(body),
         PlannerDecides(result)
  PROVE  AnswerInv'
<1>0. phase \in Open BY DEF Open
<1>1. CASE PlannerFails
  <2>1. UNCHANGED <<gate, produced, shown, remembered, turn>> /\ NoToolFinal("FAST")
    BY <1>1, CancelledSays DEF PlannerFails
  <2>2. RowsInv' BY <2>1, RowsStay DEF AnswerInv
  <2> QED BY <1>0, <2>1, <2>2, NoToolTells
<1>2. ASSUME NEW name, PlannerCalls(name) PROVE AnswerInv'
  <2>1. UNCHANGED <<gate, produced, gen, remembered, turn>> /\ phase' # "live"
    BY <1>2, CancelledSays DEF PlannerCalls
  <2>2. RowsInv' BY <2>1, RowsStay DEF AnswerInv
  <2> QED BY <1>0, <2>1, <2>2, OpenKeepsAnswer
<1>3. ASSUME NEW mode, PlannerAnswers(mode) PROVE AnswerInv'
  <2>1. UNCHANGED <<shown, remembered, turn>> BY <1>3 DEF PlannerAnswers
  <2>2. RowsInv' BY <2>1, RowsStay DEF AnswerInv
  <2>3. CASE gen.spec /\ ReleaseStream /\ phase' = "released" /\ UNCHANGED gen
    BY <2>1, <2>3, ReleaseTells
  <2>4. CASE CancelSpeculation /\ NoToolFinal(mode)
    BY <1>0, <2>1, <2>2, <2>4, CancelledSays, NoToolTells
  <2> QED BY <1>3, <2>3, <2>4 DEF PlannerAnswers
<1>4. CASE PlannerRefused
  <2>1. UNCHANGED <<gate, produced, gen, remembered, turn>> /\ phase' # "live"
    BY <1>4, CancelledSays DEF PlannerRefused
  <2>2. RowsInv' BY <2>1, RowsStay DEF AnswerInv
  <2> QED BY <1>0, <2>1, <2>2, OpenKeepsAnswer
<1>5. result.decision \in {"ERROR", "TOOL", "NO_TOOL"} BY ResultDecisions
<1> QED BY <1>1, <1>2, <1>3, <1>4, <1>5 DEF PlannerDecides

\* Every step of the handler.
LEMMA HandleTells ==
  ASSUME TurnInv, CallsInv, StreamPast, AnswerInv, Handle
  PROVE  AnswerInv'
<1>0. phase \in Open \ {"starting", "planning"} => ~gen.spec BY DEF TurnInv, Open, Speculating
<1>1. CASE Receive BY <1>1, ReceiveTells
<1>2. ASSUME phase \in Open, UNCHANGED <<streamVars, gen, turn, remembered>>, phase' # "live"
      PROVE  AnswerInv'
  <2>1. RowsInv' BY <1>2, RowsStay DEF AnswerInv
  <2>2. UNCHANGED <<produced, gate>> BY <1>2 DEF streamVars
  <2> QED BY <1>2, <2>1, <2>2, OpenKeepsAnswer
<1>3. CASE \/ LoadContext \/ AnswerDirective \/ FollowDirective \/ SpeculationStarted
           \/ PlanOnly \/ DecideWithModel
  <2>1. phase \in {"loading", "native", "starting"} /\ phase' # "live"
        /\ UNCHANGED <<streamVars, gen, turn, remembered>>
    BY <1>3 DEF LoadContext, AnswerDirective, FollowDirective, SpeculationStarted, PlanOnly,
       DecideWithModel, Planned, Routed
  <2> QED BY <1>2, <2>1 DEF Open
<1>4. CASE \/ \E text, list : PassThrough(text, list)
           \/ \E requested : LoopDecision(requested)
           \/ \E d : DecisionCalls(d) \/ DecisionCorrected(d)
  <2>1. phase \in {"passing", "looping", "deciding"} /\ phase' # "live"
        /\ UNCHANGED <<streamVars, gen, turn, remembered>>
    BY <1>4 DEF PassThrough, LoopDecision, DecisionCalls, DecisionCorrected
  <2> QED BY <1>2, <2>1 DEF Open
<1>5. ASSUME NEW mode, ChooseThinking(mode) PROVE AnswerInv'
  <2>1. phase = "thinking" /\ UNCHANGED <<streamVars, turn, shown, remembered>>
    BY <1>5 DEF ChooseThinking
  <2>2. RowsInv' BY <2>1, RowsStay DEF AnswerInv
  <2>3. CASE phase' = "live" /\ \E thinks : gen' = NewGen("main", thinks, FALSE)
    <3>1. PICK thinks : gen' = NewGen("main", thinks, FALSE) BY <2>3
    <3>2. PICK main \in {"main", "continuation"} : main = "main" OBVIOUS
    <3>3. gen' = NewGen(main, thinks, FALSE) BY <3>1, <3>2
    <3>4. phase \in Open /\ UNCHANGED gate BY <2>1 DEF Open, streamVars
    <3> QED BY <2>1, <2>2, <2>3, <3>3, <3>4, LiveKeepsAnswer
  <2>4. CASE phase' \in {"looping", "collecting"} /\ UNCHANGED gen
    BY <1>2, <2>1, <2>4 DEF Open
  <2>5. \/ phase' = "live" /\ \E thinks : gen' = NewGen("main", thinks, FALSE)
        \/ phase' \in {"looping", "collecting"} /\ UNCHANGED gen
    BY <1>5 DEF ChooseThinking
  <2> QED BY <2>3, <2>4, <2>5
<1>6. ASSUME NEW b \in Backend, NEW succeeded, Collect(b) \/ FinalBuffered(b) \/ LoopFinal(b, succeeded)
      PROVE  AnswerInv'
  <2>1. /\ phase \in {"collecting", "final", "looped"}
        /\ UNCHANGED <<streamVars, gen, turn, body>>
    BY <1>6 DEF Collect, FinalBuffered, LoopFinal
  <2>2. phase \in Open /\ ~gen.spec /\ UNCHANGED <<gen, gate, turn, body>>
    BY <1>0, <2>1 DEF Open, streamVars
  <2>3. CASE Collect(b) BY <2>2, <2>3, CollectedTells DEF Collect
  <2>4. CASE FinalBuffered(b) BY <2>2, <2>4, FinalTells
  <2>5. CASE LoopFinal(b, succeeded) BY <2>2, <2>5, LoopFinalTells
  <2> QED BY <1>6, <2>3, <2>4, <2>5
<1>7. CASE ContinueLive
  <2>1. /\ phase = "native" /\ phase' = "live"
        /\ UNCHANGED <<streamVars, turn, shown, remembered>>
        /\ gen' = NewGen("continuation", settings.continuationThinking, FALSE)
    BY <1>7 DEF ContinueLive
  <2>2. PICK thinks : thinks = settings.continuationThinking OBVIOUS
  <2>3. PICK mode \in {"main", "continuation"} : mode = "continuation" OBVIOUS
  <2>4. gen' = NewGen(mode, thinks, FALSE) BY <2>1, <2>2, <2>3
  <2>5. phase \in Open /\ UNCHANGED gate BY <2>1 DEF Open, streamVars
  <2>6. RowsInv' BY <2>1, RowsStay DEF AnswerInv
  <2> QED BY <2>1, <2>4, <2>5, <2>6, LiveKeepsAnswer
<1>8. ASSUME NEW ok, NEW proposes, NEW text \in Texts, ContinueDraft(ok, text, proposes)
      PROVE  AnswerInv'
  <2>1. phase = "native" /\ ~gen.spec BY <1>0, <1>8 DEF ContinueDraft, Open
  <2> QED BY <1>8, <2>1, DraftTells
<1>9. CASE AnswerWithoutTools
  <2>1. phase = "native" /\ UNCHANGED <<streamVars, turn, shown, remembered>> /\ NoToolFinal("")
    BY <1>9 DEF AnswerWithoutTools, Routed
  <2>2. phase \in Open /\ UNCHANGED <<produced, gate>> BY <2>1 DEF Open, streamVars
  <2>3. RowsInv' BY <2>1, RowsStay DEF AnswerInv
  <2> QED BY <2>1, <2>2, <2>3, NoToolTells
<1>10. CASE Speculate BY <1>10, SpeculateTells
<1>11. ASSUME phase = "planning", NEW result \in RouteResults(body), PlannerDecides(result)
       PROVE  AnswerInv'
  BY <1>11, PlannerTells
<1>12. ASSUME NEW d, DecisionAnswers(d) PROVE AnswerInv'
  <2>1. /\ phase = "deciding" /\ UNCHANGED <<streamVars, shown, remembered>> /\ NoToolFinal("")
        /\ UNCHANGED turn
    BY <1>12 DEF DecisionAnswers
  <2>2. phase \in Open /\ UNCHANGED <<produced, gate>> BY <2>1 DEF Open, streamVars
  <2>3. RowsInv' BY <2>1, RowsStay DEF AnswerInv
  <2> QED BY <2>1, <2>2, <2>3, NoToolTells
<1> QED BY <1>1, <1>3, <1>4, <1>5, <1>6, <1>7, <1>8, <1>9, <1>10, <1>11, <1>12 DEF Handle

\* Every step of the generator but its return.
LEMMA GeneratorKeepsAnswer ==
  ASSUME TurnInv, AnswerInv, Generate, ~ReturnLive
  PROVE  AnswerInv'
<1>1. GeneratorStep BY GenerateSteps
<1>2. gen.mode # "none" BY <1>1 DEF GeneratorStep, AnswerInv, PhaseInv
<1>3. Told BY <1>2 DEF Told, TurnInv, AnswerInv
<1>4. GeneratorTells' /\ MemoryInv' BY <1>3, GenerateTells DEF AnswerInv
<1>5. gen'.mode # "none" BY <1>4 DEF GeneratorTells
<1>6. UNCHANGED <<turn, phase, gate, consumer>> /\ gen'.spec = gen.spec
  BY <1>1 DEF GeneratorStep, SpecKept, handlerVars
<1>7. RowsInv' BY <1>6, RowsStay DEF AnswerInv
<1>8. PhaseInv' BY <1>2, <1>5, <1>6 DEF AnswerInv, PhaseInv
<1> QED BY <1>4, <1>7, <1>8 DEF AnswerInv

\* The other steps move neither the text nor the memory.
LEMMA OthersKeepAnswer ==
  ASSUME TurnInv, AnswerInv, ReturnLive \/ Enqueue \/ Serve \/ Disturb \/ Finished \/ UNCHANGED chatVars
  PROVE  AnswerInv'
<1>1. UNCHANGED <<gen, shown, produced, remembered, turn, body>>
  <2>1. CASE ReturnLive \/ Enqueue
    BY <2>1 DEF ReturnLive, Enqueue, Put, streamVars, handlerVars
  <2>2. CASE Serve
    BY <2>2 DEF Serve, ServeReleased, SendReleased, OpenResponse, Consume
  <2>3. CASE GatewayError \/ LeaveReleased \/ LeaveLive \/ CancelledAtStart
    BY <2>3 DEF GatewayError, LeaveReleased, LeaveLive, CancelledAtStart, CloseResponse, streamVars
  <2>4. CASE PlannerAborts BY <2>4, CancelledSays DEF PlannerAborts
  <2>5. CASE Finished \/ UNCHANGED chatVars
    BY <2>5 DEF Finished, chatVars, streamVars, handlerVars
  <2> QED BY <2>1, <2>2, <2>3, <2>4, <2>5 DEF Disturb
<1>2. PhaseInv' /\ (gen.mode = "none" => phase' = phase \/ remembered = <<>>)
  <2> USE DEF AnswerInv, PhaseInv, TurnInv
  <2>1. CASE ReturnLive BY <2>1 DEF ReturnLive, streamVars, Open
  <2>2. CASE Enqueue BY <2>2 DEF Enqueue, Put, handlerVars
  <2>3. CASE ServeReleased BY <2>3 DEF ServeReleased, OpenResponse, Open
  <2>4. CASE SendReleased BY <2>4 DEF SendReleased, Consume, Open
  <2>5. CASE GatewayError BY <2>5 DEF GatewayError, streamVars, Open
  <2>6. CASE LeaveReleased BY <2>6 DEF LeaveReleased, CloseResponse, Open
  <2>7. CASE LeaveLive BY <2>7 DEF LeaveLive, streamVars, Open
  <2>8. CASE PlannerAborts
    <3>1. UNCHANGED gate /\ phase = "planning" /\ phase' \in {"left", "failed"} /\ UNCHANGED gen
      BY <2>8, CancelledSays DEF PlannerAborts
    <3> QED BY <3>1 DEF Open
  <2>9. CASE CancelledAtStart BY <2>9 DEF CancelledAtStart, streamVars, Open
  <2>10. CASE Finished \/ UNCHANGED chatVars
    BY <2>10 DEF Finished, chatVars, streamVars, handlerVars
  <2> QED BY <2>1, <2>2, <2>3, <2>4, <2>5, <2>6, <2>7, <2>8, <2>9, <2>10 DEF Serve, Disturb
<1>3. RowsInv' BY <1>1, RowsStay DEF AnswerInv
<1>4. gen.mode # "none" => GeneratorTells' BY <1>1, TellsStay DEF AnswerInv
<1>5. MemoryInv'
  <2>1. CASE remembered = <<>>
    <3>1. remembered' = <<>> BY <1>1, <2>1
    <3> QED BY ONLY <3>1 DEF MemoryInv
  <2>2. CASE remembered # <<>>
    <3>1. MemoryInv /\ (gen.mode = "none" => phase' = phase) BY <1>2, <2>2 DEF AnswerInv
    <3>2. Said' = Said /\ gen' = gen BY <1>1 DEF Said
    <3> QED BY <1>1, <3>1, <3>2, MemoryStays
  <2> QED BY <2>1, <2>2
<1> QED BY <1>1, <1>2, <1>3, <1>4, <1>5 DEF AnswerInv

\* A turn is remembered at most once, without tool protocol and sources, and
\* as the answer the client has read, streamed, buffered or released (routes.py,
\* _schedule_hybrid_write_path, _sanitize_messages_for_write_path).
THEOREM TurnRemembersTheAnswer == ChatSpec => []RememberedIsTheAnswer
<1>1. ChatInit => CallsInv /\ AnswerInv
  <2> SUFFICES ASSUME ChatInit PROVE CallsInv /\ AnswerInv OBVIOUS
  <2>1. CallsInv BY CallsInitially
  <2>2. /\ gate = FALSE /\ phase = "received" /\ gen = NoGen /\ remembered = <<>>
        /\ turn = [rag |-> FALSE, internal |-> FALSE, native |-> FALSE,
                   continues |-> FALSE, rows |-> <<>>]
    BY DEF ChatInit, StreamInit
  <2>3. gen.mode = "none" /\ gen.spec = FALSE BY <2>2 DEF NoGen
  <2>4. RowsInv
    <3>1. DOMAIN turn = TurnFields /\ turn.rows = <<>> BY <2>2 DEF TurnFields
    <3>2. PICK e : e = <<>> OBVIOUS
    <3>3. e \in Seq(Remembers) BY <3>2
    <3> QED BY <3>1, <3>2, <3>3 DEF RowsInv
  <2>5. PhaseInv BY <2>2, <2>3 DEF PhaseInv
  <2>6. MemoryInv BY ONLY <2>2 DEF MemoryInv
  <2> QED BY <2>1, <2>3, <2>4, <2>5, <2>6 DEF AnswerInv
<1>2. TurnInv /\ CallsInv /\ StreamPast /\ AnswerInv /\ [ChatNext]_chatVars
        => CallsInv' /\ AnswerInv'
  <2> SUFFICES ASSUME TurnInv, CallsInv, StreamPast, AnswerInv, [ChatNext]_chatVars
               PROVE  CallsInv' /\ AnswerInv'
    OBVIOUS
  <2>1. CallsInv' BY CallsNextInv
  <2>2. CASE Handle BY <2>1, <2>2, HandleTells
  <2>3. CASE Generate /\ ~ReturnLive BY <2>1, <2>3, GeneratorKeepsAnswer
  <2>4. CASE ReturnLive \/ Enqueue \/ Serve \/ Disturb \/ Finished \/ UNCHANGED chatVars
    BY <2>1, <2>4, OthersKeepAnswer
  <2> QED BY <2>1, <2>2, <2>3, <2>4 DEF ChatNext
<1>3. TurnInv /\ StreamPast /\ AnswerInv => RememberedIsTheAnswer
  <2> SUFFICES ASSUME TurnInv, StreamPast, AnswerInv PROVE RememberedIsTheAnswer OBVIOUS
  <2>1. CASE remembered = <<>> BY <2>1 DEF RememberedIsTheAnswer
  <2>2. ASSUME NEW r, RemembersReply(r) PROVE RememberedIsTheAnswer
    <3>1. PICK entry : entry = [rows |-> turn.rows, reply |-> r] OBVIOUS
    <3>2. remembered = <<entry>> BY <2>2, <3>1 DEF RemembersReply
    <3>3. Len(remembered) = 1 /\ remembered[1] = entry /\ remembered # <<>> BY <3>2
    <3>4. entry.rows = turn.rows /\ entry.reply = r BY <3>1
    <3>5. ~turn.internal BY <2>2 DEF RemembersReply
    <3>6. \A i \in 1 .. Len(entry.rows) :
            entry.rows[i].role # "tool" /\ entry.rows[i].text \notin {"calls", "rag"}
      <4>1. PICK rows : rows = entry.rows OBVIOUS
      <4>2. rows \in Seq(Remembers) BY <3>4, <3>5, <4>1 DEF AnswerInv, RowsInv
      <4>3. \A i \in 1 .. Len(rows) : rows[i] \in Remembers BY <4>2
      <4> QED BY <4>1, <4>3 DEF Remembers
    <3>7. r = Notice => Has(r, "!")
      <4>1. Has(Notice, "!") BY DEF Notice, Has
      <4> QED BY <4>1
    <3>8. r = Notice \/ ~Has(r, "!") BY <2>2 DEF RemembersReply
    <3>9. r = Notice => gen.mode = "none" /\ ~body.stream BY <2>2, <3>7 DEF RemembersReply
    <3>10. ASSUME phase = "answered" PROVE Answer = Said
      <4>1. CASE gen.spec
        <5>1. gate BY <3>3, <4>1 DEF TurnInv
        <5>2. consumer = "finished" BY <3>10, <5>1 DEF AnswerInv, PhaseInv
        <5>3. delivered = produced BY <5>2 DEF StreamPast
        <5> QED BY <4>1, <5>2, <5>3 DEF Answer, Said
      <4>2. CASE ~gen.spec
        <5>1. ~gate BY <4>2 DEF AnswerInv, PhaseInv
        <5>2. consumer = "none" BY <5>1 DEF TurnInv
        <5> QED BY <4>2, <5>2 DEF Answer, Said
      <4> QED BY <4>1, <4>2
    <3>11. phase = "answered" => r \in {Clean(Answer), StripReasoning(Answer)}
      BY <2>2, <3>10 DEF RemembersReply
    <3>12. Len(remembered) <= 1 BY <3>3
    <3> QED
      BY ONLY <3>3, <3>4, <3>5, <3>6, <3>8, <3>9, <3>11, <3>12 DEF RememberedIsTheAnswer
  <2> QED BY <2>1, <2>2 DEF AnswerInv, MemoryInv
<1>4. ChatSpec => []StreamPast BY TurnImplementsStream, StreamIsPast, PTL
<1> QED BY <1>1, <1>2, <1>3, <1>4, TurnInvariant, PTL DEF ChatSpec
=============================================================================
