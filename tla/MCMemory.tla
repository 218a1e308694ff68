------------------------------ MODULE MCMemory ------------------------------
(***************************************************************************)
(* Conversations and model answers for Memory.                             *)
(***************************************************************************)
EXTENDS Memory

User(markers, segments) == [role |-> "user", segments |-> segments, markers |-> markers]
Says(words) == [kind |-> "statement", words |-> words]
Asks(words) == [kind |-> "query", words |-> words]
Wraps(words) == [kind |-> "wrapped", words |-> words]

Answered == [role |-> "assistant", segments |-> <<Says({"port"})>>, markers |-> {}]

\* A mixed turn with retrieved context around it, a pure question that an
\* answer follows, and a request to remember.
MCConversations ==
  {<<User({}, <<Wraps({"port"}), Says({"T4", "two"}), Says({"disk"}), Asks({"host"})>>)>>,
   <<User({}, <<Asks({"host", "T4"})>>), Answered>>,
   <<User({"remember"}, <<Says({"host"}), Asks({"T4"})>>)>>}

\* What the model makes of them: true lines and one said twice; an invented
\* identifier, noise and words of the question.
MCExtractions ==
  {<<>>, <<{"T4", "two"}, {"T4", "two", "host"}, {"disk"}>>,
   <<{"port"}, {"T4", "asks"}, {"host"}>>}

MCConsolidations ==
  {<<>>, <<[allowed |-> TRUE, content |-> "fact"]>>,
   <<[allowed |-> FALSE, content |-> "fact"], [allowed |-> TRUE, content |-> "rule"]>>}
TurnSymmetry == Permutations(Turns)
=============================================================================
