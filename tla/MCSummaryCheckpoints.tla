------------------------ MODULE MCSummaryCheckpoints -------------------------
(***************************************************************************)
(* Conversations for the runs: a question, one with a picture, an answer,  *)
(* calls of one and of two tools with their results.  They grow from each  *)
(* other, branch, are edited, and end with a question, with a result to    *)
(* continue from, or with a draft.                                         *)
(***************************************************************************)
EXTENDS SummaryCheckpoints, TLC

q == Message("user", "q", FALSE, {}, "")
p == Message("user", "p", TRUE, {}, "")
a == Message("assistant", "a", FALSE, {}, "")
c1 == Message("assistant", "c1", FALSE, {"x"}, "")
c2 == Message("assistant", "c2", FALSE, {"x", "y"}, "")
rx == Message("tool", "rx", FALSE, {}, "x")
ry == Message("tool", "ry", FALSE, {}, "y")

Chats == {
  <<q, a, q>>, <<q, a, p, a, q>>,      \* growing
  <<p, a, q, a, q>>,                   \* edited
  <<q, a, p, c2, rx, ry, a>>,          \* a draft; the tail begins among the results
  <<q, a, p, c2, rx, ry, c1, rx>>,     \* a second exchange to continue
  <<q, c1, rx, a, q, a, q>>            \* an old exchange
}

\* What the proof of ProtocolIntact asks of conversations holds of these.
ASSUME ChatsAssumption == \A h \in Chats : ResultsFollowCalls(h)

\* A call that was given up, and the same call whose result came later.
LateResults == Chats \cup {<<q, c1, q>>, <<q, c1, rx, q, a, q>>}

RequestSymmetry == Permutations(Requests)
=============================================================================
