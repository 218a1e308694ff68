---------------------------- MODULE ContextWindow ----------------------------
(***************************************************************************)
(* src/context_window.py: which part of a conversation may be summarized   *)
(* or shortened before the backend sees it, and what is put in its place.  *)
(*                                                                         *)
(* A message is a record: role; name, which stands for its text; media,    *)
(* whether a part of it is an image, audio or file; calls, the ids of the  *)
(* tool calls of an assistant message; answers, the id a tool result       *)
(* answers; covers, for a summary the messages it stands for; and omitted, *)
(* whether its media, arguments or result were replaced by a placeholder.  *)
(*                                                                         *)
(* A boundary is the number of messages before it.                         *)
(***************************************************************************)
EXTENDS Integers, Sequences, FiniteSets

Message(role, name, media, calls, answers) ==
  [role |-> role, name |-> name, media |-> media, calls |-> calls,
   answers |-> answers, covers |-> <<>>, omitted |-> FALSE]

Larger(a, b) == IF a >= b THEN a ELSE b
Smaller(a, b) == IF a <= b THEN a ELSE b

-----------------------------------------------------------------------------
(* The parts of a conversation                                             *)

\* _leading_system_message_count
SystemPrefix(ms) ==
  CHOOSE n \in 0..Len(ms) :
    /\ \A i \in 1..n : ms[i].role = "system"
    /\ n < Len(ms) => ms[n + 1].role # "system"

IsCall(m) == m.role = "assistant" /\ m.calls # {}

\* _completed_tool_protocol_groups: a call and all the results that follow it,
\* as its first and last index.
ToolGroups(ms) ==
  {g \in (1..Len(ms)) \X (1..Len(ms)) :
     /\ g[1] < g[2]
     /\ IsCall(ms[g[1]])
     /\ \A i \in g[1] + 1 .. g[2] : ms[i].role = "tool"
     /\ g[2] < Len(ms) => ms[g[2] + 1].role # "tool"}

\* _active_tool_continuation_start: the call whose results end the
\* conversation, 0 if there is none.
ActiveCall(ms) ==
  LET active == {g \in ToolGroups(ms) : g[2] = Len(ms)}
  IN  IF active = {} THEN 0 ELSE (CHOOSE g \in active : TRUE)[1]

\* _latest_user_message_index among the first n messages, 0 if there is none.
LatestUser(ms, n) ==
  LET users == {i \in 1..n : ms[i].role = "user"}
  IN  IF users = {} THEN 0 ELSE CHOOSE i \in users : \A j \in users : j <= i

\* build_context_window_report, verbatim_tail_start: the last messages are
\* kept as they are, and an active continuation is never cut.
TailStart(ms, tail) ==
  LET start == Larger(SystemPrefix(ms), Len(ms) - tail)
      active == ActiveCall(ms)
  IN  IF active # 0 THEN Smaller(start, active - 1) ELSE start

-----------------------------------------------------------------------------
(* build_text_summary_compaction_preview                                   *)

\* The turn of an active continuation starts at the user's message.
ActiveTurnStart(ms) ==
  LET asked == LatestUser(ms, ActiveCall(ms))
  IN  IF asked > SystemPrefix(ms) THEN asked ELSE ActiveCall(ms)

ProtectedFrom(ms, tail) ==
  LET start == Smaller(Larger(SystemPrefix(ms), TailStart(ms, tail)), Len(ms))
  IN  IF ActiveCall(ms) > SystemPrefix(ms)
      THEN Smaller(start, ActiveTurnStart(ms) - 1)
      ELSE start

Crosses(g, boundary) == g[1] <= boundary /\ boundary < g[2]

\* Mutant: a group that the tail begins in the middle of is cut.
SafeBoundaryCuts(ms, tail) == ProtectedFrom(ms, tail)

\* safe_summary_boundary_end: moved back to the start of a tool group it
\* would cut.  Groups are disjoint, so it moves at most once.
SafeBoundary(ms, tail) ==
  LET start == ProtectedFrom(ms, tail)
      cut == {g \in ToolGroups(ms) : Crosses(g, start)}
  IN  IF cut = {} THEN start
      ELSE Larger(SystemPrefix(ms), (CHOOSE g \in cut : TRUE)[1] - 1)

SummaryMessage(covers) ==
  [Message("assistant", "summary", FALSE, {}, "") EXCEPT !.covers = covers]

\* A boundary given by a checkpoint may only shorten the safe one.
MayEndAt(ms, tail, end) == SystemPrefix(ms) < end /\ end <= SafeBoundary(ms, tail)

\* The summary takes the place of the messages before the boundary.
Summarized(ms, covers, end) ==
  SubSeq(ms, 1, SystemPrefix(ms)) \o <<SummaryMessage(covers)>>
    \o SubSeq(ms, end + 1, Len(ms))

-----------------------------------------------------------------------------
(* build_historical_media_compaction_preview                               *)

\* Media go from the messages before the latest user message.
MediaOmitted(ms) ==
  LET turn == LatestUser(ms, Len(ms))
  IN  [i \in DOMAIN ms |->
         IF SystemPrefix(ms) < i /\ i < turn /\ ms[i].media
         THEN [ms[i] EXCEPT !.omitted = TRUE] ELSE ms[i]]

-----------------------------------------------------------------------------
(* build_historical_tool_protocol_compaction_preview                       *)

Results(ms, g) == {ms[i].answers : i \in g[1] + 1 .. g[2]}

\* One result for every call of the group, and no other.
IsWhole(ms, g) ==
  /\ Results(ms, g) = ms[g[1]].calls
  /\ g[2] - g[1] = Cardinality(ms[g[1]].calls)

\* The groups that end before the tail.
OldGroups(ms, tail) ==
  {g \in ToolGroups(ms) :
     SystemPrefix(ms) < g[1] /\ g[2] <= TailStart(ms, tail) /\ IsWhole(ms, g)}

\* The arguments and the results of groups are replaced by placeholders;
\* the caller names those that become shorter.
ToolsOmitted(ms, groups) ==
  [i \in DOMAIN ms |->
     IF \E g \in groups : g[1] <= i /\ i <= g[2]
     THEN [ms[i] EXCEPT !.omitted = TRUE] ELSE ms[i]]
=============================================================================
