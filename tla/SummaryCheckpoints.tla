------------------------- MODULE SummaryCheckpoints --------------------------
(***************************************************************************)
(* Summaries of the beginnings of conversations: made and kept by          *)
(* text_summary_checkpoint_manager.py and text_summary_checkpoint_store.py,*)
(* put into a request by _maybe_apply_text_summary_checkpoint (routes.py), *)
(* with the compactions of context_window.py behind it, all of them        *)
(* switched on.                                                            *)
(*                                                                         *)
(* A checkpoint is known by the messages it was made for (the hash of the  *)
(* conversation after its system messages).  Its text is known by the      *)
(* messages it tells of, so a summary made from an earlier one covers what *)
(* that one covers and the messages that were added to it.                 *)
(***************************************************************************)
EXTENDS ContextWindow

CONSTANTS
  Requests,         \* requests that may be served at once
  Histories,        \* conversations a client may send
  TailMessages,     \* KVEN2_CONTEXT_WINDOW_TAIL_MESSAGES
  MinMessages,      \* KVEN2_TEXT_SUMMARY_GENERATION_MIN_MESSAGES
  RefreshMessages,  \* KVEN2_TEXT_SUMMARY_REFRESH_MIN_MESSAGES
  LoadLimit,        \* KVEN2_TEXT_SUMMARY_CHECKPOINT_LOAD_LIMIT
  StoreLimit,       \* KVEN2_TEXT_SUMMARY_CHECKPOINT_STORE_LIMIT
  MaxLate           \* bound on saves that outlive their request

\* A client's messages stand for nothing else and nothing in them was omitted.
ASSUME CheckpointAssumption ==
  /\ TailMessages \in Nat \ {0} /\ MinMessages \in Nat \ {0} /\ RefreshMessages \in Nat \ {0}
  /\ LoadLimit \in Nat \ {0} /\ StoreLimit \in Nat \ {0} /\ MaxLate \in Nat
  /\ \A h \in Histories :
       /\ h \in Seq({h[i] : i \in DOMAIN h})
       /\ \A i \in DOMAIN h :
            /\ h[i].role # "system"
            /\ h[i] = Message(h[i].role, h[i].name, h[i].media, h[i].calls, h[i].answers)

VARIABLES
  store,     \* text_summary_checkpoints, the most recently used row first
  lock,      \* who holds _GENERATION_LOCK: {} or one request
  pc, messages,
  previous,  \* the checkpoint a generation continues, as a set of at most one
  made,      \* the checkpoint a generation is about to save
  chosen,    \* the checkpoint that is applied, as a set of at most one
  sent,      \* what leaves the compactions
  late       \* checkpoints whose request is gone, still being saved

vars == <<store, lock, pc, messages, previous, made, chosen, sent, late>>

Points == {"idle", "wanting", "generating", "saving", "applying", "marking", "sent"}
NoCheckpoint == [prefix |-> <<>>, covers |-> <<>>]

\* _merge_kven_system_context leaves one system message, different for every
\* request: the profile, the state and what was retrieved.
SystemOf(r) == Message("system", r, FALSE, {}, "")

Init ==
  /\ store = <<>> /\ lock = {}
  /\ pc = [r \in Requests |-> "idle"]
  /\ messages = [r \in Requests |-> <<>>]
  /\ previous = [r \in Requests |-> {}]
  /\ made = [r \in Requests |-> NoCheckpoint]
  /\ chosen = [r \in Requests |-> {}]
  /\ sent = [r \in Requests |-> <<>>]
  /\ late = {}

-----------------------------------------------------------------------------
(* The store                                                               *)

Length(c) == Len(c.prefix)
Rows == {store[i] : i \in DOMAIN store}
RowBefore(c, d) == \E i, j \in DOMAIN store : i < j /\ store[i] = c /\ store[j] = d

\* load_text_summary_checkpoints: the longest checkpoints first, of one
\* length the most recently used, up to the limit; an error loads nothing.
LoadedFirst(c, d) == Length(c) > Length(d) \/ (Length(c) = Length(d) /\ RowBefore(c, d))
Loaded(most) ==
  LET eligible == {c \in Rows : Length(c) <= most}
  IN  {c \in eligible : Cardinality({d \in eligible : LoadedFirst(d, c)}) < LoadLimit}

\* c in front, in the place of the row at one of the indices same.
InFront(c, same) ==
  <<c>> \o IF same = {} THEN store
           ELSE LET i == CHOOSE i \in same : TRUE
                IN  SubSeq(store, 1, i - 1) \o SubSeq(store, i + 1, Len(store))

\* _sync_save_text_summary_checkpoint: the row of the same prefix with the new
\* summary, or a new row, in front of the others; the rows beyond the limit go.
Saved(c) ==
  LET all == InFront(c, {i \in DOMAIN store : store[i].prefix = c.prefix})
  IN  SubSeq(all, 1, Smaller(Len(all), StoreLimit))

\* _sync_mark_text_summary_checkpoint_used, for a row that is still the same.
\* Rows used in the same second keep their order.
Touched(c) == InFront(c, {i \in DOMAIN store : store[i] = c})

-----------------------------------------------------------------------------
(* What a request's conversation allows                                    *)

Conversation(ms) == SubSeq(ms, SystemPrefix(ms) + 1, Len(ms))

IsPrefixOf(p, s) == Len(p) <= Len(s) /\ p = SubSeq(s, 1, Len(p))

SafeEnd(r) == SafeBoundary(messages[r], TailMessages)
Candidates(r) == SafeEnd(r) - SystemPrefix(messages[r])

\* Mutant: the first checkpoint that matches is taken.
LongestMatchAny(ms, checkpoints) ==
  LET matching == {c \in checkpoints : IsPrefixOf(c.prefix, Conversation(ms))}
  IN  {c \in matching : \A d \in matching : Length(d) >= Length(c)}

\* find_matching_text_summary_checkpoint
LongestMatch(ms, checkpoints) ==
  LET matching == {c \in checkpoints : IsPrefixOf(c.prefix, Conversation(ms))}
  IN  {c \in matching : \A d \in matching : Length(d) <= Length(c)}

-----------------------------------------------------------------------------
(* maybe_generate_text_summary_checkpoint                                  *)

\* Nothing is made in the middle of a tool turn, or from too little.  The
\* number of characters is not modelled: enough of them is a choice.
Arrive(r) ==
  /\ pc[r] = "idle"
  /\ \E h \in Histories, enough \in BOOLEAN :
       LET ms == <<SystemOf(r)>> \o h
           count == SafeBoundary(ms, TailMessages) - SystemPrefix(ms)
       IN  /\ messages' = [messages EXCEPT ![r] = ms]
           /\ pc' = [pc EXCEPT ![r] =
                       IF ActiveCall(ms) = 0 /\ count >= MinMessages /\ enough
                       THEN "wanting" ELSE "applying"]
  /\ UNCHANGED <<store, lock, previous, made, chosen, sent, late>>

\* Under the lock; a checkpoint that is fresh enough is left alone.
BeginGeneration(r) ==
  /\ pc[r] = "wanting" /\ lock = {}
  /\ \E loaded \in {Loaded(Candidates(r)), {}}, enough \in BOOLEAN :
       LET match == LongestMatch(messages[r], loaded)
           fresh == \E c \in match : Candidates(r) - Length(c) < RefreshMessages
       IN  IF fresh /\ ~enough
           THEN /\ pc' = [pc EXCEPT ![r] = "applying"]
                /\ UNCHANGED <<lock, previous>>
           ELSE /\ pc' = [pc EXCEPT ![r] = "generating"]
                /\ lock' = {r}
                /\ previous' = [previous EXCEPT ![r] = match]
  /\ UNCHANGED <<store, messages, made, chosen, sent, late>>

\* Mutant: the whole prefix is summarized after the previous summary.
AddedMessagesAll(r) == SubSeq(messages[r], SystemPrefix(messages[r]) + 1, SafeEnd(r))

\* generation_messages: what came after the previous checkpoint.
AddedMessages(r) ==
  LET begin == IF previous[r] = {} THEN 0 ELSE Length(CHOOSE c \in previous[r] : TRUE)
  IN  SubSeq(messages[r], SystemPrefix(messages[r]) + begin + 1, SafeEnd(r))

PriorCovers(r) ==
  IF previous[r] = {} THEN <<>> ELSE (CHOOSE c \in previous[r] : TRUE).covers

\* generate_text_summary and build_text_summary_checkpoint
GenerateSummary(r) ==
  /\ pc[r] = "generating"
  /\ made' = [made EXCEPT ![r] =
       [prefix |-> SubSeq(messages[r], SystemPrefix(messages[r]) + 1, SafeEnd(r)),
        covers |-> PriorCovers(r) \o AddedMessages(r)]]
  /\ pc' = [pc EXCEPT ![r] = "saving"]
  /\ UNCHANGED <<store, lock, messages, previous, chosen, sent, late>>

\* save_text_summary_checkpoint; a failure is only logged.
SaveCheckpoint(r) ==
  /\ pc[r] = "saving"
  /\ store' \in {Saved(made[r]), store}
  /\ lock' = {}
  /\ pc' = [pc EXCEPT ![r] = "applying"]
  /\ previous' = [previous EXCEPT ![r] = {}]
  /\ made' = [made EXCEPT ![r] = NoCheckpoint]
  /\ UNCHANGED <<messages, chosen, sent, late>>

\* The planner fails, times out or answers nothing usable.
GenerationFails(r) ==
  /\ pc[r] = "generating"
  /\ lock' = {}
  /\ pc' = [pc EXCEPT ![r] = "applying"]
  /\ previous' = [previous EXCEPT ![r] = {}]
  /\ UNCHANGED <<store, messages, made, chosen, sent, late>>

-----------------------------------------------------------------------------
(* _maybe_apply_text_summary_checkpoint, then the historical media and the *)
(* historical tool exchanges                                               *)

\* What the two compactions can make of a conversation: a group is only
\* changed when that makes it shorter.
Compactions(ms) ==
  {ToolsOmitted(MediaOmitted(ms), groups) : groups \in SUBSET OldGroups(ms, TailMessages)}

\* Mutant: the system messages are forgotten in the index.
EndOfRelative(r, c) == Length(c)

\* selected_summarized_prefix_end
EndOf(r, c) == SystemPrefix(messages[r]) + Length(c)

\* The request goes out with a summary when one fits, and as it is when none
\* does, when the rows cannot be read, or when it would not become shorter.
Apply(r) ==
  /\ pc[r] = "applying"
  /\ \E loaded \in {Loaded(Candidates(r)), {}}, shorter \in BOOLEAN :
       LET fitting == {c \in LongestMatch(messages[r], loaded) :
                         MayEndAt(messages[r], TailMessages, EndOf(r, c))}
       IN  IF fitting # {} /\ shorter
           THEN \E c \in fitting :
                  /\ chosen' = [chosen EXCEPT ![r] = {c}]
                  /\ \E out \in Compactions(Summarized(messages[r], c.covers, EndOf(r, c))) :
                       sent' = [sent EXCEPT ![r] = out]
                  /\ pc' = [pc EXCEPT ![r] = "marking"]
           ELSE /\ \E out \in Compactions(messages[r]) : sent' = [sent EXCEPT ![r] = out]
                /\ pc' = [pc EXCEPT ![r] = "sent"]
                /\ UNCHANGED chosen
  /\ UNCHANGED <<store, lock, messages, previous, made, late>>

\* A row that is gone or was replaced, and an error, change nothing.
MarkUsed(r) ==
  /\ pc[r] = "marking"
  /\ \E c \in chosen[r] :
       store' \in {store} \cup (IF c \in Rows THEN {Touched(c)} ELSE {})
  /\ pc' = [pc EXCEPT ![r] = "sent"]
  /\ UNCHANGED <<lock, messages, previous, made, chosen, sent, late>>

Forget(r) ==
  /\ pc' = [pc EXCEPT ![r] = "idle"]
  /\ messages' = [messages EXCEPT ![r] = <<>>]
  /\ previous' = [previous EXCEPT ![r] = {}]
  /\ made' = [made EXCEPT ![r] = NoCheckpoint]
  /\ chosen' = [chosen EXCEPT ![r] = {}]
  /\ sent' = [sent EXCEPT ![r] = <<>>]

Answered(r) ==
  /\ pc[r] = "sent"
  /\ Forget(r)
  /\ UNCHANGED <<store, lock, late>>

\* The request is cancelled where it waits, which gives the lock back.  A save
\* that was under way goes on in its thread.
Cancelled(r) ==
  /\ pc[r] \in {"wanting", "generating", "saving", "applying", "marking"}
  /\ pc[r] = "saving" => Cardinality(late) < MaxLate
  /\ Forget(r)
  /\ lock' = lock \ {r}
  /\ late' = IF pc[r] = "saving" THEN late \cup {made[r]} ELSE late
  /\ UNCHANGED store

LateSave ==
  \E c \in late :
    /\ late' = late \ {c}
    /\ store' \in {Saved(c), store}
    /\ UNCHANGED <<lock, pc, messages, previous, made, chosen, sent>>

-----------------------------------------------------------------------------
Serve(r) ==
  \/ Arrive(r) \/ BeginGeneration(r) \/ GenerateSummary(r) \/ SaveCheckpoint(r)
  \/ GenerationFails(r) \/ Apply(r) \/ MarkUsed(r) \/ Answered(r) \/ Cancelled(r)

Next == LateSave \/ \E r \in Requests : Serve(r)

Spec == Init /\ [][Next]_vars

-----------------------------------------------------------------------------
Checkpoints == Rows \cup late \cup {made[r] : r \in Requests}
                 \cup UNION {previous[r] \cup chosen[r] : r \in Requests}

TypeOK ==
  /\ lock \subseteq Requests
  /\ pc \in [Requests -> Points]
  /\ Len(store) <= StoreLimit
  /\ \A r \in Requests : pc[r] \in {"generating", "saving"} <=> lock = {r}

\* A summary tells of the messages its checkpoint is known by, each once and
\* in their order, however many summaries it was refreshed from and whoever
\* saved in between (maybe_generate_text_summary_checkpoint, previous_prefix_end).
SummariesCoverPrefix == \A c \in Checkpoints : c.covers = c.prefix

GoesOut(r) == pc[r] \in {"marking", "sent"}

Whole(m) == [m EXCEPT !.omitted = FALSE]

\* The conversation that was sent, with the summary replaced by what it covers.
ToldOf(out) ==
  LET told == [i \in DOMAIN out |-> Whole(out[i])]
      summaries == {i \in DOMAIN out : out[i].covers # <<>>}
  IN  IF summaries = {} THEN told
      ELSE LET i == CHOOSE i \in summaries : TRUE
           IN  SubSeq(told, 1, i - 1) \o told[i].covers \o SubSeq(told, i + 1, Len(told))

\* With the summary the request tells of the whole conversation when it leaves
\* the compactions: no message is lost between the summary and the tail, none is
\* told twice, and the system message is the request's own (_maybe_apply_text_summary_checkpoint:
\* the summary of another request's beginning is applied to this one).
FaithfulContext == \A r \in Requests : GoesOut(r) => ToldOf(sent[r]) = messages[r]

\* No tool result leaves the compactions without the call it answers.
NoOrphanResult(out) ==
  \A i \in DOMAIN out : out[i].role = "tool" =>
    \E g \in ToolGroups(out) : g[1] < i /\ i <= g[2] /\ out[i].answers \in out[g[1]].calls

\* The results of a call directly follow it, one for each of its tools at
\* most, and all of them unless the conversation ends before.
ResultsFollowCalls(h) ==
  /\ NoOrphanResult(h)
  /\ \A i \in DOMAIN h : IsCall(h[i]) =>
       /\ IsFiniteSet(h[i].calls)
       /\ \A j \in i + 1 .. Smaller(Len(h), i + Cardinality(h[i].calls)) : h[j].role = "tool"
  /\ \A g \in ToolGroups(h) : g[2] - g[1] <= Cardinality(h[g[1]].calls)

\* The exchange that is continued, from the user's message to the last
\* result: the message with its media, the last call with its results.
ContinuationKept(ms, out) ==
  ActiveCall(ms) # 0 =>
    /\ \A i \in ActiveCall(ms)..Len(ms) : out[Len(out) - Len(ms) + i] = ms[i]
    /\ LET asked == LatestUser(ms, ActiveCall(ms))
       IN  asked # 0 => out[Len(out) - Len(ms) + asked] = ms[asked]

\* Whatever is summarized or omitted, the tool protocol of what goes out is
\* intact and the exchange under way is complete (context_window.py, "The
\* recent tail, the complete current tool turn, and any completed tool
\* protocol crossing the tail boundary remain verbatim").
ProtocolIntact ==
  \A r \in Requests : GoesOut(r) => NoOrphanResult(sent[r]) /\ ContinuationKept(messages[r], sent[r])

Fits(r, c) == Length(c) <= Candidates(r) /\ IsPrefixOf(c.prefix, Conversation(messages[r]))

\* The summary that is applied is the longest that was stored for this
\* conversation and leaves the protected tail alone.
LongestApplied ==
  [][\A r \in Requests : pc[r] = "applying" /\ pc'[r] = "marking" =>
       \A c \in chosen'[r] : \A d \in Rows : Fits(r, d) => Length(d) <= Length(c)]_vars

\* "Apply the longest safe stored summary checkpoint when enabled."
\* (routes.py, _maybe_apply_text_summary_checkpoint): what is loaded holds the
\* longest one that fits.
LongestIsLoaded ==
  \A r \in Requests : pc[r] = "applying" =>
    \A d \in Rows : Fits(r, d) =>
      \E c \in Loaded(Candidates(r)) : Fits(r, c) /\ Length(d) <= Length(c)

\* The results of every call of the turn under way are sent as they are.  It
\* does not hold: only the last exchange of a long tool turn is protected.
TurnResultsKept ==
  \A r \in Requests : GoesOut(r) /\ ActiveCall(messages[r]) # 0 =>
    LET asked == LatestUser(messages[r], Len(messages[r]))
    IN  \A i \in asked..Len(messages[r]) :
          sent[r][Len(sent[r]) - Len(messages[r]) + i] = messages[r][i]
=============================================================================
