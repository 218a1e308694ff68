----------------------------- MODULE MemoryText -----------------------------
(***************************************************************************)
(* The deterministic guards of src/write_path.py around the small model:   *)
(* which part of a turn may be remembered, and which of the extracted      *)
(* lines are kept.  A text is the set of its meaningful words (stems       *)
(* without stop words); identifiers, numbers and paths are Anchors.        *)
(***************************************************************************)
EXTENDS Naturals, Sequences, FiniteSets, SequencesExt, FiniteSetsExt

CONSTANTS
  Words,
  Anchors,      \* words that must not be invented: digits, paths, versions
  Noise,        \* words of BLOCKED_PATTERNS and weak_phrases
  Preference    \* words that claim a preference of the user

\* A text is finite.
ASSUME TextAssumption ==
  /\ IsFiniteSet(Words)
  /\ Anchors \subseteq Words /\ Noise \subseteq Words /\ Preference \subseteq Words

MaxExtractedItems == 2   \* MAX_EXTRACTED_ITEMS

\* What a line of a user message can be: a statement, a question or a
\* command, or text that a client or a model wrapped around it (retrieved
\* context, reasoning).
SegmentKinds == {"statement", "query", "wrapped"}

\* What the marker tables find in a message.
Markers == {"remember", "correction", "preference", "memory_question", "task", "technical"}

-----------------------------------------------------------------------------
\* _content_to_text, strip_reasoning and _strip_external_context_blocks: the
\* positions of the segments that are left.
Visible(message) == {i \in 1..Len(message.segments) : message.segments[i].kind # "wrapped"}

WordsOf(message, positions) == UNION {message.segments[i].words : i \in positions}

Messages == [role : {"user", "assistant", "system", "tool"},
             segments : Seq([kind : SegmentKinds, words : SUBSET Words]),
             markers : SUBSET Markers]

NoMessage == [role |-> "user", segments |-> <<>>, markers |-> {}]

\* _extract_last_user_text: assistant, tool and system messages never count.
LastUserMessage(messages) ==
  LET users == {i \in 1..Len(messages) : messages[i].role = "user"}
  IN  IF users = {} THEN NoMessage ELSE messages[Max(users)]

ExplicitRequest(message) == message.markers \cap {"remember", "correction"} # {}

\* Mutant: a mixed turn is taken whole, questions included.
WholeSource(message) == Visible(message)

\* _extract_durable_source_text: a request to remember is kept whole, of any
\* other turn only what is stated.
DurableSource(message) ==
  IF ExplicitRequest(message) THEN Visible(message)
  ELSE {i \in Visible(message) : message.segments[i].kind = "statement"}

\* should_skip_memory_extraction.
SkipsExtraction(message) ==
  \/ Visible(message) = {}
  \/ "task" \in message.markers
  \/ ~ExplicitRequest(message) /\ "memory_question" \in message.markers
  \/ "technical" \in message.markers
  \/ WordsOf(message, DurableSource(message)) = {}

\* _estimate_source_fact_limit: no more memories than stated segments.
FactLimit(source) == Max({1, Min({MaxExtractedItems, Cardinality(source)})})

-----------------------------------------------------------------------------
\* _is_blocked_memory: weak or inferred lines, and a preference the user did
\* not state.
Blocked(content, message) ==
  \/ content = {}
  \/ content \cap Noise # {}
  \/ content \cap Preference # {} /\ "preference" \notin message.markers

\* _has_invented_anchors.
InventsAnchors(content, source) == ~((content \cap Anchors) \subseteq source)

\* _is_lexically_grounded: half of the words are the user's own, or three
\* tenths when an identifier of the user's is among them.
Grounded(content, source) ==
  LET shared == Cardinality(content \cap source)
      required == IF content \cap source \cap Anchors # {} THEN 30 ELSE 50
  IN  content # {} /\ source # {} /\ 100 * shared >= required * Cardinality(content)

\* _is_near_duplicate: jaccard of 0.72, or containment of 0.85.
NearDuplicate(content, other) ==
  LET shared == 100 * Cardinality(content \cap other)
  IN  /\ content # {} /\ other # {}
      /\ \/ shared >= 72 * Cardinality(content \cup other)
         \/ shared >= 85 * Min({Cardinality(content), Cardinality(other)})

\* Whether a line is kept after the items kept so far, when room is left.
Acceptable(items, line, message, source) ==
  /\ ~Blocked(line, message)
  /\ ~InventsAnchors(line, source)
  /\ Grounded(line, source)
  /\ \A i \in 1..Len(items) : line # items[i] /\ ~NearDuplicate(line, items[i])

\* Mutant: a line is compared with the last item only, and only as a whole.
ParseRepeats(lines, message, source, limit) ==
  FoldLeft(LAMBDA items, line :
             IF /\ Len(items) < limit /\ Acceptable(<<>>, line, message, source)
                /\ items = <<>> \/ Last(items) # line
             THEN Append(items, line) ELSE items,
           <<>>, lines)

\* parse_memory_text: the lines in the model's order, filtered one by one
\* until the limit is reached.
ParseMemoryText(lines, message, source, limit) ==
  FoldLeft(LAMBDA items, line :
             IF Len(items) < limit /\ Acceptable(items, line, message, source)
             THEN Append(items, line) ELSE items,
           <<>>, lines)
=============================================================================
