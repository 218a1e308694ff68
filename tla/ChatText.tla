------------------------------ MODULE ChatText ------------------------------
(***************************************************************************)
(* What src/routes.py and the model adapter do to the text of an answer.   *)
(* A text is a sequence of tokens: "w" a run of ordinary words, "r" a long *)
(* phrase that a looping model says again, "<" the beginning of a tool     *)
(* tag and ">" the rest of it up to its closing tag, "e" an empty thinking *)
(* wrapper, "!" a notice of the gateway, "t" the raw result of a tool.     *)
(***************************************************************************)
EXTENDS Naturals, Sequences, SequencesExt

Has(text, token) == \E i \in 1..Len(text) : text[i] = token

\* A complete tool tag begins at i.
TagAt(text, i) == i < Len(text) /\ text[i] = "<" /\ text[i + 1] = ">"

-----------------------------------------------------------------------------
(* The repetition guard compares the end of the text with what precedes it *)

\* _detect_repetition_loop: the text ends in a phrase it has just said.
Loops(text) ==
  Len(text) > 1 /\ text[Len(text)] = "r" /\ text[Len(text) - 1] = "r"

\* _sanitize_repetitive_text: the repeated tail is cut, its first saying kept.
CutLoop(text) == IF Loops(text) THEN Front(text) ELSE text

-----------------------------------------------------------------------------
(* Tool markup                                                             *)

\* _looks_like_failed_native_tool_attempt.
FailedAttempt(text) == \E i \in 1..Len(text) : TagAt(text, i)

\* A forbidden marker of a continuation begins at i: a tool tag, or thinking
\* markup (_CONTINUATION_CONTENT_BLOCK_MARKERS).
MarkerAt(text, i) == TagAt(text, i) \/ text[i] = "e"

Markers(text) == {i \in 1..Len(text) : MarkerAt(text, i)}

\* The text before the earliest marker (_find_continuation_content_marker).
BeforeMarker(text) ==
  SubSeq(text, 1, (CHOOSE i \in Markers(text) : \A j \in Markers(text) : i <= j) - 1)

\* Mutant: whatever has been read is sent.
SafeEmitEndEager(text) == Len(text)

\* _continuation_safe_emit_end: a suffix that may become a marker is held.
SafeEmitEnd(text) ==
  IF text # <<>> /\ text[Len(text)] = "<" THEN Len(text) - 1 ELSE Len(text)

\* strip_reasoning, as _extract_assistant_reply uses it.
StripReasoning(text) ==
  FlattenSeq([i \in 1..Len(text) |-> IF text[i] = "e" THEN <<>> ELSE <<text[i]>>])

\* _clean_direct_native_answer: thinking and complete tool tags are removed.
Cleaned(done, token) ==
  IF token = "e" THEN done
  ELSE IF token = ">" /\ done # <<>> /\ Last(done) = "<" THEN Front(done)
  ELSE Append(done, token)

Clean(text) == FoldLeft(Cleaned, <<>>, text)

\* More than ten characters: worth remembering.
Long(text) == Has(text, "w") \/ Has(text, "r") \/ Has(text, ">") \/ Has(text, "!") \/ Has(text, "t")

-----------------------------------------------------------------------------
(* The stream normalizer of qwen36_llamacpp: an empty thinking wrapper at  *)
(* the head of the answer is dropped, anything else is left alone.  It     *)
(* holds what may still be the wrapper; "<" is how the wrapper begins too. *)

\* _classify says that more text is needed.
Undecided(buffer) == buffer \in {<<>>, <<"<">>, <<"e">>}

\* What feed returns once it is decided.
Decided(buffer) == IF Head(buffer) = "e" THEN Tail(buffer) ELSE buffer

\* What finish returns of a buffer that never was.
Unfinished(buffer) == IF buffer = <<"<">> THEN buffer ELSE <<>>

\* feed then finish, for an answer that comes in one piece.
Normalized(text) == IF Undecided(text) THEN Unfinished(text) ELSE Decided(text)
=============================================================================
