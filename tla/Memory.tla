-------------------------------- MODULE Memory --------------------------------
(***************************************************************************)
(* Long-term memory: process_episodic of src/write_path.py runs after each *)
(* answered turn and saves what the small model extracts from it;          *)
(* consolidate of src/consolidation.py turns recent memories into semantic *)
(* rows and adds each to the vector index (HnswIndex); retrieve_context of *)
(* src/retrieval.py reads them back.  Every await is a step: turns and     *)
(* consolidations interleave, and each statement on the database           *)
(* (src/sqlite.py) is a transaction of its own.                            *)
(***************************************************************************)
EXTENDS HnswIndex, MemoryText

CONSTANTS
  Turns,          \* the answered turns of this history
  Conversations,  \* message lists a turn may end with
  Replies,        \* assistant_reply: "empty", "short" or "long"
  Extractions,    \* what the small model may extract: sequences of lines
  Knowledge,      \* contents the small model may consolidate
  Consolidations, \* its answers: sequences of [allowed, content]
  TopK            \* TOP_K_FINAL

ASSUME MemoryAssumption ==
  /\ TopK \in Nat
  /\ Conversations \subseteq Seq(Messages)
  /\ Extractions \subseteq Seq(SUBSET Words)
  /\ Consolidations \subseteq Seq([allowed : BOOLEAN, content : Knowledge])

VARIABLES
  turn,         \* each turn's process_episodic
  episodic,     \* rows of episodic_memory
  task,         \* the consolidate task each process_episodic created
  semantic,     \* rows of semantic_memory; the id is the position
  unembedded    \* rows whose embedding raised (history)

databaseVars == <<episodic, semantic, unembedded>>
taskVars == <<turn, task>>
vars == <<indexVars, databaseVars, taskVars>>

NewTurn == [at |-> "waiting", messages |-> <<>>, items |-> <<>>]
Ended == [NewTurn EXCEPT !.at = "done"]
NoTask == [at |-> "none", items |-> <<>>, row |-> 0]

Init ==
  /\ IndexInit
  /\ turn = [t \in Turns |-> NewTurn]
  /\ task = [t \in Turns |-> NoTask]
  /\ episodic = <<>> /\ semantic = <<>> /\ unembedded = {}

\* Requests are served between start-up and shutdown.
Serving == step \in {"idle", "inserting", "savingMap", "savingIndex"}

-----------------------------------------------------------------------------
(* process_episodic                                                        *)

Source(message) == WordsOf(message, DurableSource(message))

\* The guards before the small model is called.
StartEpisodic(t) ==
  /\ Serving /\ turn[t].at = "waiting"
  /\ \E messages \in Conversations, reply \in Replies :
       turn' = [turn EXCEPT ![t] =
                  IF reply # "long" \/ SkipsExtraction(LastUserMessage(messages))
                  THEN Ended ELSE [NewTurn EXCEPT !.at = "extracting", !.messages = messages]]
  /\ UNCHANGED <<indexVars, databaseVars, task>>

\* The small model answers (with nothing, when the call fails).
Extract(t) ==
  /\ Serving /\ turn[t].at = "extracting"
  /\ \E lines \in Extractions :
       LET message == LastUserMessage(turn[t].messages)
           items == ParseMemoryText(lines, message, Source(message),
                                    FactLimit(DurableSource(message)))
       IN  turn' = [turn EXCEPT ![t] = IF items = <<>> THEN Ended
                                       ELSE [@ EXCEPT !.at = "saving", !.items = items]]
  /\ UNCHANGED <<indexVars, databaseVars, task>>

\* insert_memory of one item; an insertion that fails counts as saved all
\* the same.  After the last one a consolidation is started and forgotten.
SaveEpisodic(t) ==
  /\ Serving /\ turn[t].at = "saving"
  /\ \/ episodic' = Append(episodic, [turn |-> t, words |-> Head(turn[t].items)])
     \/ UNCHANGED episodic
  /\ turn' = [turn EXCEPT ![t].items = Tail(@),
                          ![t].at = IF Len(turn[t].items) = 1 THEN "done" ELSE "saving"]
  /\ task' = [task EXCEPT ![t].at = IF Len(turn[t].items) = 1 THEN "reading" ELSE "none"]
  /\ UNCHANGED <<indexVars, semantic, unembedded>>

-----------------------------------------------------------------------------
(* consolidate                                                             *)

\* A read that raises finds no memories.
ReadRecent(t) ==
  /\ Serving /\ task[t].at = "reading"
  /\ \/ task' = [task EXCEPT ![t].at = "done"]
     \/ episodic # <<>> /\ task' = [task EXCEPT ![t].at = "consolidating"]
  /\ UNCHANGED <<indexVars, databaseVars, turn>>

\* An answer that fails, is not JSON or is not a list ends the task: the
\* empty sequence.
Consolidate(t) ==
  /\ Serving /\ task[t].at = "consolidating"
  /\ \E items \in Consolidations :
       task' = [task EXCEPT ![t].items = items,
                            ![t].at = IF items = <<>> THEN "done" ELSE "checking"]
  /\ UNCHANGED <<indexVars, databaseVars, turn>>

\* The loop goes on with the next item.
NextItem(t) ==
  task' = [task EXCEPT ![t].items = Tail(@), ![t].row = 0,
                       ![t].at = IF Len(task[t].items) = 1 THEN "done" ELSE "checking"]

\* Only the allowed types, and no content that is already stored.  A query
\* that raises finds no duplicate.
CheckItem(t) ==
  /\ Serving /\ task[t].at = "checking"
  /\ LET item == Head(task[t].items)
     IN  \/ item.allowed /\ task' = [task EXCEPT ![t].at = "inserting"]
         \/ /\ ~item.allowed \/ \E r \in 1..Len(semantic) : semantic[r] = item.content
            /\ NextItem(t)
  /\ UNCHANGED <<indexVars, databaseVars, turn>>

\* A statement that fails returns no id, and the item is dropped.
InsertSemantic(t) ==
  /\ Serving /\ task[t].at = "inserting"
  /\ \/ /\ Len(semantic) + 1 \in Rows
        /\ semantic' = Append(semantic, Head(task[t].items).content)
        /\ task' = [task EXCEPT ![t].at = "embedding", ![t].row = Len(semantic) + 1]
     \/ NextItem(t) /\ UNCHANGED semantic
  /\ UNCHANGED <<indexVars, episodic, unembedded, turn>>

\* get_embedding raises: the row stays without a vector.
EmbeddingFails(t) ==
  /\ Serving /\ task[t].at = "embedding"
  /\ unembedded' = unembedded \cup {task[t].row}
  /\ NextItem(t)
  /\ UNCHANGED <<indexVars, episodic, semantic, turn>>

\* Mutant: the vector is added under the number of rows there are by then.
AddNewest(t) ==
  /\ task[t].at = "embedding"
  /\ AddToHnsw(Len(semantic))
  /\ task' = [task EXCEPT ![t].at = "indexing"]
  /\ UNCHANGED <<databaseVars, turn>>

\* The thread of to_thread gets the lock.
AddVector(t) ==
  /\ task[t].at = "embedding"
  /\ AddToHnsw(task[t].row)
  /\ task' = [task EXCEPT ![t].at = "indexing"]
  /\ UNCHANGED <<databaseVars, turn>>

\* The thread gives the lock back, whether or not it could index the row.
Indexed(t) ==
  /\ Serving /\ task[t].at = "indexing"
  /\ step = "idle" \/ adding # task[t].row
  /\ NextItem(t)
  /\ UNCHANGED <<indexVars, databaseVars, turn>>

-----------------------------------------------------------------------------
(* The process                                                             *)

\* Tasks live in the process; nothing records that they were not finished.
LoseTasks ==
  /\ turn' = [t \in Turns |-> IF turn[t].at \in {"waiting", "done"} THEN turn[t]
                              ELSE [turn[t] EXCEPT !.at = "lost", !.items = <<>>]]
  /\ task' = [t \in Turns |-> IF task[t].at \in {"none", "done"} THEN task[t]
                              ELSE [NoTask EXCEPT !.at = "lost"]]

IndexAlone ==
  /\ Start \/ IndexStep
  /\ UNCHANGED <<databaseVars, taskVars>>

Stop == (Crash \/ Exit) /\ LoseTasks /\ UNCHANGED databaseVars

Next ==
  \/ IndexAlone \/ Stop
  \/ \E t \in Turns :
       \/ StartEpisodic(t) \/ Extract(t) \/ SaveEpisodic(t)
       \/ ReadRecent(t) \/ Consolidate(t) \/ CheckItem(t) \/ InsertSemantic(t)
       \/ EmbeddingFails(t) \/ AddVector(t) \/ Indexed(t)

MemorySpec == Init /\ [][Next]_vars

-----------------------------------------------------------------------------
(* retrieve_context                                                        *)

QueryModes == {"skip", "normal", "memory_query"}  \* classify_retrieval_query

\* STRICT_MAX_DISTANCE and MEMORY_QUERY_MAX_DISTANCE.
Gate(mode) == CASE mode = "skip" -> {}
                [] mode = "normal" -> {"close"}
                [] mode = "memory_query" -> {"close", "loose"}

\* What the statements that look one id up come to.
Lookups == {"answered", "semanticRaises", "bothRaise"}

\* _fetch_memory_row: an id that semantic_memory does not have is looked up
\* in episodic_memory.  query turns an exception into no row at all.
FetchMemoryRow(id, lookup) ==
  IF id \in 1..Len(semantic) /\ lookup = "answered"
  THEN {[kind |-> "semantic", content |-> semantic[id]]}
  ELSE IF id \in 1..Len(episodic) /\ lookup # "bothRaise"
  THEN {[kind |-> "episodic", content |-> episodic[id].words]}
  ELSE {}

\* select_relevant_memories and the checks of its answer: it fails closed.
Rerank(candidates, answer) ==
  IF answer.parsed /\ Len(answer.ids) <= TopK /\ IsInjective(answer.ids)
     /\ Range(answer.ids) \subseteq candidates
  THEN Range(answer.ids) ELSE {}

\* Neighbours within the gate whose row is found, by the distance of each
\* matched vector.
Accepted(mode, distance, lookup) ==
  {hit \in Hits : /\ distance[hit.matched] \in Gate(mode)
                  /\ FetchMemoryRow(hit.found, lookup[hit.found]) # {}}

\* Without the planner the best by score are kept, here any TopK of them.
Retrievals(mode, distance, lookup, answers) ==
  LET accepted == Accepted(mode, distance, lookup)
  IN  {{hit \in accepted : hit.found \in Rerank({h.found : h \in accepted}, answer)} :
         answer \in answers}
      \cup {best \in SUBSET accepted : Cardinality(best) = Min({TopK, Cardinality(accepted)})}

-----------------------------------------------------------------------------
TurnStates == {"waiting", "extracting", "saving", "done", "lost"}
TaskStates == {"none", "reading", "consolidating", "checking", "inserting", "embedding",
               "indexing", "done", "lost"}

TypeOK ==
  /\ IndexTypeOK
  /\ \A t \in Turns : turn[t].at \in TurnStates /\ task[t].at \in TaskStates
  /\ \A r \in 1..Len(semantic) : semantic[r] \in Knowledge
  /\ DOMAIN idToHnsw \subseteq 1..Len(semantic)
  /\ unembedded \subseteq 1..Len(semantic)

\* Each identifier in words and three tenths of them at least come from such
\* segments of the message.
ComesFrom(words, message, kinds) ==
  LET said == UNION {message.segments[i].words :
                       i \in {j \in 1..Len(message.segments) : message.segments[j].kind \in kinds}}
  IN  /\ words \cap Anchors \subseteq said
      /\ 10 * Cardinality(words \cap said) >= 3 * Cardinality(words)

\* A row of episodic_memory is its user's own: nothing in it stands only on
\* what was retrieved, reasoned or answered around the last user message, and
\* nothing on what was only asked there, unless that message is a request to
\* remember or a correction, which is taken whole (write_path.py, "Keeps only
\* user-authored declarative material").
RememberedIsOwn ==
  \A i \in 1..Len(episodic) :
    LET row == episodic[i]
        message == LastUserMessage(turn[row.turn].messages)
    IN  /\ ComesFrom(row.words, message, {"statement", "query"})
        /\ ~ExplicitRequest(message) => ComesFrom(row.words, message, {"statement"})

\* One turn leaves at most two rows, and they do not repeat each other.
TurnRemembersOnce ==
  \A i, j \in 1..Len(episodic) :
    i < j /\ episodic[i].turn = episodic[j].turn =>
      /\ ~NearDuplicate(episodic[j].words, episodic[i].words)
      /\ \A k \in (j + 1)..Len(episodic) : episodic[k].turn # episodic[i].turn

\* While nothing of the index has failed and the process has not ended, a
\* semantic row is in the index's map, is still being worked on, or could not
\* be embedded: whatever the order in which consolidations take the lock, no
\* row gets another row's place.
EveryRowSearchable ==
  crashes = 0 /\ failures = 0 =>
    \A r \in 1..Len(semantic) :
      \/ r \in DOMAIN idToHnsw \/ r \in unembedded
      \/ \E t \in Turns : task[t].row = r

\* What a query is given is at most TopK rows, each within the query's
\* distance by its own vector, and nothing for a query that needs none; each
\* is the semantic row of that id, unless the very statement that reads it
\* raised, when an episodic row of the same number may stand in for it.  It is
\* claimed in the first life of the process whatever fails, and through any
\* kills as long as nothing of the index has failed (PairMatches).
Searched == UNION {{hit.found, hit.matched} : hit \in Hits}
Selections == {<<>>} \cup {<<r>> : r \in Rows} \cup {<<r, q>> : r, q \in Rows}
Answers == [parsed : {TRUE}, ids : Selections] \cup {[parsed |-> FALSE, ids |-> <<>>]}

RetrievedIsRelevant ==
  step = "idle" /\ (failures = 0 \/ crashes = 0) =>
    \A mode \in QueryModes, distance \in [Searched -> {"close", "loose", "far"}],
       lookup \in [Searched -> Lookups] :
      \A result \in Retrievals(mode, distance, lookup, Answers) :
        /\ Cardinality(result) <= TopK
        /\ mode = "skip" => result = {}
        /\ \A hit \in result :
             /\ distance[hit.found] \in Gate(mode)
             /\ \/ lookup[hit.found] # "answered"
                \/ FetchMemoryRow(hit.found, "answered")
                     = {[kind |-> "semantic", content |-> semantic[hit.found]]}

\* No content is stored twice.  It does not hold: two consolidations can both
\* find that it is missing before either inserts it.
NoDuplicateKnowledge ==
  \A r, q \in 1..Len(semantic) : r # q => semantic[r] # semantic[q]
=============================================================================
