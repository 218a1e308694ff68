----------------------------- MODULE ToolPolicy -----------------------------
(***************************************************************************)
(* The pure decisions of src/routes.py, planner_router.py, tool_loop.py    *)
(* and tool_directives.py about one chat request: which tools the model    *)
(* may see, whose request it is, what becomes of the tool calls a model    *)
(* proposes, and what of the conversation the memory may read.             *)
(*                                                                         *)
(* A message is a record [role, text, tool]: text is "plain", "rag" (an    *)
(* OWUI Knowledge wrapper, which itself starts with a task heading),       *)
(* "task", "remember", "names" (it names a gateway tool), "directive"      *)
(* (#tool with a request), "bare" (#tool alone), "tools" (#tools),         *)
(* "calls" (assistant tool_calls), "result" (a tool's), "markup".          *)
(***************************************************************************)
EXTENDS Naturals, Sequences, SequencesExt, FiniteSets

CONSTANTS
  Tools,         \* the names a client may expose
  BlockedTools,  \* OWUI_BLOCKED_MEMORY_WRITE_TOOLS
  MutatingTools, \* NATIVE_MUTATING_TOOLS
  GatewayTools,  \* the enabled entries of KVEN_TOOL_REGISTRY
  TimeTool,      \* "get_time", the one directive that needs no request
  MaxCalls       \* KVEN2_NATIVE_TOOL_MAX_CALLS

ASSUME ToolAssumption ==
  /\ BlockedTools \subseteq Tools /\ MutatingTools \subseteq Tools
  /\ MaxCalls \in Nat \ {0}

\* tool_choice: absent, one of the three modes, or a forced tool.
Modes == {"auto", "none", "required"}
ToolChoices == {"absent"} \cup Modes \cup Tools

ForcedTool(choice) == IF choice \in Tools THEN choice ELSE "absent"

-----------------------------------------------------------------------------
(* What the request is                                                     *)

UserMessages(messages) == {i \in 1..Len(messages) : messages[i].role = "user"}

LastUser(messages) ==
  LET rows == UserMessages(messages)
  IN IF rows = {} THEN [role |-> "user", text |-> "empty", tool |-> "absent"]
     ELSE messages[CHOOSE i \in rows : \A j \in rows : j <= i]

\* _apply_owui_read_only_library_policy.
LibraryPolicy(body) ==
  [body EXCEPT !.tools = @ \ BlockedTools,
               !.choice = IF @ \in BlockedTools THEN "absent" ELSE @]

\* _disable_tools_for_pure_kven_memory_write: Kven's own memory takes it.
MemoryWritePolicy(body) ==
  IF LastUser(body.messages).text = "remember"
  THEN [body EXCEPT !.tools = {}, !.choice = "absent"] ELSE body

\* _is_owui_rag_context_text on any user message.
HasRag(messages) == \E i \in UserMessages(messages) : messages[i].text = "rag"

\* detect_internal_owui_request: a service prompt starts with a task heading.
ServicePrompt(messages) == LastUser(messages).text \in {"task", "rag"}

\* _is_native_openai_tool_protocol.
NativeProtocol(body) ==
  \/ body.tools # {} \/ body.choice # "absent"
  \/ \E i \in 1..Len(body.messages) : body.messages[i].text \in {"calls", "result"}

\* _messages_include_native_tool_continuation: the conversation ends in an
\* assistant's tool calls and nothing but their results.
Continuation(messages) ==
  \E i \in 1..Len(messages) - 1 :
    /\ messages[i].text = "calls"
    /\ \A j \in i + 1..Len(messages) : messages[j].role = "tool"

\* _prepare_native_tool_payload: no second round of calls.
PrepareNative(body) ==
  IF Continuation(body.messages) THEN [body EXCEPT !.choice = "none"] ELSE body

-----------------------------------------------------------------------------
(* What the memory and the continuation may read                           *)

\* _sanitize_owui_rag_messages_for_write_path: only the query is left.
WithoutSources(messages) ==
  [i \in 1..Len(messages) |->
     IF messages[i].text = "rag" THEN [messages[i] EXCEPT !.text = "plain"]
     ELSE messages[i]]

\* No tool results, and no rows with one of these texts.
Without(texts, rows) ==
  FlattenSeq([i \in 1..Len(rows) |->
    IF rows[i].role # "tool" /\ rows[i].text \notin texts THEN <<rows[i]>> ELSE <<>>])

\* _sanitize_messages_for_write_path.
WritePathMessages(messages) == Without({"calls"}, WithoutSources(messages))

\* _build_clean_tool_continuation_messages: the protocol is flattened.
ContinuationMessages(messages) == Without({"calls", "markup"}, WithoutSources(messages))

-----------------------------------------------------------------------------
(* A leading #directive of the user                                        *)

\* parse_tool_directive: #tools asks for help, #tool names a tool that the
\* client must have exposed.
ParsedDirective(body) ==
  LET last == LastUser(body.messages)
  IN CASE last.text = "tools" -> "help"
       [] last.text \notin {"tools", "directive", "bare"} -> "none"
       [] last.tool \notin body.tools -> "error"
       [] OTHER -> last.tool

\* _prepare_explicit_tool_directive: none, help, error, or the tool it forces,
\* which must agree with tool_choice and be asked for something.
Directive(body) ==
  LET parsed == ParsedDirective(body)
      bare == LastUser(body.messages).text = "bare"
  IN IF parsed \in {"none", "help", "error"} THEN parsed
     ELSE IF \/ body.choice = "none"
             \/ ForcedTool(body.choice) \notin {"absent", parsed}
             \/ bare /\ parsed # TimeTool
          THEN "error" ELSE parsed

\* replace_latest_user_message_text.
Undirected(messages) ==
  [i \in 1..Len(messages) |->
     IF /\ i \in UserMessages(messages)
        /\ messages[i] = LastUser(messages)
        /\ messages[i].text \in {"directive", "bare"}
     THEN [messages[i] EXCEPT !.text = "plain"] ELSE messages[i]]

ForceTool(body, name) ==
  [body EXCEPT !.messages = Undirected(@), !.choice = name]

-----------------------------------------------------------------------------
(* The calls a model proposes                                              *)

\* One call that may be returned: a name the client exposed, arguments that
\* are a JSON object (_coerce_tool_arguments).
ValidCall(call, allowed) == call.name \in allowed /\ call.args # "bad"

\* Mutant: every valid call is returned, up to the limit.
ValidateCallsOnly(calls, allowed) ==
  LET valid == SelectSeq(calls, LAMBDA call : ValidCall(call, allowed))
  IN SubSeq(valid, 1, IF Len(valid) > MaxCalls THEN MaxCalls ELSE Len(valid))

\* _validate_and_limit_native_tool_calls: what was accepted after each call,
\* and whether a mutation has been seen.  A mutation counts as seen even when
\* the limit then drops it.
Considered(done, call, allowed) ==
  IF ~ValidCall(call, allowed) \/ call \in done.seen THEN done
  ELSE IF call.name \in MutatingTools /\ done.mutated
  THEN [done EXCEPT !.seen = @ \cup {call}]
  ELSE [seen |-> done.seen \cup {call},
        mutated |-> done.mutated \/ call.name \in MutatingTools,
        accepted |-> IF Len(done.accepted) >= MaxCalls THEN done.accepted
                     ELSE Append(done.accepted, call)]

ValidateCalls(calls, allowed) ==
  FoldLeft(LAMBDA done, call : Considered(done, call, allowed),
           [seen |-> {}, mutated |-> FALSE, accepted |-> <<>>], calls).accepted

\* The planner's decision; whatever goes wrong is an ERROR.
RoutingError == [decision |-> "ERROR", mode |-> "", tool |-> "absent"]

\* _post_planner_text with _parse_selection_protocol: one line, FAST, THINK or
\* the number of an exposed tool.
Selections(body) ==
  {[decision |-> "NO_TOOL", mode |-> mode, tool |-> "absent"] : mode \in {"FAST", "THINK"}}
    \cup {[decision |-> "TOOL", mode |-> "", tool |-> name] : name \in body.tools}

\* _post_planner_tool_call with _validate_arguments: the selected tool's
\* arguments, generated by a second call, meet its schema or nothing is called.
ArgumentResults(name) == {RoutingError, [decision |-> "TOOL", mode |-> "", tool |-> name]}

\* route_tool_request: a forced tool needs no selection.
RouteResults(body) ==
  LET forced == ForcedTool(body.choice)
      selected == IF forced = "absent" THEN Selections(body)
                  ELSE {[decision |-> "TOOL", mode |-> "", tool |-> forced]}
  IN {RoutingError} \cup
     UNION {IF s.decision = "NO_TOOL" THEN {s}
            ELSE IF s.tool \in body.tools THEN ArgumentResults(s.tool) ELSE {} : s \in selected}

\* _tool_loop_enabled_for_registered_tools where the loop can run: the client
\* sent no tools, so only a name the user wrote enables one.
GatewayLoop(messages) ==
  LastUser(messages).text = "names" /\ LastUser(messages).tool \in GatewayTools
=============================================================================
