------------------------------ MODULE ChatTurn ------------------------------
(***************************************************************************)
(* One request to /chat/completions of src/routes.py: handle_chat with the *)
(* native-tool gateway it calls, the generator of _stream_main_chat_       *)
(* response, and the SpeculativeStream that may run that generator before  *)
(* the planner has decided.  A step ends where the code awaits; the model, *)
(* the planner, the database and the client decide what happens there.     *)
(***************************************************************************)
EXTENDS SpeculativeStream, ChatText, ToolPolicy

CONSTANTS
  Requests,    \* the bodies a client may send
  Settings,    \* [planner, speculative, thinking, continuationThinking]
  MaxPieces,   \* bound: content pieces of one generation
  MaxThoughts, \* bound: reasoning pieces of one generation
  CallLists    \* the tool calls a model may propose

VARIABLES
  settings,
  body,        \* the request, as the policies and a directive leave it
  turn,        \* what handle_chat worked out about it
  phase,       \* where the handler waits, or how the request ended
  attempt,     \* the second of the two attempts
  gen,         \* the generator of _stream_main_chat_response
  shown,       \* content sent to the client, but for a released stream
  calls,       \* tool calls returned to the client
  remembered   \* the process_episodic tasks started

\* A client's request.
Message == [role : {"system", "user", "assistant", "tool"}, text : STRING, tool : STRING]
Request == [messages : Seq(Message), tools : SUBSET Tools, choice : ToolChoices,
            stream : BOOLEAN, compaction : BOOLEAN]

Tokens == {"w", "r", "<", ">", "e"}
Texts == UNION {[1..n -> Tokens] : n \in 0..MaxPieces}

\* What one event may carry: of an answer, or a notice of the gateway.
Contents == UNION {[1..n -> Tokens \cup {"!"}] : n \in 0..MaxPieces}

ASSUME ChatAssumption ==
  /\ Requests \subseteq Request /\ MaxPieces \in Nat \ {0} /\ MaxThoughts \in Nat
  /\ \A list \in CallLists : DOMAIN list = 1..Len(list) /\ Len(list) \in Nat
  /\ Contents \subseteq Chunks

handlerVars == <<body, turn, phase, attempt, calls>>
chatVars == <<streamVars, handlerVars, settings, gen, shown, remembered>>

Notice == <<"!">>

Ended == {"answered", "failed", "left", "lost"}

NoGen == [mode |-> "none", thinking |-> FALSE, spec |-> FALSE, stage |-> "none",
          pieces |-> 0, thoughts |-> 0, pending |-> <<>>, settled |-> FALSE,
          text |-> <<>>, sent |-> 0, streamed |-> FALSE, guard |-> "", refused |-> FALSE]

\* A new run of generate().  Without thinking the adapter's normalizer
\* watches the head of the answer.
NewGen(mode, thinking, spec) ==
  [NoGen EXCEPT !.mode = mode, !.thinking = thinking, !.spec = spec,
                !.stage = "reading", !.settled = thinking]

ChatInit ==
  /\ StreamInit
  /\ settings \in Settings /\ body \in Requests
  /\ turn = [rag |-> FALSE, internal |-> FALSE, native |-> FALSE,
             continues |-> FALSE, rows |-> <<>>]
  /\ phase = "received" /\ attempt = 0
  /\ gen = NoGen /\ shown = <<>> /\ calls = <<>> /\ remembered = <<>>

Remember(reply) == remembered' = Append(remembered, [rows |-> turn.rows, reply |-> reply])

\* Mutant: what a guard stopped is remembered too.
ScheduleWritePathAlways(reply, guarded) ==
  IF ~turn.internal /\ Long(reply) THEN Remember(reply) ELSE UNCHANGED remembered

\* _schedule_hybrid_write_path and the end of handle_chat: what is said of an
\* ordinary request, by a generation no guard stopped, if it says something.
ScheduleWritePath(reply, guarded) ==
  IF ~turn.internal /\ ~guarded /\ Long(reply)
  THEN Remember(reply) ELSE UNCHANGED remembered

-----------------------------------------------------------------------------
(* handle_chat, up to the choice of a route                                *)

Classify(request) ==
  LET rag == ~request.compaction /\ HasRag(request.messages)
  IN [rag |-> rag,
      internal |-> request.compaction \/ (ServicePrompt(request.messages) /\ ~rag),
      native |-> NativeProtocol(request),
      continues |-> Continuation(request.messages),
      rows |-> IF request.compaction THEN request.messages
               ELSE WritePathMessages(request.messages)]

Receive ==
  /\ phase = "received"
  /\ LET kept == MemoryWritePolicy(LibraryPolicy(body))
     IN /\ turn' = Classify(kept)
        /\ body' = PrepareNative(kept)
  /\ phase' = IF ~turn'.internal THEN "loading"
              ELSE IF turn'.native THEN "passing" ELSE "collecting"
  /\ UNCHANGED <<streamVars, settings, attempt, gen, shown, calls, remembered>>

\* Active state, history snapshot, project, retrieval and the context window.
LoadContext ==
  /\ phase = "loading"
  /\ phase' = IF turn.native THEN "native" ELSE "thinking"
  /\ UNCHANGED <<streamVars, settings, body, turn, attempt, gen, shown, calls, remembered>>

\* Whatever is awaited may raise: the client gets a 500 with the error.
GatewayError ==
  /\ phase \in {"loading", "passing", "collecting", "final"}
  /\ phase' = "failed"
  /\ UNCHANGED <<streamVars, settings, body, turn, attempt, gen, shown, calls, remembered>>

\* _proxy_native_openai_tool_protocol: a service prompt goes through as it is.
PassThrough(text, proposed) ==
  /\ phase = "passing"
  /\ phase' = "answered"
  /\ shown' = text /\ calls' = proposed
  /\ UNCHANGED <<streamVars, settings, body, turn, attempt, gen, remembered>>

-----------------------------------------------------------------------------
(* Thinking                                                                *)

\* _resolve_hybrid_no_tool_thinking.
HybridThinking(mode, rag) ==
  /\ settings.thinking # "off" /\ ~rag
  /\ settings.thinking = "conditional" => mode # "FAST"

\* _resolve_main_chat_thinking: a small model classifies the request, and
\* its failure or its timeout means THINK.
ChooseThinking(mode) ==
  /\ phase = "thinking"
  /\ LET loop == GatewayLoop(body.messages)
         base == settings.thinking # "off" /\ ~turn.rag /\ ~loop
         thinks == base /\ (settings.thinking = "conditional" => mode # "FAST")
     IN IF body.stream /\ ~turn.rag /\ ~loop
        THEN phase' = "live" /\ gen' = NewGen("main", thinks, FALSE)
        ELSE /\ phase' = IF loop /\ ~turn.rag THEN "looping" ELSE "collecting"
             /\ UNCHANGED gen
  /\ UNCHANGED <<streamVars, settings, body, turn, attempt, shown, calls, remembered>>

-----------------------------------------------------------------------------
(* _forward_to_backend_and_collect and what becomes of it                  *)

\* What a buffered backend may return: an event stream, whose repetition the
\* guard looks for only now and then, or one JSON completion; JSON without a
\* content is an error's body, or an answer that is reasoning only.
Backend ==
  [sse : {TRUE}, text : Texts, checked : BOOLEAN, thoughts : {FALSE}]
    \cup [sse : {FALSE}, text : Texts, checked : {TRUE}, thoughts : BOOLEAN]

Guarded(b) == b.checked /\ Loops(IF b.sse THEN b.text ELSE StripReasoning(b.text))

\* The lines for the client.
Lines(b) ==
  IF b.sse THEN (IF Guarded(b) THEN CutLoop(b.text) ELSE b.text)
  ELSE CutLoop(StripReasoning(b.text))

\* Collected answers the client and schedules the memory.
Collected(b) ==
  LET reply == StripReasoning(Lines(b))
  IN /\ shown' = IF body.stream THEN Lines(b) ELSE reply
     /\ ScheduleWritePath(reply, Guarded(b))
     /\ phase' = "answered"

Collect(b) ==
  /\ phase = "collecting"
  /\ Collected(b)
  /\ UNCHANGED <<streamVars, settings, body, turn, attempt, gen, calls>>

\* _proxy_hybrid_final_response: the same lines for a stream; for a plain
\* request the completion, in which reasoning alone becomes a diagnostic.
FinalBuffered(b) ==
  /\ phase = "final"
  /\ IF body.stream THEN Collected(b)
     ELSE LET answer == IF b.text = <<>> /\ b.thoughts THEN Notice
                        ELSE StripReasoning(b.text)
          IN /\ ~b.sse
             /\ shown' = CutLoop(answer)
             /\ ScheduleWritePath(CutLoop(answer), Loops(answer))
             /\ phase' = "answered"
  /\ UNCHANGED <<streamVars, settings, body, turn, attempt, gen, calls>>

-----------------------------------------------------------------------------
(* The hidden tool loop of the gateway                                     *)

\* The decision pass; its failure, or anything but one call of a registered
\* tool, means an ordinary answer.
LoopDecision(requested) ==
  /\ phase = "looping"
  /\ phase' = IF requested THEN "looped" ELSE "collecting"
  /\ UNCHANGED <<streamVars, settings, body, turn, attempt, gen, shown, calls, remembered>>

\* The tool has run, and the model answers from its result; when it says
\* nothing, the result of a tool that succeeded is the answer.
LoopFinal(b, succeeded) ==
  /\ phase = "looped"
  /\ IF StripReasoning(Lines(b)) = <<>> /\ succeeded
     THEN /\ shown' = <<"t">> /\ ScheduleWritePath(<<"t">>, FALSE)
          /\ phase' = "answered"
     ELSE Collected(b)
  /\ UNCHANGED <<streamVars, settings, body, turn, attempt, gen, calls>>

-----------------------------------------------------------------------------
(* _proxy_hybrid_native_openai_tool_protocol                               *)

\* Tool results already exist and the client streams: a live continuation.
ContinueLive ==
  /\ phase = "native" /\ turn.continues /\ body.stream
  /\ phase' = "live"
  /\ gen' = NewGen("continuation", settings.continuationThinking, FALSE)
  /\ body' = [body EXCEPT !.messages = ContinuationMessages(Undirected(@))]
  /\ UNCHANGED <<streamVars, settings, turn, attempt, shown, calls, remembered>>

\* A plain request: up to two drafts, of which one with tool markup or tool
\* calls is never shown; then a notice.
ContinueDraft(ok, text, proposes) ==
  /\ phase = "native" /\ turn.continues /\ ~body.stream
  /\ LET draft == Clean(text)
         accepted == ok /\ draft # <<>> /\ ~proposes /\ ~FailedAttempt(text)
     IN \/ /\ accepted
           /\ shown' = CutLoop(draft)
           /\ ScheduleWritePath(CutLoop(draft), Loops(draft))
           /\ phase' = "answered" /\ UNCHANGED attempt
        \/ /\ ~accepted
           /\ attempt' = attempt + 1
           /\ IF attempt = 1 THEN phase' = "answered" /\ shown' = Notice
              ELSE UNCHANGED <<phase, shown>>
           /\ UNCHANGED remembered
  /\ UNCHANGED <<streamVars, settings, body, turn, gen, calls>>

\* #tools, or a directive that cannot be followed: answered without a model.
AnswerDirective ==
  /\ phase = "native" /\ ~turn.continues
  /\ Directive(body) \in {"help", "error"}
  /\ shown' = Notice /\ phase' = "answered"
  /\ UNCHANGED <<streamVars, settings, body, turn, attempt, gen, calls, remembered>>

\* #tool forces that tool.
FollowDirective ==
  /\ phase = "native" /\ ~turn.continues
  /\ Directive(body) \in Tools
  /\ body' = ForceTool(body, Directive(body))
  /\ UNCHANGED <<streamVars, settings, turn, phase, attempt, gen, shown, calls, remembered>>

\* _proxy_hybrid_no_tool_final_response: live, but for a RAG request.
NoToolFinal(mode) ==
  IF body.stream /\ ~turn.rag
  THEN phase' = "live" /\ gen' = NewGen("main", HybridThinking(mode, FALSE), FALSE)
  ELSE phase' = "final" /\ UNCHANGED gen

Routed == phase = "native" /\ ~turn.continues /\ Directive(body) = "none"

\* The policies left no tool, or the planner is told that none is wanted.
AnswerWithoutTools ==
  /\ Routed
  /\ body.tools = {} \/ (settings.planner /\ body.choice = "none")
  /\ NoToolFinal("")
  /\ UNCHANGED <<streamVars, settings, body, turn, attempt, shown, calls, remembered>>

Eligible ==
  /\ settings.speculative /\ body.stream /\ ~turn.rag
  /\ body.choice \in {"absent", "auto"}

Planned == Routed /\ body.tools # {} /\ settings.planner /\ body.choice # "none"

\* _start_speculative_no_tool_stream: the answer is generated while the
\* planner decides, as if it were going to say FAST.
Speculate ==
  /\ Planned /\ Eligible
  /\ StartStream
  /\ gen' = NewGen("main", HybridThinking("FAST", FALSE), TRUE)
  /\ phase' = "starting"
  /\ UNCHANGED <<settings, body, turn, attempt, shown, calls, remembered>>

\* wait_started returns.
SpeculationStarted ==
  /\ phase = "starting" /\ phase' = "planning"
  /\ UNCHANGED <<streamVars, settings, body, turn, attempt, gen, shown, calls, remembered>>

PlanOnly ==
  /\ Planned /\ ~Eligible
  /\ phase' = "planning"
  /\ UNCHANGED <<streamVars, settings, body, turn, attempt, gen, shown, calls, remembered>>

\* cancel(reason) where there is a speculation to cancel.
CancelSpeculation == IF gen.spec THEN CancelStream ELSE UNCHANGED streamVars

\* ERROR: an answer without tools, without thinking.
PlannerFails ==
  /\ phase = "planning"
  /\ CancelSpeculation
  /\ NoToolFinal("FAST")
  /\ UNCHANGED <<settings, body, turn, attempt, shown, calls, remembered>>

\* Mutant: the call is returned and the speculation left to itself.
PlannerCallsOnly(name) ==
  /\ phase = "planning"
  /\ calls' = ValidateCalls(<<[name |-> name, args |-> "a"]>>, body.tools)
  /\ phase' = "answered"
  /\ UNCHANGED <<streamVars, settings, body, turn, attempt, gen, shown, remembered>>

\* TOOL: the speculation is given up before the call is returned.
PlannerCalls(name) ==
  /\ phase = "planning"
  /\ CancelSpeculation
  /\ calls' = ValidateCalls(<<[name |-> name, args |-> "a"]>>, body.tools)
  /\ phase' = "answered"
  /\ UNCHANGED <<settings, body, turn, attempt, gen, shown, remembered>>

\* NO_TOOL: the speculation is released if it is what the planner asks for,
\* otherwise the answer is generated again.
PlannerAnswers(mode) ==
  /\ phase = "planning" /\ body.choice # "required"
  /\ IF gen.spec /\ gen.thinking = HybridThinking(mode, turn.rag)
     THEN ReleaseStream /\ phase' = "released" /\ UNCHANGED gen
     ELSE CancelSpeculation /\ NoToolFinal(mode)
  /\ UNCHANGED <<settings, body, turn, attempt, shown, calls, remembered>>

\* A client that requires a tool gets the older decision pass instead.
PlannerRefused ==
  /\ phase = "planning" /\ body.choice = "required"
  /\ CancelSpeculation
  /\ phase' = "deciding"
  /\ UNCHANGED <<settings, body, turn, attempt, gen, shown, calls, remembered>>

PlannerDecides(result) ==
  CASE result.decision = "ERROR" -> PlannerFails
    [] result.decision = "TOOL" -> PlannerCalls(result.tool)
    [] result.decision = "NO_TOOL" -> PlannerAnswers(result.mode) \/ PlannerRefused

\* Without a planner the main model decides, in at most two short passes.
DecideWithModel ==
  /\ Routed /\ body.tools # {} /\ ~settings.planner
  /\ phase' = "deciding"
  /\ UNCHANGED <<streamVars, settings, body, turn, attempt, gen, shown, calls, remembered>>

\* What a pass may return: calls, native or recovered from the markup a model
\* printed (_extract_pseudo_native_tool_calls), an answer or KVEN_NO_TOOL,
\* a cut-off answer, reasoning only, or no response.
Decisions ==
  [kind : {"native", "printed"}, calls : CallLists]
    \cup [kind : {"answer", "truncated", "reasoning", "unavailable"}, calls : {<<>>}]

\* The calls of a decision that may be returned.  Those recovered from markup
\* are of exposed tools, and others would not be validated either.
Accepted(d) == ValidateCalls(d.calls, body.tools)

DecisionCalls(d) ==
  /\ phase = "deciding"
  /\ Accepted(d) # <<>>
  /\ calls' = Accepted(d) /\ phase' = "answered"
  /\ UNCHANGED <<streamVars, settings, body, turn, attempt, gen, shown, remembered>>

\* One correction, for markup that gave no call or for reasoning only.
DecisionCorrected(d) ==
  /\ phase = "deciding" /\ attempt = 0
  /\ Accepted(d) = <<>> /\ d.kind \in {"printed", "reasoning"}
  /\ attempt' = 1
  /\ UNCHANGED <<streamVars, settings, body, turn, phase, gen, shown, calls, remembered>>

\* No tool, or no decision: the real answer is generated without tools.
DecisionAnswers(d) ==
  /\ phase = "deciding"
  /\ Accepted(d) = <<>>
  /\ attempt = 1 \/ d.kind \notin {"printed", "reasoning"}
  /\ NoToolFinal("")
  /\ UNCHANGED <<streamVars, settings, body, turn, attempt, shown, calls, remembered>>

-----------------------------------------------------------------------------
(* generate() of _stream_main_chat_response.  A speculative one runs in    *)
(* the producer task, a live one as the client reads.                      *)

Running == IF gen.spec THEN producer = "pulling" ELSE phase = "live"

Quiet == UNCHANGED <<streamVars, shown>>

\* An event that carries the content c.
Yield(c) ==
  IF gen.spec THEN Pull(c) /\ UNCHANGED <<completed, shown>>
  ELSE shown' = shown \o c /\ UNCHANGED streamVars

Reading == Running /\ gen.stage = "reading"

\* A content piece of the backend, after the adapter's normalizer.
Buffer(piece) == Append(gen.pending, piece)
Normal(piece) == IF gen.settled THEN <<piece>> ELSE Decided(Buffer(piece))
Candidate(piece) == gen.text \o Normal(piece)
Settled(piece) == gen.settled \/ ~Undecided(Buffer(piece))

Read(piece) == [gen EXCEPT !.pieces = @ + 1, !.pending = <<>>, !.settled = TRUE]

MorePieces == Reading /\ gen.pieces < MaxPieces

\* The normalizer cannot tell yet.
HoldPiece(piece) ==
  /\ MorePieces /\ ~Settled(piece)
  /\ gen' = [gen EXCEPT !.pieces = @ + 1, !.pending = Buffer(piece)]
  /\ Quiet
  /\ UNCHANGED <<handlerVars, settings, remembered>>

\* A continuation that comes to a forbidden marker is cut off before it.
Forbidden(piece) == gen.mode = "continuation" /\ Markers(Candidate(piece)) # {}

BlockMarkup(piece) ==
  /\ MorePieces /\ Settled(piece) /\ Forbidden(piece)
  /\ gen' = [Read(piece) EXCEPT !.text = BeforeMarker(Candidate(piece)),
                                !.guard = "markup", !.stage = "ended"]
  /\ Quiet
  /\ UNCHANGED <<handlerVars, settings, remembered>>

\* The repetition guard looks every few hundred characters, so it may or may
\* not look here.
StopLoop(piece) ==
  /\ MorePieces /\ Settled(piece) /\ ~Forbidden(piece)
  /\ Loops(Candidate(piece))
  /\ gen' = [Read(piece) EXCEPT !.text = CutLoop(Candidate(piece)),
                                !.guard = "repeated", !.stage = "ended"]
  /\ Quiet
  /\ UNCHANGED <<handlerVars, settings, remembered>>

\* What may be sent of the text: all that is new, or in a continuation all
\* that cannot become a marker.
SentUpTo(text) == IF gen.mode = "continuation" THEN SafeEmitEnd(text) ELSE Len(text)

EmitPiece(piece) ==
  /\ MorePieces /\ Settled(piece) /\ ~Forbidden(piece)
  /\ LET text == Candidate(piece)
         safe == SentUpTo(text)
         new == SubSeq(text, gen.sent + 1, safe)
     IN /\ gen' = [Read(piece) EXCEPT !.text = text,
                     !.sent = IF safe > @ THEN safe ELSE @,
                     !.streamed = @ \/ new # <<>>]
        /\ IF new = <<>> THEN Quiet ELSE Yield(new)
  /\ UNCHANGED <<handlerVars, settings, remembered>>

\* Reasoning is sent as it comes, and may itself be found to loop.  What else
\* the delta of such an event holds goes with it: a main answer is generated
\* without tools in the payload, so that its deltas hold no call.
EmitReasoning(loops) ==
  /\ Reading /\ gen.thinking /\ gen.thoughts < MaxThoughts
  /\ gen' = IF loops THEN [gen EXCEPT !.guard = "repeated", !.stage = "ended"]
            ELSE [gen EXCEPT !.thoughts = @ + 1]
  /\ IF loops THEN Quiet ELSE Yield(<<>>)
  /\ UNCHANGED <<handlerVars, settings, remembered>>

\* A continuation that asks for another tool.
BlockCalls ==
  /\ Reading /\ gen.mode = "continuation"
  /\ gen' = [gen EXCEPT !.guard = "calls", !.stage = "ended"]
  /\ Quiet
  /\ UNCHANGED <<handlerVars, settings, remembered>>

BackendFails ==
  /\ Reading
  /\ gen' = [gen EXCEPT !.guard = "exception", !.text = Notice, !.stage = "ended"]
  /\ Quiet
  /\ UNCHANGED <<handlerVars, settings, remembered>>

BackendDone ==
  /\ Reading
  /\ gen' = [gen EXCEPT !.stage = "ended"]
  /\ Quiet
  /\ UNCHANGED <<handlerVars, settings, remembered>>

\* A backend that does not stream answers in one JSON completion.
JsonAnswer(text, proposes) ==
  /\ Reading /\ gen.pieces = 0 /\ gen.thoughts = 0
  /\ gen.mode = "continuation" \/ ~proposes
  /\ LET blocked == gen.mode = "continuation" /\ proposes
     IN gen' = [gen EXCEPT !.stage = "ended", !.settled = TRUE,
                  !.text = IF blocked THEN <<>>
                           ELSE IF gen.settled THEN text ELSE Normalized(text),
                  !.guard = IF blocked THEN "calls" ELSE ""]
  /\ Quiet
  /\ UNCHANGED <<handlerVars, settings, remembered>>

\* The text is complete: the tail of the normalizer, a last look for markup,
\* thinking and tool tags removed, a last look for repetition.  A continuation
\* that was stopped says so; one that was not sends what it had held back.
Conclude ==
  /\ Running /\ gen.stage = "ended"
  /\ LET tail == IF gen.guard = "" /\ ~gen.settled THEN Unfinished(gen.pending) ELSE <<>>
         whole == gen.text \o tail
         marked == gen.mode = "continuation" /\ gen.guard = "" /\ Markers(whole) # {}
         client == IF marked THEN BeforeMarker(whole) ELSE whole
         reply == Clean(client)
         guard == IF Loops(reply) THEN "repeated"
                  ELSE IF marked THEN "markup" ELSE gen.guard
         refused == gen.mode = "continuation" /\ guard \notin {"", "repeated"}
         rest == IF gen.mode = "continuation" /\ guard = ""
                 THEN SubSeq(client, gen.sent + 1, Len(client)) ELSE <<>>
         out == IF refused THEN Notice ELSE rest
     IN /\ gen' = [gen EXCEPT !.stage = "gate", !.guard = guard, !.refused = refused,
                     !.text = IF refused THEN <<>> ELSE CutLoop(reply),
                     !.streamed = @ \/ out # <<>>]
        /\ IF out = <<>> THEN Quiet ELSE Yield(out)
  /\ UNCHANGED <<handlerVars, settings, remembered>>

\* Mutant: the outcome does not wait for the release.
PassGateUnreleased ==
  /\ Running /\ gen.stage = "gate"
  /\ gen' = [gen EXCEPT !.stage = "done"]
  /\ ScheduleWritePath(gen.text, gen.guard # "")
  /\ IF gen.spec THEN Pull(gen.text) /\ completed' = TRUE /\ UNCHANGED shown
     ELSE shown' = shown \o gen.text /\ UNCHANGED streamVars
  /\ UNCHANGED <<handlerVars, settings>>

\* The release gate, then the outcome, the memory and the next event in one
\* step: a reply that was not streamed is sent now, otherwise the end is.
PassGate ==
  /\ Running /\ gen.stage = "gate"
  /\ LET silent == ~gen.refused /\ gen.text = <<>>
         reply == IF silent THEN Notice ELSE gen.text
         event == IF gen.streamed THEN <<>> ELSE reply
     IN /\ gen' = [gen EXCEPT !.text = reply, !.streamed = TRUE,
                     !.guard = IF silent /\ @ = "" THEN "empty" ELSE @,
                     !.stage = IF gen.streamed THEN "done" ELSE "terminal"]
        /\ ScheduleWritePath(reply, gen'.guard # "")
        /\ IF gen.spec THEN PullPastGate(event) /\ UNCHANGED shown
           ELSE shown' = shown \o event /\ UNCHANGED streamVars
  /\ UNCHANGED <<handlerVars, settings>>

\* The finish reason and [DONE].
SendTerminal ==
  /\ Running /\ gen.stage = "terminal"
  /\ gen' = [gen EXCEPT !.stage = "done"]
  /\ Yield(<<>>)
  /\ UNCHANGED <<handlerVars, settings, remembered>>

\* The generator returns.
ReturnLive ==
  /\ phase = "live" /\ gen.stage = "done"
  /\ phase' = "answered"
  /\ UNCHANGED <<streamVars, settings, body, turn, attempt, gen, shown, calls, remembered>>

ReturnSpeculative ==
  /\ gen.spec /\ gen.stage = "done"
  /\ Exhaust(FALSE)
  /\ UNCHANGED <<handlerVars, settings, gen, shown, remembered>>

Enqueue ==
  /\ Put
  /\ UNCHANGED <<handlerVars, settings, gen, shown, remembered>>

-----------------------------------------------------------------------------
(* The client and the server                                               *)

\* The server starts to send a released answer, unless the client is gone.
ServeReleased ==
  /\ phase = "released"
  /\ OpenResponse
  /\ phase' = IF consumer' = "reading" THEN "serving" ELSE "left"
  /\ UNCHANGED <<settings, body, turn, attempt, gen, shown, calls, remembered>>

SendReleased ==
  /\ phase = "serving"
  /\ Consume
  /\ phase' = IF consumer' = "finished" THEN "answered" ELSE phase
  /\ UNCHANGED <<settings, body, turn, attempt, gen, shown, calls, remembered>>

\* The client disconnects while it is sent an answer: the generator is
\* cancelled where it waits.
LeaveReleased ==
  /\ phase = "serving"
  /\ CloseResponse
  /\ phase' = "left"
  /\ UNCHANGED <<settings, body, turn, attempt, gen, shown, calls, remembered>>

LeaveLive ==
  /\ phase = "live"
  /\ phase' = "left"
  /\ UNCHANGED <<streamVars, settings, body, turn, attempt, gen, shown, calls, remembered>>

\* Mutant: the exception is passed on and nothing else.
PlannerAbortsOnly ==
  /\ phase = "planning"
  /\ phase' \in {"left", "failed"}
  /\ UNCHANGED <<streamVars, settings, body, turn, attempt, gen, shown, calls, remembered>>

\* The request is cancelled, or the planner call raises, while it is awaited.
PlannerAborts ==
  /\ phase = "planning"
  /\ CancelSpeculation
  /\ phase' \in {"left", "failed"}
  /\ UNCHANGED <<settings, body, turn, attempt, gen, shown, calls, remembered>>

\* wait_started is awaited outside the try statement that cancels.
CancelledAtStart ==
  /\ phase = "starting"
  /\ phase' = "lost"
  /\ UNCHANGED <<streamVars, settings, body, turn, attempt, gen, shown, calls, remembered>>

-----------------------------------------------------------------------------
Handle ==
  \/ Receive \/ LoadContext
  \/ /\ phase = "passing"
     /\ \E text \in Texts, list \in CallLists : PassThrough(text, list)
  \/ \E mode \in {"FAST", "THINK"} : ChooseThinking(mode)
  \/ /\ phase \in {"collecting", "final"}
     /\ \E b \in Backend : Collect(b) \/ FinalBuffered(b)
  \/ \E requested \in BOOLEAN : LoopDecision(requested)
  \/ /\ phase = "looped"
     /\ \E b \in Backend, succeeded \in BOOLEAN : LoopFinal(b, succeeded)
  \/ ContinueLive \/ AnswerDirective \/ FollowDirective \/ AnswerWithoutTools
  \/ /\ phase = "native" /\ turn.continues
     /\ \E ok, proposes \in BOOLEAN, text \in Texts : ContinueDraft(ok, text, proposes)
  \/ Speculate \/ SpeculationStarted \/ PlanOnly
  \/ /\ phase = "planning"
     /\ \E result \in RouteResults(body) : PlannerDecides(result)
  \/ DecideWithModel
  \/ /\ phase = "deciding"
     /\ \E d \in Decisions : DecisionCalls(d) \/ DecisionCorrected(d) \/ DecisionAnswers(d)

Generate ==
  \/ /\ Reading
     /\ \/ \E piece \in Tokens :
            HoldPiece(piece) \/ BlockMarkup(piece) \/ StopLoop(piece) \/ EmitPiece(piece)
        \/ \E loops \in BOOLEAN : EmitReasoning(loops)
        \/ BlockCalls \/ BackendFails \/ BackendDone
        \/ \E text \in Texts, proposes \in BOOLEAN : JsonAnswer(text, proposes)
  \/ Conclude \/ PassGate \/ SendTerminal \/ ReturnLive \/ ReturnSpeculative

Serve == ServeReleased \/ SendReleased

Disturb ==
  GatewayError \/ LeaveReleased \/ LeaveLive \/ PlannerAborts \/ CancelledAtStart

\* The request is over and nothing runs for it any more.
Finished ==
  /\ phase \in Ended
  /\ UNCHANGED chatVars

ChatNext == Handle \/ Generate \/ Enqueue \/ Serve \/ Disturb \/ Finished

ChatSpec == ChatInit /\ [][ChatNext]_chatVars

\* What is awaited returns or times out, and tasks that can run are run.
ChatFairness ==
  /\ WF_chatVars(Handle) /\ WF_chatVars(Generate) /\ WF_chatVars(Enqueue) /\ WF_chatVars(Serve)

FairChatSpec == ChatSpec /\ ChatFairness

-----------------------------------------------------------------------------
(* Properties                                                              *)

Answer == IF consumer # "none" THEN FlattenSeq(delivered) ELSE shown

ChatTypeOK ==
  /\ settings \in Settings
  /\ body.tools \subseteq Tools /\ body.choice \in ToolChoices
  /\ phase \in Ended \cup {"received", "loading", "passing", "thinking", "looping", "looped",
       "collecting", "native", "starting", "planning", "deciding", "final", "live",
       "released", "serving"}
  /\ attempt \in 0..2
  /\ gen.mode \in {"none", "main", "continuation"}
  /\ gen.stage \in {"none", "reading", "ended", "gate", "terminal", "done"}
  /\ gen.guard \in {"", "markup", "repeated", "calls", "exception", "empty"}
  /\ gen.sent \in 0..MaxPieces

\* "Renewed tool calls and tool markup are blocked before they can reach the
\* client" (routes.py, _stream_main_chat_response): no content of an answer
\* from tool results contains a marker, across however many events it was
\* sent, nor the beginning of one that the next piece completed.
NoToolMarkup ==
  turn.continues /\ ~turn.internal =>
    /\ Markers(shown) = {} /\ calls = <<>>
    /\ gen.guard = "markup" /\ gen.stage = "ended" => IsPrefix(shown, gen.text)

\* The decision and the speculation exclude each other: an answer the planner
\* has not released is neither seen nor remembered, and when the turn is
\* answered otherwise nothing of it is left running.
OneGeneration ==
  /\ gen.spec /\ ~gate => Answer = <<>> /\ remembered = <<>>
  /\ phase \in {"live", "final", "deciding"} \/ calls # <<>>
       => producer \notin {"pulling", "putting"}

\* A turn is remembered at most once, as the conversation without tool
\* protocol and sources, and as the answer the client has read; what a guard
\* stopped and what the gateway says itself are not, but for the diagnostic
\* that stands in for an answer of reasoning only.
RememberedIsTheAnswer ==
  /\ Len(remembered) <= 1
  /\ remembered # <<>> =>
       LET entry == remembered[1]
       IN /\ ~turn.internal
          /\ \A i \in 1..Len(entry.rows) :
               entry.rows[i].role # "tool" /\ entry.rows[i].text \notin {"calls", "rag"}
          /\ entry.reply = Notice \/ ~Has(entry.reply, "!")
          /\ entry.reply = Notice => gen.mode = "none" /\ ~body.stream
          /\ phase = "answered" => entry.reply \in {Clean(Answer), StripReasoning(Answer)}

\* The client gets only calls it can execute: of tools it exposed and no
\* policy removed, no duplicate, at most one mutation; with a planner it gets
\* none when it wants none, and the tool it asks for when it asks for one.
CallsAnswerTheRequest ==
  calls # <<>> /\ ~turn.internal =>
    /\ Len(calls) <= MaxCalls
    /\ \A i, j \in 1..Len(calls) : calls[i] = calls[j] => i = j
    /\ Cardinality({i \in 1..Len(calls) : calls[i].name \in MutatingTools}) <= 1
    /\ \A i \in 1..Len(calls) :
         /\ calls[i].name \in body.tools \ BlockedTools /\ calls[i].args # "bad"
         /\ settings.planner /\ body.choice # "required"
              => body.choice \in {"absent", "auto", calls[i].name}
    /\ shown = <<>> /\ remembered = <<>>

\* Every request comes to an end, and the producer of a speculation with it,
\* unless it was cancelled at wait_started or its response never opened.
Deserted == phase = "lost" \/ consumer = "abandoned"

TurnEnds == <>[](phase \in Ended /\ (producer \in {"none", "done", "cancelled"} \/ Deserted))
=============================================================================
