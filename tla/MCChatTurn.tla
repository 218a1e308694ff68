----------------------------- MODULE MCChatTurn -----------------------------
(***************************************************************************)
(* Model checking ChatTurn: the requests that tell its routes apart.       *)
(***************************************************************************)
EXTENDS ChatTurn

User(text, tool) == [role |-> "user", text |-> text, tool |-> tool]
Say(text) == User(text, "absent")
CallsRow == [role |-> "assistant", text |-> "calls", tool |-> "absent"]
ResultRow == [role |-> "tool", text |-> "result", tool |-> "absent"]
AnswerRow == [role |-> "assistant", text |-> "plain", tool |-> "absent"]

MCTools == {"search", "write_note", "add_memory"}

\* A client's request.
Ask(messages, tools, choice) ==
  {[messages |-> messages, tools |-> tools, choice |-> choice,
    stream |-> stream, compaction |-> FALSE] : stream \in BOOLEAN}

PlainRequests ==
  Ask(<<Say("plain")>>, {}, "absent") \cup Ask(<<Say("rag")>>, {}, "absent")
    \cup Ask(<<Say("task")>>, {}, "absent") \cup Ask(<<Say("task")>>, {"search"}, "absent")
    \cup Ask(<<User("names", "get_time")>>, {}, "absent")
    \cup {[messages |-> <<Say("plain")>>, tools |-> {}, choice |-> "absent",
           stream |-> FALSE, compaction |-> TRUE]}

ToolRequests ==
  UNION {Ask(<<Say("plain")>>, {"search", "write_note", "add_memory"}, choice)
           : choice \in {"absent", "none", "required", "search", "add_memory"}}
    \cup Ask(<<Say("rag")>>, {"search"}, "auto")
    \cup Ask(<<Say("remember")>>, {"search"}, "search")
    \cup Ask(<<Say("plain")>>, {"add_memory"}, "absent")

DirectiveRequests ==
  Ask(<<Say("tools")>>, {"search"}, "absent")
    \cup Ask(<<User("directive", "search")>>, {"search", "write_note"}, "auto")
    \cup Ask(<<User("directive", "search")>>, {"search", "write_note"}, "write_note")
    \cup Ask(<<User("bare", "search")>>, {"search"}, "absent")

ContinuationRequests ==
  Ask(<<Say("plain"), CallsRow, ResultRow>>, {"search"}, "absent")
    \cup Ask(<<Say("rag"), CallsRow, ResultRow>>, {}, "absent")
    \cup Ask(<<Say("plain"), CallsRow, ResultRow, AnswerRow, Say("plain")>>, {"search"}, "auto")

MCRequests == PlainRequests \cup ToolRequests \cup DirectiveRequests \cup ContinuationRequests

MCSettings ==
  [planner : BOOLEAN, speculative : {TRUE}, thinking : {"always", "conditional"},
   continuationThinking : {FALSE}]
    \cup {[planner |-> TRUE, speculative |-> FALSE, thinking |-> "off",
           continuationThinking |-> TRUE]}

MCCalls == [name : {"search", "write_note", "other"}, args : {"a", "b"}]
             \cup {[name |-> "search", args |-> "bad"]}
MCCallLists == {<<>>} \cup {<<c>> : c \in MCCalls} \cup (MCCalls \X MCCalls)
                 \cup {<<[name |-> "search", args |-> "a"], [name |-> "search", args |-> "b"], c>> : c \in MCCalls}

MCChunks == Contents
=============================================================================
