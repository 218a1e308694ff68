---------------------------- MODULE QweniiRunner ----------------------------
(***************************************************************************)
(* infra/qwenii/runner.py: a task that was authorized by mail is run once  *)
(* as an unprivileged user, and its result is mailed back.                 *)
(*                                                                         *)
(* The runner is one process that scans the inbox; the record of a task is *)
(* its file in state_dir/tasks, written atomically, and everything else it *)
(* knows is lost when it dies.  systemd kills the task's script with it.   *)
(* Timestamps, attempts, exit codes and digests are left out: a digest is  *)
(* the content it was computed from, and a file that would not pass the    *)
(* permission or schema rules is never in the inbox.                       *)
(***************************************************************************)
EXTENDS MailCourier

CONSTANT FullDisk   \* whether writing state or output files may fail

VARIABLES
  record,         \* state_dir/tasks/<task>.json
  result,         \* results_dir/<task>.result.txt: the state it reports
  script,         \* the task's process
  launched,       \* what was launched for each task, in order (history)
  outbox,         \* the result mails sent
  runner

runnerVars == <<record, result, script, launched, outbox, runner>>
vars == <<courierVars, runnerVars>>

Terminal == {"SUCCEEDED", "FAILED", "TIMED_OUT"}
Final == {"RETURNED", "REJECTED"}

\* auth, payload: what was validated; terminal: terminal_state; rendered:
\* whether result_path is set.
Record == [state    : {"RECEIVED", "VALIDATED", "RUNNING"} \cup Terminal \cup Final,
           payload  : Scripts \cup {None},
           terminal : Terminal \cup {None},
           rendered : BOOLEAN]

ASSUME RunnerAssumption == FullDisk \in BOOLEAN /\ None \notin Record \cup Tasks \cup Terminal

ScriptStates == {"none", "running", "succeeded", "failed", "killed"}

Pcs == {"recovering", "sleeping", "scanning", "validating", "starting", "launching", "waiting",
        "ending", "rendering", "recording", "sending", "sent"}

\* task: the one being processed; todo: the rest of the scan; ended: the
\* outcome not yet written; then: where rendering returns to.
RunnerTypeOK ==
  /\ record \in [Tasks -> Record \cup {None}]
  /\ result \in [Tasks -> Terminal \cup {None}]
  /\ script \in [Tasks -> ScriptStates]
  /\ launched \in [Tasks -> Seq(Contents)]
  /\ outbox \in Seq([task : Tasks, reports : Terminal])
  /\ runner \in [pc : Pcs, task : Tasks \cup {None}, todo : SUBSET Tasks,
                 ended : Terminal \cup {None}, then : {"sending", "recovering"}]

TypeOK == CourierTypeOK /\ RunnerTypeOK

At(pc, t) == runner.pc = pc /\ runner.task = t
Go(pc) == runner' = [runner EXCEPT !.pc = pc]
Restarted == [pc |-> "recovering", task |-> None, todo |-> {t \in Tasks : record[t] # None},
              ended |-> None, then |-> "sending"]
Sleeping == [pc |-> "sleeping", task |-> None, todo |-> {}, ended |-> None, then |-> "sending"]
Rest(t) == [pc |-> "scanning", task |-> None, todo |-> runner.todo \ {t}, ended |-> None,
            then |-> "sending"]

Write(t, rec) == record' = [record EXCEPT ![t] = rec]
SetState(t, state) == Write(t, [record[t] EXCEPT !.state = state])
Ended(t, state) == Write(t, [record[t] EXCEPT !.state = state, !.terminal = state])

Init ==
  /\ CourierInit
  /\ record = [t \in Tasks |-> None]
  /\ result = [t \in Tasks |-> None]
  /\ script = [t \in Tasks |-> "none"]
  /\ launched = [t \in Tasks |-> <<>>]
  /\ outbox = <<>>
  /\ runner = Sleeping

-----------------------------------------------------------------------------
(* recover_states                                                          *)

\* Mutant: an interrupted task is taken up where it was validated.
RecoverReplaying(t) ==
  /\ runner.pc = "recovering"
  /\ t \in runner.todo
  /\ record[t] # None /\ record[t].state = "RUNNING"
  /\ SetState(t, "VALIDATED")
  /\ runner' = [runner EXCEPT !.todo = @ \ {t}]
  /\ UNCHANGED <<courierVars, result, script, launched, outbox>>

\* Mutant: an interrupted task is left as it is.
RecoverLeaving(t) ==
  /\ runner.pc = "recovering"
  /\ t \in runner.todo
  /\ record[t] # None /\ record[t].state = "RUNNING"
  /\ runner' = [runner EXCEPT !.todo = @ \ {t}]
  /\ UNCHANGED <<courierVars, record, result, script, launched, outbox>>

RecoverRunning(t) ==
  /\ runner.pc = "recovering"
  /\ t \in runner.todo
  /\ record[t] # None /\ record[t].state = "RUNNING"
  /\ Ended(t, "FAILED")
  /\ runner' = [runner EXCEPT !.pc = "rendering", !.task = t, !.todo = @ \ {t}, !.then = "recovering"]
  /\ UNCHANGED <<courierVars, result, script, launched, outbox>>

RecoverOther(t) ==
  /\ runner.pc = "recovering"
  /\ t \in runner.todo
  /\ record[t] = None \/ record[t].state # "RUNNING"
  /\ runner' = [runner EXCEPT !.todo = @ \ {t}]
  /\ UNCHANGED <<courierVars, record, result, script, launched, outbox>>

Recovered ==
  /\ runner.pc = "recovering"
  /\ runner.todo = {}
  /\ runner' = Sleeping
  /\ UNCHANGED <<courierVars, record, result, script, launched, outbox>>

-----------------------------------------------------------------------------
(* process_auth                                                            *)

Scan ==
  /\ runner.pc = "sleeping"
  /\ runner' = [runner EXCEPT !.pc = "scanning", !.todo = {t \in Tasks : files[Auth(t)] # None}]
  /\ UNCHANGED <<courierVars, record, result, script, launched, outbox>>

Scanned ==
  /\ runner.pc = "scanning"
  /\ runner.todo = {}
  /\ runner' = Sleeping
  /\ UNCHANGED <<courierVars, record, result, script, launched, outbox>>

InScan(t) == runner.pc = "scanning" /\ t \in runner.todo
Take(pc, t) == runner' = [runner EXCEPT !.pc = pc, !.task = t]

\* Nothing to do for the task, or nothing that may be done.
Pass(t) ==
  /\ InScan(t)
  /\ \/ receipts[Auth(t)] = None
     \/ record[t] # None /\ record[t].state \in Final \cup {"RUNNING"}
  /\ runner' = Rest(t)
  /\ UNCHANGED <<courierVars, record, result, script, launched, outbox>>

Received == [state |-> "RECEIVED", payload |-> None, terminal |-> None, rendered |-> FALSE]

Receive(t) ==
  /\ InScan(t)
  /\ receipts[Auth(t)] # None
  /\ \/ record[t] = None /\ Write(t, Received)
     \/ record[t] # None /\ record[t].state \in {"RECEIVED", "VALIDATED"} /\ UNCHANGED record
  /\ Take("validating", t)
  /\ UNCHANGED <<courierVars, result, script, launched, outbox>>

\* A result that was not returned is returned now, rendered first if need be.
Resume(t) ==
  /\ InScan(t)
  /\ receipts[Auth(t)] # None
  /\ record[t] # None /\ record[t].state \in Terminal
  /\ Take(IF record[t].rendered THEN "sending" ELSE "rendering", t)
  /\ UNCHANGED <<courierVars, record, result, script, launched, outbox>>

Envelope(t) == files[Auth(t)]

\* verify_receipt and the closed envelope.
AuthValid(t) ==
  /\ receipts[Auth(t)].corr = t
  /\ receipts[Auth(t)].content = Envelope(t)
  /\ Envelope(t) \notin Scripts /\ Envelope(t).task = t

PayloadHere(t) == files[Payload(t)] # None /\ receipts[Payload(t)] # None

\* Mutant: the payload is checked against its receipt only.
PayloadReceipted(t) ==
  /\ receipts[Payload(t)].corr = t
  /\ receipts[Payload(t)].content = files[Payload(t)]
  /\ files[Payload(t)] \in Scripts

PayloadValid(t) ==
  /\ receipts[Payload(t)].corr = t
  /\ receipts[Payload(t)].content = files[Payload(t)]
  /\ files[Payload(t)] = Envelope(t).script

Validate(t) ==
  /\ At("validating", t)
  /\ AuthValid(t) /\ PayloadHere(t) /\ PayloadValid(t)
  /\ Write(t, [record[t] EXCEPT !.state = "VALIDATED", !.payload = files[Payload(t)]])
  /\ Go("starting")
  /\ UNCHANGED <<courierVars, result, script, launched, outbox>>

AwaitPayload(t) ==
  /\ At("validating", t)
  /\ AuthValid(t) /\ ~PayloadHere(t)
  /\ runner' = Rest(t)
  /\ UNCHANGED <<courierVars, record, result, script, launched, outbox>>

Reject(t) ==
  /\ At("validating", t)
  /\ ~AuthValid(t) \/ (PayloadHere(t) /\ ~PayloadValid(t))
  /\ SetState(t, "REJECTED")
  /\ runner' = Rest(t)
  /\ UNCHANGED <<courierVars, result, script, launched, outbox>>

-----------------------------------------------------------------------------
(* run_task                                                                *)

\* RUNNING is written before anything is launched.
Begin(t) ==
  /\ At("starting", t)
  /\ SetState(t, "RUNNING")
  /\ Go("launching")
  /\ UNCHANGED <<courierVars, result, script, launched, outbox>>

Launch(t) ==
  /\ At("launching", t)
  /\ launched' = [launched EXCEPT ![t] = Append(@, files[Payload(t)])]
  /\ script' = [script EXCEPT ![t] = "running"]
  /\ Go("waiting")
  /\ UNCHANGED <<courierVars, record, result, outbox>>

\* Popen raises.
LaunchFails(t) ==
  /\ At("launching", t)
  /\ Fault
  /\ runner' = [runner EXCEPT !.pc = "ending", !.ended = "FAILED"]
  /\ UNCHANGED <<mail, files, receipts, courier, saved, record, result, script, launched, outbox>>

ScriptExits(t) ==
  /\ script[t] = "running"
  /\ \E s \in {"succeeded", "failed"} : script' = [script EXCEPT ![t] = s]
  /\ UNCHANGED <<courierVars, record, result, launched, outbox, runner>>

\* proc.wait returns, or times out and the process group is killed.
Wait(t) ==
  /\ At("waiting", t)
  /\ \/ /\ script[t] # "running"
        /\ runner' = [runner EXCEPT !.pc = "ending",
                                    !.ended = IF script[t] = "succeeded" THEN "SUCCEEDED" ELSE "FAILED"]
        /\ UNCHANGED script
     \/ /\ script[t] = "running"
        /\ script' = [script EXCEPT ![t] = "killed"]
        /\ runner' = [runner EXCEPT !.pc = "ending", !.ended = "TIMED_OUT"]
  /\ UNCHANGED <<courierVars, record, result, launched, outbox>>

End(t) ==
  /\ At("ending", t)
  /\ Ended(t, runner.ended)
  /\ runner' = [runner EXCEPT !.pc = "rendering", !.ended = None, !.then = "sending"]
  /\ UNCHANGED <<courierVars, result, script, launched, outbox>>

-----------------------------------------------------------------------------
(* render_result and return_result                                         *)

\* Mutant: what the run just returned is reported.
RenderEnded(t) ==
  /\ At("rendering", t)
  /\ result' = [result EXCEPT ![t] = IF script[t] = "succeeded" THEN "SUCCEEDED" ELSE "FAILED"]
  /\ Go("recording")
  /\ UNCHANGED <<courierVars, record, script, launched, outbox>>

Render(t) ==
  /\ At("rendering", t)
  /\ result' = [result EXCEPT ![t] = record[t].terminal]
  /\ Go("recording")
  /\ UNCHANGED <<courierVars, record, script, launched, outbox>>

RecordResult(t) ==
  /\ At("recording", t)
  /\ Write(t, [record[t] EXCEPT !.rendered = TRUE])
  /\ IF runner.then = "recovering"
     THEN runner' = [runner EXCEPT !.pc = "recovering", !.task = None, !.then = "sending"]
     ELSE Go("sending")
  /\ UNCHANGED <<courierVars, result, script, launched, outbox>>

Mailed(t) == outbox' = Append(outbox, [task |-> t, reports |-> result[t]])

SendResult(t) ==
  /\ At("sending", t)
  /\ Mailed(t)
  /\ Go("sent")
  /\ UNCHANGED <<courierVars, record, result, script, launched>>

\* The helper fails or times out, before or after the server took the mail.
SendFails(t) ==
  /\ At("sending", t)
  /\ Fault
  /\ Mailed(t) \/ UNCHANGED outbox
  /\ runner' = Rest(t)
  /\ UNCHANGED <<mail, files, receipts, courier, saved, record, result, script, launched>>

RecordReturned(t) ==
  /\ At("sent", t)
  /\ SetState(t, "RETURNED")
  /\ runner' = Rest(t)
  /\ UNCHANGED <<courierVars, result, script, launched, outbox>>

-----------------------------------------------------------------------------
(* Failures                                                                *)

\* Mutant: what goes wrong after the start is a rejection too.
HandleRejecting(t) ==
  /\ SetState(t, "REJECTED")
  /\ runner' = Rest(t)

\* The handler of process_auth: FileNotFoundError only ends the iteration,
\* a task that is RUNNING becomes FAILED, one not yet started is rejected,
\* a terminal state stands.  A handler that cannot write changes nothing.
Handle(t) ==
  \/ /\ runner' \in {Rest(t), Sleeping}
     /\ UNCHANGED record
  \/ /\ record[t].state = "RUNNING"
     /\ Ended(t, "FAILED")
     /\ runner' = [runner EXCEPT !.pc = "rendering", !.ended = None, !.then = "sending"]
  \/ /\ record[t].state \in {"RECEIVED", "VALIDATED"}
     /\ SetState(t, "REJECTED")
     /\ runner' = Rest(t)

\* A file cannot be read, written or opened.
TaskFails(t) ==
  /\ runner.task = t
  /\ runner.pc \in {"validating", "starting", "launching", "ending", "rendering", "recording",
                     "sent"}
  /\ runner.then = "sending"
  /\ FullDisk
  /\ Fault
  /\ Handle(t)
  /\ UNCHANGED <<mail, files, receipts, courier, saved, result, script, launched, outbox>>

\* launcher_pid cannot be written: the handler takes this for a failed
\* launch and goes on without the process.
LaunchUnrecorded(t) ==
  /\ At("launching", t)
  /\ FullDisk
  /\ Fault
  /\ launched' = [launched EXCEPT ![t] = Append(@, files[Payload(t)])]
  /\ script' = [script EXCEPT ![t] = "running"]
  /\ runner' = [runner EXCEPT !.pc = "ending", !.ended = "FAILED"]
  /\ UNCHANGED <<mail, files, receipts, courier, saved, record, result, outbox>>

\* The process dies, in recover_states also by an exception.
RunnerCrash ==
  /\ Fault
  /\ script' = [t \in Tasks |-> IF script[t] = "running" THEN "killed" ELSE script[t]]
  /\ runner' = Restarted
  /\ UNCHANGED <<mail, files, receipts, courier, saved, record, result, launched, outbox>>

-----------------------------------------------------------------------------
RunnerStep ==
  \/ Recovered \/ Scan \/ Scanned
  \/ \E t \in Tasks :
       \/ RecoverRunning(t) \/ RecoverOther(t)
       \/ Pass(t) \/ Receive(t) \/ Resume(t) \/ Validate(t) \/ AwaitPayload(t) \/ Reject(t)
       \/ Begin(t) \/ Launch(t) \/ Wait(t) \/ End(t)
       \/ Render(t) \/ RecordResult(t) \/ SendResult(t) \/ RecordReturned(t)

RunnerFault ==
  \/ RunnerCrash
  \/ \E t \in Tasks : LaunchFails(t) \/ SendFails(t) \/ TaskFails(t) \/ LaunchUnrecorded(t)

Next ==
  \/ CourierNext /\ UNCHANGED runnerVars
  \/ RunnerStep \/ RunnerFault
  \/ \E t \in Tasks : ScriptExits(t)

Spec ==
  /\ Init /\ [][Next]_vars
  /\ WF_vars(CourierStep /\ UNCHANGED runnerVars)
  /\ WF_vars(RunnerStep)

-----------------------------------------------------------------------------
(* Properties                                                              *)

\* A task is launched at most once, wherever the runner died or a write
\* failed (docs/MAIL_QWENII_SMS_INFRASTRUCTURE.md, "Execution is
\* at-most-once").
AtMostOnce == \A t \in Tasks : Len(launched[t]) <= 1

\* What is launched is the script an authorization of the same task names,
\* and both arrived under that task's correlation.
LaunchedAsAuthorized ==
  \A t \in Tasks : launched[t] # <<>> =>
    /\ Envelope(t) = [task |-> t, script |-> launched[t][1]]
    /\ \A f \in {Auth(t), Payload(t)} :
         \E i \in DOMAIN mail : mail[i].acceptable /\ mail[i].corr = t /\ mail[i].file = f

\* A task that was rejected never ran, and one that ran is never rejected.
RejectedNeverRan == \A t \in Tasks : record[t] # None /\ record[t].state = "REJECTED" => launched[t] = <<>>

\* The result that is mailed is the recorded outcome, every time it is
\* mailed, and success is what the script reported.
ResultsAreTrue ==
  /\ \A i \in DOMAIN outbox : outbox[i].reports = record[outbox[i].task].terminal
  /\ \A t \in Tasks : record[t] # None /\ record[t].terminal = "SUCCEEDED" => script[t] = "succeeded"

\* A script runs only while the runner waits for it, within its timeout
\* (docs/MAIL_QWENII_SMS_INFRASTRUCTURE.md: the envelope binds "a bounded
\* integer timeout").
RunsBounded == \A t \in Tasks : script[t] = "running" => At("waiting", t)

\* Every task whose authorization and payload were mailed is returned or
\* rejected in the end, through crashes, failing polls and failing mails, as
\* long as state and output files can be written.
TasksEnd ==
  ~FullDisk => \A t \in Tasks :
    (\A f \in {Auth(t), Payload(t)} : \E i \in DOMAIN mail : mail[i].acceptable /\ mail[i].file = f)
      ~> (record[t] # None /\ record[t].state \in Final)
=============================================================================
