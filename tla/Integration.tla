----------------------------- MODULE Integration -----------------------------
(***************************************************************************)
(* scripts/kven-integrate-task: staging, finalizing and rolling back runs  *)
(* that merge a feature into the production checkout.  A command is a      *)
(* process an operator starts; it works on a copy of the run's state and   *)
(* persists it phase by phase, may raise at every check, be interrupted or *)
(* die at every step, and is retried by starting another command.          *)
(*                                                                         *)
(* The checkout, the services, their data, origin and the other operators  *)
(* are the environment.  One service stands for all, and a commit for the  *)
(* code, schema and data that go with it.  Phases that differ only in      *)
(* their name, test evidence, secret scans and the disposable checkouts    *)
(* are left out, and so is the branch for runs of an earlier version.      *)
(***************************************************************************)
EXTENDS Naturals, Sequences

CONSTANTS
  Runs,           \* integration runs; r is also the commit run r merges
  Base,           \* the commit everything starts from
  Foreign,        \* a commit somebody else pushes to origin/main
  None,
  Operators,      \* commands that may be under way at the same time
  MaxFlaps,       \* bound on service restarts by systemd (NRestarts)
  Editing,        \* whether somebody edits the checkout
  Pushing         \* whether somebody else pushes to origin/main

ASSUME IntegrationAssumption ==
  /\ Base \notin Runs /\ Foreign \notin Runs /\ None \notin Runs
  /\ Foreign # Base /\ None # Base /\ None # Foreign
  /\ MaxFlaps \in Nat
  /\ Editing \in BOOLEAN /\ Pushing \in BOOLEAN

VARIABLES
  repo,           \* the production checkout
  origin,         \* main on the server over time, and how much of it
                  \* refs/remotes/origin/main has seen
  service,        \* the code the service runs, and its restart count
  data,           \* the commit whose schema the data has
  file,           \* integration-manifest.json of each run
  marker,         \* kven-integration-active.json
  op              \* the commands under way

vars == <<repo, origin, service, data, file, marker, op>>

Heads == Runs \cup {Base}
Tree == [head : Heads, dirty : BOOLEAN]
Stopped == [code |-> None, flaps |-> 0]

Statuses == {"INTERNAL_ERROR", "PRE_MERGE_TESTING", "BACKING_UP", "MIGRATING", "MERGING",
             "POST_MERGE_TESTING", "RESTARTING_SERVICES", "VERIFYING", "AWAITING_ACCEPTANCE",
             "FINALIZING", "FINALIZE_RECOVERY_REQUIRED", "FINALIZED",
             "AUTOMATED_CHECK_FAILED", "INTERRUPTED", "ROLLING_BACK", "ROLLED_BACK"}

ASSUME StatusAssumption == None \notin Statuses /\ None \notin {"active", "inactive"}

\* before: service_status_before; snapshot: expected_service_snapshot.
\* git, backups, services: the rollback_..._restored milestones.
RunState == [status   : Statuses,
             baseline : Heads,
             staged   : Runs \cup {None},
             expected : Tree,
             before   : {None, "active", "inactive"},
             backup   : Heads \cup {None},
             snapshot : [active : BOOLEAN, flaps : Nat] \cup {None},
             git      : BOOLEAN,
             backups  : BOOLEAN,
             services : BOOLEAN]

NoRun == [status |-> None]
Idle == [pc |-> "idle"]

StagePcs == {"preparing", "merging", "merged", "staging", "restarted", "accepting"}
RollbackPcs == {"checking", "stopping", "resetting", "recording", "restoring", "restored",
                "starting", "started", "verifying", "verified"}
FinalizePcs == {"guarding", "pushing", "pushed", "pushFailed", "reconciling", "finalizing"}

Command == [pc  : {"loaded", "claiming", "clearing"} \cup StagePcs \cup RollbackPcs \cup FinalizePcs,
            cmd : {"stage", "rollback", "finalize"},
            run : Runs,
            mem : RunState]

TypeOK ==
  /\ repo \in Tree
  /\ origin \in [main : Seq(Heads \cup {Foreign}), seen : Nat]
  /\ origin.seen \in DOMAIN origin.main
  /\ service \in [code : Heads \cup {None}, flaps : 0 .. MaxFlaps]
  /\ data \in Heads
  /\ file \in [Runs -> RunState \cup {NoRun}]
  /\ marker \in Runs \cup {None}
  /\ op \in [Operators -> Command \cup {Idle}]

Init ==
  /\ repo = [head |-> Base, dirty |-> FALSE]
  /\ origin = [main |-> <<Base>>, seen |-> 1]
  /\ service \in {[code |-> Base, flaps |-> 0], Stopped}
  /\ data = Base
  /\ file = [r \in Runs |-> NoRun]
  /\ marker = None
  /\ op = [o \in Operators |-> Idle]

-----------------------------------------------------------------------------
(* The world                                                               *)

\* refs/remotes/origin/main, the only thing the commands read of origin.
Tracking == origin.main[origin.seen]
ServerMain == origin.main[Len(origin.main)]

Active == service.code # None
Snapshot == [active |-> Active, flaps |-> service.flaps]

\* Code that starts migrates the data of its baseline.
Migrated(c) == IF c \in Runs /\ file[c] # NoRun /\ file[c].baseline = data THEN c ELSE data

Starts == /\ service' = [service EXCEPT !.code = repo.head]
          /\ data' = Migrated(repo.head)

Edit ==
  /\ Editing
  /\ repo' = [repo EXCEPT !.dirty = ~@]
  /\ UNCHANGED <<origin, service, data, file, marker, op>>

ForeignPush ==
  /\ Pushing
  /\ Foreign \notin {origin.main[i] : i \in DOMAIN origin.main}
  /\ origin' = [origin EXCEPT !.main = Append(@, Foreign)]
  /\ UNCHANGED <<repo, service, data, file, marker, op>>

Fetch ==
  /\ Pushing
  /\ origin' = [origin EXCEPT !.seen = Len(origin.main)]
  /\ UNCHANGED <<repo, service, data, file, marker, op>>

\* The service fails and systemd restarts it.
Flap ==
  /\ Active
  /\ service.flaps < MaxFlaps
  /\ service' = [code |-> repo.head, flaps |-> service.flaps + 1]
  /\ data' = Migrated(repo.head)
  /\ UNCHANGED <<repo, origin, file, marker, op>>

-----------------------------------------------------------------------------
(* Commands                                                                *)

Pc(o) == op[o].pc
Mem(o) == op[o].mem
Run(o) == op[o].run

\* The repository lock is held from the first step under it to the last.
LockFree == \A o \in Operators : Pc(o) \in {"idle", "loaded"}

Exit(o) == op' = [op EXCEPT ![o] = Idle]
Goto(o, pc, m) == op' = [op EXCEPT ![o] = [@ EXCEPT !.pc = pc, !.mem = m]]
Persist(o, m) == file' = [file EXCEPT ![Run(o)] = m]
Save(o, pc, m) == Persist(o, m) /\ Goto(o, pc, m)
SaveAndExit(o, m) == Persist(o, m) /\ Exit(o)
With(o, status) == [Mem(o) EXCEPT !.status = status]

worldVars == <<repo, origin, service, data>>

\* claim_active: the marker of another run refuses the command.
Claimable(o) == marker \in {None, Run(o)}

\* load_run, before the lock is taken.
LoadRun(o, r, cmd) ==
  /\ op[o] = Idle
  /\ file[r] # NoRun
  /\ op' = [op EXCEPT ![o] = [pc |-> "loaded", cmd |-> cmd, run |-> r, mem |-> file[r]]]
  /\ UNCHANGED <<worldVars, file, marker>>

\* The lock or the marker is not to be had.
Refused(o) ==
  /\ \/ Pc(o) = "loaded" /\ (~LockFree \/ ~Claimable(o))
     \/ Pc(o) = "claiming" /\ ~Claimable(o)
  /\ Exit(o)
  /\ UNCHANGED <<worldVars, file, marker>>

\* The process is killed, or raises where nothing handles it, a write of its
\* own included; the lock goes with it.
Crash(o) ==
  /\ Pc(o) \notin {"idle", "loaded"}
  /\ Exit(o)
  /\ UNCHANGED <<worldVars, file, marker>>

ClearActive(o) ==
  /\ Pc(o) = "clearing"
  /\ marker' = IF marker = Run(o) THEN None ELSE marker
  /\ Exit(o)
  /\ UNCHANGED <<worldVars, file>>

-----------------------------------------------------------------------------
(* stage                                                                   *)

NewRun == [status |-> "INTERNAL_ERROR", baseline |-> repo.head, staged |-> None,
           expected |-> repo, before |-> None, backup |-> None, snapshot |-> None,
           git |-> FALSE, backups |-> FALSE, services |-> FALSE]

\* inspect_manifest: the checkout is clean and level with origin.
Stage(o, r) ==
  /\ op[o] = Idle
  /\ LockFree
  /\ file[r] = NoRun
  /\ ~repo.dirty
  /\ repo.head = Tracking
  /\ file' = [file EXCEPT ![r] = NewRun]
  /\ op' = [op EXCEPT ![o] = [pc |-> "claiming", cmd |-> "stage", run |-> r, mem |-> NewRun]]
  /\ UNCHANGED <<worldVars, marker>>

StageClaim(o) ==
  /\ Pc(o) = "claiming"
  /\ Claimable(o)
  /\ marker' = Run(o)
  /\ Goto(o, "preparing", Mem(o))
  /\ UNCHANGED <<worldVars, file>>

\* inspect_manifest again, against the state recorded at the start.
StillBaseline(o) == repo = Mem(o).expected /\ Tracking = Mem(o).baseline

\* Up to the merge nothing but the state file, the backups and disposable
\* checkouts is written.
StagePrepare(o) ==
  /\ Pc(o) = "preparing"
  /\ \/ /\ Mem(o).status = "INTERNAL_ERROR"
        /\ Save(o, "preparing", [With(o, "PRE_MERGE_TESTING") EXCEPT
                                   !.before = IF Active THEN "active" ELSE "inactive"])
     \/ /\ Mem(o).status = "PRE_MERGE_TESTING"
        /\ StillBaseline(o)
        /\ Save(o, "preparing", With(o, "BACKING_UP"))
     \/ /\ Mem(o).status = "BACKING_UP"
        /\ Save(o, "preparing", [With(o, "MIGRATING") EXCEPT !.backup = data])
     \/ /\ Mem(o).status = "MIGRATING"
        /\ StillBaseline(o)
        /\ Save(o, "merging", With(o, "MERGING"))
  /\ UNCHANGED <<worldVars, marker>>

\* git merge --no-ff of the feature.
StageMerge(o) ==
  /\ Pc(o) = "merging"
  /\ repo' = [repo EXCEPT !.head = Run(o)]
  /\ Goto(o, "merged", [Mem(o) EXCEPT !.staged = Run(o)])
  /\ UNCHANGED <<origin, service, data, file, marker>>

\* The one fingerprint every later guard compares with.
StageRecord(o) ==
  /\ Pc(o) = "merged"
  /\ ~repo.dirty
  /\ Save(o, "staging", [With(o, "POST_MERGE_TESTING") EXCEPT !.expected = repo])
  /\ UNCHANGED <<worldVars, marker>>

StageRestart(o) ==
  /\ Pc(o) = "staging"
  /\ Mem(o).status = "RESTARTING_SERVICES"
  /\ IF Mem(o).before = "active" THEN Starts ELSE ~Active /\ UNCHANGED <<service, data>>
  /\ Goto(o, "restarted", Mem(o))
  /\ UNCHANGED <<repo, origin, file, marker>>

\* Neither check is kept from what others do before it is recorded.  An edit
\* that comes before the first two records is as good as one after them.
StageVerify(o) ==
  /\ Pc(o) \in {"staging", "restarted"}
  /\ repo = Mem(o).expected
  /\ \/ /\ Pc(o) = "staging"
        /\ Mem(o).status = "POST_MERGE_TESTING"
        /\ Save(o, "staging", With(o, "RESTARTING_SERVICES"))
     \/ /\ Pc(o) = "restarted"
        /\ Save(o, "staging", [With(o, "VERIFYING") EXCEPT !.snapshot = Snapshot])
     \/ /\ Pc(o) = "staging"
        /\ Mem(o).status = "VERIFYING"
        /\ Snapshot = Mem(o).snapshot
        /\ Active <=> Mem(o).before = "active"
        /\ Goto(o, "accepting", Mem(o))
        /\ UNCHANGED file
  /\ UNCHANGED <<worldVars, marker>>

\* After the last guard the evidence is written, and then the state.
StageComplete(o) ==
  /\ Pc(o) = "accepting"
  /\ SaveAndExit(o, With(o, "AWAITING_ACCEPTANCE"))
  /\ UNCHANGED <<worldVars, marker>>

\* A test, a guard, the merge or a restart raises.  Before the merge there
\* is nothing to undo; after it the command rolls the run back.  A failed
\* merge is aborted and what it leaves is recorded.
StageFails(o) ==
  /\ \/ /\ Pc(o) = "preparing"
        /\ Save(o, "clearing", With(o, "AUTOMATED_CHECK_FAILED"))
     \/ /\ Pc(o) = "merging"
        /\ Save(o, "checking", [With(o, "AUTOMATED_CHECK_FAILED") EXCEPT !.expected = repo])
     \/ /\ Pc(o) \in {"merged", "staging", "restarted", "accepting"}
        /\ Save(o, "checking", With(o, "AUTOMATED_CHECK_FAILED"))
  /\ UNCHANGED <<worldVars, marker>>

\* KeyboardInterrupt
StageInterrupted(o) ==
  /\ Pc(o) \in StagePcs
  /\ SaveAndExit(o, With(o, "INTERRUPTED"))
  /\ UNCHANGED <<worldVars, marker>>

-----------------------------------------------------------------------------
(* rollback, and finalize --accept FAIL                                    *)

Rollback(o) ==
  /\ Pc(o) = "loaded"
  /\ op[o].cmd = "rollback"
  /\ LockFree
  /\ Claimable(o)
  /\ marker' = Run(o)
  /\ Goto(o, "checking", Mem(o))
  /\ UNCHANGED <<worldVars, file>>

\* Mutant: a resumed rollback takes the backups for restored.
FirstMissingSkipsBackups(m) == IF ~m.git THEN "stopping"
                               ELSE IF ~m.services THEN "starting"
                               ELSE "verifying"

FirstMissing(m) == IF ~m.git THEN "stopping"
                   ELSE IF ~m.backups THEN "restoring"
                   ELSE IF ~m.services THEN "starting"
                   ELSE "verifying"

\* rollback_state: what it refuses, and where it resumes.
RollbackCheck(o) ==
  /\ Pc(o) = "checking"
  /\ \/ /\ Mem(o).status \in {"FINALIZE_RECOVERY_REQUIRED", "FINALIZED", "ROLLED_BACK"}
        /\ Exit(o)
        /\ UNCHANGED file
     \/ /\ Mem(o).status \notin {"FINALIZE_RECOVERY_REQUIRED", "FINALIZED", "ROLLED_BACK"}
        /\ IF repo = Mem(o).expected
           THEN Save(o, FirstMissing(Mem(o)), With(o, "ROLLING_BACK"))
           ELSE SaveAndExit(o, With(o, "INTERNAL_ERROR"))
  /\ UNCHANGED <<worldVars, marker>>

RollbackStop(o) ==
  /\ Pc(o) = "stopping"
  /\ service' = [service EXCEPT !.code = None]
  /\ Goto(o, "resetting", Mem(o))
  /\ UNCHANGED <<repo, origin, data, file, marker>>

\* git reset --hard, unless the checkout was at the baseline when checked.
RollbackReset(o) ==
  /\ Pc(o) = "resetting"
  /\ repo' = IF Mem(o).expected.head # Mem(o).baseline
             THEN [head |-> Mem(o).baseline, dirty |-> FALSE]
             ELSE repo
  /\ Goto(o, "recording", Mem(o))
  /\ UNCHANGED <<origin, service, data, file, marker>>

\* Mutant: the milestone is persisted without the state that goes with it.
RollbackRecordMilestone(o) ==
  /\ Pc(o) = "recording"
  /\ Save(o, "restoring", [Mem(o) EXCEPT !.git = TRUE])
  /\ UNCHANGED <<worldVars, marker>>

RollbackRecord(o) ==
  /\ Pc(o) = "recording"
  /\ Save(o, "restoring", [Mem(o) EXCEPT !.expected = repo, !.git = TRUE])
  /\ UNCHANGED <<worldVars, marker>>

\* restore_backups stops the services that use the data first.
RollbackRestore(o) ==
  /\ Pc(o) = "restoring"
  /\ IF Mem(o).backup = None
     THEN UNCHANGED <<service, data>>
     ELSE /\ service' = [service EXCEPT !.code = None]
          /\ data' = Mem(o).backup
  /\ Goto(o, "restored", Mem(o))
  /\ UNCHANGED <<repo, origin, file, marker>>

RollbackRestored(o) ==
  /\ Pc(o) = "restored"
  /\ Save(o, "starting", [Mem(o) EXCEPT !.backups = TRUE])
  /\ UNCHANGED <<worldVars, marker>>

\* restore_service_states; a state that was never recorded is a KeyError.
RollbackStart(o) ==
  /\ Pc(o) = "starting"
  /\ \/ /\ Mem(o).before = "active"
        /\ IF Active THEN UNCHANGED <<service, data>> ELSE Starts
     \/ /\ Mem(o).before = "inactive"
        /\ service' = [service EXCEPT !.code = None]
        /\ UNCHANGED data
  /\ Goto(o, "started", Mem(o))
  /\ UNCHANGED <<repo, origin, file, marker>>

RollbackStarted(o) ==
  /\ Pc(o) = "started"
  /\ Save(o, "verifying", [Mem(o) EXCEPT !.services = TRUE])
  /\ UNCHANGED <<worldVars, marker>>

\* The last look at the checkout and at origin.
RollbackVerify(o) ==
  /\ Pc(o) = "verifying"
  /\ repo = [head |-> Mem(o).baseline, dirty |-> FALSE]
  /\ Tracking = Mem(o).baseline
  /\ Goto(o, "verified", Mem(o))
  /\ UNCHANGED <<worldVars, file, marker>>

\* What was seen then is recorded, after rollback-result.json.
RollbackComplete(o) ==
  /\ Pc(o) = "verified"
  /\ Save(o, "clearing", [With(o, "ROLLED_BACK") EXCEPT
                            !.expected = [head |-> Mem(o).baseline, dirty |-> FALSE]])
  /\ UNCHANGED <<worldVars, marker>>

\* A service, the reset, a restore, a check or a write raises.  A stage that
\* rolls itself back records that, with a milestone whose write raised; the
\* other commands just end (Crash).
RollbackFails(o) ==
  /\ Pc(o) \in RollbackPcs
  /\ op[o].cmd = "stage"
  /\ LET failed == With(o, "INTERNAL_ERROR") IN
     \/ SaveAndExit(o, failed)
     \/ /\ Pc(o) = "recording"
        /\ SaveAndExit(o, [failed EXCEPT !.expected = repo, !.git = TRUE])
     \/ /\ Pc(o) = "restored"
        /\ SaveAndExit(o, [failed EXCEPT !.backups = TRUE])
     \/ /\ Pc(o) = "started"
        /\ SaveAndExit(o, [failed EXCEPT !.services = TRUE])
     \/ /\ Pc(o) = "verified"
        /\ SaveAndExit(o, [failed EXCEPT !.expected = [head |-> Mem(o).baseline, dirty |-> FALSE]])
  /\ UNCHANGED <<worldVars, marker>>

-----------------------------------------------------------------------------
(* finalize --accept PASS                                                  *)

Finalize(o) ==
  /\ Pc(o) = "loaded"
  /\ op[o].cmd = "finalize"
  /\ LockFree
  /\ Claimable(o)
  /\ \/ /\ Mem(o).status = "AWAITING_ACCEPTANCE"
        /\ Goto(o, "guarding", Mem(o))
        /\ UNCHANGED file
     \/ /\ Mem(o).status = "FINALIZING"
        /\ Tracking = Mem(o).baseline
        /\ Goto(o, "guarding", Mem(o))
        /\ UNCHANGED file
     \/ /\ Mem(o).status = "FINALIZING"
        /\ Tracking = Mem(o).staged
        /\ Save(o, "reconciling", Mem(o))
     \/ /\ Mem(o).status = "FINALIZING"
        /\ Tracking \notin {Mem(o).baseline, Mem(o).staged}
        /\ Save(o, "clearing", With(o, "INTERNAL_ERROR"))
  /\ marker' = Run(o)
  /\ UNCHANGED <<worldVars>>

\* Any other status: nothing is written, the marker included.
FinalizeRefused(o) ==
  /\ Pc(o) = "loaded"
  /\ op[o].cmd = "finalize"
  /\ LockFree
  /\ Mem(o).status \notin {"AWAITING_ACCEPTANCE", "FINALIZING"}
  /\ Exit(o)
  /\ UNCHANGED <<worldVars, file, marker>>

\* require_repository_state and require_service_snapshot
AsStaged(o) ==
  /\ ~repo.dirty
  /\ repo = Mem(o).expected
  /\ repo.head = Mem(o).staged
  /\ Snapshot = Mem(o).snapshot

\* Mutant: the acceptance is recorded with the outcome of the push.
FinalizeGuardUnrecorded(o) ==
  /\ Pc(o) = "guarding"
  /\ AsStaged(o)
  /\ Tracking = Mem(o).baseline
  /\ Goto(o, "pushing", With(o, "FINALIZING"))
  /\ UNCHANGED <<worldVars, file, marker>>

\* verify_staged_state, then the acceptance is recorded.
FinalizeGuard(o) ==
  /\ Pc(o) = "guarding"
  /\ AsStaged(o)
  /\ Tracking = Mem(o).baseline
  /\ Save(o, "pushing", With(o, "FINALIZING"))
  /\ UNCHANGED <<worldVars, marker>>

\* git push: accepted, with the answer arriving or not, or rejected.
FinalizePush(o) ==
  /\ Pc(o) = "pushing"
  /\ \/ /\ ServerMain \in {Mem(o).baseline, Mem(o).staged}
        /\ LET main == IF ServerMain = Mem(o).staged THEN origin.main
                       ELSE Append(origin.main, Mem(o).staged)
           IN  \/ /\ origin' = [main |-> main, seen |-> Len(main)]
                  /\ Goto(o, "pushed", Mem(o))
               \/ /\ origin' = [origin EXCEPT !.main = main]
                  /\ Goto(o, "pushFailed", Mem(o))
     \/ /\ UNCHANGED origin
        /\ Goto(o, "pushFailed", Mem(o))
  /\ UNCHANGED <<repo, service, data, file, marker>>

\* Mutant: the exit code of the push tells what it did.
FinalizeExitCode(o) ==
  /\ Pc(o) \in {"pushed", "pushFailed"}
  /\ IF Pc(o) = "pushed"
     THEN Save(o, "reconciling", Mem(o))
     ELSE Save(o, "clearing", With(o, "FINALIZE_RECOVERY_REQUIRED"))
  /\ UNCHANGED <<worldVars, marker>>

\* Mutant: a push that may be retried gives the marker up.
FinalizeRetryable(o) ==
  /\ Pc(o) \in {"pushed", "pushFailed"}
  /\ IF Tracking = Mem(o).staged
     THEN Save(o, "reconciling", Mem(o))
     ELSE Save(o, "clearing", Mem(o))
  /\ UNCHANGED <<worldVars, marker>>

\* What the push did is what refs/remotes/origin/main says now.
FinalizeOutcome(o) ==
  /\ Pc(o) \in {"pushed", "pushFailed"}
  /\ \/ /\ Tracking = Mem(o).staged
        /\ Save(o, "reconciling", Mem(o))
     \/ /\ Tracking = Mem(o).baseline
        /\ Pc(o) = "pushFailed"
        /\ SaveAndExit(o, Mem(o))
     \/ /\ Tracking # Mem(o).staged
        /\ ~(Tracking = Mem(o).baseline /\ Pc(o) = "pushFailed")
        /\ Save(o, "clearing", With(o, "INTERNAL_ERROR"))
  /\ UNCHANGED <<worldVars, marker>>

\* reconcile_final_state
FinalizeReconcile(o) ==
  /\ Pc(o) = "reconciling"
  /\ AsStaged(o)
  /\ Tracking = Mem(o).staged
  /\ Goto(o, "finalizing", Mem(o))
  /\ UNCHANGED <<worldVars, file, marker>>

\* recovery_required_after_push
FinalizeReconcileFails(o) ==
  /\ Pc(o) = "reconciling"
  /\ Save(o, "clearing", With(o, "FINALIZE_RECOVERY_REQUIRED"))
  /\ UNCHANGED <<worldVars, marker>>

FinalizeComplete(o) ==
  /\ Pc(o) = "finalizing"
  /\ Save(o, "clearing", With(o, "FINALIZED"))
  /\ UNCHANGED <<worldVars, marker>>

-----------------------------------------------------------------------------
StageStep(o) ==
  \/ \E r \in Runs : Stage(o, r)
  \/ StageClaim(o) \/ StagePrepare(o) \/ StageMerge(o) \/ StageRecord(o)
  \/ StageRestart(o) \/ StageVerify(o) \/ StageComplete(o) \/ StageFails(o) \/ StageInterrupted(o)

RollbackStep(o) ==
  \/ Rollback(o) \/ RollbackCheck(o) \/ RollbackStop(o) \/ RollbackReset(o) \/ RollbackRecord(o)
  \/ RollbackRestore(o) \/ RollbackRestored(o) \/ RollbackStart(o) \/ RollbackStarted(o)
  \/ RollbackVerify(o) \/ RollbackComplete(o) \/ RollbackFails(o)

FinalizeStep(o) ==
  \/ Finalize(o) \/ FinalizeRefused(o) \/ FinalizeGuard(o) \/ FinalizePush(o)
  \/ FinalizeOutcome(o) \/ FinalizeReconcile(o) \/ FinalizeReconcileFails(o) \/ FinalizeComplete(o)

CommandStep(o) ==
  \/ \E r \in Runs, cmd \in {"rollback", "finalize"} : LoadRun(o, r, cmd)
  \/ Refused(o) \/ ClearActive(o) \/ Crash(o)
  \/ StageStep(o) \/ RollbackStep(o) \/ FinalizeStep(o)

Next ==
  \/ Edit \/ ForeignPush \/ Fetch \/ Flap
  \/ \E o \in Operators : CommandStep(o)

Spec == Init /\ [][Next]_vars

-----------------------------------------------------------------------------
(* Properties                                                              *)

\* A run that has begun and is neither undone nor given up holds the marker,
\* so no other run can be staged beside it, whatever was killed on the way
\* ("prevents another stage", docs/KVEN_INTEGRATION_WORKFLOW.md).
InFlight == {"PRE_MERGE_TESTING", "BACKING_UP", "MIGRATING", "MERGING", "POST_MERGE_TESTING",
             "RESTARTING_SERVICES", "VERIFYING", "AWAITING_ACCEPTANCE", "FINALIZING",
             "INTERRUPTED", "ROLLING_BACK"}

InFlightHoldsMarker == \A r \in Runs : file[r].status \in InFlight => marker = r

\* A run is merged onto a commit that origin/main had, and is finalized, or
\* handed to manual recovery, only when origin/main was seen at its commit:
\* unfinished work is never built upon, and no push is taken for done.
PublicationIsSeen ==
  \A r \in Runs : file[r] # NoRun =>
    /\ \E i \in 1 .. origin.seen : origin.main[i] = file[r].baseline
    /\ file[r].status \in {"FINALIZED", "FINALIZE_RECOVERY_REQUIRED"} =>
         \E i \in 1 .. origin.seen : origin.main[i] = r

Becomes(r, status) == file[r].status # status /\ file'[r].status = status

\* When a run is recorded as rolled back, the checkout stands at the baseline,
\* the data is what the backup held and an active service runs the baseline on
\* it, however many commands failed or were killed on the way; when it awaits
\* acceptance, the checkout stands at the merge, an active service runs it on
\* migrated data, and undoing it would restore the data of its baseline.
\* Nothing is said of edits and fetches: they are free to come between the
\* last check and the record.
RecordedIsDeployed ==
  [][\A r \in Runs : LET m == file[r] IN
       /\ Becomes(r, "ROLLED_BACK") =>
            /\ repo.head = m.baseline
            /\ m.backup # None => data = m.backup
            /\ m.before = "active" <=> service.code = m.baseline
       /\ Becomes(r, "AWAITING_ACCEPTANCE") =>
            /\ repo.head = r
            /\ m.before = "active" => service.code = r /\ data = r
            /\ m.backup # r]_vars

\* Only what awaited acceptance is pushed: no detour through failed,
\* interrupted or rolled back runs leads to a push, a push goes onto the
\* baseline the run was tested on, and it is on record before it is made, so
\* whoever comes after a killed command knows to look.
AcceptedIsPushed ==
  [][\A r \in Runs :
       /\ Becomes(r, "FINALIZING") => file[r].status = "AWAITING_ACCEPTANCE"
       /\ (ServerMain' = r /\ ServerMain # r) =>
            ServerMain = file[r].baseline /\ file[r].status = "FINALIZING"]_vars

\* A rollback that did not end can be resumed: the checkout is what the run
\* recorded (docs/KVEN_INTEGRATION_WORKFLOW.md: "milestones make an
\* interrupted rollback resumable").
RollbackResumable ==
  \A r \in Runs :
    (LockFree /\ file[r].status = "ROLLING_BACK" /\ ~repo.dirty /\ ~file[r].expected.dirty)
      => repo = file[r].expected

\* What the code does: however often it was killed or failed, a rollback that
\* did not end can be resumed, but for the one that stopped after the reset
\* and before its milestone, which left the baseline behind.  Once the
\* milestone is written nothing keeps a retry out.
MilestoneResumable ==
  \A r \in Runs :
    (LockFree /\ file[r].status = "ROLLING_BACK" /\ ~repo.dirty /\ ~file[r].expected.dirty)
      => \/ repo = file[r].expected
         \/ ~file[r].git /\ repo.head = file[r].baseline

\* A rollback stops an active service only when it knows that it has to
\* start it again ("returns every service to its original active/inactive
\* state", docs/KVEN_INTEGRATION_WORKFLOW.md).
StopsWhatItRestarts ==
  [][Active /\ ~Active' =>
       \E r \in Runs : file[r].status = "ROLLING_BACK" /\ file[r].before = "active"]_vars

\* The marker of a finished run does not keep later runs out.
MarkerMeansUnfinished ==
  LockFree /\ marker # None =>
    file[marker].status \notin {"FINALIZED", "FINALIZE_RECOVERY_REQUIRED", "ROLLED_BACK"}

\* A published run is not rolled back.
PublishedStays ==
  [][\A r \in Runs : (repo.head = r /\ Tracking = r) => repo'.head = r]_vars

\* No command discards somebody's edits.
EditsSurvive == [][repo.dirty /\ op' # op => repo'.dirty]_vars
=============================================================================
