-------------------------- MODULE Integration_proofs --------------------------
(***************************************************************************)
(* The commands of kven-integrate-task, for any number of operators, runs, *)
(* killed commands and restarts, with or without edits and foreign pushes. *)
(***************************************************************************)
EXTENDS Integration, TLAPS

-----------------------------------------------------------------------------
(* The inductive invariant                                                 *)

\* A commit that refs/remotes/origin/main had at some time.
Seen(c) == \E i \in 1 .. origin.seen : origin.main[i] = c

Handed == {"FINALIZED", "FINALIZE_RECOVERY_REQUIRED"}

\* A state of run r, in its file or in the memory of a command, however old.
Credible(m, r) ==
  /\ m \in RunState
  /\ Seen(m.baseline)
  /\ m.staged \in {None, r}
  /\ m.status \in Handed => Seen(r)

FilesCredible == \A r \in Runs : file[r] # NoRun => Credible(file[r], r)
MemoriesCredible == \A o \in Operators : op[o] # Idle => Credible(Mem(o), Run(o))

\* The lock is held by at most one command, and the marker is its run's once
\* it has been claimed.
HoldsLock(o) == Pc(o) \notin {"idle", "loaded"}
Exclusive == \A o, p \in Operators : HoldsLock(o) /\ HoldsLock(p) => o = p
HoldsMarker == \A o \in Operators : HoldsLock(o) /\ Pc(o) # "claiming" => marker = Run(o)

StageStatuses == {"INTERNAL_ERROR", "PRE_MERGE_TESTING", "BACKING_UP", "MIGRATING", "MERGING",
                  "POST_MERGE_TESTING", "RESTARTING_SERVICES", "VERIFYING"}

Resetting == {"stopping", "resetting", "recording"}

\* What a command at pc that has m in memory knows of the file f of run r.
At(pc, m, f, r) ==
  /\ pc = "claiming" => f.status = "INTERNAL_ERROR" /\ m = f
  /\ pc \in StagePcs => m.status \in StageStatuses /\ f.status = m.status
  /\ pc \in RollbackPcs \ {"checking"} => m = f /\ m.status = "ROLLING_BACK"
  /\ pc \in Resetting => ~m.git
  /\ pc \in {"pushing", "pushed", "pushFailed", "reconciling", "finalizing"} =>
       m.status = "FINALIZING" /\ m.staged = r
  /\ pc \in {"reconciling", "finalizing"} => Seen(r)
  /\ pc = "clearing" => f.status \notin InFlight

CommandsAtPlace ==
  \A o \in Operators : HoldsLock(o) => At(Pc(o), Mem(o), file[Run(o)], Run(o))

\* The recorded head is the one of the checkout, but for a reset whose
\* milestone is not recorded.
HeadKnown(head, f) == head = f.expected.head \/ (~f.git /\ head = f.baseline)
HeadRecorded == \A r \in Runs : file[r].status = "ROLLING_BACK" => HeadKnown(repo.head, file[r])

Inv ==
  /\ TypeOK
  /\ FilesCredible /\ MemoriesCredible
  /\ Exclusive /\ HoldsMarker /\ CommandsAtPlace
  /\ InFlightHoldsMarker
  /\ HeadRecorded

-----------------------------------------------------------------------------
(* What a command's step does to the commands and the files                *)

Pcs == {"loaded", "claiming", "clearing"} \cup StagePcs \cup RollbackPcs \cup FinalizePcs

LEMMA CommandTyped ==
  ASSUME TypeOK, NEW o \in Operators, Pc(o) # "idle"
  PROVE  /\ op[o] \in Command /\ op[o] # Idle
         /\ Mem(o) \in RunState /\ Run(o) \in Runs /\ Pc(o) \in Pcs
<1>1. op[o] \in Command \cup {Idle} BY DEF TypeOK
<1>2. op[o] # Idle BY DEF Pc, Idle
<1> QED BY <1>1, <1>2 DEF Command, Mem, Run, Pc, Pcs

LEMMA CommandUpdate ==
  ASSUME NEW c \in Command, NEW pc, NEW m
  PROVE  [c EXCEPT !.pc = pc, !.mem = m] = [pc |-> pc, cmd |-> c.cmd, run |-> c.run, mem |-> m]
<1> DEFINE d == [c EXCEPT !.pc = pc]
<1>1. d = [pc |-> pc, cmd |-> c.cmd, run |-> c.run, mem |-> c.mem] BY DEF Command
<1> HIDE DEF d
<1>2. [d EXCEPT !.mem = m] = [pc |-> pc, cmd |-> c.cmd, run |-> c.run, mem |-> m] BY <1>1
<1> QED BY <1>2 DEF d

LEMMA GotoDoes ==
  ASSUME TypeOK, NEW o \in Operators, Pc(o) # "idle",
         NEW pc \in Pcs, NEW m \in RunState, Goto(o, pc, m)
  PROVE  /\ op' \in [Operators -> Command \cup {Idle}]
         /\ op'[o] = [pc |-> pc, cmd |-> op[o].cmd, run |-> Run(o), mem |-> m]
         /\ \A p \in Operators \ {o} : op'[p] = op[p]
<1>1. op[o] \in Command BY CommandTyped
<1>2. op \in [Operators -> Command \cup {Idle}] BY DEF TypeOK
<1>3. [op[o] EXCEPT !.pc = pc, !.mem = m] = [pc |-> pc, cmd |-> op[o].cmd, run |-> Run(o), mem |-> m]
  BY <1>1, CommandUpdate DEF Run
<1>4. [pc |-> pc, cmd |-> op[o].cmd, run |-> Run(o), mem |-> m] \in Command
  BY <1>1 DEF Command, Run, Pcs
<1>5. op' = [op EXCEPT ![o] = [pc |-> pc, cmd |-> op[o].cmd, run |-> Run(o), mem |-> m]]
  BY <1>3 DEF Goto
<1> QED BY <1>2, <1>4, <1>5

LEMMA ExitDoes ==
  ASSUME TypeOK, NEW o \in Operators, Exit(o)
  PROVE  /\ op' \in [Operators -> Command \cup {Idle}]
         /\ op'[o] = Idle
         /\ \A p \in Operators \ {o} : op'[p] = op[p]
BY DEF TypeOK, Exit

LEMMA PersistDoes ==
  ASSUME TypeOK, NEW o \in Operators, Run(o) \in Runs, NEW m \in RunState, Persist(o, m)
  PROVE  /\ file' \in [Runs -> RunState \cup {NoRun}]
         /\ file'[Run(o)] = m
         /\ \A r \in Runs \ {Run(o)} : file'[r] = file[r]
BY DEF TypeOK, Persist

-----------------------------------------------------------------------------
(* Steps under the lock                                                    *)

\* What Seen says is not forgotten.
SeenKept == \A c : Seen(c) => Seen(c)'

LEMMA SeenStays ==
  ASSUME UNCHANGED origin
  PROVE  SeenKept
BY DEF SeenKept, Seen

\* The fields of a state that a step leaves alone.
LEMMA StatusUpdate ==
  ASSUME NEW m \in RunState, NEW st \in Statuses
  PROVE  LET n == [m EXCEPT !.status = st] IN
         /\ n \in RunState /\ n.status = st /\ n.baseline = m.baseline /\ n.staged = m.staged
         /\ n.expected = m.expected /\ n.before = m.before /\ n.backup = m.backup
         /\ n.snapshot = m.snapshot /\ n.git = m.git /\ n.backups = m.backups
         /\ n.services = m.services
BY DEF RunState

LEMMA WithTyped ==
  ASSUME NEW o \in Operators, Mem(o) \in RunState, NEW st \in Statuses
  PROVE  /\ With(o, st) \in RunState /\ With(o, st).status = st
         /\ With(o, st).baseline = Mem(o).baseline /\ With(o, st).staged = Mem(o).staged
         /\ With(o, st).expected = Mem(o).expected
BY StatusUpdate DEF With

\* A state of the same run with something more recorded.
Refines(n, m) ==
  /\ n \in RunState
  /\ n.status = m.status /\ n.baseline = m.baseline /\ n.staged = m.staged

LEMMA FieldUpdates ==
  ASSUME NEW m \in RunState
  PROVE  /\ \A v \in {"active", "inactive"} : Refines([m EXCEPT !.before = v], m)
         /\ \A v \in Heads : Refines([m EXCEPT !.backup = v], m)
         /\ \A v \in [active : BOOLEAN, flaps : Nat] : Refines([m EXCEPT !.snapshot = v], m)
         /\ \A v \in Tree : /\ Refines([m EXCEPT !.expected = v], m)
                            /\ [m EXCEPT !.expected = v].expected = v
                            /\ Refines([m EXCEPT !.expected = v, !.git = TRUE], m)
                            /\ [m EXCEPT !.expected = v, !.git = TRUE].expected = v
         /\ Refines([m EXCEPT !.backups = TRUE], m)
         /\ [m EXCEPT !.backups = TRUE].expected = m.expected
         /\ [m EXCEPT !.backups = TRUE].git = m.git
         /\ Refines([m EXCEPT !.services = TRUE], m)
         /\ [m EXCEPT !.services = TRUE].expected = m.expected
         /\ [m EXCEPT !.services = TRUE].git = m.git
<1>1. ASSUME NEW v \in {"active", "inactive"} PROVE Refines([m EXCEPT !.before = v], m)
  BY DEF RunState, Refines
<1>2. ASSUME NEW v \in Heads PROVE Refines([m EXCEPT !.backup = v], m)
  BY DEF RunState, Refines
<1>3. ASSUME NEW v \in [active : BOOLEAN, flaps : Nat] PROVE Refines([m EXCEPT !.snapshot = v], m)
  BY DEF RunState, Refines
<1>4. ASSUME NEW v \in Tree
      PROVE  /\ Refines([m EXCEPT !.expected = v], m)
             /\ [m EXCEPT !.expected = v].expected = v
  BY DEF RunState, Refines
<1>5. ASSUME NEW n \in RunState
      PROVE  Refines([n EXCEPT !.git = TRUE], n) /\ [n EXCEPT !.git = TRUE].expected = n.expected
  BY DEF RunState, Refines
<1>6. ASSUME NEW v \in Tree
      PROVE  /\ Refines([m EXCEPT !.expected = v, !.git = TRUE], m)
             /\ [m EXCEPT !.expected = v, !.git = TRUE].expected = v
  <2> DEFINE n == [m EXCEPT !.expected = v]
  <2>1. Refines(n, m) /\ n.expected = v BY <1>4
  <2> HIDE DEF n
  <2>2. Refines([n EXCEPT !.git = TRUE], n) /\ [n EXCEPT !.git = TRUE].expected = v
    BY <1>5, <2>1 DEF Refines
  <2>3. Refines([n EXCEPT !.git = TRUE], m) BY <2>1, <2>2 DEF Refines
  <2> QED BY <2>2, <2>3 DEF n
<1>7. /\ Refines([m EXCEPT !.backups = TRUE], m)
      /\ [m EXCEPT !.backups = TRUE].expected = m.expected
      /\ Refines([m EXCEPT !.services = TRUE], m)
      /\ [m EXCEPT !.services = TRUE].expected = m.expected
      /\ [m EXCEPT !.backups = TRUE].git = m.git /\ [m EXCEPT !.services = TRUE].git = m.git
  BY DEF RunState, Refines
<1> QED BY <1>1, <1>2, <1>3, <1>4, <1>6, <1>7

LEMMA RefinesCredible ==
  ASSUME NEW n, NEW m, NEW r, Credible(m, r), Refines(n, m)
  PROVE  Credible(n, r)
BY DEF Credible, Refines

\* A step of the command that has, or takes, the lock and the marker.  Only
\* its own run may be in flight, and nobody else knows more than an old copy.
LEMMA LockedStep ==
  ASSUME Inv, NEW o \in Operators, Claimable(o),
         \A p \in Operators \ {o} : ~HoldsLock(p),
         NEW r \in Runs, r = Run(o),
         TypeOK',
         \A p \in Operators \ {o} : op'[p] = op[p],
         \/ op'[o] = Idle
         \/ /\ op'[o] # Idle /\ op'[o].run = Run(o)
            /\ op'[o].pc \notin {"idle", "loaded", "claiming"}
            /\ Credible(Mem(o), r)'
            /\ At(Pc(o), Mem(o), file[r], r)',
         \A q \in Runs \ {r} : file'[q] = file[q],
         (file[r] # NoRun => Credible(file[r], r))',
         marker' = r, SeenKept,
         file'[r].status = "ROLLING_BACK" => HeadKnown(repo'.head, file'[r])
  PROVE  Inv'
<1>1. marker \in {None, r} /\ None \notin Runs
  BY IntegrationAssumption DEF Claimable
<1>3. \A p \in Operators \ {o} : ~HoldsLock(p)'
  BY DEF HoldsLock, Pc
<1>4. \A m, q : Credible(m, q) => Credible(m, q)'
  BY DEF Credible, SeenKept
<1>5. FilesCredible'
  BY <1>4 DEF Inv, FilesCredible
<1>6. MemoriesCredible'
  <2> SUFFICES ASSUME NEW p \in Operators, op'[p] # Idle
               PROVE  Credible(Mem(p), Run(p))'
    BY DEF MemoriesCredible
  <2>1. CASE p = o BY <2>1 DEF Mem, Run
  <2>2. CASE p # o BY <2>2, <1>4 DEF Inv, MemoriesCredible, Mem, Run
  <2> QED BY <2>1, <2>2
<1>7. Exclusive' BY <1>3 DEF Exclusive
<1>8. HoldsMarker'
  <2> SUFFICES ASSUME NEW p \in Operators, HoldsLock(p)' PROVE marker' = op'[p].run
    BY DEF HoldsMarker, Run
  <2>1. p = o BY <1>3
  <2>2. op'[o] # Idle BY <2>1 DEF HoldsLock, Pc, Idle
  <2> QED BY <1>1, <2>1, <2>2
<1>9. CommandsAtPlace'
  <2> SUFFICES ASSUME NEW p \in Operators, HoldsLock(p)'
               PROVE  At(Pc(p), Mem(p), file[Run(p)], Run(p))'
    BY DEF CommandsAtPlace
  <2>1. p = o BY <1>3
  <2>2. op'[o] # Idle BY <2>1 DEF HoldsLock, Pc, Idle
  <2> QED BY <1>1, <2>1, <2>2 DEF Run
<1>10. InFlightHoldsMarker'
  BY <1>1 DEF Inv, InFlightHoldsMarker
<1>11. HeadRecorded'
  <2> SUFFICES ASSUME NEW q \in Runs, file'[q].status = "ROLLING_BACK"
               PROVE  HeadKnown(repo'.head, file'[q])
    BY DEF HeadRecorded
  <2>1. q = r BY <1>1, <1>10 DEF InFlightHoldsMarker, InFlight
  <2> QED BY <2>1
<1> QED BY <1>5, <1>6, <1>7, <1>8, <1>9, <1>10, <1>11 DEF Inv

\* Only the command itself holds the lock.
LEMMA Alone ==
  ASSUME Inv, NEW o \in Operators, HoldsLock(o)
  PROVE  /\ \A p \in Operators \ {o} : ~HoldsLock(p)
         /\ Pc(o) # "claiming" => marker = Run(o) /\ Claimable(o)
         /\ At(Pc(o), Mem(o), file[Run(o)], Run(o))
         /\ Credible(Mem(o), Run(o))
         /\ op[o] \in Command /\ Mem(o) \in RunState /\ Run(o) \in Runs
         /\ file[Run(o)] # NoRun => Credible(file[Run(o)], Run(o))
<1>1. Pc(o) # "idle" BY DEF HoldsLock
<1>2. op[o] \in Command /\ op[o] # Idle /\ Mem(o) \in RunState /\ Run(o) \in Runs
  BY <1>1, CommandTyped DEF Inv
<1> QED
  BY <1>2 DEF Inv, Exclusive, HoldsMarker, CommandsAtPlace, MemoriesCredible, FilesCredible, Claimable

\* A step that leaves the command at pc with m in memory, saved or not.
LEMMA GotoStep ==
  ASSUME Inv, NEW o \in Operators, Pc(o) # "idle", Claimable(o),
         \A p \in Operators \ {o} : ~HoldsLock(p),
         NEW r \in Runs, r = Run(o),
         NEW pc \in Pcs \ {"loaded", "claiming"}, NEW m \in RunState, Goto(o, pc, m),
         Credible(m, r)', At(pc, m, file[r], r)',
         Persist(o, m) \/ file' = file,
         repo' \in Tree, service' \in [code : Heads \cup {None}, flaps : 0 .. MaxFlaps],
         data' \in Heads,
         origin' \in [main : Seq(Heads \cup {Foreign}), seen : Nat],
         origin'.seen \in DOMAIN origin'.main,
         marker' = r, SeenKept,
         file'[r].status = "ROLLING_BACK" => HeadKnown(repo'.head, file'[r])
  PROVE  Inv'
<1>1. /\ op' \in [Operators -> Command \cup {Idle}]
      /\ op'[o] = [pc |-> pc, cmd |-> op[o].cmd, run |-> r, mem |-> m]
      /\ \A p \in Operators \ {o} : op'[p] = op[p]
  BY GotoDoes DEF Inv
<1>2. /\ file' \in [Runs -> RunState \cup {NoRun}]
      /\ file'[r] \in {m, file[r]}
      /\ \A q \in Runs \ {r} : file'[q] = file[q]
  BY PersistDoes DEF Inv, TypeOK
<1>3. op'[o] # Idle /\ op'[o].run = r /\ op'[o].pc = pc /\ op'[o].mem = m
  <2>1. pc # "idle" BY DEF Pcs, StagePcs, RollbackPcs, FinalizePcs
  <2> QED BY <1>1, <2>1 DEF Idle
<1>4. TypeOK' BY <1>1, <1>2 DEF Inv, TypeOK
<1>5. (file[r] # NoRun => Credible(file[r], r))'
  <2>1. \A n : Credible(n, r) => Credible(n, r)' BY DEF Credible, SeenKept
  <2>2. CASE file'[r] = m BY <2>2
  <2>3. CASE file'[r] = file[r] BY <2>1, <2>3 DEF Inv, FilesCredible
  <2> QED BY <1>2, <2>2, <2>3
<1>6. pc \notin {"idle", "loaded", "claiming"} BY DEF Pcs, StagePcs, RollbackPcs, FinalizePcs
<1>7. Credible(Mem(o), r)' /\ At(Pc(o), Mem(o), file[r], r)'
  BY <1>3 DEF Mem, Pc
<1> QED BY <1>1, <1>2, <1>3, <1>4, <1>5, <1>6, <1>7, LockedStep

\* A step that ends the command, with or without saving m.
LEMMA ExitStep ==
  ASSUME Inv, NEW o \in Operators, Pc(o) # "idle", Claimable(o),
         \A p \in Operators \ {o} : ~HoldsLock(p),
         NEW r \in Runs, r = Run(o),
         Exit(o),
         \/ \E m \in RunState : Persist(o, m) /\ Credible(m, r)
         \/ file' = file,
         UNCHANGED worldVars,
         marker' = r,
         file'[r].status = "ROLLING_BACK" => HeadKnown(repo'.head, file'[r])
  PROVE  Inv'
<1>1. /\ op' \in [Operators -> Command \cup {Idle}]
      /\ op'[o] = Idle
      /\ \A p \in Operators \ {o} : op'[p] = op[p]
  BY ExitDoes DEF Inv
<1>2. SeenKept BY SeenStays DEF worldVars
<1>3. \A m : Credible(m, r) => Credible(m, r)' BY <1>2 DEF Credible, SeenKept
<1>4. /\ file' \in [Runs -> RunState \cup {NoRun}]
      /\ (file[r] # NoRun => Credible(file[r], r))'
      /\ \A q \in Runs \ {r} : file'[q] = file[q]
  <2>1. CASE file' = file BY <2>1, <1>3 DEF Inv, TypeOK, FilesCredible
  <2>2. ASSUME NEW m \in RunState, Persist(o, m), Credible(m, r)
        PROVE  /\ file' \in [Runs -> RunState \cup {NoRun}]
               /\ (file[r] # NoRun => Credible(file[r], r))'
               /\ \A q \in Runs \ {r} : file'[q] = file[q]
    <3>1. /\ file' \in [Runs -> RunState \cup {NoRun}]
          /\ file'[Run(o)] = m
          /\ \A q \in Runs \ {Run(o)} : file'[q] = file[q]
      BY <2>2, PersistDoes DEF Inv
    <3> QED BY <3>1, <2>2, <1>3
  <2> QED BY <2>1, <2>2
<1>5. TypeOK' BY <1>1, <1>4 DEF Inv, TypeOK, worldVars
<1> QED BY <1>1, <1>2, <1>4, <1>5, LockedStep DEF worldVars

\* The three steps most commands are made of.
LEMMA SaveStep ==
  ASSUME Inv, NEW o \in Operators, HoldsLock(o), Pc(o) # "claiming",
         NEW pc \in Pcs \ {"loaded", "claiming"}, NEW m \in RunState, Save(o, pc, m),
         UNCHANGED <<worldVars, marker>>,
         Credible(m, Run(o)), At(pc, m, m, Run(o)),
         m.status = "ROLLING_BACK" => HeadKnown(repo.head, m)
  PROVE  Inv'
<1>0. PICK r \in Runs : r = Run(o) BY Alone
<1>1. /\ \A p \in Operators \ {o} : ~HoldsLock(p)
      /\ marker = r /\ Claimable(o) /\ Pc(o) # "idle"
  BY <1>0, Alone DEF HoldsLock
<1>2. Persist(o, m) /\ Goto(o, pc, m) BY DEF Save
<1>3. file'[r] = m BY <1>0, <1>1, <1>2, PersistDoes DEF Inv
<1>4. SeenKept BY SeenStays DEF worldVars
<1>5. (Seen(r) => Seen(r)') /\ Credible(m, r)' BY <1>0, <1>4 DEF SeenKept, Credible
<1>6. At(pc, m, file[r], r)' BY <1>0, <1>3, <1>5 DEF At
<1>7. /\ repo' \in Tree /\ service' \in [code : Heads \cup {None}, flaps : 0 .. MaxFlaps]
      /\ data' \in Heads /\ origin' \in [main : Seq(Heads \cup {Foreign}), seen : Nat]
      /\ origin'.seen \in DOMAIN origin'.main /\ marker' = marker
      /\ repo' = repo
  BY DEF Inv, TypeOK, worldVars
<1> QED BY <1>0, <1>1, <1>2, <1>3, <1>4, <1>5, <1>6, <1>7, GotoStep

LEMMA SaveExitStep ==
  ASSUME Inv, NEW o \in Operators, HoldsLock(o), Pc(o) # "claiming",
         NEW m \in RunState, SaveAndExit(o, m),
         UNCHANGED <<worldVars, marker>>,
         Credible(m, Run(o)),
         m.status = "ROLLING_BACK" => HeadKnown(repo.head, m)
  PROVE  Inv'
<1>0. PICK r \in Runs : r = Run(o) BY Alone
<1>1. /\ \A p \in Operators \ {o} : ~HoldsLock(p)
      /\ marker = r /\ Claimable(o) /\ Pc(o) # "idle"
  BY <1>0, Alone DEF HoldsLock
<1>2. Persist(o, m) /\ Exit(o) BY DEF SaveAndExit
<1>3. file'[r] = m BY <1>0, <1>1, <1>2, PersistDoes DEF Inv
<1>4. UNCHANGED worldVars /\ marker' = r BY <1>1
<1>5. file'[r].status = "ROLLING_BACK" => HeadKnown(repo'.head, file'[r])
  BY <1>0, <1>3, <1>4 DEF worldVars
<1>6. \E n \in RunState : Persist(o, n) /\ Credible(n, r) BY <1>0, <1>2
<1> QED BY <1>0, <1>1, <1>2, <1>4, <1>5, <1>6, ExitStep

\* The world may change, but for origin, the file stays.
LEMMA MoveStep ==
  ASSUME Inv, NEW o \in Operators, HoldsLock(o), Pc(o) # "claiming",
         NEW pc \in Pcs \ {"loaded", "claiming"}, NEW m \in RunState, Goto(o, pc, m),
         UNCHANGED <<origin, file, marker>>,
         repo' \in Tree, service' \in [code : Heads \cup {None}, flaps : 0 .. MaxFlaps],
         data' \in Heads,
         Credible(m, Run(o)), At(pc, m, file[Run(o)], Run(o)),
         file[Run(o)].status = "ROLLING_BACK" => HeadKnown(repo'.head, file[Run(o)])
  PROVE  Inv'
<1>0. PICK r \in Runs : r = Run(o) BY Alone
<1>1. /\ \A p \in Operators \ {o} : ~HoldsLock(p)
      /\ marker = r /\ Claimable(o) /\ Pc(o) # "idle"
  BY <1>0, Alone DEF HoldsLock
<1>4. SeenKept BY SeenStays
<1>5. (Seen(r) => Seen(r)') /\ Credible(m, r)' BY <1>0, <1>4 DEF SeenKept, Credible
<1>6. At(pc, m, file[r], r)' BY <1>0, <1>5 DEF At
<1>7. /\ origin' \in [main : Seq(Heads \cup {Foreign}), seen : Nat]
      /\ origin'.seen \in DOMAIN origin'.main
  BY DEF Inv, TypeOK
<1> QED BY <1>0, <1>1, <1>4, <1>5, <1>6, <1>7, GotoStep

-----------------------------------------------------------------------------
(* The actions                                                             *)

\* The position of origin/main is one it had.
LEMMA TrackingSeen ==
  ASSUME TypeOK
  PROVE  Seen(Tracking) /\ origin.seen \in 1 .. origin.seen
<1>1. origin.seen \in DOMAIN origin.main /\ origin.main \in Seq(Heads \cup {Foreign})
  BY DEF TypeOK
<1>2. origin.seen \in 1 .. Len(origin.main) /\ Len(origin.main) \in Nat BY <1>1
<1> QED BY <1>2 DEF Seen, Tracking

\* While nothing moves the head or writes the file, a head that was known is.
LEMMA HeadStays ==
  ASSUME Inv, NEW r \in Runs, UNCHANGED <<repo, file>>
  PROVE  file'[r].status = "ROLLING_BACK" => HeadKnown(repo'.head, file'[r])
BY DEF Inv, HeadRecorded, HeadKnown

LEMMA StageInv ==
  ASSUME Inv, NEW o \in Operators, NEW r \in Runs, Stage(o, r)
  PROVE  Inv'
<1> DEFINE c == [pc |-> "claiming", cmd |-> "stage", run |-> r, mem |-> NewRun]
<1>1. NewRun \in RunState /\ NewRun.status = "INTERNAL_ERROR"
  <2>1. repo \in Tree /\ repo.head \in Heads BY DEF Inv, TypeOK, Tree
  <2> QED BY <2>1 DEF NewRun, RunState, Statuses
<1>2. NewRun # NoRun BY <1>1, StatusAssumption DEF NoRun, RunState
<1>3. Credible(NewRun, r)
  <2>1. Seen(NewRun.baseline) BY TrackingSeen DEF Inv, Stage, NewRun
  <2> QED BY <1>1, <2>1 DEF Credible, NewRun, Handed
<1>4. c \in Command /\ c # Idle BY <1>1 DEF Command, Idle
<1>5. /\ file' \in [Runs -> RunState \cup {NoRun}] /\ file'[r] = NewRun
      /\ \A q \in Runs \ {r} : file'[q] = file[q]
  BY <1>1 DEF Stage, Inv, TypeOK
<1>6. /\ op' \in [Operators -> Command \cup {Idle}] /\ op'[o] = c
      /\ \A p \in Operators \ {o} : op'[p] = op[p]
  BY <1>4 DEF Stage, Inv, TypeOK
<1> HIDE DEF c
<1>7. c.pc = "claiming" /\ c.run = r /\ c.mem = NewRun BY DEF c
<1>8. UNCHANGED <<worldVars, marker>> BY DEF Stage
<1>9. SeenKept BY <1>8, SeenStays DEF worldVars
<1>10. \A m, q : Credible(m, q) => Credible(m, q)' BY <1>9 DEF Credible, SeenKept
<1>11. TypeOK' BY <1>5, <1>6, <1>8 DEF Inv, TypeOK, worldVars
<1>12. FilesCredible' BY <1>3, <1>5, <1>10 DEF Inv, FilesCredible
<1>13. MemoriesCredible'
  <2> SUFFICES ASSUME NEW p \in Operators, op'[p] # Idle
               PROVE  Credible(Mem(p), Run(p))'
    BY DEF MemoriesCredible
  <2>1. CASE p = o BY <2>1, <1>3, <1>6, <1>7, <1>10 DEF Mem, Run
  <2>2. CASE p # o BY <2>2, <1>6, <1>10 DEF Inv, MemoriesCredible, Mem, Run
  <2> QED BY <2>1, <2>2
<1>14. \A p \in Operators \ {o} : ~HoldsLock(p)'
  BY <1>6 DEF HoldsLock, Pc, Stage, LockFree
<1>15. Exclusive' BY <1>14 DEF Exclusive
<1>16. HoldsMarker' BY <1>6, <1>7, <1>14 DEF HoldsMarker, Pc
<1>17. CommandsAtPlace'
  <2> SUFFICES ASSUME NEW p \in Operators, HoldsLock(p)'
               PROVE  At(Pc(p), Mem(p), file[Run(p)], Run(p))'
    BY DEF CommandsAtPlace
  <2>1. p = o BY <1>14
  <2> QED BY <2>1, <1>1, <1>5, <1>6, <1>7 DEF At, Pc, Mem, Run, StagePcs, RollbackPcs, Resetting
<1>18. InFlightHoldsMarker'
  BY <1>1, <1>5, <1>8 DEF Inv, InFlightHoldsMarker, InFlight
<1>19. HeadRecorded'
  BY <1>1, <1>5, <1>8 DEF Inv, HeadRecorded, HeadKnown, Stage, worldVars
<1> QED BY <1>11, <1>12, <1>13, <1>15, <1>16, <1>17, <1>18, <1>19 DEF Inv

LEMMA StageClaimInv ==
  ASSUME Inv, NEW o \in Operators, StageClaim(o)
  PROVE  Inv'
<1>1. HoldsLock(o) /\ Pc(o) = "claiming" /\ Pc(o) # "idle" BY DEF StageClaim, HoldsLock
<1>2. PICK r \in Runs : r = Run(o) BY <1>1, Alone
<1>3. /\ \A p \in Operators \ {o} : ~HoldsLock(p)
      /\ Mem(o) \in RunState /\ Credible(Mem(o), r)
      /\ file[r].status = "INTERNAL_ERROR" /\ Mem(o) = file[r]
  BY <1>1, <1>2, Alone DEF At
<1>4. /\ Claimable(o) /\ Goto(o, "preparing", Mem(o)) /\ marker' = r
      /\ UNCHANGED <<worldVars, file>>
  BY <1>2 DEF StageClaim
<1>5. SeenKept BY <1>4, SeenStays DEF worldVars
<1>6. PICK m \in RunState : m = Mem(o) BY <1>3
<1>7. Credible(m, r)' BY <1>3, <1>5, <1>6 DEF Credible, SeenKept
<1>8. At("preparing", m, file[r], r)'
  BY <1>3, <1>4, <1>6 DEF At, StagePcs, RollbackPcs, Resetting, StageStatuses
<1>9. "preparing" \in Pcs \ {"loaded", "claiming"} BY DEF Pcs, StagePcs
<1>10. /\ repo' \in Tree /\ service' \in [code : Heads \cup {None}, flaps : 0 .. MaxFlaps]
       /\ data' \in Heads /\ origin' \in [main : Seq(Heads \cup {Foreign}), seen : Nat]
       /\ origin'.seen \in DOMAIN origin'.main /\ file' = file
  BY <1>4 DEF Inv, TypeOK, worldVars
<1>11. file'[r].status # "ROLLING_BACK" BY <1>3, <1>10
<1> QED BY <1>1, <1>2, <1>3, <1>4, <1>5, <1>6, <1>7, <1>8, <1>9, <1>10, <1>11, GotoStep

\* A state with another status, and perhaps more recorded with it.
LEMMA WithCredible ==
  ASSUME NEW o \in Operators, NEW r, Credible(Mem(o), r), NEW st \in Statuses \ Handed,
         NEW n, n = With(o, st) \/ Refines(n, With(o, st))
  PROVE  n \in RunState /\ n.status = st /\ Credible(n, r)
<1>1. Mem(o) \in RunState BY DEF Credible
<1>2. /\ With(o, st) \in RunState /\ With(o, st).status = st
      /\ With(o, st).baseline = Mem(o).baseline /\ With(o, st).staged = Mem(o).staged
  BY <1>1, WithTyped
<1>3. Credible(With(o, st), r) BY <1>2 DEF Credible
<1> QED BY <1>2, <1>3, RefinesCredible DEF Refines

LEMMA StagePrepareInv ==
  ASSUME Inv, NEW o \in Operators, StagePrepare(o)
  PROVE  Inv'
<1>1. HoldsLock(o) /\ Pc(o) = "preparing" /\ Pc(o) # "claiming" BY DEF StagePrepare, HoldsLock
<1>2. PICK r \in Runs : r = Run(o) BY <1>1, Alone
<1>3. Credible(Mem(o), r) /\ UNCHANGED <<worldVars, marker>>
  BY <1>1, <1>2, Alone DEF StagePrepare
<1>4. ASSUME NEW st \in {"PRE_MERGE_TESTING", "BACKING_UP", "MIGRATING", "MERGING"},
             NEW pc \in {"preparing", "merging"},
             NEW n, n = With(o, st) \/ Refines(n, With(o, st)), Save(o, pc, n)
      PROVE  Inv'
  <2>1. n \in RunState /\ n.status = st /\ Credible(n, r)
    BY <1>3, <1>4, WithCredible DEF Statuses, Handed
  <2>2. At(pc, n, n, r) BY <2>1, <1>4 DEF At, StagePcs, RollbackPcs, Resetting, StageStatuses
  <2>3. pc \in Pcs \ {"loaded", "claiming"} BY DEF Pcs, StagePcs
  <2>4. n.status # "ROLLING_BACK" BY <2>1, <1>4
  <2> QED BY <1>1, <1>2, <1>3, <1>4, <2>1, <2>2, <2>3, <2>4, SaveStep
<1>5. ASSUME NEW st \in Statuses
      PROVE  With(o, st) \in RunState
  BY <1>3, WithTyped DEF Credible
<1>6. Refines([With(o, "PRE_MERGE_TESTING") EXCEPT !.before = IF Active THEN "active" ELSE "inactive"],
              With(o, "PRE_MERGE_TESTING"))
  BY <1>5, FieldUpdates DEF Statuses
<1>7. Refines([With(o, "MIGRATING") EXCEPT !.backup = data], With(o, "MIGRATING"))
  BY <1>5, FieldUpdates DEF Statuses, Inv, TypeOK
<1>8. CASE Save(o, "preparing", [With(o, "PRE_MERGE_TESTING") EXCEPT
                                   !.before = IF Active THEN "active" ELSE "inactive"])
  BY <1>4, <1>6, <1>8
<1>9. CASE Save(o, "preparing", With(o, "BACKING_UP")) BY <1>4, <1>9
<1>10. CASE Save(o, "preparing", [With(o, "MIGRATING") EXCEPT !.backup = data])
  BY <1>4, <1>7, <1>10
<1>11. CASE Save(o, "merging", With(o, "MERGING")) BY <1>4, <1>11
<1> QED BY <1>8, <1>9, <1>10, <1>11 DEF StagePrepare

LEMMA StageMergeInv ==
  ASSUME Inv, NEW o \in Operators, StageMerge(o)
  PROVE  Inv'
<1>1. HoldsLock(o) /\ Pc(o) = "merging" /\ Pc(o) # "claiming" BY DEF StageMerge, HoldsLock
<1>2. PICK r \in Runs : r = Run(o) BY <1>1, Alone
<1>3. /\ Credible(Mem(o), r) /\ Mem(o) \in RunState
      /\ Mem(o).status \in StageStatuses /\ file[r].status = Mem(o).status
  BY <1>1, <1>2, Alone DEF At, StagePcs
<1>4. PICK m \in RunState : m = [Mem(o) EXCEPT !.staged = Run(o)]
  BY <1>2, <1>3 DEF RunState
<1>5. m.staged = r /\ m.status = Mem(o).status /\ m.baseline = Mem(o).baseline
  BY <1>2, <1>3, <1>4 DEF RunState
<1>6. Credible(m, r) BY <1>3, <1>4, <1>5 DEF Credible
<1>7. At("merged", m, file[r], r)
  BY <1>3, <1>5 DEF At, StagePcs, RollbackPcs, Resetting
<1>8. /\ Goto(o, "merged", m) /\ UNCHANGED <<origin, service, data, file, marker>>
      /\ repo' = [repo EXCEPT !.head = r]
  BY <1>2, <1>4 DEF StageMerge
<1>9. /\ repo' \in Tree /\ service' \in [code : Heads \cup {None}, flaps : 0 .. MaxFlaps]
      /\ data' \in Heads
  BY <1>8 DEF Inv, TypeOK, Tree, Heads
<1>10. "merged" \in Pcs \ {"loaded", "claiming"} BY DEF Pcs, StagePcs
<1>11. file[r].status # "ROLLING_BACK" BY <1>3 DEF StageStatuses
<1> QED BY <1>1, <1>2, <1>4, <1>6, <1>7, <1>8, <1>9, <1>10, <1>11, MoveStep

LEMMA StageRecordInv ==
  ASSUME Inv, NEW o \in Operators, StageRecord(o)
  PROVE  Inv'
<1>1. HoldsLock(o) /\ Pc(o) = "merged" /\ Pc(o) # "claiming" BY DEF StageRecord, HoldsLock
<1>2. PICK r \in Runs : r = Run(o) BY <1>1, Alone
<1>3. Credible(Mem(o), r) /\ Mem(o) \in RunState BY <1>1, <1>2, Alone
<1>4. PICK n : n = [With(o, "POST_MERGE_TESTING") EXCEPT !.expected = repo]
  OBVIOUS
<1>5. Refines(n, With(o, "POST_MERGE_TESTING"))
  BY <1>3, <1>4, WithTyped, FieldUpdates DEF Statuses, Inv, TypeOK
<1>6. n \in RunState /\ n.status = "POST_MERGE_TESTING" /\ Credible(n, r)
  BY <1>3, <1>5, WithCredible DEF Statuses, Handed
<1>7. At("staging", n, n, r) BY <1>6 DEF At, StagePcs, RollbackPcs, Resetting, StageStatuses
<1>8. Save(o, "staging", n) /\ UNCHANGED <<worldVars, marker>>
  BY <1>4 DEF StageRecord
<1>9. "staging" \in Pcs \ {"loaded", "claiming"} BY DEF Pcs, StagePcs
<1> QED BY <1>1, <1>2, <1>6, <1>7, <1>8, <1>9, SaveStep

\* What the services do when they start.
LEMMA StartsTyped ==
  ASSUME TypeOK, Starts
  PROVE  service' \in [code : Heads \cup {None}, flaps : 0 .. MaxFlaps] /\ data' \in Heads
BY DEF TypeOK, Starts, Migrated, Tree, Heads

LEMMA StageRestartInv ==
  ASSUME Inv, NEW o \in Operators, StageRestart(o)
  PROVE  Inv'
<1>1. HoldsLock(o) /\ Pc(o) = "staging" /\ Pc(o) # "claiming" BY DEF StageRestart, HoldsLock
<1>2. PICK r \in Runs : r = Run(o) BY <1>1, Alone
<1>3. /\ Credible(Mem(o), r) /\ Mem(o) \in RunState
      /\ Mem(o).status \in StageStatuses /\ file[r].status = Mem(o).status
  BY <1>1, <1>2, Alone DEF At, StagePcs
<1>4. PICK m \in RunState : m = Mem(o) BY <1>3
<1>5. At("restarted", m, file[r], r) BY <1>3, <1>4 DEF At, StagePcs, RollbackPcs, Resetting
<1>6. Goto(o, "restarted", m) /\ UNCHANGED <<repo, origin, file, marker>>
  BY <1>4 DEF StageRestart
<1>7. /\ repo' \in Tree /\ service' \in [code : Heads \cup {None}, flaps : 0 .. MaxFlaps]
      /\ data' \in Heads
  BY StartsTyped DEF StageRestart, Inv, TypeOK
<1>8. "restarted" \in Pcs \ {"loaded", "claiming"} BY DEF Pcs, StagePcs
<1>9. file[r].status # "ROLLING_BACK" BY <1>3 DEF StageStatuses
<1> QED BY <1>1, <1>2, <1>3, <1>4, <1>5, <1>6, <1>7, <1>8, <1>9, MoveStep

LEMMA SnapshotTyped ==
  ASSUME TypeOK
  PROVE  Snapshot \in [active : BOOLEAN, flaps : Nat]
<1>1. service \in [code : Heads \cup {None}, flaps : 0 .. MaxFlaps] /\ MaxFlaps \in Nat
  BY IntegrationAssumption DEF TypeOK
<1> QED BY <1>1 DEF Snapshot, Active

LEMMA StageVerifyInv ==
  ASSUME Inv, NEW o \in Operators, StageVerify(o)
  PROVE  Inv'
<1>1. HoldsLock(o) /\ Pc(o) # "claiming" BY DEF StageVerify, HoldsLock
<1>2. PICK r \in Runs : r = Run(o) BY <1>1, Alone
<1>3. /\ Credible(Mem(o), r) /\ Mem(o) \in RunState
      /\ UNCHANGED <<worldVars, marker>>
  BY <1>1, <1>2, Alone DEF StageVerify
<1>4. ASSUME NEW st \in {"RESTARTING_SERVICES", "VERIFYING"},
             NEW n, n = With(o, st) \/ Refines(n, With(o, st)), Save(o, "staging", n)
      PROVE  Inv'
  <2>1. n \in RunState /\ n.status = st /\ Credible(n, r)
    BY <1>3, <1>4, WithCredible DEF Statuses, Handed
  <2>2. At("staging", n, n, r) BY <2>1, <1>4 DEF At, StagePcs, RollbackPcs, Resetting, StageStatuses
  <2>3. "staging" \in Pcs \ {"loaded", "claiming"} BY DEF Pcs, StagePcs
  <2>4. n.status # "ROLLING_BACK" BY <2>1, <1>4
  <2> QED BY <1>1, <1>2, <1>3, <1>4, <2>1, <2>2, <2>3, <2>4, SaveStep
<1>5. Snapshot \in [active : BOOLEAN, flaps : Nat] BY SnapshotTyped DEF Inv
<1>6. Refines([With(o, "VERIFYING") EXCEPT !.snapshot = Snapshot], With(o, "VERIFYING"))
  BY <1>3, <1>5, WithTyped, FieldUpdates DEF Statuses
<1>7. CASE Save(o, "staging", With(o, "RESTARTING_SERVICES")) BY <1>4, <1>7
<1>8. CASE Save(o, "staging", [With(o, "VERIFYING") EXCEPT !.snapshot = Snapshot])
  BY <1>4, <1>6, <1>8
<1>9. CASE /\ Pc(o) = "staging" /\ Mem(o).status = "VERIFYING"
           /\ Goto(o, "accepting", Mem(o)) /\ UNCHANGED file
  <2>1. PICK m \in RunState : m = Mem(o) BY <1>3
  <2>2. At("accepting", m, file[r], r)
    <3>1. At(Pc(o), Mem(o), file[r], r) BY <1>1, <1>2, Alone
    <3> QED BY <1>9, <2>1, <3>1 DEF At, StagePcs, RollbackPcs, Resetting
  <2>3. /\ repo' \in Tree /\ service' \in [code : Heads \cup {None}, flaps : 0 .. MaxFlaps]
        /\ data' \in Heads /\ UNCHANGED <<origin, file, marker>>
    BY <1>3, <1>9 DEF Inv, TypeOK, worldVars
  <2>4. "accepting" \in Pcs \ {"loaded", "claiming"} BY DEF Pcs, StagePcs
  <2>5. file[r].status # "ROLLING_BACK"
    <3>1. At(Pc(o), Mem(o), file[r], r) BY <1>1, <1>2, Alone
    <3> QED BY <1>9, <3>1 DEF At, StagePcs
  <2> QED BY <1>1, <1>2, <1>3, <1>9, <2>1, <2>2, <2>3, <2>4, <2>5, MoveStep
<1> QED BY <1>7, <1>8, <1>9 DEF StageVerify

LEMMA StageCompleteInv ==
  ASSUME Inv, NEW o \in Operators, StageComplete(o)
  PROVE  Inv'
<1>1. HoldsLock(o) /\ Pc(o) # "claiming" BY DEF StageComplete, HoldsLock
<1>2. PICK r \in Runs : r = Run(o) BY <1>1, Alone
<1>3. PICK n : n = With(o, "AWAITING_ACCEPTANCE") OBVIOUS
<1>4. n \in RunState /\ n.status = "AWAITING_ACCEPTANCE" /\ Credible(n, r)
  BY <1>1, <1>2, <1>3, Alone, WithCredible DEF Statuses, Handed
<1>5. SaveAndExit(o, n) /\ UNCHANGED <<worldVars, marker>> BY <1>3 DEF StageComplete
<1> QED BY <1>1, <1>2, <1>4, <1>5, SaveExitStep

LEMMA StageFailsInv ==
  ASSUME Inv, NEW o \in Operators, StageFails(o)
  PROVE  Inv'
<1>1. HoldsLock(o) /\ Pc(o) # "claiming" BY DEF StageFails, HoldsLock
<1>2. PICK r \in Runs : r = Run(o) BY <1>1, Alone
<1>3. /\ Credible(Mem(o), r) /\ Mem(o) \in RunState
      /\ UNCHANGED <<worldVars, marker>>
  BY <1>1, <1>2, Alone DEF StageFails
<1>4. ASSUME NEW pc \in {"clearing", "checking"},
             NEW n, n = With(o, "AUTOMATED_CHECK_FAILED") \/ Refines(n, With(o, "AUTOMATED_CHECK_FAILED")),
             Save(o, pc, n)
      PROVE  Inv'
  <2>1. n \in RunState /\ n.status = "AUTOMATED_CHECK_FAILED" /\ Credible(n, r)
    BY <1>3, <1>4, WithCredible DEF Statuses, Handed
  <2>2. At(pc, n, n, r) BY <2>1, <1>4 DEF At, StagePcs, RollbackPcs, Resetting, InFlight
  <2>3. pc \in Pcs \ {"loaded", "claiming"} BY DEF Pcs, RollbackPcs
  <2>4. n.status # "ROLLING_BACK" BY <2>1
  <2> QED BY <1>1, <1>2, <1>3, <1>4, <2>1, <2>2, <2>3, <2>4, SaveStep
<1>5. Refines([With(o, "AUTOMATED_CHECK_FAILED") EXCEPT !.expected = repo],
              With(o, "AUTOMATED_CHECK_FAILED"))
  BY <1>3, WithTyped, FieldUpdates DEF Statuses, Inv, TypeOK
<1>6. CASE Save(o, "clearing", With(o, "AUTOMATED_CHECK_FAILED")) BY <1>4, <1>6
<1>7. CASE Save(o, "checking", [With(o, "AUTOMATED_CHECK_FAILED") EXCEPT !.expected = repo])
  BY <1>4, <1>5, <1>7
<1>8. CASE Save(o, "checking", With(o, "AUTOMATED_CHECK_FAILED")) BY <1>4, <1>8
<1> QED BY <1>6, <1>7, <1>8 DEF StageFails

LEMMA StageInterruptedInv ==
  ASSUME Inv, NEW o \in Operators, StageInterrupted(o)
  PROVE  Inv'
<1>1. HoldsLock(o) /\ Pc(o) # "claiming" BY DEF StageInterrupted, HoldsLock, StagePcs
<1>2. PICK r \in Runs : r = Run(o) BY <1>1, Alone
<1>3. PICK n : n = With(o, "INTERRUPTED") OBVIOUS
<1>4. n \in RunState /\ n.status = "INTERRUPTED" /\ Credible(n, r)
  BY <1>1, <1>2, <1>3, Alone, WithCredible DEF Statuses, Handed
<1>5. SaveAndExit(o, n) /\ UNCHANGED <<worldVars, marker>> BY <1>3 DEF StageInterrupted
<1> QED BY <1>1, <1>2, <1>4, <1>5, SaveExitStep

LEMMA RollbackInv ==
  ASSUME Inv, NEW o \in Operators, Rollback(o)
  PROVE  Inv'
<1>1. Pc(o) # "idle" /\ LockFree /\ Claimable(o) BY DEF Rollback
<1>2. op[o] # Idle /\ Run(o) \in Runs /\ Mem(o) \in RunState BY <1>1, CommandTyped DEF Inv
<1>3. PICK r \in Runs : r = Run(o) BY <1>2
<1>4. PICK m \in RunState : m = Mem(o) BY <1>2
<1>5. /\ marker' = r /\ Goto(o, "checking", m)
      /\ UNCHANGED <<worldVars, file>>
  BY <1>3, <1>4 DEF Rollback
<1>6. SeenKept BY <1>5, SeenStays DEF worldVars
<1>7. Credible(m, r)' BY <1>2, <1>3, <1>4, <1>6 DEF Inv, MemoriesCredible, Credible, SeenKept
<1>8. At("checking", m, file[r], r)' BY DEF At, StagePcs, RollbackPcs, Resetting
<1>9. "checking" \in Pcs \ {"loaded", "claiming"} BY DEF Pcs, RollbackPcs
<1>10. /\ repo' \in Tree /\ service' \in [code : Heads \cup {None}, flaps : 0 .. MaxFlaps]
       /\ data' \in Heads /\ origin' \in [main : Seq(Heads \cup {Foreign}), seen : Nat]
       /\ origin'.seen \in DOMAIN origin'.main /\ file' = file /\ repo' = repo
  BY <1>5 DEF Inv, TypeOK, worldVars
<1>11. file'[r].status = "ROLLING_BACK" => HeadKnown(repo'.head, file'[r])
  BY <1>10, HeadStays
<1>12. \A p \in Operators \ {o} : ~HoldsLock(p) BY <1>1 DEF LockFree, HoldsLock
<1> QED BY <1>1, <1>3, <1>5, <1>6, <1>7, <1>8, <1>9, <1>10, <1>11, <1>12, GotoStep

LEMMA RollbackCheckInv ==
  ASSUME Inv, NEW o \in Operators, RollbackCheck(o)
  PROVE  Inv'
<1>1. HoldsLock(o) /\ Pc(o) = "checking" /\ Pc(o) # "claiming" BY DEF RollbackCheck, HoldsLock
<1>2. PICK r \in Runs : r = Run(o) BY <1>1, Alone
<1>3. /\ Credible(Mem(o), r) /\ Mem(o) \in RunState /\ Pc(o) # "idle"
      /\ \A p \in Operators \ {o} : ~HoldsLock(p)
      /\ marker = r /\ Claimable(o)
      /\ UNCHANGED <<worldVars, marker>>
  BY <1>1, <1>2, Alone DEF RollbackCheck
<1>5. CASE Exit(o) /\ UNCHANGED file
  <2>1. file'[r].status = "ROLLING_BACK" => HeadKnown(repo'.head, file'[r])
    BY <1>3, <1>5, HeadStays DEF worldVars
  <2> QED BY <1>1, <1>2, <1>3, <1>5, <2>1, ExitStep
<1>6. CASE repo = Mem(o).expected /\ Save(o, FirstMissing(Mem(o)), With(o, "ROLLING_BACK"))
  <2>1. PICK n : n = With(o, "ROLLING_BACK") OBVIOUS
  <2>2. n \in RunState /\ n.status = "ROLLING_BACK" /\ Credible(n, r)
    BY <1>3, <2>1, WithCredible DEF Statuses, Handed
  <2>3. HeadKnown(repo.head, n) BY <1>3, <1>6, <2>1, WithTyped DEF Statuses, HeadKnown
  <2>4. PICK pc \in {"stopping", "restoring", "starting", "verifying"} : pc = FirstMissing(Mem(o))
    BY DEF FirstMissing
  <2>7. pc = "stopping" => ~n.git
    BY <1>3, <2>1, <2>4, StatusUpdate DEF FirstMissing, With, Statuses
  <2>5. At(pc, n, n, r) BY <2>2, <2>7 DEF At, StagePcs, RollbackPcs, Resetting
  <2>6. pc \in Pcs \ {"loaded", "claiming"} BY DEF Pcs, RollbackPcs
  <2> QED BY <1>1, <1>2, <1>3, <1>6, <2>1, <2>2, <2>3, <2>4, <2>5, <2>6, SaveStep
<1>7. CASE SaveAndExit(o, With(o, "INTERNAL_ERROR"))
  <2>1. PICK n : n = With(o, "INTERNAL_ERROR") OBVIOUS
  <2>2. n \in RunState /\ n.status = "INTERNAL_ERROR" /\ Credible(n, r)
    BY <1>3, <2>1, WithCredible DEF Statuses, Handed
  <2> QED BY <1>1, <1>2, <1>3, <1>7, <2>1, <2>2, SaveExitStep
<1> QED BY <1>5, <1>6, <1>7 DEF RollbackCheck

\* What a rollback under way knows.
LEMMA RollingBack ==
  ASSUME Inv, NEW o \in Operators, Pc(o) \in RollbackPcs \ {"checking"}
  PROVE  /\ HoldsLock(o) /\ Pc(o) # "claiming" /\ Pc(o) # "idle"
         /\ Run(o) \in Runs /\ Mem(o) \in RunState /\ Credible(Mem(o), Run(o))
         /\ Mem(o) = file[Run(o)] /\ Mem(o).status = "ROLLING_BACK"
         /\ Pc(o) \in Resetting => ~Mem(o).git
         /\ \A pc : (pc \in RollbackPcs \ {"checking"} /\ (pc \in Resetting => ~Mem(o).git))
                    => At(pc, Mem(o), file[Run(o)], Run(o))
         /\ \A n, pc : /\ Refines(n, Mem(o)) /\ pc \in RollbackPcs \ ({"checking"} \cup Resetting) =>
                          /\ n \in RunState /\ n.status = "ROLLING_BACK"
                          /\ Credible(n, Run(o)) /\ At(pc, n, n, Run(o))
         /\ HeadKnown(repo.head, Mem(o))
         /\ RollbackPcs \subseteq Pcs \ {"loaded", "claiming"}
<1>1. HoldsLock(o) /\ Pc(o) # "claiming" /\ Pc(o) # "idle" BY DEF HoldsLock, RollbackPcs
<1>2. /\ Run(o) \in Runs /\ Mem(o) \in RunState /\ Credible(Mem(o), Run(o))
      /\ At(Pc(o), Mem(o), file[Run(o)], Run(o))
  BY <1>1, Alone
<1>3. Mem(o) = file[Run(o)] /\ Mem(o).status = "ROLLING_BACK" BY <1>2 DEF At
<1>4. ASSUME NEW pc \in RollbackPcs \ {"checking"}, NEW n, n.status = "ROLLING_BACK",
             pc \in Resetting => ~n.git
      PROVE  At(pc, n, n, Run(o))
  BY <1>4 DEF At, StagePcs, RollbackPcs, Resetting
<1>5. \A pc : (pc \in RollbackPcs \ {"checking"} /\ (pc \in Resetting => ~Mem(o).git))
              => At(pc, Mem(o), file[Run(o)], Run(o))
  BY <1>3, <1>4
<1>6. ASSUME NEW n, NEW pc, Refines(n, Mem(o)), pc \in RollbackPcs \ ({"checking"} \cup Resetting)
      PROVE  /\ n \in RunState /\ n.status = "ROLLING_BACK"
             /\ Credible(n, Run(o)) /\ At(pc, n, n, Run(o))
  <2>1. n \in RunState /\ n.status = "ROLLING_BACK" BY <1>3, <1>6 DEF Refines
  <2>2. Credible(n, Run(o)) BY <1>2, <1>6, RefinesCredible
  <2> QED BY <1>4, <1>6, <2>1, <2>2
<1>7. HeadKnown(repo.head, Mem(o)) BY <1>2, <1>3 DEF Inv, HeadRecorded
<1>8. RollbackPcs \subseteq Pcs \ {"loaded", "claiming"} BY DEF Pcs, RollbackPcs
<1>9. Pc(o) \in Resetting => ~Mem(o).git BY <1>2 DEF At
<1> QED BY <1>1, <1>2, <1>3, <1>5, <1>6, <1>7, <1>8, <1>9

\* A step of it that leaves checkout and file as they are.
LEMMA RollbackMoveStep ==
  ASSUME Inv, NEW o \in Operators, Pc(o) \in RollbackPcs \ {"checking"},
         NEW pc \in RollbackPcs \ {"checking"}, pc \in Resetting => ~Mem(o).git,
         Goto(o, pc, Mem(o)), UNCHANGED <<repo, origin, file, marker>>,
         service' \in [code : Heads \cup {None}, flaps : 0 .. MaxFlaps], data' \in Heads
  PROVE  Inv'
<1>1. PICK m \in RunState : m = Mem(o) BY RollingBack
<1>2. At(pc, m, file[Run(o)], Run(o)) /\ Credible(m, Run(o)) BY <1>1, RollingBack
<1>3. file[Run(o)].status = "ROLLING_BACK" => HeadKnown(repo'.head, file[Run(o)])
  <2>1. PICK r \in Runs : r = Run(o) BY RollingBack
  <2>2. HeadKnown(repo.head, file[r]) BY <2>1, RollingBack
  <2> QED BY <2>1, <2>2, RollingBack DEF HeadKnown, Run
<1>4. repo' \in Tree BY DEF Inv, TypeOK
<1>5. HoldsLock(o) /\ Pc(o) # "claiming" /\ pc \in Pcs \ {"loaded", "claiming"} BY RollingBack
<1> QED BY <1>1, <1>2, <1>3, <1>4, <1>5, MoveStep

LEMMA RollbackStopInv ==
  ASSUME Inv, NEW o \in Operators, RollbackStop(o)
  PROVE  Inv'
<1>1. Pc(o) \in RollbackPcs \ {"checking"} /\ ~Mem(o).git
  BY RollingBack DEF RollbackStop, RollbackPcs, Resetting
<1>2. Goto(o, "resetting", Mem(o)) /\ UNCHANGED <<repo, origin, data, file, marker>>
  BY DEF RollbackStop
<1>3. service' \in [code : Heads \cup {None}, flaps : 0 .. MaxFlaps] /\ data' \in Heads
  BY DEF RollbackStop, Inv, TypeOK
<1>4. "resetting" \in RollbackPcs \ {"checking"} BY DEF RollbackPcs
<1> QED BY <1>1, <1>2, <1>3, <1>4, RollbackMoveStep

\* The reset leaves the baseline behind, whose milestone is not recorded yet.
LEMMA RollbackResetInv ==
  ASSUME Inv, NEW o \in Operators, RollbackReset(o)
  PROVE  Inv'
<1>1. Pc(o) \in RollbackPcs \ {"checking"} /\ ~Mem(o).git
  BY RollingBack DEF RollbackReset, RollbackPcs, Resetting
<1>2. PICK m \in RunState : m = Mem(o) BY <1>1, RollingBack
<1>3. Goto(o, "recording", m) /\ UNCHANGED <<origin, service, data, file, marker>>
  BY <1>2 DEF RollbackReset
<1>4. /\ repo' \in Tree /\ service' \in [code : Heads \cup {None}, flaps : 0 .. MaxFlaps]
      /\ data' \in Heads
  <2>1. Mem(o).baseline \in Heads BY <1>2 DEF RunState
  <2> QED BY <2>1 DEF RollbackReset, Inv, TypeOK, Tree
<1>5. "recording" \in RollbackPcs \ {"checking"} BY DEF RollbackPcs
<1>6. PICK r \in Runs : r = Run(o) BY <1>1, RollingBack
<1>7. Mem(o) = file[r] /\ HeadKnown(repo.head, Mem(o)) BY <1>1, <1>6, RollingBack
<1>8. HeadKnown(repo'.head, file'[r])
  <2>1. CASE m.expected.head # m.baseline
    <3>1. repo'.head = m.baseline BY <1>2, <2>1 DEF RollbackReset
    <3> QED BY <1>1, <1>2, <1>3, <1>7, <3>1 DEF HeadKnown
  <2>2. CASE m.expected.head = m.baseline
    <3>1. repo' = repo BY <1>2, <2>2 DEF RollbackReset
    <3> QED BY <1>2, <1>3, <1>7, <2>2, <3>1 DEF HeadKnown
  <2> QED BY <2>1, <2>2
<1>9. /\ HoldsLock(o) /\ Pc(o) # "claiming" /\ "recording" \in Pcs \ {"loaded", "claiming"}
      /\ Credible(m, r) /\ At("recording", m, file[r], r)
  BY <1>1, <1>2, <1>5, <1>6, RollingBack
<1>10. file[Run(o)].status = "ROLLING_BACK" => HeadKnown(repo'.head, file[Run(o)])
  BY <1>3, <1>6, <1>8 DEF HeadKnown
<1> QED BY <1>2, <1>3, <1>4, <1>6, <1>9, <1>10, MoveStep

LEMMA RollbackRecordInv ==
  ASSUME Inv, NEW o \in Operators, RollbackRecord(o)
  PROVE  Inv'
<1>1. Pc(o) \in RollbackPcs \ {"checking"}
  BY DEF RollbackRecord, RollbackPcs
<1>2. PICK n : n = [Mem(o) EXCEPT !.expected = repo, !.git = TRUE] OBVIOUS
<1>3. Refines(n, Mem(o)) /\ n.expected = repo
  <2>1. repo \in Tree /\ Mem(o) \in RunState BY <1>1, RollingBack DEF Inv, TypeOK
  <2> QED BY <1>2, <2>1, FieldUpdates
<1>4. Save(o, "restoring", n) /\ UNCHANGED <<worldVars, marker>>
  BY <1>2 DEF RollbackRecord
<1>5. "restoring" \in RollbackPcs \ ({"checking"} \cup Resetting) BY DEF RollbackPcs, Resetting
<1>6. n \in RunState /\ Credible(n, Run(o)) /\ At("restoring", n, n, Run(o))
  BY <1>1, <1>3, <1>5, RollingBack
<1>7. HeadKnown(repo.head, n) BY <1>3 DEF HeadKnown
<1> QED BY <1>1, <1>4, <1>5, <1>6, <1>7, RollingBack, SaveStep

LEMMA RollbackRestoreInv ==
  ASSUME Inv, NEW o \in Operators, RollbackRestore(o)
  PROVE  Inv'
<1>1. Pc(o) \in RollbackPcs \ {"checking"} BY DEF RollbackRestore, RollbackPcs
<1>2. Mem(o) \in RunState BY <1>1, RollingBack
<1>3. Goto(o, "restored", Mem(o)) /\ UNCHANGED <<repo, origin, file, marker>>
  BY DEF RollbackRestore
<1>4. service' \in [code : Heads \cup {None}, flaps : 0 .. MaxFlaps] /\ data' \in Heads
  <2>1. Mem(o).backup \in Heads \cup {None} BY <1>2 DEF RunState
  <2> QED BY <2>1 DEF RollbackRestore, Inv, TypeOK
<1>5. "restored" \in RollbackPcs \ {"checking"} /\ "restored" \notin Resetting
  BY DEF RollbackPcs, Resetting
<1> QED BY <1>1, <1>3, <1>4, <1>5, RollbackMoveStep

LEMMA RollbackRestoredInv ==
  ASSUME Inv, NEW o \in Operators, RollbackRestored(o)
  PROVE  Inv'
<1>1. Pc(o) \in RollbackPcs \ {"checking"}
  BY DEF RollbackRestored, RollbackPcs
<1>2. PICK n : n = [Mem(o) EXCEPT !.backups = TRUE] OBVIOUS
<1>3. Refines(n, Mem(o)) /\ n.expected = Mem(o).expected /\ n.git = Mem(o).git
  BY <1>1, <1>2, RollingBack, FieldUpdates
<1>4. Save(o, "starting", n) /\ UNCHANGED <<worldVars, marker>>
  BY <1>2 DEF RollbackRestored
<1>5. "starting" \in RollbackPcs \ ({"checking"} \cup Resetting) BY DEF RollbackPcs, Resetting
<1>6. n \in RunState /\ Credible(n, Run(o)) /\ At("starting", n, n, Run(o))
  BY <1>1, <1>3, <1>5, RollingBack
<1>7. HeadKnown(repo.head, n) BY <1>1, <1>3, RollingBack DEF HeadKnown, Refines
<1> QED BY <1>1, <1>4, <1>5, <1>6, <1>7, RollingBack, SaveStep

LEMMA RollbackStartInv ==
  ASSUME Inv, NEW o \in Operators, RollbackStart(o)
  PROVE  Inv'
<1>1. Pc(o) \in RollbackPcs \ {"checking"} BY DEF RollbackStart, RollbackPcs
<1>2. Mem(o) \in RunState BY <1>1, RollingBack
<1>3. Goto(o, "started", Mem(o)) /\ UNCHANGED <<repo, origin, file, marker>>
  BY DEF RollbackStart
<1>4. service' \in [code : Heads \cup {None}, flaps : 0 .. MaxFlaps] /\ data' \in Heads
  BY StartsTyped DEF RollbackStart, Inv, TypeOK
<1>5. "started" \in RollbackPcs \ {"checking"} /\ "started" \notin Resetting
  BY DEF RollbackPcs, Resetting
<1> QED BY <1>1, <1>3, <1>4, <1>5, RollbackMoveStep

LEMMA RollbackStartedInv ==
  ASSUME Inv, NEW o \in Operators, RollbackStarted(o)
  PROVE  Inv'
<1>1. Pc(o) \in RollbackPcs \ {"checking"}
  BY DEF RollbackStarted, RollbackPcs
<1>2. PICK n : n = [Mem(o) EXCEPT !.services = TRUE] OBVIOUS
<1>3. Refines(n, Mem(o)) /\ n.expected = Mem(o).expected /\ n.git = Mem(o).git
  BY <1>1, <1>2, RollingBack, FieldUpdates
<1>4. Save(o, "verifying", n) /\ UNCHANGED <<worldVars, marker>>
  BY <1>2 DEF RollbackStarted
<1>5. "verifying" \in RollbackPcs \ ({"checking"} \cup Resetting) BY DEF RollbackPcs, Resetting
<1>6. n \in RunState /\ Credible(n, Run(o)) /\ At("verifying", n, n, Run(o))
  BY <1>1, <1>3, <1>5, RollingBack
<1>7. HeadKnown(repo.head, n) BY <1>1, <1>3, RollingBack DEF HeadKnown, Refines
<1> QED BY <1>1, <1>4, <1>5, <1>6, <1>7, RollingBack, SaveStep

LEMMA RollbackVerifyInv ==
  ASSUME Inv, NEW o \in Operators, RollbackVerify(o)
  PROVE  Inv'
<1>1. Pc(o) \in RollbackPcs \ {"checking"} BY DEF RollbackVerify, RollbackPcs
<1>2. Goto(o, "verified", Mem(o)) /\ UNCHANGED <<repo, origin, service, data, file, marker>>
  BY DEF RollbackVerify, worldVars
<1>3. service' \in [code : Heads \cup {None}, flaps : 0 .. MaxFlaps] /\ data' \in Heads
  BY <1>2 DEF Inv, TypeOK
<1>4. "verified" \in RollbackPcs \ {"checking"} /\ "verified" \notin Resetting
  BY DEF RollbackPcs, Resetting
<1> QED BY <1>1, <1>2, <1>3, <1>4, RollbackMoveStep

\* The clean baseline is a checkout, whatever is there by now.
LEMMA BaselineTree ==
  ASSUME NEW m \in RunState
  PROVE  [head |-> m.baseline, dirty |-> FALSE] \in Tree
BY DEF RunState, Tree

LEMMA RollbackCompleteInv ==
  ASSUME Inv, NEW o \in Operators, RollbackComplete(o)
  PROVE  Inv'
<1>1. Pc(o) \in RollbackPcs \ {"checking"} BY DEF RollbackComplete, RollbackPcs
<1>2. Credible(Mem(o), Run(o)) /\ Mem(o) \in RunState BY <1>1, RollingBack
<1>3. PICK clean \in Tree : clean = [head |-> Mem(o).baseline, dirty |-> FALSE]
  BY <1>2, BaselineTree
<1>4. PICK n : n = [With(o, "ROLLED_BACK") EXCEPT !.expected = clean] OBVIOUS
<1>5. Refines(n, With(o, "ROLLED_BACK"))
  <2>1. With(o, "ROLLED_BACK") \in RunState BY <1>2, WithTyped DEF Statuses
  <2> QED BY <1>4, <2>1, FieldUpdates
<1>6. n \in RunState /\ n.status = "ROLLED_BACK" /\ Credible(n, Run(o))
  BY <1>2, <1>5, WithCredible DEF Statuses, Handed
<1>7. At("clearing", n, n, Run(o)) BY <1>6 DEF At, StagePcs, RollbackPcs, InFlight, Resetting
<1>8. Save(o, "clearing", n) /\ UNCHANGED <<worldVars, marker>>
  BY <1>3, <1>4 DEF RollbackComplete
<1>9. "clearing" \in Pcs \ {"loaded", "claiming"} BY DEF Pcs
<1> QED BY <1>1, <1>6, <1>7, <1>8, <1>9, RollingBack, SaveStep

LEMMA RollbackFailsInv ==
  ASSUME Inv, NEW o \in Operators, RollbackFails(o)
  PROVE  Inv'
<1>1. HoldsLock(o) /\ Pc(o) # "claiming" BY DEF RollbackFails, RollbackPcs, HoldsLock
<1>2. PICK r \in Runs : r = Run(o) BY <1>1, Alone
<1>3. /\ Credible(Mem(o), r) /\ Mem(o) \in RunState
      /\ UNCHANGED <<worldVars, marker>>
  BY <1>1, <1>2, Alone DEF RollbackFails
<1>4. PICK failed \in RunState : failed = With(o, "INTERNAL_ERROR")
  BY <1>3, WithTyped DEF Statuses
<1>5. ASSUME NEW n, n = failed \/ Refines(n, failed), SaveAndExit(o, n)
      PROVE  Inv'
  <2>1. n \in RunState /\ n.status = "INTERNAL_ERROR" /\ Credible(n, r)
    BY <1>3, <1>4, <1>5, WithCredible DEF Statuses, Handed
  <2> QED BY <1>1, <1>2, <1>3, <1>5, <2>1, SaveExitStep
<1>6. CASE SaveAndExit(o, failed) BY <1>5, <1>6
<1>7. CASE SaveAndExit(o, [failed EXCEPT !.expected = repo, !.git = TRUE])
  <2>1. repo \in Tree BY DEF Inv, TypeOK
  <2>2. Refines([failed EXCEPT !.expected = repo, !.git = TRUE], failed) BY <2>1, FieldUpdates
  <2> QED BY <1>5, <1>7, <2>2
<1>8. CASE SaveAndExit(o, [failed EXCEPT !.backups = TRUE])
  <2>1. Refines([failed EXCEPT !.backups = TRUE], failed) BY FieldUpdates
  <2> QED BY <1>5, <1>8, <2>1
<1>9. CASE SaveAndExit(o, [failed EXCEPT !.services = TRUE])
  <2>1. Refines([failed EXCEPT !.services = TRUE], failed) BY FieldUpdates
  <2> QED BY <1>5, <1>9, <2>1
<1>10. CASE SaveAndExit(o, [failed EXCEPT !.expected = [head |-> Mem(o).baseline, dirty |-> FALSE]])
  <2>1. PICK clean \in Tree : clean = [head |-> Mem(o).baseline, dirty |-> FALSE]
    BY <1>3, BaselineTree
  <2>2. Refines([failed EXCEPT !.expected = clean], failed) BY FieldUpdates
  <2> QED BY <1>5, <1>10, <2>1, <2>2
<1> QED BY <1>4, <1>6, <1>7, <1>8, <1>9, <1>10 DEF RollbackFails

LEMMA FinalizeInv ==
  ASSUME Inv, NEW o \in Operators, Finalize(o)
  PROVE  Inv'
<1>1. Pc(o) # "idle" /\ LockFree /\ Claimable(o) BY DEF Finalize
<1>2. op[o] # Idle /\ Run(o) \in Runs /\ Mem(o) \in RunState BY <1>1, CommandTyped DEF Inv
<1>3. PICK r \in Runs : r = Run(o) BY <1>2
<1>4. /\ Credible(Mem(o), r) /\ marker' = r
      /\ UNCHANGED <<worldVars>>
  BY <1>2, <1>3 DEF Inv, MemoriesCredible, Finalize
<1>5. SeenKept BY <1>4, SeenStays DEF worldVars
<1>6. /\ repo' \in Tree /\ service' \in [code : Heads \cup {None}, flaps : 0 .. MaxFlaps]
      /\ data' \in Heads /\ origin' \in [main : Seq(Heads \cup {Foreign}), seen : Nat]
      /\ origin'.seen \in DOMAIN origin'.main /\ repo' = repo
  BY <1>4 DEF Inv, TypeOK, worldVars
<1>7. \A p \in Operators \ {o} : ~HoldsLock(p) BY <1>1 DEF LockFree, HoldsLock
<1>8. \A m, q : Credible(m, q) => Credible(m, q)' BY <1>5 DEF Credible, SeenKept
<1>9. CASE Goto(o, "guarding", Mem(o)) /\ UNCHANGED file
  <2>1. PICK m \in RunState : m = Mem(o) BY <1>2
  <2>2. Credible(m, r)' BY <1>4, <1>8, <2>1
  <2>3. At("guarding", m, file[r], r)' BY DEF At, StagePcs, RollbackPcs, Resetting
  <2>4. "guarding" \in Pcs \ {"loaded", "claiming"} BY DEF Pcs, FinalizePcs
  <2>5. file'[r].status = "ROLLING_BACK" => HeadKnown(repo'.head, file'[r]) BY <1>6, <1>9, HeadStays
  <2> QED BY <1>1, <1>3, <1>4, <1>5, <1>6, <1>7, <1>9, <2>1, <2>2, <2>3, <2>4, <2>5, GotoStep
<1>10. ASSUME NEW n \in RunState, NEW pc \in {"reconciling", "clearing"}, Save(o, pc, n),
              Credible(n, r), At(pc, n, n, r), n.status # "ROLLING_BACK"
       PROVE  Inv'
  <2>1. Persist(o, n) /\ Goto(o, pc, n) BY <1>10 DEF Save
  <2>2. file'[r] = n BY <1>2, <1>3, <2>1, PersistDoes DEF Inv
  <2>3. Credible(n, r)' /\ (Seen(r) => Seen(r)') BY <1>5, <1>8, <1>10 DEF SeenKept
  <2>4. At(pc, n, file[r], r)' BY <1>10, <2>2, <2>3 DEF At
  <2>5. pc \in Pcs \ {"loaded", "claiming"} BY DEF Pcs, FinalizePcs
  <2>6. file'[r].status # "ROLLING_BACK" BY <1>10, <2>2
  <2> QED BY <1>1, <1>3, <1>4, <1>5, <1>6, <1>7, <1>10, <2>1, <2>3, <2>4, <2>5, <2>6, GotoStep
<1>11. CASE /\ Mem(o).status = "FINALIZING" /\ Tracking = Mem(o).staged
            /\ Save(o, "reconciling", Mem(o))
  <2>1. Seen(r) /\ Mem(o).staged = r
    <3>1. Seen(Mem(o).staged) BY <1>11, TrackingSeen DEF Inv
    <3>2. None \notin Heads \cup {Foreign} BY IntegrationAssumption DEF Heads
    <3>3. origin.main \in Seq(Heads \cup {Foreign}) /\ origin.seen \in DOMAIN origin.main
      BY DEF Inv, TypeOK
    <3>4. Tracking \in Heads \cup {Foreign} BY <3>3 DEF Tracking
    <3>5. Mem(o).staged = r BY <1>4, <1>11, <3>2, <3>4 DEF Credible
    <3> QED BY <3>1, <3>5
  <2>2. PICK m \in RunState : m = Mem(o) BY <1>2
  <2>3. At("reconciling", m, m, r) BY <1>11, <2>1, <2>2 DEF At, StagePcs, RollbackPcs, Resetting
  <2> QED BY <1>4, <1>10, <1>11, <2>2, <2>3
<1>12. CASE Save(o, "clearing", With(o, "INTERNAL_ERROR"))
  <2>1. PICK n : n = With(o, "INTERNAL_ERROR") OBVIOUS
  <2>2. n \in RunState /\ n.status = "INTERNAL_ERROR" /\ Credible(n, r)
    BY <1>4, <2>1, WithCredible DEF Statuses, Handed
  <2>3. At("clearing", n, n, r) BY <2>2 DEF At, StagePcs, RollbackPcs, Resetting, InFlight
  <2> QED BY <1>10, <1>12, <2>1, <2>2, <2>3
<1> QED BY <1>9, <1>11, <1>12 DEF Finalize

LEMMA FinalizeGuardInv ==
  ASSUME Inv, NEW o \in Operators, FinalizeGuard(o)
  PROVE  Inv'
<1>1. HoldsLock(o) /\ Pc(o) # "claiming" BY DEF FinalizeGuard, HoldsLock
<1>2. PICK n : n = With(o, "FINALIZING") OBVIOUS
<1>3. n \in RunState /\ n.status = "FINALIZING" /\ Credible(n, Run(o))
  BY <1>1, <1>2, Alone, WithCredible DEF Statuses, Handed
<1>4. At("pushing", n, n, Run(o))
  <2>1. Mem(o) \in RunState /\ Mem(o).staged \in {None, Run(o)}
    BY <1>1, Alone DEF Credible
  <2>2. n.staged = Mem(o).staged BY <1>2, <2>1, WithTyped DEF Statuses
  <2>3. repo.head \in Heads /\ repo.head = Mem(o).staged
    BY DEF FinalizeGuard, AsStaged, Inv, TypeOK, Tree
  <2>4. n.staged = Run(o) BY <2>1, <2>2, <2>3, IntegrationAssumption DEF Heads
  <2> QED BY <1>3, <2>4 DEF At, StagePcs, RollbackPcs, Resetting
<1>5. Save(o, "pushing", n) /\ UNCHANGED <<worldVars, marker>>
  BY <1>2 DEF FinalizeGuard
<1>6. "pushing" \in Pcs \ {"loaded", "claiming"} BY DEF Pcs, FinalizePcs
<1> QED BY <1>1, <1>3, <1>4, <1>5, <1>6, SaveStep

\* What origin has had, it has had: it only grows, and is fetched whole.
LEMMA OriginGrows ==
  ASSUME TypeOK, NEW main, NEW seen,
         \/ main = origin.main
         \/ \E c \in Heads \cup {Foreign} : main = Append(origin.main, c),
         seen \in {origin.seen, Len(main)},
         origin' = [main |-> main, seen |-> seen]
  PROVE  /\ SeenKept
         /\ origin' \in [main : Seq(Heads \cup {Foreign}), seen : Nat]
         /\ origin'.seen \in DOMAIN origin'.main
<1>1. /\ origin.main \in Seq(Heads \cup {Foreign}) /\ origin.seen \in DOMAIN origin.main
      /\ origin.seen \in Nat
  BY DEF TypeOK
<1>2. /\ main \in Seq(Heads \cup {Foreign}) /\ Len(origin.main) <= Len(main)
      /\ \A i \in 1 .. Len(origin.main) : main[i] = origin.main[i]
      /\ Len(main) \in Nat /\ Len(origin.main) \in Nat
  <2>1. CASE main = origin.main BY <1>1, <2>1
  <2>2. ASSUME NEW c \in Heads \cup {Foreign}, main = Append(origin.main, c)
        PROVE  /\ main \in Seq(Heads \cup {Foreign}) /\ Len(origin.main) <= Len(main)
               /\ \A i \in 1 .. Len(origin.main) : main[i] = origin.main[i]
               /\ Len(main) \in Nat /\ Len(origin.main) \in Nat
    BY <1>1, <2>2
  <2> QED BY <2>1, <2>2
<1>3. origin.seen \in 1 .. Len(origin.main) BY <1>1
<1>4. seen \in 1 .. Len(main) /\ origin.seen <= seen BY <1>2, <1>3
<1>5. origin'.main = main /\ origin'.seen = seen OBVIOUS
<1>6. SeenKept
  <2> SUFFICES ASSUME NEW c, NEW i \in 1 .. origin.seen, origin.main[i] = c
               PROVE  \E j \in 1 .. seen : main[j] = c
    BY <1>5 DEF SeenKept, Seen
  <2>1. i \in 1 .. seen /\ i \in 1 .. Len(origin.main) BY <1>2, <1>3, <1>4
  <2> QED BY <1>2, <2>1
<1> QED BY <1>2, <1>4, <1>5, <1>6

LEMMA FinalizePushInv ==
  ASSUME Inv, NEW o \in Operators, FinalizePush(o)
  PROVE  Inv'
<1>1. HoldsLock(o) /\ Pc(o) = "pushing" /\ Pc(o) # "claiming" /\ Pc(o) # "idle"
  BY DEF FinalizePush, HoldsLock
<1>2. PICK r \in Runs : r = Run(o) BY <1>1, Alone
<1>3. /\ \A p \in Operators \ {o} : ~HoldsLock(p)
      /\ marker = r /\ Claimable(o) /\ Credible(Mem(o), r) 
      /\ Mem(o).status = "FINALIZING" /\ Mem(o).staged = r
      /\ UNCHANGED <<repo, service, data, file, marker>>
  BY <1>1, <1>2, Alone DEF At, FinalizePush
<1>4. PICK m \in RunState : m = Mem(o) BY <1>1, Alone
<1>5. /\ SeenKept
      /\ origin' \in [main : Seq(Heads \cup {Foreign}), seen : Nat]
      /\ origin'.seen \in DOMAIN origin'.main
  <2>1. CASE UNCHANGED origin
    BY <2>1, SeenStays DEF Inv, TypeOK
  <2>2. CASE ServerMain \in {Mem(o).baseline, Mem(o).staged} /\ ~UNCHANGED origin
    <3>1. PICK main : main = IF ServerMain = Mem(o).staged THEN origin.main
                             ELSE Append(origin.main, Mem(o).staged)
      OBVIOUS
    <3>2. PICK seen \in {origin.seen, Len(main)} : origin' = [main |-> main, seen |-> seen]
      <4>1. origin = [main |-> origin.main, seen |-> origin.seen] BY DEF Inv, TypeOK
      <4>2. [origin EXCEPT !.main = main] = [main |-> main, seen |-> origin.seen]
        BY <4>1
      <4> QED BY <2>2, <3>1, <4>2 DEF FinalizePush
    <3>3. \/ main = origin.main
          \/ \E c \in Heads \cup {Foreign} : main = Append(origin.main, c)
      BY <1>3, <3>1 DEF Heads
    <3> QED BY <3>2, <3>3, OriginGrows DEF Inv
  <2> QED BY <2>1, <2>2 DEF FinalizePush
<1>6. \A n, q : Credible(n, q) => Credible(n, q)' BY <1>5 DEF Credible, SeenKept
<1>7. PICK pc \in {"pushed", "pushFailed"} : Goto(o, pc, m) BY <1>4 DEF FinalizePush
<1>8. Credible(m, r)' BY <1>3, <1>4, <1>6
<1>9. At(pc, m, file[r], r)' BY <1>3, <1>4 DEF At, StagePcs, RollbackPcs, Resetting
<1>10. pc \in Pcs \ {"loaded", "claiming"} BY DEF Pcs, FinalizePcs
<1>11. file'[r].status = "ROLLING_BACK" => HeadKnown(repo'.head, file'[r]) BY <1>3, HeadStays
<1>12. /\ repo' \in Tree /\ service' \in [code : Heads \cup {None}, flaps : 0 .. MaxFlaps]
       /\ data' \in Heads
  BY <1>3 DEF Inv, TypeOK
<1> QED BY <1>1, <1>2, <1>3, <1>4, <1>5, <1>7, <1>8, <1>9, <1>10, <1>11, <1>12, GotoStep

\* A saved step of a finalization: what it writes is about a run whose push
\* is on record.
LEMMA FinalizeSave ==
  ASSUME Inv, NEW o \in Operators, HoldsLock(o), Pc(o) # "claiming",
         NEW n \in RunState, NEW pc \in Pcs \ {"loaded", "claiming"}, Save(o, pc, n),
         UNCHANGED <<worldVars, marker>>,
         NEW st \in Statuses \ {"ROLLING_BACK"}, n = With(o, st),
         st \in Handed => Seen(Run(o)),
         At(pc, n, n, Run(o))
  PROVE  Inv'
<1>1. Credible(Mem(o), Run(o)) /\ Mem(o) \in RunState BY Alone
<1>2. /\ n.status = st /\ n.baseline = Mem(o).baseline /\ n.staged = Mem(o).staged
  BY <1>1, WithTyped
<1>3. Credible(n, Run(o)) BY <1>1, <1>2 DEF Credible
<1> QED BY <1>2, <1>3, SaveStep

LEMMA FinalizeOutcomeInv ==
  ASSUME Inv, NEW o \in Operators, FinalizeOutcome(o)
  PROVE  Inv'
<1>1. HoldsLock(o) /\ Pc(o) \in {"pushed", "pushFailed"} /\ Pc(o) # "claiming"
  BY DEF FinalizeOutcome, HoldsLock
<1>2. PICK r \in Runs : r = Run(o) BY <1>1, Alone
<1>3. /\ Credible(Mem(o), r) /\ Mem(o) \in RunState
      /\ Mem(o).status = "FINALIZING" /\ Mem(o).staged = r
      /\ UNCHANGED <<worldVars, marker>>
  BY <1>1, <1>2, Alone DEF At, FinalizeOutcome
<1>4. PICK m \in RunState : m = Mem(o) BY <1>3
<1>5. CASE Tracking = Mem(o).staged /\ Save(o, "reconciling", Mem(o))
  <2>1. Seen(r) BY <1>3, <1>5, TrackingSeen DEF Inv
  <2>2. At("reconciling", m, m, r) BY <1>3, <1>4, <2>1 DEF At, StagePcs, RollbackPcs, Resetting
  <2>3. "reconciling" \in Pcs \ {"loaded", "claiming"} BY DEF Pcs, FinalizePcs
  <2>4. m.status # "ROLLING_BACK" BY <1>3, <1>4
  <2> QED BY <1>1, <1>2, <1>3, <1>4, <1>5, <2>2, <2>3, <2>4, SaveStep
<1>6. CASE SaveAndExit(o, Mem(o))
  <2>1. m.status # "ROLLING_BACK" BY <1>3, <1>4
  <2> QED BY <1>1, <1>2, <1>3, <1>4, <1>6, <2>1, SaveExitStep
<1>7. CASE Save(o, "clearing", With(o, "INTERNAL_ERROR"))
  <2>1. PICK n : n = With(o, "INTERNAL_ERROR") OBVIOUS
  <2>2. n \in RunState /\ n.status = "INTERNAL_ERROR" BY <1>3, <2>1, WithTyped DEF Statuses
  <2>3. At("clearing", n, n, r) BY <2>2 DEF At, StagePcs, RollbackPcs, Resetting, InFlight
  <2>4. "clearing" \in Pcs \ {"loaded", "claiming"} BY DEF Pcs
  <2>5. "INTERNAL_ERROR" \in Statuses \ {"ROLLING_BACK"} /\ "INTERNAL_ERROR" \notin Handed
    BY DEF Statuses, Handed
  <2> QED BY <1>1, <1>2, <1>3, <1>7, <2>1, <2>2, <2>3, <2>4, <2>5, FinalizeSave
<1> QED BY <1>5, <1>6, <1>7 DEF FinalizeOutcome

LEMMA FinalizeReconcileInv ==
  ASSUME Inv, NEW o \in Operators, FinalizeReconcile(o)
  PROVE  Inv'
<1>1. HoldsLock(o) /\ Pc(o) = "reconciling" /\ Pc(o) # "claiming"
  BY DEF FinalizeReconcile, HoldsLock
<1>2. PICK r \in Runs : r = Run(o) BY <1>1, Alone
<1>3. /\ Credible(Mem(o), r) /\ Seen(r)
      /\ Mem(o).status = "FINALIZING" /\ Mem(o).staged = r
      /\ UNCHANGED <<worldVars, file, marker>>
  BY <1>1, <1>2, Alone DEF At, FinalizeReconcile
<1>4. PICK m \in RunState : m = Mem(o) BY <1>1, Alone
<1>5. Goto(o, "finalizing", m) BY <1>4 DEF FinalizeReconcile
<1>6. At("finalizing", m, file[r], r) BY <1>3, <1>4 DEF At, StagePcs, RollbackPcs, Resetting
<1>7. "finalizing" \in Pcs \ {"loaded", "claiming"} BY DEF Pcs, FinalizePcs
<1>8. /\ repo' \in Tree /\ service' \in [code : Heads \cup {None}, flaps : 0 .. MaxFlaps]
      /\ data' \in Heads /\ repo' = repo /\ UNCHANGED <<origin, file, marker>>
  BY <1>3 DEF Inv, TypeOK, worldVars
<1>9. file[r].status = "ROLLING_BACK" => HeadKnown(repo'.head, file'[r])
  BY <1>8, HeadStays
<1> QED BY <1>1, <1>2, <1>3, <1>4, <1>5, <1>6, <1>7, <1>8, <1>9, MoveStep

LEMMA FinalizeEndsInv ==
  ASSUME Inv, NEW o \in Operators, FinalizeReconcileFails(o) \/ FinalizeComplete(o)
  PROVE  Inv'
<1>1. HoldsLock(o) /\ Pc(o) \in {"reconciling", "finalizing"} /\ Pc(o) # "claiming"
  BY DEF FinalizeReconcileFails, FinalizeComplete, HoldsLock
<1>2. PICK st \in Handed : Save(o, "clearing", With(o, st))
  BY DEF FinalizeReconcileFails, FinalizeComplete, Handed
<1>3. /\ Mem(o) \in RunState /\ Seen(Run(o))
      /\ UNCHANGED <<worldVars, marker>>
  BY <1>1, Alone DEF At, FinalizeReconcileFails, FinalizeComplete
<1>4. st \in Statuses \ {"ROLLING_BACK"} BY DEF Handed, Statuses
<1>5. PICK n : n = With(o, st) OBVIOUS
<1>6. n \in RunState /\ n.status = st BY <1>3, <1>4, <1>5, WithTyped
<1>7. At("clearing", n, n, Run(o)) BY <1>6 DEF At, StagePcs, RollbackPcs, Resetting, InFlight, Handed
<1>8. "clearing" \in Pcs \ {"loaded", "claiming"} BY DEF Pcs
<1> QED BY <1>1, <1>2, <1>3, <1>4, <1>5, <1>6, <1>7, <1>8, FinalizeSave

\* A step of a command that has no say: the world and the files stay, and
\* the command ends or has only read a file.
LEMMA BystanderStep ==
  ASSUME Inv, NEW o \in Operators,
         UNCHANGED <<worldVars, file>>,
         op' \in [Operators -> Command \cup {Idle}],
         \A p \in Operators \ {o} : op'[p] = op[p],
         \/ op'[o] = Idle
         \/ /\ op'[o] # Idle /\ op'[o].pc = "loaded"
            /\ Credible(op'[o].mem, op'[o].run),
         marker' \in Runs \cup {None},
         \/ marker' = marker
         \/ /\ \A p \in Operators \ {o} : ~HoldsLock(p)
            /\ \A r \in Runs : file[r].status \notin InFlight
  PROVE  Inv'
<1>1. SeenKept BY SeenStays DEF worldVars
<1>2. \A m, r : Credible(m, r) => Credible(m, r)' BY <1>1 DEF Credible, SeenKept
<1>3. TypeOK' BY DEF Inv, TypeOK, worldVars
<1>4. FilesCredible' BY <1>2 DEF Inv, FilesCredible
<1>5. MemoriesCredible'
  <2> SUFFICES ASSUME NEW p \in Operators, op'[p] # Idle
               PROVE  Credible(Mem(p), Run(p))'
    BY DEF MemoriesCredible
  <2>1. CASE p = o BY <2>1, <1>2 DEF Mem, Run
  <2>2. CASE p # o BY <2>2, <1>2 DEF Inv, MemoriesCredible, Mem, Run
  <2> QED BY <2>1, <2>2
<1>6. ~HoldsLock(o)' BY DEF HoldsLock, Pc, Idle
<1>7. \A p \in Operators : HoldsLock(p)' => p # o /\ HoldsLock(p) /\ op'[p] = op[p]
  BY <1>6 DEF HoldsLock, Pc
<1>8. Exclusive' BY <1>7 DEF Inv, Exclusive
<1>9. HoldsMarker' BY <1>7 DEF Inv, HoldsMarker, Run, Pc
<1>10. CommandsAtPlace'
  <2> SUFFICES ASSUME NEW p \in Operators, HoldsLock(p)'
               PROVE  At(Pc(p), Mem(p), file[Run(p)], Run(p))'
    BY DEF CommandsAtPlace
  <2>1. HoldsLock(p) /\ op'[p] = op[p] BY <1>7
  <2>2. At(Pc(p), Mem(p), file[Run(p)], Run(p)) BY <2>1 DEF Inv, CommandsAtPlace
  <2>3. Seen(Run(p)) => Seen(Run(p))' BY <1>1, <2>1 DEF SeenKept, Run
  <2> QED BY <2>1, <2>2, <2>3 DEF At, Pc, Mem, Run
<1>11. InFlightHoldsMarker' BY DEF Inv, InFlightHoldsMarker
<1>12. HeadRecorded' BY DEF Inv, HeadRecorded, HeadKnown, worldVars
<1> QED BY <1>3, <1>4, <1>5, <1>8, <1>9, <1>10, <1>11, <1>12 DEF Inv

LEMMA LoadRunInv ==
  ASSUME Inv, NEW o \in Operators, NEW r \in Runs, NEW cmd \in {"rollback", "finalize"},
         LoadRun(o, r, cmd)
  PROVE  Inv'
<1>1. file[r] # NoRun /\ Credible(file[r], r) BY DEF LoadRun, Inv, FilesCredible
<1>2. PICK c : c = [pc |-> "loaded", cmd |-> cmd, run |-> r, mem |-> file[r]] OBVIOUS
<1>3. c \in Command /\ c # Idle /\ c.pc = "loaded" /\ c.mem = file[r] /\ c.run = r
  BY <1>1, <1>2 DEF Command, Idle, Credible
<1>4. /\ op' \in [Operators -> Command \cup {Idle}] /\ op'[o] = c
      /\ \A p \in Operators \ {o} : op'[p] = op[p]
  BY <1>2, <1>3 DEF LoadRun, Inv, TypeOK
<1>5. UNCHANGED <<worldVars, file, marker>> BY DEF LoadRun
<1>6. marker' \in Runs \cup {None} /\ marker' = marker
  BY <1>5 DEF Inv, TypeOK
<1> QED BY <1>1, <1>3, <1>4, <1>5, <1>6, BystanderStep

LEMMA RefusedInv ==
  ASSUME Inv, NEW o \in Operators, Refused(o) \/ FinalizeRefused(o)
  PROVE  Inv'
<1>1. Exit(o) /\ UNCHANGED <<worldVars, file, marker>>
  BY DEF Refused, FinalizeRefused
<1>2. /\ op' \in [Operators -> Command \cup {Idle}] /\ op'[o] = Idle
      /\ \A p \in Operators \ {o} : op'[p] = op[p]
  BY <1>1, ExitDoes DEF Inv
<1>3. marker' \in Runs \cup {None}
  BY <1>1 DEF Inv, TypeOK
<1> QED BY <1>1, <1>2, <1>3, BystanderStep

LEMMA CrashInv ==
  ASSUME Inv, NEW o \in Operators, Crash(o)
  PROVE  Inv'
<1>1. Exit(o) /\ UNCHANGED <<worldVars, file, marker>> BY DEF Crash
<1>2. /\ op' \in [Operators -> Command \cup {Idle}] /\ op'[o] = Idle
      /\ \A p \in Operators \ {o} : op'[p] = op[p]
  BY <1>1, ExitDoes DEF Inv
<1>3. marker' \in Runs \cup {None} BY <1>1 DEF Inv, TypeOK
<1> QED BY <1>1, <1>2, <1>3, BystanderStep

\* The marker is cleared for a run that is not in flight, and holds it alone.
LEMMA ClearActiveInv ==
  ASSUME Inv, NEW o \in Operators, ClearActive(o)
  PROVE  Inv'
<1>1. HoldsLock(o) /\ Pc(o) = "clearing" /\ Pc(o) # "claiming"
  BY DEF ClearActive, HoldsLock
<1>2. /\ \A p \in Operators \ {o} : ~HoldsLock(p)
      /\ marker = Run(o) /\ file[Run(o)].status \notin InFlight /\ Run(o) \in Runs
  BY <1>1, Alone DEF At
<1>3. /\ Exit(o) /\ marker' = None /\ UNCHANGED <<worldVars, file>>
  BY <1>2 DEF ClearActive
<1>4. /\ op' \in [Operators -> Command \cup {Idle}] /\ op'[o] = Idle
      /\ \A p \in Operators \ {o} : op'[p] = op[p]
  BY <1>3, ExitDoes DEF Inv
<1>5. \A r \in Runs : file[r].status \notin InFlight BY <1>2 DEF Inv, InFlightHoldsMarker
<1> QED BY <1>1, <1>2, <1>3, <1>4, <1>5, BystanderStep

\* A step of the environment: the commands and the files stay, origin does
\* not forget, and edits do not move the head.
LEMMA EnvironmentStep ==
  ASSUME Inv, TypeOK', SeenKept, UNCHANGED <<file, marker, op>>,
         repo'.head = repo.head
  PROVE  Inv'
<1>1. \A m, r : Credible(m, r) => Credible(m, r)' BY DEF Credible, SeenKept
<1>2. FilesCredible' BY <1>1 DEF Inv, FilesCredible
<1>3. MemoriesCredible' BY <1>1 DEF Inv, MemoriesCredible, Mem, Run
<1>4. Exclusive' BY DEF Inv, Exclusive, HoldsLock, Pc
<1>5. HoldsMarker' BY DEF Inv, HoldsMarker, HoldsLock, Pc, Run
<1>6. CommandsAtPlace'
  <2> SUFFICES ASSUME NEW o \in Operators, HoldsLock(o)'
               PROVE  At(Pc(o), Mem(o), file[Run(o)], Run(o))'
    BY DEF CommandsAtPlace
  <2>1. HoldsLock(o) BY DEF HoldsLock, Pc
  <2>2. At(Pc(o), Mem(o), file[Run(o)], Run(o)) BY <2>1 DEF Inv, CommandsAtPlace
  <2>3. Seen(Run(o)) => Seen(Run(o))' BY DEF SeenKept, Run
  <2> QED BY <2>2, <2>3 DEF At, Pc, Mem, Run
<1>7. InFlightHoldsMarker' BY DEF Inv, InFlightHoldsMarker
<1>8. HeadRecorded' BY DEF Inv, HeadRecorded, HeadKnown
<1> QED BY <1>2, <1>3, <1>4, <1>5, <1>6, <1>7, <1>8 DEF Inv

LEMMA EnvironmentInv ==
  ASSUME Inv, Edit \/ ForeignPush \/ Fetch \/ Flap \/ UNCHANGED vars
  PROVE  Inv'
<1>1. CASE Edit
  <2>1. UNCHANGED <<origin, service, data, file, marker, op>> BY <1>1 DEF Edit
  <2>2. repo' \in Tree /\ repo'.head = repo.head
    BY <1>1 DEF Edit, Inv, TypeOK, Tree
  <2>3. TypeOK' BY <2>1, <2>2 DEF Inv, TypeOK
  <2> QED BY <2>1, <2>2, <2>3, SeenStays, EnvironmentStep
<1>2. CASE ForeignPush
  <2>1. UNCHANGED <<repo, service, data, file, marker, op>> BY <1>2 DEF ForeignPush
  <2>2. PICK main : main = Append(origin.main, Foreign) OBVIOUS
  <2>3. origin' = [main |-> main, seen |-> origin.seen]
    BY <1>2, <2>2 DEF ForeignPush, Inv, TypeOK
  <2>4. /\ SeenKept /\ origin' \in [main : Seq(Heads \cup {Foreign}), seen : Nat]
        /\ origin'.seen \in DOMAIN origin'.main
    BY <2>2, <2>3, OriginGrows DEF Inv
  <2>5. TypeOK' BY <2>1, <2>4 DEF Inv, TypeOK
  <2> QED BY <2>1, <2>4, <2>5, EnvironmentStep
<1>3. CASE Fetch
  <2>1. UNCHANGED <<repo, service, data, file, marker, op>> BY <1>3 DEF Fetch
  <2>2. PICK main : main = origin.main OBVIOUS
  <2>3. origin' = [main |-> main, seen |-> Len(main)]
    BY <1>3, <2>2 DEF Fetch, Inv, TypeOK
  <2>4. /\ SeenKept /\ origin' \in [main : Seq(Heads \cup {Foreign}), seen : Nat]
        /\ origin'.seen \in DOMAIN origin'.main
    BY <2>2, <2>3, OriginGrows DEF Inv
  <2>5. TypeOK' BY <2>1, <2>4 DEF Inv, TypeOK
  <2> QED BY <2>1, <2>4, <2>5, EnvironmentStep
<1>4. CASE Flap
  <2>1. UNCHANGED <<repo, origin, file, marker, op>> BY <1>4 DEF Flap
  <2>2. /\ service.flaps \in 0 .. MaxFlaps /\ MaxFlaps \in Nat
        /\ repo.head \in Heads /\ data' \in Heads
    BY <1>4, IntegrationAssumption DEF Flap, Inv, TypeOK, Tree, Migrated, Heads
  <2>3. service' \in [code : Heads \cup {None}, flaps : 0 .. MaxFlaps]
    BY <1>4, <2>2 DEF Flap
  <2>4. TypeOK' BY <2>1, <2>2, <2>3 DEF Inv, TypeOK
  <2> QED BY <2>1, <2>4, SeenStays, EnvironmentStep
<1>5. CASE UNCHANGED vars
  <2>1. UNCHANGED <<repo, origin, service, data, file, marker, op>> BY <1>5 DEF vars
  <2>2. TypeOK' BY <2>1 DEF Inv, TypeOK
  <2> QED BY <2>1, <2>2, SeenStays, EnvironmentStep
<1> QED BY <1>1, <1>2, <1>3, <1>4, <1>5

-----------------------------------------------------------------------------
(* Theorems                                                                *)

LEMMA InitInv ==
  ASSUME Init
  PROVE  Inv
<1>1. repo = [head |-> Base, dirty |-> FALSE] /\ data = Base /\ Base \in Heads
  BY DEF Init, Heads
<1>2. origin.main = <<Base>> /\ origin.seen = 1 BY DEF Init
<1>3. \A r \in Runs : file[r] = NoRun BY DEF Init
<1>4. \A o \in Operators : op[o] = Idle /\ Pc(o) = "idle" BY DEF Init, Pc, Idle
<1>5. TypeOK
  <2>1. repo \in Tree BY <1>1 DEF Tree
  <2>2. origin \in [main : Seq(Heads \cup {Foreign}), seen : Nat] BY <1>1 DEF Init
  <2>3. origin.seen \in DOMAIN origin.main BY <1>2
  <2>4. service \in [code : Heads \cup {None}, flaps : 0 .. MaxFlaps]
    BY <1>1, IntegrationAssumption DEF Init, Stopped
  <2>5. /\ file \in [Runs -> RunState \cup {NoRun}] /\ marker \in Runs \cup {None}
        /\ op \in [Operators -> Command \cup {Idle}]
    BY IntegrationAssumption DEF Init
  <2> QED BY <1>1, <2>1, <2>2, <2>3, <2>4, <2>5 DEF TypeOK
<1>6. FilesCredible BY <1>3 DEF FilesCredible
<1>7. MemoriesCredible BY <1>4 DEF MemoriesCredible
<1>8. Exclusive /\ HoldsMarker /\ CommandsAtPlace
  BY <1>4 DEF Exclusive, HoldsMarker, CommandsAtPlace, HoldsLock
<1>9. \A r \in Runs : file[r].status = None
  <2>1. NoRun.status = None BY DEF NoRun
  <2> QED BY <1>3, <2>1
<1>10. InFlightHoldsMarker /\ HeadRecorded
  <2>1. None \notin InFlight /\ None # "ROLLING_BACK"
    BY StatusAssumption DEF InFlight, Statuses
  <2> QED BY <1>9, <2>1 DEF InFlightHoldsMarker, HeadRecorded
<1> QED BY <1>5, <1>6, <1>7, <1>8, <1>10 DEF Inv

LEMMA NextInv ==
  ASSUME Inv, [Next]_vars
  PROVE  Inv'
<1>1. CASE Edit \/ ForeignPush \/ Fetch \/ Flap \/ UNCHANGED vars BY <1>1, EnvironmentInv
<1>2. ASSUME NEW o \in Operators, CommandStep(o) PROVE Inv'
  <2>1. CASE \/ \E r \in Runs, cmd \in {"rollback", "finalize"} : LoadRun(o, r, cmd)
             \/ Refused(o) \/ ClearActive(o) \/ Crash(o)
    BY <2>1, LoadRunInv, RefusedInv, ClearActiveInv, CrashInv
  <2>2. CASE StageStep(o)
    BY <2>2, StageInv, StageClaimInv, StagePrepareInv, StageMergeInv, StageRecordInv,
       StageRestartInv, StageVerifyInv, StageCompleteInv, StageFailsInv, StageInterruptedInv
       DEF StageStep
  <2>3. CASE RollbackStep(o)
    BY <2>3, RollbackInv, RollbackCheckInv, RollbackStopInv, RollbackResetInv, RollbackRecordInv,
       RollbackRestoreInv, RollbackRestoredInv, RollbackStartInv, RollbackStartedInv,
       RollbackVerifyInv, RollbackCompleteInv, RollbackFailsInv
       DEF RollbackStep
  <2>4. CASE FinalizeStep(o)
    BY <2>4, FinalizeInv, RefusedInv, FinalizeGuardInv, FinalizePushInv,
       FinalizeOutcomeInv, FinalizeReconcileInv, FinalizeEndsInv
       DEF FinalizeStep
  <2> QED BY <1>2, <2>1, <2>2, <2>3, <2>4 DEF CommandStep
<1> QED BY <1>1, <1>2 DEF Next

\* The inductive invariant: what files, marker, lock and memories say of each
\* other, whatever was killed.
THEOREM IntegrationInvariant == Spec => []Inv
<1>1. Init => Inv BY InitInv
<1>2. Inv /\ [Next]_vars => Inv' BY NextInv
<1> QED BY <1>1, <1>2, PTL DEF Spec

\* Every variable keeps its type.
THEOREM IntegrationTypes == Spec => []TypeOK
<1>1. Inv => TypeOK BY DEF Inv
<1> QED BY <1>1, IntegrationInvariant, PTL

\* A run that has begun and is neither undone nor given up holds the marker.
THEOREM MarkerHeld == Spec => []InFlightHoldsMarker
<1>1. Inv => InFlightHoldsMarker BY DEF Inv
<1> QED BY <1>1, IntegrationInvariant, PTL

\* What is recorded as published was seen on origin/main, and a run is merged
\* onto a commit that was.
THEOREM PublishedIsSeen == Spec => []PublicationIsSeen
<1>1. Inv => PublicationIsSeen
  BY DEF Inv, FilesCredible, Credible, Handed, Seen, PublicationIsSeen
<1> QED BY <1>1, IntegrationInvariant, PTL

\* Once its milestone is written a rollback can be resumed, however often it
\* was killed or failed; before, it stopped at most at a reset not recorded.
THEOREM MilestonesResume == Spec => []MilestoneResumable
<1>1. ASSUME Inv PROVE MilestoneResumable
  <2> SUFFICES ASSUME NEW r \in Runs, LockFree, file[r].status = "ROLLING_BACK",
                      ~repo.dirty, ~file[r].expected.dirty
               PROVE  \/ repo = file[r].expected
                      \/ ~file[r].git /\ repo.head = file[r].baseline
    BY DEF MilestoneResumable
  <2>1. HeadKnown(repo.head, file[r]) BY <1>1 DEF Inv, HeadRecorded
  <2>2. file[r] # NoRun
    BY StatusAssumption DEF NoRun, Statuses
  <2>3. repo \in Tree /\ file[r].expected \in Tree
    BY <1>1, <2>2 DEF Inv, TypeOK, RunState
  <2> QED BY <2>1, <2>3 DEF Tree, HeadKnown
<1> QED BY <1>1, IntegrationInvariant, PTL

-----------------------------------------------------------------------------
(* One operator at a time.  A run is loaded before the lock is taken, so   *)
(* what follows needs that nobody else works in between.                   *)

Solo == \A o, p \in Operators : o = p

\* What a command has in memory is what the file of its run says, but for the
\* merge it has made and not recorded; only an accepted run is guarded, and
\* only a failed one rolled back by its own stage.
Current(o) ==
  /\ Pc(o) # "merged" => Mem(o) = file[Run(o)]
  /\ Pc(o) = "merged" => Mem(o) = [file[Run(o)] EXCEPT !.staged = Run(o)]
  /\ Pc(o) = "guarding" => Mem(o).status \in {"AWAITING_ACCEPTANCE", "FINALIZING"}
  /\ Pc(o) = "checking" /\ op[o].cmd = "stage" => Mem(o).status = "AUTOMATED_CHECK_FAILED"

MemoryCurrent == \A o \in Operators : op[o] # Idle => Current(o)

LEMMA ExitCurrent ==
  ASSUME Solo, NEW o \in Operators, op'[o] = Idle
  PROVE  MemoryCurrent'
BY DEF Solo, MemoryCurrent

LEMMA GotoSets ==
  ASSUME TypeOK, NEW o \in Operators, Pc(o) # "idle", NEW pc, NEW m, Goto(o, pc, m)
  PROVE  op'[o].pc = pc /\ op'[o].mem = m /\ op'[o].run = Run(o) /\ op'[o].cmd = op[o].cmd
<1>1. op[o] \in Command /\ op \in [Operators -> Command \cup {Idle}]
  BY CommandTyped DEF TypeOK
<1>2. [op[o] EXCEPT !.pc = pc, !.mem = m] = [pc |-> pc, cmd |-> op[o].cmd, run |-> op[o].run, mem |-> m]
  BY <1>1, CommandUpdate
<1>3. op'[o] = [pc |-> pc, cmd |-> op[o].cmd, run |-> op[o].run, mem |-> m]
  BY <1>1, <1>2 DEF Goto
<1> QED BY <1>3 DEF Run

LEMMA SaveCurrent ==
  ASSUME TypeOK, Solo, NEW o \in Operators, Pc(o) # "idle",
         NEW pc, pc \notin {"merged", "guarding"}, NEW m, Save(o, pc, m),
         pc = "checking" => m.status = "AUTOMATED_CHECK_FAILED"
  PROVE  MemoryCurrent'
<1>1. Run(o) \in Runs BY CommandTyped
<1>2. op'[o].pc = pc /\ op'[o].mem = m /\ op'[o].run = Run(o) BY GotoSets DEF Save
<1>3. file'[Run(o)] = m BY <1>1 DEF TypeOK, Save, Persist
<1>4. Current(o)' BY <1>2, <1>3 DEF Current, Pc, Mem, Run
<1> QED BY <1>4 DEF Solo, MemoryCurrent

LEMMA GotoCurrent ==
  ASSUME TypeOK, Solo, NEW o \in Operators, Pc(o) # "idle", file' = file,
         NEW pc, NEW m, Goto(o, pc, m),
         pc # "merged" => m = file[Run(o)],
         pc = "merged" => m = [file[Run(o)] EXCEPT !.staged = Run(o)],
         pc = "guarding" => m.status \in {"AWAITING_ACCEPTANCE", "FINALIZING"},
         pc = "checking" => op[o].cmd # "stage"
  PROVE  MemoryCurrent'
<1>1. /\ op'[o].pc = pc /\ op'[o].mem = m /\ op'[o].run = Run(o) /\ op'[o].cmd = op[o].cmd
  BY GotoSets
<1>2. Current(o)' BY <1>1 DEF Current, Pc, Mem, Run
<1> QED BY <1>2 DEF Solo, MemoryCurrent

\* A command ends, saves what it has in memory, or leaves the file alone.
Ends(o) == op'[o] = Idle
Saves(o) == \E pc, m : /\ pc \notin {"merged", "guarding"} /\ Save(o, pc, m)
                       /\ pc = "checking" => m.status = "AUTOMATED_CHECK_FAILED"
Stays(o) == /\ file' = file /\ Pc(o) # "merged"
            /\ \E pc : /\ pc # "merged" /\ Goto(o, pc, Mem(o))
                       /\ pc = "guarding" => Mem(o).status \in {"AWAITING_ACCEPTANCE", "FINALIZING"}
                       /\ pc = "checking" => op[o].cmd # "stage"

LEMMA StageShape ==
  ASSUME TypeOK, NEW o \in Operators, StageStep(o)
  PROVE  \/ \E r \in Runs : Stage(o, r)
         \/ Pc(o) # "idle" /\ (Ends(o) \/ Saves(o) \/ Stays(o) \/ StageMerge(o))
<1>1. ASSUME Exit(o) PROVE Ends(o) BY <1>1, ExitDoes DEF Ends
<1>2. CASE StageClaim(o) BY <1>2 DEF StageClaim, Stays
<1>3. CASE StagePrepare(o) BY <1>3 DEF StagePrepare, Saves
<1>4. CASE StageMerge(o) BY <1>4 DEF StageMerge
<1>5. CASE StageRecord(o) BY <1>5 DEF StageRecord, Saves
<1>6. CASE StageRestart(o) BY <1>6 DEF StageRestart, Stays
<1>7. CASE StageVerify(o) BY <1>7 DEF StageVerify, Saves, Stays
<1>8. CASE StageFails(o)
  <2>1. Pc(o) # "idle" BY <1>8 DEF StageFails
  <2>2. PICK k \in RunState : /\ k = With(o, "AUTOMATED_CHECK_FAILED")
                              /\ k.status = "AUTOMATED_CHECK_FAILED"
    BY <2>1, CommandTyped, WithTyped DEF Statuses
  <2>3. repo \in Tree BY DEF TypeOK
  <2>4. PICK n : n = [k EXCEPT !.expected = repo] OBVIOUS
  <2>5. n.status = "AUTOMATED_CHECK_FAILED" BY <2>2, <2>3, <2>4, FieldUpdates DEF Refines
  <2>6. \/ Save(o, "clearing", k) \/ Save(o, "checking", n) \/ Save(o, "checking", k)
    BY <1>8, <2>2, <2>4 DEF StageFails
  <2> QED BY <2>1, <2>2, <2>5, <2>6 DEF Saves
<1>9. CASE StageInterrupted(o)
  BY <1>1, <1>9 DEF StageInterrupted, StagePcs, SaveAndExit
<1>10. CASE StageComplete(o) BY <1>1, <1>10 DEF StageComplete, SaveAndExit
<1> QED BY <1>2, <1>3, <1>4, <1>5, <1>6, <1>7, <1>8, <1>9, <1>10 DEF StageStep

LEMMA RollbackShape ==
  ASSUME TypeOK, NEW o \in Operators, RollbackStep(o)
  PROVE  Pc(o) # "idle" /\ (Ends(o) \/ Saves(o) \/ Stays(o))
<1>1. ASSUME Exit(o) PROVE Ends(o) BY <1>1, ExitDoes DEF Ends
<1>2. CASE Rollback(o) BY <1>2 DEF Rollback, Stays
<1>3. CASE RollbackCheck(o)
  BY <1>1, <1>3 DEF RollbackCheck, Saves, SaveAndExit, FirstMissing
<1>4. CASE RollbackStop(o) BY <1>4 DEF RollbackStop, Stays
<1>5. CASE RollbackReset(o) BY <1>5 DEF RollbackReset, Stays
<1>6. CASE RollbackRecord(o) BY <1>6 DEF RollbackRecord, Saves
<1>7. CASE RollbackRestore(o) BY <1>7 DEF RollbackRestore, Stays
<1>8. CASE RollbackRestored(o) BY <1>8 DEF RollbackRestored, Saves
<1>9. CASE RollbackStart(o) BY <1>9 DEF RollbackStart, Stays
<1>10. CASE RollbackStarted(o) BY <1>10 DEF RollbackStarted, Saves
<1>11. CASE RollbackVerify(o) BY <1>11 DEF RollbackVerify, Stays
<1>12. CASE RollbackComplete(o) BY <1>12 DEF RollbackComplete, Saves
<1>13. CASE RollbackFails(o)
  BY <1>1, <1>13 DEF RollbackFails, RollbackPcs, SaveAndExit
<1> QED
  BY <1>2, <1>3, <1>4, <1>5, <1>6, <1>7, <1>8, <1>9, <1>10, <1>11, <1>12, <1>13 DEF RollbackStep

LEMMA FinalizeShape ==
  ASSUME TypeOK, NEW o \in Operators, FinalizeStep(o)
  PROVE  Pc(o) # "idle" /\ (Ends(o) \/ Saves(o) \/ Stays(o))
<1>1. ASSUME Exit(o) PROVE Ends(o) BY <1>1, ExitDoes DEF Ends
<1>2. CASE Finalize(o) BY <1>2 DEF Finalize, Saves, Stays
<1>3. CASE FinalizeRefused(o) BY <1>1, <1>3 DEF FinalizeRefused
<1>4. CASE FinalizeGuard(o) BY <1>4 DEF FinalizeGuard, Saves
<1>5. CASE FinalizePush(o) BY <1>5 DEF FinalizePush, Stays
<1>6. CASE FinalizeOutcome(o) BY <1>1, <1>6 DEF FinalizeOutcome, Saves, SaveAndExit
<1>7. CASE FinalizeReconcile(o) BY <1>7 DEF FinalizeReconcile, Stays
<1>8. CASE FinalizeReconcileFails(o) BY <1>8 DEF FinalizeReconcileFails, Saves
<1>9. CASE FinalizeComplete(o) BY <1>9 DEF FinalizeComplete, Saves
<1> QED
  BY <1>2, <1>3, <1>4, <1>5, <1>6, <1>7, <1>8, <1>9 DEF FinalizeStep

LEMMA CurrentNext ==
  ASSUME Inv, Solo, MemoryCurrent, [Next]_vars
  PROVE  MemoryCurrent'
<1>1. CASE Edit \/ ForeignPush \/ Fetch \/ Flap \/ UNCHANGED vars
  <2>1. UNCHANGED <<op, file>> BY <1>1 DEF Edit, ForeignPush, Fetch, Flap, vars
  <2> QED BY <2>1 DEF MemoryCurrent, Current, Pc, Mem, Run
<1>2. ASSUME NEW o \in Operators, CommandStep(o) PROVE MemoryCurrent'
  <2>1. TypeOK BY DEF Inv
  <2>2. Pc(o) # "idle" => op[o] # Idle BY DEF Pc, Idle
  <2>3. CASE Pc(o) # "idle" /\ (Ends(o) \/ Saves(o) \/ Stays(o) \/ StageMerge(o))
    <3>1. Current(o) BY <2>2, <2>3 DEF MemoryCurrent
    <3>2. CASE Ends(o) BY <3>2, ExitCurrent DEF Ends
    <3>3. CASE Saves(o) BY <2>1, <2>3, <3>3, SaveCurrent DEF Saves
    <3>4. CASE Stays(o)
      BY <2>1, <2>3, <3>1, <3>4, GotoCurrent DEF Stays, Current
    <3>5. CASE StageMerge(o)
      BY <2>1, <2>3, <3>1, <3>5, GotoCurrent DEF StageMerge, Current
    <3> QED BY <2>3, <3>2, <3>3, <3>4, <3>5
  <2>4. ASSUME NEW r \in Runs, Stage(o, r) PROVE MemoryCurrent'
    <3>1. op'[o].pc = "claiming" /\ op'[o].run = r /\ op'[o].mem = NewRun /\ file'[r] = NewRun
      BY <2>1, <2>4 DEF Stage, TypeOK
    <3>2. Current(o)' BY <3>1 DEF Current, Pc, Mem, Run
    <3> QED BY <3>2 DEF Solo, MemoryCurrent
  <2>5. ASSUME NEW r \in Runs, NEW cmd, LoadRun(o, r, cmd) PROVE MemoryCurrent'
    <3>1. op'[o].pc = "loaded" /\ op'[o].run = r /\ op'[o].mem = file[r] /\ file' = file
      BY <2>1, <2>5 DEF LoadRun, TypeOK
    <3>2. Current(o)' BY <3>1 DEF Current, Pc, Mem, Run
    <3> QED BY <3>2 DEF Solo, MemoryCurrent
  <2>6. CASE Refused(o) \/ ClearActive(o) \/ Crash(o)
    <3>1. op'[o] = Idle BY <2>1, <2>6, ExitDoes DEF Refused, ClearActive, Crash
    <3> QED BY <3>1, ExitCurrent
  <2> QED
    BY <1>2, <2>1, <2>3, <2>4, <2>5, <2>6, StageShape, RollbackShape, FinalizeShape
       DEF CommandStep
<1> QED BY <1>1, <1>2 DEF Next

\* Who records which status.
LEMMA PersistBecomes ==
  ASSUME TypeOK, NEW o \in Operators, Run(o) \in Runs, NEW m, Persist(o, m),
         NEW r \in Runs, NEW st, Becomes(r, st)
  PROVE  r = Run(o) /\ m.status = st
BY DEF TypeOK, Persist, Becomes

LEMMA StageWrites ==
  ASSUME Inv, NEW o \in Operators, StageStep(o), NEW r \in Runs, NEW st, Becomes(r, st)
  PROVE  \/ st \in StageStatuses \cup {"AUTOMATED_CHECK_FAILED", "INTERRUPTED"}
         \/ st = "AWAITING_ACCEPTANCE" /\ r = Run(o) /\ StageComplete(o)
<1>1. CASE \E q \in Runs : Stage(o, q)
  <2>1. PICK q \in Runs : file' = [file EXCEPT ![q] = NewRun] BY <1>1 DEF Stage
  <2>2. NewRun.status = "INTERNAL_ERROR" BY DEF NewRun
  <2>3. file'[r] = NewRun BY <2>1 DEF Becomes, Inv, TypeOK
  <2> QED BY <2>2, <2>3 DEF Becomes, StageStatuses
<1>2. CASE Pc(o) # "idle"
  <2>1. TypeOK /\ Run(o) \in Runs /\ Mem(o) \in RunState BY <1>2, CommandTyped DEF Inv
  <2>2. \A s \in Statuses : With(o, s) \in RunState /\ With(o, s).status = s BY <2>1, WithTyped
  <2>3. \A m : Persist(o, m) => r = Run(o) /\ m.status = st BY <2>1, PersistBecomes
  <2>4. CASE StagePrepare(o)
    <3>1. Refines([With(o, "PRE_MERGE_TESTING") EXCEPT
                     !.before = IF Active THEN "active" ELSE "inactive"],
                  With(o, "PRE_MERGE_TESTING"))
      BY <2>2, FieldUpdates DEF Statuses
    <3>2. Refines([With(o, "MIGRATING") EXCEPT !.backup = data], With(o, "MIGRATING"))
      <4>1. data \in Heads BY DEF Inv, TypeOK
      <4> QED BY <2>2, <4>1, FieldUpdates DEF Statuses
    <3>3. PICK s \in {"PRE_MERGE_TESTING", "BACKING_UP", "MIGRATING", "MERGING"} :
            \E n : Persist(o, n) /\ (n = With(o, s) \/ Refines(n, With(o, s)))
      BY <2>4, <3>1, <3>2 DEF StagePrepare, Save
    <3>4. s \in Statuses /\ s \in StageStatuses BY DEF Statuses, StageStatuses
    <3> QED BY <2>2, <2>3, <3>3, <3>4 DEF Refines
  <2>5. CASE StageRecord(o)
    <3>1. [With(o, "POST_MERGE_TESTING") EXCEPT !.expected = repo].status = "POST_MERGE_TESTING"
      <4>1. repo \in Tree BY DEF Inv, TypeOK
      <4>2. /\ With(o, "POST_MERGE_TESTING") \in RunState
            /\ With(o, "POST_MERGE_TESTING").status = "POST_MERGE_TESTING"
        BY <2>2 DEF Statuses
      <4> QED BY <4>1, <4>2, FieldUpdates DEF Refines
    <3> QED BY <2>3, <2>5, <3>1 DEF StageRecord, Save, StageStatuses
  <2>6. CASE StageVerify(o)
    <3>1. CASE Persist(o, With(o, "RESTARTING_SERVICES"))
      BY <2>2, <2>3, <3>1 DEF Statuses, StageStatuses
    <3>2. CASE Persist(o, [With(o, "VERIFYING") EXCEPT !.snapshot = Snapshot])
      <4>1. [With(o, "VERIFYING") EXCEPT !.snapshot = Snapshot].status = "VERIFYING"
        BY <2>2 DEF RunState, Statuses
      <4> QED BY <2>3, <3>2, <4>1 DEF StageStatuses
    <3>3. CASE UNCHANGED file BY <3>3 DEF Becomes
    <3> QED BY <2>6, <3>1, <3>2, <3>3 DEF StageVerify, Save
  <2>7. CASE StageFails(o)
    <3>1. [With(o, "AUTOMATED_CHECK_FAILED") EXCEPT !.expected = repo].status = "AUTOMATED_CHECK_FAILED"
      <4>1. repo \in Tree BY DEF Inv, TypeOK
      <4>2. /\ With(o, "AUTOMATED_CHECK_FAILED") \in RunState
            /\ With(o, "AUTOMATED_CHECK_FAILED").status = "AUTOMATED_CHECK_FAILED"
        BY <2>2 DEF Statuses
      <4> QED BY <4>1, <4>2, FieldUpdates DEF Refines
    <3>2. With(o, "AUTOMATED_CHECK_FAILED").status = "AUTOMATED_CHECK_FAILED"
      BY <2>2 DEF Statuses
    <3>3. PICK n : /\ \/ n = With(o, "AUTOMATED_CHECK_FAILED")
                      \/ n = [With(o, "AUTOMATED_CHECK_FAILED") EXCEPT !.expected = repo]
                   /\ Persist(o, n)
      BY <2>7 DEF StageFails, Save
    <3>4. n.status = "AUTOMATED_CHECK_FAILED" BY <3>1, <3>2, <3>3
    <3> QED BY <2>3, <3>3, <3>4
  <2>8. CASE StageInterrupted(o)
    BY <2>2, <2>3, <2>8 DEF StageInterrupted, SaveAndExit, Statuses
  <2>9. CASE StageClaim(o) \/ StageMerge(o) \/ StageRestart(o)
    BY <2>9 DEF StageClaim, StageMerge, StageRestart, Becomes
  <2>10. CASE StageComplete(o)
    BY <2>2, <2>3, <2>10 DEF StageComplete, SaveAndExit, Statuses
  <2> QED BY <1>1, <2>4, <2>5, <2>6, <2>7, <2>8, <2>9, <2>10 DEF StageStep
<1> QED
  BY <1>1, <1>2 DEF StageStep, StageClaim, StagePrepare, StageMerge, StageRecord, StageRestart,
     StageVerify, StageComplete, StageFails, StageInterrupted, StagePcs

LEMMA RollbackWrites ==
  ASSUME Inv, NEW o \in Operators, RollbackStep(o), NEW r \in Runs, NEW st, Becomes(r, st)
  PROVE  \/ st \in {"ROLLING_BACK", "INTERNAL_ERROR"}
         \/ st = "ROLLED_BACK" /\ r = Run(o) /\ RollbackComplete(o)
<1>0. Pc(o) # "idle" BY RollbackShape DEF Inv
<1>1. TypeOK /\ Run(o) \in Runs /\ Mem(o) \in RunState BY <1>0, CommandTyped DEF Inv
<1>2. \A s \in Statuses : With(o, s) \in RunState /\ With(o, s).status = s BY <1>1, WithTyped
<1>3. \A m : Persist(o, m) => r = Run(o) /\ m.status = st BY <1>1, PersistBecomes
<1>4. repo \in Tree BY DEF Inv, TypeOK
<1>5. ASSUME NEW n, Persist(o, n), Refines(n, Mem(o)), Pc(o) \in RollbackPcs \ {"checking"}
      PROVE  st = "ROLLING_BACK"
  BY <1>3, <1>5, RollingBack DEF Refines
<1>6. CASE RollbackCheck(o)
  BY <1>2, <1>3, <1>6 DEF RollbackCheck, Save, SaveAndExit, Statuses, Becomes
<1>7. CASE RollbackRecord(o)
  <2>1. PICK n : n = [Mem(o) EXCEPT !.expected = repo, !.git = TRUE] /\ Persist(o, n)
    BY <1>7 DEF RollbackRecord, Save
  <2>2. Refines(n, Mem(o)) BY <1>1, <1>4, <2>1, FieldUpdates
  <2> QED BY <1>5, <1>7, <2>1, <2>2 DEF RollbackRecord, RollbackPcs
<1>8. CASE RollbackRestored(o)
  <2>1. PICK n : n = [Mem(o) EXCEPT !.backups = TRUE] /\ Persist(o, n)
    BY <1>8 DEF RollbackRestored, Save
  <2>2. Refines(n, Mem(o)) BY <1>1, <2>1, FieldUpdates
  <2> QED BY <1>5, <1>8, <2>1, <2>2 DEF RollbackRestored, RollbackPcs
<1>9. CASE RollbackStarted(o)
  <2>1. PICK n : n = [Mem(o) EXCEPT !.services = TRUE] /\ Persist(o, n)
    BY <1>9 DEF RollbackStarted, Save
  <2>2. Refines(n, Mem(o)) BY <1>1, <2>1, FieldUpdates
  <2> QED BY <1>5, <1>9, <2>1, <2>2 DEF RollbackStarted, RollbackPcs
<1>10. CASE RollbackComplete(o)
  <2>1. PICK n : /\ n = [With(o, "ROLLED_BACK") EXCEPT
                          !.expected = [head |-> Mem(o).baseline, dirty |-> FALSE]]
                 /\ Persist(o, n)
    BY <1>10 DEF RollbackComplete, Save
  <2>2. PICK w : w = With(o, "ROLLED_BACK") OBVIOUS
  <2>3. w \in RunState /\ w.status = "ROLLED_BACK" BY <1>2, <2>2 DEF Statuses
  <2>4. PICK v \in Tree : v = [head |-> Mem(o).baseline, dirty |-> FALSE] BY <1>1, BaselineTree
  <2>5. Refines([w EXCEPT !.expected = v], w) BY <2>3, FieldUpdates
  <2>6. n.status = "ROLLED_BACK" BY <2>1, <2>2, <2>3, <2>4, <2>5 DEF Refines
  <2> QED BY <1>3, <1>10, <2>1, <2>6
<1>11. CASE RollbackFails(o)
  <2>1. PICK w \in RunState : w = With(o, "INTERNAL_ERROR") /\ w.status = "INTERNAL_ERROR"
    BY <1>2 DEF Statuses
  <2>2. PICK v \in Tree : v = [head |-> Mem(o).baseline, dirty |-> FALSE] BY <1>1, BaselineTree
  <2>3. /\ Refines([w EXCEPT !.expected = repo, !.git = TRUE], w)
        /\ Refines([w EXCEPT !.backups = TRUE], w)
        /\ Refines([w EXCEPT !.services = TRUE], w)
        /\ Refines([w EXCEPT !.expected = v], w)
    BY <1>4, FieldUpdates
  <2>4. PICK n : Persist(o, n) /\ (n = w \/ Refines(n, w))
    BY <1>11, <2>1, <2>2, <2>3 DEF RollbackFails, SaveAndExit
  <2> QED BY <1>3, <2>1, <2>4 DEF Refines
<1>12. CASE \/ Rollback(o) \/ RollbackStop(o) \/ RollbackReset(o) \/ RollbackRestore(o)
            \/ RollbackStart(o) \/ RollbackVerify(o)
  BY <1>12 DEF Rollback, RollbackStop, RollbackReset, RollbackRestore, RollbackStart,
     RollbackVerify, Becomes
<1> QED BY <1>6, <1>7, <1>8, <1>9, <1>10, <1>11, <1>12 DEF RollbackStep

LEMMA FinalizeWrites ==
  ASSUME Inv, MemoryCurrent, NEW o \in Operators, FinalizeStep(o),
         NEW r \in Runs, NEW st, Becomes(r, st)
  PROVE  \/ st \in Handed \cup {"INTERNAL_ERROR"}
         \/ st = "FINALIZING" /\ file[r].status = "AWAITING_ACCEPTANCE"
<1>0. Pc(o) # "idle" /\ Pc(o) # "merged" /\ op[o] # Idle
  <2>1. Pc(o) # "idle" BY FinalizeShape DEF Inv
  <2> QED
    BY <2>1, CommandTyped DEF Inv, FinalizeStep, Finalize, FinalizeRefused, FinalizeGuard,
       FinalizePush, FinalizeOutcome, FinalizeReconcile, FinalizeReconcileFails, FinalizeComplete
<1>1. TypeOK /\ Run(o) \in Runs /\ Mem(o) \in RunState BY <1>0, CommandTyped DEF Inv
<1>2. \A s \in Statuses : With(o, s) \in RunState /\ With(o, s).status = s BY <1>1, WithTyped
<1>3. \A m : Persist(o, m) => r = Run(o) /\ m.status = st BY <1>1, PersistBecomes
<1>4. Mem(o) = file[Run(o)] /\ Current(o) BY <1>0 DEF MemoryCurrent, Current
<1>5. ~Persist(o, Mem(o)) BY <1>1, <1>3, <1>4 DEF Becomes
<1>6. CASE Finalize(o)
  BY <1>2, <1>3, <1>5, <1>6 DEF Finalize, Save, Statuses, Becomes
<1>7. CASE FinalizeGuard(o)
  <2>1. r = Run(o) /\ st = "FINALIZING"
    BY <1>2, <1>3, <1>7 DEF FinalizeGuard, Save, Statuses
  <2>2. Mem(o).status \in {"AWAITING_ACCEPTANCE", "FINALIZING"}
    BY <1>4, <1>7 DEF FinalizeGuard, Current
  <2> QED BY <1>4, <2>1, <2>2 DEF Becomes
<1>8. CASE FinalizeOutcome(o)
  BY <1>2, <1>3, <1>5, <1>8 DEF FinalizeOutcome, Save, SaveAndExit, Statuses
<1>9. CASE FinalizeReconcileFails(o) \/ FinalizeComplete(o)
  BY <1>2, <1>3, <1>9 DEF FinalizeReconcileFails, FinalizeComplete, Save, Statuses, Handed
<1>10. CASE FinalizeRefused(o) \/ FinalizePush(o) \/ FinalizeReconcile(o)
  BY <1>10 DEF FinalizeRefused, FinalizePush, FinalizeReconcile, Becomes
<1> QED BY <1>6, <1>7, <1>8, <1>9, <1>10 DEF FinalizeStep

\* Only a push moves main on the server, to the commit of a run whose
\* acceptance is on record and which was tested on what it moves from.
LEMMA PushMoves ==
  ASSUME Inv, MemoryCurrent, [Next]_vars, NEW r \in Runs, ServerMain' = r, ServerMain # r
  PROVE  ServerMain = file[r].baseline /\ file[r].status = "FINALIZING"
<1>1. origin.main \in Seq(Heads \cup {Foreign}) /\ Foreign # r
  BY IntegrationAssumption DEF Inv, TypeOK
<1>2. origin'.main # origin.main BY DEF ServerMain
<1>3. ~ForeignPush
  <2> SUFFICES ASSUME ForeignPush PROVE FALSE OBVIOUS
  <2>1. origin'.main = Append(origin.main, Foreign) BY DEF ForeignPush, Inv, TypeOK
  <2>2. ServerMain' = Foreign BY <1>1, <2>1 DEF ServerMain
  <2> QED BY <1>1, <2>2
<1>4. ~Fetch /\ ~Edit /\ ~Flap /\ ~UNCHANGED vars
  BY <1>2 DEF Fetch, Edit, Flap, vars, Inv, TypeOK
<1>5. PICK o \in Operators : CommandStep(o) BY <1>3, <1>4 DEF Next
<1>6. FinalizePush(o)
  <2>1. ~StageStep(o)
    BY <1>2 DEF StageStep, Stage, StageClaim, StagePrepare, StageMerge, StageRecord, StageRestart,
       StageVerify, StageComplete, StageFails, StageInterrupted, worldVars
  <2>2. ~RollbackStep(o)
    BY <1>2 DEF RollbackStep, Rollback, RollbackCheck, RollbackStop, RollbackReset, RollbackRecord,
       RollbackRestore, RollbackRestored, RollbackStart, RollbackStarted, RollbackVerify,
       RollbackComplete, RollbackFails, worldVars
  <2>3. FinalizeStep(o)
    BY <1>2, <1>5, <2>1, <2>2 DEF CommandStep, LoadRun, Refused, ClearActive, Crash, worldVars
  <2> QED
    BY <1>2, <2>3 DEF FinalizeStep, Finalize, FinalizeRefused, FinalizeGuard, FinalizeOutcome,
       FinalizeReconcile, FinalizeReconcileFails, FinalizeComplete, worldVars
<1>7. HoldsLock(o) /\ Pc(o) = "pushing" /\ op[o] # Idle
  BY <1>6 DEF FinalizePush, HoldsLock, Pc, Idle
<1>8. /\ Mem(o).status = "FINALIZING" /\ Mem(o).staged = Run(o)
      /\ Mem(o) = file[Run(o)]
  BY <1>7, Alone DEF At, MemoryCurrent, Current
<1>9. /\ ServerMain \in {Mem(o).baseline, Mem(o).staged}
      /\ ServerMain # Mem(o).staged
      /\ origin'.main = Append(origin.main, Mem(o).staged)
  BY <1>2, <1>6 DEF FinalizePush, Inv, TypeOK
<1>10. ServerMain' = Run(o)
  <2>1. Run(o) \in Heads \cup {Foreign} BY <1>7, Alone DEF Heads
  <2> QED BY <1>1, <1>8, <1>9, <2>1 DEF ServerMain
<1> QED BY <1>8, <1>9, <1>10

\* With one operator at a time, only what awaited acceptance is pushed, onto
\* the baseline it was tested on and with its acceptance on record, whatever
\* was killed, edited, restarted or pushed in between.
THEOREM AcceptedPushed ==
  ASSUME Solo
  PROVE  Spec => AcceptedIsPushed
<1>1. Init => MemoryCurrent BY DEF Init, MemoryCurrent
<1>2. Inv /\ MemoryCurrent /\ [Next]_vars => MemoryCurrent' BY CurrentNext
<1>3. ASSUME Inv, MemoryCurrent, Next
      PROVE  \A r \in Runs :
               /\ Becomes(r, "FINALIZING") => file[r].status = "AWAITING_ACCEPTANCE"
               /\ (ServerMain' = r /\ ServerMain # r) =>
                    ServerMain = file[r].baseline /\ file[r].status = "FINALIZING"
  <2> SUFFICES ASSUME NEW r \in Runs, Becomes(r, "FINALIZING")
               PROVE  file[r].status = "AWAITING_ACCEPTANCE"
    BY <1>3, PushMoves
  <2>1. ~(Edit \/ ForeignPush \/ Fetch \/ Flap)
    BY DEF Edit, ForeignPush, Fetch, Flap, Becomes
  <2>2. PICK o \in Operators : CommandStep(o) BY <1>3, <2>1 DEF Next
  <2>3. ~StageStep(o) BY <1>3, StageWrites DEF StageStatuses
  <2>4. ~RollbackStep(o) BY <1>3, RollbackWrites
  <2>5. FinalizeStep(o)
    BY <2>2, <2>3, <2>4 DEF CommandStep, LoadRun, Refused, ClearActive, Crash, Becomes
  <2> QED BY <1>3, <2>5, FinalizeWrites DEF Handed
<1>4. Spec => [](Inv /\ MemoryCurrent)
  BY <1>1, <1>2, InitInv, NextInv, PTL DEF Spec
<1>5. Inv /\ MemoryCurrent /\ [Next]_vars =>
        [\A r \in Runs :
           /\ Becomes(r, "FINALIZING") => file[r].status = "AWAITING_ACCEPTANCE"
           /\ (ServerMain' = r /\ ServerMain # r) =>
                ServerMain = file[r].baseline /\ file[r].status = "FINALIZING"]_vars
  BY <1>3
<1> QED BY <1>4, <1>5, PTL DEF Spec, AcceptedIsPushed

-----------------------------------------------------------------------------
(* What is recorded is what is deployed, one operator at a time            *)

\* What the file of a run says about itself: the order of the milestones, and
\* the head its guards compare with.
Recorded(f, r) ==
  /\ f.baseline # r
  /\ f.expected.head \in {f.baseline, r}
  /\ f.expected.head = r => f.backup # None
  /\ (f.backups => f.git) /\ (f.services => f.backups)
  /\ f.git => f.status \in {"ROLLING_BACK", "INTERNAL_ERROR", "ROLLED_BACK"}

\* A run that is past its reset and not rolled back keeps the checkout.
Reset(f, r) == f.git /\ f.status # "ROLLED_BACK" => marker = r /\ repo.head = f.baseline

\* What a command at pc, with the file f of run r, relies on.
Stands(pc, f, r) ==
  /\ pc \in StagePcs \cup {"claiming"} => ~f.git
  /\ pc = "claiming" => marker # r
  /\ pc \in {"claiming", "preparing", "merging"} =>
       repo.head = f.baseline /\ f.expected.head = f.baseline
  /\ pc = "preparing" /\ f.status = "MIGRATING" => f.backup # None
  /\ pc \in {"merging", "merged", "staging", "restarted", "accepting"} => f.backup # None
  /\ pc \in {"merged", "staging", "restarted", "accepting"} => repo.head = r
  /\ pc \in {"staging", "restarted", "accepting"} => f.expected = [head |-> r, dirty |-> FALSE]
  /\ pc \in {"stopping", "resetting", "recording"} => ~f.git
  /\ pc \in {"stopping", "resetting"} => repo.head = f.expected.head
  /\ pc = "recording" => repo.head = f.baseline
  /\ pc \in {"restoring", "restored"} => f.git /\ ~f.backups
  /\ pc \in {"starting", "started"} => f.backups /\ ~f.services
  /\ pc \in {"verifying", "verified"} => f.services
  /\ pc = "clearing" /\ f.git => f.status = "ROLLED_BACK"

CheckoutKnown ==
  /\ repo.head \in Runs => file[repo.head] # NoRun
  /\ marker \in Runs => file[marker] # NoRun
  /\ \A r \in Runs : file[r] # NoRun =>
       /\ Recorded(file[r], r) /\ Reset(file[r], r)
       /\ file[r].baseline \in Runs => file[file[r].baseline] # NoRun
  /\ \A o \in Operators : HoldsLock(o) => Stands(Pc(o), file[Run(o)], Run(o))

\* Where the service has been stopped from the start, it is never started and
\* the data stays what it was.
Unserved ==
  /\ ~Active /\ data = Base
  /\ \A r \in Runs : file[r] # NoRun => file[r].before # "active" /\ file[r].backup \in {None, Base}

\* Where it has run from the start, it runs, on the data of the checkout,
\* unless the run that holds the marker has been merged and not restarted, or
\* is being undone.
Level == Active /\ data = repo.head

Accepted == {"AWAITING_ACCEPTANCE", "FINALIZING", "FINALIZED", "FINALIZE_RECOVERY_REQUIRED",
             "ROLLED_BACK"}

Merged(f, r) ==
  /\ Active /\ f.status \notin Accepted /\ ~f.git
  /\ repo.head = r /\ data = f.baseline

Undoing(f, r) ==
  /\ ~Active /\ f.status \notin Accepted
  /\ data \in {f.baseline, r} /\ repo.head \in {f.baseline, r}
  /\ (f.backup = None => data = f.baseline) /\ (f.backups => data = f.baseline)
  /\ ~f.services

ServesAt(pc, f, r) ==
  /\ pc \in {"preparing", "merging", "clearing"} => Level
  /\ pc \in StagePcs =>
       Active /\ (f.status # "INTERNAL_ERROR" => f.before = "active")
  /\ pc \in {"restarted", "accepting"} \/ (pc = "staging" /\ f.status = "VERIFYING") =>
       service.code = r /\ data = r
  /\ pc \in {"resetting", "recording", "restoring", "restored"} => ~Active
  /\ pc = "restored" => data = f.baseline
  /\ pc = "started" => Level

Serves(f, r) ==
  /\ f.before # "inactive"
  /\ f.backup # None => f.backup = f.baseline /\ f.before = "active"
  /\ marker = r => Level \/ Merged(f, r) \/ Undoing(f, r)
  /\ Active /\ f.git /\ f.status # "ROLLED_BACK" =>
       /\ f.backups /\ f.before = "active"
       /\ service.code = f.baseline /\ data = f.baseline
  /\ f.services /\ f.status # "ROLLED_BACK" => Active

Served ==
  /\ marker = None => Level
  /\ \A r \in Runs : file[r] # NoRun => Serves(file[r], r)
  /\ \A o \in Operators : HoldsLock(o) => ServesAt(Pc(o), file[Run(o)], Run(o))

Deployed == CheckoutKnown /\ (Unserved \/ Served)

\* Two states of a run that differ at most in some of these fields.
SameSetup(n, m) ==
  /\ n.baseline = m.baseline /\ n.before = m.before /\ n.backup = m.backup
SameMilestones(n, m) == n.git = m.git /\ n.backups = m.backups /\ n.services = m.services

LEMMA StatusOnly ==
  ASSUME NEW m \in RunState, NEW st \in Statuses
  PROVE  LET n == [m EXCEPT !.status = st] IN
         n \in RunState /\ n.status = st /\ n.expected = m.expected
         /\ SameSetup(n, m) /\ SameMilestones(n, m)
BY StatusUpdate DEF SameSetup, SameMilestones

LEMMA ResetFields ==
  ASSUME NEW m \in RunState, NEW v \in Tree
  PROVE  LET n == [m EXCEPT !.expected = v, !.git = TRUE] IN
         /\ n.git /\ n.backups = m.backups /\ n.services = m.services
         /\ n.status = m.status /\ n.expected = v /\ SameSetup(n, m)
<1>1. PICK k : k = [m EXCEPT !.expected = v] OBVIOUS
<1>2. /\ k \in RunState /\ k.expected = v /\ k.status = m.status
      /\ SameSetup(k, m) /\ SameMilestones(k, m)
  BY <1>1 DEF RunState, SameSetup, SameMilestones
<1>3. PICK n : n = [k EXCEPT !.git = TRUE] OBVIOUS
<1>4. /\ n.git /\ n.backups = k.backups /\ n.services = k.services
      /\ n.status = k.status /\ n.expected = k.expected /\ SameSetup(n, k)
  BY <1>2, <1>3 DEF RunState, SameSetup
<1>5. n = [m EXCEPT !.expected = v, !.git = TRUE] BY <1>1, <1>3
<1> QED BY <1>2, <1>4, <1>5 DEF SameSetup, SameMilestones

\* What a command under the lock relies on, all together.
LEMMA Facts ==
  ASSUME Inv, MemoryCurrent, CheckoutKnown, NEW o \in Operators, HoldsLock(o)
  PROVE  /\ Run(o) \in Runs /\ file[Run(o)] \in RunState /\ file[Run(o)] # NoRun
         /\ Mem(o) \in RunState /\ Pc(o) # "idle" /\ op[o] # Idle
         /\ Pc(o) # "merged" => Mem(o) = file[Run(o)]
         /\ Mem(o).status = file[Run(o)].status /\ Mem(o).expected = file[Run(o)].expected
         /\ SameSetup(Mem(o), file[Run(o)]) /\ SameMilestones(Mem(o), file[Run(o)])
         /\ Recorded(file[Run(o)], Run(o)) /\ Reset(file[Run(o)], Run(o))
         /\ Stands(Pc(o), file[Run(o)], Run(o))
         /\ At(Pc(o), Mem(o), file[Run(o)], Run(o))
         /\ Pc(o) # "claiming" => marker = Run(o)
<1>1. /\ Mem(o) \in RunState /\ Run(o) \in Runs /\ At(Pc(o), Mem(o), file[Run(o)], Run(o))
      /\ Pc(o) # "claiming" => marker = Run(o)
  BY Alone
<1>2. Pc(o) # "idle" /\ op[o] # Idle BY DEF HoldsLock, Pc, Idle
<1>3. Current(o) BY <1>2 DEF MemoryCurrent
<1>4. NoRun.status \notin Statuses BY StatusAssumption DEF NoRun
<1>5. file[Run(o)] \in RunState /\ file[Run(o)] # NoRun
  <2>1. Mem(o).status \in Statuses BY <1>1 DEF RunState
  <2>2. file[Run(o)].status = Mem(o).status
    BY <1>1, <1>3 DEF Current, At, StagePcs
  <2>3. file[Run(o)] \in RunState \cup {NoRun} BY <1>1 DEF Inv, TypeOK
  <2> QED BY <1>4, <2>1, <2>2, <2>3
<1>6. /\ Mem(o).status = file[Run(o)].status /\ Mem(o).expected = file[Run(o)].expected
      /\ SameSetup(Mem(o), file[Run(o)]) /\ SameMilestones(Mem(o), file[Run(o)])
  <2>1. CASE Pc(o) = "merged"
    <3>1. PICK f \in RunState : f = file[Run(o)] BY <1>5
    <3>2. Mem(o) = [f EXCEPT !.staged = Run(o)] BY <1>3, <2>1, <3>1 DEF Current
    <3> QED BY <3>1, <3>2 DEF RunState, SameSetup, SameMilestones
  <2>2. CASE Pc(o) # "merged" BY <1>3, <2>2 DEF Current, SameSetup, SameMilestones
  <2> QED BY <2>1, <2>2
<1> QED BY <1>1, <1>2, <1>3, <1>5, <1>6 DEF CheckoutKnown, Current

\* A step of the command that has, or takes, the marker.
LEMMA CheckoutStep ==
  ASSUME Solo, CheckoutKnown, NEW o \in Operators, NEW r \in Runs, marker \in {None, r},
         \A q \in Runs \ {r} : file'[q] = file[q],
         file'[r] # NoRun, Recorded(file'[r], r),
         file'[r].baseline \in Runs => file[file'[r].baseline] # NoRun,
         file'[r].git /\ file'[r].status # "ROLLED_BACK" =>
           marker' = r /\ repo'.head = file'[r].baseline,
         repo'.head \in Runs => file'[repo'.head] # NoRun,
         marker' \in {None, r},
         \/ op'[o] = Idle
         \/ op'[o].run = r /\ Stands(Pc(o), file[r], r)'
  PROVE  CheckoutKnown'
<1>1. (repo.head \in Runs => file[repo.head] # NoRun)'
  BY DEF CheckoutKnown
<1>2. (marker \in Runs => file[marker] # NoRun)'
  BY IntegrationAssumption
<1>3. ASSUME NEW q \in Runs, file'[q] # NoRun
      PROVE  /\ Recorded(file'[q], q) /\ Reset(file[q], q)'
             /\ file'[q].baseline \in Runs => file'[file'[q].baseline] # NoRun
  <2>1. \A c \in Runs : file[c] # NoRun => file'[c] # NoRun OBVIOUS
  <2>2. CASE q = r BY <2>1, <2>2 DEF Reset
  <2>3. CASE q # r
    <3>1. /\ file'[q] = file[q] /\ Recorded(file[q], q) /\ Reset(file[q], q)
          /\ file[q].baseline \in Runs => file[file[q].baseline] # NoRun
      BY <1>3, <2>3 DEF CheckoutKnown
    <3>2. ~(file[q].git /\ file[q].status # "ROLLED_BACK")
      BY <2>3, <3>1, IntegrationAssumption DEF Reset
    <3> QED BY <2>1, <3>1, <3>2 DEF Reset
  <2> QED BY <2>2, <2>3
<1>4. ASSUME NEW p \in Operators, HoldsLock(p)' PROVE Stands(Pc(p), file[Run(p)], Run(p))'
  <2>1. p = o BY DEF Solo
  <2>2. op'[o] # Idle BY <1>4, <2>1 DEF HoldsLock, Pc, Idle
  <2> QED BY <2>1, <2>2 DEF Run
<1> QED BY <1>1, <1>2, <1>3, <1>4 DEF CheckoutKnown, Recorded

LEMMA CheckoutSave ==
  ASSUME Inv, Solo, MemoryCurrent, CheckoutKnown, NEW o \in Operators, HoldsLock(o),
         Pc(o) # "claiming", NEW n \in RunState, Persist(o, n), repo' = repo, marker' = marker,
         NEW pc, \/ Exit(o)
                 \/ Goto(o, pc, n) /\ Stands(pc, n, Run(o)),
         n.baseline = file[Run(o)].baseline, Recorded(n, Run(o)),
         n.git /\ n.status # "ROLLED_BACK" => repo.head = n.baseline
  PROVE  CheckoutKnown'
<1>1. PICK r \in Runs : r = Run(o) BY Facts
<1>2. /\ file[r] # NoRun /\ marker = r /\ Pc(o) # "idle" /\ TypeOK
      /\ file[r].baseline \in Runs => file[file[r].baseline] # NoRun
  BY <1>1, Facts DEF CheckoutKnown, Inv
<1>3. file'[r] = n /\ \A q \in Runs \ {r} : file'[q] = file[q]
  BY <1>1, <1>2, PersistDoes
<1>4. n # NoRun
  <2>1. NoRun.status \notin Statuses BY StatusAssumption DEF NoRun
  <2> QED BY <2>1 DEF RunState
<1>5. \A c \in Runs : file[c] # NoRun => file'[c] # NoRun BY <1>3, <1>4
<1>6. repo'.head \in Runs => file'[repo'.head] # NoRun BY <1>5 DEF CheckoutKnown
<1>7. \/ op'[o] = Idle
      \/ op'[o].run = r /\ Stands(Pc(o), file[r], r)'
  <2>1. CASE Exit(o) BY <1>2, <2>1, ExitDoes
  <2>2. CASE Goto(o, pc, n) /\ Stands(pc, n, Run(o))
    <3>1. op'[o].pc = pc /\ op'[o].run = r BY <1>1, <1>2, <2>2, GotoSets
    <3> QED BY <1>1, <1>3, <2>2, <3>1 DEF Stands, Pc
  <2> QED BY <2>1, <2>2
<1> QED BY <1>1, <1>2, <1>3, <1>4, <1>6, <1>7, CheckoutStep

LEMMA CheckoutMove ==
  ASSUME Inv, Solo, MemoryCurrent, CheckoutKnown, NEW o \in Operators, HoldsLock(o),
         NEW r \in Runs, r = Run(o),
         file' = file, NEW pc, NEW m, Goto(o, pc, m), marker' = r, marker \in {None, r},
         repo'.head \in {repo.head, r, file[r].baseline},
         Stands(pc, file[r], r)',
         file[r].git /\ file[r].status # "ROLLED_BACK" => repo'.head = file[r].baseline
  PROVE  CheckoutKnown'
<1>2. /\ file[r] # NoRun /\ Pc(o) # "idle" /\ TypeOK /\ Recorded(file[r], r)
      /\ file[r].baseline \in Runs => file[file[r].baseline] # NoRun
  BY Facts DEF CheckoutKnown, Inv
<1>3. repo'.head \in Runs => file'[repo'.head] # NoRun
  BY <1>2 DEF CheckoutKnown
<1>4. op'[o].pc = pc /\ op'[o].run = r BY <1>2, GotoSets
<1>5. op'[o].run = r /\ Stands(Pc(o), file[r], r)' BY <1>4 DEF Pc
<1> QED BY <1>2, <1>3, <1>5, CheckoutStep

\* What the saving steps write.
Moved(n, f, st) ==
  n.status = st /\ n.expected = f.expected /\ SameSetup(n, f) /\ SameMilestones(n, f)

LEMMA WithMoved ==
  ASSUME Inv, MemoryCurrent, CheckoutKnown, NEW o \in Operators, HoldsLock(o), NEW st \in Statuses
  PROVE  With(o, st) \in RunState /\ Moved(With(o, st), file[Run(o)], st)
<1>1. PICK m \in RunState : m = Mem(o) BY Facts
<1>2. PICK n : n = [m EXCEPT !.status = st] OBVIOUS
<1>3. n \in RunState /\ Moved(n, m, st) BY <1>2, StatusOnly DEF Moved
<1>4. n = With(o, st) BY <1>1, <1>2 DEF With
<1>5. /\ SameSetup(m, file[Run(o)]) /\ SameMilestones(m, file[Run(o)])
      /\ m.expected = file[Run(o)].expected
  BY <1>1, Facts
<1> QED BY <1>3, <1>4, <1>5 DEF Moved, SameSetup, SameMilestones

LEMMA StagePrepareSaves ==
  ASSUME Inv, MemoryCurrent, CheckoutKnown, NEW o \in Operators, StagePrepare(o)
  PROVE  \E pc \in {"preparing", "merging"} : \E n \in RunState :
           /\ Save(o, pc, n)
           /\ LET f == file[Run(o)] IN
              /\ n.baseline = f.baseline /\ n.expected = f.expected /\ SameMilestones(n, f)
              /\ \/ /\ pc = "preparing" /\ n.status = "PRE_MERGE_TESTING" /\ n.backup = f.backup
                    /\ n.before = IF Active THEN "active" ELSE "inactive"
                    /\ f.status = "INTERNAL_ERROR"
                 \/ /\ pc = "preparing" /\ n.status = "BACKING_UP" /\ SameSetup(n, f)
                    /\ f.status = "PRE_MERGE_TESTING"
                 \/ /\ pc = "preparing" /\ n.status = "MIGRATING" /\ n.before = f.before
                    /\ n.backup = data /\ f.status = "BACKING_UP"
                 \/ /\ pc = "merging" /\ n.status = "MERGING" /\ SameSetup(n, f)
                    /\ f.status = "MIGRATING"
<1>1. HoldsLock(o) /\ Pc(o) = "preparing" BY DEF StagePrepare, HoldsLock
<1>2. PICK f \in RunState : f = file[Run(o)] BY <1>1, Facts
<1>3. Mem(o).status = f.status BY <1>1, <1>2, Facts
<1>4. \A st \in Statuses : With(o, st) \in RunState /\ Moved(With(o, st), f, st)
  BY <1>1, <1>2, WithMoved
<1>5. CASE /\ Mem(o).status = "INTERNAL_ERROR"
           /\ Save(o, "preparing", [With(o, "PRE_MERGE_TESTING") EXCEPT
                                      !.before = IF Active THEN "active" ELSE "inactive"])
  <2>1. PICK k \in RunState : k = With(o, "PRE_MERGE_TESTING") BY <1>4 DEF Statuses
  <2>2. Moved(k, f, "PRE_MERGE_TESTING") BY <1>4, <2>1 DEF Statuses
  <2>3. PICK v \in {"active", "inactive"} : v = IF Active THEN "active" ELSE "inactive" OBVIOUS
  <2>4. PICK n : n = [k EXCEPT !.before = v] OBVIOUS
  <2>5. /\ n \in RunState /\ n.status = k.status /\ n.baseline = k.baseline /\ n.backup = k.backup
        /\ n.expected = k.expected /\ SameMilestones(n, k) /\ n.before = v
    BY <2>4 DEF RunState, SameMilestones
  <2>6. Save(o, "preparing", n) BY <1>5, <2>1, <2>3, <2>4
  <2>7. /\ n.baseline = f.baseline /\ n.expected = f.expected /\ SameMilestones(n, f)
        /\ n.status = "PRE_MERGE_TESTING" /\ n.backup = f.backup
    BY <2>2, <2>5 DEF Moved, SameSetup, SameMilestones
  <2> QED BY <1>2, <1>3, <1>5, <2>3, <2>5, <2>6, <2>7
<1>6. CASE Mem(o).status = "PRE_MERGE_TESTING" /\ Save(o, "preparing", With(o, "BACKING_UP"))
  <2>1. PICK n \in RunState : n = With(o, "BACKING_UP") BY <1>4 DEF Statuses
  <2>2. Moved(n, f, "BACKING_UP") BY <1>4, <2>1 DEF Statuses
  <2> QED BY <1>2, <1>3, <1>6, <2>1, <2>2 DEF Moved, SameSetup
<1>7. CASE /\ Mem(o).status = "BACKING_UP"
           /\ Save(o, "preparing", [With(o, "MIGRATING") EXCEPT !.backup = data])
  <2>1. PICK k \in RunState : k = With(o, "MIGRATING") BY <1>4 DEF Statuses
  <2>2. Moved(k, f, "MIGRATING") BY <1>4, <2>1 DEF Statuses
  <2>3. data \in Heads BY DEF Inv, TypeOK
  <2>4. PICK n : n = [k EXCEPT !.backup = data] OBVIOUS
  <2>5. /\ n \in RunState /\ n.status = k.status /\ n.baseline = k.baseline /\ n.before = k.before
        /\ n.expected = k.expected /\ SameMilestones(n, k) /\ n.backup = data
    BY <2>3, <2>4 DEF RunState, SameMilestones
  <2>6. Save(o, "preparing", n) BY <1>7, <2>1, <2>4
  <2>7. /\ n.baseline = f.baseline /\ n.expected = f.expected /\ SameMilestones(n, f)
        /\ n.status = "MIGRATING" /\ n.before = f.before
    BY <2>2, <2>5 DEF Moved, SameSetup, SameMilestones
  <2> QED BY <1>2, <1>3, <1>7, <2>5, <2>6, <2>7
<1>8. CASE Mem(o).status = "MIGRATING" /\ Save(o, "merging", With(o, "MERGING"))
  <2>1. PICK n \in RunState : n = With(o, "MERGING") BY <1>4 DEF Statuses
  <2>2. Moved(n, f, "MERGING") BY <1>4, <2>1 DEF Statuses
  <2> QED BY <1>2, <1>3, <1>8, <2>1, <2>2 DEF Moved, SameSetup
<1> QED BY <1>5, <1>6, <1>7, <1>8 DEF StagePrepare

\* n is the command's state of the run with this status and this expected.
ExpectedSave(o, st, v, n) == n = [With(o, st) EXCEPT !.expected = v]

\* The states that record where the checkout is.
LEMMA ExpectedSaves ==
  ASSUME Inv, MemoryCurrent, CheckoutKnown, NEW o \in Operators, HoldsLock(o),
         NEW st \in Statuses, NEW v \in Tree, NEW n, ExpectedSave(o, st, v, n)
  PROVE  /\ n \in RunState /\ n.status = st /\ n.expected = v
         /\ SameSetup(n, file[Run(o)]) /\ SameMilestones(n, file[Run(o)])
<1>1. PICK k \in RunState : k = With(o, st) BY WithMoved
<1>2. Moved(k, file[Run(o)], st) BY <1>1, WithMoved
<1>3. n = [k EXCEPT !.expected = v] BY <1>1 DEF ExpectedSave
<1>4. /\ n \in RunState /\ n.status = k.status /\ n.expected = v
      /\ SameSetup(n, k) /\ SameMilestones(n, k)
  BY <1>3 DEF RunState, SameSetup, SameMilestones
<1> QED BY <1>2, <1>4 DEF Moved, SameSetup, SameMilestones

\* The milestones.
LEMMA MilestoneSaves ==
  ASSUME Inv, MemoryCurrent, CheckoutKnown, NEW o \in Operators, HoldsLock(o), Pc(o) # "merged"
  PROVE  LET f == file[Run(o)] IN
         /\ LET n == [Mem(o) EXCEPT !.expected = repo, !.git = TRUE] IN
            /\ n \in RunState /\ n.status = f.status /\ n.expected = repo /\ SameSetup(n, f)
            /\ n.git /\ n.backups = f.backups /\ n.services = f.services
         /\ LET n == [Mem(o) EXCEPT !.backups = TRUE] IN
            /\ n \in RunState /\ n.status = f.status /\ n.expected = f.expected /\ SameSetup(n, f)
            /\ n.backups /\ n.git = f.git /\ n.services = f.services
         /\ LET n == [Mem(o) EXCEPT !.services = TRUE] IN
            /\ n \in RunState /\ n.status = f.status /\ n.expected = f.expected /\ SameSetup(n, f)
            /\ n.services /\ n.git = f.git /\ n.backups = f.backups
<1>1. PICK f \in RunState : f = file[Run(o)] BY Facts
<1>2. Mem(o) = f BY <1>1, Facts
<1>3. repo \in Tree BY DEF Inv, TypeOK
<1>4. LET n == [f EXCEPT !.expected = repo, !.git = TRUE] IN
      /\ n \in RunState /\ n.status = f.status /\ n.expected = repo /\ SameSetup(n, f)
      /\ n.git /\ n.backups = f.backups /\ n.services = f.services
  <2>1. [f EXCEPT !.expected = repo, !.git = TRUE] \in RunState
    BY <1>3, FieldUpdates DEF Refines
  <2> QED BY <1>3, <2>1, ResetFields
<1>5. LET n == [f EXCEPT !.backups = TRUE] IN
      /\ n \in RunState /\ n.status = f.status /\ n.expected = f.expected /\ SameSetup(n, f)
      /\ n.backups /\ n.git = f.git /\ n.services = f.services
  BY DEF RunState, SameSetup
<1>6. LET n == [f EXCEPT !.services = TRUE] IN
      /\ n \in RunState /\ n.status = f.status /\ n.expected = f.expected /\ SameSetup(n, f)
      /\ n.services /\ n.git = f.git /\ n.backups = f.backups
  BY DEF RunState, SameSetup
<1> QED BY <1>1, <1>2, <1>4, <1>5, <1>6

\* What a stage whose rollback failed at pc records: the milestone whose write
\* raised with it.
FailedAs(n, f, pc) ==
  /\ n.status = "INTERNAL_ERROR" /\ SameSetup(n, f)
  /\ \/ n.expected = f.expected /\ SameMilestones(n, f)
     \/ /\ pc = "recording" /\ n.expected = repo
        /\ n.git /\ n.backups = f.backups /\ n.services = f.services
     \/ /\ pc = "restored" /\ n.expected = f.expected
        /\ n.backups /\ n.git = f.git /\ n.services = f.services
     \/ /\ pc = "started" /\ n.expected = f.expected
        /\ n.services /\ n.git = f.git /\ n.backups = f.backups
     \/ /\ pc = "verified" /\ SameMilestones(n, f)
        /\ n.expected = [head |-> f.baseline, dirty |-> FALSE]

LEMMA FailedSaves ==
  ASSUME Inv, MemoryCurrent, CheckoutKnown, NEW o \in Operators, RollbackFails(o)
  PROVE  \E n \in RunState : SaveAndExit(o, n) /\ FailedAs(n, file[Run(o)], Pc(o))
<1>1. HoldsLock(o) BY DEF RollbackFails, RollbackPcs, HoldsLock
<1>2. PICK f \in RunState : f = file[Run(o)] BY <1>1, Facts
<1>3. PICK k \in RunState : k = With(o, "INTERNAL_ERROR") BY <1>1, WithMoved DEF Statuses
<1>4. Moved(k, f, "INTERNAL_ERROR") BY <1>1, <1>2, <1>3, WithMoved DEF Statuses
<1>5. repo \in Tree BY DEF Inv, TypeOK
<1>6. CASE SaveAndExit(o, k) BY <1>2, <1>4, <1>6 DEF Moved, FailedAs
<1>7. CASE Pc(o) = "recording" /\ SaveAndExit(o, [k EXCEPT !.expected = repo, !.git = TRUE])
  <2>1. PICK n : n = [k EXCEPT !.expected = repo, !.git = TRUE] OBVIOUS
  <2>2. /\ n.git /\ n.backups = k.backups /\ n.services = k.services
        /\ n.status = k.status /\ n.expected = repo /\ SameSetup(n, k)
    BY <1>5, <2>1, ResetFields
  <2>3. n \in RunState BY <1>5, <2>1, FieldUpdates DEF Refines
  <2>4. FailedAs(n, f, Pc(o))
    BY <1>4, <1>7, <2>2 DEF Moved, FailedAs, SameSetup, SameMilestones
  <2> QED BY <1>2, <1>7, <2>1, <2>3, <2>4
<1>8. CASE Pc(o) = "restored" /\ SaveAndExit(o, [k EXCEPT !.backups = TRUE])
  <2>1. PICK n : n = [k EXCEPT !.backups = TRUE] OBVIOUS
  <2>2. /\ n \in RunState /\ n.backups /\ n.git = k.git /\ n.services = k.services
        /\ n.status = k.status /\ n.expected = k.expected /\ SameSetup(n, k)
    BY <2>1 DEF RunState, SameSetup
  <2>3. FailedAs(n, f, Pc(o))
    BY <1>4, <1>8, <2>2 DEF Moved, FailedAs, SameSetup, SameMilestones
  <2> QED BY <1>2, <1>8, <2>1, <2>2, <2>3
<1>9. CASE Pc(o) = "started" /\ SaveAndExit(o, [k EXCEPT !.services = TRUE])
  <2>1. PICK n : n = [k EXCEPT !.services = TRUE] OBVIOUS
  <2>2. /\ n \in RunState /\ n.services /\ n.git = k.git /\ n.backups = k.backups
        /\ n.status = k.status /\ n.expected = k.expected /\ SameSetup(n, k)
    BY <2>1 DEF RunState, SameSetup
  <2>3. FailedAs(n, f, Pc(o))
    BY <1>4, <1>9, <2>2 DEF Moved, FailedAs, SameSetup, SameMilestones
  <2> QED BY <1>2, <1>9, <2>1, <2>2, <2>3
<1>10. CASE /\ Pc(o) = "verified"
            /\ SaveAndExit(o, [k EXCEPT !.expected = [head |-> Mem(o).baseline, dirty |-> FALSE]])
  <2>1. Mem(o) = f BY <1>1, <1>2, <1>10, Facts
  <2>2. PICK v \in Tree : v = [head |-> f.baseline, dirty |-> FALSE] BY BaselineTree
  <2>3. PICK n : n = [k EXCEPT !.expected = v] OBVIOUS
  <2>4. /\ n \in RunState /\ n.status = k.status /\ n.expected = v
        /\ SameSetup(n, k) /\ SameMilestones(n, k)
    BY <2>3 DEF RunState, SameSetup, SameMilestones
  <2>5. FailedAs(n, f, Pc(o))
    BY <1>4, <1>10, <2>2, <2>4 DEF Moved, FailedAs, SameSetup, SameMilestones
  <2> QED BY <1>2, <1>10, <2>1, <2>2, <2>3, <2>4, <2>5
<1> QED BY <1>3, <1>6, <1>7, <1>8, <1>9, <1>10 DEF RollbackFails

\* The actions.
LEMMA StagePrepareCheckout ==
  ASSUME Inv, Solo, MemoryCurrent, CheckoutKnown, NEW o \in Operators, StagePrepare(o)
  PROVE  CheckoutKnown'
<1>1. HoldsLock(o) /\ Pc(o) = "preparing" BY DEF StagePrepare, HoldsLock
<1>2. PICK f \in RunState : f = file[Run(o)] BY <1>1, Facts
<1>3. /\ Recorded(f, Run(o)) /\ Stands("preparing", f, Run(o))
      /\ ~f.git /\ f.expected.head = f.baseline /\ repo.head = f.baseline
  BY <1>1, <1>2, Facts DEF Stands, StagePcs
<1>4. UNCHANGED <<repo, marker>> BY DEF StagePrepare, worldVars
<1>5. PICK pc \in {"preparing", "merging"} : \E n \in RunState :
        /\ Save(o, pc, n) /\ n.baseline = f.baseline /\ n.expected = f.expected
        /\ SameMilestones(n, f)
        /\ n.status = "MIGRATING" \/ pc = "merging" => n.backup # None
  <2>1. data # None BY IntegrationAssumption DEF Inv, TypeOK, Heads
  <2>2. f.status = "MIGRATING" => f.backup # None BY <1>3 DEF Stands
  <2> QED BY <1>2, <2>1, <2>2, StagePrepareSaves DEF SameSetup
<1>6. PICK n \in RunState :
        /\ Save(o, pc, n) /\ n.baseline = f.baseline /\ n.expected = f.expected
        /\ SameMilestones(n, f)
        /\ n.status = "MIGRATING" \/ pc = "merging" => n.backup # None
  BY <1>5
<1>7. ~n.git /\ n.expected.head = n.baseline /\ repo.head = n.baseline
  BY <1>3, <1>6 DEF SameMilestones
<1>8. Recorded(n, Run(o)) BY <1>3, <1>6, <1>7 DEF Recorded, SameMilestones
<1>9. Stands(pc, n, Run(o)) BY <1>6, <1>7 DEF Stands
<1> QED BY <1>1, <1>2, <1>4, <1>6, <1>7, <1>8, <1>9, CheckoutSave DEF Save

LEMMA StageMergeCheckout ==
  ASSUME Inv, Solo, MemoryCurrent, CheckoutKnown, NEW o \in Operators,
         StageMerge(o) \/ StageRestart(o)
  PROVE  CheckoutKnown'
<1>1. HoldsLock(o) /\ Pc(o) \in {"merging", "staging"}
  BY DEF StageMerge, StageRestart, HoldsLock
<1>2. PICK r \in Runs : r = Run(o) BY <1>1, Facts
<1>3. /\ Stands(Pc(o), file[r], r) /\ marker = r /\ ~file[r].git /\ file[r].backup # None
  BY <1>1, <1>2, Facts DEF Stands, StagePcs
<1>4. CASE StageMerge(o)
  <2>1. /\ Goto(o, "merged", [Mem(o) EXCEPT !.staged = Run(o)])
        /\ file' = file /\ marker' = marker
    BY <1>4 DEF StageMerge
  <2>2. repo'.head = r BY <1>2, <1>4 DEF StageMerge, Inv, TypeOK, Tree
  <2>3. Stands("merged", file[r], r)' BY <1>3, <2>1, <2>2 DEF Stands
  <2> QED BY <1>1, <1>2, <1>3, <2>1, <2>2, <2>3, CheckoutMove
<1>5. CASE StageRestart(o)
  <2>1. Goto(o, "restarted", Mem(o)) /\ repo' = repo /\ file' = file /\ marker' = marker
    BY <1>5 DEF StageRestart
  <2>2. Stands("restarted", file[r], r)' BY <1>3, <1>5, <2>1 DEF Stands, StageRestart
  <2> QED BY <1>1, <1>2, <1>3, <2>1, <2>2, CheckoutMove
<1> QED BY <1>4, <1>5

LEMMA StageRecordCheckout ==
  ASSUME Inv, Solo, MemoryCurrent, CheckoutKnown, NEW o \in Operators, StageRecord(o)
  PROVE  CheckoutKnown'
<1>1. HoldsLock(o) /\ Pc(o) = "merged" BY DEF StageRecord, HoldsLock
<1>2. PICK f \in RunState : f = file[Run(o)] BY <1>1, Facts
<1>3. /\ Recorded(f, Run(o)) /\ ~f.git /\ f.backup # None /\ repo.head = Run(o)
  BY <1>1, <1>2, Facts DEF Stands, StagePcs
<1>4. PICK n : ExpectedSave(o, "POST_MERGE_TESTING", repo, n) BY DEF ExpectedSave
<1>5. n \in RunState /\ n.expected = repo /\ SameSetup(n, f) /\ SameMilestones(n, f)
  <2>1. repo \in Tree /\ "POST_MERGE_TESTING" \in Statuses BY DEF Inv, TypeOK, Statuses
  <2> QED BY <1>1, <1>2, <1>4, <2>1, ExpectedSaves
<1>6. repo = [head |-> Run(o), dirty |-> FALSE] BY <1>3 DEF StageRecord, Tree, Inv, TypeOK
<1>7. ~n.git /\ n.backup # None /\ n.baseline = f.baseline
  BY <1>3, <1>5 DEF SameSetup, SameMilestones
<1>8. Recorded(n, Run(o)) BY <1>3, <1>5, <1>7 DEF Recorded, SameMilestones
<1>9. Stands("staging", n, Run(o)) BY <1>3, <1>5, <1>6, <1>7 DEF Stands
<1>10. Save(o, "staging", n) /\ UNCHANGED <<repo, marker>>
  BY <1>4 DEF StageRecord, worldVars, ExpectedSave
<1> QED BY <1>1, <1>2, <1>5, <1>7, <1>8, <1>9, <1>10, CheckoutSave DEF Save

LEMMA CheckoutMoved ==
  ASSUME Inv, Solo, MemoryCurrent, CheckoutKnown, NEW o \in Operators, HoldsLock(o),
         Pc(o) # "claiming", NEW n \in RunState, Persist(o, n), repo' = repo, marker' = marker,
         NEW st, Moved(n, file[Run(o)], st),
         NEW pc, \/ Exit(o)
                 \/ /\ Goto(o, pc, n) /\ pc # "preparing"
                    /\ Stands(pc, file[Run(o)], Run(o))
                    /\ pc = "clearing" => ~file[Run(o)].git,
         file[Run(o)].git =>
           st \in {"ROLLING_BACK", "INTERNAL_ERROR"} /\ file[Run(o)].status # "ROLLED_BACK"
  PROVE  CheckoutKnown'
<1>1. PICK f \in RunState : f = file[Run(o)] BY Facts
<1>2. /\ Recorded(f, Run(o))
      /\ f.git /\ f.status # "ROLLED_BACK" => repo.head = f.baseline
  BY <1>1, Facts DEF Reset
<1>3. /\ n.baseline = f.baseline /\ n.expected = f.expected /\ n.backup = f.backup
      /\ n.git = f.git /\ n.backups = f.backups /\ n.services = f.services /\ n.status = st
  BY <1>1 DEF Moved, SameSetup, SameMilestones
<1>4. Recorded(n, Run(o)) BY <1>1, <1>2, <1>3 DEF Recorded
<1>5. Stands(pc, f, Run(o)) /\ pc # "preparing" /\ (pc = "clearing" => ~f.git) =>
        Stands(pc, n, Run(o))
  BY <1>3 DEF Stands
<1> QED BY <1>1, <1>2, <1>3, <1>4, <1>5, CheckoutSave

LEMMA StageVerifyCheckout ==
  ASSUME Inv, Solo, MemoryCurrent, CheckoutKnown, NEW o \in Operators, StageVerify(o)
  PROVE  CheckoutKnown'
<1>1. HoldsLock(o) /\ Pc(o) \in {"staging", "restarted"} BY DEF StageVerify, HoldsLock
<1>2. PICK f \in RunState : f = file[Run(o)] BY <1>1, Facts
<1>3. Stands("staging", f, Run(o)) /\ ~f.git
  BY <1>1, <1>2, Facts DEF Stands, StagePcs
<1>4. UNCHANGED <<repo, marker>> BY DEF StageVerify, worldVars
<1>5. \A st \in Statuses : With(o, st) \in RunState /\ Moved(With(o, st), f, st)
  BY <1>1, <1>2, WithMoved
<1>6. CASE Save(o, "staging", With(o, "RESTARTING_SERVICES"))
  <2>1. PICK n \in RunState : n = With(o, "RESTARTING_SERVICES") BY <1>5 DEF Statuses
  <2>2. Moved(n, f, "RESTARTING_SERVICES") BY <1>5, <2>1 DEF Statuses
  <2> QED BY <1>1, <1>2, <1>3, <1>4, <1>6, <2>1, <2>2, CheckoutMoved DEF Save
<1>7. CASE Save(o, "staging", [With(o, "VERIFYING") EXCEPT !.snapshot = Snapshot])
  <2>1. PICK k \in RunState : k = With(o, "VERIFYING") BY <1>5 DEF Statuses
  <2>2. Moved(k, f, "VERIFYING") BY <1>5, <2>1 DEF Statuses
  <2>3. PICK n : n = [k EXCEPT !.snapshot = Snapshot] OBVIOUS
  <2>4. Snapshot \in [active : BOOLEAN, flaps : Nat] BY SnapshotTyped DEF Inv
  <2>5. /\ n \in RunState /\ n.status = k.status /\ n.expected = k.expected
        /\ SameSetup(n, k) /\ SameMilestones(n, k)
    BY <2>3, <2>4 DEF RunState, SameSetup, SameMilestones
  <2>6. Moved(n, f, "VERIFYING") BY <2>2, <2>5 DEF Moved, SameSetup, SameMilestones
  <2> QED BY <1>1, <1>2, <1>3, <1>4, <1>7, <2>1, <2>3, <2>5, <2>6, CheckoutMoved DEF Save
<1>8. CASE Goto(o, "accepting", Mem(o)) /\ UNCHANGED file
  <2>1. PICK r \in Runs : r = Run(o) BY <1>1, Facts
  <2>2. marker = r /\ f = file[r] BY <1>1, <1>2, <2>1, Facts
  <2>3. Stands("accepting", file[r], r)' BY <1>3, <1>4, <1>8, <2>1, <2>2 DEF Stands, StagePcs
  <2> QED BY <1>1, <1>3, <1>4, <1>8, <2>1, <2>2, <2>3, CheckoutMove
<1> QED BY <1>6, <1>7, <1>8 DEF StageVerify

LEMMA StageCompleteCheckout ==
  ASSUME Inv, Solo, MemoryCurrent, CheckoutKnown, NEW o \in Operators, StageComplete(o)
  PROVE  CheckoutKnown'
<1>1. HoldsLock(o) /\ Pc(o) = "accepting" BY DEF StageComplete, HoldsLock
<1>2. PICK f \in RunState : f = file[Run(o)] BY <1>1, Facts
<1>3. ~f.git BY <1>1, <1>2, Facts DEF Stands, StagePcs
<1>4. UNCHANGED <<repo, marker>> /\ SaveAndExit(o, With(o, "AWAITING_ACCEPTANCE"))
  BY DEF StageComplete, worldVars
<1>5. PICK n \in RunState : n = With(o, "AWAITING_ACCEPTANCE") BY <1>1, WithMoved DEF Statuses
<1>6. Moved(n, f, "AWAITING_ACCEPTANCE") BY <1>1, <1>2, <1>5, WithMoved DEF Statuses
<1> QED BY <1>1, <1>2, <1>3, <1>4, <1>5, <1>6, CheckoutMoved DEF SaveAndExit

LEMMA StageFailsCheckout ==
  ASSUME Inv, Solo, MemoryCurrent, CheckoutKnown, NEW o \in Operators,
         StageFails(o) \/ StageInterrupted(o)
  PROVE  CheckoutKnown'
<1>1. HoldsLock(o) /\ Pc(o) \in StagePcs /\ Pc(o) # "claiming"
  BY DEF StageFails, StageInterrupted, HoldsLock, StagePcs
<1>2. PICK f \in RunState : f = file[Run(o)] BY <1>1, Facts
<1>3. Stands(Pc(o), f, Run(o)) /\ ~f.git /\ Recorded(f, Run(o))
  BY <1>1, <1>2, Facts DEF Stands
<1>4. UNCHANGED <<repo, marker>> BY DEF StageFails, StageInterrupted, worldVars
<1>5. \A st \in Statuses : With(o, st) \in RunState /\ Moved(With(o, st), f, st)
  BY <1>1, <1>2, WithMoved
<1>6. ASSUME NEW pc \in {"clearing", "checking"} PROVE \A g : ~g.git => Stands(pc, g, Run(o))
  BY DEF Stands, StagePcs
<1>7. ASSUME NEW st \in Statuses, Persist(o, With(o, st)),
             Exit(o) \/ \E pc \in {"clearing", "checking"} : Goto(o, pc, With(o, st))
      PROVE  CheckoutKnown'
  <2>1. PICK n \in RunState : n = With(o, st) BY <1>5
  <2>2. Moved(n, f, st) BY <1>5, <2>1
  <2> QED BY <1>1, <1>2, <1>3, <1>4, <1>6, <1>7, <2>1, <2>2, CheckoutMoved
<1>8. CASE /\ Pc(o) = "merging"
           /\ Save(o, "checking", [With(o, "AUTOMATED_CHECK_FAILED") EXCEPT !.expected = repo])
  <2>1. PICK n : ExpectedSave(o, "AUTOMATED_CHECK_FAILED", repo, n) BY DEF ExpectedSave
  <2>2. n \in RunState /\ n.expected = repo /\ SameSetup(n, f) /\ SameMilestones(n, f)
    <3>1. repo \in Tree /\ "AUTOMATED_CHECK_FAILED" \in Statuses BY DEF Inv, TypeOK, Statuses
    <3> QED BY <1>1, <1>2, <2>1, <3>1, ExpectedSaves
  <2>3. repo.head = f.baseline BY <1>3, <1>8 DEF Stands
  <2>4. ~n.git /\ n.baseline = f.baseline BY <1>3, <2>2 DEF SameSetup, SameMilestones
  <2>5. Recorded(n, Run(o)) BY <1>3, <2>2, <2>3, <2>4 DEF Recorded, SameMilestones
  <2>6. Save(o, "checking", n) BY <1>8, <2>1 DEF ExpectedSave
  <2> QED BY <1>1, <1>2, <1>4, <1>6, <1>8, <2>2, <2>4, <2>5, <2>6, CheckoutSave DEF Save
<1> QED
  BY <1>7, <1>8 DEF StageFails, StageInterrupted, Save, SaveAndExit, Statuses

\* A command that has loaded its run and is about to take the lock.
LEMMA LoadedFacts ==
  ASSUME Inv, MemoryCurrent, CheckoutKnown, NEW o \in Operators, Pc(o) = "loaded"
  PROVE  /\ Run(o) \in Runs /\ Mem(o) = file[Run(o)]
         /\ file[Run(o)] \in RunState /\ file[Run(o)] # NoRun
         /\ Recorded(file[Run(o)], Run(o)) /\ Reset(file[Run(o)], Run(o))
         /\ file[Run(o)].baseline \in Runs => file[file[Run(o)].baseline] # NoRun
<1>1. op[o] # Idle /\ Run(o) \in Runs /\ Mem(o) \in RunState BY CommandTyped DEF Inv
<1>2. Mem(o) = file[Run(o)] BY <1>1 DEF MemoryCurrent, Current
<1>3. NoRun.status \notin Statuses BY StatusAssumption DEF NoRun
<1>4. file[Run(o)] # NoRun BY <1>1, <1>2, <1>3 DEF RunState
<1> QED BY <1>1, <1>2, <1>4 DEF CheckoutKnown

LEMMA TakeCheckout ==
  ASSUME Inv, Solo, MemoryCurrent, CheckoutKnown, NEW o \in Operators, Pc(o) = "loaded",
         Claimable(o), marker' = Run(o), repo' = repo,
         NEW pc \in {"checking", "guarding", "reconciling", "clearing"}, NEW n \in RunState,
         pc = "clearing" => ~n.git, Goto(o, pc, n), Persist(o, n) \/ file' = file,
         LET f == file[Run(o)] IN
         n = f \/ \E st \in Statuses : Moved(n, f, st) /\ ~f.git
  PROVE  CheckoutKnown'
<1>1. PICK r \in Runs : r = Run(o) BY LoadedFacts
<1>2. PICK f \in RunState : f = file[r] BY <1>1, LoadedFacts
<1>3. /\ f # NoRun /\ Recorded(f, r) /\ Reset(f, r)
      /\ f.baseline \in Runs => file[f.baseline] # NoRun
  BY <1>1, <1>2, LoadedFacts
<1>4. /\ n.baseline = f.baseline /\ Recorded(n, r) /\ n.git = f.git
      /\ n.git => n.status = f.status
  BY <1>1, <1>2, <1>3 DEF Moved, SameSetup, SameMilestones, Recorded
<1>5. /\ file'[r] \in {n, f} /\ \A q \in Runs \ {r} : file'[q] = file[q]
  BY <1>1, <1>2, PersistDoes DEF Inv, TypeOK
<1>6. n # NoRun
  <2>1. NoRun.status \notin Statuses BY StatusAssumption DEF NoRun
  <2> QED BY <2>1 DEF RunState
<1>7. file'[r] # NoRun /\ Recorded(file'[r], r) /\ file'[r].baseline = f.baseline
  BY <1>3, <1>4, <1>5, <1>6
<1>8. file'[r].git /\ file'[r].status # "ROLLED_BACK" =>
        marker' = r /\ repo'.head = file'[r].baseline
  BY <1>1, <1>3, <1>4, <1>5 DEF Reset
<1>9. repo'.head \in Runs => file'[repo'.head] # NoRun
  BY <1>5, <1>7 DEF CheckoutKnown
<1>10. op'[o].pc = pc /\ op'[o].run = r BY <1>1, GotoSets DEF Inv
<1>11. Stands(Pc(o), file[r], r)' BY <1>4, <1>5, <1>10 DEF Stands, StagePcs, Pc
<1> QED BY <1>1, <1>3, <1>5, <1>7, <1>8, <1>9, <1>10, <1>11, CheckoutStep DEF Claimable

LEMMA RollbackCheckout ==
  ASSUME Inv, Solo, MemoryCurrent, CheckoutKnown, NEW o \in Operators, Rollback(o)
  PROVE  CheckoutKnown'
<1>1. Pc(o) = "loaded" /\ Claimable(o) /\ marker' = Run(o) /\ repo' = repo /\ file' = file
  BY DEF Rollback, worldVars
<1>2. PICK n \in RunState : n = Mem(o) BY <1>1, LoadedFacts
<1>3. n = file[Run(o)] /\ Goto(o, "checking", n) BY <1>1, <1>2, LoadedFacts DEF Rollback
<1> QED BY <1>1, <1>2, <1>3, TakeCheckout

LEMMA FinalizeCheckout ==
  ASSUME Inv, Solo, MemoryCurrent, CheckoutKnown, NEW o \in Operators, Finalize(o)
  PROVE  CheckoutKnown'
<1>1. Pc(o) = "loaded" /\ Claimable(o) /\ marker' = Run(o) /\ repo' = repo
  BY DEF Finalize, worldVars
<1>2. PICK f \in RunState : f = file[Run(o)] BY <1>1, LoadedFacts
<1>3. Mem(o) = f /\ Recorded(f, Run(o)) BY <1>1, <1>2, LoadedFacts
<1>4. CASE \/ Goto(o, "guarding", Mem(o)) /\ UNCHANGED file
           \/ Save(o, "reconciling", Mem(o))
  BY <1>1, <1>2, <1>3, <1>4, TakeCheckout DEF Save
<1>5. CASE Mem(o).status = "FINALIZING" /\ Save(o, "clearing", With(o, "INTERNAL_ERROR"))
  <2>1. PICK n : n = [f EXCEPT !.status = "INTERNAL_ERROR"] OBVIOUS
  <2>2. n \in RunState /\ Moved(n, f, "INTERNAL_ERROR")
    BY <2>1, StatusOnly DEF Moved, Statuses
  <2>3. ~f.git BY <1>3, <1>5 DEF Recorded
  <2>4. Save(o, "clearing", n) BY <1>3, <1>5, <2>1 DEF With
  <2>5. "INTERNAL_ERROR" \in Statuses BY DEF Statuses
  <2>6. ~n.git BY <2>2, <2>3 DEF Moved, SameMilestones
  <2> QED BY <1>1, <1>2, <2>2, <2>3, <2>4, <2>5, <2>6, TakeCheckout DEF Save
<1> QED BY <1>4, <1>5 DEF Finalize

LEMMA RollbackCheckCheckout ==
  ASSUME Inv, Solo, MemoryCurrent, CheckoutKnown, NEW o \in Operators, RollbackCheck(o)
  PROVE  CheckoutKnown'
<1>1. HoldsLock(o) /\ Pc(o) = "checking" BY DEF RollbackCheck, HoldsLock
<1>2. PICK f \in RunState : f = file[Run(o)] BY <1>1, Facts
<1>3. /\ Mem(o) = f /\ Recorded(f, Run(o)) /\ Reset(f, Run(o)) /\ marker = Run(o)
      /\ Run(o) \in Runs /\ f # NoRun
      /\ f.baseline \in Runs => file[f.baseline] # NoRun
  BY <1>1, <1>2, Facts DEF CheckoutKnown
<1>4. UNCHANGED <<repo, marker>> BY DEF RollbackCheck, worldVars
<1>5. CASE Exit(o) /\ UNCHANGED file
  <2>1. op'[o] = Idle BY <1>5, ExitDoes DEF Inv
  <2> QED BY <1>2, <1>3, <1>4, <1>5, <2>1, CheckoutStep DEF CheckoutKnown, Reset
<1>6. CASE /\ f.status # "ROLLED_BACK" /\ repo = f.expected
           /\ Save(o, FirstMissing(f), With(o, "ROLLING_BACK"))
  <2>1. PICK n \in RunState : n = With(o, "ROLLING_BACK") BY <1>1, WithMoved DEF Statuses
  <2>2. Moved(n, f, "ROLLING_BACK") BY <1>1, <1>2, <2>1, WithMoved DEF Statuses
  <2>3. Stands(FirstMissing(f), f, Run(o)) /\ FirstMissing(f) \notin {"preparing", "clearing"}
    BY <1>3, <1>6 DEF Stands, StagePcs, FirstMissing, Recorded
  <2> QED BY <1>1, <1>2, <1>4, <1>6, <2>1, <2>2, <2>3, CheckoutMoved DEF Save
<1>7. CASE f.status # "ROLLED_BACK" /\ SaveAndExit(o, With(o, "INTERNAL_ERROR"))
  <2>1. PICK n \in RunState : n = With(o, "INTERNAL_ERROR") BY <1>1, WithMoved DEF Statuses
  <2>2. Moved(n, f, "INTERNAL_ERROR") BY <1>1, <1>2, <2>1, WithMoved DEF Statuses
  <2> QED BY <1>1, <1>2, <1>4, <1>7, <2>1, <2>2, CheckoutMoved DEF SaveAndExit
<1> QED BY <1>3, <1>5, <1>6, <1>7 DEF RollbackCheck

LEMMA CheckoutStays ==
  ASSUME CheckoutKnown, file' = file, marker' = marker, repo'.head = repo.head,
         \A p \in Operators : HoldsLock(p)' => Stands(Pc(p), file[Run(p)], Run(p))'
  PROVE  CheckoutKnown'
BY DEF CheckoutKnown, Recorded, Reset

LEMMA LeaveCheckout ==
  ASSUME Solo, CheckoutKnown, NEW o \in Operators, ~HoldsLock(o)',
         UNCHANGED <<repo, file, marker>>
  PROVE  CheckoutKnown'
<1>1. \A p \in Operators : ~HoldsLock(p)' BY DEF Solo
<1> QED BY <1>1, CheckoutStays

LEMMA StageCheckout ==
  ASSUME Inv, Solo, CheckoutKnown, NEW o \in Operators, NEW r \in Runs, Stage(o, r)
  PROVE  CheckoutKnown'
<1>1. /\ file[r] = NoRun /\ file'[r] = NewRun /\ \A q \in Runs \ {r} : file'[q] = file[q]
      /\ UNCHANGED <<repo, marker>>
  BY DEF Stage, Inv, TypeOK, worldVars
<1>2. op'[o].pc = "claiming" /\ op'[o].run = r BY DEF Stage, Inv, TypeOK
<1>3. marker # r /\ repo.head # r /\ (repo.head \in Runs => file[repo.head] # NoRun)
  BY <1>1 DEF CheckoutKnown
<1>4. /\ NewRun.baseline = repo.head /\ NewRun.expected = repo /\ ~NewRun.git /\ ~NewRun.backups
      /\ ~NewRun.services /\ NewRun.status = "INTERNAL_ERROR" /\ NewRun # NoRun
  BY StatusAssumption DEF NewRun, NoRun, Statuses
<1>5. Recorded(NewRun, r) BY <1>3, <1>4 DEF Recorded
<1>6. \A c \in Runs : file[c] # NoRun => file'[c] # NoRun BY <1>1, <1>4
<1>7. (repo.head \in Runs => file[repo.head] # NoRun)' BY <1>1, <1>3, <1>6
<1>8. (marker \in Runs => file[marker] # NoRun)' BY <1>1, <1>6 DEF CheckoutKnown
<1>9. ASSUME NEW q \in Runs, file'[q] # NoRun
      PROVE  /\ Recorded(file'[q], q) /\ Reset(file[q], q)'
             /\ file'[q].baseline \in Runs => file'[file'[q].baseline] # NoRun
  <2>1. CASE q = r BY <1>1, <1>3, <1>4, <1>5, <1>6, <2>1 DEF Reset
  <2>2. CASE q # r
    <3>1. /\ file'[q] = file[q] /\ Recorded(file[q], q) /\ Reset(file[q], q)
          /\ file[q].baseline \in Runs => file[file[q].baseline] # NoRun
      BY <1>1, <1>9, <2>2 DEF CheckoutKnown
    <3> QED BY <1>1, <1>6, <3>1 DEF Reset
  <2> QED BY <2>1, <2>2
<1>10. Stands(Pc(o), file[r], r)'
  BY <1>1, <1>2, <1>3, <1>4 DEF Stands, Pc, StagePcs
<1>11. \A p \in Operators : HoldsLock(p)' => Stands(Pc(p), file[Run(p)], Run(p))'
  BY <1>2, <1>10 DEF Solo, Run
<1> QED BY <1>7, <1>8, <1>9, <1>11 DEF CheckoutKnown, Recorded

LEMMA StageClaimCheckout ==
  ASSUME Inv, Solo, MemoryCurrent, CheckoutKnown, NEW o \in Operators, StageClaim(o)
  PROVE  CheckoutKnown'
<1>1. HoldsLock(o) /\ Pc(o) = "claiming" BY DEF StageClaim, HoldsLock
<1>2. PICK r \in Runs : r = Run(o) BY <1>1, Facts
<1>3. Stands("claiming", file[r], r) /\ file[r].status = "INTERNAL_ERROR"
  BY <1>1, <1>2, Facts DEF At
<1>4. /\ marker \in {None, r} /\ marker' = r /\ Goto(o, "preparing", Mem(o))
      /\ UNCHANGED <<repo, file>>
  BY <1>2 DEF StageClaim, Claimable, worldVars
<1>5. Stands("preparing", file[r], r)' BY <1>3, <1>4 DEF Stands, StagePcs
<1> QED BY <1>1, <1>2, <1>3, <1>4, <1>5, CheckoutMove DEF Stands

\* What a rollback under way relies on.
LEMMA RollbackFacts ==
  ASSUME Inv, MemoryCurrent, CheckoutKnown, NEW o \in Operators,
         Pc(o) \in RollbackPcs \ {"checking"}
  PROVE  /\ HoldsLock(o) /\ Run(o) \in Runs /\ marker = Run(o) /\ Mem(o) = file[Run(o)]
         /\ file[Run(o)] \in RunState /\ file[Run(o)].status = "ROLLING_BACK"
         /\ Recorded(file[Run(o)], Run(o)) /\ Stands(Pc(o), file[Run(o)], Run(o))
         /\ file[Run(o)].git => repo.head = file[Run(o)].baseline
<1>1. HoldsLock(o) /\ Pc(o) \notin {"claiming", "merged"} BY DEF HoldsLock, RollbackPcs
<1>2. Mem(o) = file[Run(o)] /\ file[Run(o)].status = "ROLLING_BACK" BY <1>1, Facts DEF At
<1> QED BY <1>1, <1>2, Facts DEF Reset

LEMMA RollbackMoves ==
  ASSUME Inv, Solo, MemoryCurrent, CheckoutKnown, NEW o \in Operators,
         \/ RollbackStop(o) \/ RollbackReset(o) \/ RollbackRestore(o) \/ RollbackStart(o)
         \/ RollbackVerify(o)
  PROVE  CheckoutKnown'
<1>1. Pc(o) \in RollbackPcs \ {"checking"}
  BY DEF RollbackStop, RollbackReset, RollbackRestore, RollbackStart, RollbackVerify, RollbackPcs
<1>2. PICK r \in Runs : r = Run(o) BY <1>1, RollbackFacts
<1>3. /\ Stands(Pc(o), file[r], r) /\ marker = r /\ HoldsLock(o) /\ Mem(o) = file[r]
      /\ file[r].git => repo.head = file[r].baseline
  BY <1>1, <1>2, RollbackFacts
<1>4. UNCHANGED <<file, marker>>
  BY DEF RollbackStop, RollbackReset, RollbackRestore, RollbackStart, RollbackVerify
<1>5. CASE RollbackStop(o)
  <2>1. Goto(o, "resetting", Mem(o)) /\ repo' = repo BY <1>5 DEF RollbackStop
  <2>2. Stands("resetting", file[r], r)' BY <1>3, <1>4, <1>5, <2>1 DEF Stands, StagePcs, RollbackStop
  <2> QED BY <1>2, <1>3, <1>4, <2>1, <2>2, CheckoutMove
<1>6. CASE RollbackReset(o)
  <2>1. Goto(o, "recording", Mem(o)) BY <1>6 DEF RollbackReset
  <2>2. ~file[r].git /\ repo.head = file[r].expected.head BY <1>3, <1>6 DEF Stands, RollbackReset
  <2>3. repo'.head = file[r].baseline BY <1>3, <1>6, <2>2 DEF RollbackReset
  <2>4. Stands("recording", file[r], r)' BY <1>4, <2>2, <2>3 DEF Stands, StagePcs
  <2> QED BY <1>2, <1>3, <1>4, <2>1, <2>2, <2>3, <2>4, CheckoutMove
<1>7. CASE RollbackRestore(o)
  <2>1. Goto(o, "restored", Mem(o)) /\ repo' = repo BY <1>7 DEF RollbackRestore
  <2>2. Stands("restored", file[r], r)' BY <1>3, <1>4, <1>7, <2>1 DEF Stands, StagePcs, RollbackRestore
  <2> QED BY <1>2, <1>3, <1>4, <2>1, <2>2, CheckoutMove
<1>8. CASE RollbackStart(o)
  <2>1. Goto(o, "started", Mem(o)) /\ repo' = repo BY <1>8 DEF RollbackStart
  <2>2. Stands("started", file[r], r)' BY <1>3, <1>4, <1>8, <2>1 DEF Stands, StagePcs, RollbackStart
  <2> QED BY <1>2, <1>3, <1>4, <2>1, <2>2, CheckoutMove
<1>9. CASE RollbackVerify(o)
  <2>1. Goto(o, "verified", Mem(o)) /\ repo' = repo BY <1>9 DEF RollbackVerify, worldVars
  <2>2. Stands("verified", file[r], r)' BY <1>3, <1>4, <1>9, <2>1 DEF Stands, StagePcs, RollbackVerify
  <2> QED BY <1>2, <1>3, <1>4, <2>1, <2>2, CheckoutMove
<1> QED BY <1>5, <1>6, <1>7, <1>8, <1>9

LEMMA RollbackMilestones ==
  ASSUME Inv, Solo, MemoryCurrent, CheckoutKnown, NEW o \in Operators,
         RollbackRecord(o) \/ RollbackRestored(o) \/ RollbackStarted(o)
  PROVE  CheckoutKnown'
<1>1. Pc(o) \in RollbackPcs \ {"checking"} /\ Pc(o) \notin {"claiming", "merged"}
  BY DEF RollbackRecord, RollbackRestored, RollbackStarted, RollbackPcs
<1>2. PICK f \in RunState : f = file[Run(o)] BY <1>1, RollbackFacts
<1>3. /\ Stands(Pc(o), f, Run(o)) /\ HoldsLock(o) /\ Mem(o) = f
      /\ f.status = "ROLLING_BACK" /\ Recorded(f, Run(o))
      /\ f.git => repo.head = f.baseline
  BY <1>1, <1>2, RollbackFacts
<1>4. UNCHANGED <<repo, marker>>
  BY DEF RollbackRecord, RollbackRestored, RollbackStarted, worldVars
<1>5. CASE RollbackRecord(o)
  <2>1. PICK n : n = [Mem(o) EXCEPT !.expected = repo, !.git = TRUE] OBVIOUS
  <2>2. /\ n \in RunState /\ n.status = f.status /\ n.expected = repo /\ SameSetup(n, f)
        /\ n.git /\ n.backups = f.backups /\ n.services = f.services
    BY <1>1, <1>2, <1>3, <2>1, MilestoneSaves
  <2>3. repo.head = f.baseline /\ ~f.git /\ n.baseline = f.baseline
    BY <1>3, <1>5, <2>2 DEF Stands, SameSetup, RollbackRecord
  <2>4. Recorded(n, Run(o)) BY <1>3, <2>2, <2>3 DEF Recorded
  <2>5. Stands("restoring", n, Run(o)) BY <1>3, <2>2, <2>3 DEF Stands, Recorded, StagePcs
  <2>6. Save(o, "restoring", n) BY <1>5, <2>1 DEF RollbackRecord
  <2> QED BY <1>1, <1>2, <1>3, <1>4, <2>2, <2>3, <2>4, <2>5, <2>6, CheckoutSave DEF Save
<1>6. CASE RollbackRestored(o)
  <2>1. PICK n : n = [Mem(o) EXCEPT !.backups = TRUE] OBVIOUS
  <2>2. /\ n \in RunState /\ n.status = f.status /\ n.expected = f.expected /\ SameSetup(n, f)
        /\ n.backups /\ n.git = f.git /\ n.services = f.services
    BY <1>1, <1>2, <1>3, <2>1, MilestoneSaves
  <2>3. f.git /\ ~f.backups /\ n.baseline = f.baseline /\ n.backup = f.backup
    BY <1>3, <1>6, <2>2 DEF Stands, SameSetup, RollbackRestored
  <2>4. Recorded(n, Run(o)) BY <1>3, <2>2, <2>3 DEF Recorded
  <2>5. Stands("starting", n, Run(o)) BY <1>3, <2>2, <2>3 DEF Stands, Recorded, StagePcs
  <2>6. Save(o, "starting", n) BY <1>6, <2>1 DEF RollbackRestored
  <2> QED BY <1>1, <1>2, <1>3, <1>4, <2>2, <2>3, <2>4, <2>5, <2>6, CheckoutSave DEF Save
<1>7. CASE RollbackStarted(o)
  <2>1. PICK n : n = [Mem(o) EXCEPT !.services = TRUE] OBVIOUS
  <2>2. /\ n \in RunState /\ n.status = f.status /\ n.expected = f.expected /\ SameSetup(n, f)
        /\ n.services /\ n.git = f.git /\ n.backups = f.backups
    BY <1>1, <1>2, <1>3, <2>1, MilestoneSaves
  <2>3. f.git /\ f.backups /\ n.baseline = f.baseline /\ n.backup = f.backup
    BY <1>3, <1>7, <2>2 DEF Stands, Recorded, SameSetup, RollbackStarted
  <2>4. Recorded(n, Run(o)) BY <1>3, <2>2, <2>3 DEF Recorded
  <2>5. Stands("verifying", n, Run(o)) BY <1>3, <2>2, <2>3 DEF Stands, StagePcs
  <2>6. Save(o, "verifying", n) BY <1>7, <2>1 DEF RollbackStarted
  <2> QED BY <1>1, <1>2, <1>3, <1>4, <2>2, <2>3, <2>4, <2>5, <2>6, CheckoutSave DEF Save
<1> QED BY <1>5, <1>6, <1>7

LEMMA RollbackCompleteCheckout ==
  ASSUME Inv, Solo, MemoryCurrent, CheckoutKnown, NEW o \in Operators, RollbackComplete(o)
  PROVE  CheckoutKnown'
<1>1. Pc(o) \in RollbackPcs \ {"checking"} /\ Pc(o) \notin {"claiming", "merged"}
  BY DEF RollbackComplete, RollbackPcs
<1>2. PICK f \in RunState : f = file[Run(o)] BY <1>1, RollbackFacts
<1>3. /\ Stands(Pc(o), f, Run(o)) /\ HoldsLock(o) /\ Mem(o) = f /\ Recorded(f, Run(o))
      /\ f.git => repo.head = f.baseline
  BY <1>1, <1>2, RollbackFacts
<1>4. UNCHANGED <<repo, marker>> BY DEF RollbackComplete, worldVars
<1>5. PICK st \in Statuses : st = "ROLLED_BACK" BY DEF Statuses
<1>6. PICK v \in Tree : v = [head |-> f.baseline, dirty |-> FALSE] BY BaselineTree
<1>7. PICK n : ExpectedSave(o, st, v, n) BY DEF ExpectedSave
<1>8. /\ n \in RunState /\ n.status = st /\ n.expected = v
      /\ SameSetup(n, f) /\ SameMilestones(n, f)
  BY <1>2, <1>3, <1>7, ExpectedSaves
<1>9. n.baseline = f.baseline /\ n.expected.head = f.baseline BY <1>6, <1>8 DEF SameSetup
<1>10. Recorded(n, Run(o)) BY <1>3, <1>5, <1>8, <1>9 DEF Recorded, SameMilestones
<1>11. Stands("clearing", n, Run(o)) BY <1>5, <1>8 DEF Stands, StagePcs
<1>12. Save(o, "clearing", n) BY <1>3, <1>5, <1>6, <1>7 DEF RollbackComplete, ExpectedSave
<1> QED BY <1>1, <1>2, <1>3, <1>4, <1>5, <1>8, <1>9, <1>10, <1>11, <1>12, CheckoutSave DEF Save

LEMMA RollbackFailsCheckout ==
  ASSUME Inv, Solo, MemoryCurrent, CheckoutKnown, NEW o \in Operators, RollbackFails(o)
  PROVE  CheckoutKnown'
<1>1. HoldsLock(o) /\ Pc(o) \in RollbackPcs /\ Pc(o) \notin {"claiming", "merged"}
  BY DEF RollbackFails, RollbackPcs, HoldsLock
<1>2. PICK f \in RunState : f = file[Run(o)] BY <1>1, Facts
<1>3. /\ Mem(o) = f /\ Recorded(f, Run(o)) /\ Reset(f, Run(o)) /\ Stands(Pc(o), f, Run(o))
      /\ op[o] # Idle
  BY <1>1, <1>2, Facts
<1>4. f.git => f.status # "ROLLED_BACK"
  <2>1. CASE Pc(o) = "checking"
    <3>1. f.status = "AUTOMATED_CHECK_FAILED"
      BY <1>3, <2>1 DEF MemoryCurrent, Current, RollbackFails
    <3> QED BY <3>1
  <2>2. CASE Pc(o) # "checking"
    <3>1. f.status = "ROLLING_BACK" BY <1>1, <1>2, <2>2, RollbackFacts
    <3> QED BY <3>1
  <2> QED BY <2>1, <2>2
<1>5. PICK n \in RunState : SaveAndExit(o, n) /\ FailedAs(n, f, Pc(o)) BY <1>2, FailedSaves
<1>6. UNCHANGED <<repo, marker>> BY DEF RollbackFails, worldVars
<1>7. n.baseline = f.baseline /\ n.backup = f.backup /\ n.status = "INTERNAL_ERROR"
  BY <1>5 DEF FailedAs, SameSetup
<1>8. Recorded(n, Run(o)) /\ (n.git => repo.head = n.baseline)
  <2>1. f.git => repo.head = f.baseline BY <1>3, <1>4 DEF Reset
  <2>2. CASE n.expected = f.expected /\ SameMilestones(n, f)
    BY <1>3, <1>7, <2>1, <2>2 DEF Recorded, SameMilestones
  <2>3. CASE /\ Pc(o) = "recording" /\ n.expected = repo
             /\ n.git /\ n.backups = f.backups /\ n.services = f.services
    BY <1>3, <1>7, <2>3 DEF Recorded, Stands
  <2>4. CASE /\ Pc(o) = "restored" /\ n.expected = f.expected
             /\ n.backups /\ n.git = f.git /\ n.services = f.services
    BY <1>3, <1>7, <2>1, <2>4 DEF Recorded, Stands
  <2>5. CASE /\ Pc(o) = "started" /\ n.expected = f.expected
             /\ n.services /\ n.git = f.git /\ n.backups = f.backups
    BY <1>3, <1>7, <2>1, <2>5 DEF Recorded, Stands
  <2>6. CASE /\ Pc(o) = "verified" /\ SameMilestones(n, f)
             /\ n.expected = [head |-> f.baseline, dirty |-> FALSE]
    BY <1>3, <1>7, <2>1, <2>6 DEF Recorded, Stands, SameMilestones
  <2> QED BY <1>5, <2>2, <2>3, <2>4, <2>5, <2>6 DEF FailedAs
<1> QED BY <1>1, <1>2, <1>5, <1>6, <1>7, <1>8, CheckoutSave DEF SaveAndExit

\* A finalize never has a run whose reset is on record.
LEMMA FinalizeMoves ==
  ASSUME Inv, Solo, MemoryCurrent, CheckoutKnown, NEW o \in Operators,
         \/ FinalizeGuard(o) \/ FinalizePush(o) \/ FinalizeOutcome(o) \/ FinalizeReconcile(o)
         \/ FinalizeReconcileFails(o) \/ FinalizeComplete(o)
  PROVE  CheckoutKnown'
<1>1. HoldsLock(o) /\ Pc(o) \in FinalizePcs /\ Pc(o) \notin {"claiming", "merged"}
  BY DEF FinalizeGuard, FinalizePush, FinalizeOutcome, FinalizeReconcile,
     FinalizeReconcileFails, FinalizeComplete, FinalizePcs, HoldsLock
<1>2. PICK f \in RunState : f = file[Run(o)] BY <1>1, Facts
<1>3. /\ Mem(o) = f /\ Recorded(f, Run(o)) /\ op[o] # Idle
      /\ At(Pc(o), f, f, Run(o)) /\ marker = Run(o) /\ Run(o) \in Runs
  BY <1>1, <1>2, Facts
<1>4. ~f.git
  <2>1. f.status \in {"AWAITING_ACCEPTANCE", "FINALIZING"}
    BY <1>1, <1>3 DEF MemoryCurrent, Current, At, FinalizePcs
  <2> QED BY <1>3, <2>1 DEF Recorded
<1>5. UNCHANGED <<repo, marker>>
  BY DEF FinalizeGuard, FinalizePush, FinalizeOutcome, FinalizeReconcile,
     FinalizeReconcileFails, FinalizeComplete, worldVars
<1>6. ASSUME NEW pc \in FinalizePcs \cup {"clearing"}
      PROVE  \A g, r : ~g.git => Stands(pc, g, r)
  BY DEF Stands, FinalizePcs, StagePcs
<1>7. ASSUME NEW st \in Statuses, NEW pc \in FinalizePcs \cup {"clearing"},
             Save(o, pc, With(o, st))
      PROVE  CheckoutKnown'
  <2>1. PICK n \in RunState : n = With(o, st) BY <1>1, WithMoved
  <2>2. Moved(n, f, st) BY <1>1, <1>2, <2>1, WithMoved
  <2>3. Stands(pc, f, Run(o)) /\ pc # "preparing" BY <1>4, <1>6 DEF FinalizePcs
  <2> QED BY <1>1, <1>2, <1>4, <1>5, <1>7, <2>1, <2>2, <2>3, CheckoutMoved DEF Save
<1>8. ASSUME NEW pc \in FinalizePcs, Goto(o, pc, f), Persist(o, f) \/ UNCHANGED file
      PROVE  CheckoutKnown'
  <2>1. file' = file BY <1>2, <1>3, <1>8 DEF Persist, Inv, TypeOK
  <2>2. op'[o].pc = pc /\ op'[o].run = Run(o) BY <1>8, <1>1, Facts, GotoSets DEF Inv
  <2>3. op'[o].pc = pc /\ op'[o].run = Run(o) /\ ~file'[Run(o)].git BY <1>2, <1>4, <2>1, <2>2
  <2>4. Stands(Pc(o), file[Run(o)], Run(o))' BY <2>3 DEF Stands, FinalizePcs, StagePcs, Pc, Run
  <2>5. \A p \in Operators : HoldsLock(p)' => Stands(Pc(p), file[Run(p)], Run(p))'
    BY <2>4 DEF Solo
  <2> QED BY <1>5, <2>1, <2>5, CheckoutStays
<1>9. CASE FinalizeGuard(o)
  BY <1>7, <1>9 DEF FinalizeGuard, FinalizePcs, Statuses
<1>10. CASE FinalizePush(o)
  BY <1>3, <1>8, <1>10 DEF FinalizePush, FinalizePcs
<1>11. CASE FinalizeOutcome(o)
  <2>1. CASE Save(o, "reconciling", Mem(o)) BY <1>3, <1>8, <2>1 DEF Save, FinalizePcs
  <2>2. CASE SaveAndExit(o, Mem(o))
    <3>1. file' = file BY <1>2, <1>3, <2>2 DEF SaveAndExit, Persist, Inv, TypeOK
    <3>2. ~HoldsLock(o)' BY <2>2, ExitDoes DEF Inv, HoldsLock, Pc, Idle, SaveAndExit
    <3> QED BY <1>5, <3>1, <3>2, LeaveCheckout
  <2>3. CASE Save(o, "clearing", With(o, "INTERNAL_ERROR")) BY <1>7, <2>3 DEF Statuses
  <2> QED BY <1>11, <2>1, <2>2, <2>3 DEF FinalizeOutcome
<1>12. CASE FinalizeReconcile(o)
  BY <1>3, <1>8, <1>12 DEF FinalizeReconcile, FinalizePcs
<1>13. CASE FinalizeReconcileFails(o) \/ FinalizeComplete(o)
  BY <1>7, <1>13 DEF FinalizeReconcileFails, FinalizeComplete, Statuses
<1> QED BY <1>9, <1>10, <1>11, <1>12, <1>13

LEMMA ClearActiveCheckout ==
  ASSUME Inv, Solo, MemoryCurrent, CheckoutKnown, NEW o \in Operators, ClearActive(o)
  PROVE  CheckoutKnown'
<1>1. HoldsLock(o) /\ Pc(o) = "clearing" BY DEF ClearActive, HoldsLock
<1>2. PICK r \in Runs : r = Run(o) BY <1>1, Facts
<1>3. /\ Stands("clearing", file[r], r) /\ Recorded(file[r], r) /\ marker = r /\ file[r] # NoRun
      /\ file[r].baseline \in Runs => file[file[r].baseline] # NoRun
  BY <1>1, <1>2, Facts DEF CheckoutKnown
<1>4. marker' = None /\ UNCHANGED <<repo, file>> /\ op'[o] = Idle
  BY <1>2, <1>3, ExitDoes DEF ClearActive, worldVars, Inv
<1>5. ~(file[r].git /\ file[r].status # "ROLLED_BACK") BY <1>3 DEF Stands
<1>6. repo.head \in Runs => file[repo.head] # NoRun BY DEF CheckoutKnown
<1> QED BY <1>3, <1>4, <1>5, <1>6, CheckoutStep

LEMMA CheckoutNext ==
  ASSUME Inv, Solo, MemoryCurrent, CheckoutKnown, [Next]_vars
  PROVE  CheckoutKnown'
<1>1. CASE Edit \/ ForeignPush \/ Fetch \/ Flap \/ UNCHANGED vars
  <2>1. UNCHANGED <<file, marker, op>> /\ repo'.head = repo.head
    BY <1>1 DEF Edit, ForeignPush, Fetch, Flap, vars, Inv, TypeOK, Tree
  <2>2. \A p \in Operators : HoldsLock(p)' => Stands(Pc(p), file[Run(p)], Run(p))'
    BY <2>1 DEF CheckoutKnown, HoldsLock, Pc, Run, Stands
  <2> QED BY <2>1, <2>2, CheckoutStays
<1>2. ASSUME NEW o \in Operators, CommandStep(o) PROVE CheckoutKnown'
  <2>1. ASSUME Exit(o), UNCHANGED <<repo, file, marker>> PROVE CheckoutKnown'
    <3>1. ~HoldsLock(o)' BY <2>1, ExitDoes DEF Inv, HoldsLock, Pc, Idle
    <3> QED BY <2>1, <3>1, LeaveCheckout
  <2>2. CASE StageStep(o)
    BY <2>2, StageCheckout, StageClaimCheckout, StagePrepareCheckout, StageMergeCheckout,
       StageRecordCheckout, StageVerifyCheckout, StageCompleteCheckout, StageFailsCheckout
       DEF StageStep
  <2>3. CASE RollbackStep(o)
    BY <2>3, RollbackCheckout, RollbackCheckCheckout, RollbackMoves, RollbackMilestones,
       RollbackCompleteCheckout, RollbackFailsCheckout DEF RollbackStep
  <2>4. CASE FinalizeStep(o)
    BY <2>1, <2>4, FinalizeCheckout, FinalizeMoves
       DEF FinalizeStep, FinalizeRefused, worldVars
  <2>5. ASSUME NEW r \in Runs, NEW cmd, LoadRun(o, r, cmd) PROVE CheckoutKnown'
    <3>1. op'[o].pc = "loaded" /\ UNCHANGED <<repo, file, marker>>
      BY <2>5 DEF LoadRun, worldVars, Inv, TypeOK
    <3>2. ~HoldsLock(o)' BY <3>1 DEF HoldsLock, Pc
    <3> QED BY <3>1, <3>2, LeaveCheckout
  <2>6. CASE Refused(o) \/ Crash(o)
    BY <2>1, <2>6 DEF Refused, Crash, worldVars
  <2> QED BY <1>2, <2>2, <2>3, <2>4, <2>5, <2>6, ClearActiveCheckout DEF CommandStep
<1> QED BY <1>1, <1>2 DEF Next

LEMMA CheckoutInit == ASSUME Init PROVE CheckoutKnown
BY IntegrationAssumption DEF Init, CheckoutKnown, HoldsLock, Pc, Idle

\* A run's baseline, backup and service state are set once: by the stage.
LEMMA SetupWrites ==
  ASSUME Inv, MemoryCurrent, CheckoutKnown, NEW o \in Operators, CommandStep(o), NEW r \in Runs
  PROVE  \/ file'[r] = file[r]
         \/ file'[r] = NewRun
         \/ StagePrepare(o) /\ r = Run(o)
         \/ file[r] # NoRun /\ SameSetup(file'[r], file[r])
<1>1. ASSUME HoldsLock(o), NEW n, Persist(o, n), SameSetup(n, file[Run(o)])
      PROVE  file'[r] = file[r] \/ (file[r] # NoRun /\ SameSetup(file'[r], file[r]))
  <2>1. Run(o) \in Runs /\ file[Run(o)] # NoRun BY <1>1, Facts
  <2>2. file'[r] = IF r = Run(o) THEN n ELSE file[r] BY <1>1, <2>1 DEF Persist, Inv, TypeOK
  <2> QED BY <1>1, <2>1, <2>2
<1>2. ASSUME HoldsLock(o), NEW st \in Statuses, Persist(o, With(o, st))
      PROVE  file'[r] = file[r] \/ (file[r] # NoRun /\ SameSetup(file'[r], file[r]))
  BY <1>1, <1>2, WithMoved DEF Moved
<1>3. ASSUME HoldsLock(o), NEW st \in Statuses, NEW v \in Tree, NEW n,
             ExpectedSave(o, st, v, n), Persist(o, n)
      PROVE  file'[r] = file[r] \/ (file[r] # NoRun /\ SameSetup(file'[r], file[r]))
  BY <1>1, <1>3, ExpectedSaves
<1>4. ASSUME HoldsLock(o), Persist(o, Mem(o))
      PROVE  file'[r] = file[r] \/ (file[r] # NoRun /\ SameSetup(file'[r], file[r]))
  BY <1>1, <1>4, Facts
<1>5. CASE \E q \in Runs : Stage(o, q)
  BY <1>5 DEF Stage, Inv, TypeOK
<1>6. CASE StageRecord(o) \/ StageComplete(o) \/ RollbackComplete(o)
  <2>1. HoldsLock(o) BY <1>6 DEF StageRecord, StageComplete, RollbackComplete, HoldsLock
  <2>2. repo \in Tree BY DEF Inv, TypeOK
  <2>3. PICK v \in Tree : v = [head |-> Mem(o).baseline, dirty |-> FALSE]
    BY <2>1, Facts, BaselineTree
  <2>4. PICK st \in Statuses : \/ Persist(o, [With(o, st) EXCEPT !.expected = repo])
                               \/ Persist(o, [With(o, st) EXCEPT !.expected = v])
                               \/ Persist(o, With(o, st))
    BY <1>6, <2>3 DEF StageRecord, StageComplete, RollbackComplete, Save, SaveAndExit, Statuses
  <2> QED BY <1>2, <1>3, <2>1, <2>2, <2>4 DEF ExpectedSave
<1>7. CASE StageVerify(o)
  <2>1. HoldsLock(o) BY <1>7 DEF StageVerify, HoldsLock
  <2>2. CASE Persist(o, [With(o, "VERIFYING") EXCEPT !.snapshot = Snapshot])
    <3>1. PICK k \in RunState : k = With(o, "VERIFYING") BY <2>1, WithMoved DEF Statuses
    <3>2. Moved(k, file[Run(o)], "VERIFYING") BY <2>1, <3>1, WithMoved DEF Statuses
    <3>3. PICK n : n = [k EXCEPT !.snapshot = Snapshot] OBVIOUS
    <3>4. SameSetup(n, k) BY <3>3 DEF RunState, SameSetup
    <3>5. SameSetup(n, file[Run(o)]) BY <3>2, <3>4 DEF Moved, SameSetup
    <3> QED BY <1>1, <2>1, <2>2, <3>1, <3>3, <3>5
  <2> QED BY <1>2, <1>7, <2>1, <2>2 DEF StageVerify, Save, Statuses
<1>8. CASE StageFails(o)
  <2>1. HoldsLock(o) BY <1>8 DEF StageFails, HoldsLock
  <2>2. PICK st \in Statuses : \/ Persist(o, With(o, st))
                               \/ Persist(o, [With(o, st) EXCEPT !.expected = repo])
    BY <1>8 DEF StageFails, Save, Statuses
  <2>3. repo \in Tree BY DEF Inv, TypeOK
  <2> QED BY <1>2, <1>3, <2>1, <2>2, <2>3 DEF ExpectedSave
<1>9. CASE StageInterrupted(o) \/ RollbackCheck(o)
  <2>1. HoldsLock(o) BY <1>9 DEF StageInterrupted, RollbackCheck, HoldsLock, StagePcs
  <2>2. file' = file \/ \E st \in Statuses : Persist(o, With(o, st))
    BY <1>9 DEF StageInterrupted, RollbackCheck, Save, SaveAndExit, Statuses
  <2> QED BY <1>2, <2>1, <2>2
<1>10. CASE RollbackRecord(o) \/ RollbackRestored(o) \/ RollbackStarted(o)
  <2>1. HoldsLock(o) /\ Pc(o) # "merged"
    BY <1>10 DEF RollbackRecord, RollbackRestored, RollbackStarted, HoldsLock
  <2>2. PICK n : Persist(o, n) /\ SameSetup(n, file[Run(o)])
    BY <1>10, <2>1, MilestoneSaves DEF RollbackRecord, RollbackRestored, RollbackStarted, Save
  <2> QED BY <1>1, <2>1, <2>2
<1>11. CASE Finalize(o)
  <2>1. Run(o) \in Runs /\ Mem(o) = file[Run(o)] /\ file[Run(o)] # NoRun
    BY <1>11, LoadedFacts DEF Finalize
  <2>2. file' = file \/ Persist(o, Mem(o)) \/ Persist(o, With(o, "INTERNAL_ERROR"))
    BY <1>11 DEF Finalize, Save
  <2>3. SameSetup(With(o, "INTERNAL_ERROR"), file[Run(o)]) /\ SameSetup(Mem(o), file[Run(o)])
    <3>1. PICK m \in RunState : m = Mem(o) BY <1>11, <2>1, LoadedFacts DEF Finalize
    <3>2. PICK n : n = [m EXCEPT !.status = "INTERNAL_ERROR"] OBVIOUS
    <3>3. SameSetup(n, m) BY <3>2, StatusOnly DEF Statuses
    <3> QED BY <2>1, <3>1, <3>2, <3>3 DEF With, SameSetup
  <2>4. file'[r] = file[r] \/ (r = Run(o) /\ file'[r] \in {Mem(o), With(o, "INTERNAL_ERROR")})
    BY <2>1, <2>2 DEF Persist, Inv, TypeOK
  <2> QED BY <2>1, <2>3, <2>4
<1>12. CASE FinalizeGuard(o) \/ FinalizeOutcome(o) \/ FinalizeReconcileFails(o) \/ FinalizeComplete(o)
  <2>1. HoldsLock(o)
    BY <1>12 DEF FinalizeGuard, FinalizeOutcome, FinalizeReconcileFails, FinalizeComplete, HoldsLock
  <2>2. Persist(o, Mem(o)) \/ \E st \in Statuses : Persist(o, With(o, st))
    BY <1>12 DEF FinalizeGuard, FinalizeOutcome, FinalizeReconcileFails, FinalizeComplete, Save,
       SaveAndExit, Statuses
  <2> QED BY <1>2, <1>4, <2>1, <2>2
<1>13. CASE StagePrepare(o)
  <2>1. HoldsLock(o) BY <1>13 DEF StagePrepare, HoldsLock
  <2>2. Run(o) \in Runs /\ \E n : Persist(o, n) BY <1>13, <2>1, Facts DEF StagePrepare, Save
  <2> QED BY <1>13, <2>2 DEF Persist, Inv, TypeOK
<1>14. CASE RollbackFails(o)
  <2>1. HoldsLock(o) BY <1>14 DEF RollbackFails, HoldsLock, RollbackPcs
  <2>2. PICK n : Persist(o, n) /\ SameSetup(n, file[Run(o)])
    BY <1>14, FailedSaves DEF SaveAndExit, FailedAs
  <2> QED BY <1>1, <2>1, <2>2
<1> QED
  BY <1>5, <1>6, <1>7, <1>8, <1>9, <1>10, <1>11, <1>12, <1>13, <1>14
     DEF CommandStep, LoadRun, Refused, ClearActive, Crash, StageStep, RollbackStep, FinalizeStep,
         StageClaim, StageMerge, StageRestart, Rollback, RollbackStop, RollbackReset, RollbackRestore,
         RollbackStart, RollbackVerify, FinalizeRefused, FinalizePush, FinalizeReconcile, worldVars

\* A system that did not run when the first run was staged.
LEMMA UnservedWorld ==
  ASSUME Inv, MemoryCurrent, CheckoutKnown, Unserved, NEW o \in Operators, CommandStep(o)
  PROVE  ~Active' /\ data' = Base
<1>1. /\ service \in [code : Heads \cup {None}, flaps : 0 .. MaxFlaps]
      /\ service.code = None /\ data = Base
  BY DEF Inv, TypeOK, Unserved, Active
<1>2. ASSUME HoldsLock(o) PROVE Mem(o).before # "active" /\ Mem(o).backup \in {None, Base}
  <2>1. Run(o) \in Runs /\ file[Run(o)] # NoRun /\ SameSetup(Mem(o), file[Run(o)])
    BY <1>2, Facts
  <2> QED BY <2>1 DEF Unserved, SameSetup
<1>3. CASE UNCHANGED <<service, data>> BY <1>1, <1>3 DEF Active
<1>4. CASE StageRestart(o)
  <2>1. HoldsLock(o) BY <1>4 DEF StageRestart, HoldsLock
  <2> QED BY <1>2, <1>3, <1>4, <2>1 DEF StageRestart
<1>5. CASE RollbackStop(o) BY <1>1, <1>5 DEF RollbackStop, Active
<1>6. CASE RollbackRestore(o)
  <2>1. HoldsLock(o) BY <1>6 DEF RollbackRestore, HoldsLock
  <2>2. CASE Mem(o).backup = None BY <1>3, <1>6, <2>2 DEF RollbackRestore
  <2>3. CASE Mem(o).backup # None
    <3>1. Mem(o).backup = Base BY <1>2, <2>1, <2>3
    <3> QED BY <1>1, <1>6, <2>3, <3>1 DEF RollbackRestore, Active
  <2> QED BY <2>2, <2>3
<1>7. CASE RollbackStart(o)
  <2>1. HoldsLock(o) BY <1>7 DEF RollbackStart, HoldsLock
  <2>2. service' = [service EXCEPT !.code = None] /\ data' = data
    BY <1>2, <1>7, <2>1 DEF RollbackStart
  <2> QED BY <1>1, <2>2 DEF Active
<1> QED
  BY <1>3, <1>4, <1>5, <1>6, <1>7
     DEF CommandStep, LoadRun, Refused, ClearActive, Crash, StageStep, RollbackStep, FinalizeStep,
         Stage, StageClaim, StagePrepare, StageMerge, StageRecord, StageVerify, StageComplete,
         StageFails, StageInterrupted, Rollback, RollbackCheck, RollbackReset, RollbackRecord,
         RollbackRestored, RollbackStarted, RollbackVerify, RollbackComplete, RollbackFails,
         Finalize, FinalizeRefused, FinalizeGuard, FinalizePush, FinalizeOutcome,
         FinalizeReconcile, FinalizeReconcileFails, FinalizeComplete, worldVars

LEMMA UnservedNext ==
  ASSUME Inv, MemoryCurrent, CheckoutKnown, Unserved, [Next]_vars
  PROVE  Unserved'
<1>1. CASE Edit \/ ForeignPush \/ Fetch \/ Flap \/ UNCHANGED vars
  BY <1>1 DEF Edit, ForeignPush, Fetch, Flap, vars, Unserved, Active
<1>2. ASSUME NEW o \in Operators, CommandStep(o) PROVE Unserved'
  <2>1. ~Active' /\ data' = Base BY <1>2, UnservedWorld
  <2>2. ASSUME NEW r \in Runs, file'[r] # NoRun
        PROVE  file'[r].before # "active" /\ file'[r].backup \in {None, Base}
    <3>1. CASE file'[r] = file[r] \/ (file[r] # NoRun /\ SameSetup(file'[r], file[r]))
      BY <2>2, <3>1 DEF Unserved, SameSetup
    <3>2. CASE file'[r] = NewRun
      <4>1. NewRun.before = None /\ NewRun.backup = None BY DEF NewRun
      <4>2. None # "active" BY StatusAssumption
      <4> QED BY <3>2, <4>1, <4>2
    <3>3. CASE StagePrepare(o) /\ r = Run(o)
      <4>1. HoldsLock(o) BY <3>3 DEF StagePrepare, HoldsLock
      <4>2. PICK f \in RunState : f = file[Run(o)] BY <4>1, Facts
      <4>3. f.before # "active" /\ f.backup \in {None, Base}
        BY <4>1, <4>2, Facts DEF Unserved
      <4>4. PICK n \in RunState :
              /\ Persist(o, n)
              /\ n.before \in {f.before, "inactive"} /\ n.backup \in {f.backup, Base}
        BY <3>3, <4>2, StagePrepareSaves DEF Save, SameSetup, Unserved
      <4>5. file'[r] = n BY <3>3, <4>4 DEF Persist, Inv, TypeOK
      <4> QED BY <4>3, <4>4, <4>5
    <3> QED BY <1>2, <3>1, <3>2, <3>3, SetupWrites
  <2> QED BY <2>1, <2>2 DEF Unserved
<1> QED BY <1>1, <1>2 DEF Next

\* A system that ran when the first run was staged.
LEMMA ServedStep ==
  ASSUME Solo, CheckoutKnown, Served, NEW o \in Operators, NEW r \in Runs, marker \in {None, r},
         \A q \in Runs \ {r} : file'[q] = file[q], NEW n, file'[r] = n, Serves(n, r)',
         marker' \in {None, r}, marker' = None => Level',
         NEW pc, \/ op'[o] = Idle
                 \/ op'[o].run = r /\ op'[o].pc = pc /\ ServesAt(pc, n, r)'
  PROVE  Served'
<1>1. ASSUME NEW q \in Runs, file'[q] # NoRun PROVE Serves(file[q], q)'
  <2>1. CASE q = r BY <2>1 DEF Serves, Merged, Undoing
  <2>2. CASE q # r
    <3>1. file'[q] = file[q] /\ Serves(file[q], q) /\ Recorded(file[q], q) /\ Reset(file[q], q)
      BY <1>1, <2>2 DEF Served, CheckoutKnown
    <3>2. marker # q /\ marker' # q BY <2>2, IntegrationAssumption
    <3>3. file[q].status = "ROLLED_BACK" \/ ~file[q].git BY <3>1, <3>2 DEF Reset
    <3> QED BY <3>1, <3>2, <3>3 DEF Serves, Recorded
  <2> QED BY <2>1, <2>2
<1>2. ASSUME NEW p \in Operators, HoldsLock(p)' PROVE ServesAt(Pc(p), file[Run(p)], Run(p))'
  <2>1. p = o BY DEF Solo
  <2>2. op'[o] # Idle BY <1>2, <2>1 DEF HoldsLock, Pc, Idle
  <2>3. op'[o].run = r /\ op'[o].pc = pc /\ ServesAt(pc, n, r)' BY <2>2
  <2> QED BY <2>1, <2>3 DEF Run, Pc, ServesAt, StagePcs
<1> QED BY <1>1, <1>2 DEF Served

LEMMA ServedSave ==
  ASSUME Inv, Solo, MemoryCurrent, CheckoutKnown, Served, NEW o \in Operators, HoldsLock(o),
         Pc(o) # "claiming", NEW n \in RunState, Persist(o, n),
         UNCHANGED <<repo, service, data, marker>>, Serves(n, Run(o)),
         NEW pc, Exit(o) \/ (Goto(o, pc, n) /\ ServesAt(pc, n, Run(o)))
  PROVE  Served'
<1>1. PICK r \in Runs : r = Run(o) BY Facts
<1>2. marker = r /\ Pc(o) # "idle" /\ TypeOK BY <1>1, Facts DEF Inv
<1>3. file'[r] = n /\ \A q \in Runs \ {r} : file'[q] = file[q] BY <1>1, <1>2, PersistDoes
<1>4. Serves(n, r)' BY <1>1 DEF Serves, Level, Merged, Undoing, Active
<1>5. op'[o] = Idle \/ (op'[o].run = r /\ op'[o].pc = pc /\ ServesAt(pc, n, r)')
  <2>1. CASE Exit(o) BY <1>2, <2>1, ExitDoes
  <2>2. CASE Goto(o, pc, n) /\ ServesAt(pc, n, Run(o))
    <3>1. op'[o].run = r /\ op'[o].pc = pc BY <1>1, <1>2, <2>2, GotoSets
    <3>2. ServesAt(pc, n, r)' BY <1>1, <2>2 DEF ServesAt, StagePcs, Level, Active
    <3> QED BY <3>1, <3>2
  <2> QED BY <2>1, <2>2
<1>6. marker' = r /\ r # None BY <1>2, IntegrationAssumption
<1> QED BY <1>2, <1>3, <1>4, <1>5, <1>6, ServedStep

LEMMA ServedMove ==
  ASSUME Inv, Solo, MemoryCurrent, CheckoutKnown, Served, NEW o \in Operators, Pc(o) # "idle",
         NEW r \in Runs, r = Run(o), NEW f, f = file[r], file' = file,
         NEW pc, NEW m, Goto(o, pc, m), marker' = r, marker \in {None, r},
         Serves(f, r)', ServesAt(pc, f, r)'
  PROVE  Served'
<1>1. op'[o].pc = pc /\ op'[o].run = r BY GotoSets DEF Inv
<1>2. r # None BY IntegrationAssumption
<1> QED BY <1>1, <1>2, ServedStep

LEMMA LeaveServed ==
  ASSUME Solo, CheckoutKnown, Served, NEW o \in Operators, ~HoldsLock(o)',
         UNCHANGED <<repo, service, data, file, marker>>
  PROVE  Served'
<1>1. \A p \in Operators : ~HoldsLock(p)' BY DEF Solo
<1> QED BY <1>1 DEF Served, Serves, Level, Merged, Undoing, Active

\* What the command under the lock knows of the service.
LEMMA ServedFacts ==
  ASSUME Inv, MemoryCurrent, CheckoutKnown, Served, NEW o \in Operators, HoldsLock(o)
  PROVE  /\ Serves(file[Run(o)], Run(o)) /\ ServesAt(Pc(o), file[Run(o)], Run(o))
         /\ Pc(o) # "claiming" =>
              Level \/ Merged(file[Run(o)], Run(o)) \/ Undoing(file[Run(o)], Run(o))
<1>1. Run(o) \in Runs /\ file[Run(o)] # NoRun /\ (Pc(o) # "claiming" => marker = Run(o))
  BY Facts
<1> QED BY <1>1 DEF Served, Serves

\* A change of the status, of an accepted run only while all is level.
LEMMA ServedMoved ==
  ASSUME Inv, Solo, MemoryCurrent, CheckoutKnown, Served, NEW o \in Operators, HoldsLock(o),
         Pc(o) # "claiming", NEW n \in RunState, Persist(o, n),
         UNCHANGED <<repo, service, data, marker>>,
         NEW st, Moved(n, file[Run(o)], st), st \notin Accepted \/ Level,
         file[Run(o)].git => file[Run(o)].status # "ROLLED_BACK",
         NEW pc, Exit(o) \/ (Goto(o, pc, n) /\ ServesAt(pc, n, Run(o)))
  PROVE  Served'
<1>1. PICK f \in RunState : f = file[Run(o)] BY Facts
<1>2. Recorded(f, Run(o)) /\ Serves(f, Run(o)) /\ marker = Run(o)
  BY <1>1, Facts, ServedFacts
<1>3. /\ n.baseline = f.baseline /\ n.backup = f.backup /\ n.before = f.before
      /\ n.git = f.git /\ n.backups = f.backups /\ n.services = f.services /\ n.status = st
  BY <1>1 DEF Moved, SameSetup, SameMilestones
<1>4. Level \/ Merged(n, Run(o)) \/ Undoing(n, Run(o))
  BY <1>1, <1>2, <1>3 DEF Serves, Merged, Undoing
<1>5. f.services => f.git BY <1>2 DEF Recorded
<1>6. Serves(n, Run(o)) BY <1>1, <1>2, <1>3, <1>4, <1>5 DEF Serves
<1> QED BY <1>6, ServedSave

LEMMA StageServed ==
  ASSUME Inv, Solo, CheckoutKnown, Served, NEW o \in Operators, NEW r \in Runs, Stage(o, r)
  PROVE  Served'
<1>1. /\ file[r] = NoRun /\ file'[r] = NewRun /\ \A q \in Runs \ {r} : file'[q] = file[q]
      /\ UNCHANGED <<repo, service, data, marker>>
  BY DEF Stage, Inv, TypeOK, worldVars
<1>2. op'[o].pc = "claiming" BY DEF Stage, Inv, TypeOK
<1>3. marker # r BY <1>1 DEF CheckoutKnown
<1>4. /\ NewRun.before = None /\ NewRun.backup = None /\ ~NewRun.git /\ ~NewRun.services
      /\ None # "inactive"
  BY StatusAssumption DEF NewRun
<1>5. ASSUME NEW q \in Runs, file'[q] # NoRun PROVE Serves(file[q], q)'
  <2>1. CASE q = r BY <1>1, <1>3, <1>4, <2>1 DEF Serves
  <2>2. CASE q # r
    <3>1. file'[q] = file[q] /\ Serves(file[q], q) BY <1>1, <1>5, <2>2 DEF Served
    <3> QED BY <1>1, <3>1 DEF Serves, Level, Merged, Undoing, Active
  <2> QED BY <2>1, <2>2
<1>6. \A p \in Operators : HoldsLock(p)' => ServesAt(Pc(p), file[Run(p)], Run(p))'
  BY <1>2 DEF Solo, ServesAt, StagePcs, Pc
<1>7. (marker = None => Level)' BY <1>1 DEF Served, Level, Active
<1> QED BY <1>5, <1>6, <1>7 DEF Served

LEMMA StageClaimServed ==
  ASSUME Inv, Solo, MemoryCurrent, CheckoutKnown, Served, NEW o \in Operators, StageClaim(o)
  PROVE  Served'
<1>1. HoldsLock(o) /\ Pc(o) = "claiming" BY DEF StageClaim, HoldsLock
<1>2. PICK r \in Runs : r = Run(o) BY <1>1, Facts
<1>3. PICK f \in RunState : f = file[r] BY <1>1, <1>2, Facts
<1>4. marker # r /\ f.status = "INTERNAL_ERROR" /\ Serves(f, r)
  BY <1>1, <1>2, <1>3, Facts, ServedFacts DEF At, Stands
<1>5. /\ marker \in {None, r} /\ marker' = r /\ Goto(o, "preparing", Mem(o)) /\ Pc(o) # "idle"
      /\ UNCHANGED <<repo, service, data, file>>
  BY <1>2 DEF StageClaim, Claimable, worldVars
<1>6. Level' BY <1>4, <1>5 DEF Served, Level, Active
<1>7. Serves(f, r)' BY <1>4, <1>5, <1>6 DEF Serves, Active
<1>8. ServesAt("preparing", f, r)' BY <1>4, <1>6 DEF ServesAt, StagePcs, Level
<1> QED BY <1>2, <1>3, <1>5, <1>7, <1>8, ServedMove

LEMMA StagePrepareServed ==
  ASSUME Inv, Solo, MemoryCurrent, CheckoutKnown, Served, NEW o \in Operators, StagePrepare(o)
  PROVE  Served'
<1>1. HoldsLock(o) /\ Pc(o) = "preparing" BY DEF StagePrepare, HoldsLock
<1>2. PICK f \in RunState : f = file[Run(o)] BY <1>1, Facts
<1>3. /\ repo.head = f.baseline /\ ~f.git /\ Recorded(f, Run(o)) /\ Serves(f, Run(o))
      /\ Level /\ Active /\ (f.status # "INTERNAL_ERROR" => f.before = "active")
  BY <1>1, <1>2, Facts, ServedFacts DEF Stands, StagePcs, ServesAt
<1>4. UNCHANGED <<repo, service, data, marker>> BY DEF StagePrepare, worldVars
<1>5. PICK pc \in {"preparing", "merging"} : \E n \in RunState :
        /\ Save(o, pc, n) /\ n.baseline = f.baseline /\ SameMilestones(n, f)
        /\ n.before = "active" /\ n.backup \in {f.backup, data}
  BY <1>2, <1>3, StagePrepareSaves DEF SameSetup
<1>6. PICK n \in RunState :
        /\ Save(o, pc, n) /\ n.baseline = f.baseline /\ SameMilestones(n, f)
        /\ n.before = "active" /\ n.backup \in {f.backup, data}
  BY <1>5
<1>7. ~n.git /\ ~n.services BY <1>3, <1>6 DEF SameMilestones, Recorded
<1>8. n.backup # None => n.backup = n.baseline BY <1>3, <1>6 DEF Serves, Level
<1>9. Serves(n, Run(o)) BY <1>3, <1>6, <1>7, <1>8 DEF Serves
<1>10. ServesAt(pc, n, Run(o)) BY <1>3, <1>6 DEF ServesAt, StagePcs
<1> QED BY <1>1, <1>4, <1>6, <1>9, <1>10, ServedSave DEF Save

\* From the merge on, the service is known to have run.
LEMMA MergedFacts ==
  ASSUME Inv, MemoryCurrent, CheckoutKnown, Served, NEW o \in Operators,
         Pc(o) \in {"merging", "merged", "staging", "restarted", "accepting"}
  PROVE  LET f == file[Run(o)] IN
         /\ HoldsLock(o) /\ Run(o) \in Runs /\ f \in RunState /\ marker = Run(o)
         /\ f.before = "active" /\ Mem(o).before = "active" /\ ~f.git /\ ~f.services
         /\ f.status \notin Accepted /\ f.baseline # Run(o)
         /\ Active /\ (Level \/ Merged(f, Run(o))) /\ Serves(f, Run(o))
<1>1. HoldsLock(o) /\ Pc(o) \in StagePcs /\ Pc(o) # "claiming" BY DEF HoldsLock, StagePcs
<1>2. PICK f \in RunState : f = file[Run(o)] BY <1>1, Facts
<1>3. /\ f.backup # None /\ ~f.git /\ Recorded(f, Run(o)) /\ Mem(o).before = f.before
      /\ f.status \in StageStatuses
  BY <1>1, <1>2, Facts DEF Stands, SameSetup, At
<1>4. /\ Serves(f, Run(o)) /\ Active
      /\ Level \/ Merged(f, Run(o)) \/ Undoing(f, Run(o))
  BY <1>1, <1>2, ServedFacts DEF ServesAt, Level, StagePcs
<1>5. f.before = "active" /\ (Level \/ Merged(f, Run(o))) BY <1>3, <1>4 DEF Serves, Undoing
<1>6. ~f.services /\ f.baseline # Run(o) BY <1>3 DEF Recorded
<1>7. f.status \notin Accepted BY <1>3 DEF StageStatuses, Accepted
<1> QED BY <1>1, <1>2, <1>3, <1>4, <1>5, <1>6, <1>7, Facts

\* Code that starts on its own data or on its baseline's ends up on its own.
LEMMA Migrates ==
  ASSUME CheckoutKnown,
         data = repo.head \/ (repo.head \in Runs /\ data = file[repo.head].baseline)
  PROVE  Migrated(repo.head) = repo.head
<1>1. repo.head \in Runs => file[repo.head] # NoRun /\ file[repo.head].baseline # repo.head
  BY DEF CheckoutKnown, Recorded
<1> QED BY <1>1 DEF Migrated

LEMMA StageMergeServed ==
  ASSUME Inv, Solo, MemoryCurrent, CheckoutKnown, Served, NEW o \in Operators,
         StageMerge(o) \/ StageRestart(o)
  PROVE  Served'
<1>1. Pc(o) \in {"merging", "staging"} /\ Pc(o) # "idle" BY DEF StageMerge, StageRestart
<1>2. PICK r \in Runs : r = Run(o) BY <1>1, MergedFacts
<1>3. PICK f \in RunState : f = file[r] BY <1>1, <1>2, MergedFacts
<1>4. /\ HoldsLock(o) /\ marker = r /\ f.before = "active" /\ Mem(o).before = "active"
      /\ ~f.git /\ ~f.services /\ f.status \notin Accepted /\ f.baseline # r
      /\ Active /\ (Level \/ Merged(f, r)) /\ Serves(f, r)
  BY <1>1, <1>2, <1>3, MergedFacts
<1>5. Stands(Pc(o), f, r) /\ ServesAt(Pc(o), f, r) BY <1>2, <1>3, <1>4, Facts, ServedFacts
<1>6. repo \in Tree /\ service \in [code : Heads \cup {None}, flaps : 0 .. MaxFlaps] BY DEF Inv, TypeOK
<1>7. CASE StageMerge(o)
  <2>1. /\ Goto(o, "merged", [Mem(o) EXCEPT !.staged = Run(o)])
        /\ UNCHANGED <<service, data, file, marker>> /\ repo'.head = r
    BY <1>2, <1>6, <1>7 DEF StageMerge, Tree
  <2>2. data = f.baseline BY <1>5, <1>7 DEF StageMerge, Stands, ServesAt, StagePcs, Level
  <2>3. Merged(f, r)' BY <1>4, <2>1, <2>2 DEF Merged, Active
  <2>4. Serves(f, r)' BY <1>4, <2>1, <2>3 DEF Serves
  <2>5. ServesAt("merged", f, r)' BY <1>4, <2>1 DEF ServesAt, StagePcs, Active
  <2> QED BY <1>1, <1>2, <1>3, <1>4, <2>1, <2>4, <2>5, ServedMove
<1>8. CASE StageRestart(o)
  <2>1. /\ Goto(o, "restarted", Mem(o)) /\ UNCHANGED <<repo, file, marker>>
        /\ service' = [service EXCEPT !.code = repo.head] /\ data' = Migrated(repo.head)
    BY <1>4, <1>8 DEF StageRestart, Starts
  <2>2. repo.head = r BY <1>5, <1>8 DEF StageRestart, Stands
  <2>3. data = r \/ data = f.baseline BY <1>4, <2>2 DEF Level, Merged
  <2>4. data' = r /\ service'.code = r BY <1>3, <1>6, <2>1, <2>2, <2>3, Migrates
  <2>5. Level' BY <2>1, <2>2, <2>4, IntegrationAssumption DEF Level, Active
  <2>6. Serves(f, r)' BY <1>4, <2>5 DEF Serves
  <2>7. ServesAt("restarted", f, r)' BY <1>4, <2>4, <2>5 DEF ServesAt, StagePcs, Level
  <2> QED BY <1>1, <1>2, <1>3, <1>4, <2>1, <2>6, <2>7, ServedMove
<1> QED BY <1>7, <1>8

LEMMA StageRecordServed ==
  ASSUME Inv, Solo, MemoryCurrent, CheckoutKnown, Served, NEW o \in Operators, StageRecord(o)
  PROVE  Served'
<1>1. Pc(o) = "merged" BY DEF StageRecord
<1>2. PICK f \in RunState : f = file[Run(o)] BY <1>1, MergedFacts
<1>3. /\ HoldsLock(o) /\ f.before = "active" /\ ~f.git /\ ~f.services
      /\ Active /\ (Level \/ Merged(f, Run(o))) /\ Serves(f, Run(o))
  BY <1>1, <1>2, MergedFacts
<1>4. PICK st \in Statuses : st = "POST_MERGE_TESTING" BY DEF Statuses
<1>5. PICK n : ExpectedSave(o, st, repo, n) BY DEF ExpectedSave
<1>6. n \in RunState /\ n.status = st /\ SameSetup(n, f) /\ SameMilestones(n, f)
  <2>1. repo \in Tree BY DEF Inv, TypeOK
  <2> QED BY <1>2, <1>3, <1>5, <2>1, ExpectedSaves
<1>7. Save(o, "staging", n) /\ UNCHANGED <<repo, service, data, marker>>
  BY <1>4, <1>5 DEF StageRecord, worldVars, ExpectedSave
<1>8. st \notin Accepted /\ st # "VERIFYING" BY <1>4 DEF Accepted
<1>9. Serves(n, Run(o))
  BY <1>3, <1>6, <1>8 DEF Serves, Merged, SameSetup, SameMilestones
<1>10. ServesAt("staging", n, Run(o)) BY <1>3, <1>6, <1>8 DEF ServesAt, StagePcs, SameSetup
<1> QED BY <1>1, <1>3, <1>6, <1>7, <1>9, <1>10, ServedSave DEF Save

LEMMA StageVerifyServed ==
  ASSUME Inv, Solo, MemoryCurrent, CheckoutKnown, Served, NEW o \in Operators, StageVerify(o)
  PROVE  Served'
<1>1. Pc(o) \in {"staging", "restarted"} BY DEF StageVerify
<1>2. PICK f \in RunState : f = file[Run(o)] BY <1>1, MergedFacts
<1>3. /\ HoldsLock(o) /\ f.before = "active" /\ ~f.git /\ Active
  BY <1>1, <1>2, MergedFacts
<1>4. UNCHANGED <<repo, service, data, marker>> BY DEF StageVerify, worldVars
<1>5. \A st \in Statuses : With(o, st) \in RunState /\ Moved(With(o, st), f, st)
  BY <1>2, <1>3, WithMoved
<1>6. ServesAt(Pc(o), f, Run(o)) /\ Stands(Pc(o), f, Run(o)) /\ Mem(o).status = f.status
  BY <1>2, <1>3, Facts, ServedFacts
<1>7. CASE Save(o, "staging", With(o, "RESTARTING_SERVICES"))
  <2>1. PICK st \in Statuses : st = "RESTARTING_SERVICES" BY DEF Statuses
  <2>2. PICK n \in RunState : n = With(o, st) BY <1>5
  <2>3. Moved(n, f, st) /\ st \notin Accepted BY <1>5, <2>1, <2>2 DEF Accepted
  <2>4. ServesAt("staging", n, Run(o)) BY <1>3, <2>1, <2>3 DEF ServesAt, StagePcs, Moved, SameSetup
  <2> QED BY <1>1, <1>2, <1>3, <1>4, <1>7, <2>1, <2>2, <2>3, <2>4, ServedMoved DEF Save
<1>8. CASE /\ Pc(o) = "restarted"
           /\ Save(o, "staging", [With(o, "VERIFYING") EXCEPT !.snapshot = Snapshot])
  <2>1. PICK st \in Statuses : st = "VERIFYING" BY DEF Statuses
  <2>2. PICK k \in RunState : k = With(o, st) BY <1>5
  <2>3. Moved(k, f, st) /\ st \notin Accepted BY <1>5, <2>1, <2>2 DEF Accepted
  <2>4. PICK n : n = [k EXCEPT !.snapshot = Snapshot] OBVIOUS
  <2>5. Snapshot \in [active : BOOLEAN, flaps : Nat] BY SnapshotTyped DEF Inv
  <2>6. /\ n \in RunState /\ n.status = k.status /\ n.expected = k.expected
        /\ SameSetup(n, k) /\ SameMilestones(n, k)
    BY <2>4, <2>5 DEF RunState, SameSetup, SameMilestones
  <2>7. Moved(n, f, st) BY <2>3, <2>6 DEF Moved, SameSetup, SameMilestones
  <2>8. service.code = Run(o) /\ data = Run(o) BY <1>6, <1>8 DEF ServesAt, StagePcs
  <2>9. ServesAt("staging", n, Run(o)) BY <1>3, <2>7, <2>8 DEF ServesAt, StagePcs, Moved, SameSetup
  <2>10. Save(o, "staging", n) BY <1>8, <2>1, <2>2, <2>4
  <2> QED BY <1>1, <1>2, <1>3, <1>4, <2>3, <2>6, <2>7, <2>9, <2>10, ServedMoved DEF Save
<1>9. CASE /\ Pc(o) = "staging" /\ Mem(o).status = "VERIFYING"
           /\ Goto(o, "accepting", Mem(o)) /\ UNCHANGED file
  <2>1. PICK r \in Runs : r = Run(o) BY <1>1, MergedFacts
  <2>2. f = file[r] /\ marker = r /\ Pc(o) # "idle" /\ Serves(f, r)
    BY <1>1, <1>2, <2>1, MergedFacts
  <2>3. service.code = r /\ data = r BY <1>6, <1>9, <2>1 DEF ServesAt, StagePcs
  <2>4. Serves(f, r)' BY <1>4, <2>2 DEF Serves, Level, Merged, Undoing, Active
  <2>5. ServesAt("accepting", f, r)' BY <1>3, <1>4, <2>3 DEF ServesAt, StagePcs, Active
  <2> QED BY <1>4, <1>9, <2>1, <2>2, <2>4, <2>5, ServedMove
<1> QED BY <1>7, <1>8, <1>9 DEF StageVerify

LEMMA StageCompleteServed ==
  ASSUME Inv, Solo, MemoryCurrent, CheckoutKnown, Served, NEW o \in Operators, StageComplete(o)
  PROVE  Served'
<1>1. Pc(o) = "accepting" /\ Pc(o) # "claiming" BY DEF StageComplete
<1>2. PICK f \in RunState : f = file[Run(o)] BY <1>1, MergedFacts
<1>3. HoldsLock(o) /\ ~f.git /\ Active BY <1>1, <1>2, MergedFacts
<1>4. UNCHANGED <<repo, service, data, marker>> /\ SaveAndExit(o, With(o, "AWAITING_ACCEPTANCE"))
  BY DEF StageComplete, worldVars
<1>5. ServesAt("accepting", f, Run(o)) /\ Stands("accepting", f, Run(o))
  BY <1>1, <1>2, <1>3, Facts, ServedFacts
<1>6. PICK st \in Statuses : st = "AWAITING_ACCEPTANCE" BY DEF Statuses
<1>7. PICK n \in RunState : n = With(o, st) BY <1>3, WithMoved
<1>8. Moved(n, f, st) BY <1>2, <1>3, <1>7, WithMoved
<1>9. Level BY <1>3, <1>5 DEF ServesAt, StagePcs, Stands, Level
<1> QED BY <1>1, <1>2, <1>3, <1>4, <1>6, <1>7, <1>8, <1>9, ServedMoved DEF SaveAndExit

LEMMA StageFailsServed ==
  ASSUME Inv, Solo, MemoryCurrent, CheckoutKnown, Served, NEW o \in Operators,
         StageFails(o) \/ StageInterrupted(o)
  PROVE  Served'
<1>1. HoldsLock(o) /\ Pc(o) \in StagePcs /\ Pc(o) # "claiming"
  BY DEF StageFails, StageInterrupted, HoldsLock, StagePcs
<1>2. PICK f \in RunState : f = file[Run(o)] BY <1>1, Facts
<1>3. ~f.git /\ ServesAt(Pc(o), f, Run(o)) BY <1>1, <1>2, Facts, ServedFacts DEF Stands
<1>4. UNCHANGED <<repo, service, data, marker>>
  BY DEF StageFails, StageInterrupted, worldVars
<1>5. \A st \in Statuses : With(o, st) \in RunState /\ Moved(With(o, st), f, st)
  BY <1>1, <1>2, WithMoved
<1>6. \A n : ServesAt("checking", n, Run(o)) BY DEF ServesAt, StagePcs
<1>7. ASSUME NEW st \in Statuses \ Accepted, Persist(o, With(o, st)),
             \/ Exit(o) \/ Goto(o, "checking", With(o, st))
             \/ Pc(o) = "preparing" /\ Goto(o, "clearing", With(o, st))
      PROVE  Served'
  <2>1. PICK n \in RunState : n = With(o, st) BY <1>5
  <2>2. Moved(n, f, st) BY <1>5, <2>1
  <2>3. Pc(o) = "preparing" => ServesAt("clearing", n, Run(o)) BY <1>3 DEF ServesAt, StagePcs
  <2> QED BY <1>1, <1>2, <1>3, <1>4, <1>6, <1>7, <2>1, <2>2, <2>3, ServedMoved
<1>8. CASE /\ Pc(o) = "merging"
           /\ Save(o, "checking", [With(o, "AUTOMATED_CHECK_FAILED") EXCEPT !.expected = repo])
  <2>1. PICK st \in Statuses : st = "AUTOMATED_CHECK_FAILED" BY DEF Statuses
  <2>2. PICK n : ExpectedSave(o, st, repo, n) BY DEF ExpectedSave
  <2>3. n \in RunState /\ n.status = st /\ SameSetup(n, f) /\ SameMilestones(n, f)
    <3>1. repo \in Tree BY DEF Inv, TypeOK
    <3> QED BY <1>1, <1>2, <2>2, <3>1, ExpectedSaves
  <2>4. Serves(f, Run(o)) /\ Level /\ ~f.services
    BY <1>2, <1>3, <1>8, MergedFacts DEF ServesAt, StagePcs
  <2>5. Serves(n, Run(o)) BY <1>3, <2>3, <2>4 DEF Serves, SameSetup, SameMilestones
  <2>6. Save(o, "checking", n) BY <1>8, <2>1, <2>2 DEF ExpectedSave
  <2> QED BY <1>1, <1>4, <1>6, <1>8, <2>1, <2>3, <2>5, <2>6, ServedSave DEF Save
<1>9. "AUTOMATED_CHECK_FAILED" \in Statuses \ Accepted /\ "INTERRUPTED" \in Statuses \ Accepted
  BY DEF Statuses, Accepted
<1> QED
  BY <1>7, <1>8, <1>9 DEF StageFails, StageInterrupted, Save, SaveAndExit

LEMMA TakeServed ==
  ASSUME Inv, Solo, MemoryCurrent, CheckoutKnown, Served, NEW o \in Operators,
         Rollback(o) \/ Finalize(o)
  PROVE  Served'
<1>1. Pc(o) = "loaded" /\ Pc(o) # "idle" BY DEF Rollback, Finalize
<1>2. PICK r \in Runs : r = Run(o) BY <1>1, LoadedFacts
<1>3. PICK f \in RunState : f = file[r] BY <1>1, <1>2, LoadedFacts
<1>4. Mem(o) = f /\ Serves(f, r) /\ Recorded(f, r)
  BY <1>1, <1>2, <1>3, LoadedFacts DEF Served
<1>5. marker \in {None, r} /\ marker' = r /\ UNCHANGED <<repo, service, data>>
  BY <1>2 DEF Rollback, Finalize, Claimable, worldVars
<1>6. /\ Level' <=> Level
      /\ \A n : Merged(n, r)' <=> Merged(n, r)
      /\ \A n : Undoing(n, r)' <=> Undoing(n, r)
  BY <1>5 DEF Level, Merged, Undoing, Active
<1>7. Level \/ Merged(f, r) \/ Undoing(f, r) BY <1>4, <1>5 DEF Served, Serves
<1>8. Serves(f, r)' BY <1>4, <1>5, <1>6, <1>7 DEF Serves, Active
<1>9. CASE Rollback(o)
  <2>1. Goto(o, "checking", Mem(o)) /\ file' = file BY <1>9 DEF Rollback
  <2>2. ServesAt("checking", f, r)' BY DEF ServesAt, StagePcs
  <2> QED BY <1>1, <1>2, <1>3, <1>5, <1>8, <2>1, <2>2, ServedMove
<1>10. CASE Finalize(o)
  <2>1. f.status \in {"AWAITING_ACCEPTANCE", "FINALIZING"} BY <1>4, <1>10 DEF Finalize
  <2>2. Level /\ ~f.git /\ ~f.services
    BY <1>4, <1>7, <2>1 DEF Merged, Undoing, Accepted, Recorded
  <2>3. CASE /\ \/ Goto(o, "guarding", Mem(o)) /\ UNCHANGED file
                \/ Save(o, "reconciling", Mem(o))
    <3>1. file' = file BY <1>2, <1>3, <1>4, <2>3 DEF Save, Persist, Inv, TypeOK
    <3>2. PICK pc \in {"guarding", "reconciling"} : Goto(o, pc, Mem(o)) BY <2>3 DEF Save
    <3>3. ServesAt(pc, f, r)' BY DEF ServesAt, StagePcs
    <3> QED BY <1>1, <1>2, <1>3, <1>5, <1>8, <3>1, <3>2, <3>3, ServedMove
  <2>4. CASE Save(o, "clearing", With(o, "INTERNAL_ERROR"))
    <3>1. PICK n : n = [f EXCEPT !.status = "INTERNAL_ERROR"] OBVIOUS
    <3>2. n \in RunState /\ Moved(n, f, "INTERNAL_ERROR")
      BY <3>1, StatusOnly DEF Moved, Statuses
    <3>3. Persist(o, n) /\ Goto(o, "clearing", n) BY <1>4, <2>4, <3>1 DEF With, Save
    <3>4. file'[r] = n /\ \A q \in Runs \ {r} : file'[q] = file[q]
      BY <1>2, <3>2, <3>3, PersistDoes DEF Inv
    <3>5. op'[o].pc = "clearing" /\ op'[o].run = r BY <1>1, <1>2, <3>3, GotoSets DEF Inv
    <3>6. Level' BY <1>6, <2>2
    <3>7. Serves(n, r)'
      BY <1>4, <2>2, <3>2, <3>6 DEF Serves, Moved, SameSetup, SameMilestones
    <3>8. ServesAt("clearing", n, r)' BY <3>6 DEF ServesAt, StagePcs
    <3> QED BY <1>5, <3>4, <3>5, <3>6, <3>7, <3>8, ServedStep
  <2> QED BY <1>10, <2>3, <2>4 DEF Finalize
<1> QED BY <1>9, <1>10

LEMMA RollbackCheckServed ==
  ASSUME Inv, Solo, MemoryCurrent, CheckoutKnown, Served, NEW o \in Operators, RollbackCheck(o)
  PROVE  Served'
<1>1. HoldsLock(o) /\ Pc(o) = "checking" /\ Pc(o) # "claiming" BY DEF RollbackCheck, HoldsLock
<1>2. PICK f \in RunState : f = file[Run(o)] BY <1>1, Facts
<1>3. Mem(o) = f /\ Recorded(f, Run(o)) /\ Serves(f, Run(o))
  BY <1>1, <1>2, Facts, ServedFacts
<1>4. UNCHANGED <<repo, service, data, marker>> BY DEF RollbackCheck, worldVars
<1>5. CASE Exit(o) /\ UNCHANGED file
  <2>1. ~HoldsLock(o)' BY <1>5, ExitDoes DEF Inv, HoldsLock, Pc, Idle
  <2> QED BY <1>4, <1>5, <2>1, LeaveServed
<1>6. CASE f.status # "ROLLED_BACK" /\ Save(o, FirstMissing(f), With(o, "ROLLING_BACK"))
  <2>1. PICK st \in Statuses : st = "ROLLING_BACK" BY DEF Statuses
  <2>2. PICK n \in RunState : n = With(o, st) BY <1>1, WithMoved
  <2>3. Moved(n, f, st) /\ st \notin Accepted BY <1>1, <1>2, <2>1, <2>2, WithMoved DEF Accepted
  <2>4. FirstMissing(f) = "restoring" => ~Active
    BY <1>3, <1>6 DEF FirstMissing, Serves
  <2>5. ServesAt(FirstMissing(f), n, Run(o)) BY <2>4 DEF ServesAt, StagePcs, FirstMissing
  <2> QED BY <1>1, <1>2, <1>4, <1>6, <2>1, <2>2, <2>3, <2>5, ServedMoved DEF Save
<1>7. CASE f.status # "ROLLED_BACK" /\ SaveAndExit(o, With(o, "INTERNAL_ERROR"))
  <2>1. PICK st \in Statuses : st = "INTERNAL_ERROR" BY DEF Statuses
  <2>2. PICK n \in RunState : n = With(o, st) BY <1>1, WithMoved
  <2>3. Moved(n, f, st) /\ st \notin Accepted BY <1>1, <1>2, <2>1, <2>2, WithMoved DEF Accepted
  <2> QED BY <1>1, <1>2, <1>4, <1>7, <2>1, <2>2, <2>3, ServedMoved DEF SaveAndExit
<1> QED BY <1>3, <1>5, <1>6, <1>7 DEF RollbackCheck

\* What a rollback under way knows of the service.
LEMMA UndoingFacts ==
  ASSUME Inv, MemoryCurrent, CheckoutKnown, Served, NEW o \in Operators,
         Pc(o) \in RollbackPcs \ {"checking"}
  PROVE  LET f == file[Run(o)] IN
         /\ Serves(f, Run(o)) /\ ServesAt(Pc(o), f, Run(o))
         /\ Level \/ Merged(f, Run(o)) \/ Undoing(f, Run(o))
         /\ f.git /\ Active =>
              /\ f.before = "active" /\ f.backups /\ Level
              /\ service.code = f.baseline /\ data = f.baseline
<1>1. HoldsLock(o) /\ Pc(o) # "claiming" BY DEF HoldsLock, RollbackPcs
<1>2. PICK f \in RunState : f = file[Run(o)] BY <1>1, Facts
<1>3. f.status = "ROLLING_BACK" /\ (f.git => repo.head = f.baseline)
  BY <1>2, RollbackFacts
<1>4. /\ Serves(f, Run(o)) /\ ServesAt(Pc(o), f, Run(o))
      /\ Level \/ Merged(f, Run(o)) \/ Undoing(f, Run(o))
  BY <1>1, <1>2, ServedFacts
<1>5. f.git /\ Active =>
        /\ f.before = "active" /\ f.backups
        /\ service.code = f.baseline /\ data = f.baseline
  BY <1>3, <1>4 DEF Serves
<1> QED BY <1>2, <1>3, <1>4, <1>5 DEF Level

LEMMA RollbackVerifyServed ==
  ASSUME Inv, Solo, MemoryCurrent, CheckoutKnown, Served, NEW o \in Operators, RollbackVerify(o)
  PROVE  Served'
<1>1. Pc(o) \in RollbackPcs \ {"checking"} /\ Pc(o) # "idle" BY DEF RollbackVerify, RollbackPcs
<1>2. PICK r \in Runs : r = Run(o) BY <1>1, RollbackFacts
<1>3. PICK f \in RunState : f = file[r] BY <1>1, <1>2, RollbackFacts
<1>4. marker = r BY <1>1, <1>2, RollbackFacts
<1>5. Serves(f, r) BY <1>1, <1>2, <1>3, UndoingFacts
<1>6. Goto(o, "verified", Mem(o)) /\ UNCHANGED <<repo, service, data, file, marker>>
  BY DEF RollbackVerify, worldVars
<1>7. Serves(f, r)' BY <1>5, <1>6 DEF Serves, Level, Merged, Undoing, Active
<1>8. ServesAt("verified", f, r)' BY DEF ServesAt, StagePcs
<1> QED BY <1>1, <1>2, <1>3, <1>4, <1>6, <1>7, <1>8, ServedMove

LEMMA RollbackStopServed ==
  ASSUME Inv, Solo, MemoryCurrent, CheckoutKnown, Served, NEW o \in Operators,
         RollbackStop(o) \/ RollbackReset(o)
  PROVE  Served'
<1>1. Pc(o) \in RollbackPcs \ {"checking"} /\ Pc(o) # "idle"
  BY DEF RollbackStop, RollbackReset, RollbackPcs
<1>2. PICK r \in Runs : r = Run(o) BY <1>1, RollbackFacts
<1>3. PICK f \in RunState : f = file[r] BY <1>1, <1>2, RollbackFacts
<1>4. /\ marker = r /\ Mem(o) = f /\ f.status = "ROLLING_BACK" /\ Recorded(f, r)
      /\ Stands(Pc(o), f, r)
  BY <1>1, <1>2, <1>3, RollbackFacts
<1>5. /\ Serves(f, r) /\ ServesAt(Pc(o), f, r)
      /\ Level \/ Merged(f, r) \/ Undoing(f, r)
  BY <1>1, <1>2, <1>3, UndoingFacts
<1>6. /\ ~f.git /\ ~f.backups /\ ~f.services /\ f.status \notin Accepted
      /\ repo.head = f.expected.head
  BY <1>4 DEF Stands, Recorded, Accepted, RollbackStop, RollbackReset
<1>7. /\ data \in {f.baseline, r} /\ (f.backup = None => data = f.baseline)
      /\ repo.head \in {f.baseline, r}
  BY <1>4, <1>5, <1>6 DEF Level, Merged, Undoing, Recorded
<1>8. repo \in Tree /\ service \in [code : Heads \cup {None}, flaps : 0 .. MaxFlaps] BY DEF Inv, TypeOK
<1>9. CASE RollbackStop(o)
  <2>1. Goto(o, "resetting", Mem(o)) /\ ~Active' /\ UNCHANGED <<repo, data, file, marker>>
    BY <1>8, <1>9 DEF RollbackStop, Active
  <2>2. Undoing(f, r)' BY <1>6, <1>7, <2>1 DEF Undoing
  <2>3. Serves(f, r)' BY <1>5, <1>6, <2>1, <2>2 DEF Serves
  <2>4. ServesAt("resetting", f, r)' BY <2>1 DEF ServesAt, StagePcs
  <2> QED BY <1>1, <1>2, <1>3, <1>4, <2>1, <2>3, <2>4, ServedMove
<1>10. CASE RollbackReset(o)
  <2>1. Goto(o, "recording", Mem(o)) /\ UNCHANGED <<service, data, file, marker>>
    BY <1>10 DEF RollbackReset
  <2>2. repo'.head = f.baseline BY <1>4, <1>6, <1>10 DEF RollbackReset
  <2>3. ~Active /\ ~Active' BY <1>5, <1>10, <2>1 DEF ServesAt, StagePcs, RollbackReset, Active
  <2>4. Undoing(f, r)' BY <1>6, <1>7, <2>1, <2>2, <2>3 DEF Undoing
  <2>5. Serves(f, r)' BY <1>5, <1>6, <2>3, <2>4 DEF Serves
  <2>6. ServesAt("recording", f, r)' BY <2>3 DEF ServesAt, StagePcs
  <2> QED BY <1>1, <1>2, <1>3, <1>4, <2>1, <2>5, <2>6, ServedMove
<1> QED BY <1>9, <1>10

LEMMA RollbackRestoreServed ==
  ASSUME Inv, Solo, MemoryCurrent, CheckoutKnown, Served, NEW o \in Operators,
         RollbackRestore(o) \/ RollbackStart(o)
  PROVE  Served'
<1>1. Pc(o) \in RollbackPcs \ {"checking"} /\ Pc(o) # "idle"
  BY DEF RollbackRestore, RollbackStart, RollbackPcs
<1>2. PICK r \in Runs : r = Run(o) BY <1>1, RollbackFacts
<1>3. PICK f \in RunState : f = file[r] BY <1>1, <1>2, RollbackFacts
<1>4. /\ marker = r /\ Mem(o) = f /\ f.status = "ROLLING_BACK" /\ Recorded(f, r)
      /\ Stands(Pc(o), f, r) /\ (f.git => repo.head = f.baseline)
  BY <1>1, <1>2, <1>3, RollbackFacts
<1>5. /\ Serves(f, r) /\ ServesAt(Pc(o), f, r)
      /\ Level \/ Merged(f, r) \/ Undoing(f, r)
      /\ f.git /\ Active =>
           /\ f.before = "active" /\ f.backups /\ Level
           /\ service.code = f.baseline /\ data = f.baseline
  BY <1>1, <1>2, <1>3, UndoingFacts
<1>6. f.git /\ ~f.services /\ f.status \notin Accepted /\ repo.head = f.baseline
  BY <1>4 DEF Stands, Recorded, Accepted, RollbackRestore, RollbackStart
<1>7. service \in [code : Heads \cup {None}, flaps : 0 .. MaxFlaps] BY DEF Inv, TypeOK
<1>8. CASE RollbackRestore(o)
  <2>1. Goto(o, "restored", Mem(o)) /\ UNCHANGED <<repo, file, marker>>
    BY <1>8 DEF RollbackRestore
  <2>2. ~Active /\ Undoing(f, r) BY <1>5, <1>8 DEF ServesAt, StagePcs, Level, Merged, RollbackRestore
  <2>3. ~Active' /\ data' = f.baseline
    <3>1. CASE f.backup = None
      BY <1>4, <1>8, <2>2, <3>1 DEF RollbackRestore, Active, Undoing
    <3>2. CASE f.backup # None
      <4>1. f.backup = f.baseline BY <1>5, <3>2 DEF Serves
      <4> QED BY <1>4, <1>7, <1>8, <3>2, <4>1 DEF RollbackRestore, Active
    <3> QED BY <3>1, <3>2
  <2>4. Undoing(f, r)' BY <1>6, <2>1, <2>3 DEF Undoing
  <2>5. Serves(f, r)' BY <1>5, <1>6, <2>3, <2>4 DEF Serves
  <2>6. ServesAt("restored", f, r)' BY <2>3 DEF ServesAt, StagePcs
  <2> QED BY <1>1, <1>2, <1>3, <1>4, <2>1, <2>5, <2>6, ServedMove
<1>9. CASE RollbackStart(o)
  <2>1. Goto(o, "started", Mem(o)) /\ UNCHANGED <<repo, file, marker>>
    BY <1>9 DEF RollbackStart
  <2>2. f.backups BY <1>4, <1>9 DEF Stands, RollbackStart
  <2>3. f.before = "active" BY <1>4, <1>5, <1>9 DEF RollbackStart, Serves
  <2>4. data' = f.baseline /\ service'.code = f.baseline
    <3>1. CASE Active
      BY <1>4, <1>5, <1>6, <1>9, <2>3, <3>1 DEF RollbackStart
    <3>2. CASE ~Active
      <4>1. data = f.baseline BY <1>5, <2>2, <3>2 DEF Level, Merged, Undoing
      <4>2. service' = [service EXCEPT !.code = repo.head] /\ data' = Migrated(repo.head)
        BY <1>4, <1>9, <2>3, <3>2 DEF RollbackStart, Starts
      <4>3. Migrated(repo.head) = repo.head BY <1>6, <4>1, Migrates
      <4> QED BY <1>6, <1>7, <4>2, <4>3
    <3> QED BY <3>1, <3>2
  <2>5. Level'
    <3>1. f.baseline \in Heads BY DEF RunState
    <3> QED BY <1>6, <2>1, <2>4, <3>1, IntegrationAssumption DEF Level, Active, Heads
  <2>6. Serves(f, r)' BY <1>5, <1>6, <2>2, <2>3, <2>4, <2>5 DEF Serves
  <2>7. ServesAt("started", f, r)' BY <2>5 DEF ServesAt, StagePcs
  <2> QED BY <1>1, <1>2, <1>3, <1>4, <2>1, <2>6, <2>7, ServedMove
<1> QED BY <1>8, <1>9

LEMMA MilestonesServed ==
  ASSUME Inv, Solo, MemoryCurrent, CheckoutKnown, Served, NEW o \in Operators,
         RollbackRecord(o) \/ RollbackRestored(o) \/ RollbackStarted(o)
  PROVE  Served'
<1>1. Pc(o) \in RollbackPcs \ {"checking"} /\ Pc(o) \notin {"claiming", "merged"}
  BY DEF RollbackRecord, RollbackRestored, RollbackStarted, RollbackPcs
<1>2. PICK f \in RunState : f = file[Run(o)] BY <1>1, RollbackFacts
<1>3. /\ Stands(Pc(o), f, Run(o)) /\ HoldsLock(o) /\ Mem(o) = f
      /\ f.status = "ROLLING_BACK" /\ Recorded(f, Run(o))
  BY <1>1, <1>2, RollbackFacts
<1>4. /\ Serves(f, Run(o)) /\ ServesAt(Pc(o), f, Run(o))
      /\ Level \/ Merged(f, Run(o)) \/ Undoing(f, Run(o))
      /\ f.git /\ Active =>
           /\ f.before = "active" /\ f.backups /\ Level
           /\ service.code = f.baseline /\ data = f.baseline
  BY <1>1, <1>2, UndoingFacts
<1>5. UNCHANGED <<repo, service, data, marker>>
  BY DEF RollbackRecord, RollbackRestored, RollbackStarted, worldVars
<1>6. CASE RollbackRecord(o)
  <2>1. PICK n : n = [Mem(o) EXCEPT !.expected = repo, !.git = TRUE] OBVIOUS
  <2>2. /\ n \in RunState /\ n.status = f.status /\ SameSetup(n, f)
        /\ n.backups = f.backups /\ n.services = f.services
    BY <1>1, <1>2, <1>3, <2>1, MilestoneSaves
  <2>3. ~Active /\ ~n.services /\ Undoing(n, Run(o))
    BY <1>3, <1>4, <1>6, <2>2
       DEF ServesAt, StagePcs, RollbackRecord, Stands, Recorded, Level, Merged, Undoing, SameSetup
  <2>4. Serves(n, Run(o)) BY <1>4, <2>2, <2>3 DEF Serves, SameSetup
  <2>5. ServesAt("restoring", n, Run(o)) BY <2>3 DEF ServesAt, StagePcs
  <2>6. Save(o, "restoring", n) BY <1>6, <2>1 DEF RollbackRecord
  <2> QED BY <1>1, <1>3, <1>5, <2>2, <2>4, <2>5, <2>6, ServedSave DEF Save
<1>7. CASE RollbackRestored(o)
  <2>1. PICK n : n = [Mem(o) EXCEPT !.backups = TRUE] OBVIOUS
  <2>2. /\ n \in RunState /\ n.status = f.status /\ SameSetup(n, f)
        /\ n.git = f.git /\ n.services = f.services
    BY <1>1, <1>2, <1>3, <2>1, MilestoneSaves
  <2>3. ~Active /\ data = f.baseline BY <1>4, <1>7 DEF ServesAt, StagePcs, RollbackRestored
  <2>4. ~n.services /\ Undoing(n, Run(o))
    BY <1>4, <2>2, <2>3 DEF Level, Merged, Undoing, SameSetup
  <2>5. Serves(n, Run(o)) BY <1>4, <2>2, <2>3, <2>4 DEF Serves, SameSetup
  <2>6. ServesAt("starting", n, Run(o)) BY DEF ServesAt, StagePcs
  <2>7. Save(o, "starting", n) BY <1>7, <2>1 DEF RollbackRestored
  <2> QED BY <1>1, <1>3, <1>5, <2>2, <2>5, <2>6, <2>7, ServedSave DEF Save
<1>8. CASE RollbackStarted(o)
  <2>1. PICK n : n = [Mem(o) EXCEPT !.services = TRUE] OBVIOUS
  <2>2. /\ n \in RunState /\ n.status = f.status /\ SameSetup(n, f)
        /\ n.git = f.git /\ n.backups = f.backups
    BY <1>1, <1>2, <1>3, <2>1, MilestoneSaves
  <2>3. Level BY <1>4, <1>8 DEF ServesAt, StagePcs, RollbackStarted
  <2>4. Serves(n, Run(o)) BY <1>4, <2>2, <2>3 DEF Serves, SameSetup, Level
  <2>5. ServesAt("verifying", n, Run(o)) BY DEF ServesAt, StagePcs
  <2>6. Save(o, "verifying", n) BY <1>8, <2>1 DEF RollbackStarted
  <2> QED BY <1>1, <1>3, <1>5, <2>2, <2>4, <2>5, <2>6, ServedSave DEF Save
<1> QED BY <1>6, <1>7, <1>8

LEMMA RollbackCompleteServed ==
  ASSUME Inv, Solo, MemoryCurrent, CheckoutKnown, Served, NEW o \in Operators, RollbackComplete(o)
  PROVE  Served'
<1>1. Pc(o) \in RollbackPcs \ {"checking"} /\ Pc(o) # "claiming"
  BY DEF RollbackComplete, RollbackPcs
<1>2. PICK f \in RunState : f = file[Run(o)] BY <1>1, RollbackFacts
<1>3. /\ Stands(Pc(o), f, Run(o)) /\ HoldsLock(o) /\ Mem(o) = f
      /\ f.status = "ROLLING_BACK" /\ Recorded(f, Run(o))
  BY <1>1, <1>2, RollbackFacts
<1>4. Serves(f, Run(o)) /\ (f.git /\ Active => f.before = "active" /\ Level)
  BY <1>1, <1>2, UndoingFacts
<1>5. UNCHANGED <<repo, service, data, marker>> BY DEF RollbackComplete, worldVars
<1>6. PICK st \in Statuses : st = "ROLLED_BACK" BY DEF Statuses
<1>7. PICK v \in Tree : v = [head |-> f.baseline, dirty |-> FALSE] BY BaselineTree
<1>8. PICK n : ExpectedSave(o, st, v, n) BY DEF ExpectedSave
<1>9. n \in RunState /\ n.status = st /\ SameSetup(n, f) /\ SameMilestones(n, f)
  <2>1. HoldsLock(o) BY <1>3
  <2> QED BY <1>2, <1>8, <2>1, ExpectedSaves
<1>10. Level BY <1>3, <1>4 DEF Stands, Recorded, Serves, RollbackComplete
<1>11. Serves(n, Run(o)) BY <1>4, <1>6, <1>9, <1>10 DEF Serves, SameSetup
<1>12. ServesAt("clearing", n, Run(o)) BY <1>10 DEF ServesAt, StagePcs
<1>13. Save(o, "clearing", n) BY <1>3, <1>6, <1>7, <1>8 DEF RollbackComplete, ExpectedSave
<1> QED BY <1>1, <1>3, <1>5, <1>9, <1>11, <1>12, <1>13, ServedSave DEF Save

LEMMA RollbackFailsServed ==
  ASSUME Inv, Solo, MemoryCurrent, CheckoutKnown, Served, NEW o \in Operators, RollbackFails(o)
  PROVE  Served'
<1>1. HoldsLock(o) /\ Pc(o) \in RollbackPcs /\ Pc(o) # "claiming"
  BY DEF RollbackFails, RollbackPcs, HoldsLock
<1>2. PICK f \in RunState : f = file[Run(o)] BY <1>1, Facts
<1>3. /\ Recorded(f, Run(o)) /\ Stands(Pc(o), f, Run(o)) /\ Mem(o) = f /\ op[o] # Idle
      /\ Serves(f, Run(o)) /\ ServesAt(Pc(o), f, Run(o))
      /\ Level \/ Merged(f, Run(o)) \/ Undoing(f, Run(o))
  BY <1>1, <1>2, Facts, ServedFacts DEF RollbackPcs
<1>4. PICK n \in RunState : SaveAndExit(o, n) /\ FailedAs(n, f, Pc(o)) BY <1>2, FailedSaves
<1>5. UNCHANGED <<repo, service, data, marker>> BY DEF RollbackFails, worldVars
<1>6. /\ n.baseline = f.baseline /\ n.backup = f.backup /\ n.before = f.before
      /\ n.status = "INTERNAL_ERROR" /\ n.status \notin Accepted
  BY <1>4 DEF FailedAs, SameSetup, Accepted
<1>7. f.git => f.status # "ROLLED_BACK"
  <2>1. CASE Pc(o) = "checking"
    <3>1. f.status = "AUTOMATED_CHECK_FAILED"
      BY <1>3, <2>1 DEF MemoryCurrent, Current, RollbackFails
    <3> QED BY <3>1
  <2>2. CASE Pc(o) # "checking"
    <3>1. f.status = "ROLLING_BACK" BY <1>1, <1>2, <2>2, RollbackFacts
    <3> QED BY <3>1
  <2> QED BY <2>1, <2>2
<1>8. Serves(n, Run(o))
  <2>1. CASE SameMilestones(n, f)
    <3>1. Level \/ Merged(n, Run(o)) \/ Undoing(n, Run(o))
      BY <1>3, <1>6, <2>1 DEF Merged, Undoing, SameMilestones
    <3>2. f.services => f.git BY <1>3 DEF Recorded
    <3> QED BY <1>3, <1>6, <1>7, <2>1, <3>1, <3>2 DEF Serves, SameMilestones
  <2>2. CASE /\ Pc(o) = "recording" /\ n.git
             /\ n.backups = f.backups /\ n.services = f.services
    <3>1. ~Active /\ ~n.services /\ Undoing(n, Run(o))
      BY <1>3, <1>6, <2>2 DEF ServesAt, StagePcs, Stands, Recorded, Level, Merged, Undoing
    <3> QED BY <1>3, <1>6, <2>2, <3>1 DEF Serves
  <2>3. CASE Pc(o) = "restored" /\ n.services = f.services
    <3>1. ~Active /\ data = f.baseline BY <1>3, <2>3 DEF ServesAt, StagePcs
    <3>2. ~n.services /\ Undoing(n, Run(o))
      BY <1>3, <1>6, <2>3, <3>1 DEF Level, Merged, Undoing
    <3> QED BY <1>3, <1>6, <3>1, <3>2 DEF Serves
  <2>4. CASE Pc(o) = "started" /\ n.git = f.git /\ n.backups = f.backups
    <3>1. Level BY <1>3, <2>4 DEF ServesAt, StagePcs
    <3> QED BY <1>3, <1>6, <1>7, <2>4, <3>1 DEF Serves, Level
  <2> QED BY <1>4, <2>1, <2>2, <2>3, <2>4 DEF FailedAs
<1> QED BY <1>1, <1>4, <1>5, <1>8, ServedSave DEF SaveAndExit

LEMMA FinalizeServed ==
  ASSUME Inv, Solo, MemoryCurrent, CheckoutKnown, Served, NEW o \in Operators,
         \/ FinalizeGuard(o) \/ FinalizePush(o) \/ FinalizeOutcome(o) \/ FinalizeReconcile(o)
         \/ FinalizeReconcileFails(o) \/ FinalizeComplete(o)
  PROVE  Served'
<1>1. HoldsLock(o) /\ Pc(o) \in FinalizePcs /\ Pc(o) \notin {"claiming", "merged"} /\ Pc(o) # "idle"
  BY DEF FinalizeGuard, FinalizePush, FinalizeOutcome, FinalizeReconcile,
     FinalizeReconcileFails, FinalizeComplete, FinalizePcs, HoldsLock
<1>2. PICK r \in Runs : r = Run(o) BY <1>1, Facts
<1>3. PICK f \in RunState : f = file[r] BY <1>1, <1>2, Facts
<1>4. /\ Mem(o) = f /\ Recorded(f, r) /\ op[o] # Idle
      /\ At(Pc(o), f, f, r) /\ marker = r
      /\ Serves(f, r) /\ (Level \/ Merged(f, r) \/ Undoing(f, r))
  BY <1>1, <1>2, <1>3, Facts, ServedFacts
<1>5. f.status \in {"AWAITING_ACCEPTANCE", "FINALIZING"}
  BY <1>1, <1>4 DEF MemoryCurrent, Current, At, FinalizePcs
<1>6. Level /\ ~f.git BY <1>4, <1>5 DEF Merged, Undoing, Accepted, Recorded
<1>7. UNCHANGED <<repo, service, data, marker>>
  BY DEF FinalizeGuard, FinalizePush, FinalizeOutcome, FinalizeReconcile,
     FinalizeReconcileFails, FinalizeComplete, worldVars
<1>8. \A n, pc : pc \in FinalizePcs \cup {"clearing"} => ServesAt(pc, n, r)
  BY <1>6 DEF ServesAt, StagePcs, FinalizePcs
<1>9. ASSUME NEW st \in Statuses, NEW pc \in FinalizePcs \cup {"clearing"},
             Save(o, pc, With(o, st))
      PROVE  Served'
  <2>1. PICK n \in RunState : n = With(o, st) BY <1>1, WithMoved
  <2>2. Moved(n, f, st) BY <1>1, <1>2, <1>3, <2>1, WithMoved
  <2> QED BY <1>1, <1>2, <1>3, <1>6, <1>7, <1>8, <1>9, <2>1, <2>2, ServedMoved DEF Save
<1>10. ASSUME NEW pc \in FinalizePcs, Goto(o, pc, f), Persist(o, f) \/ UNCHANGED file
       PROVE  Served'
  <2>1. file' = file BY <1>2, <1>3, <1>10 DEF Persist, Inv, TypeOK
  <2>2. Serves(f, r)' BY <1>4, <1>6, <1>7 DEF Serves, Level, Active
  <2>3. ServesAt(pc, f, r)' BY <1>6, <1>7 DEF ServesAt, StagePcs, FinalizePcs
  <2> QED BY <1>1, <1>2, <1>3, <1>4, <1>7, <1>10, <2>1, <2>2, <2>3, ServedMove
<1>11. CASE FinalizeGuard(o)
  BY <1>9, <1>11 DEF FinalizeGuard, FinalizePcs, Statuses
<1>12. CASE FinalizePush(o)
  BY <1>4, <1>10, <1>12 DEF FinalizePush, FinalizePcs
<1>13. CASE FinalizeOutcome(o)
  <2>1. CASE Save(o, "reconciling", Mem(o)) BY <1>4, <1>10, <2>1 DEF Save, FinalizePcs
  <2>2. CASE SaveAndExit(o, Mem(o))
    <3>1. file' = file BY <1>2, <1>3, <1>4, <2>2 DEF SaveAndExit, Persist, Inv, TypeOK
    <3>2. ~HoldsLock(o)' BY <2>2, ExitDoes DEF Inv, HoldsLock, Pc, Idle, SaveAndExit
    <3> QED BY <1>7, <3>1, <3>2, LeaveServed
  <2>3. CASE Save(o, "clearing", With(o, "INTERNAL_ERROR")) BY <1>9, <2>3 DEF Statuses
  <2> QED BY <1>13, <2>1, <2>2, <2>3 DEF FinalizeOutcome
<1>14. CASE FinalizeReconcile(o)
  BY <1>4, <1>10, <1>14 DEF FinalizeReconcile, FinalizePcs
<1>15. CASE FinalizeReconcileFails(o) \/ FinalizeComplete(o)
  BY <1>9, <1>15 DEF FinalizeReconcileFails, FinalizeComplete, Statuses
<1> QED BY <1>11, <1>12, <1>13, <1>14, <1>15

LEMMA ClearActiveServed ==
  ASSUME Inv, Solo, MemoryCurrent, CheckoutKnown, Served, NEW o \in Operators, ClearActive(o)
  PROVE  Served'
<1>1. HoldsLock(o) /\ Pc(o) = "clearing" BY DEF ClearActive, HoldsLock
<1>2. PICK r \in Runs : r = Run(o) BY <1>1, Facts
<1>3. PICK f \in RunState : f = file[r] BY <1>1, <1>2, Facts
<1>4. marker = r /\ Serves(f, r) /\ Level
  BY <1>1, <1>2, <1>3, Facts, ServedFacts DEF ServesAt, StagePcs
<1>5. marker' = None /\ UNCHANGED <<repo, service, data, file>> /\ op'[o] = Idle
  BY <1>2, <1>4, ExitDoes DEF ClearActive, worldVars, Inv
<1>6. Level' BY <1>4, <1>5 DEF Level, Active
<1>7. Serves(f, r)' BY <1>4, <1>5, <1>6 DEF Serves, Active
<1> QED BY <1>3, <1>4, <1>5, <1>6, <1>7, ServedStep

LEMMA FlapServed ==
  ASSUME Inv, CheckoutKnown, Served, Flap
  PROVE  Served'
<1>1. /\ Active /\ service'.code = repo.head /\ data' = Migrated(repo.head)
      /\ UNCHANGED <<repo, file, marker, op>>
  BY DEF Flap
<1>2. data = repo.head \/ (repo.head \in Runs /\ data = file[repo.head].baseline)
  <2>1. CASE marker = None BY <2>1 DEF Served, Level
  <2>2. CASE marker \in Runs
    <3>1. Serves(file[marker], marker) BY <2>2 DEF Served, CheckoutKnown
    <3> QED BY <1>1, <2>2, <3>1 DEF Serves, Level, Merged, Undoing
  <2> QED BY <2>1, <2>2 DEF Inv, TypeOK
<1>3. data' = repo.head BY <1>1, <1>2, Migrates
<1>4. Level'
  <2>1. repo.head \in Heads BY DEF Inv, TypeOK, Tree
  <2> QED BY <1>1, <1>3, <2>1, IntegrationAssumption DEF Level, Active, Heads
<1>5. ASSUME NEW r \in Runs, file'[r] # NoRun PROVE Serves(file[r], r)'
  <2>1. Serves(file[r], r) /\ Reset(file[r], r) BY <1>1, <1>5 DEF Served, CheckoutKnown
  <2>2. Active' BY <1>4 DEF Level
  <2> QED BY <1>1, <1>3, <1>4, <2>1, <2>2 DEF Serves, Reset
<1>6. ASSUME NEW o \in Operators, HoldsLock(o)' PROVE ServesAt(Pc(o), file[Run(o)], Run(o))'
  <2>1. HoldsLock(o) BY <1>1, <1>6 DEF HoldsLock, Pc
  <2>2. /\ ServesAt(Pc(o), file[Run(o)], Run(o)) /\ Stands(Pc(o), file[Run(o)], Run(o))
    BY <2>1 DEF Served, CheckoutKnown
  <2> QED BY <1>1, <1>3, <1>4, <2>2 DEF ServesAt, StagePcs, Stands, Pc, Run, Level
<1> QED BY <1>4, <1>5, <1>6 DEF Served

LEMMA ServedNext ==
  ASSUME Inv, Solo, MemoryCurrent, CheckoutKnown, Served, [Next]_vars
  PROVE  Served'
<1>1. CASE Edit \/ ForeignPush \/ Fetch \/ UNCHANGED vars
  <2>1. UNCHANGED <<service, data, file, marker, op>> /\ repo'.head = repo.head
    BY <1>1 DEF Edit, ForeignPush, Fetch, vars, Inv, TypeOK, Tree
  <2> QED
    BY <2>1 DEF Served, Serves, ServesAt, StagePcs, Level, Merged, Undoing, Active, HoldsLock, Pc, Run
<1>2. ASSUME NEW o \in Operators, CommandStep(o) PROVE Served'
  <2>1. ASSUME Exit(o), UNCHANGED <<repo, service, data, file, marker>> PROVE Served'
    <3>1. ~HoldsLock(o)' BY <2>1, ExitDoes DEF Inv, HoldsLock, Pc, Idle
    <3> QED BY <2>1, <3>1, LeaveServed
  <2>2. CASE StageStep(o)
    BY <2>2, StageServed, StageClaimServed, StagePrepareServed, StageMergeServed,
       StageRecordServed, StageVerifyServed, StageCompleteServed, StageFailsServed DEF StageStep
  <2>3. CASE RollbackStep(o)
    BY <2>3, TakeServed, RollbackCheckServed, RollbackStopServed, RollbackRestoreServed,
       MilestonesServed, RollbackVerifyServed, RollbackCompleteServed, RollbackFailsServed
       DEF RollbackStep
  <2>4. CASE FinalizeStep(o)
    BY <2>1, <2>4, TakeServed, FinalizeServed
       DEF FinalizeStep, FinalizeRefused, worldVars
  <2>5. ASSUME NEW r \in Runs, NEW cmd, LoadRun(o, r, cmd) PROVE Served'
    <3>1. op'[o].pc = "loaded" /\ UNCHANGED <<repo, service, data, file, marker>>
      BY <2>5 DEF LoadRun, worldVars, Inv, TypeOK
    <3>2. ~HoldsLock(o)' BY <3>1 DEF HoldsLock, Pc
    <3> QED BY <3>1, <3>2, LeaveServed
  <2>6. CASE Refused(o) \/ Crash(o)
    BY <2>1, <2>6 DEF Refused, Crash, worldVars
  <2> QED BY <1>2, <2>2, <2>3, <2>4, <2>5, <2>6, ClearActiveServed DEF CommandStep
<1> QED BY <1>1, <1>2, FlapServed DEF Next

LEMMA DeployedInit == ASSUME Init PROVE Deployed
<1>1. CheckoutKnown BY CheckoutInit
<1>2. CASE service = Stopped BY <1>1, <1>2 DEF Init, Stopped, Unserved, Active, Deployed
<1>3. CASE service = [code |-> Base, flaps |-> 0]
  <2>1. Level BY <1>3, IntegrationAssumption DEF Init, Level, Active
  <2> QED BY <1>1, <2>1 DEF Init, Served, HoldsLock, Pc, Idle, Deployed
<1> QED BY <1>1, <1>2, <1>3 DEF Init, Deployed

\* With one operator at a time, a run is recorded as rolled back only with the
\* checkout at its baseline, the data of the backup and an active service on
\* the baseline, and as awaiting acceptance only with its merge deployed and a
\* backup of what was there before: whatever was killed, failed, interrupted,
\* resumed, edited, restarted or pushed in between.
THEOREM RecordedDeployed ==
  ASSUME Solo
  PROVE  Spec => RecordedIsDeployed
<1>1. Init => MemoryCurrent /\ Deployed BY DeployedInit DEF Init, MemoryCurrent
<1>2. Inv /\ MemoryCurrent /\ Deployed /\ [Next]_vars => MemoryCurrent' /\ Deployed'
  BY CurrentNext, CheckoutNext, UnservedNext, ServedNext DEF Deployed
<1>3. ASSUME Inv, MemoryCurrent, Deployed, Next, NEW r \in Runs, Becomes(r, "ROLLED_BACK")
      PROVE  /\ repo.head = file[r].baseline
             /\ file[r].backup # None => data = file[r].backup
             /\ file[r].before = "active" <=> service.code = file[r].baseline
  <2>1. PICK o \in Operators : RollbackComplete(o) /\ r = Run(o)
    <3>1. ~(Edit \/ ForeignPush \/ Fetch \/ Flap)
      BY <1>3 DEF Edit, ForeignPush, Fetch, Flap, Becomes
    <3>2. PICK o \in Operators : CommandStep(o) BY <1>3, <3>1 DEF Next
    <3>3. ~StageStep(o) BY <1>3, StageWrites DEF StageStatuses
    <3>4. ~FinalizeStep(o) BY <1>3, FinalizeWrites DEF Handed
    <3>5. RollbackStep(o)
      BY <1>3, <3>2, <3>3, <3>4 DEF CommandStep, LoadRun, Refused, ClearActive, Crash, Becomes
    <3> QED BY <1>3, <3>2, <3>5, RollbackWrites
  <2>2. Pc(o) \in RollbackPcs \ {"checking"} BY <2>1 DEF RollbackComplete, RollbackPcs
  <2>3. CheckoutKnown BY <1>3 DEF Deployed
  <2>4. PICK f \in RunState : f = file[r] BY <1>3, <2>1, <2>2, <2>3, RollbackFacts
  <2>5. /\ Mem(o) = f /\ f.status = "ROLLING_BACK" /\ Recorded(f, r) /\ Stands(Pc(o), f, r)
        /\ HoldsLock(o) /\ (f.git => repo.head = f.baseline)
    BY <1>3, <2>1, <2>2, <2>3, <2>4, RollbackFacts
  <2>6. f.services /\ f.git BY <2>1, <2>5 DEF RollbackComplete, Stands, Recorded
  <2>7. repo.head = f.baseline BY <2>5, <2>6
  <2>8. /\ f.backup # None => data = f.backup
        /\ f.before = "active" <=> service.code = f.baseline
    <3>1. CASE Unserved
      <4>1. f # NoRun BY <1>3, <2>1, <2>3, <2>4, <2>5, Facts
      <4>2. f.before # "active" /\ f.backup \in {None, Base} /\ data = Base /\ service.code = None
        BY <2>4, <3>1, <4>1 DEF Unserved, Active
      <4>3. f.baseline # None BY IntegrationAssumption DEF RunState, Heads
      <4> QED BY <4>2, <4>3
    <3>2. CASE Served
      <4>1. Serves(f, r) BY <1>3, <2>1, <2>2, <2>3, <2>4, <3>2, UndoingFacts
      <4> QED BY <2>5, <2>6, <4>1 DEF Serves
    <3> QED BY <1>3, <3>1, <3>2 DEF Deployed
  <2> QED BY <2>4, <2>7, <2>8
<1>4. ASSUME Inv, MemoryCurrent, Deployed, Next, NEW r \in Runs, Becomes(r, "AWAITING_ACCEPTANCE")
      PROVE  /\ repo.head = r
             /\ file[r].before = "active" => service.code = r /\ data = r
             /\ file[r].backup # r
  <2>1. PICK o \in Operators : r = Run(o) /\ Pc(o) = "accepting" /\ StageComplete(o)
    <3>1. ~(Edit \/ ForeignPush \/ Fetch \/ Flap)
      BY <1>4 DEF Edit, ForeignPush, Fetch, Flap, Becomes
    <3>2. PICK o \in Operators : CommandStep(o) BY <1>4, <3>1 DEF Next
    <3>3. ~RollbackStep(o) BY <1>4, RollbackWrites
    <3>4. ~FinalizeStep(o) BY <1>4, FinalizeWrites DEF Handed
    <3>5. StageStep(o)
      BY <1>4, <3>2, <3>3, <3>4 DEF CommandStep, LoadRun, Refused, ClearActive, Crash, Becomes
    <3>6. StageComplete(o) /\ r = Run(o) BY <1>4, <3>2, <3>5, StageWrites DEF StageStatuses
    <3> QED BY <3>2, <3>6 DEF StageComplete
  <2>2. HoldsLock(o) BY <2>1 DEF HoldsLock
  <2>3. CheckoutKnown BY <1>4 DEF Deployed
  <2>4. PICK f \in RunState : f = file[r] BY <1>4, <2>1, <2>2, <2>3, Facts
  <2>5. Recorded(f, r) /\ Stands("accepting", f, r) /\ f # NoRun
    BY <1>4, <2>1, <2>2, <2>3, <2>4, Facts
  <2>6. repo.head = r BY <2>5 DEF Stands
  <2>7. CASE Unserved
    <3>1. f.before # "active" /\ f.backup \in {None, Base} BY <2>4, <2>5, <2>7 DEF Unserved
    <3> QED BY <2>4, <2>6, <3>1, IntegrationAssumption
  <2>8. CASE Served
    <3>1. ServesAt("accepting", f, r) /\ Serves(f, r)
      BY <1>4, <2>1, <2>2, <2>3, <2>4, <2>8, ServedFacts
    <3>2. f.backup # r
      BY <2>5, <3>1, IntegrationAssumption DEF Serves, Recorded
    <3> QED BY <2>4, <2>5, <2>6, <3>1, <3>2 DEF ServesAt, StagePcs
  <2> QED BY <1>4, <2>7, <2>8 DEF Deployed
<1>5. Spec => [](Inv /\ MemoryCurrent /\ Deployed)
  BY <1>1, <1>2, InitInv, NextInv, PTL DEF Spec
<1>6. Inv /\ MemoryCurrent /\ Deployed /\ [Next]_vars =>
        [\A r \in Runs : LET m == file[r] IN
           /\ Becomes(r, "ROLLED_BACK") =>
                /\ repo.head = m.baseline
                /\ m.backup # None => data = m.backup
                /\ m.before = "active" <=> service.code = m.baseline
           /\ Becomes(r, "AWAITING_ACCEPTANCE") =>
                /\ repo.head = r
                /\ m.before = "active" => service.code = r /\ data = r
                /\ m.backup # r]_vars
  BY <1>3, <1>4
<1> QED BY <1>5, <1>6, PTL DEF Spec, RecordedIsDeployed
=============================================================================
