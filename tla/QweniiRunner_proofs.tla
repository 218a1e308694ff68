------------------------- MODULE QweniiRunner_proofs -------------------------
(***************************************************************************)
(* Theorems about MailCourier and QweniiRunner, and their proofs.          *)
(***************************************************************************)
EXTENDS QweniiRunner, TLAPS

\* The poll stays within the mails it found; while a receipt is being
\* written, its file is there.
PollPlace ==
  /\ courier.until <= Len(mail) /\ courier.at <= courier.until + 1
  /\ courier.pc # "sleeping" => courier.at >= 1
  /\ courier.pc = "writing" =>
       /\ courier.at <= courier.until
       /\ Current.acceptable /\ files[Current.file] = Current.content

\* What is on record as seen, or named by a receipt, is in the mailbox.
IdsInMailbox ==
  /\ \A i \in saved \cup courier.known \cup courier.seen : i <= Len(mail)
  /\ \A f \in Files : receipts[f] # None => receipts[f].id <= Len(mail)

CourierInv == CourierTypeOK /\ PollPlace /\ IdsInMailbox /\ SeenIsFiled /\ ReceiptMatchesFile

HasEnded == Terminal \cup {"RETURNED"}

\* The record rec of a task t and the place run of the runner: what the record
\* says while the task is being processed,
RecordAtPlace(t, rec, run) ==
  run.task = t =>
    /\ run.pc \in {"validating", "starting"} => rec # None /\ rec.state \in {"RECEIVED", "VALIDATED"}
    /\ run.pc \in {"launching", "waiting", "ending"} => rec # None /\ rec.state = "RUNNING"
    /\ run.pc \in {"rendering", "recording", "sending", "sent"} => rec # None /\ rec.state \in Terminal

\* that nothing was launched of a task that has not been RUNNING,
NotYetLaunched(t, rec, run, log) ==
  /\ log = <<>> \/ \E s \in Contents : log = <<s>>
  /\ rec = None \/ rec.state \in {"RECEIVED", "VALIDATED", "REJECTED"} => log = <<>>
  /\ run.task = t /\ run.pc = "launching" => log = <<>>

\* that the outcome is recorded when the task ends, and rendered as recorded,
OutcomeRecorded(t, rec, run, res) ==
  rec # None =>
    /\ rec.state \notin HasEnded => rec.terminal = None /\ rec.rendered = FALSE
    /\ rec.state \in HasEnded => rec.terminal \in Terminal
    /\ rec.rendered = TRUE \/ (run.task = t /\ run.pc = "recording") => res = rec.terminal
    /\ run.task = t /\ run.pc \in {"sending", "sent"} => rec.rendered = TRUE

\* and that success is recorded, or about to be, only if the script reported it.
SuccessReported(t, rec, run, scr) ==
  /\ run.task = t /\ run.pc = "ending" => run.ended \in Terminal
  /\ run.task = t /\ run.pc = "ending" /\ run.ended = "SUCCEEDED" => scr = "succeeded"
  /\ rec # None /\ rec.terminal = "SUCCEEDED" => scr = "succeeded"

Consistent(t, rec, run, res, scr, log) ==
  /\ RecordAtPlace(t, rec, run) /\ NotYetLaunched(t, rec, run, log)
  /\ OutcomeRecorded(t, rec, run, res) /\ SuccessReported(t, rec, run, scr)

TaskInv(t) == Consistent(t, record[t], runner, result[t], script[t], launched[t])

\* What was mailed is the recorded outcome.
MailedOutcome ==
  \A i \in DOMAIN outbox :
    LET rec == record[outbox[i].task]
    IN  rec # None /\ rec.state \in HasEnded /\ outbox[i].reports = rec.terminal

RunnerStates == [pc : Pcs, task : Tasks \cup {None}, todo : SUBSET Tasks,
                 ended : Terminal \cup {None}, then : {"sending", "recovering"}]

\* No task is being processed between tasks.
Places == {r \in RunnerStates : r.pc \in {"recovering", "sleeping", "scanning"} => r.task = None}

RunnerInv == RunnerTypeOK /\ runner \in Places /\ (\A t \in Tasks : TaskInv(t)) /\ MailedOutcome

\* The task's authorization names s, and both files came under the task.
Authorized(t, s) ==
  /\ s \in Scripts
  /\ Envelope(t) = [task |-> t, script |-> s]
  /\ \A f \in {Auth(t), Payload(t)} :
       \E i \in DOMAIN mail : mail[i].acceptable /\ mail[i].corr = t /\ mail[i].file = f

\* The authorization of a task that is looked at is there, and has been
\* validated when the task is started.
AuthorizedAtPlace ==
  \A t \in Tasks :
    /\ At("validating", t) => receipts[Auth(t)] # None
    /\ At("starting", t) \/ At("launching", t) => Authorized(t, files[Payload(t)])

LaunchAuthorized == \A t \in Tasks : launched[t] # <<>> => Authorized(t, launched[t][1])

Inv == CourierInv /\ RunnerInv /\ AuthorizedAtPlace /\ LaunchAuthorized

-----------------------------------------------------------------------------
(* The courier                                                             *)

\* Kept drops ids and never invents any.
LEMMA KeptIds == \A ids : Kept(ids) \subseteq SUBSET ids
  BY DEF Kept

\* Sets of message ids as the courier builds them.
LEMMA IdSets ==
  /\ {} \in Ids
  /\ \A ids \in Ids : Kept(ids) \subseteq Ids
  /\ \A ids \in Ids, i \in 1 .. MaxMail : ids \cup {i} \in Ids
  BY KeptIds DEF Ids

\* The mail being dealt with is in the mailbox.
LEMMA CurrentTyped ==
  ASSUME CourierInv, Reading \/ courier.pc = "writing"
  PROVE  /\ courier.at \in DOMAIN mail /\ courier.at \in 1 .. MaxMail
         /\ Current \in Mail
<1>1. courier.at \in 1 .. Len(mail)
  BY DEF CourierInv, CourierTypeOK, PollPlace, Reading
<1>2. mail[courier.at] \in Mails
  BY <1>1 DEF CourierInv, CourierTypeOK
<1> QED
  BY <1>1, <1>2, CourierAssumption DEF Current, CourierInv, CourierTypeOK

\* The mailbox only grows, and a file that is in the inbox stays as it is.
LEMMA CourierKeeps ==
  ASSUME CourierInv, CourierNext
  PROVE  /\ \A i \in DOMAIN mail : i \in DOMAIN mail' /\ mail'[i] = mail[i]
         /\ Len(mail) <= Len(mail')
         /\ \A f \in Files : files[f] # None => files'[f] = files[f]
         /\ \A f \in Files : receipts[f] # None => receipts'[f] # None
<1>1. CASE Send
  BY <1>1 DEF Send, CourierInv, CourierTypeOK
<1>2. CASE WriteFile
  BY <1>2 DEF WriteFile, Conflicts, Reading, CourierInv, CourierTypeOK
<1>3. CASE WriteReceipt
  <2> DEFINE new == [corr |-> Current.corr, content |-> Current.content, id |-> courier.at]
  <2>1. new \in Receipt
    BY <1>3, CurrentTyped DEF WriteReceipt, Mail, Receipt
  <2>2. receipts' = [receipts EXCEPT ![Current.file] = new] /\ UNCHANGED <<mail, files>>
    BY <1>3 DEF WriteReceipt
  <2> HIDE DEF new
  <2> QED
    BY <2>1, <2>2, CourierAssumption DEF CourierInv, CourierTypeOK
<1>4. CASE UNCHANGED <<mail, files, receipts>>
  BY <1>4 DEF CourierInv, CourierTypeOK
<1>5. CourierNext => Send \/ WriteFile \/ WriteReceipt \/ UNCHANGED <<mail, files, receipts>>
  BY DEF CourierNext, CourierStep, CourierFault, Poll, SkipSeen, Dismiss, SaveSeen, SkipUnfetched,
         PollFails, CourierCrash, Fault
<1> QED
  BY <1>1, <1>2, <1>3, <1>4, <1>5

LEMMA CourierStart == CourierInit => CourierInv
  BY CourierAssumption
  DEF CourierInit, CourierInv, CourierTypeOK, PollPlace, IdsInMailbox, SeenIsFiled, ReceiptMatchesFile,
      Asleep, Ids

LEMMA CourierTyped ==
  ASSUME CourierInv, CourierNext
  PROVE  CourierTypeOK'
<1> USE CourierAssumption DEF CourierInv, CourierTypeOK
<1>0. Len(mail) \in 0 .. MaxMail
  OBVIOUS
<1>1. CASE Send
  BY <1>1 DEF Send
<1>2. CASE Poll
  <2>1. courier' = [pc |-> "reading", at |-> 1, until |-> Len(mail), seen |-> courier.known,
                    known |-> courier.known]
    BY <1>2 DEF Poll
  <2> QED
    BY <1>0, <1>2, <2>1 DEF Poll
<1>3. CASE SkipSeen \/ SkipUnfetched
  BY SMTT(20), <1>3, CurrentTyped DEF SkipSeen, SkipUnfetched, Reading, Fault
<1>4. CASE Dismiss
  <2>1. courier.at + 1 \in 0 .. MaxMail + 1 /\ courier.seen \cup {courier.at} \in Ids
    BY <1>4, CurrentTyped, IdSets DEF Dismiss
  <2> QED
    BY <1>4, <2>1 DEF Dismiss
<1>5. CASE WriteFile
  BY <1>5, CurrentTyped DEF WriteFile, Mail
<1>6. CASE WriteReceipt
  <2>1. receipts' \in [Files -> Receipt \cup {None}]
    BY <1>6, CurrentTyped DEF WriteReceipt, Mail, Receipt
  <2>2. courier.at + 1 \in 0 .. MaxMail + 1 /\ courier.seen \cup {courier.at} \in Ids
    BY <1>6, CurrentTyped, IdSets DEF WriteReceipt
  <2> QED
    BY <1>6, <2>1, <2>2 DEF WriteReceipt
<1>7. CASE SaveSeen
  <2>1. \E ids \in Ids : courier' = Asleep(ids) /\ saved' \in Ids
    BY <1>7, IdSets DEF SaveSeen
  <2> QED
    BY <1>7, <2>1 DEF SaveSeen, Asleep, Ids
<1>8. CASE PollFails
  <2>1. \E ids \in Ids : courier' = Asleep(ids)
    BY <1>8, IdSets DEF PollFails
  <2> QED
    BY <1>8, <2>1 DEF PollFails, Asleep, Ids, Fault
<1>9. CASE CourierCrash
  <2>1. \E ids \in Ids : courier' = Asleep(ids) /\ saved' = ids
    BY <1>9, IdSets DEF CourierCrash
  <2> QED
    BY <1>9, <2>1 DEF CourierCrash, Asleep, Ids, Fault
<1> QED
  BY <1>1, <1>2, <1>3, <1>4, <1>5, <1>6, <1>7, <1>8, <1>9 DEF CourierNext, CourierStep, CourierFault

LEMMA CourierPlace ==
  ASSUME CourierInv, CourierNext
  PROVE  PollPlace'
<1> USE DEF CourierInv, CourierTypeOK, PollPlace
<1>0. Len(mail) \in Nat
  OBVIOUS
<1>1. CASE Send
  <2>1. Len(mail') = Len(mail) + 1 /\ \A i \in DOMAIN mail : mail'[i] = mail[i]
    BY <1>1 DEF Send
  <2>2. courier.pc = "writing" => Current' = Current
    BY <1>1, <2>1, CurrentTyped DEF Send, Current
  <2>3. courier' = courier /\ files' = files
    BY <1>1 DEF Send
  <2> QED
    BY <1>0, <2>1, <2>2, <2>3
<1>2. CASE Poll
  BY <1>0, <1>2 DEF Poll
<1>3. CASE SkipSeen \/ SkipUnfetched
  BY <1>3, CurrentTyped DEF SkipSeen, SkipUnfetched, Reading, Fault
<1>4. CASE Dismiss
  BY <1>4, CurrentTyped DEF Dismiss, Reading
<1>5. CASE WriteFile
  BY <1>5, CurrentTyped DEF WriteFile, Reading, Mail, Current
<1>6. CASE WriteReceipt
  BY <1>6, CurrentTyped DEF WriteReceipt
<1>7. CASE SaveSeen \/ PollFails \/ CourierCrash
  <2>1. \E ids : courier' = Asleep(ids)
    BY <1>7 DEF SaveSeen, PollFails, CourierCrash
  <2>2. mail' = mail
    BY <1>7 DEF SaveSeen, PollFails, CourierCrash
  <2> QED
    BY <1>0, <2>1, <2>2 DEF Asleep
<1> QED
  BY <1>1, <1>2, <1>3, <1>4, <1>5, <1>6, <1>7 DEF CourierNext, CourierStep, CourierFault

Known == saved \cup courier.known \cup courier.seen

\* Only a mail that is dealt with becomes known.
LEMMA KnownGrows ==
  ASSUME CourierInv, CourierNext
  PROVE  \/ Known' \subseteq Known
         \/ (Dismiss \/ WriteReceipt) /\ Known' \subseteq Known \cup {courier.at}
<1> USE DEF CourierInv, CourierTypeOK, Known
<1>1. CASE Send \/ Poll \/ SkipSeen \/ WriteFile \/ SkipUnfetched
  BY ZenonT(40), <1>1 DEF Send, Poll, SkipSeen, WriteFile, SkipUnfetched
<1>2. CASE SaveSeen
  BY <1>2, KeptIds DEF SaveSeen, Asleep
<1>3. CASE PollFails
  BY <1>3, KeptIds DEF PollFails, Asleep
<1>4. CASE CourierCrash
  BY <1>4 DEF CourierCrash, Asleep
<1>5. CASE Dismiss \/ WriteReceipt
  BY <1>5 DEF Dismiss, WriteReceipt
<1> QED
  BY <1>1, <1>2, <1>3, <1>4, <1>5 DEF CourierNext, CourierStep, CourierFault

\* Only the receipt of the current mail is written.
LEMMA ReceiptWritten ==
  ASSUME CourierInv, CourierNext, NEW f \in Files
  PROVE  \/ receipts'[f] = receipts[f]
         \/ /\ WriteReceipt /\ f = Current.file
            /\ receipts'[f] = [corr |-> Current.corr, content |-> Current.content, id |-> courier.at]
  BY DEF CourierNext, CourierStep, CourierFault, Send, Poll, SkipSeen, Dismiss, WriteFile, WriteReceipt,
         SaveSeen, SkipUnfetched, PollFails, CourierCrash, CourierInv, CourierTypeOK

LEMMA CourierIds ==
  ASSUME CourierInv, CourierNext
  PROVE  IdsInMailbox'
<1>1. /\ \A i \in Known : i \in Nat /\ i <= Len(mail)
      /\ Len(mail) \in Nat /\ Len(mail') \in Nat /\ Len(mail) <= Len(mail')
  BY CourierKeeps, CourierTyped DEF CourierInv, CourierTypeOK, IdsInMailbox, Known, Ids
<1>2. Dismiss \/ WriteReceipt => courier.at \in Nat /\ courier.at <= Len(mail)
  BY <1>1, CurrentTyped DEF Dismiss, WriteReceipt, CourierInv, CourierTypeOK
<1>3. \A i \in Known' : i <= Len(mail')
  BY <1>1, <1>2, KnownGrows
<1>4. ASSUME NEW f \in Files, receipts'[f] # None
      PROVE  receipts'[f].id <= Len(mail')
  <2>1. CASE receipts'[f] = receipts[f]
    BY <1>1, <1>4, <2>1 DEF CourierInv, CourierTypeOK, IdsInMailbox, Receipt
  <2> QED
    BY <1>1, <1>2, <2>1, ReceiptWritten
<1> QED
  BY <1>3, <1>4 DEF IdsInMailbox, Known

\* A mail that was dealt with, and left its file and receipt or had neither.
Filed(i) ==
  mail[i].acceptable => /\ files[mail[i].file] # None
                        /\ \/ files[mail[i].file] # mail[i].content
                           \/ receipts[mail[i].file] # None

LEMMA CourierSeen ==
  ASSUME CourierInv, CourierNext
  PROVE  SeenIsFiled'
<1>1. \A i \in Known : i \in DOMAIN mail /\ mail[i] \in Mail /\ Filed(i)
  <2>1. \A i \in Known : i \in 1 .. Len(mail)
    BY DEF CourierInv, CourierTypeOK, IdsInMailbox, Ids, Known
  <2>2. \A i \in Known : Filed(i)
    BY DEF CourierInv, SeenIsFiled, Known, Filed
  <2> QED
    BY <2>1, <2>2, CourierAssumption DEF CourierInv, CourierTypeOK
<1>2. \A i \in DOMAIN mail : mail[i] \in Mail /\ Filed(i) => Filed(i)'
  BY CourierKeeps DEF Mail, Filed
<1>3. CASE Known' \subseteq Known
  <2>1. \A i \in Known' : Filed(i)'
    BY <1>1, <1>2, <1>3
  <2> QED
    BY <2>1 DEF SeenIsFiled, Known, Filed
<1>4. ASSUME NEW c, Known' \subseteq Known \cup {c}, Filed(c)'
      PROVE  SeenIsFiled'
  <2>1. \A i \in Known' : Filed(i)'
    BY <1>1, <1>2, <1>4
  <2> QED
    BY <2>1 DEF SeenIsFiled, Known, Filed
<1>5. CASE Dismiss
  <2> DEFINE c == courier.at
  <2>1. c \in DOMAIN mail /\ mail[c] \in Mail
    BY <1>5, CurrentTyped DEF Dismiss, Current
  <2>2. Filed(c)
    BY <1>5 DEF Dismiss, Conflicts, Current, Filed
  <2>3. Known' \subseteq Known \cup {c}
    BY KnownGrows
  <2> HIDE DEF c
  <2> QED
    BY <1>2, <1>4, <2>1, <2>2, <2>3
<1>6. CASE WriteReceipt
  <2>1. PICK c : c = courier.at
    OBVIOUS
  <2>2. Current = mail[c] /\ Current \in Mail /\ c \in 1 .. MaxMail
    BY <1>6, <2>1, CurrentTyped DEF WriteReceipt, Current
  <2>3. receipts'[mail[c].file] # None /\ files'[mail[c].file] # None /\ mail' = mail
    <3> DEFINE new == [corr |-> Current.corr, content |-> Current.content, id |-> courier.at]
    <3>1. new \in Receipt
      BY <2>1, <2>2 DEF Mail, Receipt
    <3>2. receipts' = [receipts EXCEPT ![mail[c].file] = new] /\ UNCHANGED <<mail, files>>
      BY <1>6, <2>2 DEF WriteReceipt
    <3>3. files[mail[c].file] = mail[c].content
      BY <1>6, <2>2 DEF WriteReceipt, CourierInv, PollPlace
    <3> HIDE DEF new
    <3> QED
      BY <2>2, <3>1, <3>2, <3>3, CourierAssumption DEF CourierInv, CourierTypeOK, Mail
  <2>4. Filed(c)'
    BY <2>3 DEF Filed
  <2>5. Known' \subseteq Known \cup {c}
    BY <2>1, KnownGrows
  <2> QED
    BY <1>4, <2>4, <2>5
<1> QED
  BY <1>3, <1>5, <1>6, KnownGrows

\* What a receipt says of its file and of its mail.
Matches(f) ==
  /\ receipts[f].content = files[f]
  /\ LET m == mail[receipts[f].id]
     IN  m.acceptable /\ m.file = f /\ m.content = files[f] /\ m.corr = receipts[f].corr

LEMMA CourierReceipts ==
  ASSUME CourierInv, CourierNext
  PROVE  ReceiptMatchesFile'
<1> SUFFICES ASSUME NEW f \in Files, receipts'[f] # None
             PROVE  Matches(f)'
  BY DEF ReceiptMatchesFile, Matches
<1>1. CASE receipts'[f] = receipts[f]
  <2>1. receipts[f].content = files[f] /\ receipts[f].id \in DOMAIN mail /\ files[f] # None
    BY <1>1, CourierAssumption
    DEF CourierInv, CourierTypeOK, ReceiptMatchesFile, IdsInMailbox, Receipt
  <2>2. Matches(f)
    BY <1>1 DEF CourierInv, ReceiptMatchesFile, Matches
  <2> QED
    BY <1>1, <2>1, <2>2, CourierKeeps DEF Matches
<1>2. ASSUME WriteReceipt, f = Current.file,
             receipts'[f] = [corr |-> Current.corr, content |-> Current.content, id |-> courier.at]
      PROVE  Matches(f)'
  <2>1. receipts'[f].id = courier.at
    BY <1>2
  <2>2. files'[f] = Current.content /\ mail' = mail /\ Current.acceptable
    BY <1>2 DEF WriteReceipt, CourierInv, PollPlace
  <2> QED
    BY <1>2, <2>1, <2>2 DEF Matches, Current
<1> QED
  BY <1>1, <1>2, ReceiptWritten

\* The courier keeps its invariant.
LEMMA CourierSafe ==
  ASSUME CourierInv, [CourierNext]_courierVars
  PROVE  CourierInv'
<1>1. CASE CourierNext
  BY <1>1, CourierTyped, CourierPlace, CourierIds, CourierSeen, CourierReceipts DEF CourierInv
<1>2. CASE UNCHANGED courierVars
  BY <1>2 DEF courierVars, CourierInv, CourierTypeOK, PollPlace, IdsInMailbox, SeenIsFiled,
              ReceiptMatchesFile, Current
<1> QED
  BY <1>1, <1>2

-----------------------------------------------------------------------------
(* The runner                                                              *)

LEMMA SeqAppend == ASSUME NEW S, NEW s \in Seq(S), NEW x \in S PROVE Append(s, x) \in Seq(S)
  OBVIOUS

LEMMA SeqElement == ASSUME NEW S, NEW s \in Seq(S), NEW i \in DOMAIN s PROVE s[i] \in S
  OBVIOUS

\* A step that concerns the task u alone.
Changes(u, rec, run, res, scr, log) ==
  /\ record' = [record EXCEPT ![u] = rec] /\ runner' = run
  /\ result' = [result EXCEPT ![u] = res] /\ script' = [script EXCEPT ![u] = scr]
  /\ launched' = [launched EXCEPT ![u] = log]

Posted(u, rec, res) ==
  /\ outbox' = Append(outbox, [task |-> u, reports |-> res])
  /\ rec # None /\ rec.state \in HasEnded /\ rec.terminal = res

\* It keeps the invariant if it keeps that task's part of it.
LEMMA Framed ==
  ASSUME RunnerInv, NEW u \in Tasks, NEW rec \in Record \cup {None}, NEW run \in Places,
         NEW res \in Terminal \cup {None}, NEW scr \in ScriptStates, NEW log \in Seq(Contents),
         Changes(u, rec, run, res, scr, log), run.task \in {u, None} \/ run = runner,
         outbox' = outbox \/ Posted(u, rec, res),
         Consistent(u, rec, run, res, scr, log),
         record[u] # None /\ record[u].state \in HasEnded =>
           rec # None /\ rec.state \in HasEnded /\ rec.terminal = record[u].terminal
  PROVE  RunnerInv'
<1>1. RunnerTypeOK' /\ runner' \in Places
  <2>1. outbox' \in Seq([task : Tasks, reports : Terminal])
    <3>1. outbox \in Seq([task : Tasks, reports : Terminal])
      BY DEF RunnerInv, RunnerTypeOK
    <3>2. Posted(u, rec, res) => res \in Terminal
      BY DEF Posted, Consistent, OutcomeRecorded
    <3>3. CASE Posted(u, rec, res)
      <4>1. [task |-> u, reports |-> res] \in [task : Tasks, reports : Terminal]
        BY <3>2, <3>3
      <4> QED
        BY <3>1, <3>3, <4>1, SeqAppend DEF Posted
    <3> QED
      BY <3>1, <3>3
  <2> QED
    BY <2>1 DEF RunnerInv, RunnerTypeOK, Changes, Places, RunnerStates
<1>2. TaskInv(u)'
  BY DEF RunnerInv, RunnerTypeOK, Changes, TaskInv
<1>3. ASSUME NEW t \in Tasks, t # u PROVE TaskInv(t)'
  <2>1. Consistent(t, record[t], run, result[t], script[t], launched[t])
    <3>1. Consistent(t, record[t], runner, result[t], script[t], launched[t])
      BY DEF RunnerInv, TaskInv
    <3>2. run.task # t \/ run = runner
      BY <1>3, RunnerAssumption
    <3> QED
      BY <3>1, <3>2 DEF Consistent, RecordAtPlace, NotYetLaunched, OutcomeRecorded, SuccessReported
  <2> QED
    BY <1>3, <2>1 DEF RunnerInv, RunnerTypeOK, Changes, TaskInv
<1>4. MailedOutcome'
  <2>1. outbox \in Seq([task : Tasks, reports : Terminal])
    BY DEF RunnerInv, RunnerTypeOK
  <2>2. ASSUME NEW i \in DOMAIN outbox
        PROVE  LET now == record'[outbox[i].task]
               IN  now # None /\ now.state \in HasEnded /\ outbox[i].reports = now.terminal
    <3>1. outbox[i] \in [task : Tasks, reports : Terminal]
      BY <2>1, <2>2, SeqElement
    <3>2. PICK t \in Tasks : t = outbox[i].task
      BY <3>1
    <3>3. record[t] # None /\ record[t].state \in HasEnded /\ outbox[i].reports = record[t].terminal
      BY <2>2, <3>2 DEF RunnerInv, MailedOutcome
    <3>4. record'[t] = IF t = u THEN rec ELSE record[t]
      BY DEF RunnerInv, RunnerTypeOK, Changes
    <3> QED
      BY <3>2, <3>3, <3>4
  <2>3. CASE outbox' = outbox
    BY <2>2, <2>3 DEF MailedOutcome
  <2>4. CASE Posted(u, rec, res)
    <3>1. record'[u] = rec
      BY DEF RunnerInv, RunnerTypeOK, Changes
    <3>2. /\ \A i \in DOMAIN outbox' : i \in DOMAIN outbox \/ i = Len(outbox) + 1
          /\ \A i \in DOMAIN outbox : outbox'[i] = outbox[i]
          /\ outbox'[Len(outbox) + 1] = [task |-> u, reports |-> res]
      BY <2>1, <2>4 DEF Posted
    <3> QED
      BY <2>2, <2>4, <3>1, <3>2 DEF MailedOutcome, Posted
  <2> QED
    BY <2>3, <2>4
<1>5. \A t \in Tasks : TaskInv(t)'
  BY <1>2, <1>3
<1> QED
  BY <1>1, <1>4, <1>5 DEF RunnerInv

\* What is known of a task and of the runner before a step.
LEMMA TaskFacts ==
  ASSUME RunnerInv, NEW u \in Tasks
  PROVE  /\ record[u] \in Record \cup {None} /\ runner \in Places
         /\ result[u] \in Terminal \cup {None} /\ script[u] \in ScriptStates
         /\ launched[u] \in Seq(Contents)
         /\ Consistent(u, record[u], runner, result[u], script[u], launched[u])
         /\ record = [record EXCEPT ![u] = record[u]] /\ result = [result EXCEPT ![u] = result[u]]
         /\ script = [script EXCEPT ![u] = script[u]] /\ launched = [launched EXCEPT ![u] = launched[u]]
  BY DEF RunnerInv, RunnerTypeOK, RunnerStates, TaskInv

\* The outcomes and the records of a step, by type.
LEMMA RecordFacts ==
  ASSUME NEW rec \in Record
  PROVE  /\ rec # None
         /\ \A state \in {"RECEIVED", "VALIDATED", "RUNNING"} \cup Terminal \cup HasEnded \cup Final :
              [rec EXCEPT !.state = state] \in Record
         /\ \A state \in Terminal : [rec EXCEPT !.state = state, !.terminal = state] \in Record
         /\ [rec EXCEPT !.rendered = TRUE] \in Record
         /\ \A s \in Scripts : [rec EXCEPT !.state = "VALIDATED", !.payload = s] \in Record
  BY RunnerAssumption DEF Record, Terminal, Final, HasEnded

\* The fields of a changed record.
LEMMA Fields ==
  ASSUME NEW rec \in Record, NEW state
  PROVE  LET new == [rec EXCEPT !.state = state]
         IN  new.state = state /\ new.terminal = rec.terminal /\ new.rendered = rec.rendered
  BY DEF Record

\* recover_states.
LEMMA RecoveryKeeps ==
  ASSUME RunnerInv, NEW u \in Tasks,
         RecoverRunning(u) \/ RecoverOther(u)
  PROVE  RunnerInv'
<1> USE TaskFacts DEF Places, RunnerStates, Pcs, Terminal
<1>1. CASE RecoverRunning(u)
  <2> DEFINE rec == [record[u] EXCEPT !.state = "FAILED", !.terminal = "FAILED"]
             run == [runner EXCEPT !.pc = "rendering", !.task = u, !.todo = @ \ {u}, !.then = "recovering"]
  <2>1. Changes(u, rec, run, result[u], script[u], launched[u]) /\ outbox' = outbox
    BY <1>1 DEF RecoverRunning, Ended, Write, Changes
  <2>2. rec \in Record \cup {None} /\ run \in Places /\ run.task \in {u, None}
    BY <1>1, RecordFacts DEF RecoverRunning, Ended, Write, Rest, At
  <2>3. Consistent(u, rec, run, result[u], script[u], launched[u])
    BY ZenonT(40), <1>1, RunnerAssumption DEF RecoverRunning, Ended, Write, Rest, At, Record, Consistent,
      RecordAtPlace, NotYetLaunched, OutcomeRecorded, SuccessReported, HasEnded, Final
  <2>4. record[u] # None /\ record[u].state \in HasEnded =>
          rec # None /\ rec.state \in HasEnded /\ rec.terminal = record[u].terminal
    BY <1>1, RecordFacts DEF RecoverRunning, Ended, Write, At, Record, Consistent, RecordAtPlace,
      HasEnded
  <2> HIDE DEF rec, run
  <2> QED
    BY <2>1, <2>2, <2>3, <2>4, Framed
<1>2. CASE RecoverOther(u)
  <2> DEFINE rec == record[u]
             run == [runner EXCEPT !.todo = @ \ {u}]
  <2>1. Changes(u, rec, run, result[u], script[u], launched[u]) /\ outbox' = outbox
    BY <1>2 DEF RecoverOther, Changes
  <2>2. rec \in Record \cup {None} /\ run \in Places /\ run.task \in {u, None}
    BY <1>2, RecordFacts DEF RecoverOther, Rest, At
  <2>3. Consistent(u, rec, run, result[u], script[u], launched[u])
    BY <1>2, RunnerAssumption DEF RecoverOther, Rest, At, Record, Consistent, RecordAtPlace,
      NotYetLaunched, OutcomeRecorded, SuccessReported, HasEnded, Final
  <2>4. record[u] # None /\ record[u].state \in HasEnded =>
          rec # None /\ rec.state \in HasEnded /\ rec.terminal = record[u].terminal
    BY <1>2, RecordFacts DEF RecoverOther, At, Record, Consistent, RecordAtPlace, HasEnded
  <2> HIDE DEF rec, run
  <2> QED
    BY <2>1, <2>2, <2>3, <2>4, Framed
<1> QED
  BY <1>1, <1>2

\* process_auth, up to the state of the record.
LEMMA ScanKeeps ==
  ASSUME RunnerInv, NEW u \in Tasks,
         Pass(u) \/ Receive(u) \/ Resume(u)
  PROVE  RunnerInv'
<1> USE TaskFacts DEF Places, RunnerStates, Pcs, Terminal
<1>1. CASE Pass(u)
  <2> DEFINE rec == record[u]
             run == Rest(u)
  <2>1. Changes(u, rec, run, result[u], script[u], launched[u]) /\ outbox' = outbox
    BY <1>1 DEF Pass, InScan, Changes
  <2>2. rec \in Record \cup {None} /\ run \in Places /\ run.task \in {u, None}
    BY <1>1, RecordFacts DEF Pass, InScan, Rest, At
  <2>3. Consistent(u, rec, run, result[u], script[u], launched[u])
    BY <1>1, RunnerAssumption DEF Pass, InScan, Rest, At, Record, Consistent, RecordAtPlace,
      NotYetLaunched, OutcomeRecorded, SuccessReported, HasEnded, Final
  <2>4. record[u] # None /\ record[u].state \in HasEnded =>
          rec # None /\ rec.state \in HasEnded /\ rec.terminal = record[u].terminal
    BY <1>1, RecordFacts DEF Pass, InScan, At, Record, Consistent, RecordAtPlace, HasEnded
  <2> HIDE DEF rec, run
  <2> QED
    BY <2>1, <2>2, <2>3, <2>4, Framed
<1>2. CASE Receive(u)
  <2> DEFINE rec == IF record[u] = None THEN Received ELSE record[u]
             run == [runner EXCEPT !.pc = "validating", !.task = u]
  <2>0. Received \in Record
    BY <1>2 DEF Receive, Received, Record, Terminal
  <2>1. Changes(u, rec, run, result[u], script[u], launched[u]) /\ outbox' = outbox
    BY <1>2 DEF Receive, InScan, Take, Write, Received, Changes
  <2>2. rec \in Record \cup {None} /\ run \in Places /\ run.task \in {u, None}
    BY <1>2, <2>0, RecordFacts DEF Receive, InScan, Take, Write, Received, Rest, At
  <2>3. Consistent(u, rec, run, result[u], script[u], launched[u])
    BY <1>2, <2>0, RunnerAssumption DEF Receive, InScan, Take, Write, Received, Rest, At, Record,
      Consistent, RecordAtPlace, NotYetLaunched, OutcomeRecorded, SuccessReported, HasEnded, Final
  <2>4. record[u] # None /\ record[u].state \in HasEnded =>
          rec # None /\ rec.state \in HasEnded /\ rec.terminal = record[u].terminal
    BY <1>2, <2>0, RecordFacts DEF Receive, InScan, Take, Write, Received, At, Record, Consistent,
      RecordAtPlace, HasEnded
  <2> HIDE DEF rec, run
  <2> QED
    BY <2>1, <2>2, <2>3, <2>4, Framed
<1>3. CASE Resume(u)
  <2> DEFINE rec == record[u]
             run == [runner EXCEPT !.pc = IF record[u].rendered THEN "sending" ELSE "rendering", !.task = u]
  <2>1. Changes(u, rec, run, result[u], script[u], launched[u]) /\ outbox' = outbox
    BY <1>3 DEF Resume, InScan, Take, Changes
  <2>2. rec \in Record \cup {None} /\ run \in Places /\ run.task \in {u, None}
    BY <1>3, RecordFacts DEF Resume, InScan, Take, Rest, At
  <2>3. Consistent(u, rec, run, result[u], script[u], launched[u])
    BY <1>3, RunnerAssumption DEF Resume, InScan, Take, Rest, At, Record, Consistent, RecordAtPlace,
      NotYetLaunched, OutcomeRecorded, SuccessReported, HasEnded, Final
  <2>4. record[u] # None /\ record[u].state \in HasEnded =>
          rec # None /\ rec.state \in HasEnded /\ rec.terminal = record[u].terminal
    BY <1>3, RecordFacts DEF Resume, InScan, Take, At, Record, Consistent, RecordAtPlace, HasEnded
  <2> HIDE DEF rec, run
  <2> QED
    BY <2>1, <2>2, <2>3, <2>4, Framed
<1> QED
  BY <1>1, <1>2, <1>3

\* validate_envelope.
LEMMA ValidationKeeps ==
  ASSUME RunnerInv, NEW u \in Tasks,
         AwaitPayload(u) \/ Reject(u)
  PROVE  RunnerInv'
<1> USE TaskFacts DEF Places, RunnerStates, Pcs, Terminal
<1>1. CASE AwaitPayload(u)
  <2> DEFINE rec == record[u]
             run == Rest(u)
  <2>1. Changes(u, rec, run, result[u], script[u], launched[u]) /\ outbox' = outbox
    BY <1>1 DEF AwaitPayload, Changes
  <2>2. rec \in Record \cup {None} /\ run \in Places /\ run.task \in {u, None}
    BY <1>1, RecordFacts DEF AwaitPayload, Rest, At
  <2>3. Consistent(u, rec, run, result[u], script[u], launched[u])
    BY <1>1, RunnerAssumption DEF AwaitPayload, Rest, At, Record, Consistent, RecordAtPlace,
      NotYetLaunched, OutcomeRecorded, SuccessReported, HasEnded, Final
  <2>4. record[u] # None /\ record[u].state \in HasEnded =>
          rec # None /\ rec.state \in HasEnded /\ rec.terminal = record[u].terminal
    BY <1>1, RecordFacts DEF AwaitPayload, At, Record, Consistent, RecordAtPlace, HasEnded
  <2> HIDE DEF rec, run
  <2> QED
    BY <2>1, <2>2, <2>3, <2>4, Framed
<1>2. CASE Reject(u)
  <2> DEFINE rec == [record[u] EXCEPT !.state = "REJECTED"]
             run == Rest(u)
  <2>0. record[u] \in Record /\ record[u].state \in {"RECEIVED", "VALIDATED"}
    BY <1>2 DEF Reject, At, Consistent, RecordAtPlace
  <2>1. Changes(u, rec, run, result[u], script[u], launched[u]) /\ outbox' = outbox
    BY <1>2 DEF Reject, SetState, Write, Changes
  <2>2. rec \in Record \cup {None} /\ run \in Places /\ run.task \in {u, None}
    <3>1. rec \in Record
      BY <2>0, RecordFacts DEF Final
    <3>2. run \in Places /\ run.task = None
      BY DEF Rest
    <3> QED
      BY <3>1, <3>2
  <2>3. Consistent(u, rec, run, result[u], script[u], launched[u])
    BY <1>2, <2>0, RunnerAssumption DEF Reject, SetState, Write, Rest, At, Record, Consistent,
      RecordAtPlace, NotYetLaunched, OutcomeRecorded, SuccessReported, HasEnded, Final
  <2>4. record[u] # None /\ record[u].state \in HasEnded =>
          rec # None /\ rec.state \in HasEnded /\ rec.terminal = record[u].terminal
    BY <1>2, <2>0, RecordFacts DEF Reject, SetState, Write, At, Record, Consistent, RecordAtPlace,
      HasEnded
  <2> HIDE DEF rec, run
  <2> QED
    BY <2>1, <2>2, <2>3, <2>4, Framed
<1> QED
  BY <1>1, <1>2

\* run_task, but for the launch.
LEMMA RunKeeps ==
  ASSUME RunnerInv, NEW u \in Tasks,
         Begin(u) \/ LaunchFails(u) \/ End(u)
  PROVE  RunnerInv'
<1> USE TaskFacts DEF Places, RunnerStates, Pcs, Terminal
<1>1. CASE Begin(u)
  <2> DEFINE rec == [record[u] EXCEPT !.state = "RUNNING"]
             run == [runner EXCEPT !.pc = "launching"]
  <2>0. record[u] \in Record /\ record[u].state \in {"RECEIVED", "VALIDATED"}
    BY <1>1 DEF Begin, At, Consistent, RecordAtPlace
  <2>1. Changes(u, rec, run, result[u], script[u], launched[u]) /\ outbox' = outbox
    BY <1>1 DEF Begin, SetState, Write, Go, Changes
  <2>2. rec \in Record \cup {None} /\ run \in Places /\ run.task \in {u, None}
    BY <1>1, <2>0, RecordFacts DEF Begin, SetState, Write, Go, Rest, At
  <2>3. Consistent(u, rec, run, result[u], script[u], launched[u])
    BY ZenonT(40), <1>1, <2>0, RunnerAssumption DEF Begin, SetState, Write, Go, Rest, At, Record, Consistent,
      RecordAtPlace, NotYetLaunched, OutcomeRecorded, SuccessReported, HasEnded, Final
  <2>4. record[u] # None /\ record[u].state \in HasEnded =>
          rec # None /\ rec.state \in HasEnded /\ rec.terminal = record[u].terminal
    BY <1>1, <2>0, RecordFacts DEF Begin, SetState, Write, Go, At, Record, Consistent,
      RecordAtPlace, HasEnded
  <2> HIDE DEF rec, run
  <2> QED
    BY <2>1, <2>2, <2>3, <2>4, Framed
<1>2. CASE LaunchFails(u)
  <2> DEFINE rec == record[u]
             run == [runner EXCEPT !.pc = "ending", !.ended = "FAILED"]
  <2>1. Changes(u, rec, run, result[u], script[u], launched[u]) /\ outbox' = outbox
    BY <1>2 DEF LaunchFails, Changes
  <2>2. rec \in Record \cup {None} /\ run \in Places /\ run.task \in {u, None}
    BY <1>2, RecordFacts DEF LaunchFails, Rest, At
  <2>3. Consistent(u, rec, run, result[u], script[u], launched[u])
    BY <1>2, RunnerAssumption DEF LaunchFails, Rest, At, Record, Consistent, RecordAtPlace,
      NotYetLaunched, OutcomeRecorded, SuccessReported, HasEnded, Final
  <2>4. record[u] # None /\ record[u].state \in HasEnded =>
          rec # None /\ rec.state \in HasEnded /\ rec.terminal = record[u].terminal
    BY <1>2, RecordFacts DEF LaunchFails, At, Record, Consistent, RecordAtPlace, HasEnded
  <2> HIDE DEF rec, run
  <2> QED
    BY <2>1, <2>2, <2>3, <2>4, Framed
<1>3. CASE End(u)
  <2> DEFINE rec == [record[u] EXCEPT !.state = runner.ended, !.terminal = runner.ended]
             run == [runner EXCEPT !.pc = "rendering", !.ended = None, !.then = "sending"]
  <2>0. record[u] \in Record /\ record[u].state = "RUNNING" /\ runner.ended \in Terminal
    BY <1>3 DEF End, At, Consistent, RecordAtPlace, SuccessReported
  <2>1. Changes(u, rec, run, result[u], script[u], launched[u]) /\ outbox' = outbox
    BY <1>3 DEF End, Ended, Write, Changes
  <2>2. rec \in Record \cup {None} /\ run \in Places /\ run.task \in {u, None}
    BY <1>3, <2>0, RecordFacts DEF End, Ended, Write, Rest, At
  <2>3. Consistent(u, rec, run, result[u], script[u], launched[u])
    <3>1. rec # None
      BY ONLY <2>0, RecordFacts
    <3>2. rec.state = runner.ended /\ rec.terminal = runner.ended /\ rec.rendered = record[u].rendered
      BY ONLY <2>0 DEF Record
    <3>3. /\ record[u].rendered = FALSE /\ runner.ended = "SUCCEEDED" => script[u] = "succeeded"
          /\ launched[u] = <<>> \/ \E s \in Contents : launched[u] = <<s>>
          /\ run.task = u /\ run.pc = "rendering"
      BY <1>3, <2>0 DEF End, At, Consistent, OutcomeRecorded, SuccessReported, HasEnded, NotYetLaunched
    <3> HIDE DEF rec, run
    <3> QED
      BY <2>0, <3>1, <3>2, <3>3, RunnerAssumption
      DEF Consistent, RecordAtPlace, NotYetLaunched, OutcomeRecorded, SuccessReported, HasEnded
  <2>4. record[u] # None /\ record[u].state \in HasEnded =>
          rec # None /\ rec.state \in HasEnded /\ rec.terminal = record[u].terminal
    BY <1>3, <2>0, RecordFacts DEF End, Ended, Write, At, Record, Consistent, RecordAtPlace,
      HasEnded
  <2> HIDE DEF rec, run
  <2> QED
    BY <2>1, <2>2, <2>3, <2>4, Framed
<1> QED
  BY <1>1, <1>2, <1>3

\* render_result and return_result.
LEMMA ReturnKeeps ==
  ASSUME RunnerInv, NEW u \in Tasks,
         Render(u) \/ RecordResult(u) \/ RecordReturned(u)
  PROVE  RunnerInv'
<1> USE TaskFacts DEF Places, RunnerStates, Pcs, Terminal
<1>1. CASE Render(u)
  <2> DEFINE rec == record[u]
             run == [runner EXCEPT !.pc = "recording"]
  <2>0. record[u] \in Record /\ record[u].state \in HasEnded /\ record[u].terminal \in Terminal
    BY <1>1 DEF Render, At, Consistent, RecordAtPlace, OutcomeRecorded, HasEnded
  <2>1. Changes(u, rec, run, record[u].terminal, script[u], launched[u]) /\ outbox' = outbox
    BY <1>1 DEF Render, Go, Changes
  <2>2. rec \in Record \cup {None} /\ run \in Places /\ run.task \in {u, None}
    BY <1>1, <2>0, RecordFacts DEF Render, Go, Rest, At
  <2>3. Consistent(u, rec, run, record[u].terminal, script[u], launched[u])
    BY <1>1, <2>0, RunnerAssumption DEF Render, Go, Rest, At, Record, Consistent, RecordAtPlace,
      NotYetLaunched, OutcomeRecorded, SuccessReported, HasEnded, Final
  <2>4. record[u] # None /\ record[u].state \in HasEnded =>
          rec # None /\ rec.state \in HasEnded /\ rec.terminal = record[u].terminal
    BY <1>1, <2>0, RecordFacts DEF Render, Go, At, Record, Consistent, RecordAtPlace, HasEnded
  <2> HIDE DEF rec, run
  <2> QED
    BY <2>1, <2>2, <2>3, <2>4, <2>0, Framed
<1>2. CASE RecordResult(u)
  <2> DEFINE rec == [record[u] EXCEPT !.rendered = TRUE]
             run == IF runner.then = "recovering"
                    THEN [runner EXCEPT !.pc = "recovering", !.task = None, !.then = "sending"]
                    ELSE [runner EXCEPT !.pc = "sending"]
  <2>0. record[u] \in Record /\ record[u].state \in HasEnded /\ record[u].terminal \in Terminal
    BY <1>2 DEF RecordResult, At, Consistent, RecordAtPlace, OutcomeRecorded, HasEnded
  <2>1. Changes(u, rec, run, result[u], script[u], launched[u]) /\ outbox' = outbox
    BY <1>2 DEF RecordResult, Write, Go, Changes
  <2>2. rec \in Record \cup {None} /\ run \in Places /\ run.task \in {u, None}
    BY <1>2, <2>0, RecordFacts DEF RecordResult, Write, Go, Rest, At
  <2>3. Consistent(u, rec, run, result[u], script[u], launched[u])
    BY ZenonT(40), <1>2, <2>0, RunnerAssumption DEF RecordResult, Write, Go, Rest, At, Record, Consistent,
      RecordAtPlace, NotYetLaunched, OutcomeRecorded, SuccessReported, HasEnded, Final
  <2>4. record[u] # None /\ record[u].state \in HasEnded =>
          rec # None /\ rec.state \in HasEnded /\ rec.terminal = record[u].terminal
    BY <2>0, <2>2, RunnerAssumption DEF Record
  <2> HIDE DEF rec, run
  <2> QED
    BY <2>1, <2>2, <2>3, <2>4, Framed
<1>3. CASE RecordReturned(u)
  <2> DEFINE rec == [record[u] EXCEPT !.state = "RETURNED"]
             run == Rest(u)
  <2>0. record[u] \in Record /\ record[u].state \in HasEnded /\ record[u].terminal \in Terminal
    BY <1>3 DEF RecordReturned, At, Consistent, RecordAtPlace, OutcomeRecorded, HasEnded
  <2>1. Changes(u, rec, run, result[u], script[u], launched[u]) /\ outbox' = outbox
    BY <1>3 DEF RecordReturned, SetState, Write, Changes
  <2>2. rec \in Record \cup {None} /\ run \in Places /\ run.task \in {u, None}
    <3>1. rec \in Record
      BY <2>0, RecordFacts DEF Final
    <3>2. run \in Places /\ run.task = None
      BY DEF Rest
    <3> QED
      BY <3>1, <3>2
  <2>3. Consistent(u, rec, run, result[u], script[u], launched[u])
    <3>1. rec # None /\ rec.state = "RETURNED" /\ rec.terminal = record[u].terminal
          /\ rec.rendered = record[u].rendered
      BY ONLY <2>0, <2>2, RunnerAssumption, Fields, RecordFacts DEF Final
    <3>2. record[u].rendered = TRUE /\ record[u].state \in Terminal /\ run.task = None
      BY <1>3 DEF RecordReturned, At, Consistent, OutcomeRecorded, RecordAtPlace, Rest
    <3> HIDE DEF rec, run
    <3> QED
      BY <2>0, <3>1, <3>2, RunnerAssumption DEF Consistent, RecordAtPlace, NotYetLaunched, OutcomeRecorded,
        SuccessReported, HasEnded
  <2>4. record[u] # None /\ record[u].state \in HasEnded =>
          rec # None /\ rec.state \in HasEnded /\ rec.terminal = record[u].terminal
    BY ONLY <2>0, Fields, RecordFacts DEF HasEnded, Final
  <2> HIDE DEF rec, run
  <2> QED
    BY <2>1, <2>2, <2>3, <2>4, Framed
<1> QED
  BY <1>1, <1>2, <1>3

\* A step between tasks, and the death of the process: no task is in hand
\* after it, and a script that has succeeded stays so.
LEMMA BetweenTasks ==
  ASSUME RunnerInv, UNCHANGED <<record, result, launched, outbox>>,
         runner' \in Places, runner'.task = None, script' \in [Tasks -> ScriptStates],
         \A t \in Tasks : script[t] = "succeeded" => script'[t] = "succeeded"
  PROVE  RunnerInv'
<1>1. ASSUME NEW t \in Tasks PROVE TaskInv(t)'
  <2>1. Consistent(t, record[t], runner, result[t], script[t], launched[t]) /\ runner'.task # t
    BY RunnerAssumption DEF RunnerInv, TaskInv
  <2> QED
    BY <2>1 DEF TaskInv, Consistent, RecordAtPlace, NotYetLaunched, OutcomeRecorded, SuccessReported
<1> QED
  BY <1>1 DEF RunnerInv, RunnerTypeOK, MailedOutcome, Places, RunnerStates

LEMMA RoundsKeep ==
  ASSUME RunnerInv, Recovered \/ Scan \/ Scanned \/ RunnerCrash
  PROVE  RunnerInv'
<1>1. script \in [Tasks -> ScriptStates] /\ runner \in Places
  BY DEF RunnerInv, RunnerTypeOK
<1>2. Sleeping \in Places /\ Sleeping.task = None /\ Restarted \in Places /\ Restarted.task = None
  BY DEF Sleeping, Restarted, Places, RunnerStates, Pcs
<1>3. CASE Recovered \/ Scanned
  BY <1>1, <1>2, <1>3, BetweenTasks DEF Recovered, Scanned
<1>4. CASE Scan
  <2>1. runner' \in Places /\ runner'.task = None
    BY <1>1, <1>4 DEF Scan, Places, RunnerStates, Pcs
  <2> QED
    BY <1>1, <1>4, <2>1, BetweenTasks DEF Scan
<1>5. CASE RunnerCrash
  BY <1>1, <1>2, <1>5, BetweenTasks DEF RunnerCrash, ScriptStates
<1> QED
  BY <1>3, <1>4, <1>5

\* The script and the wait for it.
LEMMA WaitKeeps ==
  ASSUME RunnerInv, NEW u \in Tasks, ScriptExits(u) \/ Wait(u)
  PROVE  RunnerInv'
<1> USE TaskFacts
<1>1. CASE ScriptExits(u)
  <2>1. PICK s \in {"succeeded", "failed"} : script' = [script EXCEPT ![u] = s]
    BY <1>1 DEF ScriptExits
  <2>2. Changes(u, record[u], runner, result[u], s, launched[u]) /\ outbox' = outbox
    BY <1>1, <2>1 DEF ScriptExits, Changes
  <2>3. Consistent(u, record[u], runner, result[u], s, launched[u])
    BY <1>1 DEF ScriptExits, Consistent, SuccessReported
  <2>4. s \in ScriptStates
    BY DEF ScriptStates
  <2> QED
    BY <2>2, <2>3, <2>4, Framed DEF Consistent, OutcomeRecorded
<1>2. CASE Wait(u)
  <2>1. PICK end \in Terminal, scr \in ScriptStates :
          /\ runner' = [runner EXCEPT !.pc = "ending", !.ended = end]
          /\ script' = [script EXCEPT ![u] = scr]
          /\ end = "SUCCEEDED" => scr = "succeeded"
          /\ script[u] = "succeeded" => scr = "succeeded"
    BY <1>2 DEF Wait, Terminal, ScriptStates
  <2> DEFINE run == [runner EXCEPT !.pc = "ending", !.ended = end]
  <2>2. Changes(u, record[u], run, result[u], scr, launched[u]) /\ outbox' = outbox
    BY <1>2, <2>1 DEF Wait, Changes
  <2>3. run \in Places /\ run.task = u /\ run.pc = "ending" /\ run.ended = end
    BY <1>2 DEF Wait, At, Places, RunnerStates, Pcs
  <2>4. record[u] # None /\ record[u].state = "RUNNING"
    BY <1>2 DEF Wait, At, Consistent, RecordAtPlace
  <2> HIDE DEF run
  <2>5. Consistent(u, record[u], run, result[u], scr, launched[u])
    BY <1>2, <2>1, <2>3, <2>4, RunnerAssumption
    DEF Wait, At, Consistent, RecordAtPlace, NotYetLaunched, OutcomeRecorded, SuccessReported, HasEnded,
        Terminal
  <2>6. record[u].state \notin HasEnded
    BY <2>4 DEF HasEnded, Terminal
  <2> QED
    BY <2>2, <2>3, <2>5, <2>6, Framed
<1> QED
  BY <1>1, <1>2

\* The mail with the result, and its failure.
LEMMA SendKeeps ==
  ASSUME RunnerInv, NEW u \in Tasks, SendResult(u) \/ SendFails(u)
  PROVE  RunnerInv'
<1> USE TaskFacts
<1>1. /\ record[u] # None /\ record[u].state \in HasEnded
      /\ record[u].rendered = TRUE /\ result[u] = record[u].terminal
  BY DEF SendResult, SendFails, At, Consistent, RecordAtPlace, OutcomeRecorded, HasEnded
<1>2. PICK run \in Places :
        /\ runner' = run /\ run.task \in {u, None}
        /\ run.task = u => run.pc = "sent"
  <2>1. CASE SendResult(u)
    <3>1. runner' = [runner EXCEPT !.pc = "sent"] /\ runner.task = u
      BY <2>1 DEF SendResult, At, Go
    <3>2. runner' \in Places /\ runner'.task = u /\ runner'.pc = "sent"
      BY <3>1 DEF Places, RunnerStates, Pcs
    <3> QED
      BY <3>2
  <2>2. CASE SendFails(u)
    <3>1. Rest(u) \in Places /\ Rest(u).task = None /\ None # u
      BY RunnerAssumption DEF Rest, Places, RunnerStates, Pcs
    <3> QED
      BY <2>2, <3>1 DEF SendFails
  <2> QED
    BY <2>1, <2>2
<1>3. Changes(u, record[u], run, result[u], script[u], launched[u])
  BY <1>2 DEF SendResult, SendFails, Changes
<1>4. outbox' = outbox \/ Posted(u, record[u], result[u])
  BY <1>1 DEF SendResult, SendFails, Mailed, Posted
<1>5. Consistent(u, record[u], run, result[u], script[u], launched[u])
  BY <1>1, <1>2, RunnerAssumption
  DEF SendResult, SendFails, At, Consistent, RecordAtPlace, NotYetLaunched, OutcomeRecorded, SuccessReported
<1> QED
  BY <1>1, <1>2, <1>3, <1>4, <1>5, Framed

\* The handler of process_auth.
LEMMA HandlerKeeps ==
  ASSUME RunnerInv, NEW u \in Tasks, TaskFails(u)
  PROVE  RunnerInv'
<1> USE TaskFacts
<1>1. /\ runner.task = u /\ UNCHANGED <<result, script, launched, outbox>>
      /\ record[u] \in Record
  BY DEF TaskFails, Consistent, RecordAtPlace
<1>2. CASE runner' \in {Rest(u), Sleeping} /\ UNCHANGED record
  <2>1. runner' \in Places /\ runner'.task = None
    BY <1>2 DEF Rest, Sleeping, Places, RunnerStates, Pcs
  <2> QED
    BY <1>1, <1>2, <2>1, BetweenTasks DEF RunnerInv, RunnerTypeOK
<1>3. CASE /\ record[u].state = "RUNNING" /\ Ended(u, "FAILED")
           /\ runner' = [runner EXCEPT !.pc = "rendering", !.ended = None, !.then = "sending"]
  <2> DEFINE rec == [record[u] EXCEPT !.state = "FAILED", !.terminal = "FAILED"]
             run == [runner EXCEPT !.pc = "rendering", !.ended = None, !.then = "sending"]
  <2>1. Changes(u, rec, run, result[u], script[u], launched[u])
    BY <1>1, <1>3 DEF Ended, Write, Changes
  <2>2. run \in Places /\ run.task = u /\ run.pc = "rendering"
    BY <1>1 DEF Places, RunnerStates, Pcs
  <2>3. /\ rec \in Record /\ rec # None
        /\ rec.state = "FAILED" /\ rec.terminal = "FAILED" /\ rec.rendered = record[u].rendered
    BY <1>1, RunnerAssumption DEF Record, Terminal
  <2>4. record[u].state \notin HasEnded /\ record[u].rendered = FALSE
    BY <1>1, <1>3, RunnerAssumption DEF Consistent, OutcomeRecorded, HasEnded, Terminal
  <2> HIDE DEF rec, run
  <2>5. Consistent(u, rec, run, result[u], script[u], launched[u])
    BY <2>2, <2>3, <2>4
    DEF Consistent, RecordAtPlace, NotYetLaunched, OutcomeRecorded, SuccessReported, HasEnded, Terminal
  <2> QED
    BY <1>1, <2>1, <2>2, <2>3, <2>4, <2>5, Framed
<1>4. CASE /\ record[u].state \in {"RECEIVED", "VALIDATED"}
           /\ SetState(u, "REJECTED") /\ runner' = Rest(u)
  <2> DEFINE rec == [record[u] EXCEPT !.state = "REJECTED"]
             run == Rest(u)
  <2>1. Changes(u, rec, run, result[u], script[u], launched[u])
    BY <1>1, <1>4 DEF SetState, Write, Changes
  <2>2. run \in Places /\ run.task = None
    BY DEF Rest, Places, RunnerStates, Pcs
  <2>3. /\ rec \in Record /\ rec # None /\ rec.state = "REJECTED"
        /\ rec.terminal = record[u].terminal /\ rec.rendered = record[u].rendered
    BY <1>1, Fields, RecordFacts DEF Final
  <2>4. record[u].state \notin HasEnded /\ launched[u] = <<>>
    BY <1>1, <1>4, RunnerAssumption DEF Consistent, NotYetLaunched, HasEnded, Terminal
  <2> HIDE DEF rec, run
  <2>5. Consistent(u, rec, run, result[u], script[u], launched[u])
    BY <1>1, <2>2, <2>3, <2>4, RunnerAssumption
    DEF Consistent, RecordAtPlace, NotYetLaunched, OutcomeRecorded, SuccessReported, HasEnded, Terminal
  <2> QED
    BY <1>1, <2>1, <2>2, <2>3, <2>4, <2>5, Framed
<1> QED
  BY <1>2, <1>3, <1>4 DEF TaskFails, Handle

\* What a validation establishes: the authorization names the payload, and
\* both arrived under the task.
LEMMA ValidMeansAuthorized ==
  ASSUME CourierInv, NEW u \in Tasks, receipts[Auth(u)] # None,
         AuthValid(u), PayloadHere(u), PayloadValid(u)
  PROVE  Authorized(u, files[Payload(u)])
<1>1. Auth(u) \in Files /\ Payload(u) \in Files
  BY DEF Auth, Payload, Files
<1>2. \A f \in {Auth(u), Payload(u)} : receipts[f] # None /\ receipts[f] \in Receipt
  BY <1>1 DEF PayloadHere, CourierInv, CourierTypeOK
<1>3. Envelope(u) \in Contents
  BY <1>1, <1>2 DEF AuthValid, Envelope, Receipt
<1>4. Envelope(u) = [task |-> u, script |-> files[Payload(u)]] /\ files[Payload(u)] \in Scripts
  BY <1>3 DEF AuthValid, PayloadValid, Contents
<1>5. ASSUME NEW f \in {Auth(u), Payload(u)}
      PROVE  \E i \in DOMAIN mail : mail[i].acceptable /\ mail[i].corr = u /\ mail[i].file = f
  <2>1. receipts[f].corr = u
    BY DEF AuthValid, PayloadValid
  <2>2. PICK i : i = receipts[f].id
    OBVIOUS
  <2>3. i \in DOMAIN mail
    BY <1>1, <1>2, <2>2 DEF CourierInv, CourierTypeOK, IdsInMailbox, Receipt
  <2>4. mail[i].acceptable /\ mail[i].corr = u /\ mail[i].file = f
    BY <1>1, <1>2, <2>1, <2>2 DEF CourierInv, ReceiptMatchesFile
  <2> QED
    BY <2>3, <2>4
<1> QED
  BY <1>4, <1>5 DEF Authorized

LEMMA ValidateKeeps ==
  ASSUME RunnerInv, CourierInv, AuthorizedAtPlace, NEW u \in Tasks, Validate(u)
  PROVE  RunnerInv' /\ Authorized(u, files[Payload(u)])
<1> USE TaskFacts
<1>1. Authorized(u, files[Payload(u)])
  BY ValidMeansAuthorized DEF Validate, AuthorizedAtPlace
<1> DEFINE rec == [record[u] EXCEPT !.state = "VALIDATED", !.payload = files[Payload(u)]]
           run == [runner EXCEPT !.pc = "starting"]
<1>2. record[u] \in Record /\ record[u].state \in {"RECEIVED", "VALIDATED"}
  BY DEF Validate, At, Consistent, RecordAtPlace
<1>3. Changes(u, rec, run, result[u], script[u], launched[u]) /\ outbox' = outbox
  BY DEF Validate, Write, Go, Changes
<1>4. run \in Places /\ run.task = u /\ run.pc = "starting"
  BY DEF Validate, At, Places, RunnerStates, Pcs
<1>5. /\ rec \in Record /\ rec # None /\ rec.state = "VALIDATED"
      /\ rec.terminal = record[u].terminal /\ rec.rendered = record[u].rendered
  BY <1>1, <1>2, RunnerAssumption DEF Record, Authorized
<1>6. record[u].state \notin HasEnded /\ launched[u] = <<>>
  BY <1>2, RunnerAssumption DEF Consistent, NotYetLaunched, HasEnded, Terminal
<1> HIDE DEF rec, run
<1>7. Consistent(u, rec, run, result[u], script[u], launched[u])
  BY <1>2, <1>4, <1>5, <1>6, RunnerAssumption
  DEF Consistent, RecordAtPlace, NotYetLaunched, OutcomeRecorded, SuccessReported, HasEnded, Terminal
<1> QED
  BY <1>1, <1>3, <1>4, <1>5, <1>6, <1>7, Framed

\* The launch: what was authorized is launched, for the first time.
LEMMA LaunchKeeps ==
  ASSUME RunnerInv, AuthorizedAtPlace, NEW u \in Tasks, Launch(u) \/ LaunchUnrecorded(u)
  PROVE  RunnerInv' /\ launched' = [launched EXCEPT ![u] = <<files[Payload(u)]>>]
         /\ Authorized(u, files[Payload(u)])
<1> USE TaskFacts
<1>1. At("launching", u) /\ Authorized(u, files[Payload(u)]) /\ files[Payload(u)] \in Contents
  BY DEF Launch, LaunchUnrecorded, AuthorizedAtPlace, Authorized, Contents
<1>2. launched[u] = <<>> /\ record[u] # None /\ record[u].state = "RUNNING"
  BY <1>1 DEF At, Consistent, NotYetLaunched, RecordAtPlace
<1> DEFINE log == <<files[Payload(u)]>>
<1>3. launched' = [launched EXCEPT ![u] = log] /\ log \in Seq(Contents)
  BY <1>1, <1>2 DEF Launch, LaunchUnrecorded
<1>4. PICK run \in Places :
        runner' = run /\ run.task = u /\ (run.pc = "waiting" \/ (run.pc = "ending" /\ run.ended = "FAILED"))
  BY <1>1 DEF Launch, LaunchUnrecorded, At, Go, Places, RunnerStates, Pcs, Terminal
<1>5. Changes(u, record[u], run, result[u], "running", log) /\ outbox' = outbox
  BY <1>3, <1>4 DEF Launch, LaunchUnrecorded, Changes
<1>6. Consistent(u, record[u], run, result[u], "running", log)
  <2>1. \E s \in Contents : log = <<s>>
    BY <1>1
  <2> HIDE DEF log
  <2> QED
    BY <1>2, <1>4, <2>1, RunnerAssumption
    DEF Consistent, RecordAtPlace, NotYetLaunched, OutcomeRecorded, SuccessReported, HasEnded, Terminal
<1>7. "running" \in ScriptStates
  BY DEF ScriptStates
<1> QED
  BY <1>1, <1>2, <1>3, <1>4, <1>5, <1>6, <1>7, Framed

-----------------------------------------------------------------------------
(* The whole                                                               *)

RunnerNext == RunnerStep \/ RunnerFault \/ \E t \in Tasks : ScriptExits(t)

\* The runner reads the inbox and never writes it.
LEMMA InboxUntouched ==
  ASSUME RunnerNext
  PROVE  UNCHANGED <<mail, files, receipts, courier, saved>>
         /\ (faults' = faults \/ Fault)
  BY DEF RunnerNext, RunnerStep, RunnerFault, courierVars, Recovered, Scan, Scanned, RunnerCrash,
         RecoverRunning, RecoverOther, Pass, Receive, Resume, Validate, AwaitPayload, Reject, Begin,
         Launch, LaunchFails, LaunchUnrecorded, ScriptExits, Wait, End, Render, RecordResult,
         SendResult, SendFails, RecordReturned, TaskFails

LEMMA RunnerLeavesCourier ==
  ASSUME CourierInv, RunnerNext
  PROVE  CourierInv'
<1>1. UNCHANGED <<mail, files, receipts, courier, saved>> /\ (faults' = faults \/ Fault)
  BY InboxUntouched
<1>2. faults' \in 0 .. MaxFaults
  BY <1>1, CourierAssumption DEF CourierInv, CourierTypeOK, Fault
<1> QED
  BY <1>1, <1>2
  DEF CourierInv, CourierTypeOK, PollPlace, IdsInMailbox, SeenIsFiled, ReceiptMatchesFile, Current

LEMMA RunnerKeeps ==
  ASSUME Inv, RunnerNext
  PROVE  RunnerInv'
<1>1. CASE Recovered \/ Scan \/ Scanned \/ RunnerCrash
  BY <1>1, RoundsKeep DEF Inv
<1>2. ASSUME NEW t \in Tasks,
             \/ RecoverRunning(t) \/ RecoverOther(t)
             \/ Pass(t) \/ Receive(t) \/ Resume(t) \/ AwaitPayload(t) \/ Reject(t)
             \/ Begin(t) \/ LaunchFails(t) \/ End(t)
             \/ Render(t) \/ RecordResult(t) \/ RecordReturned(t)
      PROVE  RunnerInv'
  BY <1>2, RecoveryKeeps, ScanKeeps, ValidationKeeps, RunKeeps, ReturnKeeps DEF Inv
<1>3. ASSUME NEW t \in Tasks,
             \/ Validate(t) \/ Launch(t) \/ LaunchUnrecorded(t) \/ ScriptExits(t) \/ Wait(t)
             \/ SendResult(t) \/ SendFails(t) \/ TaskFails(t)
      PROVE  RunnerInv'
  BY <1>3, ValidateKeeps, LaunchKeeps, WaitKeeps, SendKeeps, HandlerKeeps DEF Inv
<1> QED
  BY <1>1, <1>2, <1>3 DEF RunnerNext, RunnerStep, RunnerFault

\* How the runner comes to validate, start and launch a task.
LEMMA PlacesReached ==
  ASSUME RunnerInv, RunnerNext, NEW u \in Tasks
  PROVE  /\ At("validating", u)' => At("validating", u) \/ receipts[Auth(u)] # None
         /\ At("starting", u)' => At("starting", u) \/ Validate(u)
         /\ At("launching", u)' => At("launching", u) \/ At("starting", u)
<1> SUFFICES ASSUME runner' # runner PROVE
         /\ At("validating", u)' => At("validating", u) \/ receipts[Auth(u)] # None
         /\ At("starting", u)' => At("starting", u) \/ Validate(u)
         /\ At("launching", u)' => At("launching", u) \/ At("starting", u)
  BY DEF At
<1>0. runner \in Places /\ None \notin Tasks
  BY RunnerAssumption DEF RunnerInv
<1> USE <1>0 DEF At, Places, RunnerStates
<1>1. ASSUME Recovered \/ Scan \/ Scanned \/ RunnerCrash
      PROVE  runner'.pc \in {"sleeping", "scanning", "recovering"}
  <2>1. CASE Scan
    BY <2>1 DEF Scan
  <2>2. CASE Recovered \/ Scanned
    BY ONLY <2>2 DEF Recovered, Scanned, Sleeping
  <2>3. CASE RunnerCrash
    BY ONLY <2>3 DEF RunnerCrash, Restarted
  <2> QED
    BY ONLY <1>1, <2>1, <2>2, <2>3
<1>2. ASSUME NEW t \in Tasks, RecoverRunning(t) \/ RecoverOther(t)
      PROVE  runner'.pc \in {"rendering", "recovering"}
  BY <1>2 DEF RecoverRunning, RecoverOther
<1>3. ASSUME NEW t \in Tasks, Pass(t) \/ AwaitPayload(t) \/ Reject(t) \/ SendFails(t) \/ RecordReturned(t)
      PROVE  runner'.pc = "scanning"
  BY <1>3 DEF Pass, AwaitPayload, Reject, SendFails, RecordReturned, Rest
<1>4. ASSUME NEW t \in Tasks, Receive(t)
      PROVE  runner'.pc = "validating" /\ runner'.task = t /\ receipts[Auth(t)] # None
  BY <1>4 DEF Receive, Take
<1>5. ASSUME NEW t \in Tasks, Validate(t)
      PROVE  runner'.pc = "starting" /\ runner'.task = t
  BY <1>5 DEF Validate, Go
<1>6. ASSUME NEW t \in Tasks, Begin(t)
      PROVE  runner.pc = "starting" /\ runner'.pc = "launching" /\ runner.task = t /\ runner'.task = t
  BY <1>6 DEF Begin, Go
<1>7. ASSUME NEW t \in Tasks,
             \/ Resume(t) \/ Launch(t) \/ LaunchFails(t) \/ LaunchUnrecorded(t) \/ Wait(t) \/ End(t)
             \/ Render(t) \/ RecordResult(t) \/ SendResult(t)
      PROVE  runner'.pc \notin {"validating", "starting", "launching"}
  BY <1>7 DEF Resume, Take, Go, Launch, LaunchFails, LaunchUnrecorded, Wait, End, Render, RecordResult,
              SendResult
<1>8. ASSUME NEW t \in Tasks, TaskFails(t)
      PROVE  runner'.pc \in {"scanning", "sleeping", "rendering"}
  <2>1. \/ runner' \in {Rest(t), Sleeping}
        \/ runner' = [runner EXCEPT !.pc = "rendering", !.ended = None, !.then = "sending"]
    BY <1>8 DEF TaskFails, Handle
  <2>2. Rest(t).pc = "scanning" /\ Sleeping.pc = "sleeping"
    BY ONLY DEF Rest, Sleeping
  <2> QED
    BY <2>1, <2>2
<1>9. ASSUME NEW t \in Tasks, ScriptExits(t)
      PROVE  FALSE
  BY <1>9 DEF ScriptExits
<1> QED
  BY <1>1, <1>2, <1>3, <1>4, <1>5, <1>6, <1>7, <1>8, <1>9 DEF RunnerNext, RunnerStep, RunnerFault

\* What was authorized stays so.
LEMMA AuthorizationStays ==
  ASSUME CourierInv, CourierNext \/ UNCHANGED <<mail, files, receipts>>, NEW u \in Tasks
  PROVE  /\ \A s : Authorized(u, s) => Authorized(u, s)'
         /\ receipts[Auth(u)] # None => receipts'[Auth(u)] # None
         /\ \A s \in Scripts : files[Payload(u)] = s => files'[Payload(u)] = s
<1>1. CASE UNCHANGED <<mail, files, receipts>>
  BY <1>1 DEF Authorized, Envelope
<1>2. CASE CourierNext
  <2>1. Auth(u) \in Files /\ Payload(u) \in Files
    BY DEF Auth, Payload, Files
  <2>2. \A s \in Scripts : s # None /\ [task |-> u, script |-> s] # None
    BY CourierAssumption DEF Contents
  <2> QED
    BY <1>2, <2>1, <2>2, CourierKeeps DEF Authorized, Envelope
<1> QED
  BY <1>1, <1>2

LEMMA PlacesAuthorized ==
  ASSUME Inv, (CourierNext /\ UNCHANGED runnerVars) \/ RunnerNext \/ UNCHANGED vars
  PROVE  AuthorizedAtPlace'
<1> SUFFICES ASSUME NEW u \in Tasks
             PROVE  /\ At("validating", u)' => receipts'[Auth(u)] # None
                    /\ At("starting", u)' \/ At("launching", u)' => Authorized(u, files[Payload(u)])'
  BY DEF AuthorizedAtPlace
<1>1. CASE RunnerNext
  <2>1. UNCHANGED <<mail, files, receipts>>
    BY <1>1, InboxUntouched
  <2>2. At("starting", u)' \/ At("launching", u)' => Authorized(u, files[Payload(u)])
    BY <1>1, PlacesReached, ValidateKeeps DEF Inv, AuthorizedAtPlace
  <2>3. At("validating", u)' => receipts[Auth(u)] # None
    BY <1>1, PlacesReached DEF Inv, AuthorizedAtPlace
  <2> QED
    BY <2>1, <2>2, <2>3 DEF Authorized, Envelope
<1>2. CASE (CourierNext /\ UNCHANGED runnerVars) \/ UNCHANGED vars
  <2>1. UNCHANGED runner /\ (CourierNext \/ UNCHANGED <<mail, files, receipts>>)
    BY <1>2 DEF vars, courierVars, runnerVars
  <2>2. ASSUME Authorized(u, files[Payload(u)])
        PROVE  Authorized(u, files[Payload(u)])'
    <3>1. PICK s \in Scripts : files[Payload(u)] = s
      BY <2>2 DEF Authorized
    <3>2. files'[Payload(u)] = s /\ Authorized(u, s)'
      BY <2>1, <2>2, <3>1, AuthorizationStays DEF Inv
    <3> QED
      BY <3>2 DEF Authorized, Envelope
  <2> QED
    BY <2>1, <2>2, AuthorizationStays DEF Inv, AuthorizedAtPlace, At
<1> QED
  BY <1>1, <1>2

LEMMA LaunchesAuthorized ==
  ASSUME Inv, (CourierNext /\ UNCHANGED runnerVars) \/ RunnerNext \/ UNCHANGED vars
  PROVE  LaunchAuthorized'
<1>1. CourierNext \/ UNCHANGED <<mail, files, receipts>>
  BY InboxUntouched DEF vars, courierVars
<1>2. ASSUME NEW u \in Tasks, launched'[u] = launched[u], launched[u] # <<>>
      PROVE  Authorized(u, launched[u][1])'
  <2>1. PICK s : s = launched[u][1] /\ Authorized(u, s)
    BY <1>2 DEF Inv, LaunchAuthorized
  <2>2. Authorized(u, s)'
    BY <1>1, <2>1, AuthorizationStays DEF Inv
  <2> QED
    BY <1>2, <2>1, <2>2 DEF Authorized, Envelope
<1>3. CASE UNCHANGED launched
  BY <1>2, <1>3 DEF LaunchAuthorized
<1>4. ASSUME NEW t \in Tasks, Launch(t) \/ LaunchUnrecorded(t)
      PROVE  LaunchAuthorized'
  <2>1. launched' = [launched EXCEPT ![t] = <<files[Payload(t)]>>] /\ Authorized(t, files[Payload(t)])
    BY <1>4, LaunchKeeps DEF Inv
  <2>2. UNCHANGED <<mail, files, receipts>>
    BY <1>4 DEF Launch, LaunchUnrecorded, courierVars
  <2>3. Authorized(t, files[Payload(t)])'
    BY <2>1, <2>2 DEF Authorized, Envelope
  <2>4. launched'[t] = <<files'[Payload(t)]>> /\ \A u \in Tasks \ {t} : launched'[u] = launched[u]
    BY <2>1, <2>2 DEF Inv, RunnerInv, RunnerTypeOK
  <2> QED
    BY <1>2, <2>3, <2>4 DEF LaunchAuthorized, Authorized, Envelope
<1>5. RunnerNext => UNCHANGED launched \/ \E t \in Tasks : Launch(t) \/ LaunchUnrecorded(t)
  BY DEF RunnerNext, RunnerStep, RunnerFault, Recovered, Scan, Scanned, RunnerCrash,
         RecoverRunning, RecoverOther, Pass, Receive, Resume, Validate, AwaitPayload, Reject, Begin,
         LaunchFails, ScriptExits, Wait, End, Render, RecordResult,
         SendResult, SendFails, RecordReturned, TaskFails
<1> QED
  BY <1>3, <1>4, <1>5 DEF vars, runnerVars

\* The inductive invariant of courier and runner together.
LEMMA InvKept == Inv /\ [Next]_vars => Inv'
<1> SUFFICES ASSUME Inv, [Next]_vars PROVE Inv'
  OBVIOUS
<1>1. (CourierNext /\ UNCHANGED runnerVars) \/ RunnerNext \/ UNCHANGED vars
  BY DEF Next, RunnerNext
<1>2. CASE CourierNext /\ UNCHANGED runnerVars
  <2>1. CourierInv'
    BY <1>2, CourierSafe DEF Inv
  <2>2. RunnerInv'
    BY <1>2 DEF runnerVars, Inv, RunnerInv, RunnerTypeOK, TaskInv, MailedOutcome
  <2> QED
    BY <1>1, <2>1, <2>2, PlacesAuthorized, LaunchesAuthorized DEF Inv
<1>3. CASE RunnerNext
  BY <1>1, <1>3, RunnerLeavesCourier, RunnerKeeps, PlacesAuthorized, LaunchesAuthorized DEF Inv
<1>4. CASE UNCHANGED vars
  <2>1. CourierInv'
    BY <1>4, CourierSafe DEF Inv, vars
  <2>2. RunnerInv'
    BY <1>4 DEF vars, runnerVars, Inv, RunnerInv, RunnerTypeOK, TaskInv, MailedOutcome
  <2> QED
    BY <1>1, <2>1, <2>2, PlacesAuthorized, LaunchesAuthorized DEF Inv
<1> QED
  BY <1>1, <1>2, <1>3, <1>4

LEMMA InvAtStart == Init => Inv
<1> SUFFICES ASSUME Init PROVE Inv
  OBVIOUS
<1>1. CourierInv
  BY CourierStart DEF Init
<1>2. RunnerTypeOK /\ runner \in Places
  BY DEF Init, RunnerTypeOK, Sleeping, Places, RunnerStates, Pcs, ScriptStates
<1>3. \A t \in Tasks : TaskInv(t)
  BY RunnerAssumption
  DEF Init, Sleeping, TaskInv, Consistent, RecordAtPlace, NotYetLaunched, OutcomeRecorded, SuccessReported
<1>4. MailedOutcome /\ AuthorizedAtPlace /\ LaunchAuthorized
  BY RunnerAssumption DEF Init, Sleeping, MailedOutcome, AuthorizedAtPlace, LaunchAuthorized, At
<1> QED
  BY <1>1, <1>2, <1>3, <1>4 DEF Inv, RunnerInv

\* Courier and runner always satisfy the inductive invariant: any number of
\* tasks and mails, any crashes and failures.
THEOREM RunnerInvariant == Spec => []Inv
  BY InvAtStart, InvKept, PTL DEF Spec

\* The inbox, the records and both processes keep their types.
THEOREM RunnerTypes == Spec => []TypeOK
<1>1. Inv => TypeOK
  BY DEF Inv, CourierInv, RunnerInv, TypeOK
<1> QED
  BY <1>1, RunnerInvariant, PTL

\* The courier never takes a mail for dealt with whose file or receipt is
\* missing (receiver.py, poll_once), wherever it was killed.
THEOREM MailsAreFiled == Spec => []SeenIsFiled
<1>1. Inv => SeenIsFiled
  BY DEF Inv, CourierInv
<1> QED
  BY <1>1, RunnerInvariant, PTL

\* A receipt always describes the file beside it and the mail it came in.
THEOREM ReceiptsMatch == Spec => []ReceiptMatchesFile
<1>1. Inv => ReceiptMatchesFile
  BY DEF Inv, CourierInv
<1> QED
  BY <1>1, RunnerInvariant, PTL

\* A task is launched at most once (runner.py, run_task and recover_states),
\* for any number of crashes and failed writes.
THEOREM TasksLaunchedOnce == Spec => []AtMostOnce
<1>1. Inv => AtMostOnce
  <2> SUFFICES ASSUME Inv, NEW t \in Tasks PROVE Len(launched[t]) <= 1
    BY DEF AtMostOnce
  <2>1. launched[t] = <<>> \/ \E s \in Contents : launched[t] = <<s>>
    BY DEF Inv, RunnerInv, TaskInv, Consistent, NotYetLaunched
  <2>2. CASE launched[t] = <<>>
    <3>1. Len(launched[t]) = 0
      BY <2>2
    <3> QED
      BY <3>1
  <2>3. CASE \E s \in Contents : launched[t] = <<s>>
    <3>1. PICK s \in Contents : launched[t] = <<s>>
      BY <2>3
    <3>2. Len(launched[t]) = 1
      BY <3>1
    <3> QED
      BY <3>2
  <2> QED
    BY <2>1, <2>2, <2>3
<1> QED
  BY <1>1, RunnerInvariant, PTL

\* What is launched was authorized by mail for this very task (runner.py,
\* validate_envelope), although the inbox is written while the runner reads it.
THEOREM LaunchesAreAuthorized == Spec => []LaunchedAsAuthorized
<1>1. Inv => LaunchedAsAuthorized
  BY DEF Inv, LaunchAuthorized, Authorized, LaunchedAsAuthorized
<1> QED
  BY <1>1, RunnerInvariant, PTL

\* A task that was rejected never ran (runner.py, process_auth's handler).
THEOREM RejectedTasksNeverRan == Spec => []RejectedNeverRan
<1>1. Inv => RejectedNeverRan
  BY DEF Inv, RunnerInv, TaskInv, Consistent, NotYetLaunched, RejectedNeverRan
<1> QED
  BY <1>1, RunnerInvariant, PTL

\* The result mails report the recorded outcome, and success is the script's
\* own (runner.py, render_result and return_result).
THEOREM MailedResultsAreTrue == Spec => []ResultsAreTrue
<1>1. Inv => ResultsAreTrue
  BY DEF Inv, RunnerInv, MailedOutcome, TaskInv, Consistent, SuccessReported, ResultsAreTrue
<1> QED
  BY <1>1, RunnerInvariant, PTL
=============================================================================
