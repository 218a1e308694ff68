----------------------------- MODULE MailCourier -----------------------------
(***************************************************************************)
(* infra/mail/receiver.py: the courier polls a mailbox and files the one   *)
(* attachment of every acceptable mail, with a receipt beside it.          *)
(*                                                                         *)
(* A mail is identified by its place in the mailbox, which nothing is      *)
(* removed from.  Headers, body and attachments are one flag, mails of     *)
(* other senders are not in the mailbox, and the digest of a file is its   *)
(* content.  Every mail can be decoded: one that cannot ends each poll     *)
(* that reads it, and is left out.                                         *)
(***************************************************************************)
EXTENDS Naturals, Sequences, FiniteSets

CONSTANTS
  Tasks,          \* correlation identifiers
  Scripts,        \* payload contents
  Mails,          \* the mails that may be sent
  None,
  MaxMail,        \* bound on the mailbox
  MaxSeen,        \* how many message ids are kept (5000)
  MaxFaults       \* bound on crashes and failing calls

Files == [kind : {"auth", "payload"}, task : Tasks]
Auth(t) == [kind |-> "auth", task |-> t]
Payload(t) == [kind |-> "payload", task |-> t]

\* What an authorization binds together, and what a payload is.
Contents == [task : Tasks, script : Scripts] \cup Scripts

Mail == [corr : Tasks, file : Files, content : Contents, acceptable : BOOLEAN]

Receipt == [corr : Tasks, content : Contents, id : 1 .. MaxMail]
Ids == SUBSET (1 .. MaxMail)

ASSUME CourierAssumption ==
  /\ None \notin Contents \cup Receipt
  /\ Mails \subseteq Mail
  /\ MaxMail \in Nat /\ MaxSeen \in Nat /\ MaxFaults \in Nat

VARIABLES
  mail,           \* the mailbox
  files,          \* the files in the inbox directory
  receipts,       \* the receipts beside them
  courier,        \* the polling process
  saved,          \* seen.json
  faults

courierVars == <<mail, files, receipts, courier, saved, faults>>

\* known: state["seen_message_ids"]; seen: the poll's own set; until: the
\* mails its search found.
CourierTypeOK ==
  /\ mail \in Seq(Mails) /\ Len(mail) <= MaxMail
  /\ files \in [Files -> Contents \cup {None}]
  /\ receipts \in [Files -> Receipt \cup {None}]
  /\ courier \in [pc : {"sleeping", "reading", "writing"}, at : 0 .. MaxMail + 1,
                  until : 0 .. MaxMail, seen : Ids, known : Ids]
  /\ saved \in Ids
  /\ faults \in 0 .. MaxFaults

Asleep(known) == [pc |-> "sleeping", at |-> 0, until |-> 0, seen |-> {}, known |-> known]

CourierInit ==
  /\ mail = <<>>
  /\ files = [f \in Files |-> None]
  /\ receipts = [f \in Files |-> None]
  /\ courier = Asleep({})
  /\ saved = {}
  /\ faults = 0

Fault == faults < MaxFaults /\ faults' = faults + 1

-----------------------------------------------------------------------------
Send ==
  /\ Len(mail) < MaxMail
  /\ \E m \in Mails : mail' = Append(mail, m)
  /\ UNCHANGED <<files, receipts, courier, saved, faults>>

\* The search.
Poll ==
  /\ courier.pc = "sleeping"
  /\ courier' = [courier EXCEPT !.pc = "reading", !.at = 1, !.until = Len(mail), !.seen = courier.known]
  /\ UNCHANGED <<mail, files, receipts, saved, faults>>

Reading == courier.pc = "reading" /\ courier.at <= courier.until
Current == mail[courier.at]

SkipSeen ==
  /\ Reading
  /\ courier.at \in courier.seen
  /\ courier' = [courier EXCEPT !.at = @ + 1]
  /\ UNCHANGED <<mail, files, receipts, saved, faults>>

\* A mail that cannot be fetched now.
SkipUnfetched ==
  /\ Reading
  /\ Fault
  /\ courier' = [courier EXCEPT !.at = @ + 1]
  /\ UNCHANGED <<mail, files, receipts, saved>>

Conflicts == files[Current.file] \notin {None, Current.content}

Dismiss ==
  /\ Reading
  /\ courier.at \notin courier.seen
  /\ ~Current.acceptable \/ Conflicts
  /\ courier' = [courier EXCEPT !.at = @ + 1, !.seen = @ \cup {courier.at}]
  /\ UNCHANGED <<mail, files, receipts, saved, faults>>

\* Mutant: a file that was delivered before is replaced.
WriteOver ==
  /\ Reading
  /\ courier.at \notin courier.seen
  /\ Current.acceptable
  /\ files' = [files EXCEPT ![Current.file] = Current.content]
  /\ courier' = [courier EXCEPT !.pc = "writing"]
  /\ UNCHANGED <<mail, receipts, saved, faults>>

\* Mutant: the mail is on record as seen before it is filed.
WriteSeen ==
  /\ Reading
  /\ courier.at \notin courier.seen
  /\ Current.acceptable
  /\ ~Conflicts
  /\ files' = [files EXCEPT ![Current.file] = Current.content]
  /\ courier' = [courier EXCEPT !.pc = "writing"]
  /\ saved' = saved \cup {courier.at}
  /\ UNCHANGED <<mail, receipts, faults>>

WriteFile ==
  /\ Reading
  /\ courier.at \notin courier.seen
  /\ Current.acceptable
  /\ ~Conflicts
  /\ files' = [files EXCEPT ![Current.file] = Current.content]
  /\ courier' = [courier EXCEPT !.pc = "writing"]
  /\ UNCHANGED <<mail, receipts, saved, faults>>

WriteReceipt ==
  /\ courier.pc = "writing"
  /\ receipts' = [receipts EXCEPT ![Current.file] =
                    [corr |-> Current.corr, content |-> Current.content, id |-> courier.at]]
  /\ courier' = [courier EXCEPT !.pc = "reading", !.at = @ + 1, !.seen = @ \cup {courier.at}]
  /\ UNCHANGED <<mail, files, saved, faults>>

\* list(seen)[-5000:] keeps whichever ids the set happens to list last.
Kept(ids) == {s \in SUBSET ids : \/ s = ids /\ Cardinality(ids) <= MaxSeen
                                 \/ Cardinality(s) = MaxSeen}

SaveSeen ==
  /\ courier.pc = "reading"
  /\ courier.at > courier.until
  /\ IF courier.seen = courier.known
     THEN courier' = Asleep(courier.known) /\ UNCHANGED saved
     ELSE \E ids \in Kept(courier.seen) : courier' = Asleep(ids) /\ saved' = ids
  /\ UNCHANGED <<mail, files, receipts, faults>>

\* Something raises: the poll's own set is dropped, but when it was seen.json
\* that could not be written the process remembers what the file lacks.
PollFails ==
  /\ courier.pc # "sleeping"
  /\ Fault
  /\ \E ids \in IF courier.pc = "reading" /\ courier.at > courier.until
                THEN Kept(courier.seen) ELSE {courier.known} :
       courier' = Asleep(ids)
  /\ UNCHANGED <<mail, files, receipts, saved>>

\* seen.json is replaced without an fsync: it may come back empty.
CourierCrash ==
  /\ Fault
  /\ \E ids \in {saved, {}} : courier' = Asleep(ids) /\ saved' = ids
  /\ UNCHANGED <<mail, files, receipts>>

CourierStep == Poll \/ SkipSeen \/ Dismiss \/ WriteFile \/ WriteReceipt \/ SaveSeen
CourierFault == SkipUnfetched \/ PollFails \/ CourierCrash

CourierNext == Send \/ CourierStep \/ CourierFault

-----------------------------------------------------------------------------
(* Properties                                                              *)

\* A mail that is not read again has been dealt with: its file is in the
\* inbox with a receipt, unless another content has the name, whenever the
\* process was killed or failed.
SeenIsFiled ==
  \A i \in saved \cup courier.known \cup courier.seen :
    mail[i].acceptable => /\ files[mail[i].file] # None
                          /\ \/ files[mail[i].file] # mail[i].content
                             \/ receipts[mail[i].file] # None

\* A receipt describes the file it lies beside, and the mail it names.
ReceiptMatchesFile ==
  \A f \in Files : receipts[f] # None =>
    /\ receipts[f].content = files[f]
    /\ LET m == mail[receipts[f].id]
       IN  m.acceptable /\ m.file = f /\ m.content = files[f] /\ m.corr = receipts[f].corr
=============================================================================
