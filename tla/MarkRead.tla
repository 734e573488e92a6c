------------------------------- MODULE MarkRead -------------------------------
(***************************************************************************)
(* POST /emails/mark-read: several requests (tabs) remove UNREAD from       *)
(* messages at Gmail, account by account and batch by batch, and from the   *)
(* labels of the emails whose removal Gmail confirmed.  The labels are      *)
(* committed with the answer, whatever its status; an exception rolls them  *)
(* back.                                                                    *)
(***************************************************************************)
EXTENDS Integers, FiniteSets

CONSTANTS
  Tabs,       \* requests that may run at once
  Mails,      \* classified emails
  MailAccount,\* the account of an email
  BatchSize,  \* ids per batchModify
  MaxFaults   \* bound: calls that fail

ASSUME MarkReadAssumption ==
  /\ BatchSize \in Nat \ {0} /\ MaxFaults \in Nat
  /\ IsFiniteSet(Mails) /\ Mails = DOMAIN MailAccount

VARIABLES
  removed,  \* messages that lost UNREAD at Gmail
  localRead,\* emails without UNREAD in the database
  tab,      \* what each request holds
  faults    \* bound counter

markVars == <<removed, localRead, tab, faults>>

Quiet == [pc |-> "idle", todo |-> {}, queue |-> {}, singles |-> {}, marked |-> {},
          failed |-> {}, targets |-> {}, answer |-> "none"]

(* One account's targets are taken from those not begun.                    *)
WithAccount(r) ==
  {[r EXCEPT !.todo = {m \in @ : MailAccount[m] # a},
             !.queue = {m \in r.todo : MailAccount[m] = a}] :
     a \in {MailAccount[m] : m \in r.todo}}

(* Explicit emails, or the unread ones of a category; then the tokens of    *)
(* every account are unwrapped and refreshed, or the request ends with 409  *)
(* or 503 before it has changed anything.                                   *)
Select(t) ==
  /\ tab[t].pc = "idle"
  /\ \E targets \in {S \in SUBSET Mails : S # {}} \cup {Mails \ localRead} :
     \E r \in WithAccount([Quiet EXCEPT !.pc = "call", !.todo = targets, !.targets = targets]) :
       tab' = [tab EXCEPT ![t] = r]
  /\ UNCHANGED <<removed, localRead, faults>>

Batches(queue) ==
  IF Cardinality(queue) <= BatchSize THEN {queue}
  ELSE {B \in SUBSET queue : Cardinality(B) = BatchSize}

Calling(t) == tab[t].pc = "call"

(* Gmail applies the batch and says so.                                     *)
BatchDone(t) ==
  /\ Calling(t) /\ tab[t].singles = {} /\ tab[t].queue # {}
  /\ \E B \in Batches(tab[t].queue) :
       /\ removed' = removed \cup B
       /\ tab' = [tab EXCEPT ![t].queue = @ \ B, ![t].marked = @ \cup B]
  /\ UNCHANGED <<localRead, faults>>

Fault == faults < MaxFaults /\ faults' = faults + 1

(* Mutant: a refused batch is passed over.                                  *)
BatchSkipped(t) ==
  /\ Calling(t) /\ tab[t].singles = {} /\ tab[t].queue # {} /\ Fault
  /\ \E B \in Batches(tab[t].queue) :
       tab' = [tab EXCEPT ![t].queue = @ \ B]
  /\ UNCHANGED <<removed, localRead>>

(* 401 or 403: no message of the batch is tried again.                      *)
BatchDenied(t) ==
  /\ Calling(t) /\ tab[t].singles = {} /\ tab[t].queue # {} /\ Fault
  /\ \E B \in Batches(tab[t].queue) :
       tab' = [tab EXCEPT ![t].queue = @ \ B, ![t].failed = @ \cup B]
  /\ UNCHANGED <<removed, localRead>>

(* Any other refusal: the messages are tried one by one.                    *)
BatchRefused(t) ==
  /\ Calling(t) /\ tab[t].singles = {} /\ tab[t].queue # {} /\ Fault
  /\ \E B \in Batches(tab[t].queue) :
       tab' = [tab EXCEPT ![t].queue = @ \ B, ![t].singles = B]
  /\ UNCHANGED <<removed, localRead>>

SingleDone(t) ==
  /\ Calling(t)
  /\ \E m \in tab[t].singles :
       /\ removed' = removed \cup {m}
       /\ tab' = [tab EXCEPT ![t].singles = @ \ {m}, ![t].marked = @ \cup {m}]
  /\ UNCHANGED <<localRead, faults>>

SingleRefused(t) ==
  /\ Calling(t) /\ Fault
  /\ \E m \in tab[t].singles :
       tab' = [tab EXCEPT ![t].singles = @ \ {m}, ![t].failed = @ \cup {m}]
  /\ UNCHANGED <<removed, localRead>>

AccountDone(t) == tab[t].queue = {} /\ tab[t].singles = {}

(* Emails whose labels the session has changed: those of finished accounts. *)
Changed(t) ==
  {m \in tab[t].marked :
     AccountDone(t) \/ MailAccount[m] \notin
       {MailAccount[n] : n \in tab[t].queue \cup tab[t].singles}}

NextAccount(t) ==
  /\ Calling(t) /\ AccountDone(t) /\ tab[t].todo # {}
  /\ \E r \in WithAccount(tab[t]) : tab' = [tab EXCEPT ![t] = r]
  /\ UNCHANGED <<removed, localRead, faults>>

Answer(t, status) == [tab EXCEPT ![t] = [Quiet EXCEPT !.answer = status,
                                  !.marked = tab[t].marked, !.failed = tab[t].failed,
                                  !.targets = tab[t].targets]]

Finish(t) ==
  /\ Calling(t) /\ AccountDone(t) /\ tab[t].todo = {}
  /\ localRead' = localRead \cup Changed(t)
  /\ tab' = Answer(t, "ok")
  /\ UNCHANGED <<removed, faults>>

(* Mutant: labels of the whole request are committed with the error.        *)
BusyCommitsAll(t) ==
  /\ Calling(t) /\ ~ AccountDone(t) /\ Fault
  /\ localRead' = localRead \cup tab[t].targets
  /\ tab' = Answer(t, "unavailable")
  /\ UNCHANGED removed

(* 429 or 5xx five times over: answer 503; the accounts that were finished  *)
(* are committed, what Gmail marked of this one is not noted.               *)
Busy(t) ==
  /\ Calling(t) /\ ~ AccountDone(t) /\ Fault
  /\ localRead' = localRead \cup Changed(t)
  /\ tab' = Answer(t, "unavailable")
  /\ UNCHANGED removed

(* The connection breaks after Gmail may have applied the call, or the      *)
(* process dies: 500, rolled back.                                          *)
Lost(t) ==
  /\ Calling(t) /\ ~ AccountDone(t) /\ Fault
  /\ \E B \in Batches(tab[t].queue) \cup {{}} : removed' = removed \cup B
  /\ tab' = Answer(t, "lost")
  /\ UNCHANGED localRead

MarkInit ==
  /\ removed = {} /\ localRead = {} /\ faults = 0
  /\ tab = [t \in Tabs |-> Quiet]

MarkNext ==
  \E t \in Tabs :
    \/ Select(t) \/ BatchDone(t) \/ BatchDenied(t) \/ BatchRefused(t)
    \/ SingleDone(t) \/ SingleRefused(t) \/ NextAccount(t) \/ Finish(t)
    \/ Busy(t) \/ Lost(t)

MarkSpec == MarkInit /\ [][MarkNext]_markVars

-----------------------------------------------------------------------------
(* Properties                                                               *)

(* An email shown as read is read at Gmail: labels change for what Gmail    *)
(* confirmed and for nothing else, also when the request fails half-way.    *)
LocalReadIsGmailRead == localRead \subseteq removed

(* An answer of 200 speaks of every selected email, once.                   *)
AnswerCoversSelection ==
  \A t \in Tabs : tab[t].answer = "ok" =>
    /\ tab[t].marked \cup tab[t].failed = tab[t].targets
    /\ tab[t].marked \cap tab[t].failed = {}

=============================================================================
