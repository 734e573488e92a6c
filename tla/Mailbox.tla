------------------------------- MODULE Mailbox -------------------------------
(***************************************************************************)
(* One connected Gmail account: the ingest handler (token refresh, cursor,  *)
(* listing, dedup, commit) running in several Lambda workers, while the     *)
(* owner disconnects, removes or reconnects the account and Google forgets  *)
(* history or revokes the grant.                                            *)
(*                                                                         *)
(* PostgreSQL runs at READ COMMITTED: a transaction reads what is           *)
(* committed, waits for the row locks of others, and an ORM UPDATE whose    *)
(* row is gone, like an INSERT whose key exists, raises and rolls back.     *)
(*                                                                         *)
(* Message m makes the mailbox's historyId m + 1: a cursor c has covered    *)
(* the messages below c.                                                    *)
(***************************************************************************)
EXTENDS Integers, FiniteSets

CONSTANTS
  Workers,
  MaxMail,     \* bound: messages that arrive
  MaxGrants,   \* bound: consents the owner gives at Google
  MaxRequests, \* bound: disconnect and remove requests
  MaxFailures, \* bound: crashes and failed Gmail or Google calls
  Nobody       \* holder of a free row lock

ASSUME MailboxAssumption ==
  /\ Nobody \notin Workers \cup {"owner"} /\ "owner" \notin Workers
  /\ {MaxMail, MaxGrants} \subseteq Nat \ {0}
  /\ {MaxRequests, MaxFailures} \subseteq Nat

VARIABLES
  gmail,   \* the mailbox at Google
  account, \* status of the connected_accounts row
  token,   \* the oauth_tokens row
  cursor,  \* history_id of the sync_cursors row, NoCursor when there is none
  emails,  \* committed emails
  lock,    \* holders of the token and cursor row locks
  ingest,  \* what each worker holds
  request, \* the owner's disconnect or remove request
  connect, \* the OAuth callback
  failures,\* bound counter
  early,   \* history: a disconnect has found no cursor row to delete
  standing \* history: the owner connected after the last disconnect and Google has not revoked since

vars == <<gmail, account, token, cursor, emails, lock, ingest, request, connect,
          failures, early, standing>>

NoCursor == 0
NoGrant == 0
NoToken == [row |-> 0, grant |-> NoGrant, fresh |-> FALSE]

Messages == 1 .. MaxMail
Grants == 1 .. MaxGrants

AtRest ==
  [pc |-> "idle", row |-> 0, grant |-> NoGrant, base |-> NoCursor, next |-> NoCursor,
   ids |-> {}, mine |-> {}, touched |-> FALSE]

-----------------------------------------------------------------------------
(* Transactions.                                                            *)

HistoryId == gmail.arrived + 1
GrantWorks(g) == g \in gmail.grants

(* Mutant: a rollback keeps the lock of the token row.                      *)
ReleasedCursor(w) == [lock EXCEPT !.cursor = IF @ = w THEN Nobody ELSE @]

(* Rows of w's transaction are dropped and its locks are free.              *)
Released(w) ==
  [token |-> IF lock.token = w THEN Nobody ELSE lock.token,
   cursor |-> IF lock.cursor = w THEN Nobody ELSE lock.cursor]

Rollback(w) ==
  /\ lock' = Released(w)
  /\ ingest' = [ingest EXCEPT ![w] = AtRest]

At(w, pc) == ingest[w].pc = pc
Goes(w, pc) == [ingest EXCEPT ![w].pc = pc]

(* The handler touches nothing but its own record.                          *)
OnlyIngest == UNCHANGED <<gmail, account, token, cursor, emails, lock, request, connect,
                          failures, early, standing>>
OnlyTransaction == UNCHANGED <<gmail, account, token, cursor, emails, request, connect,
                               failures, early, standing>>

-----------------------------------------------------------------------------
(* handle_ingest                                                            *)

(* A record arrives; an account that is not active is skipped.              *)
Begin(w) ==
  /\ At(w, "idle") /\ account = "active"
  /\ ingest' = Goes(w, "token")
  /\ OnlyIngest

(* No tokens: LookupError.                                                  *)
LoadToken(w) ==
  /\ At(w, "token")
  /\ IF token = NoToken THEN ingest' = [ingest EXCEPT ![w] = AtRest]
     ELSE ingest' = [ingest EXCEPT ![w].pc = IF token.fresh THEN "cursor" ELSE "refresh",
                                   ![w].row = token.row, ![w].grant = token.grant]
  /\ OnlyIngest

(* Google answers with a new access token: flush it.                        *)
Refresh(w) ==
  /\ At(w, "refresh") /\ GrantWorks(ingest[w].grant)
  /\ ingest' = Goes(w, "save_token")
  /\ OnlyIngest

SaveToken(w) ==
  /\ At(w, "save_token") /\ lock.token = Nobody
  /\ IF token.row # ingest[w].row THEN Rollback(w)
     ELSE lock' = [lock EXCEPT !.token = w] /\ ingest' = Goes(w, "cursor")
  /\ OnlyTransaction

InvalidGrant(w) ==
  /\ At(w, "refresh") /\ ~ GrantWorks(ingest[w].grant)
  /\ ingest' = Goes(w, "reject")
  /\ OnlyIngest

(* _mark_reauth_required: the status is written over whatever it is now.    *)
MarkReauthRequired(w) ==
  /\ At(w, "reject")
  /\ account' = IF account = "removed" THEN "removed" ELSE "revoked"
  /\ ingest' = [ingest EXCEPT ![w] = AtRest]
  /\ UNCHANGED <<gmail, token, cursor, emails, lock, request, connect, failures, early, standing>>

-----------------------------------------------------------------------------
(* run_ingest                                                               *)

ReadCursor(w) ==
  /\ At(w, "cursor")
  /\ ingest' = [ingest EXCEPT ![w].pc = IF cursor = NoCursor THEN "new_cursor" ELSE "list",
                              ![w].base = cursor]
  /\ OnlyIngest

(* The first run inserts the row.                                           *)
InsertCursor(w) ==
  /\ At(w, "new_cursor") /\ lock.cursor = Nobody
  /\ IF cursor # NoCursor \/ account = "removed" THEN Rollback(w)
     ELSE lock' = [lock EXCEPT !.cursor = w] /\ ingest' = Goes(w, "list")
  /\ OnlyTransaction

Listed(w, ids, pc) ==
  ingest' = [ingest EXCEPT ![w].pc = pc, ![w].ids = ids, ![w].next = HistoryId]

(* Mutant: an expired history cursor is an error of the run.                *)
ListHistoryOnly(w) ==
  /\ At(w, "list") /\ GrantWorks(ingest[w].grant)
  /\ \/ /\ ingest[w].base >= gmail.floor
        /\ Listed(w, (ingest[w].base .. gmail.arrived) \ gmail.gone, "fetch")
        /\ UNCHANGED lock
     \/ /\ ingest[w].base = NoCursor /\ Listed(w, {}, "scan") /\ UNCHANGED lock
     \/ /\ ingest[w].base \in 1 .. gmail.floor - 1 /\ Rollback(w)
  /\ OnlyTransaction

(* Messages added since the cursor that are still wanted; without a cursor, *)
(* or when Gmail has forgotten it, the watermark and then a scan.           *)
ListNewIds(w) ==
  /\ At(w, "list") /\ GrantWorks(ingest[w].grant)
  /\ IF ingest[w].base # NoCursor /\ ingest[w].base >= gmail.floor
     THEN Listed(w, (ingest[w].base .. gmail.arrived) \ gmail.gone, "fetch")
     ELSE Listed(w, {}, "scan")
  /\ UNCHANGED lock
  /\ OnlyTransaction

(* Mutant: the watermark is read after the scan.                            *)
ScanThenWatermark(w) ==
  /\ At(w, "scan") /\ GrantWorks(ingest[w].grant)
  /\ IF ingest[w].touched
     THEN ingest' = [ingest EXCEPT ![w].pc = "fetch", ![w].next = HistoryId,
                                   ![w].touched = FALSE]
     ELSE ingest' = [ingest EXCEPT ![w].ids = (1 .. gmail.arrived) \ gmail.gone,
                                   ![w].touched = TRUE]
  /\ OnlyIngest

ScanMailbox(w) ==
  /\ At(w, "scan") /\ GrantWorks(ingest[w].grant)
  /\ ingest' = [ingest EXCEPT ![w].pc = "fetch", ![w].ids = (1 .. gmail.arrived) \ gmail.gone]
  /\ OnlyIngest

(* Labels and bodies are fetched one by one: what leaves the inbox before   *)
(* its turn may be left out.  Then the known messages are looked up.        *)
FetchAndDedup(w) ==
  /\ At(w, "fetch") /\ GrantWorks(ingest[w].grant)
  /\ \E left \in SUBSET (ingest[w].ids \cap gmail.gone) :
       LET fetched == ingest[w].ids \ left IN
         ingest' = [ingest EXCEPT ![w].pc = "insert", ![w].touched = fetched # {},
                                  ![w].mine = fetched \ emails, ![w].ids = {}]
  /\ OnlyIngest

(* What another transaction has inserted and not committed.                 *)
Pending(w) == UNION {ingest[v].mine : v \in {v \in Workers \ {w} :
                                              ingest[v].pc \in {"save_cursor", "commit"}}}

(* The INSERTs wait for those of others and raise when one has committed.   *)
InsertEmails(w) ==
  /\ At(w, "insert") /\ ingest[w].mine \cap Pending(w) = {}
  /\ IF ingest[w].mine \cap emails # {} \/ (ingest[w].mine # {} /\ account = "removed")
     THEN Rollback(w)
     ELSE ingest' = Goes(w, "save_cursor") /\ UNCHANGED lock
  /\ OnlyTransaction

Inserted(w) == ingest[w].base = NoCursor
Dirty(w) == ingest[w].touched \/ ingest[w].next # ingest[w].base

(* _persist_cursor: an UPDATE that changes nothing is not sent.             *)
SaveCursor(w) ==
  /\ At(w, "save_cursor")
  /\ IF Inserted(w) \/ ~ Dirty(w) THEN ingest' = Goes(w, "commit") /\ UNCHANGED lock
     ELSE /\ lock.cursor = Nobody
          /\ IF cursor = NoCursor THEN Rollback(w)
             ELSE lock' = [lock EXCEPT !.cursor = w] /\ ingest' = Goes(w, "commit")
  /\ OnlyTransaction

Commit(w) ==
  /\ At(w, "commit")
  /\ emails' = emails \cup ingest[w].mine
  /\ cursor' = IF Inserted(w) \/ Dirty(w) THEN ingest[w].next ELSE cursor
  /\ token' = IF lock.token = w THEN [token EXCEPT !.fresh = TRUE] ELSE token
  /\ Rollback(w)
  /\ UNCHANGED <<gmail, account, request, connect, failures, early, standing>>

(* The worker dies, or a Gmail, Google or KMS call fails for good.          *)
Fail(w) ==
  /\ ~ At(w, "idle") /\ failures < MaxFailures
  /\ failures' = failures + 1
  /\ Rollback(w)
  /\ UNCHANGED <<gmail, account, token, cursor, emails, request, connect, early, standing>>

(* A call with a revoked grant is a 401: the record fails and comes back.   *)
Unauthorized(w) ==
  /\ ingest[w].pc \in {"list", "scan", "fetch"} /\ ~ GrantWorks(ingest[w].grant)
  /\ Rollback(w)
  /\ OnlyTransaction

-----------------------------------------------------------------------------
(* The accounts API: disconnect_account and delete_account.                 *)

OnlyRequest == UNCHANGED <<gmail, account, token, cursor, emails, ingest, connect, failures,
                           standing>>
ToStep(pc) == request' = [request EXCEPT !.pc = pc]

LoadOwnedAccount ==
  /\ request.pc = "idle" /\ request.count < MaxRequests /\ account # "removed"
  /\ request' = [pc |-> "tokens", count |-> request.count + 1, seen |-> account]
  /\ UNCHANGED <<lock, early>>
  /\ OnlyRequest

(* _purge_account_runtime_data, first statement.                            *)
PurgeToken ==
  /\ request.pc = "tokens" /\ lock.token = Nobody
  /\ lock' = IF token = NoToken THEN lock ELSE [lock EXCEPT !.token = "owner"]
  /\ ToStep("cursor")
  /\ UNCHANGED early
  /\ OnlyRequest

(* Second statement; a row that is not committed is not there.              *)
PurgeCursor ==
  /\ request.pc = "cursor" /\ (lock.cursor = Nobody \/ cursor = NoCursor)
  /\ lock' = IF cursor = NoCursor THEN lock ELSE [lock EXCEPT !.cursor = "owner"]
  /\ early' = (early \/ cursor = NoCursor)
  /\ ToStep("emails")
  /\ OnlyRequest

Gone(item, none) == IF lock[item] = "owner" THEN none ELSE IF item = "token" THEN token ELSE cursor

(* Mutant: the emails are deleted before the rows the ingest waits for.     *)
PurgeEmailsFirst ==
  /\ request.pc = "emails"
  /\ account' = IF account = "removed" THEN "removed"
                ELSE IF request.seen = "revoked" THEN account ELSE "revoked"
  /\ token' = Gone("token", NoToken) /\ cursor' = Gone("cursor", NoCursor)
  /\ lock' = Released("owner")
  /\ \E kept \in SUBSET emails : emails' = kept
  /\ ToStep("idle") /\ standing' = FALSE
  /\ UNCHANGED <<gmail, ingest, connect, failures, early>>

(* The emails with all that hangs on them, the account's status (which is   *)
(* not written when it was seen to be revoked), and the commit.             *)
PurgeEmails ==
  /\ request.pc = "emails"
  /\ emails' = {}
  /\ account' = IF account = "removed" THEN "removed"
                ELSE IF request.seen = "revoked" THEN account ELSE "revoked"
  /\ token' = Gone("token", NoToken) /\ cursor' = Gone("cursor", NoCursor)
  /\ lock' = Released("owner")
  /\ ToStep("idle") /\ standing' = FALSE
  /\ UNCHANGED <<gmail, ingest, connect, failures, early>>

(* delete_account: refused while active; the rows of the account go with    *)
(* it, after the transactions that inserted some of them.                   *)
RemoveAccount ==
  /\ request.pc = "idle" /\ request.count < MaxRequests /\ account = "revoked"
  /\ lock.token = Nobody /\ lock.cursor = Nobody
  /\ \A w \in Workers : ingest[w].pc \in {"save_cursor", "commit"} => ingest[w].mine = {}
  /\ account' = "removed" /\ token' = NoToken /\ cursor' = NoCursor /\ emails' = {}
  /\ request' = [request EXCEPT !.count = @ + 1]
  /\ standing' = FALSE
  /\ UNCHANGED <<gmail, lock, ingest, connect, failures, early>>

-----------------------------------------------------------------------------
(* The OAuth callback of a reconnect.                                       *)

OnlyConnect == UNCHANGED <<gmail, account, token, cursor, emails, lock, ingest, request,
                           failures, early, standing>>

(* The owner consents; _upsert_connected_account loads the row.  (The       *)
(* address of a removed account makes another account, with another id.)    *)
Consent ==
  /\ connect.pc = "idle" /\ connect.grant < MaxGrants /\ account # "removed"
  /\ gmail' = [gmail EXCEPT !.grants = @ \cup {connect.grant + 1}]
  /\ connect' = [connect EXCEPT !.pc = "token", !.grant = @ + 1, !.seen = account]
  /\ UNCHANGED <<account, token, cursor, emails, lock, ingest, request, failures, early, standing>>

SeeToken ==
  /\ connect.pc = "token"
  /\ connect' = [connect EXCEPT !.pc = "write", !.row = token.row]
  /\ OnlyConnect

(* Insert or update the tokens, set the status when it was not seen active, *)
(* commit.  A row that changed hands meanwhile is an error 500.             *)
StoreGrant ==
  /\ connect.pc = "write" /\ lock.token = Nobody
  /\ IF connect.row # token.row \/ account = "removed"
     THEN UNCHANGED <<account, token, standing>>
     ELSE /\ token' = [row |-> IF connect.row = 0 THEN connect.grant ELSE connect.row,
                       grant |-> connect.grant, fresh |-> TRUE]
          /\ account' = IF connect.seen = "active" THEN account ELSE "active"
          /\ standing' = GrantWorks(connect.grant)
  /\ connect' = [connect EXCEPT !.pc = "idle", !.row = 0]
  /\ UNCHANGED <<gmail, cursor, emails, lock, ingest, request, failures, early>>

-----------------------------------------------------------------------------
(* Google.                                                                  *)

OnlyGoogle == UNCHANGED <<account, cursor, emails, lock, ingest, request, connect, failures, early>>

Arrive ==
  /\ gmail.arrived < MaxMail
  /\ gmail' = [gmail EXCEPT !.arrived = @ + 1]
  /\ UNCHANGED <<token, standing>> /\ OnlyGoogle

(* The owner reads, trashes or deletes a message, or it grows older than    *)
(* the lookback window.                                                     *)
Leave(m) ==
  /\ m \in 1 .. gmail.arrived \ gmail.gone
  /\ gmail' = [gmail EXCEPT !.gone = @ \cup {m}]
  /\ UNCHANGED <<token, standing>> /\ OnlyGoogle

(* Gmail forgets its history up to now.                                     *)
ForgetHistory ==
  /\ gmail.floor < HistoryId
  /\ gmail' = [gmail EXCEPT !.floor = HistoryId]
  /\ UNCHANGED <<token, standing>> /\ OnlyGoogle

RevokeGrants ==
  /\ gmail.grants # {}
  /\ gmail' = [gmail EXCEPT !.grants = {}]
  /\ standing' = FALSE
  /\ UNCHANGED token /\ OnlyGoogle

(* The access token reaches the last five minutes of its hour.              *)
TokenAges ==
  /\ token # NoToken /\ token.fresh
  /\ token' = [token EXCEPT !.fresh = FALSE]
  /\ UNCHANGED <<gmail, standing>> /\ OnlyGoogle

-----------------------------------------------------------------------------
Init ==
  /\ gmail = [arrived |-> 0, gone |-> {}, floor |-> 1, grants |-> {1}]
  /\ account = "active"
  /\ token = [row |-> 1, grant |-> 1, fresh |-> TRUE]
  /\ cursor = NoCursor /\ emails = {}
  /\ lock = [token |-> Nobody, cursor |-> Nobody]
  /\ ingest = [w \in Workers |-> AtRest]
  /\ request = [pc |-> "idle", count |-> 0, seen |-> "active"]
  /\ connect = [pc |-> "idle", grant |-> 1, seen |-> "active", row |-> 0]
  /\ failures = 0 /\ early = FALSE
  /\ standing = TRUE

Handle(w) ==
  \/ Begin(w) \/ LoadToken(w)
  \/ Refresh(w) \/ SaveToken(w) \/ InvalidGrant(w) \/ MarkReauthRequired(w)
  \/ ReadCursor(w) \/ InsertCursor(w) \/ ListNewIds(w) \/ ScanMailbox(w)
  \/ FetchAndDedup(w) \/ InsertEmails(w) \/ SaveCursor(w) \/ Commit(w)
  \/ Unauthorized(w)

Owner == LoadOwnedAccount \/ PurgeToken \/ PurgeCursor \/ PurgeEmails \/ RemoveAccount
Callback == Consent \/ SeeToken \/ StoreGrant
MailMoves == Arrive \/ ForgetHistory \/ \E m \in Messages : Leave(m)
Google == MailMoves \/ RevokeGrants \/ TokenAges

Next ==
  \/ \E w \in Workers : Handle(w) \/ Fail(w)
  \/ Owner \/ Callback \/ Google

Spec == Init /\ [][Next]_vars

Purge == PurgeToken \/ PurgeCursor \/ PurgeEmails

(* Runs keep sending ingest records; a worker goes on with its record, and  *)
(* a request with its transaction: every network call has a timeout.        *)
FairSpec ==
  /\ Spec /\ \A w \in Workers : WF_vars(Handle(w))
  /\ WF_vars(Purge) /\ WF_vars(SeeToken \/ StoreGrant)

-----------------------------------------------------------------------------
(* Properties                                                               *)

IngestSteps ==
  {"idle", "token", "refresh", "save_token", "reject", "cursor", "new_cursor", "list", "scan",
   "fetch", "insert", "save_cursor", "commit"}

(* The type of the state; a row lock is held by a transaction that is open. *)
TypeOK ==
  /\ gmail \in [arrived : 0 .. MaxMail, gone : SUBSET Messages, floor : 1 .. MaxMail + 1,
               grants : SUBSET Grants]
  /\ account \in {"active", "revoked", "removed"}
  /\ token \in [row : 0 .. MaxGrants, grant : 0 .. MaxGrants, fresh : BOOLEAN]
  /\ cursor \in 0 .. MaxMail + 1 /\ emails \subseteq Messages
  /\ lock \in [{"token", "cursor"} -> Workers \cup {"owner", Nobody}]
  /\ ingest \in
       [Workers -> [pc : IngestSteps, row : 0 .. MaxGrants, grant : 0 .. MaxGrants,
                    base : 0 .. MaxMail + 1, next : 0 .. MaxMail + 1,
                    ids : SUBSET Messages, mine : SUBSET Messages, touched : BOOLEAN]]
  /\ request \in [pc : {"idle", "tokens", "cursor", "emails"}, count : 0 .. MaxRequests,
                 seen : {"active", "revoked"}]
  /\ connect \in [pc : {"idle", "token", "write"}, grant : Grants, row : 0 .. MaxGrants,
                 seen : {"active", "revoked"}]
  /\ failures \in 0 .. MaxFailures /\ {early, standing} \subseteq BOOLEAN
  /\ \A w \in Workers : w \in {lock.token, lock.cursor} => ingest[w].pc # "idle"
  /\ "owner" \in {lock.token, lock.cursor} => request.pc # "idle"

(* The cursor never passes mail: a message below it is stored, or has left  *)
(* the unread inbox, however many records of the account run at once, and   *)
(* through disconnects and reconnects.  The exception is an account whose   *)
(* owner disconnected it before its first ingest was committed.             *)
NoMailSkipped ==
  cursor # NoCursor /\ ~ early => \A m \in 1 .. cursor - 1 : m \in emails \cup gmail.gone

(* Stored mail comes with a cursor: a disconnect that takes the cursor away *)
(* leaves no mail of an ingest that was under way behind.                   *)
MailComesWithCursor == emails # {} => cursor # NoCursor

(* Unread mail of a connected account is ingested in the end, also when     *)
(* Gmail has forgotten the history since the cursor (with the exception of  *)
(* NoMailSkipped).                                                          *)
MailIsIngested ==
  \A m \in Messages :
    (m <= gmail.arrived) ~>
      (m \in emails \cup gmail.gone \/ account # "active" \/ ~ GrantWorks(token.grant) \/ early)

(* "Removes Briefed's local OAuth grant and account-scoped cached data"     *)
(* (disconnect_account): what a disconnect has emptied stays empty until    *)
(* the owner connects again.                                                *)
DisconnectLeavesNothing ==
  account = "revoked" /\ token = NoToken => cursor = NoCursor /\ emails = {}

(* "A reconnect alone resumes scheduled ingest" (_mark_reauth_required): an *)
(* account whose owner connected it and has not disconnected it, with a     *)
(* grant that Google honours, is active.                                    *)
ReconnectResumes == standing => account = "active"

=============================================================================
