----------------------------- MODULE MailboxProofs -----------------------------
(***************************************************************************)
(* Theorems about one Gmail account for any number of ingest workers,       *)
(* messages, consents, disconnects and failures.                            *)
(***************************************************************************)
EXTENDS Mailbox, TLAPS

GmailState ==
  [arrived : 0 .. MaxMail, gone : SUBSET Messages, floor : 1 .. MaxMail + 1,
   grants : SUBSET Grants]
TokenState == [row : 0 .. MaxGrants, grant : 0 .. MaxGrants, fresh : BOOLEAN]
IngestState ==
  [pc : IngestSteps, row : 0 .. MaxGrants, grant : 0 .. MaxGrants,
   base : 0 .. MaxMail + 1, next : 0 .. MaxMail + 1,
   ids : SUBSET Messages, mine : SUBSET Messages, touched : BOOLEAN]
RequestState ==
  [pc : {"idle", "tokens", "cursor", "emails"}, count : 0 .. MaxRequests,
   seen : {"active", "revoked"}]
ConnectState ==
  [pc : {"idle", "token", "write"}, grant : Grants, row : 0 .. MaxGrants,
   seen : {"active", "revoked"}]
Holders == Workers \cup {"owner", Nobody}

-----------------------------------------------------------------------------
(* The inductive invariant.                                                 *)

(* Steps at which a worker relies on the cursor it read, and those at which *)
(* it has also read the mailbox's historyId.                                *)
Fetched == {"fetch", "insert", "save_cursor", "commit"}
Listing == {"scan"} \cup Fetched
Syncing == {"list"} \cup Listing

(* No cursor is ahead of the mailbox; a worker holds the ids it listed until *)
(* it fetches and mail from then on, and when it found nothing to fetch it   *)
(* writes nothing.                                                          *)
Watermarks ==
  /\ cursor <= HistoryId
  /\ \A w \in Workers :
       /\ ingest[w].base <= HistoryId /\ ingest[w].next <= HistoryId
       /\ At(w, "new_cursor") => ingest[w].base = NoCursor
       /\ ingest[w].pc \in Listing => ingest[w].next >= 1
       /\ ~ At(w, "fetch") => ingest[w].ids = {}
       /\ ingest[w].pc \notin {"insert", "save_cursor", "commit"} => ingest[w].mine = {}
       /\ ~ ingest[w].touched => ingest[w].mine = {}

(* A first run and a run about to move the cursor hold its row; so does a   *)
(* disconnect that is past it, unless it came before the first row.         *)
CursorLocks ==
  /\ \A w \in Workers :
       /\ ingest[w].pc \in Syncing /\ ingest[w].base = NoCursor => lock.cursor = w
       /\ At(w, "commit") /\ ingest[w].base # NoCursor /\ Dirty(w) =>
            lock.cursor = w /\ cursor # NoCursor
  /\ ~early /\ request.pc = "emails" => lock.cursor = "owner"

(* What a worker takes to be ingested: the messages below the cursor it     *)
(* read, and in the end those below the one it is going to write.           *)
Reach(w) == IF At(w, "list") THEN ingest[w].base ELSE ingest[w].next

Stored(w, m) == m \in emails \cup gmail.gone \cup ingest[w].ids \cup ingest[w].mine

(* A disconnect has emptied the mailbox since; then the cursor is gone, and *)
(* the next first run brings the message back.                              *)
Purged(w, m) ==
  /\ ingest[w].base # NoCursor /\ cursor = NoCursor
  /\ \A v \in Workers :
       ingest[v].base = NoCursor /\ ingest[v].pc \in Listing => m < ingest[v].next

ViewsHold ==
  ~early =>
    \A w \in Workers : ingest[w].pc \in {"list"} \cup Fetched =>
      \A m \in Messages : m < Reach(w) => Stored(w, m) \/ Purged(w, m)

SyncParts == Watermarks /\ CursorLocks /\ ViewsHold /\ NoMailSkipped /\ MailComesWithCursor

-----------------------------------------------------------------------------
(* Types                                                                    *)

LEMMA Bounds ==
  /\ MaxMail \in Nat /\ MaxMail >= 1 /\ MaxGrants \in Nat /\ MaxGrants >= 1
  /\ MaxRequests \in Nat /\ MaxFailures \in Nat
  /\ Nobody \notin Workers /\ Nobody # "owner" /\ "owner" \notin Workers
BY MailboxAssumption

TypedParts ==
  /\ gmail \in GmailState /\ account \in {"active", "revoked", "removed"}
  /\ token \in TokenState /\ cursor \in 0 .. MaxMail + 1 /\ emails \subseteq Messages
  /\ lock \in [{"token", "cursor"} -> Holders]
  /\ ingest \in [Workers -> IngestState]
  /\ request \in RequestState /\ connect \in ConnectState
  /\ failures \in 0 .. MaxFailures /\ early \in BOOLEAN /\ standing \in BOOLEAN

(* A row lock is held by a transaction that is open, and no worker has one  *)
(* before it has a token: that is what makes the end of a record without    *)
(* tokens, which frees nothing, safe.                                       *)
Unlocked == {"idle", "token", "refresh", "save_token", "reject"}
HolderWorks ==
  /\ \A w \in Workers : w \in {lock.token, lock.cursor} => ingest[w].pc \notin Unlocked
  /\ "owner" \in {lock.token, lock.cursor} => request.pc # "idle"

Typed == TypedParts /\ HolderWorks

LEMMA TypedIsTypeOK == Typed => TypeOK
BY DEF Typed, Unlocked, TypeOK, TypedParts, HolderWorks, GmailState, TokenState, Holders,
       IngestState, RequestState, ConnectState

LEMMA AtRestType == AtRest \in IngestState
BY Bounds DEF AtRest, IngestState, IngestSteps, NoGrant, NoCursor

(* The locks as a function of the two rows.                                 *)
LEMMA LockType ==
  /\ \A t, c \in Holders : [token |-> t, cursor |-> c] \in [{"token", "cursor"} -> Holders]
  /\ \A l \in [{"token", "cursor"} -> Holders] :
       /\ l.token \in Holders /\ l.cursor \in Holders
       /\ \A h \in Holders :
            /\ [l EXCEPT !.token = h] \in [{"token", "cursor"} -> Holders]
            /\ [l EXCEPT !.token = h].token = h /\ [l EXCEPT !.token = h].cursor = l.cursor
            /\ [l EXCEPT !.cursor = h] \in [{"token", "cursor"} -> Holders]
            /\ [l EXCEPT !.cursor = h].token = l.token /\ [l EXCEPT !.cursor = h].cursor = h
OBVIOUS

(* The end of a transaction frees its own locks and no other.               *)
LEMMA ReleasedType ==
  ASSUME TypedParts, NEW h \in Holders
  PROVE  /\ Released(h) \in [{"token", "cursor"} -> Holders]
         /\ Released(h).token = IF lock.token = h THEN Nobody ELSE lock.token
         /\ Released(h).cursor = IF lock.cursor = h THEN Nobody ELSE lock.cursor
<1>1. lock.token \in Holders /\ lock.cursor \in Holders /\ Nobody \in Holders
  BY LockType DEF TypedParts, Holders
<1> QED BY <1>1, LockType DEF Released

(* A worker's next step.                                                    *)
LEMMA GoesType ==
  ASSUME TypedParts, NEW w \in Workers, NEW pc \in IngestSteps
  PROVE  /\ Goes(w, pc) \in [Workers -> IngestState]
         /\ Goes(w, pc)[w] = [ingest[w] EXCEPT !.pc = pc]
         /\ Goes(w, pc)[w].pc = pc /\ Goes(w, pc)[w].base = ingest[w].base
         /\ Goes(w, pc)[w].next = ingest[w].next /\ Goes(w, pc)[w].ids = ingest[w].ids
         /\ Goes(w, pc)[w].mine = ingest[w].mine /\ Goes(w, pc)[w].touched = ingest[w].touched
         /\ \A v \in Workers \ {w} : Goes(w, pc)[v] = ingest[v]
<1>1. ingest[w] \in IngestState
  BY DEF TypedParts
<1>2. [ingest[w] EXCEPT !.pc = pc] \in IngestState
  BY <1>1 DEF IngestState
<1>3. Goes(w, pc) = [ingest EXCEPT ![w] = [ingest[w] EXCEPT !.pc = pc]]
  BY DEF Goes
<1>4. Goes(w, pc)[w] = [ingest[w] EXCEPT !.pc = pc]
  BY <1>3 DEF TypedParts
<1> QED BY <1>1, <1>2, <1>3, <1>4 DEF TypedParts, IngestState

(* A listing: the ids and the watermark.                                    *)
LEMMA ListedType ==
  ASSUME TypedParts, NEW w \in Workers, NEW pc \in IngestSteps, NEW ids \in SUBSET Messages,
         Listed(w, ids, pc)
  PROVE  \E x \in IngestState :
            /\ ingest' = [ingest EXCEPT ![w] = x]
            /\ x.pc = pc /\ x.base = ingest[w].base /\ x.next = HistoryId
            /\ x.ids = ids /\ x.mine = ingest[w].mine /\ x.touched = ingest[w].touched
<1> DEFINE x == [ingest[w] EXCEPT !.pc = pc, !.ids = ids, !.next = HistoryId]
<1>1. ingest[w] \in IngestState /\ HistoryId \in 0 .. MaxMail + 1
  BY Bounds DEF TypedParts, GmailState, HistoryId
<1>2. ingest' = [ingest EXCEPT ![w] = x]
  BY DEF Listed, TypedParts
<1>3. /\ x \in IngestState
      /\ x.pc = pc /\ x.base = ingest[w].base /\ x.next = HistoryId
      /\ x.ids = ids /\ x.mine = ingest[w].mine /\ x.touched = ingest[w].touched
  BY <1>1 DEF IngestState
<1> HIDE DEF x
<1> QED BY <1>2, <1>3

(* A fetch: what came turns into new mail of the worker.                    *)
LEMMA FetchedType ==
  ASSUME TypedParts, NEW w \in Workers, FetchAndDedup(w)
  PROVE  \E x \in IngestState :
            /\ ingest' = [ingest EXCEPT ![w] = x]
            /\ x.pc = "insert" /\ x.base = ingest[w].base /\ x.next = ingest[w].next
            /\ x.ids = {} /\ (~ x.touched => x.mine = {})
            /\ ingest[w].ids \subseteq gmail.gone \cup emails \cup x.mine
<1>1. PICK left \in SUBSET (ingest[w].ids \cap gmail.gone), fetched \in SUBSET ingest[w].ids :
        /\ fetched = ingest[w].ids \ left
        /\ ingest' = [ingest EXCEPT ![w].pc = "insert", ![w].touched = fetched # {},
                                   ![w].mine = fetched \ emails, ![w].ids = {}]
  BY Zenon DEF FetchAndDedup
<1>f. fetched = ingest[w].ids \ left
  BY <1>1, Zenon
<1> DEFINE some == fetched # {}
           x == [ingest[w] EXCEPT !.pc = "insert", !.touched = some,
                                  !.mine = fetched \ emails, !.ids = {}]
<1>2. /\ ingest[w] \in IngestState /\ fetched \ emails \in SUBSET Messages /\ "insert" \in IngestSteps
      /\ some \in BOOLEAN /\ (~ some => fetched = {})
  BY <1>f DEF TypedParts, IngestState, IngestSteps
<1>3. ingest[w].ids \subseteq gmail.gone \cup emails \cup (fetched \ emails)
  BY <1>f
<1>4. ingest' = [ingest EXCEPT ![w].pc = "insert", ![w].touched = some,
                               ![w].mine = fetched \ emails, ![w].ids = {}]
  BY <1>1, Zenon
<1> HIDE DEF some
<1>5. ingest' = [ingest EXCEPT ![w] = x]
  BY <1>4 DEF TypedParts
<1>6. /\ x \in IngestState /\ x.pc = "insert" /\ x.base = ingest[w].base /\ x.next = ingest[w].next
      /\ x.ids = {} /\ x.mine = fetched \ emails /\ x.touched = some
  BY <1>2 DEF IngestState
<1> HIDE DEF x
<1> QED BY <1>2, <1>3, <1>5, <1>6

LEMMA RollbackType ==
  ASSUME TypedParts, HolderWorks, NEW w \in Workers, Rollback(w)
  PROVE  /\ lock' \in [{"token", "cursor"} -> Holders]
         /\ lock'.token = (IF lock.token = w THEN Nobody ELSE lock.token)
         /\ lock'.cursor = (IF lock.cursor = w THEN Nobody ELSE lock.cursor)
         /\ ingest' \in [Workers -> IngestState] /\ ingest'[w] = AtRest
         /\ \A v \in Workers \ {w} : ingest'[v] = ingest[v]
         /\ request' = request => HolderWorks'
<1>1. w \in Holders
  BY DEF Holders
<1>2. /\ lock' \in [{"token", "cursor"} -> Holders]
      /\ lock'.token = (IF lock.token = w THEN Nobody ELSE lock.token)
      /\ lock'.cursor = (IF lock.cursor = w THEN Nobody ELSE lock.cursor)
  BY <1>1, ReleasedType DEF Rollback
<1>3. /\ ingest' \in [Workers -> IngestState] /\ ingest'[w] = AtRest
      /\ \A v \in Workers \ {w} : ingest'[v] = ingest[v]
  BY AtRestType DEF Rollback, TypedParts
<1>4. ASSUME request' = request PROVE HolderWorks'
  BY <1>2, <1>3, <1>4, Bounds DEF HolderWorks
<1> QED BY <1>2, <1>3, <1>4

LEMMA TypedInit == Init => Typed
<1> SUFFICES ASSUME Init PROVE TypedParts /\ HolderWorks
  BY DEF Typed
<1> USE Bounds
<1>1. gmail \in GmailState
  <2>1. {1} \in SUBSET Grants /\ 0 \in 0 .. MaxMail /\ 1 \in 1 .. MaxMail + 1
    BY DEF Grants
  <2> QED BY <2>1 DEF Init, GmailState
<1>2. token \in TokenState /\ request \in RequestState /\ connect \in ConnectState
  <2>1. 1 \in 0 .. MaxGrants /\ 0 \in 0 .. MaxGrants /\ 1 \in Grants /\ 0 \in 0 .. MaxRequests
    BY DEF Grants
  <2> QED BY <2>1 DEF Init, TokenState, RequestState, ConnectState
<1>3. lock \in [{"token", "cursor"} -> Holders]
  BY LockType DEF Init, Holders
<1>4. TypedParts
  <2>1. ingest \in [Workers -> IngestState] /\ emails \subseteq Messages
    BY AtRestType DEF Init
  <2>2. cursor \in 0 .. MaxMail + 1 /\ failures \in 0 .. MaxFailures
    BY DEF Init, NoCursor
  <2>3. account \in {"active", "revoked", "removed"} /\ early \in BOOLEAN /\ standing \in BOOLEAN
    BY DEF Init
  <2> QED BY <1>1, <1>2, <1>3, <2>1, <2>2, <2>3 DEF TypedParts
<1>5. lock.token = Nobody /\ lock.cursor = Nobody
  BY DEF Init
<1> QED BY <1>4, <1>5 DEF HolderWorks

(* A step that changes one worker's record and is not the end of it.        *)
LEMMA RecordStep ==
  ASSUME Typed, NEW w \in Workers, NEW x \in IngestState,
         w \in {lock.token, lock.cursor} => x.pc \notin Unlocked,
         ingest' = [ingest EXCEPT ![w] = x], UNCHANGED lock, OnlyTransaction
  PROVE  Typed'
<1>1. ingest' \in [Workers -> IngestState] /\ ingest'[w] = x
  BY DEF Typed, TypedParts
<1>2. \A v \in Workers \ {w} : ingest'[v] = ingest[v]
  BY DEF Typed, TypedParts
<1> QED BY <1>1, <1>2 DEF OnlyTransaction, Typed, TypedParts, HolderWorks

LEMMA GoesStep ==
  ASSUME Typed, NEW w \in Workers, NEW pc \in IngestSteps,
         w \in {lock.token, lock.cursor} => pc \notin Unlocked,
         ingest' = Goes(w, pc), UNCHANGED lock, OnlyTransaction
  PROVE  Typed'
<1> DEFINE x == [ingest[w] EXCEPT !.pc = pc]
<1>1. x \in IngestState /\ x.pc = pc
  BY DEF Typed, TypedParts, IngestState
<1>2. ingest' = [ingest EXCEPT ![w] = x]
  BY DEF Goes
<1> HIDE DEF x
<1> QED BY <1>1, <1>2, RecordStep

LEMMA RollbackStep ==
  ASSUME Typed, NEW w \in Workers, Rollback(w), OnlyTransaction
  PROVE  Typed'
BY RollbackType DEF OnlyTransaction, Typed, TypedParts

(* A lock that was free, taken with the worker's next step.                 *)
LEMMA LockStep ==
  ASSUME Typed, NEW w \in Workers, NEW pc \in IngestSteps \ Unlocked,
         \/ lock.token = Nobody /\ lock' = [lock EXCEPT !.token = w]
         \/ lock.cursor = Nobody /\ lock' = [lock EXCEPT !.cursor = w],
         ingest' = Goes(w, pc), OnlyTransaction
  PROVE  Typed'
<1>1. w \in Holders /\ lock \in [{"token", "cursor"} -> Holders]
  BY DEF Holders, Typed, TypedParts
<1>2. /\ lock' \in [{"token", "cursor"} -> Holders]
      /\ lock'.token \in {w, lock.token} /\ lock'.cursor \in {w, lock.cursor}
  <2>1. CASE lock' = [lock EXCEPT !.token = w]
    BY <1>1, <2>1, LockType
  <2>2. CASE lock' = [lock EXCEPT !.cursor = w]
    BY <1>1, <2>2, LockType
  <2> QED BY <2>1, <2>2
<1>3. /\ ingest' \in [Workers -> IngestState] /\ ingest'[w].pc = pc
      /\ \A v \in Workers \ {w} : ingest'[v] = ingest[v]
  <2>1. TypedParts /\ pc \in IngestSteps /\ ingest' = Goes(w, pc)
    BY DEF Typed
  <2>2. /\ Goes(w, pc) \in [Workers -> IngestState] /\ Goes(w, pc)[w].pc = pc
        /\ \A v \in Workers \ {w} : Goes(w, pc)[v] = ingest[v]
    BY <2>1, GoesType
  <2> QED BY <2>1, <2>2
<1>4. w # "owner"
  BY Bounds
<1> QED BY <1>2, <1>3, <1>4 DEF OnlyTransaction, Typed, TypedParts, HolderWorks

LEMMA IngestOnly == OnlyIngest => OnlyTransaction /\ UNCHANGED lock
BY DEF OnlyIngest, OnlyTransaction

LEMMA HandleTyped ==
  ASSUME Typed, NEW w \in Workers, Handle(w) \/ Fail(w)
  PROVE  Typed'
<1> USE Bounds
<1>0. TypedParts /\ HolderWorks /\ ingest[w] \in IngestState
  BY DEF Typed, TypedParts
<1>s. \A pc \in {"token", "refresh", "save_token", "reject", "cursor", "new_cursor", "list", "scan",
                 "fetch", "insert", "save_cursor", "commit"} : pc \in IngestSteps
  BY DEF IngestSteps
<1>h. HistoryId \in 1 .. MaxMail + 1
  BY <1>0 DEF TypedParts, GmailState, HistoryId
<1>u. ingest[w].pc \in Unlocked => w \notin {lock.token, lock.cursor}
  BY <1>0 DEF HolderWorks
<1>1. CASE Begin(w)
  BY <1>1, <1>s, <1>u, GoesStep, IngestOnly DEF Begin, At, Unlocked
<1>2. CASE LoadToken(w)
  <2> DEFINE x == IF token = NoToken THEN AtRest
                  ELSE [ingest[w] EXCEPT !.pc = IF token.fresh THEN "cursor" ELSE "refresh",
                                         !.row = token.row, !.grant = token.grant]
  <2>1. x \in IngestState
    <3>1. token.row \in 0 .. MaxGrants /\ token.grant \in 0 .. MaxGrants
      BY <1>0 DEF TypedParts, TokenState
    <3> QED BY <1>0, <1>s, <3>1, AtRestType DEF IngestState
  <2>2. ingest' = [ingest EXCEPT ![w] = x]
    BY <1>0, <1>2 DEF LoadToken, TypedParts
  <2>3. w \notin {lock.token, lock.cursor}
    BY <1>2, <1>u DEF LoadToken, At, Unlocked
  <2> HIDE DEF x
  <2> QED BY <1>2, <2>1, <2>2, <2>3, RecordStep, IngestOnly DEF LoadToken
<1>3. CASE Refresh(w)
  BY <1>3, <1>s, <1>u, GoesStep, IngestOnly DEF Refresh, At, Unlocked
<1>4. CASE SaveToken(w)
  BY <1>4, <1>s, LockStep, RollbackStep DEF SaveToken, Unlocked
<1>5. CASE InvalidGrant(w)
  BY <1>5, <1>s, <1>u, GoesStep, IngestOnly DEF InvalidGrant, At, Unlocked
<1>6. CASE MarkReauthRequired(w)
  <2>1. w \notin {lock.token, lock.cursor}
    BY <1>6, <1>u DEF MarkReauthRequired, At, Unlocked
  <2>2. /\ ingest' \in [Workers -> IngestState]
        /\ \A v \in Workers \ {w} : ingest'[v] = ingest[v]
    BY <1>0, <1>6, AtRestType DEF MarkReauthRequired, TypedParts
  <2> QED BY <1>0, <1>6, <2>1, <2>2 DEF MarkReauthRequired, Typed, TypedParts, HolderWorks
<1>7. CASE ReadCursor(w)
  <2> DEFINE x == [ingest[w] EXCEPT !.pc = IF cursor = NoCursor THEN "new_cursor" ELSE "list",
                                    !.base = cursor]
  <2>1. x \in IngestState /\ x.pc \in {"new_cursor", "list"}
    BY <1>0, <1>s DEF TypedParts, IngestState
  <2>2. ingest' = [ingest EXCEPT ![w] = x]
    BY <1>0, <1>7 DEF ReadCursor, TypedParts
  <2> HIDE DEF x
  <2> QED BY <1>7, <2>1, <2>2, RecordStep, IngestOnly DEF ReadCursor, Unlocked
<1>8. CASE InsertCursor(w)
  BY <1>8, <1>s, LockStep, RollbackStep DEF InsertCursor, Unlocked
<1>9. CASE ListNewIds(w)
  <2>1. PICK ids \in SUBSET Messages, pc \in {"scan", "fetch"} : Listed(w, ids, pc)
    <3>1. Listed(w, {}, "scan")
          \/ (ingest[w].base # NoCursor /\
              Listed(w, (ingest[w].base .. gmail.arrived) \ gmail.gone, "fetch"))
      BY <1>9 DEF ListNewIds
    <3>2. ingest[w].base # NoCursor =>
            (ingest[w].base .. gmail.arrived) \ gmail.gone \in SUBSET Messages
      BY <1>0 DEF TypedParts, GmailState, IngestState, Messages, NoCursor
    <3> QED BY <3>1, <3>2
  <2>2. pc \in IngestSteps /\ pc \notin Unlocked
    BY <1>s DEF Unlocked
  <2>3. PICK x \in IngestState : ingest' = [ingest EXCEPT ![w] = x] /\ x.pc = pc
    BY <1>0, <2>1, <2>2, ListedType
  <2> QED BY <1>9, <2>2, <2>3, RecordStep DEF ListNewIds
<1>10. CASE ScanMailbox(w)
  <2> DEFINE x == [ingest[w] EXCEPT !.pc = "fetch", !.ids = (1 .. gmail.arrived) \ gmail.gone]
  <2>1. (1 .. gmail.arrived) \ gmail.gone \in SUBSET Messages
    BY <1>0 DEF TypedParts, GmailState, Messages
  <2>2. x \in IngestState /\ x.pc \notin Unlocked
    BY <1>0, <1>s, <2>1 DEF IngestState, Unlocked
  <2>3. ingest' = [ingest EXCEPT ![w] = x]
    BY <1>0, <1>10 DEF ScanMailbox, TypedParts
  <2> HIDE DEF x
  <2> QED BY <1>10, <2>2, <2>3, RecordStep, IngestOnly DEF ScanMailbox
<1>11. CASE FetchAndDedup(w)
  <2>1. PICK x \in IngestState : ingest' = [ingest EXCEPT ![w] = x] /\ x.pc = "insert"
    BY <1>0, <1>11, FetchedType
  <2>2. OnlyIngest
    BY <1>11, Zenon DEF FetchAndDedup
  <2> QED BY <2>1, <2>2, RecordStep, IngestOnly DEF Unlocked
<1>12. CASE InsertEmails(w)
  BY <1>12, <1>s, GoesStep, RollbackStep DEF InsertEmails, Unlocked
<1>13. CASE SaveCursor(w)
  BY <1>13, <1>s, GoesStep, LockStep, RollbackStep DEF SaveCursor, Unlocked
<1>14. CASE Commit(w)
  <2>1. cursor' \in 0 .. MaxMail + 1 /\ emails' \subseteq Messages
    BY <1>0, <1>14 DEF Commit, TypedParts, IngestState
  <2>2. token' \in TokenState
    BY <1>0, <1>14 DEF Commit, TypedParts, TokenState
  <2>3. Rollback(w) /\ UNCHANGED request
    BY <1>14 DEF Commit
  <2>4. lock' \in [{"token", "cursor"} -> Holders] /\ ingest' \in [Workers -> IngestState] /\ HolderWorks'
    BY <1>0, <2>3, RollbackType
  <2> QED BY <1>0, <1>14, <2>1, <2>2, <2>4 DEF Commit, Typed, TypedParts
<1>15. CASE Unauthorized(w)
  BY <1>15, RollbackStep DEF Unauthorized
<1>16. CASE Fail(w)
  <2>1. Rollback(w) /\ UNCHANGED request /\ failures' \in 0 .. MaxFailures
    BY <1>0, <1>16 DEF Fail, TypedParts
  <2>2. lock' \in [{"token", "cursor"} -> Holders] /\ ingest' \in [Workers -> IngestState] /\ HolderWorks'
    BY <1>0, <2>1, RollbackType
  <2> QED BY <1>0, <1>16, <2>1, <2>2 DEF Fail, Typed, TypedParts
<1> QED BY <1>1, <1>2, <1>3, <1>4, <1>5, <1>6, <1>7, <1>8, <1>9, <1>10, <1>11, <1>12, <1>13,
           <1>14, <1>15, <1>16 DEF Handle

(* The owner, the callback and Google leave the workers' records alone.     *)
LEMMA OwnerTyped == Typed /\ Owner => Typed'
<1> SUFFICES ASSUME Typed, Owner PROVE Typed'
  OBVIOUS
<1> USE Bounds
<1>0. TypedParts /\ HolderWorks
  BY DEF Typed
<1>l. /\ lock.token \in Holders /\ lock.cursor \in Holders
      /\ Nobody \in Holders /\ "owner" \in Holders
  BY <1>0, LockType DEF TypedParts, Holders
<1>r. \A pc \in {"idle", "tokens", "cursor", "emails"} : [request EXCEPT !.pc = pc] \in RequestState
  BY <1>0 DEF TypedParts, RequestState
<1>1. CASE LoadOwnedAccount
  <2>1. request.count + 1 \in 0 .. MaxRequests /\ account \in {"active", "revoked"}
    BY <1>0, <1>1 DEF LoadOwnedAccount, TypedParts, RequestState
  <2>2. request' \in RequestState /\ request'.pc # "idle"
    BY <1>1, <2>1 DEF LoadOwnedAccount, RequestState
  <2> QED BY <1>0, <1>1, <2>2 DEF LoadOwnedAccount, OnlyRequest, Typed, TypedParts, HolderWorks
<1>2. CASE PurgeToken
  <2>1. request' \in RequestState /\ request'.pc = "cursor"
    BY <1>0, <1>2, <1>r DEF PurgeToken, ToStep, TypedParts, RequestState
  <2>2. /\ lock' \in [{"token", "cursor"} -> Holders]
        /\ lock'.token \in {lock.token, "owner"} /\ lock'.cursor = lock.cursor
    <3>1. CASE lock' = lock
      BY <1>0, <3>1 DEF TypedParts
    <3>2. CASE lock' = [lock EXCEPT !.token = "owner"]
      BY <1>0, <1>l, <3>2, LockType DEF TypedParts
    <3> QED BY <1>2, <3>1, <3>2 DEF PurgeToken
  <2> QED BY <1>0, <1>2, <2>1, <2>2 DEF PurgeToken, OnlyRequest, Typed, TypedParts, HolderWorks
<1>3. CASE PurgeCursor
  <2>1. request' \in RequestState /\ request'.pc = "emails"
    BY <1>0, <1>3, <1>r DEF PurgeCursor, ToStep, TypedParts, RequestState
  <2>2. /\ lock' \in [{"token", "cursor"} -> Holders]
        /\ lock'.token = lock.token /\ lock'.cursor \in {lock.cursor, "owner"}
    <3>1. CASE lock' = lock
      BY <1>0, <3>1 DEF TypedParts
    <3>2. CASE lock' = [lock EXCEPT !.cursor = "owner"]
      BY <1>0, <1>l, <3>2, LockType DEF TypedParts
    <3> QED BY <1>3, <3>1, <3>2 DEF PurgeCursor
  <2>3. early' \in BOOLEAN
    BY <1>3, Zenon DEF PurgeCursor
  <2> QED BY <1>0, <1>3, <2>1, <2>2, <2>3 DEF PurgeCursor, OnlyRequest, Typed, TypedParts, HolderWorks
<1>4. CASE PurgeEmails
  <2>1. request' \in RequestState
    BY <1>4, <1>r DEF PurgeEmails, ToStep
  <2>2. /\ lock' \in [{"token", "cursor"} -> Holders]
        /\ lock'.token # "owner" /\ lock'.cursor # "owner"
        /\ lock'.token \in {lock.token, Nobody} /\ lock'.cursor \in {lock.cursor, Nobody}
    BY <1>0, <1>l, <1>4, ReleasedType DEF PurgeEmails
  <2>3. token' \in TokenState /\ cursor' \in 0 .. MaxMail + 1
    <3>1. NoToken \in TokenState /\ NoCursor \in 0 .. MaxMail + 1
      BY DEF NoToken, NoGrant, TokenState, NoCursor
    <3>2. token' = NoToken \/ token' = token
      BY <1>4 DEF PurgeEmails, Gone
    <3>3. cursor' = NoCursor \/ cursor' = cursor
      BY <1>4 DEF PurgeEmails, Gone
    <3> QED BY <1>0, <3>1, <3>2, <3>3 DEF TypedParts
  <2>4. account' \in {"active", "revoked", "removed"} /\ emails' \subseteq Messages /\ standing' \in BOOLEAN
    BY <1>0, <1>4 DEF PurgeEmails, TypedParts
  <2> QED BY <1>0, <1>4, <2>1, <2>2, <2>3, <2>4 DEF PurgeEmails, Typed, TypedParts, HolderWorks
<1>5. CASE RemoveAccount
  <2>1. request' \in RequestState /\ request'.pc = request.pc
    <3>1. request.count + 1 \in 0 .. MaxRequests
      BY <1>0, <1>5 DEF RemoveAccount, TypedParts, RequestState
    <3> QED BY <1>0, <1>5, <3>1 DEF RemoveAccount, TypedParts, RequestState
  <2>2. NoToken \in TokenState /\ NoCursor \in 0 .. MaxMail + 1
    BY DEF NoToken, NoGrant, TokenState, NoCursor
  <2> QED BY <1>0, <1>5, <2>1, <2>2 DEF RemoveAccount, Typed, TypedParts, HolderWorks
<1> QED BY <1>1, <1>2, <1>3, <1>4, <1>5 DEF Owner

LEMMA MemberIsBoolean == \A x, S : (x \in S) \in BOOLEAN
OBVIOUS

LEMMA CallbackTyped == Typed /\ Callback => Typed'
<1> SUFFICES ASSUME Typed, Callback PROVE Typed'
  OBVIOUS
<1> USE Bounds
<1>0. TypedParts /\ HolderWorks
  BY DEF Typed
<1>1. CASE Consent
  <2>1. connect.grant + 1 \in Grants /\ account \in {"active", "revoked"}
    BY <1>0, <1>1 DEF Consent, TypedParts, ConnectState, Grants
  <2>2. connect' \in ConnectState
    BY <1>0, <1>1, <2>1 DEF Consent, TypedParts, ConnectState
  <2>3. gmail' \in GmailState
    BY <1>0, <1>1, <2>1 DEF Consent, TypedParts, GmailState
  <2> QED BY <1>0, <1>1, <2>2, <2>3 DEF Consent, Typed, TypedParts, HolderWorks
<1>2. CASE SeeToken
  <2>1. connect' \in ConnectState
    BY <1>0, <1>2 DEF SeeToken, TypedParts, ConnectState, TokenState
  <2> QED BY <1>0, <1>2, <2>1 DEF SeeToken, OnlyConnect, Typed, TypedParts, HolderWorks
<1>3. CASE StoreGrant
  <2>1. connect' \in ConnectState
    <3>1. connect' = [connect EXCEPT !.pc = "idle", !.row = 0] /\ 0 \in 0 .. MaxGrants
      BY <1>3 DEF StoreGrant
    <3> QED BY <1>0, <3>1 DEF TypedParts, ConnectState
  <2>2. CASE UNCHANGED <<account, token, standing>>
    BY <1>0, <1>3, <2>1, <2>2 DEF StoreGrant, Typed, TypedParts, HolderWorks
  <2>3. CASE /\ token' = [row |-> IF connect.row = 0 THEN connect.grant ELSE connect.row,
                          grant |-> connect.grant, fresh |-> TRUE]
             /\ account' = (IF connect.seen = "active" THEN account ELSE "active")
             /\ standing' = GrantWorks(connect.grant)
    <3>1. connect.grant \in 0 .. MaxGrants /\ connect.row \in 0 .. MaxGrants
      BY <1>0 DEF TypedParts, ConnectState, Grants
    <3>2. (IF connect.row = 0 THEN connect.grant ELSE connect.row) \in 0 .. MaxGrants
      BY <3>1
    <3>3. token' \in TokenState
      BY <2>3, <3>1, <3>2 DEF TokenState
    <3>4. account' \in {"active", "revoked", "removed"}
      BY <1>0, <2>3 DEF TypedParts
    <3>5. standing' \in BOOLEAN
      BY <2>3, MemberIsBoolean, Zenon DEF GrantWorks
    <3> QED BY <1>0, <1>3, <2>1, <3>3, <3>4, <3>5 DEF StoreGrant, Typed, TypedParts, HolderWorks
  <2> QED BY <1>3, <2>2, <2>3, Zenon DEF StoreGrant
<1> QED BY <1>1, <1>2, <1>3 DEF Callback

LEMMA GoogleTyped == Typed /\ Google => Typed'
<1> SUFFICES ASSUME Typed, Google PROVE Typed'
  OBVIOUS
<1> USE Bounds
<1>0. TypedParts /\ HolderWorks
  BY DEF Typed
<1>g. \A g \in GmailState : g.arrived \in 0 .. MaxMail
  BY DEF GmailState
<1>1. CASE Arrive \/ ForgetHistory
  <2>1. gmail' \in GmailState
    BY <1>0, <1>1 DEF Arrive, ForgetHistory, HistoryId, TypedParts, GmailState
  <2> QED BY <1>0, <1>1, <2>1 DEF Arrive, ForgetHistory, OnlyGoogle, Typed, TypedParts, HolderWorks
<1>2. ASSUME NEW m \in Messages, Leave(m) PROVE Typed'
  <2>1. gmail' \in GmailState
    BY <1>0, <1>2 DEF Leave, TypedParts, GmailState
  <2> QED BY <1>0, <1>2, <2>1 DEF Leave, OnlyGoogle, Typed, TypedParts, HolderWorks
<1>3. CASE RevokeGrants
  <2>1. gmail' \in GmailState
    BY <1>0, <1>3 DEF RevokeGrants, TypedParts, GmailState
  <2> QED BY <1>0, <1>3, <2>1 DEF RevokeGrants, OnlyGoogle, Typed, TypedParts, HolderWorks
<1>4. CASE TokenAges
  <2>1. token' \in TokenState
    BY <1>0, <1>4 DEF TokenAges, TypedParts, TokenState
  <2> QED BY <1>0, <1>4, <2>1 DEF TokenAges, OnlyGoogle, Typed, TypedParts, HolderWorks
<1> QED BY <1>1, <1>2, <1>3, <1>4 DEF Google, MailMoves

LEMMA TypedStep == Typed /\ [Next]_vars => Typed'
<1>1. Typed /\ UNCHANGED vars => Typed'
  BY DEF vars, Typed, TypedParts, HolderWorks
<1> QED BY <1>1, HandleTyped, OwnerTyped, CallbackTyped, GoogleTyped DEF Next

LEMMA TypedAlways == Spec => []Typed
BY TypedInit, TypedStep, PTL DEF Spec

(* The rows, the workers' records and the owner's requests are well typed,  *)
(* and a row lock is held only by a transaction that is open.               *)
THEOREM TypeCorrect == Spec => []TypeOK
BY TypedAlways, TypedIsTypeOK, PTL

-----------------------------------------------------------------------------
(* The cursor and the mail                                                  *)

LEMMA SyncInit == Init => SyncParts
<1> SUFFICES ASSUME Init PROVE SyncParts
  OBVIOUS
<1>1. Watermarks
  BY DEF Init, Watermarks, HistoryId, NoCursor, At, AtRest, Listing, Fetched
<1>2. CursorLocks /\ ViewsHold
  BY DEF Init, CursorLocks, ViewsHold, At, AtRest, Syncing, Listing, Fetched
<1>3. NoMailSkipped /\ MailComesWithCursor
  BY DEF Init, NoMailSkipped, MailComesWithCursor
<1> QED BY <1>1, <1>2, <1>3 DEF SyncParts

(* The end of a transaction that writes nothing.                            *)
LEMMA RollbackSync ==
  ASSUME Typed, SyncParts, NEW w \in Workers, Rollback(w),
         UNCHANGED <<gmail, cursor, emails, request, early>>
  PROVE  SyncParts'
<1> USE Bounds
<1>1. /\ ingest'[w] = AtRest /\ \A v \in Workers \ {w} : ingest'[v] = ingest[v]
      /\ lock'.cursor = (IF lock.cursor = w THEN Nobody ELSE lock.cursor)
  BY RollbackType DEF Typed
<1>2. /\ AtRest.pc = "idle" /\ AtRest.base = 0 /\ AtRest.next = 0 /\ AtRest.ids = {}
      /\ AtRest.mine = {} /\ ~ AtRest.touched
  BY DEF AtRest, NoCursor
<1>3. Watermarks'
  BY <1>1, <1>2 DEF SyncParts, Watermarks, HistoryId, NoCursor, At, Listing, Fetched, Typed,
                    TypedParts, GmailState
<1>4. CursorLocks'
  BY <1>1, <1>2 DEF SyncParts, CursorLocks, At, Dirty, Syncing, Listing, Fetched
<1>5. ViewsHold'
  BY <1>1, <1>2 DEF SyncParts, ViewsHold, Reach, Stored, Purged, At, Listing, Fetched
<1>6. NoMailSkipped' /\ MailComesWithCursor'
  BY DEF SyncParts, NoMailSkipped, MailComesWithCursor
<1> QED BY <1>3, <1>4, <1>5, <1>6 DEF SyncParts

(* A step of w that keeps the cursor and its lock: its effect on all but w  *)
(* is none, but where w starts a listing that others' mail depends on.      *)
LEMMA WorkerSync ==
  ASSUME Typed, SyncParts, NEW w \in Workers, NEW x \in IngestState,
         ingest' = [ingest EXCEPT ![w] = x],
         UNCHANGED <<gmail, cursor, emails, request, early>>,
         lock'.cursor = lock.cursor \/ (lock.cursor = Nobody /\ lock'.cursor = w),
         x.base <= HistoryId, x.next <= HistoryId,
         x.pc = "new_cursor" => x.base = NoCursor,
         x.pc \in Listing => x.next >= 1,
         x.pc # "fetch" => x.ids = {},
         x.pc \notin {"insert", "save_cursor", "commit"} => x.mine = {},
         ~ x.touched => x.mine = {},
         x.pc \in Syncing /\ x.base = NoCursor => lock'.cursor = w,
         x.pc = "commit" /\ x.base # NoCursor /\ (x.touched \/ x.next # x.base) =>
           lock'.cursor = w /\ cursor # NoCursor,
         x.base = NoCursor /\ x.pc \in Listing =>
           x.next = HistoryId \/ (ingest[w].base = NoCursor /\ ingest[w].pc \in Listing
                                   /\ ingest[w].next = x.next),
         ~ early /\ x.pc \in {"list"} \cup Fetched =>
           \A m \in Messages :
             m < (IF x.pc = "list" THEN x.base ELSE x.next) =>
               \/ m \in emails \cup gmail.gone \cup x.ids \cup x.mine
               \/ /\ x.base # NoCursor /\ cursor = NoCursor
                  /\ \A v \in Workers \ {w} :
                       ingest[v].base = NoCursor /\ ingest[v].pc \in Listing => m < ingest[v].next
  PROVE  SyncParts'
<1> USE Bounds
<1>1. ingest'[w] = x /\ \A v \in Workers \ {w} : ingest'[v] = ingest[v]
  BY DEF Typed, TypedParts
<1>2. HistoryId \in Nat /\ \A v \in Workers : ingest[v] \in IngestState
  BY DEF Typed, TypedParts, GmailState, HistoryId
<1>3. Watermarks'
  BY <1>1 DEF SyncParts, Watermarks, HistoryId, At
<1>4. CursorLocks'
  BY <1>1 DEF SyncParts, CursorLocks, At, Dirty
<1>5. ASSUME ~ early, NEW v \in Workers, ingest'[v].pc \in {"list"} \cup Fetched,
             NEW m \in Messages, m < Reach(v)'
      PROVE  Stored(v, m)' \/ Purged(v, m)'
  <2>1. CASE v = w
    BY <1>1, <1>5, <2>1 DEF Reach, Stored, Purged, At
  <2>2. CASE v # w
    <3>1. Reach(v)' = Reach(v) /\ ingest[v].pc \in {"list"} \cup Fetched
      BY <1>1, <1>5, <2>2 DEF Reach, At
    <3>2. Stored(v, m) \/ Purged(v, m)
      BY <1>5, <3>1 DEF SyncParts, ViewsHold
    <3>3. m < HistoryId
      BY <1>2, <1>5, <3>1 DEF SyncParts, Watermarks, Reach, IngestState, Messages
    <3>4. CASE Stored(v, m)
      BY <1>1, <2>2, <3>4 DEF Stored
    <3>5. CASE Purged(v, m)
      BY <1>1, <2>2, <3>3, <3>5 DEF Purged
    <3> QED BY <3>2, <3>4, <3>5
  <2> QED BY <2>1, <2>2
<1>6. ViewsHold'
  BY <1>5 DEF ViewsHold
<1>7. NoMailSkipped' /\ MailComesWithCursor'
  BY DEF SyncParts, NoMailSkipped, MailComesWithCursor
<1> QED BY <1>3, <1>4, <1>6, <1>7 DEF SyncParts

(* Mail arrives and leaves; nothing the workers hold changes.               *)
LEMMA MailboxSync ==
  ASSUME Typed, SyncParts, UNCHANGED <<cursor, emails, ingest, early>>,
         lock'.cursor = lock.cursor,
         request'.pc = "emails" => request.pc = "emails",
         gmail'.arrived \in Nat, gmail'.arrived >= gmail.arrived, gmail.gone \subseteq gmail'.gone
  PROVE  SyncParts'
<1>1. HistoryId \in Nat /\ HistoryId' \in Nat /\ HistoryId <= HistoryId'
  BY DEF Typed, TypedParts, GmailState, HistoryId
<1>2. /\ \A w \in Workers : ingest[w].base \in Nat /\ ingest[w].next \in Nat
      /\ cursor \in Nat
  BY Bounds DEF Typed, TypedParts, IngestState
<1>3. Watermarks'
  BY <1>1, <1>2 DEF SyncParts, Watermarks, At
<1>4. CursorLocks'
  BY DEF SyncParts, CursorLocks, At, Dirty
<1>5. ViewsHold'
  BY DEF SyncParts, ViewsHold, Reach, Stored, Purged, At
<1>6. NoMailSkipped' /\ MailComesWithCursor'
  BY DEF SyncParts, NoMailSkipped, MailComesWithCursor
<1> QED BY <1>3, <1>4, <1>5, <1>6 DEF SyncParts

(* A step to a pc at which the worker relies on nothing yet.                *)
LEMMA EarlySync ==
  ASSUME Typed, SyncParts, NEW w \in Workers, NEW x \in IngestState,
         ingest' = [ingest EXCEPT ![w] = x],
         UNCHANGED <<gmail, cursor, emails, request, early>>, lock'.cursor = lock.cursor,
         x.pc \notin {"new_cursor"} \cup Syncing,
         x.base = ingest[w].base \/ x.base = 0, x.next = ingest[w].next \/ x.next = 0,
         x.ids = {}, x.mine = {}
  PROVE  SyncParts'
<1>1. 0 <= HistoryId
  BY Bounds DEF Typed, TypedParts, GmailState, HistoryId
<1>2. ingest[w].base <= HistoryId /\ ingest[w].next <= HistoryId
  BY DEF SyncParts, Watermarks
<1>3. x.base <= HistoryId /\ x.next <= HistoryId
  BY <1>1, <1>2
<1> QED BY <1>3, WorkerSync DEF Syncing, Listing, Fetched

(* The commit of an ingest: its watermark with the mail below it.           *)
LEMMA CommitSync ==
  ASSUME Typed, SyncParts, NEW w \in Workers, Commit(w)
  PROVE  SyncParts'
<1> USE Bounds
<1>0. /\ At(w, "commit") /\ emails' = emails \cup ingest[w].mine
      /\ cursor' = (IF Inserted(w) \/ Dirty(w) THEN ingest[w].next ELSE cursor)
      /\ Rollback(w) /\ UNCHANGED <<gmail, request, early>>
  BY DEF Commit
<1>1. /\ ingest'[w] = AtRest /\ \A v \in Workers \ {w} : ingest'[v] = ingest[v]
      /\ lock'.cursor = (IF lock.cursor = w THEN Nobody ELSE lock.cursor)
  BY <1>0, RollbackType DEF Typed
<1>2. /\ AtRest.pc = "idle" /\ AtRest.base = 0 /\ AtRest.next = 0 /\ AtRest.ids = {}
      /\ AtRest.mine = {} /\ ~ AtRest.touched
  BY DEF AtRest, NoCursor
<1>3. /\ ingest[w].next >= 1 /\ ingest[w].next <= HistoryId /\ ingest[w].ids = {}
      /\ (~ ingest[w].touched => ingest[w].mine = {})
  BY <1>0 DEF SyncParts, Watermarks, At, Listing, Fetched
<1>4. /\ ingest[w].pc \in Syncing /\ ingest[w].pc \in Listing /\ ingest[w].pc \in Fetched
      /\ Reach(w) = ingest[w].next
  BY <1>0 DEF At, Syncing, Listing, Fetched, Reach
<1>5. Inserted(w) => lock.cursor = w
  BY <1>4 DEF SyncParts, CursorLocks, Inserted
<1>6. ~ Inserted(w) /\ Dirty(w) => lock.cursor = w /\ cursor # NoCursor
  BY <1>0 DEF SyncParts, CursorLocks, Inserted
<1>7. ~ Inserted(w) /\ ~ Dirty(w) => emails' = emails /\ cursor' = cursor
  BY <1>0, <1>3 DEF Dirty
<1>8. Inserted(w) \/ Dirty(w) => cursor' = ingest[w].next /\ cursor' # NoCursor
  BY <1>0, <1>3 DEF NoCursor
(* What the watermark covers.                                               *)
<1>9. ASSUME ~ early, Inserted(w) \/ Dirty(w), NEW m \in Messages, m < ingest[w].next
      PROVE  m \in emails' \cup gmail.gone
  <2>1. Stored(w, m) \/ Purged(w, m)
    BY <1>4, <1>9 DEF SyncParts, ViewsHold
  <2>2. ~ Purged(w, m)
    BY <1>6, <1>9 DEF Purged, Inserted
  <2> QED BY <1>0, <1>3, <2>1, <2>2 DEF Stored
<1>10. Watermarks'
  BY <1>0, <1>1, <1>2, <1>3 DEF SyncParts, Watermarks, HistoryId, NoCursor, At, Listing, Fetched,
                                Typed, TypedParts, GmailState
<1>11. CursorLocks'
  <2>1. ASSUME NEW v \in Workers \ {w}, At(v, "commit"), ingest[v].base # NoCursor, Dirty(v)
        PROVE  lock'.cursor = v /\ cursor' # NoCursor
    <3>1. lock.cursor = v /\ cursor # NoCursor
      BY <2>1 DEF SyncParts, CursorLocks
    <3>2. lock'.cursor = v
      BY <1>1, <3>1
    <3> QED BY <1>7, <1>8, <3>1, <3>2
  <2>2. ~ early /\ request.pc = "emails" => lock'.cursor = "owner"
    BY <1>1 DEF SyncParts, CursorLocks
  <2>3. \A v \in Workers \ {w} :
          ingest[v].pc \in Syncing /\ ingest[v].base = NoCursor => lock'.cursor = v
    BY <1>1 DEF SyncParts, CursorLocks
  <2> QED BY <1>0, <1>1, <1>2, <2>1, <2>2, <2>3 DEF CursorLocks, At, Dirty, Syncing, Listing, Fetched
<1>12. ASSUME ~ early, NEW v \in Workers, ingest'[v].pc \in {"list"} \cup Fetched,
              NEW m \in Messages, m < Reach(v)'
       PROVE  Stored(v, m)' \/ Purged(v, m)'
  <2>1. v # w
    BY <1>1, <1>2, <1>12 DEF Fetched
  <2>2. Reach(v)' = Reach(v) /\ ingest[v].pc \in {"list"} \cup Fetched
    BY <1>1, <1>12, <2>1 DEF Reach, At
  <2>3. Stored(v, m) \/ Purged(v, m)
    BY <1>12, <2>2 DEF SyncParts, ViewsHold
  <2>4. CASE Stored(v, m)
    BY <1>0, <1>1, <2>1, <2>4 DEF Stored
  <2>5. CASE Purged(v, m)
    <3>1. CASE ~ Inserted(w) /\ ~ Dirty(w)
      BY <1>1, <1>2, <1>7, <2>1, <2>5, <3>1 DEF Purged, Listing, Fetched
    <3>2. CASE ~ Inserted(w) /\ Dirty(w)
      BY <1>6, <2>5, <3>2 DEF Purged
    <3>3. CASE Inserted(w)
      <4>1. m < ingest[w].next
        BY <1>4, <2>5, <3>3 DEF Purged, Inserted
      <4> QED BY <1>0, <1>9, <1>12, <3>3, <4>1 DEF Stored
    <3> QED BY <3>1, <3>2, <3>3
  <2> QED BY <2>3, <2>4, <2>5
<1>13. ViewsHold'
  BY <1>0, <1>12 DEF ViewsHold
<1>14. NoMailSkipped'
  <2>1. ASSUME ~ early, NEW m \in 1 .. cursor' - 1, Inserted(w) \/ Dirty(w)
        PROVE  m \in emails' \cup gmail.gone
    <3>1. m \in Messages /\ m < ingest[w].next
      BY <1>8, <2>1 DEF Typed, TypedParts, IngestState, Messages
    <3> QED BY <1>9, <2>1, <3>1
  <2>2. CASE ~ Inserted(w) /\ ~ Dirty(w)
    BY <1>0, <1>7, <2>2 DEF SyncParts, NoMailSkipped
  <2> QED BY <1>0, <2>1, <2>2 DEF NoMailSkipped
<1>15. MailComesWithCursor'
  BY <1>7, <1>8 DEF SyncParts, MailComesWithCursor
<1> QED BY <1>10, <1>11, <1>13, <1>14, <1>15 DEF SyncParts

LEMMA HandleSync ==
  ASSUME Typed, SyncParts, NEW w \in Workers, Handle(w) \/ Fail(w)
  PROVE  SyncParts'
<1> USE Bounds
<1>0. TypedParts /\ HolderWorks /\ ingest[w] \in IngestState
  BY DEF Typed, TypedParts
<1>s. \A pc \in {"token", "refresh", "save_token", "reject", "cursor", "new_cursor", "list", "scan",
                 "fetch", "insert", "save_cursor", "commit"} : pc \in IngestSteps
  BY DEF IngestSteps
<1>h. HistoryId \in 1 .. MaxMail + 1 /\ HistoryId = gmail.arrived + 1 /\ gmail.arrived \in Nat
  BY <1>0 DEF TypedParts, GmailState, HistoryId
<1>t. /\ HistoryId \in 0 .. MaxMail + 1 /\ {} \in SUBSET Messages
      /\ "fetch" \in IngestSteps /\ "scan" \in IngestSteps
  BY <1>h, <1>s
<1>w. /\ ingest[w].base <= HistoryId /\ ingest[w].next <= HistoryId
      /\ ingest[w].pc = "new_cursor" => ingest[w].base = NoCursor
      /\ ingest[w].pc \in Listing => ingest[w].next >= 1
      /\ ingest[w].pc # "fetch" => ingest[w].ids = {}
      /\ ingest[w].pc \notin {"insert", "save_cursor", "commit"} => ingest[w].mine = {}
      /\ ~ ingest[w].touched => ingest[w].mine = {}
      /\ cursor <= HistoryId
  BY DEF SyncParts, Watermarks, At
<1>k. ingest[w].pc \in Syncing /\ ingest[w].base = NoCursor => lock.cursor = w
  BY DEF SyncParts, CursorLocks
<1>v. ~ early /\ ingest[w].pc \in {"list"} \cup Fetched =>
        \A m \in Messages : m < Reach(w) => Stored(w, m) \/ Purged(w, m)
  BY DEF SyncParts, ViewsHold
<1>e. \A pc \in IngestSteps :
        /\ [ingest[w] EXCEPT !.pc = pc] \in IngestState
        /\ [ingest[w] EXCEPT !.pc = pc].pc = pc
        /\ [ingest[w] EXCEPT !.pc = pc].base = ingest[w].base
        /\ [ingest[w] EXCEPT !.pc = pc].next = ingest[w].next
        /\ [ingest[w] EXCEPT !.pc = pc].ids = ingest[w].ids
        /\ [ingest[w] EXCEPT !.pc = pc].mine = ingest[w].mine
        /\ [ingest[w] EXCEPT !.pc = pc].touched = ingest[w].touched
        /\ Goes(w, pc) = [ingest EXCEPT ![w] = [ingest[w] EXCEPT !.pc = pc]]
  BY <1>0 DEF IngestState, Goes
<1>r. Rollback(w) /\ UNCHANGED <<gmail, cursor, emails, request, early>> => SyncParts'
  BY RollbackSync
<1>1. ASSUME NEW pc \in {"token", "save_token", "reject", "cursor"},
             ingest' = Goes(w, pc), lock'.cursor = lock.cursor,
             UNCHANGED <<gmail, cursor, emails, request, early>>,
             ingest[w].pc \in Unlocked
      PROVE  SyncParts'
  <2> DEFINE x == [ingest[w] EXCEPT !.pc = pc]
  <2>1. ingest' = [ingest EXCEPT ![w] = x] /\ x \in IngestState /\ x.pc = pc
        /\ x.base = ingest[w].base /\ x.next = ingest[w].next
        /\ x.ids = ingest[w].ids /\ x.mine = ingest[w].mine
    BY <1>1, <1>e, <1>s
  <2> HIDE DEF x
  <2>2. x.pc \notin {"new_cursor"} \cup Syncing /\ x.ids = {} /\ x.mine = {}
    BY <1>1, <1>w, <2>1 DEF Unlocked, Syncing, Listing, Fetched
  <2> QED BY <1>1, <2>1, <2>2, EarlySync
<1>2. CASE Begin(w) \/ Refresh(w) \/ InvalidGrant(w)
  BY <1>1, <1>2 DEF Begin, Refresh, InvalidGrant, OnlyIngest, At, Unlocked
<1>3. CASE LoadToken(w) \/ MarkReauthRequired(w)
  <2> DEFINE x == [ingest[w] EXCEPT !.pc = IF token.fresh THEN "cursor" ELSE "refresh",
                                    !.row = token.row, !.grant = token.grant]
  <2>1. \/ ingest' = [ingest EXCEPT ![w] = AtRest]
        \/ ingest' = [ingest EXCEPT ![w] = x] /\ At(w, "token")
    BY <1>0, <1>3 DEF LoadToken, MarkReauthRequired, TypedParts
  <2>2. UNCHANGED <<gmail, cursor, emails, request, early, lock>>
    BY <1>3 DEF LoadToken, MarkReauthRequired, OnlyIngest
  <2>3. CASE ingest' = [ingest EXCEPT ![w] = AtRest]
    <3>1. AtRest.pc = "idle" /\ AtRest.base = 0 /\ AtRest.next = 0 /\ AtRest.ids = {} /\ AtRest.mine = {}
      BY DEF AtRest, NoCursor
    <3> QED BY <2>2, <2>3, <3>1, AtRestType, EarlySync DEF Syncing, Listing, Fetched
  <2>4. CASE ingest' = [ingest EXCEPT ![w] = x] /\ At(w, "token")
    <3>1. token.row \in 0 .. MaxGrants /\ token.grant \in 0 .. MaxGrants
      BY <1>0 DEF TypedParts, TokenState
    <3>2. x \in IngestState /\ x.pc \in {"cursor", "refresh"} /\ x.base = ingest[w].base
          /\ x.next = ingest[w].next /\ x.ids = ingest[w].ids /\ x.mine = ingest[w].mine
      BY <1>0, <1>s, <3>1 DEF IngestState
    <3> HIDE DEF x
    <3>3. x.ids = {} /\ x.mine = {}
      BY <1>w, <2>4, <3>2 DEF At
    <3> QED BY <2>2, <2>4, <3>2, <3>3, EarlySync DEF Syncing, Listing, Fetched
  <2> QED BY <2>1, <2>3, <2>4
<1>4. CASE SaveToken(w)
  <2>1. CASE lock' = [lock EXCEPT !.token = w] /\ ingest' = Goes(w, "cursor")
    <3>1. w \in Holders /\ lock \in [{"token", "cursor"} -> Holders]
      BY <1>0 DEF Holders, TypedParts
    <3>2. lock'.cursor = lock.cursor
      BY <2>1, <3>1, LockType
    <3> QED BY <1>1, <1>4, <2>1, <3>2 DEF SaveToken, OnlyTransaction, At, Unlocked
  <2> QED BY <1>4, <1>r, <2>1 DEF SaveToken, OnlyTransaction
<1>5. CASE ReadCursor(w)
  <2> DEFINE x == [ingest[w] EXCEPT !.pc = IF cursor = NoCursor THEN "new_cursor" ELSE "list",
                                    !.base = cursor]
  <2>1. x \in IngestState /\ x.pc = (IF cursor = NoCursor THEN "new_cursor" ELSE "list")
        /\ x.base = cursor /\ x.next = ingest[w].next /\ x.ids = ingest[w].ids
        /\ x.mine = ingest[w].mine /\ x.touched = ingest[w].touched
    BY <1>0, <1>s DEF TypedParts, IngestState
  <2>2. ingest' = [ingest EXCEPT ![w] = x]
    BY <1>0, <1>5 DEF ReadCursor, TypedParts
  <2> HIDE DEF x
  <2>3. x.ids = {} /\ x.mine = {}
    BY <1>5, <1>w, <2>1 DEF ReadCursor, At
  <2>4. ~ early /\ cursor # NoCursor => \A m \in Messages : m < cursor => m \in emails \cup gmail.gone
    BY <1>0 DEF SyncParts, NoMailSkipped, Messages, TypedParts
  <2>5. x.pc \in {"list"} \cup Fetched \/ x.pc \in Syncing \/ x.pc = "commit" => cursor # NoCursor /\ x.pc = "list"
    BY <2>1 DEF Syncing, Listing, Fetched
  <2>6. x.pc \notin Listing /\ (x.pc = "new_cursor" => x.base = NoCursor) /\ x.pc \in {"list", "new_cursor"}
    BY <2>1 DEF Listing, Fetched
  <2>7. UNCHANGED <<gmail, cursor, emails, request, early>> /\ lock'.cursor = lock.cursor
    BY <1>5 DEF ReadCursor, OnlyIngest
  <2> QED BY <1>w, <2>1, <2>2, <2>3, <2>4, <2>5, <2>6, <2>7, WorkerSync
<1>6. CASE InsertCursor(w)
  <2>1. CASE lock.cursor = Nobody /\ lock' = [lock EXCEPT !.cursor = w] /\ ingest' = Goes(w, "list")
    <3> DEFINE x == [ingest[w] EXCEPT !.pc = "list"]
    <3>1. /\ x \in IngestState /\ x.pc = "list" /\ x.base = ingest[w].base
          /\ x.next = ingest[w].next /\ x.ids = ingest[w].ids /\ x.mine = ingest[w].mine
          /\ x.touched = ingest[w].touched
          /\ ingest' = [ingest EXCEPT ![w] = x]
      BY <1>e, <1>s, <2>1
    <3> HIDE DEF x
    <3>2. x.ids = {} /\ x.mine = {} /\ x.base = NoCursor
      BY <1>6, <1>w, <3>1 DEF InsertCursor, At
    <3>3. lock'.cursor = w
      <4>1. w \in Holders /\ lock \in [{"token", "cursor"} -> Holders]
        BY <1>0 DEF Holders, TypedParts
      <4> QED BY <2>1, <4>1, LockType
    <3>4. \A m \in Messages : ~ m < x.base
      BY <3>2 DEF Messages, NoCursor
    <3>5. x.pc \notin Listing
      BY <3>1 DEF Listing, Fetched
    <3>6. UNCHANGED <<gmail, cursor, emails, request, early>>
      BY <1>6 DEF InsertCursor, OnlyTransaction
    <3> QED BY <1>w, <2>1, <3>1, <3>2, <3>3, <3>4, <3>5, <3>6, WorkerSync
  <2> QED BY <1>6, <1>r, <2>1 DEF InsertCursor, OnlyTransaction
<1>7. CASE ListNewIds(w)
  <2>0. UNCHANGED <<gmail, cursor, emails, request, early>> /\ lock'.cursor = lock.cursor /\ At(w, "list")
    BY <1>7 DEF ListNewIds, OnlyTransaction
  <2>1. CASE /\ ingest[w].base # NoCursor
             /\ Listed(w, (ingest[w].base .. gmail.arrived) \ gmail.gone, "fetch")
    <3> DEFINE ids == (ingest[w].base .. gmail.arrived) \ gmail.gone
    <3>1. ids \in SUBSET Messages
      BY <1>0, <2>1 DEF TypedParts, GmailState, IngestState, Messages, NoCursor
    <3>l. Listed(w, ids, "fetch")
      BY <2>1
    <3>i. \A m \in Messages : m \in ids <=> ingest[w].base <= m /\ m < HistoryId /\ m \notin gmail.gone
      BY <1>0, <1>h DEF Messages, IngestState
    <3> HIDE DEF ids
    <3>3. PICK x \in IngestState :
            /\ ingest' = [ingest EXCEPT ![w] = x]
            /\ x.pc = "fetch" /\ x.base = ingest[w].base /\ x.next = HistoryId
            /\ x.ids = ids /\ x.mine = ingest[w].mine /\ x.touched = ingest[w].touched
      BY <1>0, <1>t, <3>1, <3>l, ListedType
    <3>4. x.mine = {} /\ ingest[w].ids = {} /\ ingest[w].mine = {}
      BY <1>w, <2>0, <3>3 DEF At
    <3>5. ASSUME ~ early, NEW m \in Messages, m < x.next
          PROVE  \/ m \in emails \cup gmail.gone \cup x.ids \cup x.mine
                 \/ /\ x.base # NoCursor /\ cursor = NoCursor
                    /\ \A v \in Workers \ {w} :
                         ingest[v].base = NoCursor /\ ingest[v].pc \in Listing => m < ingest[v].next
      <4>1. CASE m < ingest[w].base
        <5>1. Stored(w, m) \/ Purged(w, m)
          BY <1>v, <2>0, <3>5, <4>1 DEF At, Reach
        <5> QED BY <3>3, <3>4, <5>1 DEF Stored, Purged
      <4>2. CASE ~ m < ingest[w].base
        BY <1>0, <3>3, <3>5, <3>i, <4>2 DEF Messages, IngestState
      <4> QED BY <4>1, <4>2
    <3>6. /\ x.base <= HistoryId /\ x.next <= HistoryId /\ x.next >= 1 /\ x.base # NoCursor
          /\ x.pc = "fetch"
      BY <1>h, <1>w, <2>1, <3>3
    <3> QED BY <2>0, <3>3, <3>4, <3>5, <3>6, WorkerSync
  <2>2. CASE Listed(w, {}, "scan")
    <3>2. PICK x \in IngestState :
            /\ ingest' = [ingest EXCEPT ![w] = x]
            /\ x.pc = "scan" /\ x.base = ingest[w].base /\ x.next = HistoryId
            /\ x.ids = {} /\ x.mine = ingest[w].mine /\ x.touched = ingest[w].touched
      BY <1>0, <1>t, <2>2, ListedType
    <3>3. x.mine = {} /\ (x.base = NoCursor => lock.cursor = w)
      BY <1>w, <1>k, <2>0, <3>2 DEF At, Syncing
    <3>4. x.pc \notin {"list"} \cup Fetched
      BY <3>2 DEF Fetched
    <3>5. x.base <= HistoryId /\ x.next <= HistoryId /\ x.next >= 1 /\ x.pc = "scan"
      BY <1>h, <1>w, <3>2
    <3> QED BY <2>0, <3>2, <3>3, <3>4, <3>5, WorkerSync
  <2> QED BY <1>7, <2>1, <2>2 DEF ListNewIds
<1>8. CASE ScanMailbox(w)
  <2> DEFINE ids == (1 .. gmail.arrived) \ gmail.gone
             x == [ingest[w] EXCEPT !.pc = "fetch", !.ids = ids]
  <2>0. UNCHANGED <<gmail, cursor, emails, request, early>> /\ lock'.cursor = lock.cursor /\ At(w, "scan")
    BY <1>8 DEF ScanMailbox, OnlyIngest
  <2>1. ids \in SUBSET Messages
    BY <1>0 DEF TypedParts, GmailState, Messages
  <2>2. ingest' = [ingest EXCEPT ![w] = x]
    BY <1>0, <1>8 DEF ScanMailbox, TypedParts
  <2>3. \A m \in Messages : m < HistoryId => m \in ids \cup gmail.gone
    BY <1>h DEF Messages
  <2> HIDE DEF ids
  <2>4. /\ x \in IngestState /\ x.pc = "fetch" /\ x.base = ingest[w].base /\ x.next = ingest[w].next
        /\ x.ids = ids /\ x.mine = ingest[w].mine /\ x.touched = ingest[w].touched
    BY <1>0, <1>s, <2>1 DEF IngestState
  <2> HIDE DEF x
  <2>5. x.mine = {} /\ x.next >= 1 /\ (x.base = NoCursor => lock.cursor = w)
    BY <1>w, <1>k, <2>0, <2>4 DEF At, Syncing, Listing
  <2>6. \A m \in Messages : m < x.next => m \in gmail.gone \cup x.ids
    BY <1>0, <1>h, <1>w, <2>3, <2>4 DEF IngestState, Messages
  <2>7. ingest[w].pc \in Listing
    BY <2>0 DEF At, Listing
  <2> QED BY <1>w, <2>0, <2>2, <2>4, <2>5, <2>6, <2>7, WorkerSync
<1>9. CASE FetchAndDedup(w)
  <2>0. OnlyIngest /\ At(w, "fetch")
    BY <1>9, Zenon DEF FetchAndDedup
  <2>1. UNCHANGED <<gmail, cursor, emails, request, early>> /\ lock'.cursor = lock.cursor
    BY <2>0 DEF OnlyIngest
  <2>2. PICK x \in IngestState :
          /\ ingest' = [ingest EXCEPT ![w] = x]
          /\ x.pc = "insert" /\ x.base = ingest[w].base /\ x.next = ingest[w].next
          /\ x.ids = {} /\ (~ x.touched => x.mine = {})
          /\ ingest[w].ids \subseteq gmail.gone \cup emails \cup x.mine
    BY <1>0, <1>9, FetchedType
  <2>6. ingest[w].pc \in Listing /\ ingest[w].mine = {} /\ x.next >= 1
        /\ (x.base = NoCursor => lock.cursor = w)
    BY <1>w, <1>k, <2>0, <2>2 DEF At, Syncing, Listing, Fetched
  <2>7. ASSUME ~ early, NEW m \in Messages, m < x.next
        PROVE  \/ m \in emails \cup gmail.gone \cup x.ids \cup x.mine
               \/ /\ x.base # NoCursor /\ cursor = NoCursor
                  /\ \A v \in Workers \ {w} :
                       ingest[v].base = NoCursor /\ ingest[v].pc \in Listing => m < ingest[v].next
    <3>1. Stored(w, m) \/ Purged(w, m)
      BY <1>v, <2>0, <2>2, <2>7 DEF At, Reach, Fetched
    <3> QED BY <2>2, <2>6, <3>1 DEF Stored, Purged
  <2> QED BY <1>w, <2>1, <2>2, <2>6, <2>7, WorkerSync
<1>10. ASSUME NEW pc \in {"save_cursor", "commit"}, ingest' = Goes(w, pc),
              ingest[w].pc \in {"insert", "save_cursor"},
              UNCHANGED <<gmail, cursor, emails, request, early>>,
              lock'.cursor = lock.cursor \/ (lock.cursor = Nobody /\ lock'.cursor = w),
              pc = "commit" /\ ingest[w].base # NoCursor /\ Dirty(w) =>
                lock'.cursor = w /\ cursor # NoCursor
       PROVE  SyncParts'
  <2> DEFINE x == [ingest[w] EXCEPT !.pc = pc]
  <2>1. /\ x \in IngestState /\ x.pc = pc /\ x.base = ingest[w].base
        /\ x.next = ingest[w].next /\ x.ids = ingest[w].ids /\ x.mine = ingest[w].mine
        /\ x.touched = ingest[w].touched
        /\ ingest' = [ingest EXCEPT ![w] = x]
    BY <1>10, <1>e, <1>s
  <2> HIDE DEF x
  <2>2. x.ids = {} /\ x.next >= 1 /\ (~ x.touched => x.mine = {})
    BY <1>10, <1>w, <2>1 DEF Listing, Fetched
  <2>3. ingest[w].pc \in Listing /\ ingest[w].pc \in Fetched /\ ingest[w].pc # "list"
    BY <1>10 DEF Listing, Fetched
  <2>4. x.base = NoCursor => lock'.cursor = w
    BY <1>10, <1>k, <2>1, <2>3, Bounds DEF Syncing
  <2>5. ASSUME ~ early, NEW m \in Messages, m < x.next
        PROVE  \/ m \in emails \cup gmail.gone \cup x.ids \cup x.mine
               \/ /\ x.base # NoCursor /\ cursor = NoCursor
                  /\ \A v \in Workers \ {w} :
                       ingest[v].base = NoCursor /\ ingest[v].pc \in Listing => m < ingest[v].next
    <3>1. Stored(w, m) \/ Purged(w, m)
      BY <1>v, <2>1, <2>3, <2>5 DEF At, Reach
    <3> QED BY <2>1, <3>1 DEF Stored, Purged
  <2>6. x.pc = "commit" /\ x.base # NoCursor /\ (x.touched \/ x.next # x.base) =>
          lock'.cursor = w /\ cursor # NoCursor
    BY <1>10, <2>1 DEF Dirty
  <2>7. x.base <= HistoryId /\ x.next <= HistoryId /\ x.pc \in {"save_cursor", "commit"}
    BY <1>w, <2>1
  <2>8. /\ UNCHANGED <<gmail, cursor, emails, request, early>>
        /\ lock'.cursor = lock.cursor \/ (lock.cursor = Nobody /\ lock'.cursor = w)
    BY <1>10
  <2> QED BY <2>1, <2>2, <2>3, <2>4, <2>5, <2>6, <2>7, <2>8, WorkerSync
<1>11. CASE InsertEmails(w)
  <2>1. CASE ingest' = Goes(w, "save_cursor") /\ UNCHANGED lock
    BY <1>10, <1>11, <2>1 DEF InsertEmails, OnlyTransaction, At
  <2> QED BY <1>11, <1>r, <2>1 DEF InsertEmails, OnlyTransaction
<1>12. CASE SaveCursor(w)
  <2>1. CASE (Inserted(w) \/ ~ Dirty(w)) /\ ingest' = Goes(w, "commit") /\ UNCHANGED lock
    BY <1>10, <1>12, <2>1 DEF SaveCursor, OnlyTransaction, At, Inserted
  <2>2. CASE /\ lock.cursor = Nobody /\ cursor # NoCursor
             /\ lock' = [lock EXCEPT !.cursor = w] /\ ingest' = Goes(w, "commit")
    <3>1. lock'.cursor = w
      <4>1. w \in Holders /\ lock \in [{"token", "cursor"} -> Holders]
        BY <1>0 DEF Holders, TypedParts
      <4> QED BY <2>2, <4>1, LockType
    <3> QED BY <1>10, <1>12, <2>2, <3>1 DEF SaveCursor, OnlyTransaction, At
  <2> QED BY <1>12, <1>r, <2>1, <2>2 DEF SaveCursor, OnlyTransaction
<1>13. CASE Commit(w)
  BY <1>13, CommitSync
<1>14. CASE Unauthorized(w) \/ Fail(w)
  BY <1>14, <1>r DEF Unauthorized, Fail, OnlyTransaction
<1> QED BY <1>2, <1>3, <1>4, <1>5, <1>6, <1>7, <1>8, <1>9, <1>11, <1>12, <1>13, <1>14 DEF Handle

LEMMA OwnerSync == Typed /\ SyncParts /\ Owner => SyncParts'
<1> SUFFICES ASSUME Typed, SyncParts, Owner PROVE SyncParts'
  OBVIOUS
<1> USE Bounds
<1>0. TypedParts /\ lock \in [{"token", "cursor"} -> Holders] /\ "owner" \in Holders
      /\ Nobody \in Holders /\ request \in RequestState
      /\ gmail.arrived \in Nat
  BY DEF Typed, TypedParts, Holders, GmailState
<1>p. \A pc : ToStep(pc) => request'.pc = pc
  BY <1>0 DEF ToStep, RequestState
(* A purge with the lock on the cursor finds no first run under way.        *)
<1>n. ASSUME lock.cursor \notin Workers, cursor' = NoCursor, emails' = {},
             UNCHANGED <<gmail, ingest>>, early' = early, request'.pc = "idle"
      PROVE  SyncParts'
  <2>1. \A w \in Workers : /\ ~ (ingest[w].pc \in Syncing /\ ingest[w].base = NoCursor)
                          /\ ~ (At(w, "commit") /\ ingest[w].base # NoCursor /\ Dirty(w))
    BY <1>n DEF SyncParts, CursorLocks
  <2>2. Watermarks'
    BY <1>0, <1>n DEF SyncParts, Watermarks, HistoryId, NoCursor, At
  <2>3. CursorLocks'
    BY <1>n, <2>1 DEF CursorLocks, At, Dirty
  <2>4. ViewsHold'
    BY <1>n, <2>1 DEF ViewsHold, Purged, Syncing, Listing, At
  <2>5. NoMailSkipped' /\ MailComesWithCursor'
    BY <1>n DEF NoMailSkipped, MailComesWithCursor
  <2> QED BY <2>2, <2>3, <2>4, <2>5 DEF SyncParts
<1>1. CASE LoadOwnedAccount
  <2>1. request'.pc # "emails"
    BY <1>1 DEF LoadOwnedAccount
  <2> QED BY <1>0, <1>1, <2>1, MailboxSync DEF LoadOwnedAccount, OnlyRequest
<1>2. CASE PurgeToken
  <2>1. lock'.cursor = lock.cursor /\ request'.pc # "emails"
    BY <1>0, <1>2, <1>p, LockType DEF PurgeToken
  <2> QED BY <1>0, <1>2, <2>1, MailboxSync DEF PurgeToken, OnlyRequest
<1>3. CASE PurgeCursor
  <2>0. UNCHANGED <<gmail, cursor, emails, ingest>>
    BY <1>3 DEF PurgeCursor, OnlyRequest
  <2>1. Watermarks' /\ MailComesWithCursor'
    BY <2>0 DEF SyncParts, Watermarks, HistoryId, At, MailComesWithCursor
  <2>2. CASE cursor = NoCursor
    <3>1. early' /\ lock' = lock
      BY <1>3, <2>2 DEF PurgeCursor
    <3>2. CursorLocks'
      BY <2>0, <3>1 DEF SyncParts, CursorLocks, At, Dirty
    <3> QED BY <2>1, <3>1, <3>2 DEF SyncParts, ViewsHold, NoMailSkipped
  <2>3. CASE cursor # NoCursor
    <3>1. early' = early /\ lock.cursor = Nobody
      BY <1>3, <2>3 DEF PurgeCursor, Typed, TypedParts
    <3>2. lock'.cursor = "owner"
      BY <1>0, <1>3, <2>3, LockType DEF PurgeCursor
    <3>3. CursorLocks'
      BY <2>0, <3>1, <3>2 DEF SyncParts, CursorLocks, At, Dirty
    <3>4. ViewsHold' /\ NoMailSkipped'
      BY <2>0, <3>1 DEF SyncParts, ViewsHold, NoMailSkipped, Reach, Stored, Purged, At
    <3> QED BY <2>1, <3>3, <3>4 DEF SyncParts
  <2> QED BY <2>2, <2>3
<1>4. CASE PurgeEmails
  <2>0. /\ emails' = {} /\ UNCHANGED <<gmail, ingest, early>> /\ request'.pc = "idle"
        /\ request.pc = "emails" /\ lock' = Released("owner") /\ cursor' = Gone("cursor", NoCursor)
    BY <1>4, <1>p DEF PurgeEmails
  <2>1. CASE lock.cursor = "owner"
    BY <1>n, <2>0, <2>1 DEF Gone
  <2>2. CASE lock.cursor # "owner"
    <3>1. cursor' = cursor /\ early
      BY <2>0, <2>2 DEF Gone, SyncParts, CursorLocks, Typed, TypedParts
    <3>2. lock'.cursor = lock.cursor
      BY <1>0, <2>0, <2>2, ReleasedType
    <3>3. Watermarks' /\ CursorLocks'
      BY <2>0, <3>1, <3>2 DEF SyncParts, Watermarks, CursorLocks, HistoryId, At, Dirty
    <3> QED BY <2>0, <3>1, <3>3 DEF SyncParts, ViewsHold, NoMailSkipped, MailComesWithCursor
  <2> QED BY <2>1, <2>2
<1>5. CASE RemoveAccount
  <2>1. request'.pc = "idle"
    BY <1>0, <1>5 DEF RemoveAccount, RequestState
  <2> QED BY <1>5, <1>n, <2>1 DEF RemoveAccount
<1> QED BY <1>1, <1>2, <1>3, <1>4, <1>5 DEF Owner

LEMMA OtherSync == Typed /\ SyncParts /\ (Callback \/ Google) => SyncParts'
<1> SUFFICES ASSUME Typed, SyncParts, Callback \/ Google PROVE SyncParts'
  OBVIOUS
<1>1. gmail \in GmailState /\ gmail.arrived \in Nat
  BY Bounds DEF Typed, TypedParts, GmailState
<1>2. UNCHANGED <<cursor, emails, ingest, early, lock, request>>
  BY DEF Callback, Consent, SeeToken, StoreGrant, OnlyConnect, Google, MailMoves, Arrive, Leave,
         ForgetHistory, RevokeGrants, TokenAges, OnlyGoogle
<1>3. /\ gmail'.arrived \in {gmail.arrived, gmail.arrived + 1}
      /\ gmail.gone \subseteq gmail'.gone
  BY <1>1 DEF Callback, Consent, SeeToken, StoreGrant, OnlyConnect, Google, MailMoves, Arrive, Leave,
              ForgetHistory, RevokeGrants, TokenAges, GmailState
<1> QED BY <1>1, <1>2, <1>3, MailboxSync

LEMMA SyncStep == Typed /\ SyncParts /\ [Next]_vars => SyncParts'
<1>1. Typed /\ SyncParts /\ UNCHANGED vars => SyncParts'
  BY DEF vars, SyncParts, Watermarks, CursorLocks, ViewsHold, NoMailSkipped, MailComesWithCursor,
         HistoryId, Reach, Stored, Purged, At, Dirty
<1> QED BY <1>1, HandleSync, OwnerSync, OtherSync DEF Next

LEMMA SyncAlways == Spec => []SyncParts
BY TypedAlways, SyncInit, SyncStep, PTL DEF Spec

(* handle_ingest, run_ingest and _persist_cursor under disconnects,          *)
(* reconnects, crashes and forgotten history: no message below the cursor   *)
(* is missing.                                                              *)
THEOREM MailIsNeverSkipped == Spec => []NoMailSkipped
<1>1. SyncParts => NoMailSkipped
  BY DEF SyncParts
<1> QED BY <1>1, SyncAlways, PTL

(* _purge_account_runtime_data against an ingest that is under way: no mail *)
(* stays behind without a cursor.                                           *)
THEOREM MailHasItsCursor == Spec => []MailComesWithCursor
<1>1. SyncParts => MailComesWithCursor
  BY DEF SyncParts
<1> QED BY <1>1, SyncAlways, PTL
====
