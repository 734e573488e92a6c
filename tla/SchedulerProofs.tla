---------------------------- MODULE SchedulerProofs ----------------------------
(***************************************************************************)
(* Theorems about Scheduler for every number of runs, every set of slots    *)
(* and every length of the windows the assumptions allow, and about Profile *)
(* for every schedule, every number of edits and every zone whose clocks     *)
(* change ordinarily.                                                       *)
(***************************************************************************)
EXTENDS Scheduler, Profile, NaturalFacts, TLAPS

(* An age stays within its cap.                                             *)
LEMMA CappedType ==
  ASSUME NEW cap \in Nat, NEW n \in 0 .. cap
  PROVE  Capped(n + 1, cap) \in 0 .. cap /\ Capped(n + 1, cap) >= n
BY DEF Capped

(* The rows and views the actions build are of their types.                 *)
TickView == [pc : {"idle", "loaded", "sending"}, run : Runs \cup {NoRun}, seen : View]

LEMMA FreeType == Free \in RunRow
BY TimeAssumption DEF Free, RunRow

LEMMA RestingType == Resting \in TickView
BY TimeAssumption DEF Resting, TickView, View

(* A tick that has committed a run is of its type, and so is a row that     *)
(* changes in one field.                                                    *)
LEMMA FieldTypes ==
  ASSUME NEW row \in RunRow, NEW v \in TickView, NEW r \in Runs
  PROVE  /\ [row EXCEPT !.sent = TRUE] \in RunRow
         /\ [row EXCEPT !.status = "complete", !.clearing = "no"] \in RunRow
         /\ [v EXCEPT !.pc = "sending", !.run = r] \in TickView
BY DEF RunRow, TickView

(* Sending a message of a run changes its `sent` and nothing else.          *)
LEMMA SendRow ==
  ASSUME TypeOK, run' = [run EXCEPT ![tick.run].sent = TRUE]
  PROVE  /\ run' \in [Runs -> RunRow]
         /\ \A r \in Runs :
              /\ run'[r].status = run[r].status /\ run'[r].clearing = run[r].clearing
              /\ run'[r].age = run[r].age /\ run'[r].alone = run[r].alone
              /\ run[r].sent => run'[r].sent
<1>1. \A r \in Runs : run'[r] = IF r = tick.run THEN [run[r] EXCEPT !.sent = TRUE] ELSE run[r]
  BY DEF TypeOK
<1>2. \A r \in Runs : run[r] \in RunRow
  BY DEF TypeOK
<1>3. run' \in [Runs -> RunRow]
  <2>1. \A r \in Runs : [run[r] EXCEPT !.sent = TRUE] \in RunRow
    BY <1>2 DEF RunRow
  <2>2. \A r \in Runs : run'[r] \in RunRow
    BY <1>1, <1>2, <2>1
  <2>3. run' = [r \in Runs |-> run'[r]]
    BY DEF TypeOK
  <2> QED BY <2>2, <2>3
<1>4. \A r \in Runs :
        /\ run'[r].status = run[r].status /\ run'[r].clearing = run[r].clearing
        /\ run'[r].age = run[r].age /\ run'[r].alone = run[r].alone
        /\ run[r].sent => run'[r].sent
  BY <1>1, <1>2 DEF RunRow
<1> QED BY <1>3, <1>4

(* What Begin does to the rows: the new row is live and unread by any       *)
(* finalizer, the others keep all but perhaps their `alone`.                *)
LEMMA BeginRows ==
  ASSUME TypeOK, NEW r \in Runs, NEW scheduled \in BOOLEAN, NEW sent \in BOOLEAN,
         Begin(r, scheduled, sent)
  PROVE  /\ run' \in [Runs -> RunRow]
         /\ lock' = r
         /\ run'[r].status = "live" /\ run'[r].clearing = "no"
         /\ run'[r].alone => scheduled /\ Live \subseteq {r}
         /\ \A q \in Runs \ {r} :
              /\ run'[q].status = run[q].status /\ run'[q].sent = run[q].sent
              /\ run'[q].clearing = run[q].clearing /\ run'[q].age = run[q].age
              /\ run'[q].alone => run[q].alone /\ run[q].status # "live"
<1> USE RunsAssumption, TimeAssumption
<1> DEFINE begun == [status |-> "live", age |-> 0, sent |-> sent, clearing |-> "no",
                     alone |-> scheduled /\ Live \subseteq {r}]
           kept(q) == [run[q] EXCEPT !.alone = @ /\ run[q].status # "live"]
<1>1. run' = [q \in Runs |-> IF q = r THEN begun ELSE kept(q)] /\ lock' = r
  BY Zenon DEF Begin
<1>2. begun \in RunRow
  <2> DEFINE alone == scheduled /\ Live \subseteq {r}
  <2>1. alone \in BOOLEAN
    BY Zenon
  <2> HIDE DEF alone
  <2>2. [status |-> "live", age |-> 0, sent |-> sent, clearing |-> "no", alone |-> alone]
          \in RunRow
    BY <2>1 DEF RunRow
  <2> QED BY <2>2 DEF alone
<1>3. ASSUME NEW q \in Runs
      PROVE  /\ kept(q) \in RunRow
             /\ kept(q).status = run[q].status /\ kept(q).sent = run[q].sent
             /\ kept(q).clearing = run[q].clearing /\ kept(q).age = run[q].age
             /\ kept(q).alone => run[q].alone /\ run[q].status # "live"
  <2>1. run[q] \in RunRow
    BY DEF TypeOK
  <2>2. (run[q].alone /\ run[q].status # "live") \in BOOLEAN
    BY Zenon
  <2> QED BY <2>1, <2>2 DEF RunRow
<1>4. run' \in [Runs -> RunRow]
  BY <1>1, <1>2, <1>3 DEF TypeOK
<1>5. run'[r] = begun /\ \A q \in Runs \ {r} : run'[q] = kept(q)
  BY <1>1
<1>6. begun.status = "live" /\ begun.clearing = "no" /\ (begun.alone => scheduled /\ Live \subseteq {r})
  BY Zenon
<1> HIDE DEF begun, kept
<1> QED BY <1>1, <1>3, <1>4, <1>5, <1>6

(* The end of a run changes its own row: free, or remembered as a success   *)
(* that was alone.                                                          *)
LEMMA FinishRows ==
  ASSUME TypeOK, NEW r \in Runs, FinishRun(r)
  PROVE  /\ run' \in [Runs -> RunRow]
         /\ run'[r].clearing = "no"
         /\ run'[r].alone => run[r].alone /\ run'[r].age = run[r].age
         /\ \A q \in Runs \ {r} : run'[q] = run[q]
         /\ lock' = NoRun \/ (lock' = lock /\ run[r].clearing = "other")
<1>1. PICK outcome \in {"complete", "failed"} :
        /\ run' = [run EXCEPT ![r] =
                     IF outcome = "complete" /\ @.alone
                     THEN [@ EXCEPT !.status = "complete", !.clearing = "no"] ELSE Free]
        /\ lock' = IF Clears(r, outcome) THEN NoRun ELSE lock
  BY DEF FinishRun
<1>2. run[r] \in RunRow /\ run[r].clearing # "no"
  BY DEF TypeOK, FinishRun
<1>0. lock' = NoRun \/ (lock' = lock /\ run[r].clearing = "other")
  <2>1. lock' = IF run[r].clearing = "own" THEN NoRun ELSE lock
    BY <1>1, Zenon DEF Clears
  <2>2. run[r].clearing \in {"no", "own", "other"}
    BY <1>2 DEF RunRow
  <2> QED BY <1>2, <2>1, <2>2
<1>3. \/ run' = [run EXCEPT ![r] = Free]
      \/ run' = [run EXCEPT ![r] = [run[r] EXCEPT !.status = "complete", !.clearing = "no"]]
  BY <1>1
<1>4. CASE run' = [run EXCEPT ![r] = Free]
  <2>1. run' \in [Runs -> RunRow] /\ run'[r] = Free /\ \A q \in Runs \ {r} : run'[q] = run[q]
    BY <1>4, FreeType DEF TypeOK
  <2>2. Free.clearing = "no" /\ ~Free.alone
    BY DEF Free
  <2> QED BY <1>0, <2>1, <2>2
<1>5. CASE run' = [run EXCEPT ![r] = [run[r] EXCEPT !.status = "complete", !.clearing = "no"]]
  <2> DEFINE done == [run[r] EXCEPT !.status = "complete", !.clearing = "no"]
  <2>1. /\ done \in RunRow /\ done.clearing = "no"
        /\ done.alone = run[r].alone /\ done.age = run[r].age
    BY <1>2 DEF RunRow
  <2>2. run' = [run EXCEPT ![r] = done]
    BY <1>5
  <2> HIDE DEF done
  <2>3. run' \in [Runs -> RunRow] /\ run'[r] = done /\ \A q \in Runs \ {r} : run'[q] = run[q]
    BY <2>1, <2>2 DEF TypeOK
  <2> QED BY <1>0, <2>1, <2>3
<1> QED BY <1>3, <1>4, <1>5

-----------------------------------------------------------------------------
(* Type correctness                                                         *)

LEMMA TypeInit == Init => TypeOK
<1> SUFFICES ASSUME Init PROVE TypeOK
  OBVIOUS
<1>1. DayLength \in Nat /\ DayLength > 0 /\ Debounce \in Nat /\ MaxFaults \in Nat
  BY RunsAssumption, TimeAssumption
<1>2. run \in [Runs -> RunRow]
  BY FreeType DEF Init
<1>3. tick \in [pc : {"idle", "loaded", "sending"}, run : Runs \cup {NoRun}, seen : View]
  BY RestingType DEF Init, TickView
<1>4. clock \in 0 .. DayLength - 1 /\ finished \in 0 .. Debounce /\ faults \in 0 .. MaxFaults
  BY <1>1 DEF Init
<1> QED BY <1>2, <1>3, <1>4 DEF Init, TypeOK

LEMMA TypeStep == TypeOK /\ [Next]_vars => TypeOK'
<1> SUFFICES ASSUME TypeOK, [Next]_vars PROVE TypeOK'
  OBVIOUS
<1> USE RunsAssumption, TimeAssumption
<1>1. CASE TickLoad
  BY <1>1 DEF TickLoad, TypeOK, RunRow, View
<1>2. CASE TickSkip
  BY <1>2 DEF TickSkip, TypeOK, Resting, View
<1>3. CASE TickCommit
  <2>1. PICK r \in Runs : Begin(r, TRUE, FALSE) /\ tick' = [tick EXCEPT !.pc = "sending", !.run = r]
    BY <1>3 DEF TickCommit
  <2>2. run' \in [Runs -> RunRow] /\ lock' = r
    BY <2>1, BeginRows
  <2>3. tick' \in TickView
    BY <2>1, FieldTypes DEF TypeOK, TickView
  <2> QED BY <1>3, <2>2, <2>3 DEF TickCommit, TypeOK, TickView
<1>4. CASE TickSend
  <2>1. run' \in [Runs -> RunRow]
    BY <1>4, SendRow DEF TickSend
  <2> QED BY <1>4, <2>1, RestingType DEF TickSend, TypeOK, TickView
<1>5. CASE TickCrash
  <2>1. run' \in [Runs -> RunRow]
    BY <1>5, SendRow DEF TickCrash, TypeOK
  <2>2. tick' = Resting /\ faults' \in 0 .. MaxFaults /\ ticked' \in BOOLEAN
    BY <1>5 DEF TickCrash, TypeOK
  <2> QED BY <1>5, <2>1, <2>2, RestingType DEF TickCrash, TypeOK, TickView
<1>6. CASE ManualRun
  <2>1. PICK r \in Runs : Begin(r, FALSE, TRUE)
    BY <1>6 DEF ManualRun
  <2>2. run' \in [Runs -> RunRow] /\ lock' = r
    BY <2>1, BeginRows
  <2> QED BY <1>6, <2>2 DEF ManualRun, TypeOK
<1>7. ASSUME NEW r \in Runs, LoadUser(r) PROVE TypeOK'
  BY <1>7 DEF LoadUser, TypeOK, RunRow
<1>12. ASSUME NEW r \in Runs, DeadLetter(r) PROVE TypeOK'
  <2>1. [run[r] EXCEPT !.sent = FALSE] \in RunRow
    <3>1. run[r] \in RunRow
      BY DEF TypeOK
    <3> QED BY <3>1 DEF RunRow
  <2>2. run' \in [Runs -> RunRow]
    BY <1>12, <2>1 DEF DeadLetter, TypeOK
  <2>3. faults' \in 0 .. MaxFaults
    BY <1>12 DEF DeadLetter, TypeOK
  <2> QED BY <1>12, <2>2, <2>3 DEF DeadLetter, TypeOK
<1>8. ASSUME NEW r \in Runs, FinishRun(r) PROVE TypeOK'
  <2>1. run' \in [Runs -> RunRow]
    BY <1>8, FinishRows
  <2>2. lock' \in Runs \cup {NoRun} /\ finished' \in 0 .. Debounce
    BY <1>8 DEF FinishRun, TypeOK
  <2> QED BY <1>8, <2>1, <2>2 DEF FinishRun, TypeOK
<1>9. CASE NewTerms \/ AcceptLegalConsent \/ ChangeAccounts
  BY <1>9 DEF NewTerms, AcceptLegalConsent, ChangeAccounts, TypeOK
<1>10. CASE Advance
  <2>1. run' \in [Runs -> RunRow]
    <3>1. \A r \in Runs : run[r].age \in 0 .. StaleAfter
      BY DEF TypeOK, RunRow
    <3>2. \A r \in Runs : Capped(run[r].age + 1, StaleAfter) \in 0 .. StaleAfter
      BY <3>1, CappedType
    <3> QED BY <1>10, <3>2 DEF Advance, TypeOK, RunRow
  <2>2. finished' \in 0 .. Debounce
    BY <1>10, CappedType DEF Advance, TypeOK
  <2>3. clock' \in 0 .. DayLength - 1
    BY <1>10 DEF Advance, TypeOK
  <2> QED BY <1>10, <2>1, <2>2, <2>3 DEF Advance, TypeOK
<1>11. CASE UNCHANGED vars
  BY <1>11 DEF vars, TypeOK
<1> QED BY <1>1, <1>2, <1>3, <1>4, <1>5, <1>6, <1>7, <1>8, <1>9, <1>10, <1>11, <1>12
        DEF Next, Tick

(* Every variable of Scheduler keeps its type, whatever the order of ticks, *)
(* requests and finalizers.                                                 *)
THEOREM TypeCorrect == Spec => []TypeOK
<1>1. Init => TypeOK
  BY TypeInit
<1>2. TypeOK /\ [Next]_vars => TypeOK'
  BY TypeStep
<1> QED BY <1>1, <1>2, PTL DEF Spec

-----------------------------------------------------------------------------
(* The lock never outlives its run                                          *)

(* A finalizer between its read and its write belongs to a run that is      *)
(* still live; when it found another's lock, its run does not get the lock  *)
(* back.                                                                    *)
ClearingIsLive ==
  \A r \in Runs : run[r].clearing # "no" =>
    /\ run[r].status = "live" /\ run[r].sent
    /\ run[r].clearing = "other" => lock # r

LockInv == TypeOK /\ LockOwnerIsLive /\ ClearingIsLive

LEMMA LockInit == Init => LockInv
BY TypeInit, RunsAssumption DEF Init, LockInv, LockOwnerIsLive, ClearingIsLive, Free

(* A new run takes the lock; only its own finalizer could have been caught  *)
(* half-way, and a row whose finalizer works is not free to be a new run.   *)
LEMMA BeginLock ==
  ASSUME LockInv, NEW r \in Runs, NEW scheduled \in BOOLEAN, NEW sent \in BOOLEAN,
         Begin(r, scheduled, sent)
  PROVE  LockOwnerIsLive' /\ ClearingIsLive'
<1>1. /\ lock' = r /\ run'[r].status = "live" /\ run'[r].clearing = "no"
      /\ \A q \in Runs \ {r} :
           /\ run'[q].status = run[q].status /\ run'[q].sent = run[q].sent
           /\ run'[q].clearing = run[q].clearing
  BY BeginRows DEF LockInv
<1> QED BY <1>1 DEF LockInv, LockOwnerIsLive, ClearingIsLive

LEMMA LockStep == LockInv /\ [Next]_vars => LockInv'
<1> SUFFICES ASSUME LockInv, [Next]_vars PROVE LockOwnerIsLive' /\ ClearingIsLive'
  BY TypeStep DEF LockInv
<1> USE RunsAssumption
<1> USE DEF LockInv, LockOwnerIsLive, ClearingIsLive
<1>1. CASE TickLoad \/ TickSkip
  BY <1>1 DEF TickLoad, TickSkip
<1>2. CASE TickCommit
  BY <1>2, BeginLock DEF TickCommit
<1>3. CASE TickSend \/ TickCrash
  BY <1>3, SendRow DEF TickSend, TickCrash, TypeOK
<1>4. CASE ManualRun
  BY <1>4, BeginLock DEF ManualRun
<1>5. ASSUME NEW r \in Runs, LoadUser(r) PROVE LockOwnerIsLive' /\ ClearingIsLive'
  BY <1>5 DEF LoadUser, TypeOK, RunRow
<1>6. ASSUME NEW r \in Runs, FinishRun(r) PROVE LockOwnerIsLive' /\ ClearingIsLive'
  <2>1. /\ run'[r].clearing = "no" /\ \A q \in Runs \ {r} : run'[q] = run[q]
        /\ lock' = NoRun \/ (lock' = lock /\ lock # r)
    BY <1>6, FinishRows DEF FinishRun
  <2> QED BY <2>1 DEF TypeOK
<1>7. CASE NewTerms \/ AcceptLegalConsent \/ ChangeAccounts
  BY <1>7 DEF NewTerms, AcceptLegalConsent, ChangeAccounts
<1>8. CASE Advance
  BY <1>8 DEF Advance, TypeOK, RunRow
<1>9. CASE UNCHANGED vars
  BY <1>9 DEF vars
<1>10. ASSUME NEW r \in Runs, DeadLetter(r) PROVE LockOwnerIsLive' /\ ClearingIsLive'
  BY <1>10 DEF DeadLetter, TypeOK, RunRow
<1> QED BY <1>1, <1>2, <1>3, <1>4, <1>5, <1>6, <1>7, <1>8, <1>9, <1>10 DEF Next, Tick

(* _clear_user_lock compares and then updates without a row lock, and still *)
(* no finished run's lock stays behind.                                     *)
THEOREM LockOwnerLive == Spec => []LockOwnerIsLive
<1>1. Init => LockInv
  BY LockInit
<1>2. LockInv /\ [Next]_vars => LockInv'
  BY LockStep
<1>3. LockInv => LockOwnerIsLive
  BY DEF LockInv
<1> QED BY <1>1, <1>2, <1>3, PTL DEF Spec

-----------------------------------------------------------------------------
(* At most one run of a slot                                                *)

(* While a run has the user to itself, the lock is its own.                 *)
AloneHoldsLock ==
  \A r \in Runs : run[r].alone =>
    /\ run[r].status # "free"
    /\ run[r].status = "live" => lock = r /\ Live \subseteq {r}

(* A success was finished after it began, so that the debounce outlasts it. *)
FinishedSinceStart ==
  \A r \in Runs : run[r].alone /\ run[r].status = "complete" =>
    run[r].age = StaleAfter \/ finished <= run[r].age

(* What a tick has read still tells it of every such run.                   *)
SeesTheRun(r) ==
  \/ run[r].age = StaleAfter
  \/ tick.seen.finished <= run[r].age
  \/ tick.seen.locked /\ tick.seen.age = run[r].age
TickSeesRuns == tick.pc = "loaded" => \A r \in Runs : run[r].alone => SeesTheRun(r)

SlotInv == LockInv /\ AloneHoldsLock /\ FinishedSinceStart /\ TickSeesRuns

LEMMA SlotInit == Init => SlotInv
BY LockInit DEF Init, SlotInv, AloneHoldsLock, FinishedSinceStart, TickSeesRuns, Free, Resting

LEMMA BeginSlot ==
  ASSUME SlotInv, NEW r \in Runs, NEW scheduled \in BOOLEAN, NEW sent \in BOOLEAN,
         Begin(r, scheduled, sent), finished' = finished
  PROVE  AloneHoldsLock' /\ FinishedSinceStart'
<1>1. /\ lock' = r /\ run'[r].status = "live"
      /\ run'[r].alone => scheduled /\ Live \subseteq {r}
      /\ \A q \in Runs \ {r} :
           /\ run'[q].status = run[q].status /\ run'[q].age = run[q].age
           /\ run'[q].alone => run[q].alone /\ run[q].status # "live"
  BY BeginRows DEF SlotInv, LockInv
<1>2. run'[r].alone => Live' \subseteq {r}
  BY <1>1 DEF Live
<1> QED BY <1>1, <1>2 DEF SlotInv, AloneHoldsLock, FinishedSinceStart

LEMMA FinishSlot ==
  ASSUME SlotInv, NEW r \in Runs, FinishRun(r)
  PROVE  AloneHoldsLock' /\ FinishedSinceStart' /\ TickSeesRuns'
<1>1. /\ run' \in [Runs -> RunRow]
      /\ run'[r].alone => run[r].alone /\ run'[r].age = run[r].age
      /\ \A q \in Runs \ {r} : run'[q] = run[q]
      /\ tick' = tick
  BY FinishRows DEF FinishRun, SlotInv, LockInv
<1>2. run[r].status = "live" /\ run[r].clearing # "no"
  BY DEF FinishRun, SlotInv, LockInv, ClearingIsLive
<1>3. run'[r].status # "live" /\ (run'[r].alone => run'[r].status # "free")
  <2>1. run[r] \in RunRow
    BY DEF SlotInv, LockInv, TypeOK
  <2>2. \/ run' = [run EXCEPT ![r] = Free]
        \/ run' = [run EXCEPT ![r] = [run[r] EXCEPT !.status = "complete", !.clearing = "no"]]
    BY DEF FinishRun
  <2>3. \/ run'[r] = Free
        \/ run'[r] = [run[r] EXCEPT !.status = "complete", !.clearing = "no"]
    BY <2>2 DEF SlotInv, LockInv, TypeOK
  <2>4. [run[r] EXCEPT !.status = "complete", !.clearing = "no"].status = "complete"
    BY <2>1 DEF RunRow
  <2>5. Free.status = "free" /\ ~Free.alone
    BY DEF Free
  <2> QED BY <2>3, <2>4, <2>5
<1>4. \A q \in Runs \ {r} : run[q].alone => run[q].status # "live"
  BY <1>2 DEF SlotInv, AloneHoldsLock, Live
<1>5. AloneHoldsLock'
  <2>1. \A q \in Runs : run'[q].alone => run'[q].status \notin {"free", "live"}
    BY <1>1, <1>3, <1>4 DEF SlotInv, AloneHoldsLock
  <2> QED BY <2>1 DEF AloneHoldsLock
<1>6. FinishedSinceStart'
  <2>1. run[r].alone => run[r].clearing = "own"
    BY <1>2 DEF SlotInv, AloneHoldsLock, LockInv, ClearingIsLive, TypeOK, RunRow
  <2>2. run'[r].status = "complete" => finished' = 0
    <3>1. PICK outcome \in {"complete", "failed"} :
            /\ run' = [run EXCEPT ![r] =
                         IF outcome = "complete" /\ @.alone
                         THEN [@ EXCEPT !.status = "complete", !.clearing = "no"] ELSE Free]
            /\ finished' = IF StampsFinish(r, outcome) THEN 0 ELSE finished
      BY DEF FinishRun
    <3>2. ~(outcome = "complete" /\ run[r].alone) => run' = [run EXCEPT ![r] = Free]
      BY <3>1
    <3>3. ~(outcome = "complete" /\ run[r].alone) => run'[r].status = "free"
      BY <3>2 DEF SlotInv, LockInv, TypeOK, Free
    <3>4. run'[r].status = "complete" => outcome = "complete" /\ run[r].alone
      BY <3>3
    <3> QED BY <2>1, <3>1, <3>4 DEF StampsFinish
  <2>3. finished' = finished \/ finished' = 0
    BY DEF FinishRun
  <2>4. \A q \in Runs : run'[q].age \in 0 .. StaleAfter /\ StaleAfter \in Nat
    BY <1>1, TimeAssumption DEF RunRow
  <2>5. ASSUME NEW q \in Runs, run'[q].alone, run'[q].status = "complete"
        PROVE  run'[q].age = StaleAfter \/ finished' <= run'[q].age
    <3>1. CASE q = r
      BY <2>2, <2>4, <2>5, <3>1
    <3>2. CASE q # r
      <4>1. run[q].age = StaleAfter \/ finished <= run[q].age
        BY <1>1, <2>5, <3>2 DEF SlotInv, FinishedSinceStart
      <4> QED BY <1>1, <2>3, <2>4, <3>2, <4>1
    <3> QED BY <3>1, <3>2
  <2> QED BY <2>5 DEF FinishedSinceStart
<1>7. TickSeesRuns'
  BY <1>1 DEF SlotInv, TickSeesRuns, SeesTheRun
<1> QED BY <1>5, <1>6, <1>7

(* Ages and the time since the last finish grow together.                   *)
LEMMA AdvanceSlot ==
  ASSUME SlotInv, Advance
  PROVE  AloneHoldsLock' /\ FinishedSinceStart' /\ TickSeesRuns'
<1> USE TimeAssumption
<1>1. \A r \in Runs : run[r] \in RunRow
  BY DEF SlotInv, LockInv, TypeOK
<1>2. ASSUME NEW r \in Runs
      PROVE  /\ run'[r].status = run[r].status /\ run'[r].alone = run[r].alone
             /\ run[r].status # "free" => run'[r].age = Capped(run[r].age + 1, StaleAfter)
  BY <1>1 DEF Advance, RunRow
<1>3. AloneHoldsLock'
  BY <1>2 DEF Advance, SlotInv, AloneHoldsLock, Live
<1>4. ASSUME NEW r \in Runs, run'[r].alone, run'[r].status = "complete"
      PROVE  run'[r].age = StaleAfter \/ finished' <= run'[r].age
  <2>1. run[r].age \in 0 .. StaleAfter /\ finished \in 0 .. Debounce
    BY <1>1 DEF RunRow, SlotInv, LockInv, TypeOK
  <2>2. run[r].age = StaleAfter \/ finished <= run[r].age
    BY <1>2, <1>4 DEF SlotInv, FinishedSinceStart
  <2>3. run'[r].age = Capped(run[r].age + 1, StaleAfter) /\ finished' = Capped(finished + 1, Debounce)
    BY <1>2, <1>4 DEF Advance
  <2> QED BY <2>1, <2>2, <2>3 DEF Capped
<1>5. TickSeesRuns'
  BY DEF Advance, TickSeesRuns
<1> QED BY <1>3, <1>4, <1>5 DEF FinishedSinceStart

LEMMA SlotStep == SlotInv /\ [Next]_vars => SlotInv'
<1> SUFFICES ASSUME SlotInv, [Next]_vars
             PROVE  AloneHoldsLock' /\ FinishedSinceStart' /\ TickSeesRuns'
  BY LockStep DEF SlotInv
<1>0. TypeOK
  BY DEF SlotInv, LockInv
<1> USE DEF SlotInv, AloneHoldsLock, FinishedSinceStart, TickSeesRuns, SeesTheRun
<1>1. CASE TickLoad
  <2>1. ASSUME NEW r \in Runs, run[r].alone PROVE SeesTheRun(r)'
    <3>1. run[r].status = "live" \/ run[r].status = "complete"
      BY <1>0, <2>1 DEF TypeOK, RunRow
    <3>2. /\ run' = run /\ tick'.seen.finished = finished
          /\ lock # NoRun => tick'.seen.locked /\ tick'.seen.age = run[lock].age
      BY <1>1 DEF TickLoad
    <3>3. CASE run[r].status = "live"
      BY <2>1, <3>2, <3>3, RunsAssumption
    <3>4. CASE run[r].status = "complete"
      BY <2>1, <3>2, <3>4
    <3> QED BY <3>1, <3>3, <3>4
  <2> QED BY <1>1, <2>1 DEF TickLoad, Live
<1>2. CASE TickSkip
  BY <1>2 DEF TickSkip, Resting, Live
<1>3. CASE TickCommit
  <2>1. tick'.pc # "loaded"
    BY <1>0, <1>3 DEF TickCommit, TypeOK
  <2> QED BY <1>3, <2>1, BeginSlot DEF TickCommit
<1>4. CASE TickSend \/ TickCrash
  <2>1. tick'.pc # "loaded" /\ lock' = lock /\ finished' = finished
    BY <1>4 DEF TickSend, TickCrash, Resting
  <2>2. \A r \in Runs : /\ run'[r].status = run[r].status /\ run'[r].age = run[r].age
                        /\ run'[r].alone = run[r].alone
    BY <1>0, <1>4, SendRow DEF TickSend, TickCrash
  <2> QED BY <2>1, <2>2 DEF Live
<1>5. CASE ManualRun
  <2>1. PICK r \in Runs : Begin(r, FALSE, TRUE)
    BY <1>5 DEF ManualRun
  <2>2. \A q \in Runs : run'[q].alone => run[q].alone /\ run'[q].age = run[q].age
    BY <1>0, <2>1, BeginRows
  <2> QED BY <1>5, <2>1, <2>2, BeginSlot DEF ManualRun
<1>6. ASSUME NEW r \in Runs, LoadUser(r) \/ DeadLetter(r)
      PROVE  AloneHoldsLock' /\ FinishedSinceStart' /\ TickSeesRuns'
  <2>1. \A q \in Runs : /\ run'[q].status = run[q].status /\ run'[q].age = run[q].age
                        /\ run'[q].alone = run[q].alone
    BY <1>0, <1>6 DEF LoadUser, DeadLetter, TypeOK, RunRow
  <2> QED BY <1>6, <2>1 DEF LoadUser, DeadLetter, Live
<1>7. ASSUME NEW r \in Runs, FinishRun(r)
      PROVE  AloneHoldsLock' /\ FinishedSinceStart' /\ TickSeesRuns'
  BY <1>7, FinishSlot
<1>8. CASE NewTerms \/ AcceptLegalConsent \/ ChangeAccounts
  BY <1>8 DEF NewTerms, AcceptLegalConsent, ChangeAccounts, Live
<1>9. CASE Advance
  BY <1>9, AdvanceSlot
<1>10. CASE UNCHANGED vars
  BY <1>10 DEF vars, Live
<1> QED BY <1>1, <1>2, <1>3, <1>4, <1>5, <1>6, <1>7, <1>8, <1>9, <1>10 DEF Next, Tick

(* A tick starts a run only when what it read excludes a young one.         *)
LEMMA SlotAction ==
  ASSUME SlotInv, [Next]_vars, NEW r \in Runs, NEW s \in Runs,
         tick.run # s, tick'.run = s, r # s, run[r].alone
  PROVE  run[r].age > 2 * HalfWindow
<1>1. TickCommit
  <2>1. tick' # tick /\ tick'.run # NoRun
    BY RunsAssumption
  <2>2. ~(TickLoad \/ TickSkip \/ TickSend \/ TickCrash)
    BY <2>1 DEF TickLoad, TickSkip, TickSend, TickCrash, Resting
  <2>3. ~(ManualRun \/ NewTerms \/ AcceptLegalConsent \/ ChangeAccounts \/ Advance)
    BY <2>1 DEF ManualRun, NewTerms, AcceptLegalConsent, ChangeAccounts, Advance
  <2>4. \A q \in Runs : ~(LoadUser(q) \/ FinishRun(q) \/ DeadLetter(q))
    BY <2>1 DEF LoadUser, FinishRun, DeadLetter
  <2>5. ~UNCHANGED vars
    BY <2>1 DEF vars
  <2> QED BY <2>2, <2>3, <2>4, <2>5 DEF Next, Tick
<1>2. SeesTheRun(r)
  BY <1>1 DEF TickCommit, SlotInv, TickSeesRuns
<1>3. tick.seen.finished >= Debounce /\ (tick.seen.locked => tick.seen.age >= StaleAfter)
  BY <1>1 DEF TickCommit, TickAdmits, IsDue
<1>4. run[r].age \in Nat /\ tick.seen.finished \in Nat /\ tick.seen.age \in Nat
  BY DEF SlotInv, LockInv, TypeOK, RunRow, View
<1> QED BY <1>2, <1>3, <1>4, TimeAssumption DEF SeesTheRun

(* Two ticks match a slot, a tick may be invoked twice, manual runs and     *)
(* finalizers come in between: is_due still starts one run of the slot,     *)
(* whatever the slots, as long as the debounce and the stale span outlast   *)
(* the window.                                                              *)
THEOREM OneRunOfASlot == Spec => OneRunPerSlot
<1>1. Init => SlotInv
  BY SlotInit
<1>2. SlotInv /\ [Next]_vars => SlotInv'
  BY SlotStep
<1>3. SlotInv /\ [Next]_vars =>
        [\A r, s \in Runs : tick.run # s /\ tick'.run = s /\ r # s /\ run[r].alone
                              => run[r].age > 2 * HalfWindow]_vars
  BY SlotAction
<1> QED BY <1>1, <1>2, <1>3, PTL DEF Spec, OneRunPerSlot

-----------------------------------------------------------------------------
(* Profile: the calendar                                                    *)

(* A clock change and a window are together shorter than a day, and a wall   *)
(* time that the change skips and the one at which its slot comes due are   *)
(* on one day.                                                              *)
OrdinaryClocks ==
  \A z \in Zones :
    /\ z.after - z.before \in -(DayUnits - DueWindow - 1) .. DayUnits - DueWindow - 1
    /\ z.before < z.after =>
         (z.at + z.before) \div DayUnits
           = (z.at + z.after + (z.after - z.before) - 1) \div DayUnits

(* The slot of a local day.                                                 *)
Slot(day, w, z) == UtcTime(DayUnits * day + w, z)
LocalDay(t, z) == LocalTime(t, z) \div DayUnits

LEMMA ZoneTypes ==
  ASSUME NEW z \in Zones
  PROVE  z.before \in Int /\ z.after \in Int /\ z.at \in Int
BY CalendarAssumption

LEMMA ChangeIsShort ==
  ASSUME OrdinaryClocks, NEW z \in Zones
  PROVE  /\ z.after - z.before < DayUnits - DueWindow
         /\ z.before - z.after < DayUnits - DueWindow
         /\ z.after - z.before < DayUnits /\ z.before - z.after < DayUnits
<1>1. z.after - z.before \in -(DayUnits - DueWindow - 1) .. DayUnits - DueWindow - 1
  BY DEF OrdinaryClocks
<1> QED BY <1>1, ZoneTypes, CalendarAssumption

LEMMA DayOf ==
  ASSUME NEW x \in Int
  PROVE  /\ x \div DayUnits \in Int
         /\ DayUnits * (x \div DayUnits) <= x
         /\ x < DayUnits * (x \div DayUnits) + DayUnits
BY CalendarAssumption

(* Whole days are ordered as their first instants are.                      *)
LEMMA DayOrder ==
  ASSUME NEW j \in Int, NEW k \in Int
  PROVE  /\ DayUnits * j \in Int
         /\ j < k => DayUnits * j + DayUnits <= DayUnits * k
         /\ DayUnits * (j + 1) = DayUnits * j + DayUnits
         /\ DayUnits * (j + 2) = DayUnits * j + 2 * DayUnits
         /\ DayUnits * (j - 1) = DayUnits * j - DayUnits
BY CalendarAssumption

(* What the projection of a wall time is: one of the two offsets, and never *)
(* later than the other by more than the change.                            *)
LEMMA UtcTimeIs ==
  ASSUME NEW z \in Zones, NEW wall \in Int
  PROVE  /\ UtcTime(wall, z) \in Int
         /\ UtcTime(wall, z) = wall - z.before \/ UtcTime(wall, z) = wall - z.after
BY ZoneTypes DEF UtcTime

LEMMA LocalTimeIs ==
  ASSUME NEW z \in Zones, NEW t \in Int
  PROVE  /\ LocalTime(t, z) \in Int
         /\ LocalTime(t, z) = t + z.before \/ LocalTime(t, z) = t + z.after
BY ZoneTypes DEF LocalTime

(* A later wall time by a day or more is a later instant.                   *)
LEMMA SlotsAreOrdered ==
  ASSUME OrdinaryClocks, NEW z \in Zones, NEW w \in 0 .. DayUnits - 1, NEW j \in Int, NEW k \in Int,
         j < k
  PROVE  Slot(j, w, z) < Slot(k, w, z)
<1>1. DayUnits * j + w \in Int /\ DayUnits * k + w \in Int
      /\ (DayUnits * k + w) - (DayUnits * j + w) >= DayUnits
  BY DayOrder, CalendarAssumption
<1> DEFINE x == DayUnits * j + w
           y == DayUnits * k + w
<1>2. x \in Int /\ y \in Int /\ y - x >= DayUnits
  BY <1>1
<1>3. z.after - z.before < DayUnits /\ z.before - z.after < DayUnits
  BY ChangeIsShort
<1> HIDE DEF x, y
<1>4. UtcTime(x, z) < UtcTime(y, z)
  <2>1. /\ UtcTime(x, z) = x - z.before \/ UtcTime(x, z) = x - z.after
        /\ UtcTime(y, z) = y - z.before \/ UtcTime(y, z) = y - z.after
    BY <1>2, UtcTimeIs
  <2> QED BY <2>1, <1>2, <1>3, ZoneTypes, CalendarAssumption
<1> QED BY <1>4 DEF x, y, Slot

(* A slot close to an instant is of the local day before, the same or the   *)
(* next.                                                                    *)
LEMMA NearSlots ==
  ASSUME OrdinaryClocks, NEW z \in Zones, NEW w \in 0 .. DayUnits - 1, NEW k \in Int, NEW t \in Int,
         Slot(k, w, z) - t \in -DueWindow .. DueWindow
  PROVE  k - LocalDay(t, z) \in {-1, 0, 1}
<1> DEFINE wall == DayUnits * k + w
           local == LocalTime(t, z)
           q == LocalDay(t, z)
<1>1. wall \in Int /\ DayUnits * k <= wall /\ wall < DayUnits * k + DayUnits
  BY DayOrder, CalendarAssumption
<1>2. /\ local \in Int /\ q \in Int
      /\ DayUnits * q <= local /\ local < DayUnits * q + DayUnits
  BY LocalTimeIs, DayOf DEF LocalDay
<1>3. UtcTime(wall, z) \in Int /\ t - DueWindow <= UtcTime(wall, z) /\ UtcTime(wall, z) <= t + DueWindow
  <2>1. UtcTime(wall, z) \in Int
    BY <1>1, UtcTimeIs
  <2>2. UtcTime(wall, z) - t \in -DueWindow .. DueWindow
    BY DEF Slot
  <2> HIDE DEF wall
  <2> QED BY <2>1, <2>2, CalendarAssumption
<1>4. /\ UtcTime(wall, z) = wall - z.before \/ UtcTime(wall, z) = wall - z.after
      /\ local = t + z.before \/ local = t + z.after
  BY <1>1, UtcTimeIs, LocalTimeIs
<1>5. /\ z.after \in Int /\ z.before \in Int /\ DayUnits \in Int /\ DueWindow \in Int
      /\ z.after - z.before < DayUnits - DueWindow
      /\ z.before - z.after < DayUnits - DueWindow
  BY ZoneTypes, ChangeIsShort, CalendarAssumption
<1> HIDE DEF wall, local, q
<1>6. wall - local < DayUnits /\ local - wall < DayUnits
  BY <1>1, <1>2, <1>3, <1>4, <1>5
<1>7. k < q + 2
  <2> SUFFICES ASSUME k >= q + 2 PROVE FALSE
    BY <1>2
  <2>1. DayUnits * (q + 2) <= DayUnits * k
    BY <1>2, CalendarAssumption, DayOrder
  <2> QED BY <2>1, <1>1, <1>2, <1>6, DayOrder, CalendarAssumption
<1>8. k > q - 2
  <2> SUFFICES ASSUME k + 1 < q PROVE FALSE
    BY <1>2
  <2>1. DayUnits * (k + 1) + DayUnits <= DayUnits * q
    BY <1>2, DayOrder
  <2> QED BY <2>1, <1>1, <1>2, <1>6, DayOrder, CalendarAssumption
<1> QED BY <1>2, <1>7, <1>8 DEF q

(* A slot to come is of no earlier local day.                               *)
LEMMA NoSlotFromYesterday ==
  ASSUME OrdinaryClocks, NEW z \in Zones, NEW w \in 0 .. DayUnits - 1, NEW k \in Int, NEW t \in Int,
         Slot(k, w, z) > t
  PROVE  k >= LocalDay(t, z)
<1> DEFINE wall == DayUnits * k + w
           local == LocalTime(t, z)
           q == LocalDay(t, z)
<1>1. wall \in Int /\ DayUnits * k <= wall /\ wall < DayUnits * k + DayUnits
  BY DayOrder, CalendarAssumption
<1>2. /\ local \in Int /\ q \in Int
      /\ DayUnits * q <= local /\ local < DayUnits * q + DayUnits
  BY LocalTimeIs, DayOf DEF LocalDay
<1>3. UtcTime(wall, z) > t
  BY DEF Slot
<1> SUFFICES ASSUME k < q PROVE FALSE
  BY <1>2
<1>4. wall < DayUnits * q /\ wall < local
  <2>1. q \in Int /\ DayUnits \in Int
    BY <1>2, CalendarAssumption
  <2> HIDE DEF wall, local, q
  <2>2. DayUnits * k + DayUnits <= DayUnits * q /\ DayUnits * k \in Int /\ DayUnits * q \in Int
    BY <2>1, DayOrder, Zenon
  <2> QED BY <2>1, <2>2, <1>1, <1>2
<1>5. z.before \in Int /\ z.after \in Int /\ z.at \in Int
  BY ZoneTypes
<1> HIDE DEF wall
<1>6. /\ local = t + z.after /\ t >= z.at
      /\ z.before < z.after
      /\ z.at + z.before <= wall /\ wall < z.at + z.after
      /\ t < wall - z.before
  <2>1. local = t + IF t < z.at THEN z.before ELSE z.after
    BY DEF LocalTime
  <2>2. UtcTime(wall, z)
          = wall - IF wall < z.at + (IF z.before > z.after THEN z.before ELSE z.after)
                   THEN z.before ELSE z.after
    BY DEF UtcTime
  <2> HIDE DEF local
  <2> QED BY <2>1, <2>2, <1>1, <1>2, <1>3, <1>4, <1>5
<1> DEFINE first == z.at + z.before
           last == z.at + z.after + (z.after - z.before) - 1
           gap == first \div DayUnits
<1>7. /\ gap \in Int /\ first \in Int /\ last \in Int
      /\ DayUnits * gap <= first /\ last < DayUnits * gap + DayUnits
  <2>1. first \in Int /\ last \in Int
    BY <1>5
  <2>2. first \div DayUnits = last \div DayUnits
    BY <1>6 DEF OrdinaryClocks
  <2> HIDE DEF first, last
  <2> QED BY <2>1, <2>2, DayOf
<1>8. local <= last /\ first <= wall
  <2>1. wall - z.before <= z.after + (z.at - z.before) - 1 /\ t <= wall - z.before - 1
    <3> HIDE DEF local
    <3> QED BY <1>1, <1>5, <1>6
  <2>2. local = t + z.after
    BY <1>6
  <2> HIDE DEF local
  <2> QED BY <2>1, <2>2, <1>1, <1>5, <1>6
<1> HIDE DEF gap, first, last, local, q
<1>9. q <= gap
  <2> SUFFICES ASSUME gap < q PROVE FALSE
    BY <1>2, <1>7
  <2>1. DayUnits * gap + DayUnits <= DayUnits * q
    BY <1>2, <1>7, DayOrder
  <2> QED BY <2>1, <1>2, <1>7, <1>8, DayOrder, CalendarAssumption
<1>10. DayUnits * q <= DayUnits * gap
  BY <1>2, <1>7, <1>9, DayOrder, CalendarAssumption
<1>11. DayUnits * q \in Int /\ DayUnits * gap \in Int
  BY <1>2, <1>7, DayOrder
<1> QED BY <1>1, <1>2, <1>4, <1>7, <1>8, <1>10, <1>11
ScheduleRow == [frequency : Frequencies, times : Seq(0 .. DayUnits - 1), zone : Zones]

LEMMA Elements ==
  ASSUME NEW S, NEW q \in Seq(S), NEW i \in DOMAIN q
  PROVE  q[i] \in S
OBVIOUS

LEMMA SlotTypes ==
  ASSUME NEW s \in ScheduleRow, NEW t \in Int
  PROVE  /\ s.zone \in Zones /\ LocalDay(t, s.zone) \in Int
         /\ \A i \in DOMAIN s.times : s.times[i] \in 0 .. DayUnits - 1
         /\ \A k \in Int, i \in DOMAIN s.times : Slot(k, s.times[i], s.zone) \in Int
<1>1. s.zone \in Zones /\ s.times \in Seq(0 .. DayUnits - 1)
  BY DEF ScheduleRow
<1>2. \A i \in DOMAIN s.times : s.times[i] \in 0 .. DayUnits - 1
  BY <1>1, Elements, Zenon
<1>3. LocalDay(t, s.zone) \in Int
  BY <1>1, LocalTimeIs, DayOf DEF LocalDay
<1>4. \A k \in Int, i \in DOMAIN s.times : Slot(k, s.times[i], s.zone) \in Int
  <2> TAKE k \in Int, i \in DOMAIN s.times
  <2>1. s.times[i] \in Int /\ DayUnits * k \in Int
    BY <1>2, DayOrder, CalendarAssumption
  <2>2. DayUnits * k + s.times[i] \in Int
    BY <2>1
  <2> QED BY <1>1, <2>2, UtcTimeIs DEF Slot
<1> QED BY <1>1, <1>2, <1>3, <1>4

LEMMA SlotsOnDays ==
  ASSUME NEW days, NEW s, NEW t
  PROVE  \A c : c \in SlotsOn(days, t, s)
                  <=> \E d \in days, i \in DOMAIN s.times :
                        c = Slot(LocalDay(t, s.zone) + d, s.times[i], s.zone)
BY SMT DEF SlotsOn, Slot, LocalDay

(* The predicate looks at three local days and misses no slot.              *)
LEMMA MatchesAnySlot ==
  ASSUME OrdinaryClocks, NEW s \in ScheduleRow, NEW t \in Int
  PROVE  MatchesTick(t, s)
           <=> /\ s.frequency # "disabled"
               /\ \E k \in Int, i \in DOMAIN s.times :
                    Slot(k, s.times[i], s.zone) - t \in -DueWindow .. DueWindow
<1> DEFINE q == LocalDay(t, s.zone)
<1>1. s.zone \in Zones /\ q \in Int
  BY SlotTypes
<1>2. \A c : c \in CandidateSlots(t, s)
               <=> \E d \in {-1, 0, 1}, i \in DOMAIN s.times : c = Slot(q + d, s.times[i], s.zone)
  <2> DEFINE near == {-1, 0, 1}
  <2>1. CandidateSlots(t, s) = SlotsOn(near, t, s)
    BY DEF CandidateSlots
  <2> HIDE DEF near
  <2>2. \A c : c \in CandidateSlots(t, s)
                 <=> \E d \in near, i \in DOMAIN s.times : c = Slot(q + d, s.times[i], s.zone)
    BY <2>1, SlotsOnDays
  <2> QED BY <2>2 DEF near
<1>3. \A i \in DOMAIN s.times : s.times[i] \in 0 .. DayUnits - 1
  BY SlotTypes
<1> HIDE DEF q
<1>4. ASSUME NEW k \in Int, NEW i \in DOMAIN s.times,
             Slot(k, s.times[i], s.zone) - t \in -DueWindow .. DueWindow
      PROVE  Slot(k, s.times[i], s.zone) \in CandidateSlots(t, s)
  <2>1. k - q \in {-1, 0, 1}
    BY <1>1, <1>3, <1>4, NearSlots DEF q
  <2>2. k = q + (k - q)
    BY <1>1
  <2> QED BY <1>2, <2>1, <2>2
<1>5. ASSUME NEW c \in CandidateSlots(t, s), c - t \in -DueWindow .. DueWindow
      PROVE  \E k \in Int, i \in DOMAIN s.times :
               Slot(k, s.times[i], s.zone) - t \in -DueWindow .. DueWindow
  <2>1. PICK d \in {-1, 0, 1}, i \in DOMAIN s.times : c = Slot(q + d, s.times[i], s.zone)
    BY <1>2
  <2>2. q + d \in Int
    BY <1>1
  <2> QED BY <1>5, <2>1, <2>2
<1> QED BY <1>4, <1>5 DEF MatchesTick

(* The preview looks at three local days and names the first slot to come.  *)
LEMMA NextSlotIsFirst ==
  ASSUME OrdinaryClocks, NEW s \in ScheduleRow, NEW t \in Int
  PROVE  \/ NextSlot(t, s) = Null /\ (s.frequency = "disabled" \/ DOMAIN s.times = {})
         \/ /\ NextSlot(t, s) \in Int /\ NextSlot(t, s) > t /\ s.frequency # "disabled"
            /\ \E k \in Int, i \in DOMAIN s.times : NextSlot(t, s) = Slot(k, s.times[i], s.zone)
            /\ \A k \in Int, i \in DOMAIN s.times :
                 Slot(k, s.times[i], s.zone) > t => NextSlot(t, s) <= Slot(k, s.times[i], s.zone)
<1> DEFINE q == LocalDay(t, s.zone)
           up == UpcomingSlots(t, s)
<1>1. s.zone \in Zones /\ q \in Int
  BY SlotTypes
<1>2. \A c : c \in up <=> /\ c > t
                          /\ \E d \in {0, 1, 2}, i \in DOMAIN s.times :
                               c = Slot(q + d, s.times[i], s.zone)
  <2>1. up = {c \in SlotsOn({0, 1, 2}, t, s) : c > t}
    BY DEF UpcomingSlots
  <2> HIDE DEF up
  <2>2. \A c : c \in up <=> c > t /\ c \in SlotsOn({0, 1, 2}, t, s)
    BY <2>1
  <2> QED BY <2>2, SlotsOnDays
<1>3. \A k \in Int, i \in DOMAIN s.times :
        s.times[i] \in 0 .. DayUnits - 1 /\ Slot(k, s.times[i], s.zone) \in Int
  BY SlotTypes
<1> SUFFICES ASSUME s.frequency # "disabled", DOMAIN s.times # {}
             PROVE  /\ NextSlot(t, s) \in Int /\ NextSlot(t, s) > t
                    /\ \E k \in Int, i \in DOMAIN s.times : NextSlot(t, s) = Slot(k, s.times[i], s.zone)
                    /\ \A k \in Int, i \in DOMAIN s.times :
                         Slot(k, s.times[i], s.zone) > t => NextSlot(t, s) <= Slot(k, s.times[i], s.zone)
  <2>1. DOMAIN s.times = {} => up = {}
    BY <1>2
  <2> QED BY <2>1 DEF NextSlot
<1>4. \A c \in up : c \in Int /\ c > t
  <2> SUFFICES ASSUME NEW c \in up PROVE c \in Int /\ c > t
    OBVIOUS
  <2> HIDE DEF q
  <2>1. PICK d \in {0, 1, 2}, i \in DOMAIN s.times : c = Slot(q + d, s.times[i], s.zone) /\ c > t
    BY <1>2
  <2>2. q + d \in Int
    BY <1>1
  <2> QED BY <1>3, <2>1, <2>2
<1>5. ASSUME NEW i \in DOMAIN s.times PROVE Slot(q + 2, s.times[i], s.zone) \in up
  <2>1. Slot(q + 2, s.times[i], s.zone) > t
    <3> DEFINE wall == DayUnits * (q + 2) + s.times[i]
               local == LocalTime(t, s.zone)
    <3>1. local \in Int /\ DayUnits * q <= local /\ local < DayUnits * q + DayUnits
      BY <1>1, LocalTimeIs, DayOf DEF LocalDay
    <3>2. wall \in Int /\ wall >= DayUnits * q + 2 * DayUnits /\ DayUnits * q \in Int
      <4>1. /\ DayUnits * (q + 2) = DayUnits * q + 2 * DayUnits
            /\ DayUnits * q \in Int /\ DayUnits \in Int
        BY <1>1, DayOrder, CalendarAssumption
      <4>2. s.times[i] \in 0 .. DayUnits - 1
        BY <1>3
      <4> QED BY <4>1, <4>2
    <3>3. local = t + s.zone.before \/ local = t + s.zone.after
      BY <1>1, LocalTimeIs
    <3>4. /\ UtcTime(wall, s.zone) = wall - s.zone.before \/ UtcTime(wall, s.zone) = wall - s.zone.after
      BY <1>1, <3>2, UtcTimeIs
    <3>5. /\ s.zone.after \in Int /\ s.zone.before \in Int /\ DayUnits \in Int
          /\ s.zone.after - s.zone.before < DayUnits
          /\ s.zone.before - s.zone.after < DayUnits
      BY <1>1, ZoneTypes, ChangeIsShort, CalendarAssumption
    <3>6. Slot(q + 2, s.times[i], s.zone) = UtcTime(wall, s.zone)
      BY DEF Slot
    <3> HIDE DEF wall, local, q
    <3> QED BY <3>1, <3>2, <3>3, <3>4, <3>5, <3>6
  <2> QED BY <1>2, <2>1
<1>6. PICK m \in up : \A c \in up : m <= c
  <2>1. up \in SUBSET Int /\ up # {} /\ \A c \in up : t <= c
    BY <1>4, <1>5
  <2> HIDE DEF up
  <2> QED BY <2>1, SmallestAbove
<1>7. NextSlot(t, s) \in up /\ \A c \in up : NextSlot(t, s) <= c
  BY <1>6 DEF NextSlot
<1>8. \E k \in Int, i \in DOMAIN s.times : NextSlot(t, s) = Slot(k, s.times[i], s.zone)
  <2>1. PICK d \in {0, 1, 2}, i \in DOMAIN s.times : NextSlot(t, s) = Slot(q + d, s.times[i], s.zone)
    BY <1>2, <1>7
  <2>2. q + d \in Int
    BY <1>1
  <2> QED BY <2>1, <2>2
<1>9. ASSUME NEW k \in Int, NEW i \in DOMAIN s.times, Slot(k, s.times[i], s.zone) > t
      PROVE  NextSlot(t, s) <= Slot(k, s.times[i], s.zone)
  <2> HIDE DEF q, up
  <2>1. k >= q
    BY <1>1, <1>3, <1>9, NoSlotFromYesterday DEF q
  <2>2. CASE k \in {q, q + 1, q + 2}
    <3>1. k = q + (k - q) /\ k - q \in {0, 1, 2}
      BY <1>1, <2>2
    <3>2. Slot(k, s.times[i], s.zone) \in up
      BY <1>2, <1>9, <3>1
    <3> QED BY <1>7, <3>2
  <2>3. CASE k > q + 2
    <3>1. Slot(q + 2, s.times[i], s.zone) < Slot(k, s.times[i], s.zone)
      BY <1>1, <1>3, <2>3, SlotsAreOrdered
    <3>2. NextSlot(t, s) <= Slot(q + 2, s.times[i], s.zone)
      BY <1>5, <1>7
    <3> QED BY <1>1, <1>3, <1>4, <1>7, <3>1, <3>2
  <2> QED BY <1>1, <2>1, <2>2, <2>3
<1> QED BY <1>4, <1>7, <1>8, <1>9

-----------------------------------------------------------------------------
(* The preview on display is that of the schedule as it stands.             *)
ProfileInv ==
  /\ now \in Int /\ user \in ScheduleRow
  /\ \A p \in Patches : held[p] # Idle => held[p] \in ScheduleRow
  /\ DOMAIN held = Patches
  /\ shown # Idle => shown.at \in Int /\ shown.at <= now /\ shown = Preview(shown.at, user)

LEMMA PreviewFollows ==
  ASSUME OrdinaryClocks, ProfileInv
  PROVE  PreviewHolds
<1> SUFFICES ASSUME shown # Idle PROVE PreviewHolds
  BY DEF PreviewHolds
<1> DEFINE n == shown.next
<1>1. now \in Int /\ user \in ScheduleRow /\ shown.at \in Int /\ DueWindow \in Nat
      /\ n = NextSlot(shown.at, user)
  BY CalendarAssumption DEF ProfileInv, Preview
<1> SUFFICES ASSUME ~(n # Null /\ now > n + DueWindow), now > shown.at + DueWindow
             PROVE  MatchesTick(now, user) <=> n # Null /\ now >= n - DueWindow
  BY DEF PreviewHolds
<1>2. CASE n = Null
  <2>1. user.frequency = "disabled" \/ DOMAIN user.times = {}
    BY <1>1, <1>2, NextSlotIsFirst, CalendarAssumption
  <2> QED BY <1>1, <1>2, <2>1, MatchesAnySlot
<1>3. CASE n # Null
  <2>1. /\ n \in Int /\ n > shown.at /\ user.frequency # "disabled"
        /\ \E k \in Int, i \in DOMAIN user.times : n = Slot(k, user.times[i], user.zone)
        /\ \A k \in Int, i \in DOMAIN user.times :
             Slot(k, user.times[i], user.zone) > shown.at => n <= Slot(k, user.times[i], user.zone)
    <3>1. NextSlot(shown.at, user) # Null
      BY <1>1, <1>3
    <3>2. user \in ScheduleRow /\ shown.at \in Int
      BY <1>1
    <3> QED BY <1>1, <3>1, <3>2, NextSlotIsFirst, ZenonT(30)
  <2>2. \A k \in Int, i \in DOMAIN user.times : Slot(k, user.times[i], user.zone) \in Int
    BY <1>1, SlotTypes
  <2> HIDE DEF n
  <2>3. ASSUME now >= n - DueWindow PROVE MatchesTick(now, user)
    <3>1. n - now \in -DueWindow .. DueWindow
      BY <1>1, <1>3, <2>1, <2>3
    <3> QED BY <1>1, <2>1, <3>1, MatchesAnySlot
  <2>4. ASSUME MatchesTick(now, user) PROVE now >= n - DueWindow
    <3>1. PICK k \in Int, i \in DOMAIN user.times :
            Slot(k, user.times[i], user.zone) - now \in -DueWindow .. DueWindow
      BY <1>1, <2>4, MatchesAnySlot
    <3> DEFINE c == Slot(k, user.times[i], user.zone)
    <3>2. c \in Int /\ c - now \in -DueWindow .. DueWindow /\ (c > shown.at => n <= c)
      BY <2>1, <2>2, <3>1
    <3> HIDE DEF c
    <3> QED BY <1>1, <2>1, <3>2
  <2> QED BY <1>3, <2>3, <2>4
<1> QED BY <1>2, <1>3

LEMMA PatchedType ==
  ASSUME NEW body \in Bodies, NEW seen \in ScheduleRow, user \in ScheduleRow, ~Refused(body, seen)
  PROVE  /\ Patched(body, seen) \in ScheduleRow
         /\ Merged(Patched(body, seen), seen) \in ScheduleRow
<1> DEFINE new == Patched(body, seen)
<1>1. body.frequency # Null /\ body.zone # Null
  BY DEF Refused
<1>2. new \in ScheduleRow
  <2>1. new.frequency \in Frequencies /\ new.zone \in Zones
    BY <1>1 DEF Patched, Bodies, ScheduleRow
  <2>2. new.times \in Seq(0 .. DayUnits - 1)
    <3>1. <<>> \in Seq(0 .. DayUnits - 1)
      OBVIOUS
    <3>2. TimesOfDay \subseteq Seq(0 .. DayUnits - 1)
      BY CalendarAssumption
    <3>3. body.times \in TimesOfDay \cup {Unset, Null} /\ seen.times \in Seq(0 .. DayUnits - 1)
      BY DEF Bodies, ScheduleRow
    <3>4. new.times = CASE body.times = Unset -> seen.times [] body.times = Null -> <<>>
                        [] OTHER -> body.times
      BY DEF Patched
    <3> QED BY <3>1, <3>2, <3>3, <3>4, Zenon
  <2>3. new = [frequency |-> new.frequency, times |-> new.times, zone |-> new.zone]
    BY DEF Patched
  <2> HIDE DEF new
  <2> QED BY <2>1, <2>2, <2>3 DEF ScheduleRow
<1> HIDE DEF new
<1>3. Merged(new, seen) \in ScheduleRow
  <2> DEFINE row == Merged(new, seen)
  <2>1. DOMAIN user = {"frequency", "times", "zone"}
    BY DEF ScheduleRow
  <2>2. /\ row.frequency \in Frequencies /\ row.times \in Seq(0 .. DayUnits - 1) /\ row.zone \in Zones
    BY <1>2, <2>1 DEF Merged, ScheduleRow
  <2>3. row = [frequency |-> row.frequency, times |-> row.times, zone |-> row.zone]
    BY <2>1 DEF Merged
  <2> HIDE DEF row
  <2>4. row \in ScheduleRow
    BY <2>2, <2>3, Zenon DEF ScheduleRow
  <2> QED BY <2>4 DEF row
<1> QED BY <1>2, <1>3 DEF new

LEMMA ProfileInvHolds ==
  ProfileInit /\ [][ProfileNext]_profileVars => []ProfileInv
<1>1. ProfileInit => ProfileInv
  BY CalendarAssumption DEF ProfileInit, ProfileInv, Schedule, ScheduleRow
<1>2. ProfileInv /\ [ProfileNext]_profileVars => ProfileInv'
  <2> SUFFICES ASSUME ProfileInv, [ProfileNext]_profileVars PROVE ProfileInv'
    OBVIOUS
  <2>1. CASE GetSchedule
    <3>1. shown' = [at |-> now, next |-> NextSlot(now, user)]
      BY <2>1 DEF GetSchedule, Preview
    <3>2. shown'.at = now
      BY <3>1
    <3>3. shown' = Preview(shown'.at, user)
      BY <3>1, <3>2 DEF Preview
    <3>4. now' = now /\ user' = user /\ held' = held
      BY <2>1 DEF GetSchedule
    <3>5. Preview(shown.at, user)' = Preview(shown'.at, user')
      BY DEF Preview, NextSlot, UpcomingSlots, SlotsOn
    <3> QED BY <3>2, <3>3, <3>4, <3>5 DEF ProfileInv
  <2>2. CASE ClockAdvances
    BY <2>2 DEF ClockAdvances, ProfileInv
  <2>3. CASE \E p \in Patches : LoadSchedule(p)
    BY <2>3 DEF LoadSchedule, ProfileInv
  <2>4. ASSUME NEW p \in Patches, PatchSchedule(p) PROVE ProfileInv'
    <3>1. PICK body \in Bodies :
            LET new == Patched(body, held[p])
                row == Merged(new, held[p])
            IN IF Refused(body, held[p]) THEN UNCHANGED <<user, shown>>
               ELSE /\ user' = row
                    /\ shown' = IF row = new THEN Preview(now, new)
                                ELSE IF row = user THEN shown ELSE Idle
      BY <2>4 DEF PatchSchedule
    <3>2. held[p] \in ScheduleRow /\ now' = now /\ held' = [held EXCEPT ![p] = Idle]
      BY <2>4 DEF PatchSchedule, ProfileInv
    <3>3. \A o \in Patches : held'[o] # Idle => held'[o] \in ScheduleRow
      BY <3>2 DEF ProfileInv
    <3>4. CASE Refused(body, held[p])
      BY <3>1, <3>2, <3>3, <3>4 DEF ProfileInv
    <3>5. CASE ~Refused(body, held[p])
      <4> DEFINE row == Merged(Patched(body, held[p]), held[p])
                 new == Patched(body, held[p])
      <4>1. user' = row /\ row \in ScheduleRow
        BY <3>1, <3>2, <3>5, PatchedType DEF ProfileInv
      <4>2. shown' = IF row = new THEN Preview(now, new) ELSE IF row = user THEN shown ELSE Idle
        BY <3>1, <3>5
      <4> HIDE DEF row, new
      <4>3. CASE row = new
        <5>1. shown' = Preview(now, user') /\ Preview(now, user').at = now
          BY <4>1, <4>2, <4>3 DEF Preview
        <5>2. shown'.at = now' /\ shown' = Preview(shown'.at, user')
          BY <5>1, <3>2
        <5> QED BY <3>2, <3>3, <4>1, <5>2 DEF ProfileInv
      <4>4. CASE row # new /\ row = user
        BY <3>2, <3>3, <4>1, <4>2, <4>4 DEF ProfileInv
      <4>5. CASE row # new /\ row # user
        BY <3>2, <3>3, <4>1, <4>2, <4>5 DEF ProfileInv
      <4> QED BY <4>3, <4>4, <4>5
    <3> QED BY <3>4, <3>5
  <2>5. CASE UNCHANGED profileVars
    BY <2>5 DEF profileVars, ProfileInv
  <2> QED BY <2>1, <2>2, <2>3, <2>4, <2>5 DEF ProfileNext
<1> QED BY <1>1, <1>2, PTL

(* The preview keeps its word in every zone whose clocks change ordinarily,  *)
(* for every schedule, window and number of concurrent edits.               *)
THEOREM PreviewKept ==
  ASSUME OrdinaryClocks
  PROVE  ProfileInit /\ [][ProfileNext]_profileVars => []PreviewHolds
<1>1. ProfileInv => PreviewHolds
  BY PreviewFollows
<1> QED BY <1>1, ProfileInvHolds, PTL
=============================================================================
