---------------------------- MODULE LlmClientProofs ----------------------------
(***************************************************************************)
(* Theorems about LLMClient.call (LlmClient) for every chain of providers,  *)
(* every cap, threshold, cool-down and number of retries, and whatever the  *)
(* providers answer; about the newsletter clusters a job writes and the     *)
(* page shows (NewsClusters), for every set of letters and curated rules,   *)
(* any number of jobs and of deliveries; and about what of a text is sent   *)
(* (Redaction), for every text and every profile.                           *)
(***************************************************************************)
EXTENDS LlmClient, Redaction, NewsClusters, SequenceTheorems, FiniteSetTheorems, NaturalFacts,
        TLAPS

ClientState ==
  [failures : [Providers -> 0 .. FailThreshold], openFor : [Providers -> Closed .. CoolDown],
   used : [Providers -> Nat], usedToday : [Providers -> BOOLEAN],
   spent : Nat, spentToday : BOOLEAN]
CallState ==
  [pc : {"idle", "provider", "request", "validate"}, at : 0 .. Len(Chain) + 1,
   attempt : 0 .. MaxRetries, end : {"none", "budget", "raised", "answered", "exhausted"}]

(* A call that is under way is at a place of the chain, and has no outcome.  *)
OnChain ==
  /\ call.pc # "idle" => call.at >= 1 /\ call.end = "none"
  /\ call.pc \in {"request", "validate"} => call.at <= Len(Chain)
  /\ call.pc = "provider" => call.attempt = 0

Typed == TypeOK /\ OnChain

(* No row is written before the end of a call.                              *)
NoEarlyRow == call.pc # "idle" => rows = <<>>

RowInv == Typed /\ NoEarlyRow /\ OneRowPerCall

(* Requests to an open provider are those of a call that found it closed or *)
(* cooled down: its first request is not one of them, and each other one is *)
(* a retry.                                                                 *)
ClosedIsSpared == \A p \in Providers : client.openFor[p] = Closed => burst[p] = 0
OpenedByThisCall ==
  call.pc = "request" =>
    /\ call.attempt = 0 => client.openFor[Current] \in {Closed, CoolDown} /\ burst[Current] = 0
    /\ call.attempt > 0 => burst[Current] <= call.attempt - 1

BurstInv == Typed /\ ClosedIsSpared /\ OpenedByThisCall /\ OpenBreakerSparesProvider

-----------------------------------------------------------------------------
(* Lemmas about the chain, the breaker and the call                         *)

LEMMA Tunables ==
  /\ FailThreshold \in Nat /\ FailThreshold > 0 /\ CoolDown \in Nat /\ CoolDown > 0
  /\ DailyBudget \in Nat /\ DailyBudget > 0
  /\ MaxRetries \in Nat /\ MaxCallsCounted \in Nat
BY TunablesAssumption

(* The chain is not empty and a place of it holds a provider.               *)
LEMMA ChainType ==
  /\ Len(Chain) \in Nat /\ Len(Chain) >= 1 /\ DOMAIN Chain = 1 .. Len(Chain)
  /\ \A i \in 1 .. Len(Chain) : Chain[i] \in Providers
<1>1. Fallbacks \in Seq(Providers)
  BY ChainAssumption
<1>2. Len(Fallbacks) \in Nat
  BY <1>1
<1>3. Len(Chain) = 1 + Len(Fallbacks) /\ DOMAIN Chain = 1 .. Len(Chain)
  BY <1>1, <1>2 DEF Chain
<1>4. \A i \in DOMAIN Chain : Chain[i] \in Providers
  BY DEF Providers
<1> QED BY <1>2, <1>3, <1>4

LEMMA CurrentType ==
  ASSUME Typed, call.pc \in {"request", "validate"} \/ (call.pc = "provider" /\ call.at <= Len(Chain))
  PROVE  Current \in Providers
<1>1. call.at \in 1 .. Len(Chain)
  BY ChainType DEF Typed, TypeOK, OnChain
<1> QED BY <1>1, ChainType DEF Current

(* A failure counts against one provider and may open its breaker; it       *)
(* closes none.                                                             *)
LEMMA FailureType ==
  ASSUME NEW c \in ClientState, NEW p \in Providers
  PROVE  /\ WithFailure(c, p) \in ClientState
         /\ WithFailure(c, p).openFor[p] \in {c.openFor[p], 0}
         /\ \A q \in Providers \ {p} : WithFailure(c, p).openFor[q] = c.openFor[q]
<1> DEFINE n == IF c.failures[p] < FailThreshold THEN c.failures[p] + 1 ELSE FailThreshold
           o == IF n >= FailThreshold THEN 0 ELSE c.openFor[p]
<1>1. c.failures[p] \in 0 .. FailThreshold /\ c.openFor[p] \in Closed .. CoolDown
  BY DEF ClientState
<1>2. n \in 0 .. FailThreshold /\ o \in Closed .. CoolDown /\ o \in {c.openFor[p], 0}
  BY <1>1, Tunables DEF Closed
<1>3. WithFailure(c, p) = [c EXCEPT !.failures = [c.failures EXCEPT ![p] = n],
                                    !.openFor = [c.openFor EXCEPT ![p] = o]]
  BY DEF WithFailure, ClientState
<1> HIDE DEF n, o
<1>4. /\ [c.failures EXCEPT ![p] = n] \in [Providers -> 0 .. FailThreshold]
      /\ [c.openFor EXCEPT ![p] = o] \in [Providers -> Closed .. CoolDown]
  BY <1>2 DEF ClientState
<1>5. /\ WithFailure(c, p) \in ClientState
      /\ WithFailure(c, p).openFor = [c.openFor EXCEPT ![p] = o]
  BY <1>3, <1>4 DEF ClientState
<1> QED BY <1>2, <1>5 DEF ClientState

LEMMA SuccessType ==
  ASSUME NEW c \in ClientState, NEW p \in Providers
  PROVE  /\ WithSuccess(c, p) \in ClientState
         /\ WithSuccess(c, p).openFor[p] = Closed
         /\ \A q \in Providers \ {p} : WithSuccess(c, p).openFor[q] = c.openFor[q]
<1>1. WithSuccess(c, p) = [c EXCEPT !.failures = [c.failures EXCEPT ![p] = 0],
                                    !.openFor = [c.openFor EXCEPT ![p] = Closed]]
  BY DEF WithSuccess, ClientState
<1>2. /\ [c.failures EXCEPT ![p] = 0] \in [Providers -> 0 .. FailThreshold]
      /\ [c.openFor EXCEPT ![p] = Closed] \in [Providers -> Closed .. CoolDown]
  BY Tunables DEF ClientState, Closed
<1>3. /\ WithSuccess(c, p) \in ClientState
      /\ WithSuccess(c, p).openFor = [c.openFor EXCEPT ![p] = Closed]
  BY <1>1, <1>2 DEF ClientState
<1> QED BY <1>3 DEF ClientState

LEMMA NewClientType == NewClient \in ClientState
BY Tunables DEF NewClient, ClientState, Closed

LEMMA IdleType == Idle \in CallState /\ \A how : End(how) = [pc |-> "idle", at |-> 0, attempt |-> 0, end |-> how]
BY Tunables, ChainType DEF Idle, CallState, End

(* The next provider of a call that is not beyond the chain.                *)
LEMMA NextProviderType ==
  ASSUME Typed, call.pc # "idle", call.at <= Len(Chain)
  PROVE  /\ NextProvider \in CallState
         /\ NextProvider.pc = "provider" /\ NextProvider.at = call.at + 1
         /\ NextProvider.attempt = 0 /\ NextProvider.end = "none"
<1>1. call \in CallState /\ call.at \in 1 .. Len(Chain) /\ call.end = "none"
  BY ChainType DEF Typed, TypeOK, OnChain, CallState
<1>2. call.at + 1 \in 0 .. Len(Chain) + 1 /\ 0 \in 0 .. MaxRetries
  BY <1>1, ChainType, Tunables
<1> QED BY <1>1, <1>2 DEF NextProvider, CallState

-----------------------------------------------------------------------------
(* Type correctness                                                         *)

TypedParts ==
  /\ client \in ClientState /\ call \in CallState
  /\ rows \in Seq({"ok", "fallback", "error"})
  /\ burst \in [Providers -> Nat] /\ calls \in [Providers -> 0 .. MaxCallsCounted]

LEMMA TypeOKParts == TypeOK <=> TypedParts
BY DEF TypeOK, TypedParts, ClientState, CallState

LEMMA TypedInit == Init => Typed
<1> SUFFICES ASSUME Init PROVE Typed
  OBVIOUS
<1>1. TypedParts
  BY NewClientType, IdleType, Tunables DEF Init, TypedParts
<1>2. OnChain
  BY DEF Init, Idle, OnChain
<1> QED BY <1>1, <1>2, TypeOKParts DEF Typed

LEMMA TypedStep == Typed /\ [Next]_vars => Typed'
<1> SUFFICES ASSUME Typed, [Next]_vars PROVE Typed'
  OBVIOUS
<1> USE Tunables, ChainType
<1>0. TypedParts /\ OnChain
  BY TypeOKParts DEF Typed
<1>r. \A st \in {"ok", "fallback", "error"} : Logged(st) \in Seq({"ok", "fallback", "error"})
  BY <1>0 DEF TypedParts, Logged
<1> SUFFICES TypedParts' /\ OnChain'
  BY TypeOKParts DEF Typed, TypeOK, TypedParts, ClientState, CallState
<1>1. CASE NewRecord
  BY <1>0, <1>1, NewClientType, IdleType DEF NewRecord, TypedParts, OnChain, Idle
<1>2. CASE BeginCall
  <2> DEFINE spent == IF client.spentToday THEN client.spent ELSE 0
  <2>1. spent \in Nat
    BY <1>0 DEF TypedParts, ClientState
  <2>2. client' \in ClientState
    BY <1>0, <1>2, <2>1 DEF BeginCall, TypedParts, ClientState
  <2>3. \/ call' = [pc |-> "provider", at |-> 1, attempt |-> 0, end |-> "none"]
        \/ call' = [pc |-> "idle", at |-> 0, attempt |-> 0, end |-> "budget"]
    BY <1>2 DEF BeginCall, Idle, End
  <2>4. call' \in CallState /\ OnChain'
    BY <2>3 DEF CallState, OnChain
  <2> QED BY <1>0, <1>2, <2>2, <2>4 DEF BeginCall, TypedParts
<1>3. CASE TryProvider
  <2>1. call.pc = "provider" /\ call.at \in 1 .. Len(Chain) /\ Current \in Providers
    BY <1>0, <1>3, CurrentType DEF TryProvider, TypedParts, CallState, OnChain, Typed
  <2>2. call' = NextProvider \/ call' = [call EXCEPT !.pc = "request"]
    BY <1>3 DEF TryProvider
  <2>3. call' \in CallState /\ OnChain'
    BY <1>0, <2>1, <2>2, NextProviderType, SMTT(30) DEF TypedParts, CallState, OnChain, Typed
  <2>4. client' \in ClientState
    <3> DEFINE p == Current
               used == IF client.usedToday[p] THEN client.used[p] ELSE 0
               Counted(n) == [client EXCEPT !.used[p] = n, !.usedToday[p] = TRUE]
    <3>1. client \in ClientState /\ used \in Nat /\ used + 1 \in Nat
      <4>1. client \in ClientState /\ client.used[p] \in Nat
        BY <1>0, <2>1 DEF TypedParts, ClientState
      <4>2. used \in Nat
        BY <4>1
      <4> QED BY <4>1, <4>2
    <3>2. client' = client \/ client' = Counted(used) \/ client' = Counted(used + 1)
      <4> DEFINE after == IF DailyCallCap[p] # Uncapped /\ used >= DailyCallCap[p]
                          THEN used ELSE used + 1
      <4>1. client' = client \/ client' = Counted(after)
        BY <1>3, Zenon DEF TryProvider
      <4>2. after = used \/ after = used + 1
        BY Zenon
      <4> HIDE DEF Counted, used, after
      <4> QED BY <4>1, <4>2
    <3> HIDE DEF used
    <3>3. ASSUME NEW n \in Nat
          PROVE  Counted(n) \in ClientState
      <4>1. /\ [client.used EXCEPT ![p] = n] \in [Providers -> Nat]
            /\ [client.usedToday EXCEPT ![p] = TRUE] \in [Providers -> BOOLEAN]
        BY <3>1 DEF ClientState
      <4> QED BY <3>1, <4>1 DEF ClientState
    <3> HIDE DEF Counted
    <3> QED BY <3>1, <3>2, <3>3
  <2>5. burst' \in [Providers -> Nat]
    <3>1. burst' = burst \/ burst' = [burst EXCEPT ![Current] = 0]
      BY <1>3 DEF TryProvider
    <3> QED BY <1>0, <2>1, <3>1 DEF TypedParts
  <2>6. calls' \in [Providers -> 0 .. MaxCallsCounted]
    <3>1. \/ calls' = calls
          \/ calls[Current] # MaxCallsCounted /\ calls' = [calls EXCEPT ![Current] = @ + 1]
      BY <1>3 DEF TryProvider
    <3>2. calls[Current] \in 0 .. MaxCallsCounted
      BY <1>0, <2>1 DEF TypedParts
    <3>3. calls[Current] # MaxCallsCounted => calls[Current] + 1 \in 0 .. MaxCallsCounted
      BY <3>2
    <3> QED BY <1>0, <2>1, <3>1, <3>3 DEF TypedParts
  <2> QED BY <1>0, <1>3, <2>3, <2>4, <2>5, <2>6 DEF TryProvider, TypedParts
<1>4. CASE Accept
  <2>1. client' \in ClientState
    <3>1. PICK cost \in Costs :
            client' = [client EXCEPT !.spent = (IF client.spentToday THEN @ ELSE 0) + cost,
                                     !.spentToday = TRUE]
      BY <1>4, Zenon DEF Accept
    <3>2. cost \in Nat /\ client \in ClientState
      BY <1>0, TunablesAssumption DEF TypedParts
    <3>3. (IF client.spentToday THEN client.spent ELSE 0) + cost \in Nat
      BY <3>2 DEF ClientState
    <3> QED BY <3>1, <3>2, <3>3 DEF ClientState
  <2>2. rows' \in Seq({"ok", "fallback", "error"})
    BY <1>r, <1>4 DEF Accept
  <2>3. call' = [pc |-> "idle", at |-> 0, attempt |-> 0, end |-> "answered"]
    BY <1>4, IdleType DEF Accept
  <2>4. call' \in CallState /\ OnChain'
    BY <2>3 DEF CallState, OnChain
  <2> QED BY <1>0, <1>4, <2>1, <2>2, <2>4 DEF Accept, TypedParts
<1>5. CASE RejectSchema
  <2>1. Current \in Providers
    BY <1>5, CurrentType DEF RejectSchema
  <2>2. call' \in CallState /\ OnChain'
    BY <1>0, <1>5, NextProviderType DEF RejectSchema, OnChain, TypedParts, CallState
  <2> QED BY <1>0, <1>5, <2>1, <2>2, FailureType DEF RejectSchema, TypedParts
<1>6. CASE Exhausted
  BY <1>0, <1>r, <1>6, IdleType DEF Exhausted, TypedParts, CallState, OnChain
<1>7. ASSUME NEW kind \in Responses, Request(kind) PROVE TypedParts' /\ OnChain'
  <2>1. Current \in Providers
    BY <1>7, CurrentType DEF Request
  <2>2. client' \in ClientState
    BY <1>0, <1>7, <2>1, FailureType, SuccessType DEF Request, TypedParts
  <2>3. burst' \in [Providers -> Nat]
    BY <1>0, <1>7, <2>1 DEF Request, Sent, TypedParts
  <2>4. call' \in CallState /\ OnChain'
    <3>1. \/ call' = [call EXCEPT !.pc = "validate"] \/ call' = End("raised")
          \/ call' = NextProvider
          \/ call' = [call EXCEPT !.attempt = IF @ < MaxRetries THEN @ + 1 ELSE @]
      BY <1>7 DEF Request
    <3>2. CASE call' = [call EXCEPT !.pc = "validate"]
      BY <1>0, <1>7, <3>2 DEF Request, TypedParts, CallState, OnChain
    <3>3. CASE call' = End("raised")
      BY <3>3, IdleType DEF CallState, OnChain
    <3>4. CASE call' = NextProvider
      BY <1>0, <1>7, <3>4, NextProviderType, SMTT(20) DEF Request, OnChain, TypedParts, CallState
    <3>5. CASE call' = [call EXCEPT !.attempt = IF @ < MaxRetries THEN @ + 1 ELSE @]
      <4>1. (IF call.attempt < MaxRetries THEN call.attempt + 1 ELSE call.attempt) \in 0 .. MaxRetries
        BY <1>0 DEF TypedParts, CallState
      <4> QED BY <1>0, <1>7, <3>5, <4>1 DEF Request, TypedParts, CallState, OnChain
    <3> QED BY <3>1, <3>2, <3>3, <3>4, <3>5
  <2> QED BY <1>0, <1>7, <2>2, <2>3, <2>4 DEF Request, TypedParts
<1>8. CASE TimePasses
  <2>1. Aged \in [Providers -> Closed .. CoolDown]
    <3>1. client.openFor \in [Providers -> Closed .. CoolDown]
      BY <1>0 DEF TypedParts, ClientState
    <3>2. \A n \in Closed .. CoolDown :
            (IF n \in 0 .. CoolDown - 1 THEN n + 1 ELSE n) \in Closed .. CoolDown
      BY DEF Closed
    <3> QED BY <3>1, <3>2, Zenon DEF Aged
  <2> QED BY <1>0, <1>8, <2>1 DEF TimePasses, TypedParts, ClientState, OnChain
<1>9. CASE NewDay
  <2>1. client \in ClientState /\ [p \in Providers |-> FALSE] \in [Providers -> BOOLEAN]
    BY <1>0 DEF TypedParts
  <2>2. client' \in ClientState
    BY <1>9, <2>1 DEF NewDay, ClientState
  <2>3. calls' \in [Providers -> 0 .. MaxCallsCounted]
    BY <1>9 DEF NewDay
  <2> QED BY <1>0, <1>9, <2>2, <2>3 DEF NewDay, TypedParts, OnChain
<1>10. CASE UNCHANGED vars
  BY <1>0, <1>10 DEF vars, TypedParts, OnChain
<1> QED BY <1>1, <1>2, <1>3, <1>4, <1>5, <1>6, <1>7, <1>8, <1>9, <1>10 DEF Next, Step

LEMMA TypedAlways == Spec => []Typed
BY TypedInit, TypedStep, PTL DEF Spec

(* The client, the call and the history stay in their types.                *)
THEOREM TypeCorrect == Spec => []TypeOK
<1>1. Typed => TypeOK
  BY DEF Typed
<1> QED BY <1>1, TypedAlways, PTL
-----------------------------------------------------------------------------
(* One row per call                                                         *)

LEMMA RowStep == RowInv /\ [Next]_vars => RowInv'
<1> SUFFICES ASSUME RowInv, [Next]_vars PROVE RowInv'
  OBVIOUS
<1>0. Typed /\ Typed'
  BY TypedStep DEF RowInv
<1> SUFFICES NoEarlyRow' /\ OneRowPerCall'
  BY <1>0 DEF RowInv
<1>r. ASSUME NEW st \in {"ok", "fallback", "error"}, call.pc # "idle"
      PROVE  Logged(st) = <<st>>
  <2>1. rows = <<>>
    BY <1>r DEF RowInv, NoEarlyRow
  <2> QED BY <2>1 DEF Logged
<1>1. CASE NewRecord
  BY <1>1 DEF NewRecord, Idle, NoEarlyRow, OneRowPerCall
<1>2. CASE BeginCall
  BY <1>2 DEF BeginCall, Idle, End, NoEarlyRow, OneRowPerCall
<1>3. CASE TryProvider
  <2>1. call' = NextProvider \/ call' = [call EXCEPT !.pc = "request"]
    BY <1>3 DEF TryProvider
  <2>2. call'.pc # "idle"
    BY <1>0, <2>1 DEF NextProvider, Typed, TypeOK
  <2> QED BY <1>3, <2>2 DEF TryProvider, RowInv, NoEarlyRow, OneRowPerCall
<1>4. CASE Accept
  <2>1. rows' \in {<<"ok">>, <<"fallback">>}
    BY <1>4, <1>r DEF Accept
  <2> QED BY <1>4, <2>1, IdleType DEF Accept, NoEarlyRow, OneRowPerCall
<1>5. CASE RejectSchema
  <2>1. call'.pc # "idle"
    BY <1>0, <1>5 DEF RejectSchema, NextProvider, Typed, TypeOK
  <2> QED BY <1>5, <2>1 DEF RejectSchema, RowInv, NoEarlyRow, OneRowPerCall
<1>6. CASE Exhausted
  BY <1>6, <1>r, IdleType DEF Exhausted, NoEarlyRow, OneRowPerCall
<1>7. ASSUME NEW kind \in Responses, Request(kind) PROVE NoEarlyRow' /\ OneRowPerCall'
  <2>1. rows' = <<>>
    BY <1>7 DEF Request, RowInv, NoEarlyRow
  <2>2. call' = End("raised") \/ call'.pc # "idle"
    BY <1>0, <1>7 DEF Request, NextProvider, Typed, TypeOK
  <2> QED BY <2>1, <2>2, IdleType DEF NoEarlyRow, OneRowPerCall
<1>8. CASE TimePasses \/ NewDay \/ UNCHANGED vars
  BY <1>8 DEF TimePasses, NewDay, vars, RowInv, NoEarlyRow, OneRowPerCall
<1> QED BY <1>1, <1>2, <1>3, <1>4, <1>5, <1>6, <1>7, <1>8 DEF Next, Step

(* A call that reached the chain leaves one row of prompt_call_log, of its  *)
(* kind; one that did not, or that raised, leaves none.                     *)
THEOREM OneRowAlways == Spec => []OneRowPerCall
<1>1. Init => RowInv
  BY TypedInit DEF Init, Idle, RowInv, NoEarlyRow, OneRowPerCall
<1>2. RowInv => OneRowPerCall
  BY DEF RowInv
<1> QED BY <1>1, <1>2, RowStep, PTL DEF Spec

-----------------------------------------------------------------------------
(* An open breaker                                                          *)

(* Nothing but a request or the admission of a call touches the history; an *)
(* open breaker that ages stays open, and one that is new is closed.        *)
LEMMA BurstStep == BurstInv /\ [Next]_vars => BurstInv'
<1> SUFFICES ASSUME BurstInv, [Next]_vars PROVE BurstInv'
  OBVIOUS
<1> USE Tunables, ChainType
<1>0. Typed /\ Typed' /\ TypedParts /\ OnChain
  BY TypedStep, TypeOKParts DEF BurstInv, Typed
<1> DEFINE P == ClosedIsSpared /\ OpenedByThisCall /\ OpenBreakerSparesProvider
<1>p. P
  BY DEF BurstInv
<1> SUFFICES P'
  BY <1>0 DEF BurstInv
<1>t. /\ \A p \in Providers : client.openFor[p] \in Closed .. CoolDown /\ burst[p] \in Nat
      /\ call.attempt \in 0 .. MaxRetries /\ client \in ClientState
      /\ burst \in [Providers -> Nat]
  BY <1>0 DEF TypedParts, ClientState, CallState
<1>1. CASE NewRecord
  BY <1>1 DEF NewRecord, Idle, NewClient, ClosedIsSpared, OpenedByThisCall, OpenBreakerSparesProvider
<1>2. CASE BeginCall
  <2>1. client'.openFor = client.openFor /\ burst' = burst
    BY <1>2, <1>t DEF BeginCall, ClientState
  <2>2. call'.pc # "request"
    BY <1>2 DEF BeginCall, Idle, End
  <2> QED BY <1>p, <2>1, <2>2 DEF ClosedIsSpared, OpenedByThisCall, OpenBreakerSparesProvider
<1>3. CASE TryProvider
  <2>1. Current \in Providers /\ call.attempt = 0
    BY <1>0, <1>3, CurrentType DEF TryProvider, OnChain
  <2>2. client'.openFor = client.openFor
    BY <1>3, <1>t DEF TryProvider, ClientState
  <2>3. \/ burst' = burst
        \/ client.openFor[Current] = CoolDown /\ burst' = [burst EXCEPT ![Current] = 0]
    BY <1>3 DEF TryProvider
  <2>4. \A p \in Providers :
          burst'[p] = burst[p] \/ (burst'[p] = 0 /\ client.openFor[p] = CoolDown)
    BY <1>t, <2>1, <2>3
  <2>5. ClosedIsSpared' /\ OpenBreakerSparesProvider'
    BY <1>p, <2>2, <2>4 DEF ClosedIsSpared, OpenBreakerSparesProvider
  <2>6. CASE call' = NextProvider
    BY <2>5, <2>6 DEF NextProvider, OpenedByThisCall
  <2>7. CASE call' # NextProvider
    <3>1. /\ ~Rejects(Current) /\ call' = [call EXCEPT !.pc = "request"]
          /\ burst' = IF client.openFor[Current] = CoolDown
                      THEN [burst EXCEPT ![Current] = 0] ELSE burst
      BY <1>3, <2>7 DEF TryProvider
    <3>2. client.openFor[Current] \in {Closed, CoolDown}
      BY <1>t, <2>1, <3>1 DEF Rejects, IsOpen, Closed
    <3>3. burst'[Current] = 0
      BY <1>p, <1>t, <2>1, <3>1, <3>2 DEF ClosedIsSpared
    <3>4. Current' = Current /\ call'.attempt = 0
      BY <1>0, <2>1, <3>1 DEF Current, TypedParts, CallState
    <3> QED BY <2>2, <2>5, <3>2, <3>3, <3>4 DEF OpenedByThisCall
  <2> QED BY <2>6, <2>7
<1>4. CASE Accept
  <2>1. client'.openFor = client.openFor /\ burst' = burst
    BY <1>4, <1>t DEF Accept, ClientState
  <2>2. call'.pc # "request"
    BY <1>4 DEF Accept, Idle, End
  <2> QED BY <1>p, <2>1, <2>2 DEF ClosedIsSpared, OpenedByThisCall, OpenBreakerSparesProvider
<1>5. CASE RejectSchema
  <2>1. Current \in Providers
    BY <1>0, <1>5, CurrentType DEF RejectSchema
  <2>2. \A p \in Providers : client'.openFor[p] \in {client.openFor[p], 0} /\ burst' = burst
    <3>1. client' = WithFailure(client, Current) /\ burst' = burst
      BY <1>5 DEF RejectSchema
    <3>2. ASSUME NEW p \in Providers PROVE client'.openFor[p] \in {client.openFor[p], 0}
      <4>1. CASE p = Current
        BY <1>t, <2>1, <3>1, <4>1, FailureType
      <4>2. CASE p # Current
        BY <1>t, <2>1, <3>1, <4>2, FailureType, SMTT(30)
      <4> QED BY <4>1, <4>2
    <3> QED BY <3>1, <3>2
  <2>3. call'.pc # "request"
    BY <1>5 DEF RejectSchema, NextProvider
  <2> QED BY <1>p, <2>2, <2>3 DEF ClosedIsSpared, OpenedByThisCall, OpenBreakerSparesProvider, Closed
<1>6. CASE Exhausted \/ NewDay
  <2>1. client'.openFor = client.openFor /\ burst' = burst
    BY <1>6, <1>t DEF Exhausted, NewDay, ClientState
  <2>2. call'.pc # "request" \/ call' = call
    BY <1>6 DEF Exhausted, NewDay, Idle, End
  <2> QED BY <1>p, <2>1, <2>2 DEF ClosedIsSpared, OpenedByThisCall, OpenBreakerSparesProvider, Current
<1>7. ASSUME NEW kind \in Responses, Request(kind) PROVE P'
  <2> DEFINE c == Current
  <2>1. c \in Providers /\ call.pc = "request"
    BY <1>0, <1>7, CurrentType DEF Request
  <2>2. CASE kind = "object"
    <3>1. client' = WithSuccess(client, c) /\ call' = [call EXCEPT !.pc = "validate"]
      BY <1>7, <2>2 DEF Request
    <3>2. burst' = [burst EXCEPT ![c] = 0]
      BY <1>7, <2>2 DEF Request
    <3>3. \A p \in Providers : p # c => client'.openFor[p] = client.openFor[p]
      BY <1>t, <2>1, <3>1, SuccessType
    <3>4. call'.pc = "validate"
      BY <1>0, <3>1 DEF TypedParts, CallState
    <3>5. \A p \in Providers : burst'[p] = IF p = c THEN 0 ELSE burst[p]
      BY <1>t, <3>2
    <3> QED BY <1>p, <3>3, <3>4, <3>5 DEF ClosedIsSpared, OpenedByThisCall, OpenBreakerSparesProvider
  <2>3. CASE kind # "object"
    <3>1. burst' = Sent(c)
      BY <1>7, <2>3 DEF Request
    <3>2. \A p \in Providers :
            burst'[p] = IF p = c /\ IsOpen(c) /\ client.openFor[c] < CoolDown
                        THEN burst[p] + 1 ELSE burst[p]
      BY <1>t, <2>1, <3>1 DEF Sent
    <3>3. burst'[c] <= call.attempt
      <4>1. CASE IsOpen(c) /\ client.openFor[c] < CoolDown
        <5>1. burst'[c] = burst[c] + 1
          BY <2>1, <3>2, <4>1
        <5> QED BY <1>p, <1>t, <2>1, <4>1, <5>1 DEF OpenedByThisCall, IsOpen
      <4>2. CASE ~ (IsOpen(c) /\ client.openFor[c] < CoolDown)
        <5>1. burst'[c] = burst[c]
          BY <2>1, <3>2, <4>2
        <5> QED BY <1>p, <1>t, <2>1, <4>2, <5>1 DEF OpenedByThisCall, IsOpen
      <4> QED BY <4>1, <4>2
    <3>4. OpenBreakerSparesProvider'
      BY <1>p, <1>t, <3>2, <3>3 DEF OpenBreakerSparesProvider
    <3>5. \A p \in Providers : client'.openFor[p] = Closed => client.openFor[p] = Closed
      <4>1. client' = client \/ client' = WithFailure(client, c)
        BY <1>7, <2>3 DEF Request
      <4> QED BY <1>t, <2>1, <4>1, FailureType, SMTT(30) DEF Closed
    <3>6. ClosedIsSpared'
      BY <1>p, <3>2, <3>5 DEF ClosedIsSpared, IsOpen
    <3>7. CASE call'.pc # "request"
      BY <3>4, <3>6, <3>7 DEF OpenedByThisCall
    <3>8. CASE call'.pc = "request"
      <4>1. /\ ~GivesUp(kind)
            /\ call' = [call EXCEPT !.attempt = IF @ < MaxRetries THEN @ + 1 ELSE @]
        <5>1. kind # "body_not_json" /\ call' # NextProvider
          <6>1. NextProvider.pc = "provider"
            BY <1>0, <2>1, NextProviderType DEF OnChain
          <6>2. kind = "body_not_json" => call' = End("raised")
            BY <1>7 DEF Request
          <6> QED BY <3>8, <6>1, <6>2, IdleType
        <5> QED BY <1>7, <2>3, <5>1 DEF Request
      <4>2. call.attempt < MaxRetries
        BY <1>t, <4>1 DEF GivesUp
      <4>3. Current' = c /\ call'.attempt = call.attempt + 1
        BY <1>0, <4>1, <4>2 DEF Current, TypedParts, CallState
      <4> QED BY <1>t, <3>3, <3>4, <3>6, <4>3 DEF OpenedByThisCall
    <3> QED BY <3>7, <3>8
  <2> QED BY <2>2, <2>3
<1>8. CASE TimePasses
  <2>1. client'.openFor = Aged /\ UNCHANGED <<burst, call>>
    BY <1>8, <1>t DEF TimePasses, ClientState
  <2>2. \A p \in Providers :
          /\ client'.openFor[p] = Closed <=> client.openFor[p] = Closed
          /\ client.openFor[p] = CoolDown => client'.openFor[p] = CoolDown
    BY <1>t, <2>1 DEF Aged, Closed
  <2>3. call.pc = "request" => Current \in Providers
    BY <1>0, CurrentType
  <2>4. OpenedByThisCall'
    BY <1>p, <2>1, <2>2, <2>3 DEF OpenedByThisCall, Current
  <2> QED BY <1>p, <2>1, <2>2, <2>4 DEF ClosedIsSpared, OpenBreakerSparesProvider
<1>9. CASE UNCHANGED vars
  BY <1>9, <1>p DEF vars, ClosedIsSpared, OpenedByThisCall, OpenBreakerSparesProvider, Current
<1> QED BY <1>1, <1>2, <1>3, <1>4, <1>5, <1>6, <1>7, <1>8, <1>9 DEF Next, Step

(* Once a breaker has opened, nothing but the retries of one call reaches   *)
(* its provider until the cool-down is over.                                *)
THEOREM OpenBreakerSpares == Spec => []OpenBreakerSparesProvider
<1>1. Init => BurstInv
  <2> SUFFICES ASSUME Init PROVE BurstInv
    OBVIOUS
  <2>1. \A p \in Providers : burst[p] = 0
    BY DEF Init
  <2> QED BY <2>1, TypedInit, Tunables
      DEF Init, Idle, BurstInv, ClosedIsSpared, OpenedByThisCall, OpenBreakerSparesProvider
<1>2. BurstInv => OpenBreakerSparesProvider
  BY DEF BurstInv
<1> QED BY <1>1, <1>2, BurstStep, PTL DEF Spec

-----------------------------------------------------------------------------
(* NewsClusters: groups                                                     *)

(* No group of the message is larger than one summary may have letters.     *)
Uncut == \A k \in ClusterKeys : Cardinality(RoutedTo(k, Newsletters)) <= MaxSize

LEMMA GroupIsFinite ==
  ASSUME NEW k, NEW loaded \in SUBSET Newsletters
  PROVE  /\ IsFiniteSet(RoutedTo(k, loaded))
         /\ Cardinality(RoutedTo(k, loaded)) \in Nat
         /\ Cardinality(RoutedTo(k, loaded)) <= Cardinality(RoutedTo(k, Newsletters))
         /\ Cardinality(RoutedTo(k, Newsletters)) <= Cardinality(Newsletters)
         /\ Cardinality(RoutedTo(k, Newsletters)) \in Nat
         /\ Cardinality(Newsletters) \in Nat
<1>1. /\ RoutedTo(k, loaded) \subseteq RoutedTo(k, Newsletters)
      /\ RoutedTo(k, Newsletters) \subseteq Newsletters
  BY DEF RoutedTo
<1>2. IsFiniteSet(Newsletters)
  BY NewslettersAssumption
<1>3. /\ IsFiniteSet(RoutedTo(k, Newsletters))
      /\ Cardinality(RoutedTo(k, Newsletters)) <= Cardinality(Newsletters)
  BY <1>1, <1>2, FS_Subset
<1>4. /\ IsFiniteSet(RoutedTo(k, loaded))
      /\ Cardinality(RoutedTo(k, loaded)) <= Cardinality(RoutedTo(k, Newsletters))
  BY <1>1, <1>3, FS_Subset
<1> QED BY <1>2, <1>3, <1>4, FS_CardinalityType

(* The next group is one of those that are left: some group is the largest. *)
LEMMA NextGroupIsLeft ==
  ASSUME NEW keys, keys # {}, NEW loaded \in SUBSET Newsletters
  PROVE  NextGroup(keys, loaded) \in keys
<1> DEFINE size(k) == Cardinality(RoutedTo(k, loaded))
           total == Cardinality(Newsletters)
           Rest == {total - size(k) : k \in keys}
<1>1. total \in Nat /\ \A k \in keys : size(k) \in Nat /\ size(k) <= total
  <2>1. \A k : /\ size(k) \in Nat /\ size(k) <= Cardinality(RoutedTo(k, Newsletters))
               /\ Cardinality(RoutedTo(k, Newsletters)) <= total
               /\ Cardinality(RoutedTo(k, Newsletters)) \in Nat /\ total \in Nat
    BY GroupIsFinite
  <2> HIDE DEF size, total
  <2> QED BY <2>1
<1> HIDE DEF size, total
<1>2. Rest \in SUBSET Nat /\ Rest # {}
  BY <1>1
<1>3. PICK m \in Rest : \A n \in Rest : m <= n
  <2> HIDE DEF Rest
  <2> QED BY <1>2, SmallestExists
<1>4. PICK k \in keys : m = total - size(k)
  OBVIOUS
<1>5. \A o \in keys : size(k) >= size(o)
  <2>1. \A o \in keys : total - size(k) <= total - size(o)
    BY <1>3, <1>4
  <2> QED BY <1>1, <2>1
<1>6. \E b \in keys : \A o \in keys :
        Cardinality(RoutedTo(b, loaded)) >= Cardinality(RoutedTo(o, loaded))
  BY <1>5 DEF size
<1> QED BY <1>6 DEF NextGroup

LEMMA NothingIsCut ==
  ASSUME Uncut, NEW k \in ClusterKeys, NEW loaded \in SUBSET Newsletters
  PROVE  CappedMembers(k, loaded) = RoutedTo(k, loaded)
<1> SUFFICES ASSUME NEW n \in RoutedTo(k, loaded)
             PROVE  Cardinality({m \in RoutedTo(k, loaded) : m < n}) < MaxSize
  BY DEF CappedMembers
<1> DEFINE Group == RoutedTo(k, loaded)
           Older == {m \in Group : m < n}
<1>1. n \in Int
  BY NewslettersAssumption DEF RoutedTo
<1>2. Older \subseteq Group /\ Older # Group
  BY <1>1
<1>3. IsFiniteSet(Group)
  BY GroupIsFinite
<1> HIDE DEF Group, Older
<1>4. IsFiniteSet(Older) /\ Cardinality(Older) <= Cardinality(Group)
      /\ Cardinality(Older) # Cardinality(Group)
  BY <1>2, <1>3, FS_Subset
<1>5. Cardinality(Older) \in Nat /\ Cardinality(Group) \in Nat
  BY <1>3, <1>4, FS_CardinalityType
<1>6. Cardinality(Group) <= MaxSize
  <2>1. /\ Cardinality(Group) <= Cardinality(RoutedTo(k, Newsletters))
        /\ Cardinality(RoutedTo(k, Newsletters)) \in Nat
    BY GroupIsFinite DEF Group
  <2>2. Cardinality(RoutedTo(k, Newsletters)) <= MaxSize /\ MaxSize \in Nat
    BY NewslettersAssumption DEF Uncut
  <2> QED BY <1>5, <2>1, <2>2
<1>7. Cardinality(Older) < MaxSize
  BY <1>4, <1>5, <1>6, NewslettersAssumption
<1> QED BY <1>7 DEF Older, Group

-----------------------------------------------------------------------------
(* NewsClusters: rows, transactions, page                                   *)

ClusterRecords ==
  [row : BOOLEAN, version : Int, members : SUBSET Newsletters, sources : SUBSET Newsletters]

(* What an upsert wrote is in the transaction of its job; the group it works *)
(* on is one of those left to do.                                           *)
JobShape(j) ==
  /\ DOMAIN job[j] = {"pc", "loaded", "todo", "seen", "wrote"}
  /\ job[j].loaded \in SUBSET Newsletters /\ job[j].todo \in SUBSET ClusterKeys
  /\ \A k \in DOMAIN job[j].wrote : k \in ClusterKeys /\ job[j].wrote[k] \in ClusterRecords
  /\ job[j].pc \in {"upsert", "ask"} => job[j].todo # {}
  /\ job[j].pc = "ask" => ClusterAtHand(j) \in DOMAIN job[j].wrote

NewsTypes ==
  /\ letters \in SUBSET Newsletters
  /\ news \in [ClusterKeys -> ClusterRecords]
  /\ job = [j \in Jobs |-> job[j]]
  /\ \A j \in Jobs : JobShape(j)
  /\ DOMAIN page = {"pc", "key", "sources", "members"}

(* The member rows of a cluster are the letters routed to it, and so are    *)
(* the sources of its summary, but for purged letters.                      *)
NamesItsSources(k, cluster) ==
  /\ cluster.row => cluster.members = RoutedTo(k, letters)
  /\ ~cluster.row => cluster.members = {} /\ cluster.sources = {}
  /\ cluster.sources # {} => cluster.row /\ cluster.sources \cap letters = RoutedTo(k, letters)

RowsFollow == \A k \in ClusterKeys : NamesItsSources(k, news[k])

JobsFollow ==
  \A j \in Jobs :
    /\ job[j].pc \in {"find", "upsert", "ask"} => letters \subseteq job[j].loaded
    /\ \A k \in DOMAIN job[j].wrote : job[j].wrote[k].row /\ NamesItsSources(k, job[j].wrote[k])

PageFollows ==
  page.pc = "members" =>
    /\ page.key \in ClusterKeys
    /\ news[page.key].row
    /\ page.sources \cap letters = RoutedTo(page.key, letters)

NewsInv == NewsTypes /\ RowsFollow /\ JobsFollow /\ PageFollows

LEMMA NewsInvInit == NewsInit => NewsInv
<1> SUFFICES ASSUME NewsInit PROVE NewsInv
  OBVIOUS
<1> USE DEF NewsInit
<1>1. NoCluster \in ClusterRecords
  BY DEF NoCluster, ClusterRecords
<1>2. DOMAIN NoJob.wrote = {}
  BY DEF NoJob
<1>3. NewsTypes
  <2>1. ASSUME NEW j \in Jobs PROVE JobShape(j)
    BY <1>2 DEF JobShape, NoJob
  <2> QED BY <1>1, <2>1 DEF NewsTypes, NoPage
<1>4. RowsFollow
  BY DEF RowsFollow, NamesItsSources, NoCluster
<1>5. JobsFollow
  BY <1>2 DEF JobsFollow, NoJob
<1> QED BY <1>3, <1>4, <1>5 DEF NewsInv, PageFollows, NoPage

(* While one job reads or writes in its transaction, the rest stands still. *)
LEMMA OneJobKeeps ==
  ASSUME NewsInv, NEW j \in Jobs, UNCHANGED <<letters, news, page>>, NEW s,
         job' = [i \in Jobs |-> IF i = j THEN s ELSE job[i]], JobShape(j)',
         s.pc \in {"find", "upsert", "ask"} => letters \subseteq s.loaded,
         \A k \in DOMAIN s.wrote : s.wrote[k].row /\ NamesItsSources(k, s.wrote[k])
  PROVE  NewsInv'
<1>1. job'[j] = s /\ \A i \in Jobs \ {j} : job'[i] = job[i]
  BY DEF NewsInv, NewsTypes
<1>2. NewsTypes'
  <2>1. ASSUME NEW i \in Jobs \ {j} PROVE JobShape(i)'
    BY <1>1 DEF NewsInv, NewsTypes, JobShape, ClusterAtHand
  <2>2. (job = [i \in Jobs |-> job[i]])'
    BY DEF NewsInv, NewsTypes
  <2> QED BY <2>1, <2>2 DEF NewsInv, NewsTypes
<1>3. RowsFollow' /\ PageFollows'
  BY DEF NewsInv, RowsFollow, PageFollows, NamesItsSources
<1>4. JobsFollow'
  BY <1>1 DEF NewsInv, JobsFollow, NamesItsSources
<1> QED BY <1>2, <1>3, <1>4 DEF NewsInv

LEMMA AbortKeeps ==
  ASSUME NewsInv, NEW j \in Jobs, AbortJob(j)
  PROVE  NewsInv'
<1>1. /\ job' = [i \in Jobs |-> IF i = j THEN NoJob ELSE job[i]]
      /\ UNCHANGED <<letters, news, page>>
  BY DEF AbortJob, OnlyJob, NewsInv, NewsTypes
<1>2. job'[j] = NoJob
  BY <1>1 DEF NewsInv, NewsTypes
<1>3. DOMAIN NoJob.wrote = {}
  BY DEF NoJob
<1>4. JobShape(j)'
  BY <1>2, <1>3 DEF JobShape, NoJob
<1>5. NoJob.pc = "rest"
  BY DEF NoJob
<1> QED BY <1>1, <1>3, <1>4, <1>5, OneJobKeeps

LEMMA StartKeeps ==
  ASSUME NewsInv, NEW j \in Jobs, StartJob(j)
  PROVE  NewsInv'
<1> USE DEF StartJob
<1>1. CASE job' = job
  BY <1>1 DEF NewsInv, NewsTypes, JobShape, ClusterAtHand, RowsFollow, JobsFollow, PageFollows,
              NamesItsSources
<1>2. CASE job' = [job EXCEPT ![j].pc = "load"]
  <2> DEFINE s == [job[j] EXCEPT !.pc = "load"]
  <2>1. job' = [i \in Jobs |-> IF i = j THEN s ELSE job[i]]
    BY <1>2 DEF NewsInv, NewsTypes
  <2>2. JobShape(j)
    BY DEF NewsInv, NewsTypes
  <2>3. /\ DOMAIN s = DOMAIN job[j] /\ s.pc = "load" /\ s.wrote = job[j].wrote
        /\ s.loaded = job[j].loaded /\ s.todo = job[j].todo
    BY <2>2 DEF JobShape
  <2> HIDE DEF s
  <2>4. job'[j] = s
    BY <2>1
  <2>5. JobShape(j)'
    BY <2>2, <2>3, <2>4 DEF NewsInv, NewsTypes, JobShape
  <2>6. \A k \in DOMAIN s.wrote : s.wrote[k].row /\ NamesItsSources(k, s.wrote[k])
    BY <2>3 DEF NewsInv, JobsFollow
  <2> QED BY <2>1, <2>3, <2>5, <2>6, OneJobKeeps
<1> QED BY <1>1, <1>2

LEMMA LoadKeeps ==
  ASSUME NewsInv, NEW j \in Jobs, LoadEmails(j)
  PROVE  NewsInv'
<1> DEFINE s == [job[j] EXCEPT !.pc = "find", !.loaded = letters, !.todo = Groups(letters)]
<1>1. job' = [i \in Jobs |-> IF i = j THEN s ELSE job[i]]
  BY DEF LoadEmails, NewsInv, NewsTypes
<1>2. JobShape(j) /\ UNCHANGED <<letters, news, page>>
  BY DEF LoadEmails, OnlyJob, NewsInv, NewsTypes
<1>3. /\ DOMAIN s = DOMAIN job[j] /\ s.pc = "find" /\ s.wrote = job[j].wrote
      /\ s.loaded = letters /\ s.todo = Groups(letters)
  BY <1>2 DEF JobShape
<1> HIDE DEF s
<1>4. job'[j] = s
  BY <1>1
<1>5. JobShape(j)'
  <2>1. Groups(letters) \in SUBSET ClusterKeys
    BY DEF Groups
  <2> QED BY <1>2, <1>3, <1>4, <2>1 DEF NewsInv, NewsTypes, JobShape
<1>6. \A k \in DOMAIN s.wrote : s.wrote[k].row /\ NamesItsSources(k, s.wrote[k])
  BY <1>3 DEF NewsInv, JobsFollow
<1> QED BY <1>1, <1>2, <1>3, <1>5, <1>6, OneJobKeeps

(* The cluster at hand is a key of the message, the members of its upsert   *)
(* are the letters that were loaded for it.                                 *)
LEMMA AtHand ==
  ASSUME NewsInv, Uncut, NEW j \in Jobs, job[j].todo # {}
  PROVE  /\ ClusterAtHand(j) \in job[j].todo /\ ClusterAtHand(j) \in ClusterKeys
         /\ Members(j) = RoutedTo(ClusterAtHand(j), job[j].loaded)
<1>1. job[j].loaded \in SUBSET Newsletters /\ job[j].todo \in SUBSET ClusterKeys
  BY DEF NewsInv, NewsTypes, JobShape
<1>2. ClusterAtHand(j) \in job[j].todo
  BY <1>1, NextGroupIsLeft DEF ClusterAtHand
<1>3. ClusterAtHand(j) \in ClusterKeys
  BY <1>1, <1>2
<1>4. Members(j) = RoutedTo(ClusterAtHand(j), job[j].loaded)
  BY <1>1, <1>3, NothingIsCut DEF Members
<1> QED BY <1>2, <1>3, <1>4

LEMMA FindKeeps ==
  ASSUME NewsInv, NEW j \in Jobs, FindCluster(j)
  PROVE  NewsInv'
<1> DEFINE s == [job[j] EXCEPT !.pc = "upsert", !.seen = news[ClusterAtHand(j)]]
<1>1. job' = [i \in Jobs |-> IF i = j THEN s ELSE job[i]]
  BY DEF FindCluster, NewsInv, NewsTypes
<1>2. /\ JobShape(j) /\ UNCHANGED <<letters, news, page>> /\ job[j].todo # {}
      /\ letters \subseteq job[j].loaded
  BY DEF FindCluster, OnlyJob, NewsInv, NewsTypes, JobsFollow
<1>3. /\ DOMAIN s = DOMAIN job[j] /\ s.pc = "upsert" /\ s.wrote = job[j].wrote
      /\ s.loaded = job[j].loaded /\ s.todo = job[j].todo
  BY <1>2 DEF JobShape
<1> HIDE DEF s
<1>4. job'[j] = s
  BY <1>1
<1>5. JobShape(j)'
  BY <1>2, <1>3, <1>4 DEF JobShape
<1>6. \A k \in DOMAIN s.wrote : s.wrote[k].row /\ NamesItsSources(k, s.wrote[k])
  BY <1>3 DEF NewsInv, JobsFollow
<1> QED BY <1>1, <1>2, <1>3, <1>5, <1>6, OneJobKeeps

(* Whoever wrote the row in the meantime wrote the same member list.        *)
LEMMA UpsertKeeps ==
  ASSUME NewsInv, Uncut, NEW j \in Jobs, UpsertCluster(j)
  PROVE  NewsInv'
<1> DEFINE h == ClusterAtHand(j)
           now == news[h]
           kept == IF now.version = job[j].seen.version THEN {} ELSE now.members
           new == [now EXCEPT !.row = TRUE, !.version = @ + 1, !.members = kept \cup Members(j)]
           written == [k \in {h} \cup DOMAIN job[j].wrote |->
                         IF k = h THEN new ELSE job[j].wrote[k]]
           s == [job[j] EXCEPT !.pc = "ask", !.wrote = written]
<1>1. job' = [i \in Jobs |-> IF i = j THEN s ELSE job[i]]
  BY DEF UpsertCluster, NewsInv, NewsTypes
<1>2. /\ JobShape(j) /\ UNCHANGED <<letters, news, page>> /\ job[j].todo # {}
      /\ letters \subseteq job[j].loaded
  BY DEF UpsertCluster, OnlyJob, NewsInv, NewsTypes, JobShape, JobsFollow
<1>3. h \in ClusterKeys /\ Members(j) = RoutedTo(h, job[j].loaded)
  BY <1>2, AtHand
<1>4. Members(j) \subseteq letters
  BY DEF UpsertCluster, RefusesUpsert
<1>5. Members(j) = RoutedTo(h, letters)
  <2> HIDE DEF h
  <2> QED BY <1>2, <1>3, <1>4 DEF RoutedTo
<1>6. now \in ClusterRecords /\ NamesItsSources(h, now) /\ letters \in SUBSET Newsletters
  BY <1>3 DEF NewsInv, NewsTypes, RowsFollow
<1> HIDE DEF h
<1>7. kept \subseteq RoutedTo(h, letters)
  BY <1>6 DEF ClusterRecords, NamesItsSources
<1> HIDE DEF now, kept
<1>8. /\ new \in ClusterRecords /\ new.row /\ new.members = RoutedTo(h, letters)
      /\ new.sources = now.sources
  <2>1. kept \cup Members(j) = RoutedTo(h, letters)
    BY <1>5, <1>7
  <2>2. RoutedTo(h, letters) \in SUBSET Newsletters
    BY <1>6 DEF RoutedTo
  <2> DEFINE v == now.version + 1
  <2>3. new = [now EXCEPT !.row = TRUE, !.version = v, !.members = RoutedTo(h, letters)]
    BY <2>1
  <2>4. v \in Int
    BY <1>6 DEF ClusterRecords
  <2> HIDE DEF new, v
  <2> QED BY <1>6, <2>2, <2>3, <2>4 DEF ClusterRecords
<1> HIDE DEF new
<1>9. NamesItsSources(h, new)
  BY <1>6, <1>8 DEF NamesItsSources
<1>10. \A k \in DOMAIN written :
         /\ k \in ClusterKeys /\ written[k] \in ClusterRecords
         /\ written[k].row /\ NamesItsSources(k, written[k])
  BY <1>3, <1>8, <1>9 DEF NewsInv, NewsTypes, JobShape, JobsFollow
<1>11. h \in DOMAIN written
  OBVIOUS
<1> HIDE DEF written
<1>12. /\ DOMAIN s = DOMAIN job[j] /\ s.pc = "ask" /\ s.wrote = written
       /\ s.loaded = job[j].loaded /\ s.todo = job[j].todo
  BY <1>2 DEF JobShape
<1> HIDE DEF s
<1>13. job'[j] = s
  BY <1>1
<1>14. ClusterAtHand(j)' = h
  BY <1>12, <1>13 DEF h, ClusterAtHand
<1>15. JobShape(j)'
  BY <1>2, <1>10, <1>11, <1>12, <1>13, <1>14 DEF NewsInv, NewsTypes, JobShape
<1> QED BY <1>1, <1>2, <1>10, <1>12, <1>15, OneJobKeeps

(* A summary is written from what the job loaded, or stays as it is.        *)
LEMMA AskKeeps ==
  ASSUME NewsInv, Uncut, NEW j \in Jobs, AskModelForCluster(j)
  PROVE  NewsInv'
<1> DEFINE h == ClusterAtHand(j)
           row == job[j].wrote[h]
<1>1. PICK cluster \in {row, Summarized(row, Members(j))} :
        job' = [job EXCEPT ![j].pc = "find", ![j].todo = @ \ {h}, ![j].wrote[h] = cluster]
  BY DEF AskModelForCluster
<1> DEFINE left == job[j].todo \ {h}
           written == [job[j].wrote EXCEPT ![h] = cluster]
           s == [job[j] EXCEPT !.pc = "find", !.todo = left, !.wrote[h] = cluster]
<1>2. job' = [i \in Jobs |-> IF i = j THEN s ELSE job[i]]
  BY <1>1 DEF NewsInv, NewsTypes
<1>3. /\ JobShape(j) /\ UNCHANGED <<letters, news, page>> /\ job[j].todo # {}
      /\ letters \subseteq job[j].loaded /\ h \in DOMAIN job[j].wrote
  BY DEF AskModelForCluster, OnlyJob, NewsInv, NewsTypes, JobShape, JobsFollow
<1>4. h \in ClusterKeys /\ Members(j) = RoutedTo(h, job[j].loaded)
  BY <1>3, AtHand
<1> HIDE DEF h
<1>5. row \in ClusterRecords /\ row.row /\ NamesItsSources(h, row)
  BY <1>3 DEF JobShape, NewsInv, JobsFollow
<1> HIDE DEF row
<1>6. cluster \in ClusterRecords /\ cluster.row /\ NamesItsSources(h, cluster)
  <2>1. CASE cluster = row
    BY <1>5, <2>1
  <2>2. CASE cluster = Summarized(row, Members(j))
    <3>1. Members(j) \in SUBSET Newsletters
      BY <1>3, <1>4 DEF JobShape, RoutedTo
    <3>2. Members(j) \cap letters = RoutedTo(h, letters)
      BY <1>3, <1>4 DEF RoutedTo
    <3>3. cluster = [row EXCEPT !.sources = Members(j)]
      BY <2>2 DEF Summarized
    <3>4. /\ cluster \in ClusterRecords /\ cluster.row /\ cluster.members = row.members
          /\ cluster.sources = Members(j)
      BY <1>5, <3>1, <3>3 DEF ClusterRecords
    <3> QED BY <1>5, <3>2, <3>4 DEF NamesItsSources
  <2> QED BY <2>1, <2>2
<1>7. \A k \in DOMAIN written :
        /\ k \in ClusterKeys /\ written[k] \in ClusterRecords
        /\ written[k].row /\ NamesItsSources(k, written[k])
  BY <1>3, <1>6 DEF NewsInv, JobShape, JobsFollow
<1> HIDE DEF left
<1>8. /\ DOMAIN s = DOMAIN job[j] /\ s.pc = "find" /\ s.wrote = written
      /\ s.loaded = job[j].loaded /\ s.todo = left
  BY <1>3 DEF JobShape
<1> HIDE DEF s, written
<1>9. job'[j] = s
  BY <1>2
<1>10. JobShape(j)'
  <2>1. left \in SUBSET ClusterKeys
    BY <1>3 DEF left, JobShape
  <2> QED BY <1>3, <1>7, <1>8, <1>9, <2>1 DEF NewsInv, NewsTypes, JobShape
<1> QED BY <1>2, <1>3, <1>7, <1>8, <1>10, OneJobKeeps

LEMMA CommitKeeps ==
  ASSUME NewsInv, NEW j \in Jobs, CommitJob(j)
  PROVE  NewsInv'
<1>1. /\ news' = [k \in ClusterKeys |-> IF HoldsCluster(j, k) THEN job[j].wrote[k] ELSE news[k]]
      /\ job' = [i \in Jobs |-> IF i = j THEN NoJob ELSE job[i]]
      /\ UNCHANGED <<letters, page>>
  BY DEF CommitJob, NewsInv, NewsTypes
<1>2. \A k \in ClusterKeys :
        /\ news'[k] \in ClusterRecords /\ NamesItsSources(k, news'[k])
        /\ news[k].row => news'[k].row
  BY <1>1 DEF HoldsCluster, NewsInv, NewsTypes, RowsFollow, JobShape, JobsFollow
<1>3. /\ DOMAIN NoJob = {"pc", "loaded", "todo", "seen", "wrote"} /\ DOMAIN NoJob.wrote = {}
      /\ NoJob.pc = "rest" /\ NoJob.loaded = {} /\ NoJob.todo = {}
  BY DEF NoJob
<1>4. NewsTypes'
  <2>1. JobShape(j)'
    BY <1>1, <1>3 DEF JobShape
  <2>2. ASSUME NEW i \in Jobs \ {j} PROVE JobShape(i)'
    BY <1>1 DEF NewsInv, NewsTypes, JobShape, ClusterAtHand
  <2>3. (job = [i \in Jobs |-> job[i]])'
    BY <1>1
  <2>4. (news \in [ClusterKeys -> ClusterRecords])'
    BY <1>1, <1>2
  <2> QED BY <1>1, <2>1, <2>2, <2>3, <2>4 DEF NewsInv, NewsTypes
<1>5. RowsFollow'
  BY <1>1, <1>2 DEF RowsFollow, NamesItsSources
<1>6. JobsFollow'
  BY <1>1, <1>3 DEF NewsInv, JobsFollow, NamesItsSources
<1>7. PageFollows'
  BY <1>1, <1>2 DEF NewsInv, PageFollows
<1> QED BY <1>4, <1>5, <1>6, <1>7 DEF NewsInv

(* A purge takes a letter out of the rows, and waits for the jobs that have  *)
(* it in theirs.                                                            *)
LEMMA PurgeKeeps ==
  ASSUME NewsInv, NEW a, PurgeAccount(a)
  PROVE  NewsInv'
<1> DEFINE gone == {n \in letters : Letter[n].account = a}
<1>1. /\ letters' = letters \ gone
      /\ news' = [k \in ClusterKeys |-> [news[k] EXCEPT !.members = @ \ gone]]
      /\ \A j \in Jobs, k \in ClusterKeys : ~Refers(j, k, gone)
      /\ UNCHANGED <<job, page>>
  BY DEF PurgeAccount
<1> HIDE DEF gone
<1>2. \A k : RoutedTo(k, letters') = RoutedTo(k, letters) \ gone
  BY <1>1 DEF RoutedTo
<1>3. ASSUME NEW k \in ClusterKeys
      PROVE  /\ news'[k] \in ClusterRecords /\ news'[k].row = news[k].row
             /\ news'[k].members = news[k].members \ gone /\ news'[k].sources = news[k].sources
  <2>1. news[k] \in ClusterRecords
    BY DEF NewsInv, NewsTypes
  <2> DEFINE kept == news[k].members \ gone
  <2>2. news'[k] = [news[k] EXCEPT !.members = kept] /\ kept \in SUBSET Newsletters
    BY <1>1, <2>1 DEF ClusterRecords
  <2> HIDE DEF kept
  <2>3. /\ news'[k] \in ClusterRecords /\ news'[k].row = news[k].row
        /\ news'[k].members = kept /\ news'[k].sources = news[k].sources
    BY <2>1, <2>2 DEF ClusterRecords
  <2> QED BY <2>3 DEF kept
<1>4. NewsTypes'
  <2>1. (news \in [ClusterKeys -> ClusterRecords])'
    BY <1>1, <1>3
  <2>2. \A j \in Jobs : JobShape(j)'
    BY <1>1 DEF NewsInv, NewsTypes, JobShape, ClusterAtHand
  <2> QED BY <1>1, <2>1, <2>2 DEF NewsInv, NewsTypes
<1>5. ASSUME NEW k \in ClusterKeys PROVE NamesItsSources(k, news[k])'
  <2>1. NamesItsSources(k, news[k])
    BY DEF NewsInv, RowsFollow
  <2> QED BY <1>1, <1>2, <1>3, <2>1 DEF NamesItsSources
<1>6. JobsFollow'
  <2>1. ASSUME NEW j \in Jobs, NEW k \in DOMAIN job[j].wrote
        PROVE  job[j].wrote[k].row /\ NamesItsSources(k, job[j].wrote[k])'
    <3>1. job[j].wrote[k].row /\ NamesItsSources(k, job[j].wrote[k])
      BY DEF NewsInv, JobsFollow
    <3>2. k \in ClusterKeys
      BY DEF NewsInv, NewsTypes, JobShape
    <3>3. job[j].wrote[k].members \cap gone = {}
      BY <1>1, <3>2 DEF Refers, HoldsCluster
    <3>4. RoutedTo(k, letters') = RoutedTo(k, letters)
      BY <1>2, <3>1, <3>3 DEF NamesItsSources
    <3> QED BY <1>1, <3>1, <3>4 DEF NamesItsSources, RoutedTo
  <2> QED BY <1>1, <2>1 DEF NewsInv, JobsFollow
<1>7. PageFollows'
  <2> SUFFICES ASSUME page.pc = "members"
               PROVE  /\ page.key \in ClusterKeys
                      /\ news'[page.key].row
                      /\ page.sources \cap letters' = RoutedTo(page.key, letters')
    BY <1>1, <1>2, Zenon DEF PageFollows
  <2>1. /\ page.key \in ClusterKeys /\ news[page.key].row
        /\ page.sources \cap letters = RoutedTo(page.key, letters)
    BY DEF NewsInv, PageFollows
  <2>2. news'[page.key].row
    BY <1>3, <2>1
  <2>3. page.sources \cap letters' = (page.sources \cap letters) \ gone
    BY <1>1
  <2> QED BY <1>2, <2>1, <2>2, <2>3
<1> QED BY <1>4, <1>5, <1>6, <1>7 DEF NewsInv, RowsFollow

LEMMA PageKeeps ==
  ASSUME NewsInv, ReadMembers \/ \E k \in ClusterKeys : ReadNews(k)
  PROVE  NewsInv'
<1>1. CASE ReadMembers
  <2>1. page' = [page EXCEPT !.pc = "shown", !.members = news[page.key].members]
        /\ UNCHANGED <<letters, news, job>>
    BY <1>1 DEF ReadMembers
  <2>2. DOMAIN page' = DOMAIN page /\ page'.pc = "shown"
    BY <2>1 DEF NewsInv, NewsTypes
  <2> QED BY <2>1, <2>2 DEF NewsInv, NewsTypes, JobShape, ClusterAtHand, RowsFollow, JobsFollow,
                            PageFollows, NamesItsSources
<1>2. ASSUME NEW k \in ClusterKeys, ReadNews(k) PROVE NewsInv'
  <2>1. /\ page' = [pc |-> "members", key |-> k, sources |-> news[k].sources, members |-> {}]
        /\ UNCHANGED <<letters, news, job>> /\ news[k].sources # {}
    BY <1>2 DEF ReadNews
  <2>2. NewsTypes' /\ RowsFollow' /\ JobsFollow'
    BY <2>1 DEF NewsInv, NewsTypes, JobShape, ClusterAtHand, RowsFollow, JobsFollow,
                NamesItsSources
  <2>3. PageFollows'
    BY <2>1 DEF NewsInv, PageFollows, RowsFollow, NamesItsSources
  <2> QED BY <2>2, <2>3 DEF NewsInv
<1> QED BY <1>1, <1>2

LEMMA NewsInvStep == Uncut /\ NewsInv /\ [NewsNext]_newsVars => NewsInv'
<1> SUFFICES ASSUME Uncut, NewsInv, [NewsNext]_newsVars PROVE NewsInv'
  OBVIOUS
<1>1. ASSUME NEW j \in Jobs,
             StartJob(j) \/ LoadEmails(j) \/ FindCluster(j) \/ UpsertCluster(j)
             \/ AskModelForCluster(j) \/ CommitJob(j) \/ AbortJob(j)
      PROVE  NewsInv'
  BY <1>1, StartKeeps, LoadKeeps, FindKeeps, UpsertKeeps, AskKeeps, CommitKeeps, AbortKeeps
<1>2. CASE UNCHANGED newsVars
  BY <1>2 DEF newsVars, NewsInv, NewsTypes, JobShape, ClusterAtHand, RowsFollow, JobsFollow,
              PageFollows, NamesItsSources
<1> QED BY <1>1, <1>2, PurgeKeeps, PageKeeps DEF NewsNext

(* The news page names exactly the newsletters that the shown text was      *)
(* written from and that still exist: for any letters and curated rules,    *)
(* for jobs that are delivered again while they still work, models that     *)
(* fail and accounts purged between any two statements, while no group is   *)
(* larger than one summary may have letters.                                *)
THEOREM PageNamesSources == ASSUME Uncut PROVE NewsSpec => NewsNamesItsSources
<1>1. NewsInv /\ [NewsNext]_newsVars
      => [page.pc = "members" /\ page'.pc = "shown"
          => page'.members = page.sources \cap letters]_newsVars
  <2> SUFFICES ASSUME NewsInv, NewsNext, page.pc = "members", page'.pc = "shown"
               PROVE  page'.members = page.sources \cap letters
    BY DEF newsVars
  <2>1. page' # page
    OBVIOUS
  <2>2. CASE ReadMembers
    <3>1. page'.members = news[page.key].members
      BY <2>2 DEF ReadMembers, NewsInv, NewsTypes
    <3> QED BY <3>1 DEF NewsInv, PageFollows, RowsFollow, NamesItsSources
  <2>3. ASSUME NEW k \in ClusterKeys, ReadNews(k) PROVE FALSE
    BY <2>3 DEF ReadNews
  <2>4. ASSUME NEW j \in Jobs,
               StartJob(j) \/ LoadEmails(j) \/ FindCluster(j) \/ UpsertCluster(j)
               \/ AskModelForCluster(j) \/ CommitJob(j) \/ AbortJob(j)
        PROVE  FALSE
    BY <2>1, <2>4 DEF StartJob, LoadEmails, FindCluster, UpsertCluster, AskModelForCluster,
                      CommitJob, AbortJob, OnlyJob
  <2>5. ASSUME NEW a, PurgeAccount(a) PROVE FALSE
    BY <2>1, <2>5 DEF PurgeAccount
  <2> QED BY <2>2, <2>3, <2>4, <2>5 DEF NewsNext
<1>2. NewsInit => NewsInv
  BY NewsInvInit
<1>3. NewsInv /\ [NewsNext]_newsVars => NewsInv'
  BY NewsInvStep
<1> QED BY <1>1, <1>2, <1>3, PTL DEF NewsSpec, NewsNamesItsSources

-----------------------------------------------------------------------------
(* Redaction: what a match is                                               *)

Texts == Seq(Symbols \cup Placeholders)

LEMMA MaxIsLargest ==
  ASSUME NEW S \in SUBSET Nat, S # {}, NEW b \in Nat, \A n \in S : n <= b
  PROVE  Max(S) \in S /\ \A n \in S : n <= Max(S)
<1>1. \E m \in S : \A n \in S : m >= n
  BY LargestExists
<1>2. Max(S) \in S /\ \A n \in S : Max(S) >= n
  BY <1>1 DEF Max
<1> QED BY <1>2

(* A run is the longest: what follows it is not of its class.               *)
LEMMA RunIsLongest ==
  ASSUME NEW t \in Texts, NEW i \in Nat, NEW class
  PROVE  /\ Run(t, i, class) \in 0 .. Len(t)
         /\ \A k \in i .. i + Run(t, i, class) - 1 : IsAt(t, k, class)
         /\ \A n \in 0 .. Len(t) :
              (\A k \in i .. i + n - 1 : IsAt(t, k, class)) => n <= Run(t, i, class)
<1> DEFINE S == {n \in 0 .. Len(t) : \A k \in i .. i + n - 1 : IsAt(t, k, class)}
<1>1. Len(t) \in Nat
  BY DEF Texts
<1>2. 0 \in S
  BY <1>1
<1>3. S \in SUBSET Nat /\ \A n \in S : n <= Len(t)
  BY <1>1
<1>4. Max(S) \in S /\ \A n \in S : n <= Max(S)
  <2> HIDE DEF S
  <2> QED BY <1>1, <1>2, <1>3, MaxIsLargest
<1>5. Run(t, i, class) = Max(S)
  BY DEF Run
<1> QED BY <1>4, <1>5

LEMMA RunEnds ==
  ASSUME NEW t \in Texts, NEW i \in Nat \ {0}, NEW class
  PROVE  ~IsAt(t, i + Run(t, i, class), class)
<1> DEFINE n == Run(t, i, class)
<1>1. n \in 0 .. Len(t) /\ \A k \in i .. i + n - 1 : IsAt(t, k, class)
  BY RunIsLongest
<1> SUFFICES ASSUME IsAt(t, i + n, class) PROVE FALSE
  OBVIOUS
<1>2. DOMAIN t = 1 .. Len(t) /\ Len(t) \in Nat
  BY DEF Texts
<1>3. i + n \in 1 .. Len(t)
  BY <1>2 DEF IsAt
<1> HIDE DEF n
<1>4. n + 1 \in 0 .. Len(t) /\ \A k \in i .. i + (n + 1) - 1 : IsAt(t, k, class)
  BY <1>1, <1>2, <1>3
<1>5. n + 1 <= n
  BY <1>4, RunIsLongest DEF n
<1> QED BY <1>1, <1>2, <1>5

(* A run of n symbols that a symbol outside of the class ends.              *)
LEMMA RunStops ==
  ASSUME NEW t \in Texts, NEW i \in Nat \ {0}, NEW class, NEW n \in Nat,
         \A k \in i .. i + n - 1 : IsAt(t, k, class), ~IsAt(t, i + n, class)
  PROVE  Run(t, i, class) = n
<1> DEFINE r == Run(t, i, class)
<1>1. r \in Nat /\ \A k \in i .. i + r - 1 : IsAt(t, k, class)
  BY RunIsLongest DEF Texts
<1>2. ~IsAt(t, i + r, class)
  BY RunEnds
<1> HIDE DEF r
<1>3. ~ (r > n)
  BY <1>1
<1>4. ~ (n > r)
  BY <1>1, <1>2
<1>5. r = n
  BY <1>1, <1>3, <1>4
<1> QED BY <1>5 DEF r

(* A run is at least as long as the symbols of its class are many.          *)
LEMMA RunCovers ==
  ASSUME NEW t \in Texts, NEW i \in Nat \ {0}, NEW class, NEW n \in Nat,
         \A k \in i .. i + n - 1 : IsAt(t, k, class)
  PROVE  Run(t, i, class) >= n
<1> DEFINE r == Run(t, i, class)
<1>1. r \in Nat /\ \A k \in i .. i + r - 1 : IsAt(t, k, class)
  BY RunIsLongest DEF Texts
<1>2. ~IsAt(t, i + r, class)
  BY RunEnds
<1> HIDE DEF r
<1>3. ~ (n > r)
  BY <1>1, <1>2
<1> QED BY <1>1, <1>3 DEF r

(* Where an alternative is found, and how far it reaches.                   *)
Occurs(c, t, i) ==
  i + Len(c) <= Len(t) + 1 /\ \A k \in 1 .. Len(c) : t[i + k - 1] = c[k]

LEMMA PrefixIsOccurrence ==
  ASSUME NEW t \in Texts, NEW i \in 1 .. Len(t), NEW c \in Seq(Symbols)
  PROVE  IsPrefix(c, SubSeq(t, i, Len(t))) <=> Occurs(c, t, i)
<1> DEFINE rest == SubSeq(t, i, Len(t))
<1>1. Len(t) \in Nat /\ Len(c) \in Nat /\ DOMAIN c = 1 .. Len(c)
  BY DEF Texts
<1>2. /\ rest \in Texts /\ Len(rest) = Len(t) - i + 1
      /\ \A k \in 1 .. Len(t) - i + 1 : rest[k] = t[i + k - 1]
  BY <1>1, SubSeqProperties DEF Texts
<1>3. SubSeq(c, 1, Len(c)) = c
  BY SubSeqFull
<1> HIDE DEF rest
<1>4. ASSUME Len(c) <= Len(rest)
      PROVE  SubSeq(rest, 1, Len(c)) = c <=> \A k \in 1 .. Len(c) : rest[k] = c[k]
  <2>1. /\ Len(SubSeq(rest, 1, Len(c))) = Len(c)
        /\ \A k \in 1 .. Len(c) : SubSeq(rest, 1, Len(c))[k] = rest[k]
        /\ SubSeq(rest, 1, Len(c)) \in Texts
    BY <1>1, <1>2, <1>4, SubSeqProperties DEF Texts
  <2> QED BY <1>1, <2>1 DEF Texts
<1>5. IsPrefix(c, rest) <=> Len(c) <= Len(rest) /\ SubSeq(rest, 1, Len(c)) = c
  BY <1>3 DEF IsPrefix
<1>6. Len(c) <= Len(rest) <=> i + Len(c) <= Len(t) + 1
  BY <1>1, <1>2
<1>7. Len(c) <= Len(rest) =>
        ((\A k \in 1 .. Len(c) : rest[k] = c[k]) <=> \A k \in 1 .. Len(c) : t[i + k - 1] = c[k])
  <2> SUFFICES ASSUME Len(c) <= Len(rest)
               PROVE  \A k \in 1 .. Len(c) : rest[k] = t[i + k - 1]
    BY Zenon
  <2>1. \A k \in 1 .. Len(c) : k \in 1 .. Len(t) - i + 1
    BY <1>1, <1>2
  <2> QED BY <1>2, <2>1
<1> QED BY <1>4, <1>5, <1>6, <1>7 DEF Occurs, rest

LEMMA IdentityMatchIs ==
  ASSUME NEW candidates \in SUBSET Seq(Symbols), NEW t \in Texts, NEW i \in 1 .. Len(t)
  PROVE  /\ IdentityMatch(candidates, t, i) \in 0 .. Len(t) - i + 1
         /\ IdentityMatch(candidates, t, i) > 0
            <=> \E c \in candidates : Len(c) > 0 /\ Occurs(c, t, i)
<1> DEFINE found == {c \in candidates : IsPrefix(c, SubSeq(t, i, Len(t)))}
           S == {0} \cup {Len(c) : c \in found}
           n == IdentityMatch(candidates, t, i)
<1>1. \A c \in candidates : c \in found <=> Occurs(c, t, i)
  BY PrefixIsOccurrence
<1>2. Len(t) - i + 1 \in Nat
  BY DEF Texts
<1>3. \A c \in found : Len(c) \in Nat /\ Len(c) <= Len(t) - i + 1
  BY <1>1, <1>2 DEF Occurs, Texts
<1> HIDE DEF found
<1>4. S \in SUBSET Nat /\ S # {} /\ \A m \in S : m <= Len(t) - i + 1
  BY <1>2, <1>3
<1>5. n = Max(S)
  BY DEF IdentityMatch, found
<1>6. n \in S /\ \A m \in S : m <= n
  <2> HIDE DEF S, n
  <2> QED BY <1>2, <1>4, <1>5, MaxIsLargest
<1>7. n > 0 <=> \E c \in found : Len(c) > 0
  <2>1. ASSUME n > 0 PROVE \E c \in found : Len(c) > 0
    BY <1>6, <2>1
  <2>2. ASSUME NEW c \in found, Len(c) > 0 PROVE n > 0
    <3>1. Len(c) <= n
      BY <1>6
    <3> QED BY <1>3, <1>4, <1>6, <2>2, <3>1
  <2> QED BY <2>1, <2>2
<1>8. found \subseteq candidates
  BY DEF found
<1> QED BY <1>1, <1>4, <1>6, <1>7, <1>8

LEMMA UrlMatchIs ==
  ASSUME NEW t \in Texts, NEW i \in 1 .. Len(t)
  PROVE  /\ UrlMatch(t, i) \in 0 .. Len(t) - i + 1
         /\ UrlMatch(t, i) > 0
            <=> /\ Boundary(t, i) /\ IsAt(t, i, {"http"}) /\ IsAt(t, i + 1, {"://"})
                /\ IsAt(t, i + 2, Alphanumeric \cup Marks)
         /\ UrlMatch(t, i) > 0 => ~IsAt(t, i + UrlMatch(t, i), Alphanumeric \cup Marks)
<1> DEFINE class == Alphanumeric \cup Marks
           rest == Run(t, i + 2, class)
<1>1. Len(t) \in Nat /\ DOMAIN t = 1 .. Len(t) /\ i + 2 \in Nat \ {0}
  BY DEF Texts
<1> HIDE DEF class
<1>2. rest \in 0 .. Len(t) /\ \A k \in i + 2 .. i + 2 + rest - 1 : IsAt(t, k, class)
  BY <1>1, RunIsLongest
<1>3. ~IsAt(t, i + 2 + rest, class)
  BY <1>1, RunEnds
<1>4. UrlMatch(t, i) = IF /\ Boundary(t, i) /\ IsAt(t, i, {"http"}) /\ IsAt(t, i + 1, {"://"})
                          /\ rest > 0
                       THEN 2 + rest ELSE 0
  BY DEF UrlMatch, class
<1> HIDE DEF rest
<1>5. rest > 0 <=> IsAt(t, i + 2, class)
  BY <1>2, <1>3
<1>6. rest > 0 => i + 2 + rest - 1 <= Len(t)
  <2>1. rest > 0 => IsAt(t, i + 2 + rest - 1, class)
    BY <1>2
  <2> QED BY <1>1, <1>2, <2>1 DEF IsAt
<1>7. i + 2 + rest = i + (2 + rest)
  BY <1>2
<1> QED BY <1>1, <1>2, <1>3, <1>4, <1>5, <1>6, <1>7 DEF class

(* The parts of an address whose "@" is at a place.                         *)
IsAddress(t, i, at) ==
  /\ Boundary(t, i) /\ IsAt(t, i, Alphanumeric) /\ IsAt(t, at, {"@"})
  /\ DomainEnds(t, at) # {}

LEMMA DomainEndsIs ==
  ASSUME NEW t \in Texts, NEW at \in Nat \ {0}, NEW n \in DomainEnds(t, at)
  PROVE  /\ n \in Nat /\ n >= 3 /\ at + n <= Len(t) /\ n <= Len(t)
         /\ IsAt(t, at + n, Words) /\ ~IsAt(t, at + n + 1, Alphanumeric)
<1>1. n \in 3 .. Run(t, at + 1, AddressText) /\ Boundary(t, at + n + 1)
  BY DEF DomainEnds
<1>2. PICK k \in 2 .. n - 1 : Run(t, at + k + 1, Words) >= n - k
  BY DEF DomainEnds
<1>3. Len(t) \in Nat /\ DOMAIN t = 1 .. Len(t)
  BY DEF Texts
<1>4. Run(t, at + 1, AddressText) \in 0 .. Len(t)
  BY RunIsLongest
<1>5. n \in Nat /\ n >= 3
  BY <1>1, <1>3, <1>4
<1>6. at + k + 1 \in Nat /\ k \in Nat /\ k < n
  BY <1>2, <1>5
<1>7. /\ Run(t, at + k + 1, Words) \in Nat
      /\ \A m \in at + k + 1 .. at + k + 1 + Run(t, at + k + 1, Words) - 1 : IsAt(t, m, Words)
  BY <1>3, <1>6, RunIsLongest
<1>8. IsAt(t, at + n, Words)
  <2>1. at + n \in at + k + 1 .. at + k + 1 + Run(t, at + k + 1, Words) - 1
    BY <1>2, <1>5, <1>6, <1>7
  <2> QED BY <1>7, <2>1
<1>9. at + n <= Len(t)
  BY <1>3, <1>5, <1>8 DEF IsAt
<1>10. ~IsAt(t, at + n + 1, Alphanumeric)
  <2>1. (at + n + 1) - 1 = at + n
    BY <1>5
  <2>2. IsAt(t, at + n, Alphanumeric)
    BY <1>8 DEF IsAt, Alphanumeric
  <2> QED BY <1>1, <2>1, <2>2 DEF Boundary
<1> QED BY <1>3, <1>5, <1>8, <1>9, <1>10

LEMMA EmailMatchIs ==
  ASSUME NEW t \in Texts, NEW i \in 1 .. Len(t)
  PROVE  /\ EmailMatch(t, i) \in 0 .. Len(t) - i + 1
         /\ EmailMatch(t, i) > 0 <=> IsAddress(t, i, i + Run(t, i, AddressText))
         /\ EmailMatch(t, i) > 0 => ~IsAt(t, i + EmailMatch(t, i), Alphanumeric)
<1> DEFINE at == i + Run(t, i, AddressText)
           ends == DomainEnds(t, at)
           n == Max(ends)
<1>1. Len(t) \in Nat /\ DOMAIN t = 1 .. Len(t) /\ i \in Nat
  BY DEF Texts
<1>2. Run(t, i, AddressText) \in Nat
  BY <1>1, RunIsLongest
<1>3. at \in Nat \ {0} /\ at >= i
  BY <1>1, <1>2
<1>4. EmailMatch(t, i) = IF IsAddress(t, i, at) THEN at + n - i + 1 ELSE 0
  BY DEF EmailMatch, IsAddress
<1> HIDE DEF at
<1>5. \A m \in ends : m \in Nat /\ m <= Len(t)
  BY <1>3, DomainEndsIs
<1>6. ends # {} => n \in ends
  <2> HIDE DEF ends
  <2>1. ends \in SUBSET Nat
    BY <1>5
  <2> QED BY <1>1, <1>5, <2>1, MaxIsLargest
<1>7. ends # {} => /\ n \in Nat /\ n >= 3 /\ at + n <= Len(t)
                   /\ ~IsAt(t, at + n + 1, Alphanumeric)
  <2> HIDE DEF n
  <2> QED BY <1>3, <1>6, DomainEndsIs
<1>8. IsAddress(t, i, at) => ends # {}
  BY DEF IsAddress
<1> HIDE DEF n, ends
<1>9. ends # {} => at + n - i + 1 \in 1 .. Len(t) - i + 1 /\ i + (at + n - i + 1) = at + n + 1
  BY <1>1, <1>3, <1>7
<1>10. EmailMatch(t, i) > 0 <=> IsAddress(t, i, at)
  BY <1>4, <1>8, <1>9
<1> QED BY <1>1, <1>4, <1>7, <1>8, <1>9, <1>10 DEF at

(* A pass of the chain.                                                     *)
PatternKinds == {"<URL>", "<EMAIL>", "<SSN>"}
IsPass(p) == p.kind \in Placeholders /\ p.candidates \in SUBSET Seq(Symbols)

LEMMA MatchFits ==
  ASSUME NEW p, IsPass(p), NEW t \in Texts, NEW i \in 1 .. Len(t)
  PROVE  Match(p, t, i) \in 0 .. Len(t) - i + 1
<1>1. SsnMatch(t, i) \in 0 .. Len(t) - i + 1
  BY DEF SsnMatch, Texts
<1>2. UrlMatch(t, i) \in 0 .. Len(t) - i + 1 /\ EmailMatch(t, i) \in 0 .. Len(t) - i + 1
  BY UrlMatchIs, EmailMatchIs
<1>3. IdentityMatch(p.candidates, t, i) \in 0 .. Len(t) - i + 1
  BY IdentityMatchIs DEF IsPass
<1> QED BY <1>1, <1>2, <1>3 DEF Match

(* What a pattern cuts out begins and ends at the edge of a word.           *)
LEMMA PatternEdges ==
  ASSUME NEW p, p.kind \in PatternKinds, NEW t \in Texts, NEW i \in 1 .. Len(t),
         Match(p, t, i) > 0
  PROVE  /\ ~IsAt(t, i - 1, Alphanumeric)
         /\ ~IsAt(t, i + Match(p, t, i), Alphanumeric)
<1>1. Boundary(t, i) /\ IsAt(t, i, Alphanumeric) => ~IsAt(t, i - 1, Alphanumeric)
  BY DEF Boundary
<1>2. CASE p.kind = "<URL>"
  <2>1. Match(p, t, i) = UrlMatch(t, i)
    BY <1>2 DEF Match
  <2>2. /\ Boundary(t, i) /\ IsAt(t, i, {"http"})
        /\ ~IsAt(t, i + UrlMatch(t, i), Alphanumeric \cup Marks)
    BY <2>1, UrlMatchIs
  <2>3. IsAt(t, i, Alphanumeric)
    BY <2>2, SymbolsAssumption DEF IsAt, Alphanumeric
  <2> QED BY <1>1, <2>1, <2>2, <2>3 DEF IsAt
<1>3. CASE p.kind = "<EMAIL>"
  <2>1. Match(p, t, i) = EmailMatch(t, i)
    BY <1>3 DEF Match
  <2>2. /\ Boundary(t, i) /\ IsAt(t, i, Alphanumeric)
        /\ ~IsAt(t, i + EmailMatch(t, i), Alphanumeric)
    BY <2>1, EmailMatchIs DEF IsAddress
  <2> QED BY <1>1, <2>1, <2>2
<1>4. CASE p.kind = "<SSN>"
  <2>1. Match(p, t, i) = SsnMatch(t, i)
    BY <1>4 DEF Match
  <2>2. /\ IsAt(t, i, {"ssn"}) /\ Boundary(t, i) /\ Boundary(t, i + 1) /\ SsnMatch(t, i) = 1
    BY <2>1 DEF SsnMatch
  <2>3. IsAt(t, i, Alphanumeric)
    BY <2>2 DEF IsAt, Alphanumeric
  <2>4. (i + 1) - 1 = i
    OBVIOUS
  <2>5. ~IsAt(t, i + 1, Alphanumeric)
    BY <2>2, <2>3, <2>4 DEF Boundary
  <2> QED BY <1>1, <2>1, <2>2, <2>3, <2>5
<1> QED BY <1>2, <1>3, <1>4 DEF PatternKinds

-----------------------------------------------------------------------------
(* Redaction: what a pass makes of a text                                   *)

(* One step of re.subn at a place, given the rewritten rest.                *)
Rewrite(p, t, from, i) ==
  IF i > Len(t) THEN <<>>
  ELSE IF Match(p, t, i) = 0 THEN <<t[i]>> \o from[i + 1]
  ELSE <<p.kind>> \o from[i + Match(p, t, i)]

Reaches(p, t, i) == IF Match(p, t, i) = 0 THEN i + 1 ELSE i + Match(p, t, i)

LEMMA ReachesFurther ==
  ASSUME NEW p, IsPass(p), NEW t \in Texts, NEW i \in 1 .. Len(t)
  PROVE  Reaches(p, t, i) \in i + 1 .. Len(t) + 1
<1>1. Match(p, t, i) \in 0 .. Len(t) - i + 1
  BY MatchFits
<1>2. Len(t) \in Nat
  BY DEF Texts
<1> QED BY <1>1, <1>2 DEF Reaches

(* The recursion is well founded: there is such a function.                 *)
LEMMA RewritingExists ==
  ASSUME NEW p, IsPass(p), NEW t \in Texts
  PROVE  \E from : from = [i \in 1 .. Len(t) + 1 |-> Rewrite(p, t, from, i)]
<1> DEFINE L == Len(t)
           Down(n) == L + 1 - n .. L + 1
           S == {n \in Nat : n <= L => \E from : from = [i \in Down(n) |-> Rewrite(p, t, from, i)]}
<1>1. L \in Nat
  BY DEF Texts
<1>2. 0 \in S
  <2> DEFINE from == [i \in Down(0) |-> <<>>]
  <2>1. \A i \in Down(0) : i > L
    BY <1>1
  <2>2. \A i \in Down(0) : Rewrite(p, t, from, i) = <<>>
    BY <2>1 DEF Rewrite
  <2>3. from = [i \in Down(0) |-> Rewrite(p, t, from, i)]
    BY <2>2
  <2> QED BY <2>3
<1>3. ASSUME NEW n \in S PROVE n + 1 \in S
  <2> SUFFICES ASSUME n + 1 <= L
               PROVE  \E from : from = [i \in Down(n + 1) |-> Rewrite(p, t, from, i)]
    OBVIOUS
  <2>1. n \in Nat /\ n <= L
    BY <1>1
  <2>2. PICK g : g = [i \in Down(n) |-> Rewrite(p, t, g, i)]
    BY <2>1
  <2> DEFINE first == L - n
             h == [i \in Down(n + 1) |-> IF i = first THEN Rewrite(p, t, g, first) ELSE g[i]]
  <2>3. first \in 1 .. L /\ Down(n + 1) = {first} \cup Down(n) /\ first \notin Down(n)
    BY <1>1, <2>1
  <2>4. \A i \in Down(n) : h[i] = g[i]
    BY <2>3
  <2>5. \A i \in Down(n + 1) : i \in 1 .. L + 1 /\ (i <= L => Reaches(p, t, i) \in Down(n))
    <3>1. ASSUME NEW i \in Down(n + 1) PROVE i \in 1 .. L + 1 /\ i >= first
      BY <1>1, <2>1
    <3>2. ASSUME NEW i \in Down(n + 1), i <= L PROVE Reaches(p, t, i) \in Down(n)
      <4>1. Reaches(p, t, i) \in i + 1 .. L + 1
        BY <1>1, <3>1, <3>2, ReachesFurther
      <4> QED BY <1>1, <2>1, <3>1, <4>1
    <3> QED BY <3>1, <3>2
  <2>6. \A i \in Down(n + 1) : Rewrite(p, t, h, i) = Rewrite(p, t, g, i)
    <3> HIDE DEF Down, h
    <3> QED BY <1>1, <2>4, <2>5 DEF Rewrite, Reaches
  <2>7. \A i \in Down(n + 1) : h[i] = Rewrite(p, t, g, i)
    BY <2>2, <2>3
  <2>8. h = [i \in Down(n + 1) |-> h[i]]
    OBVIOUS
  <2>9. h = [i \in Down(n + 1) |-> Rewrite(p, t, h, i)]
    <3> HIDE DEF h, Down
    <3> QED BY <2>6, <2>7, <2>8
  <2> QED BY <2>9
<1>4. S = Nat
  <2> HIDE DEF S
  <2>1. S \in SUBSET Nat
    BY DEF S
  <2> QED BY <1>2, <1>3, <2>1, AllNaturals
<1>5. L \in S /\ Down(L) = 1 .. L + 1
  BY <1>1, <1>4
<1> QED BY <1>1, <1>5

LEMMA RewrittenFromIs ==
  ASSUME NEW p, IsPass(p), NEW t \in Texts
  PROVE  RewrittenFrom(p, t)
         = [i \in 1 .. Len(t) + 1 |-> Rewrite(p, t, RewrittenFrom(p, t), i)]
<1>1. \E from : from = [i \in 1 .. Len(t) + 1 |-> Rewrite(p, t, from, i)]
  BY RewritingExists
<1>2. RewrittenFrom(p, t) = CHOOSE from : from = [i \in 1 .. Len(t) + 1 |-> Rewrite(p, t, from, i)]
  BY Zenon DEF RewrittenFrom, Rewrite
<1> QED BY <1>1, <1>2, Zenon

(* The places of t that the symbols of r were made at, from a place i on:   *)
(* a symbol is what stands there, or the placeholder for the match there.   *)
MadeAt(p, t, i, r, o) ==
  /\ o \in [1 .. Len(r) + 1 -> 1 .. Len(t) + 1] /\ o[1] = i /\ o[Len(r) + 1] = Len(t) + 1
  /\ \A q \in 1 .. Len(r) :
       /\ o[q] <= Len(t) /\ o[q + 1] = Reaches(p, t, o[q])
       /\ r[q] = IF Match(p, t, o[q]) = 0 THEN t[o[q]] ELSE p.kind

LEMMA OneMore ==
  ASSUME NEW p, IsPass(p), NEW t \in Texts, NEW i \in 1 .. Len(t), NEW r \in Texts,
         NEW o, MadeAt(p, t, Reaches(p, t, i), r, o),
         NEW x \in Symbols \cup Placeholders, x = IF Match(p, t, i) = 0 THEN t[i] ELSE p.kind
  PROVE  <<x>> \o r \in Texts /\ \E made : MadeAt(p, t, i, <<x>> \o r, made)
<1> DEFINE s == <<x>> \o r
           made == [q \in 1 .. Len(s) + 1 |-> IF q = 1 THEN i ELSE o[q - 1]]
<1>1. Len(r) \in Nat /\ Len(t) \in Nat
  BY DEF Texts
<1>2. s \in Texts /\ Len(s) = Len(r) + 1 /\ s[1] = x /\ \A q \in 2 .. Len(r) + 1 : s[q] = r[q - 1]
  BY DEF Texts
<1> HIDE DEF s
<1>3. /\ o \in [1 .. Len(r) + 1 -> 1 .. Len(t) + 1] /\ o[1] = Reaches(p, t, i)
      /\ o[Len(r) + 1] = Len(t) + 1
  BY DEF MadeAt
<1>4. made \in [1 .. Len(s) + 1 -> 1 .. Len(t) + 1]
  BY <1>1, <1>2, <1>3
<1>5. made[1] = i /\ made[2] = Reaches(p, t, i) /\ made[Len(s) + 1] = Len(t) + 1
  BY <1>1, <1>2, <1>3
<1>6. ASSUME NEW q \in 1 .. Len(s)
      PROVE  /\ made[q] <= Len(t) /\ made[q + 1] = Reaches(p, t, made[q])
             /\ s[q] = IF Match(p, t, made[q]) = 0 THEN t[made[q]] ELSE p.kind
  <2>1. CASE q = 1
    BY <1>1, <1>2, <1>5, <2>1
  <2>2. CASE q # 1
    <3>1. q - 1 \in 1 .. Len(r) /\ q \in 2 .. Len(r) + 1 /\ (q - 1) + 1 = q
      BY <1>1, <1>2, <2>2
    <3>2. made[q] = o[q - 1] /\ made[q + 1] = o[q] /\ s[q] = r[q - 1]
      BY <1>1, <1>2, <2>2, <3>1
    <3> HIDE DEF made
    <3> QED BY <3>1, <3>2 DEF MadeAt
  <2> QED BY <2>1, <2>2
<1>7. MadeAt(p, t, i, s, made)
  <2> HIDE DEF made
  <2> QED BY <1>4, <1>5, <1>6 DEF MadeAt
<1> QED BY <1>2, <1>7 DEF s

LEMMA RewrittenIsMade ==
  ASSUME NEW p, IsPass(p), NEW t \in Texts
  PROVE  Rewritten(p, t) \in Texts /\ \E o : MadeAt(p, t, 1, Rewritten(p, t), o)
<1> DEFINE L == Len(t)
           from == RewrittenFrom(p, t)
           Good(i) == from[i] \in Texts /\ \E o : MadeAt(p, t, i, from[i], o)
           Down(n) == L + 1 - n .. L + 1
           S == {n \in Nat : n <= L => \A i \in Down(n) : Good(i)}
<1>1. L \in Nat /\ \A i \in 1 .. L : t[i] \in Symbols \cup Placeholders
  BY DEF Texts
<1>2. \A i \in 1 .. L + 1 : from[i] = Rewrite(p, t, from, i)
  <2>1. from = [i \in 1 .. L + 1 |-> Rewrite(p, t, from, i)]
    BY RewrittenFromIs
  <2> HIDE DEF from
  <2> QED BY <2>1
<1> HIDE DEF from
<1>3. Good(L + 1)
  <2>1. from[L + 1] = <<>>
    <3>1. L + 1 \in 1 .. L + 1 /\ L + 1 > L
      BY <1>1
    <3>2. from[L + 1] = Rewrite(p, t, from, L + 1)
      BY <1>2, <3>1
    <3> QED BY <3>1, <3>2 DEF Rewrite
  <2>2. MadeAt(p, t, L + 1, <<>>, [q \in 1 .. 1 |-> L + 1])
    BY <1>1 DEF MadeAt
  <2> QED BY <2>1, <2>2 DEF Texts
<1>4. ASSUME NEW i \in 1 .. L, Good(Reaches(p, t, i)) PROVE Good(i)
  <2> DEFINE x == IF Match(p, t, i) = 0 THEN t[i] ELSE p.kind
             rest == from[Reaches(p, t, i)]
  <2>1. from[i] = <<x>> \o rest
    <3>1. i \in 1 .. L + 1 /\ ~ (i > L)
      BY <1>1
    <3>2. from[i] = Rewrite(p, t, from, i)
      BY <1>2, <3>1
    <3>3. CASE Match(p, t, i) = 0
      BY <3>1, <3>2, <3>3 DEF Rewrite, Reaches
    <3>4. CASE Match(p, t, i) # 0
      BY <3>1, <3>2, <3>4 DEF Rewrite, Reaches
    <3> QED BY <3>3, <3>4
  <2>2. x \in Symbols \cup Placeholders
    BY <1>1 DEF IsPass
  <2>3. PICK o : MadeAt(p, t, Reaches(p, t, i), rest, o)
    BY <1>4
  <2>4. rest \in Texts
    BY <1>4
  <2> HIDE DEF rest
  <2>5. <<x>> \o rest \in Texts /\ \E made : MadeAt(p, t, i, <<x>> \o rest, made)
    <3> DEFINE y == x
    <3>1. y = IF Match(p, t, i) = 0 THEN t[i] ELSE p.kind
      OBVIOUS
    <3> HIDE DEF y
    <3>2. <<y>> \o rest \in Texts /\ \E made : MadeAt(p, t, i, <<y>> \o rest, made)
      BY <2>2, <2>3, <2>4, <3>1, OneMore DEF y
    <3> QED BY <3>2 DEF y
  <2> QED BY <2>1, <2>5
<1> HIDE DEF Good
<1>5. 0 \in S
  BY <1>1, <1>3
<1>6. ASSUME NEW n \in S PROVE n + 1 \in S
  <2> SUFFICES ASSUME n + 1 <= L, NEW i \in Down(n + 1) PROVE Good(i)
    OBVIOUS
  <2>1. n \in Nat /\ \A j \in Down(n) : Good(j)
    BY <1>1
  <2>2. CASE i \in Down(n)
    BY <2>1, <2>2
  <2>3. CASE i \notin Down(n)
    <3>1. i = L - n /\ i \in 1 .. L
      BY <1>1, <2>1, <2>3
    <3>2. Reaches(p, t, i) \in Down(n)
      BY <1>1, <2>1, <3>1, ReachesFurther
    <3> QED BY <1>4, <2>1, <3>1, <3>2
  <2> QED BY <2>2, <2>3
<1>7. S = Nat
  <2> HIDE DEF S
  <2>1. S \in SUBSET Nat
    BY DEF S
  <2> QED BY <1>5, <1>6, <2>1, AllNaturals
<1>8. L \in S /\ 1 \in Down(L)
  BY <1>1, <1>7
<1>9. Good(1)
  BY <1>1, <1>8
<1> QED BY <1>9 DEF Good, Rewritten, from

(* A rewritten text r of t, by a pass p.                                    *)
Made(p, t, r, o) == IsPass(p) /\ t \in Texts /\ r \in Texts /\ MadeAt(p, t, 1, r, o)

(* Symbols that are not the placeholder were copied, next to one another.   *)
Untouched(p, r, x, n) ==
  n \in Nat /\ x + n - 1 <= Len(r) /\ \A k \in x .. x + n - 1 : r[k] # p.kind

LEMMA CopiedSpan ==
  ASSUME NEW p, NEW t, NEW r, NEW o, Made(p, t, r, o), NEW x \in 1 .. Len(r), NEW n,
         Untouched(p, r, x, n)
  PROVE  /\ \A k \in 0 .. n : o[x + k] = o[x] + k
         /\ \A k \in 0 .. n - 1 :
              /\ o[x] + k \in 1 .. Len(t) /\ r[x + k] = t[o[x] + k]
              /\ Match(p, t, o[x] + k) = 0
<1> DEFINE S == {k \in Nat : k <= n => o[x + k] = o[x] + k}
<1> USE DEF Untouched
<1>1. /\ Len(r) \in Nat /\ Len(t) \in Nat /\ x \in Nat
      /\ o \in [1 .. Len(r) + 1 -> 1 .. Len(t) + 1]
  BY DEF Made, Texts, MadeAt
<1>2. o[x] \in Nat /\ o[x] >= 1
  BY <1>1
<1>3. 0 \in S
  BY <1>1, <1>2
<1>4. \A k \in 0 .. n - 1 : /\ x + k \in 1 .. Len(r) /\ x + k \in x .. x + n - 1
                            /\ (x + k) + 1 = x + (k + 1)
  BY <1>1
<1>5. \A k \in 0 .. n - 1 :
        /\ Match(p, t, o[x + k]) = 0 /\ r[x + k] = t[o[x + k]] /\ o[x + k] <= Len(t)
        /\ o[x + (k + 1)] = o[x + k] + 1
  <2>1. \A q \in 1 .. Len(r) : r[q] # p.kind =>
          /\ Match(p, t, o[q]) = 0 /\ r[q] = t[o[q]] /\ o[q] <= Len(t) /\ o[q + 1] = o[q] + 1
    BY DEF Made, MadeAt, Reaches
  <2> QED BY <1>4, <2>1
<1>6. ASSUME NEW k \in S PROVE k + 1 \in S
  <2> SUFFICES ASSUME k + 1 <= n PROVE o[x + (k + 1)] = o[x] + (k + 1)
    OBVIOUS
  <2>1. k \in 0 .. n - 1 /\ o[x + k] = o[x] + k
    OBVIOUS
  <2>2. o[x + (k + 1)] = o[x + k] + 1
    BY <1>5, <2>1
  <2> DEFINE a == o[x]
  <2>3. k \in Nat /\ a \in Nat /\ (a + k) + 1 = a + (k + 1)
    <3>1. k \in Nat /\ a \in Nat
      BY <1>2, <2>1
    <3> HIDE DEF a
    <3> QED BY <3>1
  <2> HIDE DEF S
  <2> QED BY <2>1, <2>2, <2>3
<1>7. S = Nat
  <2> HIDE DEF S
  <2>1. S \in SUBSET Nat
    BY DEF S
  <2> QED BY <1>3, <1>6, <2>1, AllNaturals
<1>8. \A k \in 0 .. n : o[x + k] = o[x] + k
  BY <1>7
<1>9. ASSUME NEW k \in 0 .. n - 1
      PROVE  o[x] + k \in 1 .. Len(t) /\ r[x + k] = t[o[x] + k] /\ Match(p, t, o[x] + k) = 0
  <2>1. o[x + k] = o[x] + k /\ k \in Nat
    BY <1>8
  <2>2. /\ Match(p, t, o[x + k]) = 0 /\ r[x + k] = t[o[x + k]] /\ o[x + k] <= Len(t)
    BY <1>5
  <2> HIDE DEF S
  <2> QED BY <1>1, <1>2, <2>1, <2>2
<1> QED BY <1>8, <1>9

-----------------------------------------------------------------------------
(* Redaction: a match in the rewritten text was a match before              *)

LEMMA NoPlaceholder ==
  /\ Symbols \cap Placeholders = {}
  /\ Alphanumeric \subseteq Symbols /\ AddressText \subseteq Symbols /\ Marks \subseteq Symbols
  /\ Words \subseteq Alphanumeric /\ "http" \in Alphanumeric /\ "@" \notin AddressText
  BY SymbolsAssumption DEF Symbols, Alphanumeric, AddressText, Marks, Placeholders

LEMMA CopiedPlace ==
  ASSUME NEW p, NEW t, NEW r, NEW o, Made(p, t, r, o), NEW x \in 1 .. Len(r), r[x] # p.kind
  PROVE  /\ o[x] \in 1 .. Len(t) /\ r[x] = t[o[x]] /\ Match(p, t, o[x]) = 0
         /\ o[x + 1] = o[x] + 1
         /\ \A class : IsAt(t, o[x], class) <=> IsAt(r, x, class)
<1>1. Len(t) \in Nat /\ Len(r) \in Nat /\ DOMAIN t = 1 .. Len(t) /\ DOMAIN r = 1 .. Len(r)
  BY DEF Made, Texts
<1>2. o[x] \in 1 .. Len(t) + 1 /\ o[x] <= Len(t)
  <2>1. o \in [1 .. Len(r) + 1 -> 1 .. Len(t) + 1] /\ o[x] <= Len(t)
    BY DEF Made, MadeAt
  <2>2. x \in 1 .. Len(r) + 1
    BY <1>1
  <2> QED BY <2>1, <2>2
<1>3. Match(p, t, o[x]) = 0 /\ r[x] = t[o[x]] /\ o[x + 1] = o[x] + 1
  BY DEF Made, MadeAt, Reaches
<1> QED BY <1>1, <1>2, <1>3 DEF IsAt

LEMMA IdentityWasThere ==
  ASSUME NEW p, IsPass(p), p.kind \notin PatternKinds, NEW q, NEW t, NEW r, NEW o, Made(q, t, r, o),
         NEW x \in 1 .. Len(r), Match(p, r, x) > 0
  PROVE  o[x] \in 1 .. Len(t) /\ Match(p, t, o[x]) > 0 /\ Match(q, t, o[x]) = 0
<1>1. /\ IsPass(q) /\ t \in Texts /\ r \in Texts /\ MadeAt(q, t, 1, r, o)
      /\ Len(t) \in Nat /\ Len(r) \in Nat
  BY DEF Made, Texts
<1>2. \A s, i : Match(p, s, i) = IdentityMatch(p.candidates, s, i)
  BY DEF Match, PatternKinds
<1>3. PICK c \in p.candidates : Len(c) > 0 /\ Occurs(c, r, x)
  BY <1>1, <1>2, IdentityMatchIs DEF IsPass
<1>4. Len(c) \in Nat /\ \A k \in 1 .. Len(c) : c[k] \in Symbols
  BY DEF IsPass
<1> DEFINE n == Len(c)
<1>5. x + n - 1 <= Len(r) /\ \A k \in 1 .. n : r[x + k - 1] = c[k]
  BY <1>1, <1>3, <1>4 DEF Occurs
<1> HIDE DEF n
<1>6. ASSUME NEW k \in x .. x + n - 1 PROVE r[k] # q.kind
  <2>1. k - x + 1 \in 1 .. n /\ x + (k - x + 1) - 1 = k
    BY <1>4 DEF n
  <2>2. r[k] = c[k - x + 1] /\ c[k - x + 1] \in Symbols
    BY <1>4, <1>5, <2>1 DEF n
  <2> QED BY <1>1, <2>2, NoPlaceholder DEF IsPass
<1>7. n \in Nat /\ n > 0
  BY <1>3, <1>4 DEF n
<1>8. \A k \in 0 .. n - 1 : /\ o[x] + k \in 1 .. Len(t) /\ r[x + k] = t[o[x] + k]
                            /\ Match(q, t, o[x] + k) = 0
  <2>1. Untouched(q, r, x, n)
    BY <1>5, <1>6, <1>7 DEF Untouched
  <2> QED BY <2>1, CopiedSpan
<1>9. o[x] \in 1 .. Len(t) /\ Match(q, t, o[x]) = 0
  <2>1. r[x] # q.kind
    BY <1>6, <1>7
  <2> QED BY <2>1, CopiedPlace
<1>10. o[x] + n <= Len(t) + 1
  <2>1. n - 1 \in 0 .. n - 1
    BY <1>7
  <2>2. o[x] + (n - 1) \in 1 .. Len(t)
    BY <1>8, <2>1
  <2> QED BY <1>1, <1>7, <1>9, <2>2
<1>11. ASSUME NEW k \in 1 .. n PROVE t[o[x] + k - 1] = c[k]
  <2>1. k - 1 \in 0 .. n - 1
    BY <1>7
  <2>2. r[x + (k - 1)] = t[o[x] + (k - 1)]
    BY <1>8, <2>1
  <2>3. x + (k - 1) = x + k - 1 /\ o[x] + (k - 1) = o[x] + k - 1
    BY <1>1, <1>7, <1>9
  <2> QED BY <1>5, <2>2, <2>3
<1>12. Occurs(c, t, o[x])
  BY <1>10, <1>11 DEF Occurs, n
<1> QED BY <1>1, <1>2, <1>3, <1>9, <1>12, IdentityMatchIs DEF IsPass

(* Patterns cut at the edges of words: no new edge comes to be.             *)
LEMMA EdgesWereThere ==
  ASSUME NEW q, q.kind \in PatternKinds, NEW t, NEW r, NEW o, Made(q, t, r, o),
         NEW x \in 1 .. Len(r), IsAt(r, x, Alphanumeric)
  PROVE  /\ IsAt(t, o[x] - 1, Alphanumeric) => IsAt(r, x - 1, Alphanumeric)
         /\ IsAt(t, o[x] + 1, Alphanumeric) => IsAt(r, x + 1, Alphanumeric)
<1>1. /\ IsPass(q) /\ t \in Texts /\ r \in Texts
      /\ Len(t) \in Nat /\ Len(r) \in Nat /\ DOMAIN t = 1 .. Len(t) /\ DOMAIN r = 1 .. Len(r)
  BY DEF Made, Texts
<1>2. /\ o \in [1 .. Len(r) + 1 -> 1 .. Len(t) + 1] /\ o[1] = 1 /\ o[Len(r) + 1] = Len(t) + 1
      /\ \A k \in 1 .. Len(r) :
           /\ o[k] <= Len(t) /\ o[k + 1] = Reaches(q, t, o[k])
           /\ r[k] = IF Match(q, t, o[k]) = 0 THEN t[o[k]] ELSE q.kind
  BY DEF Made, MadeAt
<1>3. r[x] # q.kind
  BY <1>1, NoPlaceholder DEF IsAt, IsPass
<1>4. /\ o[x] \in 1 .. Len(t) /\ o[x + 1] = o[x] + 1 /\ IsAt(t, o[x], Alphanumeric)
  BY <1>3, CopiedPlace
<1>5. \A k \in 1 .. Len(r) : Match(q, t, o[k]) # 0 =>
        /\ ~IsAt(t, o[k] - 1, Alphanumeric) /\ ~IsAt(t, o[k + 1], Alphanumeric)
  <2> SUFFICES ASSUME NEW k \in 1 .. Len(r), Match(q, t, o[k]) # 0
               PROVE  ~IsAt(t, o[k] - 1, Alphanumeric) /\ ~IsAt(t, o[k + 1], Alphanumeric)
    OBVIOUS
  <2>1. o[k] \in 1 .. Len(t)
    BY <1>1, <1>2
  <2>2. Match(q, t, o[k]) > 0
    <3>1. Match(q, t, o[k]) \in 0 .. Len(t) - o[k] + 1
      BY <1>1, <2>1, MatchFits
    <3> QED BY <1>1, <2>1, <3>1
  <2>3. o[k + 1] = o[k] + Match(q, t, o[k])
    BY <1>2 DEF Reaches
  <2> QED BY <1>1, <2>1, <2>2, <2>3, PatternEdges
<1>6. ASSUME IsAt(t, o[x] - 1, Alphanumeric) PROVE IsAt(r, x - 1, Alphanumeric)
  <2>1. x # 1
    BY <1>1, <1>2, <1>6 DEF IsAt
  <2>2. x - 1 \in 1 .. Len(r) /\ (x - 1) + 1 = x
    BY <1>1, <2>1
  <2>3. Match(q, t, o[x - 1]) = 0
    BY <1>4, <1>5, <2>2
  <2>4. o[x] = o[x - 1] + 1 /\ r[x - 1] = t[o[x - 1]] /\ o[x - 1] \in Nat
    BY <1>1, <1>2, <2>2, <2>3 DEF Reaches
  <2>5. o[x] - 1 = o[x - 1]
    BY <2>4
  <2> QED BY <1>1, <1>6, <2>2, <2>4, <2>5 DEF IsAt
<1>7. ASSUME IsAt(t, o[x] + 1, Alphanumeric) PROVE IsAt(r, x + 1, Alphanumeric)
  <2>1. x # Len(r)
    BY <1>1, <1>2, <1>4, <1>7 DEF IsAt
  <2>2. x + 1 \in 1 .. Len(r)
    <3>1. Len(r) \in Nat
      BY <1>1
    <3> QED BY <2>1, <3>1
  <2>3. o[x + 1] - 1 = o[x]
    BY <1>1, <1>4
  <2>4. Match(q, t, o[x + 1]) = 0
    BY <1>4, <1>5, <2>2, <2>3
  <2>5. r[x + 1] = t[o[x] + 1]
    BY <1>2, <1>4, <2>2, <2>4
  <2> QED BY <1>1, <1>7, <2>2, <2>5 DEF IsAt
<1> QED BY <1>6, <1>7

LEMMA BoundaryWasThere ==
  ASSUME NEW q, q.kind \in PatternKinds, NEW t, NEW r, NEW o, Made(q, t, r, o),
         NEW x \in 1 .. Len(r), IsAt(r, x, Alphanumeric)
  PROVE  /\ Boundary(r, x) => Boundary(t, o[x])
         /\ Boundary(r, x + 1) => Boundary(t, o[x] + 1)
<1>1. r[x] # q.kind
  BY NoPlaceholder DEF IsAt, Made, IsPass
<1>2. IsAt(t, o[x], Alphanumeric) /\ o[x] \in 1 .. Len(t)
  BY <1>1, CopiedPlace
<1>3. (x + 1) - 1 = x /\ (o[x] + 1) - 1 = o[x]
  BY <1>2 DEF Made, Texts
<1>4. /\ IsAt(t, o[x] - 1, Alphanumeric) => IsAt(r, x - 1, Alphanumeric)
      /\ IsAt(t, o[x] + 1, Alphanumeric) => IsAt(r, x + 1, Alphanumeric)
  BY EdgesWereThere
<1> QED BY <1>2, <1>3, <1>4 DEF Boundary

LEMMA SsnWasThere ==
  ASSUME NEW q, q.kind \in PatternKinds, NEW t, NEW r, NEW o, Made(q, t, r, o),
         NEW x \in 1 .. Len(r), SsnMatch(r, x) > 0
  PROVE  o[x] \in 1 .. Len(t) /\ SsnMatch(t, o[x]) > 0 /\ Match(q, t, o[x]) = 0
<1>1. IsAt(r, x, {"ssn"}) /\ Boundary(r, x) /\ Boundary(r, x + 1)
  BY DEF SsnMatch
<1>2. IsAt(r, x, Alphanumeric)
  BY <1>1 DEF IsAt, Alphanumeric
<1>3. r[x] # q.kind
  BY <1>2, NoPlaceholder DEF IsAt, Made, IsPass
<1> QED BY <1>1, <1>2, <1>3, CopiedPlace, BoundaryWasThere DEF SsnMatch

LEMMA UrlWasThere ==
  ASSUME NEW q, q.kind \in PatternKinds, NEW t, NEW r, NEW o, Made(q, t, r, o),
         NEW x \in 1 .. Len(r), UrlMatch(r, x) > 0
  PROVE  o[x] \in 1 .. Len(t) /\ UrlMatch(t, o[x]) > 0 /\ Match(q, t, o[x]) = 0
<1>1. /\ IsPass(q) /\ t \in Texts /\ r \in Texts /\ Len(r) \in Nat /\ DOMAIN r = 1 .. Len(r)
  BY DEF Made, Texts
<1>2. /\ Boundary(r, x) /\ IsAt(r, x, {"http"}) /\ IsAt(r, x + 1, {"://"})
      /\ IsAt(r, x + 2, Alphanumeric \cup Marks)
  BY <1>1, UrlMatchIs
<1>3. IsAt(r, x, Alphanumeric)
  BY <1>2, NoPlaceholder DEF IsAt
<1>4. r[x] # q.kind /\ r[x + 1] # q.kind /\ r[x + 2] # q.kind
  <2>1. r[x] \in Symbols /\ r[x + 1] \in Symbols /\ r[x + 2] \in Symbols
    BY <1>2, <1>3, NoPlaceholder DEF IsAt, Marks
  <2> QED BY <1>1, <2>1, NoPlaceholder DEF IsPass
<1>5. x + 1 \in 1 .. Len(r) /\ x + 2 \in 1 .. Len(r) /\ (x + 1) + 1 = x + 2
  BY <1>1, <1>2 DEF IsAt
<1>6. o[x] \in 1 .. Len(t) /\ Match(q, t, o[x]) = 0 /\ o[x + 1] = o[x] + 1
      /\ IsAt(t, o[x], {"http"})
  BY <1>2, <1>4, CopiedPlace
<1>7. o[x + 2] = o[x + 1] + 1 /\ IsAt(t, o[x + 1], {"://"})
  BY <1>2, <1>4, <1>5, CopiedPlace
<1>8. IsAt(t, o[x + 2], Alphanumeric \cup Marks)
  BY <1>2, <1>4, <1>5, CopiedPlace
<1>9. o[x + 2] = o[x] + 2
  BY <1>1, <1>6, <1>7 DEF Made, Texts
<1>10. Boundary(t, o[x])
  BY <1>2, <1>3, BoundaryWasThere
<1> QED BY <1>1, <1>6, <1>7, <1>8, <1>9, <1>10, UrlMatchIs

LEMMA EmailWasThere ==
  ASSUME NEW q, q.kind \in PatternKinds, NEW t, NEW r, NEW o, Made(q, t, r, o),
         NEW x \in 1 .. Len(r), EmailMatch(r, x) > 0
  PROVE  o[x] \in 1 .. Len(t) /\ EmailMatch(t, o[x]) > 0 /\ Match(q, t, o[x]) = 0
<1>1. /\ IsPass(q) /\ t \in Texts /\ r \in Texts /\ Len(r) \in Nat /\ DOMAIN r = 1 .. Len(r)
      /\ Len(t) \in Nat /\ DOMAIN t = 1 .. Len(t) /\ x \in Nat \ {0}
  BY DEF Made, Texts
<1> DEFINE m == Run(r, x, AddressText)
           at == x + m
<1>2. IsAddress(r, x, at)
  BY <1>1, EmailMatchIs
<1>3. /\ m \in Nat /\ \A k \in x .. x + m - 1 : IsAt(r, k, AddressText)
      /\ ~IsAt(r, x + m, AddressText)
  BY <1>1, RunIsLongest, RunEnds
<1> HIDE DEF m
<1>4. at \in Nat \ {0} /\ at >= x
  BY <1>1, <1>3
<1>5. PICK n : n \in DomainEnds(r, at)
  BY <1>2 DEF IsAddress
<1>6. /\ n \in Nat /\ n >= 3 /\ at + n <= Len(r)
      /\ IsAt(r, at + n, Words) /\ ~IsAt(r, at + n + 1, Alphanumeric)
  BY <1>1, <1>4, <1>5, DomainEndsIs
<1>7. \A k \in at + 1 .. at + n : IsAt(r, k, AddressText)
  <2>1. n <= Run(r, at + 1, AddressText) /\ at + 1 \in Nat
    BY <1>4, <1>5 DEF DomainEnds
  <2>2. /\ Run(r, at + 1, AddressText) \in Nat
        /\ \A k \in at + 1 .. at + 1 + Run(r, at + 1, AddressText) - 1 : IsAt(r, k, AddressText)
    BY <1>1, <2>1, RunIsLongest
  <2> QED BY <1>4, <1>6, <2>1, <2>2
<1>8. PICK k \in 2 .. n - 1 : r[at + k] = "." /\ Run(r, at + k + 1, Words) >= n - k
  BY <1>5 DEF DomainEnds
<1>9. ASSUME NEW j \in x .. at + n PROVE r[j] # q.kind
  <2>1. r[j] \in Symbols
    <3>1. CASE j < at
      BY <1>3, <3>1, NoPlaceholder DEF IsAt
    <3>2. CASE j = at
      BY <1>2, <3>2, NoPlaceholder DEF IsAt, IsAddress, Marks
    <3>3. CASE j > at
      BY <1>4, <1>6, <1>7, <3>3, NoPlaceholder DEF IsAt
    <3> QED BY <1>4, <3>1, <3>2, <3>3
  <2> QED BY <1>1, <2>1, NoPlaceholder DEF IsPass
<1> DEFINE size == m + n + 1
<1>10. Untouched(q, r, x, size)
  <2>1. x + size - 1 = at + n /\ size \in Nat
    BY <1>1, <1>3, <1>6
  <2> HIDE DEF at, size
  <2> QED BY <1>6, <1>9, <2>1 DEF Untouched
<1>11. /\ \A j \in 0 .. size : o[x + j] = o[x] + j
       /\ \A j \in 0 .. size - 1 :
            /\ o[x] + j \in 1 .. Len(t) /\ r[x + j] = t[o[x] + j]
            /\ Match(q, t, o[x] + j) = 0
  <2> HIDE DEF size
  <2> QED BY <1>10, CopiedSpan
<1>12. \A class : \A j \in 0 .. m + n : IsAt(r, x + j, class) <=> IsAt(t, o[x] + j, class)
  <2> SUFFICES ASSUME NEW class, NEW j \in 0 .. m + n
               PROVE  IsAt(r, x + j, class) <=> IsAt(t, o[x] + j, class)
    OBVIOUS
  <2>1. j \in 0 .. size - 1
    BY <1>3, <1>6
  <2>2. o[x] + j \in 1 .. Len(t) /\ r[x + j] = t[o[x] + j]
    BY <1>11, <2>1
  <2>3. x + j \in 1 .. Len(r)
    BY <1>1, <1>3, <1>6
  <2> QED BY <1>1, <2>2, <2>3 DEF IsAt
<1>13. o[x] \in 1 .. Len(t) /\ Match(q, t, o[x]) = 0
  <2>1. x \in x .. at + n
    BY <1>1, <1>4, <1>6
  <2> QED BY <1>9, <2>1, CopiedPlace
<1> DEFINE y == o[x]
           there == y + m
<1> HIDE DEF y
<1>14. y \in Nat \ {0} /\ there \in Nat \ {0}
  BY <1>1, <1>3, <1>13 DEF y
<1>15. Run(t, y, AddressText) = m
  <2>1. \A j \in y .. y + m - 1 : IsAt(t, j, AddressText)
    <3> SUFFICES ASSUME NEW j \in y .. y + m - 1 PROVE IsAt(t, j, AddressText)
      OBVIOUS
    <3>1. /\ j - y \in 0 .. m + n /\ y + (j - y) = j
          /\ x + (j - y) \in x .. x + m - 1
      BY <1>1, <1>3, <1>6, <1>14
    <3> QED BY <1>3, <1>12, <3>1 DEF y
  <2>2. ~IsAt(t, y + m, AddressText)
    BY <1>3, <1>6, <1>12, SMTT(20) DEF y
  <2> QED BY <1>1, <1>3, <1>14, <2>1, <2>2, RunStops
<1>16. Boundary(t, y) /\ IsAt(t, y, Alphanumeric) /\ IsAt(t, there, {"@"})
  <2>1. Boundary(r, x) /\ IsAt(r, x, Alphanumeric) /\ IsAt(r, x + m, {"@"})
    BY <1>2 DEF IsAddress
  <2>2. IsAt(t, there, {"@"})
    BY <1>3, <1>6, <1>12, <2>1 DEF y
  <2>3. IsAt(t, y, Alphanumeric)
    <3>1. x + 0 = x /\ y + 0 = y /\ 0 \in 0 .. m + n
      BY <1>1, <1>3, <1>6, <1>14
    <3> QED BY <1>12, <2>1, <3>1 DEF y
  <2> QED BY <2>1, <2>2, <2>3, BoundaryWasThere DEF y
<1>17. n \in DomainEnds(t, there)
  <2>1. \A class : \A j \in 1 .. n : IsAt(r, at + j, class) <=> IsAt(t, there + j, class)
    <3> SUFFICES ASSUME NEW class, NEW j \in 1 .. n
                 PROVE  IsAt(r, at + j, class) <=> IsAt(t, there + j, class)
      OBVIOUS
    <3>1. m + j \in 0 .. m + n /\ x + (m + j) = at + j /\ y + (m + j) = there + j
      BY <1>1, <1>3, <1>6, <1>14
    <3> QED BY <1>12, <3>1 DEF y
  <2> DEFINE here == at
             end == there
  <2>2. /\ here \in Nat \ {0} /\ end \in Nat \ {0}
        /\ \A class : \A j \in 1 .. n : IsAt(r, here + j, class) <=> IsAt(t, end + j, class)
        /\ IsAt(r, here + n, Words) /\ Run(r, here + k + 1, Words) >= n - k /\ r[here + k] = "."
        /\ \A j \in here + 1 .. here + n : IsAt(r, j, AddressText)
    BY <1>4, <1>6, <1>7, <1>8, <1>14, <2>1
  <2>3. Boundary(t, end + n + 1)
    <3>1. /\ m + n \in 0 .. size /\ x + (m + n) = here + n /\ y + (m + n) = end + n
          /\ here + n \in 1 .. Len(r)
      BY <1>1, <1>3, <1>4, <1>6, <1>14
    <3>2. o[here + n] = end + n
      BY <1>11, <3>1 DEF y
    <3>3. IsAt(r, here + n, Alphanumeric)
      BY <2>2, NoPlaceholder DEF IsAt
    <3>4. Boundary(r, here + n + 1)
      BY <1>5 DEF DomainEnds
    <3> HIDE DEF here, end
    <3> QED BY <3>1, <3>2, <3>3, <3>4, BoundaryWasThere
  <2> HIDE DEF here, end
  <2>4. Run(t, end + 1, AddressText) >= n
    <3>1. \A j \in end + 1 .. end + 1 + n - 1 : IsAt(t, j, AddressText)
      <4> SUFFICES ASSUME NEW j \in end + 1 .. end + 1 + n - 1 PROVE IsAt(t, j, AddressText)
        OBVIOUS
      <4>1. j - end \in 1 .. n /\ end + (j - end) = j /\ here + (j - end) \in here + 1 .. here + n
        BY <1>6, <2>2
      <4> QED BY <2>2, <4>1
    <3> QED BY <1>1, <1>6, <2>2, <3>1, RunCovers
  <2>5. k \in Nat /\ k >= 2 /\ k < n /\ n - k \in Nat
    BY <1>6
  <2>6. Run(t, end + k + 1, Words) >= n - k
    <3>1. \A j \in here + k + 1 .. here + k + 1 + (n - k) - 1 : IsAt(r, j, Words)
      <4>1. here + k + 1 \in Nat
        BY <2>2, <2>5
      <4>2. /\ Run(r, here + k + 1, Words) \in Nat
            /\ \A j \in here + k + 1 .. here + k + 1 + Run(r, here + k + 1, Words) - 1 :
                 IsAt(r, j, Words)
        BY <1>1, <4>1, RunIsLongest
      <4> QED BY <2>2, <2>5, <4>1, <4>2
    <3>2. \A j \in end + k + 1 .. end + k + 1 + (n - k) - 1 : IsAt(t, j, Words)
      <4> SUFFICES ASSUME NEW j \in end + k + 1 .. end + k + 1 + (n - k) - 1
                   PROVE  IsAt(t, j, Words)
        OBVIOUS
      <4>1. /\ j - end \in 1 .. n /\ end + (j - end) = j
            /\ here + (j - end) \in here + k + 1 .. here + k + 1 + (n - k) - 1
        BY <1>6, <2>2, <2>5
      <4> QED BY <2>2, <3>1, <4>1
    <3>3. end + k + 1 \in Nat \ {0}
      BY <2>2, <2>5
    <3> QED BY <1>1, <2>5, <3>2, <3>3, RunCovers
  <2>7. t[end + k] = "."
    <3>1. k \in 1 .. n /\ here + k \in here + 1 .. here + n
      BY <1>6, <2>2, <2>5
    <3>2. IsAt(r, here + k, {"."})
      BY <2>2, <3>1 DEF IsAt
    <3>3. IsAt(t, end + k, {"."})
      BY <2>2, <3>1, <3>2
    <3> QED BY <3>3 DEF IsAt
  <2>8. n \in 3 .. Run(t, end + 1, AddressText)
    <3>1. Run(t, end + 1, AddressText) \in Nat
      <4>1. end + 1 \in Nat
        BY <2>2
      <4> QED BY <1>1, <4>1, RunIsLongest
    <3> QED BY <1>6, <2>4, <3>1
  <2>9. n \in DomainEnds(t, end)
    BY <2>3, <2>6, <2>7, <2>8 DEF DomainEnds
  <2> QED BY <2>9 DEF end
<1>18. IsAddress(t, y, y + Run(t, y, AddressText))
  BY <1>15, <1>16, <1>17 DEF IsAddress
<1> QED BY <1>1, <1>13, <1>18, EmailMatchIs DEF y

(* A pass leaves no match of its own, and none of a pass that ran before:   *)
(* identities come before patterns, which would not survive them.           *)
Clean(p, t) == \A i \in DOMAIN t : Match(p, t, i) = 0

LEMMA PassKeepsClean ==
  ASSUME NEW p, IsPass(p), NEW q, IsPass(q), p.kind \in PatternKinds => q.kind \in PatternKinds,
         NEW t \in Texts, p = q \/ Clean(p, t)
  PROVE  Rewritten(q, t) \in Texts /\ Clean(p, Rewritten(q, t))
<1> DEFINE r == Rewritten(q, t)
<1>1. PICK o : MadeAt(q, t, 1, r, o)
  BY RewrittenIsMade
<1>2. r \in Texts
  BY RewrittenIsMade
<1> HIDE DEF r
<1>3. Made(q, t, r, o) /\ DOMAIN r = 1 .. Len(r) /\ DOMAIN t = 1 .. Len(t)
  BY <1>1, <1>2 DEF Made, Texts
<1>4. SUFFICES ASSUME NEW x \in 1 .. Len(r), Match(p, r, x) # 0 PROVE FALSE
  BY <1>2, <1>3 DEF Clean, r
<1>5. Match(p, r, x) > 0
  <2>1. Match(p, r, x) \in 0 .. Len(r) - x + 1
    BY <1>2, MatchFits
  <2>2. Len(r) \in Nat
    BY <1>2 DEF Texts
  <2> QED BY <1>4, <2>1, <2>2
<1>6. o[x] \in 1 .. Len(t) /\ Match(p, t, o[x]) > 0 /\ Match(q, t, o[x]) = 0
  <2>1. CASE p.kind \notin PatternKinds
    BY <1>3, <1>5, <2>1, IdentityWasThere
  <2>2. CASE p.kind = "<URL>"
    <3>1. \A s, i : Match(p, s, i) = UrlMatch(s, i)
      BY <2>2 DEF Match
    <3>2. q.kind \in PatternKinds
      BY <2>2 DEF PatternKinds
    <3> QED BY <1>3, <1>5, <3>1, <3>2, UrlWasThere
  <2>3. CASE p.kind = "<EMAIL>"
    <3>1. \A s, i : Match(p, s, i) = EmailMatch(s, i)
      BY <2>3 DEF Match
    <3>2. q.kind \in PatternKinds
      BY <2>3 DEF PatternKinds
    <3> QED BY <1>3, <1>5, <3>1, <3>2, EmailWasThere
  <2>4. CASE p.kind = "<SSN>"
    <3>1. \A s, i : Match(p, s, i) = SsnMatch(s, i)
      BY <2>4 DEF Match
    <3>2. q.kind \in PatternKinds
      BY <2>4 DEF PatternKinds
    <3> QED BY <1>3, <1>5, <3>1, <3>2, SsnWasThere
  <2> QED BY <2>1, <2>2, <2>3, <2>4 DEF PatternKinds
<1> QED BY <1>3, <1>6 DEF Clean

PassRecords == [kind : Placeholders, candidates : SUBSET Seq(Symbols)]

LEMMA ScrubberPass ==
  ASSUME NEW kind \in Placeholders \ PatternKinds, NEW candidates \in SUBSET Seq(Symbols)
  PROVE  /\ Scrubber(kind, candidates) \in Seq(PassRecords)
         /\ \A k \in 1 .. Len(Scrubber(kind, candidates)) :
              Scrubber(kind, candidates)[k].kind \notin PatternKinds
<1>1. CASE candidates = {}
  BY <1>1 DEF Scrubber
<1>2. CASE candidates # {}
  <2> DEFINE pass == Pass(kind, candidates)
  <2>1. pass \in PassRecords /\ pass.kind = kind
    BY DEF Pass, PassRecords
  <2>2. Scrubber(kind, candidates) = <<pass>>
    BY <1>2 DEF Scrubber
  <2> HIDE DEF pass
  <2> QED BY <2>1, <2>2
<1> QED BY <1>1, <1>2

(* The passes of a user's chain, identities first.                          *)
LEMMA ChainPasses ==
  ASSUME NEW user \in Users
  PROVE  /\ Len(DefaultChain(user)) \in Nat
         /\ DefaultChain(user) \in Seq(PassRecords)
         /\ \A j, k \in 1 .. Len(DefaultChain(user)) :
              j < k /\ DefaultChain(user)[j].kind \in PatternKinds
              => DefaultChain(user)[k].kind \in PatternKinds
<1> DEFINE P == PassRecords
           A == Scrubber("<USER_EMAIL>", user.addresses)
           B == Scrubber("<USER_NAME>", user.names)
           C == RegexSanitizer
<1>1. user.addresses \in SUBSET Seq(Symbols) /\ user.names \in SUBSET Seq(Symbols)
  BY SymbolsAssumption
<1>11. {"<USER_EMAIL>", "<USER_NAME>"} \subseteq Placeholders \ PatternKinds
  BY DEF Placeholders, PatternKinds
<1>2. A \in Seq(P) /\ \A k \in 1 .. Len(A) : A[k].kind \notin PatternKinds
  BY <1>1, <1>11, ScrubberPass
<1>3. B \in Seq(P) /\ \A k \in 1 .. Len(B) : B[k].kind \notin PatternKinds
  BY <1>1, <1>11, ScrubberPass
<1>4. C \in Seq(P) /\ \A k \in 1 .. Len(C) : C[k].kind \in PatternKinds
  <2>1. \A kind \in PatternKinds : Pass(kind, {}) \in P /\ Pass(kind, {}).kind = kind
    BY DEF Pass, PassRecords, Placeholders, PatternKinds
  <2>2. C = <<Pass("<URL>", {}), Pass("<EMAIL>", {}), Pass("<SSN>", {})>>
    BY DEF RegexSanitizer
  <2> HIDE DEF P, C
  <2> QED BY <2>1, <2>2 DEF PatternKinds
<1> HIDE DEF P, A, B, C
<1>5. A \o B \in Seq(P) /\ \A k \in 1 .. Len(A \o B) : (A \o B)[k].kind \notin PatternKinds
  BY <1>2, <1>3
<1> DEFINE I == A \o B
<1>6. DefaultChain(user) = I \o C
  BY DEF DefaultChain, IdentityScrubber, A, B, C
<1> HIDE DEF I
<1>7. /\ I \o C \in Seq(P) /\ Len(I \o C) = Len(I) + Len(C) /\ Len(I) \in Nat /\ Len(C) \in Nat
      /\ \A k \in 1 .. Len(I) : (I \o C)[k] = I[k]
      /\ \A k \in Len(I) + 1 .. Len(I) + Len(C) : (I \o C)[k] = C[k - Len(I)]
  BY <1>4, <1>5 DEF I
<1>8. \A k \in Len(I) + 1 .. Len(I) + Len(C) : (I \o C)[k].kind \in PatternKinds
  <2>1. \A k \in Len(I) + 1 .. Len(I) + Len(C) : k - Len(I) \in 1 .. Len(C)
    BY <1>7
  <2> QED BY <1>4, <1>7, <2>1
<1>9. \A k \in 1 .. Len(I) : (I \o C)[k].kind \notin PatternKinds
  BY <1>5, <1>7 DEF I
<1>10. \A j, k \in 1 .. Len(I \o C) :
         j < k /\ (I \o C)[j].kind \in PatternKinds => (I \o C)[k].kind \in PatternKinds
  BY <1>7, <1>8, <1>9
<1> QED BY <1>6, <1>7, <1>10 DEF P

(* So far as the chain has run, the text is clean.                          *)
RedactionInv ==
  /\ owner \in Users /\ prompt \in Texts
  /\ stage \in {"built", "sent"} =>
       \E n \in 0 .. Len(DefaultChain(owner)) :
         /\ chain = SubSeq(DefaultChain(owner), n + 1, Len(DefaultChain(owner)))
         /\ stage = "sent" => n = Len(DefaultChain(owner))
         /\ \A k \in 1 .. n : Clean(DefaultChain(owner)[k], prompt)

LEMMA RedactionInvStep == RedactionInv /\ [RedactionNext]_redactionVars => RedactionInv'
<1> SUFFICES ASSUME RedactionInv, [RedactionNext]_redactionVars PROVE RedactionInv'
  OBVIOUS
<1> DEFINE D == DefaultChain(owner)
           L == Len(D)
           P == PassRecords
<1>1. /\ L \in Nat /\ D \in Seq(P)
      /\ \A j, k \in 1 .. L : j < k /\ D[j].kind \in PatternKinds => D[k].kind \in PatternKinds
  BY ChainPasses DEF RedactionInv
<1>2. \A k \in 1 .. L : IsPass(D[k])
  <2> HIDE DEF D
  <2>1. \A k \in 1 .. L : D[k] \in PassRecords
    BY <1>1
  <2> QED BY <2>1, SMTT(20) DEF IsPass, PassRecords
<1>3. CASE BuildChain
  <2>1. /\ UNCHANGED <<owner, prompt>>
        /\ stage' = "raised" \/ (stage' = "built" /\ chain' = D)
    BY <1>3 DEF BuildChain
  <2>2. D = SubSeq(D, 0 + 1, L)
    <3> HIDE DEF D, P
    <3> QED BY <1>1, SubSeqFull
  <2>3. 0 \in 0 .. L /\ \A k \in 1 .. 0 : FALSE
    BY <1>1
  <2> QED BY <2>1, <2>2, <2>3 DEF RedactionInv
<1>4. CASE Sanitize
  <2>1. PICK n \in 0 .. L : chain = SubSeq(D, n + 1, L) /\ \A k \in 1 .. n : Clean(D[k], prompt)
    BY <1>4 DEF Sanitize, RedactionInv
  <2>2. /\ chain # <<>> /\ prompt' = Rewritten(Head(chain), prompt) /\ chain' = Tail(chain)
        /\ UNCHANGED <<owner, stage>> /\ stage = "built"
    BY <1>4 DEF Sanitize
  <2> HIDE DEF D, L, P
  <2>3. n < L
    <3>1. n = L => SubSeq(D, n + 1, L) = <<>>
      BY <1>1 DEF L
    <3> QED BY <1>1, <2>1, <2>2, <3>1
  <2>4. n + 1 \in 1 .. L /\ n + 1 \in 0 .. L /\ L \in n + 1 .. L
    BY <1>1, <2>3
  <2>5. Head(chain) = D[n + 1] /\ Tail(chain) = SubSeq(D, (n + 1) + 1, L)
    BY <1>1, <2>1, <2>4, HeadTailOfSubSeq DEF L
  <2>6. ASSUME NEW k \in 1 .. n + 1 PROVE Clean(D[k], prompt') /\ prompt' \in Texts
    <3>1. k \in 1 .. L /\ (k = n + 1 \/ (k < n + 1 /\ k \in 1 .. n))
      BY <1>1, <2>4
    <3>2. D[k].kind \in PatternKinds => D[n + 1].kind \in PatternKinds
      BY <1>1, <2>4, <3>1
    <3>3. D[k] = D[n + 1] \/ Clean(D[k], prompt)
      BY <2>1, <3>1
    <3>4. IsPass(D[k]) /\ IsPass(D[n + 1]) /\ prompt \in Texts
      BY <1>2, <2>4, <3>1 DEF RedactionInv
    <3> QED BY <2>2, <2>5, <3>2, <3>3, <3>4, PassKeepsClean
  <2>7. prompt' \in Texts
    BY <2>4, <2>6
  <2> QED BY <2>2, <2>4, <2>5, <2>6, <2>7 DEF RedactionInv, D, L
<1>5. CASE SendPrompt
  <2>1. PICK n \in 0 .. L : chain = SubSeq(D, n + 1, L) /\ \A k \in 1 .. n : Clean(D[k], prompt)
    BY <1>5 DEF SendPrompt, RedactionInv
  <2>2. chain = <<>> /\ UNCHANGED <<owner, prompt, chain>>
    BY <1>5 DEF SendPrompt
  <2>3. n = L
    <3> HIDE DEF D, P
    <3> SUFFICES ASSUME n < L PROVE FALSE
      BY <1>1
    <3>1. Len(SubSeq(D, n + 1, L)) = L - (n + 1) + 1
      <4>1. n + 1 \in 1 .. L + 1 /\ L \in (n + 1) - 1 .. L /\ n + 1 <= L
        BY <1>1
      <4> QED BY <1>1, <4>1, SubSeqProperties
    <3>2. Len(chain) = 0
      BY <2>2
    <3> QED BY <1>1, <2>1, <3>1, <3>2
  <2> QED BY <2>1, <2>2, <2>3 DEF RedactionInv
<1>6. CASE UNCHANGED redactionVars
  BY <1>6 DEF RedactionInv, redactionVars, Clean
<1> QED BY <1>3, <1>4, <1>5, <1>6 DEF RedactionNext

(* Nothing of the profile and nothing that a pattern finds is left whole in *)
(* what a worker sends to a model: for every profile and every text, no     *)
(* sanitizer of the chain would find anything in the text that was sent.    *)
THEOREM NothingLeaves == RedactionSpec => []NothingPrivateLeaves
<1>1. RedactionInit => RedactionInv
  <2>1. Prompts \subseteq Texts
    BY SymbolsAssumption DEF Texts
  <2> QED BY <2>1 DEF RedactionInit, RedactionInv
<1>2. RedactionInv => NothingPrivateLeaves
  <2> SUFFICES ASSUME RedactionInv, stage = "sent",
                      NEW k \in DOMAIN DefaultChain(owner), NEW i \in DOMAIN prompt
               PROVE  Match(DefaultChain(owner)[k], prompt, i) = 0
    BY DEF NothingPrivateLeaves
  <2>1. DOMAIN DefaultChain(owner) = 1 .. Len(DefaultChain(owner))
    BY ChainPasses DEF RedactionInv
  <2>2. \A j \in 1 .. Len(DefaultChain(owner)) : Clean(DefaultChain(owner)[j], prompt)
    BY DEF RedactionInv
  <2> QED BY <2>1, <2>2 DEF Clean
<1> QED BY <1>1, <1>2, RedactionInvStep, PTL DEF RedactionSpec
=============================================================================
