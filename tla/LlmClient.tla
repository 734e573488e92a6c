------------------------------ MODULE LlmClient ------------------------------
(***************************************************************************)
(* LLMClient.call: the budget check, the provider chain with its retries,   *)
(* circuit breakers and daily caps, schema validation, and the one          *)
(* prompt_call_log row a call leaves.  A client makes one call at a time:   *)
(* the worker builds a new client for every SQS record.                     *)
(*                                                                         *)
(* Money is counted in units; `openFor` is the time since opened_at and     *)
(* stops at CoolDown; a counter's day is kept as "counted today or not".    *)
(***************************************************************************)
EXTENDS Integers, Sequences, FiniteSets

CONSTANTS
  Primary, Fallbacks, \* the catalog's primary model and fallback models
  DailyCallCap,       \* ModelEntry.daily_call_cap of each provider
  Uncapped,           \* a cap of None
  FailThreshold,      \* CircuitBreaker.fail_threshold
  CoolDown,           \* CircuitBreaker.cool_down_seconds
  MaxRetries,         \* LLMClientConfig.max_retries
  DailyBudget,        \* Settings.daily_llm_usd_cap
  Costs,              \* what one answer may cost
  Responses,          \* what OpenRouter may answer
  MaxCallsCounted     \* bound on the history of calls a day

Chain == <<Primary>> \o Fallbacks
Providers == {Chain[i] : i \in DOMAIN Chain}

Kinds ==
  {"transport_error", "rate_limited", "server_error", "client_error", "no_choices",
   "no_content", "not_json", "not_an_object", "body_not_json", "object"}

ASSUME ChainAssumption ==
  /\ Fallbacks \in Seq(Providers)
  /\ \A i, j \in DOMAIN Chain : Chain[i] = Chain[j] => i = j
  /\ DailyCallCap \in [Providers -> Nat \cup {Uncapped}]
  /\ Uncapped \notin Nat
ASSUME TunablesAssumption ==
  /\ {FailThreshold, CoolDown, DailyBudget} \subseteq Nat \ {0}
  /\ {MaxRetries, MaxCallsCounted} \subseteq Nat
  /\ Costs \subseteq Nat /\ Costs # {} /\ IsFiniteSet(Costs)
  /\ Responses \subseteq Kinds

VARIABLES
  client,  \* breakers, rate caps and budget guard of the record's client
  call,    \* the call under way
  rows,    \* prompt_call_log rows of the last call
  burst,   \* history: requests to an open provider since it last cooled down
  calls    \* history: calls admitted to a provider today, over all records

vars == <<client, call, rows, burst, calls>>

Closed == -1
NewClient ==
  [failures |-> [p \in Providers |-> 0], openFor |-> [p \in Providers |-> Closed],
   used |-> [p \in Providers |-> 0], usedToday |-> [p \in Providers |-> TRUE],
   spent |-> 0, spentToday |-> TRUE]

Idle == [pc |-> "idle", at |-> 0, attempt |-> 0, end |-> "none"]

TypeOK ==
  /\ client \in
       [failures : [Providers -> 0 .. FailThreshold],
        openFor : [Providers -> Closed .. CoolDown],
        used : [Providers -> Nat], usedToday : [Providers -> BOOLEAN],
        spent : Nat, spentToday : BOOLEAN]
  /\ call \in
       [pc : {"idle", "provider", "request", "validate"}, at : 0 .. Len(Chain) + 1,
        attempt : 0 .. MaxRetries,
        end : {"none", "budget", "raised", "answered", "exhausted"}]
  /\ rows \in Seq({"ok", "fallback", "error"})
  /\ burst \in [Providers -> Nat]
  /\ calls \in [Providers -> 0 .. MaxCallsCounted]

-----------------------------------------------------------------------------
(* The circuit breaker.                                                     *)

Current == Chain[call.at]
IsOpen(p) == client.openFor[p] # Closed

(* Mutant: half-open is entered after half of the cool-down.                *)
RejectsEarly(p) == IsOpen(p) /\ client.openFor[p] < CoolDown \div 2

(* CircuitBreaker.before_call.                                              *)
Rejects(p) == IsOpen(p) /\ client.openFor[p] < CoolDown

(* CircuitBreaker.record_failure: opened_at is set anew by every failure    *)
(* from the threshold on.                                                   *)
(* Mutant: the breaker opens on the time it was opened, not on the count.   *)
CountPastThreshold(c, p) ==
  [c EXCEPT !.failures[p] = @ + 1, !.openFor[p] = IF @ >= FailThreshold THEN 0 ELSE @]

WithFailure(c, p) ==
  LET n == IF c.failures[p] < FailThreshold THEN c.failures[p] + 1 ELSE FailThreshold
  IN [c EXCEPT !.failures[p] = n,
               !.openFor[p] = IF n >= FailThreshold THEN 0 ELSE @]

WithSuccess(c, p) == [c EXCEPT !.failures[p] = 0, !.openFor[p] = Closed]

-----------------------------------------------------------------------------
(* What a provider's answer is to the client (OpenRouterProvider).          *)

Retryable == {"transport_error", "rate_limited", "server_error"}
Fatal == {"client_error", "no_choices", "no_content", "not_json", "not_an_object"}

End(how) == [Idle EXCEPT !.end = how]
NextProvider == [call EXCEPT !.pc = "provider", !.at = @ + 1, !.attempt = 0]

(* The worker takes the next SQS record and builds a new client.            *)
NewRecord ==
  /\ call.pc = "idle"
  /\ client' = NewClient
  /\ call' = Idle /\ rows' = <<>>
  /\ burst' = [p \in Providers |-> 0]
  /\ UNCHANGED calls

(* LLMBudgetGuard.check_before_call, after a roll-over to a new day.        *)
BudgetLeft(spent) == spent < DailyBudget

BeginCall ==
  /\ call.pc = "idle"
  /\ LET spent == IF client.spentToday THEN client.spent ELSE 0 IN
       /\ client' = [client EXCEPT !.spent = spent, !.spentToday = TRUE]
       /\ call' = IF BudgetLeft(spent) THEN [Idle EXCEPT !.pc = "provider", !.at = 1]
                  ELSE End("budget")
  /\ rows' = <<>>
  /\ UNCHANGED <<burst, calls>>

(* The breaker first, then RateCap.consume: one unit per call, not per      *)
(* request, and only when the breaker lets the call through.                *)
TryProvider ==
  /\ call.pc = "provider" /\ call.at <= Len(Chain)
  /\ LET p == Current
         used == IF client.usedToday[p] THEN client.used[p] ELSE 0
         capped == DailyCallCap[p] # Uncapped
         spentCap == capped /\ used >= DailyCallCap[p] IN
       IF Rejects(p)
       THEN call' = NextProvider /\ UNCHANGED <<client, burst, calls>>
       ELSE /\ client' = IF ~capped THEN client
                         ELSE [client EXCEPT !.used[p] = IF spentCap THEN used ELSE used + 1,
                                             !.usedToday[p] = TRUE]
            /\ call' = IF spentCap THEN NextProvider ELSE [call EXCEPT !.pc = "request"]
            /\ burst' = IF spentCap THEN burst
                        ELSE IF client.openFor[p] = CoolDown THEN [burst EXCEPT ![p] = 0]
                        ELSE burst
            /\ calls' = IF spentCap \/ ~capped \/ calls[p] = MaxCallsCounted THEN calls
                        ELSE [calls EXCEPT ![p] = @ + 1]
  /\ UNCHANGED rows

Sent(p) == [burst EXCEPT ![p] = IF IsOpen(p) /\ client.openFor[p] < CoolDown
                                THEN @ + 1 ELSE @]

(* Mutant: a rate-limited request is repeated for as long as it takes.      *)
GivesUpOnErrors(kind) ==
  kind \in Fatal \/ (kind # "rate_limited" /\ call.attempt = MaxRetries)

GivesUp(kind) == kind \in Fatal \/ call.attempt = MaxRetries

(* One HTTP request.  A failure counts against the breaker; the retries of  *)
(* the call go on even when it opens.  A body that is not JSON at all       *)
(* raises out of the client: no fallback, no failure counted, no row.       *)
Request(kind) ==
  /\ call.pc = "request" /\ kind \in Responses
  /\ LET p == Current IN
       /\ burst' = IF kind = "object" THEN [burst EXCEPT ![p] = 0] ELSE Sent(p)
       /\ CASE kind = "object" ->
                 /\ client' = WithSuccess(client, p)
                 /\ call' = [call EXCEPT !.pc = "validate"]
            [] kind = "body_not_json" ->
                 /\ call' = End("raised") /\ UNCHANGED client
            [] OTHER ->
                 /\ client' = WithFailure(client, p)
                 /\ call' = IF GivesUp(kind) THEN NextProvider
                            ELSE [call EXCEPT !.attempt = IF @ < MaxRetries THEN @ + 1 ELSE @]
  /\ UNCHANGED <<rows, calls>>

(* Mutant: only answers of the primary are logged.                          *)
LogPrimary(status) == IF status = "fallback" THEN rows ELSE Append(rows, status)

Logged(status) == Append(rows, status)

(* The payload meets the schema: one row, then the cost is recorded.  The   *)
(* cost of an answer that fails validation is not.                          *)
Accept ==
  /\ call.pc = "validate"
  /\ rows' = Logged(IF call.at = 1 THEN "ok" ELSE "fallback")
  /\ \E cost \in Costs :
       client' = [client EXCEPT !.spent = (IF client.spentToday THEN @ ELSE 0) + cost,
                                !.spentToday = TRUE]
  /\ call' = End("answered")
  /\ UNCHANGED <<burst, calls>>

RejectSchema ==
  /\ call.pc = "validate"
  /\ client' = WithFailure(client, Current)
  /\ call' = NextProvider
  /\ UNCHANGED <<rows, burst, calls>>

Exhausted ==
  /\ call.pc = "provider" /\ call.at > Len(Chain)
  /\ rows' = Logged("error")
  /\ call' = End("exhausted")
  /\ UNCHANGED <<client, burst, calls>>

(* Mutant: every look at an open breaker starts its cool-down again.        *)
CoolsWhenUnused ==
  [p \in Providers |->
    IF call.pc = "provider" THEN client.openFor[p]
    ELSE IF client.openFor[p] \in 0 .. CoolDown - 1 THEN client.openFor[p] + 1
    ELSE client.openFor[p]]

Aged ==
  [p \in Providers |->
    IF client.openFor[p] \in 0 .. CoolDown - 1 THEN client.openFor[p] + 1
    ELSE client.openFor[p]]

TimePasses ==
  /\ client' = [client EXCEPT !.openFor = Aged]
  /\ UNCHANGED <<call, rows, burst, calls>>

(* UTC midnight.                                                            *)
NewDay ==
  /\ client' = [client EXCEPT !.usedToday = [p \in Providers |-> FALSE],
                              !.spentToday = FALSE]
  /\ calls' = [p \in Providers |-> 0]
  /\ UNCHANGED <<call, rows, burst>>

Init ==
  /\ client = NewClient /\ call = Idle /\ rows = <<>>
  /\ burst = [p \in Providers |-> 0]
  /\ calls = [p \in Providers |-> 0]

Step ==
  \/ TryProvider \/ Accept \/ RejectSchema \/ Exhausted
  \/ \E kind \in Responses : Request(kind)

Next == NewRecord \/ BeginCall \/ Step \/ TimePasses \/ NewDay

Spec == Init /\ [][Next]_vars

(* A request has a timeout and the process goes on; time passes.            *)
FairSpec == Spec /\ WF_vars(Step) /\ WF_vars(TimePasses)

-----------------------------------------------------------------------------
(* Properties                                                               *)

(* An opened breaker takes the load off its provider: until the cool-down   *)
(* is over nothing but the retries of the call that opened it is sent.      *)
OpenBreakerSparesProvider == \A p \in Providers : burst[p] <= MaxRetries

(* A call that reached the chain leaves exactly one prompt_call_log row,    *)
(* whichever provider answered: finalizing a run counts an email whose call *)
(* failed by its "error" row.                                               *)
OneRowPerCall ==
  call.pc = "idle" =>
    /\ call.end = "answered" => rows \in {<<"ok">>, <<"fallback">>}
    /\ call.end = "exhausted" => rows = <<"error">>
    /\ call.end \in {"budget", "raised"} => rows = <<>>

(* The daily cap of a model counts every call of the process, over all the  *)
(* records it handles (RateCap: "counts in-memory across the Lambda warm    *)
(* window").                                                                *)
CapCountsWholeDay ==
  \A p \in Providers : DailyCallCap[p] # Uncapped => calls[p] <= DailyCallCap[p]

(* Every call ends, however the providers fail.                             *)
CallEnds == (call.pc # "idle") ~> (call.pc = "idle")

(* A provider whose breaker opened is not given up: while calls keep        *)
(* coming, the primary is tried again and again.                            *)
PrimaryIsTriedAgain ==
  []<>(call.pc = "provider" /\ call.at = 1) => []<>(call.pc = "request" /\ call.at = 1)
=============================================================================
