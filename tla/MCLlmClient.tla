----------------------------- MODULE MCLlmClient -----------------------------
(***************************************************************************)
(* What a record handler does before, in and after its model call: the      *)
(* prompt rows, the redaction of its text, the client with the catalog's    *)
(* chain of two models, and the newsletter clusters a job writes.  They     *)
(* share no state; a behaviour runs one of them (lane), so that their state *)
(* spaces add up.                                                           *)
(***************************************************************************)
EXTENDS LlmClient, PromptRegistry, Redaction, NewsClusters, TLC

CONSTANTS flash, haiku

VARIABLE lane

OneFallback == <<haiku>>
FallbackCapped == flash :> Uncapped @@ haiku :> 2
Every == Kinds

Note(account, domain, subject) ==
  [account |-> account, domain |-> domain, sender |-> "news", list_id |-> "none",
   subject |-> {subject}]

(* Three letters of a curated cluster, and two whose domains fall back to   *)
(* the same key.                                                            *)
FiveLetters ==
  <<Note(1, <<"com", "ai">>, "ai"), Note(2, <<"io", "ml">>, "ai"),
    Note(2, <<"com", "ai">>, "ai"), Note(2, <<"com", "db">>, "sql"),
    Note(2, <<"org", "db">>, "sql")>>
AiRule == <<[match |-> [subject_regex |-> "ai"], key |-> <<"ai">>]>>

Letters == {"ann", "lee", "http"}
Phrases ==
  {<<"ann">>, <<"lee">>, <<"ann", " ", "lee">>, <<" ">>, <<"ssn">>, <<"@">>, <<"http", "://">>,
   <<".", "lee">>, <<"ann", "@", "lee", ".", "lee">>, <<"lee", "@", "ann", ".", "lee">>}
ThreePhrases == {a \o b \o c : a \in Phrases, b \in Phrases, c \in Phrases}

(* A name with a part of it as an alias, an address; nobody; a blank alias. *)
ThreeUsers ==
  {[addresses |-> {<<"ann", "@", "lee", ".", "lee">>}, names |-> {<<"ann", " ", "lee">>, <<"ann">>}],
   [addresses |-> {}, names |-> {}],
   [addresses |-> {}, names |-> {<<"ann">>, <<" ">>}]}

allVars == <<vars, promptVars, redactionVars, newsVars, lane>>

Lanes == {"client", "prompts", "redaction", "news"}

(* The lane that stands still has one initial state.                        *)
MCInit ==
  /\ Init /\ PromptInit /\ RedactionInit /\ NewsInit /\ lane \in Lanes
  /\ lane # "redaction" => prompt = <<"ann", "ann", "ann">> /\ Cardinality(owner.names) = 0
MCNext ==
  \/ lane = "client" /\ Next /\ UNCHANGED <<promptVars, redactionVars, newsVars, lane>>
  \/ lane = "prompts" /\ PromptNext /\ UNCHANGED <<vars, redactionVars, newsVars, lane>>
  \/ lane = "redaction" /\ RedactionNext /\ UNCHANGED <<vars, promptVars, newsVars, lane>>
  \/ lane = "news" /\ NewsNext /\ UNCHANGED <<vars, promptVars, redactionVars, lane>>

InLane(l, A) == lane = l /\ A

(* The process goes on and time passes; each worker goes on with its        *)
(* record, a record that never ends its call is not assumed to exist, and   *)
(* an old release is retired when its workers are idle.                     *)
MCSpec ==
  /\ MCInit /\ [][MCNext]_allVars
  /\ WF_vars(InLane("client", Step)) /\ WF_vars(InLane("client", TimePasses))
  /\ \A w \in SyncWorkers :
       /\ SF_promptVars(InLane("prompts", Flush(w)))
       /\ SF_promptVars(InLane("prompts", CommitRecord(w)))
       /\ WF_promptVars(InLane("prompts", HandleRecord(w) \/ Abandon(w)))
=============================================================================
