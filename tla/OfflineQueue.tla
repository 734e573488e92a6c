----------------------------- MODULE OfflineQueue -----------------------------
(***************************************************************************)
(* The durable queue of the web application: what the user chooses while     *)
(* offline is kept in IndexedDB and replayed in order when the network is    *)
(* back.  Two callers replay, the hook that watches the network and the      *)
(* sheet's "Sync now", each from a list it read before its first request;    *)
(* neither knows of the other.  A request may fail, its answer may be lost,  *)
(* and the tab may close at any time.                                        *)
(*                                                                         *)
(* The choices are successive settings of one thing, numbered as made.       *)
(***************************************************************************)
EXTENDS Integers

CONSTANTS
  MaxChoices,   \* bound: choices the user makes
  Drainers,     \* the hook and the sheet
  MaxAttempts   \* MAX_ATTEMPTS

VARIABLES
  online,
  made,         \* the last choice
  queue,        \* pendingMutations: the attempts made of each record, by its id
  drain,        \* for each caller, the records it still has to replay
  server,       \* the choice the server holds
  queued, applied, cancelled   \* history: sets of choices

queueVars == <<online, made, queue, drain, server, queued, applied, cancelled>>

NoRecords == [id \in {} |-> 0]
NotDraining == [pc |-> "rest", rest |-> NoRecords]
Without(table, id) == [i \in DOMAIN table \ {id} |-> table[i]]

(* Records are replayed in order of createdAt.                              *)
First(table) == CHOOSE id \in DOMAIN table : \A other \in DOMAIN table : id <= other

ConnectivityChanges ==
  /\ online' = ~online
  /\ UNCHANGED <<made, queue, drain, server, queued, applied, cancelled>>

(* A direct request that fails is reported, not queued.                     *)
ChooseOnline ==
  /\ online /\ made < MaxChoices
  /\ made' = made + 1
  /\ \/ server' = made' /\ applied' = applied \cup {made'}
     \/ UNCHANGED <<server, applied>>
  /\ UNCHANGED <<online, queue, drain, queued, cancelled>>

EnqueueMutation ==
  /\ ~online /\ made < MaxChoices
  /\ made' = made + 1
  /\ queue' = [id \in DOMAIN queue \cup {made'} |-> IF id = made' THEN 0 ELSE queue[id]]
  /\ queued' = queued \cup {made'}
  /\ UNCHANGED <<online, drain, server, applied, cancelled>>

CancelMutation(id) ==
  /\ id \in DOMAIN queue
  /\ queue' = Without(queue, id)
  /\ cancelled' = cancelled \cup {id}
  /\ UNCHANGED <<online, made, drain, server, queued, applied>>

ListPending(d) ==
  /\ online /\ drain[d] = NotDraining /\ queue # NoRecords
  /\ drain' = [drain EXCEPT ![d] = [pc |-> "replay", rest |-> queue]]
  /\ UNCHANGED <<online, made, queue, server, queued, applied, cancelled>>

Replaying(d) == drain[d].pc = "replay" /\ drain[d].rest # NoRecords
Record(d) == First(drain[d].rest)
Attempts(d) == drain[d].rest[Record(d)]

(* A record that failed too often is passed over.                           *)
SkipExhausted(d) ==
  /\ Replaying(d) /\ Attempts(d) >= MaxAttempts
  /\ drain' = [drain EXCEPT ![d].rest = Without(@, Record(d))]
  /\ UNCHANGED <<online, made, queue, server, queued, applied, cancelled>>

(* The request reaches the server or not, its answer the tab or not.        *)
Replay(d) ==
  /\ Replaying(d) /\ Attempts(d) < MaxAttempts
  /\ \/ /\ online
        /\ server' = Record(d) /\ applied' = applied \cup {Record(d)}
        /\ \E next \in {"remove", "note"} : drain' = [drain EXCEPT ![d].pc = next]
     \/ drain' = [drain EXCEPT ![d].pc = "note"] /\ UNCHANGED <<server, applied>>
  /\ UNCHANGED <<online, made, queue, queued, cancelled>>

RemoveReplayed(d) ==
  /\ drain[d].pc = "remove"
  /\ queue' = Without(queue, Record(d))
  /\ drain' = [drain EXCEPT ![d] = [pc |-> "replay", rest |-> Without(@.rest, Record(d))]]
  /\ UNCHANGED <<online, made, server, queued, applied, cancelled>>

(* Mutant: a record is given up with its last attempt.                      *)
DropWhenExhausted(id, attempts) ==
  IF attempts + 1 >= MaxAttempts THEN Without(queue, id)
  ELSE [i \in DOMAIN queue |-> IF i = id THEN attempts + 1 ELSE queue[i]]

(* An update of a record that is gone changes nothing.                      *)
WithAttempt(id, attempts) ==
  [i \in DOMAIN queue |-> IF i = id THEN attempts + 1 ELSE queue[i]]

(* The first failure ends the drain.                                        *)
NoteFailure(d) ==
  /\ drain[d].pc = "note"
  /\ queue' = WithAttempt(Record(d), Attempts(d))
  /\ drain' = [drain EXCEPT ![d] = NotDraining]
  /\ UNCHANGED <<online, made, server, queued, applied, cancelled>>

EndDrain(d) ==
  /\ drain[d].pc = "replay" /\ drain[d].rest = NoRecords
  /\ drain' = [drain EXCEPT ![d] = NotDraining]
  /\ UNCHANGED <<online, made, queue, server, queued, applied, cancelled>>

CloseTab ==
  /\ drain' = [d \in Drainers |-> NotDraining]
  /\ UNCHANGED <<online, made, queue, server, queued, applied, cancelled>>

Drain(d) ==
  SkipExhausted(d) \/ Replay(d) \/ RemoveReplayed(d) \/ NoteFailure(d) \/ EndDrain(d)

QueueInit ==
  /\ online \in BOOLEAN /\ made = 0 /\ queue = NoRecords
  /\ drain = [d \in Drainers |-> NotDraining]
  /\ server = 0
  /\ queued = {} /\ applied = {} /\ cancelled = {}

QueueNext ==
  \/ ConnectivityChanges \/ ChooseOnline \/ EnqueueMutation \/ CloseTab
  \/ \E id \in 1 .. MaxChoices : CancelMutation(id)
  \/ \E d \in Drainers : ListPending(d) \/ Drain(d)

-----------------------------------------------------------------------------
(* Properties                                                               *)

(* What was queued reaches the server unless the user cancels it: until      *)
(* then it stays in the queue, whatever two replays, lost answers, closed    *)
(* tabs and exhausted attempts do to it.                                     *)
QueuedIsNotLost ==
  queued \ (applied \cup cancelled) \subseteq DOMAIN queue

(* The server ends up with the last choice that reached it.  It need not:    *)
(* see README.                                                               *)
LastChoiceWins ==
  queue = NoRecords /\ (\A d \in Drainers : drain[d] = NotDraining) /\ applied # {}
  => \A c \in applied : c <= server
=============================================================================
