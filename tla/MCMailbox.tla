------------------------------ MODULE MCMailbox ------------------------------
(***************************************************************************)
(* The modules about Gmail and Google.  They share no state; a behaviour    *)
(* runs one of them (lane), so that their state spaces add up.  The mailbox *)
(* has two lanes: the workers among themselves while mail comes and goes and *)
(* history is forgotten, and one worker against the owner's requests and    *)
(* callbacks while tokens age and grants are revoked.                       *)
(***************************************************************************)
EXTENDS Mailbox, MarkRead, SignIn, TLC

CONSTANTS w1, m1, m2, m3

VARIABLE lane

TwoAccounts == m1 :> 1 @@ m2 :> 1 @@ m3 :> 2

allVars == <<vars, markVars, signVars, lane>>

MCInit ==
  /\ Init /\ MarkInit /\ SignInit
  /\ lane \in {"workers", "owner", "mark_read", "sign_in"}

Elsewhere(l, others) == lane = l /\ UNCHANGED <<others, lane>>

WorkersAlone == MailMoves \/ \E w \in Workers : Handle(w) \/ Fail(w)
WorkerAndOwner ==
  Arrive \/ RevokeGrants \/ TokenAges \/ Owner \/ Callback \/ Handle(w1)

MCNext ==
  \/ Elsewhere("workers", <<markVars, signVars>>) /\ WorkersAlone
  \/ Elsewhere("owner", <<markVars, signVars>>) /\ WorkerAndOwner
  \/ Elsewhere("mark_read", <<vars, signVars>>) /\ MarkNext
  \/ Elsewhere("sign_in", <<vars, markVars>>) /\ SignNext

InLane(l, A) == lane = l /\ A
HandleInLane(w) == (lane = "workers" \/ (lane = "owner" /\ w = w1)) /\ Handle(w)

(* Mailbox!FairSpec, in the lanes of the mailbox.                           *)
MCSpec ==
  /\ MCInit /\ [][MCNext]_allVars
  /\ \A w \in Workers : WF_vars(HandleInLane(w))
  /\ WF_vars(InLane("owner", Purge)) /\ WF_vars(InLane("owner", SeeToken \/ StoreGrant))
=============================================================================
