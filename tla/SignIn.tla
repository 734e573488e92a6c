-------------------------------- MODULE SignIn --------------------------------
(***************************************************************************)
(* The Google sign-in of one browser: /oauth/gmail/start in any number of   *)
(* tabs, the one pre-authorize cookie they share, Google's consent screens, *)
(* /oauth/gmail/callback, logout, and what the callbacks leave in users and *)
(* connected_accounts.  The PKCE verifier is the flow's number: the cookie  *)
(* of one flow does not redeem the code of another.                         *)
(***************************************************************************)
EXTENDS Integers, FiniteSets

CONSTANTS
  Identities, \* Google accounts the browser's owner can consent with
  MaxFlows,   \* bound: sign-in starts
  Nothing     \* no cookie, no user

ASSUME SignInAssumption ==
  /\ IsFiniteSet(Identities) /\ MaxFlows \in Nat
  /\ {Nothing, "consent", "over"} \cap Identities = {}

VARIABLES
  users,    \* users rows, named by the email that made them
  mailboxes,\* connected_accounts rows: <<user, email>>
  session,  \* user of the session cookie
  state,    \* the pre-authorize cookie
  flows     \* the sign-ins started: who for, and how far

signVars == <<users, mailboxes, session, state, flows>>

NoState == [flow |-> 0, user |-> Nothing]
Started == DOMAIN flows

(* A fresh state and verifier; the cookie of an earlier tab is replaced.    *)
(* A link needs a session, and keeps its user in the cookie.                *)
Start(link) ==
  /\ Cardinality(Started) < MaxFlows
  /\ link => session # Nothing
  /\ LET f == Cardinality(Started) + 1
         user == IF link THEN session ELSE Nothing IN
       /\ flows' = [g \in Started \cup {f} |->
                      IF g = f THEN [for |-> user, step |-> "consent"] ELSE flows[g]]
       /\ state' = [flow |-> f, user |-> user]
  /\ UNCHANGED <<users, mailboxes, session>>

AtConsent(f) == flows[f].step = "consent"
Over(f) == flows' = [flows EXCEPT ![f].step = "over"]

(* The owner cancels, or Google's redirect is malformed.                    *)
Deny(f) ==
  /\ AtConsent(f) /\ Over(f)
  /\ state' = NoState
  /\ UNCHANGED <<users, mailboxes, session>>

(* The callback of a flow that is not the cookie's.                         *)
StateRejected(f) ==
  /\ AtConsent(f) /\ state.flow # f /\ Over(f)
  /\ state' = NoState
  /\ UNCHANGED <<users, mailboxes, session>>

(* The code is refused, or the tokens lack a refresh token or an identity,  *)
(* or KMS fails: 400 or 503, and the cookie stays.                          *)
ExchangeFails(f) ==
  /\ AtConsent(f) /\ state.flow = f /\ Over(f)
  /\ UNCHANGED <<users, mailboxes, session, state>>

(* _resolve_oauth_user: the user of the link, else the one of the email,    *)
(* who is made if need be.                                                  *)
ResolvedUser(email) == IF state.user = Nothing THEN email ELSE state.user

(* Mutant: the state of the cookie is not compared.                         *)
ConnectAnyFlow(f, email) ==
  /\ AtConsent(f) /\ state # NoState
  /\ LET user == ResolvedUser(email) IN
       /\ users' = users \cup {user}
       /\ mailboxes' = mailboxes \cup {<<user, email>>}
       /\ session' = user
       /\ flows' = [flows EXCEPT ![f] = [for |-> flows[f].for, step |-> user]]
  /\ state' = NoState

(* The mailbox is made or set active again; the session cookie is set.      *)
Connect(f, email) ==
  /\ AtConsent(f) /\ state.flow = f
  /\ LET user == ResolvedUser(email) IN
       /\ users' = users \cup {user}
       /\ mailboxes' = mailboxes \cup {<<user, email>>}
       /\ session' = user
       /\ flows' = [flows EXCEPT ![f] = [for |-> flows[f].for, step |-> user]]
  /\ state' = NoState

Logout ==
  /\ session # Nothing
  /\ session' = Nothing /\ state' = NoState
  /\ UNCHANGED <<users, mailboxes, flows>>

(* The session lives 30 days, the pre-authorize cookie 30 minutes.          *)
SessionExpires ==
  /\ session # Nothing /\ session' = Nothing
  /\ UNCHANGED <<users, mailboxes, state, flows>>

StateExpires ==
  /\ state # NoState /\ state' = NoState
  /\ UNCHANGED <<users, mailboxes, session, flows>>

SignInit ==
  /\ users = {} /\ mailboxes = {}
  /\ session = Nothing /\ state = NoState
  /\ flows = [f \in {} |-> 0]

SignNext ==
  \/ \E link \in BOOLEAN : Start(link)
  \/ \E f \in Started :
       \/ Deny(f) \/ StateRejected(f) \/ ExchangeFails(f)
       \/ \E email \in Identities : Connect(f, email)
  \/ Logout \/ SessionExpires \/ StateExpires

SignSpec == SignInit /\ [][SignNext]_signVars

-----------------------------------------------------------------------------
(* Properties                                                               *)

(* A finished flow acted for the user who started it: a link that was begun *)
(* for one user never ends with a mailbox or a session of another, whatever *)
(* tabs, logouts and sign-ins happened before its callback.                 *)
LinkGoesToStarter ==
  \A f \in Started : flows[f].for # Nothing /\ flows[f].step \in Identities
                       => flows[f].step = flows[f].for

=============================================================================
