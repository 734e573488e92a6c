------------------------------ MODULE Redaction -------------------------------
(***************************************************************************)
(* What of a prompt leaves the worker: the chain of sanitizers that every    *)
(* record builds from the user's profile and the model client runs over the  *)
(* rendered prompt.  Each sanitizer rewrites the text of the one before.     *)
(*                                                                         *)
(* A text is a sequence of symbols: words, a social security number, and     *)
(* the marks "@", ".", "://" and " "; case is left out, as the scrubber      *)
(* ignores it.  A placeholder is one symbol, the name of its kind.  URL, EMAIL  *)
(* and SSN stand for the pattern table: the longest context, one that is     *)
(* found by its mark, and one that needs word boundaries.                    *)
(***************************************************************************)
EXTENDS Integers, Sequences, FiniteSets, SequencesExt, FiniteSetsExt

CONSTANTS
  Words,    \* runs of letters, "http" one of them
  Prompts,  \* rendered prompts
  Users     \* profile rows: the addresses and the names to hide

Alphanumeric == Words \cup {"ssn"}
AddressText == Alphanumeric \cup {"."}
Marks == {"@", ".", "://"}
Placeholders == {"<URL>", "<EMAIL>", "<SSN>", "<USER_EMAIL>", "<USER_NAME>"}
Symbols == Alphanumeric \cup Marks \cup {" "}

(* Mails and profiles are written without placeholders; a word is no mark.  *)
ASSUME SymbolsAssumption ==
  /\ "http" \in Words /\ Words \cap (Marks \cup Placeholders) = {}
  /\ Prompts \subseteq Seq(Symbols)
  /\ \A user \in Users : user.addresses \cup user.names \subseteq Seq(Symbols)

VARIABLES
  owner,    \* the user whose record it is
  prompt,   \* the text as rewritten so far
  chain,    \* the sanitizers that have still to run
  stage

redactionVars == <<owner, prompt, chain, stage>>

-----------------------------------------------------------------------------
(* The length of the match that a pattern has at a place, or 0.             *)

IsAt(t, i, class) == i \in DOMAIN t /\ t[i] \in class
Run(t, i, class) ==
  Max({n \in 0 .. Len(t) : \A k \in i .. i + n - 1 : IsAt(t, k, class)})
Boundary(t, i) == ~(IsAt(t, i - 1, Alphanumeric) /\ IsAt(t, i, Alphanumeric))

(* Alternatives are tried with the longest first.                           *)
IdentityMatch(candidates, t, i) ==
  Max({0} \cup {Len(c) : c \in {c \in candidates : IsPrefix(c, SubSeq(t, i, Len(t)))}})

UrlMatch(t, i) ==
  LET rest == Run(t, i + 2, Alphanumeric \cup Marks)
  IN IF Boundary(t, i) /\ IsAt(t, i, {"http"}) /\ IsAt(t, i + 1, {"://"}) /\ rest > 0
     THEN 2 + rest ELSE 0

(* A domain ends with a dot and letters, at the last place where it can.    *)
DomainEnds(t, at) ==
  {n \in 3 .. Run(t, at + 1, AddressText) :
     /\ Boundary(t, at + n + 1)
     /\ \E k \in 2 .. n - 1 : t[at + k] = "." /\ Run(t, at + k + 1, Words) >= n - k}

EmailMatch(t, i) ==
  LET at == i + Run(t, i, AddressText)
  IN IF Boundary(t, i) /\ IsAt(t, i, Alphanumeric) /\ IsAt(t, at, {"@"}) /\ DomainEnds(t, at) # {}
     THEN at + Max(DomainEnds(t, at)) - i + 1 ELSE 0

SsnMatch(t, i) ==
  IF IsAt(t, i, {"ssn"}) /\ Boundary(t, i) /\ Boundary(t, i + 1) THEN 1 ELSE 0

Match(pass, t, i) ==
  CASE pass.kind = "<URL>" -> UrlMatch(t, i)
    [] pass.kind = "<EMAIL>" -> EmailMatch(t, i)
    [] pass.kind = "<SSN>" -> SsnMatch(t, i)
    [] OTHER -> IdentityMatch(pass.candidates, t, i)

(* re.subn: matches from left to right that do not overlap.                 *)
RewrittenFrom(pass, t) ==
  LET from[i \in 1 .. Len(t) + 1] ==
        IF i > Len(t) THEN <<>>
        ELSE IF Match(pass, t, i) = 0 THEN <<t[i]>> \o from[i + 1]
        ELSE <<pass.kind>> \o from[i + Match(pass, t, i)]
  IN from

Rewritten(pass, t) == RewrittenFrom(pass, t)[1]

-----------------------------------------------------------------------------
(* build_default_chain                                                      *)

Pass(kind, candidates) == [kind |-> kind, candidates |-> candidates]

RegexSanitizer == <<Pass("<URL>", {}), Pass("<EMAIL>", {}), Pass("<SSN>", {})>>
Scrubber(kind, candidates) ==
  IF candidates = {} THEN <<>> ELSE <<Pass(kind, candidates)>>
IdentityScrubber(user) ==
  Scrubber("<USER_EMAIL>", user.addresses) \o Scrubber("<USER_NAME>", user.names)

(* Mutant: the patterns run before the identities.                          *)
PatternsFirst(user) == RegexSanitizer \o IdentityScrubber(user)

DefaultChain(user) == IdentityScrubber(user) \o RegexSanitizer

(* A candidate of nothing but space is refused, with the record.            *)
IsBlank(candidate) == \A i \in DOMAIN candidate : candidate[i] = " "
Refused(user) == \E c \in user.addresses \cup user.names : IsBlank(c)

BuildChain ==
  /\ stage = "loaded"
  /\ IF Refused(owner) THEN stage' = "raised" /\ UNCHANGED chain
     ELSE stage' = "built" /\ chain' = DefaultChain(owner)
  /\ UNCHANGED <<owner, prompt>>

Sanitize ==
  /\ stage = "built" /\ chain # <<>>
  /\ prompt' = Rewritten(Head(chain), prompt)
  /\ chain' = Tail(chain)
  /\ UNCHANGED <<owner, stage>>

SendPrompt ==
  /\ stage = "built" /\ chain = <<>>
  /\ stage' = "sent"
  /\ UNCHANGED <<owner, prompt, chain>>

RedactionInit ==
  /\ owner \in Users /\ prompt \in Prompts
  /\ chain = <<>> /\ stage = "loaded"

RedactionNext == BuildChain \/ Sanitize \/ SendPrompt

RedactionSpec == RedactionInit /\ [][RedactionNext]_redactionVars

-----------------------------------------------------------------------------
(* Properties                                                               *)

(* No identity and no pattern is left whole in what is sent: what one        *)
(* sanitizer cuts out of the text neither hides a match from a later one     *)
(* nor makes one for an earlier one, so a second pass would find nothing.    *)
(* (What may be left of a match that another one cuts: see README.)          *)
NothingPrivateLeaves ==
  stage = "sent" =>
    \A k \in DOMAIN DefaultChain(owner), i \in DOMAIN prompt :
      Match(DefaultChain(owner)[k], prompt, i) = 0
=============================================================================
