----------------------------- MODULE PushTokens -----------------------------
(***************************************************************************)
(* The APNs device tokens of one room, and the wake pass that sends to     *)
(* them.  A pass takes the registered tokens, asks APNs about each of them *)
(* at once, and when the last answer is in drops the tokens APNs called    *)
(* stale.  The room's wake chain runs one pass at a time, but clients      *)
(* register and unregister tokens while the answers are awaited.           *)
(*                                                                         *)
(* Both deployments store one list per room and change it in one step: a   *)
(* SQLite statement in Node, a get and put under the Durable Object's      *)
(* input gate in the Worker.  They differ in what the end of a pass        *)
(* writes: Node filters the list as it is then, the Worker writes back     *)
(* what is left of the list as it was when the pass began.                 *)
(***************************************************************************)
EXTENDS Integers, Sequences, FiniteSets, Filters, Deployments

CONSTANTS
    Token,    \* device tokens
    Limit     \* PUSH_TOKEN_LIMIT

ASSUME TokenAssumption == Limit \in Nat \ {0}

VARIABLES
    tokens,    \* persisted: the registered tokens, last registered last
    pass,      \* the wake pass that awaits APNs
    wanted,    \* tokens registered and not unregistered since (history)
    reported,  \* tokens APNs has called stale since (history)
    after,     \* after[t]: tokens registered after t was (history)
    raced      \* has a registration changed during a pass (history)

tokenVars == <<runtime, tokens, pass, wanted, reported, after, raced>>

Listed(s) == {s[i] : i \in DOMAIN s}

\* No pass runs exactly when no answer is awaited.
Pass == [sent : Seq(Token), awaited : SUBSET Token, stale : SUBSET Token]
Idle == [sent |-> <<>>, awaited |-> {}, stale |-> {}]

\* Every token is listed once, at most Limit of them.
TokenTypeOK ==
    /\ runtime \in Runtime
    /\ tokens \in Seq(Token)
    /\ Len(tokens) <= Limit
    /\ Cardinality(Listed(tokens)) = Len(tokens)
    /\ pass \in Pass
    /\ wanted \subseteq Token
    /\ reported \subseteq Token
    /\ after \in [Token -> SUBSET Token]
    /\ raced \in BOOLEAN

TokenInit ==
    /\ runtime \in Runtime
    /\ tokens = <<>>
    /\ pass = Idle
    /\ wanted = {}
    /\ reported = {}
    /\ after = [t \in Token |-> {}]
    /\ raced = FALSE

Running == pass.awaited # {}

-----------------------------------------------------------------------------
(* Registration *)

Without(s, gone) == Filter(s, Token \ gone)

\* Mutant: the cap drops the newest registrations.
Oldest(s) == IF Len(s) > Limit THEN SubSeq(s, 1, Limit) ELSE s

Capped(s) == IF Len(s) > Limit THEN SubSeq(s, Len(s) - Limit + 1, Len(s)) ELSE s

\* PUT or POST /push/register.
Register(t) ==
    /\ tokens' = Capped(Append(Without(tokens, {t}), t))
    /\ wanted' = wanted \cup {t}
    /\ reported' = reported \ ({t} \ pass.stale)
    /\ after' = [x \in Token |-> IF x = t THEN {} ELSE after[x] \cup {t}]
    /\ raced' = (raced \/ Running)
    /\ UNCHANGED <<runtime, pass>>

\* DELETE /push/register.
Unregister(t) ==
    /\ tokens' = Without(tokens, {t})
    /\ wanted' = wanted \ {t}
    /\ raced' = (raced \/ Running)
    /\ UNCHANGED <<runtime, pass, reported, after>>

-----------------------------------------------------------------------------
(* sendWakePush *)

\* With no token registered the pass is over at once.
BeginPass ==
    /\ ~Running
    /\ tokens # <<>>
    /\ pass' = [sent |-> tokens, awaited |-> Listed(tokens), stale |-> {}]
    /\ UNCHANGED <<runtime, tokens, wanted, reported, after, raced>>

\* Mutant: Node writes back the list the pass began with, too.
RemainingOfSent(stale) == Without(pass.sent, stale)

\* What the end of a pass stores when APNs called some token stale.
Remaining(stale) ==
    Without(IF runtime = "node" THEN tokens ELSE pass.sent, stale)

Outcome == {"ok", "stale", "failed"}

\* APNs accepts or refuses the push to t, calls the token stale, or the request
\* fails.  Only the stale answers change what is stored, with the last answer.
Answer(t, outcome) ==
    /\ t \in pass.awaited
    /\ LET awaited == pass.awaited \ {t}
           stale == pass.stale \cup (IF outcome = "stale" THEN {t} ELSE {})
       IN /\ reported' = reported \cup stale
          /\ pass' = IF awaited = {} THEN Idle
                     ELSE [pass EXCEPT !.awaited = awaited, !.stale = stale]
          /\ tokens' = IF awaited = {} /\ stale # {} THEN Remaining(stale) ELSE tokens
    /\ UNCHANGED <<runtime, wanted, after, raced>>

\* The process or Durable Object stops during a pass; the list stays.
PassLost ==
    /\ Running
    /\ pass' = Idle
    /\ UNCHANGED <<runtime, tokens, wanted, reported, after, raced>>

TokenNext ==
    \/ \E t \in Token : Register(t) \/ Unregister(t)
    \/ BeginPass
    \/ \E t \in Token, outcome \in Outcome : Answer(t, outcome)
    \/ PassLost

TokenSpec == TokenInit /\ [][TokenNext]_tokenVars

-----------------------------------------------------------------------------
(* Properties *)

\* A token that a client registered, that no client unregistered and APNs did not
\* call stale since is in the list, unless Limit tokens were registered after it.
\* A token registered anew while the pass that called it stale still runs counts
\* as called stale: no deployment tells the two registrations apart.
RegistrationKept ==
    \A t \in wanted \ reported :
        t \in Listed(tokens) \/ Cardinality(after[t]) >= Limit

\* SECURITY.md: tokens are "removed when APNs reports them stale or the app
\* unregisters".  A token that was unregistered is not listed again until a client
\* registers it again, whatever pass was under way.
UnregisteredStaysOut == Listed(tokens) \subseteq wanted

Undisturbed == runtime = "node" \/ ~raced

\* Node keeps every registration; the Worker does when none changed while a pass
\* awaited APNs.
RegistrationsHold == Undisturbed => RegistrationKept

\* The same of unregistrations.
UnregistrationsHold == Undisturbed => UnregisteredStaysOut
=============================================================================
