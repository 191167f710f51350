-------------------------------- MODULE Sessions --------------------------------
(***************************************************************************)
(* modules/identity/auth.service.ts: sign-in with its lockout, refresh     *)
(* tokens that are replaced at every use, sign-out, and what ends every    *)
(* sign-in of a user: a new password, a reset, being switched off.         *)
(*                                                                         *)
(* One user of one shop.  A tick of the clock is the grace period of 30    *)
(* seconds, or the 15 minutes of a lock when that is what is looked at; a  *)
(* transaction is shorter.  A refresh holds its token's row; whatever ends *)
(* sign-ins sees the tokens there are when it starts and waits for those   *)
(* rows, so each is two steps.  A login with the right password checks     *)
(* the user again and issues its tokens in one step; switched off between, *)
(* a user has tokens that refreshing refuses.  The shop stays active;      *)
(* tokens are never cleared away, which takes seven days.                  *)
(***************************************************************************)
EXTENDS Integers, FiniteSets

CONSTANTS
  Browsers,             \* requests served at once
  MaxFamilies,          \* bound: sign-ins
  MaxTokens,            \* bound: refresh tokens
  MaxClock,             \* bound: ticks
  MAX_FAILED_LOGINS, LOCK_TICKS, GRACE_TICKS, SESSION_TICKS

\* Some wrong passwords lock an account, and some time counts as the grace period.
ASSUME SessionsAssumption ==
  /\ IsFiniteSet(Browsers)
  /\ MaxFamilies \in Nat /\ MaxTokens \in Nat /\ MaxClock \in Nat
  /\ MAX_FAILED_LOGINS \in Nat \ {0} /\ GRACE_TICKS \in Nat \ {0}
  /\ LOCK_TICKS \in Nat /\ SESSION_TICKS \in Nat

VARIABLES
  browsing,   \* how many browsers there are, and what this behaviour looks at
  clock,
  account,    \* app_user
  token,      \* refresh_token
  signedOut,  \* when each sign-in was last ended on purpose
  asking      \* the request of each browser

sessionVars == <<browsing, clock, account, token, signedOut, asking>>

Tokens == 1..MaxTokens
Families == 1..MaxFamilies
Times == 0..MaxClock
Never == -1

TokenRows == [status : {"none", "live", "revoked"}, family : Families \cup {0}, issued : Times,
              revoked : Times \cup {Never}, replaced : BOOLEAN]
NoToken == [status |-> "none", family |-> 0, issued |-> 0, revoked |-> Never, replaced |-> FALSE]

Askings == [pc : {"idle", "password", "refresh", "end"}, token : Tokens \cup {0}, set : SUBSET Tokens,
            active : BOOLEAN, families : SUBSET Families, does : {"signOut", "change", "reset", "switchOff"}]
NotAsking == [pc |-> "idle", token |-> 0, set |-> {}, active |-> FALSE, families |-> {}, does |-> "signOut"]

SessionsTypeOK ==
  /\ clock \in Times
  /\ account \in [active : BOOLEAN, failed : Nat, lockedUntil : Int]
  /\ token \in [Tokens -> TokenRows]
  /\ signedOut \in [Families -> Times \cup {Never}]
  /\ asking \in [Browsers -> Askings]

SessionsInit ==
  /\ browsing \in [browsers : SUBSET Browsers, guesses : BOOLEAN]
  /\ browsing.browsers # {}
  /\ clock = 0
  /\ account = [active |-> TRUE, failed |-> 0, lockedUntil |-> Never]
  /\ token = [t \in Tokens |-> NoToken]
  /\ signedOut = [f \in Families |-> Never]
  /\ asking = [b \in Browsers |-> NotAsking]

Asks(b) == b \in browsing.browsers /\ asking[b].pc = "idle"

Answered(b) == asking' = [asking EXCEPT ![b] = NotAsking]

Held(t) == \E b \in Browsers : asking[b].pc = "refresh" /\ asking[b].token = t

\* No request is in the middle of a transaction when time passes.
Tick ==
  /\ clock < MaxClock
  /\ \A b \in Browsers : asking[b].pc \notin {"refresh", "end"}
  /\ clock' = clock + 1
  /\ UNCHANGED <<browsing, account, token, signedOut, asking>>

-------------------------------------------------------------------------------
\* Signing in.

locked == account.lockedUntil > clock

\* A sign-in nobody has made yet.
NextFamily == {f \in Families : \A t \in Tokens : token[t].family < f /\ \A g \in 1..f - 1 : \E u \in Tokens : token[u].family = g}

\* A new token of a family.
issueTokens(rows, family) ==
  {[rows EXCEPT ![t] = [NoToken EXCEPT !.status = "live", !.family = family, !.issued = clock]] :
     t \in {t \in Tokens : rows[t].status = "none" /\ \A u \in 1..t - 1 : rows[u].status # "none"}}

\* The account is read, and refused while locked; then the password is compared.
BeginLogin(b) ==
  /\ Asks(b)
  /\ ~locked
  /\ asking' = [asking EXCEPT ![b] = [NotAsking EXCEPT !.pc = "password", !.active = account.active]]
  /\ UNCHANGED <<browsing, clock, account, token, signedOut>>

\* A lock that has run out starts the count again.
failures == IF account.lockedUntil # Never /\ ~locked THEN 1 ELSE account.failed + 1

recordFailedLogin(b) ==
  /\ browsing.guesses
  /\ asking[b].pc = "password"
  /\ account' = [account EXCEPT !.failed = failures,
                   !.lockedUntil = IF failures >= MAX_FAILED_LOGINS THEN clock + LOCK_TICKS
                                   ELSE IF @ # Never /\ ~locked THEN Never ELSE @]
  /\ Answered(b)
  /\ UNCHANGED <<browsing, clock, token, signedOut>>

\* The right password, of a user who was active when read and still is.
login(b) ==
  /\ asking[b].pc = "password"
  /\ asking[b].active /\ account.active
  /\ account' = [account EXCEPT !.failed = 0, !.lockedUntil = Never]
  /\ \E f \in NextFamily : token' \in issueTokens(token, f)
  /\ Answered(b)
  /\ UNCHANGED <<browsing, clock, signedOut>>

-------------------------------------------------------------------------------
\* Refreshing.

\* The token's row is locked; the user is read beside it.
BeginRefresh(b, t) ==
  /\ ~browsing.guesses
  /\ Asks(b)
  /\ token[t].status # "none" /\ ~Held(t)
  /\ asking' = [asking EXCEPT ![b] = [NotAsking EXCEPT !.pc = "refresh", !.token = t, !.active = account.active]]
  /\ UNCHANGED <<browsing, clock, account, token, signedOut>>

usable(t) == token[t].status = "live" /\ token[t].issued + SESSION_TICKS > clock

inGrace_Always(t) == token[t].replaced

inGrace(t) == token[t].replaced /\ token[t].revoked > clock - GRACE_TICKS

LiveOf(f) == {t \in Tokens : token[t].status = "live" /\ token[t].family = f}

\* A live token is replaced by the next; one replaced just now, by a second tab, gets
\* another of the family.  One replaced long ago was copied, and the family ends, as it
\* does for a user who is switched off.
refreshSession(b) ==
  LET t == asking[b].token
      f == token[t].family
      copied == token[t].replaced /\ ~inGrace(t)
  IN
  /\ asking[b].pc = "refresh"
  /\ \/ /\ ~asking[b].active \/ copied
        /\ asking' = [asking EXCEPT ![b] = [NotAsking EXCEPT !.pc = "end", !.set = LiveOf(f), !.families = {f}]]
        /\ UNCHANGED token
     \/ /\ asking[b].active
        /\ inGrace(t)
        /\ token' \in issueTokens(token, f)
        /\ Answered(b)
     \/ /\ asking[b].active /\ ~token[t].replaced
        /\ usable(t)
        /\ token' \in issueTokens([token EXCEPT ![t].status = "revoked", ![t].revoked = clock, ![t].replaced = TRUE], f)
        /\ Answered(b)
     \/ /\ asking[b].active /\ ~token[t].replaced
        /\ ~usable(t)
        /\ Answered(b) /\ UNCHANGED token
  /\ UNCHANGED <<browsing, clock, account, signedOut>>

-------------------------------------------------------------------------------
\* Ending sign-ins.

\* One sign-in, by any token of it.
BeginSignOut(b, t) ==
  /\ ~browsing.guesses
  /\ Asks(b)
  /\ token[t].status # "none"
  /\ asking' = [asking EXCEPT ![b] = [NotAsking EXCEPT !.pc = "end", !.set = LiveOf(token[t].family),
                                              !.families = {token[t].family}]]
  /\ UNCHANGED <<browsing, clock, account, token, signedOut>>

\* Every sign-in: the user is switched off, changes the password after signing
\* in, or has it reset.
BeginEndAll(b) ==
  \E does \in {"change", "reset", "switchOff"} :
    /\ Asks(b)
    /\ account.active
    /\ does = "change" => \E t \in Tokens : token[t].status # "none"
    /\ \A c \in Browsers : asking[c].pc = "end" => asking[c].does = "signOut"
    /\ asking' = [asking EXCEPT ![b] =
         [NotAsking EXCEPT !.pc = "end", !.does = does, !.set = {t \in Tokens : token[t].status = "live"},
                           !.families = {f \in Families : \E t \in Tokens : token[t].family = f}]]
    /\ UNCHANGED <<browsing, clock, account, token, signedOut>>

\* The rows of the set that are still live once nobody holds them; tokens issued since are
\* not seen.
revoke(b) ==
  /\ asking[b].pc = "end"
  /\ \A t \in asking[b].set : ~Held(t)
  /\ signedOut' = [f \in Families |-> IF f \in asking[b].families THEN clock ELSE signedOut[f]]
  /\ Answered(b)
  /\ UNCHANGED <<browsing, clock>>

Revoked(b) ==
  [t \in Tokens |-> IF t \in asking[b].set /\ token[t].status = "live"
                    THEN [token[t] EXCEPT !.status = "revoked", !.revoked = clock] ELSE token[t]]

endFamilies(b) ==
  /\ asking[b].does = "signOut"
  /\ revoke(b)
  /\ token' = Revoked(b)
  /\ UNCHANGED account

\* setUserActive.
switchOff(b) ==
  /\ asking[b].does = "switchOff"
  /\ revoke(b)
  /\ token' = Revoked(b)
  /\ account' = [account EXCEPT !.active = FALSE]

\* The user goes on in this browser with a new sign-in; failed attempts still count.
changeOwnPassword(b) ==
  /\ asking[b].does = "change"
  /\ revoke(b)
  /\ \E f \in NextFamily : token' \in issueTokens(Revoked(b), f)
  /\ UNCHANGED account

\* Failed attempts and a lock are forgotten.
resetTenantUserPassword(b) ==
  /\ asking[b].does = "reset"
  /\ revoke(b)
  /\ token' = Revoked(b)
  /\ account' = [account EXCEPT !.failed = 0, !.lockedUntil = Never]

\* The user is switched on again.
SwitchOn(b) ==
  /\ Asks(b)
  /\ ~account.active
  /\ account' = [account EXCEPT !.active = TRUE]
  /\ UNCHANGED <<browsing, clock, token, signedOut, asking>>

SessionsNext ==
  \/ Tick
  \/ \E b \in Browsers :
       \/ BeginLogin(b)
       \/ recordFailedLogin(b)
       \/ login(b)
       \/ \E t \in Tokens : BeginRefresh(b, t)
       \/ refreshSession(b)
       \/ \E t \in Tokens : BeginSignOut(b, t)
       \/ BeginEndAll(b)
       \/ endFamilies(b)
       \/ switchOff(b)
       \/ changeOwnPassword(b)
       \/ resetTenantUserPassword(b)
       \/ SwitchOn(b)

-------------------------------------------------------------------------------
\* "Signing out ends this sign-in on every tab that shares it" (auth.service.ts:261), and
\* so do a copied token and whatever ends every sign-in: afterwards the sign-in has a
\* usable token only when one of its tokens was replaced less than the grace period
\* before it ended (or while it was ending), for which a second tab may still ask.
SignedOutStays ==
  \A t \in Tokens : token[t].status = "live" /\ signedOut[token[t].family] # Never =>
    \E u \in Tokens : /\ token[u].family = token[t].family /\ token[u].replaced
                      /\ token[u].revoked \in signedOut[token[t].family] - GRACE_TICKS + 1..signedOut[token[t].family]

\* Passwords are compared for at most MAX_FAILED_LOGINS attempts and those already on
\* their way before the account is locked, and an attempt after a lock ran out counts
\* from one (auth.service.ts:187-196).
Lockout ==
  /\ account.failed < MAX_FAILED_LOGINS + Cardinality(browsing.browsers)
  /\ account.failed >= MAX_FAILED_LOGINS => account.lockedUntil # Never
  /\ locked => account.failed >= MAX_FAILED_LOGINS
===============================================================================
