---------------------------- MODULE AdminAccess ----------------------------
(***************************************************************************)
(* jwt.go and the script of adminLogin.html: the tokens an administrator's *)
(* browser holds and what the server makes of them.                        *)
(*                                                                         *)
(* Tokens are numbered as they are issued.  Every one is good for the same *)
(* four hours, so they expire in that order; a restart with another secret *)
(* ends all of them at once.  The cookie belongs to the browser, the       *)
(* session token (sent as a header) to one tab of it, which keeps it until *)
(* it logs in again or is closed.  A failed login changes only the table   *)
(* of failures (HistoryStore) and is left out.                             *)
(***************************************************************************)
EXTENDS Integers

CONSTANT MaxTokens      \* bound on the tokens issued

ASSUME AccessAssumption == MaxTokens \in Nat

VARIABLES cookie,       \* the browser's cookie "admintoken"
          header,       \* this tab's sessionStorage entry "admintoken"
          issued,       \* tokens issued so far
          expired       \* tokens up to this one are no longer accepted

accessVars == <<cookie, header, issued, expired>>

NoToken == 0
Tokens == 0..MaxTokens

AccessTypeOK == /\ cookie \in Tokens
                /\ header \in Tokens
                /\ issued \in Tokens
                /\ expired \in Tokens
                /\ cookie <= issued
                /\ header <= issued
                /\ expired <= issued

AccessInit == /\ cookie = NoToken
              /\ header = NoToken
              /\ issued = 0
              /\ expired = 0

-----------------------------------------------------------------------------
\* What parseJWT accepts: an admin token under the secret, not yet expired.
\* Mutant: only the token issued last.
Accepted_LastOnly(t) == t > expired /\ t = issued
Accepted(t) == t > expired

\* The token requireAdmin looks at: the header if it has one, else the
\* cookie.  A header token that has expired hides a cookie that has not.
PresentedToken(h, c) == IF h # NoToken THEN h ELSE c

\* adminHandlerLogin issues a token and sets the cookie.
Issue == /\ issued < MaxTokens
         /\ issued' = issued + 1
         /\ cookie' = issued + 1

\* A login in this tab: its script keeps the token for the header as well.
LogIn == /\ Issue
         /\ header' = issued + 1
         /\ UNCHANGED expired

\* A login in another tab of the browser renews the cookie only.
LogInElsewhere == /\ Issue
                  /\ UNCHANGED <<header, expired>>

\* Tokens reach their age, or the server restarts with another secret.
Expire == /\ \E n \in expired + 1..issued : expired' = n
          /\ UNCHANGED <<cookie, header, issued>>

\* The tab is closed and another one opened.
NewTab == /\ header # NoToken
          /\ header' = NoToken
          /\ UNCHANGED <<cookie, issued, expired>>

\* A page is asked for without a header, by its cookie alone.
PageGranted == Accepted(PresentedToken(NoToken, cookie))
=============================================================================
