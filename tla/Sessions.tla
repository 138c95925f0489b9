------------------------------- MODULE Sessions -------------------------------
(***************************************************************************)
(* Browser sessions: the refresh tokens of app/auth_routes.py and          *)
(* services/auth.py, exchanged by the tabs of one browser, AuthPages.tsx   *)
(* and api/client.ts.                                                      *)
(*                                                                         *)
(* A call is an HTTP request of a tab: the server reads the token the      *)
(* cookie held when the call was sent, commits, and answers; the answer is *)
(* applied later, or lost.  The SELECT and the COMMIT are separate steps.  *)
(* Refresh tokens are numbered in the order of their commits, 0 is no      *)
(* token.  A tab that shows the application has an access token; an API    *)
(* request may find it expired at any moment.                              *)
(***************************************************************************)
EXTENDS Integers, Sequences

CONSTANTS
  Tabs,
  Calls,       \* concurrent HTTP requests about the session
  NoTab,       \* the tab of a call whose page was left
  MaxTokens    \* bound on the refresh tokens ever issued

ASSUME NoTabAssumption == NoTab \notin Tabs
ASSUME MaxTokensAssumption == MaxTokens \in Nat \ {0}

VARIABLES
  token,      \* the refresh_tokens table
  cookie,     \* the browser's refresh_token cookie
  page,       \* what each tab shows: SessionGate, the application or a public page
  call,
  undisturbed \* history: logged in, and nothing has ended the session since

sessionVars == <<token, cookie, page, call, undisturbed>>

Pages    == {"closed", "gate", "shell", "public"}
IdleCall == [kind |-> "none", step |-> "idle", tab |-> NoTab, presented |-> 0, seen |-> 0,
             new |-> 0]

TokenType == [parent : 0 .. MaxTokens,   \* the token it was exchanged for, 0 at a login
              seen   : 0 .. MaxTokens,   \* history: tokens issued when the parent was read
              revoked : BOOLEAN, expired : BOOLEAN]
CallType  == [kind : {"none", "login", "refresh", "logout"},
              step : {"idle", "sent", "checked", "done", "refused"},
              tab : Tabs \cup {NoTab}, presented : 0 .. MaxTokens, seen : 0 .. MaxTokens,
              new : 0 .. MaxTokens]

SessionInit ==
  /\ token = <<>>
  /\ cookie = 0
  /\ page = [t \in Tabs |-> "closed"]
  /\ call = [c \in Calls |-> IdleCall]
  /\ undisturbed = FALSE

Issued       == Len(token)
Usable(k)    == k # 0 /\ ~ token[k].revoked /\ ~ token[k].expired
Busy(c)      == call[c].step # "idle"
Exchanging(t) == \E c \in Calls : Busy(c) /\ call[c].tab = t /\ call[c].kind = "refresh"

\* A page that is left forgets its calls: the browser may still store their cookies.
Left(t) == [c \in Calls |-> IF call[c].tab = t THEN [call[c] EXCEPT !.tab = NoTab] ELSE call[c]]

\* An exchange nobody will hear the end of, or whose answer may come after another call.
Unheard(t) == \E c \in Calls : Busy(c) /\ call[c].tab \in {t, NoTab}

-----------------------------------------------------------------------------
(* The browser. *)

Send(c, t, kind) ==
  /\ ~ Busy(c)
  /\ call' = [call EXCEPT ![c] = [IdleCall EXCEPT !.kind = kind, !.step = "sent", !.tab = t,
                                                  !.presented = cookie]]

\* Loading or reloading the application; a second tab shares the cookie of the first.
OpenTab(t) ==
  /\ page' = [page EXCEPT ![t] = "gate"]
  /\ call' = Left(t)
  /\ undisturbed' = (undisturbed /\ ~ Unheard(t) /\ \A u \in Tabs \ {t} : page[u] = "closed")
  /\ UNCHANGED <<token, cookie>>

\* Register, login and the GitHub callback end in tokens().
SendLogin(c, t) ==
  /\ page[t] = "public"
  /\ ~ \E d \in Calls : Busy(d) /\ call[d].tab = t
  /\ Send(c, t, "login")
  /\ UNCHANGED <<token, cookie, page, undisturbed>>

\* Mutation of SendRefresh: every request that meets a 401 exchanges the token itself.
SendRefreshUnshared(c, t) ==
  /\ page[t] \in {"gate", "shell"}
  /\ Send(c, t, "refresh")
  /\ UNCHANGED <<token, cookie, page, undisturbed>>

\* SessionGate's one exchange, and the one behind refreshPromise for all requests that
\* meet a 401 meanwhile.
SendRefresh(c, t) ==
  /\ page[t] \in {"gate", "shell"}
  /\ ~ Exchanging(t)
  /\ Send(c, t, "refresh")
  /\ UNCHANGED <<token, cookie, page, undisturbed>>

SendLogout(c, t) ==
  /\ page[t] = "shell"
  /\ ~ \E d \in Calls : Busy(d) /\ call[d].tab = t /\ call[d].kind = "logout"
  /\ Send(c, t, "logout")
  /\ undisturbed' = FALSE
  /\ UNCHANGED <<token, cookie, page>>

-----------------------------------------------------------------------------
(* The server. *)

Step(c, step) == call' = [call EXCEPT ![c].step = step]

\* consume_refresh: SELECT, revoked_at, expires_at.  A logout with nothing to revoke succeeds.
Consume(c) ==
  /\ call[c].step = "sent"
  /\ call[c].kind \in {"refresh", "logout"}
  /\ IF Usable(call[c].presented)
     THEN call' = [call EXCEPT ![c].step = "checked", ![c].seen = Issued]
     ELSE Step(c, IF call[c].kind = "logout" THEN "done" ELSE "refused")
  /\ UNCHANGED <<token, cookie, page, undisturbed>>

Revoked(k)     == [token EXCEPT ![k].revoked = TRUE]
NewToken(p, s) == [parent |-> p, seen |-> s, revoked |-> FALSE, expired |-> FALSE]

\* Mutation of CommitRefresh: the new token is committed before revoked_at is set.
CommitRefreshUnrevoked(c) ==
  /\ call[c].step = "checked" /\ call[c].kind = "refresh"
  /\ Issued < MaxTokens
  /\ token' = Append(token, NewToken(call[c].presented, call[c].seen))
  /\ call' = [call EXCEPT ![c].step = "done", ![c].new = Issued + 1]
  /\ UNCHANGED <<cookie, page, undisturbed>>

\* tokens(): the revocation and the new token in one COMMIT.
CommitRefresh(c) ==
  /\ call[c].step = "checked" /\ call[c].kind = "refresh"
  /\ Issued < MaxTokens
  /\ token' = Append(Revoked(call[c].presented), NewToken(call[c].presented, call[c].seen))
  /\ call' = [call EXCEPT ![c].step = "done", ![c].new = Issued + 1]
  /\ UNCHANGED <<cookie, page, undisturbed>>

CommitLogin(c) ==
  /\ call[c].step = "sent" /\ call[c].kind = "login"
  /\ Issued < MaxTokens
  /\ token' = Append(token, NewToken(0, Issued))
  /\ call' = [call EXCEPT ![c].step = "done", ![c].new = Issued + 1]
  /\ UNCHANGED <<cookie, page, undisturbed>>

\* A wrong password, or an e-mail address that is taken.
RefuseLogin(c) ==
  /\ call[c].step = "sent" /\ call[c].kind = "login"
  /\ Step(c, "refused")
  /\ UNCHANGED <<token, cookie, page, undisturbed>>

CommitLogout(c) ==
  /\ call[c].step = "checked" /\ call[c].kind = "logout"
  /\ token' = Revoked(call[c].presented)
  /\ Step(c, "done")
  /\ UNCHANGED <<cookie, page, undisturbed>>

\* expires_at passes.
Expire(k) ==
  /\ k \in 1 .. Issued /\ Usable(k)
  /\ token' = [token EXCEPT ![k].expired = TRUE]
  /\ undisturbed' = FALSE
  /\ UNCHANGED <<cookie, page, call>>

-----------------------------------------------------------------------------
(* The answers. *)

\* Where the answer takes its tab: login reloads the application, logout and an exchange
\* that failed leave it.
NextPage(c, ok) ==
  LET k == call[c].kind IN
  CASE k = "login"   -> IF ok THEN "gate" ELSE "public"
    [] k = "refresh" -> IF ok THEN "shell" ELSE "public"
    [] k = "logout"  -> "public"

\* Leaving a page abandons its other calls; the transition from gate to shell does not.
Settle(c, ok) ==
  LET t == call[c].tab IN
  IF t = NoTab
  THEN /\ call' = [call EXCEPT ![c] = IdleCall]
       /\ page' = page
  ELSE /\ call' = [(IF NextPage(c, ok) = "shell" THEN call ELSE Left(t)) EXCEPT ![c] = IdleCall]
       /\ page' = [page EXCEPT ![t] = NextPage(c, ok)]

\* The answer's Set-Cookie, and what the page does with the rest.
Answer(c) ==
  /\ call[c].step \in {"done", "refused"}
  /\ cookie' = IF call[c].step = "refused" THEN cookie
               ELSE IF call[c].kind = "logout" THEN 0 ELSE call[c].new
  /\ Settle(c, call[c].step = "done")
  /\ undisturbed' = IF call[c].kind = "login" /\ call[c].step = "done"
                    THEN /\ Usable(call[c].new)
                         /\ \A d \in Calls \ {c} : ~ Busy(d)
                         /\ \A u \in Tabs \ {call[c].tab} : page[u] = "closed"
                    ELSE undisturbed
  /\ UNCHANGED token

\* The connection fails, before or after the server did its part.
Lose(c) ==
  /\ Busy(c)
  /\ Settle(c, FALSE)
  /\ undisturbed' = (undisturbed /\ call[c].kind = "login")
  /\ UNCHANGED <<token, cookie>>

SessionNext ==
  \/ \E t \in Tabs : OpenTab(t)
  \/ \E c \in Calls, t \in Tabs : SendLogin(c, t) \/ SendRefresh(c, t) \/ SendLogout(c, t)
  \/ \E c \in Calls : \/ Consume(c) \/ CommitRefresh(c) \/ CommitLogin(c) \/ RefuseLogin(c)
                      \/ CommitLogout(c) \/ Answer(c) \/ Lose(c)
  \/ \E k \in 1 .. MaxTokens : Expire(k)

SessionSpec == SessionInit /\ [][SessionNext]_sessionVars

-----------------------------------------------------------------------------
SessionTypeOK ==
  /\ token \in Seq(TokenType) /\ Len(token) <= MaxTokens
  /\ cookie \in 0 .. Issued
  /\ page \in [Tabs -> Pages]
  /\ call \in [Calls -> CallType]
  /\ undisturbed \in BOOLEAN
  /\ \A c \in Calls : {call[c].presented, call[c].new} \subseteq 0 .. Issued

\* A refresh token is exchanged twice only by requests that overlap: the later one had
\* read it before the earlier one committed (consume_refresh, tokens).
ReuseNeedsOverlap ==
  \A j, k \in 1 .. Issued :
    j < k /\ token[j].parent # 0 /\ token[j].parent = token[k].parent => token[k].seen < j

\* One tab stays in the application as long as nobody logs out, nothing expires and no
\* answer is lost, however many of its requests meet an expired access token at once
\* (refreshPromise of client.ts, SessionGate).
SessionIsKept == undisturbed => \A t \in Tabs : page[t] # "public"

=============================================================================
