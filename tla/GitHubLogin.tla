------------------------------ MODULE GitHubLogin ------------------------------
(***************************************************************************)
(* Signing in with GitHub: github_start, github_callback and _github_user  *)
(* of app/auth_routes.py, with the accounts they find, link or create.     *)
(*                                                                         *)
(* A callback reads its state, marks it used, asks GitHub who signs in,    *)
(* looks for the account and commits; each SELECT and COMMIT is a step.    *)
(* An account without a verified address has a placeholder one, written    *)
(* here as the identity itself.  GitHub lets an address be verified by one *)
(* identity at a time.                                                     *)
(***************************************************************************)
EXTENDS Integers

CONSTANTS
  Accounts,     \* rows of the users table, present or not yet inserted
  Identities,   \* GitHub accounts
  Mails,        \* e-mail addresses
  LoginStates,  \* rows of oauth_login_states, present or not yet inserted
  Callbacks,    \* concurrent github_callback requests
  Nobody        \* no account, identity, address or state

ASSUME NobodyAssumption == Nobody \notin Accounts \cup Identities \cup Mails \cup LoginStates
ASSUME PlaceholderAssumption == Identities \cap Mails = {}

VARIABLES
  account,    \* account[a]: its address and the identity it is linked to
  verified,   \* GitHub's: the verified address of each identity
  state,      \* state[s]: absent, fresh, used or expired
  stateCookie,
  callback

loginVars == <<account, verified, state, stateCookie, callback>>

NoAccount    == [mail |-> Nobody, github |-> Nobody]
IdleCallback == [step |-> "idle", state |-> Nobody, id |-> Nobody, mail |-> Nobody,
                 found |-> Nobody]

LoginInit ==
  /\ account = [a \in Accounts |-> NoAccount]
  /\ verified = [g \in Identities |-> Nobody]
  /\ state = [s \in LoginStates |-> "absent"]
  /\ stateCookie = Nobody
  /\ callback = [c \in Callbacks |-> IdleCallback]

Exists(a)       == account[a].mail # Nobody
Taken(m)        == \E a \in Accounts : account[a].mail = m
Continue(c, to) == callback' = [callback EXCEPT ![c] = to]
End(c)          == Continue(c, IdleCallback)
Identified(c)   == callback[c].id # Nobody

\* create_account; the unique address decides between two registrations.
RegisterAccount(a, m) ==
  /\ ~ Exists(a) /\ ~ Taken(m)
  /\ account' = [account EXCEPT ![a] = [mail |-> m, github |-> Nobody]]
  /\ UNCHANGED <<verified, state, stateCookie, callback>>

\* On GitHub an identity verifies or drops an address: not in the seconds between a
\* callback's question and its COMMIT.
Verify(g, m) ==
  /\ m = Nobody \/ \A h \in Identities \ {g} : verified[h] # m
  /\ \A c \in Callbacks : ~ Identified(c)
  /\ verified' = [verified EXCEPT ![g] = m]
  /\ UNCHANGED <<account, state, stateCookie, callback>>

\* github_start.
Start(s) ==
  /\ state[s] = "absent"
  /\ state' = [state EXCEPT ![s] = "fresh"]
  /\ stateCookie' = s
  /\ UNCHANGED <<account, verified, callback>>

ExpireState(s) ==
  /\ state[s] = "fresh"
  /\ state' = [state EXCEPT ![s] = "expired"]
  /\ UNCHANGED <<account, verified, stateCookie, callback>>

\* The cookie outlives its max_age or was deleted by another callback.
DropCookie ==
  /\ stateCookie # Nobody
  /\ stateCookie' = Nobody
  /\ UNCHANGED <<account, verified, state, callback>>

\* SELECT of the state; a browser without the cookie passes, one with another is refused.
CheckState(c, s) ==
  /\ callback[c].step = "idle"
  /\ stateCookie \in {Nobody, s}
  /\ state[s] = "fresh"
  /\ Continue(c, [IdleCallback EXCEPT !.step = "checked", !.state = s])
  /\ UNCHANGED <<account, verified, state, stateCookie>>

UseState(c) ==
  /\ callback[c].step = "checked"
  /\ state' = [state EXCEPT ![callback[c].state] = "used"]
  /\ Continue(c, [callback[c] EXCEPT !.step = "used"])
  /\ UNCHANGED <<account, verified, stateCookie>>

\* _github_exchange and _github_identity.
Identify(c, g) ==
  /\ callback[c].step = "used"
  /\ Continue(c, [callback[c] EXCEPT !.step = "identified", !.id = g, !.mail = verified[g]])
  /\ UNCHANGED <<account, verified, state, stateCookie>>

\* Cancelled at GitHub, a failed exchange, a timeout, a failed COMMIT: nothing is saved,
\* and a state that was used stays so.
Fail(c) ==
  /\ callback[c].step # "idle"
  /\ End(c)
  /\ UNCHANGED <<account, verified, state, stateCookie>>

\* _github_user: by the identity, then by the address.
FindLinked(c) ==
  /\ callback[c].step = "identified"
  /\ IF \E a \in Accounts : account[a].github = callback[c].id
     THEN \E a \in Accounts :
            /\ account[a].github = callback[c].id
            /\ Continue(c, [callback[c] EXCEPT !.step = "known", !.found = a])
     ELSE Continue(c, [callback[c] EXCEPT !.step =
                         IF callback[c].mail = Nobody THEN "creating" ELSE "searching"])
  /\ UNCHANGED <<account, verified, state, stateCookie>>

\* Mutation of MayLink: the account's link is not looked at.
MayLinkAnyone(a, g) == Exists(a)

\* "This email is already linked to another GitHub account" otherwise.
MayLink(a, g) == account[a].github \in {Nobody, g}

FindByMail(c) ==
  /\ callback[c].step = "searching"
  /\ IF Taken(callback[c].mail)
     THEN \E a \in Accounts :
            /\ account[a].mail = callback[c].mail
            /\ IF MayLink(a, callback[c].id)
               THEN Continue(c, [callback[c] EXCEPT !.step = "linking", !.found = a])
               ELSE End(c)
     ELSE Continue(c, [callback[c] EXCEPT !.step = "creating"])
  /\ UNCHANGED <<account, verified, state, stateCookie>>

\* The account's placeholder gives way to the verified address, if nobody else has it.
CommitKnown(c) ==
  LET a == callback[c].found
      m == callback[c].mail IN
  /\ callback[c].step = "known"
  /\ IF m # Nobody /\ account[a].mail \in Identities
     THEN /\ ~ Taken(m)
          /\ account' = [account EXCEPT ![a].mail = m]
     ELSE account' = account
  /\ stateCookie' = Nobody
  /\ End(c)
  /\ UNCHANGED <<verified, state>>

CommitLink(c) ==
  /\ callback[c].step = "linking"
  /\ \A a \in Accounts \ {callback[c].found} : account[a].github # callback[c].id
  /\ account' = [account EXCEPT ![callback[c].found].github = callback[c].id]
  /\ stateCookie' = Nobody
  /\ End(c)
  /\ UNCHANGED <<verified, state>>

\* Mutation of CommitNew: no placeholder is made up for an account without an address.
CommitNewUnaddressed(c, a) ==
  /\ callback[c].step = "creating"
  /\ ~ Exists(a)
  /\ \A b \in Accounts : account[b].github # callback[c].id
  /\ account' = [account EXCEPT ![a] = [mail |-> callback[c].mail, github |-> callback[c].id]]
  /\ stateCookie' = Nobody
  /\ End(c)
  /\ UNCHANGED <<verified, state>>

\* A new account with its workspace, under both unique columns.
CommitNew(c, a) ==
  LET m == IF callback[c].mail = Nobody THEN callback[c].id ELSE callback[c].mail IN
  /\ callback[c].step = "creating"
  /\ ~ Exists(a) /\ ~ Taken(m)
  /\ \A b \in Accounts : account[b].github # callback[c].id
  /\ account' = [account EXCEPT ![a] = [mail |-> m, github |-> callback[c].id]]
  /\ stateCookie' = Nobody
  /\ End(c)
  /\ UNCHANGED <<verified, state>>

LoginNext ==
  \/ \E a \in Accounts, m \in Mails : RegisterAccount(a, m)
  \/ \E g \in Identities, m \in Mails \cup {Nobody} : Verify(g, m)
  \/ \E s \in LoginStates : Start(s) \/ ExpireState(s)
  \/ DropCookie
  \/ \E c \in Callbacks : \/ \E s \in LoginStates : CheckState(c, s)
                          \/ UseState(c)
                          \/ \E g \in Identities : Identify(c, g)
                          \/ Fail(c) \/ FindLinked(c) \/ FindByMail(c)
                          \/ CommitKnown(c) \/ CommitLink(c)
                          \/ \E a \in Accounts : CommitNew(c, a)

LoginSpec == LoginInit /\ [][LoginNext]_loginVars

-----------------------------------------------------------------------------
LoginTypeOK ==
  /\ account \in [Accounts -> [mail : Mails \cup Identities \cup {Nobody},
                               github : Identities \cup {Nobody}]]
  /\ verified \in [Identities -> Mails \cup {Nobody}]
  /\ state \in [LoginStates -> {"absent", "fresh", "used", "expired"}]
  /\ stateCookie \in LoginStates \cup {Nobody}
  /\ callback \in [Callbacks ->
       [step : {"idle", "checked", "used", "identified", "known", "searching", "linking",
                "creating"},
        state : LoginStates \cup {Nobody}, id : Identities \cup {Nobody},
        mail : Mails \cup {Nobody}, found : Accounts \cup {Nobody}]]
  \* Who is linked has an address, a placeholder is that of the linked identity.
  /\ \A a \in Accounts : account[a].github # Nobody => Exists(a)
  /\ \A a \in Accounts : account[a].mail \in Identities => account[a].github = account[a].mail

\* An account that is linked to a GitHub identity is never handed to another one, through
\* callbacks that overlap, states used twice and addresses that change hands on GitHub
\* (_github_user).
LinkIsKept ==
  [][\A a \in Accounts : account[a].github # Nobody => account'[a].github = account[a].github
    ]_loginVars

=============================================================================
