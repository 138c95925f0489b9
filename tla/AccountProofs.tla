---------------------------- MODULE AccountProofs ----------------------------
(***************************************************************************)
(* Theorems about Sessions, GitHubLogin and ApiAccess, for any number of   *)
(* tabs, calls, tokens, accounts, identities and overlapping requests: a   *)
(* refresh token is exchanged a second time only by a request that had     *)
(* read it before the first exchange committed, an undisturbed session is  *)
(* kept, the link of an account to a GitHub identity is never given to     *)
(* another one, and the rate limits bound what passes in any window.       *)
(***************************************************************************)
EXTENDS Sessions, GitHubLogin, ApiAccess, SequenceTheorems, FiniteSetTheorems, TLAPS

-----------------------------------------------------------------------------
(* Sessions. *)

\* What a call's locals refer to.  Nobody has exchanged a token that is being checked,
\* except after the check.
CallFits(r) ==
  /\ r \in CallType
  /\ {r.presented, r.new} \subseteq 0 .. Issued
  /\ r.step # "idle" => r.kind # "none"
  /\ r.step = "checked" =>
       /\ r.kind \in {"refresh", "logout"}
       /\ r.presented # 0
       /\ r.seen <= Issued
       /\ \A k \in 1 .. Issued : token[k].parent = r.presented => r.seen < k

CallsFit == /\ call = [c \in Calls |-> call[c]]
            /\ \A c \in Calls : CallFits(call[c])

\* A token that was exchanged is revoked.
ParentsAreRevoked ==
  \A k \in 1 .. Issued : token[k].parent # 0 => /\ token[k].parent \in 1 .. Issued
                                                /\ token[token[k].parent].revoked

SessionInv ==
  /\ token \in Seq(TokenType) /\ Issued <= MaxTokens
  /\ cookie \in 0 .. Issued
  /\ page \in [Tabs -> Pages]
  /\ undisturbed \in BOOLEAN
  /\ CallsFit
  /\ ParentsAreRevoked
  /\ ReuseNeedsOverlap

-----------------------------------------------------------------------------
(* The tokens: a step revokes or expires some, and issues one at most. *)

\* What no step takes back.
Grown ==
  /\ token' \in Seq(TokenType) /\ Issued' <= MaxTokens /\ Issued <= Issued'
  /\ \A k \in 1 .. Issued : /\ token'[k].parent = token[k].parent
                            /\ token'[k].seen = token[k].seen
                            /\ token[k].revoked => token'[k].revoked

LEMMA IssuedType == ASSUME SessionInv PROVE Issued \in 0 .. MaxTokens
BY LenProperties, MaxTokensAssumption DEF SessionInv, Issued

LEMMA TokenTyped == ASSUME SessionInv, NEW k \in 1 .. Issued PROVE token[k] \in TokenType
BY ElementOfSeq DEF SessionInv, Issued

LEMMA NoneIssued == ASSUME SessionInv, UNCHANGED token PROVE Grown
BY IssuedType DEF SessionInv, Grown, Issued

\* A mark on one token.
LEMMA Marked ==
  ASSUME SessionInv, NEW k \in 1 .. Issued, NEW x \in TokenType,
         x.parent = token[k].parent, x.seen = token[k].seen, token[k].revoked => x.revoked,
         token' = [token EXCEPT ![k] = x]
  PROVE  /\ Grown /\ Issued' = Issued
         /\ \A j \in 1 .. Issued : token'[j] = IF j = k THEN x ELSE token[j]
<1>1. /\ token' \in Seq(TokenType) /\ Len(token') = Len(token)
      /\ \A j \in 1 .. Len(token) : token'[j] = IF j = k THEN x ELSE token[j]
  BY ExceptSeq DEF SessionInv, Issued
<1>2. QED
  BY <1>1, IssuedType DEF SessionInv, Grown, Issued

\* The two facts about the tokens when no token is issued.
LEMMA TreeKept ==
  ASSUME SessionInv, Grown, Issued' = Issued
  PROVE  ParentsAreRevoked' /\ ReuseNeedsOverlap'
<1>1. ParentsAreRevoked'
  BY DEF SessionInv, Grown, ParentsAreRevoked
<1>2. ReuseNeedsOverlap'
  BY DEF SessionInv, Grown, ReuseNeedsOverlap
<1>3. QED
  BY <1>1, <1>2

-----------------------------------------------------------------------------
(* The calls. *)

LEMMA IdleCallFits == ASSUME SessionInv PROVE CallFits(IdleCall)
<1>1. 0 \in 0 .. MaxTokens /\ 0 \in 0 .. Issued
  BY IssuedType, MaxTokensAssumption
<1>2. QED
  BY <1>1 DEF CallFits, IdleCall, CallType

LEMMA LeftFits == ASSUME NEW r, CallFits(r) PROVE CallFits([r EXCEPT !.tab = NoTab])
BY DEF CallFits, CallType

LEMMA FitsForGood == ASSUME SessionInv, Grown, NEW r, CallFits(r) PROVE CallFits(r)'
<1>1. Issued \in Nat /\ Issued' \in Nat /\ Issued <= Issued'
  BY IssuedType, LenProperties DEF Grown, Issued
<1>2. r \in CallType /\ {r.presented, r.new} \subseteq 0 .. Issued'
  BY <1>1 DEF CallFits
<1>3. ASSUME r.step = "checked", NEW k \in 1 .. Issued', token'[k].parent = r.presented
      PROVE  r.seen < k
  <2>1. CASE k \in 1 .. Issued
    BY <1>3, <2>1 DEF CallFits, Grown
  <2>2. CASE Issued < k
    BY <1>1, <1>3, <2>2 DEF CallFits, CallType
  <2>3. QED
    BY <1>1, <2>1, <2>2
<1>4. r.step = "checked" => r.seen <= Issued'
  BY <1>1 DEF CallFits, CallType
<1>5. QED
  BY <1>2, <1>3, <1>4 DEF CallFits

\* Calls that stay, end or lose their tab.
LEMMA CallsStay ==
  ASSUME SessionInv, Grown, call' = [c \in Calls |-> call'[c]],
         \A c \in Calls : call'[c] \in {call[c], IdleCall, [call[c] EXCEPT !.tab = NoTab]}
  PROVE  CallsFit'
<1> SUFFICES ASSUME NEW c \in Calls
             PROVE  CallFits(call[c])'
  BY DEF CallsFit
<1>1. CallFits(call[c])
  BY DEF SessionInv, CallsFit
<1>2. PICK r : r = call'[c]
  OBVIOUS
<1>3. CallFits(r)
  BY <1>1, <1>2, IdleCallFits, LeftFits
<1>4. CallFits(r)'
  BY <1>3, FitsForGood
<1>5. QED
  BY <1>2, <1>4 DEF CallFits

\* A call that moves.
LEMMA CallMoves ==
  ASSUME SessionInv, Grown, NEW c \in Calls, NEW r, call' = [call EXCEPT ![c] = r], CallFits(r)'
  PROVE  CallsFit'
<1>1. call' = [d \in Calls |-> IF d = c THEN r ELSE call[d]]
  BY DEF SessionInv, CallsFit
<1> SUFFICES ASSUME NEW d \in Calls
             PROVE  CallFits(call[d])'
  BY <1>1 DEF CallsFit
<1>2. CASE d = c
  BY <1>1, <1>2 DEF CallFits
<1>3. CASE d # c
  <2>1. PICK s : s = call[d]
    OBVIOUS
  <2>2. CallFits(s)
    BY <2>1 DEF SessionInv, CallsFit
  <2>3. CallFits(s)'
    BY <2>2, FitsForGood
  <2>4. call'[d] = s
    BY <1>1, <1>3, <2>1
  <2>5. QED
    BY <2>3, <2>4 DEF CallFits
<1>4. QED
  BY <1>2, <1>3

\* It may fit before the step.
LEMMA CallSteps ==
  ASSUME SessionInv, Grown, NEW c \in Calls, NEW r, call' = [call EXCEPT ![c] = r], CallFits(r)
  PROVE  CallsFit'
BY FitsForGood, CallMoves

-----------------------------------------------------------------------------
(* The steps. *)

LEMMA SessionInitial == SessionInit => SessionInv
<1> SUFFICES ASSUME SessionInit
             PROVE  SessionInv
  OBVIOUS
<1>1. token \in Seq(TokenType) /\ Issued = 0
  BY EmptySeq DEF SessionInit, Issued
<1>2. IdleCall \in CallType /\ CallFits(IdleCall)
  BY <1>1, MaxTokensAssumption DEF CallFits, CallType, IdleCall
<1>3. CallsFit
  BY <1>2 DEF SessionInit, CallsFit
<1>4. ParentsAreRevoked /\ ReuseNeedsOverlap
  BY <1>1 DEF ParentsAreRevoked, ReuseNeedsOverlap
<1>5. Issued <= MaxTokens /\ cookie \in 0 .. Issued
  BY <1>1, MaxTokensAssumption DEF SessionInit
<1>6. page \in [Tabs -> Pages] /\ undisturbed \in BOOLEAN
  BY DEF SessionInit, Pages
<1>7. QED
  BY <1>1, <1>3, <1>4, <1>5, <1>6 DEF SessionInv

\* A step that leaves the tokens alone.
LEMMA NoTokenMoves ==
  ASSUME SessionInv, UNCHANGED token, CallsFit', cookie' \in 0 .. Issued,
         page' \in [Tabs -> Pages], undisturbed' \in BOOLEAN
  PROVE  SessionInv'
<1>1. Grown /\ Issued' = Issued
  BY NoneIssued DEF Issued
<1>2. QED
  BY <1>1, TreeKept DEF SessionInv, Issued

LEMMA OpenKeeps == ASSUME SessionInv, NEW t \in Tabs, OpenTab(t) PROVE SessionInv'
<1>1. CallsFit'
  BY CallsStay, NoneIssued DEF OpenTab, Left
<1>2. page' \in [Tabs -> Pages]
  BY DEF OpenTab, SessionInv, Pages
<1>3. undisturbed' \in BOOLEAN
  BY DEF OpenTab, SessionInv
<1>4. QED
  BY <1>1, <1>2, <1>3, NoTokenMoves DEF OpenTab, SessionInv

LEMMA SendKeeps ==
  ASSUME SessionInv, NEW c \in Calls, NEW t \in Tabs, NEW kind \in {"login", "refresh", "logout"},
         Send(c, t, kind), UNCHANGED <<token, cookie, page>>, undisturbed' \in BOOLEAN
  PROVE  SessionInv'
<1> DEFINE r == [IdleCall EXCEPT !.kind = kind, !.step = "sent", !.tab = t, !.presented = cookie]
<1>0. cookie \in 0 .. MaxTokens /\ 0 \in 0 .. MaxTokens
  BY IssuedType, MaxTokensAssumption DEF SessionInv
<1>1. r \in CallType /\ r.step = "sent" /\ r.kind = kind /\ r.presented = cookie /\ r.new = 0
  <2>1. IdleCall \in CallType /\ IdleCall.new = 0
    BY <1>0 DEF IdleCall, CallType
  <2>2. QED
    BY <1>0, <2>1 DEF CallType
<1>2. call' = [call EXCEPT ![c] = r]
  BY DEF Send
<1> HIDE DEF r
<1>3. CallFits(r)
  BY <1>1, IssuedType DEF CallFits, SessionInv
<1>4. CallsFit'
  BY <1>2, <1>3, CallSteps, NoneIssued
<1>5. QED
  BY <1>4, NoTokenMoves DEF SessionInv

\* A call that only changes its step.
LEMMA StepFits ==
  ASSUME SessionInv, Grown, NEW c \in Calls, Busy(c), NEW step \in {"done", "refused"},
         Step(c, step)
  PROVE  CallsFit'
<1> DEFINE r == [call[c] EXCEPT !.step = step]
<1>1. CallFits(call[c])
  BY DEF SessionInv, CallsFit
<1>2. /\ r \in CallType /\ r.step = step /\ r.presented = call[c].presented
      /\ r.new = call[c].new /\ r.kind = call[c].kind
  BY <1>1 DEF CallFits, CallType
<1>3. call' = [call EXCEPT ![c] = r]
  BY DEF Step, SessionInv, CallsFit
<1> HIDE DEF r
<1>4. CallFits(r)
  BY <1>1, <1>2 DEF CallFits, Busy
<1>5. QED
  BY <1>3, <1>4, CallSteps

LEMMA ConsumeKeeps == ASSUME SessionInv, NEW c \in Calls, Consume(c) PROVE SessionInv'
<1>1. CallFits(call[c]) /\ Busy(c) /\ call[c].kind \in {"refresh", "logout"}
  BY DEF Consume, SessionInv, CallsFit, Busy
<1>2. CASE Usable(call[c].presented)
  <2> DEFINE r == [call[c] EXCEPT !.step = "checked", !.seen = Issued]
  <2>1. call' = [call EXCEPT ![c] = r]
    BY <1>2, <1>1 DEF Consume, SessionInv, CallsFit
  <2>2. call[c].presented \in 1 .. Issued /\ ~ token[call[c].presented].revoked
    BY <1>1, <1>2, IssuedType DEF Usable, CallFits
  <2>3. \A k \in 1 .. Issued : token[k].parent # call[c].presented
    BY <2>2 DEF SessionInv, ParentsAreRevoked
  <2>4. /\ r \in CallType /\ r.step = "checked" /\ r.kind = call[c].kind /\ r.seen = Issued
        /\ r.presented = call[c].presented /\ r.new = call[c].new
    BY <1>1, IssuedType DEF CallFits, CallType
  <2> HIDE DEF r
  <2>5. CallFits(r)
    BY <1>1, <2>2, <2>3, <2>4, IssuedType DEF CallFits
  <2>6. CallsFit'
    BY <2>1, <2>5, CallSteps, NoneIssued DEF Consume
  <2>7. QED
    BY <2>6, NoTokenMoves DEF Consume, SessionInv
<1>3. CASE ~ Usable(call[c].presented)
  <2>1. PICK step \in {"done", "refused"} : Step(c, step)
    BY <1>3 DEF Consume
  <2>2. CallsFit'
    BY <1>1, <2>1, StepFits, NoneIssued DEF Consume
  <2>3. QED
    BY <2>2, NoTokenMoves DEF Consume, SessionInv
<1>4. QED
  BY <1>2, <1>3

LEMMA RefuseKeeps == ASSUME SessionInv, NEW c \in Calls, RefuseLogin(c) PROVE SessionInv'
<1>1. CallsFit'
  BY StepFits, NoneIssued DEF RefuseLogin, Busy
<1>2. QED
  BY <1>1, NoTokenMoves DEF RefuseLogin, SessionInv

\* The revocation of a token that was checked.
LEMMA Revocation ==
  ASSUME SessionInv, NEW p \in 1 .. Issued
  PROVE  /\ Revoked(p) \in Seq(TokenType) /\ Len(Revoked(p)) = Issued
         /\ \A j \in 1 .. Issued : /\ Revoked(p)[j].parent = token[j].parent
                                   /\ Revoked(p)[j].seen = token[j].seen
                                   /\ token[j].revoked => Revoked(p)[j].revoked
         /\ Revoked(p)[p].revoked
<1> DEFINE x == [token[p] EXCEPT !.revoked = TRUE]
<1>1. x \in TokenType /\ x.parent = token[p].parent /\ x.seen = token[p].seen /\ x.revoked
  BY TokenTyped DEF TokenType
<1>2. Revoked(p) = [token EXCEPT ![p] = x]
  BY DEF Revoked
<1> HIDE DEF x
<1>3. /\ [token EXCEPT ![p] = x] \in Seq(TokenType) /\ Len([token EXCEPT ![p] = x]) = Len(token)
      /\ \A j \in 1 .. Len(token) : [token EXCEPT ![p] = x][j] = IF j = p THEN x ELSE token[j]
  BY <1>1, ExceptSeq DEF SessionInv, Issued
<1>4. QED
  BY <1>1, <1>2, <1>3 DEF Issued

LEMMA LogoutKeeps == ASSUME SessionInv, NEW c \in Calls, CommitLogout(c) PROVE SessionInv'
<1>1. CallFits(call[c]) /\ call[c].presented \in 1 .. Issued
  BY IssuedType DEF CommitLogout, SessionInv, CallsFit, CallFits
<1>2. Grown /\ Issued' = Issued
  BY <1>1, Revocation, IssuedType DEF CommitLogout, Grown, Issued, SessionInv
<1>3. CallsFit'
  BY <1>2, StepFits DEF CommitLogout, Busy
<1>4. QED
  BY <1>2, <1>3, TreeKept DEF CommitLogout, SessionInv, Grown

LEMMA ExpireKeeps == ASSUME SessionInv, NEW k \in 1 .. MaxTokens, Expire(k) PROVE SessionInv'
<1> DEFINE x == [token[k] EXCEPT !.expired = TRUE]
<1>1. k \in 1 .. Issued /\ token' = [token EXCEPT ![k] = x]
  BY DEF Expire
<1>2. /\ x \in TokenType /\ x.parent = token[k].parent /\ x.seen = token[k].seen
      /\ x.revoked = token[k].revoked
  BY <1>1, TokenTyped DEF TokenType
<1> HIDE DEF x
<1>3. Grown /\ Issued' = Issued
  BY <1>1, <1>2, Marked
<1>4. CallsFit'
  <2>1. call' = [c \in Calls |-> call'[c]] /\ \A c \in Calls : call'[c] = call[c]
    BY DEF Expire, SessionInv, CallsFit
  <2>2. QED
    BY <1>3, <2>1, CallsStay
<1>5. QED
  BY <1>3, <1>4, TreeKept DEF Expire, SessionInv, Grown

\* A new token: of a login, or of an exchange whose parent is revoked with it.
LEMMA IssueKeeps ==
  ASSUME SessionInv, NEW c \in Calls, Busy(c), Issued < MaxTokens,
         NEW old \in Seq(TokenType), NEW p \in 0 .. Issued, NEW s \in 0 .. Issued,
         Len(old) = Issued,
         \A j \in 1 .. Issued : /\ old[j].parent = token[j].parent
                                /\ old[j].seen = token[j].seen
                                /\ token[j].revoked => old[j].revoked,
         p # 0 => /\ old[p].revoked
                  /\ \A j \in 1 .. Issued : token[j].parent = p => s < j,
         token' = Append(old, NewToken(p, s)),
         call' = [call EXCEPT ![c].step = "done", ![c].new = Issued + 1],
         UNCHANGED <<cookie, page, undisturbed>>
  PROVE  SessionInv'
<1> DEFINE x == NewToken(p, s)
<1>0. Issued \in Nat /\ Issued + 1 \in 0 .. MaxTokens
  BY IssuedType, MaxTokensAssumption
<1>1. x \in TokenType /\ x.parent = p /\ x.seen = s
  BY <1>0, MaxTokensAssumption DEF NewToken, TokenType
<1> PICK r : r = [call[c] EXCEPT !.step = "done", !.new = Issued + 1]
  OBVIOUS
<1>2. call' = [call EXCEPT ![c] = r]
  BY DEF SessionInv, CallsFit
<1>3. CallFits(call[c])
  BY DEF SessionInv, CallsFit
<1>4. /\ r \in CallType /\ r.step = "done" /\ r.new = Issued + 1
      /\ r.presented = call[c].presented /\ r.kind = call[c].kind
  BY <1>0, <1>3 DEF CallFits, CallType
<1> HIDE DEF x
<1>5. /\ token' \in Seq(TokenType) /\ Issued' = Issued + 1
      /\ \A j \in 1 .. Issued : token'[j] = old[j]
      /\ token'[Issued + 1] = x
  BY <1>0, <1>1, AppendProperties DEF Issued, x
<1>6. Grown
  BY <1>0, <1>5 DEF Grown
<1>7. CallFits(r)'
  BY <1>0, <1>3, <1>4, <1>5 DEF CallFits, Busy
<1>8. CallsFit'
  BY <1>2, <1>6, <1>7, CallMoves
<1>9. ParentsAreRevoked'
  <2> SUFFICES ASSUME NEW k \in 1 .. Issued', token'[k].parent # 0
               PROVE  /\ token'[k].parent \in 1 .. Issued'
                      /\ token'[token'[k].parent].revoked
    BY DEF ParentsAreRevoked
  <2>1. CASE k \in 1 .. Issued
    <3>1. token'[k].parent = token[k].parent
      BY <1>6, <2>1 DEF Grown
    <3>2. token[k].parent \in 1 .. Issued /\ token[token[k].parent].revoked
      BY <2>1, <3>1 DEF SessionInv, ParentsAreRevoked
    <3>3. token'[token[k].parent].revoked
      BY <1>6, <3>2 DEF Grown
    <3>4. QED
      BY <1>0, <1>5, <3>1, <3>2, <3>3
  <2>2. CASE k = Issued + 1
    <3>1. token'[k].parent = p
      BY <1>1, <1>5, <2>2
    <3>2. p \in 1 .. Issued
      BY <1>0, <3>1
    <3>3. token'[p].revoked
      BY <1>0, <1>5, <3>2
    <3>4. QED
      BY <1>0, <1>5, <3>1, <3>2, <3>3
  <2>3. QED
    BY <1>0, <1>5, <2>1, <2>2
<1>10. ReuseNeedsOverlap'
  <2> SUFFICES ASSUME NEW j \in 1 .. Issued', NEW k \in 1 .. Issued', j < k,
                      token'[j].parent # 0, token'[j].parent = token'[k].parent
               PROVE  token'[k].seen < j
    BY DEF ReuseNeedsOverlap
  <2>1. CASE k \in 1 .. Issued
    <3>1. j \in 1 .. Issued
      BY <1>0, <1>5, <2>1
    <3>2. /\ token'[j].parent = token[j].parent /\ token'[k].parent = token[k].parent
          /\ token'[k].seen = token[k].seen
      BY <1>6, <2>1, <3>1 DEF Grown
    <3>3. QED
      BY <2>1, <3>1, <3>2 DEF SessionInv, ReuseNeedsOverlap
  <2>2. CASE k = Issued + 1
    <3>1. token'[k].parent = p /\ token'[k].seen = s
      BY <1>1, <1>5, <2>2
    <3>2. j \in 1 .. Issued
      BY <1>0, <1>5, <2>2
    <3>3. token[j].parent = p /\ p # 0
      BY <1>6, <3>1, <3>2 DEF Grown
    <3>4. QED
      BY <3>1, <3>2, <3>3
  <2>3. QED
    BY <1>0, <1>5, <2>1, <2>2
<1>11. cookie' \in 0 .. Issued'
  BY <1>0, <1>5 DEF SessionInv
<1>12. QED
  BY <1>5, <1>6, <1>8, <1>9, <1>10, <1>11 DEF SessionInv, Grown

LEMMA LoginKeeps == ASSUME SessionInv, NEW c \in Calls, CommitLogin(c) PROVE SessionInv'
<1>1. /\ Busy(c) /\ Issued < MaxTokens /\ token' = Append(token, NewToken(0, Issued))
      /\ call' = [call EXCEPT ![c].step = "done", ![c].new = Issued + 1]
      /\ UNCHANGED <<cookie, page, undisturbed>>
  BY DEF CommitLogin, Busy
<1>2. token \in Seq(TokenType) /\ Len(token) = Issued /\ 0 \in 0 .. Issued /\ Issued \in 0 .. Issued
  BY IssuedType DEF SessionInv, Issued
<1>3. QED
  BY <1>1, <1>2, IssueKeeps

LEMMA RefreshKeeps == ASSUME SessionInv, NEW c \in Calls, CommitRefresh(c) PROVE SessionInv'
<1> DEFINE p == call[c].presented
           s == call[c].seen
<1>1. /\ Busy(c) /\ Issued < MaxTokens /\ token' = Append(Revoked(p), NewToken(p, s))
      /\ call' = [call EXCEPT ![c].step = "done", ![c].new = Issued + 1]
      /\ UNCHANGED <<cookie, page, undisturbed>>
  BY DEF CommitRefresh, Busy
<1>2. /\ p \in 1 .. Issued /\ s \in 0 .. Issued
      /\ \A j \in 1 .. Issued : token[j].parent = p => s < j
  BY IssuedType DEF CommitRefresh, SessionInv, CallsFit, CallFits, CallType
<1>3. p \in 0 .. Issued
  BY <1>2
<1> HIDE DEF p, s
<1>4. QED
  BY <1>1, <1>2, <1>3, Revocation, IssueKeeps

\* The answer, or its loss.
LEMMA SettleKeeps ==
  ASSUME SessionInv, NEW c \in Calls, Busy(c), NEW ok \in BOOLEAN, Settle(c, ok), UNCHANGED token
  PROVE  CallsFit' /\ page' \in [Tabs -> Pages]
<1>1. CallFits(call[c]) /\ call[c].kind \in {"login", "refresh", "logout"}
  BY DEF SessionInv, CallsFit, CallFits, CallType, Busy
<1>2. NextPage(c, ok) \in Pages
  BY <1>1 DEF NextPage, Pages
<1>3. page' \in [Tabs -> Pages]
  BY <1>2 DEF Settle, SessionInv
<1>4. CallsFit'
  <2>1. call = [d \in Calls |-> call[d]]
    BY DEF SessionInv, CallsFit
  <2>2. \/ call' = [call EXCEPT ![c] = IdleCall]
        \/ \E t : call' = [Left(t) EXCEPT ![c] = IdleCall]
    BY DEF Settle
  <2>3. call' = [d \in Calls |-> call'[d]]
    BY <2>1, <2>2 DEF Left
  <2>4. \A d \in Calls : call'[d] \in {call[d], IdleCall, [call[d] EXCEPT !.tab = NoTab]}
    BY <2>1, <2>2 DEF Left
  <2>5. QED
    BY <2>3, <2>4, CallsStay, NoneIssued
<1>5. QED
  BY <1>3, <1>4

LEMMA AnswerKeeps == ASSUME SessionInv, NEW c \in Calls, Answer(c) PROVE SessionInv'
<1>1. Busy(c) /\ (call[c].step = "done") \in BOOLEAN
  BY DEF Answer, Busy
<1>2. CallsFit' /\ page' \in [Tabs -> Pages]
  BY <1>1, SettleKeeps DEF Answer
<1>3. CallFits(call[c])
  BY DEF SessionInv, CallsFit
<1>4. cookie' \in 0 .. Issued
  BY <1>3, IssuedType DEF Answer, SessionInv, CallFits
<1>5. undisturbed' \in BOOLEAN
  BY DEF Answer, SessionInv
<1>6. QED
  BY <1>2, <1>4, <1>5, NoTokenMoves DEF Answer

LEMMA LoseKeeps == ASSUME SessionInv, NEW c \in Calls, Lose(c) PROVE SessionInv'
<1>1. CallsFit' /\ page' \in [Tabs -> Pages]
  BY SettleKeeps DEF Lose
<1>2. undisturbed' \in BOOLEAN
  BY DEF Lose, SessionInv
<1>3. QED
  BY <1>1, <1>2, NoTokenMoves DEF Lose, SessionInv

LEMMA SessionStep == SessionInv /\ [SessionNext]_sessionVars => SessionInv'
<1> SUFFICES ASSUME SessionInv, [SessionNext]_sessionVars
             PROVE  SessionInv'
  OBVIOUS
<1>1. ASSUME NEW t \in Tabs, OpenTab(t)
      PROVE  SessionInv'
  BY <1>1, OpenKeeps
<1>2. ASSUME NEW c \in Calls, NEW t \in Tabs,
             SendLogin(c, t) \/ SendRefresh(c, t) \/ SendLogout(c, t)
      PROVE  SessionInv'
  <2>1. undisturbed' \in BOOLEAN /\ UNCHANGED <<token, cookie, page>>
    BY <1>2 DEF SendLogin, SendRefresh, SendLogout, SessionInv
  <2>2. \E kind \in {"login", "refresh", "logout"} : Send(c, t, kind)
    BY <1>2 DEF SendLogin, SendRefresh, SendLogout
  <2>3. QED
    BY <2>1, <2>2, SendKeeps
<1>3. ASSUME NEW c \in Calls, Consume(c) \/ CommitRefresh(c) \/ CommitLogin(c) \/ RefuseLogin(c)
      PROVE  SessionInv'
  BY <1>3, ConsumeKeeps, RefreshKeeps, LoginKeeps, RefuseKeeps
<1>4. ASSUME NEW c \in Calls, CommitLogout(c) \/ Answer(c) \/ Lose(c)
      PROVE  SessionInv'
  BY <1>4, LogoutKeeps, AnswerKeeps, LoseKeeps
<1>5. ASSUME NEW k \in 1 .. MaxTokens, Expire(k)
      PROVE  SessionInv'
  BY <1>5, ExpireKeeps
<1>6. CASE UNCHANGED sessionVars
  <2>1. CallsFit'
    BY <1>6 DEF sessionVars, SessionInv, CallsFit, CallFits, Issued
  <2>2. QED
    BY <1>6, <2>1, NoTokenMoves DEF sessionVars, SessionInv
<1>7. QED
  BY <1>1, <1>2, <1>3, <1>4, <1>5, <1>6 DEF SessionNext

-----------------------------------------------------------------------------
(* The theorems. *)

LEMMA SessionTyped == SessionInv => SessionTypeOK
<1> SUFFICES ASSUME SessionInv
             PROVE  SessionTypeOK
  OBVIOUS
<1>1. call \in [Calls -> CallType] /\ \A c \in Calls : {call[c].presented, call[c].new} \subseteq 0 .. Issued
  BY DEF SessionInv, CallsFit, CallFits
<1>2. QED
  BY <1>1 DEF SessionInv, SessionTypeOK, Issued

\* Every call and the browser's cookie name tokens that were issued.
THEOREM SessionTypeCorrect == SessionSpec => []SessionTypeOK
<1>1. QED
  BY SessionInitial, SessionStep, SessionTyped, PTL DEF SessionSpec

\* A refresh token is exchanged again only by a request that had read it before the first
\* exchange committed: rotation is as safe as the gap between consume_refresh's SELECT and
\* the COMMIT of tokens() is short.
THEOREM TokensAreReusedInOverlapOnly == SessionSpec => []ReuseNeedsOverlap
<1>1. SessionInv => ReuseNeedsOverlap
  BY DEF SessionInv
<1>2. QED
  BY <1>1, SessionInitial, SessionStep, PTL DEF SessionSpec

-----------------------------------------------------------------------------
(* An undisturbed session. *)

\* The only calls are exchanges of the cookie's token by the open tab.
ExchangeFits(r) ==
  /\ r.kind = "refresh" /\ r.step \in {"sent", "checked", "done"}
  /\ r.tab \in Tabs /\ page[r.tab] # "closed"
  /\ r.step \in {"sent", "checked"} => r.presented = cookie
  /\ r.step = "done" => Usable(r.new)

\* One tab is open, one exchange runs, and there is a token that will be accepted.
SessionHolds ==
  /\ \A t \in Tabs : page[t] # "public"
  /\ \A t, u \in Tabs : page[t] # "closed" /\ page[u] # "closed" => t = u
  /\ \A c \in Calls : Busy(c) => ExchangeFits(call[c])
  /\ \A c, d \in Calls : Busy(c) /\ Busy(d) => c = d
  /\ (\A c \in Calls : call[c].step # "done") => Usable(cookie)

KeptInv == SessionInv /\ (undisturbed => SessionHolds)

LEMMA CallTyped ==
  ASSUME SessionInv
  PROVE  /\ call \in [Calls -> CallType] /\ IdleCall \in CallType /\ IdleCall.step = "idle"
         /\ NoTab \notin Tabs
BY NoTabAssumption, MaxTokensAssumption DEF SessionInv, CallsFit, CallFits, IdleCall, CallType

LEMMA OpenHolds ==
  ASSUME SessionInv, SessionHolds, NEW t \in Tabs, OpenTab(t), undisturbed'
  PROVE  SessionHolds'
<1>1. /\ \A c \in Calls : Busy(c) => call[c].tab \notin {t, NoTab}
      /\ \A u \in Tabs \ {t} : page[u] = "closed"
  BY DEF OpenTab, Unheard
<1>2. \A c \in Calls : ~ Busy(c)
  BY <1>1 DEF SessionHolds, ExchangeFits
<1>3. \A c \in Calls : call'[c].step = "idle"
  BY <1>2, CallTyped DEF OpenTab, Left, Busy, CallType
<1>4. Usable(cookie)'
  BY <1>2 DEF SessionHolds, Busy, OpenTab, Usable
<1>5. /\ \A u \in Tabs : page'[u] # "public"
      /\ \A u, v \in Tabs : page'[u] # "closed" /\ page'[v] # "closed" => u = v
  BY <1>1 DEF OpenTab, SessionInv
<1>6. QED
  BY <1>3, <1>4, <1>5 DEF SessionHolds, Busy

LEMMA SendHolds ==
  ASSUME SessionInv, SessionHolds, NEW c \in Calls, NEW t \in Tabs,
         SendLogin(c, t) \/ SendRefresh(c, t) \/ SendLogout(c, t), undisturbed'
  PROVE  SessionHolds'
<1>1. SendRefresh(c, t)
  <2>1. ~ SendLogin(c, t)
    BY DEF SendLogin, SessionHolds
  <2>2. ~ SendLogout(c, t)
    BY DEF SendLogout
  <2>3. QED
    BY <2>1, <2>2
<1>2. \A d \in Calls : ~ Busy(d)
  <2> SUFFICES ASSUME NEW d \in Calls, Busy(d)
               PROVE  FALSE
    OBVIOUS
  <2>1. call[d].kind = "refresh" /\ call[d].tab \in Tabs /\ page[call[d].tab] # "closed"
    BY DEF SessionHolds, ExchangeFits
  <2>2. page[t] # "closed"
    BY <1>1 DEF SendRefresh
  <2>3. call[d].tab = t
    BY <2>1, <2>2 DEF SessionHolds
  <2>4. QED
    BY <1>1, <2>1, <2>3 DEF SendRefresh, Exchanging
<1>3. UNCHANGED <<token, cookie, page>> /\ page[t] # "closed"
  BY <1>1 DEF SendRefresh
<1>4. /\ call'[c].kind = "refresh" /\ call'[c].step = "sent" /\ call'[c].tab = t
      /\ call'[c].presented = cookie
      /\ \A d \in Calls : d # c => call'[d] = call[d]
  BY <1>1, CallTyped DEF SendRefresh, Send, IdleCall
<1>5. ExchangeFits(call[c])'
  BY <1>3, <1>4 DEF ExchangeFits
<1>6. Usable(cookie)'
  BY <1>2, <1>3 DEF SessionHolds, Busy, Usable
<1>7. \A d \in Calls : d # c => ~ Busy(d)'
  BY <1>2, <1>4 DEF Busy
<1>8. QED
  BY <1>3, <1>5, <1>6, <1>7 DEF SessionHolds

LEMMA ServerHolds ==
  ASSUME SessionInv, SessionInv', SessionHolds, NEW c \in Calls,
         \/ Consume(c) \/ CommitRefresh(c) \/ CommitLogin(c) \/ RefuseLogin(c)
         \/ CommitLogout(c)
  PROVE  SessionHolds'
<1>1. /\ Busy(c) /\ ExchangeFits(call[c]) /\ call[c] \in CallType
      /\ \A d \in Calls : d # c => ~ Busy(d)
  <2>1. Busy(c)
    BY DEF Consume, CommitRefresh, CommitLogin, RefuseLogin, CommitLogout, Busy
  <2>2. QED
    BY <2>1, CallTyped DEF SessionHolds
<1>2. CASE Consume(c)
  <2>1. call[c].step = "sent" /\ Usable(cookie) /\ call[c].presented = cookie
    BY <1>1, <1>2 DEF Consume, ExchangeFits, SessionHolds, Busy
  <2>2. /\ call'[c].step = "checked" /\ call'[c].kind = call[c].kind /\ call'[c].tab = call[c].tab
        /\ call'[c].presented = cookie /\ \A d \in Calls : d # c => call'[d] = call[d]
        /\ UNCHANGED <<token, cookie, page>>
    BY <1>1, <1>2, <2>1, CallTyped DEF Consume, CallType
  <2>3. ExchangeFits(call[c])'
    BY <1>1, <2>2 DEF ExchangeFits
  <2>4. Usable(cookie)'
    BY <2>1, <2>2 DEF Usable
  <2>5. \A d \in Calls : d # c => ~ Busy(d)'
    BY <1>1, <2>2 DEF Busy
  <2>6. QED
    BY <2>2, <2>3, <2>4, <2>5 DEF SessionHolds
<1>3. CASE CommitRefresh(c)
  <2>1. PICK n \in Nat : n = Issued + 1 /\ Issued \in Nat
    BY IssuedType
  <2>2. /\ call'[c].step = "done" /\ call'[c].kind = call[c].kind /\ call'[c].tab = call[c].tab
        /\ call'[c].new = n /\ \A d \in Calls : d # c => call'[d] = call[d]
        /\ UNCHANGED <<cookie, page>>
    BY <1>1, <1>3, <2>1, CallTyped DEF CommitRefresh, CallType
  <2>3. PICK old \in Seq(TokenType) :
          /\ Len(old) = Issued
          /\ token' = Append(old, NewToken(call[c].presented, call[c].seen))
    <3>1. call[c].presented \in 1 .. Issued
      BY <1>3, IssuedType DEF CommitRefresh, SessionInv, CallsFit, CallFits
    <3>2. QED
      BY <1>3, <3>1, Revocation DEF CommitRefresh
  <2>4. token'[n] = NewToken(call[c].presented, call[c].seen)
    BY <2>1, <2>3, AppendProperties
  <2>5. Usable(n)'
    BY <2>1, <2>4 DEF Usable, NewToken
  <2>6. ExchangeFits(call[c])'
    BY <1>1, <2>2, <2>5 DEF ExchangeFits, Usable
  <2>7. \A d \in Calls : d # c => ~ Busy(d)'
    BY <1>1, <2>2 DEF Busy
  <2>8. QED
    BY <2>2, <2>6, <2>7 DEF SessionHolds
<1>4. QED
  BY <1>1, <1>2, <1>3 DEF CommitLogin, RefuseLogin, CommitLogout, ExchangeFits

\* A login that ends while nothing else happens begins such a session.
LEMMA LoginHolds ==
  ASSUME SessionInv, NEW c \in Calls, Answer(c), call[c].kind = "login", call[c].step = "done",
         undisturbed'
  PROVE  SessionHolds'
<1>1. /\ Usable(call[c].new) /\ \A d \in Calls \ {c} : ~ Busy(d)
      /\ \A u \in Tabs \ {call[c].tab} : page[u] = "closed"
      /\ cookie' = call[c].new /\ UNCHANGED token
  BY DEF Answer
<1>2. Settle(c, TRUE) /\ NextPage(c, TRUE) = "gate" /\ call[c].tab \in Tabs \cup {NoTab}
  BY CallTyped DEF Answer, NextPage, CallType
<1>3. \A d \in Calls : ~ Busy(d)'
  <2> SUFFICES ASSUME NEW d \in Calls
               PROVE  call'[d].step = "idle"
    BY DEF Busy
  <2>1. d # c => call[d] \in CallType /\ call[d].step = "idle"
    BY <1>1, CallTyped DEF Busy
  <2>2. \/ call' = [call EXCEPT ![c] = IdleCall]
        \/ \E t : call' = [Left(t) EXCEPT ![c] = IdleCall]
    BY <1>2 DEF Settle
  <2>3. call'[d] = IdleCall \/ (d # c /\ call'[d] \in {call[d], [call[d] EXCEPT !.tab = NoTab]})
    BY <2>2, CallTyped DEF Left
  <2>4. QED
    BY <2>1, <2>3, CallTyped DEF CallType
<1>4. /\ \A u \in Tabs : page'[u] # "public"
      /\ \A u, v \in Tabs : page'[u] # "closed" /\ page'[v] # "closed" => u = v
  <2>1. CASE call[c].tab = NoTab
    BY <1>1, <1>2, <2>1, CallTyped DEF Settle
  <2>2. CASE call[c].tab # NoTab
    BY <1>1, <1>2, <2>2 DEF Settle, SessionInv
  <2>3. QED
    BY <2>1, <2>2
<1>5. Usable(cookie)'
  BY <1>1 DEF Usable
<1>6. QED
  BY <1>3, <1>4, <1>5 DEF SessionHolds

LEMMA AnswerHolds ==
  ASSUME SessionInv, undisturbed => SessionHolds, NEW c \in Calls, Answer(c), undisturbed'
  PROVE  SessionHolds'
<1>1. CASE call[c].kind = "login" /\ call[c].step = "done"
  BY <1>1, LoginHolds
<1>2. CASE ~ (call[c].kind = "login" /\ call[c].step = "done")
  <2>1. undisturbed
    BY <1>2 DEF Answer
  <2>2. SessionHolds /\ Busy(c)
    BY <2>1 DEF Answer, Busy
  <2>3. ExchangeFits(call[c]) /\ \A d \in Calls : d # c => ~ Busy(d)
    BY <2>2 DEF SessionHolds
  <2>4. /\ call[c].step = "done" /\ call[c].kind = "refresh" /\ call[c].tab \in Tabs
        /\ page[call[c].tab] # "closed" /\ Usable(call[c].new)
    BY <2>3 DEF ExchangeFits, Answer
  <2>5. cookie' = call[c].new /\ UNCHANGED token /\ Settle(c, TRUE) /\ NextPage(c, TRUE) = "shell"
    BY <2>4 DEF Answer, NextPage
  <2>6. \A d \in Calls : ~ Busy(d)'
    BY <2>3, <2>4, <2>5, CallTyped DEF Settle, Busy
  <2>7. page' = [page EXCEPT ![call[c].tab] = "shell"]
    BY <2>4, <2>5, CallTyped DEF Settle
  <2>8. /\ \A u \in Tabs : page'[u] # "public"
        /\ \A u, v \in Tabs : page'[u] # "closed" /\ page'[v] # "closed" => u = v
    BY <2>2, <2>4, <2>7 DEF SessionHolds, SessionInv
  <2>9. Usable(cookie)'
    BY <2>4, <2>5 DEF Usable
  <2>10. QED
    BY <2>6, <2>8, <2>9 DEF SessionHolds
<1>3. QED
  BY <1>1, <1>2

LEMMA KeptStep ==
  ASSUME KeptInv, [SessionNext]_sessionVars
  PROVE  KeptInv'
<1>1. SessionInv /\ SessionInv'
  BY SessionStep DEF KeptInv
<1> SUFFICES ASSUME undisturbed'
             PROVE  SessionHolds'
  BY <1>1 DEF KeptInv
<1>2. undisturbed => SessionHolds
  BY DEF KeptInv
<1>3. ASSUME NEW t \in Tabs, OpenTab(t)
      PROVE  SessionHolds'
  <2>1. undisturbed
    BY <1>3 DEF OpenTab
  <2>2. QED
    BY <1>1, <1>2, <1>3, <2>1, OpenHolds
<1>4. ASSUME NEW c \in Calls, NEW t \in Tabs,
             SendLogin(c, t) \/ SendRefresh(c, t) \/ SendLogout(c, t)
      PROVE  SessionHolds'
  <2>1. undisturbed
    BY <1>4 DEF SendLogin, SendRefresh, SendLogout
  <2>2. QED
    BY <1>1, <1>2, <1>4, <2>1, SendHolds
<1>5. ASSUME NEW c \in Calls,
             \/ Consume(c) \/ CommitRefresh(c) \/ CommitLogin(c) \/ RefuseLogin(c)
             \/ CommitLogout(c)
      PROVE  SessionHolds'
  <2>1. undisturbed
    BY <1>5 DEF Consume, CommitRefresh, CommitLogin, RefuseLogin, CommitLogout
  <2>2. QED
    BY <1>1, <1>2, <1>5, <2>1, ServerHolds
<1>6. ASSUME NEW c \in Calls, Answer(c)
      PROVE  SessionHolds'
  BY <1>1, <1>2, <1>6, AnswerHolds
<1>7. ASSUME NEW c \in Calls, Lose(c)
      PROVE  SessionHolds'
  <2>1. undisturbed /\ call[c].kind = "login" /\ Busy(c)
    BY <1>7 DEF Lose
  <2>2. QED
    BY <1>2, <2>1 DEF SessionHolds, ExchangeFits
<1>8. ASSUME NEW k \in 1 .. MaxTokens, Expire(k)
      PROVE  SessionHolds'
  BY <1>8 DEF Expire
<1>9. CASE UNCHANGED sessionVars
  BY <1>2, <1>9 DEF sessionVars, SessionHolds, ExchangeFits, Busy, Usable
<1>10. QED
  BY <1>3, <1>4, <1>5, <1>6, <1>7, <1>8, <1>9 DEF SessionNext

\* Nothing but a logout, an expiry, a lost answer or a second tab takes the application
\* from the user: one shared exchange at a time, each with the token of the one before
\* (refreshPromise of client.ts, consume_refresh, tokens()).
THEOREM SessionsAreKept == SessionSpec => []SessionIsKept
<1>1. SessionInit => KeptInv
  BY SessionInitial DEF SessionInit, KeptInv
<1>2. KeptInv /\ [SessionNext]_sessionVars => KeptInv'
  BY KeptStep
<1>3. KeptInv => SessionIsKept
  BY DEF KeptInv, SessionHolds, SessionIsKept
<1>4. QED
  BY <1>1, <1>2, <1>3, PTL DEF SessionSpec

-----------------------------------------------------------------------------
(* GitHub login. *)

AccountType  == [mail : Mails \cup Identities \cup {Nobody}, github : Identities \cup {Nobody}]
CallbackType ==
  [step : {"idle", "checked", "used", "identified", "known", "searching", "linking",
           "creating"},
   state : LoginStates \cup {Nobody}, id : Identities \cup {Nobody},
   mail : Mails \cup {Nobody}, found : Accounts \cup {Nobody}]

\* What a callback knows, by its step.  The account it is about to link still has the
\* address it was found by, and no other link than the callback's own.
CallbackFits(r) ==
  /\ r \in CallbackType
  /\ r.id # Nobody => r.mail = verified[r.id]
  /\ r.step \in {"identified", "known", "searching", "linking", "creating"} => r.id # Nobody
  /\ r.step \in {"searching", "linking"} => r.mail # Nobody
  /\ r.step \in {"known", "linking"} => r.found \in Accounts
  /\ r.step = "linking" => /\ account[r.found].mail = r.mail
                           /\ account[r.found].github \in {Nobody, r.id}

CallbacksFit == /\ callback = [c \in Callbacks |-> callback[c]]
                /\ \A c \in Callbacks : CallbackFits(callback[c])

\* The addresses of the linked, and the links of those with a placeholder.
AccountFits(x) ==
  /\ x \in AccountType
  /\ x.github # Nobody => x.mail # Nobody
  /\ x.mail \in Identities => x.github = x.mail

AccountsFit == /\ account = [a \in Accounts |-> account[a]]
               /\ \A a \in Accounts : AccountFits(account[a])

\* An address is verified by one identity.
VerifiedOnce == \A g, h \in Identities : verified[g] = verified[h] /\ verified[g] # Nobody => g = h

LoginInv ==
  /\ AccountsFit
  /\ verified \in [Identities -> Mails \cup {Nobody}] /\ VerifiedOnce
  /\ state \in [LoginStates -> {"absent", "fresh", "used", "expired"}]
  /\ stateCookie \in LoginStates \cup {Nobody}
  /\ CallbacksFit

\* What a step may do to the accounts.
LinksStay == \A a \in Accounts : account[a].github # Nobody => account'[a].github = account[a].github

-----------------------------------------------------------------------------
(* Steps of callbacks that read, and steps that are not of callbacks. *)

LEMMA NobodyElse == Nobody \notin Identities /\ Nobody \notin Mails /\ Nobody \notin Accounts
                    /\ \A m \in Mails : m \notin Identities
BY NobodyAssumption, PlaceholderAssumption

LEMMA IdleCallbackFits == CallbackFits(IdleCallback)
BY DEF CallbackFits, IdleCallback, CallbackType

LEMMA Continues ==
  ASSUME LoginInv, NEW c \in Callbacks, NEW r, CallbackFits(r), Continue(c, r),
         UNCHANGED <<account, verified>>
  PROVE  CallbacksFit'
<1>1. callback' = [d \in Callbacks |-> IF d = c THEN r ELSE callback[d]]
  BY DEF Continue, LoginInv, CallbacksFit
<1>2. \A d \in Callbacks : CallbackFits(callback[d])
  BY DEF LoginInv, CallbacksFit
<1>3. QED
  BY <1>1, <1>2 DEF CallbacksFit, CallbackFits

\* A callback that only reads.
LEMMA Reads ==
  ASSUME LoginInv, NEW c \in Callbacks, NEW r, CallbackFits(r), Continue(c, r),
         UNCHANGED <<account, verified, stateCookie>>,
         state' \in [LoginStates -> {"absent", "fresh", "used", "expired"}]
  PROVE  LoginInv' /\ LinksStay
<1>1. CallbacksFit'
  BY Continues
<1>2. QED
  BY <1>1 DEF LoginInv, AccountsFit, AccountFits, VerifiedOnce, LinksStay

\* Nothing happens to accounts or callbacks.
LEMMA Elsewhere ==
  ASSUME LoginInv, UNCHANGED <<account, verified, callback>>,
         stateCookie' \in LoginStates \cup {Nobody},
         state' \in [LoginStates -> {"absent", "fresh", "used", "expired"}]
  PROVE  LoginInv' /\ LinksStay
<1>1. CallbacksFit'
  BY DEF LoginInv, CallbacksFit, CallbackFits
<1>2. QED
  BY <1>1 DEF LoginInv, AccountsFit, AccountFits, VerifiedOnce, LinksStay

LEMMA StatesKeep ==
  ASSUME LoginInv
  PROVE  /\ \A s \in LoginStates : Start(s) \/ ExpireState(s) => LoginInv' /\ LinksStay
         /\ DropCookie => LoginInv' /\ LinksStay
<1>1. ASSUME NEW s \in LoginStates, Start(s) \/ ExpireState(s)
      PROVE  LoginInv' /\ LinksStay
  <2>1. state' \in [LoginStates -> {"absent", "fresh", "used", "expired"}]
    BY <1>1 DEF Start, ExpireState, LoginInv
  <2>2. QED
    BY <1>1, <2>1, Elsewhere DEF Start, ExpireState, LoginInv
<1>2. ASSUME DropCookie
      PROVE  LoginInv' /\ LinksStay
  BY <1>2, Elsewhere DEF DropCookie, LoginInv
<1>3. QED
  BY <1>1, <1>2

LEMMA VerifyKeeps ==
  ASSUME LoginInv, NEW g \in Identities, NEW m \in Mails \cup {Nobody}, Verify(g, m)
  PROVE  LoginInv' /\ LinksStay
<1>1. CallbacksFit'
  BY DEF Verify, Identified, LoginInv, CallbacksFit, CallbackFits
<1>2. verified' \in [Identities -> Mails \cup {Nobody}] /\ VerifiedOnce'
  BY DEF Verify, LoginInv, VerifiedOnce
<1>3. QED
  BY <1>1, <1>2 DEF Verify, LoginInv, AccountsFit, AccountFits, LinksStay

LEMMA CheckKeeps ==
  ASSUME LoginInv, NEW c \in Callbacks, NEW s \in LoginStates, CheckState(c, s)
  PROVE  LoginInv' /\ LinksStay
<1> DEFINE r == [IdleCallback EXCEPT !.step = "checked", !.state = s]
<1>1. CallbackFits(r)
  BY DEF CallbackFits, IdleCallback, CallbackType
<1>2. Continue(c, r)
  BY DEF CheckState
<1> HIDE DEF r
<1>3. QED
  BY <1>1, <1>2, Reads DEF CheckState, LoginInv

LEMMA UseKeeps == ASSUME LoginInv, NEW c \in Callbacks, UseState(c) PROVE LoginInv' /\ LinksStay
<1> DEFINE r == [callback[c] EXCEPT !.step = "used"]
<1>1. CallbackFits(r)
  BY DEF LoginInv, CallbacksFit, CallbackFits, CallbackType
<1>2. Continue(c, r)
  BY DEF UseState
<1>3. state' \in [LoginStates -> {"absent", "fresh", "used", "expired"}]
  BY DEF UseState, LoginInv
<1> HIDE DEF r
<1>4. QED
  BY <1>1, <1>2, <1>3, Reads DEF UseState

LEMMA IdentifyKeeps ==
  ASSUME LoginInv, NEW c \in Callbacks, NEW g \in Identities, Identify(c, g)
  PROVE  LoginInv' /\ LinksStay
<1> DEFINE r == [callback[c] EXCEPT !.step = "identified", !.id = g, !.mail = verified[g]]
<1>1. callback[c] \in CallbackType /\ verified[g] \in Mails \cup {Nobody}
  BY DEF LoginInv, CallbacksFit, CallbackFits
<1>2. CallbackFits(r)
  BY <1>1, NobodyElse DEF CallbackFits, CallbackType
<1>3. Continue(c, r)
  BY DEF Identify
<1> HIDE DEF r
<1>4. QED
  BY <1>2, <1>3, Reads DEF Identify, LoginInv

LEMMA FailKeeps == ASSUME LoginInv, NEW c \in Callbacks, Fail(c) PROVE LoginInv' /\ LinksStay
BY IdleCallbackFits, Reads DEF Fail, End, LoginInv

LEMMA FindLinkedKeeps ==
  ASSUME LoginInv, NEW c \in Callbacks, FindLinked(c)
  PROVE  LoginInv' /\ LinksStay
<1>1. CallbackFits(callback[c]) /\ callback[c].step = "identified"
  BY DEF FindLinked, LoginInv, CallbacksFit
<1>2. ASSUME NEW a \in Accounts,
             Continue(c, [callback[c] EXCEPT !.step = "known", !.found = a])
      PROVE  LoginInv' /\ LinksStay
  <2> DEFINE r == [callback[c] EXCEPT !.step = "known", !.found = a]
  <2>1. CallbackFits(r)
    BY <1>1 DEF CallbackFits, CallbackType
  <2> HIDE DEF r
  <2>2. Continue(c, r)
    BY <1>2 DEF r
  <2>3. QED
    BY <2>1, <2>2, Reads DEF FindLinked, LoginInv
<1>3. ASSUME NEW step \in {"creating", "searching"},
             step = "searching" => callback[c].mail # Nobody,
             Continue(c, [callback[c] EXCEPT !.step = step])
      PROVE  LoginInv' /\ LinksStay
  <2> DEFINE r == [callback[c] EXCEPT !.step = step]
  <2>1. CallbackFits(r)
    BY <1>1, <1>3 DEF CallbackFits, CallbackType
  <2>2. Continue(c, r)
    BY <1>3
  <2> HIDE DEF r
  <2>3. QED
    BY <2>1, <2>2, Reads DEF FindLinked, LoginInv
<1>4. QED
  BY <1>2, <1>3 DEF FindLinked

\* Where the account to link gets its address and its link.
LEMMA FindByMailKeeps ==
  ASSUME LoginInv, NEW c \in Callbacks, FindByMail(c)
  PROVE  LoginInv' /\ LinksStay
<1>1. CallbackFits(callback[c]) /\ callback[c].step = "searching"
  BY DEF FindByMail, LoginInv, CallbacksFit
<1>2. ASSUME NEW a \in Accounts, account[a].mail = callback[c].mail, MayLink(a, callback[c].id),
             Continue(c, [callback[c] EXCEPT !.step = "linking", !.found = a])
      PROVE  LoginInv' /\ LinksStay
  <2> DEFINE r == [callback[c] EXCEPT !.step = "linking", !.found = a]
  <2>1. /\ r \in CallbackType /\ r.id = callback[c].id /\ r.mail = callback[c].mail
        /\ r.found = a /\ r.step = "linking"
    BY <1>1 DEF CallbackFits, CallbackType
  <2>2. Continue(c, r)
    BY <1>2
  <2> HIDE DEF r
  <2>3. CallbackFits(r)
    BY <1>1, <1>2, <2>1 DEF CallbackFits, MayLink
  <2>4. QED
    BY <2>2, <2>3, Reads DEF FindByMail, LoginInv
<1>3. ASSUME Continue(c, [callback[c] EXCEPT !.step = "creating"])
      PROVE  LoginInv' /\ LinksStay
  <2> DEFINE r == [callback[c] EXCEPT !.step = "creating"]
  <2>1. CallbackFits(r)
    BY <1>1 DEF CallbackFits, CallbackType
  <2>2. Continue(c, r)
    BY <1>3
  <2> HIDE DEF r
  <2>3. QED
    BY <2>1, <2>2, Reads DEF FindByMail, LoginInv
<1>4. ASSUME End(c)
      PROVE  LoginInv' /\ LinksStay
  BY <1>4, IdleCallbackFits, Reads DEF FindByMail, End, LoginInv
<1>5. QED
  BY <1>2, <1>3, <1>4 DEF FindByMail

-----------------------------------------------------------------------------
(* Steps that write an account. *)

\* A new state of one account: the callbacks that are about to link it keep its address
\* and find no other link.
LEMMA Writes ==
  ASSUME LoginInv, NEW a \in Accounts, NEW x, AccountFits(x),
         account' = [account EXCEPT ![a] = x],
         account[a].github # Nobody => x.github = account[a].github,
         \A d \in Callbacks : callback[d].step = "linking" /\ callback[d].found = a
           => x.mail = callback[d].mail /\ x.github \in {Nobody, callback[d].id},
         verified' = verified, stateCookie' \in LoginStates \cup {Nobody}, state' = state,
         \/ callback' = callback
         \/ \E c \in Callbacks : End(c)
  PROVE  LoginInv' /\ LinksStay
<1>1. account' = [b \in Accounts |-> IF b = a THEN x ELSE account[b]]
  BY DEF LoginInv, AccountsFit
<1>2. AccountsFit'
  BY <1>1 DEF LoginInv, AccountsFit, AccountFits
<1>3. LinksStay
  BY <1>1 DEF LinksStay
<1>4. \A d \in Callbacks : callback'[d] \in {callback[d], IdleCallback}
  BY DEF End, Continue, LoginInv, CallbacksFit
<1>5. callback' = [d \in Callbacks |-> callback'[d]]
  BY DEF End, Continue, LoginInv, CallbacksFit
<1>6. ASSUME NEW d \in Callbacks
      PROVE  CallbackFits(callback[d])'
  <2>1. CASE callback'[d] = IdleCallback
    BY <2>1 DEF CallbackFits, IdleCallback, CallbackType
  <2>2. CASE callback'[d] = callback[d]
    BY <1>1, <2>2 DEF LoginInv, CallbacksFit, CallbackFits
  <2>3. QED
    BY <1>4, <2>1, <2>2
<1>7. CallbacksFit'
  BY <1>5, <1>6 DEF CallbacksFit
<1>8. QED
  BY <1>2, <1>3, <1>7 DEF LoginInv, VerifiedOnce

LEMMA RegisterKeeps ==
  ASSUME LoginInv, NEW a \in Accounts, NEW m \in Mails, RegisterAccount(a, m)
  PROVE  LoginInv' /\ LinksStay
<1> DEFINE x == [mail |-> m, github |-> Nobody]
<1>1. AccountFits(x)
  BY NobodyElse DEF AccountFits, AccountType
<1>2. account[a].mail = Nobody /\ account[a].github = Nobody
  BY DEF RegisterAccount, Exists, LoginInv, AccountsFit, AccountFits
<1>3. \A d \in Callbacks : ~ (callback[d].step = "linking" /\ callback[d].found = a)
  BY <1>2 DEF LoginInv, CallbacksFit, CallbackFits
<1>4. account' = [account EXCEPT ![a] = x]
  BY DEF RegisterAccount
<1> HIDE DEF x
<1>5. QED
  BY <1>1, <1>2, <1>3, <1>4, Writes DEF RegisterAccount, LoginInv

LEMMA CommitNewKeeps ==
  ASSUME LoginInv, NEW c \in Callbacks, NEW a \in Accounts, CommitNew(c, a)
  PROVE  LoginInv' /\ LinksStay
<1> DEFINE m == IF callback[c].mail = Nobody THEN callback[c].id ELSE callback[c].mail
           x == [mail |-> m, github |-> callback[c].id]
<1>1. CallbackFits(callback[c]) /\ callback[c].step = "creating"
  BY DEF CommitNew, LoginInv, CallbacksFit
<1>2. callback[c].id \in Identities /\ callback[c].mail \in Mails \cup {Nobody}
  BY <1>1 DEF CallbackFits, CallbackType
<1>3. AccountFits(x)
  BY <1>2, NobodyElse DEF AccountFits, AccountType
<1>4. account[a].mail = Nobody /\ account[a].github = Nobody
  BY DEF CommitNew, Exists, LoginInv, AccountsFit, AccountFits
<1>5. \A d \in Callbacks : ~ (callback[d].step = "linking" /\ callback[d].found = a)
  BY <1>4 DEF LoginInv, CallbacksFit, CallbackFits
<1>6. account' = [account EXCEPT ![a] = x]
  BY DEF CommitNew
<1>7. verified' = verified /\ state' = state /\ stateCookie' = Nobody /\ End(c)
  BY DEF CommitNew
<1> HIDE DEF x
<1>8. QED
  BY <1>3, <1>4, <1>5, <1>6, <1>7, Writes

\* The placeholder that gives way is no address a callback has found an account by.
LEMMA CommitKnownKeeps ==
  ASSUME LoginInv, NEW c \in Callbacks, CommitKnown(c)
  PROVE  LoginInv' /\ LinksStay
<1>1. CallbackFits(callback[c]) /\ callback[c].step = "known"
  BY DEF CommitKnown, LoginInv, CallbacksFit
<1>2. PICK a \in Accounts : a = callback[c].found
  BY <1>1 DEF CallbackFits
<1>3. PICK m \in Mails \cup {Nobody} : m = callback[c].mail
  BY <1>1 DEF CallbackFits, CallbackType
<1>4. AccountFits(account[a])
  BY DEF LoginInv, AccountsFit
<1>5. verified' = verified /\ state' = state /\ stateCookie' = Nobody /\ End(c)
  BY DEF CommitKnown
<1>6. CASE m # Nobody /\ account[a].mail \in Identities
  <2> DEFINE x == [account[a] EXCEPT !.mail = m]
  <2>1. AccountFits(x) /\ x.github = account[a].github
    BY <1>4, <1>6, NobodyElse DEF AccountFits, AccountType
  <2>2. \A d \in Callbacks : ~ (callback[d].step = "linking" /\ callback[d].found = a)
    BY <1>6, NobodyElse DEF LoginInv, CallbacksFit, CallbackFits, CallbackType
  <2>3. account' = [account EXCEPT ![a] = x]
    BY <1>2, <1>3, <1>6 DEF CommitKnown, LoginInv, AccountsFit
  <2> HIDE DEF x
  <2>4. QED
    BY <1>5, <2>1, <2>2, <2>3, Writes
<1>7. CASE ~ (m # Nobody /\ account[a].mail \in Identities)
  <2>1. account' = account
    BY <1>2, <1>3, <1>7 DEF CommitKnown
  <2>2. CallbacksFit'
    BY <1>5, <2>1, IdleCallbackFits, Continues DEF End
  <2>3. QED
    BY <1>5, <2>1, <2>2 DEF LoginInv, AccountsFit, AccountFits, VerifiedOnce, LinksStay
<1>8. QED
  BY <1>6, <1>7

\* Two callbacks that are about to link an account know the same address, so they are of
\* the same identity.
LEMMA CommitLinkKeeps ==
  ASSUME LoginInv, NEW c \in Callbacks, CommitLink(c)
  PROVE  LoginInv' /\ LinksStay
<1>1. CallbackFits(callback[c]) /\ callback[c].step = "linking"
  BY DEF CommitLink, LoginInv, CallbacksFit
<1>2. PICK a \in Accounts : a = callback[c].found
  BY <1>1 DEF CallbackFits
<1>3. PICK g \in Identities : g = callback[c].id
  BY <1>1 DEF CallbackFits, CallbackType
<1> DEFINE x == [account[a] EXCEPT !.github = g]
<1>4. /\ account[a].mail = callback[c].mail /\ callback[c].mail = verified[g]
      /\ account[a].mail # Nobody /\ account[a].mail \in Mails
      /\ account[a].github \in {Nobody, g}
  BY <1>1, <1>2, <1>3, NobodyElse DEF CallbackFits, CallbackType
<1>5. x \in AccountType /\ x.github = g /\ x.mail = account[a].mail
  BY DEF LoginInv, AccountsFit, AccountFits, AccountType
<1>6. account' = [account EXCEPT ![a] = x]
  BY <1>2, <1>3 DEF CommitLink, LoginInv, AccountsFit
<1> HIDE DEF x
<1>7. AccountFits(x)
  BY <1>4, <1>5, NobodyElse DEF AccountFits
<1>8. ASSUME NEW d \in Callbacks, callback[d].step = "linking", callback[d].found = a
      PROVE  x.mail = callback[d].mail /\ x.github \in {Nobody, callback[d].id}
  <2>1. /\ callback[d].id \in Identities /\ callback[d].mail = verified[callback[d].id]
        /\ account[a].mail = callback[d].mail
    BY <1>8 DEF LoginInv, CallbacksFit, CallbackFits, CallbackType
  <2>2. callback[d].id = g
    BY <1>4, <2>1 DEF LoginInv, VerifiedOnce
  <2>3. QED
    BY <1>5, <2>1, <2>2
<1>9. verified' = verified /\ state' = state /\ stateCookie' = Nobody /\ End(c)
  BY DEF CommitLink
<1>10. QED
  BY <1>4, <1>5, <1>6, <1>7, <1>8, <1>9, Writes

-----------------------------------------------------------------------------
(* The theorems. *)

LEMMA LoginInitial == LoginInit => LoginInv
<1> SUFFICES ASSUME LoginInit
             PROVE  LoginInv
  OBVIOUS
<1>1. AccountsFit
  BY NobodyElse DEF LoginInit, AccountsFit, AccountFits, NoAccount, AccountType
<1>2. CallbacksFit
  BY IdleCallbackFits DEF LoginInit, CallbacksFit
<1>3. QED
  BY <1>1, <1>2 DEF LoginInit, LoginInv, VerifiedOnce

LEMMA LoginStep == LoginInv /\ [LoginNext]_loginVars => LoginInv' /\ LinksStay
<1> SUFFICES ASSUME LoginInv, [LoginNext]_loginVars
             PROVE  LoginInv' /\ LinksStay
  OBVIOUS
<1>1. ASSUME NEW a \in Accounts, NEW m \in Mails, RegisterAccount(a, m)
      PROVE  LoginInv' /\ LinksStay
  BY <1>1, RegisterKeeps
<1>2. ASSUME NEW g \in Identities, NEW m \in Mails \cup {Nobody}, Verify(g, m)
      PROVE  LoginInv' /\ LinksStay
  BY <1>2, VerifyKeeps
<1>3. ASSUME NEW c \in Callbacks, NEW s \in LoginStates, CheckState(c, s)
      PROVE  LoginInv' /\ LinksStay
  BY <1>3, CheckKeeps
<1>4. ASSUME NEW c \in Callbacks, NEW g \in Identities, Identify(c, g)
      PROVE  LoginInv' /\ LinksStay
  BY <1>4, IdentifyKeeps
<1>5. ASSUME NEW c \in Callbacks, UseState(c) \/ Fail(c) \/ FindLinked(c) \/ FindByMail(c)
      PROVE  LoginInv' /\ LinksStay
  BY <1>5, UseKeeps, FailKeeps, FindLinkedKeeps, FindByMailKeeps
<1>6. ASSUME NEW c \in Callbacks, CommitKnown(c) \/ CommitLink(c)
      PROVE  LoginInv' /\ LinksStay
  BY <1>6, CommitKnownKeeps, CommitLinkKeeps
<1>7. ASSUME NEW c \in Callbacks, NEW a \in Accounts, CommitNew(c, a)
      PROVE  LoginInv' /\ LinksStay
  BY <1>7, CommitNewKeeps
<1>8. CASE UNCHANGED loginVars
  BY <1>8, Elsewhere DEF loginVars, LoginInv
<1>9. QED
  BY <1>1, <1>2, <1>3, <1>4, <1>5, <1>6, <1>7, <1>8, StatesKeep DEF LoginNext

LEMMA LoginTyped == LoginInv => LoginTypeOK
<1> SUFFICES ASSUME LoginInv
             PROVE  LoginTypeOK
  OBVIOUS
<1>1. account \in [Accounts -> AccountType] /\ callback \in [Callbacks -> CallbackType]
  BY DEF LoginInv, AccountsFit, AccountFits, CallbacksFit, CallbackFits
<1>2. \A a \in Accounts : /\ account[a].github # Nobody => Exists(a)
                          /\ account[a].mail \in Identities => account[a].github = account[a].mail
  BY DEF LoginInv, AccountsFit, AccountFits, Exists
<1>3. QED
  BY <1>1, <1>2 DEF LoginInv, LoginTypeOK, AccountType, CallbackType

\* Who is linked has an address, and a placeholder is the address of the identity it was
\* made for only.
THEOREM LoginTypeCorrect == LoginSpec => []LoginTypeOK
<1>1. LoginInv /\ [LoginNext]_loginVars => LoginInv'
  BY LoginStep
<1>2. QED
  BY <1>1, LoginInitial, LoginTyped, PTL DEF LoginSpec

\* No callback takes a linked account over for another GitHub identity, whatever overlaps
\* between its SELECT by address and its COMMIT (_github_user).
THEOREM LinksAreKept == LoginSpec => LinkIsKept
<1>1. LoginInv /\ [LoginNext]_loginVars => LoginInv'
  BY LoginStep
<1>2. LoginInv /\ [LoginNext]_loginVars
        => [\A a \in Accounts : account[a].github # Nobody
              => account'[a].github = account[a].github]_loginVars
  BY LoginStep DEF LinksStay
<1>3. QED
  BY <1>1, <1>2, LoginInitial, PTL DEF LoginSpec, LinkIsKept

-----------------------------------------------------------------------------
(* ApiAccess: windows and numbers. *)

LEMMA ConstantTypes ==
  /\ Limit \in Nat \ {0} /\ Window \in Nat \ {0} /\ MaxTime \in Nat
  /\ Cardinality(Requests) \in Nat
BY LimitAssumption, RequestsAssumption, FS_CardinalityType

\* A moment belongs to the window that has begun and has not ended.
LEMMA WindowSpans ==
  ASSUME NEW t \in Nat, NEW w \in Nat
  PROVE  /\ WindowOf(t) \in Nat
         /\ w <= WindowOf(t) <=> w * Window <= t
<1>1. Window \in Nat \ {0}
  BY LimitAssumption
<1>2. QED
  BY <1>1 DEF WindowOf

LEMMA WindowsGrow ==
  ASSUME NEW t \in Nat
  PROVE  /\ WindowOf(t) <= WindowOf(t + 1)
         /\ WindowOf(t) \in Nat /\ WindowOf(t + 1) \in Nat
<1>1. Window \in Nat \ {0}
  BY LimitAssumption
<1>2. WindowOf(t) \in Nat /\ t + 1 \in Nat
  BY WindowSpans
<1>3. WindowOf(t) * Window <= t
  BY <1>2, WindowSpans
<1>4. WindowOf(t) * Window <= t + 1
  BY <1>1, <1>2, <1>3
<1>5. QED
  BY <1>2, <1>4, WindowSpans

LEMMA WindowIsIn == ASSUME NEW t \in Times PROVE WindowOf(t) \in Windows
<1>1. t \in Nat /\ MaxTime \in Nat /\ t <= MaxTime
  BY ConstantTypes DEF Times
<1>2. WindowOf(t) * Window <= t /\ WindowOf(t) \in Nat /\ WindowOf(MaxTime) \in Nat
  BY <1>1, WindowSpans
<1>3. WindowOf(t) * Window <= MaxTime
  BY <1>1, <1>2, ConstantTypes
<1>4. QED
  BY <1>1, <1>2, <1>3, WindowSpans DEF Windows

-----------------------------------------------------------------------------
(* The invariant. *)

RequestType == [step : {"idle", "trimming", "popping", "testing", "admitting", "choosing",
                        "counting", "expiring"},
                process : Processes \cup {NoProcess}, now : Times, window : Windows]

\* Whose time and window a request goes by, neither of them in the future.
Fits(r) == r.step # "idle" => /\ r.process \in Processes
                              /\ r.now <= clock
                              /\ r.window <= WindowOf(clock)

RequestsFit == \A r \in Requests : Fits(request[r])

\* Where nothing has overlapped there is one request in the limiter at most.
LimitersAreSerial ==
  \A p \in Processes \ overlapped : \A r, s \in InLimiter(p) : r = s

\* There a bucket is what was appended to it but for the first k appends, all of them more than
\* a window old, for a request that is in the limiter too.
Keeps(p, k) ==
  /\ Len(bucket[p]) = Len(admitted[p]) - k
  /\ \A i \in 1 .. Len(bucket[p]) : bucket[p][i] = admitted[p][k + i]
  /\ \A i \in 1 .. k : /\ admitted[p][i] + Window < clock
                       /\ \A r \in InLimiter(p) : admitted[p][i] + Window < request[r].now

BucketsKeep == \A p \in Processes \ overlapped : \E k \in 0 .. Len(admitted[p]) : Keeps(p, k)

\* And what a request has found about the bucket is still so.
TestsHold ==
  \A p \in Processes \ overlapped : \A r \in InLimiter(p) :
    /\ request[r].step = "popping" => bucket[p] # <<>> /\ Old(Head(bucket[p]), request[r].now)
    /\ request[r].step = "admitting" => Len(bucket[p]) < Limit

Within(p, t) == {i \in DOMAIN admitted[p] : admitted[p][i] \in t .. t + Window}

AdmissionsAreBounded ==
  \A p \in Processes \ overlapped, t \in Times : Cardinality(Within(p, t)) <= Limit

\* The appends that are still to come.
Admitting(p) == {r \in Requests : request[r].step = "admitting" /\ request[r].process = p}

BucketsAreBounded ==
  \A p \in Processes :
    Len(bucket[p]) + Cardinality(Admitting(p)) < Limit + Cardinality(Requests)

\* The requests that are still to count in a window.
Counting(w) == {r \in Requests : request[r].step = "counting" /\ request[r].window = w}

\* A count is not dropped before its window is over, and until then it counts whoever passed.
\* After that no request chooses the window any more.
CountsOutlastWindows ==
  /\ \A w \in Windows : expiry[w] # 0 => (w + 1) * Window <= expiry[w]
  /\ \A w \in Windows :
       /\ WindowOf(clock) <= w => passed[w] <= counter[w] /\ passed[w] <= Limit
       /\ passed[w] + Cardinality(Counting(w)) <= Limit + Cardinality(Requests)

AccessInv ==
  /\ AccessTypeOK /\ RequestsFit
  /\ LimitersAreSerial /\ BucketsKeep /\ TestsHold /\ AdmissionsAreBounded
  /\ BucketsAreBounded
  /\ CountsOutlastWindows

-----------------------------------------------------------------------------
(* Sets of requests and of appends. *)

LEMMA RequestSets ==
  ASSUME NEW S \in SUBSET Requests
  PROVE  /\ IsFiniteSet(S) /\ Cardinality(S) \in Nat /\ Cardinality(S) <= Cardinality(Requests)
         /\ \A T \in SUBSET S : Cardinality(T) \in Nat /\ Cardinality(T) <= Cardinality(S)
         /\ \A r \in S : Cardinality(S \ {r}) = Cardinality(S) - 1
<1>1. IsFiniteSet(S) /\ Cardinality(S) <= Cardinality(Requests)
  BY RequestsAssumption, FS_Subset
<1>2. QED
  BY <1>1, FS_Subset, FS_CardinalityType, FS_RemoveElement

LEMMA WithinIsFinite ==
  ASSUME AccessTypeOK, NEW p \in Processes, NEW t \in Times
  PROVE  /\ IsFiniteSet(Within(p, t)) /\ Cardinality(Within(p, t)) \in Nat
         /\ Within(p, t) = {i \in 1 .. Len(admitted[p]) : admitted[p][i] \in t .. t + Window}
<1>1. admitted[p] \in Seq(Times)
  BY DEF AccessTypeOK
<1>2. DOMAIN admitted[p] = 1 .. Len(admitted[p]) /\ Len(admitted[p]) \in Nat
  BY <1>1, LenProperties
<1>3. Within(p, t) \in SUBSET (1 .. Len(admitted[p]))
  BY <1>2 DEF Within
<1>4. IsFiniteSet(1 .. Len(admitted[p]))
  BY <1>2, FS_Interval
<1>5. IsFiniteSet(Within(p, t))
  BY <1>3, <1>4, FS_Subset
<1>6. QED
  BY <1>2, <1>5, FS_CardinalityType DEF Within

-----------------------------------------------------------------------------
(* The steps of requests. *)

RequestActs(r) ==
  \/ \E p \in Processes : ReadClock(r, p)
  \/ TestHead(r) \/ PopLeft(r) \/ TestBucket(r) \/ Admit(r)
  \/ ChooseWindow(r) \/ \E answered \in BOOLEAN : Count(r, answered)
  \/ SetExpiry(r) \/ RedisFails(r)

LimiterSteps == {"trimming", "popping", "testing", "admitting"}

\* What a request goes on to, and which of its steps lead into the limiter and out of its tests.
Moves(r, to) ==
  /\ to \in RequestType /\ Fits(to)
  /\ request' = [request EXCEPT ![r] = to] /\ clock' = clock
  /\ \A s \in Requests : request'[s] = IF s = r THEN to ELSE request[s]
  /\ to.step \in LimiterSteps =>
       \/ to.step = "trimming" /\ ReadClock(r, to.process)
       \/ /\ request[r].step \in LimiterSteps
          /\ to.process = request[r].process /\ to.now = request[r].now
  /\ to.step = "popping" =>
       TestHead(r) /\ bucket[to.process] # <<>> /\ Old(Head(bucket[to.process]), to.now)
  /\ to.step = "admitting" => TestBucket(r) /\ ~ (Len(bucket[to.process]) >= Limit)
  /\ to.step = "counting" => ChooseWindow(r) /\ to.window = WindowOf(clock)

LEMMA FreshTypes == IdleRequest \in RequestType /\ IdleRequest.step = "idle" /\ Fits(IdleRequest)
<1>1. 0 \in Times /\ 0 \in Windows
  BY ConstantTypes, WindowSpans DEF Times, Windows
<1>2. QED
  BY <1>1 DEF IdleRequest, RequestType, Fits

\* A record of a request with some of its fields changed is a record of a request.
LEMMA MovesTo ==
  ASSUME AccessTypeOK, RequestsFit, NEW r \in Requests, NEW to \in RequestType,
         Fits(to), Go(r, to), clock' = clock,
         to.step \in LimiterSteps =>
           \/ to.step = "trimming" /\ ReadClock(r, to.process)
           \/ /\ request[r].step \in LimiterSteps
              /\ to.process = request[r].process /\ to.now = request[r].now,
         to.step = "popping" =>
           TestHead(r) /\ bucket[to.process] # <<>> /\ Old(Head(bucket[to.process]), to.now),
         to.step = "admitting" => TestBucket(r) /\ ~ (Len(bucket[to.process]) >= Limit),
         to.step = "counting" => ChooseWindow(r) /\ to.window = WindowOf(clock)
  PROVE  Moves(r, to)
BY DEF Moves, Go, AccessTypeOK

LEMMA RequestMoves ==
  ASSUME AccessTypeOK, RequestsFit, NEW r \in Requests, RequestActs(r)
  PROVE  \E to \in RequestType : Moves(r, to)
<1>t. /\ request \in [Requests -> RequestType] /\ request[r] \in RequestType
      /\ clock \in Times /\ clock \in Nat /\ WindowOf(clock) \in Windows /\ 0 \in Times
      /\ WindowOf(clock) \in Nat /\ 0 \in Windows
  <2>1. request \in [Requests -> RequestType] /\ clock \in Times
    BY DEF AccessTypeOK, RequestType
  <2>2. clock \in Nat
    BY <2>1, ConstantTypes DEF Times
  <2>3. QED
    BY <2>1, <2>2, WindowIsIn, WindowSpans, ConstantTypes DEF Times, Windows
<1>f. Fits(request[r])
  BY DEF RequestsFit
<1> DEFINE at(step) == [request[r] EXCEPT !.step = step]
<1>a. \A step \in LimiterSteps \cup {"expiring"} :
        /\ at(step) \in RequestType /\ at(step).step = step
        /\ at(step).process = request[r].process
        /\ at(step).now = request[r].now /\ at(step).window = request[r].window
  BY <1>t DEF RequestType, LimiterSteps
<1> HIDE DEF at
<1>0. Finish(r) /\ clock' = clock => Moves(r, IdleRequest)
  BY FreshTypes, MovesTo DEF Finish, LimiterSteps
<1>1. ASSUME NEW p \in Processes, ReadClock(r, p)
      PROVE  \E to \in RequestType : Moves(r, to)
  <2> DEFINE to == [IdleRequest EXCEPT !.step = "trimming", !.process = p, !.now = clock]
  <2>1. to \in RequestType /\ to.step = "trimming" /\ to.process = p /\ to.now = clock /\ to.window = 0
    BY <1>t DEF RequestType, IdleRequest
  <2>2. Go(r, to) /\ clock' = clock
    BY <1>1 DEF ReadClock
  <2> HIDE DEF to
  <2>3. Fits(to)
    BY <1>t, <2>1 DEF Fits
  <2>4. QED
    BY <1>1, <2>1, <2>2, <2>3, MovesTo
<1>2. CASE TestHead(r)
  <2>1. PICK step \in {"popping", "testing"} :
          /\ Go(r, at(step)) /\ clock' = clock /\ request[r].step = "trimming"
          /\ step = "popping" => /\ bucket[request[r].process] # <<>>
                                 /\ Old(Head(bucket[request[r].process]), request[r].now)
    BY <1>2 DEF TestHead, at
  <2>2. at(step) \in RequestType /\ Fits(at(step))
    BY <1>a, <1>f, <2>1 DEF Fits, LimiterSteps
  <2>3. QED
    BY <1>2, <1>a, <2>1, <2>2, MovesTo DEF LimiterSteps
<1>3. CASE PopLeft(r)
  <2>1. CASE Finish(r)
    BY <1>0, <1>3, <2>1, FreshTypes DEF PopLeft
  <2>2. CASE Go(r, at("trimming"))
    <3>1. at("trimming") \in RequestType /\ Fits(at("trimming"))
      BY <1>a, <1>f, <1>3 DEF Fits, LimiterSteps, PopLeft
    <3>2. clock' = clock /\ request[r].step = "popping"
      BY <1>3 DEF PopLeft
    <3>3. QED
      BY <1>a, <2>2, <3>1, <3>2, MovesTo DEF LimiterSteps
  <2>3. QED
    BY <1>3, <2>1, <2>2 DEF PopLeft, at
<1>4. CASE TestBucket(r)
  <2>1. CASE Finish(r)
    BY <1>0, <1>4, <2>1, FreshTypes DEF TestBucket
  <2>2. CASE Go(r, at("admitting")) /\ ~ (Len(bucket[request[r].process]) >= Limit)
    <3>1. at("admitting") \in RequestType /\ Fits(at("admitting"))
      BY <1>a, <1>f, <1>4 DEF Fits, LimiterSteps, TestBucket
    <3>2. clock' = clock /\ request[r].step = "testing"
      BY <1>4 DEF TestBucket
    <3>3. QED
      BY <1>a, <1>4, <2>2, <3>1, <3>2, MovesTo DEF LimiterSteps
  <2>3. QED
    BY <1>4, <2>1, <2>2 DEF TestBucket, at
<1>5. CASE Admit(r)
  <2> DEFINE to == [request[r] EXCEPT !.step = "choosing", !.now = 0]
  <2>1. to \in RequestType /\ to.step = "choosing" /\ to.process = request[r].process
        /\ to.now = 0 /\ to.window = request[r].window
    BY <1>t DEF RequestType
  <2>2. Go(r, to) /\ clock' = clock /\ request[r].step = "admitting"
    BY <1>5 DEF Admit
  <2> HIDE DEF to
  <2>3. Fits(to)
    BY <1>t, <1>f, <2>1, <2>2 DEF Fits
  <2>4. QED
    BY <2>1, <2>2, <2>3, MovesTo DEF LimiterSteps
<1>6. CASE ChooseWindow(r)
  <2> DEFINE to == [request[r] EXCEPT !.step = "counting", !.window = WindowOf(clock)]
  <2>1. to \in RequestType /\ to.step = "counting" /\ to.process = request[r].process
        /\ to.now = request[r].now /\ to.window = WindowOf(clock)
    BY <1>t DEF RequestType
  <2>2. Go(r, to) /\ clock' = clock /\ request[r].step = "choosing"
    BY <1>6 DEF ChooseWindow
  <2> HIDE DEF to
  <2>3. Fits(to)
    BY <1>t, <1>f, <2>1, <2>2 DEF Fits
  <2>4. QED
    BY <1>6, <2>1, <2>2, <2>3, MovesTo DEF LimiterSteps
<1>7. ASSUME NEW answered \in BOOLEAN, Count(r, answered)
      PROVE  \E to \in RequestType : Moves(r, to)
  <2>1. CASE Finish(r)
    BY <1>0, <1>7, <2>1, FreshTypes DEF Count
  <2>2. CASE Go(r, at("expiring"))
    <3>1. at("expiring") \in RequestType /\ Fits(at("expiring"))
      BY <1>a, <1>f, <1>7 DEF Fits, Count
    <3>2. clock' = clock
      BY <1>7 DEF Count
    <3>3. QED
      BY <1>a, <2>2, <3>1, <3>2, MovesTo DEF LimiterSteps
  <2>3. QED
    BY <1>7, <2>1, <2>2 DEF Count, at
<1>8. CASE SetExpiry(r) \/ RedisFails(r)
  BY <1>0, <1>8, FreshTypes DEF SetExpiry, RedisFails
<1>9. QED
  BY <1>1, <1>2, <1>3, <1>4, <1>5, <1>6, <1>7, <1>8 DEF RequestActs

-----------------------------------------------------------------------------
(* The invariant is inductive: types and locals. *)

LEMMA AccessInitial == AccessInit => AccessInv
<1> SUFFICES ASSUME AccessInit
             PROVE  AccessInv
  OBVIOUS
<1>1. 0 \in Times /\ 0 \in Windows /\ Windows \subseteq Nat
  BY ConstantTypes, WindowSpans DEF Times, Windows
<1>2. <<>> \in Seq(Times) /\ Len(<<>>) = 0
  BY EmptySeq
<1>3. AccessTypeOK /\ RequestsFit
  BY <1>1, <1>2, ConstantTypes DEF AccessInit, AccessTypeOK, IdleRequest, RequestsFit, Fits
<1>4. \A p : InLimiter(p) = {} /\ Admitting(p) = {} /\ Counting(p) = {}
  BY DEF AccessInit, InLimiter, Admitting, Counting, IdleRequest
<1>5. LimitersAreSerial /\ TestsHold
  BY <1>4 DEF LimitersAreSerial, TestsHold
<1>6. BucketsKeep
  BY <1>2 DEF AccessInit, BucketsKeep, Keeps
<1>7. AdmissionsAreBounded
  <2>1. \A p \in Processes, t \in Times : Within(p, t) = {}
    BY <1>2, <1>3, WithinIsFinite DEF AccessInit
  <2>2. QED
    BY <2>1, FS_EmptySet, ConstantTypes DEF AdmissionsAreBounded
<1>8. BucketsAreBounded
  <2>1. \A p \in Processes : Len(bucket[p]) = 0 /\ Cardinality(Admitting(p)) = 0
    BY <1>2, <1>4, FS_EmptySet DEF AccessInit
  <2>2. QED
    BY <2>1, ConstantTypes DEF BucketsAreBounded
<1>9. CountsOutlastWindows
  BY <1>1, <1>4, FS_EmptySet, ConstantTypes DEF AccessInit, CountsOutlastWindows
<1>10. QED
  BY <1>3, <1>5, <1>6, <1>7, <1>8, <1>9 DEF AccessInv

LEMMA AccessTyped ==
  ASSUME AccessTypeOK, RequestsFit, [AccessNext]_accessVars
  PROVE  AccessTypeOK' /\ RequestsFit'
<1>r. request \in [Requests -> RequestType] /\ clock \in Nat
  BY ConstantTypes DEF AccessTypeOK, RequestType, Times
<1>1. CASE Tick
  <2>1. clock' \in Times /\ clock' = clock + 1 /\ request' = request
    BY <1>1, ConstantTypes DEF Tick, AccessTypeOK, Times
  <2>2. AccessTypeOK'
    BY <1>1, <2>1, ConstantTypes DEF Tick, AccessTypeOK
  <2>3. WindowOf(clock) <= WindowOf(clock') /\ WindowOf(clock) \in Nat /\ WindowOf(clock') \in Nat
    BY <1>r, <2>1, WindowsGrow
  <2>4. \A s \in Requests : request[s].now \in Nat /\ request[s].window \in Nat
    BY <1>r, ConstantTypes, WindowSpans DEF RequestType, Times, Windows
  <2>5. QED
    BY <1>r, <2>1, <2>2, <2>3, <2>4 DEF RequestsFit, Fits
<1>2. ASSUME NEW r \in Requests, RequestActs(r)
      PROVE  AccessTypeOK' /\ RequestsFit'
  <2>1. PICK to \in RequestType : Moves(r, to)
    BY <1>2, RequestMoves
  <2>2. request' \in [Requests -> RequestType] /\ clock' = clock
    BY <1>r, <2>1 DEF Moves
  <2>3. RequestsFit'
    BY <1>r, <2>1, <2>2 DEF Moves, RequestsFit, Fits
  <2>4. CASE UNCHANGED <<bucket, counter, expiry, admitted, overlapped, passed>>
    BY <2>2, <2>3, <2>4 DEF AccessTypeOK, RequestType
  <2>5. CASE \E p \in Processes : ReadClock(r, p)
    <3>1. PICK p \in Processes : ReadClock(r, p)
      BY <2>5
    <3>2. overlapped' \subseteq Processes
      BY <3>1 DEF ReadClock, AccessTypeOK
    <3>3. admitted' = admitted \/ admitted' = [admitted EXCEPT ![p] = <<>>]
      BY <3>1 DEF ReadClock
    <3>4. admitted' \in [Processes -> Seq(Times)]
      BY <3>3, EmptySeq DEF AccessTypeOK
    <3>5. UNCHANGED <<clock, bucket, counter, expiry, passed>>
      BY <3>1 DEF ReadClock
    <3>6. QED
      BY <2>2, <2>3, <3>2, <3>4, <3>5 DEF AccessTypeOK, RequestType
  <2>6. CASE PopLeft(r)
    <3>1. \A b \in Seq(Times) : b # <<>> => Tail(b) \in Seq(Times)
      BY HeadTailProperties
    <3>2. request[r].process \in Processes
      BY <2>6 DEF RequestsFit, Fits, PopLeft
    <3>3. bucket' \in [Processes -> Seq(Times)]
      <4>1. CASE bucket' = bucket
        BY <4>1 DEF AccessTypeOK
      <4>2. CASE /\ bucket[request[r].process] # <<>>
                 /\ bucket' = [bucket EXCEPT ![request[r].process] = Tail(bucket[request[r].process])]
        BY <3>1, <3>2, <4>2 DEF AccessTypeOK
      <4>3. QED
        BY <2>6, <4>1, <4>2 DEF PopLeft
    <3>4. QED
      BY <2>2, <2>3, <2>6, <3>3 DEF PopLeft, AccessTypeOK, RequestType
  <2>7. CASE Admit(r)
    <3>1. \A b \in Seq(Times) : Append(b, request[r].now) \in Seq(Times)
      BY <1>r, AppendProperties DEF RequestType
    <3>2. bucket' \in [Processes -> Seq(Times)] /\ admitted' \in [Processes -> Seq(Times)]
      BY <2>7, <3>1 DEF Admit, AccessTypeOK
    <3>3. QED
      BY <2>2, <2>3, <2>7, <3>2 DEF Admit, AccessTypeOK, RequestType
  <2>8. ASSUME NEW answered \in BOOLEAN, Count(r, answered)
        PROVE  AccessTypeOK'
    <3> DEFINE w == request[r].window
               n == IF counter[w] > Limit THEN counter[w] ELSE counter[w] + 1
    <3>1. w \in Windows
      BY <1>r DEF RequestType
    <3>2. n \in 0 .. Limit + 1
      BY <3>1, ConstantTypes DEF AccessTypeOK
    <3>3. counter' \in [Windows -> 0 .. Limit + 1] /\ passed' \in [Windows -> Nat]
      BY <2>8, <3>1, <3>2 DEF Count, AccessTypeOK
    <3>4. QED
      BY <2>2, <2>8, <3>3 DEF Count, AccessTypeOK, RequestType
  <2>9. CASE SetExpiry(r)
    <3>1. clock + Window \in Nat
      BY <1>r, ConstantTypes
    <3>2. expiry' \in [Windows -> Nat]
      BY <2>9, <3>1 DEF SetExpiry, AccessTypeOK
    <3>3. UNCHANGED <<bucket, counter, admitted, overlapped, passed>>
      BY <2>9 DEF SetExpiry
    <3>4. clock' \in Times
      BY <2>2 DEF AccessTypeOK
    <3>5. QED
      BY <2>2, <2>3, <3>2, <3>3, <3>4 DEF AccessTypeOK, RequestType
  <2>10. QED
    BY <1>2, <2>3, <2>4, <2>5, <2>6, <2>7, <2>8, <2>9
       DEF RequestActs, TestHead, TestBucket, ChooseWindow, RedisFails
<1>3. ASSUME NEW p \in Processes, Restart(p)
      PROVE  AccessTypeOK' /\ RequestsFit'
  <2>1. AccessTypeOK'
    BY <1>r, <1>3, FreshTypes, EmptySeq DEF Restart, AccessTypeOK, RequestType
  <2>2. RequestsFit'
    BY <1>r, <1>3, FreshTypes DEF Restart, RequestsFit, Fits
  <2>3. QED
    BY <2>1, <2>2
<1>4. CASE UNCHANGED accessVars
  BY <1>4 DEF accessVars, AccessTypeOK, RequestsFit, Fits
<1>5. QED
  BY <1>1, <1>2, <1>3, <1>4 DEF AccessNext, RequestActs

-----------------------------------------------------------------------------
(* The limiter of a process: one request at a time. *)

\* Who is in it after a request's step was in it before, or has just come.
LEMMA Insiders ==
  ASSUME NEW r \in Requests, NEW to \in RequestType, Moves(r, to), NEW p
  PROVE  /\ \A s \in Requests : s \in InLimiter(p)' <=>
              IF s = r THEN to.step \in LimiterSteps /\ to.process = p ELSE s \in InLimiter(p)
         /\ r \in InLimiter(p) <=> request[r].step \in LimiterSteps /\ request[r].process = p
BY DEF InLimiter, Moves, LimiterSteps

LEMMA SerialKept ==
  ASSUME AccessInv, [AccessNext]_accessVars
  PROVE  LimitersAreSerial'
<1> SUFFICES ASSUME NEW p \in Processes, p \notin overlapped',
                    NEW s1 \in InLimiter(p)', NEW s2 \in InLimiter(p)'
             PROVE  s1 = s2
  BY DEF LimitersAreSerial
<1>s. s1 \in Requests /\ s2 \in Requests
  BY DEF InLimiter
<1>i. p \notin overlapped => \A r, s \in InLimiter(p) : r = s
  BY DEF AccessInv, LimitersAreSerial
<1>1. CASE UNCHANGED <<request, overlapped>>
  BY <1>1, <1>i DEF InLimiter
<1>2. ASSUME NEW r \in Requests, RequestActs(r)
      PROVE  s1 = s2
  <2>1. PICK to \in RequestType : Moves(r, to)
    BY <1>2, RequestMoves DEF AccessInv
  <2>2. ASSUME NEW q \in Processes, ReadClock(r, q)
        PROVE  s1 = s2
    <3>1. p \notin overlapped /\ (p = q => InLimiter(p) = {})
      BY <2>2 DEF ReadClock
    <3>2. p # q => to.process # p
      <4>1. request'[r] = [IdleRequest EXCEPT !.step = "trimming", !.process = q, !.now = clock]
        BY <2>2 DEF ReadClock, Go, AccessInv, AccessTypeOK
      <4>2. request'[r].process = q
        BY <4>1 DEF IdleRequest
      <4>3. QED
        BY <2>1, <4>2 DEF Moves
    <3>3. QED
      BY <1>s, <1>i, <2>1, <3>1, <3>2, Insiders
  <2>3. CASE ~ \E q \in Processes : ReadClock(r, q)
    <3>1. overlapped' = overlapped
      BY <1>2, <2>3 DEF RequestActs, TestHead, PopLeft, TestBucket, Admit, ChooseWindow, Count,
                        SetExpiry, RedisFails
    <3>2. \A s \in Requests : s \in InLimiter(p)' => s \in InLimiter(p)
      <4>1. to.step \in LimiterSteps => to.process \in Processes
        BY <2>1 DEF Moves, Fits, LimiterSteps
      <4>2. QED
        BY <2>1, <2>3, <4>1, Insiders DEF Moves
    <3>3. QED
      BY <1>s, <1>i, <3>1, <3>2
  <2>4. QED
    BY <2>2, <2>3
<1>3. ASSUME NEW q \in Processes, Restart(q)
      PROVE  s1 = s2
  <2>1. request \in [Requests -> RequestType] /\ NoProcess \notin Processes
    BY NoProcessAssumption DEF AccessInv, AccessTypeOK, RequestType
  <2>2. \A s \in Requests : s \in InLimiter(p)' => s \in InLimiter(p) /\ p # q
    BY <1>3, <2>1 DEF Restart, InLimiter, IdleRequest
  <2>3. QED
    BY <1>s, <1>i, <1>3, <2>2 DEF Restart
<1>4. QED
  BY <1>1, <1>2, <1>3 DEF AccessNext, RequestActs, Tick, accessVars

\* In such a process a step of one request that touches bucket or history, or the clock, or
\* none of them, leaves what is kept as it was for those that stay in the limiter.
LEMMA KeepsStays ==
  ASSUME AccessInv, NEW p \in Processes, NEW k \in 0 .. Len(admitted[p]), Keeps(p, k),
         bucket'[p] = bucket[p], admitted'[p] = admitted[p],
         clock' \in {clock, clock + 1},
         \A r \in InLimiter(p)' : \/ r \in InLimiter(p) /\ request'[r].now = request[r].now
                                  \/ request'[r].now = clock
  PROVE  Keeps(p, k)'
<1>1. clock \in Nat /\ Window \in Nat /\ admitted[p] \in Seq(Times) /\ Times \subseteq Nat
  BY ConstantTypes DEF AccessInv, AccessTypeOK, Times
<1>2. \A i \in 1 .. k : admitted[p][i] \in Nat
  <2>1. Len(admitted[p]) \in Nat /\ \A i \in 1 .. Len(admitted[p]) : admitted[p][i] \in Times
    BY <1>1, ElementOfSeq, LenProperties
  <2>2. \A i \in 1 .. k : i \in 1 .. Len(admitted[p])
    BY <2>1
  <2>3. QED
    BY <1>1, <2>1, <2>2
<1>3. \A i \in 1 .. k : /\ admitted[p][i] + Window < clock'
                        /\ \A r \in InLimiter(p)' : admitted[p][i] + Window < request'[r].now
  BY <1>1, <1>2 DEF Keeps
<1>4. QED
  BY <1>3 DEF Keeps

\* Who stays in the limiter keeps its time.
LEMMA InsidersKeepTime ==
  ASSUME AccessInv, NEW r \in Requests, NEW to \in RequestType, Moves(r, to), NEW p \in Processes
  PROVE  \A s \in InLimiter(p)' : \/ s \in InLimiter(p) /\ request'[s].now = request[s].now
                                  \/ request'[s].now = clock
<1> SUFFICES ASSUME NEW s \in InLimiter(p)'
             PROVE  \/ s \in InLimiter(p) /\ request'[s].now = request[s].now
                    \/ request'[s].now = clock
  OBVIOUS
<1>1. s \in Requests
  BY DEF InLimiter
<1>2. CASE s # r
  BY <1>1, <1>2, Insiders DEF Moves
<1>3. CASE s = r
  <2>1. request'[r] = to /\ to.step \in LimiterSteps /\ to.process = p
    BY <1>3, Insiders DEF Moves
  <2>2. CASE ReadClock(r, p)
    <3>1. request'[r] = [IdleRequest EXCEPT !.step = "trimming", !.process = p, !.now = clock]
      BY <2>2 DEF ReadClock, Go, AccessInv, AccessTypeOK
    <3>2. request'[r].now = clock
      BY <3>1 DEF IdleRequest
    <3>3. QED
      BY <1>3, <3>2
  <2>3. CASE ~ ReadClock(r, p)
    BY <1>3, <2>1, <2>3, Insiders DEF Moves
  <2>4. QED
    BY <2>2, <2>3
<1>4. QED
  BY <1>2, <1>3

LEMMA BucketsKept ==
  ASSUME AccessInv, AccessTypeOK', [AccessNext]_accessVars
  PROVE  BucketsKeep'
<1> SUFFICES ASSUME NEW p \in Processes, p \notin overlapped'
             PROVE  (\E k \in 0 .. Len(admitted[p]) : Keeps(p, k))'
  BY DEF BucketsKeep
<1>t. /\ bucket \in [Processes -> Seq(Times)] /\ admitted \in [Processes -> Seq(Times)]
      /\ bucket[p] \in Seq(Times) /\ admitted[p] \in Seq(Times) /\ Times \subseteq Nat
      /\ clock \in Nat /\ Window \in Nat /\ request \in [Requests -> RequestType]
      /\ Len(admitted[p]) \in Nat /\ Len(bucket[p]) \in Nat
  BY ConstantTypes, LenProperties DEF AccessInv, AccessTypeOK, Times, RequestType
<1>k. p \notin overlapped => \E k \in 0 .. Len(admitted[p]) : Keeps(p, k)
  BY DEF AccessInv, BucketsKeep
<1>1. CASE UNCHANGED <<bucket, admitted, overlapped, request>> /\ clock' \in {clock, clock + 1}
  <2>1. PICK k \in 0 .. Len(admitted[p]) : Keeps(p, k)
    BY <1>1, <1>k
  <2>2. InLimiter(p)' = InLimiter(p)
    BY <1>1 DEF InLimiter
  <2>3. Keeps(p, k)'
    BY <1>1, <2>1, <2>2, KeepsStays
  <2>4. QED
    BY <1>1, <2>3
<1>2. ASSUME NEW r \in Requests, RequestActs(r)
      PROVE  (\E k \in 0 .. Len(admitted[p]) : Keeps(p, k))'
  <2>1. PICK to \in RequestType : Moves(r, to)
    BY <1>2, RequestMoves DEF AccessInv
  <2>2. p \notin overlapped
    BY <1>2 DEF RequestActs, ReadClock, TestHead, PopLeft, TestBucket, Admit, ChooseWindow, Count,
                SetExpiry, RedisFails
  <2>3. PICK k \in 0 .. Len(admitted[p]) : Keeps(p, k)
    BY <1>k, <2>2
  <2>4. clock' = clock
    BY <2>1 DEF Moves
  <2>5. CASE bucket'[p] = bucket[p] /\ admitted'[p] = admitted[p]
    <3>1. Keeps(p, k)'
      BY <2>1, <2>3, <2>4, <2>5, InsidersKeepTime, KeepsStays
    <3>2. QED
      BY <2>5, <3>1
  <2>6. CASE PopLeft(r) /\ bucket[p] # <<>> /\ request[r].process = p
                        /\ bucket' = [bucket EXCEPT ![p] = Tail(bucket[p])]
    <3>1. r \in InLimiter(p) /\ request[r].step = "popping"
      BY <2>6 DEF PopLeft, InLimiter
    <3>2. Old(Head(bucket[p]), request[r].now) /\ \A s \in InLimiter(p) : s = r
      BY <2>2, <3>1 DEF AccessInv, TestsHold, LimitersAreSerial
    <3>3. /\ bucket'[p] = Tail(bucket[p]) /\ admitted' = admitted
          /\ Len(bucket'[p]) = Len(bucket[p]) - 1
          /\ \A i \in 1 .. Len(bucket'[p]) : bucket'[p][i] = bucket[p][i + 1]
          /\ Head(bucket[p]) = bucket[p][1] /\ 1 <= Len(bucket[p])
      <4>1. bucket'[p] = Tail(bucket[p]) /\ admitted' = admitted
        BY <1>t, <2>6 DEF PopLeft
      <4>2. QED
        BY <1>t, <2>6, <4>1, HeadTailProperties, LenProperties, EmptySeq
    <3>4. k + 1 \in 0 .. Len(admitted[p]) /\ bucket[p][1] = admitted[p][k + 1]
          /\ Len(bucket'[p]) = Len(admitted[p]) - (k + 1)
      BY <1>t, <2>3, <3>3 DEF Keeps
    <3>5. \A i \in 1 .. Len(bucket'[p]) : bucket'[p][i] = admitted[p][(k + 1) + i]
      <4> SUFFICES ASSUME NEW i \in 1 .. Len(bucket'[p])
                   PROVE  bucket'[p][i] = admitted[p][(k + 1) + i]
        OBVIOUS
      <4>1. i + 1 \in 1 .. Len(bucket[p]) /\ k + (i + 1) = (k + 1) + i
        BY <1>t, <3>3
      <4>2. QED
        BY <2>3, <3>3, <4>1 DEF Keeps
    <3>6. /\ admitted[p][k + 1] \in Nat /\ request[r].now \in Nat /\ request[r].now <= clock
          /\ admitted[p][k + 1] + Window < request[r].now
      <4>1. admitted[p][k + 1] \in Nat /\ request[r].now \in Nat
        <5>1. \A i \in 1 .. Len(admitted[p]) : admitted[p][i] \in Times
          BY <1>t, ElementOfSeq
        <5>2. k + 1 \in 1 .. Len(admitted[p])
          BY <1>t, <3>4
        <5>3. QED
          BY <1>t, <5>1, <5>2 DEF RequestType
      <4>2. request[r].now <= clock
        BY <3>1 DEF AccessInv, RequestsFit, Fits
      <4>3. QED
        BY <1>t, <3>2, <3>3, <3>4, <4>1, <4>2 DEF Old
    <3>7. \A s \in InLimiter(p)' : s \in InLimiter(p) /\ request'[s].now = request[s].now
      <4>1. ~ ReadClock(r, to.process)
        BY <3>1 DEF ReadClock
      <4>2. to.step \in LimiterSteps => to.process = request[r].process /\ to.now = request[r].now
        BY <2>1, <4>1 DEF Moves
      <4>3. r \in InLimiter(p)' => to.now = request[r].now
        BY <2>1, <4>2, Insiders
      <4>4. \A s \in InLimiter(p)' : s \in Requests
        BY DEF InLimiter
      <4>5. ASSUME NEW s \in InLimiter(p)'
            PROVE  s \in InLimiter(p) /\ request'[s].now = request[s].now
        <5>1. CASE s = r
          BY <2>1, <3>1, <4>3, <5>1 DEF Moves
        <5>2. CASE s # r
          BY <2>1, <4>4, <5>2, Insiders DEF Moves
        <5>3. QED
          BY <5>1, <5>2
      <4>6. QED
        BY <4>5
    <3>8. ASSUME NEW i \in 1 .. k + 1
          PROVE  /\ admitted[p][i] + Window < clock'
                 /\ \A s \in InLimiter(p)' : admitted[p][i] + Window < request'[s].now
      <4>1. CASE i = k + 1
        BY <1>t, <2>4, <3>2, <3>6, <3>7, <4>1
      <4>2. CASE i \in 1 .. k
        BY <2>3, <2>4, <3>7, <4>2 DEF Keeps
      <4>3. QED
        BY <4>1, <4>2
    <3>9. Keeps(p, k + 1)'
      BY <3>3, <3>4, <3>5, <3>8 DEF Keeps
    <3>10. QED
      BY <3>3, <3>4, <3>9
  <2>7. CASE Admit(r) /\ request[r].process = p
    <3> DEFINE u == request[r].now
    <3>1. u \in Times
      BY <1>t DEF RequestType
    <3>2. bucket'[p] = Append(bucket[p], u) /\ admitted'[p] = Append(admitted[p], u)
      BY <1>t, <2>2, <2>7 DEF Admit
    <3> HIDE DEF u
    <3>3. /\ Len(bucket'[p]) = Len(bucket[p]) + 1 /\ Len(admitted'[p]) = Len(admitted[p]) + 1
          /\ \A i \in 1 .. Len(bucket[p]) : bucket'[p][i] = bucket[p][i]
          /\ \A i \in 1 .. Len(admitted[p]) : admitted'[p][i] = admitted[p][i]
          /\ bucket'[p][Len(bucket[p]) + 1] = u /\ admitted'[p][Len(admitted[p]) + 1] = u
      BY <1>t, <3>1, <3>2, AppendProperties
    <3>4. \A i \in 1 .. Len(bucket'[p]) : bucket'[p][i] = admitted'[p][k + i]
      <4> SUFFICES ASSUME NEW i \in 1 .. Len(bucket'[p])
                   PROVE  bucket'[p][i] = admitted'[p][k + i]
        OBVIOUS
      <4>1. CASE i = Len(bucket[p]) + 1
        BY <1>t, <2>3, <3>3, <4>1 DEF Keeps
      <4>2. CASE i \in 1 .. Len(bucket[p])
        <5>1. k + i \in 1 .. Len(admitted[p]) /\ bucket[p][i] = admitted[p][k + i]
          BY <1>t, <2>3, <4>2 DEF Keeps
        <5>2. QED
          BY <3>3, <4>2, <5>1
      <4>3. QED
        BY <1>t, <3>3, <4>1, <4>2
    <3>5. \A s \in InLimiter(p)' : s \in InLimiter(p) /\ request'[s].now = request[s].now
      <4>1. request[r].step = "admitting" /\ ~ ReadClock(r, to.process)
        BY <2>7 DEF ReadClock, Admit
      <4>2. to.step \in LimiterSteps => to.process = request[r].process /\ to.now = request[r].now
        BY <2>1, <4>1 DEF Moves
      <4>3. r \in InLimiter(p)' => to.now = request[r].now
        BY <2>1, <4>2, Insiders
      <4>4. \A s \in InLimiter(p)' : s \in Requests
        BY DEF InLimiter
      <4>5. r \in InLimiter(p)
        BY <2>7, <4>1 DEF InLimiter
      <4>6. QED
        BY <2>1, <4>3, <4>4, <4>5, Insiders DEF Moves
    <3>6. \A i \in 1 .. k : /\ admitted'[p][i] + Window < clock'
                            /\ \A s \in InLimiter(p)' : admitted'[p][i] + Window < request'[s].now
      <4>1. \A i \in 1 .. k : i \in 1 .. Len(admitted[p]) /\ admitted'[p][i] = admitted[p][i]
        BY <1>t, <2>3, <3>3
      <4>2. QED
        BY <2>3, <2>4, <3>5, <4>1 DEF Keeps
    <3>7. Len(bucket'[p]) = Len(admitted'[p]) - k /\ k \in 0 .. Len(admitted'[p])
      BY <1>t, <2>3, <3>3 DEF Keeps
    <3>8. Keeps(p, k)'
      BY <3>4, <3>6, <3>7 DEF Keeps
    <3>9. QED
      BY <3>7, <3>8
  <2>8. QED
    <3>1. ASSUME NEW q \in Processes, ReadClock(r, q)
          PROVE  bucket'[p] = bucket[p] /\ admitted'[p] = admitted[p]
      <4>1. q \in overlapped' => q # p
        OBVIOUS
      <4>2. QED
        BY <1>t, <3>1, <4>1 DEF ReadClock
    <3>2. CASE (PopLeft(r) \/ Admit(r)) /\ request[r].process # p
      BY <1>t, <2>5, <3>2 DEF PopLeft, Admit
    <3>3. CASE PopLeft(r) /\ request[r].process = p
      BY <2>5, <2>6, <3>3 DEF PopLeft
    <3>4. QED
      BY <1>2, <2>5, <2>7, <3>1, <3>2, <3>3
         DEF RequestActs, TestHead, TestBucket, ChooseWindow, Count, SetExpiry, RedisFails
<1>3. ASSUME NEW q \in Processes, Restart(q)
      PROVE  (\E k \in 0 .. Len(admitted[p]) : Keeps(p, k))'
  <2>1. CASE q = p
    <3>1. bucket'[p] = <<>> /\ admitted'[p] = <<>> /\ Len(<<>>) = 0
      BY <1>t, <1>3, <2>1, EmptySeq DEF Restart
    <3>2. Keeps(p, 0)'
      BY <3>1 DEF Keeps
    <3>3. QED
      BY <3>1, <3>2
  <2>2. CASE q # p
    <3>1. /\ bucket'[p] = bucket[p] /\ admitted'[p] = admitted[p] /\ p \notin overlapped
          /\ clock' = clock
      BY <1>t, <1>3, <2>2 DEF Restart
    <3>2. \A s \in InLimiter(p)' : s \in InLimiter(p) /\ request'[s].now = request[s].now
      BY <1>t, <1>3, NoProcessAssumption DEF Restart, InLimiter, IdleRequest
    <3>3. PICK k \in 0 .. Len(admitted[p]) : Keeps(p, k)
      BY <1>k, <3>1
    <3>4. Keeps(p, k)'
      BY <3>1, <3>2, <3>3, KeepsStays
    <3>5. QED
      BY <3>1, <3>4
  <2>3. QED
    BY <2>1, <2>2
<1>4. QED
  BY <1>1, <1>2, <1>3 DEF AccessNext, RequestActs, Tick, accessVars

LEMMA TestsKept ==
  ASSUME AccessInv, [AccessNext]_accessVars
  PROVE  TestsHold'
<1> SUFFICES ASSUME NEW p \in Processes, p \notin overlapped', NEW s \in InLimiter(p)'
             PROVE  /\ request'[s].step = "popping" =>
                         bucket'[p] # <<>> /\ Old(Head(bucket'[p]), request'[s].now)
                    /\ request'[s].step = "admitting" => Len(bucket'[p]) < Limit
  BY DEF TestsHold, Old
<1>s. s \in Requests /\ bucket \in [Processes -> Seq(Times)] /\ p \in Processes
  BY DEF InLimiter, AccessInv, AccessTypeOK
<1>i. p \notin overlapped =>
        \A r \in InLimiter(p) :
          /\ request[r].step = "popping" => bucket[p] # <<>> /\ Old(Head(bucket[p]), request[r].now)
          /\ request[r].step = "admitting" => Len(bucket[p]) < Limit
  BY DEF AccessInv, TestsHold
<1>1. CASE UNCHANGED <<bucket, overlapped, request>>
  <2>1. s \in InLimiter(p)
    BY <1>1 DEF InLimiter
  <2>2. QED
    BY <1>1, <1>i, <2>1
<1>2. ASSUME NEW r \in Requests, RequestActs(r)
      PROVE  /\ request'[s].step = "popping" =>
                  bucket'[p] # <<>> /\ Old(Head(bucket'[p]), request'[s].now)
             /\ request'[s].step = "admitting" => Len(bucket'[p]) < Limit
  <2>1. PICK to \in RequestType : Moves(r, to)
    BY <1>2, RequestMoves DEF AccessInv
  <2>2. p \notin overlapped
    BY <1>2 DEF RequestActs, ReadClock, TestHead, PopLeft, TestBucket, Admit, ChooseWindow, Count,
                SetExpiry, RedisFails
\* The request that stepped has just looked at the bucket.
  <2>3. CASE s = r
    <3>1. request'[s] = to /\ to.process = p
      BY <2>1, <2>3, Insiders DEF Moves
    <3>2. CASE TestHead(r) \/ TestBucket(r)
      <4>1. bucket' = bucket
        BY <3>2 DEF TestHead, TestBucket
      <4>2. Len(bucket[p]) \in Nat /\ Limit \in Nat
        BY <1>s, LenProperties, ConstantTypes
      <4>3. QED
        BY <2>1, <3>1, <4>1, <4>2 DEF Moves
    <3>3. CASE ~ (TestHead(r) \/ TestBucket(r))
      BY <2>1, <3>1, <3>3 DEF Moves
    <3>4. QED
      BY <3>2, <3>3
\* Another one was in the limiter all the time, alone.
  <2>4. CASE s # r
    <3>1. s \in InLimiter(p) /\ request'[s] = request[s]
      BY <1>s, <2>1, <2>4, Insiders DEF Moves
    <3>2. ~ (r \in InLimiter(p))
      BY <2>2, <2>4, <3>1 DEF AccessInv, LimitersAreSerial
    <3>3. bucket'[p] = bucket[p]
      <4>1. (PopLeft(r) \/ Admit(r)) => request[r].process # p
        BY <3>2 DEF PopLeft, Admit, InLimiter
      <4>2. QED
        BY <1>2, <1>s, <4>1 DEF RequestActs, ReadClock, TestHead, PopLeft, TestBucket, Admit,
                                ChooseWindow, Count, SetExpiry, RedisFails
    <3>4. QED
      BY <1>i, <2>2, <3>1, <3>3
  <2>5. QED
    BY <2>3, <2>4
<1>3. ASSUME NEW q \in Processes, Restart(q)
      PROVE  /\ request'[s].step = "popping" =>
                  bucket'[p] # <<>> /\ Old(Head(bucket'[p]), request'[s].now)
             /\ request'[s].step = "admitting" => Len(bucket'[p]) < Limit
  <2>1. s \in InLimiter(p) /\ request'[s] = request[s] /\ q # p
    BY <1>s, <1>3, NoProcessAssumption DEF Restart, InLimiter, IdleRequest
  <2>2. bucket'[p] = bucket[p] /\ p \notin overlapped
    BY <1>s, <1>3, <2>1 DEF Restart
  <2>3. QED
    BY <1>i, <2>1, <2>2
<1>4. QED
  BY <1>1, <1>2, <1>3 DEF AccessNext, RequestActs, Tick, accessVars

\* An append finds fewer than Limit appends in any window around its moment: the bucket still
\* has them all.
LEMMA RoomInTheWindow ==
  ASSUME AccessInv, NEW p \in Processes \ overlapped, NEW r \in InLimiter(p),
         request[r].step = "admitting", NEW t \in Times, request[r].now \in t .. t + Window
  PROVE  Cardinality(Within(p, t)) < Limit
<1> DEFINE n == Len(admitted[p])
<1>1. PICK k \in 0 .. n : Keeps(p, k)
  BY DEF AccessInv, BucketsKeep
<1>2. /\ admitted[p] \in Seq(Times) /\ bucket[p] \in Seq(Times) /\ AccessTypeOK
      /\ Times \subseteq Nat /\ Window \in Nat /\ Limit \in Nat
  BY ConstantTypes DEF AccessInv, AccessTypeOK, Times
<1>3. /\ n \in Nat /\ \A i \in 1 .. n : admitted[p][i] \in Nat
      /\ Len(bucket[p]) = n - k /\ Len(bucket[p]) < Limit
  BY <1>1, <1>2, LenProperties, ElementOfSeq DEF Keeps, AccessInv, TestsHold
<1> HIDE DEF n
<1>4. Within(p, t) \subseteq k + 1 .. n
  <2> SUFFICES ASSUME NEW i \in 1 .. n, admitted[p][i] \in t .. t + Window, i \in 1 .. k
               PROVE  FALSE
    BY <1>1, <1>2, <1>3, WithinIsFinite DEF n
  <2>1. admitted[p][i] + Window < request[r].now
    BY <1>1 DEF Keeps
  <2>2. QED
    BY <1>2, <1>3, <2>1
<1>5. /\ IsFiniteSet(k + 1 .. n)
      /\ Cardinality(k + 1 .. n) = IF k + 1 > n THEN 0 ELSE n - (k + 1) + 1
  <2>1. k + 1 \in Int /\ n \in Int
    BY <1>1, <1>3
  <2>2. QED
    BY <2>1, FS_Interval
<1>6. Cardinality(Within(p, t)) <= Cardinality(k + 1 .. n) /\ Cardinality(Within(p, t)) \in Nat
  BY <1>2, <1>4, <1>5, FS_Subset, WithinIsFinite
<1>7. QED
  BY <1>1, <1>2, <1>3, <1>5, <1>6, ConstantTypes

LEMMA AdmissionsKept ==
  ASSUME AccessInv, AccessTypeOK', [AccessNext]_accessVars
  PROVE  AdmissionsAreBounded'
<1> SUFFICES ASSUME NEW p \in Processes, p \notin overlapped', NEW t \in Times
             PROVE  Cardinality(Within(p, t)') <= Limit
  BY DEF AdmissionsAreBounded
<1>t. /\ admitted \in [Processes -> Seq(Times)] /\ bucket \in [Processes -> Seq(Times)]
      /\ request \in [Requests -> RequestType]
  BY DEF AccessInv, AccessTypeOK, RequestType
<1>1. CASE admitted'[p] = admitted[p] /\ p \notin overlapped
  <2>1. Within(p, t)' = Within(p, t)
    BY <1>1 DEF Within
  <2>2. QED
    BY <1>1, <2>1 DEF AccessInv, AdmissionsAreBounded
<1>2. CASE UNCHANGED <<admitted, overlapped>>
  BY <1>1, <1>2
<1>3. ASSUME NEW r \in Requests, NEW q \in Processes, ReadClock(r, q)
      PROVE  Cardinality(Within(p, t)') <= Limit
  <2>1. p \notin overlapped /\ admitted'[p] = admitted[p]
    BY <1>t, <1>3 DEF ReadClock
  <2>2. QED
    BY <1>1, <2>1
<1>4. ASSUME NEW r \in Requests, Admit(r)
      PROVE  Cardinality(Within(p, t)') <= Limit
  <2>0. p \notin overlapped
    BY <1>4 DEF Admit
  <2>1. CASE request[r].process # p
    BY <1>t, <1>1, <1>4, <2>0, <2>1 DEF Admit
  <2>2. CASE request[r].process = p
    <3> DEFINE n == Len(admitted[p])
               u == request[r].now
    <3>1. /\ admitted'[p] = Append(admitted[p], u) /\ u \in Times /\ admitted[p] \in Seq(Times)
          /\ admitted'[p] \in Seq(Times) /\ n \in Nat /\ AccessTypeOK
      BY <1>t, <1>4, <2>0, <2>2, LenProperties DEF Admit, RequestType, AccessInv, AccessTypeOK
    <3>2. /\ Len(admitted'[p]) = n + 1 /\ admitted'[p][n + 1] = u
          /\ \A i \in 1 .. n : admitted'[p][i] = admitted[p][i]
      BY <3>1, AppendProperties
    <3>3. /\ Within(p, t) = {i \in 1 .. n : admitted[p][i] \in t .. t + Window}
          /\ IsFiniteSet(Within(p, t)) /\ Cardinality(Within(p, t)) \in Nat
      BY <3>1, WithinIsFinite
    <3>4. Within(p, t)' = {i \in 1 .. n + 1 : admitted'[p][i] \in t .. t + Window}
      <4>1. DOMAIN admitted'[p] = 1 .. n + 1
        BY <3>1, <3>2, LenProperties
      <4>2. QED
        BY <4>1 DEF Within
    <3> HIDE DEF n, u
    <3>5. CASE u \in t .. t + Window
      <4>1. Within(p, t)' = Within(p, t) \cup {n + 1} /\ n + 1 \notin Within(p, t)
        BY <3>1, <3>2, <3>3, <3>4, <3>5
      <4>2. Cardinality(Within(p, t)') = Cardinality(Within(p, t)) + 1
        BY <3>3, <4>1, FS_AddElement
      <4>3. Cardinality(Within(p, t)) < Limit
        <5>1. r \in InLimiter(p) /\ request[r].step = "admitting"
          BY <1>4, <2>2 DEF InLimiter, Admit
        <5>2. QED
          BY <2>0, <3>5, <5>1, RoomInTheWindow DEF u
      <4>4. QED
        BY <3>3, <4>2, <4>3, ConstantTypes
    <3>6. CASE u \notin t .. t + Window
      <4>1. Within(p, t)' = Within(p, t)
        BY <3>1, <3>2, <3>3, <3>4, <3>6
      <4>2. QED
        BY <2>0, <4>1 DEF AccessInv, AdmissionsAreBounded
    <3>7. QED
      BY <3>5, <3>6
  <2>3. QED
    BY <2>1, <2>2
<1>5. ASSUME NEW q \in Processes, Restart(q)
      PROVE  Cardinality(Within(p, t)') <= Limit
  <2>1. CASE q # p
    BY <1>t, <1>1, <1>5, <2>1 DEF Restart
  <2>2. CASE q = p
    <3>1. admitted'[p] = <<>>
      BY <1>t, <1>5, <2>2 DEF Restart
    <3>2. Within(p, t)' = {}
      BY <3>1 DEF Within
    <3>3. QED
      BY <3>2, FS_EmptySet, ConstantTypes
  <2>3. QED
    BY <2>1, <2>2
<1>6. QED
  BY <1>2, <1>3, <1>4, <1>5
     DEF AccessNext, Tick, TestHead, PopLeft, TestBucket, ChooseWindow, Count, SetExpiry,
         RedisFails, accessVars

\* The room that the test of a request found is shared with the other requests at most.
LEMMA RoomKept ==
  ASSUME AccessInv, [AccessNext]_accessVars
  PROVE  BucketsAreBounded'
<1> SUFFICES ASSUME NEW p \in Processes
             PROVE  Len(bucket'[p]) + Cardinality(Admitting(p)') < Limit + Cardinality(Requests)
  BY DEF BucketsAreBounded
<1>t. /\ bucket \in [Processes -> Seq(Times)] /\ bucket[p] \in Seq(Times)
      /\ request \in [Requests -> RequestType] /\ Len(bucket[p]) \in Nat
  BY LenProperties DEF AccessInv, AccessTypeOK, RequestType
<1>b. Len(bucket[p]) + Cardinality(Admitting(p)) < Limit + Cardinality(Requests)
  BY DEF AccessInv, BucketsAreBounded
<1>a. /\ Admitting(p) \in SUBSET Requests /\ Admitting(p)' \in SUBSET Requests
      /\ Cardinality(Admitting(p)) \in Nat /\ Cardinality(Admitting(p)') \in Nat
      /\ Cardinality(Admitting(p)') <= Cardinality(Requests)
  <2>1. Admitting(p) \in SUBSET Requests /\ Admitting(p)' \in SUBSET Requests
    BY DEF Admitting
  <2>2. QED
    BY <2>1, RequestSets
\* Most steps make nobody admitting and append nothing.
<1>1. CASE /\ Len(bucket'[p]) \in Nat /\ Len(bucket'[p]) <= Len(bucket[p])
           /\ Admitting(p)' \subseteq Admitting(p)
  <2>1. Cardinality(Admitting(p)') <= Cardinality(Admitting(p))
    BY <1>a, <1>1, RequestSets
  <2>2. QED
    BY <1>t, <1>a, <1>b, <1>1, <2>1, ConstantTypes
<1>2. CASE UNCHANGED <<bucket, request>>
  BY <1>t, <1>1, <1>2 DEF Admitting
<1>3. ASSUME NEW r \in Requests, RequestActs(r)
      PROVE  Len(bucket'[p]) + Cardinality(Admitting(p)') < Limit + Cardinality(Requests)
  <2>1. PICK to \in RequestType : Moves(r, to)
    BY <1>3, RequestMoves DEF AccessInv
  <2>2. \A s \in Requests : s # r => request'[s] = request[s]
    BY <2>1 DEF Moves
  <2>3. CASE r \in Admitting(p)'
    <3>1. TestBucket(r) /\ ~ (Len(bucket[p]) >= Limit)
      BY <2>1, <2>3 DEF Moves, Admitting
    <3>2. bucket' = bucket
      BY <3>1 DEF TestBucket
    <3>3. QED
      BY <1>t, <1>a, <3>1, <3>2, ConstantTypes
  <2>4. CASE r \notin Admitting(p)'
    <3>1. Admitting(p)' \subseteq Admitting(p) \ {r}
      BY <2>2, <2>4 DEF Admitting
    <3>2. CASE Admit(r) /\ request[r].process = p
      <4>1. r \in Admitting(p)
        BY <3>2 DEF Admit, Admitting
      <4>2. /\ Cardinality(Admitting(p) \ {r}) = Cardinality(Admitting(p)) - 1
            /\ Admitting(p) \ {r} \in SUBSET Requests
        BY <1>a, <4>1, RequestSets
      <4>3. Cardinality(Admitting(p)') <= Cardinality(Admitting(p) \ {r})
        BY <3>1, <4>2, RequestSets
      <4>4. Len(bucket'[p]) = Len(bucket[p]) + 1
        <5>1. bucket'[p] = Append(bucket[p], request[r].now) /\ request[r].now \in Times
          BY <1>t, <3>2 DEF Admit, RequestType
        <5>2. QED
          BY <1>t, <5>1, AppendProperties
      <4>5. QED
        BY <1>t, <1>a, <1>b, <4>2, <4>3, <4>4, ConstantTypes
    <3>3. CASE bucket'[p] = bucket[p]
      BY <1>t, <1>1, <3>1, <3>3
    <3>4. CASE PopLeft(r) /\ bucket[p] # <<>> /\ bucket'[p] = Tail(bucket[p])
      <4>1. Len(bucket'[p]) = Len(bucket[p]) - 1 /\ Len(bucket'[p]) \in Nat
        BY <1>t, <3>4, HeadTailProperties, LenProperties
      <4>2. QED
        BY <1>t, <1>1, <3>1, <4>1
    <3>5. QED
      <4>1. Admit(r) \/ PopLeft(r) \/ bucket' = bucket
        BY <1>3 DEF RequestActs, ReadClock, TestHead, TestBucket, ChooseWindow, Count, SetExpiry,
                    RedisFails
      <4>2. Admit(r) /\ request[r].process # p => bucket'[p] = bucket[p]
        BY <1>t DEF Admit
      <4>3. PopLeft(r) => bucket'[p] = bucket[p] \/ (bucket[p] # <<>> /\ bucket'[p] = Tail(bucket[p]))
        BY <1>t DEF PopLeft
      <4>4. QED
        BY <3>2, <3>3, <3>4, <4>1, <4>2, <4>3
  <2>5. QED
    BY <2>3, <2>4
<1>4. ASSUME NEW q \in Processes, Restart(q)
      PROVE  Len(bucket'[p]) + Cardinality(Admitting(p)') < Limit + Cardinality(Requests)
  <2>1. Admitting(p)' \subseteq Admitting(p)
    BY <1>t, <1>4 DEF Restart, Admitting, IdleRequest
  <2>2. bucket'[p] = bucket[p] \/ bucket'[p] = <<>>
    BY <1>t, <1>4 DEF Restart
  <2>3. Len(bucket'[p]) \in Nat /\ Len(bucket'[p]) <= Len(bucket[p])
    BY <1>t, <2>2, EmptySeq
  <2>4. QED
    BY <1>1, <2>1, <2>3
<1>5. QED
  BY <1>2, <1>3, <1>4 DEF AccessNext, RequestActs, Tick, accessVars

-----------------------------------------------------------------------------
(* The bound on a window of Redis's. *)

LEMMA CountsKept ==
  ASSUME AccessInv, [AccessNext]_accessVars
  PROVE  CountsOutlastWindows'
<1>t. /\ clock \in Times /\ clock \in Nat /\ counter \in [Windows -> 0 .. Limit + 1]
      /\ expiry \in [Windows -> Nat] /\ passed \in [Windows -> Nat]
      /\ request \in [Requests -> RequestType] /\ Windows \subseteq Nat
      /\ WindowOf(clock) \in Windows /\ WindowOf(clock) \in Nat
  <2>1. Windows \subseteq Nat /\ Times \subseteq Nat
    BY ConstantTypes, WindowSpans DEF Windows, Times
  <2>2. QED
    BY <2>1, WindowIsIn DEF AccessInv, AccessTypeOK, RequestType
<1>i. /\ \A w \in Windows : expiry[w] # 0 => (w + 1) * Window <= expiry[w]
      /\ \A w \in Windows :
           /\ WindowOf(clock) <= w => passed[w] <= counter[w] /\ passed[w] <= Limit
           /\ passed[w] + Cardinality(Counting(w)) <= Limit + Cardinality(Requests)
  BY DEF AccessInv, CountsOutlastWindows
<1>c. \A w : /\ Counting(w) \in SUBSET Requests /\ Counting(w)' \in SUBSET Requests
             /\ Cardinality(Counting(w)) \in Nat /\ Cardinality(Counting(w)') \in Nat
             /\ Cardinality(Counting(w)') <= Cardinality(Requests)
  <2>1. \A w : Counting(w) \in SUBSET Requests /\ Counting(w)' \in SUBSET Requests
    BY DEF Counting
  <2>2. QED
    BY <2>1, RequestSets
<1>1. CASE Tick
  <2>1. /\ clock' = clock + 1 /\ UNCHANGED <<request, passed>>
        /\ counter' = [w \in Windows |-> IF expiry[w] = clock + 1 THEN 0 ELSE counter[w]]
        /\ expiry' = [w \in Windows |-> IF expiry[w] = clock + 1 THEN 0 ELSE expiry[w]]
    BY <1>1 DEF Tick
  <2>2. ASSUME NEW w \in Windows, WindowOf(clock') <= w
        PROVE  passed[w] <= counter'[w] /\ passed[w] <= Limit
    <3>1. WindowOf(clock) \in Nat /\ WindowOf(clock + 1) \in Nat /\ w \in Nat
          /\ WindowOf(clock) <= WindowOf(clock + 1)
      BY <1>t, WindowsGrow
    <3>2. passed[w] <= counter[w] /\ passed[w] <= Limit
      BY <1>i, <2>1, <2>2, <3>1
    <3>3. expiry[w] # clock + 1
      <4> SUFFICES ASSUME expiry[w] = clock + 1
                   PROVE  FALSE
        OBVIOUS
      <4>1. (w + 1) * Window <= clock + 1 /\ w + 1 \in Nat
        BY <1>t, <1>i, <3>1
      <4>2. w + 1 <= WindowOf(clock + 1)
        BY <1>t, <4>1, WindowSpans
      <4>3. QED
        BY <2>1, <2>2, <3>1, <4>2
    <3>4. QED
      BY <2>1, <3>2, <3>3
  <2>3. \A w \in Windows : expiry'[w] # 0 => expiry'[w] = expiry[w]
    BY <2>1
  <2>4. \A w : Counting(w)' = Counting(w)
    BY <2>1 DEF Counting
  <2>5. QED
    BY <1>i, <2>1, <2>2, <2>3, <2>4 DEF CountsOutlastWindows
\* Of the other steps, most change no count, and who chooses a window chooses the current one.
<1>2. CASE /\ UNCHANGED <<clock, counter, expiry, passed>>
           /\ \A w \in Windows : WindowOf(clock) # w => Counting(w)' \subseteq Counting(w)
  <2>1. ASSUME NEW w \in Windows
        PROVE  passed[w] + Cardinality(Counting(w)') <= Limit + Cardinality(Requests)
    <3>1. passed[w] \in Nat /\ w \in Nat
      BY <1>t
    <3>2. CASE WindowOf(clock) = w
      BY <1>t, <1>i, <1>c, <3>1, <3>2, ConstantTypes
    <3>3. CASE WindowOf(clock) # w
      <4>1. Cardinality(Counting(w)') <= Cardinality(Counting(w))
        BY <1>2, <1>c, <3>3, RequestSets
      <4>2. QED
        BY <1>i, <1>c, <3>1, <4>1, ConstantTypes
    <3>4. QED
      BY <3>2, <3>3
  <2>2. QED
    BY <1>i, <1>2, <2>1 DEF CountsOutlastWindows
<1>3. ASSUME NEW r \in Requests, RequestActs(r)
      PROVE  CountsOutlastWindows'
  <2>1. PICK to \in RequestType : Moves(r, to)
    BY <1>3, RequestMoves DEF AccessInv
  <2>2. /\ clock' = clock /\ request'[r] = to
        /\ \A s \in Requests : s # r => request'[s] = request[s]
        /\ to.step = "counting" => to.window = WindowOf(clock)
    BY <2>1 DEF Moves
  <2>3. \A w : WindowOf(clock) # w => Counting(w)' \subseteq Counting(w)
    BY <2>2 DEF Counting
  <2>4. ASSUME NEW answered \in BOOLEAN, Count(r, answered)
        PROVE  CountsOutlastWindows'
    <3>0. PICK w \in Windows : w = request[r].window
      BY <1>t DEF RequestType
    <3> DEFINE n == IF counter[w] > Limit THEN counter[w] ELSE counter[w] + 1
    <3>1. w \in Windows /\ w \in Nat /\ counter[w] \in Nat /\ passed[w] \in Nat
          /\ counter[w] <= Limit + 1
      <4>1. counter[w] \in 0 .. Limit + 1 /\ passed[w] \in Nat /\ w \in Nat
        BY <1>t
      <4>2. QED
        BY <4>1, ConstantTypes
    <3>2. /\ counter' = [counter EXCEPT ![w] = n] /\ expiry' = expiry
          /\ passed' = [passed EXCEPT ![w] = IF answered /\ n <= Limit THEN @ + 1 ELSE @]
          /\ request[r].step = "counting"
      BY <2>4, <3>0 DEF Count
    <3>3. /\ counter'[w] = n
          /\ passed'[w] = IF answered /\ n <= Limit THEN passed[w] + 1 ELSE passed[w]
          /\ \A v \in Windows : v # w => passed'[v] = passed[v] /\ counter'[v] = counter[v]
      BY <1>t, <3>1, <3>2
    <3>4. WindowOf(clock) <= w => passed'[w] <= n /\ passed'[w] <= Limit
      <4>1. WindowOf(clock) <= w => passed[w] <= counter[w] /\ passed[w] <= Limit
        BY <1>i, <3>1
      <4>2. QED
        BY <3>1, <3>3, <4>1, ConstantTypes
    <3>5. \A v \in Windows : Counting(v)' \subseteq Counting(v) \ {r}
      <4>1. to.step # "counting"
        BY <2>1, <3>2 DEF Moves, ChooseWindow
      <4>2. QED
        BY <2>2, <4>1 DEF Counting
    <3>6. r \in Counting(w)
      BY <3>0, <3>2 DEF Counting
    <3> HIDE DEF n
    <3>7. ASSUME NEW v \in Windows
          PROVE  passed'[v] + Cardinality(Counting(v)') <= Limit + Cardinality(Requests)
      <4>1. /\ passed[v] + Cardinality(Counting(v)) <= Limit + Cardinality(Requests)
            /\ passed[v] \in Nat
        BY <1>t, <1>i
      <4>2. CASE v = w
        <5>1. /\ Cardinality(Counting(w) \ {r}) = Cardinality(Counting(w)) - 1
              /\ Counting(w) \ {r} \in SUBSET Requests
          BY <1>c, <3>6, RequestSets
        <5>2. Cardinality(Counting(w)') <= Cardinality(Counting(w) \ {r})
          BY <3>1, <3>5, <5>1, RequestSets
        <5>3. passed'[w] <= passed[w] + 1 /\ passed'[w] \in Nat
          BY <3>1, <3>3
        <5>4. QED
          BY <1>c, <4>1, <4>2, <5>1, <5>2, <5>3, ConstantTypes
      <4>3. CASE v # w
        <5>1. Cardinality(Counting(v)') <= Cardinality(Counting(v))
          BY <1>c, <3>5, RequestSets
        <5>2. QED
          BY <1>c, <3>3, <4>1, <4>3, <5>1, ConstantTypes
      <4>4. QED
        BY <4>2, <4>3
    <3>8. QED
      BY <1>i, <2>2, <3>2, <3>3, <3>4, <3>7 DEF CountsOutlastWindows
  <2>5. CASE SetExpiry(r)
    <3> DEFINE w == request[r].window
    <3>1. /\ expiry' = [expiry EXCEPT ![w] = clock + Window] /\ UNCHANGED <<counter, passed>>
          /\ w \in Windows /\ w \in Nat /\ request[r].step = "expiring"
      BY <1>t, <2>5 DEF SetExpiry, RequestType
    <3>2. (w + 1) * Window <= clock + Window
      <4>1. w <= WindowOf(clock)
        BY <3>1 DEF AccessInv, RequestsFit, Fits
      <4>2. w * Window <= clock
        BY <1>t, <3>1, <4>1, WindowSpans
      <4>3. QED
        BY <1>t, <3>1, <4>2, ConstantTypes
    <3>3. \A v \in Windows : expiry'[v] # 0 => (v + 1) * Window <= expiry'[v]
      BY <1>t, <1>i, <3>1, <3>2
    <3>4. \A v : Counting(v)' \subseteq Counting(v)
      <4>1. to.step # "counting"
        BY <2>1, <3>1 DEF Moves, ChooseWindow
      <4>2. QED
        BY <2>2, <4>1 DEF Counting
    <3>5. ASSUME NEW v \in Windows
          PROVE  passed[v] + Cardinality(Counting(v)') <= Limit + Cardinality(Requests)
      <4>1. Cardinality(Counting(v)') <= Cardinality(Counting(v)) /\ passed[v] \in Nat
        BY <1>t, <1>c, <3>4, RequestSets
      <4>2. QED
        BY <1>i, <1>c, <4>1, ConstantTypes
    <3>6. QED
      BY <1>i, <2>2, <3>1, <3>3, <3>5 DEF CountsOutlastWindows
  <2>6. QED
    BY <1>2, <1>3, <2>2, <2>3, <2>4, <2>5
       DEF RequestActs, ReadClock, TestHead, PopLeft, TestBucket, Admit, ChooseWindow, RedisFails
<1>4. ASSUME NEW q \in Processes, Restart(q)
      PROVE  CountsOutlastWindows'
  <2>1. \A w : Counting(w)' \subseteq Counting(w)
    BY <1>t, <1>4 DEF Restart, Counting, IdleRequest
  <2>2. QED
    BY <1>2, <1>4, <2>1 DEF Restart
<1>5. CASE UNCHANGED accessVars
  BY <1>2, <1>5 DEF accessVars, Counting
<1>6. QED
  BY <1>1, <1>3, <1>4, <1>5 DEF AccessNext, RequestActs

-----------------------------------------------------------------------------
(* The theorems. *)

LEMMA AccessInductive == AccessSpec => []AccessInv
<1>1. AccessInit => AccessInv
  BY AccessInitial
<1>2. AccessInv /\ [AccessNext]_accessVars => AccessInv'
  <2> SUFFICES ASSUME AccessInv, [AccessNext]_accessVars
               PROVE  AccessInv'
    OBVIOUS
  <2>1. AccessTypeOK' /\ RequestsFit'
    BY AccessTyped DEF AccessInv
  <2>2. QED
    BY <2>1, SerialKept, BucketsKept, TestsKept, AdmissionsKept, RoomKept, CountsKept DEF AccessInv
<1>3. QED
  BY <1>1, <1>2, PTL DEF AccessSpec

\* The types of authz.py's state: the local buckets, the counts in Redis, the requests.
THEOREM AccessTypeCorrect == AccessSpec => []AccessTypeOK
<1>1. AccessInv => AccessTypeOK
  BY DEF AccessInv
<1>2. QED
  BY <1>1, AccessInductive, PTL

\* Whatever the limit, the window and the number of processes and threads: a process whose
\* threads have not met in the limiter admits no more than Limit in a window of any start, no
\* process ever remembers Limit and its threads together, and all of them pass no more than
\* both together in a window of Redis's, whose commands may fail and whose count may be gone
\* when a request that has chosen it comes to its INCR (_check_api_key_rate_limit).
THEOREM AccessRateBounded == AccessSpec => []RateIsBounded
<1>1. AccessInv => RateIsBounded
  <2> SUFFICES ASSUME AccessInv
               PROVE  RateIsBounded
    OBVIOUS
  <2>1. ASSUME NEW p \in Processes \ overlapped, NEW t \in Times
        PROVE  AdmittedFrom(p, t) <= Limit
    BY DEF AdmittedFrom, Within, AccessInv, AdmissionsAreBounded
  <2>2. ASSUME NEW p \in Processes
        PROVE  Len(bucket[p]) < Limit + Cardinality(Requests)
    <3>1. Admitting(p) \in SUBSET Requests /\ Len(bucket[p]) \in Nat
      BY LenProperties DEF Admitting, AccessInv, AccessTypeOK
    <3>2. Cardinality(Admitting(p)) \in Nat
      BY <3>1, RequestSets
    <3>3. QED
      BY <3>1, <3>2, ConstantTypes DEF AccessInv, BucketsAreBounded
  <2>3. ASSUME NEW w \in Windows
        PROVE  passed[w] <= Limit + Cardinality(Requests)
    <3>1. Counting(w) \in SUBSET Requests /\ passed[w] \in Nat
      BY DEF Counting, AccessInv, AccessTypeOK
    <3>2. Cardinality(Counting(w)) \in Nat
      BY <3>1, RequestSets
    <3>3. QED
      BY <3>1, <3>2, ConstantTypes DEF AccessInv, CountsOutlastWindows
  <2>4. QED
    BY <2>1, <2>2, <2>3 DEF RateIsBounded
<1>2. QED
  BY <1>1, AccessInductive, PTL

=============================================================================
