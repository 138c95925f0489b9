-------------------------- MODULE InstallationsProofs --------------------------
(***************************************************************************)
(* Theorems about Installations, for any number of installations,          *)
(* organizations, repositories, states and overlapping requests: a         *)
(* repository's tokens come from its own organization's installations, and *)
(* a deactivation nothing overlapped holds.  When setups do not overlap,   *)
(* installations are paid for in states.                                   *)
(***************************************************************************)
EXTENDS Installations, FiniteSetTheorems, TLAPS

PendingType == [org : Orgs \cup {Nil}, status : {"absent", "fresh", "used", "cancelled", "expired"}]
SetupType   == [step : {"idle", "asking", "committing"}, inst : Installs \cup {Nil},
                state : SetupStates \cup {Nil}, row : InstallType]
ConnectType == [step : {"idle", "listing", "saving"}, org : Orgs \cup {Nil},
                inst : Installs \cup {Nil}, repo : Repos \cup {Nil}, row : RepoType]

\* A request without a state has found the installation.
SetupsFit ==
  \A c \in Setups : setup[c].step # "idle" => /\ setup[c].inst \in Installs
                                              /\ setup[c].state = Nil => setup[c].row.org # Nil

\* A request connects to an installation of its own organization.
ConnectsFit ==
  \A c \in Connects : connect[c].step # "idle" =>
    /\ connect[c].org \in Orgs /\ connect[c].inst \in Installs /\ connect[c].repo \in Repos
    /\ inst[connect[c].inst].org = connect[c].org

\* While an installation is cut off no request connects to it, and whoever is about to
\* save one of its repositories has read that it is: the UPDATE takes it away.
CutHolds ==
  \A i \in Installs : cut[i] =>
    /\ ~ inst[i].active
    /\ \A o \in Orgs, r \in Repos : repo[o][r].inst = i => ~ repo[o][r].active
    /\ \A c \in Connects :
         /\ connect[c].step # "idle" => connect[c].inst # i
         /\ connect[c].step = "saving" /\ connect[c].row.exists
              /\ repo[connect[c].org][connect[c].repo].inst = i => connect[c].row.inst = i

InstallInv == InstallTypeOK /\ SetupsFit /\ ConnectsFit /\ TokensStayInside /\ CutHolds

\* An installation stays with its organization.
OrgsStay == \A i \in Installs : Known(i) => inst'[i].org = inst[i].org

-----------------------------------------------------------------------------
(* Types of what the requests remember. *)

LEMMA Types ==
  ASSUME InstallInv
  PROVE  /\ \A i \in Installs : inst[i] \in InstallType
         /\ \A o \in Orgs, r \in Repos : repo[o][r] \in RepoType
         /\ \A s \in SetupStates : pending[s] \in PendingType
         /\ \A c \in Setups : setup[c] \in SetupType
         /\ \A c \in Connects : connect[c] \in ConnectType
BY DEF InstallInv, InstallTypeOK, PendingType, SetupType, ConnectType

LEMMA IdleTypes == /\ IdleSetup \in SetupType /\ IdleConnect \in ConnectType
                   /\ IdleSetup.step = "idle" /\ IdleConnect.step = "idle"
                   /\ NoInstall \in InstallType /\ NoRepo \in RepoType
BY DEF IdleSetup, IdleConnect, SetupType, ConnectType, NoInstall, NoRepo, InstallType, RepoType

LEMMA SetupMoves ==
  ASSUME InstallInv, NEW c \in Setups, NEW r \in SetupType, Set(c, r),
         r.step # "idle" => r.inst \in Installs /\ (r.state = Nil => r.row.org # Nil)
  PROVE  setup' \in [Setups -> SetupType] /\ SetupsFit'
BY DEF InstallInv, InstallTypeOK, SetupType, SetupsFit, Set

LEMMA ConnectMoves ==
  ASSUME InstallInv, NEW c \in Connects, NEW r \in ConnectType, Conn(c, r), UNCHANGED inst,
         r.step # "idle" => /\ r.org \in Orgs /\ r.inst \in Installs /\ r.repo \in Repos
                            /\ inst[r.inst].org = r.org
  PROVE  connect' \in [Connects -> ConnectType] /\ ConnectsFit'
BY DEF InstallInv, InstallTypeOK, ConnectType, ConnectsFit, Conn

LEMMA InstallInitial == InstallInit => InstallInv
<1> SUFFICES ASSUME InstallInit
             PROVE  InstallInv
  OBVIOUS
<1>1. InstallTypeOK
  BY IdleTypes DEF InstallInit, InstallTypeOK, PendingType, SetupType, ConnectType, NoPending
<1>2. SetupsFit /\ ConnectsFit
  BY IdleTypes DEF InstallInit, SetupsFit, ConnectsFit
<1>3. TokensStayInside
  BY DEF InstallInit, TokensStayInside, NoRepo
<1>4. CutHolds
  BY DEF InstallInit, CutHolds
<1>5. QED
  BY <1>1, <1>2, <1>3, <1>4 DEF InstallInv

-----------------------------------------------------------------------------
(* Setups. *)

\* A step that leaves installations, repositories and their requests alone.
LEMMA SetupsOnly ==
  ASSUME InstallInv, UNCHANGED <<inst, repo, connect, cut>>,
         pending' \in [SetupStates -> PendingType],
         setup' \in [Setups -> SetupType], SetupsFit'
  PROVE  InstallInv'
<1>1. InstallTypeOK'
  BY DEF InstallInv, InstallTypeOK, PendingType, SetupType
<1>2. ConnectsFit' /\ TokensStayInside' /\ CutHolds'
  BY DEF InstallInv, ConnectsFit, TokensStayInside, CutHolds
<1>3. QED
  BY <1>1, <1>2 DEF InstallInv

LEMMA PendingKeeps ==
  ASSUME InstallInv, NEW s \in SetupStates
  PROVE  /\ \A o \in Orgs : StartInstallation(s, o) => InstallInv'
         /\ ExpirePending(s) => InstallInv'
<1>1. ASSUME NEW o \in Orgs, StartInstallation(s, o)
      PROVE  InstallInv'
  <2>1. pending' \in [SetupStates -> PendingType]
    BY <1>1 DEF StartInstallation, InstallInv, InstallTypeOK, PendingType
  <2>2. setup' \in [Setups -> SetupType] /\ SetupsFit'
    BY <1>1 DEF StartInstallation, InstallInv, InstallTypeOK, SetupType, SetupsFit
  <2>3. QED
    BY <1>1, <2>1, <2>2, SetupsOnly DEF StartInstallation
<1>2. ASSUME ExpirePending(s)
      PROVE  InstallInv'
  <2>1. pending' \in [SetupStates -> PendingType]
    BY <1>2 DEF ExpirePending, InstallInv, InstallTypeOK, PendingType
  <2>2. setup' \in [Setups -> SetupType] /\ SetupsFit'
    BY <1>2 DEF ExpirePending, InstallInv, InstallTypeOK, SetupType, SetupsFit
  <2>3. QED
    BY <1>2, <2>1, <2>2, SetupsOnly DEF ExpirePending
<1>3. QED
  BY <1>1, <1>2

LEMMA LoadSetupKeeps ==
  ASSUME InstallInv, NEW c \in Setups, NEW i \in Installs, NEW s \in SetupStates \cup {Nil},
         LoadSetup(c, i, s)
  PROVE  InstallInv'
<1> DEFINE r == [step |-> "asking", inst |-> i, state |-> s, row |-> inst[i]]
<1>1. r \in SetupType /\ r.inst \in Installs /\ (r.state = Nil => r.row.org # Nil)
  BY Types DEF SetupType, LoadSetup, Known
<1>2. Set(c, r)
  BY DEF LoadSetup
<1> HIDE DEF r
<1>3. setup' \in [Setups -> SetupType] /\ SetupsFit'
  BY <1>1, <1>2, SetupMoves
<1>4. pending' \in [SetupStates -> PendingType]
  BY DEF LoadSetup, InstallInv, InstallTypeOK, PendingType
<1>5. QED
  BY <1>3, <1>4, SetupsOnly DEF LoadSetup

LEMMA EndSetupKeeps ==
  ASSUME InstallInv, NEW c \in Setups, CancelSetup(c) \/ RollbackSetup(c)
  PROVE  InstallInv'
<1>1. setup' \in [Setups -> SetupType] /\ SetupsFit'
  BY IdleTypes, SetupMoves DEF CancelSetup, RollbackSetup
<1>2. pending' \in [SetupStates -> PendingType]
  BY DEF CancelSetup, RollbackSetup, InstallInv, InstallTypeOK, PendingType
<1>3. QED
  BY <1>1, <1>2, SetupsOnly DEF CancelSetup, RollbackSetup

LEMMA VerifySetupKeeps ==
  ASSUME InstallInv, NEW c \in Setups, VerifySetup(c)
  PROVE  InstallInv'
<1> DEFINE r == [setup[c] EXCEPT !.step = "committing"]
<1>1. /\ r \in SetupType /\ r.inst = setup[c].inst /\ r.state = setup[c].state
      /\ r.row = setup[c].row
  BY Types DEF SetupType
<1>2. Set(c, r) /\ setup[c].step # "idle"
  BY DEF VerifySetup
<1> HIDE DEF r
<1>3. setup' \in [Setups -> SetupType] /\ SetupsFit'
  BY <1>1, <1>2, SetupMoves DEF InstallInv, SetupsFit
<1>4. pending' \in [SetupStates -> PendingType]
  BY DEF VerifySetup, InstallInv, InstallTypeOK, PendingType
<1>5. QED
  BY <1>3, <1>4, SetupsOnly DEF VerifySetup

\* One installation changes and keeps its organization, if it had one; if it is active
\* afterwards it is not cut off.
LEMMA InstallWrites ==
  ASSUME InstallInv, NEW i \in Installs, NEW x \in InstallType,
         inst' = [inst EXCEPT ![i] = x], Known(i) => x.org = inst[i].org,
         UNCHANGED <<repo, connect>>, Revive(i)
  PROVE  /\ inst' \in [Installs -> InstallType] /\ cut' \in [Installs -> BOOLEAN]
         /\ ConnectsFit' /\ TokensStayInside' /\ CutHolds'
<1>1. inst' \in [Installs -> InstallType] /\ cut' \in [Installs -> BOOLEAN]
  BY DEF InstallInv, InstallTypeOK, Revive
<1>2. OrgsStay
  BY DEF InstallInv, InstallTypeOK, OrgsStay
<1>3. ConnectsFit'
  BY <1>2, NilAssumption DEF InstallInv, ConnectsFit, OrgsStay, Known
<1>4. TokensStayInside'
  <2> SUFFICES ASSUME NEW o \in Orgs, NEW r \in Repos, repo[o][r].inst # Nil
               PROVE  inst'[repo[o][r].inst].org = o
    BY DEF TokensStayInside
  <2>1. repo[o][r].inst \in Installs
    BY Types DEF RepoType
  <2>2. inst[repo[o][r].inst].org = o
    BY DEF InstallInv, TokensStayInside
  <2>3. QED
    BY <1>2, <2>1, <2>2, NilAssumption DEF OrgsStay, Known
<1>5. CutHolds'
  BY DEF InstallInv, InstallTypeOK, CutHolds, Revive
<1>6. QED
  BY <1>1, <1>3, <1>4, <1>5

LEMMA CommitSetupKeeps ==
  ASSUME InstallInv, NEW c \in Setups, CommitSetup(c)
  PROVE  InstallInv'
<1>1. PICK i \in Installs : i = setup[c].inst
  BY DEF CommitSetup, InstallInv, SetupsFit
<1>2. PICK s \in SetupStates \cup {Nil} : s = setup[c].state
  BY Types DEF SetupType
<1>3. PICK row \in InstallType : row = setup[c].row
  BY Types DEF SetupType
<1>4. s = Nil => row.org # Nil
  BY <1>2, <1>3 DEF CommitSetup, InstallInv, SetupsFit
<1> DEFINE x == IF row.org = Nil THEN [org |-> pending[s].org, active |-> TRUE]
                ELSE [inst[i] EXCEPT !.active = Write(row.active, TRUE, inst[i].active)]
<1>5. x \in InstallType /\ (Known(i) => x.org = inst[i].org)
  <2>1. CASE row.org = Nil
    <3>1. s \in SetupStates /\ ~ Known(i)
      BY <1>1, <1>3, <1>4, <2>1 DEF CommitSetup
    <3>2. QED
      BY <2>1, <3>1, Types DEF InstallType, PendingType
  <2>2. CASE row.org # Nil
    BY <2>2, Types DEF InstallType, Write
  <2>3. QED
    BY <2>1, <2>2
<1>6. inst' = [inst EXCEPT ![i] = x]
  BY <1>1, <1>2, <1>3 DEF CommitSetup
<1>7. UNCHANGED <<repo, connect>> /\ Revive(i) /\ Set(c, IdleSetup)
  BY <1>1 DEF CommitSetup
<1>8. pending' \in [SetupStates -> PendingType]
  BY DEF CommitSetup, InstallInv, InstallTypeOK, PendingType
<1> HIDE DEF x
<1>9. setup' \in [Setups -> SetupType] /\ SetupsFit'
  BY <1>7, IdleTypes, SetupMoves
<1>10. /\ inst' \in [Installs -> InstallType] /\ cut' \in [Installs -> BOOLEAN]
       /\ ConnectsFit' /\ TokensStayInside' /\ CutHolds'
  BY <1>5, <1>6, <1>7, InstallWrites
<1>11. InstallTypeOK'
  BY <1>7, <1>8, <1>9, <1>10 DEF InstallInv, InstallTypeOK, PendingType, SetupType
<1>12. QED
  BY <1>9, <1>10, <1>11 DEF InstallInv

-----------------------------------------------------------------------------
(* Webhooks and repository routes: no repository changes its installation. *)

\* What they do to the repositories, for short.
ReposKeepInstalls ==
  /\ repo' \in [Orgs -> [Repos -> RepoType]]
  /\ \A o \in Orgs, r \in Repos : repo'[o][r].inst = repo[o][r].inst

LEMMA ReposOfKeeps ==
  ASSUME InstallInv, NEW i \in Installs, NEW rs, NEW b \in BOOLEAN, repo' = ReposOf(i, rs, b)
  PROVE  /\ ReposKeepInstalls
         /\ \A o \in Orgs, r \in Repos : repo'[o][r].active =
              IF r \in rs /\ repo[o][r].inst = i THEN b ELSE repo[o][r].active
<1>1. \A o \in Orgs, r \in Repos :
        repo'[o][r] = IF r \in rs /\ repo[o][r].inst = i THEN [repo[o][r] EXCEPT !.active = b]
                                                         ELSE repo[o][r]
  BY DEF ReposOf
<1>2. ASSUME NEW o \in Orgs, NEW r \in Repos
      PROVE  /\ repo'[o][r] \in RepoType
             /\ repo'[o][r].inst = repo[o][r].inst
             /\ repo'[o][r].active =
                  IF r \in rs /\ repo[o][r].inst = i THEN b ELSE repo[o][r].active
  BY <1>1, Types DEF RepoType
<1>3. repo' = [o \in Orgs |-> [r \in Repos |-> repo'[o][r]]]
  BY DEF ReposOf
<1>4. repo' \in [Orgs -> [Repos -> RepoType]]
  BY <1>2, <1>3
<1>5. QED
  BY <1>2, <1>4 DEF ReposKeepInstalls

\* The invariant after such a step, if what is cut off then was or is made inactive.
LEMMA ReposWrite ==
  ASSUME InstallInv, ReposKeepInstalls, UNCHANGED <<pending, setup, connect>>,
         inst' \in [Installs -> InstallType], cut' \in [Installs -> BOOLEAN],
         \A i \in Installs : inst'[i].org = inst[i].org,
         \A i \in Installs : cut'[i] =>
           /\ ~ inst'[i].active
           /\ \A o \in Orgs, r \in Repos : repo[o][r].inst = i => ~ repo'[o][r].active
           /\ cut[i] \/ ~ Overlapped(i)
  PROVE  InstallInv'
<1>1. InstallTypeOK'
  BY DEF InstallInv, InstallTypeOK, ReposKeepInstalls
<1>2. SetupsFit' /\ ConnectsFit'
  BY DEF InstallInv, SetupsFit, ConnectsFit
<1>3. TokensStayInside'
  <2> SUFFICES ASSUME NEW o \in Orgs, NEW r \in Repos, repo'[o][r].inst # Nil
               PROVE  inst'[repo'[o][r].inst].org = o
    BY DEF TokensStayInside
  <2>1. repo'[o][r].inst = repo[o][r].inst
    BY DEF ReposKeepInstalls
  <2>2. repo[o][r].inst \in Installs
    BY <2>1, Types DEF RepoType
  <2>3. QED
    BY <2>1, <2>2 DEF InstallInv, TokensStayInside
<1>4. CutHolds'
  <2> SUFFICES ASSUME NEW i \in Installs, cut'[i]
               PROVE  /\ ~ inst'[i].active
                      /\ \A o \in Orgs, r \in Repos : repo'[o][r].inst = i => ~ repo'[o][r].active
                      /\ \A c \in Connects :
                           /\ connect[c].step # "idle" => connect[c].inst # i
                           /\ connect[c].step = "saving" /\ connect[c].row.exists
                                /\ repo'[connect[c].org][connect[c].repo].inst = i
                                  => connect[c].row.inst = i
    BY DEF CutHolds
  <2>1. \A o \in Orgs, r \in Repos : repo'[o][r].inst = i => ~ repo'[o][r].active
    BY DEF ReposKeepInstalls
  <2>2. ASSUME NEW c \in Connects, connect[c].step # "idle"
        PROVE  /\ connect[c].inst # i
               /\ connect[c].step = "saving" /\ connect[c].row.exists
                    /\ repo'[connect[c].org][connect[c].repo].inst = i => connect[c].row.inst = i
    <3>1. connect[c].org \in Orgs /\ connect[c].repo \in Repos
      BY <2>2 DEF InstallInv, ConnectsFit
    <3>2. repo'[connect[c].org][connect[c].repo].inst = repo[connect[c].org][connect[c].repo].inst
      BY <3>1 DEF ReposKeepInstalls
    <3>3. CASE cut[i]
      BY <2>2, <3>2, <3>3 DEF InstallInv, CutHolds
    <3>4. CASE ~ Overlapped(i)
      BY <2>2, <3>2, <3>4 DEF Overlapped
    <3>5. QED
      BY <3>3, <3>4
  <2>3. QED
    BY <2>1, <2>2
<1>5. QED
  BY <1>1, <1>2, <1>3, <1>4 DEF InstallInv

LEMMA DeactivateKeeps == ASSUME InstallInv, NEW i \in Installs, Deactivate(i) PROVE InstallInv'
<1> DEFINE x == [inst[i] EXCEPT !.active = FALSE]
<1>1. PICK b \in BOOLEAN : ~ b /\ repo' = ReposOf(i, Repos, b)
  BY Zenon DEF Deactivate
<1>2. /\ ReposKeepInstalls
      /\ \A o \in Orgs, r \in Repos : repo'[o][r].active =
           IF r \in Repos /\ repo[o][r].inst = i THEN b ELSE repo[o][r].active
  BY <1>1, ReposOfKeeps
<1>3. x \in InstallType /\ x.org = inst[i].org /\ ~ x.active
  BY Types DEF InstallType
<1>4. inst' = [inst EXCEPT ![i] = x]
  BY DEF Deactivate, InstallInv, InstallTypeOK
<1> HIDE DEF x
<1>5. /\ inst' \in [Installs -> InstallType]
      /\ \A j \in Installs : inst'[j] = IF j = i THEN x ELSE inst[j]
  BY <1>3, <1>4 DEF InstallInv, InstallTypeOK
<1>6. /\ cut' \in [Installs -> BOOLEAN]
      /\ \A j \in Installs : cut'[j] = IF j = i THEN ~ Overlapped(i) ELSE cut[j]
  BY DEF Deactivate, InstallInv, InstallTypeOK, Overlapped
<1>7. ASSUME NEW j \in Installs, cut'[j]
      PROVE  /\ ~ inst'[j].active
             /\ \A o \in Orgs, r \in Repos : repo[o][r].inst = j => ~ repo'[o][r].active
             /\ cut[j] \/ ~ Overlapped(j)
  <2>1. CASE j = i
    BY <1>1, <1>2, <1>3, <1>5, <1>6, <1>7, <2>1
  <2>2. CASE j # i
    <3>1. cut[j] /\ inst'[j] = inst[j]
      BY <1>5, <1>6, <1>7, <2>2
    <3>2. \A o \in Orgs, r \in Repos : repo[o][r].inst = j => repo'[o][r].active = repo[o][r].active
      BY <1>2, <2>2
    <3>3. QED
      BY <3>1, <3>2 DEF InstallInv, CutHolds
  <2>3. QED
    BY <2>1, <2>2
<1>8. \A j \in Installs : inst'[j].org = inst[j].org
  BY <1>3, <1>5
<1>9. QED
  BY <1>2, <1>5, <1>6, <1>7, <1>8, ReposWrite DEF Deactivate

LEMMA UnsuspendKeeps == ASSUME InstallInv, NEW i \in Installs, Unsuspend(i) PROVE InstallInv'
<1> DEFINE x == [inst[i] EXCEPT !.active = TRUE]
<1>1. x \in InstallType /\ x.org = inst[i].org
  BY Types DEF InstallType
<1>2. inst' = [inst EXCEPT ![i] = x]
  BY DEF Unsuspend, InstallInv, InstallTypeOK
<1> HIDE DEF x
<1>3. /\ inst' \in [Installs -> InstallType] /\ cut' \in [Installs -> BOOLEAN]
      /\ ConnectsFit' /\ TokensStayInside' /\ CutHolds'
  BY <1>1, <1>2, InstallWrites DEF Unsuspend
<1>4. InstallTypeOK' /\ SetupsFit'
  BY <1>3 DEF Unsuspend, InstallInv, InstallTypeOK, SetupsFit
<1>5. QED
  BY <1>3, <1>4 DEF InstallInv

LEMMA ChangeRepositoriesKeeps ==
  ASSUME InstallInv, NEW i \in Installs, NEW r \in Repos, NEW b \in BOOLEAN,
         ChangeRepositories(i, r, b)
  PROVE  InstallInv'
<1>1. /\ ReposKeepInstalls
      /\ \A o \in Orgs, q \in Repos : repo'[o][q].active =
           IF q \in {r} /\ repo[o][q].inst = i THEN b ELSE repo[o][q].active
  BY ReposOfKeeps DEF ChangeRepositories
<1>2. /\ cut' \in [Installs -> BOOLEAN]
      /\ \A j \in Installs : cut'[j] => cut[j] /\ (j = i => ~ b)
  BY DEF ChangeRepositories, InstallInv, InstallTypeOK
<1>3. inst' = inst /\ inst' \in [Installs -> InstallType]
  BY DEF ChangeRepositories, InstallInv, InstallTypeOK
<1>4. ASSUME NEW j \in Installs, cut'[j]
      PROVE  /\ ~ inst'[j].active
             /\ \A o \in Orgs, q \in Repos : repo[o][q].inst = j => ~ repo'[o][q].active
             /\ cut[j] \/ ~ Overlapped(j)
  BY <1>1, <1>2, <1>3, <1>4 DEF InstallInv, CutHolds
<1>5. QED
  BY <1>1, <1>2, <1>3, <1>4, ReposWrite DEF ChangeRepositories

\* One repository changes, and not its installation.
LEMMA OneRepo ==
  ASSUME InstallInv, NEW o \in Orgs, NEW r \in Repos, NEW x \in RepoType,
         repo' = [repo EXCEPT ![o][r] = x]
  PROVE  /\ repo' \in [Orgs -> [Repos -> RepoType]]
         /\ \A p \in Orgs, q \in Repos :
              repo'[p][q] = IF p = o /\ q = r THEN x ELSE repo[p][q]
BY DEF InstallInv, InstallTypeOK

LEMMA ActivateKeeps ==
  ASSUME InstallInv, NEW o \in Orgs, NEW r \in Repos, NEW b \in BOOLEAN,
         ActivateRepository(o, r, b)
  PROVE  InstallInv'
<1> DEFINE x == [repo[o][r] EXCEPT !.active = b]
<1>1. x \in RepoType /\ x.inst = repo[o][r].inst /\ x.active = b
  BY Types DEF RepoType
<1>2. repo' = [repo EXCEPT ![o][r] = x]
  BY DEF ActivateRepository, InstallInv, InstallTypeOK
<1> HIDE DEF x
<1>3. /\ repo' \in [Orgs -> [Repos -> RepoType]]
      /\ \A p \in Orgs, q \in Repos : repo'[p][q] = IF p = o /\ q = r THEN x ELSE repo[p][q]
  BY <1>1, <1>2, OneRepo
<1>4. ReposKeepInstalls
  BY <1>1, <1>3 DEF ReposKeepInstalls
<1>5. /\ cut' \in [Installs -> BOOLEAN]
      /\ \A j \in Installs : cut'[j] => cut[j] /\ (repo[o][r].inst = j => ~ b)
  BY DEF ActivateRepository, InstallInv, InstallTypeOK
<1>6. inst' = inst /\ inst' \in [Installs -> InstallType]
  BY DEF ActivateRepository, InstallInv, InstallTypeOK
<1>7. ASSUME NEW j \in Installs, cut'[j]
      PROVE  /\ ~ inst'[j].active
             /\ \A p \in Orgs, q \in Repos : repo[p][q].inst = j => ~ repo'[p][q].active
             /\ cut[j] \/ ~ Overlapped(j)
  BY <1>1, <1>3, <1>5, <1>6, <1>7 DEF InstallInv, CutHolds
<1>8. QED
  BY <1>4, <1>5, <1>6, <1>7, ReposWrite DEF ActivateRepository

-----------------------------------------------------------------------------
(* Connecting a repository, and creating one. *)

\* A repository gets installation x.inst of its organization, which is not cut off, or
\* loses the one it had.
LEMMA RepoWrites ==
  ASSUME InstallInv, NEW o \in Orgs, NEW r \in Repos, NEW x \in RepoType,
         repo' = [repo EXCEPT ![o][r] = x], UNCHANGED <<inst, pending, setup, cut>>,
         x.inst # Nil => inst[x.inst].org = o,
         \A i \in Installs : cut[i] => x.inst # i,
         connect' \in [Connects -> ConnectType], ConnectsFit',
         \A c \in Connects : connect'[c].step # "idle" => connect'[c] = connect[c]
  PROVE  InstallInv'
<1>1. /\ repo' \in [Orgs -> [Repos -> RepoType]]
      /\ \A p \in Orgs, q \in Repos : repo'[p][q] = IF p = o /\ q = r THEN x ELSE repo[p][q]
  BY OneRepo
<1>2. InstallTypeOK' /\ SetupsFit'
  BY <1>1 DEF InstallInv, InstallTypeOK, SetupsFit, ConnectType
<1>3. TokensStayInside'
  BY <1>1 DEF InstallInv, TokensStayInside
<1>4. CutHolds'
  <2> SUFFICES ASSUME NEW i \in Installs, cut[i]
               PROVE  /\ ~ inst[i].active
                      /\ \A p \in Orgs, q \in Repos : repo'[p][q].inst = i => ~ repo'[p][q].active
                      /\ \A c \in Connects :
                           /\ connect'[c].step # "idle" => connect'[c].inst # i
                           /\ connect'[c].step = "saving" /\ connect'[c].row.exists
                                /\ repo'[connect'[c].org][connect'[c].repo].inst = i
                                  => connect'[c].row.inst = i
    BY DEF CutHolds
  <2>1. ~ inst[i].active
    BY DEF InstallInv, CutHolds
  <2>2. \A p \in Orgs, q \in Repos : repo'[p][q].inst = i => ~ repo'[p][q].active
    BY <1>1 DEF InstallInv, CutHolds
  <2>3. ASSUME NEW c \in Connects, connect'[c].step # "idle"
        PROVE  /\ connect'[c].inst # i
               /\ connect'[c].step = "saving" /\ connect'[c].row.exists
                    /\ repo'[connect'[c].org][connect'[c].repo].inst = i
                      => connect'[c].row.inst = i
    <3>1. connect'[c] = connect[c] /\ connect[c].org \in Orgs /\ connect[c].repo \in Repos
      BY <2>3 DEF InstallInv, ConnectsFit
    <3>2. repo'[connect[c].org][connect[c].repo].inst = i
            => repo[connect[c].org][connect[c].repo].inst = i
      BY <1>1, <3>1
    <3>3. QED
      BY <2>3, <3>1, <3>2 DEF InstallInv, CutHolds
  <2>4. QED
    BY <2>1, <2>2, <2>3
<1>5. QED
  BY <1>2, <1>3, <1>4 DEF InstallInv

LEMMA CreateKeeps ==
  ASSUME InstallInv, NEW o \in Orgs, NEW r \in Repos, CreateRepository(o, r)
  PROVE  InstallInv'
<1> DEFINE x == [exists |-> TRUE, inst |-> Nil, active |-> TRUE]
<1>1. x \in RepoType /\ x.inst = Nil
  BY DEF RepoType
<1>2. \A i \in Installs : x.inst # i
  BY <1>1, NilAssumption
<1>3. connect' \in [Connects -> ConnectType] /\ ConnectsFit'
  BY DEF CreateRepository, InstallInv, InstallTypeOK, ConnectType, ConnectsFit
<1>4. /\ repo' = [repo EXCEPT ![o][r] = x]
      /\ UNCHANGED <<inst, pending, setup, cut>> /\ connect' = connect
  BY DEF CreateRepository
<1> HIDE DEF x
<1>5. QED
  BY <1>1, <1>2, <1>3, <1>4, RepoWrites

\* A step of a request that reads.
LEMMA ConnectReads ==
  ASSUME InstallInv, NEW c \in Connects, NEW r \in ConnectType, Conn(c, r),
         UNCHANGED <<inst, repo, pending, setup, cut>>,
         r.step # "idle" => /\ r.org \in Orgs /\ r.inst \in Installs /\ r.repo \in Repos
                            /\ inst[r.inst].org = r.org
                            /\ ~ cut[r.inst],
         r.step = "saving" => r.row.inst = repo[r.org][r.repo].inst
  PROVE  InstallInv'
<1>1. connect' \in [Connects -> ConnectType] /\ ConnectsFit'
  BY ConnectMoves
<1>2. InstallTypeOK' /\ SetupsFit' /\ TokensStayInside'
  BY <1>1 DEF InstallInv, InstallTypeOK, SetupsFit, TokensStayInside, ConnectType
<1>3. connect' = [d \in Connects |-> IF d = c THEN r ELSE connect[d]]
  BY DEF Conn, InstallInv, InstallTypeOK
<1>4. CutHolds'
  BY <1>3 DEF InstallInv, CutHolds
<1>5. QED
  BY <1>1, <1>2, <1>4 DEF InstallInv

LEMMA BeginKeeps ==
  ASSUME InstallInv, NEW c \in Connects, NEW o \in Orgs, NEW i \in Installs, NEW r \in Repos,
         BeginConnect(c, o, i, r)
  PROVE  InstallInv'
<1> DEFINE x == [IdleConnect EXCEPT !.step = "listing", !.org = o, !.inst = i, !.repo = r]
<1>1. x \in ConnectType /\ x.step = "listing" /\ x.org = o /\ x.inst = i /\ x.repo = r
  BY IdleTypes DEF ConnectType
<1>2. inst[i].org = o /\ inst[i].active /\ Conn(c, x)
  BY DEF BeginConnect, MayConnect
<1>3. ~ cut[i]
  BY <1>2 DEF InstallInv, CutHolds
<1>4. UNCHANGED <<inst, repo, pending, setup, cut>>
  BY DEF BeginConnect
<1> HIDE DEF x
<1>5. QED
  BY <1>1, <1>2, <1>3, <1>4, ConnectReads

LEMMA LoadKeeps == ASSUME InstallInv, NEW c \in Connects, LoadRepository(c) PROVE InstallInv'
<1> DEFINE row == repo[connect[c].org][connect[c].repo]
           x == [connect[c] EXCEPT !.step = "saving", !.row = row]
<1>1. /\ connect[c].org \in Orgs /\ connect[c].inst \in Installs /\ connect[c].repo \in Repos
      /\ inst[connect[c].inst].org = connect[c].org /\ ~ cut[connect[c].inst]
  BY DEF LoadRepository, InstallInv, ConnectsFit, CutHolds
<1>2. row \in RepoType
  BY <1>1, Types
<1>3. /\ x \in ConnectType /\ x.step = "saving" /\ x.org = connect[c].org
      /\ x.inst = connect[c].inst /\ x.repo = connect[c].repo /\ x.row = row
  BY <1>2, Types DEF ConnectType
<1>4. Conn(c, x) /\ UNCHANGED <<inst, repo, pending, setup, cut>>
  BY DEF LoadRepository
<1> HIDE DEF x
<1>5. QED
  BY <1>1, <1>3, <1>4, ConnectReads

LEMMA FailConnectKeeps == ASSUME InstallInv, NEW c \in Connects, FailConnect(c) PROVE InstallInv'
BY IdleTypes, ConnectReads DEF FailConnect

LEMMA CommitConnectKeeps ==
  ASSUME InstallInv, NEW c \in Connects, CommitConnect(c)
  PROVE  InstallInv'
<1>0. /\ connect[c].org \in Orgs /\ connect[c].inst \in Installs /\ connect[c].repo \in Repos
      /\ inst[connect[c].inst].org = connect[c].org /\ ~ cut[connect[c].inst]
      /\ connect[c].step = "saving"
  BY DEF CommitConnect, InstallInv, ConnectsFit, CutHolds
<1>1. PICK o \in Orgs, i \in Installs, r \in Repos, row \in RepoType :
        /\ o = connect[c].org /\ i = connect[c].inst /\ r = connect[c].repo
        /\ row = connect[c].row
  BY <1>0, Types DEF ConnectType
<1> DEFINE now == repo[o][r]
           x == [exists |-> TRUE,
                 inst   |-> IF row.exists THEN Write(row.inst, i, now.inst) ELSE i,
                 active |-> IF row.exists THEN Write(row.active, TRUE, now.active) ELSE TRUE]
<1>2. now \in RepoType
  BY Types
<1>3. x \in RepoType /\ x.inst \in {now.inst, i}
  BY <1>2 DEF RepoType, Write
<1>4. x.inst # Nil => inst[x.inst].org = o
  BY <1>0, <1>1, <1>3 DEF InstallInv, TokensStayInside
<1>5. ASSUME NEW j \in Installs, cut[j]
      PROVE  x.inst # j
  <2>1. j # i
    BY <1>0, <1>1, <1>5
  <2>2. CASE now.inst = j /\ row.exists
    <3>1. row.inst = j
      BY <1>0, <1>1, <1>5, <2>2 DEF InstallInv, CutHolds
    <3>2. x.inst = i
      BY <2>1, <2>2, <3>1 DEF Write
    <3>3. QED
      BY <2>1, <3>2
  <2>3. CASE ~ row.exists
    BY <2>1, <2>3
  <2>4. CASE now.inst # j
    BY <1>3, <2>1, <2>4
  <2>5. QED
    BY <2>2, <2>3, <2>4
<1>6. repo' = [repo EXCEPT ![o][r] = x]
  BY <1>1 DEF CommitConnect
<1>7. UNCHANGED <<inst, pending, setup, cut>> /\ Conn(c, IdleConnect)
  BY DEF CommitConnect
<1>8. connect' \in [Connects -> ConnectType] /\ ConnectsFit'
  BY <1>7, IdleTypes, ConnectMoves
<1>9. \A d \in Connects : connect'[d].step # "idle" => connect'[d] = connect[d]
  BY <1>7, IdleTypes DEF Conn, InstallInv, InstallTypeOK
<1> HIDE DEF x
<1>10. QED
  BY <1>3, <1>4, <1>5, <1>6, <1>7, <1>8, <1>9, RepoWrites

-----------------------------------------------------------------------------
(* The theorems. *)

LEMMA InstallStep == InstallInv /\ [InstallNext]_installVars => InstallInv'
<1> SUFFICES ASSUME InstallInv, [InstallNext]_installVars
             PROVE  InstallInv'
  OBVIOUS
<1>1. ASSUME NEW s \in SetupStates, (\E o \in Orgs : StartInstallation(s, o)) \/ ExpirePending(s)
      PROVE  InstallInv'
  BY <1>1, PendingKeeps
<1>2. ASSUME NEW c \in Setups, NEW i \in Installs, NEW s \in SetupStates \cup {Nil},
             LoadSetup(c, i, s)
      PROVE  InstallInv'
  BY <1>2, LoadSetupKeeps
<1>3. ASSUME NEW c \in Setups,
             CancelSetup(c) \/ RollbackSetup(c) \/ VerifySetup(c) \/ CommitSetup(c)
      PROVE  InstallInv'
  BY <1>3, EndSetupKeeps, VerifySetupKeeps, CommitSetupKeeps
<1>4. ASSUME NEW i \in Installs, Deactivate(i) \/ Unsuspend(i)
      PROVE  InstallInv'
  BY <1>4, DeactivateKeeps, UnsuspendKeeps
<1>5. ASSUME NEW i \in Installs, NEW r \in Repos, NEW b \in BOOLEAN, ChangeRepositories(i, r, b)
      PROVE  InstallInv'
  BY <1>5, ChangeRepositoriesKeeps
<1>6. ASSUME NEW c \in Connects, NEW o \in Orgs, NEW i \in Installs, NEW r \in Repos,
             BeginConnect(c, o, i, r)
      PROVE  InstallInv'
  BY <1>6, BeginKeeps
<1>7. ASSUME NEW c \in Connects, LoadRepository(c) \/ FailConnect(c) \/ CommitConnect(c)
      PROVE  InstallInv'
  BY <1>7, LoadKeeps, FailConnectKeeps, CommitConnectKeeps
<1>8. ASSUME NEW o \in Orgs, NEW r \in Repos,
             CreateRepository(o, r) \/ \E b \in BOOLEAN : ActivateRepository(o, r, b)
      PROVE  InstallInv'
  BY <1>8, CreateKeeps, ActivateKeeps
<1>9. CASE UNCHANGED installVars
  BY <1>9 DEF installVars, InstallInv, InstallTypeOK, SetupsFit, ConnectsFit, TokensStayInside,
              CutHolds
<1>10. QED
  BY <1>1, <1>2, <1>3, <1>4, <1>5, <1>6, <1>7, <1>8, <1>9 DEF InstallNext

LEMMA InvHolds == InstallInv => InstallTypeOK /\ TokensStayInside /\ DeactivationHolds
<1> SUFFICES ASSUME InstallInv
             PROVE  DeactivationHolds
  BY DEF InstallInv
<1>1. ASSUME NEW i \in Installs, cut[i], NEW o \in Orgs, NEW r \in Repos, repo[o][r].inst = i
      PROVE  ~ repo[o][r].active /\ TokenOf(o, r) = Nil
  BY <1>1 DEF InstallInv, CutHolds, TokenOf
<1>2. QED
  BY <1>1 DEF DeactivationHolds

\* Every request knows an installation, and an organization if it needs one.
THEOREM InstallTypeCorrect == InstallSpec => []InstallTypeOK
<1>1. QED
  BY InstallInitial, InstallStep, InvHolds, PTL DEF InstallSpec

\* No repository gets its tokens from another organization's installation, though the
\* installation is checked before GitHub lists its repositories and the row is saved
\* afterwards (connect_authorized_repository, complete_installation).
THEOREM TokensInside == InstallSpec => []TokensStayInside
<1>1. QED
  BY InstallInitial, InstallStep, InvHolds, PTL DEF InstallSpec

\* After suspend or deleted the installation's repositories stay without a token: nothing
\* but a request that overlapped the webhook, or somebody's activation, brings them back.
THEOREM DeactivationIsKept == InstallSpec => []DeactivationHolds
<1>1. QED
  BY InstallInitial, InstallStep, InvHolds, PTL DEF InstallSpec

-----------------------------------------------------------------------------
(* What a state buys, when no two setups overlap. *)

SerialSetups == \A c, d \in Setups : c = d

\* What a setup has read is as it was, and its state is not used.
SetupHolds ==
  \A c \in Setups : setup[c].step # "idle" =>
    /\ setup[c].row.org = inst[setup[c].inst].org
    /\ setup[c].state # Nil => /\ pending[setup[c].state].org \in Orgs
                               /\ pending[setup[c].state].status \in {"fresh", "expired"}
    /\ setup[c].step = "committing" /\ setup[c].state # Nil /\ setup[c].row.org # Nil =>
         setup[c].row.org = pending[setup[c].state].org

StatesHaveOrgs == \A s \in SetupStates : pending[s].status # "absent" => pending[s].org \in Orgs

\* The tables are finite, and Cardinality counts them.
Counted ==
  \A o \in Orgs : /\ IsFiniteSet(InstallsOf(o)) /\ IsFiniteSet(UsedStates(o))
                  /\ Cardinality(InstallsOf(o)) <= Cardinality(UsedStates(o))
                  /\ UsedStates(o) # {} => InstallsOf(o) # {}

PriceInv == InstallInv /\ SetupHolds /\ StatesHaveOrgs /\ Counted

LEMMA PriceInitial == InstallInit => PriceInv
<1> SUFFICES ASSUME InstallInit
             PROVE  PriceInv
  OBVIOUS
<1>1. \A o \in Orgs : InstallsOf(o) = {} /\ UsedStates(o) = {}
  BY NilAssumption DEF InstallInit, InstallsOf, UsedStates, NoInstall, NoPending
<1>2. Counted
  BY <1>1, FS_EmptySet DEF Counted
<1>3. SetupHolds /\ StatesHaveOrgs
  BY IdleTypes DEF InstallInit, SetupHolds, StatesHaveOrgs, NoPending
<1>4. QED
  BY <1>2, <1>3, InstallInitial DEF PriceInv

\* Steps that commit no setup.
LEMMA NothingBought ==
  ASSUME PriceInv, InstallInv', SetupHolds', StatesHaveOrgs',
         \A i \in Installs : inst'[i].org = inst[i].org,
         \A s \in SetupStates : \/ pending'[s] = pending[s]
                                \/ pending[s].status # "used" /\ pending'[s].status # "used"
  PROVE  PriceInv'
<1>1. ASSUME NEW o \in Orgs
      PROVE  InstallsOf(o)' = InstallsOf(o) /\ UsedStates(o)' = UsedStates(o)
  BY DEF InstallsOf, UsedStates
<1>2. Counted'
  BY <1>1 DEF PriceInv, Counted
<1>3. QED
  BY <1>2 DEF PriceInv

LEMMA OthersBuyNothing ==
  ASSUME PriceInv, InstallInv', UNCHANGED <<pending, setup>>,
         \A i \in Installs : inst'[i].org = inst[i].org
  PROVE  PriceInv'
<1>1. SetupHolds' /\ StatesHaveOrgs'
  BY DEF PriceInv, SetupHolds, StatesHaveOrgs, InstallInv, SetupsFit
<1>2. QED
  BY <1>1, NothingBought

LEMMA PendingBuysNothing ==
  ASSUME PriceInv, InstallInv', NEW s \in SetupStates,
         ExpirePending(s) \/ \E o \in Orgs : StartInstallation(s, o)
  PROVE  PriceInv'
<1>1. /\ pending[s].status \in {"absent", "fresh"} /\ UNCHANGED <<inst, setup>>
      /\ pending'[s].status \in {"fresh", "expired"} /\ pending'[s].org \in Orgs
      /\ pending[s].status = "fresh" => pending'[s].org = pending[s].org
      /\ \A t \in SetupStates : t # s => pending'[t] = pending[t]
  BY DEF ExpirePending, StartInstallation, PriceInv, InstallInv, InstallTypeOK, StatesHaveOrgs
<1>2. SetupHolds' /\ StatesHaveOrgs'
  <2>1. ASSUME NEW c \in Setups, setup[c].step # "idle", setup[c].state # Nil
        PROVE  /\ pending'[setup[c].state].org = pending[setup[c].state].org
               /\ pending'[setup[c].state].status \in {"fresh", "expired"}
    <3>1. setup[c].state \in SetupStates
      BY <2>1, Types DEF SetupType, PriceInv
    <3>2. pending[setup[c].state].status \in {"fresh", "expired"}
      BY <2>1 DEF PriceInv, SetupHolds
    <3>3. QED
      BY <1>1, <3>1, <3>2
  <2>2. SetupHolds'
    BY <1>1, <2>1 DEF PriceInv, SetupHolds
  <2>3. StatesHaveOrgs'
    BY <1>1 DEF PriceInv, StatesHaveOrgs
  <2>4. QED
    BY <2>2, <2>3
<1>3. QED
  BY <1>1, <1>2, NothingBought

LEMMA SetupBuysNothing ==
  ASSUME SerialSetups, PriceInv, InstallInv', NEW c \in Setups,
         \/ \E i \in Installs, s \in SetupStates \cup {Nil} : LoadSetup(c, i, s)
         \/ CancelSetup(c) \/ RollbackSetup(c) \/ VerifySetup(c)
  PROVE  PriceInv'
<1>1. /\ setup \in [Setups -> SetupType] /\ setup[c] \in SetupType /\ \A d \in Setups : d = c
      /\ pending \in [SetupStates -> PendingType] /\ IdleSetup.step = "idle"
  BY Types, IdleTypes DEF SerialSetups, PriceInv, InstallInv, InstallTypeOK, SetupType, PendingType
<1>2. CASE RollbackSetup(c)
  <2>1. SetupHolds' /\ StatesHaveOrgs'
    BY <1>1, <1>2 DEF RollbackSetup, Set, SetupHolds, StatesHaveOrgs, PriceInv
  <2>2. QED
    BY <1>2, <2>1, NothingBought DEF RollbackSetup
<1>3. CASE CancelSetup(c)
  <2>1. PICK s \in SetupStates : s = setup[c].state /\ pending[s].status \in {"fresh", "expired"}
    BY <1>1, <1>3 DEF CancelSetup, SetupType, PriceInv, SetupHolds
  <2>2. /\ pending'[s].status = "cancelled" /\ pending'[s].org = pending[s].org
        /\ \A t \in SetupStates : t # s => pending'[t] = pending[t]
    BY <1>1, <1>3, <2>1 DEF CancelSetup, PendingType
  <2>3. SetupHolds' /\ StatesHaveOrgs'
    BY <1>1, <1>3, <2>1, <2>2 DEF CancelSetup, Set, SetupHolds, StatesHaveOrgs, PriceInv
  <2>4. QED
    BY <1>3, <2>1, <2>2, <2>3, NothingBought DEF CancelSetup
<1>4. CASE VerifySetup(c)
  <2>1. /\ setup'[c].step = "committing" /\ setup[c].step # "idle"
        /\ setup'[c].inst = setup[c].inst /\ setup'[c].state = setup[c].state
        /\ setup'[c].row = setup[c].row
    BY <1>1, <1>4 DEF VerifySetup, Set, SetupType
  <2>2. SetupHolds' /\ StatesHaveOrgs'
    BY <1>1, <1>4, <2>1 DEF VerifySetup, SetupHolds, StatesHaveOrgs, PriceInv
  <2>3. QED
    BY <1>4, <2>2, NothingBought DEF VerifySetup
<1>5. ASSUME NEW i \in Installs, NEW s \in SetupStates \cup {Nil}, LoadSetup(c, i, s)
      PROVE  PriceInv'
  <2>1. /\ setup'[c].step = "asking" /\ setup'[c].inst = i /\ setup'[c].state = s
        /\ setup'[c].row = inst[i]
    BY <1>1, <1>5 DEF LoadSetup, Set
  <2>2. s # Nil => pending[s].status = "fresh" /\ pending[s].org \in Orgs
    BY <1>5 DEF LoadSetup, PriceInv, StatesHaveOrgs
  <2>3. SetupHolds' /\ StatesHaveOrgs'
    BY <1>1, <1>5, <2>1, <2>2 DEF LoadSetup, SetupHolds, StatesHaveOrgs, PriceInv
  <2>4. QED
    BY <1>5, <2>3, NothingBought DEF LoadSetup
<1>6. QED
  BY <1>2, <1>3, <1>4, <1>5

LEMMA CommitBuys ==
  ASSUME SerialSetups, PriceInv, InstallInv', NEW c \in Setups, CommitSetup(c)
  PROVE  PriceInv'
<1>1. PICK i \in Installs : i = setup[c].inst
  BY DEF CommitSetup, PriceInv, InstallInv, SetupsFit
<1>2. PICK s \in SetupStates \cup {Nil} : s = setup[c].state
  BY Types DEF SetupType, PriceInv
<1>3. /\ setup[c].step = "committing" /\ setup[c].row.org = inst[i].org
      /\ s = Nil => inst[i].org # Nil
      /\ s # Nil => /\ pending[s].org \in Orgs /\ pending[s].status \in {"fresh", "expired"}
                    /\ inst[i].org # Nil => inst[i].org = pending[s].org
  BY <1>1, <1>2 DEF CommitSetup, PriceInv, SetupHolds, InstallInv, SetupsFit
<1>4. /\ setup'[c].step = "idle" /\ \A d \in Setups : d = c
      /\ inst'[i].org = IF inst[i].org = Nil THEN pending[s].org ELSE inst[i].org
      /\ \A k \in Installs : k # i => inst'[k] = inst[k]
  <2>1. setup'[c].step = "idle" /\ \A d \in Setups : d = c
    BY IdleTypes DEF CommitSetup, Set, SerialSetups, PriceInv, InstallInv, InstallTypeOK
  <2>2. inst[i] \in InstallType /\ inst \in [Installs -> InstallType]
    BY DEF PriceInv, InstallInv, InstallTypeOK
  <2>3. QED
    BY <1>1, <1>2, <1>3, <2>1, <2>2 DEF CommitSetup, InstallType
<1>5. SetupHolds'
  BY <1>4 DEF SetupHolds
<1>6. CASE s = Nil
  <2>1. UNCHANGED pending /\ \A k \in Installs : inst'[k].org = inst[k].org
    BY <1>2, <1>3, <1>4, <1>6 DEF CommitSetup
  <2>2. StatesHaveOrgs'
    BY <2>1 DEF PriceInv, StatesHaveOrgs
  <2>3. QED
    BY <1>5, <2>1, <2>2, NothingBought
<1>7. CASE s # Nil
  <2>1. PICK p \in Orgs : p = pending[s].org
    BY <1>3, <1>7
  <2>2. /\ s \in SetupStates /\ pending[s] \in PendingType
        /\ pending'[s] = [org |-> p, status |-> "used"]
        /\ \A t \in SetupStates : t # s => pending'[t] = pending[t]
    <3>1. s \in SetupStates /\ pending \in [SetupStates -> PendingType]
      BY <1>7 DEF PriceInv, InstallInv, InstallTypeOK, PendingType
    <3>2. pending' = [pending EXCEPT ![s].status = "used"]
      BY <1>2, <1>7 DEF CommitSetup
    <3>3. QED
      BY <2>1, <3>1, <3>2 DEF PendingType
  <2>3. StatesHaveOrgs'
    BY <2>2 DEF PriceInv, StatesHaveOrgs
  <2>4. ASSUME NEW o \in Orgs, o # p
        PROVE  InstallsOf(o)' = InstallsOf(o) /\ UsedStates(o)' = UsedStates(o)
    <3>1. InstallsOf(o)' = InstallsOf(o)
      BY <1>3, <1>4, <1>7, <2>1, <2>4, NilAssumption DEF InstallsOf
    <3>2. pending'[s] # [org |-> o, status |-> "used"] /\ pending[s] # [org |-> o, status |-> "used"]
      BY <2>1, <2>2, <2>4
    <3>3. UsedStates(o)' = UsedStates(o)
      BY <2>2, <3>2 DEF UsedStates
    <3>4. QED
      BY <3>1, <3>3
  <2>5. UsedStates(p)' = UsedStates(p) \cup {s} /\ s \notin UsedStates(p)
    <3>1. pending[s] # [org |-> p, status |-> "used"]
      BY <1>3, <1>7
    <3>2. QED
      BY <2>2, <3>1 DEF UsedStates
  <2>6. InstallsOf(p)' = InstallsOf(p) \cup {i}
    BY <1>3, <1>4, <1>7, <2>1 DEF InstallsOf
  <2>7. /\ IsFiniteSet(InstallsOf(p)) /\ IsFiniteSet(UsedStates(p))
        /\ Cardinality(InstallsOf(p)) <= Cardinality(UsedStates(p))
        /\ Cardinality(InstallsOf(p)) \in Nat /\ Cardinality(UsedStates(p)) \in Nat
    BY FS_CardinalityType DEF PriceInv, Counted
  <2>8. /\ IsFiniteSet(InstallsOf(p)') /\ IsFiniteSet(UsedStates(p)')
        /\ Cardinality(UsedStates(p)') = Cardinality(UsedStates(p)) + 1
        /\ Cardinality(InstallsOf(p)') <= Cardinality(InstallsOf(p)) + 1
    <3>1. PICK I : I = InstallsOf(p)
      OBVIOUS
    <3>2. PICK U : U = UsedStates(p)
      OBVIOUS
    <3>3. /\ IsFiniteSet(I \cup {i})
          /\ Cardinality(I \cup {i}) = IF i \in I THEN Cardinality(I) ELSE Cardinality(I) + 1
      BY <2>7, <3>1, FS_AddElement
    <3>4. IsFiniteSet(U \cup {s}) /\ Cardinality(U \cup {s}) = Cardinality(U) + 1
      BY <2>5, <2>7, <3>2, FS_AddElement
    <3>5. Cardinality(I \cup {i}) <= Cardinality(I) + 1
      BY <2>7, <3>1, <3>3
    <3>6. QED
      BY <2>5, <2>6, <3>1, <3>2, <3>3, <3>4, <3>5
  <2>9. /\ Cardinality(InstallsOf(p)') <= Cardinality(UsedStates(p)')
        /\ InstallsOf(p)' # {}
    <3>1. Cardinality(InstallsOf(p)') \in Nat
      BY <2>8, FS_CardinalityType
    <3>2. QED
      BY <2>6, <2>7, <2>8, <3>1
  <2>10. Counted'
    BY <2>4, <2>8, <2>9 DEF PriceInv, Counted
  <2>11. QED
    BY <1>5, <2>3, <2>10 DEF PriceInv
<1>8. QED
  BY <1>6, <1>7

LEMMA PriceStep ==
  ASSUME SerialSetups, PriceInv, [InstallNext]_installVars
  PROVE  PriceInv'
<1>1. InstallInv'
  BY InstallStep DEF PriceInv
<1>2. ASSUME NEW s \in SetupStates, ExpirePending(s) \/ \E o \in Orgs : StartInstallation(s, o)
      PROVE  PriceInv'
  BY <1>1, <1>2, PendingBuysNothing
<1>3. ASSUME NEW c \in Setups,
             \/ \E i \in Installs, s \in SetupStates \cup {Nil} : LoadSetup(c, i, s)
             \/ CancelSetup(c) \/ RollbackSetup(c) \/ VerifySetup(c)
      PROVE  PriceInv'
  BY <1>1, <1>3, SetupBuysNothing
<1>4. ASSUME NEW c \in Setups, CommitSetup(c)
      PROVE  PriceInv'
  BY <1>1, <1>4, CommitBuys
<1>5. ASSUME NEW i \in Installs,
             Deactivate(i) \/ Unsuspend(i) \/ \E r \in Repos, b \in BOOLEAN : ChangeRepositories(i, r, b)
      PROVE  PriceInv'
  <2>1. UNCHANGED <<pending, setup>> /\ \A k \in Installs : inst'[k].org = inst[k].org
    <3>1. inst \in [Installs -> InstallType]
      BY DEF PriceInv, InstallInv, InstallTypeOK
    <3>2. CASE Deactivate(i)
      BY <3>1, <3>2 DEF Deactivate, InstallType
    <3>3. CASE Unsuspend(i)
      BY <3>1, <3>3 DEF Unsuspend, InstallType
    <3>4. CASE \E r \in Repos, b \in BOOLEAN : ChangeRepositories(i, r, b)
      BY <3>4 DEF ChangeRepositories
    <3>5. QED
      BY <1>5, <3>2, <3>3, <3>4
  <2>2. QED
    BY <1>1, <2>1, OthersBuyNothing
<1>6. ASSUME NEW c \in Connects,
             \/ \E o \in Orgs, i \in Installs, r \in Repos : BeginConnect(c, o, i, r)
             \/ LoadRepository(c) \/ FailConnect(c) \/ CommitConnect(c)
      PROVE  PriceInv'
  <2>1. UNCHANGED <<pending, setup, inst>>
    BY <1>6 DEF BeginConnect, LoadRepository, FailConnect, CommitConnect
  <2>2. QED
    BY <1>1, <2>1, OthersBuyNothing
<1>7. ASSUME NEW o \in Orgs, NEW r \in Repos,
             CreateRepository(o, r) \/ \E b \in BOOLEAN : ActivateRepository(o, r, b)
      PROVE  PriceInv'
  <2>1. UNCHANGED <<pending, setup, inst>>
    BY <1>7 DEF CreateRepository, ActivateRepository
  <2>2. QED
    BY <1>1, <2>1, OthersBuyNothing
<1>8. CASE UNCHANGED installVars
  BY <1>1, <1>8, OthersBuyNothing DEF installVars
<1>9. QED
  BY <1>2, <1>3, <1>4, <1>5, <1>6, <1>7, <1>8 DEF InstallNext

\* When setups do not overlap, whatever GitHub refuses, cancels or never answers, each
\* installation of an organization has used up a state of its own, and a used state has
\* bought one (complete_installation: used_at and the row in one COMMIT).
THEOREM InstallationsArePaid ==
  ASSUME SerialSetups
  PROVE  InstallSpec => []StatesBuyInstallations
<1>1. PriceInv /\ [InstallNext]_installVars => PriceInv'
  BY PriceStep
<1>2. PriceInv => StatesBuyInstallations
  BY DEF PriceInv, Counted, StatesBuyInstallations
<1>3. QED
  BY PriceInitial, <1>1, <1>2, PTL DEF InstallSpec

=============================================================================
