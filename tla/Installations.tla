----------------------------- MODULE Installations -----------------------------
(***************************************************************************)
(* GitHub App installations and the repositories they serve:               *)
(* app/github_app_routes.py, with the installation webhooks, the           *)
(* repository routes and resolve_repository_token of app/main.py.          *)
(*                                                                         *)
(* GitHub is the environment: it may give any answer, and its webhooks     *)
(* come in any order, late, twice or never.  A request keeps what it read  *)
(* while GitHub answers; its COMMIT writes the columns whose value it      *)
(* changed from the one it read, as the ORM does.                          *)
(***************************************************************************)
EXTENDS Integers, FiniteSets

CONSTANTS
  Installs,     \* GitHub's installation ids
  Orgs,
  Repos,        \* GitHub repositories; an organization has one row for each at most
  SetupStates,  \* rows of github_installation_states, present or not yet inserted
  Setups,       \* concurrent requests of complete_installation
  Connects,     \* concurrent requests of connect_authorized_repository
  Nil           \* no installation, organization, repository or state

ASSUME NilAssumption == Nil \notin Installs \cup Orgs \cup Repos \cup SetupStates

VARIABLES
  inst,      \* the github_installations table
  repo,      \* the repositories table
  pending,   \* the github_installation_states table
  setup, connect,
  cut        \* history: deactivated by a webhook no request overlapped, and not revived

installVars == <<inst, repo, pending, setup, connect, cut>>

NoInstall   == [org |-> Nil, active |-> FALSE]
NoRepo      == [exists |-> FALSE, inst |-> Nil, active |-> FALSE]
NoPending   == [org |-> Nil, status |-> "absent"]
IdleSetup   == [step |-> "idle", inst |-> Nil, state |-> Nil, row |-> NoInstall]
IdleConnect == [step |-> "idle", org |-> Nil, inst |-> Nil, repo |-> Nil, row |-> NoRepo]

InstallType == [org : Orgs \cup {Nil}, active : BOOLEAN]
RepoType    == [exists : BOOLEAN, inst : Installs \cup {Nil}, active : BOOLEAN]

InstallInit ==
  /\ inst = [i \in Installs |-> NoInstall]
  /\ repo = [o \in Orgs |-> [r \in Repos |-> NoRepo]]
  /\ pending = [s \in SetupStates |-> NoPending]
  /\ setup = [c \in Setups |-> IdleSetup]
  /\ connect = [c \in Connects |-> IdleConnect]
  /\ cut = [i \in Installs |-> FALSE]

Known(i)     == inst[i].org # Nil
Set(c, to)   == setup' = [setup EXCEPT ![c] = to]
Conn(c, to)  == connect' = [connect EXCEPT ![c] = to]
Revive(i)    == cut' = [cut EXCEPT ![i] = FALSE]
\* The ORM's UPDATE of a column: written if it differs from the value that was read.
Write(read, new, now) == IF read = new THEN now ELSE new

-----------------------------------------------------------------------------
(* complete_installation. *)

StartInstallation(s, o) ==
  /\ pending[s].status = "absent"
  /\ pending' = [pending EXCEPT ![s] = [org |-> o, status |-> "fresh"]]
  /\ UNCHANGED <<inst, repo, setup, connect, cut>>

ExpirePending(s) ==
  /\ pending[s].status = "fresh"
  /\ pending' = [pending EXCEPT ![s].status = "expired"]
  /\ UNCHANGED <<inst, repo, setup, connect, cut>>

\* Mutation of LoadSetup: used_at is committed before GitHub is asked.
LoadSetupSpent(c, i, s) ==
  /\ setup[c].step = "idle"
  /\ IF s = Nil THEN Known(i) ELSE pending[s].status = "fresh"
  /\ Set(c, [step |-> "asking", inst |-> i, state |-> s, row |-> inst[i]])
  /\ pending' = IF s = Nil THEN pending ELSE [pending EXCEPT ![s].status = "used"]
  /\ UNCHANGED <<inst, repo, connect, cut>>

\* The SELECTs of the installation and of the state; without a state only the update of an
\* installation that is known.
LoadSetup(c, i, s) ==
  /\ setup[c].step = "idle"
  /\ IF s = Nil THEN Known(i) ELSE pending[s].status = "fresh"
  /\ Set(c, [step |-> "asking", inst |-> i, state |-> s, row |-> inst[i]])
  /\ UNCHANGED <<inst, repo, pending, connect, cut>>

\* Another setup_action: the state is used, nothing is installed ("cancelled").
CancelSetup(c) ==
  LET s == setup[c].state IN
  /\ setup[c].step = "asking" /\ s # Nil
  /\ pending' = [pending EXCEPT ![s].status = IF @ = "used" THEN "used" ELSE "cancelled"]
  /\ Set(c, IdleSetup)
  /\ UNCHANGED <<inst, repo, connect, cut>>

\* GitHub refuses, fails or knows the installation for another organization: rollback.
RollbackSetup(c) ==
  /\ setup[c].step \in {"asking", "committing"}
  /\ Set(c, IdleSetup)
  /\ UNCHANGED <<inst, repo, pending, connect, cut>>

VerifySetup(c) ==
  LET s == setup[c].state
      row == setup[c].row IN
  /\ setup[c].step = "asking"
  /\ s # Nil /\ row.org # Nil => row.org = pending[s].org
  /\ Set(c, [setup[c] EXCEPT !.step = "committing"])
  /\ UNCHANGED <<inst, repo, pending, connect, cut>>

\* The installation and used_at in one COMMIT; the unique id refuses a second row.
CommitSetup(c) ==
  LET s == setup[c].state
      i == setup[c].inst
      row == setup[c].row IN
  /\ setup[c].step = "committing"
  /\ row.org = Nil => ~ Known(i)
  /\ inst' = [inst EXCEPT ![i] =
                IF row.org = Nil THEN [org |-> pending[s].org, active |-> TRUE]
                ELSE [inst[i] EXCEPT !.active = Write(row.active, TRUE, inst[i].active)]]
  /\ pending' = IF s = Nil THEN pending ELSE [pending EXCEPT ![s].status = "used"]
  /\ Set(c, IdleSetup)
  /\ Revive(i)
  /\ UNCHANGED <<repo, connect>>

-----------------------------------------------------------------------------
(* The installation webhooks. *)

ReposOf(i, rs, active) ==
  [o \in Orgs |-> [r \in Repos |-> IF r \in rs /\ repo[o][r].inst = i
                                   THEN [repo[o][r] EXCEPT !.active = active]
                                   ELSE repo[o][r]]]

\* A request is about installation i, or about a repository that is i's now.
Overlapped(i) ==
  \/ \E c \in Setups : setup[c].inst = i
  \/ \E c \in Connects :
       /\ connect[c].step # "idle"
       /\ connect[c].inst = i \/ repo[connect[c].org][connect[c].repo].inst = i

\* Mutation of Deactivate: the repositories are left as they are.
DeactivateAlone(i) ==
  /\ Known(i)
  /\ inst' = [inst EXCEPT ![i].active = FALSE]
  /\ cut' = [cut EXCEPT ![i] = ~ Overlapped(i)]
  /\ UNCHANGED <<repo, pending, setup, connect>>

\* installation deleted or suspend.
Deactivate(i) ==
  /\ Known(i)
  /\ inst' = [inst EXCEPT ![i].active = FALSE]
  /\ repo' = ReposOf(i, Repos, FALSE)
  /\ cut' = [cut EXCEPT ![i] = ~ Overlapped(i)]
  /\ UNCHANGED <<pending, setup, connect>>

\* installation unsuspend: its repositories stay as suspend left them.
Unsuspend(i) ==
  /\ Known(i)
  /\ inst' = [inst EXCEPT ![i].active = TRUE]
  /\ Revive(i)
  /\ UNCHANGED <<repo, pending, setup, connect>>

\* installation_repositories, whether or not the installation is active.
ChangeRepositories(i, r, active) ==
  /\ Known(i)
  /\ repo' = ReposOf(i, {r}, active)
  /\ cut' = [cut EXCEPT ![i] = @ /\ ~ active]
  /\ UNCHANGED <<inst, pending, setup, connect>>

-----------------------------------------------------------------------------
(* connect_authorized_repository. *)

\* Mutation of MayConnect: an inactive installation is found as well.
MayConnectKnown(o, i) == inst[i].org = o

\* The installation of this organization, active when it is read.
MayConnect(o, i) == inst[i].org = o /\ inst[i].active

\* Mutation of BeginConnect: the installation is looked up by its id alone.
BeginConnectAnywhere(c, o, i, r) ==
  /\ connect[c].step = "idle"
  /\ inst[i].active
  /\ Conn(c, [IdleConnect EXCEPT !.step = "listing", !.org = o, !.inst = i, !.repo = r])
  /\ UNCHANGED <<inst, repo, pending, setup, cut>>

BeginConnect(c, o, i, r) ==
  /\ connect[c].step = "idle"
  /\ MayConnect(o, i)
  /\ Conn(c, [IdleConnect EXCEPT !.step = "listing", !.org = o, !.inst = i, !.repo = r])
  /\ UNCHANGED <<inst, repo, pending, setup, cut>>

\* GitHub lists the repository; the organization's row for it is read.
LoadRepository(c) ==
  /\ connect[c].step = "listing"
  /\ Conn(c, [connect[c] EXCEPT !.step = "saving",
                                !.row = repo[connect[c].org][connect[c].repo]])
  /\ UNCHANGED <<inst, repo, pending, setup, cut>>

\* Not authorized, GitHub unavailable, or a failed COMMIT.
FailConnect(c) ==
  /\ connect[c].step # "idle"
  /\ Conn(c, IdleConnect)
  /\ UNCHANGED <<inst, repo, pending, setup, cut>>

\* The unique (organization, owner, name) refuses a second row.
CommitConnect(c) ==
  LET i == connect[c].inst
      row == connect[c].row
      now == repo[connect[c].org][connect[c].repo] IN
  /\ connect[c].step = "saving"
  /\ ~ row.exists => ~ now.exists
  /\ repo' = [repo EXCEPT ![connect[c].org][connect[c].repo] =
                [exists |-> TRUE,
                 inst   |-> IF row.exists THEN Write(row.inst, i, now.inst) ELSE i,
                 active |-> IF row.exists THEN Write(row.active, TRUE, now.active) ELSE TRUE]]
  /\ Conn(c, IdleConnect)
  /\ UNCHANGED <<inst, pending, setup, cut>>

-----------------------------------------------------------------------------
(* The repository routes. *)

\* create_repository: a row with a token of its own.
CreateRepository(o, r) ==
  /\ ~ repo[o][r].exists
  /\ repo' = [repo EXCEPT ![o][r] = [exists |-> TRUE, inst |-> Nil, active |-> TRUE]]
  /\ UNCHANGED <<inst, pending, setup, connect, cut>>

\* update_repository and delete_repository.
ActivateRepository(o, r, active) ==
  /\ repo[o][r].exists
  /\ repo' = [repo EXCEPT ![o][r].active = active]
  /\ cut' = [i \in Installs |-> cut[i] /\ (repo[o][r].inst = i => ~ active)]
  /\ UNCHANGED <<inst, pending, setup, connect>>

InstallNext ==
  \/ \E s \in SetupStates : \/ \E o \in Orgs : StartInstallation(s, o)
                       \/ ExpirePending(s)
  \/ \E c \in Setups : \/ \E i \in Installs, s \in SetupStates \cup {Nil} : LoadSetup(c, i, s)
                       \/ CancelSetup(c) \/ RollbackSetup(c) \/ VerifySetup(c)
                       \/ CommitSetup(c)
  \/ \E i \in Installs : \/ Deactivate(i) \/ Unsuspend(i)
                         \/ \E r \in Repos, b \in BOOLEAN : ChangeRepositories(i, r, b)
  \/ \E c \in Connects : \/ \E o \in Orgs, i \in Installs, r \in Repos : BeginConnect(c, o, i, r)
                         \/ LoadRepository(c) \/ FailConnect(c) \/ CommitConnect(c)
  \/ \E o \in Orgs, r \in Repos : \/ CreateRepository(o, r)
                                  \/ \E b \in BOOLEAN : ActivateRepository(o, r, b)

InstallSpec == InstallInit /\ [][InstallNext]_installVars

-----------------------------------------------------------------------------
InstallTypeOK ==
  /\ inst \in [Installs -> InstallType]
  /\ repo \in [Orgs -> [Repos -> RepoType]]
  /\ pending \in [SetupStates -> [org : Orgs \cup {Nil},
                             status : {"absent", "fresh", "used", "cancelled", "expired"}]]
  /\ setup \in [Setups -> [step : {"idle", "asking", "committing"}, inst : Installs \cup {Nil},
                           state : SetupStates \cup {Nil}, row : InstallType]]
  /\ connect \in [Connects -> [step : {"idle", "listing", "saving"}, org : Orgs \cup {Nil},
                               inst : Installs \cup {Nil}, repo : Repos \cup {Nil},
                               row : RepoType]]
  /\ cut \in [Installs -> BOOLEAN]

\* resolve_repository_token of a repository that uses the App, and the lookup of the
\* webhook's repository: both ask the installation, only the routes ask the repository.
TokenOf(o, r) == LET i == repo[o][r].inst IN
  IF i # Nil /\ inst[i].active THEN i ELSE Nil

UsedStates(o) == {t \in SetupStates : pending[t] = [org |-> o, status |-> "used"]}
InstallsOf(o) == {i \in Installs : inst[i].org = o}

\* Every installation of an organization has cost it a state, and no state is spent in vain:
\* a failure leaves neither behind (complete_installation).
StatesBuyInstallations ==
  \A o \in Orgs : /\ Cardinality(InstallsOf(o)) <= Cardinality(UsedStates(o))
                  /\ UsedStates(o) # {} => InstallsOf(o) # {}

\* After a webhook has deactivated an installation none of its repositories is active or
\* gets a token, unless a request overlapped the webhook or somebody activates it again.
DeactivationHolds ==
  \A i \in Installs : cut[i] =>
    \A o \in Orgs, r \in Repos : repo[o][r].inst = i => ~ repo[o][r].active /\ TokenOf(o, r) = Nil

\* A repository gets its tokens from an installation of its own organization
\* (connect_authorized_repository).
TokensStayInside ==
  \A o \in Orgs, r \in Repos : repo[o][r].inst # Nil => inst[repo[o][r].inst].org = o

=============================================================================
