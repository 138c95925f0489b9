------------------------------- MODULE MCServices -------------------------------
(***************************************************************************)
(* The components that share no state with another: sessions, GitHub       *)
(* login, installations, members, API access, inline workers and the       *)
(* diagnosis of a log.  A behaviour is a behaviour of one of them, the     *)
(* others rest; so TLC explores the sum of their state spaces and not the  *)
(* product.                                                                *)
(***************************************************************************)
EXTENDS Sessions, GitHubLogin, Installations, Membership, ApiAccess, InlineWorker, LogDiagnosis, TLC

VARIABLE focus

Init ==
  /\ focus \in {"sessions", "login", "installations", "members", "access", "inline", "diagnosis"}
  /\ SessionInit /\ LoginInit /\ InstallInit /\ MemberInit /\ AccessInit /\ InlineInit /\ DiagnosisInit

Next ==
  \/ /\ focus = "sessions" /\ SessionNext
     /\ UNCHANGED <<focus, loginVars, installVars, memberVars, accessVars, inlineVars, diagnosis>>
  \/ /\ focus = "login" /\ LoginNext
     /\ UNCHANGED <<focus, sessionVars, installVars, memberVars, accessVars, inlineVars, diagnosis>>
  \/ /\ focus = "installations" /\ InstallNext
     /\ UNCHANGED <<focus, sessionVars, loginVars, memberVars, accessVars, inlineVars, diagnosis>>
  \/ /\ focus = "members" /\ MemberNext
     /\ UNCHANGED <<focus, sessionVars, loginVars, installVars, accessVars, inlineVars, diagnosis>>
  \/ /\ focus = "access" /\ AccessNext
     /\ UNCHANGED <<focus, sessionVars, loginVars, installVars, memberVars, inlineVars, diagnosis>>
  \/ /\ focus = "inline" /\ InlineNext
     /\ UNCHANGED <<focus, sessionVars, loginVars, installVars, memberVars, accessVars, diagnosis>>
  \/ /\ focus = "diagnosis" /\ DiagnosisNext
     /\ UNCHANGED <<focus, sessionVars, loginVars, installVars, memberVars, accessVars, inlineVars>>

Spec == Init /\ [][Next]_<<focus, sessionVars, loginVars, installVars, memberVars, accessVars,
                           inlineVars, diagnosis>>

\* Every variable of every component has its type.
TypeOK ==
  /\ SessionTypeOK /\ LoginTypeOK /\ InstallTypeOK /\ MemberTypeOK
  /\ AccessTypeOK /\ InlineTypeOK /\ DiagnosisTypeOK

\* One set of values serves several components, of which one moves.
Symmetry == Permutations(Tabs) \cup Permutations(Calls) \cup Permutations(Guests)

Line(name, is, rules) == [name |-> name, is |-> is, rules |-> rules]

\* A line of every sort the regular expressions tell apart, two rules among them.
SomeLines == {
  Line("", {"blank"}, {}),
  Line("Run pytest", {"run"}, {}),
  Line("AssertionError: 1 == 2", {"diagnostic", "meaningful", "signal", "failure"},
       {"UNIT_TEST_FAILURE"}),
  Line("connection timeout", {"diagnostic"}, {"NETWORK_TIMEOUT"}),
  Line("release rejected in step 2", {"diagnostic", "meaningful", "step"}, {}),
  Line("##[error]Process completed with exit code 1.", {"diagnostic", "exit", "failure"}, {})}

=============================================================================
