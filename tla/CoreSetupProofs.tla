-------------------------- MODULE CoreSetupProofs ---------------------------
(***************************************************************************)
(* Theorems about CoreSetup, for any backends and any folders.             *)
(***************************************************************************)
EXTENDS CoreSetup, TLAPS

(* A program runs only where the run awaits one, and none once the setup is *)
(* canceled.                                                                *)
KidInv ==
  /\ pc \notin Executing \cup {"done"} => kid = "none"
  /\ pc = "done" => kid = "none" \/ (kid = "abort" /\ ~Installer)
  /\ canceled => kid # "run"
  /\ quitting = "yes" => canceled

(* An installation has its modes prepared and reset, or still to do; all   *)
(* are done when it goes on to the shortcuts.                              *)
ModesInv ==
  request.kind = "install" =>
    /\ pc \notin {"inventory", "detach", "clean", "consent", "report", "squirrel"}
    /\ request.modes \subseteq todo \cup (saved \cap reset)
    /\ pc \in {"links", "apply"} \/ made # {} => todo = {}

(* The reasons to cancel do not go away.                                   *)
CancelInv ==
  /\ CancelIsMeant
  /\ pc = "watch" => parent # "lost"
  /\ pc = "squirrel" => Squirrel

SetupInv == TypeOK /\ KidInv /\ ModesInv /\ CancelInv

LEMMA SetupInit == Init => SetupInv
<1> SUFFICES ASSUME Init PROVE SetupInv
  OBVIOUS
<1>1. /\ request \in Requests /\ request.modes \subseteq Mode
      /\ request.kind = "install" => ~request.cleanup
  BY DEF Init, Requests
<1>2. TypeOK
  <2>1. todo \subseteq Mode /\ plan \subseteq Shortcut
    BY <1>1 DEF Init
  <2>2. pc \in {"watch", "squirrel", "probe"} /\ (kid # "none" => pc = "probe")
    BY <1>1 DEF Init, Installer, Squirrel
  <2>3. ask \in 0 .. opened /\ opened \in Nat /\ made \subseteq Shortcut
    BY DEF Init
  <2>4. kid \in {"none", "run", "abort"} /\ canceled \in BOOLEAN
    BY DEF Init
  <2> QED BY <1>1, <2>1, <2>2, <2>3, <2>4 DEF Init, TypeOK, Executing
<1>3. KidInv
  BY DEF Init, KidInv, Installer, Squirrel, Executing
<1>4. ModesInv /\ CancelInv
  BY <1>1 DEF Init, ModesInv, CancelInv, CancelIsMeant, Installer, Squirrel
<1> QED BY <1>2, <1>3, <1>4 DEF SetupInv

LEMMA SetupSteps == SetupInv /\ SetupStep => SetupInv'
<1> SUFFICES ASSUME SetupInv, SetupStep PROVE SetupInv'
  OBVIOUS
<1> USE DEF SetupInv, Going, run, process, asking, stored, links
<1>1. ASSUME NextMode PROVE SetupInv'
  <2>1. TypeOK' BY <1>1 DEF NextMode, Execute, TypeOK, Executing
  <2>2. KidInv' BY <1>1 DEF NextMode, Execute, KidInv, TypeOK, Executing, Installer
  <2>3. ModesInv' BY <1>1 DEF NextMode, Execute, ModesInv, TypeOK, Installer, Squirrel
  <2>4. CancelInv' BY <1>1 DEF NextMode, Execute, CancelInv, CancelIsMeant, TypeOK, Installer, Squirrel
  <2> QED BY <2>1, <2>2, <2>3, <2>4
<1>2. ASSUME KidAborts PROVE SetupInv'
  <2>1. TypeOK' BY <1>2 DEF KidAborts, TypeOK, Executing
  <2>2. KidInv' BY <1>2 DEF KidAborts, KidInv, TypeOK, Executing, Installer
  <2>3. ModesInv' BY <1>2 DEF KidAborts, ModesInv, TypeOK, Installer, Squirrel
  <2>4. CancelInv' BY <1>2 DEF KidAborts, CancelInv, CancelIsMeant, TypeOK, Installer, Squirrel
  <2> QED BY <2>1, <2>2, <2>3, <2>4
<1>3. ASSUME KidFails PROVE SetupInv'
  <2>1. TypeOK' BY <1>3 DEF KidFails, TypeOK, Executing
  <2>2. KidInv' BY <1>3 DEF KidFails, KidInv, TypeOK, Executing, Installer
  <2>3. ModesInv' BY <1>3 DEF KidFails, ModesInv, TypeOK, Installer, Squirrel
  <2>4. CancelInv' BY <1>3 DEF KidFails, CancelInv, CancelIsMeant, TypeOK, Installer, Squirrel
  <2> QED BY <2>1, <2>2, <2>3, <2>4
<1>4. ASSUME Probed PROVE SetupInv'
  <2>1. TypeOK' BY <1>4 DEF Probed, OpenWindow, TypeOK, Executing
  <2>2. KidInv' BY <1>4 DEF Probed, OpenWindow, KidInv, TypeOK, Executing, Installer
  <2>3. ModesInv' BY <1>4 DEF Probed, OpenWindow, ModesInv, TypeOK, Installer, Squirrel
  <2>4. CancelInv' BY <1>4 DEF Probed, OpenWindow, CancelInv, CancelIsMeant, TypeOK, Installer, Squirrel
  <2> QED BY <2>1, <2>2, <2>3, <2>4
<1>5. ASSUME Select PROVE SetupInv'
  <2>1. TypeOK' BY <1>5 DEF Select, Execute, TypeOK, Executing
  <2>2. KidInv' BY <1>5 DEF Select, Execute, KidInv, TypeOK, Executing, Installer
  <2>3. ModesInv' BY <1>5 DEF Select, Execute, ModesInv, TypeOK, Installer, Squirrel
  <2>4. CancelInv' BY <1>5 DEF Select, Execute, CancelInv, CancelIsMeant, TypeOK, Installer, Squirrel
  <2> QED BY <2>1, <2>2, <2>3, <2>4
<1>6. ASSUME Checked PROVE SetupInv'
  <2>1. TypeOK' BY <1>6 DEF Checked, TypeOK, Executing
  <2>2. KidInv' BY <1>6 DEF Checked, KidInv, TypeOK, Executing, Installer
  <2>3. ModesInv' BY <1>6 DEF Checked, ModesInv, TypeOK, Installer, Squirrel
  <2>4. CancelInv' BY <1>6 DEF Checked, CancelInv, CancelIsMeant, TypeOK, Installer, Squirrel
  <2> QED BY <2>1, <2>2, <2>3, <2>4
<1>7. ASSUME Offer PROVE SetupInv'
  <2>1. TypeOK' BY <1>7 DEF Offer, OpenWindow, TypeOK, Executing
  <2>2. KidInv' BY <1>7 DEF Offer, OpenWindow, KidInv, TypeOK, Executing, Installer
  <2>3. ModesInv' BY <1>7 DEF Offer, OpenWindow, ModesInv, TypeOK, Installer, Squirrel
  <2>4. CancelInv' BY <1>7 DEF Offer, OpenWindow, CancelInv, CancelIsMeant, TypeOK, Installer, Squirrel
  <2> QED BY <2>1, <2>2, <2>3, <2>4
<1>8. ASSUME WindowLoads PROVE SetupInv'
  <2>1. TypeOK' BY <1>8 DEF WindowLoads, Execute, TypeOK, Executing
  <2>2. KidInv' BY <1>8 DEF WindowLoads, Execute, KidInv, TypeOK, Executing, Installer
  <2>3. ModesInv' BY <1>8 DEF WindowLoads, Execute, ModesInv, TypeOK, Installer, Squirrel
  <2>4. CancelInv' BY <1>8 DEF WindowLoads, Execute, CancelInv, CancelIsMeant, TypeOK, Installer, Squirrel
  <2> QED BY <2>1, <2>2, <2>3, <2>4
<1>9. ASSUME EnvironmentMade PROVE SetupInv'
  <2>1. TypeOK' BY <1>9 DEF EnvironmentMade, TypeOK, Executing
  <2>2. KidInv' BY <1>9 DEF EnvironmentMade, KidInv, TypeOK, Executing, Installer
  <2>3. ModesInv' BY <1>9 DEF EnvironmentMade, ModesInv, TypeOK, Installer, Squirrel
  <2>4. CancelInv' BY <1>9 DEF EnvironmentMade, CancelInv, CancelIsMeant, TypeOK, Installer, Squirrel
  <2> QED BY <2>1, <2>2, <2>3, <2>4
<1>10. ASSUME Save PROVE SetupInv'
  <2>1. TypeOK' BY <1>10 DEF Save, Finish, TypeOK, Executing
  <2>2. KidInv' BY <1>10 DEF Save, Finish, KidInv, TypeOK, Executing, Installer
  <2>3. ModesInv' BY <1>10 DEF Save, Finish, ModesInv, TypeOK, Installer, Squirrel
  <2>4. CancelInv' BY <1>10 DEF Save, Finish, CancelInv, CancelIsMeant, TypeOK, Installer, Squirrel
  <2> QED BY <2>1, <2>2, <2>3, <2>4
<1>11. ASSUME Reset PROVE SetupInv'
  <2>1. TypeOK' BY <1>11 DEF Reset, TypeOK, Executing
  <2>2. KidInv' BY <1>11 DEF Reset, KidInv, TypeOK, Executing, Installer
  <2>3. ModesInv' BY <1>11 DEF Reset, ModesInv, TypeOK, Installer, Squirrel
  <2>4. CancelInv' BY <1>11 DEF Reset, CancelInv, CancelIsMeant, TypeOK, Installer, Squirrel
  <2> QED BY <2>1, <2>2, <2>3, <2>4
<1> QED BY <1>1, <1>2, <1>3, <1>4, <1>5, <1>6, <1>7, <1>8, <1>9, <1>10, <1>11 DEF SetupStep

LEMMA CleanupSteps == SetupInv /\ CleanupStep => SetupInv'
<1> SUFFICES ASSUME SetupInv, CleanupStep PROVE SetupInv'
  OBVIOUS
<1> USE DEF SetupInv, Going, run, process, asking, stored, links
<1>1. ASSUME Clean PROVE SetupInv'
  <2>1. TypeOK' BY <1>1 DEF Clean, Execute, TypeOK, Executing
  <2>2. KidInv' BY <1>1 DEF Clean, Execute, KidInv, TypeOK, Executing, Installer
  <2>3. ModesInv' BY <1>1 DEF Clean, Execute, ModesInv, TypeOK, Installer, Squirrel
  <2>4. CancelInv' BY <1>1 DEF Clean, Execute, CancelInv, CancelIsMeant, TypeOK, Installer, Squirrel
  <2> QED BY <2>1, <2>2, <2>3, <2>4
<1>2. ASSUME Inventoried PROVE SetupInv'
  <2>1. TypeOK' BY <1>2 DEF Inventoried, TypeOK, Executing
  <2>2. KidInv' BY <1>2 DEF Inventoried, KidInv, TypeOK, Executing, Installer
  <2>3. ModesInv' BY <1>2 DEF Inventoried, ModesInv, TypeOK, Installer, Squirrel
  <2>4. CancelInv' BY <1>2 DEF Inventoried, CancelInv, CancelIsMeant, TypeOK, Installer, Squirrel
  <2> QED BY <2>1, <2>2, <2>3, <2>4
<1>3. ASSUME Consent PROVE SetupInv'
  <2>1. TypeOK' BY <1>3 DEF Consent, Execute, TypeOK, Executing
  <2>2. KidInv' BY <1>3 DEF Consent, Execute, KidInv, TypeOK, Executing, Installer
  <2>3. ModesInv' BY <1>3 DEF Consent, Execute, ModesInv, TypeOK, Installer, Squirrel
  <2>4. CancelInv' BY <1>3 DEF Consent, Execute, CancelInv, CancelIsMeant, TypeOK, Installer, Squirrel
  <2> QED BY <2>1, <2>2, <2>3, <2>4
<1>4. ASSUME Detached PROVE SetupInv'
  <2>1. TypeOK' BY <1>4 DEF Detached, TypeOK, Executing
  <2>2. KidInv' BY <1>4 DEF Detached, KidInv, TypeOK, Executing, Installer
  <2>3. ModesInv' BY <1>4 DEF Detached, ModesInv, TypeOK, Installer, Squirrel
  <2>4. CancelInv' BY <1>4 DEF Detached, CancelInv, CancelIsMeant, TypeOK, Installer, Squirrel
  <2> QED BY <2>1, <2>2, <2>3, <2>4
<1>5. ASSUME Report PROVE SetupInv'
  <2>1. TypeOK' BY <1>5 DEF Report, TypeOK, Executing
  <2>2. KidInv' BY <1>5 DEF Report, KidInv, TypeOK, Executing, Installer
  <2>3. ModesInv' BY <1>5 DEF Report, ModesInv, TypeOK, Installer, Squirrel
  <2>4. CancelInv' BY <1>5 DEF Report, CancelInv, CancelIsMeant, TypeOK, Installer, Squirrel
  <2> QED BY <2>1, <2>2, <2>3, <2>4
<1> QED BY <1>1, <1>2, <1>3, <1>4, <1>5 DEF CleanupStep

LEMMA ShortcutSteps == SetupInv /\ ShortcutStep => SetupInv'
<1> SUFFICES ASSUME SetupInv, ShortcutStep PROVE SetupInv'
  OBVIOUS
<1> USE DEF SetupInv, Going, run, process, asking, stored, links
<1>1. ASSUME Plan PROVE SetupInv'
  <2>1. TypeOK' BY <1>1 DEF Plan, TypeOK, Executing
  <2>2. KidInv' BY <1>1 DEF Plan, KidInv, TypeOK, Executing, Installer
  <2>3. ModesInv' BY <1>1 DEF Plan, ModesInv, TypeOK, Installer, Squirrel
  <2>4. CancelInv' BY <1>1 DEF Plan, CancelInv, CancelIsMeant, TypeOK, Installer, Squirrel
  <2> QED BY <2>1, <2>2, <2>3, <2>4
<1>2. ASSUME Apply PROVE SetupInv'
  <2>1. TypeOK' BY <1>2 DEF Apply, Finish, Put, Remove, TypeOK, Executing
  <2>2. KidInv' BY <1>2 DEF Apply, Finish, Put, Remove, KidInv, TypeOK, Executing, Installer
  <2>3. ModesInv' BY <1>2 DEF Apply, Finish, Put, Remove, ModesInv, TypeOK, Installer, Squirrel
  <2>4. CancelInv' BY <1>2 DEF Apply, Finish, Put, Remove, CancelInv, CancelIsMeant, TypeOK, Installer, Squirrel
  <2> QED BY <2>1, <2>2, <2>3, <2>4
<1>3. ASSUME SquirrelApply PROVE SetupInv'
  <2>1. TypeOK' BY <1>3 DEF SquirrelApply, Finish, Put, Remove, TypeOK, Executing
  <2>2. KidInv' BY <1>3 DEF SquirrelApply, Finish, Put, Remove, KidInv, TypeOK, Executing, Installer
  <2>3. ModesInv' BY <1>3 DEF SquirrelApply, Finish, Put, Remove, ModesInv, TypeOK, Installer, Squirrel
  <2>4. CancelInv' BY <1>3 DEF SquirrelApply, Finish, Put, Remove, CancelInv, CancelIsMeant, TypeOK, Installer, Squirrel
  <2> QED BY <2>1, <2>2, <2>3, <2>4
<1> QED BY <1>1, <1>2, <1>3 DEF ShortcutStep

LEMMA OwnerSteps == SetupInv /\ OwnerStep => SetupInv'
<1> SUFFICES ASSUME SetupInv, OwnerStep PROVE SetupInv'
  OBVIOUS
<1> USE DEF SetupInv, Going, run, process, asking, stored, links
<1>1. ASSUME ParentWatched PROVE SetupInv'
  <2>1. TypeOK' BY <1>1 DEF ParentWatched, TypeOK, Executing
  <2>2. KidInv' BY <1>1 DEF ParentWatched, KidInv, TypeOK, Executing, Installer
  <2>3. ModesInv' BY <1>1 DEF ParentWatched, ModesInv, TypeOK, Installer, Squirrel
  <2>4. CancelInv' BY <1>1 DEF ParentWatched, CancelInv, CancelIsMeant, TypeOK, Installer, Squirrel
  <2> QED BY <2>1, <2>2, <2>3, <2>4
<1>2. ASSUME ParentLost PROVE SetupInv'
  <2>1. TypeOK' BY <1>2 DEF ParentLost, Cancel, TypeOK, Executing
  <2>2. KidInv' BY <1>2 DEF ParentLost, Cancel, KidInv, TypeOK, Executing, Installer
  <2>3. ModesInv' BY <1>2 DEF ParentLost, Cancel, ModesInv, TypeOK, Installer, Squirrel
  <2>4. CancelInv' BY <1>2 DEF ParentLost, Cancel, CancelInv, CancelIsMeant, TypeOK, Installer, Squirrel
  <2> QED BY <2>1, <2>2, <2>3, <2>4
<1>3. ASSUME LossExits PROVE SetupInv'
  <2>1. TypeOK' BY <1>3 DEF LossExits, Finish, TypeOK, Executing
  <2>2. KidInv' BY <1>3 DEF LossExits, Finish, KidInv, TypeOK, Executing, Installer
  <2>3. ModesInv' BY <1>3 DEF LossExits, Finish, ModesInv, TypeOK, Installer, Squirrel
  <2>4. CancelInv' BY <1>3 DEF LossExits, Finish, CancelInv, CancelIsMeant, TypeOK, Installer, Squirrel
  <2> QED BY <2>1, <2>2, <2>3, <2>4
<1>4. ASSUME Fails PROVE SetupInv'
  <2>1. TypeOK' BY <1>4 DEF Fails, Finish, Cancel, TypeOK, Executing
  <2>2. KidInv' BY <1>4 DEF Fails, Finish, Cancel, KidInv, TypeOK, Executing, Installer
  <2>3. ModesInv' BY <1>4 DEF Fails, Finish, Cancel, ModesInv, TypeOK, Installer, Squirrel
  <2>4. CancelInv' BY <1>4 DEF Fails, Finish, Cancel, CancelInv, CancelIsMeant, TypeOK, Installer, Squirrel
  <2> QED BY <2>1, <2>2, <2>3, <2>4
<1> QED BY <1>1, <1>2, <1>3, <1>4 DEF OwnerStep

LEMMA UserSteps == SetupInv /\ UserStep => SetupInv'
<1> SUFFICES ASSUME SetupInv, UserStep PROVE SetupInv'
  OBVIOUS
<1> USE DEF SetupInv, Going, run, process, asking, stored, links
<1>1. ASSUME CloseRequest PROVE SetupInv'
  <2>1. TypeOK' BY <1>1 DEF CloseRequest, TypeOK, Executing
  <2>2. KidInv' BY <1>1 DEF CloseRequest, KidInv, TypeOK, Executing, Installer
  <2>3. ModesInv' BY <1>1 DEF CloseRequest, ModesInv, TypeOK, Installer, Squirrel
  <2>4. CancelInv' BY <1>1 DEF CloseRequest, CancelInv, CancelIsMeant, TypeOK, Installer, Squirrel
  <2> QED BY <2>1, <2>2, <2>3, <2>4
<1>2. ASSUME QuitRequest PROVE SetupInv'
  <2>1. TypeOK'
    <3>1. ask' \in 0 .. opened'
      BY <1>2 DEF QuitRequest, TypeOK
    <3> QED BY <1>2, <3>1 DEF QuitRequest, Cancel, TypeOK, Executing
  <2>2. KidInv' BY <1>2 DEF QuitRequest, Cancel, KidInv, TypeOK, Executing, Installer
  <2>3. ModesInv' BY <1>2 DEF QuitRequest, Cancel, ModesInv, TypeOK, Installer, Squirrel
  <2>4. CancelInv' BY <1>2 DEF QuitRequest, Cancel, CancelInv, CancelIsMeant, TypeOK, Installer, Squirrel
  <2> QED BY <2>1, <2>2, <2>3, <2>4
<1>3. ASSUME QuitExits PROVE SetupInv'
  <2>1. TypeOK' BY <1>3 DEF QuitExits, Finish, TypeOK, Executing
  <2>2. KidInv' BY <1>3 DEF QuitExits, Finish, KidInv, TypeOK, Executing, Installer
  <2>3. ModesInv' BY <1>3 DEF QuitExits, Finish, ModesInv, TypeOK, Installer, Squirrel
  <2>4. CancelInv' BY <1>3 DEF QuitExits, Finish, CancelInv, CancelIsMeant, TypeOK, Installer, Squirrel
  <2> QED BY <2>1, <2>2, <2>3, <2>4
<1>4. ASSUME NEW c \in BOOLEAN, Answer(c) PROVE SetupInv'
  <2>1. TypeOK'
    <3>1. meant' \in BOOLEAN
      BY <1>4 DEF Answer
    <3>2. ask' \in 0 .. opened'
      BY <1>4 DEF Answer, TypeOK
    <3>3. canceled' \in BOOLEAN /\ kid' \in {"none", "run", "abort"}
      BY <1>4 DEF Answer, Cancel, TypeOK
    <3> QED BY <1>4, <3>1, <3>2, <3>3 DEF Answer, Cancel, TypeOK, Executing
  <2>2. KidInv' BY <1>4 DEF Answer, Cancel, Confirmed, KidInv, TypeOK, Executing, Installer
  <2>3. ModesInv' BY <1>4 DEF Answer, Cancel, Confirmed, ModesInv, TypeOK, Installer, Squirrel
  <2>4. CancelInv' BY <1>4 DEF Answer, Cancel, Confirmed, CancelInv, CancelIsMeant, TypeOK, Installer, Squirrel
  <2> QED BY <2>1, <2>2, <2>3, <2>4
<1> QED BY <1>1, <1>2, <1>3, <1>4 DEF UserStep

LEMMA SetupStutter == SetupInv /\ UNCHANGED vars => SetupInv'
<1> SUFFICES ASSUME SetupInv, UNCHANGED vars PROVE SetupInv'
  OBVIOUS
<1> USE DEF SetupInv, vars, run, process, asking, stored, links
<1>1. TypeOK' BY DEF TypeOK, Executing, Shortcut
<1>2. KidInv' BY DEF KidInv, Executing, Installer
<1>3. ModesInv' BY DEF ModesInv
<1>4. CancelInv' BY DEF CancelInv, CancelIsMeant, Squirrel
<1> QED BY <1>1, <1>2, <1>3, <1>4

LEMMA SetupHolds == Spec => []SetupInv
<1>1. SetupInv /\ [Next]_vars => SetupInv'
  BY SetupSteps, CleanupSteps, ShortcutSteps, OwnerSteps, UserSteps, SetupStutter DEF Next
<1> QED BY <1>1, SetupInit, PTL DEF Spec

-----------------------------------------------------------------------------
(* The installer writes a shortcut only when every mode that was chosen is *)
(* prepared and returned to the bundled Core (performMaintenance).         *)
THEOREM ShortcutsComeLast == Spec => []ShortcutsFollowSetup
<1>1. SetupInv => ShortcutsFollowSetup
  BY DEF SetupInv, ModesInv, ShortcutsFollowSetup
<1> QED BY <1>1, SetupHolds, PTL

(* Nothing is canceled without a reason (requestSetupCancel).              *)
THEOREM CancelsAreMeant == Spec => []CancelIsMeant
<1>1. SetupInv => CancelIsMeant
  BY DEF SetupInv, CancelInv
<1> QED BY <1>1, SetupHolds, PTL

(* The run ends with no program that was not told to end (stopSetup).      *)
THEOREM NoProgramIsLeft == Spec => []NothingLeftRunning
<1>1. SetupInv => NothingLeftRunning
  BY DEF SetupInv, KidInv, NothingLeftRunning
<1> QED BY <1>1, SetupHolds, PTL

=============================================================================
