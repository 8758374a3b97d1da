-------------------------- MODULE SelfUpdateProofs --------------------------
(***************************************************************************)
(* For any number of commits, failures and restarts: an agent that is not  *)
(* updating runs what is checked out, unless a run of the script was cut   *)
(* short.                                                                  *)
(***************************************************************************)
EXTENDS SelfUpdate, TLAPS

\* How far a build has come.
BuildProgress ==
    /\ script = "buildAgent" => built.shared = head
    /\ script = "exit2" => built = Whole(head)

UpdateInv == UpdateTypeOK /\ BuildProgress /\ RunsCheckout

\* The invariant holds initially.
LEMMA UpdateInvInit == UpdateInit => UpdateInv
<1> SUFFICES ASSUME UpdateInit PROVE UpdateInv
  OBVIOUS
<1>1. built = Whole(1) /\ running = Whole(1) /\ Whole(1) \in Build
  BY DEF UpdateInit, Whole, Build
<1>2. UpdateTypeOK
  BY <1>1 DEF UpdateInit, UpdateTypeOK, Rebuilding, Exited
<1>3. BuildProgress
  BY DEF UpdateInit, BuildProgress
<1>4. RunsCheckout
  BY DEF UpdateInit, RunsCheckout
<1>5. QED
  BY <1>2, <1>3, <1>4 DEF UpdateInv

\* A check starts, moves the checkout, or finds nothing to do.
LEMMA CheckInvariant ==
    ASSUME UpdateInv,
           \/ Push \/ CheckForUpdate \/ Sync \/ SyncFails \/ Install
           \/ \E enabled \in BOOLEAN : SetAutoUpdate(enabled)
    PROVE  UpdateInv'
<1> USE DEF UpdateInv, UpdateTypeOK, BuildProgress, RunsCheckout, Rebuilding, Exited, Whole
<1>1. CASE Push
  BY <1>1 DEF Push
<1>2. CASE CheckForUpdate
  BY <1>2 DEF CheckForUpdate
<1>3. CASE Sync
  BY <1>3 DEF Sync
<1>4. CASE SyncFails
  BY <1>4 DEF SyncFails
<1>5. CASE Install
  BY <1>5 DEF Install
<1>6. ASSUME NEW enabled \in BOOLEAN, SetAutoUpdate(enabled)
      PROVE  UpdateInv'
  BY <1>6 DEF SetAutoUpdate
<1>7. QED
  BY <1>1, <1>2, <1>3, <1>4, <1>5, <1>6

\* The two packages are built one after the other, from one commit.
LEMMA BuildInvariant ==
    ASSUME UpdateInv, BuildShared \/ BuildAgent
    PROVE  UpdateInv'
<1> USE DEF UpdateInv, UpdateTypeOK, BuildProgress, RunsCheckout, Rebuilding, Exited, Whole, Build
<1>1. CASE BuildShared
  <2>1. built' \in Build /\ built'.shared = head
    BY <1>1 DEF BuildShared
  <2>2. QED
    BY <1>1, <2>1 DEF BuildShared
<1>2. CASE BuildAgent
  <2>1. built' = Whole(head)
    BY <1>2 DEF BuildAgent
  <2>2. QED
    BY <1>2, <2>1 DEF BuildAgent
<1>3. QED
  BY <1>1, <1>2

\* What an interrupted compilation leaves is still a build.
LEMMA LeftoverIsBuild ==
    ASSUME UpdateTypeOK
    PROVE  /\ Leftover \subseteq Build
           /\ script \notin {"buildShared", "buildAgent"} => Leftover = {built}
BY DEF Leftover, UpdateTypeOK, Build

\* The script ends, by itself or not.
LEMMA ScriptEndInvariant ==
    ASSUME UpdateInv, StepFails \/ OnScriptExit \/ UpdateRestart
    PROVE  UpdateInv'
<1> USE DEF UpdateInv, UpdateTypeOK, BuildProgress, RunsCheckout, Rebuilding, Exited
<1>1. CASE StepFails
  <2>1. built' \in Build
    BY <1>1, LeftoverIsBuild DEF StepFails
  <2>2. QED
    BY <1>1, <2>1 DEF StepFails
<1>2. CASE OnScriptExit
  BY <1>2 DEF OnScriptExit
<1>3. CASE UpdateRestart
  <2>1. built' \in Build /\ (script \notin Rebuilding => built' = built)
    BY <1>3, LeftoverIsBuild DEF UpdateRestart
  <2>2. QED
    BY <1>3, <2>1 DEF UpdateRestart
<1>4. QED
  BY <1>1, <1>2, <1>3

\* Every step keeps the invariant.
LEMMA UpdateInvNext == UpdateInv /\ [UpdateNext]_updateVars => UpdateInv'
<1> SUFFICES ASSUME UpdateInv, [UpdateNext]_updateVars PROVE UpdateInv'
  OBVIOUS
<1>1. CASE UNCHANGED updateVars
  BY <1>1 DEF updateVars, UpdateInv, UpdateTypeOK, BuildProgress, RunsCheckout
<1>2. CASE UpdateNext
  BY <1>2, CheckInvariant, BuildInvariant, ScriptEndInvariant DEF UpdateNext
<1>3. QED
  BY <1>1, <1>2

\* The self-update keeps its types.
THEOREM UpdateTypeCorrect == UpdateSpec => []UpdateTypeOK
<1>1. UpdateInv => UpdateTypeOK
  BY DEF UpdateInv
<1>2. QED
  BY <1>1, UpdateInvInit, UpdateInvNext, PTL DEF UpdateSpec

\* "Already up to date" is true: outside an update the agent runs what is checked
\* out, whole, unless a run of the script was cut short (self-update.sh 20-35).
THEOREM UpToDateIsTrue == UpdateSpec => []RunsCheckout
<1>1. UpdateInv => RunsCheckout
  BY DEF UpdateInv
<1>2. QED
  BY <1>1, UpdateInvInit, UpdateInvNext, PTL DEF UpdateSpec
=============================================================================
