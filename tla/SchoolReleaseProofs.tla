------------------------ MODULE SchoolReleaseProofs ------------------------
(***************************************************************************)
(* What the release of two origins keeps, for any two projects and however *)
(* often another writer intervenes, requests fail, answers are lost and    *)
(* deployments take effect late.                                           *)
(*                                                                         *)
(* All theorems rest on one idea: a project the runner is certain of       *)
(* has no request under way, so what it serves only another writer can     *)
(* change, and what another writer put there never becomes ours again      *)
(* (Kept).  The runner's phases say which projects it has made certain.    *)
(*                                                                         *)
(* Then the build that is released and its completion in the admin's journal*)
(* (ObservedBuild, ReleaseCompletion): both are of one state of the files. *)
(* The package for Workers (WorkersPackage): one with a receipt is of one   *)
(* candidate.  At last the generator of the data (SchoolGeneration): what   *)
(* its receipt says is true, and no file of others is lost.                 *)
(***************************************************************************)
EXTENDS SchoolRelease, SequenceTheorems, TLAPS

Pending(t) == job[t] \in {"prev", "next"}

\* The runner knows the end of its last request to t, after which t served v.
Kept(t, v) == t \notin uncertain /\ live[t] \in {v, "other"}

Looks == {"look", "read", "again"}
Mutations == {"start", "previous", "recheck", "post", "settle", "confirm"}
Places == [phase : {"preflight", "verify", "final", "restore"}, k : {1, 2}, step : Looks]
            \cup [phase : {"deploy", "undo"}, k : {1, 2}, step : Mutations]
            \cup [phase : {"done"}, k : {1}, step : {"done"}]

TypesOK ==
    /\ live \in [Targets -> {"prev", "next", "other"}]
    /\ job \in [Targets -> {"none", "prev", "next", "failed"}]
    /\ uncertain \subseteq Targets /\ owned \subseteq Targets /\ failed \subseteq Targets
    /\ order \in Orders /\ at \in Places
    /\ outcome \in {"none", "refused", "complete", "rolled-back", "recovery-required"}
    /\ late \in BOOLEAN /\ foreign \in 0..ForeignMax /\ together \subseteq {"prev", "next"}

\* What is true of the service and of another writer wherever the runner is.
WorldOK ==
    /\ \A t \in Targets : Pending(t) => t \in uncertain
    /\ \A t \in Targets : live[t] = "other" => foreign # 0
    /\ "next" \in Both(live) => "next" \in together
    /\ Phase({"undo", "restore"}) /\ "prev" \in Both(live) => "prev" \in together

\* Inside one mutation: it started certain, and settles on its own request.
StepOK ==
    Phase({"deploy", "undo"}) =>
        /\ at.step \in {"previous", "recheck", "post", "confirm"} => Target \notin uncertain
        /\ at.step = "settle" => job[Target] \in {Expected, "none", "failed"}

\* What the phases before have established.
PhaseOK ==
    /\ Phase({"deploy"}) /\ at.k = 2 => Kept(order[1], "next")
    /\ Phase({"verify"}) => Kept(order[1], "next") /\ (at.k = 2 => Kept(order[2], "next"))
    /\ Phase({"final"}) =>
         /\ Kept(order[1], "next") /\ Kept(order[2], "next")
         /\ "next" \in together \/ (at.k = 1 /\ live[order[1]] = "other")
    /\ Phase({"undo"}) /\ at.k = 2 => order[2] \in failed \/ Kept(order[2], "prev")
    /\ Phase({"restore"}) =>
         /\ \A t \in Targets : t \in failed \/ Kept(t, "prev")
         /\ failed # {} \/ "prev" \in together \/ live[order[2]] = "other"

OutcomeOK ==
    /\ ~Phase({"done"}) => outcome = "none"
    /\ outcome = "complete" => "next" \in together /\ \A t \in Targets : Kept(t, "next")
    /\ outcome = "rolled-back" => "prev" \in together /\ \A t \in Targets : Kept(t, "prev")

\* The inductive invariant.
ReleaseInv == TypesOK /\ WorldOK /\ StepOK /\ PhaseOK /\ OutcomeOK

-----------------------------------------------------------------------------
(* The two projects.                                                       *)

LEMMA OrderIsBoth ==
    ASSUME ReleaseAssumption, order \in Orders
    PROVE  /\ order[1] \in Targets /\ order[2] \in Targets /\ order[1] # order[2]
           /\ \A t \in Targets : t = order[1] \/ t = order[2]
BY DEF ReleaseAssumption, Orders

LEMMA TargetIsOne ==
    ASSUME ReleaseAssumption, TypesOK, ~Phase({"done"})
    PROVE  /\ Target \in Targets
           /\ Phase({"undo"}) => Target = IF at.k = 1 THEN order[2] ELSE order[1]
           /\ ~Phase({"undo"}) => Target = order[at.k]
           /\ at.k \in {1, 2}
<1>1. at.k \in {1, 2}
  BY DEF TypesOK, Places
<1> QED BY <1>1, OrderIsBoth DEF TypesOK, Target

LEMMA InitInv == ReleaseAssumption => (Init => ReleaseInv)
<1> SUFFICES ASSUME ReleaseAssumption, Init
             PROVE  ReleaseInv
  OBVIOUS
<1>1. at = [phase |-> "preflight", k |-> 1, step |-> "look"]
  BY DEF Init, Place
<1>2. TypesOK
  <2>1. at \in Places
    BY <1>1 DEF Places, Looks
  <2>2. live \in [Targets -> {"prev", "next", "other"}]
        /\ job \in [Targets -> {"none", "prev", "next", "failed"}]
    BY DEF Init
  <2>3. foreign \in 0..ForeignMax
    BY DEF Init, ReleaseAssumption
  <2> QED BY <2>1, <2>2, <2>3 DEF Init, TypesOK
<1>3. "next" \notin Both(live)
  BY DEF Init, Both, ReleaseAssumption
<1>4. \A t \in Targets : job[t] = "none" /\ live[t] = "prev"
  BY DEF Init
<1>7. ~Phase({"undo", "restore"})
  BY <1>1 DEF Phase
<1>6. WorldOK
  BY <1>3, <1>4, <1>7 DEF WorldOK, Pending
<1>5. StepOK /\ PhaseOK /\ OutcomeOK
  BY <1>1 DEF Init, StepOK, PhaseOK, OutcomeOK, Phase
<1> QED BY <1>2, <1>6, <1>5 DEF ReleaseInv
-----------------------------------------------------------------------------
(* The two ends of a step of the runner.                                   *)

\* What a step of the runner leaves alone, whichever way it ends.
RunnerStep ==
    /\ live' = live /\ order' = order /\ foreign' = foreign /\ late' \in BOOLEAN
    /\ job' \in [Targets -> {"none", "prev", "next", "failed"}]
    /\ owned' \subseteq Targets
    /\ uncertain' \subseteq uncertain \cup {Target}
    /\ Phase({"preflight", "verify", "final", "restore"}) => uncertain' = uncertain
    /\ \A t \in Targets : job'[t] \in {"prev", "next"} => t \in uncertain'

\* A failure ends the release before anything was changed, turns a release
\* into its rollback, or is recorded and the rollback goes on
\* (school-release.mjs, runSchoolRelease and its catch).
LEMMA FailKeeps ==
    ASSUME ReleaseAssumption, ReleaseInv, ~Phase({"done"}), RunnerStep, Fail
    PROVE  ReleaseInv'
<1> USE DEF ReleaseInv
<1>1. Target \in Targets /\ uncertain' \subseteq Targets /\ order[1] # order[2]
  BY TargetIsOne, OrderIsBoth DEF RunnerStep, TypesOK
<1>2. at \in Places /\ at.k \in {1, 2}
  BY DEF TypesOK, Places
<1>3. CASE Phase({"preflight"})
  <2>1. at' = [phase |-> "done", k |-> 1, step |-> "done"] /\ outcome' = "refused"
        /\ UNCHANGED <<failed, together>>
    BY <1>3 DEF Fail, Phase, Place
  <2>2. TypesOK'
    BY <2>1, <1>1 DEF TypesOK, RunnerStep, Places
  <2>3. WorldOK'
    BY <2>1 DEF WorldOK, RunnerStep, Phase, Both, Pending
  <2>4. StepOK' /\ PhaseOK' /\ OutcomeOK'
    BY <2>1 DEF StepOK, PhaseOK, OutcomeOK, Phase
  <2> QED BY <2>2, <2>3, <2>4
<1>4. CASE Phase({"deploy", "verify", "final"})
  <2>1. at' = [phase |-> "undo", k |-> 1, step |-> "start"] /\ together' = Both(live)
        /\ UNCHANGED <<failed, outcome>>
    BY <1>4 DEF Fail, Phase, First, Place
  <2>2. TypesOK'
    BY <2>1, <1>1 DEF TypesOK, RunnerStep, Places, Mutations, Both
  <2>3. WorldOK'
    BY <2>1 DEF WorldOK, RunnerStep, Phase, Both, Pending
  <2>4. StepOK' /\ PhaseOK'
    BY <2>1 DEF StepOK, PhaseOK, Phase
  <2>5. OutcomeOK'
    BY <2>1, <1>4 DEF OutcomeOK, Phase
  <2> QED BY <2>2, <2>3, <2>4, <2>5
<1>5. CASE Phase({"undo"})
  <2>1. failed' = failed \cup {Target} /\ UNCHANGED <<outcome, together>>
        /\ at' = IF at.k = 1 THEN [phase |-> "undo", k |-> 2, step |-> "start"]
                             ELSE [phase |-> "restore", k |-> 1, step |-> "look"]
    BY <1>5, <1>2 DEF Fail, Phase, First, Place, Recorded, Onward
  <2>2. TypesOK'
    BY <2>1, <1>1, <1>2 DEF TypesOK, RunnerStep, Places, Mutations, Looks
  <2>3. WorldOK'
    BY <2>1, <1>5 DEF WorldOK, RunnerStep, Phase, Both, Pending
  <2>4. StepOK'
    BY <2>1 DEF StepOK, Phase
  <2>5. OutcomeOK'
    BY <2>1, <1>5 DEF OutcomeOK, Phase
  <2>6. PhaseOK'
    <3>1. CASE at.k = 1
      <4>1. order'[2] \in failed'
        BY <2>1, <3>1, <1>5, TargetIsOne DEF RunnerStep
      <4> QED BY <4>1, <2>1, <3>1 DEF PhaseOK, Phase
    <3>2. CASE at.k = 2
      <4>1. order[2] \in failed' \/ (order[2] \notin uncertain' /\ live[order[2]] \in {"prev", "other"})
        BY <2>1, <3>2, <1>5, <1>1, TargetIsOne DEF RunnerStep, PhaseOK, Kept
      <4>2. order[1] \in failed'
        BY <2>1, <3>2, <1>5, TargetIsOne
      <4>3. \A t \in Targets : t \in failed' \/ Kept(t, "prev")'
        BY <4>1, <4>2, OrderIsBoth DEF TypesOK, RunnerStep, Kept
      <4> QED BY <4>2, <4>3, <2>1, <3>2 DEF PhaseOK, Phase
    <3> QED BY <3>1, <3>2, <1>2
  <2> QED BY <2>2, <2>3, <2>4, <2>5, <2>6
<1>6. CASE Phase({"restore"})
  <2>1. failed' = failed \cup {Target} /\ UNCHANGED together /\ uncertain' = uncertain
    BY <1>6 DEF Fail, Phase, Recorded, RunnerStep
  <2>2. \/ /\ at' = [phase |-> "restore", k |-> 2, step |-> "look"] /\ outcome' = outcome
        \/ /\ at' = [phase |-> "done", k |-> 1, step |-> "done"]
           /\ outcome' \in {"none", "recovery-required"}
    <3>1. at' = Onward
          /\ outcome' = IF at = Place("restore", 2, at.step) THEN Verdict(failed') ELSE outcome
      BY <1>6 DEF Fail, Phase, Recorded
    <3>2. Verdict(failed') = "recovery-required"
      BY <2>1 DEF Verdict
    <3>3. CASE at.k = 1
      BY <3>1, <3>3, <1>6 DEF Onward, First, Place, Phase
    <3>4. CASE at.k = 2
      <4>1. outcome = "none"
        BY <1>6 DEF OutcomeOK, Phase
      <4>2. at' = [phase |-> "done", k |-> 1, step |-> "done"]
        BY <3>1, <3>4, <1>6 DEF Onward, Place, Phase
      <4> QED BY <4>1, <4>2, <3>1, <3>2
    <3> QED BY <3>3, <3>4, <1>2
  <2>3. TypesOK'
    BY <2>1, <2>2, <1>1 DEF TypesOK, RunnerStep, Places, Looks
  <2>4. WorldOK'
    BY <2>1, <2>2, <1>6 DEF WorldOK, RunnerStep, Phase, Both, Pending
  <2>5. StepOK' /\ OutcomeOK'
    BY <2>2, <1>6 DEF StepOK, OutcomeOK, Phase
  <2>6. PhaseOK'
    BY <2>1, <2>2, <1>6, <1>1 DEF PhaseOK, Phase, Kept, RunnerStep
  <2> QED BY <2>3, <2>4, <2>5, <2>6
<1> QED BY <1>2, <1>3, <1>4, <1>5, <1>6 DEF Phase, Places

\* A step that succeeds has seen what it expected; a mutation that succeeds has
\* made its project certain again.
LEMMA SucceedKeeps ==
    ASSUME ReleaseAssumption, ReleaseInv, ~Phase({"done"}), Succeed,
           UNCHANGED <<live, job, uncertain, owned, order, late, foreign>>,
           live[Target] = Expected,
           Phase({"deploy", "undo"}) => at.step = "confirm"
    PROVE  ReleaseInv'
<1> USE DEF ReleaseInv
<1>1. Target \in Targets /\ order[1] # order[2] /\ at \in Places /\ at.k \in {1, 2}
  BY TargetIsOne, OrderIsBoth DEF TypesOK, Places
<1>2. outcome = "none"
  BY DEF OutcomeOK
<1>3. CASE ~Phase({"undo", "restore"}) /\ ~InBudget
  <2>1. Fail
    BY <1>3 DEF Succeed, Phase
  <2>2. RunnerStep
    BY DEF RunnerStep, TypesOK, WorldOK, Pending
  <2> QED BY <2>1, <2>2, FailKeeps
<1>4. CASE ~Phase({"undo", "restore"}) /\ InBudget
  <2>1. /\ at' = Onward /\ UNCHANGED <<failed, together>>
        /\ outcome' = IF Phase({"final"}) /\ at.k = 2 THEN "complete" ELSE "none"
    BY <1>2, <1>4 DEF Succeed, Phase
  <2>2. CASE Phase({"preflight"})
    <3>1. /\ at' = IF at.k = 1 THEN [phase |-> "preflight", k |-> 2, step |-> "look"]
                               ELSE [phase |-> "deploy", k |-> 1, step |-> "start"]
          /\ outcome' = "none"
      BY <2>1, <2>2, <1>1 DEF Onward, First, Place, Phase
    <3>2. TypesOK'
      BY <3>1, <2>1, <1>1 DEF TypesOK, Places, Looks, Mutations
    <3>3. WorldOK'
      BY <3>1, <2>1 DEF WorldOK, Phase, Both, Pending
    <3>4. StepOK' /\ PhaseOK' /\ OutcomeOK'
      BY <3>1, <1>1 DEF StepOK, PhaseOK, OutcomeOK, Phase
    <3> QED BY <3>2, <3>3, <3>4
  <2>3. CASE Phase({"deploy"})
    <3>1. at' = [phase |-> "verify", k |-> at.k, step |-> "look"] /\ outcome' = "none"
      BY <2>1, <2>3, <1>1 DEF Onward, First, Place, Phase
    <3>2. TypesOK'
      BY <3>1, <2>1, <1>1 DEF TypesOK, Places, Looks
    <3>3. WorldOK'
      BY <3>1, <2>1 DEF WorldOK, Phase, Both, Pending
    <3>4. Kept(order[at.k], "next")
      BY <2>3, TargetIsOne DEF StepOK, Phase, Expected, Kept
    <3>5. PhaseOK'
      BY <3>1, <3>4, <2>3, <1>1 DEF PhaseOK, Phase, Kept
    <3>6. StepOK' /\ OutcomeOK'
      BY <3>1 DEF StepOK, OutcomeOK, Phase
    <3> QED BY <3>2, <3>3, <3>5, <3>6
  <2>4. CASE Phase({"verify"})
    <3>1. /\ at' = IF at.k = 1 THEN [phase |-> "deploy", k |-> 2, step |-> "start"]
                               ELSE [phase |-> "final", k |-> 1, step |-> "look"]
          /\ outcome' = "none"
      BY <2>1, <2>4, <1>1 DEF Onward, First, Place, Phase
    <3>2. TypesOK'
      BY <3>1, <2>1, <1>1 DEF TypesOK, Places, Looks, Mutations
    <3>3. WorldOK'
      BY <3>1, <2>1 DEF WorldOK, Phase, Both, Pending
    <3>4. ASSUME at.k = 2
          PROVE  "next" \in together \/ live[order[1]] = "other"
      <4>1. live[order[2]] = "next" /\ live[order[1]] \in {"next", "other"}
        BY <2>4, <3>4, TargetIsOne DEF Expected, Phase, PhaseOK, Kept
      <4>2. live[order[1]] = "next" => "next" \in Both(live)
        BY <4>1, OrderIsBoth DEF TypesOK, Both
      <4> QED BY <4>1, <4>2 DEF WorldOK
    <3>5. PhaseOK'
      BY <3>1, <3>4, <2>1, <2>4, <1>1 DEF PhaseOK, Phase, Kept
    <3>6. StepOK' /\ OutcomeOK'
      BY <3>1 DEF StepOK, OutcomeOK, Phase
    <3> QED BY <3>2, <3>3, <3>5, <3>6
  <2>5. CASE Phase({"final"})
    <3>1. /\ at' = IF at.k = 1 THEN [phase |-> "final", k |-> 2, step |-> "look"]
                               ELSE [phase |-> "done", k |-> 1, step |-> "done"]
          /\ outcome' = IF at.k = 1 THEN "none" ELSE "complete"
      BY <2>1, <2>5, <1>1 DEF Onward, First, Place, Phase
    <3>2. TypesOK'
      BY <3>1, <2>1, <1>1 DEF TypesOK, Places, Looks
    <3>3. WorldOK'
      BY <3>1, <2>1 DEF WorldOK, Phase, Both, Pending
    <3>4. /\ Kept(order[1], "next") /\ Kept(order[2], "next")
          /\ "next" \in together \/ (at.k = 1 /\ live[order[1]] = "other")
      BY <2>5 DEF PhaseOK
    <3>5. at.k = 1 => live[order[1]] = "next"
      BY <2>5, TargetIsOne DEF Expected, Phase
    <3>6. "next" \in together
      BY <3>4, <3>5
    <3>7. PhaseOK'
      BY <3>1, <3>4, <3>6, <2>1, <1>1 DEF PhaseOK, Phase, Kept
    <3>8. OutcomeOK'
      <4>1. \A t \in Targets : Kept(t, "next")
        BY <3>4, OrderIsBoth DEF TypesOK
      <4> QED BY <4>1, <3>1, <3>6, <2>1, <1>1 DEF OutcomeOK, Phase, Kept
    <3>9. StepOK'
      BY <3>1 DEF StepOK, Phase
    <3> QED BY <3>2, <3>3, <3>7, <3>8, <3>9
  <2> QED BY <1>1, <1>4, <2>2, <2>3, <2>4, <2>5 DEF Phase, Places
<1>5. CASE Phase({"undo"})
  <2>1. UNCHANGED <<failed, together>> /\ outcome' = "none"
        /\ at' = IF at.k = 1 THEN [phase |-> "undo", k |-> 2, step |-> "start"]
                             ELSE [phase |-> "restore", k |-> 1, step |-> "look"]
    BY <1>5, <1>1, <1>2 DEF Succeed, Phase, First, Place, Recorded, Onward
  <2>2. TypesOK'
    BY <2>1, <1>1 DEF TypesOK, Places, Mutations, Looks
  <2>3. WorldOK'
    BY <2>1, <1>5 DEF WorldOK, Phase, Both, Pending
  <2>4. StepOK' /\ OutcomeOK'
    BY <2>1 DEF StepOK, OutcomeOK, Phase
  <2>5. Kept(Target, "prev") /\ live[Target] = "prev"
    BY <1>5 DEF StepOK, Phase, Expected, Kept
  <2>6. PhaseOK'
    <3>1. CASE at.k = 1
      <4>1. Target = order[2]
        BY <1>5, <3>1, TargetIsOne
      <4> QED BY <4>1, <2>1, <2>5, <3>1 DEF PhaseOK, Phase, Kept
    <3>2. CASE at.k = 2
      <4>1. Target = order[1]
        BY <1>5, <3>2, TargetIsOne
      <4>2. order[2] \in failed \/ Kept(order[2], "prev")
        BY <1>5, <3>2 DEF PhaseOK
      <4>3. \A t \in Targets : t \in failed \/ Kept(t, "prev")
        BY <4>1, <4>2, <2>5, OrderIsBoth DEF TypesOK
      <4>4. failed # {} \/ "prev" \in together \/ live[order[2]] = "other"
        <5>1. CASE live[order[2]] = "prev"
          <6>1. "prev" \in Both(live)
            BY <5>1, <4>1, <2>5, OrderIsBoth DEF TypesOK, Both
          <6> QED BY <6>1, <1>5 DEF WorldOK, Phase
        <5> QED BY <5>1, <4>2 DEF Kept
      <4> QED BY <4>3, <4>4, <2>1, <3>2 DEF PhaseOK, Phase, Kept
    <3> QED BY <3>1, <3>2, <1>1
  <2> QED BY <2>2, <2>3, <2>4, <2>6
<1>6. CASE Phase({"restore"})
  <2>1. /\ UNCHANGED <<failed, together>>
        /\ at' = IF at.k = 1 THEN [phase |-> "restore", k |-> 2, step |-> "look"]
                             ELSE [phase |-> "done", k |-> 1, step |-> "done"]
        /\ outcome' = IF at.k = 1 THEN "none" ELSE Verdict(failed)
    <3>1. /\ UNCHANGED <<failed, together>> /\ at' = Onward
          /\ outcome' = IF at = Place("restore", 2, at.step) THEN Verdict(failed) ELSE "none"
      BY <1>6, <1>2 DEF Succeed, Phase, Recorded
    <3>2. at = Place("restore", 2, at.step) <=> at.k = 2
      BY <1>6, <1>1 DEF Place, Phase, Places
    <3>3. Onward = IF at.k = 1 THEN [phase |-> "restore", k |-> 2, step |-> "look"]
                               ELSE [phase |-> "done", k |-> 1, step |-> "done"]
      BY <1>6, <1>1 DEF Onward, First, Place, Phase
    <3> QED BY <3>1, <3>2, <3>3, <1>1
  <2>2. outcome' \in {"none", "rolled-back", "recovery-required"}
    BY <2>1 DEF Verdict
  <2>3. TypesOK'
    BY <2>1, <2>2, <1>1 DEF TypesOK, Places, Looks
  <2>4. WorldOK'
    BY <2>1, <1>6 DEF WorldOK, Phase, Both, Pending
  <2>5. StepOK'
    BY <2>1 DEF StepOK, Phase
  <2>6. /\ \A t \in Targets : t \in failed \/ Kept(t, "prev")
        /\ failed # {} \/ "prev" \in together \/ live[order[2]] = "other"
    BY <1>6 DEF PhaseOK
  <2>7. PhaseOK'
    BY <2>1, <2>6 DEF PhaseOK, Phase, Kept
  <2>8. OutcomeOK'
    <3>1. CASE outcome' = "rolled-back"
      <4>1. failed = {} /\ at.k = 2 /\ at' = [phase |-> "done", k |-> 1, step |-> "done"]
        BY <3>1, <2>1, <1>1 DEF Verdict
      <4>2. live[order[2]] = "prev"
        BY <4>1, <1>6, TargetIsOne DEF Expected, Phase
      <4> QED BY <4>1, <4>2, <2>1, <2>6, <3>1 DEF OutcomeOK, Phase, Kept
    <3>2. CASE outcome' # "rolled-back"
      BY <3>2, <2>1, <2>2, <1>1 DEF OutcomeOK, Phase, Verdict
    <3> QED BY <3>1, <3>2
  <2> QED BY <2>3, <2>4, <2>5, <2>7, <2>8
<1> QED BY <1>1, <1>3, <1>4, <1>5, <1>6 DEF Phase, Places
\* A step that goes on inside a phase, where a mutation keeps what it knows of
\* its project.
LEMMA GotoKeeps ==
    ASSUME ReleaseAssumption, ReleaseInv, ~Phase({"done"}), RunnerStep,
           NEW s \in Looks \cup Mutations, Goto(s),
           IF Phase({"deploy", "undo"}) THEN s \in Mutations ELSE s \in Looks,
           Phase({"deploy", "undo"}) =>
               /\ s \in {"previous", "recheck", "post", "confirm"} => Target \notin uncertain'
               /\ s = "settle" => job'[Target] \in {Expected, "none", "failed"}
    PROVE  ReleaseInv'
<1> USE DEF ReleaseInv
<1>1. Target \in Targets /\ uncertain' \subseteq Targets /\ order[1] # order[2]
      /\ at \in Places
  BY TargetIsOne, OrderIsBoth DEF RunnerStep, TypesOK
<1>2. at'.phase = at.phase /\ at'.k = at.k /\ at'.step = s
      /\ UNCHANGED <<failed, outcome, together>>
  BY <1>1 DEF Goto, Places
<1>3. at' \in Places
  <2>1. CASE Phase({"deploy", "undo"})
    <3>1. at' \in [phase : {"deploy", "undo"}, k : {1, 2}, step : Mutations]
      BY <1>1, <2>1 DEF Goto, Places, Phase
    <3> QED BY <3>1 DEF Places
  <2>2. CASE ~Phase({"deploy", "undo"})
    <3>1. at' \in [phase : {"preflight", "verify", "final", "restore"}, k : {1, 2}, step : Looks]
      BY <1>1, <2>2 DEF Goto, Places, Phase
    <3> QED BY <3>1 DEF Places
  <2> QED BY <2>1, <2>2
<1>4. TypesOK'
  BY <1>1, <1>2, <1>3 DEF TypesOK, RunnerStep
<1>5. WorldOK'
  BY <1>2 DEF WorldOK, RunnerStep, Phase, Both, Pending
<1>6. StepOK'
  <2>1. Target' = Target /\ Expected' = Expected
    BY <1>2 DEF RunnerStep, Target, Expected, Phase
  <2> QED BY <2>1, <1>2 DEF StepOK, Phase
<1>7. PhaseOK'
  <2>1. CASE Phase({"deploy"})
    <3>1. at.k = 2 => Target = order[2]
      BY <2>1, TargetIsOne DEF Phase
    <3> QED BY <3>1, <2>1, <1>1, <1>2 DEF PhaseOK, Phase, Kept, RunnerStep
  <2>2. CASE Phase({"undo"})
    <3>1. at.k = 2 => Target = order[1]
      BY <2>2, TargetIsOne
    <3> QED BY <3>1, <2>2, <1>1, <1>2 DEF PhaseOK, Phase, Kept, RunnerStep
  <2>3. CASE Phase({"preflight", "verify", "final", "restore"})
    BY <2>3, <1>2 DEF PhaseOK, Phase, Kept, RunnerStep
  <2> QED BY <2>1, <2>2, <2>3, <1>1 DEF Phase, Places
<1>8. OutcomeOK'
  BY <1>2 DEF OutcomeOK, Phase
<1> QED BY <1>4, <1>5, <1>6, <1>7, <1>8

\* A step that only looks changes nothing a phase relies on.
LEMMA LooksAreSteps ==
    ASSUME ReleaseInv, UNCHANGED <<live, job, uncertain, owned, order, late, foreign>>
    PROVE  RunnerStep
BY DEF RunnerStep, ReleaseInv, TypesOK, WorldOK, Pending
-----------------------------------------------------------------------------
(* The steps of the runner.                                                *)

LEMMA VerifyKeeps == ASSUME ReleaseAssumption, ReleaseInv, Verify PROVE ReleaseInv'
<1>1. Phase({"preflight", "verify", "final", "restore"}) /\ ~Phase({"done"})
      /\ ~Phase({"deploy", "undo"})
      /\ UNCHANGED <<live, job, uncertain, owned, order, late, foreign>>
  BY DEF Verify, Phase
<1>2. RunnerStep
  BY <1>1, LooksAreSteps
<1>3. CASE Fail
  BY <1>1, <1>2, <1>3, FailKeeps
<1>4. CASE live[Target] = Expected /\ Succeed
  BY <1>1, <1>4, SucceedKeeps
<1>5. CASE at.step # "again" /\ Goto(NextLook[at.step])
  <2>1. at.step \in {"look", "read"}
    BY <1>1, <1>5 DEF ReleaseInv, TypesOK, Places, Looks, Phase
  <2>2. NextLook[at.step] \in Looks
    BY <2>1 DEF NextLook, Looks
  <2> QED BY <1>1, <1>2, <1>5, <2>2, GotoKeeps
<1> QED BY <1>3, <1>4, <1>5 DEF Verify

LEMMA RequestFailsKeeps ==
    ASSUME ReleaseAssumption, ReleaseInv, RequestFails PROVE ReleaseInv'
BY LooksAreSteps, FailKeeps DEF RequestFails

\* deploy and rollback begin only on a project they are certain of.
LEMMA BeginKeeps == ASSUME ReleaseAssumption, ReleaseInv, Begin PROVE ReleaseInv'
<1>1. Phase({"deploy", "undo"}) /\ ~Phase({"done"})
      /\ UNCHANGED <<live, job, uncertain, owned, order, late, foreign>>
  BY DEF Begin, Step, Phase
<1>2. RunnerStep
  BY <1>1, LooksAreSteps
<1>3. CASE Fail
  BY <1>1, <1>2, <1>3, FailKeeps
<1>4. CASE Target \notin uncertain /\ Goto(IF Phase({"deploy"}) THEN "previous" ELSE "recheck")
  <2> DEFINE s == IF Phase({"deploy"}) THEN "previous" ELSE "recheck"
  <2>1. s \in Mutations /\ s # "settle" /\ Goto(s)
    BY <1>4 DEF Mutations
  <2> HIDE DEF s
  <2> QED BY <1>1, <1>2, <1>4, <2>1, GotoKeeps
<1> QED BY <1>3, <1>4 DEF Begin, Admits

LEMMA UploadKeeps == ASSUME ReleaseAssumption, ReleaseInv, Upload PROVE ReleaseInv'
<1>1. Phase({"deploy", "undo"}) /\ ~Phase({"done"}) /\ at.step = "previous"
      /\ UNCHANGED <<live, job, uncertain, owned, order, late, foreign>>
  BY DEF Upload, Step, Phase
<1>2. RunnerStep /\ Target \notin uncertain
  BY <1>1, LooksAreSteps DEF ReleaseInv, StepOK
<1>3. CASE Fail
  BY <1>1, <1>2, <1>3, FailKeeps
<1>4. CASE Goto("recheck")
  BY <1>1, <1>2, <1>4, GotoKeeps DEF Mutations
<1> QED BY <1>3, <1>4 DEF Upload

LEMMA RecheckKeeps == ASSUME ReleaseAssumption, ReleaseInv, Recheck PROVE ReleaseInv'
<1>1. Phase({"deploy", "undo"}) /\ ~Phase({"done"}) /\ at.step = "recheck"
      /\ UNCHANGED <<live, job, uncertain, owned, order, late, foreign>>
  BY DEF Recheck, Step, Phase
<1>2. RunnerStep /\ Target \notin uncertain
  BY <1>1, LooksAreSteps DEF ReleaseInv, StepOK
<1>3. CASE Fail
  BY <1>1, <1>2, <1>3, FailKeeps
<1>4. CASE Goto("post")
  BY <1>1, <1>2, <1>4, GotoKeeps DEF Mutations
<1>5. CASE Goto("confirm")
  BY <1>1, <1>2, <1>5, GotoKeeps DEF Mutations
<1> QED BY <1>3, <1>4, <1>5 DEF Recheck

\* The mark comes before the request, so that whatever it will do is expected
\* of a project that is not certain (school-release-adapter.mjs, mutate).
LEMMA PostKeeps == ASSUME ReleaseAssumption, ReleaseInv, Post PROVE ReleaseInv'
<1>1. Phase({"deploy", "undo"}) /\ ~Phase({"done"})
      /\ UNCHANGED <<live, owned, order, late, foreign>>
  BY DEF Post, Step, Phase
<1>2. PICK accepted \in BOOLEAN, answered \in BOOLEAN :
        /\ answered => accepted
        /\ uncertain' = uncertain \cup {Target}
        /\ job' = IF accepted THEN [job EXCEPT ![Target] = Expected] ELSE job
        /\ IF answered THEN Goto("settle") ELSE Fail
  BY <1>1 DEF Post, Marked, Expected, Phase
<1>3. Target \in Targets /\ Expected \in {"prev", "next"}
  BY <1>1, TargetIsOne DEF ReleaseInv, Expected
<1>4. /\ job' \in [Targets -> {"none", "prev", "next", "failed"}]
      /\ \A t \in Targets : t # Target => job'[t] = job[t]
      /\ accepted => job'[Target] = Expected
  BY <1>2, <1>3 DEF ReleaseInv, TypesOK
<1>5. RunnerStep
  BY <1>1, <1>2, <1>4 DEF RunnerStep, ReleaseInv, TypesOK, WorldOK, Pending, Phase
<1>6. CASE answered
  BY <1>1, <1>2, <1>4, <1>5, <1>6, GotoKeeps DEF Mutations
<1>7. CASE ~answered
  BY <1>1, <1>2, <1>5, <1>7, FailKeeps
<1> QED BY <1>6, <1>7

\* What settles has ended: the request is not under way any more.
LEMMA SettledKeeps == ASSUME ReleaseAssumption, ReleaseInv, Settled PROVE ReleaseInv'
<1>1. Phase({"deploy", "undo"}) /\ ~Phase({"done"}) /\ at.step = "settle"
      /\ UNCHANGED <<live, job, order, late, foreign>>
      /\ uncertain' = uncertain \ {Target} /\ Goto("confirm")
  BY DEF Settled, Step, Phase
<1>2. Target \in Targets
  BY <1>1, TargetIsOne DEF ReleaseInv
<1>3. job[Target] \notin {"prev", "next"}
  BY <1>1 DEF Settled, ReleaseInv, StepOK
<1>4. owned' \subseteq Targets
  BY <1>2 DEF Settled, ReleaseInv, TypesOK
<1>5. RunnerStep
  BY <1>1, <1>3, <1>4 DEF RunnerStep, ReleaseInv, TypesOK, WorldOK, Pending, Phase
<1> QED BY <1>1, <1>5, GotoKeeps DEF Mutations

LEMMA TerminalKeeps == ASSUME ReleaseAssumption, ReleaseInv, Terminal PROVE ReleaseInv'
<1>1. Phase({"deploy", "undo"}) /\ ~Phase({"done"}) /\ job[Target] = "failed"
      /\ UNCHANGED <<live, job, owned, order, late, foreign>>
      /\ uncertain' = uncertain \ {Target} /\ Fail
  BY DEF Terminal, Step, Phase
<1>2. RunnerStep
  BY <1>1 DEF RunnerStep, ReleaseInv, TypesOK, WorldOK, Pending, Phase
<1> QED BY <1>1, <1>2, FailKeeps

LEMMA GivesUpKeeps == ASSUME ReleaseAssumption, ReleaseInv, GivesUp PROVE ReleaseInv'
<1>1. ~Phase({"done"}) /\ Fail
      /\ UNCHANGED <<live, job, uncertain, owned, order, late, foreign>>
  BY DEF GivesUp, GiveUpOn, Step, Phase
<1> QED BY <1>1, LooksAreSteps, FailKeeps

LEMMA ConfirmKeeps == ASSUME ReleaseAssumption, ReleaseInv, Confirm PROVE ReleaseInv'
<1>1. ~Phase({"done"}) /\ at.step = "confirm"
      /\ UNCHANGED <<live, job, uncertain, owned, order, late, foreign>>
  BY DEF Confirm, Step, Phase
<1>2. CASE live[Target] = Expected /\ Succeed
  BY <1>1, <1>2, SucceedKeeps
<1>3. CASE Fail
  BY <1>1, <1>3, LooksAreSteps, FailKeeps
<1> QED BY <1>2, <1>3 DEF Confirm

LEMMA DeadlineKeeps == ASSUME ReleaseAssumption, ReleaseInv, Deadline PROVE ReleaseInv'
<1>1. Phase({"deploy", "undo"}) /\ ~Phase({"done"}) /\ Fail
      /\ UNCHANGED <<live, job, owned, order, late, foreign>>
      /\ uncertain' = uncertain \cup {Target}
  BY DEF Deadline, Phase
<1>2. RunnerStep
  BY <1>1 DEF RunnerStep, ReleaseInv, TypesOK, WorldOK, Pending, Phase
<1> QED BY <1>1, <1>2, FailKeeps
-----------------------------------------------------------------------------
(* The steps of the world.                                                 *)

\* Whatever the service and another writer do, a project that is certain shows
\* what it showed or what that writer put there.
LEMMA WorldKeeps ==
    ASSUME ReleaseAssumption, ReleaseInv, TypesOK', WorldOK',
           UNCHANGED <<uncertain, order, at, failed, outcome>>,
           together \subseteq together',
           \A t \in Targets : t \notin uncertain => live'[t] \in {live[t], "other"},
           \A t \in Targets : job'[t] \in {job[t], "none", "failed"}
    PROVE  ReleaseInv'
<1> USE DEF ReleaseInv
<1>1. order[1] \in Targets /\ order[2] \in Targets
      /\ (~Phase({"done"}) => Target \in Targets)
  BY OrderIsBoth, TargetIsOne DEF TypesOK
<1>2. ASSUME NEW t \in Targets, NEW v, Kept(t, v)
      PROVE  Kept(t, v)' /\ (live[t] = "other" => live'[t] = "other")
  BY <1>2 DEF Kept
<1>3. StepOK'
  <2>1. Target' = Target /\ Expected' = Expected
    BY DEF Target, Expected, Phase
  <2> QED BY <2>1, <1>1 DEF StepOK, Phase
<1>4. PhaseOK'
  <2>1. Phase({"restore"}) =>
           failed # {} \/ "prev" \in together' \/ live'[order[2]] = "other"
    BY <1>1, <1>2 DEF PhaseOK
  <2>2. Phase({"final"}) => "next" \in together' \/ (at.k = 1 /\ live'[order[1]] = "other")
    BY <1>1, <1>2 DEF PhaseOK
  <2> QED BY <1>1, <1>2, <2>1, <2>2 DEF PhaseOK, Phase, Kept
<1>5. OutcomeOK'
  BY <1>2 DEF OutcomeOK, Phase
<1> QED BY <1>3, <1>4, <1>5

LEMMA TakesEffectKeeps ==
    ASSUME ReleaseAssumption, ReleaseInv, NEW t \in Targets, TakesEffect(t)
    PROVE  ReleaseInv'
<1> USE DEF ReleaseInv
<1>1. /\ job[t] \in {"prev", "next"} /\ t \in uncertain
      /\ live' = [live EXCEPT ![t] = job[t]]
      /\ together' = together \cup Both(live')
      /\ job' = [job EXCEPT ![t] = "none"]
      /\ UNCHANGED <<uncertain, owned, order, late, at, failed, outcome, foreign>>
  BY DEF TakesEffect, Show, WorldOK, Pending
<1>2. TypesOK'
  BY <1>1 DEF TypesOK, Both
<1>3. /\ \A u \in Targets : live'[u] = IF u = t THEN job[t] ELSE live[u]
      /\ \A u \in Targets : job'[u] = IF u = t THEN "none" ELSE job[u]
  BY <1>1 DEF TypesOK
<1>4. WorldOK'
  BY <1>1, <1>3 DEF WorldOK, Pending, Both, Phase
<1> QED BY <1>1, <1>2, <1>3, <1>4, WorldKeeps

LEMMA DeploymentFailsKeeps ==
    ASSUME ReleaseAssumption, ReleaseInv, NEW t \in Targets, DeploymentFails(t)
    PROVE  ReleaseInv'
<1> USE DEF ReleaseInv
<1>1. /\ job' = [job EXCEPT ![t] = "failed"]
      /\ UNCHANGED <<live, uncertain, owned, order, late, at, failed, outcome, foreign, together>>
  BY DEF DeploymentFails
<1>2. TypesOK'
  BY <1>1 DEF TypesOK
<1>3. \A u \in Targets : job'[u] = IF u = t THEN "failed" ELSE job[u]
  BY <1>1 DEF TypesOK
<1>4. WorldOK'
  BY <1>1, <1>3 DEF WorldOK, Pending, Both, Phase
<1> QED BY <1>1, <1>2, <1>3, <1>4, WorldKeeps

LEMMA ForeignKeeps ==
    ASSUME ReleaseAssumption, ReleaseInv, NEW t \in Targets, Foreign(t)
    PROVE  ReleaseInv'
<1> USE DEF ReleaseInv
<1>1. /\ foreign < ForeignMax /\ foreign' = foreign + 1
      /\ live' = [live EXCEPT ![t] = "other"]
      /\ together' = together \cup Both(live')
      /\ UNCHANGED <<job, uncertain, owned, order, late, at, failed, outcome>>
  BY DEF Foreign, Show
<1>2. foreign' \in 0..ForeignMax /\ foreign' # 0
  BY <1>1 DEF TypesOK, ReleaseAssumption
<1>3. TypesOK'
  BY <1>1, <1>2 DEF TypesOK, Both
<1>4. \A u \in Targets : live'[u] = IF u = t THEN "other" ELSE live[u]
  BY <1>1 DEF TypesOK
<1>5. WorldOK'
  BY <1>1, <1>2, <1>4 DEF WorldOK, Pending, Both, Phase
<1> QED BY <1>1, <1>3, <1>4, <1>5, WorldKeeps

LEMMA TimePassesKeeps == ASSUME ReleaseAssumption, ReleaseInv, TimePasses PROVE ReleaseInv'
<1> USE DEF ReleaseInv
<1>1. late' = TRUE
      /\ UNCHANGED <<live, job, uncertain, owned, order, at, failed, outcome, foreign, together>>
  BY DEF TimePasses
<1>2. TypesOK'
  BY <1>1 DEF TypesOK
<1>3. WorldOK'
  BY <1>1 DEF WorldOK, Pending, Both, Phase
<1> QED BY <1>1, <1>2, <1>3, WorldKeeps
-----------------------------------------------------------------------------
(* The theorems.                                                           *)

LEMMA NextKeeps ==
    ASSUME ReleaseAssumption, ReleaseInv, [Next]_vars
    PROVE  ReleaseInv'
<1>1. CASE UNCHANGED vars
  BY <1>1 DEF vars, ReleaseInv, TypesOK, WorldOK, StepOK, PhaseOK, OutcomeOK, Phase,
              Pending, Kept, Both, Target, Expected
<1>2. CASE Runner
  BY <1>2, VerifyKeeps, BeginKeeps, UploadKeeps, RecheckKeeps, PostKeeps,
     SettledKeeps, TerminalKeeps, GivesUpKeeps, ConfirmKeeps DEF Runner
<1>3. CASE RequestFails \/ Deadline \/ TimePasses
  BY <1>3, RequestFailsKeeps, DeadlineKeeps, TimePassesKeeps
<1>4. CASE \E t \in Targets : TakesEffect(t) \/ DeploymentFails(t) \/ Foreign(t)
  BY <1>4, TakesEffectKeeps, DeploymentFailsKeeps, ForeignKeeps
<1> QED BY <1>1, <1>2, <1>3, <1>4 DEF Next

\* The invariant holds in every state of every release.
LEMMA SpecInv == ReleaseAssumption => (Spec => []ReleaseInv)
<1> SUFFICES ASSUME ReleaseAssumption
             PROVE  Spec => []ReleaseInv
  OBVIOUS
<1>1. Init => ReleaseInv
  BY InitInv
<1>2. ReleaseInv /\ [Next]_vars => ReleaseInv'
  BY NextKeeps
<1> QED BY <1>1, <1>2, PTL DEF Spec

\* Deployments, requests, places and answers keep their types.
LEMMA TypeCorrect == ReleaseAssumption => (Spec => []ReleaseTypeOK)
<1>1. ReleaseInv => ReleaseTypeOK
  BY DEF ReleaseInv, TypesOK, Places, ReleaseTypeOK
<1> QED BY <1>1, SpecInv, PTL

\* A release that says "complete" or "rolled-back" has left nothing under way
\* that may still change an origin: a request that timed out has marked its
\* project, and a marked project never lets a release say either
\* (school-release-adapter.mjs, mutate and settle).
THEOREM NothingIsLeftBehind == ReleaseAssumption => (Spec => []EndedIsSettled)
<1>1. ReleaseInv => EndedIsSettled
  BY DEF ReleaseInv, WorldOK, OutcomeOK, Kept, Pending, EndedIsSettled
<1> QED BY <1>1, SpecInv, PTL

\* While no other writer touches the projects, the answer of a release stays
\* true for both origins, however late the service acts.
THEOREM AnswersStayTrue == ReleaseAssumption => (Spec => []EndHolds)
<1>1. ReleaseInv => EndHolds
  BY DEF ReleaseInv, WorldOK, OutcomeOK, Kept, EndHolds
<1> QED BY <1>1, SpecInv, PTL

\* Even against other writers the answer was true of both origins at one moment:
\* that is what the second verification of both is for
\* (school-release.mjs 153-154 and 166-168).
LEMMA AnswersWereTrueAtOnce == ReleaseAssumption => (Spec => []TrueAtOnce)
<1>1. ReleaseInv => TrueAtOnce
  BY DEF ReleaseInv, OutcomeOK, TrueAtOnce
<1> QED BY <1>1, SpecInv, PTL

\* What a release answers is true of both origins when it says so, stays true
\* while nobody else writes, and leaves nothing that may still change them.
THEOREM ReleasesAreTrue == ReleaseAssumption => (Spec => []ReleaseIsTrue)
BY NothingIsLeftBehind, AnswersStayTrue, AnswersWereTrueAtOnce, PTL DEF ReleaseIsTrue

-----------------------------------------------------------------------------
(* The build of a release from one snapshot, and its completion             *)
(* (ObservedBuild, ReleaseCompletion).                                      *)

CONSTANTS Builders, Files, EditMax, Finalizers

VARIABLES repo, input, output, tree, receipt, place, pin, copied, listed, edits, states,
          candidate, worker, fat, seen, completion

Build == INSTANCE ReleaseCompletion WITH at <- place

Versions == [Files -> Nat]
Trees == [src : Versions, generation : Nat, public : Nat, dist : Nat, built : SUBSET Versions]
Receipts == {Build!NoReceipt} \cup
            [owner : Builders, input : Nat, sources : Versions, dist : Nat, built : SUBSET Versions]
BuildSteps == {"start", "make", "copy", "generate", "accept", "client", "artifacts", "pages", "verify",
               "inventory", "recheck", "complete", "done", "stopped"}

BuildTypes ==
    /\ repo \in Versions /\ input \in Nat /\ edits \in 0..EditMax
    /\ repo \in states /\ states \subseteq Versions
    /\ output \in Builders \cup {"none"} /\ tree \in Trees /\ receipt \in Receipts
    /\ place \in [Builders -> BuildSteps] /\ pin \in [Builders -> Nat] /\ listed \in [Builders -> Nat]
    /\ copied \in [Builders -> Versions]

\* A directory nobody made is empty; who has not made one owns none.
DirectoryOK ==
    /\ output = "none" => tree = Build!Empty /\ receipt = Build!NoReceipt
    /\ \A b \in Builders : place[b] \in {"start", "make"} => output # b /\ copied[b] = Build!NoSources

\* What is in the directory is what its owner copied, unless it was edited; what
\* was compiled before an edit shows only as long as the edit does.
TreeOK ==
    \A b \in Builders : Build!Owns(b) =>
        /\ \A f \in Files : tree.src[f] \in {copied[b][f], 9}
        /\ \A s \in tree.built, f \in Files : tree.src[f] = copied[b][f] => s[f] = copied[b][f]

\* Compiled when the owner says so, and of one state once it was checked.
CompiledOK ==
    \A b \in Builders : Build!Owns(b) =>
        /\ place[b] \in {"copy", "generate", "accept", "client"} => tree.built = {}
        /\ place[b] \in {"artifacts", "pages", "verify", "inventory", "recheck"} => tree.built # {}
        /\ place[b] = "complete" => copied[b] \in states /\ tree.built = {copied[b]}

\* The inductive invariant.
BuildInv == BuildTypes /\ DirectoryOK /\ TreeOK /\ CompiledOK /\ Build!OneStateThroughout

-----------------------------------------------------------------------------

LEMMA BuildInitInv == Build!BuildAssumption /\ Build!Init => BuildInv
<1> SUFFICES ASSUME Build!BuildAssumption, Build!Init
             PROVE  BuildInv
  OBVIOUS
<1> USE DEF Build!None
<1>1. repo \in Versions /\ Build!NoSources \in Versions /\ Build!Empty \in Trees
  BY DEF Build!Init, Versions, Build!NoSources, Build!Empty, Trees
<1>2. BuildTypes
  BY <1>1 DEF Build!Init, Build!BuildAssumption, BuildTypes, BuildSteps, Receipts, Build!NoSources
<1>3. DirectoryOK
  BY DEF Build!BuildAssumption, Build!Init, DirectoryOK, Build!NoSources
<1>4. TreeOK /\ CompiledOK
  BY DEF Build!BuildAssumption, Build!Init, TreeOK, CompiledOK, Build!Owns
<1>5. Build!OneStateThroughout
  BY DEF Build!Init, Build!OneStateThroughout, Build!SourcesAreOneState, Build!BundlesAreOfTheSources,
         Build!NoReceipt
<1> QED BY <1>2, <1>3, <1>4, <1>5 DEF BuildInv

\* A step of one builder that leaves the directory and the sources alone.
LEMMA GoesOn ==
    ASSUME Build!BuildAssumption, BuildInv, NEW b \in Builders, NEW s \in BuildSteps, Build!Goto(b, s),
           UNCHANGED <<repo, input, output, tree, receipt, copied, edits, states>>,
           pin' \in [Builders -> Nat], listed' \in [Builders -> Nat],
           s \in {"start", "make"} => place[b] \in {"start", "make"},
           s \in {"copy", "generate", "accept", "client"} =>
               place[b] \in {"copy", "generate", "accept", "client"},
           s \in {"artifacts", "pages", "verify", "inventory", "recheck"} =>
               place[b] \in {"artifacts", "pages", "verify", "inventory", "recheck"},
           s = "complete" /\ Build!Owns(b) => copied[b] \in states /\ tree.built = {copied[b]}
    PROVE  BuildInv'
<1>1. place' \in [Builders -> BuildSteps] /\ \A c \in Builders : place'[c] = IF c = b THEN s ELSE place[c]
  BY DEF Build!Goto, BuildInv, BuildTypes
<1>2. BuildTypes'
  BY <1>1 DEF BuildInv, BuildTypes
<1>3. DirectoryOK'
  BY <1>1 DEF BuildInv, DirectoryOK
<1>4. TreeOK'
  BY DEF BuildInv, TreeOK, Build!Owns
<1>5. CompiledOK'
  BY <1>1 DEF BuildInv, CompiledOK, Build!Owns
<1>6. Build!OneStateThroughout'
  BY DEF BuildInv, Build!OneStateThroughout, Build!SourcesAreOneState, Build!BundlesAreOfTheSources
<1> QED BY <1>2, <1>3, <1>4, <1>5, <1>6 DEF BuildInv

\* Inputs are read; a directory is made.
LEMMA ReadInputsKeeps ==
    ASSUME Build!BuildAssumption, BuildInv, NEW b \in Builders, Build!ReadInputs(b) \/ Build!Make(b)
    PROVE  BuildInv'
<1>1. CASE Build!ReadInputs(b)
  <2>1. pin' \in [Builders -> Nat]
    BY <1>1 DEF Build!ReadInputs, BuildInv, BuildTypes
  <2>2. "make" \in BuildSteps
    BY DEF BuildSteps
  <2> QED BY <1>1, <2>1, <2>2, GoesOn DEF Build!ReadInputs, BuildInv, BuildTypes
<1>2. CASE Build!Make(b)
  <2>1. /\ place' = [place EXCEPT ![b] = "copy"] /\ output = "none" /\ output' = b /\ place[b] = "make"
        /\ UNCHANGED <<repo, input, tree, receipt, pin, copied, listed, edits, states>>
    BY <1>2 DEF Build!Make, Build!Goto
  <2>2. tree = Build!Empty /\ copied[b] = Build!NoSources
    BY <2>1 DEF BuildInv, DirectoryOK
  <2>3. place' \in [Builders -> BuildSteps] /\ \A c \in Builders : place'[c] = IF c = b THEN "copy" ELSE place[c]
    BY <2>1 DEF BuildInv, BuildTypes, BuildSteps
  <2>4. BuildTypes'
    BY <2>1, <2>3 DEF BuildInv, BuildTypes
  <2>5. DirectoryOK'
    BY <2>1, <2>3 DEF BuildInv, DirectoryOK, Build!BuildAssumption
  <2>6. TreeOK' /\ CompiledOK'
    BY <2>1, <2>2, <2>3 DEF TreeOK, CompiledOK, Build!Owns, Build!Empty, Build!NoSources
  <2>7. Build!OneStateThroughout'
    BY <2>1 DEF BuildInv, Build!OneStateThroughout, Build!SourcesAreOneState, Build!BundlesAreOfTheSources
  <2> QED BY <2>4, <2>5, <2>6, <2>7 DEF BuildInv
<1> QED BY <1>1, <1>2

\* A file is copied.
LEMMA CopyKeeps ==
    ASSUME Build!BuildAssumption, BuildInv, NEW b \in Builders, Build!CopyFile(b)
    PROVE  BuildInv'
<1>1. PICK f \in Files :
        /\ copied' = [copied EXCEPT ![b][f] = repo[f]] /\ tree' = [tree EXCEPT !.src[f] = repo[f]]
        /\ place' = [place EXCEPT ![b] = IF \E g \in Files \ {f} : copied[b][g] = Build!None
                                         THEN "copy" ELSE "generate"]
  BY DEF Build!CopyFile, Build!Goto
<1>2. /\ place[b] = "copy" /\ output = b
      /\ UNCHANGED <<repo, input, output, receipt, pin, listed, edits, states>>
  BY DEF Build!CopyFile, Build!Owns
<1> DEFINE s == IF \E g \in Files \ {f} : copied[b][g] = Build!None THEN "copy" ELSE "generate"
<1>3. repo[f] \in Nat /\ copied \in [Builders -> Versions] /\ copied[b] \in Versions /\ tree \in Trees
      /\ tree.src \in Versions
  BY DEF BuildInv, BuildTypes, Versions, Trees
<1>4. /\ copied' \in [Builders -> Versions]
      /\ \A c \in Builders : c # b => copied'[c] = copied[c]
      /\ \A g \in Files : copied'[b][g] = IF g = f THEN repo[f] ELSE copied[b][g]
  BY <1>1, <1>3 DEF Versions
<1>5. /\ tree' \in Trees /\ tree'.built = tree.built
      /\ \A g \in Files : tree'.src[g] = IF g = f THEN repo[f] ELSE tree.src[g]
  BY <1>1, <1>3 DEF Trees, Versions
<1>6. /\ place' \in [Builders -> BuildSteps] /\ place'[b] \in {"copy", "generate"}
      /\ \A c \in Builders : c # b => place'[c] = place[c]
  <2>1. s \in BuildSteps /\ s \in {"copy", "generate"}
    BY DEF BuildSteps
  <2>2. place \in [Builders -> BuildSteps] /\ place' = [place EXCEPT ![b] = s]
    BY <1>1 DEF BuildInv, BuildTypes
  <2> HIDE DEF s
  <2> QED BY <2>1, <2>2
<1>7. BuildTypes'
  BY <1>2, <1>4, <1>5, <1>6 DEF BuildInv, BuildTypes
<1>8. DirectoryOK'
  BY <1>2, <1>4, <1>6 DEF BuildInv, DirectoryOK, Build!BuildAssumption
<1>9. tree.built = {}
  BY <1>2 DEF BuildInv, CompiledOK, Build!Owns
<1>10. TreeOK'
  BY <1>2, <1>4, <1>5, <1>9 DEF BuildInv, TreeOK, Build!Owns
<1>11. CompiledOK'
  BY <1>2, <1>5, <1>6, <1>9 DEF CompiledOK, Build!Owns
<1>12. Build!OneStateThroughout'
  BY <1>2 DEF BuildInv, Build!OneStateThroughout, Build!SourcesAreOneState, Build!BundlesAreOfTheSources
<1> QED BY <1>7, <1>8, <1>10, <1>11, <1>12 DEF BuildInv

\* The owner writes beside the sources, or compiles them as they are.
LEMMA OwnerWrites ==
    ASSUME Build!BuildAssumption, BuildInv, NEW b \in Builders, output = b,
           UNCHANGED <<repo, input, output, receipt, pin, copied, listed, edits, states>>,
           NEW s \in BuildSteps, Build!Goto(b, s),
           tree' \in Trees, tree'.src = tree.src, tree'.built \subseteq tree.built \cup {tree.src},
           \/ s \in {"accept", "client"} /\ tree'.built = {}
           \/ s \in {"artifacts", "verify"} /\ tree'.built # {}
    PROVE  BuildInv'
<1>1. place' \in [Builders -> BuildSteps] /\ \A c \in Builders : place'[c] = IF c = b THEN s ELSE place[c]
  BY DEF Build!Goto, BuildInv, BuildTypes
<1>2. BuildTypes'
  BY <1>1 DEF BuildInv, BuildTypes
<1>3. DirectoryOK'
  BY <1>1 DEF BuildInv, DirectoryOK, Build!BuildAssumption
<1>4. TreeOK'
  BY DEF BuildInv, TreeOK, Build!Owns
<1>5. CompiledOK'
  BY <1>1 DEF CompiledOK, Build!Owns
<1>6. Build!OneStateThroughout'
  BY DEF BuildInv, Build!OneStateThroughout, Build!SourcesAreOneState, Build!BundlesAreOfTheSources
<1> QED BY <1>2, <1>3, <1>4, <1>5, <1>6 DEF BuildInv

\* It generates, publishes and compiles from what is in the directory.
LEMMA WritesKeep ==
    ASSUME Build!BuildAssumption, BuildInv, NEW b \in Builders,
           Build!Generate(b) \/ Build!Accept(b) \/ Build!Client(b) \/ Build!Pages(b)
    PROVE  BuildInv'
<1>1. /\ output = b /\ UNCHANGED <<repo, input, output, receipt, pin, copied, listed, edits, states>>
  BY DEF Build!Generate, Build!Accept, Build!Client, Build!Pages, Build!Owns
<1>2. tree \in Trees /\ input \in Nat /\ {"accept", "client", "artifacts", "verify"} \subseteq BuildSteps
  BY DEF BuildInv, BuildTypes, BuildSteps
<1>3. /\ tree.src \in Versions /\ tree.generation \in Nat /\ tree.public \in Nat /\ tree.dist \in Nat
      /\ tree.built \subseteq Versions
  BY <1>2 DEF Trees
<1>4. CASE Build!Generate(b) \/ Build!Accept(b)
  <2>1. tree.built = {}
    BY <1>1, <1>4 DEF Build!Generate, Build!Accept, BuildInv, CompiledOK, Build!Owns
  <2>2. /\ tree' = [tree EXCEPT !.generation = input] \/ tree' = [tree EXCEPT !.public = tree.generation]
        /\ Build!Goto(b, "accept") \/ Build!Goto(b, "client")
    BY <1>4 DEF Build!Generate, Build!Accept
  <2>3. tree' \in Trees /\ tree'.src = tree.src /\ tree'.built = {}
    BY <1>2, <1>3, <2>1, <2>2 DEF Trees
  <2> QED BY <1>1, <1>2, <2>2, <2>3, OwnerWrites
<1>5. CASE Build!Client(b)
  <2>1. tree' = [tree EXCEPT !.dist = tree.public, !.built = {tree.src}] /\ Build!Goto(b, "artifacts")
    BY <1>5 DEF Build!Client
  <2>2. tree' \in Trees /\ tree'.src = tree.src /\ tree'.built = {tree.src}
    BY <1>2, <1>3, <2>1 DEF Trees
  <2> QED BY <1>1, <1>2, <2>1, <2>2, OwnerWrites
<1>6. CASE Build!Pages(b)
  <2>1. tree' = [tree EXCEPT !.built = tree.built \cup {tree.src}] /\ Build!Goto(b, "verify")
    BY <1>6 DEF Build!Pages
  <2>2. tree' \in Trees /\ tree'.src = tree.src /\ tree'.built = tree.built \cup {tree.src}
    BY <1>2, <1>3, <2>1 DEF Trees
  <2> QED BY <1>1, <1>2, <2>1, <2>2, OwnerWrites
<1> QED BY <1>4, <1>5, <1>6

\* The owner compares, lists what it made, and compares again.
LEMMA ChecksKeep ==
    ASSUME Build!BuildAssumption, BuildInv, NEW b \in Builders,
           Build!ClientArtifacts(b) \/ Build!PageArtifacts(b) \/ Build!Inventory(b) \/ Build!Stop(b)
    PROVE  BuildInv'
<1>1. {"pages", "inventory", "recheck", "stopped"} \subseteq BuildSteps
  BY DEF BuildSteps
<1>2. /\ UNCHANGED <<repo, input, output, tree, receipt, pin, copied, edits, states>>
      /\ pin' \in [Builders -> Nat] /\ listed' \in [Builders -> Nat]
  <2>1. tree.dist \in Nat /\ pin \in [Builders -> Nat] /\ listed \in [Builders -> Nat]
    BY DEF BuildInv, BuildTypes, Trees
  <2> QED BY <2>1 DEF Build!ClientArtifacts, Build!PageArtifacts, Build!Inventory, Build!Stop
<1>3. PICK s \in {"pages", "inventory", "recheck", "stopped"} :
        Build!Goto(b, s) /\ (s # "stopped" => place[b] \in {"artifacts", "verify", "inventory"})
  BY DEF Build!ClientArtifacts, Build!PageArtifacts, Build!Inventory, Build!Stop
<1> QED BY <1>1, <1>2, <1>3, GoesOn

\* Nothing was edited: what was compiled is what was copied, of one state.
LEMMA RecheckOfBuildKeeps ==
    ASSUME Build!BuildAssumption, BuildInv, NEW b \in Builders, Build!Recheck(b)
    PROVE  BuildInv'
<1>1. /\ UNCHANGED <<repo, input, output, tree, receipt, pin, copied, listed, edits, states>>
      /\ place[b] = "recheck" /\ Build!Goto(b, "complete") /\ repo = copied[b] /\ tree.src = copied[b]
  BY DEF Build!Recheck, Build!SourcesUnchanged
<1>2. ASSUME Build!Owns(b)
      PROVE  copied[b] \in states /\ tree.built = {copied[b]}
  <2>1. copied[b] \in states /\ copied[b] \in Versions /\ tree.built \subseteq Versions /\ tree.built # {}
    BY <1>1, <1>2 DEF BuildInv, BuildTypes, Trees, CompiledOK
  <2>2. ASSUME NEW s \in tree.built
        PROVE  s = copied[b]
    <3>1. s \in Versions /\ \A f \in Files : s[f] = copied[b][f]
      BY <1>1, <1>2, <2>1 DEF BuildInv, TreeOK
    <3> QED BY <2>1, <3>1 DEF Versions
  <2> QED BY <2>1, <2>2
<1>3. pin' \in [Builders -> Nat] /\ listed' \in [Builders -> Nat] /\ "complete" \in BuildSteps
  BY <1>1 DEF BuildInv, BuildTypes, BuildSteps
<1> QED BY <1>1, <1>2, <1>3, GoesOn

\* The receipt is written.
LEMMA CompleteKeeps ==
    ASSUME Build!BuildAssumption, BuildInv, NEW b \in Builders, Build!Complete(b)
    PROVE  BuildInv'
<1>1. /\ UNCHANGED <<repo, input, output, tree, pin, copied, listed, edits, states>>
      /\ place[b] = "complete" /\ place' = [place EXCEPT ![b] = "done"] /\ output = b
      /\ receipt' = [owner |-> b, input |-> pin[b], sources |-> copied[b], dist |-> listed[b],
                     built |-> tree.built]
  BY DEF Build!Complete, Build!Goto, Build!Owns
<1>2. copied[b] \in states /\ tree.built = {copied[b]}
  BY <1>1 DEF BuildInv, CompiledOK, Build!Owns
<1>3. place' \in [Builders -> BuildSteps] /\ \A c \in Builders : place'[c] = IF c = b THEN "done" ELSE place[c]
  BY <1>1 DEF BuildInv, BuildTypes, BuildSteps
<1>4. receipt' \in Receipts
  <2>1. pin[b] \in Nat /\ copied[b] \in Versions /\ listed[b] \in Nat /\ tree.built \in SUBSET Versions
    BY DEF BuildInv, BuildTypes, Trees
  <2> QED BY <1>1, <2>1 DEF Receipts
<1>5. BuildTypes'
  BY <1>1, <1>3, <1>4 DEF BuildInv, BuildTypes
<1>6. DirectoryOK'
  BY <1>1, <1>3 DEF BuildInv, DirectoryOK, Build!BuildAssumption
<1>7. TreeOK' /\ CompiledOK'
  BY <1>1, <1>3 DEF BuildInv, TreeOK, CompiledOK, Build!Owns
<1>8. Build!OneStateThroughout'
  BY <1>1, <1>2 DEF Build!OneStateThroughout, Build!SourcesAreOneState, Build!BundlesAreOfTheSources
<1> QED BY <1>5, <1>6, <1>7, <1>8 DEF BuildInv

\* Other programs edit, and the directory is cleared.
LEMMA EditKeeps ==
    ASSUME Build!BuildAssumption, BuildInv, Build!Edit
    PROVE  BuildInv'
<1>1. /\ edits' = edits + 1 /\ edits < EditMax /\ UNCHANGED <<output, receipt, place, pin, copied, listed>>
  BY DEF Build!Edit
<1>2. edits' \in 0..EditMax
  BY <1>1 DEF Build!BuildAssumption, BuildInv, BuildTypes
<1>3. tree \in Trees /\ input \in Nat /\ repo \in Versions /\ tree.src \in Versions
  BY DEF BuildInv, BuildTypes, Trees
<1>4. CASE \E f \in Files : repo' = [repo EXCEPT ![f] = repo[f] + 1] /\ states' = states \cup {repo'}
                            /\ UNCHANGED <<input, tree>>
  <2>1. repo' \in Versions /\ repo' \in states' /\ states \subseteq states' /\ states' \subseteq Versions
    BY <1>3, <1>4 DEF Versions, BuildInv, BuildTypes
  <2>2. BuildTypes'
    BY <1>1, <1>2, <1>4, <2>1 DEF BuildInv, BuildTypes
  <2> QED BY <1>1, <1>4, <2>1, <2>2
          DEF BuildInv, DirectoryOK, TreeOK, CompiledOK, Build!Owns, Build!OneStateThroughout,
              Build!SourcesAreOneState, Build!BundlesAreOfTheSources
<1>5. CASE input' = input + 1 /\ UNCHANGED <<repo, tree, states>>
  <2>1. input' \in Nat
    BY <1>3, <1>5
  <2> QED BY <1>1, <1>2, <1>5, <2>1
          DEF BuildInv, BuildTypes, DirectoryOK, TreeOK, CompiledOK, Build!Owns, Build!OneStateThroughout,
              Build!SourcesAreOneState, Build!BundlesAreOfTheSources
<1>6. ASSUME UNCHANGED <<repo, input, states>>, tree' \in Trees, tree'.built = tree.built,
             output # "none", \A f \in Files : tree'.src[f] \in {tree.src[f], 9}
      PROVE  BuildInv'
  <2>1. BuildTypes' /\ DirectoryOK' /\ CompiledOK'
    BY <1>1, <1>2, <1>6 DEF BuildInv, BuildTypes, DirectoryOK, CompiledOK, Build!Owns
  <2>2. TreeOK'
    BY <1>1, <1>6 DEF BuildInv, TreeOK, Build!Owns
  <2> QED BY <1>1, <1>6, <2>1, <2>2
          DEF BuildInv, Build!OneStateThroughout, Build!SourcesAreOneState, Build!BundlesAreOfTheSources
<1>7. CASE \E f \in Files : tree.src[f] # Build!None /\ tree' = [tree EXCEPT !.src[f] = 9]
                            /\ UNCHANGED <<repo, input, states>>
  <2>1. PICK f \in Files : tree.src[f] # Build!None /\ tree' = [tree EXCEPT !.src[f] = 9]
    BY <1>7
  <2>2. tree' \in Trees /\ tree'.built = tree.built /\ \A g \in Files : tree'.src[g] \in {tree.src[g], 9}
    BY <1>3, <2>1 DEF Trees, Versions
  <2>3. output # "none"
    BY <2>1 DEF BuildInv, DirectoryOK, Build!Empty
  <2> QED BY <1>6, <1>7, <2>2, <2>3
<1>8. CASE \E p \in {"generation", "public", "dist"} : tree[p] # Build!None /\ tree' = [tree EXCEPT ![p] = 9]
                                                      /\ UNCHANGED <<repo, input, states>>
  <2>1. PICK p \in {"generation", "public", "dist"} : tree[p] # Build!None /\ tree' = [tree EXCEPT ![p] = 9]
    BY <1>8
  <2>2. tree' \in Trees /\ tree'.built = tree.built /\ tree'.src = tree.src
    BY <1>3, <2>1 DEF Trees
  <2>3. output # "none"
    BY <2>1 DEF BuildInv, DirectoryOK, Build!Empty
  <2> QED BY <1>6, <1>8, <2>2, <2>3
<1> QED BY <1>4, <1>5, <1>7, <1>8 DEF Build!Edit

LEMMA ClearKeeps ==
    ASSUME Build!BuildAssumption, BuildInv, Build!Clear
    PROVE  BuildInv'
<1>1. /\ edits' = edits + 1 /\ edits < EditMax /\ output' = "none" /\ tree' = Build!Empty
      /\ receipt' = Build!NoReceipt /\ UNCHANGED <<repo, input, place, pin, copied, listed, states>>
  BY DEF Build!Clear
<1>2. edits' \in 0..EditMax
  BY <1>1 DEF Build!BuildAssumption, BuildInv, BuildTypes
<1>3. tree' \in Trees
  BY <1>1 DEF Trees, Versions, Build!Empty, Build!None
<1>4. BuildTypes'
  BY <1>1, <1>2, <1>3 DEF BuildInv, BuildTypes, Receipts
<1>5. DirectoryOK' /\ TreeOK' /\ CompiledOK'
  BY <1>1 DEF BuildInv, DirectoryOK, TreeOK, CompiledOK, Build!Owns, Build!BuildAssumption
<1>6. Build!OneStateThroughout'
  BY <1>1 DEF Build!OneStateThroughout, Build!SourcesAreOneState, Build!BundlesAreOfTheSources, Build!NoReceipt
<1> QED BY <1>4, <1>5, <1>6 DEF BuildInv

LEMMA BuildRests ==
    BuildInv /\ edits' \in 0..EditMax
    /\ UNCHANGED <<repo, input, output, tree, receipt, place, pin, copied, listed, states>> => BuildInv'
BY DEF BuildInv, BuildTypes, DirectoryOK, TreeOK, CompiledOK, Build!Owns, Build!OneStateThroughout,
       Build!SourcesAreOneState, Build!BundlesAreOfTheSources

\* A step of the build, as itself or among the finalizers.
LEMMA BuildNextInv ==
    ASSUME Build!BuildAssumption, BuildInv, [Build!Next]_(Build!vars)
    PROVE  BuildInv'
<1>1. CASE UNCHANGED Build!vars
  <2>1. edits' \in 0..EditMax
    BY <1>1 DEF Build!vars, BuildInv, BuildTypes
  <2> QED BY <1>1, <2>1, BuildRests DEF Build!vars
<1>2. CASE Build!Next
  BY <1>2, ReadInputsKeeps, CopyKeeps, WritesKeep, ChecksKeep, RecheckOfBuildKeeps, CompleteKeeps, EditKeeps,
     ClearKeeps DEF Build!Next
<1> QED BY <1>1, <1>2

LEMMA BuildSpecInv == Build!BuildAssumption => (Build!Spec => []BuildInv)
<1> SUFFICES ASSUME Build!BuildAssumption
             PROVE  Build!Spec => []BuildInv
  OBVIOUS
<1>1. Build!Init => BuildInv
  BY BuildInitInv
<1>2. BuildInv /\ [Build!Next]_(Build!vars) => BuildInv'
  BY BuildNextInv
<1> QED BY <1>1, <1>2, PTL DEF Build!Spec

\* What a finished build names belongs together: its sources were in the
\* repository all at one moment although they were copied one by one, and every
\* bundle was compiled from just them, for any number of files, of builds with
\* the same output directory and of edits at any moment (build-school-observed.mjs
\* 285-290).
THEOREM BuildsAreOfOneState ==
    Build!BuildAssumption => (Build!Spec => [](Build!BuildTypeOK /\ Build!OneStateThroughout))
<1> SUFFICES ASSUME Build!BuildAssumption
             PROVE  Build!Spec => [](Build!BuildTypeOK /\ Build!OneStateThroughout)
  OBVIOUS
<1>1. BuildInv => Build!BuildTypeOK /\ Build!OneStateThroughout
  BY DEF Build!BuildAssumption, BuildInv, BuildTypes, BuildSteps, Receipts, Build!NoReceipt, Build!BuildTypeOK
<1> QED BY <1>1, BuildSpecInv, PTL

-----------------------------------------------------------------------------

Views == [receipt : Receipts, generation : Nat, snapshot : Nat, functions : Versions, dist : Nat,
          extra : BOOLEAN, before : Versions, compiled : Versions]
FinalSteps == {"start", "generation", "snapshot", "functions", "produce", "make", "before", "compile",
               "after", "join", "done", "stopped"}

FinalTypes ==
    /\ candidate \in BOOLEAN /\ worker \in Versions
    /\ fat \in [Finalizers -> FinalSteps] /\ seen \in [Finalizers -> Views]
    /\ completion \in {Build!NoCompletion} \cup [by : Finalizers, seen : Views]

\* A copy that is finished has every file, and a receipt names a finished one.
CopiesOK ==
    /\ \A x \in Files : repo[x] # Build!None
    /\ \A b \in Builders : place[b] \notin {"start", "make", "copy", "stopped"} =>
         \A x \in Files : copied[b][x] # Build!None
    /\ receipt.owner # "none" => place[receipt.owner] = "done" /\ receipt.sources = copied[receipt.owner]

\* What a finalizer goes by: a receipt it has read stays true of that build, and
\* what it compiled differs from the sources at most where they were edited since.
SeenOK ==
    \A f \in Finalizers :
        /\ seen[f].receipt.owner # "none" =>
             /\ seen[f].receipt.owner \in Builders /\ place[seen[f].receipt.owner] = "done"
             /\ seen[f].receipt.sources = copied[seen[f].receipt.owner]
             /\ seen[f].receipt.sources \in states
        /\ fat[f] \notin {"start", "stopped"} => seen[f].receipt.owner # "none"
        /\ fat[f] \in {"compile", "after", "join"} => seen[f].before = seen[f].receipt.sources
        /\ fat[f] = "after" =>
             \A x \in Files : tree.src[x] = seen[f].before[x] => seen[f].compiled[x] = seen[f].before[x]
        /\ fat[f] = "join" => seen[f].compiled = seen[f].before

\* The inductive invariant of the completion.
FinalInv == BuildInv /\ CopiesOK /\ FinalTypes /\ SeenOK /\ Build!CompletionIsOfTheBuild

LEMMA FinalInitInv == Build!CompletionAssumption /\ Build!FInit => FinalInv
<1> SUFFICES ASSUME Build!CompletionAssumption, Build!FInit
             PROVE  FinalInv
  OBVIOUS
<1> USE DEF Build!None
<1>1. Build!BuildAssumption /\ Build!Init
  BY DEF Build!CompletionAssumption, Build!FInit
<1>2. BuildInv
  BY <1>1, BuildInitInv
<1>3. CopiesOK
  BY <1>1 DEF Build!Init, CopiesOK, Build!NoReceipt
<1>4. Build!NoSources \in Versions /\ Build!Unread \in Views
  BY DEF Build!NoSources, Versions, Build!Unread, Views, Receipts
<1>5. FinalTypes
  BY <1>4 DEF Build!FInit, FinalTypes, FinalSteps
<1>6. SeenOK
  BY DEF Build!FInit, SeenOK, Build!Unread, Build!NoReceipt
<1>7. Build!CompletionIsOfTheBuild
  BY DEF Build!FInit, Build!CompletionIsOfTheBuild, Build!CompletionIsOneSnapshot, Build!WorkerIsOfTheBuild,
         Build!NoCompletion
<1> QED BY <1>2, <1>3, <1>5, <1>6, <1>7 DEF FinalInv

\* What is finished stays so: the copy of a build, and its place.
LEMMA DoneStays ==
    ASSUME BuildInv, [Build!Next]_(Build!vars), NEW b \in Builders, place[b] = "done"
    PROVE  place'[b] = "done" /\ copied'[b] = copied[b]
<1>1. place \in [Builders -> BuildSteps] /\ copied \in [Builders -> Versions]
  BY DEF BuildInv, BuildTypes
<1>2. CASE UNCHANGED Build!vars
  BY <1>2 DEF Build!vars
<1>3. CASE Build!Edit \/ Build!Clear
  BY <1>3 DEF Build!Edit, Build!Clear
<1>4. CASE \E c \in Builders :
             \/ Build!ReadInputs(c) \/ Build!Make(c) \/ Build!CopyFile(c) \/ Build!Generate(c) \/ Build!Accept(c)
             \/ Build!Client(c) \/ Build!ClientArtifacts(c) \/ Build!Pages(c) \/ Build!PageArtifacts(c)
             \/ Build!Inventory(c) \/ Build!Recheck(c) \/ Build!Complete(c) \/ Build!Stop(c)
  <2>1. PICK c \in Builders :
             \/ Build!ReadInputs(c) \/ Build!Make(c) \/ Build!CopyFile(c) \/ Build!Generate(c) \/ Build!Accept(c)
             \/ Build!Client(c) \/ Build!ClientArtifacts(c) \/ Build!Pages(c) \/ Build!PageArtifacts(c)
             \/ Build!Inventory(c) \/ Build!Recheck(c) \/ Build!Complete(c) \/ Build!Stop(c)
    BY <1>4
  <2>2. place[c] # "done" /\ \A d \in Builders : d # c => place'[d] = place[d]
    BY <1>1, <2>1 DEF Build!Goto, Build!ReadInputs, Build!Make, Build!CopyFile, Build!Generate, Build!Accept, Build!Client,
       Build!ClientArtifacts, Build!Pages, Build!PageArtifacts, Build!Inventory, Build!Recheck, Build!Complete,
       Build!Stop
  <2>3. copied' = copied \/ \E x \in Files : copied' = [copied EXCEPT ![c][x] = repo[x]]
    BY <2>1 DEF Build!ReadInputs, Build!Make, Build!CopyFile, Build!Generate, Build!Accept, Build!Client,
       Build!ClientArtifacts, Build!Pages, Build!PageArtifacts, Build!Inventory, Build!Recheck, Build!Complete,
       Build!Stop
  <2> QED BY <1>1, <2>2, <2>3
<1> QED BY <1>2, <1>3, <1>4 DEF Build!Next

\* Nobody brings back a source that was edited while the builder is done.
LEMMA EditsStay ==
    ASSUME Build!CompletionAssumption, BuildInv, CopiesOK, [Build!Next]_(Build!vars),
           NEW b \in Builders, place[b] = "done", NEW x \in Files, tree'.src[x] # tree.src[x]
    PROVE  tree'.src[x] # copied[b][x]
<1>1. tree.src \in Versions /\ copied[b][x] # Build!None /\ \A c \in Builders : c = b
  BY DEF BuildInv, BuildTypes, Trees, CopiesOK, Build!CompletionAssumption
<1>2. CASE Build!Edit
  <2>1. tree'.src[x] = 9 /\ tree.src[x] # Build!None
    <3>1. tree \in Trees
      BY DEF BuildInv, BuildTypes
    <3>2. CASE \E f \in Files : tree.src[f] # Build!None /\ tree' = [tree EXCEPT !.src[f] = 9]
      BY <1>1, <3>1, <3>2 DEF Trees, Versions
    <3>3. CASE \E p \in {"generation", "public", "dist"} : tree' = [tree EXCEPT ![p] = 9]
      BY <3>1, <3>3 DEF Trees
    <3> QED BY <1>2, <3>2, <3>3 DEF Build!Edit
  <2>2. output = b
    BY <1>1, <2>1 DEF BuildInv, BuildTypes, DirectoryOK, Build!Empty
  <2>3. tree.src[x] \in {copied[b][x], 9}
    BY <2>2 DEF BuildInv, TreeOK, Build!Owns
  <2> QED BY <2>1, <2>3
<1>3. CASE Build!Clear
  BY <1>1, <1>3 DEF Build!Clear, Build!Empty
<1>4. CASE \E c \in Builders :
             \/ Build!ReadInputs(c) \/ Build!Make(c) \/ Build!CopyFile(c) \/ Build!Generate(c) \/ Build!Accept(c)
             \/ Build!Client(c) \/ Build!ClientArtifacts(c) \/ Build!Pages(c) \/ Build!PageArtifacts(c)
             \/ Build!Inventory(c) \/ Build!Recheck(c) \/ Build!Complete(c) \/ Build!Stop(c)
  BY <1>1, <1>4
  DEF Build!ReadInputs, Build!Make, Build!CopyFile, Build!Generate, Build!Accept, Build!Client,
      Build!ClientArtifacts, Build!Pages, Build!PageArtifacts, Build!Inventory, Build!Recheck, Build!Complete,
      Build!Stop
<1> QED BY <1>2, <1>3, <1>4 DEF Build!Next, Build!vars

\* Copies are finished before a receipt names them.
LEMMA CopiesNext ==
    ASSUME BuildInv, CopiesOK, [Build!Next]_(Build!vars)
    PROVE  CopiesOK'
<1>1. place \in [Builders -> BuildSteps] /\ copied \in [Builders -> Versions] /\ repo \in Versions
  BY DEF BuildInv, BuildTypes
<1>0. receipt.owner # "none" => receipt.owner \in Builders
  BY DEF BuildInv, BuildTypes, Receipts, Build!NoReceipt
<1>2. CASE UNCHANGED Build!vars
  BY <1>2 DEF Build!vars, CopiesOK
<1>3. CASE Build!Edit
  <2>1. \A x \in Files : repo'[x] # Build!None
    BY <1>1, <1>3 DEF Build!Edit, CopiesOK, Build!None, Versions
  <2> QED BY <1>3, <2>1 DEF Build!Edit, CopiesOK
<1>4. CASE Build!Clear
  BY <1>4 DEF Build!Clear, CopiesOK, Build!NoReceipt
<1>5. ASSUME NEW c \in Builders, Build!CopyFile(c)
      PROVE  CopiesOK'
  <2>1. PICK f \in Files : /\ copied' = [copied EXCEPT ![c][f] = repo[f]]
                           /\ place' = [place EXCEPT ![c] = IF \E g \in Files \ {f} : copied[c][g] = Build!None
                                                            THEN "copy" ELSE "generate"]
    BY <1>5 DEF Build!CopyFile, Build!Goto
  <2>2. place[c] = "copy" /\ UNCHANGED <<repo, receipt>>
    BY <1>5 DEF Build!CopyFile
  <2>3. \A b \in Builders : b # c => place'[b] = place[b] /\ copied'[b] = copied[b]
    BY <1>1, <2>1
  <2>4. \A x \in Files : copied'[c][x] = IF x = f THEN repo[f] ELSE copied[c][x]
    BY <1>1, <2>1 DEF Versions
  <2>5. place'[c] # "copy" => \A x \in Files : copied'[c][x] # Build!None
    BY <1>1, <2>1, <2>4 DEF CopiesOK
  <2> QED BY <1>0, <2>2, <2>3, <2>5 DEF CopiesOK
<1>6. ASSUME NEW c \in Builders, Build!Complete(c)
      PROVE  CopiesOK'
  <2>1. /\ place' = [place EXCEPT ![c] = "done"] /\ place[c] = "complete" /\ UNCHANGED <<repo, copied>>
        /\ receipt'.owner = c /\ receipt'.sources = copied[c]
    BY <1>6 DEF Build!Complete, Build!Goto
  <2> QED BY <1>1, <2>1 DEF CopiesOK
<1>7. ASSUME NEW c \in Builders,
             \/ Build!ReadInputs(c) \/ Build!Make(c) \/ Build!Generate(c) \/ Build!Accept(c)
             \/ Build!Client(c) \/ Build!ClientArtifacts(c) \/ Build!Pages(c) \/ Build!PageArtifacts(c)
             \/ Build!Inventory(c) \/ Build!Recheck(c) \/ Build!Stop(c)
      PROVE  CopiesOK'
  <2>1. UNCHANGED <<repo, copied, receipt>> /\ \A b \in Builders : b # c => place'[b] = place[b]
    BY <1>1, <1>7 DEF Build!Goto, Build!ReadInputs, Build!Make, Build!Generate, Build!Accept, Build!Client,
       Build!ClientArtifacts, Build!Pages, Build!PageArtifacts, Build!Inventory, Build!Recheck, Build!Stop
  <2>2. /\ place'[c] \notin {"start", "make", "copy", "stopped"} => place[c] \notin {"start", "make", "copy", "stopped"}
        /\ place[c] # "done"
    BY <1>1, <1>7 DEF Build!Goto, Build!ReadInputs, Build!Make, Build!Generate, Build!Accept, Build!Client,
       Build!ClientArtifacts, Build!Pages, Build!PageArtifacts, Build!Inventory, Build!Recheck, Build!Stop
  <2> QED BY <1>0, <2>1, <2>2 DEF CopiesOK
<1> QED BY <1>2, <1>3, <1>4, <1>5, <1>6, <1>7 DEF Build!Next

LEMMA StatesGrow == [Build!Next]_(Build!vars) => states \subseteq states'
BY DEF Build!Next, Build!vars, Build!Edit, Build!Clear, Build!ReadInputs, Build!Make, Build!CopyFile, Build!Generate,
   Build!Accept, Build!Client, Build!ClientArtifacts, Build!Pages, Build!PageArtifacts, Build!Inventory,
   Build!Recheck, Build!Complete, Build!Stop

\* The builds, the edits and the clearing go on around the finalizers.
LEMMA BuildAround ==
    ASSUME Build!CompletionAssumption, FinalInv, [Build!Next]_(Build!vars), UNCHANGED <<fat, seen>>,
           candidate' \in BOOLEAN, worker' \in Versions, completion' \in {completion, Build!NoCompletion}
    PROVE  FinalInv'
<1>1. BuildInv' /\ CopiesOK'
  BY BuildNextInv, CopiesNext DEF FinalInv, Build!CompletionAssumption
<1>2. FinalTypes'
  BY DEF FinalInv, FinalTypes
<1>3. states \subseteq states'
  BY StatesGrow
<1>4. SeenOK'
  <2>1. ASSUME NEW f \in Finalizers, seen[f].receipt.owner # "none"
        PROVE  /\ place'[seen[f].receipt.owner] = "done"
               /\ seen[f].receipt.sources = copied'[seen[f].receipt.owner]
    BY <2>1, DoneStays DEF FinalInv, SeenOK
  <2>2. ASSUME NEW f \in Finalizers, fat[f] = "after", NEW x \in Files, tree'.src[x] = seen[f].before[x]
        PROVE  seen[f].compiled[x] = seen[f].before[x]
    <3>1. /\ seen[f].receipt.owner \in Builders /\ place[seen[f].receipt.owner] = "done"
          /\ seen[f].before = copied[seen[f].receipt.owner]
      BY <2>2 DEF FinalInv, SeenOK
    <3>2. tree'.src[x] = tree.src[x]
      BY <2>2, <3>1, EditsStay DEF FinalInv
    <3> QED BY <2>2, <3>2 DEF FinalInv, SeenOK
  <2> QED BY <1>3, <2>1, <2>2 DEF FinalInv, SeenOK
<1>5. Build!CompletionIsOfTheBuild'
  BY <1>3 DEF FinalInv, Build!CompletionIsOfTheBuild, Build!CompletionIsOneSnapshot, Build!WorkerIsOfTheBuild,
     Build!NoCompletion
<1> QED BY <1>1, <1>2, <1>4, <1>5 DEF FinalInv

LEMMA EditWorkerKeeps ==
    ASSUME Build!CompletionAssumption, FinalInv, Build!EditWorker
    PROVE  FinalInv'
<1>1. /\ edits' = edits + 1 /\ edits < EditMax /\ worker' = [x \in Files |-> 9]
      /\ UNCHANGED <<repo, input, output, tree, receipt, place, pin, copied, listed, states>>
      /\ UNCHANGED <<candidate, fat, seen, completion>>
  BY DEF Build!EditWorker
<1>2. edits' \in 0..EditMax
  BY <1>1 DEF Build!CompletionAssumption, Build!BuildAssumption, FinalInv, BuildInv, BuildTypes
<1>3. BuildInv' /\ CopiesOK'
  BY <1>1, <1>2, BuildRests DEF FinalInv, CopiesOK
<1>4. worker' \in Versions
  BY <1>1 DEF Versions
<1> QED BY <1>1, <1>3, <1>4
        DEF FinalInv, FinalTypes, SeenOK, Build!CompletionIsOfTheBuild, Build!CompletionIsOneSnapshot,
            Build!WorkerIsOfTheBuild

\* A finalizer goes on, with what it has seen by then.
LEMMA FinalizerGoesOn ==
    ASSUME FinalInv, UNCHANGED Build!vars, NEW f \in Finalizers, NEW s \in FinalSteps, NEW v \in Views,
           fat' = [fat EXCEPT ![f] = s], seen' = [seen EXCEPT ![f] = v],
           candidate' \in BOOLEAN, worker' \in Versions, UNCHANGED completion,
           v.receipt = seen[f].receipt, fat[f] \notin {"start", "stopped"} \/ s = "stopped",
           s \in {"compile", "after", "join"} => v.before = v.receipt.sources,
           s = "after" => v.compiled = tree.src,
           s = "join" => v.compiled = v.before
    PROVE  FinalInv'
<1>1. /\ fat' \in [Finalizers -> FinalSteps] /\ seen' \in [Finalizers -> Views]
      /\ \A g \in Finalizers : /\ fat'[g] = IF g = f THEN s ELSE fat[g]
                               /\ seen'[g] = IF g = f THEN v ELSE seen[g]
  BY DEF FinalInv, FinalTypes
<1>2. UNCHANGED <<repo, input, output, tree, receipt, place, pin, copied, listed, edits, states>>
  BY DEF Build!vars
<1>3. BuildInv' /\ CopiesOK'
  <2>1. edits' \in 0..EditMax
    BY <1>2 DEF FinalInv, BuildInv, BuildTypes
  <2> QED BY <1>2, <2>1, BuildRests DEF FinalInv, CopiesOK
<1>4. FinalTypes'
  BY <1>1 DEF FinalInv, FinalTypes
<1>5. SeenOK'
  <2>1. ASSUME NEW g \in Finalizers, g # f
        PROVE  fat'[g] = fat[g] /\ seen'[g] = seen[g]
    BY <1>1, <2>1
  <2>2. fat'[f] = s /\ seen'[f] = v
    BY <1>1
  <2> QED BY <1>2, <2>1, <2>2 DEF FinalInv, SeenOK
<1>6. Build!CompletionIsOfTheBuild'
  BY <1>2 DEF FinalInv, Build!CompletionIsOfTheBuild, Build!CompletionIsOneSnapshot, Build!WorkerIsOfTheBuild
<1> QED BY <1>3, <1>4, <1>5, <1>6 DEF FinalInv

\* The receipt of the build is read: it names a finished copy of one state.
LEMMA ReadReceiptKeeps ==
    ASSUME FinalInv, UNCHANGED Build!vars, NEW f \in Finalizers, Build!ReadReceipt(f)
    PROVE  FinalInv'
<1>1. /\ receipt.owner # "none" /\ seen' = [seen EXCEPT ![f] = [seen[f] EXCEPT !.receipt = receipt]]
      /\ fat' = [fat EXCEPT ![f] = "generation"] /\ UNCHANGED <<candidate, worker, completion>>
  BY DEF Build!ReadReceipt, Build!Saw, Build!FGoto
<1>2. UNCHANGED <<repo, input, output, tree, receipt, place, pin, copied, listed, edits, states>>
  BY DEF Build!vars
<1>3. BuildInv' /\ CopiesOK'
  <2>1. edits' \in 0..EditMax
    BY <1>2 DEF FinalInv, BuildInv, BuildTypes
  <2> QED BY <1>2, <2>1, BuildRests DEF FinalInv, CopiesOK
<1>4. seen[f] \in Views /\ receipt \in Receipts
  BY DEF FinalInv, FinalTypes, BuildInv, BuildTypes
<1> DEFINE v == [seen[f] EXCEPT !.receipt = receipt]
<1>5. v \in Views /\ v.receipt = receipt
  BY <1>4 DEF Views
<1> HIDE DEF v
<1>6. /\ fat' \in [Finalizers -> FinalSteps] /\ seen' \in [Finalizers -> Views]
      /\ \A g \in Finalizers : /\ fat'[g] = IF g = f THEN "generation" ELSE fat[g]
                               /\ seen'[g] = IF g = f THEN v ELSE seen[g]
  <2>1. seen' = [seen EXCEPT ![f] = v]
    BY <1>1 DEF v
  <2> QED BY <1>1, <1>5, <2>1 DEF FinalInv, FinalTypes, FinalSteps
<1>7. FinalTypes'
  BY <1>1, <1>6 DEF FinalInv, FinalTypes
<1>8. /\ receipt.owner \in Builders /\ place[receipt.owner] = "done"
      /\ receipt.sources = copied[receipt.owner] /\ receipt.sources \in states
  <2>1. receipt.owner \in Builders
    BY <1>1, <1>4 DEF Receipts, Build!NoReceipt
  <2> QED BY <1>1, <2>1 DEF FinalInv, CopiesOK, BuildInv, Build!OneStateThroughout, Build!SourcesAreOneState
<1>9. SeenOK'
  <2>1. ASSUME NEW g \in Finalizers, g # f
        PROVE  fat'[g] = fat[g] /\ seen'[g] = seen[g]
    BY <1>6, <2>1
  <2>2. fat'[f] = "generation" /\ seen'[f].receipt = receipt
    BY <1>5, <1>6
  <2> QED BY <1>1, <1>2, <1>8, <2>1, <2>2 DEF FinalInv, SeenOK
<1>10. Build!CompletionIsOfTheBuild'
  BY <1>1, <1>2 DEF FinalInv, Build!CompletionIsOfTheBuild, Build!CompletionIsOneSnapshot, Build!WorkerIsOfTheBuild
<1> QED BY <1>3, <1>7, <1>9, <1>10 DEF FinalInv

\* The parts are read, produced and compiled one after the other.
LEMMA ReadsKeep ==
    ASSUME FinalInv, UNCHANGED Build!vars, NEW f \in Finalizers,
           \/ Build!ReadGeneration(f) \/ Build!ReadSnapshot(f) \/ Build!ReadFunctions(f) \/ Build!Produce(f)
           \/ Build!Before(f) \/ Build!Compile(f)
    PROVE  FinalInv'
<1>1. /\ seen[f] \in Views /\ candidate \in BOOLEAN /\ worker \in Versions /\ tree \in Trees
      /\ {"snapshot", "functions", "produce", "make", "compile", "after"} \subseteq FinalSteps
  BY DEF FinalInv, FinalTypes, FinalSteps, BuildInv, BuildTypes
<1>2. tree.src \in Versions /\ tree.generation \in Nat /\ tree.dist \in Nat
  BY <1>1 DEF Trees
<1>3. UNCHANGED <<candidate, worker, completion>>
  BY DEF Build!ReadGeneration, Build!ReadSnapshot, Build!ReadFunctions, Build!Produce, Build!Before, Build!Compile
<1>4. ASSUME NEW s \in {"snapshot", "functions", "produce", "make"}, NEW v \in Views,
             fat' = [fat EXCEPT ![f] = s], seen' = [seen EXCEPT ![f] = v], v.receipt = seen[f].receipt,
             fat[f] \notin {"start", "stopped"}
      PROVE  FinalInv'
  BY <1>1, <1>3, <1>4, FinalizerGoesOn
<1>5. CASE Build!ReadGeneration(f)
  <2> DEFINE v == [seen[f] EXCEPT !.generation = tree.generation]
  <2>1. v \in Views /\ v.receipt = seen[f].receipt
    BY <1>1, <1>2 DEF Views
  <2>2. fat[f] = "generation" /\ fat' = [fat EXCEPT ![f] = "snapshot"] /\ seen' = [seen EXCEPT ![f] = v]
    BY <1>5 DEF Build!ReadGeneration, Build!Saw, Build!FGoto
  <2> HIDE DEF v
  <2> QED BY <1>4, <2>1, <2>2
<1>6. CASE Build!ReadSnapshot(f)
  <2> DEFINE v == [seen[f] EXCEPT !.snapshot = tree.generation]
  <2>1. v \in Views /\ v.receipt = seen[f].receipt
    BY <1>1, <1>2 DEF Views
  <2>2. fat[f] = "snapshot" /\ fat' = [fat EXCEPT ![f] = "functions"] /\ seen' = [seen EXCEPT ![f] = v]
    BY <1>6 DEF Build!ReadSnapshot, Build!Saw, Build!FGoto
  <2> HIDE DEF v
  <2> QED BY <1>4, <2>1, <2>2
<1>7. CASE Build!ReadFunctions(f)
  <2> DEFINE v == [seen[f] EXCEPT !.functions = tree.src]
  <2>1. v \in Views /\ v.receipt = seen[f].receipt
    BY <1>1, <1>2 DEF Views
  <2>2. fat[f] = "functions" /\ fat' = [fat EXCEPT ![f] = "produce"] /\ seen' = [seen EXCEPT ![f] = v]
    BY <1>7 DEF Build!ReadFunctions, Build!Saw, Build!FGoto
  <2> HIDE DEF v
  <2> QED BY <1>4, <2>1, <2>2
<1>8. CASE Build!Produce(f)
  <2> DEFINE v == [seen[f] EXCEPT !.dist = tree.dist, !.extra = (worker # Build!NoSources)]
  <2>1. v \in Views /\ v.receipt = seen[f].receipt
    BY <1>1, <1>2 DEF Views
  <2>2. fat[f] = "produce" /\ fat' = [fat EXCEPT ![f] = "make"] /\ seen' = [seen EXCEPT ![f] = v]
    BY <1>8 DEF Build!Produce, Build!FGoto, FinalInv, FinalTypes
  <2> HIDE DEF v
  <2> QED BY <1>4, <2>1, <2>2
<1>9. CASE Build!Before(f)
  <2> DEFINE v == [seen[f] EXCEPT !.before = tree.src]
  <2>1. v \in Views /\ v.receipt = seen[f].receipt /\ v.before = tree.src
    BY <1>1, <1>2 DEF Views
  <2>2. /\ fat[f] = "before" /\ fat' = [fat EXCEPT ![f] = "compile"] /\ seen' = [seen EXCEPT ![f] = v]
        /\ tree.src = seen[f].receipt.sources
    BY <1>9 DEF Build!Before, Build!Saw, Build!FGoto
  <2> HIDE DEF v
  <2> QED BY <1>1, <1>3, <2>1, <2>2, FinalizerGoesOn
<1>10. CASE Build!Compile(f)
  <2> DEFINE v == [seen[f] EXCEPT !.compiled = tree.src]
  <2>1. v \in Views /\ v.receipt = seen[f].receipt /\ v.before = seen[f].before /\ v.compiled = tree.src
    BY <1>1, <1>2 DEF Views
  <2>2. fat[f] = "compile" /\ fat' = [fat EXCEPT ![f] = "after"] /\ seen' = [seen EXCEPT ![f] = v]
    BY <1>10 DEF Build!Compile, Build!Saw, Build!FGoto
  <2>3. seen[f].before = seen[f].receipt.sources
    BY <2>2 DEF FinalInv, SeenOK
  <2> HIDE DEF v
  <2> QED BY <1>1, <1>3, <2>1, <2>2, <2>3, FinalizerGoesOn
<1> QED BY <1>5, <1>6, <1>7, <1>8, <1>9, <1>10

\* The worker is written if the sources are as before; the parts are joined.
LEMMA WorkerKeeps ==
    ASSUME FinalInv, UNCHANGED Build!vars, NEW f \in Finalizers,
           Build!MakeCandidate(f) \/ Build!WriteWorker(f) \/ Build!FStop(f)
    PROVE  FinalInv'
<1>1. /\ seen[f] \in Views /\ candidate \in BOOLEAN /\ worker \in Versions /\ tree \in Trees
      /\ {"before", "join", "stopped"} \subseteq FinalSteps
  BY DEF FinalInv, FinalTypes, FinalSteps, BuildInv, BuildTypes
<1>2. seen' = [seen EXCEPT ![f] = seen[f]] /\ UNCHANGED completion
  BY DEF Build!MakeCandidate, Build!WriteWorker, Build!FStop, FinalInv, FinalTypes
<1>3. CASE Build!MakeCandidate(f)
  <2>1. fat[f] = "make" /\ fat' = [fat EXCEPT ![f] = "before"] /\ candidate' = TRUE /\ UNCHANGED worker
    BY <1>3 DEF Build!MakeCandidate, Build!FGoto
  <2> QED BY <1>1, <1>2, <2>1, FinalizerGoesOn
<1>4. CASE Build!FStop(f)
  <2>1. fat' = [fat EXCEPT ![f] = "stopped"] /\ UNCHANGED <<candidate, worker>>
    BY <1>4 DEF Build!FStop, Build!FGoto
  <2> QED BY <1>1, <1>2, <2>1, FinalizerGoesOn
<1>5. CASE Build!WriteWorker(f)
  <2>1. /\ fat[f] = "after" /\ fat' = [fat EXCEPT ![f] = "join"] /\ tree.src = seen[f].before
        /\ worker' = seen[f].compiled /\ UNCHANGED candidate
    BY <1>5 DEF Build!WriteWorker, Build!FGoto, Build!SourcesHeld
  <2>2. seen[f].compiled \in Versions /\ seen[f].before \in Versions
    BY <1>1 DEF Views
  <2>3. seen[f].before = seen[f].receipt.sources /\ \A x \in Files : seen[f].compiled[x] = seen[f].before[x]
    BY <2>1 DEF FinalInv, SeenOK
  <2>4. seen[f].compiled = seen[f].before
    BY <2>2, <2>3 DEF Versions
  <2> QED BY <1>1, <1>2, <2>1, <2>2, <2>3, <2>4, FinalizerGoesOn
<1> QED BY <1>3, <1>4, <1>5

LEMMA JoinKeeps ==
    ASSUME FinalInv, UNCHANGED Build!vars, NEW f \in Finalizers, Build!Join(f)
    PROVE  FinalInv'
<1>1. /\ fat[f] = "join" /\ fat' = [fat EXCEPT ![f] = "done"] /\ UNCHANGED <<candidate, worker, seen>>
      /\ completion' = [by |-> f, seen |-> seen[f]] /\ seen[f].dist = seen[f].receipt.input
  BY DEF Build!Join, Build!FGoto, Build!Joins
<1>2. UNCHANGED <<repo, input, output, tree, receipt, place, pin, copied, listed, edits, states>>
  BY DEF Build!vars
<1>3. BuildInv' /\ CopiesOK'
  <2>1. edits' \in 0..EditMax
    BY <1>2 DEF FinalInv, BuildInv, BuildTypes
  <2> QED BY <1>2, <2>1, BuildRests DEF FinalInv, CopiesOK
<1>4. /\ fat' \in [Finalizers -> FinalSteps] /\ fat'[f] = "done" /\ \A g \in Finalizers : g # f => fat'[g] = fat[g]
  BY <1>1 DEF FinalInv, FinalTypes, FinalSteps
<1>5. FinalTypes'
  BY <1>1, <1>4 DEF FinalInv, FinalTypes
<1>6. SeenOK'
  BY <1>1, <1>2, <1>4 DEF FinalInv, SeenOK
<1>7. seen[f].compiled = seen[f].receipt.sources /\ seen[f].receipt.sources \in states
  BY <1>1 DEF FinalInv, SeenOK
<1>8. Build!CompletionIsOfTheBuild'
  BY <1>1, <1>2, <1>7 DEF Build!CompletionIsOfTheBuild, Build!CompletionIsOneSnapshot, Build!WorkerIsOfTheBuild
<1> QED BY <1>3, <1>5, <1>6, <1>8 DEF FinalInv

LEMMA FinalNextInv ==
    ASSUME Build!CompletionAssumption, FinalInv, [Build!FNext]_<<Build!vars, Build!fvars>>
    PROVE  FinalInv'
<1>1. candidate \in BOOLEAN /\ worker \in Versions
  BY DEF FinalInv, FinalTypes
<1>2. CASE [Build!Next]_(Build!vars) /\ UNCHANGED Build!fvars
  BY <1>1, <1>2, BuildAround DEF Build!fvars
<1>3. CASE Build!FClear
  <2>1. Build!NoSources \in Versions
    BY DEF Build!NoSources, Versions, Build!None
  <2> QED BY <1>3, <2>1, BuildAround DEF Build!FClear, Build!Next
<1>4. CASE Build!EditWorker
  BY <1>4, EditWorkerKeeps
<1>5. CASE \E f \in Finalizers : Build!Finalize(f) /\ UNCHANGED Build!vars
  BY <1>5, ReadReceiptKeeps, ReadsKeep, WorkerKeeps, JoinKeeps DEF Build!Finalize
<1> QED BY <1>2, <1>3, <1>4, <1>5 DEF Build!FNext, Build!Next

LEMMA FinalSpecInv == Build!CompletionAssumption => (Build!FSpec => []FinalInv)
<1> SUFFICES ASSUME Build!CompletionAssumption
             PROVE  Build!FSpec => []FinalInv
  OBVIOUS
<1>1. Build!FInit => FinalInv
  BY FinalInitInv
<1>2. FinalInv /\ [Build!FNext]_<<Build!vars, Build!fvars>> => FinalInv'
  BY FinalNextInv
<1> QED BY <1>1, <1>2, PTL DEF Build!FSpec

\* What a completion joins is one generation, of the snapshot the build pinned,
\* and the worker compiled from the sources of that build, which the repository
\* held all at one moment: though its parts are read one by one from a directory
\* that others edit and clear, by any number of finalizers
\* (finalize-school-release.mjs, createSchoolReleaseCompletion).
THEOREM CompletionsAreOfOneBuild ==
    Build!CompletionAssumption =>
        (Build!FSpec => [](Build!CompletionTypeOK /\ Build!OneStateThroughout /\ Build!CompletionIsOfTheBuild))
<1> SUFFICES ASSUME Build!CompletionAssumption
             PROVE  Build!FSpec => [](Build!CompletionTypeOK /\ Build!OneStateThroughout /\ Build!CompletionIsOfTheBuild)
  OBVIOUS
<1>1. FinalInv => Build!CompletionTypeOK /\ Build!OneStateThroughout /\ Build!CompletionIsOfTheBuild
  BY DEF FinalInv, FinalTypes, FinalSteps, BuildInv, BuildTypes, BuildSteps, Receipts, Build!NoReceipt,
         Build!BuildTypeOK, Build!CompletionTypeOK, Build!NoCompletion
<1> QED BY <1>1, FinalSpecInv, PTL

-----------------------------------------------------------------------------
(* The package of a release (WorkersPackage): several builds, one output.    *)

CONSTANTS Assets, Generations, Envs, ValidEnvs, HasWorker, Absent, None, MaxTouches

VARIABLES dist, env, builds, out, exists, touches

Package == INSTANCE WorkersPackage

Making == {"copying", "writing", "verifying"}

\* Only the build that made the directory writes into it.
MakersOK ==
  /\ \A b \in Builders : builds[b].pc \in Making => exists
  /\ \A b, c \in Builders : builds[b].pc \in Making /\ builds[c].pc \in Making => b = c
  /\ ~exists => \A f \in Package!Outputs : out[f] = Absent
  /\ \A b \in Builders :
       builds[b].pc \in Making \cup {"listing"} =>
         /\ builds[b].gen \in Generations /\ (builds[b].pc = "listing" => builds[b].todo = Assets)
         /\ HasWorker => builds[b].worker = builds[b].gen /\ builds[b].env \in ValidEnvs

\* What it has written by then is of the candidate it read.
PartsOK ==
  \A b \in Builders : builds[b].pc \in Making =>
    /\ out[Package!ReceiptFile] = Absent
    /\ builds[b].pc = "copying" => \A f \in Assets \ builds[b].todo : out[f] = builds[b].gen
    /\ builds[b].pc # "copying" => \A f \in Assets : out[f] = builds[b].gen
    /\ builds[b].pc = "verifying" /\ HasWorker =>
         out[Package!Worker] = builds[b].gen /\ out[Package!EnvFile] = builds[b].env

WholeOK ==
  /\ out[Package!ReceiptFile] # Absent =>
       \E g \in Generations, v \in Envs \cup {None} :
         /\ out[Package!ReceiptFile] = <<g, v>> /\ \A f \in Assets : out[f] = g
         /\ HasWorker => out[Package!Worker] = g /\ out[Package!EnvFile] = v /\ v \in ValidEnvs
  /\ Package!EnvWasValidated

PackInv == Package!PackageTypeOK /\ MakersOK /\ PartsOK /\ WholeOK

LEMMA OutputFacts ==
  ASSUME Package!WorkersPackageAssumption
  PROVE  /\ Assets \subseteq Package!Sources /\ Assets \subseteq Package!Outputs
         /\ Package!ReceiptFile \in Package!Outputs /\ Package!ReceiptFile \notin Assets
         /\ HasWorker => /\ {Package!Worker, Package!EnvFile} \subseteq Package!Outputs
                         /\ {Package!WorkerJs, Package!Compiled} \subseteq Package!Sources
         /\ {Package!Worker, Package!EnvFile} \cap Assets = {}
         /\ Package!Worker # Package!EnvFile /\ Package!Worker # Package!ReceiptFile
         /\ Package!EnvFile # Package!ReceiptFile
         /\ Absent \notin Generations /\ Absent \notin Envs
         /\ \A g \in Generations, v \in Envs \cup {None} : <<g, v>> # Absent
         /\ ValidEnvs \subseteq Envs
BY DEF Package!WorkersPackageAssumption, Package!Sources, Package!Outputs, Package!Worker,
       Package!EnvFile, Package!ReceiptFile, Package!WorkerJs, Package!Compiled

LEMMA PackInitial == Package!WorkersPackageAssumption /\ Package!Init => PackInv
<1> SUFFICES ASSUME Package!WorkersPackageAssumption, Package!Init
             PROVE  PackInv
  OBVIOUS
<1> USE DEF Package!Init
<1>1. \A b \in Builders : builds[b] = Package!Idle /\ builds[b].pc = "idle"
  BY DEF Package!Idle
<1>2. Package!PackageTypeOK
  <2>1. Package!Idle \in
          [pc: {"idle", "listing", "copying", "writing", "verifying", "done", "failed"},
           gen: Generations \cup {None}, worker: Generations \cup {None},
           env: Envs \cup {None}, todo: SUBSET Assets]
    BY DEF Package!Idle
  <2>2. /\ dist \in [Package!Sources -> Package!Bytes]
        /\ receipt \in Generations /\ env \in Envs /\ exists \in BOOLEAN
    BY DEF Package!Bytes
  <2>3. touches \in 0..MaxTouches
    BY DEF Package!WorkersPackageAssumption
  <2> DEFINE Pairs == Generations \X (Envs \cup {None})
  <2> HIDE DEF Pairs
  <2>4. out \in [Package!Outputs -> Package!Bytes \cup Envs \cup Pairs]
    BY DEF Package!Bytes
  <2> QED BY <2>1, <2>2, <2>3, <2>4 DEF Pairs, Package!PackageTypeOK
<1>3. \A f \in Package!Outputs : out[f] = Absent
  OBVIOUS
<1>4. MakersOK /\ PartsOK
  BY <1>1, <1>3 DEF MakersOK, PartsOK, Making
<1>5. WholeOK
  BY <1>3, OutputFacts DEF WholeOK, Package!EnvWasValidated
<1> QED BY <1>2, <1>4, <1>5 DEF PackInv

\* A step that writes nothing into the output, and by which at most one build
\* goes on, without making the directory, or stops.
LEMMA QuietBuild ==
  ASSUME PackInv, NEW b \in Builders, NEW r,
         builds' = [builds EXCEPT ![b] = r],
         r.pc \in {"failed", "done"} \/ (r.pc = "listing" /\ builds[b].pc = "idle"
           /\ r.gen \in Generations /\ r.todo = Assets /\ (HasWorker => r.worker = r.gen /\ r.env \in ValidEnvs)),
         out' = out, exists' = exists
  PROVE  MakersOK' /\ PartsOK' /\ WholeOK'
<1>1. \A c \in Builders : builds'[c] = IF c = b THEN r ELSE builds[c]
  BY DEF PackInv, Package!PackageTypeOK
<1>2. \A c \in Builders : builds'[c].pc \in Making => c # b /\ builds'[c] = builds[c]
  BY <1>1 DEF Making
<1>3. MakersOK'
  BY <1>1, <1>2 DEF PackInv, MakersOK, Making
<1>4. PartsOK'
  BY <1>2 DEF PackInv, PartsOK
<1> QED BY <1>3, <1>4 DEF PackInv, WholeOK, Package!EnvWasValidated

LEMMA BuildTyped ==
  ASSUME PackInv, NEW b \in Builders
  PROVE  builds[b] \in [pc: {"idle", "listing", "copying", "writing", "verifying", "done", "failed"},
                        gen: Generations \cup {None}, worker: Generations \cup {None},
                        env: Envs \cup {None}, todo: SUBSET Assets]
BY DEF PackInv, Package!PackageTypeOK

LEMMA FailedKeeps ==
  ASSUME PackInv, NEW b \in Builders, Package!Failed(b), out' = out, exists' = exists,
         receipt' = receipt /\ dist' = dist /\ env' = env, touches' \in 0..MaxTouches
  PROVE  PackInv'
<1> DEFINE r == [builds[b] EXCEPT !.pc = "failed"]
<1>1. builds' = [builds EXCEPT ![b] = r] /\ r.pc = "failed"
  BY BuildTyped DEF Package!Failed
<1>2. r \in [pc: {"idle", "listing", "copying", "writing", "verifying", "done", "failed"},
             gen: Generations \cup {None}, worker: Generations \cup {None},
             env: Envs \cup {None}, todo: SUBSET Assets]
  BY BuildTyped
<1> HIDE DEF r
<1>3. MakersOK' /\ PartsOK' /\ WholeOK'
  BY <1>1, QuietBuild
<1>4. Package!PackageTypeOK'
  BY <1>1, <1>2 DEF PackInv, Package!PackageTypeOK
<1> QED BY <1>3, <1>4 DEF PackInv

LEMMA ReadKeeps ==
  ASSUME Package!WorkersPackageAssumption, PackInv, NEW b \in Builders, Package!Read(b)
  PROVE  PackInv'
<1> DEFINE r == [pc |-> "listing", gen |-> receipt,
                 worker |-> IF HasWorker THEN dist[Package!Compiled] ELSE None,
                 env |-> IF HasWorker THEN env ELSE None, todo |-> Assets]
<1>1. CASE Package!Failed(b)
  BY <1>1, FailedKeeps DEF Package!Read, PackInv, Package!PackageTypeOK
<1>2. CASE ~Package!Failed(b)
  <2>1. /\ builds' = [builds EXCEPT ![b] = r] /\ builds[b].pc = "idle"
        /\ HasWorker => env \in ValidEnvs /\ dist[Package!Compiled] = receipt
        /\ out' = out /\ exists' = exists /\ receipt' = receipt /\ dist' = dist /\ env' = env
        /\ touches' = touches
    BY <1>2 DEF Package!Read, Package!At
  <2>2. receipt \in Generations /\ env \in Envs
    BY DEF PackInv, Package!PackageTypeOK
  <2>3. /\ r.pc = "listing" /\ r.gen \in Generations /\ r.todo = Assets
        /\ HasWorker => r.worker = r.gen /\ r.env \in ValidEnvs
    BY <2>1, <2>2
  <2>4. r \in [pc: {"idle", "listing", "copying", "writing", "verifying", "done", "failed"},
               gen: Generations \cup {None}, worker: Generations \cup {None},
               env: Envs \cup {None}, todo: SUBSET Assets]
    BY <2>1, <2>2
  <2> HIDE DEF r
  <2>5. MakersOK' /\ PartsOK' /\ WholeOK'
    BY <2>1, <2>3, QuietBuild
  <2>6. Package!PackageTypeOK'
    BY <2>1, <2>4 DEF PackInv, Package!PackageTypeOK
  <2> QED BY <2>5, <2>6 DEF PackInv
<1> QED BY <1>1, <1>2

LEMMA ListKeeps ==
  ASSUME Package!WorkersPackageAssumption, PackInv, NEW b \in Builders, Package!List(b)
  PROVE  PackInv'
<1> DEFINE r == [builds[b] EXCEPT !.pc = "copying"]
<1>1. /\ out' = out /\ receipt' = receipt /\ dist' = dist /\ env' = env /\ touches' = touches
      /\ builds[b].pc = "listing" /\ touches \in 0..MaxTouches
  BY DEF Package!List, Package!At, PackInv, Package!PackageTypeOK
<1>2. CASE Package!Failed(b) /\ exists' = exists
  BY <1>1, <1>2, FailedKeeps
<1>3. CASE ~(Package!Failed(b) /\ exists' = exists)
  <2>1. builds' = [builds EXCEPT ![b] = r] /\ ~exists /\ exists' = TRUE
    BY <1>3 DEF Package!List
  <2>2. /\ r.pc = "copying" /\ r.gen = builds[b].gen /\ r.worker = builds[b].worker
        /\ r.env = builds[b].env /\ r.todo = builds[b].todo
        /\ r \in [pc: {"idle", "listing", "copying", "writing", "verifying", "done", "failed"},
                  gen: Generations \cup {None}, worker: Generations \cup {None},
                  env: Envs \cup {None}, todo: SUBSET Assets]
    BY BuildTyped
  <2> HIDE DEF r
  <2>3. \A c \in Builders : builds'[c] = IF c = b THEN r ELSE builds[c]
    BY <2>1 DEF PackInv, Package!PackageTypeOK
  <2>4. \A c \in Builders : builds[c].pc \notin Making
    BY <2>1 DEF PackInv, MakersOK
  <2>5. MakersOK'
    BY <1>1, <2>1, <2>2, <2>3, <2>4 DEF PackInv, MakersOK, Making
  <2>6. PartsOK'
    <3>1. builds[b].todo = Assets
      BY <1>1 DEF PackInv, MakersOK
    <3> QED BY <1>1, <2>1, <2>2, <2>3, <2>4, <3>1, OutputFacts DEF PackInv, MakersOK, PartsOK
  <2>7. Package!PackageTypeOK'
    BY <1>1, <2>1, <2>2 DEF PackInv, Package!PackageTypeOK
  <2>8. WholeOK'
    BY <1>1 DEF PackInv, WholeOK, Package!EnvWasValidated
  <2> QED BY <2>5, <2>6, <2>7, <2>8 DEF PackInv
<1> QED BY <1>2, <1>3

\* The build that writes goes on.
LEMMA WriterGoesOn ==
  ASSUME PackInv, NEW b \in Builders, NEW r, builds[b].pc \in Making, r.pc \in Making \cup {"done", "failed"},
         builds' = [builds EXCEPT ![b] = r],
         r.gen = builds[b].gen, r.worker = builds[b].worker, r.env = builds[b].env, exists' = exists
  PROVE  /\ MakersOK'
         /\ \A c \in Builders : builds'[c].pc \in Making => c = b /\ builds'[c] = r
<1>1. \A c \in Builders : builds'[c] = IF c = b THEN r ELSE builds[c]
  BY DEF PackInv, Package!PackageTypeOK
<1>2. \A c \in Builders : builds'[c].pc \in Making => c = b /\ builds'[c] = r
  BY <1>1 DEF PackInv, MakersOK
<1>3. exists /\ exists'
  BY DEF PackInv, MakersOK
<1> QED BY <1>1, <1>2, <1>3 DEF PackInv, MakersOK, Making

LEMMA CopyFileKeeps ==
  ASSUME Package!WorkersPackageAssumption, PackInv, NEW b \in Builders, NEW f \in Assets, Package!Copy(b, f)
  PROVE  PackInv'
<1>1. /\ receipt' = receipt /\ dist' = dist /\ env' = env /\ touches' = touches /\ exists' = exists
      /\ builds[b].pc = "copying" /\ f \in builds[b].todo /\ touches \in 0..MaxTouches
  BY DEF Package!Copy, Package!At, PackInv, Package!PackageTypeOK
<1>2. CASE Package!Failed(b) /\ out' = out
  BY <1>1, <1>2, FailedKeeps
<1>3. CASE ~(Package!Failed(b) /\ out' = out)
  <2> DEFINE rest == builds[b].todo \ {f}
             step == IF builds[b].todo = {f} THEN "writing" ELSE "copying"
             a == [builds[b] EXCEPT !.todo = rest]
             r == [a EXCEPT !.pc = step]
  <2>1. /\ builds' = [builds EXCEPT ![b].todo = @ \ {f},
                      ![b].pc = IF @ # "failed" /\ builds[b].todo = {f} THEN "writing" ELSE @]
        /\ dist[f] = builds[b].gen /\ out' = [out EXCEPT ![f] = dist[f]]
    BY <1>3 DEF Package!Copy, Package!AsPinned
  <2>2. builds' = [builds EXCEPT ![b] = r]
    BY <1>1, <2>1, BuildTyped DEF PackInv, Package!PackageTypeOK
  <2>3. /\ r.pc = step /\ r.gen = builds[b].gen /\ r.worker = builds[b].worker
        /\ r.env = builds[b].env /\ r.todo = rest
        /\ r \in [pc: {"idle", "listing", "copying", "writing", "verifying", "done", "failed"},
                  gen: Generations \cup {None}, worker: Generations \cup {None},
                  env: Envs \cup {None}, todo: SUBSET Assets]
    <3>1. builds[b] \in [pc: {"idle", "listing", "copying", "writing", "verifying", "done", "failed"},
                  gen: Generations \cup {None}, worker: Generations \cup {None},
                  env: Envs \cup {None}, todo: SUBSET Assets]
      BY BuildTyped
    <3>2. rest \in SUBSET Assets
      BY <3>1
    <3> HIDE DEF rest
    <3>3. /\ a \in [pc: {"idle", "listing", "copying", "writing", "verifying", "done", "failed"},
                  gen: Generations \cup {None}, worker: Generations \cup {None},
                  env: Envs \cup {None}, todo: SUBSET Assets]
          /\ a.gen = builds[b].gen /\ a.worker = builds[b].worker /\ a.env = builds[b].env
          /\ a.todo = rest
      BY <3>1, <3>2
    <3>4. step \in {"writing", "copying"}
      OBVIOUS
    <3> HIDE DEF a, step
    <3> QED BY <3>3, <3>4
  <2>4. step \in {"writing", "copying"} /\ rest = builds[b].todo \ {f} /\ (step = "writing" <=> builds[b].todo = {f})
    OBVIOUS
  <2> HIDE DEF r, a, rest, step
  <2>5. /\ MakersOK'
        /\ \A c \in Builders : builds'[c].pc \in Making => c = b /\ builds'[c] = r
    <3>1. builds[b].pc \in Making /\ r.pc \in Making \cup {"done", "failed"}
      BY <1>1, <2>3, <2>4 DEF Making
    <3> QED BY <1>1, <2>2, <2>3, <3>1, WriterGoesOn
  <2>6. /\ out \in [Package!Outputs -> Package!Bytes \cup Envs \cup (Generations \X (Envs \cup {None}))]
        /\ f \in Package!Outputs /\ builds[b].gen \in Generations
    BY <1>1, OutputFacts DEF PackInv, Package!PackageTypeOK, MakersOK, Making
  <2>7. \A g \in Package!Outputs : out'[g] = IF g = f THEN builds[b].gen ELSE out[g]
    BY <2>1, <2>6
  <2>8. /\ out[Package!ReceiptFile] = Absent
        /\ \A g \in Assets \ builds[b].todo : out[g] = builds[b].gen
    BY <1>1 DEF PackInv, PartsOK, Making
  <2>9. PartsOK'
    <3> SUFFICES ASSUME NEW c \in Builders, builds'[c].pc \in Making
                 PROVE  /\ out'[Package!ReceiptFile] = Absent
                        /\ builds'[c].pc = "copying" =>
                             \A g \in Assets \ builds'[c].todo : out'[g] = builds'[c].gen
                        /\ builds'[c].pc # "copying" => \A g \in Assets : out'[g] = builds'[c].gen
                        /\ builds'[c].pc # "verifying"
      BY DEF PartsOK
    <3>1. builds'[c] = r
      BY <2>5
    <3>2. out'[Package!ReceiptFile] = Absent
      BY <2>7, <2>8, OutputFacts
    <3>3. \A g \in Assets \ rest : out'[g] = builds[b].gen
      BY <2>4, <2>7, <2>8, OutputFacts
    <3> QED BY <2>3, <2>4, <3>1, <3>2, <3>3
  <2>10. WholeOK'
    <3>1. out'[Package!ReceiptFile] = Absent
      BY <2>7, <2>8, OutputFacts
    <3>2. HasWorker => out'[Package!EnvFile] = out[Package!EnvFile]
      BY <2>7, OutputFacts
    <3> QED BY <3>1, <3>2 DEF WholeOK, PackInv, Package!EnvWasValidated
  <2>11. Package!PackageTypeOK'
    <3>1. out' \in [Package!Outputs -> Package!Bytes \cup Envs \cup (Generations \X (Envs \cup {None}))]
      <4> DEFINE S == Package!Bytes \cup Envs \cup (Generations \X (Envs \cup {None}))
      <4>1. builds[b].gen \in S
        BY <2>6 DEF Package!Bytes
      <4> HIDE DEF S
      <4>2. out \in [Package!Outputs -> S]
        BY <2>6 DEF S
      <4>3. out' \in [Package!Outputs -> S]
        BY <2>1, <4>1, <4>2
      <4> QED BY <4>3 DEF S
    <3> QED BY <1>1, <2>2, <2>3, <3>1 DEF PackInv, Package!PackageTypeOK
  <2> QED BY <2>5, <2>9, <2>10, <2>11 DEF PackInv
<1> QED BY <1>2, <1>3

LEMMA WriteKeeps ==
  ASSUME Package!WorkersPackageAssumption, PackInv, NEW b \in Builders, Package!Write(b)
  PROVE  PackInv'
<1>1. /\ receipt' = receipt /\ dist' = dist /\ env' = env /\ touches' = touches /\ exists' = exists
      /\ builds[b].pc = "writing" /\ touches \in 0..MaxTouches /\ builds[b].pc \in Making
  BY DEF Package!Write, Package!At, PackInv, Package!PackageTypeOK, Making
<1>2. CASE Package!Failed(b) /\ out' = out
  BY <1>1, <1>2, FailedKeeps
<1>3. CASE ~(Package!Failed(b) /\ out' = out)
  <2> DEFINE r == [builds[b] EXCEPT !.pc = "verifying"]
  <2>1. /\ builds' = [builds EXCEPT ![b] = r]
        /\ out' = IF HasWorker THEN [out EXCEPT ![Package!Worker] = builds[b].worker,
                                                ![Package!EnvFile] = builds[b].env] ELSE out
    BY <1>3 DEF Package!Write, Package!EnvOf
  <2>2. /\ r.pc = "verifying" /\ r.gen = builds[b].gen /\ r.worker = builds[b].worker
        /\ r.env = builds[b].env
        /\ r \in [pc: {"idle", "listing", "copying", "writing", "verifying", "done", "failed"},
                  gen: Generations \cup {None}, worker: Generations \cup {None},
                  env: Envs \cup {None}, todo: SUBSET Assets]
    BY BuildTyped
  <2> HIDE DEF r
  <2>3. r.pc \in Making \cup {"done", "failed"}
    BY <2>2 DEF Making
  <2>4. /\ MakersOK'
        /\ \A c \in Builders : builds'[c].pc \in Making => c = b /\ builds'[c] = r
    BY <1>1, <2>1, <2>2, <2>3, WriterGoesOn
  <2>5. /\ out[Package!ReceiptFile] = Absent /\ \A g \in Assets : out[g] = builds[b].gen
        /\ builds[b].gen \in Generations
        /\ HasWorker => builds[b].worker = builds[b].gen /\ builds[b].env \in ValidEnvs
    BY <1>1 DEF PackInv, PartsOK, MakersOK
  <2> DEFINE S == Package!Bytes \cup Envs \cup (Generations \X (Envs \cup {None}))
  <2>6. out \in [Package!Outputs -> S] /\ builds[b].gen \in S /\ (HasWorker => builds[b].env \in S)
    BY <2>5, OutputFacts DEF PackInv, Package!PackageTypeOK, Package!Bytes
  <2> HIDE DEF S
  <2>7. /\ out' \in [Package!Outputs -> S]
        /\ \A g \in Package!Outputs \ {Package!Worker, Package!EnvFile} : out'[g] = out[g]
        /\ HasWorker => out'[Package!Worker] = builds[b].gen /\ out'[Package!EnvFile] = builds[b].env
    BY <2>1, <2>5, <2>6, OutputFacts
  <2>8. /\ out'[Package!ReceiptFile] = Absent
        /\ \A g \in Assets : out'[g] = builds[b].gen
    BY <2>5, <2>7, OutputFacts
  <2>9. PartsOK'
    BY <2>2, <2>4, <2>7, <2>8 DEF PartsOK
  <2>10. WholeOK'
    <3>1. HasWorker => out'[Package!EnvFile] \in ValidEnvs
      BY <2>5, <2>7
    <3> QED BY <2>8, <3>1 DEF WholeOK, Package!EnvWasValidated
  <2>11. Package!PackageTypeOK'
    BY <1>1, <2>1, <2>2, <2>7 DEF S, PackInv, Package!PackageTypeOK
  <2> QED BY <2>4, <2>9, <2>10, <2>11 DEF PackInv
<1> QED BY <1>2, <1>3

LEMMA ReceiptKeeps ==
  ASSUME Package!WorkersPackageAssumption, PackInv, NEW b \in Builders, Package!Receipt(b)
  PROVE  PackInv'
<1>1. /\ receipt' = receipt /\ dist' = dist /\ env' = env /\ touches' = touches /\ exists' = exists
      /\ builds[b].pc = "verifying" /\ touches \in 0..MaxTouches /\ builds[b].pc \in Making
  BY DEF Package!Receipt, Package!At, Package!ReceiptStep, PackInv, Package!PackageTypeOK, Making
<1> DEFINE now == [out EXCEPT ![Package!ReceiptFile] = <<builds[b].gen, builds[b].env>>]
<1>2. /\ out[Package!ReceiptFile] = Absent /\ \A g \in Assets : out[g] = builds[b].gen
      /\ builds[b].gen \in Generations
      /\ HasWorker => /\ out[Package!Worker] = builds[b].gen
                      /\ out[Package!EnvFile] = builds[b].env /\ builds[b].env \in ValidEnvs
  BY <1>1 DEF PackInv, PartsOK, MakersOK
<1>3. out' = now
  BY <1>2 DEF Package!Receipt
<1>4. PICK s \in {"done", "failed"} : builds' = [builds EXCEPT ![b] = [builds[b] EXCEPT !.pc = s]]
  BY <1>2 DEF Package!Receipt, Package!Failed
<1> DEFINE r == [builds[b] EXCEPT !.pc = s]
<1>5. /\ builds' = [builds EXCEPT ![b] = r]
      /\ r.pc = s /\ r.gen = builds[b].gen /\ r.worker = builds[b].worker /\ r.env = builds[b].env
      /\ r \in [pc: {"idle", "listing", "copying", "writing", "verifying", "done", "failed"},
                gen: Generations \cup {None}, worker: Generations \cup {None},
                env: Envs \cup {None}, todo: SUBSET Assets]
  BY <1>4, BuildTyped
<1> HIDE DEF r
<1>6. r.pc \in {"done", "failed"} /\ r.pc \in Making \cup {"done", "failed"} /\ r.pc \notin Making
  BY <1>5 DEF Making
<1>7. MakersOK' /\ \A c \in Builders : builds'[c].pc \in Making => c = b /\ builds'[c] = r
  BY <1>1, <1>5, <1>6, WriterGoesOn
<1>8. PartsOK'
  BY <1>6, <1>7 DEF PartsOK
<1> DEFINE pair == <<builds[b].gen, builds[b].env>>
           S == Package!Bytes \cup Envs \cup (Generations \X (Envs \cup {None}))
<1>9. builds[b].env \in Envs \cup {None}
  BY BuildTyped
<1>10. out \in [Package!Outputs -> S] /\ pair \in S
  BY <1>2, <1>9 DEF PackInv, Package!PackageTypeOK
<1>11. out' = [out EXCEPT ![Package!ReceiptFile] = pair]
  BY <1>3
<1> HIDE DEF pair, S
<1>12. /\ out' \in [Package!Outputs -> S] /\ out'[Package!ReceiptFile] = pair
       /\ \A g \in Package!Outputs \ {Package!ReceiptFile} : out'[g] = out[g]
  BY <1>10, <1>11, OutputFacts
<1>13. WholeOK'
  <2>1. /\ \A f \in Assets : out'[f] = builds[b].gen
        /\ HasWorker => /\ out'[Package!Worker] = builds[b].gen
                        /\ out'[Package!EnvFile] = builds[b].env
    BY <1>2, <1>12, OutputFacts
  <2>2. out'[Package!ReceiptFile] = <<builds[b].gen, builds[b].env>>
    BY <1>12 DEF pair
  <2>3. Package!EnvWasValidated'
    BY <1>2, <2>1 DEF Package!EnvWasValidated
  <2> QED BY <1>2, <1>9, <2>1, <2>2, <2>3 DEF WholeOK
<1>14. Package!PackageTypeOK'
  BY <1>1, <1>5, <1>12 DEF S, PackInv, Package!PackageTypeOK
<1> QED BY <1>7, <1>8, <1>13, <1>14 DEF PackInv

LEMMA OutsideKeeps ==
  ASSUME Package!WorkersPackageAssumption, PackInv, Package!Rebuild \/ Package!EditEnv
  PROVE  PackInv'
<1>1. builds' = builds /\ out' = out /\ exists' = exists
  BY DEF Package!Rebuild, Package!EditEnv
<1>2. MakersOK' /\ PartsOK' /\ WholeOK'
  BY <1>1 DEF PackInv, MakersOK, PartsOK, WholeOK, Package!EnvWasValidated
<1>3. touches' \in 0..MaxTouches
  BY DEF Package!Rebuild, Package!EditEnv, Package!Touch, PackInv, Package!PackageTypeOK,
         Package!WorkersPackageAssumption
<1>4. receipt' \in Generations /\ dist' \in [Package!Sources -> Package!Bytes] /\ env' \in Envs
  BY DEF Package!Rebuild, Package!EditEnv, PackInv, Package!PackageTypeOK
<1>5. Package!PackageTypeOK'
  BY <1>1, <1>3, <1>4 DEF PackInv, Package!PackageTypeOK
<1> QED BY <1>2, <1>5 DEF PackInv

LEMMA KillKeeps ==
  ASSUME Package!WorkersPackageAssumption, PackInv, NEW b \in Builders, Package!Kill(b)
  PROVE  PackInv'
<1>1. touches' \in 0..MaxTouches
  BY DEF Package!Kill, Package!Touch, PackInv, Package!PackageTypeOK, Package!WorkersPackageAssumption
<1> QED BY <1>1, FailedKeeps DEF Package!Kill

\* A package with a receipt holds one candidate, assets, Worker and a validated
\* env.json, and nothing of it is missing: for any files, builds of one output
\* and candidates, though the candidate is built again, env.json is edited and
\* builds are killed between any two files (workers-package.mjs 130-285).
THEOREM PackagesAreWhole ==
  Package!WorkersPackageAssumption =>
    (Package!Spec => [](Package!PackageTypeOK /\ Package!PackageIsOneCandidate
                        /\ Package!EnvWasValidated /\ Package!NoHalfPackage))
<1> SUFFICES ASSUME Package!WorkersPackageAssumption
             PROVE  Package!Spec => [](Package!PackageTypeOK /\ Package!PackageIsOneCandidate
                                       /\ Package!EnvWasValidated /\ Package!NoHalfPackage)
  OBVIOUS
<1>1. Package!Init => PackInv
  BY PackInitial
<1>2. PackInv /\ [Package!Next]_(Package!vars) => PackInv'
  <2> SUFFICES ASSUME PackInv, Package!Next \/ UNCHANGED Package!vars PROVE PackInv'
    OBVIOUS
  <2>1. CASE UNCHANGED Package!vars
    BY <2>1 DEF Package!vars, PackInv, Package!PackageTypeOK, MakersOK, PartsOK, WholeOK,
                Package!EnvWasValidated
  <2> QED BY <2>1, ReadKeeps, ListKeeps, CopyFileKeeps, WriteKeeps, ReceiptKeeps, KillKeeps, OutsideKeeps
          DEF Package!Next
<1>3. PackInv => Package!PackageTypeOK /\ Package!PackageIsOneCandidate
                 /\ Package!EnvWasValidated /\ Package!NoHalfPackage
  <2> SUFFICES ASSUME PackInv
               PROVE  Package!PackageIsOneCandidate /\ Package!NoHalfPackage
    BY DEF PackInv, WholeOK
  <2> SUFFICES ASSUME out[Package!ReceiptFile] # Absent
               PROVE  /\ \A f \in Assets : out[f] = out[Package!ReceiptFile][1]
                      /\ HasWorker => out[Package!Worker] = out[Package!ReceiptFile][1]
                      /\ \A f \in Package!Outputs : out[f] # Absent
    BY DEF Package!PackageIsOneCandidate, Package!NoHalfPackage
  <2>1. PICK g \in Generations, v \in Envs \cup {None} :
          /\ out[Package!ReceiptFile] = <<g, v>> /\ \A f \in Assets : out[f] = g
          /\ HasWorker => out[Package!Worker] = g /\ out[Package!EnvFile] = v /\ v \in ValidEnvs
    BY DEF PackInv, WholeOK
  <2>2. out[Package!ReceiptFile][1] = g
    BY <2>1
  <2>3. g # Absent /\ (HasWorker => v # Absent)
    BY <2>1, OutputFacts
  <2>4. \A f \in Package!Outputs : out[f] # Absent
    <3> SUFFICES ASSUME NEW f \in Package!Outputs PROVE out[f] # Absent
      OBVIOUS
    <3>1. f \in Assets \/ f = Package!ReceiptFile \/ (HasWorker /\ f \in {Package!Worker, Package!EnvFile})
      BY DEF Package!Outputs
    <3> QED BY <2>1, <2>3, <3>1
  <2> QED BY <2>1, <2>2, <2>4
<1> QED BY <1>1, <1>2, <1>3, PTL DEF Package!Spec

-----------------------------------------------------------------------------
(* The generation of the school data (SchoolGeneration).                     *)

CONSTANTS Null, Kinds, Leased, Schools, Units, Contents, Arrivals, PageSize, UnitPage, MaxTries,
          MaxWrites, MaxEdits

VARIABLES source, pair, code, writes, steady, during, theirs

Generate == INSTANCE SchoolGeneration

JobFields == {"kind", "at", "code", "read", "rows", "units", "from", "cursor", "tries", "todo", "owned",
              "inventory"}
Directories == [mine : BOOLEAN, files : [Generate!Names -> {"absent", "made", "edited", "other"}]]
Ground == {"rows", "full", "detail", "manifest"}
Published == Ground \cup {"payload", "receipt"}
Staged == {"full", "detail", "manifest", "receipt"}
Written == Generate!ToSet(job.owned)
Fetched == {"schools", "units", "read", "checked"}
Rechecks == {"recheck-code", "recheck-files", "recheck-pair"}

GenTypesOK ==
  /\ job = [f \in JobFields |-> job[f]]
  /\ job.kind \in Kinds /\ Kinds \subseteq {"supabase", "sqlite", "synthetic"}
  /\ job.tries \in 1..MaxTries /\ MaxTries \in Nat
  /\ job.code \in Nat /\ code \in Nat
  /\ job.read \in [snapshot : Nat, manifest : Nat]
  /\ pair \in [snapshot : Nat, manifest : Nat, synthetic : BOOLEAN]
  /\ job.todo \in Seq(Generate!Names) /\ job.owned \in Seq(Generate!Names)
  /\ out \in {Null} \cup Directories /\ theirs \subseteq Generate!Names

\* The generator's files, and those of others, in an output.
OutputOK ==
  /\ Generate!Mine => \A n \in Generate!Names :
       /\ out.files[n] \in {"made", "edited"} => n \in Written
       /\ n \in Written => out.files[n] # "absent"
  /\ \A n \in theirs : out # Null /\ out.files[n] = "other"
  /\ \A i, j \in DOMAIN job.owned : job.owned[i] = job.owned[j] => i = j

\* Versions only grow.
VersionsOK == job.code <= code /\ \A f \in {"snapshot", "manifest"} : job.read[f] <= pair[f]
\* Pair and code when the files were complete: between then and now.
DuringOK ==
  /\ during \in [pair : [snapshot : Nat, manifest : Nat, synthetic : BOOLEAN], code : Nat]
  /\ job.code <= during.code /\ during.code <= code
  /\ \A f \in {"snapshot", "manifest"} : job.read[f] <= during.pair[f] /\ during.pair[f] <= pair[f]

Parsed == job.kind # "supabase" => Generate!Parses
Confirmed ==
  /\ during.code = job.code /\ Parsed
  /\ job.kind # "supabase" => during.pair.snapshot = job.read.snapshot
                              /\ during.pair.manifest = job.read.manifest

\* The receipt comes after all it speaks of, and after they were confirmed.
ReceiptOK ==
  "receipt" \in Written =>
    /\ job.owned[Len(job.owned)] = "receipt" /\ Confirmed
    /\ (IF job.kind = "synthetic" THEN Staged ELSE Published) \subseteq Written

Planned(all) ==
  /\ Generate!ToSet(job.todo) \cup Written = all
  /\ "receipt" \in Written => job.todo = <<>>
  /\ \A i \in DOMAIN job.todo : job.todo[i] = "receipt" => i = Len(job.todo)

\* What the process has done by the step it is at.
StageOK ==
  /\ job.at \in {"start", "mkdir", "build", "staged"} \cup Fetched => job.owned = <<>>
  /\ job.at \in {"schools", "units"} => job.kind = "supabase"
  /\ job.at = "read" => job.kind # "supabase"
  /\ job.at \in {"checked", "build", "staged", "write"} \cup Rechecks => Parsed
  /\ job.at \in Rechecks \cup {"finish"} => job.kind # "synthetic"
  /\ job.at \in {"build", "staged", "cleanup", "remove"} => job.kind = "synthetic"
  /\ job.at = "write" /\ job.kind # "synthetic" => Planned(Ground)
  /\ job.at \in Rechecks => Written = Ground
  /\ job.at \in {"recheck-files", "recheck-pair"} => during.code = job.code
  /\ job.at = "staged" => DuringOK
  /\ job.at = "finish" => Planned(Published) /\ Confirmed /\ Ground \subseteq Written
  /\ job.at \in {"mkdir", "write"} /\ job.kind = "synthetic" => Planned(Staged) /\ Confirmed

GenerationInv ==
  /\ GenTypesOK /\ OutputOK /\ VersionsOK /\ ReceiptOK /\ StageOK
  /\ job.kind # "synthetic" /\ "manifest" \in Written => DuringOK

\* What does not depend on the step.
KeptOK ==
  /\ OutputOK /\ VersionsOK /\ ReceiptOK
  /\ job.kind # "synthetic" /\ "manifest" \in Written => DuringOK

LEMMA SetOfAppend ==
  ASSUME NEW S, NEW s \in Seq(S), NEW x \in S
  PROVE  Generate!ToSet(Append(s, x)) = Generate!ToSet(s) \cup {x}
<1>1. /\ DOMAIN Append(s, x) = 1..(Len(s) + 1) /\ DOMAIN s = 1..Len(s) /\ Len(s) \in Nat
      /\ \A i \in 1..Len(s) : Append(s, x)[i] = s[i]
      /\ Append(s, x)[Len(s) + 1] = x
  OBVIOUS
<1> HIDE DEF Append
<1> QED BY <1>1 DEF Generate!ToSet

LEMMA SetOfTail ==
  ASSUME NEW S, NEW s \in Seq(S), s # <<>>
  PROVE  /\ Tail(s) \in Seq(S) /\ Head(s) \in S
         /\ Generate!ToSet(s) = {Head(s)} \cup Generate!ToSet(Tail(s))
<1> DEFINE n == Len(s)
           t == Tail(s)
<1>1. /\ Head(s) = s[1] /\ Head(s) \in S /\ t \in Seq(S) /\ n \in Nat /\ n >= 1
      /\ DOMAIN t = 1..(n - 1) /\ DOMAIN s = 1..n
      /\ \A i \in 1..(n - 1) : t[i] = s[i + 1]
  OBVIOUS
<1> HIDE DEF n, t
<1>2. \A i \in 1..n : i = 1 \/ i - 1 \in 1..(n - 1)
  BY <1>1
<1>3. \A i \in 1..n : s[i] = s[1] \/ \E k \in 1..(n - 1) : t[k] = s[i]
  BY <1>1, <1>2
<1>4. /\ \A k \in 1..(n - 1) : k + 1 \in 1..n
      /\ 1 \in 1..n
  BY <1>1
<1>5. \A k \in 1..(n - 1) : \E i \in 1..n : s[i] = t[k]
  BY <1>1, <1>4
<1>6. ASSUME NEW x \in Generate!ToSet(s) PROVE x \in {s[1]} \cup Generate!ToSet(t)
  <2>1. PICK i \in 1..n : x = s[i]
    BY <1>1 DEF Generate!ToSet
  <2> QED BY <2>1, <1>1, <1>3 DEF Generate!ToSet
<1>7. ASSUME NEW x \in {s[1]} \cup Generate!ToSet(t) PROVE x \in Generate!ToSet(s)
  <2>1. PICK i \in 1..n : x = s[i]
    BY <1>1, <1>4, <1>5 DEF Generate!ToSet
  <2> QED BY <2>1, <1>1 DEF Generate!ToSet
<1> QED BY <1>1, <1>6, <1>7 DEF t

LEMMA SetOfFront ==
  ASSUME NEW S, NEW s \in Seq(S), s # <<>>
  PROVE  /\ Generate!Front(s) \in Seq(S) /\ s[Len(s)] \in S
         /\ DOMAIN Generate!Front(s) = 1..(Len(s) - 1) /\ DOMAIN s = 1..Len(s) /\ Len(s) \in Nat \ {0}
         /\ \A i \in 1..(Len(s) - 1) : Generate!Front(s)[i] = s[i]
         /\ Generate!ToSet(s) = Generate!ToSet(Generate!Front(s)) \cup {s[Len(s)]}
<1> DEFINE n == Len(s)
           front == Generate!Front(s)
<1>1. n \in Nat \ {0} /\ DOMAIN s = 1..n /\ s[n] \in S /\ \A i \in 1..n : s[i] \in S
  OBVIOUS
<1>2. front = [i \in 1..(n - 1) |-> s[i]]
  BY <1>1 DEF Generate!Front
<1> HIDE DEF n, front
<1>3. n - 1 \in Nat /\ \A i \in 1..(n - 1) : i \in 1..n
  BY <1>1
<1>4. /\ front \in Seq(S) /\ DOMAIN front = 1..(n - 1) /\ \A i \in 1..(n - 1) : front[i] = s[i]
  BY <1>1, <1>2, <1>3
<1>5. \A i \in 1..n : i = n \/ i \in 1..(n - 1)
  BY <1>1
<1>6. Generate!ToSet(s) = Generate!ToSet(front) \cup {s[n]}
  BY <1>1, <1>3, <1>4, <1>5 DEF Generate!ToSet
<1> QED BY <1>1, <1>4, <1>6 DEF n, front

LEMMA GenerationInitial ==
  Generate!SchoolGenerationAssumption /\ Generate!Init => GenerationInv
<1> SUFFICES ASSUME Generate!SchoolGenerationAssumption, Generate!Init
             PROVE  GenerationInv
  OBVIOUS
<1>1. PICK kind \in Kinds :
        job = [kind |-> kind, at |-> "start", code |-> code, read |-> [snapshot |-> 0, manifest |-> 0],
               rows |-> <<>>, units |-> <<>>, from |-> 0, cursor |-> 0, tries |-> 1,
               todo |-> <<>>, owned |-> <<>>, inventory |-> Generate!NoFiles]
  BY DEF Generate!Init
<1>2. /\ job = [f \in JobFields |-> job[f]]
      /\ job.kind = kind /\ job.at = "start" /\ job.code = code /\ job.tries = 1
      /\ job.read = [snapshot |-> 0, manifest |-> 0] /\ job.todo = <<>> /\ job.owned = <<>>
  BY <1>1 DEF JobFields
<1>3. PICK v \in DOMAIN Contents, synthetic \in BOOLEAN :
        pair = [snapshot |-> v, manifest |-> v, synthetic |-> synthetic]
  BY DEF Generate!Init
<1>4. /\ pair \in [snapshot : Nat, manifest : Nat, synthetic : BOOLEAN]
      /\ job.read \in [snapshot : Nat, manifest : Nat]
  BY <1>2, <1>3 DEF Generate!SchoolGenerationAssumption
<1>5. GenTypesOK
  BY <1>2, <1>4 DEF GenTypesOK, Generate!Init, Generate!SchoolGenerationAssumption
<1>6. Written = {}
  BY <1>2 DEF Written, Generate!ToSet
<1>7. OutputOK
  BY <1>2, <1>6 DEF OutputOK, Generate!Init, Generate!Mine
<1>8. VersionsOK
  BY <1>2, <1>4 DEF VersionsOK, Generate!Init
<1>9. ReceiptOK /\ StageOK
  BY <1>2, <1>6 DEF ReceiptOK, StageOK, Fetched, Rechecks
<1> QED BY <1>5, <1>6, <1>7, <1>8, <1>9 DEF GenerationInv

\* A step of the process that writes nothing and reads nothing of the pair.
LEMMA ProcessGoesOn ==
  ASSUME GenerationInv, UNCHANGED <<pair, code, out, during, theirs>>, GenTypesOK',
         \A f \in {"kind", "code", "read", "owned"} : job'[f] = job[f]
  PROVE  /\ KeptOK'
         /\ Written' = Written /\ (Parsed' <=> Parsed) /\ (Confirmed' <=> Confirmed)
         /\ (DuringOK' <=> DuringOK) /\ (DuringOK => DuringOK')
<1>1. job'.kind = job.kind /\ job'.code = job.code /\ job'.read = job.read /\ job'.owned = job.owned
  OBVIOUS
<1>2. Written' = Written /\ (Parsed' <=> Parsed) /\ (DuringOK' <=> DuringOK)
  BY <1>1 DEF Written, Parsed, Generate!Parses, DuringOK
<1>3. Confirmed' <=> Confirmed
  BY <1>1, <1>2 DEF Confirmed
<1>4. OutputOK' /\ VersionsOK' /\ ReceiptOK'
  BY <1>1, <1>2, <1>3 DEF GenerationInv, OutputOK, VersionsOK, ReceiptOK, Generate!Mine
<1> QED BY <1>1, <1>2, <1>3, <1>4 DEF GenerationInv, KeptOK

LEMMA ProcessAt ==
  ASSUME GenTypesOK, NEW step, job' = [job EXCEPT !.at = step],
         UNCHANGED <<pair, code, out, theirs>>
  PROVE  /\ GenTypesOK' /\ job'.at = step
         /\ \A f \in JobFields \ {"at"} : job'[f] = job[f]
<1>1. job'.at = step /\ (\A f \in JobFields \ {"at"} : job'[f] = job[f]) /\ job' = [f \in JobFields |-> job'[f]]
  BY DEF GenTypesOK, JobFields
<1>2. /\ job'.kind = job.kind /\ job'.tries = job.tries /\ job'.code = job.code /\ job'.read = job.read
      /\ job'.todo = job.todo /\ job'.owned = job.owned
  BY <1>1 DEF JobFields
<1> QED BY <1>1, <1>2 DEF GenTypesOK

LEMMA GoesTo ==
  ASSUME GenerationInv, NEW step, job' = [job EXCEPT !.at = step],
         UNCHANGED <<pair, code, out, during, theirs>>
  PROVE  /\ GenTypesOK' /\ KeptOK' /\ job'.at = step
         /\ \A f \in JobFields \ {"at"} : job'[f] = job[f]
         /\ Written' = Written /\ (Parsed' <=> Parsed) /\ (Confirmed' <=> Confirmed)
         /\ (DuringOK' <=> DuringOK)
<1>1. GenTypesOK
  BY DEF GenerationInv
<1>2. /\ GenTypesOK' /\ job'.at = step
      /\ \A f \in JobFields \ {"at"} : job'[f] = job[f]
  BY <1>1, ProcessAt
<1>3. \A f \in {"kind", "code", "read", "owned"} : job'[f] = job[f]
  BY <1>2 DEF JobFields
<1> QED BY <1>2, <1>3, ProcessGoesOn

\* The code was the same when the files were complete, if it is the same now.
LEMMA CodeStands ==
  ASSUME GenerationInv, job.at = "recheck-code", job.code = code
  PROVE  during.code = job.code
<1>1. job.kind # "synthetic" /\ "manifest" \in Written
  BY DEF GenerationInv, StageOK, Ground, Rechecks
<1>2. during.code \in Nat /\ job.code <= during.code /\ during.code <= code /\ code \in Nat
  BY <1>1 DEF GenerationInv, GenTypesOK, DuringOK
<1> QED BY <1>2

\* The steps after which the process is at another one and nothing else changes.
LEMMA StagePasses ==
  ASSUME GenerationInv, NEW step, Generate!Goto(step), UNCHANGED <<pair, code, out, during, theirs>>,
         \/ step = "refused"
         \/ step = "done"
         \/ job.kind = "synthetic" /\ step \in {"cleanup", "remove"}
         \/ job.at = "start" /\ step = (IF job.kind = "synthetic" THEN "read" ELSE "mkdir")
         \/ job.at = "read" /\ step = "checked" /\ Generate!Parses
         \/ job.at = "recheck-code" /\ step = "recheck-files" /\ job.code = code
         \/ job.at = "recheck-files" /\ step = "recheck-pair"
  PROVE  GenerationInv'
<1>1. job' = [job EXCEPT !.at = step]
  BY DEF Generate!Goto
<1>2. /\ GenTypesOK' /\ KeptOK' /\ job'.at = step
      /\ \A f \in JobFields \ {"at"} : job'[f] = job[f]
      /\ Written' = Written /\ (Parsed' <=> Parsed) /\ (Confirmed' <=> Confirmed)
      /\ (DuringOK' <=> DuringOK)
  BY <1>1, GoesTo
<1>3. /\ job'.kind = job.kind /\ job'.code = job.code /\ job'.todo = job.todo
      /\ job'.owned = job.owned
  BY <1>2 DEF JobFields
<1>4. job.at = "recheck-code" /\ job.code = code => during.code = job.code
  BY CodeStands
<1>5. StageOK' /\ job.kind \in {"supabase", "sqlite", "synthetic"}
  <2>0. StageOK /\ job.kind \in {"supabase", "sqlite", "synthetic"} /\ UNCHANGED <<during, code>>
    BY DEF GenerationInv, GenTypesOK
  <2>1. CASE step \in {"refused", "done"}
    BY <2>0, <2>1, <1>2 DEF StageOK, Fetched, Rechecks
  <2>2. CASE job.kind = "synthetic" /\ step \in {"cleanup", "remove"}
    BY <2>2, <1>2, <1>3 DEF StageOK, Fetched, Rechecks
  <2>3. CASE job.at = "start" /\ step = (IF job.kind = "synthetic" THEN "read" ELSE "mkdir")
    BY <2>0, <2>3, <1>2, <1>3 DEF StageOK, Fetched, Rechecks
  <2>4. CASE job.at = "read" /\ step = "checked" /\ Generate!Parses
    <3>1. Parsed
      BY <2>4 DEF Parsed
    <3> QED BY <2>0, <2>4, <1>2, <1>3, <3>1 DEF StageOK, Fetched, Rechecks
  <2>5. CASE job.at = "recheck-code" /\ step = "recheck-files" /\ job.code = code
    BY <2>0, <2>5, <1>2, <1>3, <1>4 DEF StageOK, Fetched, Rechecks
  <2>6. CASE job.at = "recheck-files" /\ step = "recheck-pair"
    BY <2>0, <2>6, <1>2, <1>3 DEF StageOK, Fetched, Rechecks
  <2> QED BY <2>0, <2>1, <2>2, <2>3, <2>4, <2>5, <2>6
<1> QED BY <1>2, <1>5 DEF GenerationInv, KeptOK

\* The steps that are no more than that.
LEMMA PassingSteps ==
  ASSUME GenerationInv,
         Generate!ParsePair \/ Generate!Start \/ Generate!RecheckCode
           \/ Generate!RecheckFiles \/ Generate!Finish \/ Generate!Verify \/ Generate!CleanUp
           \/ Generate!Fail
  PROVE  GenerationInv'
<1> USE DEF Generate!world, Generate!history
<1>0. StageOK /\ job.kind \in {"supabase", "sqlite", "synthetic"}
  BY DEF GenerationInv, GenTypesOK
<1>r. ASSUME Generate!Refused PROVE Generate!Goto("refused")
  BY <1>r DEF Generate!Refused, Generate!Goto
<1>1. CASE Generate!ParsePair
  BY <1>1, <1>r, StagePasses DEF Generate!ParsePair
<1>2. CASE Generate!Start
  BY <1>2, <1>r, StagePasses DEF Generate!Start
<1>3. CASE Generate!RecheckCode
  BY <1>3, <1>r, StagePasses DEF Generate!RecheckCode
<1>4. CASE Generate!RecheckFiles
  BY <1>4, <1>r, StagePasses DEF Generate!RecheckFiles
<1>5. CASE Generate!Finish
  BY <1>5, <1>r, StagePasses DEF Generate!Finish
<1>6. CASE Generate!Verify
  BY <1>6, <1>r, StagePasses DEF Generate!Verify
<1>7. CASE Generate!CleanUp
  <2>1. job.kind = "synthetic"
    BY <1>7, <1>0 DEF Generate!CleanUp, StageOK
  <2>2. Generate!Goto("remove") \/ Generate!Goto("refused")
    BY <1>7 DEF Generate!CleanUp
  <2> QED BY <1>7, <2>1, <2>2, StagePasses DEF Generate!CleanUp
<1>8. CASE Generate!Fail
  <2>1. \/ job.kind = "synthetic" /\ Generate!Goto("cleanup")
        \/ Generate!Goto("refused")
    BY <1>8 DEF Generate!Fail
  <2> QED BY <1>8, <2>1, StagePasses DEF Generate!Fail
<1> QED BY <1>1, <1>2, <1>3, <1>4, <1>5, <1>6, <1>7, <1>8

\* Pages: what is read of the database is in no part of the invariant.
LEMMA PagesAreRead ==
  ASSUME GenerationInv, Generate!ReadSchools \/ Generate!ReadUnits \/ Generate!RetryPage
  PROVE  GenerationInv'
<1> USE DEF Generate!world, Generate!history
<1>0. /\ StageOK /\ GenTypesOK /\ MaxTries \in Nat /\ job.tries \in 1..MaxTries
      /\ job = [f \in JobFields |-> job[f]] /\ 1 \in 1..MaxTries
  BY DEF GenerationInv, GenTypesOK
<1>1. /\ job.at \in {"schools", "units"} /\ UNCHANGED <<pair, code, out, during, theirs>>
      /\ \A f \in {"kind", "code", "read", "todo", "owned"} : job'[f] = job[f]
      /\ job'.at \in {"schools", "units", "checked"} /\ job' = [f \in JobFields |-> job'[f]]
      /\ job'.tries \in 1..MaxTries
  <2>1. CASE Generate!ReadSchools
    <3> DEFINE page == Generate!SchoolPage(job.from)
               rows == job.rows \o page
               from == job.from + PageSize
               step == IF Len(page) < PageSize THEN "units" ELSE job.at
    <3>1. /\ job.at = "schools" /\ UNCHANGED <<pair, code, out, during, theirs>>
          /\ job' = [job EXCEPT !.rows = rows, !.tries = 1, !.from = from, !.at = step]
      BY <2>1 DEF Generate!ReadSchools
    <3>2. step \in {"schools", "units"}
      BY <3>1
    <3> HIDE DEF page, rows, from, step
    <3> QED BY <1>0, <3>1, <3>2 DEF JobFields
  <2>2. CASE Generate!ReadUnits
    <3> DEFINE page == Generate!UnitPageAfter(job.cursor)
               units == job.units \o page
               cursor == IF page = <<>> THEN job.cursor ELSE page[Len(page)].id
               step == IF Len(page) < UnitPage THEN "checked" ELSE job.at
    <3>1. /\ job.at = "units" /\ UNCHANGED <<pair, code, out, during, theirs>>
          /\ job' = [job EXCEPT !.units = units, !.tries = 1, !.cursor = cursor, !.at = step]
      BY <2>2 DEF Generate!ReadUnits
    <3>2. step \in {"checked", "units"}
      BY <3>1
    <3> HIDE DEF page, units, cursor, step
    <3> QED BY <1>0, <3>1, <3>2 DEF JobFields
  <2>3. CASE Generate!RetryPage
    <3> DEFINE tries == job.tries + 1
    <3>1. /\ job.at \in {"schools", "units"} /\ UNCHANGED <<pair, code, out, during, theirs>>
          /\ job' = [job EXCEPT !.tries = tries] /\ job.tries < MaxTries
      BY <2>3 DEF Generate!RetryPage
    <3>2. tries \in 1..MaxTries
      BY <1>0, <3>1
    <3> HIDE DEF tries
    <3> QED BY <1>0, <3>1, <3>2 DEF JobFields
  <2> QED BY <2>1, <2>2, <2>3
<1>2. /\ job'.kind = job.kind /\ job'.code = job.code /\ job'.read = job.read /\ job'.todo = job.todo
      /\ job'.owned = job.owned
  BY <1>1
<1>3. GenTypesOK'
  BY <1>0, <1>1, <1>2 DEF GenTypesOK
<1>4. KeptOK'
  <2>1. \A f \in {"kind", "code", "read", "owned"} : job'[f] = job[f]
    BY <1>2
  <2> QED BY <1>1, <1>3, <2>1, ProcessGoesOn
<1>5. StageOK'
  <2>1. job'.kind = "supabase" /\ job'.owned = <<>>
    BY <1>0, <1>1, <1>2 DEF StageOK, Fetched
  <2>2. Parsed'
    BY <2>1 DEF Parsed
  <2>3. job'.at \in {"schools", "units", "checked"}
    BY <1>1
  <2> QED BY <2>1, <2>2, <2>3 DEF StageOK, Fetched, Rechecks
<1> QED BY <1>3, <1>4, <1>5 DEF GenerationInv, KeptOK

LEMMA PairIsRead ==
  ASSUME GenerationInv, NEW f \in {"snapshot", "manifest"}, Generate!ReadPair(f)
  PROVE  GenerationInv'
<1>0. /\ StageOK /\ GenTypesOK /\ KeptOK /\ job = [x \in JobFields |-> job[x]]
      /\ job.read \in [snapshot : Nat, manifest : Nat]
      /\ pair \in [snapshot : Nat, manifest : Nat, synthetic : BOOLEAN]
  BY DEF GenerationInv, GenTypesOK, KeptOK
<1> DEFINE read == [job.read EXCEPT ![f] = pair[f]]
<1>1. /\ job.at = "read" /\ UNCHANGED <<pair, code, out, during, theirs>>
      /\ job' = [job EXCEPT !.read = read]
  BY DEF Generate!ReadPair, Generate!world, Generate!history
<1>2. /\ read \in [snapshot : Nat, manifest : Nat]
      /\ read[f] = pair[f] /\ \A g \in {"snapshot", "manifest"} \ {f} : read[g] = job.read[g]
  BY <1>0
<1> HIDE DEF read
<1>3. /\ job' = [x \in JobFields |-> job'[x]] /\ job'.read = read /\ job'.at = "read"
      /\ job'.kind = job.kind /\ job'.code = job.code /\ job'.todo = job.todo
      /\ job'.owned = job.owned /\ job'.tries = job.tries
  BY <1>0, <1>1 DEF JobFields
<1>4. GenTypesOK'
  BY <1>0, <1>1, <1>2, <1>3 DEF GenTypesOK
<1>5. job.owned = <<>> /\ job.kind # "supabase"
  BY <1>0, <1>1 DEF StageOK, Fetched
<1>6. Written = {} /\ Written' = {}
  BY <1>3, <1>5 DEF Written, Generate!ToSet
<1>7. VersionsOK'
  <2>1. \A g \in {"snapshot", "manifest"} : pair[g] \in Nat /\ read[g] <= pair[g]
    BY <1>0, <1>2 DEF KeptOK, VersionsOK
  <2> QED BY <1>0, <1>1, <1>3, <2>1 DEF KeptOK, VersionsOK
<1>8. OutputOK'
  <2>1. Generate!Mine' = Generate!Mine /\ out' = out /\ theirs' = theirs /\ Written' = Written
    BY <1>1, <1>6 DEF Generate!Mine
  <2> QED BY <1>0, <1>3, <2>1 DEF KeptOK, OutputOK
<1>9. StageOK'
  BY <1>3, <1>5 DEF StageOK, Fetched, Rechecks
<1> QED BY <1>4, <1>6, <1>7, <1>8, <1>9 DEF GenerationInv, ReceiptOK

\* The output is made, empty; what others made in the one before is gone.
LEMMA OutputIsMade ==
  ASSUME Generate!SchoolGenerationAssumption, GenerationInv, Generate!MakeOutput
  PROVE  GenerationInv'
<1> USE DEF Generate!world, Generate!history
<1>0. StageOK /\ GenTypesOK /\ KeptOK /\ job.kind \in {"supabase", "sqlite", "synthetic"}
  BY DEF GenerationInv, GenTypesOK, KeptOK
<1>1. CASE ~Generate!Fresh
  <2>1. Generate!Goto("refused") /\ UNCHANGED <<pair, code, out, during, theirs>>
    BY <1>1 DEF Generate!MakeOutput, Generate!Refused, Generate!Goto
  <2> QED BY <2>1, StagePasses
<1>2. CASE Generate!Fresh
  <2> DEFINE step == CASE job.kind = "supabase" -> "schools"
                       [] job.kind = "sqlite" -> "read"
                       [] job.kind = "synthetic" -> "write"
             new == [mine |-> TRUE, files |-> Generate!NoFiles]
  <2>1. /\ job.at = "mkdir" /\ out = Null /\ UNCHANGED <<pair, code, during, theirs>>
        /\ job' = [job EXCEPT !.at = step] /\ out' = new
    BY <1>2 DEF Generate!MakeOutput, Generate!Fresh
  <2>2. /\ job.kind = "supabase" => step = "schools"
        /\ job.kind = "sqlite" => step = "read"
        /\ job.kind = "synthetic" => step = "write"
    OBVIOUS
  <2>3. /\ new \in Directories /\ new.mine /\ \A n \in Generate!Names : new.files[n] = "absent"
    BY DEF Directories, Generate!NoFiles
  <2>4. new # Null
    BY <2>3 DEF Generate!SchoolGenerationAssumption, Directories
  <2> HIDE DEF step, new
  <2>5. /\ job' = [x \in JobFields |-> job'[x]] /\ job'.at = step /\ job'.kind = job.kind
        /\ job'.code = job.code /\ job'.read = job.read /\ job'.todo = job.todo
        /\ job'.owned = job.owned /\ job'.tries = job.tries
    BY <1>0, <2>1 DEF GenTypesOK, JobFields
  <2>6. GenTypesOK'
    BY <1>0, <2>1, <2>3, <2>5 DEF GenTypesOK
  <2>7. job.owned = <<>> /\ Written = {} /\ Written' = {}
    BY <1>0, <2>1, <2>5 DEF StageOK, Fetched, Written, Generate!ToSet
  <2>8. theirs = {}
    BY <1>0, <2>1 DEF KeptOK, OutputOK
  <2>9. OutputOK'
    <3>1. /\ \A n \in Generate!Names : out'.files[n] = "absent" /\ n \notin Written'
          /\ theirs' = {} /\ job'.owned = <<>>
      BY <2>1, <2>3, <2>5, <2>7, <2>8
    <3> QED BY <3>1 DEF OutputOK
  <2>10. VersionsOK' /\ ReceiptOK'
    BY <1>0, <2>1, <2>5, <2>7 DEF KeptOK, VersionsOK, ReceiptOK
  <2>11. StageOK'
    <3>1. (Parsed' <=> Parsed) /\ (Confirmed' <=> Confirmed)
      BY <2>1, <2>5 DEF Parsed, Generate!Parses, Confirmed
    <3>2. Planned(Staged)' <=> Planned(Staged)
      BY <2>5, <2>7 DEF Planned
    <3>3. job.kind = "synthetic" => Planned(Staged) /\ Confirmed
      BY <1>0, <2>1 DEF StageOK
    <3>4. job.kind = "synthetic" => Parsed
      BY <3>3 DEF Confirmed
    <3>5. job'.at \in {"schools", "read", "write"} /\ job'.kind = job.kind /\ job'.owned = <<>>
          /\ (job'.at = "schools" <=> job.kind = "supabase") /\ (job'.at = "read" <=> job.kind = "sqlite")
      BY <1>0, <2>2, <2>5, <2>7
    <3> QED BY <1>0, <3>1, <3>2, <3>3, <3>4, <3>5 DEF StageOK, Fetched, Rechecks
  <2> QED BY <2>6, <2>7, <2>9, <2>10, <2>11 DEF GenerationInv
<1> QED BY <1>1, <1>2

LEMMA Prefixed ==
  ASSUME NEW S, NEW x \in S, NEW t \in Seq(S), Len(t) = 3
  PROVE  /\ <<x>> \o t \in Seq(S) /\ Len(<<x>> \o t) = 4
         /\ (<<x>> \o t)[1] = x /\ \A i \in 2..4 : (<<x>> \o t)[i] = t[i - 1]
<1> DEFINE s == <<x>>
<1>1. s \in Seq(S) /\ Len(s) = 1 /\ s[1] = x
  OBVIOUS
<1> HIDE DEF s
<1>2. /\ s \o t \in Seq(S) /\ Len(s \o t) = Len(s) + Len(t)
      /\ \A i \in 1..(Len(s) + Len(t)) : (s \o t)[i] = IF i <= Len(s) THEN s[i] ELSE t[i - Len(s)]
  BY <1>1, ConcatProperties, Zenon
<1> QED BY <1>1, <1>2 DEF s

\* The rows are sound: what is to be written is set, or the code taken now.
LEMMA RowsAreChecked ==
  ASSUME GenerationInv, Generate!CheckRows
  PROVE  GenerationInv'
<1> USE DEF Generate!world, Generate!history
<1>0. /\ StageOK /\ GenTypesOK /\ KeptOK /\ job.kind \in {"supabase", "sqlite", "synthetic"}
      /\ job = [x \in JobFields |-> job[x]] /\ code \in Nat
  BY DEF GenerationInv, GenTypesOK, KeptOK
<1>1. CASE ~Generate!RowsAreSound
  <2>1. Generate!Goto("refused") /\ UNCHANGED <<pair, code, out, during, theirs>>
    BY <1>1 DEF Generate!CheckRows, Generate!Refused, Generate!Goto
  <2> QED BY <2>1, StagePasses
<1>2. job.at = "checked" /\ job.owned = <<>> /\ Parsed /\ UNCHANGED <<pair, code, out, during, theirs>>
  BY <1>0 DEF Generate!CheckRows, StageOK, Fetched
<1>3. CASE Generate!RowsAreSound /\ job.kind = "synthetic"
  <2>1. job' = [job EXCEPT !.at = "build", !.code = code]
    BY <1>3 DEF Generate!CheckRows
  <2>2. /\ job' = [x \in JobFields |-> job'[x]] /\ job'.at = "build" /\ job'.kind = job.kind
        /\ job'.code = code /\ job'.read = job.read /\ job'.todo = job.todo
        /\ job'.owned = job.owned /\ job'.tries = job.tries
    BY <1>0, <2>1 DEF JobFields
  <2>3. GenTypesOK'
    BY <1>0, <1>2, <2>2 DEF GenTypesOK
  <2>4. Written = {} /\ Written' = {}
    BY <1>2, <2>2 DEF Written, Generate!ToSet
  <2>5. OutputOK'
    <3>1. Generate!Mine' = Generate!Mine /\ out' = out /\ theirs' = theirs /\ Written' = Written
      BY <1>2, <2>4 DEF Generate!Mine
    <3> QED BY <1>0, <2>2, <3>1 DEF KeptOK, OutputOK
  <2>6. VersionsOK' /\ ReceiptOK'
    BY <1>0, <1>2, <2>2, <2>4 DEF KeptOK, VersionsOK, ReceiptOK
  <2>7. StageOK'
    <3>1. Parsed'
      BY <1>2, <2>2 DEF Parsed, Generate!Parses
    <3>2. job'.owned = <<>>
      BY <1>2, <2>2
    <3> QED BY <1>3, <2>2, <3>1, <3>2 DEF StageOK, Fetched, Rechecks
  <2> QED BY <2>3, <2>4, <2>5, <2>6, <2>7 DEF GenerationInv
<1>4. CASE Generate!RowsAreSound /\ job.kind # "synthetic"
  <2> DEFINE todo == <<"rows">> \o Generate!PublicFiles
  <2>1. job' = [job EXCEPT !.at = "write", !.todo = todo]
    BY <1>4 DEF Generate!CheckRows
  <2>2. /\ todo \in Seq(Generate!Names) /\ DOMAIN todo = 1..4
        /\ todo[1] = "rows" /\ todo[2] = "full" /\ todo[3] = "detail" /\ todo[4] = "manifest"
    <3> DEFINE t == Generate!PublicFiles
    <3>1. /\ t \in Seq(Generate!Names) /\ Len(t) = 3
          /\ t[1] = "full" /\ t[2] = "detail" /\ t[3] = "manifest"
      BY DEF Generate!PublicFiles, Generate!Names, Generate!Public
    <3> HIDE DEF t
    <3>2. "rows" \in Generate!Names
      BY DEF Generate!Names
    <3>3. todo = <<"rows">> \o t
      BY DEF t
    <3> HIDE DEF todo
    <3>4. /\ todo \in Seq(Generate!Names) /\ Len(todo) = 4
          /\ todo[1] = "rows" /\ \A i \in 2..4 : todo[i] = t[i - 1]
      BY <3>1, <3>2, <3>3, Prefixed
    <3> QED BY <3>1, <3>4
  <2>3. /\ todo \in Seq(Generate!Names) /\ Generate!ToSet(todo) = Ground
        /\ \A i \in DOMAIN todo : todo[i] # "receipt"
    <3> HIDE DEF todo
    <3>1. 1..4 = {1, 2, 3, 4}
      OBVIOUS
    <3> QED BY <2>2, <3>1 DEF Generate!ToSet, Ground
  <2> HIDE DEF todo
  <2>4. /\ job' = [x \in JobFields |-> job'[x]] /\ job'.at = "write" /\ job'.kind = job.kind
        /\ job'.code = job.code /\ job'.read = job.read /\ job'.todo = todo
        /\ job'.owned = job.owned /\ job'.tries = job.tries
    BY <1>0, <2>1 DEF JobFields
  <2>5. GenTypesOK'
    BY <1>0, <1>2, <2>3, <2>4 DEF GenTypesOK
  <2>6. KeptOK' /\ Written' = Written
    <3>1. \A f \in {"kind", "code", "read", "owned"} : job'[f] = job[f]
      BY <2>4
    <3> QED BY <1>2, <2>5, <3>1, ProcessGoesOn
  <2>7. Written = {}
    BY <1>2 DEF Written, Generate!ToSet
  <2>8. StageOK'
    <3>1. Parsed'
      BY <1>2, <2>4 DEF Parsed, Generate!Parses
    <3>2. Planned(Ground)'
      BY <2>3, <2>4, <2>6, <2>7 DEF Planned
    <3> QED BY <1>4, <2>4, <3>1, <3>2 DEF StageOK, Fetched, Rechecks
  <2> QED BY <2>5, <2>6, <2>8 DEF GenerationInv, KeptOK
<1> QED BY <1>1, <1>3, <1>4

LEMMA PlanGoesOn ==
  ASSUME GenTypesOK, job.todo # <<>>, NEW all, Planned(all),
         job'.todo = Tail(job.todo), job'.owned = Append(job.owned, Head(job.todo))
  PROVE  /\ Planned(all)' /\ Written' = Written \cup {Head(job.todo)}
         /\ "receipt" \in Written' =>
              Written' = all /\ job'.owned[Len(job'.owned)] = "receipt" /\ Head(job.todo) = "receipt"
<1> DEFINE todo == job.todo
           old == job.owned
           name == Head(todo)
           n == Len(todo)
           rest == Tail(todo)
           more == Append(old, name)
<1>1. todo \in Seq(Generate!Names) /\ old \in Seq(Generate!Names) /\ todo # <<>>
  BY DEF GenTypesOK
<1>2. /\ name \in Generate!Names /\ name = todo[1] /\ n \in Nat \ {0}
      /\ rest \in Seq(Generate!Names) /\ Len(rest) = n - 1 /\ DOMAIN rest = 1..(n - 1)
      /\ (\A i \in 1..(n - 1) : rest[i] = todo[i + 1]) /\ DOMAIN todo = 1..n
  <2> HIDE DEF todo
  <2> QED BY <1>1
<1>3. /\ Generate!ToSet(todo) = {name} \cup Generate!ToSet(rest)
  <2> HIDE DEF todo
  <2> QED BY <1>1, SetOfTail
<1>4. Generate!ToSet(more) = Generate!ToSet(old) \cup {name}
  <2> HIDE DEF old, name
  <2> QED BY <1>1, <1>2, SetOfAppend
<1>5. more[Len(more)] = name
  <2> HIDE DEF old, name
  <2> QED BY <1>1, <1>2
<1>6. Written' = Written \cup {name}
  BY <1>4 DEF Written
<1>7. "receipt" \in Written' => name = "receipt" /\ n = 1 /\ rest = <<>>
  <2>1. ASSUME "receipt" \in Written' PROVE name = "receipt"
    BY <1>1, <1>6, <2>1 DEF Planned
  <2>2. ASSUME name = "receipt" PROVE n = 1
    <3>1. 1 \in DOMAIN todo /\ todo[1] = "receipt"
      BY <1>2, <2>2
    <3> QED BY <3>1, <1>2 DEF Planned
  <2>3. ASSUME n = 1 PROVE rest = <<>>
    <3> HIDE DEF rest, n
    <3> QED BY <1>2, <2>3
  <2> QED BY <2>1, <2>2, <2>3
<1>8. rest = <<>> => Generate!ToSet(rest) = {}
  BY DEF Generate!ToSet
<1>9. \A i \in 1..(n - 1) : rest[i] = "receipt" => i = n - 1
  <2> SUFFICES ASSUME NEW i \in 1..(n - 1), rest[i] = "receipt" PROVE i = n - 1
    OBVIOUS
  <2>1. todo[i + 1] = "receipt" /\ i + 1 \in 1..n
    <3> HIDE DEF n, todo, rest
    <3> QED BY <1>2
  <2>2. i + 1 = n
    BY <2>1, <1>2 DEF Planned
  <2> HIDE DEF n
  <2> QED BY <2>2, <1>2
<1>10. Generate!ToSet(todo) \cup Written = all
  BY DEF Planned
<1>11. Planned(all)'
  <2>1. Generate!ToSet(rest) \cup Written' = all
    BY <1>3, <1>6, <1>10
  <2>2. job'.todo = rest
    OBVIOUS
  <2> HIDE DEF rest, n
  <2> QED BY <1>2, <1>7, <1>9, <2>1, <2>2 DEF Planned
<1>12. "receipt" \in Written' => Written' = all
  BY <1>3, <1>6, <1>7, <1>8, <1>10
<1> QED BY <1>5, <1>6, <1>7, <1>11, <1>12

\* The file is made where none was.
LEMMA FileIsMade ==
  ASSUME Generate!SchoolGenerationAssumption, GenTypesOK, OutputOK, NEW name \in Generate!Names,
         Generate!Writable(name), out' = [out EXCEPT !.files[name] = "made"], theirs' = theirs,
         job'.owned = Append(job.owned, name), Written' = Written \cup {name}
  PROVE  OutputOK' /\ out' \in Directories /\ name \notin Written
<1>1. Generate!Mine /\ out # Null /\ out \in Directories /\ out.files[name] = "absent"
  BY DEF Generate!Writable, Generate!Mine, GenTypesOK
<1>2. /\ out' \in Directories /\ out'.mine = out.mine /\ out'.files[name] = "made"
      /\ \A m \in Generate!Names \ {name} : out'.files[m] = out.files[m]
  BY <1>1 DEF Directories
<1>3. name \notin Written /\ name \notin theirs
  BY <1>1 DEF OutputOK
<1>4. \A m \in Generate!Names : /\ out'.files[m] \in {"made", "edited"} => m \in Written'
                                /\ m \in Written' => out'.files[m] # "absent"
  BY <1>1, <1>2 DEF OutputOK
<1>5. \A m \in theirs' : out' # Null /\ out'.files[m] = "other"
  <2>1. out' # Null
    BY <1>2 DEF Generate!SchoolGenerationAssumption, Directories
  <2>2. theirs \subseteq Generate!Names
    BY DEF GenTypesOK
  <2> QED BY <1>2, <1>3, <2>1, <2>2 DEF OutputOK
<1>6. \A i, j \in DOMAIN job'.owned : job'.owned[i] = job'.owned[j] => i = j
  <2> DEFINE s == job.owned
             n == Len(s)
  <2>1. s \in Seq(Generate!Names)
    BY DEF GenTypesOK
  <2>2. \A i \in DOMAIN s : s[i] # name
    BY <1>3 DEF Written, Generate!ToSet
  <2>3. \A i, j \in DOMAIN s : s[i] = s[j] => i = j
    BY DEF OutputOK
  <2> DEFINE t == Append(s, name)
  <2>4. job'.owned = t
    OBVIOUS
  <2> HIDE DEF s
  <2>5. /\ n \in Nat /\ DOMAIN s = 1..n /\ DOMAIN t = 1..(n + 1) /\ t[n + 1] = name
        /\ \A i \in 1..n : t[i] = s[i]
    BY <2>1
  <2> HIDE DEF t, n
  <2>6. \A i \in 1..(n + 1) : i = n + 1 \/ i \in 1..n
    BY <2>5
  <2>7. \A i, j \in DOMAIN t : t[i] = t[j] => i = j
    BY <2>2, <2>3, <2>5, <2>6
  <2> QED BY <2>4, <2>7
<1> QED BY <1>2, <1>3, <1>4, <1>5, <1>6 DEF OutputOK

LEMMA FilesAreWritten ==
  ASSUME Generate!SchoolGenerationAssumption, GenerationInv, Generate!Write
  PROVE  GenerationInv'
<1> USE DEF Generate!world, Generate!history
<1>0. /\ StageOK /\ GenTypesOK /\ KeptOK /\ job.kind \in {"supabase", "sqlite", "synthetic"}
      /\ job = [x \in JobFields |-> job[x]] /\ job.todo \in Seq(Generate!Names)
      /\ job.owned \in Seq(Generate!Names)
  BY DEF GenerationInv, GenTypesOK, KeptOK
<1> DEFINE name == Head(job.todo)
           rest == Tail(job.todo)
           more == Append(job.owned, name)
<1>1. job.at \in {"write", "finish"} /\ job.todo # <<>> /\ UNCHANGED <<pair, code, theirs>>
  BY DEF Generate!Write
<1>2. CASE ~Generate!Writable(name)
  <2>1. /\ \/ job.kind = "synthetic" /\ Generate!Goto("cleanup")
           \/ Generate!Goto("refused")
        /\ UNCHANGED <<out, during>>
    BY <1>2 DEF Generate!Write
  <2> QED BY <1>1, <2>1, StagePasses
<1>3. CASE Generate!Writable(name)
  <2>1. /\ out' = [out EXCEPT !.files[name] = "made"]
        /\ job' = [job EXCEPT !.todo = rest, !.owned = more]
        /\ IF name = "manifest" /\ job.kind # "synthetic" THEN Generate!Complete ELSE UNCHANGED during
    BY <1>3 DEF Generate!Write
  <2>2. name \in Generate!Names /\ rest \in Seq(Generate!Names)
    BY <1>0, <1>1, SetOfTail
  <2>3. more \in Seq(Generate!Names)
    <3> HIDE DEF name
    <3> QED BY <1>0, <2>2
  <2>4. /\ job' = [x \in JobFields |-> job'[x]] /\ job'.at = job.at /\ job'.kind = job.kind
        /\ job'.code = job.code /\ job'.read = job.read /\ job'.todo = rest
        /\ job'.owned = more /\ job'.tries = job.tries
    <3> HIDE DEF rest, more
    <3> QED BY <1>0, <2>1 DEF JobFields
  <2>5. \A all : Planned(all) =>
          /\ Planned(all)' /\ Written' = Written \cup {name}
          /\ "receipt" \in Written' =>
               Written' = all /\ job'.owned[Len(job'.owned)] = "receipt" /\ name = "receipt"
    BY <1>0, <1>1, <2>4, PlanGoesOn
  <2>6. /\ job.kind = "synthetic" => job.at = "write"
        /\ job.at = "write" /\ job.kind # "synthetic" => Planned(Ground)
        /\ job.at = "write" /\ job.kind = "synthetic" => Planned(Staged) /\ Confirmed
        /\ job.at = "finish" => Planned(Published) /\ Confirmed /\ Ground \subseteq Written
        /\ Parsed \/ job.at = "finish"
    BY <1>0, <1>1 DEF StageOK
  <2>7. Written' = Written \cup {name}
    BY <1>1, <2>5, <2>6
  <2>8. OutputOK' /\ out' \in Directories /\ name \notin Written
    BY <1>0, <1>1, <1>3, <2>1, <2>2, <2>4, <2>7, FileIsMade DEF KeptOK
  <2>9. GenTypesOK'
    BY <1>0, <1>1, <2>2, <2>3, <2>4, <2>8 DEF GenTypesOK
  <2>10. VersionsOK'
    BY <1>0, <1>1, <2>4 DEF KeptOK, VersionsOK
  <2>11. job.at = "finish" \/ job.kind = "synthetic" => during' = during
    BY <2>1, <2>6, <2>8 DEF Ground
  <2>12. (during' = during) => (Confirmed' <=> Confirmed) /\ (DuringOK' <=> DuringOK)
    BY <1>1, <2>4 DEF Confirmed, Parsed, Generate!Parses, DuringOK
  <2>13. Parsed' <=> Parsed
    BY <1>1, <2>4 DEF Parsed, Generate!Parses
  <2>14. job'.kind # "synthetic" /\ "manifest" \in Written' => DuringOK'
    <3>1. CASE job.kind # "synthetic" /\ name = "manifest"
      <4>1. during' = [pair |-> pair, code |-> code]
        BY <2>1, <3>1 DEF Generate!Complete
      <4>2. /\ pair \in [snapshot : Nat, manifest : Nat, synthetic : BOOLEAN]
            /\ code \in Nat
        BY <1>0 DEF GenTypesOK
      <4>3. /\ during' \in [pair : [snapshot : Nat, manifest : Nat, synthetic : BOOLEAN], code : Nat]
            /\ during'.pair = pair /\ during'.code = code
        BY <4>1, <4>2
      <4>4. code' = code /\ pair' = pair /\ job'.code = job.code /\ job'.read = job.read
        BY <1>1, <2>4
      <4>5. /\ job.code <= code /\ code <= code
            /\ \A f \in {"snapshot", "manifest"} : job.read[f] <= pair[f] /\ pair[f] <= pair[f]
        BY <1>0, <4>2 DEF KeptOK, VersionsOK
      <4> QED BY <4>3, <4>4, <4>5 DEF DuringOK
    <3>2. CASE job.kind # "synthetic" /\ name # "manifest"
      <4>1. during' = during
        BY <2>1, <3>2
      <4> QED BY <1>0, <2>4, <2>7, <2>12, <3>2, <4>1 DEF KeptOK
    <3> QED BY <2>4, <3>1, <3>2
  <2>15. StageOK'
    <3>1. /\ job.at = "write" /\ job.kind # "synthetic" => Planned(Ground)'
          /\ job.at = "write" /\ job.kind = "synthetic" => Planned(Staged)' /\ Confirmed'
          /\ job.at = "finish" => Planned(Published)' /\ Confirmed' /\ (Ground \subseteq Written)'
      BY <2>5, <2>6, <2>7, <2>11, <2>12 DEF Ground
    <3>2. job'.at = "write" => Parsed'
      BY <1>1, <2>4, <2>6, <2>13
    <3>3. job'.at \in {"write", "finish"} /\ (job'.at = "finish" => job'.kind # "synthetic")
      BY <1>1, <2>4, <2>6
    <3> QED BY <2>4, <3>1, <3>2, <3>3 DEF StageOK, Fetched, Rechecks
  <2>16. ReceiptOK'
    <3> SUFFICES ASSUME "receipt" \in Written'
                 PROVE  /\ job'.owned[Len(job'.owned)] = "receipt" /\ Confirmed'
                        /\ (IF job'.kind = "synthetic" THEN Staged ELSE Published) \subseteq Written'
      BY DEF ReceiptOK, Staged, Published, Ground
    <3>1. CASE job.at = "write" /\ job.kind # "synthetic"
      BY <2>5, <2>6, <3>1 DEF Ground
    <3>2. CASE job.at = "write" /\ job.kind = "synthetic"
      BY <2>4, <2>5, <2>6, <2>11, <2>12, <3>2
    <3>3. CASE job.at = "finish"
      BY <2>4, <2>5, <2>6, <2>11, <2>12, <3>3
    <3> QED BY <1>1, <3>1, <3>2, <3>3
  <2> QED BY <2>8, <2>9, <2>10, <2>14, <2>15, <2>16 DEF GenerationInv
<1> QED BY <1>2, <1>3

LEMMA InventoryIsTaken ==
  ASSUME GenerationInv, Generate!TakeInventory
  PROVE  GenerationInv'
<1> USE DEF Generate!world, Generate!history
<1>0. /\ StageOK /\ GenTypesOK /\ KeptOK /\ job = [x \in JobFields |-> job[x]]
  BY DEF GenerationInv, GenTypesOK, KeptOK
<1>1. /\ job.at = "write" /\ job.todo = <<>> /\ job.kind # "synthetic"
      /\ UNCHANGED <<pair, code, out, during, theirs>>
      /\ \/ Generate!Refused
         \/ job' = [job EXCEPT !.at = "recheck-code", !.inventory = out.files]
  BY DEF Generate!TakeInventory
<1>2. CASE Generate!Refused
  <2>1. Generate!Goto("refused")
    BY <1>2 DEF Generate!Refused, Generate!Goto
  <2> QED BY <1>1, <2>1, StagePasses
<1>3. CASE job' = [job EXCEPT !.at = "recheck-code", !.inventory = out.files]
  <2> DEFINE files == out.files
  <2>1. job' = [job EXCEPT !.at = "recheck-code", !.inventory = files]
    BY <1>3
  <2> HIDE DEF files
  <2>2. /\ job' = [x \in JobFields |-> job'[x]] /\ job'.at = "recheck-code" /\ job'.kind = job.kind
        /\ job'.code = job.code /\ job'.read = job.read /\ job'.todo = job.todo
        /\ job'.owned = job.owned /\ job'.tries = job.tries
    BY <1>0, <2>1 DEF JobFields
  <2>3. GenTypesOK'
    BY <1>0, <1>1, <2>2 DEF GenTypesOK
  <2>4. \A f \in {"kind", "code", "read", "owned"} : job'[f] = job[f]
    BY <2>2
  <2>5. KeptOK' /\ Written' = Written /\ (Parsed' <=> Parsed)
    BY <1>1, <2>3, <2>4, ProcessGoesOn
  <2>6. Written = Ground /\ Parsed
    <3>1. Planned(Ground) /\ Parsed
      BY <1>0, <1>1 DEF StageOK
    <3>2. Generate!ToSet(job.todo) = {}
      BY <1>1 DEF Generate!ToSet
    <3> QED BY <3>1, <3>2 DEF Planned
  <2>7. StageOK'
    BY <1>1, <2>2, <2>5, <2>6 DEF StageOK, Fetched, Rechecks
  <2> QED BY <2>3, <2>5, <2>7 DEF GenerationInv, KeptOK
<1> QED BY <1>1, <1>2, <1>3

\* Between what was read and what is there now, if these are the same.
LEMMA PairStands ==
  ASSUME GenTypesOK, DuringOK, Generate!PairUnchanged
  PROVE  during.pair.snapshot = job.read.snapshot /\ during.pair.manifest = job.read.manifest
<1> DEFINE a == during.pair.snapshot
           b == job.read.snapshot
           c == during.pair.manifest
           d == job.read.manifest
<1>1. a \in Nat /\ b \in Nat /\ c \in Nat /\ d \in Nat
  BY DEF GenTypesOK, DuringOK
<1>2. b <= a /\ a <= b /\ d <= c /\ c <= d
  BY DEF DuringOK, Generate!PairUnchanged
<1> HIDE DEF a, b, c, d
<1>3. a = b /\ c = d
  BY <1>1, <1>2
<1> QED BY <1>3 DEF a, b, c, d

\* The pair is still the one that was read: the run may finish.
LEMMA PairIsRechecked ==
  ASSUME GenerationInv, Generate!RecheckPair
  PROVE  GenerationInv'
<1> USE DEF Generate!world, Generate!history
<1>0. /\ StageOK /\ GenTypesOK /\ KeptOK /\ job = [x \in JobFields |-> job[x]]
      /\ job.kind \in {"supabase", "sqlite", "synthetic"}
  BY DEF GenerationInv, GenTypesOK, KeptOK
<1> DEFINE todo == <<"payload", "receipt">>
<1>1. /\ job.at = "recheck-pair" /\ UNCHANGED <<pair, code, out, during, theirs>>
      /\ \/ Generate!Refused
         \/ /\ job.kind = "sqlite" => Generate!PairUnchanged
            /\ job' = [job EXCEPT !.at = "finish", !.todo = todo]
  BY DEF Generate!RecheckPair
<1>2. CASE Generate!Refused
  <2>1. Generate!Goto("refused")
    BY <1>2 DEF Generate!Refused, Generate!Goto
  <2> QED BY <1>1, <2>1, StagePasses
<1>3. CASE (job.kind = "sqlite" => Generate!PairUnchanged) /\ job' = [job EXCEPT !.at = "finish", !.todo = todo]
  <2>1. /\ todo \in Seq(Generate!Names) /\ Generate!ToSet(todo) = {"payload", "receipt"}
        /\ \A i \in DOMAIN todo : todo[i] = "receipt" => i = Len(todo)
    BY DEF Generate!Names, Generate!ToSet
  <2> HIDE DEF todo
  <2>2. /\ job' = [x \in JobFields |-> job'[x]] /\ job'.at = "finish" /\ job'.kind = job.kind
        /\ job'.code = job.code /\ job'.read = job.read /\ job'.todo = todo
        /\ job'.owned = job.owned /\ job'.tries = job.tries
    BY <1>0, <1>3 DEF JobFields
  <2>3. GenTypesOK'
    BY <1>0, <1>1, <2>1, <2>2 DEF GenTypesOK
  <2>4. \A f \in {"kind", "code", "read", "owned"} : job'[f] = job[f]
    BY <2>2
  <2>5. KeptOK' /\ Written' = Written /\ (Confirmed' <=> Confirmed)
    BY <1>1, <2>3, <2>4, ProcessGoesOn
  <2>6. Written = Ground /\ Parsed /\ job.kind # "synthetic" /\ during.code = job.code
    BY <1>0, <1>1 DEF StageOK, Rechecks
  <2>7. DuringOK
    BY <1>0, <2>6 DEF KeptOK, Ground
  <2>8. Confirmed
    BY <1>0, <1>3, <2>6, <2>7, PairStands DEF Confirmed
  <2>9. Planned(Published)'
    <3>1. "receipt" \notin Written'
      BY <2>5, <2>6 DEF Ground
    <3>2. Generate!ToSet(todo) \cup Written' = Published
      BY <2>1, <2>5, <2>6 DEF Published
    <3> QED BY <2>1, <2>2, <3>1, <3>2 DEF Planned
  <2>10. StageOK'
    BY <2>2, <2>5, <2>6, <2>8, <2>9 DEF StageOK, Fetched, Rechecks
  <2> QED BY <2>3, <2>5, <2>10 DEF GenerationInv, KeptOK
<1> QED BY <1>1, <1>2, <1>3

\* The stage is complete.
LEMMA StageIsBuilt ==
  ASSUME GenerationInv, Generate!Build
  PROVE  GenerationInv'
<1> USE DEF Generate!world, Generate!history
<1>0. /\ StageOK /\ GenTypesOK /\ KeptOK
  BY DEF GenerationInv, KeptOK
<1>1. /\ job.at = "build" /\ UNCHANGED <<pair, code, out, theirs>>
      /\ job' = [job EXCEPT !.at = "staged"] /\ during' = [pair |-> pair, code |-> code]
  BY DEF Generate!Build, Generate!Goto, Generate!Complete
<1>2. /\ GenTypesOK' /\ job'.at = "staged"
      /\ \A f \in JobFields \ {"at"} : job'[f] = job[f]
  BY <1>0, <1>1, ProcessAt
<1>3. /\ job'.kind = job.kind /\ job'.code = job.code /\ job'.read = job.read
      /\ job'.owned = job.owned
  BY <1>2 DEF JobFields
<1>4. job.kind = "synthetic" /\ job.owned = <<>> /\ Parsed
  BY <1>0, <1>1 DEF StageOK
<1>5. Written = {} /\ Written' = {}
  BY <1>3, <1>4 DEF Written, Generate!ToSet
<1>6. OutputOK'
  <2>1. Generate!Mine' = Generate!Mine /\ out' = out /\ theirs' = theirs /\ Written' = Written
    BY <1>1, <1>5 DEF Generate!Mine
  <2> QED BY <1>0, <1>3, <2>1 DEF KeptOK, OutputOK
<1>7. VersionsOK' /\ ReceiptOK'
  BY <1>0, <1>1, <1>3, <1>5 DEF KeptOK, VersionsOK, ReceiptOK
<1>8. DuringOK'
  <2>1. /\ pair \in [snapshot : Nat, manifest : Nat, synthetic : BOOLEAN] /\ code \in Nat
    BY <1>0 DEF GenTypesOK
  <2>2. /\ during' \in [pair : [snapshot : Nat, manifest : Nat, synthetic : BOOLEAN], code : Nat]
        /\ during'.pair = pair /\ during'.code = code
    BY <1>1, <2>1
  <2>3. /\ job.code <= code /\ code <= code
        /\ \A f \in {"snapshot", "manifest"} : job.read[f] <= pair[f] /\ pair[f] <= pair[f]
    BY <1>0, <2>1 DEF KeptOK, VersionsOK
  <2>4. code' = code /\ pair' = pair
    BY <1>1
  <2> QED BY <1>3, <2>2, <2>3, <2>4 DEF DuringOK
<1>9. StageOK'
  <2>1. Parsed'
    BY <1>1, <1>3, <1>4 DEF Parsed, Generate!Parses
  <2>2. job'.owned = <<>>
    BY <1>3, <1>4
  <2> QED BY <1>2, <1>3, <1>4, <1>8, <2>1, <2>2 DEF StageOK, Fetched, Rechecks
<1> QED BY <1>2, <1>5, <1>6, <1>7, <1>9 DEF GenerationInv

LEMMA Appended ==
  ASSUME NEW S, NEW x \in S, NEW t \in Seq(S)
  PROVE  Len(t) = 3 =>
           /\ Append(t, x) \in Seq(S) /\ Len(Append(t, x)) = 4 /\ DOMAIN Append(t, x) = 1..4
           /\ Append(t, x)[1] = t[1] /\ Append(t, x)[2] = t[2] /\ Append(t, x)[3] = t[3]
           /\ Append(t, x)[4] = x
<1> DEFINE s == Append(t, x)
           n == Len(t)
<1>1. /\ s \in Seq(S) /\ DOMAIN s = 1..(n + 1) /\ Len(s) = n + 1
      /\ (\A i \in 1..n : s[i] = t[i]) /\ s[n + 1] = x
  OBVIOUS
<1> HIDE DEF s, n
<1>2. n = 3 => Len(s) = 4 /\ DOMAIN s = 1..4 /\ s[1] = t[1] /\ s[2] = t[2] /\ s[3] = t[3] /\ s[4] = x
  BY <1>1
<1> QED BY <1>1, <1>2 DEF s, n

\* Pair and generator are still those of the stage: it may be published.
LEMMA InputsAreRechecked ==
  ASSUME GenerationInv, Generate!RecheckInputs
  PROVE  GenerationInv'
<1> USE DEF Generate!world, Generate!history
<1>0. /\ StageOK /\ GenTypesOK /\ KeptOK /\ job = [x \in JobFields |-> job[x]]
      /\ job.code \in Nat
  BY DEF GenerationInv, GenTypesOK, KeptOK
<1> DEFINE todo == Append(Generate!PublicFiles, "receipt")
<1>1. /\ job.at = "staged" /\ UNCHANGED <<pair, code, out, during, theirs>>
      /\ \/ Generate!Refused
         \/ /\ Generate!PairUnchanged /\ code = job.code
            /\ job' = [job EXCEPT !.at = "mkdir", !.todo = todo]
  BY DEF Generate!RecheckInputs
<1>2. CASE Generate!Refused
  <2>1. Generate!Goto("refused")
    BY <1>2 DEF Generate!Refused, Generate!Goto
  <2> QED BY <1>1, <2>1, StagePasses
<1>3. CASE Generate!PairUnchanged /\ code = job.code /\ job' = [job EXCEPT !.at = "mkdir", !.todo = todo]
  <2>1. /\ todo \in Seq(Generate!Names) /\ Generate!ToSet(todo) = Staged
        /\ \A i \in DOMAIN todo : todo[i] = "receipt" => i = Len(todo)
    <3> DEFINE t == Generate!PublicFiles
    <3>1. /\ t \in Seq(Generate!Names) /\ Len(t) = 3
          /\ t[1] = "full" /\ t[2] = "detail" /\ t[3] = "manifest"
      BY DEF Generate!PublicFiles, Generate!Names, Generate!Public
    <3>2. "receipt" \in Generate!Names /\ todo = Append(t, "receipt")
      BY DEF Generate!Names
    <3> HIDE DEF t, todo
    <3>3. /\ todo \in Seq(Generate!Names) /\ Len(todo) = 4 /\ DOMAIN todo = 1..4
          /\ todo[1] = "full" /\ todo[2] = "detail" /\ todo[3] = "manifest" /\ todo[4] = "receipt"
      BY <3>1, <3>2, Appended
    <3>4. 1..4 = {1, 2, 3, 4}
      OBVIOUS
    <3> QED BY <3>3, <3>4 DEF Generate!ToSet, Staged
  <2> HIDE DEF todo
  <2>2. /\ job' = [x \in JobFields |-> job'[x]] /\ job'.at = "mkdir" /\ job'.kind = job.kind
        /\ job'.code = job.code /\ job'.read = job.read /\ job'.todo = todo
        /\ job'.owned = job.owned /\ job'.tries = job.tries
    BY <1>0, <1>3 DEF JobFields
  <2>3. GenTypesOK'
    BY <1>0, <1>1, <2>1, <2>2 DEF GenTypesOK
  <2>4. \A f \in {"kind", "code", "read", "owned"} : job'[f] = job[f]
    BY <2>2
  <2>5. KeptOK' /\ Written' = Written /\ (Confirmed' <=> Confirmed)
    BY <1>1, <2>3, <2>4, ProcessGoesOn
  <2>6. Parsed /\ job.kind = "synthetic" /\ job.owned = <<>> /\ DuringOK
    BY <1>0, <1>1 DEF StageOK
  <2>7. during.code = job.code
    <3>1. during.code \in Nat /\ job.code <= during.code /\ during.code <= job.code
      BY <1>3, <2>6 DEF DuringOK
    <3> QED BY <1>0, <3>1
  <2>8. Confirmed
    BY <1>0, <1>3, <2>6, <2>7, PairStands DEF Confirmed
  <2>9. Planned(Staged)'
    <3>1. Written = {} /\ Written' = {}
      BY <2>2, <2>6 DEF Written, Generate!ToSet
    <3> QED BY <2>1, <2>2, <3>1 DEF Planned
  <2>10. StageOK'
    <3>1. job'.owned = <<>>
      BY <2>2, <2>6
    <3> QED BY <2>2, <2>5, <2>6, <2>8, <2>9, <3>1 DEF StageOK, Fetched, Rechecks
  <2> QED BY <2>3, <2>5, <2>10 DEF GenerationInv, KeptOK
<1> QED BY <1>1, <1>2, <1>3

\* One own file is removed, the last one that was made.
LEMMA OwnIsRemoved ==
  ASSUME Generate!SchoolGenerationAssumption, GenerationInv, Generate!RemoveOwn
  PROVE  GenerationInv'
<1> USE DEF Generate!world, Generate!history
<1>0. /\ StageOK /\ GenTypesOK /\ KeptOK /\ job = [x \in JobFields |-> job[x]]
      /\ job.owned \in Seq(Generate!Names)
  BY DEF GenerationInv, GenTypesOK, KeptOK
<1> DEFINE name == job.owned[Len(job.owned)]
           rest == Generate!Front(job.owned)
<1>1. /\ job.at = "remove" /\ job.owned # <<>> /\ UNCHANGED <<pair, code, during, theirs>>
      /\ job' = [job EXCEPT !.owned = rest]
      /\ out' = IF Generate!Mine /\ Generate!Owned(name) THEN [out EXCEPT !.files[name] = "absent"] ELSE out
  BY DEF Generate!RemoveOwn
<1>2. /\ rest \in Seq(Generate!Names) /\ name \in Generate!Names
      /\ DOMAIN rest = 1..(Len(job.owned) - 1) /\ DOMAIN job.owned = 1..Len(job.owned)
      /\ Len(job.owned) \in Nat \ {0}
      /\ \A i \in 1..(Len(job.owned) - 1) : rest[i] = job.owned[i]
      /\ Generate!ToSet(job.owned) = Generate!ToSet(rest) \cup {name}
  BY <1>0, <1>1, SetOfFront
<1> HIDE DEF rest
<1>3. /\ job' = [x \in JobFields |-> job'[x]] /\ job'.at = "remove" /\ job'.kind = job.kind
      /\ job'.code = job.code /\ job'.read = job.read /\ job'.todo = job.todo
      /\ job'.owned = rest /\ job'.tries = job.tries
  BY <1>0, <1>1 DEF JobFields
<1>4. job.kind = "synthetic"
  BY <1>0, <1>1 DEF StageOK
<1>5. \A i, j \in DOMAIN job.owned : job.owned[i] = job.owned[j] => i = j
  BY <1>0 DEF KeptOK, OutputOK
<1>6. Written = Written' \cup {name} /\ name \notin Written'
  <2>1. Written = Written' \cup {name} /\ Written' = Generate!ToSet(rest)
    BY <1>2, <1>3 DEF Written
  <2>2. ASSUME name \in Generate!ToSet(rest) PROVE FALSE
    <3> DEFINE n == Len(job.owned)
    <3>1. PICK i \in 1..(n - 1) : rest[i] = name
      BY <1>2, <2>2 DEF Generate!ToSet
    <3>2. n \in Nat \ {0} /\ DOMAIN job.owned = 1..n /\ job.owned[i] = name /\ name = job.owned[n]
      BY <1>2, <3>1
    <3> HIDE DEF n, name
    <3>3. i \in 1..n /\ n \in 1..n /\ i # n
      BY <3>2
    <3> QED BY <1>5, <3>2, <3>3
  <2> QED BY <2>1, <2>2
<1> HIDE DEF name
<1>7. /\ out' \in {Null} \cup Directories
      /\ Generate!Mine' => \A m \in Generate!Names :
           /\ out'.files[m] \in {"made", "edited"} => m \in Written'
           /\ m \in Written' => out'.files[m] # "absent"
      /\ \A m \in theirs' : out' # Null /\ out'.files[m] = "other"
  <2>1. CASE Generate!Mine /\ Generate!Owned(name)
    <3>1. out # Null /\ out \in Directories /\ out.mine /\ out.files[name] \in {"made", "edited"}
      BY <1>0, <2>1 DEF Generate!Mine, Generate!Owned, GenTypesOK
    <3>2. /\ out' \in Directories /\ out'.mine /\ out'.files[name] = "absent"
          /\ \A m \in Generate!Names \ {name} : out'.files[m] = out.files[m]
      BY <1>1, <1>2, <2>1, <3>1 DEF Directories
    <3>3. out' # Null
      BY <3>2 DEF Generate!SchoolGenerationAssumption, Directories
    <3>4. name \notin theirs /\ theirs \subseteq Generate!Names
      BY <1>0, <3>1 DEF KeptOK, OutputOK, GenTypesOK
    <3>5. \A m \in theirs' : out' # Null /\ out'.files[m] = "other"
      BY <1>0, <1>1, <3>2, <3>3, <3>4 DEF KeptOK, OutputOK
    <3>6. \A m \in Generate!Names : /\ out'.files[m] \in {"made", "edited"} => m \in Written'
                                    /\ m \in Written' => out'.files[m] # "absent"
      BY <1>0, <1>6, <2>1, <3>2 DEF KeptOK, OutputOK
    <3> QED BY <3>2, <3>3, <3>5, <3>6
  <2>2. CASE ~(Generate!Mine /\ Generate!Owned(name))
    <3>1. out' = out /\ theirs' = theirs
      BY <1>1, <2>2
    <3>2. Generate!Mine' = Generate!Mine
      BY <3>1 DEF Generate!Mine
    <3>3. Generate!Mine => out.files[name] \notin {"made", "edited"}
      BY <2>2 DEF Generate!Owned
    <3>4. Generate!Mine => \A m \in Generate!Names :
            /\ out.files[m] \in {"made", "edited"} => m \in Written'
            /\ m \in Written' => out.files[m] # "absent"
      BY <1>0, <1>6, <3>3 DEF KeptOK, OutputOK
    <3>5. \A m \in theirs' : out' # Null /\ out'.files[m] = "other"
      BY <1>0, <3>1 DEF KeptOK, OutputOK
    <3>6. out' \in {Null} \cup Directories
      BY <1>0, <3>1 DEF GenTypesOK
    <3> QED BY <3>1, <3>2, <3>4, <3>5, <3>6
  <2> QED BY <2>1, <2>2
<1>8. OutputOK'
  <2>1. \A i, j \in DOMAIN job'.owned : job'.owned[i] = job'.owned[j] => i = j
    <3> DEFINE n == Len(job.owned)
    <3>1. n \in Nat \ {0} /\ DOMAIN job.owned = 1..n /\ DOMAIN rest = 1..(n - 1)
          /\ \A i \in 1..(n - 1) : rest[i] = job.owned[i]
      BY <1>2
    <3> HIDE DEF n
    <3>2. \A i \in 1..(n - 1) : i \in 1..n
      BY <3>1
    <3> QED BY <1>3, <1>5, <3>1, <3>2
  <2> QED BY <1>7, <2>1 DEF OutputOK
<1>9. GenTypesOK'
  BY <1>0, <1>1, <1>2, <1>3, <1>7 DEF GenTypesOK
<1>10. VersionsOK'
  BY <1>0, <1>1, <1>3 DEF KeptOK, VersionsOK
<1>11. ReceiptOK'
  <2>1. "receipt" \in Written => name = "receipt"
    BY <1>0 DEF KeptOK, ReceiptOK, name
  <2>2. "receipt" \notin Written'
    BY <1>6, <2>1
  <2> QED BY <2>2 DEF ReceiptOK
<1>12. StageOK'
  BY <1>3, <1>4 DEF StageOK, Fetched, Rechecks
<1> QED BY <1>3, <1>4, <1>8, <1>9, <1>10, <1>11, <1>12 DEF GenerationInv

\* The directory goes, if nothing is left in it.
LEMMA OutputIsRemoved ==
  ASSUME GenerationInv, Generate!RemoveOutput
  PROVE  GenerationInv'
<1> USE DEF Generate!world, Generate!history
<1>0. /\ StageOK /\ GenTypesOK /\ KeptOK /\ job = [x \in JobFields |-> job[x]]
  BY DEF GenerationInv, GenTypesOK, KeptOK
<1>1. /\ job.at = "remove" /\ job.owned = <<>> /\ UNCHANGED <<pair, code, during, theirs>>
      /\ job' = [job EXCEPT !.at = "refused"]
      /\ out' = IF out # Null /\ out.files = Generate!NoFiles THEN Null ELSE out
  BY DEF Generate!RemoveOutput, Generate!Refused
<1>2. /\ job' = [x \in JobFields |-> job'[x]] /\ job'.at = "refused" /\ job'.kind = job.kind
      /\ job'.code = job.code /\ job'.read = job.read /\ job'.todo = job.todo
      /\ job'.owned = job.owned /\ job'.tries = job.tries
  BY <1>0, <1>1 DEF JobFields
<1>3. GenTypesOK'
  <2>1. out' \in {Null} \cup Directories
    BY <1>0, <1>1 DEF GenTypesOK
  <2> QED BY <1>0, <1>1, <1>2, <2>1 DEF GenTypesOK
<1>4. Written = {} /\ Written' = {} /\ job.kind = "synthetic"
  BY <1>0, <1>1, <1>2 DEF Written, Generate!ToSet, StageOK
<1>5. OutputOK'
  <2>1. CASE out # Null /\ out.files = Generate!NoFiles
    <3>1. \A n \in theirs : FALSE
      BY <1>0, <2>1 DEF KeptOK, OutputOK, GenTypesOK, Generate!NoFiles
    <3>2. ~Generate!Mine' /\ theirs' = theirs /\ job'.owned = <<>>
      BY <1>1, <1>2, <2>1 DEF Generate!Mine
    <3> QED BY <3>1, <3>2 DEF OutputOK
  <2>2. CASE ~(out # Null /\ out.files = Generate!NoFiles)
    <3>1. out' = out /\ theirs' = theirs /\ Written' = Written
      BY <1>1, <1>4, <2>2
    <3>2. Generate!Mine' = Generate!Mine
      BY <3>1 DEF Generate!Mine
    <3> QED BY <1>0, <1>2, <3>1, <3>2 DEF KeptOK, OutputOK
  <2> QED BY <2>1, <2>2
<1>6. VersionsOK' /\ ReceiptOK'
  BY <1>0, <1>1, <1>2, <1>4 DEF KeptOK, VersionsOK, ReceiptOK
<1>7. StageOK'
  BY <1>2 DEF StageOK, Fetched, Rechecks
<1> QED BY <1>2, <1>3, <1>4, <1>5, <1>6, <1>7 DEF GenerationInv

\* Pair and code change under the process: what was confirmed was so then.
LEMMA InputsAreEdited ==
  ASSUME GenerationInv, Generate!EditPair \/ Generate!EditCode
  PROVE  GenerationInv'
<1>0. /\ StageOK /\ GenTypesOK /\ KeptOK
      /\ pair \in [snapshot : Nat, manifest : Nat, synthetic : BOOLEAN] /\ code \in Nat
      /\ job.code \in Nat /\ job.read \in [snapshot : Nat, manifest : Nat]
  BY DEF GenerationInv, GenTypesOK, KeptOK
<1>1. UNCHANGED <<out, job, during, theirs>>
  BY DEF Generate!EditPair, Generate!EditCode, Generate!Edit
<1>2. /\ pair' \in [snapshot : Nat, manifest : Nat, synthetic : BOOLEAN] /\ code' \in Nat
      /\ pair'.synthetic = pair.synthetic /\ code <= code'
      /\ \A f \in {"snapshot", "manifest"} : pair[f] <= pair'[f]
  <2>1. CASE Generate!EditPair
    <3>1. PICK f \in {"snapshot", "manifest"} : pair' = [pair EXCEPT ![f] = @ + 1]
      BY <2>1 DEF Generate!EditPair
    <3>2. code' = code
      BY <2>1 DEF Generate!EditPair
    <3> QED BY <1>0, <3>1, <3>2
  <2>2. CASE Generate!EditCode
    BY <1>0, <2>2 DEF Generate!EditCode
  <2> QED BY <2>1, <2>2
<1>3. GenTypesOK'
  BY <1>0, <1>1, <1>2 DEF GenTypesOK
<1>4. Written' = Written /\ \A all : Planned(all)' <=> Planned(all)
  BY <1>1 DEF Written, Planned
<1>5. (Parsed' <=> Parsed) /\ (Confirmed' <=> Confirmed)
  BY <1>1, <1>2 DEF Parsed, Generate!Parses, Confirmed
<1>6. DuringOK => DuringOK'
  <2> SUFFICES ASSUME DuringOK PROVE DuringOK'
    OBVIOUS
  <2>1. during \in [pair : [snapshot : Nat, manifest : Nat, synthetic : BOOLEAN], code : Nat]
    BY DEF DuringOK
  <2>2. job.code <= during.code /\ during.code <= code'
    BY <1>0, <1>2, <2>1 DEF DuringOK
  <2>3. \A f \in {"snapshot", "manifest"} : during.pair[f] \in Nat /\ pair[f] \in Nat /\ pair'[f] \in Nat
    BY <1>0, <1>2, <2>1
  <2>4. \A f \in {"snapshot", "manifest"} : job.read[f] <= during.pair[f] /\ during.pair[f] <= pair'[f]
    BY <1>2, <2>3 DEF DuringOK
  <2> QED BY <1>1, <2>1, <2>2, <2>4 DEF DuringOK
<1>7. OutputOK'
  <2>1. Generate!Mine' = Generate!Mine /\ out' = out /\ theirs' = theirs /\ job' = job
    BY <1>1 DEF Generate!Mine
  <2> QED BY <1>0, <1>4, <2>1 DEF KeptOK, OutputOK
<1>8. VersionsOK'
  <2>1. job.code <= code'
    BY <1>0, <1>2 DEF KeptOK, VersionsOK
  <2>2. \A f \in {"snapshot", "manifest"} : job.read[f] \in Nat /\ pair[f] \in Nat /\ pair'[f] \in Nat
    BY <1>0, <1>2
  <2>3. \A f \in {"snapshot", "manifest"} : job.read[f] <= pair'[f]
    BY <1>0, <1>2, <2>2 DEF KeptOK, VersionsOK
  <2> QED BY <1>1, <2>1, <2>3 DEF VersionsOK
<1>9. ReceiptOK' /\ (job'.kind # "synthetic" /\ "manifest" \in Written' => DuringOK')
  BY <1>0, <1>1, <1>4, <1>5, <1>6 DEF KeptOK, ReceiptOK
<1>10. StageOK'
  BY <1>0, <1>1, <1>4, <1>5, <1>6 DEF StageOK
<1> QED BY <1>3, <1>7, <1>8, <1>9, <1>10 DEF GenerationInv

\* The output changes under the process, and nothing else.
LEMMA OnlyTheOutput ==
  ASSUME GenerationInv, UNCHANGED <<pair, code, job, during>>, OutputOK',
         out' \in {Null} \cup Directories, theirs' \subseteq Generate!Names
  PROVE  GenerationInv'
<1>1. GenTypesOK'
  BY DEF GenerationInv, GenTypesOK
<1>2. /\ Written' = Written /\ (Parsed' <=> Parsed) /\ (DuringOK' <=> DuringOK)
      /\ \A all : Planned(all)' <=> Planned(all)
  BY DEF Written, Parsed, Generate!Parses, DuringOK, Planned
<1>3. Confirmed' <=> Confirmed
  BY <1>2 DEF Confirmed
<1>4. VersionsOK' /\ ReceiptOK' /\ StageOK'
  BY <1>2, <1>3 DEF GenerationInv, VersionsOK, ReceiptOK, StageOK
<1> QED BY <1>1, <1>2, <1>4 DEF GenerationInv

LEMMA OthersMeddle ==
  ASSUME Generate!SchoolGenerationAssumption, GenerationInv,
         NEW name \in Generate!Names, Generate!Meddle(name)
  PROVE  GenerationInv'
<1>1. /\ UNCHANGED <<pair, code, job, during>> /\ out # Null /\ out \in Directories
      /\ OutputOK /\ theirs \subseteq Generate!Names
  BY DEF Generate!Meddle, Generate!Edit, GenerationInv, GenTypesOK
<1>2. \/ /\ out.files[name] = "made" /\ out' = [out EXCEPT !.files[name] = "edited"] /\ theirs' = theirs
      \/ /\ out' = [out EXCEPT !.files[name] = "other"] /\ theirs' = theirs \cup {name}
  BY DEF Generate!Meddle
<1>3. /\ out' \in Directories /\ out'.mine = out.mine
      /\ \A m \in Generate!Names \ {name} : out'.files[m] = out.files[m]
      /\ \/ out.files[name] = "made" /\ out'.files[name] = "edited" /\ theirs' = theirs
         \/ out'.files[name] = "other" /\ theirs' = theirs \cup {name}
  BY <1>1, <1>2 DEF Directories
<1>4. out' # Null
  BY <1>3 DEF Generate!SchoolGenerationAssumption, Directories
<1>5. Written' = Written
  BY <1>1 DEF Written
<1>6. Generate!Mine' => \A m \in Generate!Names :
        /\ out'.files[m] \in {"made", "edited"} => m \in Written'
        /\ m \in Written' => out'.files[m] # "absent"
  BY <1>1, <1>3, <1>5 DEF OutputOK, Generate!Mine
<1>7. \A m \in theirs' : out' # Null /\ out'.files[m] = "other"
  BY <1>1, <1>3, <1>4 DEF OutputOK
<1>8. \A i, j \in DOMAIN job'.owned : job'.owned[i] = job'.owned[j] => i = j
  BY <1>1 DEF OutputOK
<1>9. OutputOK'
  BY <1>6, <1>7, <1>8 DEF OutputOK
<1> QED BY <1>1, <1>3, <1>9, OnlyTheOutput

LEMMA OutputIsTaken ==
  ASSUME GenerationInv, Generate!TakeOutput
  PROVE  GenerationInv'
<1> DEFINE new == [mine |-> FALSE, files |-> Generate!NoFiles]
<1>1. /\ UNCHANGED <<pair, code, job, during>> /\ out' = new /\ theirs' = {} /\ OutputOK
  BY DEF Generate!TakeOutput, Generate!Edit, GenerationInv
<1>2. new \in Directories /\ ~new.mine
  BY DEF Directories, Generate!NoFiles
<1> HIDE DEF new
<1>3. ~Generate!Mine' /\ out' \in Directories
  BY <1>1, <1>2 DEF Generate!Mine
<1>4. OutputOK'
  BY <1>1, <1>3 DEF OutputOK
<1> QED BY <1>1, <1>3, <1>4, OnlyTheOutput

LEMMA DatabaseIsWritten ==
  ASSUME GenerationInv, UNCHANGED <<pair, code, out, job, during, theirs>>
  PROVE  GenerationInv'
<1>1. OutputOK /\ out \in {Null} \cup Directories /\ theirs \subseteq Generate!Names
  BY DEF GenerationInv, GenTypesOK
<1>2. Written' = Written /\ Generate!Mine' = Generate!Mine /\ out' = out /\ theirs' = theirs /\ job' = job
  BY DEF Written, Generate!Mine
<1>3. OutputOK'
  BY <1>1, <1>2 DEF OutputOK
<1> QED BY <1>1, <1>3, OnlyTheOutput

LEMMA GenerationKeeps ==
  Generate!SchoolGenerationAssumption /\ GenerationInv /\ [Generate!Next]_(Generate!vars)
    => GenerationInv'
<1> SUFFICES ASSUME Generate!SchoolGenerationAssumption, GenerationInv,
                    [Generate!Next]_(Generate!vars)
             PROVE  GenerationInv'
  OBVIOUS
<1>1. CASE \/ Generate!ParsePair \/ Generate!Start \/ Generate!RecheckCode
           \/ Generate!RecheckFiles \/ Generate!Finish \/ Generate!Verify \/ Generate!CleanUp
           \/ Generate!Fail
  BY <1>1, PassingSteps
<1>2. CASE Generate!ReadSchools \/ Generate!ReadUnits \/ Generate!RetryPage
  BY <1>2, PagesAreRead
<1>3. CASE Generate!ReadPair("snapshot") \/ Generate!ReadPair("manifest")
  <2>1. \A f \in {"snapshot", "manifest"} : Generate!ReadPair(f) => GenerationInv'
    BY PairIsRead
  <2> QED BY <1>3, <2>1
<1>4. CASE Generate!MakeOutput
  BY <1>4, OutputIsMade
<1>5. CASE Generate!CheckRows
  BY <1>5, RowsAreChecked
<1>6. CASE Generate!Write
  BY <1>6, FilesAreWritten
<1>7. CASE Generate!TakeInventory
  BY <1>7, InventoryIsTaken
<1>8. CASE Generate!RecheckPair
  BY <1>8, PairIsRechecked
<1>9. CASE Generate!Build
  BY <1>9, StageIsBuilt
<1>10. CASE Generate!RecheckInputs
  BY <1>10, InputsAreRechecked
<1>11. CASE Generate!RemoveOwn
  BY <1>11, OwnIsRemoved
<1>12. CASE Generate!RemoveOutput
  BY <1>12, OutputIsRemoved
<1>13. CASE Generate!EditPair \/ Generate!EditCode
  BY <1>13, InputsAreEdited
<1>14. CASE Generate!TakeOutput
  BY <1>14, OutputIsTaken
<1>15. CASE \E name \in Generate!Names : Generate!Meddle(name)
  BY <1>15, OthersMeddle
<1>16. CASE Generate!WriteDatabase \/ UNCHANGED Generate!vars
  BY <1>16, DatabaseIsWritten DEF Generate!WriteDatabase, Generate!vars
<1> QED BY <1>1, <1>2, <1>3, <1>4, <1>5, <1>6, <1>7, <1>8, <1>9, <1>10, <1>11, <1>12, <1>13, <1>14,
           <1>15, <1>16 DEF Generate!Next

LEMMA ReceiptsHold == GenerationInv => Generate!ReceiptIsTrue /\ Generate!OthersFilesSurvive
<1> SUFFICES ASSUME GenerationInv
             PROVE  Generate!ReceiptIsTrue /\ Generate!OthersFilesSurvive
  OBVIOUS
<1>1. Generate!OthersFilesSurvive
  BY DEF GenerationInv, OutputOK, Generate!OthersFilesSurvive
<1>2. ASSUME Generate!Receipt
      PROVE  Confirmed /\ \A n \in Generate!Public \cup (IF job.kind = "synthetic" THEN {}
                                                        ELSE {"rows", "payload"}) :
                            out.files[n] # "absent"
  <2>1. "receipt" \in Written /\ Generate!Mine
    BY <1>2 DEF Generate!Receipt, GenerationInv, OutputOK, Generate!Names
  <2>2. /\ Confirmed
        /\ (IF job.kind = "synthetic" THEN Staged ELSE Published) \subseteq Written
    BY <2>1 DEF GenerationInv, ReceiptOK
  <2>3. /\ Generate!Public \cup (IF job.kind = "synthetic" THEN {} ELSE {"rows", "payload"}) \subseteq Written
        /\ Generate!Public \cup {"rows", "payload"} \subseteq Generate!Names
    BY <2>2 DEF Staged, Published, Ground, Generate!Public, Generate!Names
  <2> QED BY <2>1, <2>2, <2>3 DEF GenerationInv, OutputOK
<1>3. Generate!ReceiptIsTrue
  BY <1>2 DEF Generate!ReceiptIsTrue, Confirmed, Parsed, Generate!Parses
<1> QED BY <1>1, <1>3

LEMMA GenerationIsTyped == GenerationInv => Generate!GenerationTypeOK
<1> SUFFICES ASSUME GenerationInv
             PROVE  Generate!GenerationTypeOK
  OBVIOUS
<1>1. GenTypesOK
  BY DEF GenerationInv
<1>2. Generate!ToSet(job.todo) \subseteq Generate!Names /\ Generate!ToSet(job.owned) \subseteq Generate!Names
  BY <1>1 DEF GenTypesOK, Generate!ToSet
<1>3. out # Null => out.mine \in BOOLEAN /\ DOMAIN out.files = Generate!Names
  BY <1>1 DEF GenTypesOK, Directories
<1> QED BY <1>1, <1>2, <1>3 DEF GenTypesOK, Generate!GenerationTypeOK

\* A receipt of the generator speaks of files that are all there, and of one
\* pair of the kind asked for, which lay on the disk with the generator it
\* names when the last file was complete; and no file of somebody else is
\* overwritten or removed: for any rows, pairs, edits, retries and failures
\* (gen-schools-json.mjs 829-838, 896-900, school-candidate.mjs 112-180).
THEOREM ReceiptsAreTrue ==
  Generate!SchoolGenerationAssumption =>
    (Generate!Spec => [](Generate!GenerationTypeOK /\ Generate!ReceiptIsTrue
                         /\ Generate!OthersFilesSurvive))
<1> SUFFICES ASSUME Generate!SchoolGenerationAssumption
             PROVE  Generate!Spec => [](Generate!GenerationTypeOK /\ Generate!ReceiptIsTrue
                                        /\ Generate!OthersFilesSurvive)
  OBVIOUS
<1>1. Generate!Init => GenerationInv
  BY GenerationInitial
<1>2. GenerationInv /\ [Generate!Next]_(Generate!vars) => GenerationInv'
  BY GenerationKeeps
<1>3. GenerationInv => Generate!GenerationTypeOK /\ Generate!ReceiptIsTrue /\ Generate!OthersFilesSurvive
  BY ReceiptsHold, GenerationIsTyped
<1> QED BY <1>1, <1>2, <1>3, PTL DEF Generate!Spec
=============================================================================
