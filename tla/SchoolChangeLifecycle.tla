----------------------- MODULE SchoolChangeLifecycle -----------------------
(***************************************************************************)
(* What the school change queue promises about a correction, without rows, *)
(* leases, revisions or pins.  A correction is submitted, then either      *)
(* cancelled or adopted, and an adopted one is eventually made public       *)
(* together with the whole cohort that was frozen for a publication.       *)
(* Nothing adopted is ever cancelled, nothing public or cancelled changes  *)
(* again, and while a cohort is frozen only its members may be adopted:     *)
(* the promise in the header of 202609280102_school_change_queue.sql.      *)
(***************************************************************************)
EXTENDS FiniteSets

CONSTANTS Corrections, NoCohort

VARIABLES
  phase,     \* what has become of each correction
  frozen     \* the cohort of the pending publication, or NoCohort

vars == <<phase, frozen>>

Phases == {"none", "pending", "adopted", "public", "cancelled"}

Init ==
  /\ phase = [c \in Corrections |-> "none"]
  /\ frozen = NoCohort

Move(c, from, to) ==
  /\ phase[c] = from
  /\ phase' = [phase EXCEPT ![c] = to]
  /\ UNCHANGED frozen

Submit(c) == Move(c, "none", "pending")

Adopt(c) ==
  /\ frozen # NoCohort => c \in frozen
  /\ Move(c, "pending", "adopted")

Cancel(c) == Move(c, "pending", "cancelled")

\* A publication is requested: its cohort is fixed.  It may hold a correction
\* that is being cancelled; such a publication can only be released.
Freeze(S) ==
  /\ frozen = NoCohort
  /\ \A c \in S : phase[c] \notin {"none", "public"}
  /\ frozen' = S
  /\ UNCHANGED phase

\* The publication is given up: its cohort waits for another one.
Release ==
  /\ frozen # NoCohort
  /\ frozen' = NoCohort
  /\ UNCHANGED phase

\* The publication is confirmed: its members become public at once.
Publish ==
  /\ frozen # NoCohort
  /\ \A c \in frozen : phase[c] = "adopted"
  /\ phase' = [c \in Corrections |->
                 IF c \in frozen THEN "public" ELSE phase[c]]
  /\ frozen' = NoCohort

Next ==
  \/ \E c \in Corrections : Submit(c) \/ Adopt(c) \/ Cancel(c)
  \/ \E S \in SUBSET Corrections : Freeze(S)
  \/ Release
  \/ Publish

Spec == Init /\ [][Next]_vars
=============================================================================
