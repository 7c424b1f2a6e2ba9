------------------------ MODULE MCSchoolLivePipeline ------------------------
(***************************************************************************)
(* Small instances of the pipeline.                                        *)
(***************************************************************************)
EXTENDS SchoolLivePipeline, TLC

\* Every correction is about a department of its own.
OwnDepartments == [d \in Deviations |-> d]

\* All corrections are about the same department.
OneDepartment == [d \in Deviations |-> "department"]

\* The value of every department at first, and what the corrections give it: one
\* of them gives the value there was, any other a new one.
FirstValues == [x \in {Department[d] : d \in Deviations} |-> "old"]
NewValues == [d \in Deviations |-> "new"]
OneKeepsTheValue ==
  [NewValues EXCEPT ![CHOOSE d \in Deviations : TRUE] = "old"]

\* A row is made with revision 1 and every claim adds 1, so up to n it can be
\* claimed n - 1 times (renewals, and failures by hand, take from the same).
UpTo(n, m) == [r \in Requests |-> IF r \in Deviations THEN n ELSE m]
FewClaims == UpTo(2, 3)

Symmetry == Permutations(Deviations) \cup Permutations(Publications)
              \cup Permutations(Builds)
=============================================================================
