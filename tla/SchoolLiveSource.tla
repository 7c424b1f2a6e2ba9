-------------------------- MODULE SchoolLiveSource --------------------------
(***************************************************************************)
(* The owner's SQLite source of school data and the worker that changes it: *)
(* scripts/local-data/school_live_apply.py, and verify_chain of            *)
(* school_live_controller.py.                                              *)
(*                                                                         *)
(* A content hash of the source is the set of the changes it holds.  Every *)
(* adoption stamps the source with a version named after its request       *)
(* (school_live_runner.py 280-281), so no two points of its history have   *)
(* the same content, and since content only ever accumulates the set says  *)
(* as much as the hash.  A change and its receipt are written in one       *)
(* SQLite transaction, so each worker operation is one step; an operation  *)
(* whose precondition fails rolls back and is a step that cannot be taken. *)
(* The hash that ties a receipt to its request (request, base and fixed    *)
(* mutation) is its base: the body is immutable and the mutation is saved  *)
(* with the base.                                                          *)
(***************************************************************************)
EXTENDS Naturals, Sequences

CONSTANTS
  Corrections,     \* ids of correction requests
  Edits,           \* changes made to the source by other tools
  Department,      \* the department each correction is about
  NewValue,        \* the value it gives to it, which may be the value it has
  FirstValue,      \* the value of each department before any correction
  NoReceipt        \* no row in source_apply_receipts

VARIABLES
  tip,        \* the content of the source
  receipts    \* source_apply_receipts, by request id

Contents == SUBSET (Corrections \cup Edits)

Receipt == [outcome : {"adopted", "cancelled"},
            base    : Contents,
            target  : Contents]

SourceTypeOK ==
  /\ tip \in Contents
  /\ receipts \in [Corrections -> {NoReceipt} \cup Receipt]

SourceInit ==
  /\ tip = {}
  /\ receipts = [c \in Corrections |-> NoReceipt]

HasReceipt(c, outcome) ==
  receipts[c] # NoReceipt /\ receipts[c].outcome = outcome

----------------------------------------------------------------------------
(* The worker: process_request.                                            *)

\* A receipt answers a repeated operation only for the same base, and only
\* while it describes the current source.
Answers(c, base) == receipts[c].base = base /\ receipts[c].target = tip

----------------------------------------------------------------------------
(* school_deviation_values: the active value of a department.              *)

Touching(content, dept) ==
  {c \in content \cap Corrections : Department[c] = dept}

\* The last of them to be adopted: its base held the others.
LastTouching(content, dept) ==
  {c \in Touching(content, dept) :
     Touching(content, dept) \ {c} \subseteq receipts[c].base}

\* (After an edit of another tool no adoption is let through again, so which
\* value it leaves makes no difference.)
ActiveValue(content, dept) ==
  IF LastTouching(content, dept) = {}
  THEN FirstValue[dept]
  ELSE NewValue[CHOOSE c \in LastTouching(content, dept) : TRUE]

\* Wrong on purpose: only checks that the correction is not applied yet.
NotAppliedYet(c, seen) == c \notin tip

\* The active value is the one the correction expects, which is the value that
\* its author was shown.  Values are compared, not who set them when: a
\* correction that gave the value there was before goes unnoticed.
ExpectedValueHolds(c, seen) ==
  ActiveValue(tip, Department[c]) = ActiveValue(seen, Department[c])

----------------------------------------------------------------------------
\* operation "adopt": compare-and-swap on the whole source and on the value.
WorkerAdopt(c, base, seen) ==
  \/ /\ HasReceipt(c, "adopted")
     /\ Answers(c, base)
     /\ UNCHANGED <<tip, receipts>>
  \/ /\ receipts[c] = NoReceipt
     /\ tip = base
     /\ ExpectedValueHolds(c, seen)
     /\ tip' = tip \cup {c}
     /\ receipts' = [receipts EXCEPT ![c] = [outcome |-> "adopted",
                                             base |-> tip,
                                             target |-> tip \cup {c}]]

\* operation "cancel": a tombstone at the current content, which it leaves.
WorkerCancel(c, base) ==
  \/ /\ HasReceipt(c, "cancelled")
     /\ Answers(c, base)
     /\ UNCHANGED <<tip, receipts>>
  \/ /\ receipts[c] = NoReceipt
     /\ receipts' = [receipts EXCEPT ![c] = [outcome |-> "cancelled",
                                             base |-> base,
                                             target |-> tip]]
     /\ UNCHANGED tip

\* Another tool changes the source.
OtherEdit(e) ==
  /\ e \in Edits \ tip
  /\ tip' = tip \cup {e}
  /\ UNCHANGED receipts

----------------------------------------------------------------------------
(* verify_chain: the receipts of a history lead from an anchor to the tip.  *)

\* The corrections of the first n entries that were adopted.
AppliedUpTo(history, n) ==
  {history[i] : i \in {j \in 1..n : HasReceipt(history[j], "adopted")}}

Applied(history) == AppliedUpTo(history, Len(history))

ChainHolds(anchor, history) ==
  /\ \A i \in 1..Len(history) :
       /\ receipts[history[i]] # NoReceipt
       /\ HasReceipt(history[i], "adopted") =>
            receipts[history[i]].base = anchor \cup AppliedUpTo(history, i - 1)
  /\ tip = anchor \cup Applied(history)
=============================================================================
