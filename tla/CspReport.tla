----------------------------- MODULE CspReport -----------------------------
(***************************************************************************)
(* The endpoint that receives reports of the content security policy       *)
(* (functions/api/csp-report.ts): a body of a limited size is read from a  *)
(* stream, and of the report in it only what is safe to log is logged.     *)
(***************************************************************************)
EXTENDS Integers, FiniteSets

CONSTANTS
    None,
    Limit,       \* MAX_BODY_BYTES, scaled down
    Lengths,     \* the lengths of bodies that are sent
    Documents    \* what the bodies hold, of Document

CspReportAssumption == Limit \in Nat /\ Lengths \subseteq Nat /\ None \notin Nat

VARIABLES
    phase,       \* "waiting", "reading", "parsing" or "answered"
    request,     \* the request under way
    rest,        \* bytes of its stream that were not read
    total,       \* bytes counted by readBodyWithinLimit
    held,        \* bytes held in memory
    answer,      \* status of the answer, or None
    logged       \* what was logged as a report, or None

vars == <<phase, request, rest, total, held, answer, logged>>

-----------------------------------------------------------------------------
(* A report: the values under the first and the second spelling of a name. *)
(* One name stands for each sanitizer of the code; "policy" is a directive, *)
(* "keyword" a word such as inline, "long" a text over the limit, "null"    *)
(* the value null, and "200" and "1000" are numbers.                       *)

Names == {"documentUri", "blockedUri", "violatedDirective", "disposition", "statusCode"}
Values == {"blank", "url", "urlWithQuery", "data", "script", "keyword", "policy", "long",
           "enforce", "200", "1000", "null"}
Report == [Names \X {1, 2} -> Values \cup {None}]

\* How a document holds its report.
Document == [shape: {"noJson", "list", "wrapped", "wrappedText", "body", "bare"}, report: Report]

\* What is left of a value by the sanitizer of its name; None is null.
SanitizeUrl(v) ==
    CASE v = "blank" -> "blank" [] v = "url" -> "url" [] v = "urlWithQuery" -> "url"
      [] v = "data" -> "data" [] OTHER -> None

SanitizeBlockedUri(v) == IF v = "keyword" THEN v ELSE SanitizeUrl(v)

SanitizeDirective(v) ==
    IF v \in {"keyword", "policy", "enforce", "url"} THEN v ELSE None

SanitizeDisposition(v) == IF v = "enforce" THEN v ELSE None
SanitizeNumber(v) == IF v = "200" THEN v ELSE None

Sanitize(name, v) ==
    CASE name = "documentUri" -> SanitizeUrl(v)
      [] name = "blockedUri" -> SanitizeBlockedUri(v)
      [] name = "violatedDirective" -> SanitizeDirective(v)
      [] name = "disposition" -> SanitizeDisposition(v)
      [] name = "statusCode" -> SanitizeNumber(v)

\* reportPayload
Payload(doc) ==
    IF doc.shape \in {"list", "wrappedText"} THEN None ELSE doc.report

\* firstPresent: a spelling that is present counts, whatever its value.
FirstPresent(report, name) == IF report[name, 1] # None THEN report[name, 1] ELSE report[name, 2]

Recognized(report) == {n \in Names : FirstPresent(report, n) # None}

Invalid(report) == \E n \in Recognized(report) : Sanitize(n, FirstPresent(report, n)) = None

\* extractSafeCspReport
SafeReport(report) ==
    IF report = None THEN None
    ELSE IF Recognized(report) = {} \/ Invalid(report) THEN None
    ELSE [n \in Recognized(report) |-> Sanitize(n, FirstPresent(report, n))]

-----------------------------------------------------------------------------
CspTypeOK ==
    /\ phase \in {"waiting", "reading", "parsing", "answered"}
    /\ rest \in Nat /\ total \in Nat /\ held \in Nat
    /\ answer \in {None, 204, 405, 413, 500}
    /\ phase = "answered" <=> answer # None

Init ==
    /\ phase = "waiting" /\ request = None /\ rest = 0 /\ total = 0 /\ held = 0
    /\ answer = None /\ logged = None

Answered(status) == phase' = "answered" /\ answer' = status

\* isDeclaredTooLarge: declared is None when the header is missing or no number.
TooLarge(declared) == declared # None /\ declared > Limit

\* A request whose declared length may be missing or wrong.
Receive ==
    /\ phase = "waiting"
    /\ \E n \in Lengths, d \in Lengths \cup {None}, method \in {"POST", "GET"}, doc \in Documents :
        /\ request' = [method |-> method, length |-> n, declared |-> d, document |-> doc]
        /\ rest' = n
        /\ IF method # "POST" THEN Answered(405)
           ELSE IF TooLarge(d) THEN Answered(413)
           ELSE phase' = "reading" /\ UNCHANGED answer
    /\ UNCHANGED <<total, held, logged>>

Over(t) == t > Limit

\* readBodyWithinLimit: what is over the limit is not kept.
Held(kept, chunk, over) == IF over THEN kept ELSE kept + chunk

\* One chunk of any size arrives.
ReadChunk ==
    /\ phase = "reading" /\ rest > 0
    /\ \E chunk \in 1..rest :
        /\ rest' = rest - chunk /\ total' = total + chunk
        /\ held' = Held(held, chunk, Over(total + chunk))
        /\ IF Over(total + chunk) THEN Answered(413) ELSE UNCHANGED <<phase, answer>>
    /\ UNCHANGED <<request, logged>>

\* The stream ends, or fails: the exception is not caught.
EndOfStream ==
    /\ phase = "reading" /\ rest = 0 /\ phase' = "parsing"
    /\ UNCHANGED <<request, rest, total, held, answer, logged>>

StreamFails ==
    /\ phase = "reading" /\ Answered(500)
    /\ UNCHANGED <<request, rest, total, held, logged>>

\* onRequestPost after the body was read.
Parse ==
    /\ phase = "parsing" /\ Answered(204)
    /\ logged' = IF request.document.shape = "noJson" THEN None
                 ELSE SafeReport(Payload(request.document))
    /\ UNCHANGED <<request, rest, total, held>>

NextRequest ==
    /\ phase = "answered" /\ phase' = "waiting" /\ request' = None /\ rest' = 0 /\ total' = 0
    /\ held' = 0 /\ answer' = None /\ logged' = None

Next == Receive \/ ReadChunk \/ EndOfStream \/ StreamFails \/ Parse \/ NextRequest

Spec == Init /\ [][Next]_vars

-----------------------------------------------------------------------------
(* Properties.                                                             *)

\* Whether a body is too large depends on its length and on the declared
\* length, not on how it was cut into chunks, and a body of exactly the limit
\* is accepted (csp-report.ts 184-226).
SizeDecides ==
    phase = "answered" /\ answer \notin {405, 500} =>
        (answer = 413 <=> TooLarge(request.declared) \/ request.length > Limit)

\* However the body is cut, no more than the limit is held (191).
HeldWithinLimit == held <= Limit /\ (phase = "parsing" => held = request.length)

\* A logged report is clean, in every field that a value came for, and one
\* field that is not makes the whole report unlogged (89-179).
LoggedIsClean ==
    logged # None =>
        /\ \A n \in DOMAIN logged : logged[n] \in {"blank", "url", "data", "keyword", "policy", "enforce", "200"}
        /\ LET report == request.document.report IN
           \A n \in Names : report[n, 1] # None =>
               n \in DOMAIN logged /\ report[n, 1] \notin {"script", "long", "1000", "null"}
=============================================================================
