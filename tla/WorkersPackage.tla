--------------------------- MODULE WorkersPackage ---------------------------
(***************************************************************************)
(* The package of a verified school candidate for Workers static assets    *)
(* (web/scripts/workers-package.mjs): builds copy the files of a candidate *)
(* into a new directory and write a receipt at last, while the candidate   *)
(* is built again, the repository is edited and another build may have the *)
(* same output; a build may be killed between any two files.               *)
(*                                                                         *)
(* The bytes of a file are those of a generation of the candidate; every   *)
(* generation has other bytes.                                             *)
(***************************************************************************)
EXTENDS Integers, FiniteSets

CONSTANTS
    Assets,      \* the paths of public files
    Generations, \* candidates, of which the directory holds one after another
    Envs,        \* contents env.json may have
    ValidEnvs,   \* those validateEnvContract accepts
    Builders,    \* processes that build into one output directory
    HasWorker,   \* TRUE for high-school, FALSE for school
    Absent, None,
    MaxTouches   \* bound: changes on the disk

WorkerJs == "_worker.js"      \* in dist, a copy of the compiled Worker
Compiled == "index.js"        \* functions-candidate/compiled/index.js
Worker == "worker/index.js"   \* in the output
EnvFile == "env.json"
ReceiptFile == "workers-package.json"

\* Public files lie in a directory of their own.
WorkersPackageAssumption ==
    /\ ValidEnvs \subseteq Envs /\ HasWorker \in BOOLEAN /\ MaxTouches \in Nat
    /\ Assets \cap {WorkerJs, Compiled, Worker, EnvFile, ReceiptFile} = {}
    /\ Absent \notin Generations \cup Envs \cup (Generations \X (Envs \cup {None}))

VARIABLES
    receipt,     \* the generation candidate.json pins
    dist,        \* file of the candidate |-> its bytes now
    env,         \* workers/<target>/env.json now
    builds,      \* builder |-> its state
    out,         \* file of the output |-> bytes, Absent while it is not there
    exists,      \* the output directory is there
    touches

vars == <<receipt, dist, env, builds, out, exists, touches>>

Sources == Assets \cup (IF HasWorker THEN {WorkerJs, Compiled} ELSE {})
Outputs == Assets \cup {ReceiptFile} \cup (IF HasWorker THEN {Worker, EnvFile} ELSE {})
Bytes == Generations \cup {Absent}

Idle == [pc |-> "idle", gen |-> None, worker |-> None, env |-> None, todo |-> {}]

PackageTypeOK ==
    /\ receipt \in Generations /\ dist \in [Sources -> Bytes] /\ env \in Envs
    /\ builds \in [Builders -> [pc: {"idle", "listing", "copying", "writing", "verifying", "done", "failed"},
                               gen: Generations \cup {None}, worker: Generations \cup {None},
                               env: Envs \cup {None}, todo: SUBSET Assets]]
    /\ out \in [Outputs -> Bytes \cup Envs \cup (Generations \X (Envs \cup {None}))]
    /\ exists \in BOOLEAN /\ touches \in 0..MaxTouches

Init ==
    /\ receipt \in Generations /\ dist = [f \in Sources |-> receipt] /\ env \in Envs
    /\ builds = [b \in Builders |-> Idle] /\ out = [f \in Outputs |-> Absent] /\ exists = FALSE
    /\ touches = 0

-----------------------------------------------------------------------------
(* A build.                                                                *)

At(b, pc) == builds[b].pc = pc
Failed(b) == builds' = [builds EXCEPT ![b].pc = "failed"]

\* readTarget and readCandidate: env.json is validated, the Worker compared
\* with its pin; both are kept.
Read(b) ==
    /\ At(b, "idle")
    /\ IF ~exists /\ (HasWorker => env \in ValidEnvs /\ dist[Compiled] = receipt)
       THEN builds' = [builds EXCEPT ![b] = [pc |-> "listing", gen |-> receipt,
                           worker |-> IF HasWorker THEN dist[Compiled] ELSE None,
                           env |-> IF HasWorker THEN env ELSE None, todo |-> Assets]]
       ELSE Failed(b)
    /\ UNCHANGED <<receipt, dist, env, out, exists, touches>>

\* The files of dist are those of the receipt, _worker.js is the Worker; then
\* the output directory is made, which throws if it is there by now.
List(b) ==
    /\ At(b, "listing")
    /\ IF /\ \A f \in Assets : dist[f] # Absent
          /\ HasWorker => dist[WorkerJs] = builds[b].worker
          /\ ~exists
       THEN builds' = [builds EXCEPT ![b].pc = "copying"] /\ exists' = TRUE
       ELSE Failed(b) /\ UNCHANGED exists
    /\ UNCHANGED <<receipt, dist, env, out, touches>>

\* Wrong on purpose: the copy relies on the verification of the candidate.
AsListed(b, f) == dist[f] # Absent

\* The bytes that were read once are compared with the pin and then written.
AsPinned(b, f) == dist[f] = builds[b].gen

Copy(b, f) ==
    /\ At(b, "copying") /\ f \in builds[b].todo
    /\ IF AsPinned(b, f) /\ out[f] = Absent
       THEN /\ builds' = [builds EXCEPT ![b].todo = @ \ {f},
                                        ![b].pc = IF @ # "failed" /\ builds[b].todo = {f} THEN "writing" ELSE @]
            /\ out' = [out EXCEPT ![f] = dist[f]]
       ELSE Failed(b) /\ UNCHANGED out
    /\ UNCHANGED <<receipt, dist, env, exists, touches>>

EnvOf(b) == builds[b].env

\* The Worker, the configuration, the contract and env.json, from memory.
Write(b) ==
    /\ At(b, "writing")
    /\ IF HasWorker /\ out[Worker] # Absent THEN Failed(b) /\ UNCHANGED out
       ELSE /\ builds' = [builds EXCEPT ![b].pc = "verifying"]
            /\ out' = IF HasWorker THEN [out EXCEPT ![Worker] = builds[b].worker, ![EnvFile] = EnvOf(b)] ELSE out
    /\ UNCHANGED <<receipt, dist, env, exists, touches>>

\* verifyWorkersPackage: every byte of the output is that of its receipt.
Verifies(o) ==
    /\ o[ReceiptFile] # Absent
    /\ \A f \in Assets : o[f] = o[ReceiptFile][1]
    /\ HasWorker => o[Worker] = o[ReceiptFile][1] /\ o[EnvFile] = o[ReceiptFile][2]

ReceiptStep == "verifying"

\* The receipt is written last; what verifies has its pin returned.
Receipt(b) ==
    /\ At(b, ReceiptStep)
    /\ LET now == [out EXCEPT ![ReceiptFile] = <<builds[b].gen, builds[b].env>>] IN
       IF out[ReceiptFile] # Absent THEN Failed(b) /\ UNCHANGED out
       ELSE /\ out' = now
            /\ IF Verifies(now) THEN builds' = [builds EXCEPT ![b].pc = "done"] ELSE Failed(b)
    /\ UNCHANGED <<receipt, dist, env, exists, touches>>

-----------------------------------------------------------------------------
(* What else happens.                                                      *)

Touch == touches < MaxTouches /\ touches' = touches + 1

\* A build of the candidate writes one file after another.
Rebuild ==
    /\ Touch /\ UNCHANGED <<env, builds, out, exists>>
    /\ \/ receipt' \in Generations \ {receipt} /\ UNCHANGED dist
       \/ \E f \in Sources, g \in Bytes : dist[f] # g /\ dist' = [dist EXCEPT ![f] = g] /\ UNCHANGED receipt

EditEnv ==
    /\ Touch /\ env' \in Envs \ {env} /\ UNCHANGED <<receipt, dist, builds, out, exists>>

Kill(b) ==
    /\ builds[b].pc \notin {"idle", "done", "failed"} /\ Touch /\ Failed(b)
    /\ UNCHANGED <<receipt, dist, env, out, exists>>

Next ==
    \/ \E b \in Builders : Read(b) \/ List(b) \/ (\E f \in Assets : Copy(b, f)) \/ Write(b) \/ Receipt(b) \/ Kill(b)
    \/ Rebuild \/ EditEnv

Spec == Init /\ [][Next]_vars

-----------------------------------------------------------------------------
(* Properties.                                                             *)

\* A package with a receipt holds the generation of the candidate it names,
\* assets and Worker, though the candidate is built again meanwhile and two
\* builds have one output (workers-package.mjs 241-285).
PackageIsOneCandidate ==
    out[ReceiptFile] # Absent =>
        /\ \A f \in Assets : out[f] = out[ReceiptFile][1]
        /\ HasWorker /\ out[Worker] # Absent => out[Worker] = out[ReceiptFile][1]

\* Its env.json is one that was validated: deploy compares the bindings of
\* the version with it (130-157, 265-266).
EnvWasValidated == HasWorker /\ out[EnvFile] # Absent => out[EnvFile] \in ValidEnvs

\* A directory a killed or failed build left is not a package: its receipt,
\* if there is one, was written after all the rest (241-284).
NoHalfPackage == out[ReceiptFile] # Absent => \A f \in Outputs : out[f] # Absent
=============================================================================
