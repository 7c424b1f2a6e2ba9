--------------------------- MODULE WorkersPublish ---------------------------
(***************************************************************************)
(* The publication of a verified package to a Cloudflare Worker            *)
(* (web/scripts/workers-publish.mjs): bootstrap, upload, secrets and       *)
(* deploy, each a process of its own that calls Wrangler several times and *)
(* writes create-only evidence into a directory.  Several operators may    *)
(* run them, any of them may be killed at any point, somebody else may     *)
(* upload or deploy in between, and the files of a package may be edited.  *)
(*                                                                         *)
(* A version is never changed once it is there, so reading it is no step   *)
(* of its own; reading what is active or latest is.                        *)
(***************************************************************************)
EXTENDS Integers, Sequences, FiniteSets

CONSTANTS
    Packages,    \* verified packages of the target, named by the pinned receipt
    Script,      \* package |-> the compiled Worker in it
    Declared,    \* the secrets of env.json
    HasWorker,   \* FALSE: an assets-only target
    Dirs,        \* evidence directories
    Ops,         \* operators
    Placeholder, Foreign,   \* contents that are no package
    Null,
    MaxVersions, \* bound: versions of the Worker
    MaxFaults    \* bound: edits, kills and other people's changes

WorkersPublishAssumption ==
    /\ HasWorker \in BOOLEAN /\ MaxVersions \in Nat /\ MaxFaults \in Nat

VARIABLES
    versions,    \* the uploaded versions of the Worker, by number
    active,      \* the versions of the deployment, {} if there is no Worker
    disk,        \* package |-> what the files of the package are now
    dirs,        \* evidence directory |-> its files
    observed,    \* the observations that passed
    ops,         \* operator |-> the command it runs, or Null
    accepted,    \* history: <<version, package>> that deploy put live
    faults

vars == <<versions, active, disk, dirs, observed, ops, accepted, faults>>

Commands == {"bootstrap", "upload", "secrets", "deploy"}
Contents == Packages \cup {Placeholder, Foreign}
Ids == 1..MaxVersions
Version == [content: Contents, script: Contents \cup {Script[p] : p \in Packages}, bindings: SUBSET Declared]
Receipt == [pkg: Packages, ver: Ids, base: Ids \cup {Null}]
Dir == [logs: SUBSET Commands, intents: SUBSET Commands,
        upload: Receipt \cup {Null}, deploy: Receipt \cup {Null}]
Observation == [pkg: Packages, ver: Ids, url: Ids]
Command == [cmd: Commands, pkg: Packages, dir: Dirs, step: {"listing", "acting", "reading"},
            ver: Ids \cup {Null},      \* the base of the secrets, then the new version
            base: Ids \cup {Null},
            seen: SUBSET Ids]          \* what was active at the beginning

PublishTypeOK ==
    /\ versions \in Seq(Version) /\ Len(versions) <= MaxVersions /\ active \subseteq 1..Len(versions)
    /\ disk \in [Packages -> Contents] /\ dirs \in [Dirs -> Dir] /\ observed \subseteq Observation
    /\ ops \in [Ops -> Command \cup {Null}] /\ accepted \subseteq Ids \X Packages
    /\ faults \in 0..MaxFaults

EmptyDir == [logs |-> {}, intents |-> {}, upload |-> Null, deploy |-> Null]

Init ==
    /\ versions = <<>> /\ active = {} /\ disk = [p \in Packages |-> p]
    /\ dirs = [d \in Dirs |-> EmptyDir] /\ observed = {} /\ ops = [o \in Ops |-> Null]
    /\ accepted = {} /\ faults = 0

-----------------------------------------------------------------------------
(* What every command begins with.                                         *)

\* verifyWorkersPackage: every byte on disk is that of the pinned receipt.
Verified(p) == disk[p] = p

\* The first status is logged create-only, so a directory serves a command
\* once, also one that is then refused for what it read (~ok).
Begin(o, cmd, p, d, step, ver, intent, ok) ==
    /\ ops[o] = Null /\ cmd \notin dirs[d].logs
    /\ dirs' = [dirs EXCEPT ![d].logs = @ \cup {cmd}, ![d].intents = @ \cup IF ok THEN intent ELSE {}]
    /\ ops' = [ops EXCEPT ![o] = IF ok THEN [cmd |-> cmd, pkg |-> p, dir |-> d, step |-> step,
                                             ver |-> ver, base |-> ver, seen |-> active] ELSE Null]
    /\ UNCHANGED <<versions, active, disk, observed, accepted, faults>>

Doing(o, cmd, step) == ops[o] # Null /\ ops[o].cmd = cmd /\ ops[o].step = step

Uploaded(content, script, bindings) ==
    /\ Len(versions) < MaxVersions
    /\ versions' = Append(versions, [content |-> content, script |-> script, bindings |-> bindings])

\* A check after the fact fails: the command ends without a receipt.
Refused(o) == ops' = [ops EXCEPT ![o] = Null]

-----------------------------------------------------------------------------
(* bootstrap                                                               *)

Bootstrap(o, p, d) == Begin(o, "bootstrap", p, d, "acting", Null, {"bootstrap"}, active = {})

BootstrapDeploy(o) ==
    /\ Doing(o, "bootstrap", "acting") /\ Uploaded(Placeholder, Placeholder, {})
    /\ active' = {Len(versions) + 1}
    /\ ops' = [ops EXCEPT ![o] = Null]
    /\ UNCHANGED <<disk, dirs, observed, accepted, faults>>

-----------------------------------------------------------------------------
(* upload                                                                  *)

Upload(o, p, d) ==
    Verified(p) /\ Begin(o, "upload", p, d, "acting", Null, {"upload"}, active # {})

\* wrangler uploads what is on disk; a new version may lack the secrets of the
\* versions before it.
UploadVersion(o) ==
    /\ Doing(o, "upload", "acting")
    /\ LET c == disk[ops[o].pkg] IN
       \E kept \in {{}, versions[Len(versions)].bindings} :
         Uploaded(c, IF c \in Packages THEN Script[c] ELSE Foreign, kept)
    /\ ops' = [ops EXCEPT ![o].step = "reading", ![o].ver = Len(versions) + 1]
    /\ UNCHANGED <<active, disk, dirs, observed, accepted, faults>>

\* secrets left logs of these names in the directory: createOnly throws.
LogTaken(d) == "secrets" \in dirs[d].logs

UploadReceipt(o) ==
    /\ Doing(o, "upload", "reading")
    /\ LET c == ops[o] IN
       IF active = c.seen /\ ~LogTaken(c.dir)
       THEN dirs' = [dirs EXCEPT ![c.dir].upload = [pkg |-> c.pkg, ver |-> c.ver, base |-> Null]]
       ELSE UNCHANGED dirs
    /\ Refused(o)
    /\ UNCHANGED <<versions, active, disk, observed, accepted, faults>>

-----------------------------------------------------------------------------
(* secrets                                                                 *)

\* secretsBase: the deploy receipt of the base directory, else its upload receipt.
SecretsBase(b) == IF dirs[b].deploy # Null THEN dirs[b].deploy ELSE dirs[b].upload

Secrets(o, p, d, b) ==
    /\ HasWorker /\ Verified(p) /\ dirs[d] = EmptyDir
    /\ SecretsBase(b) # Null /\ SecretsBase(b).pkg = p
    /\ Begin(o, "secrets", p, d, "listing", SecretsBase(b).ver, {},
             active # {} /\ (dirs[b].deploy # Null => active = {dirs[b].deploy.ver}))

\* The base must be the latest upload, which is what wrangler will patch.
ListVersions(o) ==
    /\ Doing(o, "secrets", "listing")
    /\ IF Len(versions) = ops[o].base
       THEN /\ ops' = [ops EXCEPT ![o].step = "acting"]
            /\ dirs' = [dirs EXCEPT ![ops[o].dir].intents = @ \cup {"secrets"}]
       ELSE Refused(o) /\ UNCHANGED dirs
    /\ UNCHANGED <<versions, active, disk, observed, accepted, faults>>

\* wrangler versions secret bulk: it patches whatever is the latest by now.
SecretBulk(o) ==
    /\ Doing(o, "secrets", "acting")
    /\ LET top == versions[Len(versions)] IN Uploaded(top.content, top.script, top.bindings \cup Declared)
    /\ ops' = [ops EXCEPT ![o].step = "reading", ![o].ver = Len(versions) + 1]
    /\ UNCHANGED <<active, disk, dirs, observed, accepted, faults>>

\* The etag of the script says nothing of the assets.
SameScript(v, base) == versions[v].script = versions[base].script

BindingsFit(v) == versions[v].bindings = Declared

SecretsReceipt(o) ==
    /\ Doing(o, "secrets", "reading")
    /\ LET c == ops[o] IN
       IF BindingsFit(c.ver) /\ SameScript(c.ver, c.base) /\ active = c.seen
       THEN dirs' = [dirs EXCEPT ![c.dir].upload = [pkg |-> c.pkg, ver |-> c.ver, base |-> c.base]]
       ELSE UNCHANGED dirs
    /\ Refused(o)
    /\ UNCHANGED <<versions, active, disk, observed, accepted, faults>>

-----------------------------------------------------------------------------
(* The acceptance, and deploy.                                             *)

\* workers-observe.mjs at the Preview URL of a version; the caller names
\* the version of a receipt; what does not pass serves nobody.
Observe(p, v, url) ==
    /\ Verified(p) /\ url \in 1..Len(versions) /\ versions[url].content = p
    /\ \E d \in Dirs : dirs[d].upload # Null /\ dirs[d].upload.pkg = p /\ dirs[d].upload.ver = v
    /\ observed' = observed \cup {[pkg |-> p, ver |-> v, url |-> url]}
    /\ UNCHANGED <<versions, active, disk, dirs, ops, accepted, faults>>

\* A passed observation of the same package, the same version, at its URL.
Accepted(r) == \E x \in observed : x.pkg = r.pkg /\ x.ver = r.ver /\ x.url = r.ver

\* Wrong on purpose: the bindings are not read, as before 2026-09-29.
DeployableUnread(v) == TRUE

Deployable(v) == HasWorker => BindingsFit(v)

Deploy(o, p, d) ==
    LET r == dirs[d].upload IN
    /\ Verified(p) /\ r # Null /\ r.pkg = p /\ Accepted(r)
    /\ Begin(o, "deploy", p, d, "acting", r.ver, {"deploy"}, active # {} /\ Deployable(r.ver))

DeployVersion(o) ==
    /\ Doing(o, "deploy", "acting")
    /\ active' = {ops[o].ver} /\ accepted' = accepted \cup {<<ops[o].ver, ops[o].pkg>>}
    /\ ops' = [ops EXCEPT ![o].step = "reading"]
    /\ UNCHANGED <<versions, disk, dirs, observed, faults>>

\* The deployment that is read back: this version alone, at 100 %.
Shown(v) == active = {v}

DeployReceipt(o) ==
    /\ Doing(o, "deploy", "reading")
    /\ LET c == ops[o] IN
       IF Shown(c.ver)
       THEN dirs' = [dirs EXCEPT ![c.dir].deploy = [pkg |-> c.pkg, ver |-> c.ver, base |-> Null]]
       ELSE UNCHANGED dirs
    /\ Refused(o)
    /\ UNCHANGED <<versions, active, disk, observed, accepted, faults>>

-----------------------------------------------------------------------------
(* What else happens.                                                      *)

Fault == faults < MaxFaults /\ faults' = faults + 1

\* A command is killed, or wrangler's answer is lost.
Kill(o) ==
    /\ ops[o] # Null /\ Fault /\ ops' = [ops EXCEPT ![o] = Null]
    /\ UNCHANGED <<versions, active, disk, dirs, observed, accepted>>

\* Somebody changes a file of a package.
Edit(p) ==
    /\ disk[p] = p /\ Fault /\ disk' = [disk EXCEPT ![p] = Foreign]
    /\ UNCHANGED <<versions, active, dirs, observed, ops, accepted>>

\* Somebody uploads a version, perhaps with the script of a package.
OtherUpload ==
    /\ active # {} /\ Fault
    /\ \E s \in {Foreign} \cup {Script[p] : p \in Packages}, b \in {{}, Declared} : Uploaded(Foreign, s, b)
    /\ UNCHANGED <<active, disk, dirs, observed, ops, accepted>>

\* Somebody deploys a version, or splits the traffic.
OtherDeploy ==
    /\ active # {} /\ Fault
    /\ active' \in {{v} : v \in 1..Len(versions)} \cup {active \cup {v} : v \in 1..Len(versions)}
    /\ active' # active
    /\ UNCHANGED <<versions, disk, dirs, observed, ops, accepted>>

Next ==
    \/ \E o \in Ops, p \in Packages, d \in Dirs :
          Bootstrap(o, p, d) \/ Upload(o, p, d) \/ (\E b \in Dirs : Secrets(o, p, d, b)) \/ Deploy(o, p, d)
    \/ \E o \in Ops : \/ BootstrapDeploy(o) \/ UploadVersion(o) \/ UploadReceipt(o) \/ ListVersions(o)
                      \/ SecretBulk(o) \/ SecretsReceipt(o) \/ DeployVersion(o) \/ DeployReceipt(o) \/ Kill(o)
    \/ \E p \in Packages, v \in Ids, url \in Ids : Observe(p, v, url)
    \/ (\E p \in Packages : Edit(p)) \/ OtherUpload \/ OtherDeploy

Spec == Init /\ [][Next]_vars

-----------------------------------------------------------------------------
(* Properties.                                                             *)

\* What deploy puts live is the package it was asked to deploy, byte for
\* byte, though files may be edited between the verification and the upload,
\* secrets may patch another upload, and observations carry the name the
\* caller gave (workers-publish.mjs 2-8, 262-297).
LiveIsItsPackage == \A a \in accepted : versions[a[1]].content = a[2]

\* It has exactly the secrets of env.json: a version without them passed the
\* observation once and answered 404 (272-282).
LiveHasItsSecrets == HasWorker => \A a \in accepted : BindingsFit(a[1])

\* A version recorded as the secrets version of a base has the script of that
\* base, whoever uploaded between the list and the patch (222-257).
SecretsKeepTheScript ==
    \A d \in Dirs : LET r == dirs[d].upload IN
        r # Null /\ r.base # Null => versions[r.ver].script = versions[r.base].script

\* All three together: what is live, what it may read, what is recorded of it.
LiveIsAsPackaged == LiveIsItsPackage /\ LiveHasItsSecrets /\ SecretsKeepTheScript
=============================================================================
