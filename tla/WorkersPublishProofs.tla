------------------------ MODULE WorkersPublishProofs ------------------------
(***************************************************************************)
(* What WorkersPublish keeps for any number of packages, operators,        *)
(* evidence directories and versions, and however often commands are       *)
(* killed, files edited, versions uploaded and deployed by others.         *)
(*                                                                         *)
(* The service never changes a version, so whatever was true of one when a *)
(* command read it is true when the command deploys it: the invariant says *)
(* what receipts, observations and running commands know of the versions   *)
(* they name.  It says nothing of active, of disk, or of the newest        *)
(* version: those are what others change.                                  *)
(*                                                                         *)
(* Then the two parts beside it: a build that is published carries the legal*)
(* values its check passed (PublicationGate), and an observation reports the*)
(* deployment there was at one moment (WorkersObserve).                    *)
(***************************************************************************)
EXTENDS WorkersPublish, SequenceTheorems, FiniteSetTheorems, FunctionTheorems, TLAPS

Known(v) == v \in 1..Len(versions)

\* What may be deployed as the package p: its content, and its secrets if the
\* target has a Worker.
Right(v, p) == Known(v) /\ versions[v].content = p /\ (HasWorker => BindingsFit(v))

CommandOK(c) ==
    /\ c.cmd # "bootstrap" => versions # <<>>
    /\ c.cmd = "upload" /\ c.step = "reading" => Known(c.ver)
    /\ c.cmd = "secrets" => Known(c.ver) /\ Known(c.base)
    /\ c.cmd = "deploy" => Right(c.ver, c.pkg)

UploadReceiptOK(r) ==
    Known(r.ver) /\ (r.base # Null => Known(r.base) /\ SameScript(r.ver, r.base))

DirOK(e) ==
    /\ e.upload # Null => UploadReceiptOK(e.upload)
    /\ e.deploy # Null => Right(e.deploy.ver, e.deploy.pkg)

ObservationOK(x) == Known(x.url) /\ versions[x.url].content = x.pkg

\* The inductive invariant.
PublishInv ==
    /\ PublishTypeOK
    /\ \A o \in Ops : ops[o] # Null => CommandOK(ops[o])
    /\ \A d \in Dirs : DirOK(dirs[d])
    /\ \A x \in observed : ObservationOK(x)
    /\ \A a \in accepted : Right(a[1], a[2])

-----------------------------------------------------------------------------
(* Versions are only added.                                                *)

VersionsStay ==
    /\ Len(versions) \in Nat /\ Len(versions') \in Nat /\ Len(versions) <= Len(versions')
    /\ \A v \in 1..Len(versions) : versions'[v] = versions[v]

\* An upload adds one version and changes no other (wrangler versions upload,
\* deploy and versions secret bulk).
LEMMA UploadAdds ==
    ASSUME WorkersPublishAssumption, PublishTypeOK, NEW content \in Contents,
           NEW script \in Contents \cup {Script[p] : p \in Packages},
           NEW bindings \in SUBSET Declared, Uploaded(content, script, bindings)
    PROVE  /\ VersionsStay /\ Len(versions') = Len(versions) + 1 /\ Len(versions') <= MaxVersions
           /\ versions' \in Seq(Version)
<1> DEFINE v == [content |-> content, script |-> script, bindings |-> bindings]
<1>1. v \in Version
  BY DEF Version
<1>2. /\ versions \in Seq(Version) /\ versions' = Append(versions, v) /\ Len(versions) < MaxVersions
      /\ MaxVersions \in Nat
  BY DEF Uploaded, PublishTypeOK, WorkersPublishAssumption
<1> HIDE DEF v
<1>3. Len(versions) \in Nat
  BY <1>2, LenProperties
<1>4. /\ versions' \in Seq(Version) /\ Len(versions') = Len(versions) + 1
      /\ \A i \in 1..Len(versions) : versions'[i] = versions[i]
  BY <1>1, <1>2, AppendProperties
<1> QED BY <1>2, <1>3, <1>4 DEF VersionsStay

LEMMA NothingUploaded ==
    ASSUME PublishTypeOK, UNCHANGED versions
    PROVE  VersionsStay
<1>1. Len(versions) \in Nat
  BY LenProperties DEF PublishTypeOK
<1> QED BY <1>1 DEF VersionsStay

\* What is known of a version stays known.
LEMMA KnowledgeStays ==
    ASSUME VersionsStay
    PROVE  /\ \A v : Known(v) => Known(v)'
           /\ \A v, p : Right(v, p) => Right(v, p)'
           /\ \A r : UploadReceiptOK(r) => UploadReceiptOK(r)'
           /\ \A x : ObservationOK(x) => ObservationOK(x)'
           /\ \A e : DirOK(e) => DirOK(e)'
<1>1. \A v : Known(v) => Known(v)' /\ versions'[v] = versions[v]
  BY DEF VersionsStay, Known
<1>2. \A v, p : Right(v, p) => Right(v, p)'
  BY <1>1 DEF Right, BindingsFit
<1>3. \A r : UploadReceiptOK(r) => UploadReceiptOK(r)'
  BY <1>1 DEF UploadReceiptOK, SameScript
<1>4. \A x : ObservationOK(x) => ObservationOK(x)'
  BY <1>1 DEF ObservationOK
<1>5. \A e : DirOK(e) => DirOK(e)'
  BY <1>2, <1>3 DEF DirOK
<1> QED BY <1>1, <1>2, <1>3, <1>4, <1>5

\* A step keeps the invariant if what it writes is true of the versions there
\* are after it.
LEMMA StepKeeps ==
    ASSUME PublishInv, VersionsStay, PublishTypeOK',
           \A o \in Ops : ops'[o] \in {ops[o], Null} \/ CommandOK(ops[o])',
           \A d \in Dirs : (dirs'[d].upload = dirs[d].upload /\ dirs'[d].deploy = dirs[d].deploy) \/ DirOK(dirs[d])',
           \A x \in observed' : x \in observed \/ ObservationOK(x)',
           \A a \in accepted' : a \in accepted \/ Right(a[1], a[2])'
    PROVE  PublishInv'
<1>1. \A o \in Ops : ops'[o] # Null => CommandOK(ops[o])'
  <2> SUFFICES ASSUME NEW o \in Ops, ops'[o] # Null
               PROVE  CommandOK(ops[o])'
    OBVIOUS
  <2>1. CASE ops'[o] = ops[o]
    <3>1. CommandOK(ops[o])
      BY <2>1 DEF PublishInv
    <3> DEFINE c == ops[o]
    <3>2. versions # <<>> => versions' # <<>>
      BY DEF VersionsStay
    <3> QED BY <2>1, <3>1, <3>2, KnowledgeStays DEF CommandOK
  <2> QED BY <2>1
<1>2. \A d \in Dirs : DirOK(dirs[d])'
  <2> SUFFICES ASSUME NEW d \in Dirs
               PROVE  DirOK(dirs[d])'
    OBVIOUS
  <2>1. CASE dirs'[d].upload = dirs[d].upload /\ dirs'[d].deploy = dirs[d].deploy
    <3>1. DirOK(dirs[d])
      BY DEF PublishInv
    <3> QED BY <2>1, <3>1, KnowledgeStays DEF DirOK
  <2> QED BY <2>1
<1>3. \A x \in observed' : ObservationOK(x)'
  BY KnowledgeStays DEF PublishInv
<1>4. \A a \in accepted' : Right(a[1], a[2])'
  BY KnowledgeStays DEF PublishInv
<1> QED BY <1>1, <1>2, <1>3, <1>4 DEF PublishInv

\* The parts of the type invariant, by name.
LEMMA Types ==
    ASSUME PublishTypeOK
    PROVE  /\ versions \in Seq(Version) /\ Len(versions) \in Nat /\ Len(versions) <= MaxVersions
           /\ active \subseteq 1..Len(versions)
           /\ dirs \in [Dirs -> Dir] /\ ops \in [Ops -> Command \cup {Null}]
           /\ \A o \in Ops : ops[o] # Null => ops[o] \in Command
           /\ \A o \in Ops : \A cmd, step :
                Doing(o, cmd, step) => ops[o] \in Command /\ ops[o].cmd = cmd /\ ops[o].step = step
<1>1. versions \in Seq(Version) /\ Len(versions) <= MaxVersions /\ active \subseteq 1..Len(versions)
  BY DEF PublishTypeOK
<1>2. Len(versions) \in Nat
  BY <1>1, LenProperties
<1>3. dirs \in [Dirs -> Dir] /\ ops \in [Ops -> Command \cup {Null}]
  BY DEF PublishTypeOK
<1>4. \A o \in Ops : ops[o] # Null => ops[o] \in Command
  BY <1>3
<1> QED BY <1>1, <1>2, <1>3, <1>4 DEF Doing

-----------------------------------------------------------------------------
(* The first status of a command, and the ends.                            *)

\* What Begin writes: a log, an intent, and a command that has seen what is
\* active (every command logs the status it begins with).
LEMMA BeginKeeps ==
    ASSUME WorkersPublishAssumption, PublishInv,
           NEW o \in Ops, NEW cmd \in Commands, NEW p \in Packages, NEW d \in Dirs,
           NEW step \in {"listing", "acting", "reading"}, NEW ver \in Ids \cup {Null},
           NEW intent \in SUBSET Commands, NEW ok,
           Begin(o, cmd, p, d, step, ver, intent, ok),
           ok => CommandOK([cmd |-> cmd, pkg |-> p, dir |-> d, step |-> step, ver |-> ver, base |-> ver,
                            seen |-> active])
    PROVE  PublishInv'
<1> DEFINE c == [cmd |-> cmd, pkg |-> p, dir |-> d, step |-> step, ver |-> ver, base |-> ver, seen |-> active]
           e == [dirs[d] EXCEPT !.logs = @ \cup {cmd}, !.intents = @ \cup IF ok THEN intent ELSE {}]
<1>0. PublishTypeOK
  BY DEF PublishInv
<1>1. Len(versions) \in Nat /\ Len(versions) <= MaxVersions /\ MaxVersions \in Nat
  BY <1>0, Types DEF WorkersPublishAssumption
<1>2. active \subseteq Ids
  BY <1>0, <1>1, Types DEF Ids
<1>3. c \in Command
  BY <1>2 DEF Command
<1>4. ops' = [ops EXCEPT ![o] = IF ok THEN c ELSE Null]
  BY DEF Begin
<1>5. dirs[d] \in Dir
  BY <1>0, Types
<1>6. dirs' = [dirs EXCEPT ![d] = e]
  BY <1>0, <1>5, Types, Zenon DEF Begin
<1>7. e \in Dir /\ e.upload = dirs[d].upload /\ e.deploy = dirs[d].deploy
  <2>1. (IF ok THEN intent ELSE {}) \in SUBSET Commands
    OBVIOUS
  <2> QED BY <1>5, <2>1 DEF Dir
<1>8. UNCHANGED <<versions, active, disk, observed, accepted, faults>>
  BY DEF Begin
<1> HIDE DEF c, e
<1>9. PublishTypeOK'
  BY <1>0, <1>3, <1>4, <1>6, <1>7, <1>8 DEF PublishTypeOK
<1>10. VersionsStay
  BY <1>0, <1>8, NothingUploaded
<1>11. ok => /\ c.cmd # "bootstrap" => versions' # <<>>
             /\ c.cmd = "upload" /\ c.step = "reading" => Known(c.ver)'
             /\ c.cmd = "secrets" => Known(c.ver)' /\ Known(c.base)'
             /\ c.cmd = "deploy" => Right(c.ver, c.pkg)'
  <2>1. ok => CommandOK(c)
    BY DEF c
  <2>2. c' = c
    BY <1>8 DEF c
  <2> QED BY <1>8, <2>1, <2>2 DEF CommandOK, Known, Right, BindingsFit
<1>12. \A q \in Ops : ops'[q] \in {ops[q], Null} \/ CommandOK(ops[q])'
  <2> SUFFICES ASSUME NEW q \in Ops
               PROVE  ops'[q] \in {ops[q], Null} \/ CommandOK(ops[q])'
    OBVIOUS
  <2>1. CASE q = o /\ ok
    <3>1. ops'[q] = c
      BY <2>1, <1>0, <1>4, Types
    <3>2. c' = c
      BY <1>8 DEF c
    <3> QED BY <2>1, <3>1, <3>2, <1>11 DEF CommandOK
  <2>2. CASE q # o \/ ~ok
    BY <2>2, <1>0, <1>4, Types
  <2> QED BY <2>1, <2>2
<1>13. \A q \in Dirs : dirs'[q].upload = dirs[q].upload /\ dirs'[q].deploy = dirs[q].deploy
  BY <1>0, <1>6, <1>7, Types
<1> QED BY <1>8, <1>9, <1>10, <1>12, <1>13, StepKeeps

\* A command that ends without a receipt.
LEMMA RefusedKeeps ==
    ASSUME PublishInv, NEW o \in Ops, Refused(o), UNCHANGED <<versions, active, disk, dirs, observed, accepted>>,
           faults' \in 0..MaxFaults
    PROVE  PublishInv'
<1>0. PublishTypeOK
  BY DEF PublishInv
<1>1. PublishTypeOK'
  BY <1>0 DEF PublishTypeOK, Refused
<1>2. VersionsStay
  BY <1>0, NothingUploaded
<1>3. \A q \in Ops : ops'[q] \in {ops[q], Null}
  BY <1>0, Types DEF Refused
<1> QED BY <1>1, <1>2, <1>3, StepKeeps

\* A receipt is written: the command ends.
LEMMA ReceiptKeeps ==
    ASSUME PublishInv, NEW o \in Ops, Refused(o), UNCHANGED <<versions, active, disk, observed, accepted, faults>>,
           NEW d \in Dirs, NEW e \in Dir, DirOK(e), dirs' = [dirs EXCEPT ![d] = e]
    PROVE  PublishInv'
<1>0. PublishTypeOK
  BY DEF PublishInv
<1>1. PublishTypeOK'
  BY <1>0 DEF PublishTypeOK, Refused
<1>2. VersionsStay
  BY <1>0, NothingUploaded
<1>3. \A q \in Ops : ops'[q] \in {ops[q], Null}
  BY <1>0, Types DEF Refused
<1>4. DirOK(e)'
  BY <1>2, KnowledgeStays
<1>5. \A q \in Dirs : dirs'[q] = IF q = d THEN e ELSE dirs[q]
  BY <1>0, Types
<1>6. \A q \in Dirs : (dirs'[q].upload = dirs[q].upload /\ dirs'[q].deploy = dirs[q].deploy) \/ DirOK(dirs[q])'
  BY <1>4, <1>5 DEF DirOK
<1> QED BY <1>1, <1>2, <1>3, <1>6, StepKeeps

\* A command that has added a version and goes on with it.
LEMMA AddedKeeps ==
    ASSUME WorkersPublishAssumption, PublishInv, NEW o \in Ops, ops[o] \in Command,
           NEW content \in Contents, NEW script \in Contents \cup {Script[p] : p \in Packages},
           NEW bindings \in SUBSET Declared, Uploaded(content, script, bindings),
           NEW c \in Command \cup {Null}, ops' = [ops EXCEPT ![o] = c],
           c = Null \/ (/\ c.cmd \in {"upload", "secrets"} /\ c.ver = Len(versions) + 1
                        /\ c.cmd = "secrets" => Known(c.base)),
           active' \in {active, {Len(versions) + 1}},
           UNCHANGED <<disk, dirs, observed, accepted, faults>>
    PROVE  PublishInv'
<1>0. PublishTypeOK
  BY DEF PublishInv
<1>1. /\ VersionsStay /\ Len(versions') = Len(versions) + 1 /\ Len(versions') <= MaxVersions
      /\ versions' \in Seq(Version)
  BY <1>0, UploadAdds
<1>2. Len(versions) \in Nat /\ active \subseteq 1..Len(versions)
  BY <1>0, Types
<1>3. active' \subseteq 1..Len(versions')
  <2>1. CASE active' = active
    BY <1>1, <1>2, <2>1
  <2>2. CASE active' = {Len(versions) + 1}
    BY <1>1, <1>2, <2>2
  <2> QED BY <2>1, <2>2
<1>4. PublishTypeOK'
  BY <1>0, <1>1, <1>3 DEF PublishTypeOK
<1>5. \A q \in Ops : ops'[q] = IF q = o THEN c ELSE ops[q]
  BY <1>0, Types
<1>6. versions' # <<>> /\ Len(versions) + 1 \in 1..Len(versions')
  BY <1>1, <1>2
<1>7. c = Null \/ (/\ c.cmd \in {"upload", "secrets"} /\ c.ver = Len(versions) + 1
                   /\ c.cmd = "secrets" => c.base \in 1..Len(versions'))
  BY <1>1, KnowledgeStays DEF Known
<1>8. \A q \in Ops : ops'[q] \in {ops[q], Null} \/ CommandOK(ops[q])'
  BY <1>5, <1>6, <1>7 DEF CommandOK, Known
<1> QED BY <1>1, <1>4, <1>8, StepKeeps

-----------------------------------------------------------------------------
(* bootstrap and upload.                                                   *)

LEMMA BootstrapKeeps ==
    ASSUME WorkersPublishAssumption, PublishInv, NEW o \in Ops, NEW p \in Packages, NEW d \in Dirs,
           Bootstrap(o, p, d)
    PROVE  PublishInv'
<1>1. Begin(o, "bootstrap", p, d, "acting", Null, {"bootstrap"}, active = {})
  BY DEF Bootstrap
<1>2. CommandOK([cmd |-> "bootstrap", pkg |-> p, dir |-> d, step |-> "acting", ver |-> Null, base |-> Null,
                 seen |-> active])
  BY DEF CommandOK
<1>3. "bootstrap" \in Commands /\ {"bootstrap"} \in SUBSET Commands
  BY DEF Commands
<1> QED BY <1>1, <1>2, <1>3, BeginKeeps

LEMMA BootstrapDeployKeeps ==
    ASSUME WorkersPublishAssumption, PublishInv, NEW o \in Ops, BootstrapDeploy(o)
    PROVE  PublishInv'
<1>1. ops[o] \in Command
  BY Types DEF PublishInv, BootstrapDeploy
<1>2. Placeholder \in Contents /\ {} \in SUBSET Declared
  BY DEF Contents
<1> QED BY <1>1, <1>2, AddedKeeps DEF BootstrapDeploy

\* A Worker that serves something has a version.
LEMMA ServingHasVersion ==
    ASSUME PublishTypeOK, active # {}
    PROVE  versions # <<>>
<1>1. PICK v \in active : v \in 1..Len(versions)
  BY Types
<1> QED BY <1>1

LEMMA UploadKeeps ==
    ASSUME WorkersPublishAssumption, PublishInv, NEW o \in Ops, NEW p \in Packages, NEW d \in Dirs,
           Upload(o, p, d)
    PROVE  PublishInv'
<1>1. Begin(o, "upload", p, d, "acting", Null, {"upload"}, active # {})
  BY DEF Upload
<1>2. active # {} =>
        CommandOK([cmd |-> "upload", pkg |-> p, dir |-> d, step |-> "acting", ver |-> Null, base |-> Null,
                   seen |-> active])
  BY ServingHasVersion DEF CommandOK, PublishInv
<1>3. "upload" \in Commands /\ {"upload"} \in SUBSET Commands
  BY DEF Commands
<1> QED BY <1>1, <1>2, <1>3, BeginKeeps

\* What wrangler uploads may be anything by now; the version is new all the same.
LEMMA UploadVersionKeeps ==
    ASSUME WorkersPublishAssumption, PublishInv, NEW o \in Ops, UploadVersion(o)
    PROVE  PublishInv'
<1>0. PublishTypeOK
  BY DEF PublishInv
<1>1. ops[o] \in Command /\ ops[o].cmd = "upload" /\ CommandOK(ops[o])
  BY <1>0, Types DEF UploadVersion, Doing, PublishInv
<1> DEFINE c == disk[ops[o].pkg]
           new == [ops[o] EXCEPT !.step = "reading", !.ver = Len(versions) + 1]
           script == IF c \in Packages THEN Script[c] ELSE Foreign
<1>2. c \in Contents /\ script \in Contents \cup {Script[p] : p \in Packages}
  BY <1>0, <1>1 DEF PublishTypeOK, Command, Contents
<1>3. Len(versions) \in Nat /\ Len(versions) # 0
  BY <1>0, <1>1, Types DEF CommandOK
<1>4. versions[Len(versions)] \in Version
  BY <1>0, <1>3, ElementOfSeq DEF PublishTypeOK
<1>5. PICK kept \in {{}, versions[Len(versions)].bindings} : Uploaded(c, script, kept)
  BY DEF UploadVersion
<1>6. kept \in SUBSET Declared
  BY <1>4 DEF Version
<1>7. Len(versions) < MaxVersions /\ MaxVersions \in Nat
  BY <1>5 DEF Uploaded, WorkersPublishAssumption
<1>8. new \in Command /\ new.cmd = "upload" /\ new.ver = Len(versions) + 1
  <2>1. Len(versions) + 1 \in Ids
    BY <1>3, <1>7 DEF Ids
  <2> QED BY <1>1, <2>1 DEF Command
<1>9. ops' = [ops EXCEPT ![o] = new]
  BY <1>0, <1>1, Types, Zenon DEF UploadVersion
<1> HIDE DEF c, script, new
<1>10. active' = active /\ UNCHANGED <<disk, dirs, observed, accepted, faults>>
  BY DEF UploadVersion
<1> QED BY <1>1, <1>2, <1>5, <1>6, <1>8, <1>9, <1>10, AddedKeeps

\* The receipt names the version the command has uploaded itself.
LEMMA UploadReceiptKeeps ==
    ASSUME WorkersPublishAssumption, PublishInv, NEW o \in Ops, UploadReceipt(o)
    PROVE  PublishInv'
<1>0. PublishTypeOK
  BY DEF PublishInv
<1> DEFINE c == ops[o]
           r == [pkg |-> c.pkg, ver |-> c.ver, base |-> Null]
           e == [dirs[c.dir] EXCEPT !.upload = r]
<1>1. c \in Command /\ c.cmd = "upload" /\ c.step = "reading" /\ CommandOK(c)
  BY <1>0, Types DEF UploadReceipt, Doing, PublishInv
<1>2. c.dir \in Dirs /\ c.pkg \in Packages /\ Known(c.ver)
  BY <1>1 DEF Command, CommandOK
<1>3. c.ver \in Ids
  BY <1>0, <1>2, Types DEF Ids, Known, WorkersPublishAssumption
<1>4. dirs[c.dir] \in Dir /\ DirOK(dirs[c.dir])
  BY <1>0, <1>2, Types DEF PublishInv
<1>5. r \in Receipt
  BY <1>2, <1>3 DEF Receipt
<1>6. e \in Dir /\ e.upload = r /\ e.deploy = dirs[c.dir].deploy
  BY <1>4, <1>5 DEF Dir
<1>7. DirOK(e)
  BY <1>2, <1>4, <1>6 DEF DirOK, UploadReceiptOK
<1>8. Refused(o) /\ UNCHANGED <<versions, active, disk, observed, accepted, faults>>
  BY DEF UploadReceipt
<1>9. dirs' = [dirs EXCEPT ![c.dir] = e] \/ UNCHANGED dirs
  BY <1>0, <1>2, <1>4, Types, Zenon DEF UploadReceipt
<1> HIDE DEF c, r, e
<1>10. CASE dirs' = [dirs EXCEPT ![c.dir] = e]
  BY <1>2, <1>6, <1>7, <1>8, <1>10, ReceiptKeeps
<1>11. CASE UNCHANGED dirs
  BY <1>0, <1>8, <1>11, RefusedKeeps DEF PublishTypeOK
<1> QED BY <1>9, <1>10, <1>11

-----------------------------------------------------------------------------
(* secrets.                                                                *)

\* The base is named by a receipt, so it is a version that exists.
LEMMA SecretsKeeps ==
    ASSUME WorkersPublishAssumption, PublishInv, NEW o \in Ops, NEW p \in Packages, NEW d \in Dirs,
           NEW b \in Dirs, Secrets(o, p, d, b)
    PROVE  PublishInv'
<1> DEFINE v == SecretsBase(b).ver
           ok == active # {} /\ (dirs[b].deploy # Null => active = {dirs[b].deploy.ver})
<1>0. PublishTypeOK
  BY DEF PublishInv
<1>1. Begin(o, "secrets", p, d, "listing", v, {}, ok)
  BY DEF Secrets
<1>2. SecretsBase(b) # Null /\ DirOK(dirs[b])
  BY DEF Secrets, PublishInv
<1>3. Known(v)
  BY <1>2 DEF SecretsBase, DirOK, UploadReceiptOK, Right
<1>4. v \in Ids
  BY <1>0, <1>3, Types DEF Ids, Known, WorkersPublishAssumption
<1> HIDE DEF v
<1>5. ok => CommandOK([cmd |-> "secrets", pkg |-> p, dir |-> d, step |-> "listing", ver |-> v, base |-> v,
                       seen |-> active])
  BY <1>0, <1>3, ServingHasVersion DEF CommandOK
<1>6. "secrets" \in Commands /\ {} \in SUBSET Commands
  BY DEF Commands
<1> HIDE DEF ok
<1> QED BY <1>1, <1>4, <1>5, <1>6, BeginKeeps

\* A command that goes on, and changes in its directory at most the intents.
LEMMA GoesOnKeeps ==
    ASSUME PublishInv, NEW o \in Ops, NEW c \in Command, ops' = [ops EXCEPT ![o] = c], CommandOK(c),
           UNCHANGED <<versions, disk, observed, faults>>,
           dirs' \in [Dirs -> Dir],
           \A d \in Dirs : dirs'[d].upload = dirs[d].upload /\ dirs'[d].deploy = dirs[d].deploy,
           active' \subseteq 1..Len(versions),
           accepted' \subseteq Ids \X Packages,
           \A a \in accepted' : a \in accepted \/ Right(a[1], a[2])
    PROVE  PublishInv'
<1>0. PublishTypeOK
  BY DEF PublishInv
<1>1. PublishTypeOK'
  BY <1>0 DEF PublishTypeOK
<1>2. VersionsStay
  BY <1>0, NothingUploaded
<1>3. \A q \in Ops : ops'[q] = IF q = o THEN c ELSE ops[q]
  BY <1>0, Types
<1>4. \A q \in Ops : ops'[q] \in {ops[q], Null} \/ CommandOK(ops[q])'
  BY <1>3 DEF CommandOK, Known, Right, BindingsFit
<1>5. \A a \in accepted' : a \in accepted \/ Right(a[1], a[2])'
  BY DEF Right, Known, BindingsFit
<1> QED BY <1>1, <1>2, <1>4, <1>5, StepKeeps

LEMMA ListVersionsKeeps ==
    ASSUME WorkersPublishAssumption, PublishInv, NEW o \in Ops, ListVersions(o)
    PROVE  PublishInv'
<1>0. PublishTypeOK
  BY DEF PublishInv
<1> DEFINE new == [ops[o] EXCEPT !.step = "acting"]
           d == ops[o].dir
           e == [dirs[d] EXCEPT !.intents = @ \cup {"secrets"}]
<1>1. ops[o] \in Command /\ ops[o].cmd = "secrets" /\ CommandOK(ops[o])
  BY <1>0, Types DEF ListVersions, Doing, PublishInv
<1>2. new \in Command /\ new.cmd = "secrets" /\ new.ver = ops[o].ver /\ new.base = ops[o].base
  BY <1>1 DEF Command
<1>3. CommandOK(new)
  BY <1>1, <1>2 DEF CommandOK
<1>4. UNCHANGED <<versions, active, disk, observed, accepted, faults>>
  BY DEF ListVersions
<1>5. CASE Refused(o) /\ UNCHANGED dirs
  BY <1>0, <1>4, <1>5, RefusedKeeps DEF PublishTypeOK
<1>6. CASE ops' = [ops EXCEPT ![o].step = "acting"] /\ dirs' = [dirs EXCEPT ![d].intents = @ \cup {"secrets"}]
  <2>1. d \in Dirs /\ dirs[d] \in Dir
    BY <1>0, <1>1, Types DEF Command
  <2>2. dirs' = [dirs EXCEPT ![d] = e]
    BY <1>0, <1>6, <2>1, Types, Zenon
  <2>3. e \in Dir /\ e.upload = dirs[d].upload /\ e.deploy = dirs[d].deploy
    BY <2>1 DEF Dir, Commands
  <2>4. ops' = [ops EXCEPT ![o] = new]
    BY <1>0, <1>1, <1>6, Types, Zenon
  <2> HIDE DEF new, d, e
  <2>5. dirs' \in [Dirs -> Dir]
    BY <1>0, <2>1, <2>2, <2>3, Types
  <2>6. \A q \in Dirs : dirs'[q].upload = dirs[q].upload /\ dirs'[q].deploy = dirs[q].deploy
    BY <1>0, <2>1, <2>2, <2>3, Types
  <2>7. active' \subseteq 1..Len(versions) /\ accepted' \subseteq Ids \X Packages
    BY <1>0, <1>4 DEF PublishTypeOK
  <2> QED BY <1>2, <1>3, <1>4, <2>4, <2>5, <2>6, <2>7, GoesOnKeeps
<1> QED BY <1>5, <1>6 DEF ListVersions

\* The patch is a version of its own, whatever it was made from.
LEMMA SecretBulkKeeps ==
    ASSUME WorkersPublishAssumption, PublishInv, NEW o \in Ops, SecretBulk(o)
    PROVE  PublishInv'
<1>0. PublishTypeOK
  BY DEF PublishInv
<1> DEFINE new == [ops[o] EXCEPT !.step = "reading", !.ver = Len(versions) + 1]
           top == versions[Len(versions)]
<1>1. ops[o] \in Command /\ ops[o].cmd = "secrets" /\ CommandOK(ops[o])
  BY <1>0, Types DEF SecretBulk, Doing, PublishInv
<1>2. Len(versions) \in Nat /\ Len(versions) # 0
  BY <1>0, <1>1, Types DEF CommandOK
<1>3. top \in Version
  BY <1>0, <1>2, ElementOfSeq DEF PublishTypeOK
<1>4. top.content \in Contents /\ top.script \in Contents \cup {Script[p] : p \in Packages}
      /\ top.bindings \cup Declared \in SUBSET Declared
  BY <1>3 DEF Version
<1>5. Uploaded(top.content, top.script, top.bindings \cup Declared)
  BY DEF SecretBulk
<1>6. Len(versions) < MaxVersions /\ MaxVersions \in Nat
  BY <1>5 DEF Uploaded, WorkersPublishAssumption
<1>7. new \in Command /\ new.cmd = "secrets" /\ new.ver = Len(versions) + 1 /\ new.base = ops[o].base
  <2>1. Len(versions) + 1 \in Ids
    BY <1>2, <1>6 DEF Ids
  <2> QED BY <1>1, <2>1 DEF Command
<1>8. ops' = [ops EXCEPT ![o] = new]
  BY <1>0, <1>1, Types, Zenon DEF SecretBulk
<1>9. Known(new.base)
  BY <1>1, <1>7 DEF CommandOK
<1> HIDE DEF new, top
<1>10. active' = active /\ UNCHANGED <<disk, dirs, observed, accepted, faults>>
  BY DEF SecretBulk
<1> QED BY <1>1, <1>4, <1>5, <1>7, <1>8, <1>9, <1>10, AddedKeeps

\* The receipt is written only after the script was compared with the base's.
LEMMA SecretsReceiptKeeps ==
    ASSUME WorkersPublishAssumption, PublishInv, NEW o \in Ops, SecretsReceipt(o)
    PROVE  PublishInv'
<1>0. PublishTypeOK
  BY DEF PublishInv
<1> DEFINE c == ops[o]
           r == [pkg |-> c.pkg, ver |-> c.ver, base |-> c.base]
           e == [dirs[c.dir] EXCEPT !.upload = r]
<1>1. c \in Command /\ c.cmd = "secrets" /\ CommandOK(c)
  BY <1>0, Types DEF SecretsReceipt, Doing, PublishInv
<1>2. c.dir \in Dirs /\ c.pkg \in Packages /\ Known(c.ver) /\ Known(c.base)
  BY <1>1 DEF Command, CommandOK
<1>3. c.ver \in Ids /\ c.base \in Ids
  BY <1>0, <1>2, Types DEF Ids, Known, WorkersPublishAssumption
<1>4. dirs[c.dir] \in Dir /\ DirOK(dirs[c.dir])
  BY <1>0, <1>2, Types DEF PublishInv
<1>5. r \in Receipt
  BY <1>2, <1>3 DEF Receipt
<1>6. e \in Dir /\ e.upload = r /\ e.deploy = dirs[c.dir].deploy
  BY <1>4, <1>5 DEF Dir
<1>7. Refused(o) /\ UNCHANGED <<versions, active, disk, observed, accepted, faults>>
  BY DEF SecretsReceipt
<1>8. (SameScript(c.ver, c.base) /\ dirs' = [dirs EXCEPT ![c.dir].upload = r]) \/ UNCHANGED dirs
  BY Zenon DEF SecretsReceipt
<1>9. CASE SameScript(c.ver, c.base) /\ dirs' = [dirs EXCEPT ![c.dir].upload = r]
  <2>1. dirs' = [dirs EXCEPT ![c.dir] = e]
    BY <1>0, <1>2, <1>4, <1>9, Types, Zenon
  <2>2. DirOK(e)
    BY <1>2, <1>4, <1>6, <1>9 DEF DirOK, UploadReceiptOK
  <2> HIDE DEF c, r, e
  <2> QED BY <1>2, <1>6, <1>7, <2>1, <2>2, ReceiptKeeps
<1> HIDE DEF c, r, e
<1>10. CASE UNCHANGED dirs
  BY <1>0, <1>7, <1>10, RefusedKeeps DEF PublishTypeOK
<1> QED BY <1>8, <1>9, <1>10

-----------------------------------------------------------------------------
(* The acceptance, and deploy.                                             *)

\* An observation passes at a URL whose version has the package's content.
LEMMA ObserveKeeps ==
    ASSUME WorkersPublishAssumption, PublishInv, NEW p \in Packages, NEW v \in Ids, NEW url \in Ids,
           Observe(p, v, url)
    PROVE  PublishInv'
<1> DEFINE x == [pkg |-> p, ver |-> v, url |-> url]
<1>0. PublishTypeOK
  BY DEF PublishInv
<1>1. observed' = observed \cup {x} /\ UNCHANGED <<versions, active, disk, dirs, ops, accepted, faults>>
  BY DEF Observe
<1>2. x \in Observation
  BY DEF Observation
<1>3. PublishTypeOK'
  BY <1>0, <1>1, <1>2 DEF PublishTypeOK
<1>4. VersionsStay
  BY <1>0, <1>1, NothingUploaded
<1>5. url \in 1..Len(versions') /\ versions'[url].content = p
  BY <1>1 DEF Observe
<1>6. \A y \in observed' : y \in observed \/ ObservationOK(y)'
  BY <1>1, <1>5 DEF ObservationOK, Known
<1> QED BY <1>1, <1>3, <1>4, <1>6, StepKeeps

\* deploy asks for an observation of the same package at the URL of the same
\* version: so the version has the package's content whatever the files of the
\* package have become, and its bindings are read before it is deployed.
LEMMA DeployKeeps ==
    ASSUME WorkersPublishAssumption, PublishInv, NEW o \in Ops, NEW p \in Packages, NEW d \in Dirs,
           Deploy(o, p, d)
    PROVE  PublishInv'
<1> DEFINE r == dirs[d].upload
           ok == active # {} /\ Deployable(r.ver)
<1>0. PublishTypeOK
  BY DEF PublishInv
<1>1. Begin(o, "deploy", p, d, "acting", r.ver, {"deploy"}, ok) /\ r # Null /\ r.pkg = p /\ Accepted(r)
  BY DEF Deploy
<1>2. PICK x \in observed : x.pkg = r.pkg /\ x.ver = r.ver /\ x.url = r.ver
  BY <1>1 DEF Accepted
<1>3. Known(r.ver) /\ versions[r.ver].content = p
  BY <1>1, <1>2 DEF PublishInv, ObservationOK
<1>4. r.ver \in Ids
  BY <1>0, <1>3, Types DEF Ids, Known, WorkersPublishAssumption
<1>5. ok => versions # <<>> /\ Right(r.ver, p)
  BY <1>0, <1>3, ServingHasVersion DEF Right, Deployable
<1> HIDE DEF r, ok
<1>6. ok => CommandOK([cmd |-> "deploy", pkg |-> p, dir |-> d, step |-> "acting", ver |-> r.ver,
                       base |-> r.ver, seen |-> active])
  BY <1>5 DEF CommandOK
<1>7. "deploy" \in Commands /\ {"deploy"} \in SUBSET Commands
  BY DEF Commands
<1> QED BY <1>1, <1>4, <1>6, <1>7, BeginKeeps

LEMMA DeployVersionKeeps ==
    ASSUME WorkersPublishAssumption, PublishInv, NEW o \in Ops, DeployVersion(o)
    PROVE  PublishInv'
<1>0. PublishTypeOK
  BY DEF PublishInv
<1> DEFINE c == ops[o]
           new == [c EXCEPT !.step = "reading"]
<1>1. c \in Command /\ c.cmd = "deploy" /\ CommandOK(c)
  BY <1>0, Types DEF DeployVersion, Doing, PublishInv
<1>2. Right(c.ver, c.pkg) /\ c.pkg \in Packages /\ c.ver \in 1..Len(versions)
  BY <1>1 DEF CommandOK, Command, Right, Known
<1>3. c.ver \in Ids
  BY <1>0, <1>2, Types DEF Ids, WorkersPublishAssumption
<1>4. new \in Command /\ new.cmd = "deploy" /\ new.ver = c.ver /\ new.pkg = c.pkg
  BY <1>1 DEF Command
<1>5. CommandOK(new)
  BY <1>1, <1>4 DEF CommandOK
<1>6. /\ active' = {c.ver} /\ accepted' = accepted \cup {<<c.ver, c.pkg>>}
      /\ UNCHANGED <<versions, disk, dirs, observed, faults>>
  BY DEF DeployVersion
<1>7. ops' = [ops EXCEPT ![o] = new]
  BY <1>0, <1>1, Types, Zenon DEF DeployVersion
<1> HIDE DEF c, new
<1>8. active' \subseteq 1..Len(versions) /\ accepted' \subseteq Ids \X Packages
  BY <1>0, <1>2, <1>3, <1>6 DEF PublishTypeOK
<1>9. \A a \in accepted' : a \in accepted \/ Right(a[1], a[2])
  BY <1>2, <1>6
<1>10. dirs' \in [Dirs -> Dir] /\ \A q \in Dirs : dirs'[q].upload = dirs[q].upload /\ dirs'[q].deploy = dirs[q].deploy
  BY <1>0, <1>6, Types
<1> QED BY <1>4, <1>5, <1>6, <1>7, <1>8, <1>9, <1>10, GoesOnKeeps

LEMMA DeployReceiptKeeps ==
    ASSUME WorkersPublishAssumption, PublishInv, NEW o \in Ops, DeployReceipt(o)
    PROVE  PublishInv'
<1>0. PublishTypeOK
  BY DEF PublishInv
<1> DEFINE c == ops[o]
           r == [pkg |-> c.pkg, ver |-> c.ver, base |-> Null]
           e == [dirs[c.dir] EXCEPT !.deploy = r]
<1>1. c \in Command /\ c.cmd = "deploy" /\ CommandOK(c)
  BY <1>0, Types DEF DeployReceipt, Doing, PublishInv
<1>2. c.dir \in Dirs /\ c.pkg \in Packages /\ Right(c.ver, c.pkg)
  BY <1>1 DEF Command, CommandOK
<1>3. c.ver \in Ids
  BY <1>0, <1>2, Types DEF Ids, Known, Right, WorkersPublishAssumption
<1>4. dirs[c.dir] \in Dir /\ DirOK(dirs[c.dir])
  BY <1>0, <1>2, Types DEF PublishInv
<1>5. r \in Receipt
  BY <1>2, <1>3 DEF Receipt
<1>6. e \in Dir /\ e.deploy = r /\ e.upload = dirs[c.dir].upload
  BY <1>4, <1>5 DEF Dir
<1>7. DirOK(e)
  BY <1>2, <1>4, <1>6 DEF DirOK
<1>8. Refused(o) /\ UNCHANGED <<versions, active, disk, observed, accepted, faults>>
  BY DEF DeployReceipt
<1>9. dirs' = [dirs EXCEPT ![c.dir] = e] \/ UNCHANGED dirs
  BY <1>0, <1>2, <1>4, Types, Zenon DEF DeployReceipt
<1> HIDE DEF c, r, e
<1>10. CASE dirs' = [dirs EXCEPT ![c.dir] = e]
  BY <1>2, <1>6, <1>7, <1>8, <1>10, ReceiptKeeps
<1>11. CASE UNCHANGED dirs
  BY <1>0, <1>8, <1>11, RefusedKeeps DEF PublishTypeOK
<1> QED BY <1>9, <1>10, <1>11

-----------------------------------------------------------------------------
(* Kills, edits and other people.                                          *)

\* A fault is counted; what is not versions, receipts or commands may change.
LEMMA DisturbanceKeeps ==
    ASSUME WorkersPublishAssumption, PublishInv, VersionsStay, versions' \in Seq(Version),
           Len(versions') <= MaxVersions, active' \subseteq 1..Len(versions'),
           disk' \in [Packages -> Contents], Fault, UNCHANGED <<dirs, observed, ops, accepted>>
    PROVE  PublishInv'
<1>0. PublishTypeOK
  BY DEF PublishInv
<1>1. faults' \in 0..MaxFaults
  BY <1>0 DEF Fault, PublishTypeOK, WorkersPublishAssumption
<1>2. PublishTypeOK'
  BY <1>0, <1>1 DEF PublishTypeOK
<1> QED BY <1>2, StepKeeps

LEMMA KillKeeps ==
    ASSUME WorkersPublishAssumption, PublishInv, NEW o \in Ops, Kill(o)
    PROVE  PublishInv'
<1>1. faults' \in 0..MaxFaults
  BY DEF Kill, Fault, PublishInv, PublishTypeOK, WorkersPublishAssumption
<1> QED BY <1>1, RefusedKeeps DEF Kill, Refused

LEMMA EditKeeps ==
    ASSUME WorkersPublishAssumption, PublishInv, NEW p \in Packages, Edit(p)
    PROVE  PublishInv'
<1>1. PublishTypeOK /\ VersionsStay
  BY NothingUploaded DEF PublishInv, Edit
<1>2. disk' \in [Packages -> Contents]
  BY <1>1 DEF Edit, PublishTypeOK, Contents
<1> QED BY <1>1, <1>2, DisturbanceKeeps DEF Edit, PublishTypeOK

LEMMA OtherUploadKeeps ==
    ASSUME WorkersPublishAssumption, PublishInv, OtherUpload
    PROVE  PublishInv'
<1>1. PublishTypeOK
  BY DEF PublishInv
<1>2. PICK s \in {Foreign} \cup {Script[p] : p \in Packages}, b \in {{}, Declared} : Uploaded(Foreign, s, b)
  BY DEF OtherUpload
<1>3. Foreign \in Contents /\ s \in Contents \cup {Script[p] : p \in Packages} /\ b \in SUBSET Declared
  BY DEF Contents
<1>4. /\ VersionsStay /\ Len(versions') = Len(versions) + 1 /\ Len(versions') <= MaxVersions
      /\ versions' \in Seq(Version)
  BY <1>1, <1>2, <1>3, UploadAdds
<1>5. active \subseteq 1..Len(versions) /\ Len(versions) \in Nat
  BY <1>1, Types
<1>6. Fault /\ UNCHANGED <<active, disk, dirs, observed, ops, accepted>>
  BY DEF OtherUpload
<1>7. active' \subseteq 1..Len(versions')
  BY <1>4, <1>5, <1>6
<1>8. disk' \in [Packages -> Contents]
  BY <1>1, <1>6 DEF PublishTypeOK
<1> QED BY <1>4, <1>6, <1>7, <1>8, DisturbanceKeeps

LEMMA OtherDeployKeeps ==
    ASSUME WorkersPublishAssumption, PublishInv, OtherDeploy
    PROVE  PublishInv'
<1>1. PublishTypeOK /\ VersionsStay
  BY NothingUploaded DEF PublishInv, OtherDeploy
<1>2. active' \subseteq 1..Len(versions)
  <2>1. active \subseteq 1..Len(versions)
    BY <1>1, Types
  <2> QED BY <2>1 DEF OtherDeploy
<1>3. Fault /\ UNCHANGED <<versions, disk, dirs, observed, ops, accepted>>
  BY DEF OtherDeploy
<1> QED BY <1>1, <1>2, <1>3, DisturbanceKeeps DEF PublishTypeOK

-----------------------------------------------------------------------------
(* The theorems.                                                           *)

LEMMA InitInv ==
    ASSUME WorkersPublishAssumption, Init
    PROVE  PublishInv
<1>1. versions \in Seq(Version) /\ Len(versions) = 0
  BY EmptySeq DEF Init
<1>2. EmptyDir \in Dir /\ DirOK(EmptyDir)
  BY DEF EmptyDir, Dir, DirOK
<1>3. PublishTypeOK
  BY <1>1, <1>2 DEF Init, PublishTypeOK, Contents, WorkersPublishAssumption
<1> QED BY <1>2, <1>3 DEF Init, PublishInv

LEMMA NextInv ==
    ASSUME WorkersPublishAssumption, PublishInv, [Next]_vars
    PROVE  PublishInv'
<1>1. CASE UNCHANGED vars
  BY <1>1 DEF vars, PublishInv, PublishTypeOK, CommandOK, DirOK, UploadReceiptOK, ObservationOK, Right, Known,
              BindingsFit, SameScript
<1>2. ASSUME NEW o \in Ops, NEW p \in Packages, NEW d \in Dirs,
             Bootstrap(o, p, d) \/ Upload(o, p, d) \/ (\E b \in Dirs : Secrets(o, p, d, b)) \/ Deploy(o, p, d)
      PROVE  PublishInv'
  BY <1>2, BootstrapKeeps, UploadKeeps, SecretsKeeps, DeployKeeps
<1>3. ASSUME NEW o \in Ops,
             \/ BootstrapDeploy(o) \/ UploadVersion(o) \/ UploadReceipt(o) \/ ListVersions(o)
             \/ SecretBulk(o) \/ SecretsReceipt(o) \/ DeployVersion(o) \/ DeployReceipt(o) \/ Kill(o)
      PROVE  PublishInv'
  BY <1>3, BootstrapDeployKeeps, UploadVersionKeeps, UploadReceiptKeeps, ListVersionsKeeps, SecretBulkKeeps,
     SecretsReceiptKeeps, DeployVersionKeeps, DeployReceiptKeeps, KillKeeps
<1>4. CASE \E p \in Packages, v \in Ids, url \in Ids : Observe(p, v, url)
  BY <1>4, ObserveKeeps
<1>5. CASE (\E p \in Packages : Edit(p)) \/ OtherUpload \/ OtherDeploy
  BY <1>5, EditKeeps, OtherUploadKeeps, OtherDeployKeeps
<1> QED BY <1>1, <1>2, <1>3, <1>4, <1>5 DEF Next

LEMMA SpecInv == WorkersPublishAssumption => (Spec => []PublishInv)
<1> SUFFICES ASSUME WorkersPublishAssumption
             PROVE  Spec => []PublishInv
  OBVIOUS
<1>1. Init => PublishInv
  BY InitInv
<1>2. PublishInv /\ [Next]_vars => PublishInv'
  BY NextInv
<1> QED BY <1>1, <1>2, PTL DEF Spec

\* Versions, evidence, observations and commands keep their types: a receipt
\* never names a version that was not uploaded (workers-publish.mjs 143-166).
LEMMA TypeCorrect == WorkersPublishAssumption => (Spec => []PublishTypeOK)
<1>1. PublishInv => PublishTypeOK
  BY DEF PublishInv
<1> QED BY <1>1, SpecInv, PTL

\* What deploy puts live is the package it was asked to deploy, though files
\* are edited between verification and upload, secrets patch another upload,
\* and the observation was recorded under a name its caller chose
\* (workers-publish.mjs 262-297).
THEOREM LiveStaysItsPackage == WorkersPublishAssumption => (Spec => []LiveIsItsPackage)
<1>1. PublishInv => LiveIsItsPackage
  BY DEF PublishInv, LiveIsItsPackage, Right
<1> QED BY <1>1, SpecInv, PTL

\* It has exactly the secrets of env.json: deploy reads the bindings of the
\* version itself, and a version keeps them (workers-publish.mjs 272-282).
THEOREM LiveKeepsItsSecrets == WorkersPublishAssumption => (Spec => []LiveHasItsSecrets)
<1>1. PublishInv => LiveHasItsSecrets
  BY DEF PublishInv, LiveHasItsSecrets, Right
<1> QED BY <1>1, SpecInv, PTL

\* A version recorded as the secrets version of a base has its script, whoever
\* uploaded between the list and the patch (workers-publish.mjs 222-257).
THEOREM SecretsNeverChangeTheScript == WorkersPublishAssumption => (Spec => []SecretsKeepTheScript)
<1>1. PublishInv => SecretsKeepTheScript
  BY DEF PublishInv, SecretsKeepTheScript, DirOK, UploadReceiptOK, SameScript
<1> QED BY <1>1, SpecInv, PTL

\* A deploy receipt, on which later secrets commands base themselves, names a
\* version with the content and the secrets of its package: the receipt is
\* written long after the check, from what the command remembers (283-297).
DeployReceiptsAreTrue ==
    \A d \in Dirs : dirs[d].deploy # Null =>
        LET r == dirs[d].deploy IN
        versions[r.ver].content = r.pkg /\ (HasWorker => BindingsFit(r.ver))

THEOREM DeployReceiptsStayTrue == WorkersPublishAssumption => (Spec => []DeployReceiptsAreTrue)
<1>1. PublishInv => DeployReceiptsAreTrue
  BY DEF PublishInv, DeployReceiptsAreTrue, DirOK, Right
<1> QED BY <1>1, SpecInv, PTL

\* What is live is as it was packaged: its files, its secrets and the records
\* kept of it, whoever edits, uploads or patches in between.
THEOREM LiveStaysAsPackaged == WorkersPublishAssumption => (Spec => []LiveIsAsPackaged)
BY LiveStaysItsPackage, LiveKeepsItsSecrets, SecretsNeverChangeTheScript, PTL DEF LiveIsAsPackaged

-----------------------------------------------------------------------------
(* Delivery: beside this component the gate of a school publication         *)
(* (PublicationGate) and the observation of a package (WorkersObserve).     *)

CONSTANTS Requests, Proposals, Candidates, RequestOf, CandidateOf, Bound,
          Files, Rules, Redirects, Shells, Routes, Lanes, Attempts, MaxFailures, Nothing

VARIABLES directory, index, consent, permit, cached, shown, before, requests, call,
          verified, consented,
          package, expected, coming, lanes, passed, failed, recorded, result, served,
          part     \* the component a behaviour is of

Gate == INSTANCE PublicationGate WITH disk <- directory, active <- shown, previous <- before
Obs == INSTANCE WorkersObserve WITH None <- Nothing, next <- coming

\* The three run apart, as they do in MCDelivery.
Delivery ==
    /\ [][FALSE]_part
    /\ (part = "upload" /\ Spec) \/ (part = "queue" /\ Gate!Spec) \/ (part = "lanes" /\ Obs!Spec)

DeliveryAssumption ==
    WorkersPublishAssumption /\ Gate!QueueRecords /\ Obs!WorkersObserveAssumption

\* A publication that answers "confirmed" consumed its permit under consent in
\* that very call: neither a cached permit nor an old receipt outlives a
\* withdrawal (school-publish-gate.mjs 247-250).  Going back always leads to
\* another version.
ConfirmedUnderConsent ==
    part = "queue" => Gate!GateTypeOK /\ Gate!ConfirmedUnderConsent /\ Gate!PreviousIsAnother

\* A request that the stub remembers is for one candidate and one proposal for
\* ever, and once confirmed it stays so (school-publish-gate.mjs 209-260).
RequestsStay ==
    \A r \in Requests : requests[r] # Gate!None =>
        /\ requests'[r].candidate = requests[r].candidate
        /\ requests'[r].proposal = requests[r].proposal
        /\ requests[r].state = "confirmed" => requests'[r].state = "confirmed"

\* A deploy receipt is only ever written while its version alone is live
\* (workers-publish.mjs 288-295).
ReceiptWhenLive ==
    \A d \in Dirs : dirs'[d].deploy # dirs[d].deploy => active = {dirs'[d].deploy.ver}

deliveryVars == <<part, Gate!vars, vars>>

\* What becomes active was checked file by file in the call that made it so, and
\* a request is for one candidate and one proposal for ever
\* (school-publish-gate.mjs); what a receipt calls deployed is live when it says so.
ActiveWasVerified ==
    [][/\ part = "queue" => (shown' # shown => shown'.candidate \in verified) /\ RequestsStay
       /\ part = "upload" => ReceiptWhenLive]_deliveryVars

\* What passes was answered as packaged for every file but the control files:
\* no lane skips a request, none is judged by an answer that was to be
\* retried, the counts add up (workers-observe.mjs 214-251); two files at one
\* URL would hide each other, such a package is refused (116-121), and the
\* Worker is asked first for exactly what _routes.json names (66-72).
PassedIsServed ==
    part = "lanes" => /\ Obs!ObserveTypeOK /\ Obs!PassedIsServed /\ Obs!EveryRequestCounts
                      /\ Obs!OneRequestForOneUrl /\ Obs!RoutesKept

\* A behaviour is of one component, and stays of it.
LEMMA OneAtATime ==
    /\ part = "upload" => part # "queue" /\ part # "lanes"
    /\ part = "queue" => part # "upload" /\ part # "lanes"
    /\ part = "lanes" => part # "upload" /\ part # "queue"
    /\ part # "upload" /\ [FALSE]_part => (part # "upload")'
    /\ part # "queue" /\ [FALSE]_part => (part # "queue")'
    /\ part # "lanes" /\ [FALSE]_part => (part # "lanes")'
OBVIOUS

\* The last deployment a command reads back is the one it records.
LEMMA ReceiptStep ==
    ASSUME PublishTypeOK, [Next]_vars
    PROVE  ReceiptWhenLive
<1> SUFFICES ASSUME NEW d \in Dirs, dirs'[d].deploy # dirs[d].deploy
             PROVE  active = {dirs'[d].deploy.ver}
  BY DEF ReceiptWhenLive
<1>1. d \in DOMAIN dirs /\ dirs[d] \in Dir
  BY DEF PublishTypeOK
<1>2. DOMAIN dirs[d] = {"logs", "intents", "upload", "deploy"}
  BY <1>1 DEF Dir
<1>3. ASSUME NEW o, NEW cmd, NEW p, NEW e, NEW step, NEW ver, NEW intent, NEW ok,
             Begin(o, cmd, p, e, step, ver, intent, ok)
      PROVE  FALSE
  BY <1>1, <1>2, <1>3 DEF Begin
<1>4. ASSUME NEW o, UploadReceipt(o) \/ SecretsReceipt(o) \/ ListVersions(o)
      PROVE  FALSE
  BY <1>1, <1>2, <1>4 DEF UploadReceipt, SecretsReceipt, ListVersions
<1>5. ASSUME NEW o, DeployReceipt(o)
      PROVE  active = {dirs'[d].deploy.ver}
  BY <1>1, <1>2, <1>5 DEF DeployReceipt, Shown
<1>6. ASSUME NEW o \in Ops, NEW p \in Packages, NEW e \in Dirs,
             Bootstrap(o, p, e) \/ Upload(o, p, e) \/ (\E b \in Dirs : Secrets(o, p, e, b)) \/ Deploy(o, p, e)
      PROVE  FALSE
  BY <1>3, <1>6 DEF Bootstrap, Upload, Secrets, Deploy
<1>7. dirs' # dirs
  OBVIOUS
<1> QED
  BY <1>4, <1>5, <1>6, <1>7
  DEF Next, vars, BootstrapDeploy, UploadVersion, SecretBulk, DeployVersion, Kill, Observe, Edit, OtherUpload,
      OtherDeploy

-----------------------------------------------------------------------------
(* The rehearsal of a school publication (PublicationGate): the same        *)
(* delivery, for the generation of the schools.                             *)

GatePlaces == {"identity", "registration", "artifacts", "again", "permit", "consume", "confirm"}
Late == {"again", "permit", "consume", "confirm"}
Entries == [state : {"failed", "confirmed"}, candidate : Candidates, proposal : Proposals]

CallOK ==
    /\ call.o.candidate \in Candidates
    /\ call.at \in Late => call.o.candidate \in verified
    /\ call.at \in {"permit", "consume", "confirm"} => Gate!SameRequest(call.o)
    /\ call.at \in {"permit", "consume"} => Bound
    /\ call.at = "confirm" => (Bound => consented)

\* The inductive invariant: what the stub's one call knows at each of its
\* steps, whatever the directory, the index and the queue have become since.
GateInv ==
    /\ Gate!GateTypeOK
    /\ call = Gate!Idle \/ (call \in [at : GatePlaces, o : Gate!Options] /\ CallOK)
    /\ requests \in [Requests -> Entries \union {Gate!None}]
    /\ Gate!PreviousIsAnother

LEMMA GateInitInv == Gate!QueueRecords /\ Gate!Init => GateInv
BY DEF Gate!Init, GateInv, Gate!GateTypeOK, Gate!PreviousIsAnother, Gate!Idle, Gate!None

\* A call begins with options of the type, as an application or as a return to
\* the previous version under a request of the caller's choice.
LEMMA CallKeeps == GateInv /\ (Gate!Publish \/ Gate!Restore) => GateInv'
<1> SUFFICES ASSUME GateInv, NEW o \in Gate!Options, Gate!Begin(o)
             PROVE  GateInv'
  BY DEF Gate!Publish, Gate!Restore, GateInv, Gate!GateTypeOK, Gate!Options
<1>1. call' = [at |-> "identity", o |-> o] /\ call'.at = "identity" /\ call'.o = o
  BY DEF Gate!Begin
<1>2. call' \in [at : GatePlaces, o : Gate!Options] /\ CallOK'
  BY <1>1 DEF GatePlaces, CallOK, Late, Gate!Options
<1> QED BY <1>1, <1>2 DEF Gate!Begin, GateInv, Gate!GateTypeOK, Gate!PreviousIsAnother

\* The checks of the directory and of the registration.
LEMMA ChecksKeep ==
    GateInv /\ (Gate!Identity \/ Gate!Registration \/ Gate!Artifacts \/ Gate!Again) => GateInv'
<1> SUFFICES ASSUME GateInv, Gate!Identity \/ Gate!Registration \/ Gate!Artifacts \/ Gate!Again
             PROVE  GateInv'
  OBVIOUS
<1>1. CASE Gate!Refuse
  BY <1>1 DEF Gate!Refuse, GateInv, Gate!GateTypeOK, Gate!PreviousIsAnother
<1>2. CASE ~Gate!Refuse
  <2>1. call \in [at : GatePlaces, o : Gate!Options] /\ CallOK
    BY <1>2 DEF GateInv, Gate!Identity, Gate!Registration, Gate!Artifacts, Gate!Again, Gate!At, Gate!Idle
  <2>2. UNCHANGED <<index, permit, cached, shown, before, requests, consented, directory>>
    BY <1>2 DEF Gate!Identity, Gate!Registration, Gate!Artifacts, Gate!Again
  <2>3. PICK s \in GatePlaces : call' = [call EXCEPT !.at = s]
    BY <1>2 DEF Gate!Identity, Gate!Registration, Gate!Artifacts, Gate!Again, Gate!Goto, GatePlaces
  <2>4. call' \in [at : GatePlaces, o : Gate!Options] /\ call'.o = call.o /\ call'.at = s
    BY <2>1, <2>3
  <2>5. CallOK'
    BY <1>2, <2>1, <2>2, <2>3, <2>4
    DEF Gate!Identity, Gate!Registration, Gate!Artifacts, Gate!Again, Gate!Goto, GatePlaces, Late, CallOK,
        Gate!SameRequest, Gate!IsCandidate, Gate!HasArtifacts, Gate!NeedsPermit, Gate!At
  <2> QED BY <2>2, <2>4, <2>5 DEF GateInv, Gate!GateTypeOK, Gate!PreviousIsAnother
<1> QED BY <1>1, <1>2

\* The permit: issued or remembered, and consumed under consent only.
LEMMA PermitStepKeeps == Gate!QueueRecords /\ GateInv /\ (Gate!Permit \/ Gate!Consume) => GateInv'
<1> SUFFICES ASSUME GateInv, Gate!Permit \/ Gate!Consume
             PROVE  GateInv'
  OBVIOUS
<1>1. call \in [at : GatePlaces, o : Gate!Options] /\ CallOK
  BY DEF GateInv, Gate!Permit, Gate!Consume, Gate!At, Gate!Idle
<1>2. UNCHANGED <<index, shown, before, requests, directory, verified>>
  BY DEF Gate!Permit, Gate!Consume, Gate!Refuse
<1>3. permit' \in [Proposals -> {"none", "issued", "consumed", "revoked"}] /\ cached' \subseteq Gate!Options
  BY <1>1 DEF Gate!Permit, Gate!Consume, Gate!Refuse, GateInv, Gate!GateTypeOK, Gate!Options
<1>4. CASE call' = Gate!Idle
  BY <1>2, <1>3, <1>4 DEF GateInv, Gate!GateTypeOK, Gate!PreviousIsAnother
<1>5. CASE call' # Gate!Idle
  <2>1. \/ call.at = "permit" /\ call' = [call EXCEPT !.at = "consume"]
        \/ call.at = "consume" /\ call' = [call EXCEPT !.at = "confirm"]
           /\ Gate!Consumable(call.o) /\ consented' = consent[call.o.proposal]
    BY <1>5 DEF Gate!Permit, Gate!Consume, Gate!Refuse, Gate!Goto, Gate!At
  <2>2. call' \in [at : GatePlaces, o : Gate!Options] /\ call'.o = call.o
    BY <1>1, <2>1 DEF GatePlaces
  <2>3. CallOK'
    BY <1>1, <1>2, <2>1, <2>2
    DEF CallOK, Late, Gate!SameRequest, Gate!Consumable, Gate!Ready, GatePlaces
  <2> QED BY <1>2, <1>3, <2>2, <2>3 DEF GateInv, Gate!GateTypeOK, Gate!PreviousIsAnother
<1> QED BY <1>4, <1>5

\* What the confirmation writes.
LEMMA ConfirmWrites ==
    ASSUME GateInv, Gate!Confirm
    PROVE  /\ GateInv' /\ RequestsStay
           /\ shown' # shown => shown'.candidate \in verified
<1>1. call \in [at : GatePlaces, o : Gate!Options] /\ CallOK /\ call.at = "confirm" /\ call.o \in Gate!Options
  BY DEF GateInv, Gate!Confirm, Gate!At, Gate!Idle
<1>2. call' = Gate!Idle /\ UNCHANGED <<directory, index, consent, permit, cached, verified, consented>>
  BY DEF Gate!Confirm
<1> DEFINE r0 == call.o.request
           entry(s) == [state |-> s, candidate |-> call.o.candidate, proposal |-> call.o.proposal]
<1>3. r0 \in Requests /\ entry("failed") \in Entries /\ entry("confirmed") \in Entries
  BY <1>1 DEF Gate!Options, Entries
<1>4. \/ UNCHANGED requests
      \/ \E s \in {"failed", "confirmed"} :
            requests[r0].state # "confirmed" /\ requests' = [requests EXCEPT ![r0] = entry(s)]
  BY DEF Gate!Confirm
<1>5. requests' \in [Requests -> Entries \union {Gate!None}]
  BY <1>3, <1>4 DEF GateInv
<1>6. \/ UNCHANGED <<shown, before>>
      \/ shown' = call.o /\ before' = shown /\ Gate!NewVersion(call.o)
  BY DEF Gate!Confirm
<1>7. Gate!GateTypeOK'
  BY <1>1, <1>2, <1>6 DEF GateInv, Gate!GateTypeOK
<1>8. Gate!PreviousIsAnother'
  BY <1>6 DEF GateInv, Gate!PreviousIsAnother, Gate!NewVersion
<1>9. GateInv'
  BY <1>2, <1>5, <1>7, <1>8 DEF GateInv
<1>10. ASSUME NEW r \in Requests, requests[r] # Gate!None
       PROVE  /\ requests'[r].candidate = requests[r].candidate
              /\ requests'[r].proposal = requests[r].proposal
              /\ requests[r].state = "confirmed" => requests'[r].state = "confirmed"
  <2>1. CASE r = r0
    BY <1>1, <1>3, <1>4, <1>10, <2>1 DEF CallOK, Gate!SameRequest, GateInv
  <2>2. CASE r # r0
    BY <1>3, <1>4, <2>2 DEF GateInv
  <2> QED BY <2>1, <2>2
<1>11. shown' # shown => shown'.candidate \in verified
  BY <1>1, <1>6 DEF CallOK, Late
<1> QED BY <1>9, <1>10, <1>11 DEF RequestsStay

\* The generator, the registration and the schools: nothing the call has
\* checked for itself is theirs to change.
LEMMA WorldKeeps ==
    GateInv /\ (Gate!Rebuild \/ Gate!Register \/ (\E p \in Proposals : Gate!Withdraw(p))) => GateInv'
<1> SUFFICES ASSUME GateInv, Gate!Rebuild \/ Gate!Register \/ (\E p \in Proposals : Gate!Withdraw(p))
             PROVE  GateInv'
  OBVIOUS
<1>1. UNCHANGED <<cached, shown, before, requests, call, verified, consented>>
  BY DEF Gate!Rebuild, Gate!Register, Gate!Withdraw
<1>2. Gate!GateTypeOK'
  BY <1>1 DEF GateInv, Gate!GateTypeOK, Gate!Rebuild, Gate!Register, Gate!Withdraw
<1> QED BY <1>1, <1>2 DEF GateInv, CallOK, Gate!PreviousIsAnother, Gate!SameRequest

LEMMA GateNextInv ==
    ASSUME Gate!QueueRecords, GateInv, [Gate!Next]_(Gate!vars)
    PROVE  /\ GateInv' /\ RequestsStay
           /\ shown' # shown => shown'.candidate \in verified
<1>1. CASE Gate!Confirm
  BY <1>1, ConfirmWrites
<1>2. CASE UNCHANGED Gate!vars
  BY <1>2 DEF Gate!vars, GateInv, RequestsStay, Gate!GateTypeOK, CallOK, Gate!PreviousIsAnother, Gate!SameRequest
<1>3. CASE Gate!Next /\ ~Gate!Confirm
  <2>1. GateInv'
    BY <1>3, CallKeeps, ChecksKeep, PermitStepKeeps, WorldKeeps DEF Gate!Next
  <2>2. UNCHANGED <<shown, requests>>
    BY <1>3 DEF Gate!Next, Gate!Publish, Gate!Restore, Gate!Begin, Gate!Identity, Gate!Registration,
       Gate!Artifacts, Gate!Again, Gate!Permit, Gate!Consume, Gate!Refuse, Gate!Rebuild, Gate!Register,
       Gate!Withdraw
  <2> QED BY <2>1, <2>2 DEF RequestsStay
<1> QED BY <1>1, <1>2, <1>3

LEMMA GateSpecInv ==
    Gate!QueueRecords => (Gate!Spec => [](GateInv))
<1> SUFFICES ASSUME Gate!QueueRecords
             PROVE  Gate!Spec => []GateInv
  OBVIOUS
<1>1. Gate!Init => GateInv
  BY GateInitInv
<1>2. GateInv /\ [Gate!Next]_(Gate!vars) => GateInv'
  BY GateNextInv
<1> QED BY <1>1, <1>2, PTL DEF Gate!Spec

\* A publication that reaches its confirmation consumed its permit under
\* consent in that very call, whatever it remembers and whatever was withdrawn
\* before or is withdrawn at the same time; and there is always another version
\* to go back to (school-publish-gate.mjs 209-273).
THEOREM ConfirmationNeedsConsent == DeliveryAssumption => (Delivery => []ConfirmedUnderConsent)
<1>1. GateInv => Gate!ConfirmedUnderConsent /\ Gate!PreviousIsAnother /\ Gate!GateTypeOK
  BY DEF GateInv, CallOK, Gate!ConfirmedUnderConsent, Gate!At, Gate!Idle
<1>2. GateInv \/ part # "queue" => ConfirmedUnderConsent
  BY <1>1 DEF ConfirmedUnderConsent
<1> QED BY <1>2, OneAtATime, GateSpecInv, PTL DEF Delivery, DeliveryAssumption

\* What becomes active was checked file by file in the call that made it so,
\* though the directory may be generated again at any moment; and a request
\* stays the request of one candidate and one proposal.
THEOREM OnlyVerifiedBecomesActive == DeliveryAssumption => (Delivery => ActiveWasVerified)
<1> SUFFICES ASSUME DeliveryAssumption
             PROVE  Delivery => ActiveWasVerified
  OBVIOUS
<1> DEFINE Gated == shown' # shown => shown'.candidate \in verified
           Goal == [/\ part = "queue" => Gated /\ RequestsStay
                    /\ part = "upload" => ReceiptWhenLive]_deliveryVars
<1>1. GateInv /\ [Gate!Next]_(Gate!vars) => Gated /\ RequestsStay
  BY GateNextInv DEF DeliveryAssumption
<1>3. PublishInv /\ [Next]_vars => ReceiptWhenLive
  BY ReceiptStep DEF PublishInv
<1>4. /\ GateInv /\ [Gate!Next]_(Gate!vars) /\ part # "upload" => Goal
      /\ PublishInv /\ [Next]_vars /\ part # "queue" => Goal
      /\ part # "queue" /\ part # "upload" => Goal
  BY <1>1, <1>3
<1> QED BY <1>4, OneAtATime, GateSpecInv, SpecInv, PTL
        DEF Delivery, DeliveryAssumption, ActiveWasVerified, Gate!Spec, Spec

-----------------------------------------------------------------------------
(* The HTTP acceptance of a package (WorkersObserve): lanes that make the   *)
(* planned requests against a server that may answer anything.              *)

N == Len(expected)
Active == {l \in Lanes : lanes[l] # Nothing}
Carried == [item : Nat, attempt : Nat]

\* What a request that no lane holds any more has left behind.
Judged(i) == expected[i].kind = "redirect" \/ i \in served

PlanOK ==
    IF result \in {"planning", "rejected"} THEN expected = <<>>
    ELSE Obs!Plannable(package) /\ expected = Obs!Ordered(Obs!Planned(package))

LanesOK ==
    /\ lanes \in [Lanes -> Carried \cup {Nothing}]
    /\ \A l \in Active : lanes[l].item \in 1..coming - 1 /\ lanes[l].attempt \in 1..Attempts
    /\ \A l, m \in Active : lanes[l].item = lanes[m].item => l = m

CountsOK ==
    /\ coming \in 1..N + 1
    /\ passed \in Nat /\ failed \in Nat /\ recorded \in Nat
    /\ passed + failed + Cardinality(Active) = coming - 1
    /\ recorded <= failed /\ recorded <= MaxFailures
    /\ recorded < failed => recorded = MaxFailures

ServedOK ==
    /\ served \subseteq 1..N
    /\ failed = 0 => \A i \in 1..coming - 1 : (\E l \in Active : lanes[l].item = i) \/ Judged(i)

EndOK ==
    /\ result \in {"planning", "running", "rejected", "passed", "failed"}
    /\ result \in {"passed", "failed"} => Obs!NothingLeft /\ Active = {}
    /\ result = "passed" => failed = 0

\* The inductive invariant: every request that was taken is in one lane or was
\* judged, and the counts say how many.
ObserveInv ==
    /\ package \in Obs!AnyPackage
    /\ expected \in Seq(Obs!Planned(package)) /\ PlanOK /\ LanesOK /\ CountsOK /\ ServedOK /\ EndOK

\* The instance counts as this module does.
LEMMA FinitenessIsOne ==
    \A S : (Obs!IsFiniteSet(S) <=> IsFiniteSet(S)) /\ Obs!Cardinality(S) = Cardinality(S)
BY DEF Obs!IsFiniteSet, IsFiniteSet, Obs!Cardinality, Cardinality

\* The files, redirects and routes a package plans are finitely many.
LEMMA PlannedIsFinite ==
    ASSUME Obs!WorkersObserveAssumption, NEW p \in Obs!AnyPackage
    PROVE  IsFiniteSet(Obs!Planned(p))
<1> DEFINE Assets == {g \in p.files : Obs!Last(g) \notin Obs!Control \cup {"404"}}
           Lost == {g \in p.files : Obs!Last(g) = "404"}
           asset(f) == Obs!Item("asset", Obs!Url(f), f, Obs!ExpectedHeaders(p.headers, Obs!Url(f)))
           lost(f) == Obs!Item("not-found", Obs!Missing, f, <<>>)
           redirect(u) == Obs!Item("redirect", u, Nothing, <<>>)
           shell(u) == Obs!Item("shell", u, CHOOSE f \in p.files : Obs!Url(f) = <<"">>, Obs!ExpectedHeaders(p.headers, <<"">>))
           A == {asset(f) : f \in Assets}
           B == {lost(f) : f \in Lost}
           C == {redirect(u) : u \in p.redirects}
           D == {shell(u) : u \in p.shell}
<1>1. IsFiniteSet(Assets) /\ IsFiniteSet(Lost) /\ IsFiniteSet(p.redirects) /\ IsFiniteSet(p.shell)
  <2>1. Assets \in SUBSET Files /\ Lost \in SUBSET Files /\ p.redirects \in SUBSET Redirects /\ p.shell \in SUBSET Shells
    BY DEF Obs!AnyPackage
  <2>2. IsFiniteSet(Files) /\ IsFiniteSet(Redirects) /\ IsFiniteSet(Shells)
    BY FinitenessIsOne DEF Obs!WorkersObserveAssumption
  <2> HIDE DEF Assets, Lost
  <2> QED BY <2>1, <2>2, FS_Subset
<1>2. IsFiniteSet(A)
  <2>1. [f \in Assets |-> asset(f)] \in Surjection(Assets, A)
    <3>1. [f \in Assets |-> asset(f)] \in [Assets -> A]
      OBVIOUS
    <3>2. \A t \in A : \E s \in Assets : [f \in Assets |-> asset(f)][s] = t
      OBVIOUS
    <3> HIDE DEF A, Assets, asset
    <3> QED BY <3>1, <3>2, Fun_IsSurj
  <2> HIDE DEF A, Assets, asset
  <2> QED BY <2>1, <1>1, FS_Surjection
<1>3. IsFiniteSet(B)
  <2>1. [f \in Lost |-> lost(f)] \in Surjection(Lost, B)
    <3>1. [f \in Lost |-> lost(f)] \in [Lost -> B]
      OBVIOUS
    <3>2. \A t \in B : \E s \in Lost : [f \in Lost |-> lost(f)][s] = t
      OBVIOUS
    <3> HIDE DEF B, Lost, lost
    <3> QED BY <3>1, <3>2, Fun_IsSurj
  <2> HIDE DEF B, Lost, lost
  <2> QED BY <2>1, <1>1, FS_Surjection
<1>4. IsFiniteSet(C)
  <2>1. [f \in p.redirects |-> redirect(f)] \in Surjection(p.redirects, C)
    <3>1. [f \in p.redirects |-> redirect(f)] \in [p.redirects -> C]
      OBVIOUS
    <3>2. \A t \in C : \E s \in p.redirects : [f \in p.redirects |-> redirect(f)][s] = t
      OBVIOUS
    <3> HIDE DEF C, redirect
    <3> QED BY <3>1, <3>2, Fun_IsSurj
  <2> HIDE DEF C, redirect
  <2> QED BY <2>1, <1>1, FS_Surjection
<1>5. IsFiniteSet(D)
  <2>1. [f \in p.shell |-> shell(f)] \in Surjection(p.shell, D)
    <3>1. [f \in p.shell |-> shell(f)] \in [p.shell -> D]
      OBVIOUS
    <3>2. \A t \in D : \E s \in p.shell : [f \in p.shell |-> shell(f)][s] = t
      OBVIOUS
    <3> HIDE DEF D, shell
    <3> QED BY <3>1, <3>2, Fun_IsSurj
  <2> HIDE DEF D, shell
  <2> QED BY <2>1, <1>1, FS_Surjection
<1>6. Obs!Planned(p) = A \cup B \cup C \cup D
  BY DEF Obs!Planned
<1> HIDE DEF A, B, C, D
<1> QED BY <1>2, <1>3, <1>4, <1>5, <1>6, FS_Union

\* The order of the plan is one: every request of a finite set is in it, and
\* only once.
LEMMA OrderedIsAll ==
    ASSUME NEW S, IsFiniteSet(S)
    PROVE  /\ Obs!Ordered(S) \in [1..Cardinality(S) -> S] /\ Obs!Ordered(S) \in Seq(S)
           /\ Cardinality(S) \in Nat /\ Len(Obs!Ordered(S)) = Cardinality(S)
           /\ \A i, j \in 1..Cardinality(S) : Obs!Ordered(S)[i] = Obs!Ordered(S)[j] => i = j
           /\ \A x \in S : \E i \in 1..Cardinality(S) : Obs!Ordered(S)[i] = x
<1> DEFINE n == Cardinality(S)
           Once(s) == \A i, j \in 1..n : s[i] = s[j] => i = j
<1>1. n \in Nat /\ ExistsBijection(1..n, S)
  BY FS_CardinalityType
<1>2. \E s \in [1..n -> S] : Once(s)
  BY <1>1, Fun_ExistsBij, Fun_BijectionProperties
<1>3. Obs!Ordered(S) \in [1..n -> S] /\ Once(Obs!Ordered(S))
  BY <1>2, FinitenessIsOne DEF Obs!Ordered
<1>4. Obs!Ordered(S) \in Seq(S) /\ Len(Obs!Ordered(S)) = n
  BY <1>1, <1>3
<1>5. Obs!Ordered(S) \in Injection(1..n, S)
  BY <1>3, Fun_IsInj
<1>6. Cardinality(1..n) = n
  BY <1>1, FS_Interval
<1>7. Obs!Ordered(S) \in Surjection(1..n, S)
  BY <1>5, <1>6, FS_Injection
<1>8. \A x \in S : \E i \in 1..n : Obs!Ordered(S)[i] = x
  BY <1>7 DEF Surjection
<1> QED BY <1>1, <1>3, <1>4, <1>8

LEMMA ObserveInitInv == Obs!WorkersObserveAssumption /\ Obs!Init => ObserveInv
<1> SUFFICES ASSUME Obs!WorkersObserveAssumption, Obs!Init
             PROVE  ObserveInv
  OBVIOUS
<1>1. expected = <<>> /\ N = 0 /\ coming = 1 /\ Active = {} /\ MaxFailures \in Nat
  BY DEF Obs!Init, N, Active, Obs!WorkersObserveAssumption
<1>2. Cardinality(Active) = 0
  BY <1>1, FS_EmptySet
<1>3. CountsOK
  BY <1>1, <1>2 DEF CountsOK, Obs!Init
<1>4. package \in Obs!AnyPackage /\ expected \in Seq(Obs!Planned(package)) /\ PlanOK
  BY <1>1 DEF Obs!Init, PlanOK
<1>5. LanesOK /\ ServedOK /\ EndOK
  BY <1>1 DEF LanesOK, ServedOK, EndOK, Obs!Init
<1> QED BY <1>3, <1>4, <1>5 DEF ObserveInv

\* Nothing has been taken before the plan is made.
LEMMA PlanKeeps == Obs!WorkersObserveAssumption /\ ObserveInv /\ Obs!Plan => ObserveInv'
<1> SUFFICES ASSUME Obs!WorkersObserveAssumption, ObserveInv, Obs!Plan
             PROVE  ObserveInv'
  OBVIOUS
<1>1. /\ package \in Obs!AnyPackage /\ result = "planning" /\ expected = <<>> /\ N = 0
      /\ UNCHANGED <<package, coming, lanes, passed, failed, recorded, served>>
  BY DEF ObserveInv, PlanOK, Obs!Plan, N
<1>2. coming = 1 /\ Active = {} /\ served = {} /\ failed \in Nat
  BY <1>1 DEF ObserveInv, CountsOK, LanesOK, ServedOK
<1>3. Active' = Active
  BY <1>1 DEF Active
<1>4. expected' \in Seq(Obs!Planned(package)) /\ N' \in Nat
  <2>1. CASE Obs!Plannable(package)
    BY <1>1, <2>1, PlannedIsFinite, OrderedIsAll DEF Obs!Plan, N
  <2>2. CASE ~Obs!Plannable(package)
    BY <1>1, <2>2 DEF Obs!Plan, N
  <2> QED BY <2>1, <2>2
<1>5. PlanOK' /\ EndOK'
  BY <1>1 DEF Obs!Plan, PlanOK, EndOK
<1>6. LanesOK' /\ ServedOK'
  BY <1>1, <1>2, <1>3 DEF ObserveInv, LanesOK, ServedOK
<1>7. CountsOK'
  <2>1. Cardinality(Active)' = Cardinality(Active)
    BY <1>3
  <2>2. coming' \in 1..N' + 1
    <3>1. coming' = 1
      BY <1>1, <1>2
    <3>2. PICK k \in Nat : N' = k
      BY <1>4
    <3>3. 1 \in 1..k + 1
      OBVIOUS
    <3> QED BY <3>1, <3>2, <3>3
  <2> QED BY <1>1, <2>1, <2>2 DEF ObserveInv, CountsOK
<1> QED BY <1>1, <1>4, <1>5, <1>6, <1>7 DEF ObserveInv

\* A lane takes the coming request, and no other lane gets it.
LEMMA TakenKeeps ==
    ASSUME Obs!WorkersObserveAssumption, ObserveInv, NEW l \in Lanes, Obs!Taken(l)
    PROVE  ObserveInv'
<1> DEFINE r == [item |-> coming, attempt |-> 1]
<1>1. /\ result = "running" /\ lanes[l] = Nothing /\ coming <= N /\ coming \in Nat /\ N \in Nat
      /\ lanes' = [lanes EXCEPT ![l] = r] /\ coming' = coming + 1
      /\ UNCHANGED <<package, expected, passed, failed, recorded, result, served>>
  BY DEF Obs!Taken, ObserveInv, CountsOK, N
<1>2. r \in Carried /\ r # Nothing /\ r.item = coming /\ r.attempt = 1 /\ 1 \in 1..Attempts
  BY <1>1 DEF Carried, Obs!WorkersObserveAssumption
<1>3. lanes \in [Lanes -> Carried \cup {Nothing}] /\ lanes' \in [Lanes -> Carried \cup {Nothing}] /\ lanes'[l] = r
  BY <1>1, <1>2 DEF ObserveInv, LanesOK
<1>4. l \notin Active /\ Active' = Active \cup {l} /\ \A m \in Active : lanes'[m] = lanes[m]
  BY <1>1, <1>2, <1>3 DEF Active
<1>5. Cardinality(Active') = Cardinality(Active) + 1 /\ Cardinality(Active) \in Nat
  <2>1. IsFiniteSet(Active)
    BY FS_Subset, FinitenessIsOne DEF Active, Obs!WorkersObserveAssumption
  <2> QED BY <2>1, <1>4, FS_AddElement, FS_CardinalityType
<1>6. LanesOK'
  <2>1. \A m \in Active' : lanes'[m].item \in 1..coming' - 1 /\ lanes'[m].attempt \in 1..Attempts
    <3>1. lanes'[l].item \in 1..coming' - 1 /\ lanes'[l].attempt \in 1..Attempts
      <4> HIDE DEF r
      <4>1. coming \in 1..coming' - 1
        BY <1>1 DEF ObserveInv, CountsOK
      <4> QED BY <1>2, <1>3, <4>1
    <3>2. ASSUME NEW m \in Active
          PROVE  lanes'[m].item \in 1..coming' - 1 /\ lanes'[m].attempt \in 1..Attempts
      <4>1. lanes[m].item \in 1..coming - 1 /\ lanes[m].attempt \in 1..Attempts
        BY DEF ObserveInv, LanesOK
      <4>2. coming \in Nat /\ coming' = coming + 1 /\ lanes'[m] = lanes[m]
        BY <1>1, <1>4
      <4> QED BY <4>1, <4>2
    <3> QED BY <1>4, <3>1, <3>2
  <2>2. \A m, k \in Active' : lanes'[m].item = lanes'[k].item => m = k
    BY <1>1, <1>2, <1>3, <1>4 DEF ObserveInv, LanesOK
  <2> QED BY <1>3, <2>1, <2>2 DEF LanesOK
<1>7. CountsOK'
  BY <1>1, <1>5 DEF ObserveInv, CountsOK, N
<1>8. ServedOK'
  <2>1. ASSUME failed = 0, NEW i \in 1..coming' - 1
        PROVE  (\E m \in Active' : lanes'[m].item = i) \/ Judged(i)'
    <3>1. CASE i = coming
      BY <1>2, <1>3, <1>4, <3>1
    <3>2. CASE i \in 1..coming - 1
      BY <1>1, <1>4, <2>1, <3>2 DEF ObserveInv, ServedOK, Judged
    <3> QED BY <1>1, <3>1, <3>2
  <2> QED BY <1>1, <2>1 DEF ObserveInv, ServedOK, N
<1>9. PlanOK' /\ EndOK' /\ package' \in Obs!AnyPackage /\ expected' \in Seq(Obs!Planned(package'))
  BY <1>1 DEF ObserveInv, PlanOK, EndOK
<1> QED BY <1>6, <1>7, <1>8, <1>9 DEF ObserveInv

\* An answer is judged or the request is repeated; what one lane does touches
\* no request of another.
LEMMA AnsweredKeeps ==
    ASSUME Obs!WorkersObserveAssumption, ObserveInv, NEW l \in Lanes,
           NEW a \in Obs!Answers \cup {Nothing}, Obs!Answered(l, a)
    PROVE  ObserveInv'
<1> DEFINE i == lanes[l].item
           bad == Obs!Problems(expected[i], a)
           again == Obs!Retried(a, lanes[l].attempt)
           good == a # Nothing /\ a.status = "expected" /\ a.body = "same"
<1>1. /\ l \in Active /\ UNCHANGED <<package, expected, coming, result>>
      /\ served' = IF good THEN served \cup {i} ELSE served \ {i}
  BY DEF Obs!Answered, Active
<1>2. /\ lanes \in [Lanes -> Carried \cup {Nothing}] /\ lanes[l] \in Carried
      /\ i \in 1..coming - 1 /\ lanes[l].attempt \in 1..Attempts
      /\ \A m \in Active : m # l => lanes[m].item # i
      /\ coming \in 1..N + 1 /\ i \in 1..N /\ Attempts \in Nat /\ N \in Nat
  BY <1>1 DEF ObserveInv, LanesOK, CountsOK, Active, N, Obs!WorkersObserveAssumption
<1>3. result = "running"
  BY <1>1, <1>2 DEF ObserveInv, PlanOK, EndOK, N
<1>4. served' \subseteq 1..N'
  BY <1>1, <1>2 DEF ObserveInv, ServedOK, N
<1>5. PlanOK' /\ EndOK' /\ package' \in Obs!AnyPackage /\ expected' \in Seq(Obs!Planned(package')) /\ N' = N
  BY <1>1, <1>3 DEF ObserveInv, PlanOK, EndOK, N
<1>6. ASSUME NEW j \in 1..coming - 1, j # i
      PROVE  Judged(j)' <=> Judged(j)
  BY <1>1, <1>6 DEF Judged
<1>7. IsFiniteSet(Active)
  BY FS_Subset, FinitenessIsOne DEF Active, Obs!WorkersObserveAssumption
<1>8. CASE again
  <2>1. lanes' = [lanes EXCEPT ![l].attempt = @ + 1] /\ UNCHANGED <<passed, failed, recorded>>
    BY <1>8 DEF Obs!Answered
  <2>2. lanes[l].attempt + 1 \in 1..Attempts
    BY <1>2, <1>8 DEF Obs!Retried
  <2>3. lanes'[l] \in Carried /\ lanes'[l].item = i /\ lanes'[l].attempt = lanes[l].attempt + 1
    BY <1>2, <2>1, <2>2 DEF Carried
  <2>4. lanes'[l] # Nothing
    BY <2>3 DEF Carried, Obs!WorkersObserveAssumption
  <2>5. lanes' \in [Lanes -> Carried \cup {Nothing}] /\ \A m \in Lanes : m # l => lanes'[m] = lanes[m]
    BY <1>2, <2>1, <2>3
  <2>6. Active' = Active
    BY <1>1, <2>4, <2>5 DEF Active
  <2>7. LanesOK'
    <3>1. \A m \in Active : lanes'[m].item = lanes[m].item /\ lanes'[m].attempt \in 1..Attempts
      BY <2>2, <2>3, <2>5 DEF ObserveInv, LanesOK, Active
    <3>2. \A m \in Active : lanes'[m].item \in 1..coming' - 1
      BY <1>1, <3>1 DEF ObserveInv, LanesOK
    <3>3. \A m, k \in Active : lanes'[m].item = lanes'[k].item => m = k
      BY <3>1 DEF ObserveInv, LanesOK
    <3> QED BY <2>5, <2>6, <3>1, <3>2, <3>3 DEF LanesOK
  <2>8. CountsOK'
    BY <1>1, <1>5, <2>1, <2>6 DEF ObserveInv, CountsOK
  <2>9. ServedOK'
    <3>1. ASSUME failed = 0, NEW j \in 1..coming - 1
          PROVE  (\E m \in Active : lanes'[m].item = j) \/ Judged(j)'
      <4>1. CASE j = i
        BY <1>1, <2>3, <4>1
      <4>2. CASE j # i
        BY <1>1, <1>6, <2>5, <2>3, <3>1, <4>2 DEF ObserveInv, ServedOK, Active
      <4> QED BY <4>1, <4>2
    <3> QED BY <1>1, <1>4, <2>1, <2>6, <3>1 DEF ServedOK
  <2> QED BY <1>5, <2>7, <2>8, <2>9 DEF ObserveInv
<1>9. CASE ~again
  <2>1. /\ lanes' = [lanes EXCEPT ![l] = Nothing]
        /\ passed' = passed + (IF bad THEN 0 ELSE 1) /\ failed' = failed + (IF bad THEN 1 ELSE 0)
        /\ recorded' = IF bad /\ recorded < MaxFailures THEN recorded + 1 ELSE recorded
    BY <1>9 DEF Obs!Answered, Obs!Recorded
  <2>2. lanes' \in [Lanes -> Carried \cup {Nothing}] /\ lanes'[l] = Nothing /\ \A m \in Lanes : m # l => lanes'[m] = lanes[m]
    BY <1>2, <2>1
  <2>3. Active' = Active \ {l}
    BY <1>1, <2>2 DEF Active
  <2>4. Cardinality(Active') = Cardinality(Active) - 1 /\ Cardinality(Active) \in Nat /\ Cardinality(Active') \in Nat
    BY <1>1, <1>7, <2>3, FS_RemoveElement, FS_CardinalityType
  <2>5. LanesOK'
    BY <1>1, <2>2, <2>3 DEF ObserveInv, LanesOK, Active
  <2>6. CountsOK'
    <3> HIDE DEF bad
    <3>1. MaxFailures \in Nat /\ passed \in Nat /\ failed \in Nat /\ recorded \in Nat /\ coming \in Nat
      BY <1>2 DEF ObserveInv, CountsOK, Obs!WorkersObserveAssumption
    <3>2. passed' \in Nat /\ failed' \in Nat
      BY <2>1, <3>1
    <3>3. /\ recorded' \in Nat /\ recorded' <= failed' /\ recorded' <= MaxFailures
          /\ recorded' < failed' => recorded' = MaxFailures
      BY <2>1, <3>1 DEF ObserveInv, CountsOK
    <3>4. passed' + failed' + Cardinality(Active') = coming' - 1
      <4> DEFINE c == Cardinality(Active)
                 d == Cardinality(Active')
      <4>1. passed + failed + c = coming - 1 /\ coming' = coming
        BY <1>1 DEF ObserveInv, CountsOK
      <4>2. d = c - 1 /\ c \in Nat /\ d \in Nat
        BY <2>4
      <4> HIDE DEF c, d
      <4>3. passed' + failed' + d = coming' - 1
        <5>1. CASE bad
          <6>1. passed' = passed /\ failed' = failed + 1
            BY <2>1, <3>1, <5>1
          <6> QED BY <3>1, <4>1, <4>2, <6>1
        <5>2. CASE ~bad
          <6>1. passed' = passed + 1 /\ failed' = failed
            BY <2>1, <3>1, <5>2
          <6> QED BY <3>1, <4>1, <4>2, <6>1
        <5> QED BY <5>1, <5>2
      <4> QED BY <4>3 DEF d
    <3> QED BY <1>1, <1>2, <1>5, <3>2, <3>3, <3>4 DEF CountsOK
  <2>7. ServedOK'
    <3>1. ASSUME failed' = 0, NEW j \in 1..coming - 1
          PROVE  (\E m \in Active' : lanes'[m].item = j) \/ Judged(j)'
      <4>1. ~bad /\ failed = 0
        BY <2>1, <3>1 DEF ObserveInv, CountsOK
      <4>2. CASE j = i
        BY <1>1, <4>1, <4>2 DEF Judged, Obs!Problems
      <4>3. CASE j # i
        <5>1. CASE Judged(j)
          BY <1>6, <4>3, <5>1
        <5>2. CASE \E m \in Active : lanes[m].item = j
          BY <2>2, <2>3, <4>3, <5>2 DEF Active
        <5> QED BY <3>1, <4>1, <5>1, <5>2 DEF ObserveInv, ServedOK
      <4> QED BY <4>2, <4>3
    <3> QED BY <1>1, <1>4, <3>1 DEF ServedOK
  <2> QED BY <1>5, <2>5, <2>6, <2>7 DEF ObserveInv
<1> QED BY <1>8, <1>9

LEMMA FinishKeeps == ObserveInv /\ Obs!Finish => ObserveInv'
<1> SUFFICES ASSUME ObserveInv, Obs!Finish
             PROVE  ObserveInv'
  OBVIOUS
<1>1. /\ result = "running" /\ result' \in {"passed", "failed"} /\ Obs!NothingLeft /\ Active = {}
      /\ result' = "passed" => failed = 0
      /\ UNCHANGED <<package, expected, coming, lanes, passed, failed, recorded, served>>
  BY DEF Obs!Finish, Active
<1>2. N' = N /\ Active' = Active
  BY <1>1 DEF N, Active
<1>3. EndOK' /\ PlanOK'
  BY <1>1, <1>2 DEF EndOK, PlanOK, ObserveInv, Obs!NothingLeft
<1>4. LanesOK' /\ CountsOK' /\ ServedOK'
  BY <1>1, <1>2 DEF LanesOK, CountsOK, ServedOK, Judged, ObserveInv
<1> QED BY <1>1, <1>3, <1>4 DEF ObserveInv

LEMMA ObserveNextInv ==
    ASSUME Obs!WorkersObserveAssumption, ObserveInv, [Obs!Next]_(Obs!vars)
    PROVE  ObserveInv'
<1>1. CASE UNCHANGED Obs!vars
  BY <1>1 DEF Obs!vars, ObserveInv, PlanOK, LanesOK, CountsOK, ServedOK, EndOK, Active, Judged, N, Obs!NothingLeft
<1>2. CASE Obs!Next
  BY <1>2, PlanKeeps, TakenKeeps, AnsweredKeeps, FinishKeeps DEF Obs!Next
<1> QED BY <1>1, <1>2

LEMMA ObserveSpecInv == Obs!WorkersObserveAssumption => (Obs!Spec => []ObserveInv)
<1> SUFFICES ASSUME Obs!WorkersObserveAssumption
             PROVE  Obs!Spec => []ObserveInv
  OBVIOUS
<1>1. Obs!Init => ObserveInv
  BY ObserveInitInv
<1>2. ObserveInv /\ [Obs!Next]_(Obs!vars) => ObserveInv'
  BY ObserveNextInv
<1> QED BY <1>1, <1>2, PTL DEF Obs!Spec

\* The plan while a package is observed: every request of the package once.
LEMMA PlanIsAll ==
    ASSUME Obs!WorkersObserveAssumption, ObserveInv, result \notin {"planning", "rejected"}
    PROVE  /\ IsFiniteSet(Obs!Planned(package)) /\ Obs!Plannable(package)
           /\ expected \in [1..N -> Obs!Planned(package)]
           /\ \A i, j \in 1..N : expected[i] = expected[j] => i = j
           /\ \A x \in Obs!Planned(package) : \E i \in 1..N : expected[i] = x
<1>1. IsFiniteSet(Obs!Planned(package))
  BY PlannedIsFinite DEF ObserveInv
<1>2. expected = Obs!Ordered(Obs!Planned(package)) /\ Obs!Plannable(package)
  BY DEF ObserveInv, PlanOK
<1>3. N = Cardinality(Obs!Planned(package))
  BY <1>1, <1>2, OrderedIsAll DEF N
<1> QED BY <1>1, <1>2, <1>3, OrderedIsAll

\* Everything but the control files was judged by what was served.
LEMMA JudgedAll ==
    ASSUME Obs!WorkersObserveAssumption, ObserveInv
    PROVE  Obs!PassedIsServed
<1> SUFFICES ASSUME result = "passed", NEW f \in package.files, Obs!Last(f) \notin Obs!Control
             PROVE  \E i \in DOMAIN expected : expected[i].file = f /\ i \in served
  BY DEF Obs!PassedIsServed
<1>1. PICK x \in Obs!Planned(package) : x.file = f /\ x.kind # "redirect"
  <2>1. CASE Obs!Last(f) = "404"
    <3> DEFINE x == Obs!Item("not-found", Obs!Missing, f, <<>>)
    <3>1. x \in Obs!Planned(package)
      BY <2>1 DEF Obs!Planned
    <3>2. x.file = f /\ x.kind = "not-found"
      BY DEF Obs!Item
    <3> QED BY <3>1, <3>2
  <2>2. CASE Obs!Last(f) # "404"
    <3> DEFINE x == Obs!Item("asset", Obs!Url(f), f, Obs!ExpectedHeaders(package.headers, Obs!Url(f)))
    <3>1. f \in {g \in package.files : Obs!Last(g) \notin Obs!Control \cup {"404"}}
      BY <2>2
    <3>2. x \in Obs!Planned(package)
      BY <3>1 DEF Obs!Planned
    <3>3. x.file = f /\ x.kind = "asset"
      BY DEF Obs!Item
    <3> QED BY <3>2, <3>3
  <2> QED BY <2>1, <2>2
<1>2. PICK i \in 1..N : expected[i] = x
  BY <1>1, PlanIsAll
<1>3. i \in 1..coming - 1 /\ Active = {} /\ failed = 0
  BY DEF ObserveInv, EndOK, CountsOK, Obs!NothingLeft, N
<1>4. Judged(i)
  BY <1>3 DEF ObserveInv, ServedOK
<1>5. DOMAIN expected = 1..N
  BY PlanIsAll
<1> QED BY <1>1, <1>2, <1>4, <1>5 DEF Judged

\* A package with two files at one URL is not plannable: one URL would have to
\* be counted for both.
LEMMA UrlsDiffer ==
    ASSUME Obs!WorkersObserveAssumption, ObserveInv
    PROVE  Obs!OneRequestForOneUrl
<1>1. CASE expected = <<>>
  BY <1>1 DEF Obs!OneRequestForOneUrl
<1>2. CASE expected # <<>>
  <2> DEFINE P == Obs!Planned(package)
             urls == {x.url : x \in P}
             url == [x \in P |-> x.url]
  <2>1. result \notin {"planning", "rejected"}
    BY <1>2 DEF ObserveInv, PlanOK
  <2>2. Cardinality(urls) = Cardinality(P) /\ IsFiniteSet(P)
    BY <2>1, PlanIsAll, FinitenessIsOne DEF Obs!Plannable
  <2>3. url \in Surjection(P, urls)
    <3>1. url \in [P -> urls] /\ \A t \in urls : \E s \in P : url[s] = t
      OBVIOUS
    <3> HIDE DEF P, urls, url
    <3> QED BY <3>1, Fun_IsSurj
  <2>4. url \in Injection(P, urls)
    <3> HIDE DEF P, urls, url
    <3> QED BY <2>2, <2>3, FS_Surjection
  <2>5. \A x, y \in P : x.url = y.url => x = y
    BY <2>4 DEF Injection, IsInjective
  <2> HIDE DEF P, urls, url
  <2>6. expected \in [1..N -> P] /\ \A i, j \in 1..N : expected[i] = expected[j] => i = j
    BY <2>1, PlanIsAll DEF P
  <2> QED BY <2>5, <2>6 DEF Obs!OneRequestForOneUrl
<1> QED BY <1>1, <1>2

\* The counts, from the sum over the lanes.
LEMMA CountsAndTypes ==
    ASSUME Obs!WorkersObserveAssumption, ObserveInv
    PROVE  Obs!EveryRequestCounts /\ Obs!ObserveTypeOK
<1>1. IsFiniteSet(Active)
  BY FS_Subset, FinitenessIsOne DEF Active, Obs!WorkersObserveAssumption
<1>2. Cardinality(Active) \in Nat
  BY <1>1, FS_CardinalityType
<1>3. /\ coming \in 1..N + 1 /\ passed \in Nat /\ failed \in Nat /\ recorded \in Nat
      /\ passed + failed + Cardinality(Active) = coming - 1 /\ recorded <= failed /\ recorded <= MaxFailures
      /\ recorded < failed => recorded = MaxFailures
  BY DEF ObserveInv, CountsOK
<1>4. N \in Nat /\ DOMAIN expected = 1..N
  BY DEF ObserveInv, N
<1>5. Obs!EveryRequestCounts
  <2>1. ASSUME result \in {"passed", "failed"}
        PROVE  passed + failed = N
    <3>1. Active = {} /\ coming = N + 1
      BY <1>3, <1>4, <2>1 DEF ObserveInv, EndOK, Obs!NothingLeft, N
    <3>2. Cardinality(Active) = 0
      BY <3>1, FS_EmptySet
    <3> QED BY <1>3, <1>4, <3>1, <3>2
  <2> QED BY <1>3, <2>1 DEF Obs!EveryRequestCounts, N
<1>6. {passed, failed, recorded} \subseteq 0..N
  BY <1>2, <1>3, <1>4
<1>7. \A l \in Lanes : lanes[l] = Nothing \/ (lanes[l].item \in 1..N /\ lanes[l].attempt \in 1..Attempts)
  BY <1>3, <1>4 DEF ObserveInv, LanesOK, Active
<1>8. Obs!ObserveTypeOK
  <2>1. package \in Obs!AnyPackage /\ served \subseteq DOMAIN expected /\ recorded <= MaxFailures
    BY <1>3, <1>4 DEF ObserveInv, ServedOK
  <2>2. result \in {"planning", "running", "rejected", "passed", "failed"}
    BY DEF ObserveInv, EndOK
  <2> QED BY <1>3, <1>6, <1>7, <2>1, <2>2 DEF Obs!ObserveTypeOK, N
<1> QED BY <1>5, <1>8

\* The rules for the Worker say what _routes.json said, of any path.
LEMMA RoutesAreKept == Obs!RoutesKept
<1> SUFFICES ASSUME NEW u
             PROVE  LET rules == Obs!RunWorkerFirst(package.include, package.exclude) IN
                    Obs!WorkerFirst(rules, u) <=>
                        /\ \E r \in package.include : Obs!Fits(r, u)
                        /\ ~\E r \in package.exclude : Obs!Fits(r, u)
  BY DEF Obs!RoutesKept
<1> DEFINE R == Obs!RunWorkerFirst(package.include, package.exclude)
<1>1. \A x : x \in R <=> \/ \E r \in package.include : x = [not |-> FALSE, pattern |-> r]
                         \/ \E r \in package.exclude : x = [not |-> TRUE, pattern |-> r]
  BY DEF Obs!RunWorkerFirst
<1> DEFINE rule(b, r) == [not |-> b, pattern |-> r]
<1>2. \A b, r : rule(b, r).not = b /\ rule(b, r).pattern = r
  OBVIOUS
<1>3. /\ \A r \in package.include : rule(FALSE, r) \in R
      /\ \A r \in package.exclude : rule(TRUE, r) \in R
      /\ \A x \in R : \/ x.not = FALSE /\ x.pattern \in package.include
                      \/ x.not = TRUE /\ x.pattern \in package.exclude
  BY <1>1, <1>2
<1> HIDE DEF rule, R
<1>4. (\E x \in R : ~x.not /\ Obs!Fits(x.pattern, u)) <=> \E r \in package.include : Obs!Fits(r, u)
  <2>1. ASSUME NEW x \in R, ~x.not, Obs!Fits(x.pattern, u)
        PROVE  \E r \in package.include : Obs!Fits(r, u)
    BY <1>3, <2>1
  <2>2. ASSUME NEW r \in package.include, Obs!Fits(r, u)
        PROVE  \E x \in R : ~x.not /\ Obs!Fits(x.pattern, u)
    <3>1. rule(FALSE, r) \in R /\ rule(FALSE, r).not = FALSE /\ rule(FALSE, r).pattern = r
      BY <1>2, <1>3
    <3> QED BY <2>2, <3>1
  <2> QED BY <2>1, <2>2
<1>5. (\A x \in R : x.not => ~Obs!Fits(x.pattern, u)) <=> ~\E r \in package.exclude : Obs!Fits(r, u)
  <2>1. ASSUME NEW x \in R, x.not, Obs!Fits(x.pattern, u)
        PROVE  \E r \in package.exclude : Obs!Fits(r, u)
    BY <1>3, <2>1
  <2>2. ASSUME NEW r \in package.exclude, Obs!Fits(r, u)
        PROVE  \E x \in R : x.not /\ Obs!Fits(x.pattern, u)
    <3>1. rule(TRUE, r) \in R /\ rule(TRUE, r).not = TRUE /\ rule(TRUE, r).pattern = r
      BY <1>2, <1>3
    <3> QED BY <2>2, <3>1
  <2> QED BY <2>1, <2>2
<1> QED BY <1>4, <1>5 DEF Obs!WorkerFirst, R

\* A package that passed its acceptance was answered as packaged for every file
\* but the control files, and the counts of the observation add up to its plan:
\* with any number of lanes, retries, answers that never come and a server that
\* may answer anything; no two files hide behind one URL, and the Worker is
\* asked first for exactly what _routes.json names (workers-observe.mjs 66-72,
\* 116-121, 214-251).
THEOREM ObservationIsHonest == DeliveryAssumption => (Delivery => []PassedIsServed)
<1> SUFFICES ASSUME DeliveryAssumption
             PROVE  Delivery => []PassedIsServed
  OBVIOUS
<1> USE DEF DeliveryAssumption
<1>1. ObserveInv => /\ Obs!PassedIsServed /\ Obs!EveryRequestCounts
                    /\ Obs!OneRequestForOneUrl /\ Obs!RoutesKept /\ Obs!ObserveTypeOK
  BY JudgedAll, CountsAndTypes, UrlsDiffer, RoutesAreKept
<1>2. ObserveInv \/ part # "lanes" => PassedIsServed
  BY <1>1 DEF PassedIsServed
<1> QED BY <1>2, OneAtATime, ObserveSpecInv, PTL DEF Delivery
=============================================================================
