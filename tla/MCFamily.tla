-------------------- MODULE MCFamily --------------------
(* Sharing with a family, joining one by an invitation, and the maintenance
   flag every tab watches.  Each part is one component alone; a behaviour
   stays in its part. *)
EXTENDS FamilyShareProofs, Integers, Sequences, FiniteSets

Off == "off"

\* A row of a group: a membership, or an invitation that nobody has accepted.
ARow(id, user, owner) == [id |-> id, group |-> "g", user |-> user, owner |-> owner,
                          fav |-> FALSE, note |-> FALSE, expired |-> FALSE]

\* A family of two with an open invitation; the child shows its favourites.
Family == [owner |-> [g \in {"g"} |-> "mother"], next |-> 4,
           rows |-> {ARow(1, "mother", TRUE), [ARow(2, "child", FALSE) EXCEPT !.fav = TRUE],
                     ARow(3, Nobody, FALSE)}]

\* The two without it.
Couple == [Family EXCEPT !.next = 3, !.rows = {r \in @ : Active(r)}]

\* The mother's device and the child's.
FirstOnDevices == [d1 |-> "mother", d2 |-> "child"]

\* A group of one person with two invitations.
Invitations == [owner |-> [g \in {"g"} |-> "mother"], next |-> 4,
                rows |-> {ARow(1, "mother", TRUE), ARow(2, Nobody, FALSE), ARow(3, Nobody, FALSE)}]

SameAccount == INSTANCE FamilyShare WITH Users <- {"mother", "child"}, Anonymous <- {},
                                         Groups <- {"g"}, MaxRows <- 4,
                                         Devices <- {"d1", "d2"},
                                         FirstUser <- [d1 |-> "child", d2 |-> "child"],
                                         Switches <- 0, Closings <- 0, Failures <- 1,
                                         MaxOps <- 2, Accepting <- 1, Start <- Family
Switching == INSTANCE FamilyShare WITH Users <- {"mother", "child"}, Anonymous <- {},
                                       Groups <- {"g"}, MaxRows <- 4, Devices <- {"d1"},
                                       FirstUser <- [d1 |-> "child"], Switches <- 2,
                                       Closings <- 0, Failures <- 0, MaxOps <- 2,
                                       Accepting <- 0, Start <- Couple
Invites == INSTANCE FamilyShare WITH Users <- {"mother", "father", "child"}, Anonymous <- {},
                                     Groups <- {"g"}, MaxRows <- 4, Devices <- {"d1"},
                                     FirstUser <- [d1 |-> "mother"], Switches <- 0,
                                     Closings <- 1, Failures <- 0, MaxOps <- 1, Accepting <- 2,
                                     Start <- Invitations

restOfShare == <<part, account, storage, page, memory, stored, asked, accepts, invite, members,
                 ended, holder, bounds, flag, visible, watcher, timer, reads, dbOn, loading,
                 lastReadFailed, control, mounts, posts, inOrder, toggled, flagSwitches,
                 flagFailures>>
ShareAlone ==
    /\ account = Off /\ storage = Off /\ page = Off /\ memory = Off /\ stored = Off /\
       asked = Off /\ accepts = Off /\ invite = Off /\ members = Off /\ ended = Off /\
       holder = Off /\ bounds = Off /\ flag = Off /\ visible = Off /\ watcher = Off /\
       timer = Off /\ reads = Off /\ dbOn = Off /\ loading = Off /\ lastReadFailed = Off /\
       control = Off /\ mounts = Off /\ posts = Off /\ inOrder = Off /\ toggled = Off /\
       flagSwitches = Off /\ flagFailures = Off

restOfJoin == <<part, db, lock, client, switches, closings, failures, ops, flag, visible,
                watcher, timer, reads, dbOn, loading, lastReadFailed, control, mounts, posts,
                inOrder, toggled, flagSwitches, flagFailures>>
JoinAlone ==
    /\ db = Start /\ lock = Off /\ client = Off /\ switches = Off /\ closings = Off /\
       failures = Off /\ ops = Off /\ flag = Off /\ visible = Off /\ watcher = Off /\
       timer = Off /\ reads = Off /\ dbOn = Off /\ loading = Off /\ lastReadFailed = Off /\
       control = Off /\ mounts = Off /\ posts = Off /\ inOrder = Off /\ toggled = Off /\
       flagSwitches = Off /\ flagFailures = Off

restOfFlag == <<part, db, lock, client, switches, closings, failures, ops, account, storage,
                page, memory, stored, asked, accepts, invite, members, ended, holder, bounds>>
FlagAlone ==
    /\ db = Start /\ lock = Off /\ client = Off /\ switches = Off /\ closings = Off /\
       failures = Off /\ ops = Off /\ account = Off /\ storage = Off /\ page = Off /\
       memory = Off /\ stored = Off /\ asked = Off /\ accepts = Off /\ invite = Off /\
       members = Off /\ ended = Off /\ holder = Off /\ bounds = Off

SuiteInit ==
    \/ part = "devices" /\ Init /\ ShareAlone
    \/ part = "same" /\ SameAccount!Init /\ ShareAlone
    \/ part = "switch" /\ Switching!Init /\ ShareAlone
    \/ part = "invites" /\ Invites!Init /\ ShareAlone
    \/ part = "join" /\ Join!Init /\ JoinAlone
    \/ part = "flag" /\ Flag!Init /\ FlagAlone

SuiteNext ==
    \/ part = "devices" /\ Next /\ UNCHANGED restOfShare
    \/ part = "same" /\ SameAccount!Next /\ UNCHANGED restOfShare
    \/ part = "switch" /\ Switching!Next /\ UNCHANGED restOfShare
    \/ part = "invites" /\ Invites!Next /\ UNCHANGED restOfShare
    \/ part = "join" /\ Join!Next /\ UNCHANGED restOfJoin
    \/ part = "flag" /\ Flag!Next /\ UNCHANGED restOfFlag

suiteVars == <<part, db, lock, client, switches, closings, failures, ops, account, storage,
               page, memory, stored, asked, accepts, invite, members, ended, holder, bounds,
               flag, visible, watcher, timer, reads, dbOn, loading, lastReadFailed, control,
               mounts, posts, inOrder, toggled, flagSwitches, flagFailures>>

SuiteSpec == SuiteInit /\ [][SuiteNext]_suiteVars

ASSUME Bounds ==
    /\ ShareConstants /\ SameAccount!ShareConstants /\ Switching!ShareConstants /\ Invites!ShareConstants
    /\ Flag!MaintenanceAssumption
============================================================
