---- MODULE FamilyShare ----
(***************************************************************************)
(* Family sharing on several devices: the hook useFamilyShare and the sheet *)
(* that uses it, over the RPCs of FamilyGroups. A device may change its    *)
(* account under the open sheet, a reload is an answer that may be late or *)
(* out of order, and an RPC may be lost before or after it took effect.    *)
(***************************************************************************)
EXTENDS FamilyGroups
CONSTANTS Devices,
          FirstUser,   \* whose account a device starts with
          Switches,    \* bound: changes of account
          Closings,    \* bound: the sheet is closed and opened again
          Failures,    \* bound: requests that fail
          MaxOps,      \* bound: buttons pressed
          Accepting,   \* bound: acceptances at one time
          Start        \* the groups there are to begin with
VARIABLES db, lock, client, switches, closings, failures, ops
vars == <<db, lock, client, switches, closings, failures, ops>>

NoOp == [kind |-> "none"]
NoView == [user |-> Nobody, rows |-> {}, seen |-> TRUE, told |-> TRUE]
NoShared == [for |-> Nobody, favs |-> {}, notes |-> {}]

\* A view is the rows a reload read and the account it read them for. History:
\* the device's own calls and the others of that account were before it.
MyGroups(c) == {r.group : r \in {s \in client[c].view.rows : s.user = client[c].view.user}}
MyRow(c, g) == CHOOSE r \in client[c].view.rows : r.group = g /\ r.user = client[c].view.user
Busy(c) == client[c].op.kind # "none"

\* reload() of a closure made for the account u. Its requests carry the
\* account the device has now.
Reload(me, u) ==
  LET gen == me.gen + 1
      mine == IF me.loaded = u THEN me ELSE [me EXCEPT !.view = NoView, !.err = FALSE, !.loaded = u]
  IN IF u = Nobody
     THEN [mine EXCEPT !.gen = gen, !.view = NoView, !.err = FALSE, !.loading = FALSE]
     ELSE [mine EXCEPT !.gen = gen, !.loading = TRUE,
                       !.reads = @ \cup {[gen |-> gen, for |-> u, as |-> me.user, got |-> "nothing",
                                          rows |-> {}, seen |-> TRUE, told |-> TRUE]}]

\* What the tables are like whatever was called: the keys of family_groups and
\* family_members, the owner's row that goes with a group, and the unique
\* (group_id, user_id) of memberships.
Sound(d) ==
  /\ d \in [owner : UNION {[G -> Users] : G \in SUBSET Groups}, rows : SUBSET Row, next : 1..(MaxRows + 1)]
  /\ \A r \in d.rows :
       /\ r.id < d.next /\ r.group \in DOMAIN d.owner
       /\ r.owner => r.user = d.owner[r.group]
  /\ \A r, s \in d.rows : r.id = s.id => r = s
  /\ \A g \in DOMAIN d.owner : \E r \in d.rows : r.group = g /\ r.owner
  /\ \A r, s \in d.rows : r.group = s.group /\ Active(r) /\ r.user = s.user => r = s

ShareConstants == FamilyConstants /\ FirstUser \in [Devices -> Users \cup {Nobody}] /\ Sound(Start)

Starting(u) == [user |-> u, open |-> TRUE, view |-> NoView, loaded |-> Nobody, loading |-> FALSE,
                err |-> FALSE, gen |-> 0, op |-> NoOp, reads |-> {}, invites |-> {}, shared |-> NoShared]
Init == /\ db = Start
        /\ lock = {}
        /\ client = [c \in Devices |-> Reload(Starting(FirstUser[c]), FirstUser[c])]
        /\ switches = 0 /\ closings = 0 /\ failures = 0 /\ ops = 0

Set(c, me) == client' = [client EXCEPT ![c] = me]

\* The account changes: the effect of useFamilyShare reloads for the new one.
SwitchUser(c) ==
  /\ switches < Switches
  /\ switches' = switches + 1
  /\ \E u \in (Users \cup {Nobody}) \ {client[c].user} :
       Set(c, Reload([client[c] EXCEPT !.user = u], u))
  /\ UNCHANGED <<db, lock, closings, failures, ops>>

\* An acceptance that has locked its row: [id, by, member].
Locked(id) == \E a \in lock : a.id = id

ServeRead(c) ==
  /\ \E r \in client[c].reads :
       /\ r.got = "nothing"
       /\ \/ /\ Set(c, [client[c] EXCEPT !.reads =
                          (@ \ {r}) \cup {[r EXCEPT !.got = "rows", !.rows = Visible(db, r.as)]}])
             /\ UNCHANGED failures
          \/ /\ failures < Failures /\ failures' = failures + 1
             /\ Set(c, [client[c] EXCEPT !.reads = (@ \ {r}) \cup {[r EXCEPT !.got = "error"]}])
  /\ UNCHANGED <<db, lock, switches, closings, ops>>

Answer(me, r) ==
  CASE r.gen # me.gen -> me
    [] r.gen = me.gen /\ r.got = "rows" ->
         [me EXCEPT !.view = [user |-> r.for, rows |-> r.rows, seen |-> r.seen, told |-> r.told],
                    !.err = FALSE, !.loading = FALSE]
    [] r.gen = me.gen /\ r.got = "error" -> [me EXCEPT !.err = TRUE, !.loading = FALSE]

\* What awaited the reload goes on: an invitation's address is shown.
AfterReload(me, r) ==
  CASE me.op.kind = "none" -> me
    [] me.op.kind # "none" /\ me.op.stage = "reload" /\ me.op.gen = r.gen ->
         [me EXCEPT !.op = NoOp, !.invites = IF me.op.kind = "invite" THEN @ \cup {me.op.group} ELSE @]
    [] OTHER -> me

DeliverRead(c) ==
  /\ \E r \in client[c].reads :
       /\ r.got # "nothing"
       /\ LET me == [client[c] EXCEPT !.reads = @ \ {r}] IN Set(c, AfterReload(Answer(me, r), r))
  /\ UNCHANGED <<db, lock, switches, closings, failures, ops>>

(* The buttons of the sheet. *)
Ready(c) == client[c].open /\ ~Busy(c) /\ Human(client[c].user)

Press(c, kind, group, args) ==
  /\ Ready(c) /\ ops < MaxOps /\ ops' = ops + 1
  /\ Set(c, [client[c] EXCEPT !.op = [kind |-> kind, group |-> group, args |-> args, stage |-> "sent",
                                      by |-> client[c].user, gen |-> 0, ok |-> FALSE, favs |-> Nobody,
                                      notes |-> Nobody]])
  /\ UNCHANGED <<db, lock, switches, closings, failures>>

PressCreate(c) ==
  /\ MyGroups(c) = {} => ~client[c].loading /\ ~client[c].err
  /\ Press(c, "create", Nobody, {})
IsOwner(c, g) == MyRow(c, g).owner
PressInvite(c) == \E g \in MyGroups(c) : IsOwner(c, g) /\ Press(c, "invite", g, {})
PressDelete(c) == \E g \in MyGroups(c) : IsOwner(c, g) /\ Press(c, "delete", g, {})
PressLeave(c) == \E g \in MyGroups(c) : ~IsOwner(c, g) /\ Press(c, "leave", g, {})
PressRemove(c) ==
  \E g \in MyGroups(c) : \E r \in client[c].view.rows :
    IsOwner(c, g) /\ r.group = g /\ r.user # client[c].view.user /\ Press(c, "remove", g, r.id)
\* The sheet does not say that a load failed, and no call it was not told of
\* came after what it shows.
Fresh(c) == client[c].view.told /\ ~client[c].err

\* Both flags are sent, the one that was not pressed as it is shown. History:
\* the row they are shown of, and whether that was fresh.
PressToggle(c) ==
  \E g \in MyGroups(c) : \E which \in {"fav", "note"} :
    Press(c, "share", g, [which |-> which, fav |-> MyRow(c, g).fav # (which = "fav"),
                          note |-> MyRow(c, g).note # (which = "note"),
                          row |-> MyRow(c, g).id, fresh |-> Fresh(c)])
PressShared(c) ==
  \E g \in MyGroups(c) : client[c].shared.for # g /\ Press(c, "shared", g, {})
HideShared(c) ==
  /\ Ready(c) /\ client[c].shared.for \in MyGroups(c)
  /\ Set(c, [client[c] EXCEPT !.shared.for = Nobody])
  /\ UNCHANGED <<db, lock, switches, closings, failures, ops>>
PressRetry(c) ==
  /\ Ready(c) /\ client[c].err /\ ~client[c].loading /\ ops < MaxOps /\ ops' = ops + 1
  /\ Set(c, Reload(client[c], client[c].user))
  /\ UNCHANGED <<db, lock, switches, closings, failures>>

\* Closing the sheet forgets what it showed for the moment.
CloseSheet(c) ==
  /\ client[c].open /\ closings < Closings /\ closings' = closings + 1
  /\ Set(c, [client[c] EXCEPT !.open = FALSE, !.invites = {}, !.shared = NoShared])
  /\ UNCHANGED <<db, lock, switches, failures, ops>>
OpenSheet(c) ==
  /\ ~client[c].open
  /\ Set(c, [client[c] EXCEPT !.open = TRUE])
  /\ UNCHANGED <<db, lock, switches, closings, failures, ops>>

\* The rows an RPC deletes or changes must not be locked by an acceptance.
Free(op) == \A r \in db.rows : r.group = op.group =>
              ~Locked(r.id) \/ op.kind \in {"create", "shared", "share", "leave"}
                            \/ (op.kind = "remove" /\ op.args # r.id)
                            \/ (op.kind = "invite" /\ ~r.expired)
Rpc(op) ==
  CASE op.kind = "create" -> CreateGroup(db, op.by)
    [] op.kind = "invite" -> CreateInvite(db, op.by, op.group)
    [] op.kind = "share"  -> SetShare(db, op.by, op.group, op.args.fav, op.args.note)
    [] op.kind = "leave"  -> Leave(db, op.by, op.group)
    [] op.kind = "remove" -> Remove(db, op.by, op.args)
    [] op.kind = "delete" -> DeleteGroup(db, op.by, op.group)

\* What was read before an RPC of this device took effect is old.
Unseen(me) == [me EXCEPT !.view.seen = FALSE, !.reads = {[r EXCEPT !.seen = r.got = "nothing"] : r \in @}]

\* The account u's sharing was changed by a call the device does not know of.
Untold(me, u) ==
  [me EXCEPT !.view.told = @ /\ me.view.user # u,
             !.reads = {[r EXCEPT !.told = r.told /\ (r.got = "nothing" \/ r.for # u)] : r \in @},
             !.op = IF me.op.kind = "share" /\ me.op.by = u THEN [me.op EXCEPT !.args.fresh = FALSE] ELSE @]

\* It takes effect, or fails before or after it did.
ServeOp(c) ==
  /\ Busy(c) /\ client[c].op.stage = "sent" /\ client[c].op.kind # "shared"
  /\ Free(client[c].op)
  /\ LET op == client[c].op
         answer == Rpc(op)
         to(me, ok) == [IF ok THEN Unseen(me) ELSE me EXCEPT !.op.stage = "answered", !.op.ok = ok]
         missed(x) == IF op.kind = "share" /\ answer.ok THEN Untold(client[x], op.by) ELSE client[x]
         all(me) == client' = [x \in Devices |-> IF x = c THEN me ELSE missed(x)]
     IN \/ db' = answer.db /\ all(to(client[c], answer.ok)) /\ UNCHANGED failures
        \/ /\ failures < Failures /\ failures' = failures + 1
           /\ \/ db' = db /\ Set(c, to(client[c], FALSE))
              \/ db' = answer.db /\ all(to(missed(c), FALSE))
  /\ UNCHANGED <<lock, switches, closings, ops>>

\* The two reads of the shared data are served one by one.
ServeShared(c) ==
  /\ Busy(c) /\ client[c].op.stage = "sent" /\ client[c].op.kind = "shared"
  /\ LET op == client[c].op IN
     \/ /\ op.favs = Nobody
        /\ LET a == SharedFavorites(db, op.by, op.group)
           IN Set(c, [client[c] EXCEPT !.op.favs = a.val, !.op.stage = IF a.ok THEN @ ELSE "answered"])
     \/ /\ op.notes = Nobody
        /\ LET a == SharedNotes(db, op.by, op.group)
           IN Set(c, [client[c] EXCEPT !.op.notes = a.val, !.op.stage = IF a.ok THEN @ ELSE "answered"])
     \/ /\ op.favs # Nobody /\ op.notes # Nobody
        /\ Set(c, [client[c] EXCEPT !.op.stage = "answered", !.op.ok = TRUE])
  /\ UNCHANGED <<db, lock, switches, closings, failures, ops>>

\* Wrong on purpose: nothing is loaded again.
DeliverOpNoReload(c) ==
  /\ Busy(c) /\ client[c].op.stage = "answered"
  /\ Set(c, [client[c] EXCEPT !.op = NoOp])
  /\ UNCHANGED <<db, lock, switches, closings, failures, ops>>

\* The answer: an error ends it, the rest reload as the account that pressed.
DeliverOp(c) ==
  /\ Busy(c) /\ client[c].op.stage = "answered"
  /\ LET me == client[c]
         op == me.op
     IN Set(c, CASE ~op.ok -> [me EXCEPT !.op = NoOp]
                 [] op.ok /\ op.kind = "shared" ->
                      [me EXCEPT !.op = NoOp, !.shared = [for |-> op.group, favs |-> op.favs, notes |-> op.notes]]
                 [] OTHER -> [Reload(me, op.by) EXCEPT !.op.stage = "reload", !.op.gen = me.gen + 1])
  /\ UNCHANGED <<db, lock, switches, closings, failures, ops>>

(* Invitations: they expire, and are accepted on the page of the link. *)
Expire ==
  /\ \E r \in db.rows : /\ ~Active(r) /\ ~r.expired
                        /\ db' = [db EXCEPT !.rows = (@ \ {r}) \cup {[r EXCEPT !.expired = TRUE]}]
  /\ UNCHANGED <<lock, client, switches, closings, failures, ops>>
AcceptBegins(u) ==
  /\ Cardinality(lock) < Accepting
  /\ \E r \in db.rows :
       /\ Acceptable(db, u, r.id) /\ ~Locked(r.id)
       /\ lock' = lock \cup {[id |-> r.id, by |-> u, member |-> Mine(db, u, r.group) # {}]}
  /\ UNCHANGED <<db, client, switches, closings, failures, ops>>
AcceptEnds ==
  /\ \E a \in lock : db' = Accept(db, a.by, a.id, a.member).db /\ lock' = lock \ {a}
  /\ UNCHANGED <<client, switches, closings, failures, ops>>

Serves(c) == ServeRead(c) \/ ServeOp(c) \/ ServeShared(c)
Delivers(c) == DeliverRead(c) \/ DeliverOp(c)
Next ==
  \/ \E c \in Devices :
       \/ SwitchUser(c) \/ Serves(c) \/ Delivers(c) \/ CloseSheet(c) \/ OpenSheet(c)
       \/ PressCreate(c) \/ PressInvite(c) \/ PressDelete(c) \/ PressLeave(c) \/ PressRemove(c)
       \/ PressToggle(c) \/ PressShared(c) \/ HideShared(c) \/ PressRetry(c)
  \/ Expire
  \/ \E u \in Users : AcceptBegins(u)
  \/ AcceptEnds
Spec == Init /\ [][Next]_vars
\* Requests are answered and answers arrive; transactions end.
FairSpec == Spec /\ \A c \in Devices : WF_vars(ServeRead(c)) /\ WF_vars(ServeOp(c)) /\ WF_vars(ServeShared(c))
                                         /\ WF_vars(DeliverRead(c)) /\ WF_vars(DeliverOp(c))
                 /\ WF_vars(AcceptEnds)

----
\* The variables keep their shape.
TypeOK ==
  /\ db.rows \subseteq Row /\ db.next \in 1..(MaxRows + 1) /\ DOMAIN db.owner \subseteq Groups
  /\ \A c \in Devices :
       /\ client[c].user \in Users \cup {Nobody} /\ client[c].loaded \in Users \cup {Nobody}
       /\ Busy(c) => client[c].op.stage \in {"sent", "answered", "reload"}
       /\ client[c].shared.for \in Groups \cup {Nobody} /\ client[c].view.rows \subseteq Row

\* However accounts change on a screen and whoever presses what, a group
\* keeps its owner's row, and only that one says owner: leaving and removing
\* refuse it (leave_family_group, remove_family_member).
OwnerStays ==
  \A g \in DOMAIN db.owner :
    {r.user : r \in {s \in db.rows : s.group = g /\ s.owner}} = {db.owner[g]}

\* Two invitations of one group accepted by one person at the same time are
\* one membership (the unique (group_id, user_id) behind accept_family_invite,
\* whose exists check sees neither of the two).
OneRowPerMember ==
  \A r, s \in db.rows : r.group = s.group /\ Active(r) /\ r.user = s.user => r.id = s.id

\* Both together: in a group everybody has one row, and the owner the owner's.
OneRowPerPerson == OwnerStays /\ OneRowPerMember

\* A membership is never handed to somebody else, neither by a link used a
\* second time nor by two people using it at once (accept_family_invite locks
\* the row and looks at its status).
MembersKeepTheirRows == \A r \in db.rows, s \in db'.rows : r.id = s.id /\ Active(r) => s.user = r.user
InvitationIsForOne == [][MembersKeepTheirRows]_vars

\* Whenever its buttons are free and no load has failed, a device shows what it
\* has done itself, or nothing: the reload each RPC awaits is never overtaken by
\* one that was sent before it, nor left out when the account changes meanwhile
\* (useFamilyShare.ts reloadGeneration and loadedUserId, lines 85-153).
ReadYourWrites ==
  \A c \in DOMAIN client : ~Busy(c) /\ ~client[c].err => client[c].view.seen

====
