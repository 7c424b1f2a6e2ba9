------------------------- MODULE FamilyShareProofs -------------------------
(***************************************************************************)
(* What FamilyShare keeps for every set of accounts, groups and devices    *)
(* and every bound: the tables stay sound whichever calls of whichever     *)
(* devices and acceptances are interleaved, and a device that is at rest   *)
(* shows what it did itself.                                               *)
(*                                                                         *)
(* The calls are lemmas about the operators of FamilyGroups.  Two things   *)
(* that are not in the tables are needed beside: an invitation somebody is *)
(* accepting is still there and still open, and a row a device was shown   *)
(* once, if it is there still, is in the group it was shown in, so that    *)
(* removing it cannot hit a row of another group that is locked.           *)
(*                                                                         *)
(* Where every account has one device, the two buttons that share change   *)
(* nothing but what was pressed: the sheet's values go with the call.      *)
(*                                                                         *)
(* Then the maintenance flag, which closes the same tables                 *)
(* (MaintenanceFlag): what a page holds of it is no older than what it saw; *)
(* and the page behind an invitation link (FamilyJoin): it asks to confirm *)
(* only what was previewed for the account it shows, and offers what was   *)
(* put by to nobody but the account that opened the link.                  *)
(***************************************************************************)
EXTENDS FamilyShare, SequenceTheorems, TLAPS

-----------------------------------------------------------------------------
(* The tables, call by call.                                               *)

\* Sound, table by table: group owners, rows and the next id.
SoundTables(own, rows, next) ==
  /\ own \in [DOMAIN own -> Users] /\ DOMAIN own \subseteq Groups
  /\ rows \subseteq Row /\ next \in 1..(MaxRows + 1)
  /\ \A r \in rows : r.id < next /\ r.group \in DOMAIN own
  /\ \A r \in rows : r.owner => r.user = own[r.group] /\ Active(r)
  /\ \A r, s \in rows : r.id = s.id => r = s
  /\ \A g \in DOMAIN own : \E r \in rows : r.group = g /\ r.owner
  /\ \A r, s \in rows : r.group = s.group /\ Active(r) /\ r.user = s.user => r = s

\* A sound database is a record of three tables that are sound.
LEMMA SoundIsTables ==
  ASSUME FamilyConstants, NEW d, Sound(d)
  PROVE  /\ d = [owner |-> d.owner, rows |-> d.rows, next |-> d.next]
         /\ SoundTables(d.owner, d.rows, d.next)
<1>1. d.owner \in [DOMAIN d.owner -> Users] /\ DOMAIN d.owner \subseteq Groups
  BY DEF Sound
<1>2. \A r \in d.rows : r.owner => Active(r)
  BY <1>1 DEF Sound, Active, FamilyConstants
<1>3. d = [owner |-> d.owner, rows |-> d.rows, next |-> d.next]
  BY DEF Sound
<1>4. SoundTables(d.owner, d.rows, d.next)
  BY <1>1, <1>2 DEF Sound, SoundTables
<1> QED BY <1>3, <1>4

\* Three sound tables make a sound database.
LEMMA TablesAreSound ==
  ASSUME NEW own, NEW rows, NEW next, SoundTables(own, rows, next)
  PROVE  Sound([owner |-> own, rows |-> rows, next |-> next])
<1> DEFINE d == [owner |-> own, rows |-> rows, next |-> next]
<1>1. own \in UNION {[G -> Users] : G \in SUBSET Groups}
  BY DEF SoundTables
<1>2. d \in [owner : UNION {[G -> Users] : G \in SUBSET Groups}, rows : SUBSET Row, next : 1..(MaxRows + 1)]
  BY <1>1 DEF SoundTables
<1> QED BY <1>2 DEF Sound, SoundTables

\* Two tables of a sound database are replaced.
LEMMA RowsAndNext ==
  ASSUME FamilyConstants, NEW d, Sound(d), NEW R, NEW n
  PROVE  [d EXCEPT !.rows = R, !.next = n] = [owner |-> d.owner, rows |-> R, next |-> n]
<1>1. [d EXCEPT !.rows = R] = [owner |-> d.owner, rows |-> R, next |-> d.next]
  BY SoundIsTables
<1>2. [[owner |-> d.owner, rows |-> R, next |-> d.next] EXCEPT !.next = n]
        = [owner |-> d.owner, rows |-> R, next |-> n]
  OBVIOUS
<1> QED BY <1>1, <1>2, Zenon

LEMMA OwnersAndRows ==
  ASSUME FamilyConstants, NEW d, Sound(d), NEW own, NEW R
  PROVE  [d EXCEPT !.owner = own, !.rows = R] = [owner |-> own, rows |-> R, next |-> d.next]
<1>1. [d EXCEPT !.owner = own] = [owner |-> own, rows |-> d.rows, next |-> d.next]
  BY SoundIsTables
<1>2. [[owner |-> own, rows |-> d.rows, next |-> d.next] EXCEPT !.rows = R]
        = [owner |-> own, rows |-> R, next |-> d.next]
  OBVIOUS
<1> QED BY <1>1, <1>2, Zenon

\* create_family_group: the group and its owner's row, under a new id.
LEMMA CreateGroupSound ==
  ASSUME FamilyConstants, NEW d, Sound(d), NEW u
  PROVE  Sound(CreateGroup(d, u).db)
<1>1. CASE CreateGroup(d, u) = Refused(d)
  BY <1>1 DEF Refused
<1>2. CASE CreateGroup(d, u) # Refused(d)
  <2> DEFINE free == {y \in Groups : y \notin DOMAIN d.owner}
             g == CHOOSE x \in free : TRUE
             row == NewRow(d, g, u, TRUE)
             own == [x \in DOMAIN d.owner \cup {g} |-> IF x = g THEN u ELSE d.owner[x]]
  <2>0. SoundTables(d.owner, d.rows, d.next)
    BY SoundIsTables
  <2>r. d = [owner |-> d.owner, rows |-> d.rows, next |-> d.next]
    BY SoundIsTables
  <2>1. Human(u) /\ free # {} /\ ~(d.next > MaxRows)
    BY <1>2 DEF CreateGroup
  <2>2. g \in Groups /\ g \notin DOMAIN d.owner
    BY <2>1
  <2>3. CreateGroup(d, u).db = [owner |-> own, rows |-> d.rows \cup {row}, next |-> d.next + 1]
    <3>1. CreateGroup(d, u) = Done([owner |-> own, rows |-> d.rows \cup {row}, next |-> d.next + 1])
      BY <1>2 DEF CreateGroup
    <3> HIDE DEF own, row
    <3> QED BY <3>1 DEF Done
  <2>4. MaxRows \in Nat /\ d.next \in Int /\ d.next <= MaxRows /\ d.next >= 1
    BY <2>0, <2>1 DEF FamilyConstants, SoundTables
  <2>5. u \in Users /\ u # Nobody
    BY <2>1 DEF Human, FamilyConstants
  <2>6. row \in Row /\ row.id = d.next /\ row.group = g /\ row.owner = TRUE /\ row.user = u
    BY <2>2, <2>4, <2>5 DEF NewRow, Row, Ids
  <2>7. /\ own \in [DOMAIN d.owner \cup {g} -> Users] /\ DOMAIN own = DOMAIN d.owner \cup {g} /\ own[g] = u
        /\ \A x \in DOMAIN d.owner : own[x] = d.owner[x]
    BY <2>0, <2>2, <2>5 DEF SoundTables
  <2> HIDE DEF own, row, g
  <2>8. SoundTables(own, d.rows \cup {row}, d.next + 1)
    <3>1. \A r \in d.rows : r.group # g /\ r.id < d.next /\ r.id \in Int
      BY <2>0, <2>2 DEF SoundTables, Row, Ids
    <3>2. /\ own \in [DOMAIN own -> Users] /\ DOMAIN own \subseteq Groups
          /\ d.rows \cup {row} \subseteq Row /\ d.next + 1 \in 1..(MaxRows + 1)
      BY <2>0, <2>2, <2>4, <2>6, <2>7 DEF SoundTables
    <3>3. \A r \in d.rows \cup {row} : r.id < d.next + 1 /\ r.group \in DOMAIN own
      BY <3>1, <2>0, <2>4, <2>6, <2>7 DEF SoundTables
    <3>4. \A r \in d.rows \cup {row} : r.owner => r.user = own[r.group] /\ Active(r)
      BY <3>1, <2>0, <2>5, <2>6, <2>7 DEF SoundTables, Active
    <3>5. \A r, s \in d.rows \cup {row} : r.id = s.id => r = s
      BY <3>1, <2>0, <2>4, <2>6 DEF SoundTables
    <3>6. \A x \in DOMAIN own : \E r \in d.rows \cup {row} : r.group = x /\ r.owner
      BY <2>0, <2>6, <2>7 DEF SoundTables
    <3>7. \A r, s \in d.rows \cup {row} : r.group = s.group /\ Active(r) /\ r.user = s.user => r = s
      BY <3>1, <2>0, <2>6 DEF SoundTables
    <3> QED BY <3>2, <3>3, <3>4, <3>5, <3>6, <3>7 DEF SoundTables
  <2> QED BY <2>3, <2>8, TablesAreSound
<1> QED BY <1>1, <1>2

\* create_family_invite: expired invitations of the group go, one comes.
LEMMA CreateInviteSound ==
  ASSUME FamilyConstants, NEW d, Sound(d), NEW u, NEW g
  PROVE  Sound(CreateInvite(d, u, g).db)
<1>1. CASE CreateInvite(d, u, g) = Refused(d)
  BY <1>1 DEF Refused
<1>2. CASE CreateInvite(d, u, g) # Refused(d)
  <2> DEFINE row == NewRow(d, g, Nobody, FALSE)
             kept == {r \in d.rows : ~(r.group = g /\ ~Active(r) /\ r.expired)}
  <2>0. SoundTables(d.owner, d.rows, d.next)
    BY SoundIsTables
  <2>r. d = [owner |-> d.owner, rows |-> d.rows, next |-> d.next]
    BY SoundIsTables
  <2>1. ~(d.next > MaxRows) /\ g \in DOMAIN d.owner
    BY <1>2 DEF CreateInvite, Owns
  <2>2. MaxRows \in Nat /\ d.next \in Int /\ d.next <= MaxRows /\ d.next >= 1 /\ g \in Groups
    BY <2>0, <2>1 DEF FamilyConstants, SoundTables
  <2>3. row \in Row /\ row.id = d.next /\ row.group = g /\ row.owner = FALSE /\ row.user = Nobody
    BY <2>2 DEF NewRow, Row, Ids
  <2>4. kept \subseteq d.rows /\ \A r \in d.rows \ kept : ~Active(r)
    OBVIOUS
  <2>5. CreateInvite(d, u, g).db = [d EXCEPT !.rows = kept \cup {row}, !.next = d.next + 1]
    <3>1. CreateInvite(d, u, g) = Done([d EXCEPT !.rows = kept \cup {row}, !.next = d.next + 1])
      BY <1>2, Zenon DEF CreateInvite
    <3> HIDE DEF row, kept
    <3> QED BY <3>1 DEF Done
  <2> HIDE DEF row, kept
  <2>6. [d EXCEPT !.rows = kept \cup {row}, !.next = d.next + 1]
          = [owner |-> d.owner, rows |-> kept \cup {row}, next |-> d.next + 1]
    BY RowsAndNext, Zenon
  <2>7. SoundTables(d.owner, kept \cup {row}, d.next + 1)
    <3>1. \A r \in kept : r.id < d.next /\ r.id \in Int /\ r \in d.rows
      BY <2>0, <2>4 DEF SoundTables, Row, Ids
    <3>2. kept \cup {row} \subseteq Row /\ d.next + 1 \in 1..(MaxRows + 1)
      BY <2>0, <2>2, <2>3, <2>4 DEF SoundTables
    <3>3. \A r \in kept \cup {row} : r.id < d.next + 1 /\ r.group \in DOMAIN d.owner
      BY <3>1, <2>0, <2>1, <2>2, <2>3 DEF SoundTables
    <3>4. \A r \in kept \cup {row} : r.owner => r.user = d.owner[r.group] /\ Active(r)
      BY <3>1, <2>0, <2>3 DEF SoundTables
    <3>5. \A r, s \in kept \cup {row} : r.id = s.id => r = s
      BY <3>1, <2>0, <2>2, <2>3 DEF SoundTables
    <3>6. \A x \in DOMAIN d.owner : \E r \in kept \cup {row} : r.group = x /\ r.owner
      BY <2>0, <2>4 DEF SoundTables
    <3>7. \A r, s \in kept \cup {row} : r.group = s.group /\ Active(r) /\ r.user = s.user => r = s
      BY <3>1, <2>0, <2>3 DEF SoundTables, Active
    <3> QED BY <3>2, <3>3, <3>4, <3>5, <3>6, <3>7, <2>0 DEF SoundTables
  <2> QED BY <2>5, <2>6, <2>7, TablesAreSound
<1> QED BY <1>1, <1>2

\* set_family_share: two columns of the caller's own row.
LEMMA SetShareSound ==
  ASSUME FamilyConstants, NEW d, Sound(d), NEW u, NEW g, NEW fav \in BOOLEAN, NEW note \in BOOLEAN
  PROVE  Sound(SetShare(d, u, g, fav, note).db)
<1>1. CASE SetShare(d, u, g, fav, note) = Refused(d)
  BY <1>1 DEF Refused
<1>2. CASE SetShare(d, u, g, fav, note) # Refused(d)
  <2> DEFINE to(r) == IF r.group = g /\ r.user = u THEN [r EXCEPT !.fav = fav, !.note = note] ELSE r
             R == {to(r) : r \in d.rows}
  <2>0. SoundTables(d.owner, d.rows, d.next)
    BY SoundIsTables
  <2>r. d = [owner |-> d.owner, rows |-> d.rows, next |-> d.next]
    BY SoundIsTables
  <2>1. SetShare(d, u, g, fav, note).db = [d EXCEPT !.rows = R]
    <3>1. SetShare(d, u, g, fav, note) = Done([d EXCEPT !.rows = R])
      BY <1>2, Zenon DEF SetShare
    <3> HIDE DEF R
    <3> QED BY <3>1 DEF Done
  <2>2. \A r \in d.rows : /\ to(r) \in Row /\ to(r).id = r.id /\ to(r).group = r.group
                          /\ to(r).user = r.user /\ to(r).owner = r.owner
    <3> TAKE r \in d.rows
    <3>1. r \in Row
      BY <2>0 DEF SoundTables
    <3>2. LET s == [r EXCEPT !.fav = fav, !.note = note]
          IN s \in Row /\ s.id = r.id /\ s.group = r.group /\ s.user = r.user /\ s.owner = r.owner
      BY <3>1 DEF Row
    <3> QED BY <3>1, <3>2
  <2>3. \A r \in R : \E s \in d.rows : r = to(s)
    OBVIOUS
  <2>4. \A s \in d.rows : to(s) \in R
    OBVIOUS
  <2> HIDE DEF to, R
  <2>5. [d EXCEPT !.rows = R] = [owner |-> d.owner, rows |-> R, next |-> d.next]
    BY <2>r
  <2>6. SoundTables(d.owner, R, d.next)
    <3>1. R \subseteq Row
      BY <2>2, <2>3
    <3>2. \A r \in R : r.id < d.next /\ r.group \in DOMAIN d.owner
      BY <2>0, <2>2, <2>3 DEF SoundTables
    <3>3. \A r \in R : r.owner => r.user = d.owner[r.group] /\ Active(r)
      BY <2>0, <2>2, <2>3 DEF SoundTables, Active
    <3>4. \A r, s \in R : r.id = s.id => r = s
      BY <2>0, <2>2, <2>3 DEF SoundTables
    <3>5. \A x \in DOMAIN d.owner : \E r \in R : r.group = x /\ r.owner
      BY <2>0, <2>2, <2>4 DEF SoundTables
    <3>6. \A r, s \in R : r.group = s.group /\ Active(r) /\ r.user = s.user => r = s
      BY <2>0, <2>2, <2>3 DEF SoundTables, Active
    <3> QED BY <3>1, <3>2, <3>3, <3>4, <3>5, <3>6, <2>0 DEF SoundTables
  <2> QED BY <2>1, <2>5, <2>6, TablesAreSound
<1> QED BY <1>1, <1>2

\* Rows that go, none of them an owner's, leave the rest sound: what
\* leave_family_group and remove_family_member do, and what becomes of an
\* invitation a member used.
LEMMA FewerRowsSound ==
  ASSUME FamilyConstants, NEW d, Sound(d), NEW R, R \subseteq d.rows, \A r \in d.rows \ R : ~r.owner
  PROVE  Sound([d EXCEPT !.rows = R])
<1>1. SoundTables(d.owner, d.rows, d.next)
  BY SoundIsTables
<1>2. [d EXCEPT !.rows = R] = [owner |-> d.owner, rows |-> R, next |-> d.next]
  BY SoundIsTables
<1>3. SoundTables(d.owner, R, d.next)
  BY <1>1 DEF SoundTables
<1> QED BY <1>2, <1>3, TablesAreSound

LEMMA LeaveSound ==
  ASSUME FamilyConstants, NEW d, Sound(d), NEW u, NEW g
  PROVE  Sound(Leave(d, u, g).db)
<1>1. CASE Leave(d, u, g) = Refused(d)
  BY <1>1 DEF Refused
<1>2. CASE Leave(d, u, g) # Refused(d)
  <2>1. Leave(d, u, g).db = [d EXCEPT !.rows = @ \ Mine(d, u, g)] /\ \A r \in Mine(d, u, g) : ~r.owner
    BY <1>2 DEF Leave, Done
  <2>2. Sound([d EXCEPT !.rows = d.rows \ Mine(d, u, g)])
    BY <2>1, FewerRowsSound
  <2> QED BY <2>1, <2>2
<1> QED BY <1>1, <1>2

LEMMA RemoveSound ==
  ASSUME FamilyConstants, NEW d, Sound(d), NEW u, NEW id
  PROVE  Sound(Remove(d, u, id).db)
<1>1. CASE Remove(d, u, id) = Refused(d)
  BY <1>1 DEF Refused
<1>2. CASE Remove(d, u, id) # Refused(d)
  <2>1. /\ Remove(d, u, id).db = [d EXCEPT !.rows = {r \in @ : r.id # id}]
        /\ \E r \in d.rows : r.id = id /\ ~r.owner
    BY <1>2 DEF Remove, Done
  <2>2. \A r \in d.rows : r.id = id => ~r.owner
    BY <2>1 DEF Sound
  <2>3. Sound([d EXCEPT !.rows = {r \in d.rows : r.id # id}])
    BY <2>2, FewerRowsSound
  <2> QED BY <2>1, <2>3
<1> QED BY <1>1, <1>2

\* delete_family_group: the group with all its rows.
LEMMA DeleteGroupSound ==
  ASSUME FamilyConstants, NEW d, Sound(d), NEW u, NEW g
  PROVE  Sound(DeleteGroup(d, u, g).db)
<1>1. CASE DeleteGroup(d, u, g) = Refused(d)
  BY <1>1 DEF Refused
<1>2. CASE DeleteGroup(d, u, g) # Refused(d)
  <2> DEFINE own == [x \in DOMAIN d.owner \ {g} |-> d.owner[x]]
             R == {r \in d.rows : r.group # g}
  <2>0. SoundTables(d.owner, d.rows, d.next)
    BY SoundIsTables
  <2>r. d = [owner |-> d.owner, rows |-> d.rows, next |-> d.next]
    BY SoundIsTables
  <2>1. DeleteGroup(d, u, g).db = [d EXCEPT !.owner = own, !.rows = R]
    <3>1. DeleteGroup(d, u, g) = Done([d EXCEPT !.owner = own, !.rows = R])
      BY <1>2, Zenon DEF DeleteGroup
    <3> HIDE DEF own, R
    <3> QED BY <3>1 DEF Done
  <2>2. /\ own \in [DOMAIN d.owner \ {g} -> Users] /\ DOMAIN own = DOMAIN d.owner \ {g}
        /\ \A x \in DOMAIN own : own[x] = d.owner[x]
    BY <2>0 DEF SoundTables
  <2>3. R \subseteq d.rows /\ \A r \in d.rows : r \in R <=> r.group # g
    OBVIOUS
  <2> HIDE DEF own, R
  <2>4. [d EXCEPT !.owner = own, !.rows = R] = [owner |-> own, rows |-> R, next |-> d.next]
    BY OwnersAndRows, Zenon
  <2>5. SoundTables(own, R, d.next)
    BY <2>0, <2>2, <2>3 DEF SoundTables
  <2> QED BY <2>1, <2>4, <2>5, TablesAreSound
<1> QED BY <1>1, <1>2

-----------------------------------------------------------------------------
(* What becomes of a row.                                                  *)

\* Every row of e is a row of d, in the group it was in and a member's if it
\* was his, or has an id d never gave.
Follows(d, e) ==
  /\ d.next <= e.next
  /\ \A s \in e.rows : \/ \E r \in d.rows : /\ r.id = s.id /\ r.group = s.group
                                            /\ Active(r) => s.user = r.user
                       \/ s.id >= d.next

\* A new row has an id d never gave.
LEMMA RowsFollow ==
  ASSUME FamilyConstants, NEW d, Sound(d), NEW e, d.next <= e.next,
         \A s \in e.rows : s \in d.rows \/ s.id = d.next
  PROVE  Follows(d, e)
BY SoundIsTables DEF Follows, SoundTables, FamilyConstants

\* The calls of a device are create_family_group, create_family_invite,
\* set_family_share, leave_family_group, remove_family_member and
\* delete_family_group, with what each is sent with.
RpcKinds == {"create", "invite", "share", "leave", "remove", "delete"}
Called(op) == /\ op.kind \in RpcKinds
              /\ op.kind = "share" => op.args.fav \in BOOLEAN /\ op.args.note \in BOOLEAN

\* Every call keeps the tables sound.
LEMMA RpcSound ==
  ASSUME FamilyConstants, Sound(db), NEW op, Called(op)
  PROVE  Sound(Rpc(op).db)
<1>1. CASE op.kind = "create"
  BY <1>1, CreateGroupSound DEF Rpc
<1>2. CASE op.kind = "invite"
  BY <1>2, CreateInviteSound DEF Rpc
<1>3. CASE op.kind = "share"
  <2>1. op.args.fav \in BOOLEAN /\ op.args.note \in BOOLEAN
    BY <1>3 DEF Called
  <2>2. Sound(SetShare(db, op.by, op.group, op.args.fav, op.args.note).db)
    BY <2>1, SetShareSound
  <2> QED BY <1>3, <2>2 DEF Rpc
<1>4. CASE op.kind = "leave"
  BY <1>4, LeaveSound DEF Rpc
<1>5. CASE op.kind = "remove"
  BY <1>5, RemoveSound DEF Rpc
<1>6. CASE op.kind = "delete"
  BY <1>6, DeleteGroupSound DEF Rpc
<1> QED BY <1>1, <1>2, <1>3, <1>4, <1>5, <1>6 DEF Called, RpcKinds

\* What a call does to the rows: it makes one at most, and takes away some.
LEMMA RpcRows ==
  ASSUME FamilyConstants, Sound(db), NEW op, Called(op)
  PROVE  /\ Follows(db, Rpc(op).db)
         /\ \A r \in db.rows :
              ~Active(r) /\ r \notin Rpc(op).db.rows =>
                \/ op.kind = "invite" /\ r.group = op.group /\ r.expired
                \/ op.kind = "remove" /\ r.id = op.args
                \/ op.kind = "delete" /\ r.group = op.group
         /\ \A s \in Rpc(op).db.rows :
              \/ s \in db.rows \/ s.id = db.next
              \/ /\ op.kind = "share"
                 /\ \E r \in db.rows : /\ s = [r EXCEPT !.fav = op.args.fav, !.note = op.args.note]
                                       /\ r.group = op.group /\ r.user = op.by
<1> DEFINE e == Rpc(op).db
<1>0. SoundTables(db.owner, db.rows, db.next) /\ db.next \in Int
      /\ db = [owner |-> db.owner, rows |-> db.rows, next |-> db.next]
  BY SoundIsTables DEF SoundTables, FamilyConstants
<1>a. Follows(db, db)
  BY <1>0 DEF Follows
<1>b. CASE e = db
  BY <1>a, <1>b
<1>1. CASE op.kind = "create"
  <2>1. Rpc(op) = CreateGroup(db, op.by)
    BY <1>1 DEF Rpc
  <2>2. CASE CreateGroup(db, op.by) = Refused(db)
    <3>1. e = db
      BY <2>1, <2>2 DEF Refused
    <3> QED BY <1>b, <3>1
  <2>3. CASE CreateGroup(db, op.by) # Refused(db)
    <3>1. PICK row, own : row.id = db.next
                       /\ e = [owner |-> own, rows |-> db.rows \cup {row}, next |-> db.next + 1]
      <4>1. \E g, own : CreateGroup(db, op.by)
              = Done([owner |-> own, rows |-> db.rows \cup {NewRow(db, g, op.by, TRUE)}, next |-> db.next + 1])
        BY <2>3 DEF CreateGroup
      <4>2. PICK g, own : CreateGroup(db, op.by)
              = Done([owner |-> own, rows |-> db.rows \cup {NewRow(db, g, op.by, TRUE)}, next |-> db.next + 1])
        BY <4>1
      <4>3. NewRow(db, g, op.by, TRUE).id = db.next
        BY DEF NewRow
      <4>4. e = [owner |-> own, rows |-> db.rows \cup {NewRow(db, g, op.by, TRUE)}, next |-> db.next + 1]
        BY <2>1, <4>2 DEF Done
      <4> QED BY <4>3, <4>4
    <3>2. e.rows = db.rows \cup {row} /\ e.next = db.next + 1
      BY <3>1
    <3>3. Follows(db, e)
      BY <1>0, <3>1, <3>2, RowsFollow
    <3> QED BY <3>1, <3>2, <3>3
  <2> QED BY <2>2, <2>3
<1>2. CASE op.kind = "invite"
  <2>1. Rpc(op) = CreateInvite(db, op.by, op.group)
    BY <1>2 DEF Rpc
  <2>2. CASE CreateInvite(db, op.by, op.group) = Refused(db)
    <3>1. e = db
      BY <2>1, <2>2 DEF Refused
    <3> QED BY <1>b, <3>1
  <2>3. CASE CreateInvite(db, op.by, op.group) # Refused(db)
    <3> DEFINE kept == {r \in db.rows : ~(r.group = op.group /\ ~Active(r) /\ r.expired)}
               row == NewRow(db, op.group, Nobody, FALSE)
    <3>1. CreateInvite(db, op.by, op.group) = Done([db EXCEPT !.rows = kept \cup {row}, !.next = db.next + 1])
      BY <2>3, Zenon DEF CreateInvite
    <3>2. row.id = db.next
      BY DEF NewRow
    <3>3. kept \subseteq db.rows /\ \A r \in db.rows \ kept : r.group = op.group /\ r.expired
      OBVIOUS
    <3> HIDE DEF kept, row
    <3>4. e.rows = kept \cup {row} /\ e.next = db.next + 1
      <4>1. [db EXCEPT !.rows = kept \cup {row}, !.next = db.next + 1]
              = [owner |-> db.owner, rows |-> kept \cup {row}, next |-> db.next + 1]
        BY RowsAndNext, Zenon
      <4>2. e = [db EXCEPT !.rows = kept \cup {row}, !.next = db.next + 1]
        BY <2>1, <3>1 DEF Done
      <4>3. e = [owner |-> db.owner, rows |-> kept \cup {row}, next |-> db.next + 1]
        BY <4>1, <4>2, Zenon
      <4> QED BY <4>3
    <3>5. Follows(db, e)
      BY <1>0, <3>2, <3>3, <3>4, RowsFollow
    <3> QED BY <1>2, <3>2, <3>3, <3>4, <3>5
  <2> QED BY <2>2, <2>3
<1>3. CASE op.kind = "share"
  <2> DEFINE to(r) == IF r.group = op.group /\ r.user = op.by
                      THEN [r EXCEPT !.fav = op.args.fav, !.note = op.args.note] ELSE r
  <2>1. Rpc(op) = SetShare(db, op.by, op.group, op.args.fav, op.args.note)
    BY <1>3 DEF Rpc
  <2>2. CASE SetShare(db, op.by, op.group, op.args.fav, op.args.note) = Refused(db)
    <3>1. e = db
      BY <2>1, <2>2 DEF Refused
    <3> QED BY <1>b, <3>1
  <2>3. CASE SetShare(db, op.by, op.group, op.args.fav, op.args.note) # Refused(db)
    <3> DEFINE R == {to(r) : r \in db.rows}
    <3>1. /\ SetShare(db, op.by, op.group, op.args.fav, op.args.note) = Done([db EXCEPT !.rows = R])
          /\ Human(op.by)
      BY <2>3, Zenon DEF SetShare
    <3>2. op.by # Nobody
      BY <3>1 DEF Human, FamilyConstants
    <3>3. \A r \in db.rows : to(r).id = r.id /\ to(r).group = r.group /\ to(r).user = r.user
      BY <1>0 DEF SoundTables, Row
    <3>4. \A r \in db.rows : ~Active(r) => to(r) = r
      BY <3>2 DEF Active
    <3>5. (\A s \in R : \E r \in db.rows : s = to(r)) /\ \A r \in db.rows : to(r) \in R
      OBVIOUS
    <3>a. \A s \in R : \/ s \in db.rows
                      \/ \E r \in db.rows : /\ s = [r EXCEPT !.fav = op.args.fav, !.note = op.args.note]
                                           /\ r.group = op.group /\ r.user = op.by
      OBVIOUS
    <3> HIDE DEF to, R
    <3>6. e.rows = R /\ e.next = db.next
      BY <1>0, <2>1, <3>1 DEF Done
    <3>7. \A s \in e.rows : \E r \in db.rows : r.id = s.id /\ r.group = s.group /\ (Active(r) => s.user = r.user)
      BY <3>3, <3>5, <3>6
    <3>8. db.next <= e.next
      BY <1>0, <3>6
    <3>9. Follows(db, e)
      BY <3>7, <3>8 DEF Follows
    <3> QED BY <1>3, <3>4, <3>5, <3>6, <3>9, <3>a
  <2> QED BY <2>2, <2>3
<1>4. CASE op.kind = "leave"
  <2>1. Rpc(op) = Leave(db, op.by, op.group)
    BY <1>4 DEF Rpc
  <2>2. CASE Leave(db, op.by, op.group) = Refused(db)
    <3>1. e = db
      BY <2>1, <2>2 DEF Refused
    <3> QED BY <1>b, <3>1
  <2>3. CASE Leave(db, op.by, op.group) # Refused(db)
    <3>1. /\ Leave(db, op.by, op.group) = Done([db EXCEPT !.rows = @ \ Mine(db, op.by, op.group)])
          /\ Human(op.by)
      BY <2>3 DEF Leave
    <3>2. e.rows = db.rows \ Mine(db, op.by, op.group) /\ e.next = db.next
      BY <1>0, <2>1, <3>1 DEF Done
    <3>3. \A r \in Mine(db, op.by, op.group) : Active(r)
      BY <3>1 DEF Mine, Active, Human, FamilyConstants
    <3>4. Follows(db, e)
      BY <1>0, <3>2, RowsFollow
    <3> QED BY <3>2, <3>3, <3>4
  <2> QED BY <2>2, <2>3
<1>5. CASE op.kind = "remove"
  <2>1. Rpc(op) = Remove(db, op.by, op.args)
    BY <1>5 DEF Rpc
  <2>2. CASE Remove(db, op.by, op.args) = Refused(db)
    <3>1. e = db
      BY <2>1, <2>2 DEF Refused
    <3> QED BY <1>b, <3>1
  <2>3. CASE Remove(db, op.by, op.args) # Refused(db)
    <3> DEFINE R == {r \in db.rows : r.id # op.args}
    <3>1. Remove(db, op.by, op.args) = Done([db EXCEPT !.rows = R])
      BY <2>3 DEF Remove
    <3>2. R \subseteq db.rows /\ \A r \in db.rows \ R : r.id = op.args
      OBVIOUS
    <3> HIDE DEF R
    <3>3. e.rows = R /\ e.next = db.next
      BY <1>0, <2>1, <3>1 DEF Done
    <3>4. Follows(db, e)
      BY <1>0, <3>2, <3>3, RowsFollow
    <3> QED BY <1>5, <3>2, <3>3, <3>4
  <2> QED BY <2>2, <2>3
<1>6. CASE op.kind = "delete"
  <2>1. Rpc(op) = DeleteGroup(db, op.by, op.group)
    BY <1>6 DEF Rpc
  <2>2. CASE DeleteGroup(db, op.by, op.group) = Refused(db)
    <3>1. e = db
      BY <2>1, <2>2 DEF Refused
    <3> QED BY <1>b, <3>1
  <2>3. CASE DeleteGroup(db, op.by, op.group) # Refused(db)
    <3> DEFINE own == [x \in DOMAIN db.owner \ {op.group} |-> db.owner[x]]
               R == {r \in db.rows : r.group # op.group}
    <3>1. DeleteGroup(db, op.by, op.group) = Done([db EXCEPT !.owner = own, !.rows = R])
      BY <2>3, Zenon DEF DeleteGroup
    <3>2. R \subseteq db.rows /\ \A r \in db.rows \ R : r.group = op.group
      OBVIOUS
    <3> HIDE DEF own, R
    <3>3. e.rows = R /\ e.next = db.next
      <4>1. [db EXCEPT !.owner = own, !.rows = R] = [owner |-> own, rows |-> R, next |-> db.next]
        BY OwnersAndRows, Zenon
      <4>2. e = [db EXCEPT !.owner = own, !.rows = R]
        BY <2>1, <3>1 DEF Done
      <4>3. e = [owner |-> own, rows |-> R, next |-> db.next]
        BY <4>1, <4>2, Zenon
      <4> QED BY <4>3
    <3>4. Follows(db, e)
      BY <1>0, <3>2, <3>3, RowsFollow
    <3> QED BY <1>6, <3>2, <3>3, <3>4
  <2> QED BY <2>2, <2>3
<1> QED BY <1>1, <1>2, <1>3, <1>4, <1>5, <1>6 DEF Called, RpcKinds

\* accept_family_invite, its second step, on an open invitation: the row goes,
\* or becomes the membership, or stays; no other row changes, and none what it
\* says of sharing.
LEMMA AcceptSound ==
  ASSUME FamilyConstants, NEW d, Sound(d), NEW u \in Users, NEW id, NEW member \in BOOLEAN,
         NEW row \in d.rows, row.id = id, ~Active(row)
  PROVE  LET e == Accept(d, u, id, member).db
         IN /\ Sound(e) /\ Follows(d, e)
            /\ \A r \in d.rows : r.id # id => r \in e.rows
            /\ \A r \in d.rows, s \in e.rows : r.id = s.id => s.fav = r.fav /\ s.note = r.note
<1> DEFINE e == Accept(d, u, id, member).db
<1>0. SoundTables(d.owner, d.rows, d.next) /\ d.next \in Int
  BY SoundIsTables DEF SoundTables, FamilyConstants
<1>r. d = [owner |-> d.owner, rows |-> d.rows, next |-> d.next]
  BY SoundIsTables
<1>c. (CHOOSE r \in d.rows : r.id = id) = row
  BY <1>0 DEF SoundTables
<1>n. row.owner = FALSE
  BY <1>0 DEF SoundTables, Row
<1>1. CASE member
  <2>1. Accept(d, u, id, member) = Done([d EXCEPT !.rows = d.rows \ {row}])
    BY <1>1, <1>c DEF Accept
  <2>2. Sound([d EXCEPT !.rows = d.rows \ {row}])
    BY <1>n, FewerRowsSound
  <2>3. e.rows = d.rows \ {row} /\ e.next = d.next /\ Sound(e)
    BY <1>r, <2>1, <2>2 DEF Done
  <2>4. Follows(d, e)
    BY <1>0, <2>3, RowsFollow
  <2>5. \A r \in d.rows, s \in e.rows : r.id = s.id => s = r
    BY <1>0, <2>3 DEF SoundTables
  <2> QED BY <2>3, <2>4, <2>5
<1>2. CASE ~member /\ Mine(d, u, row.group) # {}
  <2>1. Accept(d, u, id, member) = Refused(d)
    BY <1>2, <1>c DEF Accept
  <2>2. e = d
    BY <2>1 DEF Refused
  <2>3. \A r, s \in d.rows : r.id = s.id => s = r
    BY <1>0 DEF SoundTables
  <2> QED BY <1>0, <2>2, <2>3, RowsFollow
<1>3. CASE ~member /\ Mine(d, u, row.group) = {}
  <2> DEFINE mine == [row EXCEPT !.user = u]
             R == (d.rows \ {row}) \cup {mine}
  <2>1. Accept(d, u, id, member) = Done([d EXCEPT !.rows = R])
    BY <1>3, <1>c DEF Accept
  <2>2. /\ mine \in Row /\ mine.id = id /\ mine.group = row.group /\ mine.user = u /\ mine.owner = FALSE
        /\ row.group \in DOMAIN d.owner /\ row.id < d.next
        /\ mine.fav = row.fav /\ mine.note = row.note
    BY <1>0, <1>n DEF SoundTables, Row
  <2>3. Active(mine)
    BY <2>2 DEF Active, FamilyConstants
  <2> HIDE DEF mine
  <2>4. \A r \in d.rows : r.group = row.group => r.user # u
    BY <1>3 DEF Mine
  <2>5. [d EXCEPT !.rows = R] = [owner |-> d.owner, rows |-> R, next |-> d.next]
    BY <1>r
  <2>6. SoundTables(d.owner, R, d.next)
    <3>1. R \subseteq Row /\ \A r \in R : r.id < d.next /\ r.group \in DOMAIN d.owner
      BY <1>0, <2>2 DEF SoundTables
    <3>2. \A r \in R : r.owner => r.user = d.owner[r.group] /\ Active(r)
      BY <1>0, <2>2, <2>3 DEF SoundTables
    <3>3. \A r, s \in R : r.id = s.id => r = s
      BY <1>0, <2>2 DEF SoundTables
    <3>4. \A x \in DOMAIN d.owner : \E r \in R : r.group = x /\ r.owner
      BY <1>0, <1>n DEF SoundTables
    <3>5. \A r, s \in R : r.group = s.group /\ Active(r) /\ r.user = s.user => r = s
      BY <1>0, <2>2, <2>4 DEF SoundTables
    <3> QED BY <1>0, <3>1, <3>2, <3>3, <3>4, <3>5 DEF SoundTables
  <2>7. e = [owner |-> d.owner, rows |-> R, next |-> d.next]
    BY <2>1, <2>5 DEF Done
  <2>8. Sound(e)
    BY <2>6, <2>7, TablesAreSound
  <2>9. e.rows = R /\ e.next = d.next
    BY <2>7
  <2>10. \A s \in R : \E r \in d.rows : r.id = s.id /\ r.group = s.group /\ (Active(r) => s.user = r.user)
    BY <2>2
  <2>11. Follows(d, e)
    BY <1>0, <2>9, <2>10 DEF Follows
  <2>12. \A r \in d.rows, s \in R : r.id = s.id => s.fav = r.fav /\ s.note = r.note
    BY <1>0, <2>2 DEF SoundTables
  <2> QED BY <2>8, <2>9, <2>11, <2>12
<1> QED BY <1>1, <1>2, <1>3

-----------------------------------------------------------------------------
(* What a device holds.                                                    *)

Accounts == Users \cup {Nobody}
Lists == (SUBSET Users) \cup {Nobody}
OpKinds == RpcKinds \cup {"shared"}
Switched == [which : {"fav", "note"}, fav : BOOLEAN, note : BOOLEAN, row : Ids, fresh : BOOLEAN]
Ops == [kind : OpKinds, group : Groups \cup {Nobody}, args : {{}} \cup Ids \cup Switched,
        stage : {"sent", "answered", "reload"}, by : Users, gen : Nat, ok : BOOLEAN,
        favs : Lists, notes : Lists]
Views == [user : Accounts, rows : SUBSET Row, seen : BOOLEAN, told : BOOLEAN]
Reads == [gen : Nat, for : Users, as : Accounts, got : {"nothing", "rows", "error"},
          rows : SUBSET Row, seen : BOOLEAN, told : BOOLEAN]
Shareds == [for : Groups \cup {Nobody}, favs : Lists, notes : Lists]
Clients == [user : Accounts, open : BOOLEAN, view : Views, loaded : Accounts, loading : BOOLEAN,
            err : BOOLEAN, gen : Nat, op : {NoOp} \cup Ops, reads : SUBSET Reads,
            invites : SUBSET (Groups \cup {Nobody}), shared : Shareds]

\* Rows that were read from d, or from what d was earlier.
Known(rows, d) ==
  \A x \in rows : x.id < d.next /\ \A r \in d.rows : r.id = x.id => r.group = x.group

\* What the sheet shows and what is on its way to it was read from the tables.
ReadFrom(me, d) == Known(me.view.rows, d) /\ \A r \in me.reads : Known(r.rows, d)

\* What a call under way was pressed with.
PressedOn(op, d) ==
  /\ op.kind = "share" => op.args \in Switched /\ op.args.fav \in BOOLEAN /\ op.args.note \in BOOLEAN
  /\ op.kind = "remove" => /\ op.args \in Int /\ op.args < d.next
                           /\ \A r \in d.rows : r.id = op.args => r.group = op.group

\* What is shown, if it is not waited for, saw what the device did; a call that
\* has just taken effect is still to be reloaded after, for who pressed, and who
\* pressed has loaded unless another account has since.
Settling(me) == me.op.kind \notin {"none", "shared"} /\ me.op.stage = "answered" /\ me.op.ok
Awaited(me) == /\ me.op.kind # "none" /\ me.op.stage = "reload" /\ me.op.gen = me.gen
               /\ me.loaded = me.user
Seen(me) == /\ Awaited(me) \/ me.err \/ me.view.seen
            /\ \A r \in me.reads : r.gen = me.gen => r.seen
LoadedFor(me) == me.op.kind # "none" /\ me.op.stage # "reload" =>
                   me.loaded = me.user \/ me.loaded # me.op.by
UpToDate(me) == /\ \A r \in me.reads : r.gen <= me.gen
                /\ Seen(me) \/ Settling(me)
                /\ LoadedFor(me)

DeviceOK(me, d) == me \in Clients /\ ReadFrom(me, d) /\ PressedOn(me.op, d) /\ UpToDate(me)

\* An acceptance under way has its invitation, and has it alone.
LocksOK(locks, d) ==
  /\ locks \subseteq [id : Ids, by : Users, member : BOOLEAN]
  /\ \A a \in locks : \E r \in d.rows : r.id = a.id /\ ~Active(r)
  /\ \A a, b \in locks : a.id = b.id => a = b

IInv == /\ Sound(db) /\ LocksOK(lock, db)
        /\ client \in [Devices -> Clients]
        /\ \A c \in Devices : DeviceOK(client[c], db)

\* What was read from a database is known of the ones that follow it.
LEMMA KnownFollows ==
  ASSUME FamilyConstants, NEW d, Sound(d), NEW e, Sound(e), Follows(d, e),
         NEW rows \in SUBSET Row, Known(rows, d)
  PROVE  Known(rows, e)
<1>1. d.next \in Int /\ e.next \in Int
  BY SoundIsTables DEF SoundTables, FamilyConstants
<1>2. \A x \in rows : x.id \in Int
  BY DEF Row, Ids
<1> QED BY <1>1, <1>2 DEF Known, Follows

LEMMA DeviceFollows ==
  ASSUME FamilyConstants, NEW d, Sound(d), NEW e, Sound(e), Follows(d, e),
         NEW me, DeviceOK(me, d)
  PROVE  DeviceOK(me, e)
<1>1. d.next \in Int /\ e.next \in Int
  BY SoundIsTables DEF SoundTables, FamilyConstants
<1>2. me.view.rows \in SUBSET Row /\ \A r \in me.reads : r.rows \in SUBSET Row
  BY DEF DeviceOK, Clients, Views, Reads
<1>3. ReadFrom(me, e)
  BY <1>2, KnownFollows DEF DeviceOK, ReadFrom
<1>4. PressedOn(me.op, e)
  BY <1>1 DEF DeviceOK, PressedOn, Follows
<1> QED BY <1>3, <1>4 DEF DeviceOK

\* reload() asks for what it shows next, and shows nothing it did not show.
LEMMA ReloadIs ==
  ASSUME NEW me \in Clients, NEW u \in Accounts, \A r \in me.reads : r.gen <= me.gen
  PROVE  LET you == Reload(me, u)
         IN /\ you \in Clients /\ you.op = me.op /\ you.gen = me.gen + 1
            /\ you.user = me.user /\ you.loaded = u
            /\ \A r \in you.reads : r.gen <= you.gen /\ (r.gen = you.gen => r.seen)
            /\ \/ you.view = NoView
               \/ you.view = me.view /\ you.err = me.err /\ me.loaded = u
            /\ \A r \in you.reads : r \in me.reads \/ (r.rows = {} /\ r.got = "nothing")
<1> DEFINE mine == IF me.loaded = u THEN me
                   ELSE [me EXCEPT !.view = NoView, !.err = FALSE, !.loaded = u]
           asked == [gen |-> me.gen + 1, for |-> u, as |-> me.user, got |-> "nothing",
                     rows |-> {}, seen |-> TRUE, told |-> TRUE]
           you == Reload(me, u)
<1>1. NoView \in Views
  BY DEF NoView, Views, Accounts
<1>2. /\ mine \in Clients /\ mine.op = me.op /\ mine.user = me.user /\ mine.loaded = u
      /\ mine.reads = me.reads
      /\ (mine.view = NoView \/ (mine.view = me.view /\ mine.err = me.err /\ me.loaded = u))
  BY <1>1 DEF Clients
<1>3. me.gen \in Nat /\ me.gen + 1 \in Nat /\ \A r \in me.reads : r.gen \in Nat
  BY DEF Clients, Reads
<1>4. CASE u = Nobody
  <2>1. you = [mine EXCEPT !.gen = me.gen + 1, !.view = NoView, !.err = FALSE, !.loading = FALSE]
    BY <1>4, Zenon DEF Reload
  <2> HIDE DEF mine, you
  <2>2. you \in Clients
    BY <1>1, <1>2, <1>3, <2>1 DEF Clients
  <2>3. /\ you.op = me.op /\ you.gen = me.gen + 1 /\ you.reads = me.reads /\ you.view = NoView
        /\ you.user = me.user /\ you.loaded = u
    BY <1>2, <2>1 DEF Clients
  <2>4. \A r \in you.reads : r.gen < you.gen /\ r.gen \in Int /\ you.gen \in Int
    BY <1>3, <2>3
  <2> QED BY <2>2, <2>3, <2>4 DEF you
<1>5. CASE u # Nobody
  <2>1. you = [mine EXCEPT !.gen = me.gen + 1, !.loading = TRUE, !.reads = @ \cup {asked}]
    BY <1>5, Zenon DEF Reload
  <2>2. /\ asked \in Reads /\ asked.gen = me.gen + 1 /\ asked.seen = TRUE /\ asked.rows = {}
        /\ asked.got = "nothing"
    BY <1>3, <1>5 DEF Reads, Accounts, Clients
  <2> HIDE DEF mine, you, asked
  <2>3. you \in Clients
    BY <1>2, <1>3, <2>1, <2>2 DEF Clients
  <2>4. /\ you.op = me.op /\ you.gen = me.gen + 1 /\ you.reads = me.reads \cup {asked}
        /\ you.user = me.user /\ you.loaded = u /\ you.view = mine.view /\ you.err = mine.err
    BY <1>2, <2>1 DEF Clients
  <2>5. \A r \in you.reads : r.gen <= you.gen /\ (r.gen = you.gen => r.seen)
    BY <1>3, <2>2, <2>4
  <2> QED BY <1>2, <2>2, <2>3, <2>4, <2>5 DEF you
<1> QED BY <1>4, <1>5

\* A device that reloads for the account it has is up to date, if what it shows,
\* when it goes on showing it, is.
LEMMA ReloadOK ==
  ASSUME NEW d, NEW me \in Clients, ReadFrom(me, d), PressedOn(me.op, d),
         \A r \in me.reads : r.gen <= me.gen, me.user \in Accounts,
         me.loaded = me.user => me.err \/ me.view.seen \/ Settling(me)
  PROVE  DeviceOK(Reload(me, me.user), d)
<1> DEFINE you == Reload(me, me.user)
<1>2. /\ you \in Clients /\ you.op = me.op /\ you.user = me.user /\ you.loaded = me.user
      /\ \A r \in you.reads : r.gen <= you.gen /\ (r.gen = you.gen => r.seen)
      /\ \/ you.view = NoView
         \/ you.view = me.view /\ you.err = me.err /\ me.loaded = me.user
      /\ \A r \in you.reads : r \in me.reads \/ (r.rows = {} /\ r.got = "nothing")
  BY ReloadIs
<1> HIDE DEF you
<1>3. ReadFrom(you, d)
  BY <1>2 DEF ReadFrom, Known, NoView
<1>4. Seen(you) \/ Settling(you)
  BY <1>2 DEF Seen, Settling, NoView
<1>5. UpToDate(you)
  BY <1>2, <1>4 DEF UpToDate, LoadedFor
<1> QED BY <1>2, <1>3, <1>5 DEF DeviceOK, you

-----------------------------------------------------------------------------
(* Device by device, action by action.                                     *)

\* Start is sound, and every device begins with a reload.
LEMMA InitIInv == ShareConstants /\ Init => IInv
<1> SUFFICES ASSUME ShareConstants, Init
             PROVE  IInv
  OBVIOUS
<1>1. Sound(db) /\ LocksOK(lock, db)
  BY DEF ShareConstants, Init, LocksOK
<1>2. ASSUME NEW c \in Devices
      PROVE  DeviceOK(client[c], db)
  <2> DEFINE u == FirstUser[c]
             me == Starting(u)
  <2>1. u \in Accounts
    BY DEF ShareConstants, Accounts
  <2>2. /\ me \in Clients /\ me.view.rows = {} /\ me.reads = {} /\ me.op = NoOp /\ me.view.seen
        /\ me.user = u
    BY <2>1 DEF Starting, Clients, NoView, NoShared, Views, Shareds, Accounts, Lists
  <2> HIDE DEF me
  <2>3. ReadFrom(me, db) /\ PressedOn(me.op, db)
    BY <2>2 DEF ReadFrom, Known, PressedOn, NoOp
  <2>4. client[c] = Reload(me, me.user)
    BY <2>2 DEF Init, me
  <2> QED BY <2>1, <2>2, <2>3, <2>4, ReloadOK
<1>3. client \in [Devices -> Clients]
  <2>1. client = [c \in Devices |-> Reload(Starting(FirstUser[c]), FirstUser[c])]
    BY DEF Init
  <2>2. \A c \in Devices : client[c] \in Clients
    BY <1>2 DEF DeviceOK
  <2> QED BY <2>1, <2>2
<1> QED BY <1>1, <1>2, <1>3 DEF IInv

\* A step that changes one device and no table.
LEMMA OneDevice ==
  ASSUME IInv, NEW c \in Devices, NEW me, Set(c, me), DeviceOK(me, db), UNCHANGED <<db, lock>>
  PROVE  IInv'
<1>1. client' \in [Devices -> Clients] /\ client'[c] = me
      /\ \A x \in Devices \ {c} : client'[x] = client[x]
  BY DEF IInv, Set, DeviceOK
<1>2. \A x \in Devices : DeviceOK(client'[x], db)
  BY <1>1 DEF IInv
<1>3. Sound(db') /\ LocksOK(lock', db')
  BY DEF IInv
<1>4. \A x \in Devices : DeviceOK(client'[x], db')
  BY <1>2
<1> QED BY <1>1, <1>3, <1>4 DEF IInv

LEMMA SwitchUserStep ==
  ASSUME IInv, NEW c \in Devices, SwitchUser(c)
  PROVE  IInv'
<1>1. PICK u \in (Users \cup {Nobody}) \ {client[c].user} : Set(c, Reload([client[c] EXCEPT !.user = u], u))
  BY DEF SwitchUser
<1> DEFINE me == [client[c] EXCEPT !.user = u]
<1>2. DeviceOK(client[c], db)
  BY DEF IInv
<1>3. /\ me \in Clients /\ me.view = client[c].view /\ me.reads = client[c].reads /\ me.op = client[c].op
      /\ me.gen = client[c].gen /\ me.loaded = client[c].loaded /\ me.err = client[c].err
      /\ me.user = u /\ u # client[c].user /\ u \in Accounts
  BY <1>2 DEF DeviceOK, Clients, Accounts
<1>4. Set(c, Reload(me, u))
  BY <1>1
<1> HIDE DEF me
<1>5. ReadFrom(me, db) /\ PressedOn(me.op, db) /\ \A r \in me.reads : r.gen <= me.gen
  BY <1>2, <1>3 DEF DeviceOK, ReadFrom, UpToDate
<1>6. me.loaded = me.user => me.err \/ me.view.seen \/ Settling(me)
  BY <1>2, <1>3 DEF DeviceOK, UpToDate, Seen, Awaited, Settling
<1>7. DeviceOK(Reload(me, u), db)
  BY <1>3, <1>5, <1>6, ReloadOK
<1> QED BY <1>4, <1>7, OneDevice DEF SwitchUser

\* What a caller is shown are rows of the tables.
LEMMA ServeReadStep ==
  ASSUME FamilyConstants, IInv, NEW c \in Devices, ServeRead(c)
  PROVE  IInv'
<1>0. PICK r \in client[c].reads :
        \E s \in {[r EXCEPT !.got = "rows", !.rows = Visible(db, r.as)], [r EXCEPT !.got = "error"]} :
          Set(c, [client[c] EXCEPT !.reads = (@ \ {r}) \cup {s}])
  BY DEF ServeRead
<1>1. PICK s \in {[r EXCEPT !.got = "rows", !.rows = Visible(db, r.as)], [r EXCEPT !.got = "error"]} :
        Set(c, [client[c] EXCEPT !.reads = (@ \ {r}) \cup {s}])
  BY <1>0
<1> DEFINE me == [client[c] EXCEPT !.reads = (@ \ {r}) \cup {s}]
<1>2. DeviceOK(client[c], db) /\ Sound(db)
  BY DEF IInv
<1>3. r \in Reads
  BY <1>2 DEF DeviceOK, Clients
<1>4. Visible(db, r.as) \in SUBSET Row /\ Known(Visible(db, r.as), db)
  BY <1>2 DEF Visible, Sound, Known
<1>5. s \in Reads /\ s.gen = r.gen /\ s.seen = r.seen /\ (s.rows = r.rows \/ s.rows = Visible(db, r.as))
  <2>1. CASE s = [r EXCEPT !.got = "rows", !.rows = Visible(db, r.as)]
    BY <1>3, <1>4, <2>1 DEF Reads
  <2>2. CASE s = [r EXCEPT !.got = "error"]
    BY <1>3, <2>2 DEF Reads
  <2> QED BY <1>1, <2>1, <2>2
<1>6. /\ me \in Clients /\ me.view = client[c].view /\ me.reads = (client[c].reads \ {r}) \cup {s}
      /\ me.op = client[c].op /\ me.gen = client[c].gen /\ me.loaded = client[c].loaded /\ me.user = client[c].user
      /\ me.err = client[c].err
  BY <1>2, <1>5 DEF DeviceOK, Clients
<1>7. Set(c, me)
  BY <1>1
<1> HIDE DEF me
<1>8. ReadFrom(me, db)
  BY <1>2, <1>4, <1>5, <1>6 DEF DeviceOK, ReadFrom
<1>9. UpToDate(me)
  BY <1>2, <1>5, <1>6 DEF DeviceOK, UpToDate, LoadedFor, Seen, Awaited, Settling
<1>10. DeviceOK(me, db)
  BY <1>2, <1>6, <1>8, <1>9 DEF DeviceOK
<1> QED BY <1>7, <1>10, OneDevice DEF ServeRead

\* An answer that is not the newest changes nothing, one that is is shown.
LEMMA DeliverReadStep ==
  ASSUME IInv, NEW c \in Devices, DeliverRead(c)
  PROVE  IInv'
<1>1. PICK r \in client[c].reads :
        /\ r.got # "nothing"
        /\ Set(c, AfterReload(Answer([client[c] EXCEPT !.reads = @ \ {r}], r), r))
  BY DEF DeliverRead
<1> DEFINE me == [client[c] EXCEPT !.reads = @ \ {r}]
           you == Answer(me, r)
           they == AfterReload(you, r)
<1>2. DeviceOK(client[c], db)
  BY DEF IInv
<1>3. r \in Reads /\ Known(r.rows, db)
  BY <1>2 DEF DeviceOK, Clients, ReadFrom
<1>4. /\ me \in Clients /\ me.view = client[c].view /\ me.reads = client[c].reads \ {r}
      /\ me.op = client[c].op /\ me.gen = client[c].gen /\ me.loaded = client[c].loaded /\ me.user = client[c].user
      /\ me.err = client[c].err
  BY <1>2 DEF DeviceOK, Clients
<1>5. Set(c, they)
  BY <1>1
<1> HIDE DEF me
<1>6. DeviceOK(me, db) /\ (r.gen = me.gen /\ ~Settling(me) => r.seen)
  BY <1>2, <1>4 DEF DeviceOK, ReadFrom, UpToDate, LoadedFor, Seen, Awaited, Settling
<1>7. /\ DeviceOK(you, db) /\ you.op = me.op
      /\ r.gen = you.gen /\ ~Settling(you) => you.err \/ you.view.seen
  <2>1. CASE r.gen # me.gen
    <3>1. you = me
      BY <2>1 DEF Answer
    <3> QED BY <1>6, <2>1, <3>1
  <2>2. CASE r.gen = me.gen /\ r.got = "rows"
    <3> DEFINE v == [user |-> r.for, rows |-> r.rows, seen |-> r.seen, told |-> r.told]
    <3>1. you = [me EXCEPT !.view = v, !.err = FALSE, !.loading = FALSE]
      BY <2>2 DEF Answer
    <3>2. v \in Views /\ v.rows = r.rows /\ v.seen = r.seen
      BY <1>3 DEF Reads, Views, Accounts
    <3> HIDE DEF v, you
    <3>3. /\ you \in Clients /\ you.view = v /\ you.reads = me.reads /\ you.op = me.op
          /\ you.gen = me.gen
          /\ you.loaded = me.loaded /\ you.user = me.user
      BY <1>4, <3>1, <3>2 DEF Clients
    <3>4. UpToDate(you)
      BY <1>6, <2>2, <3>2, <3>3 DEF DeviceOK, UpToDate, LoadedFor, Seen, Awaited, Settling
    <3> QED BY <1>3, <1>6, <3>2, <3>3, <3>4 DEF DeviceOK, ReadFrom, Settling
  <2>3. CASE r.gen = me.gen /\ r.got = "error"
    <3>1. you = [me EXCEPT !.err = TRUE, !.loading = FALSE]
      BY <2>3 DEF Answer
    <3> HIDE DEF you
    <3>2. /\ you \in Clients /\ you.view = me.view /\ you.reads = me.reads /\ you.op = me.op
          /\ you.gen = me.gen /\ you.err /\ you.loaded = me.loaded /\ you.user = me.user
      BY <1>4, <3>1 DEF Clients
    <3>3. UpToDate(you)
      BY <1>6, <3>2 DEF DeviceOK, UpToDate, LoadedFor, Seen, Awaited, Settling
    <3> QED BY <1>6, <3>2, <3>3 DEF DeviceOK, ReadFrom
  <2> QED BY <1>1, <1>3, <2>1, <2>2, <2>3 DEF Reads
<1> HIDE DEF you
<1>8. DeviceOK(they, db)
  <2>1. CASE they = you
    BY <1>7, <2>1
  <2>2. CASE they # you
    <3> DEFINE links == IF you.op.kind = "invite" THEN you.invites \cup {you.op.group} ELSE you.invites
    <3>1. /\ you.op.kind # "none" /\ you.op.stage = "reload" /\ you.op.gen = r.gen
          /\ they = [you EXCEPT !.op = NoOp, !.invites = links]
      <4>1. you.op.kind # "none" /\ you.op.stage = "reload" /\ you.op.gen = r.gen
        BY <2>2 DEF AfterReload
      <4>2. they = [you EXCEPT !.op = NoOp, !.invites = IF you.op.kind = "invite" THEN @ \cup {you.op.group} ELSE @]
        BY <4>1 DEF AfterReload
      <4> QED BY <4>1, <4>2
    <3>2. you \in Clients /\ links \in SUBSET (Groups \cup {Nobody})
      BY <1>7, <3>1 DEF DeviceOK, Clients, Ops, NoOp
    <3> HIDE DEF links, they
    <3>3. /\ they \in Clients /\ they.op = NoOp /\ they.view = you.view /\ they.reads = you.reads
          /\ they.gen = you.gen /\ they.loaded = you.loaded /\ they.user = you.user /\ they.err = you.err
      BY <3>1, <3>2 DEF Clients
    <3>4. ~Settling(you)
      BY <3>1 DEF Settling
    <3>5. you.err \/ you.view.seen
      BY <1>7, <3>1, <3>4 DEF DeviceOK, UpToDate, Seen, Awaited
    <3>6. UpToDate(they)
      BY <1>7, <3>3, <3>4, <3>5 DEF DeviceOK, UpToDate, LoadedFor, Seen, NoOp
    <3> QED BY <1>7, <3>3, <3>6 DEF DeviceOK, ReadFrom, PressedOn, NoOp
  <2> QED BY <2>1, <2>2
<1> HIDE DEF they
<1> QED BY <1>5, <1>8, OneDevice DEF DeliverRead

\* A button is pressed: the device waits for its call, and for no other.
LEMMA PressStep ==
  ASSUME IInv, NEW c \in Devices, NEW kind \in OpKinds, NEW group \in Groups \cup {Nobody},
         NEW args \in {{}} \cup Ids \cup Switched, Press(c, kind, group, args),
         kind = "share" => args \in Switched /\ args.fav \in BOOLEAN /\ args.note \in BOOLEAN,
         kind = "remove" => /\ args \in Int /\ args < db.next
                            /\ \A r \in db.rows : r.id = args => r.group = group
  PROVE  IInv'
<1> DEFINE op == [kind |-> kind, group |-> group, args |-> args, stage |-> "sent",
                  by |-> client[c].user, gen |-> 0, ok |-> FALSE, favs |-> Nobody, notes |-> Nobody]
           me == [client[c] EXCEPT !.op = op]
<1>1. DeviceOK(client[c], db) /\ client[c].op.kind = "none" /\ client[c].user \in Users
  BY DEF IInv, Press, Ready, Busy, Human
<1>2. /\ op \in Ops /\ op.kind = kind /\ op.group = group /\ op.args = args /\ op.ok = FALSE
      /\ op.stage = "sent" /\ op.by = client[c].user
  BY <1>1 DEF Ops, Lists
<1>3. Set(c, me)
  BY DEF Press
<1> HIDE DEF op
<1>4. /\ me \in Clients /\ me.op = op /\ me.view = client[c].view /\ me.reads = client[c].reads
      /\ me.gen = client[c].gen /\ me.loaded = client[c].loaded /\ me.user = client[c].user /\ me.err = client[c].err
  BY <1>1, <1>2 DEF DeviceOK, Clients
<1> HIDE DEF me
<1>5. PressedOn(op, db)
  BY <1>2 DEF PressedOn
<1>6. UpToDate(me)
  <2>1. ~Settling(client[c]) /\ ~Awaited(client[c])
    BY <1>1 DEF Settling, Awaited
  <2>2. Seen(me)
    BY <1>1, <1>4, <2>1 DEF DeviceOK, UpToDate, Seen
  <2> QED BY <1>1, <1>2, <1>4, <2>2 DEF DeviceOK, UpToDate, LoadedFor
<1>7. DeviceOK(me, db)
  BY <1>1, <1>4, <1>5, <1>6 DEF DeviceOK, ReadFrom
<1> QED BY <1>3, <1>7, OneDevice DEF Press

\* The groups a sheet shows are groups.
LEMMA MyGroupsAreGroups ==
  ASSUME IInv, NEW c \in Devices
  PROVE  MyGroups(c) \subseteq Groups
<1>1. client[c].view.rows \subseteq Row
  BY DEF IInv, Clients, Views
<1> QED BY <1>1 DEF MyGroups, Row

LEMMA MyRowIs ==
  ASSUME IInv, NEW c \in Devices, NEW g \in MyGroups(c)
  PROVE  /\ MyRow(c, g) \in client[c].view.rows /\ client[c].view.rows \subseteq Row
         /\ MyRow(c, g).group = g /\ MyRow(c, g).user = client[c].view.user
<1>1. client[c].view.rows \subseteq Row
  BY DEF IInv, Clients, Views
<1>2. \E r \in client[c].view.rows : r.group = g /\ r.user = client[c].view.user
  BY DEF MyGroups
<1> QED BY <1>1, <1>2 DEF MyRow

LEMMA PressSteps ==
  ASSUME IInv, NEW c \in Devices
  PROVE  /\ PressCreate(c) => IInv'
         /\ PressInvite(c) => IInv'
         /\ PressDelete(c) => IInv'
         /\ PressLeave(c) => IInv'
         /\ PressRemove(c) => IInv'
         /\ PressToggle(c) => IInv'
         /\ PressShared(c) => IInv'
<1>0. MyGroups(c) \subseteq Groups
  BY MyGroupsAreGroups
<1>1. ASSUME PressCreate(c) PROVE IInv'
  <2>1. Press(c, "create", Nobody, {})
    BY <1>1 DEF PressCreate
  <2> QED BY <2>1, PressStep DEF OpKinds, RpcKinds
<1>2. ASSUME PressInvite(c) PROVE IInv'
  <2>1. PICK g \in Groups : Press(c, "invite", g, {})
    BY <1>0, <1>2 DEF PressInvite
  <2> QED BY <2>1, PressStep DEF OpKinds, RpcKinds
<1>3. ASSUME PressDelete(c) PROVE IInv'
  <2>1. PICK g \in Groups : Press(c, "delete", g, {})
    BY <1>0, <1>3 DEF PressDelete
  <2> QED BY <2>1, PressStep DEF OpKinds, RpcKinds
<1>4. ASSUME PressLeave(c) PROVE IInv'
  <2>1. PICK g \in Groups : Press(c, "leave", g, {})
    BY <1>0, <1>4 DEF PressLeave
  <2> QED BY <2>1, PressStep DEF OpKinds, RpcKinds
<1>5. ASSUME PressRemove(c) PROVE IInv'
  <2>1. PICK g \in Groups, r \in client[c].view.rows : r.group = g /\ Press(c, "remove", g, r.id)
    BY <1>0, <1>5 DEF PressRemove
  <2>2. client[c].view.rows \subseteq Row /\ Known(client[c].view.rows, db)
    BY DEF IInv, DeviceOK, ReadFrom, Clients, Views
  <2>3. r.id \in Ids /\ r.id < db.next /\ \A s \in db.rows : s.id = r.id => s.group = g
    BY <2>1, <2>2 DEF Known, Row
  <2>4. r.id \in Int
    BY <2>3 DEF Ids
  <2> HIDE DEF Ids
  <2> QED BY <2>1, <2>3, <2>4, PressStep DEF OpKinds, RpcKinds
<1>6. ASSUME PressToggle(c) PROVE IInv'
  <2> DEFINE args(g, which) == [which |-> which, fav |-> MyRow(c, g).fav # (which = "fav"),
                                note |-> MyRow(c, g).note # (which = "note"),
                                row |-> MyRow(c, g).id, fresh |-> Fresh(c)]
  <2>1. PICK g \in MyGroups(c), which \in {"fav", "note"} : Press(c, "share", g, args(g, which))
    BY <1>6 DEF PressToggle
  <2>2. MyRow(c, g) \in client[c].view.rows /\ client[c].view.rows \subseteq Row
    BY MyRowIs
  <2>3. args(g, which) \in Switched /\ args(g, which).fav \in BOOLEAN /\ args(g, which).note \in BOOLEAN
    BY <2>2 DEF Switched, Row, Fresh
  <2> HIDE DEF args
  <2> QED BY <1>0, <2>1, <2>3, PressStep DEF OpKinds, RpcKinds
<1>7. ASSUME PressShared(c) PROVE IInv'
  <2>1. PICK g \in Groups : Press(c, "shared", g, {})
    BY <1>0, <1>7 DEF PressShared
  <2> QED BY <2>1, PressStep DEF OpKinds, RpcKinds
<1> QED BY <1>1, <1>2, <1>3, <1>4, <1>5, <1>6, <1>7

\* What shows the sheet or hides it, or reloads, leaves the rest alone.
LEMMA SheetSteps ==
  ASSUME IInv, NEW c \in Devices
  PROVE  /\ HideShared(c) => IInv'
         /\ PressRetry(c) => IInv'
         /\ CloseSheet(c) => IInv'
         /\ OpenSheet(c) => IInv'
<1>0. DeviceOK(client[c], db) /\ client[c] \in Clients
  BY DEF IInv
<1>a. ASSUME NEW me \in Clients, Set(c, me), UNCHANGED <<db, lock>>,
             me.view = client[c].view, me.reads = client[c].reads, me.op = client[c].op,
             me.gen = client[c].gen, me.loaded = client[c].loaded /\ me.user = client[c].user, me.err = client[c].err
      PROVE  IInv'
  <2>1. DeviceOK(me, db)
    BY <1>0, <1>a DEF DeviceOK, ReadFrom, UpToDate, LoadedFor, Seen, Awaited, Settling
  <2> QED BY <1>a, <2>1, OneDevice
<1>1. ASSUME HideShared(c) PROVE IInv'
  <2> DEFINE me == [client[c] EXCEPT !.shared.for = Nobody]
  <2>1. Set(c, me) /\ UNCHANGED <<db, lock>>
    BY <1>1 DEF HideShared
  <2>2. [client[c].shared EXCEPT !.for = Nobody] \in Shareds
    BY <1>0 DEF Clients, Shareds
  <2>3. /\ me \in Clients /\ me.view = client[c].view /\ me.reads = client[c].reads
        /\ me.op = client[c].op /\ me.gen = client[c].gen /\ me.loaded = client[c].loaded /\ me.user = client[c].user
        /\ me.err = client[c].err
    BY <1>0, <2>2 DEF Clients
  <2> QED BY <1>a, <2>1, <2>3
<1>2. ASSUME PressRetry(c) PROVE IInv'
  <2>1. Set(c, Reload(client[c], client[c].user)) /\ client[c].user \in Accounts /\ UNCHANGED <<db, lock>>
    BY <1>0, <1>2 DEF PressRetry, Clients
  <2>2. DeviceOK(Reload(client[c], client[c].user), db)
    BY <1>0, <1>2, <2>1, ReloadOK
       DEF PressRetry, Ready, Busy, DeviceOK, UpToDate, Seen, Awaited, Settling
  <2> QED BY <2>1, <2>2, OneDevice
<1>3. ASSUME CloseSheet(c) PROVE IInv'
  <2> DEFINE me == [client[c] EXCEPT !.open = FALSE, !.invites = {}, !.shared = NoShared]
  <2>1. Set(c, me) /\ UNCHANGED <<db, lock>>
    BY <1>3 DEF CloseSheet
  <2>2. NoShared \in Shareds
    BY DEF NoShared, Shareds, Lists
  <2>3. /\ me \in Clients /\ me.view = client[c].view /\ me.reads = client[c].reads
        /\ me.op = client[c].op /\ me.gen = client[c].gen /\ me.loaded = client[c].loaded /\ me.user = client[c].user
        /\ me.err = client[c].err
    BY <1>0, <2>2 DEF Clients
  <2> QED BY <1>a, <2>1, <2>3
<1>4. ASSUME OpenSheet(c) PROVE IInv'
  <2> DEFINE me == [client[c] EXCEPT !.open = TRUE]
  <2>1. Set(c, me) /\ UNCHANGED <<db, lock>>
    BY <1>4 DEF OpenSheet
  <2>2. /\ me \in Clients /\ me.view = client[c].view /\ me.reads = client[c].reads
        /\ me.op = client[c].op /\ me.gen = client[c].gen /\ me.loaded = client[c].loaded /\ me.user = client[c].user
        /\ me.err = client[c].err
    BY <1>0 DEF Clients
  <2> QED BY <1>a, <2>1, <2>2
<1> QED BY <1>1, <1>2, <1>3, <1>4

\* The two reads of the shared data change the call that waits for them.
LEMMA ServeSharedIs ==
  ASSUME FamilyConstants, IInv, NEW c \in Devices, ServeShared(c)
  PROVE  \E op \in Ops : /\ op.kind = "shared" /\ op.by = client[c].op.by /\ op.stage \in {"sent", "answered"}
                         /\ Set(c, [client[c] EXCEPT !.op = op])
<1>0. DeviceOK(client[c], db) /\ client[c] \in Clients /\ db.rows \subseteq Row
  BY DEF IInv, Sound
<1>1. client[c].op \in Ops /\ client[c].op.kind = "shared" /\ client[c].op.stage = "sent"
  BY <1>0 DEF ServeShared, Busy, Clients, NoOp
<1>3. \A u, g : /\ SharedFavorites(db, u, g).val \in SUBSET Users
                /\ SharedNotes(db, u, g).val \in SUBSET Users
  <2> TAKE u, g
  <2>1. \A r \in db.rows : Active(r) => r.user \in Users
    BY <1>0 DEF Row, Active
  <2>2. SharedFavorites(db, u, g).val \in SUBSET Users
    BY <2>1 DEF SharedFavorites, Done, Refused
  <2>3. SharedNotes(db, u, g).val \in SUBSET Users
    BY <2>1 DEF SharedNotes, Done, Refused
  <2> QED BY <2>2, <2>3
<1>4. PICK op : /\ Set(c, [client[c] EXCEPT !.op = op])
                /\ \/ \E v \in SUBSET Users, s \in {client[c].op.stage, "answered"} :
                        op = [client[c].op EXCEPT !.favs = v, !.stage = s]
                   \/ \E v \in SUBSET Users, s \in {client[c].op.stage, "answered"} :
                        op = [client[c].op EXCEPT !.notes = v, !.stage = s]
                   \/ op = [client[c].op EXCEPT !.stage = "answered", !.ok = TRUE]
  <2> DEFINE o == client[c].op
             fa == SharedFavorites(db, o.by, o.group)
             na == SharedNotes(db, o.by, o.group)
             fs == IF fa.ok THEN o.stage ELSE "answered"
             ns == IF na.ok THEN o.stage ELSE "answered"
  <2>1. fa.val \in SUBSET Users /\ na.val \in SUBSET Users
        /\ fs \in {o.stage, "answered"} /\ ns \in {o.stage, "answered"}
    BY <1>3
  <2>2. \/ Set(c, [client[c] EXCEPT !.op.favs = fa.val, !.op.stage = fs])
        \/ Set(c, [client[c] EXCEPT !.op.notes = na.val, !.op.stage = ns])
        \/ Set(c, [client[c] EXCEPT !.op.stage = "answered", !.op.ok = TRUE])
    BY DEF ServeShared
  <2> HIDE DEF fa, na, fs, ns
  <2>3. /\ [client[c] EXCEPT !.op.favs = fa.val, !.op.stage = fs]
             = [client[c] EXCEPT !.op = [o EXCEPT !.favs = fa.val, !.stage = fs]]
        /\ [client[c] EXCEPT !.op.notes = na.val, !.op.stage = ns]
             = [client[c] EXCEPT !.op = [o EXCEPT !.notes = na.val, !.stage = ns]]
        /\ [client[c] EXCEPT !.op.stage = "answered", !.op.ok = TRUE]
             = [client[c] EXCEPT !.op = [o EXCEPT !.stage = "answered", !.ok = TRUE]]
    BY <1>0, <1>1 DEF Clients, Ops
  <2> QED BY <2>1, <2>2, <2>3
<1>5. op \in Ops /\ op.kind = "shared" /\ op.by = client[c].op.by /\ op.stage \in {"sent", "answered"}
  <2>1. CASE \E v \in SUBSET Users, s \in {client[c].op.stage, "answered"} :
               op = [client[c].op EXCEPT !.favs = v, !.stage = s]
    BY <1>1, <2>1 DEF Ops, Lists
  <2>2. CASE \E v \in SUBSET Users, s \in {client[c].op.stage, "answered"} :
               op = [client[c].op EXCEPT !.notes = v, !.stage = s]
    BY <1>1, <2>2 DEF Ops, Lists
  <2>3. CASE op = [client[c].op EXCEPT !.stage = "answered", !.ok = TRUE]
    BY <1>1, <2>3 DEF Ops, Lists
  <2> QED BY <1>4, <2>1, <2>2, <2>3
<1> QED BY <1>4, <1>5

LEMMA ServeSharedStep ==
  ASSUME FamilyConstants, IInv, NEW c \in Devices, ServeShared(c)
  PROVE  IInv'
<1>0. DeviceOK(client[c], db) /\ client[c] \in Clients
  BY DEF IInv
<1>1. client[c].op \in Ops /\ client[c].op.kind = "shared" /\ client[c].op.stage = "sent"
  BY <1>0 DEF ServeShared, Busy, Clients, NoOp
<1>2. ASSUME NEW op \in Ops, op.kind = "shared", op.by = client[c].op.by, op.stage \in {"sent", "answered"},
             Set(c, [client[c] EXCEPT !.op = op])
      PROVE  IInv'
  <2> DEFINE me == [client[c] EXCEPT !.op = op]
  <2>1. /\ me \in Clients /\ me.op = op /\ me.view = client[c].view /\ me.reads = client[c].reads
        /\ me.gen = client[c].gen /\ me.loaded = client[c].loaded /\ me.user = client[c].user /\ me.err = client[c].err
    BY <1>0, <1>2 DEF Clients
  <2>2. Set(c, me)
    BY <1>2
  <2> HIDE DEF me
  <2>3. DeviceOK(me, db)
    BY <1>0, <1>1, <1>2, <2>1 DEF DeviceOK, ReadFrom, PressedOn, UpToDate, LoadedFor, Seen, Awaited, Settling
  <2> QED BY <2>2, <2>3, OneDevice DEF ServeShared
<1> QED BY <1>2, ServeSharedIs

\* A call answers that it took effect, or that it was refused and did nothing.
LEMMA RpcAnswers ==
  ASSUME NEW op, op.kind \in RpcKinds
  PROVE  Rpc(op).ok \in BOOLEAN /\ (~Rpc(op).ok => Rpc(op).db = db)
<1> USE DEF Rpc, Done, Refused
<1>1. CASE op.kind = "create"
  BY <1>1 DEF CreateGroup
<1>2. CASE op.kind = "invite"
  BY <1>2 DEF CreateInvite
<1>3. CASE op.kind = "share"
  BY <1>3 DEF SetShare
<1>4. CASE op.kind = "leave"
  BY <1>4 DEF Leave
<1>5. CASE op.kind = "remove"
  BY <1>5 DEF Remove
<1>6. CASE op.kind = "delete"
  BY <1>6 DEF DeleteGroup
<1> QED BY <1>1, <1>2, <1>3, <1>4, <1>5, <1>6 DEF RpcKinds

\* The tables go on to e: what the devices knew of them they know still.
LEMMA NewTables ==
  ASSUME FamilyConstants, IInv, NEW e, db' = e, Sound(e), Follows(db, e), LocksOK(lock', e),
         client' \in [Devices -> Clients], \A x \in Devices : DeviceOK(client'[x], db)
  PROVE  IInv'
<1>1. \A x \in Devices : DeviceOK(client'[x], e)
  BY DeviceFollows DEF IInv
<1>2. Sound(db') /\ LocksOK(lock', db') /\ \A x \in Devices : DeviceOK(client'[x], db')
  BY <1>1
<1> QED BY <1>2 DEF IInv

\* The same for a step no device takes.
LEMMA NewTablesOnly ==
  ASSUME FamilyConstants, IInv, NEW e, db' = e, Sound(e), Follows(db, e), LocksOK(lock', e),
         UNCHANGED client
  PROVE  IInv'
<1>1. \A x \in Devices : DeviceOK(client'[x], e)
  BY DeviceFollows DEF IInv
<1>2. Sound(db') /\ LocksOK(lock', db') /\ \A x \in Devices : DeviceOK(client'[x], db')
  BY <1>1
<1> QED BY <1>2 DEF IInv

\* A call waits for the acceptances that hold a row it would take away.
LEMMA LocksStay ==
  ASSUME FamilyConstants, Sound(db), LocksOK(lock, db), NEW op, Called(op), Free(op), PressedOn(op, db)
  PROVE  LocksOK(lock, Rpc(op).db)
<1> DEFINE e == Rpc(op).db
<1>1. \A r \in db.rows :
        ~Active(r) /\ r \notin e.rows =>
          \/ op.kind = "invite" /\ r.group = op.group /\ r.expired
          \/ op.kind = "remove" /\ r.id = op.args
          \/ op.kind = "delete" /\ r.group = op.group
  BY RpcRows
<1> HIDE DEF e
<1>2. ASSUME NEW a \in lock
      PROVE  \E r \in e.rows : r.id = a.id /\ ~Active(r)
  <2>1. PICK r \in db.rows : r.id = a.id /\ ~Active(r)
    BY DEF LocksOK
  <2>2. Locked(r.id)
    BY <2>1 DEF Locked
  <2>3. r \in e.rows
    BY <1>1, <2>1, <2>2 DEF Free, PressedOn
  <2> QED BY <2>1, <2>3
<1>3. LocksOK(lock, e)
  BY <1>2 DEF LocksOK
<1> QED BY <1>3 DEF e

\* A device that is not told of a call keeps what it holds, but for the history.
LEMMA UntoldIs ==
  ASSUME NEW d, NEW me, DeviceOK(me, d), NEW u
  PROVE  LET you == Untold(me, u)
         IN /\ DeviceOK(you, d)
            /\ you.user = me.user /\ you.err = me.err /\ you.loading = me.loading
            /\ you.view.rows = me.view.rows /\ you.view.user = me.view.user
            /\ you.view.seen = me.view.seen
            /\ you.view.told => me.view.told /\ me.view.user # u
            /\ \A r \in you.reads : \E q \in me.reads :
                 /\ r.rows = q.rows /\ r.for = q.for /\ r.got = q.got /\ r.seen = q.seen
                 /\ r.told => q.told /\ (q.got = "nothing" \/ q.for # u)
            /\ you.op.kind = me.op.kind
            /\ me.op.kind # "none" => you.op.stage = me.op.stage /\ you.op.by = me.op.by
            /\ me.op.kind # "share" => you.op = me.op
            /\ me.op.kind = "share" =>
                 /\ you.op.args.which = me.op.args.which /\ you.op.args.fav = me.op.args.fav
                 /\ you.op.args.note = me.op.args.note /\ you.op.args.row = me.op.args.row
                 /\ you.op.args.fresh => me.op.args.fresh /\ me.op.by # u
<1> DEFINE v == [me.view EXCEPT !.told = @ /\ me.view.user # u]
           old(r) == [r EXCEPT !.told = r.told /\ (r.got = "nothing" \/ r.for # u)]
           rs == {old(r) : r \in me.reads}
           as == [me.op.args EXCEPT !.fresh = FALSE]
           shared == [me.op EXCEPT !.args = as]
           p == IF me.op.kind = "share" /\ me.op.by = u THEN shared ELSE me.op
           you == [me EXCEPT !.view = v, !.reads = rs, !.op = p]
<1>0. me \in Clients /\ me.view \in Views /\ me.reads \subseteq Reads /\ me.op \in {NoOp} \cup Ops
  BY DEF DeviceOK, Clients
<1>1. Untold(me, u) = you
  BY <1>0 DEF Untold, Clients
<1>2. /\ v \in Views /\ v.rows = me.view.rows /\ v.user = me.view.user /\ v.seen = me.view.seen
      /\ v.told <=> me.view.told /\ me.view.user # u
  BY <1>0 DEF Views
<1>3. \A r \in me.reads :
        /\ old(r) \in Reads /\ old(r).rows = r.rows /\ old(r).for = r.for /\ old(r).got = r.got
        /\ old(r).seen = r.seen /\ old(r).gen = r.gen
        /\ old(r).told <=> r.told /\ (r.got = "nothing" \/ r.for # u)
  <2> TAKE r \in me.reads
  <2>1. r \in Reads
    BY <1>0
  <2> QED BY <2>1 DEF Reads
<1>4. /\ p \in {NoOp} \cup Ops /\ p.kind = me.op.kind /\ PressedOn(p, d)
      /\ me.op.kind # "share" => p = me.op
      /\ me.op.kind # "none" => /\ p.stage = me.op.stage /\ p.by = me.op.by /\ p.gen = me.op.gen
                                /\ p.ok = me.op.ok
      /\ me.op.kind = "share" =>
           /\ p.args.which = me.op.args.which /\ p.args.fav = me.op.args.fav
           /\ p.args.note = me.op.args.note /\ p.args.row = me.op.args.row
           /\ p.args.fresh => me.op.args.fresh /\ me.op.by # u
  <2>1. CASE me.op.kind = "share" /\ me.op.by = u
    <3>1. me.op \in Ops /\ me.op.args \in Switched
      BY <1>0, <2>1 DEF NoOp, DeviceOK, PressedOn
    <3>2. /\ as \in Switched /\ as.which = me.op.args.which /\ as.fav = me.op.args.fav
          /\ as.note = me.op.args.note /\ as.row = me.op.args.row /\ ~as.fresh
      BY <3>1 DEF Switched
    <3>a. as.fav \in BOOLEAN /\ as.note \in BOOLEAN
      BY <3>1, <3>2 DEF Switched
    <3> HIDE DEF as
    <3>3. /\ shared \in Ops /\ shared.kind = "share" /\ shared.args = as
          /\ shared.stage = me.op.stage /\ shared.by = me.op.by /\ shared.gen = me.op.gen
          /\ shared.ok = me.op.ok
      BY <2>1, <3>1, <3>2 DEF Ops
    <3> HIDE DEF shared
    <3>4. p = shared
      BY <2>1
    <3>5. PressedOn(p, d)
      BY <3>2, <3>a, <3>3, <3>4 DEF PressedOn
    <3> QED BY <2>1, <3>2, <3>3, <3>4, <3>5
  <2>2. CASE ~(me.op.kind = "share" /\ me.op.by = u)
    <3>1. p = me.op
      BY <2>2
    <3> QED BY <1>0, <2>2, <3>1 DEF DeviceOK
  <2> QED BY <2>1, <2>2
<1>a. rs \subseteq Reads
  BY <1>3
<1>b. \A r \in rs : \E q \in me.reads : r = old(q)
  OBVIOUS
<1>c. \A r \in rs : \E q \in me.reads :
        /\ r.rows = q.rows /\ r.for = q.for /\ r.got = q.got /\ r.seen = q.seen /\ r.gen = q.gen
        /\ r.told => q.told /\ (q.got = "nothing" \/ q.for # u)
  <2> HIDE DEF old, rs
  <2> QED BY <1>3, <1>b
<1> HIDE DEF v, rs, p, old
<1>5. /\ you \in Clients /\ you.view = v /\ you.reads = rs /\ you.op = p /\ you.gen = me.gen
      /\ you.user = me.user /\ you.loaded = me.loaded /\ you.err = me.err /\ you.loading = me.loading
  BY <1>0, <1>2, <1>4, <1>a DEF Clients
<1> HIDE DEF you
<1>6. ReadFrom(you, d)
  BY <1>2, <1>5, <1>c DEF DeviceOK, ReadFrom
<1>7. UpToDate(you)
  <2>1. \A r \in you.reads : r.gen <= you.gen
    BY <1>5, <1>c DEF DeviceOK, UpToDate
  <2>2. Seen(me) => Seen(you)
    BY <1>2, <1>4, <1>5, <1>c DEF Seen, Awaited
  <2>3. Settling(me) => Settling(you)
    BY <1>4, <1>5 DEF Settling
  <2>4. LoadedFor(you)
    BY <1>4, <1>5 DEF DeviceOK, UpToDate, LoadedFor
  <2> QED BY <2>1, <2>2, <2>3, <2>4 DEF DeviceOK, UpToDate
<1>8. DeviceOK(you, d)
  BY <1>4, <1>5, <1>6, <1>7 DEF DeviceOK
<1> QED BY <1>1, <1>2, <1>4, <1>5, <1>8, <1>c

\* A call is served: it takes effect and is answered, or it fails before or after,
\* and whoever is not told of what it changed is marked.
LEMMA ServeOpIs ==
  ASSUME IInv, NEW c \in Devices, ServeOp(c)
  PROVE  \E ok \in BOOLEAN, e \in {db, Rpc(client[c].op).db}, M \in [Devices -> Clients] :
           LET op == client[c].op
           IN /\ db' = e
              /\ \A x \in Devices : M[x] \in {client[x], Untold(client[x], op.by)}
              /\ e # db /\ op.kind = "share" =>
                   \A x \in Devices : x # c \/ ~ok => M[x] = Untold(client[x], op.by)
              /\ ok => M[c] = client[c]
              /\ client' = [x \in Devices |->
                   IF x = c THEN [IF ok THEN Unseen(M[c]) ELSE M[c] EXCEPT !.op.stage = "answered", !.op.ok = ok]
                   ELSE M[x]]
<1> DEFINE op == client[c].op
           answer == Rpc(op)
           missed(x) == IF op.kind = "share" /\ answer.ok THEN Untold(client[x], op.by) ELSE client[x]
           M == [x \in Devices |-> missed(x)]
           N == [M EXCEPT ![c] = client[c]]
           told(me, ok) == [IF ok THEN Unseen(me) ELSE me EXCEPT !.op.stage = "answered", !.op.ok = ok]
<1>0. DeviceOK(client[c], db) /\ client \in [Devices -> Clients] /\ \A x \in Devices : client[x] \in Clients
  BY DEF IInv
<1>1. op.kind \in RpcKinds
  BY <1>0 DEF ServeOp, Busy, Clients, NoOp, Ops, OpKinds
<1>2. answer.ok \in BOOLEAN /\ (~answer.ok => answer.db = db)
  BY <1>1, RpcAnswers
<1>3. \A x \in Devices : Untold(client[x], op.by) \in Clients
  BY UntoldIs DEF IInv, DeviceOK
<1>4. /\ M \in [Devices -> Clients] /\ N \in [Devices -> Clients] /\ N[c] = client[c]
      /\ \A x \in Devices : M[x] = missed(x) /\ (x # c => N[x] = missed(x))
  BY <1>0, <1>3
<1>5. \/ /\ db' = answer.db
         /\ client' = [x \in Devices |-> IF x = c THEN told(client[c], answer.ok) ELSE missed(x)]
      \/ db' = db /\ Set(c, told(client[c], FALSE))
      \/ /\ db' = answer.db
         /\ client' = [x \in Devices |-> IF x = c THEN told(missed(c), FALSE) ELSE missed(x)]
  BY DEF ServeOp
<1> HIDE DEF M, N
<1>6. CASE /\ db' = answer.db
           /\ client' = [x \in Devices |-> IF x = c THEN told(client[c], answer.ok) ELSE missed(x)]
  <2>1. client' = [x \in Devices |-> IF x = c THEN told(N[c], answer.ok) ELSE N[x]]
    BY <1>4, <1>6
  <2>2. \A x \in Devices : N[x] \in {client[x], Untold(client[x], op.by)}
    BY <1>4
  <2>3. answer.db # db /\ op.kind = "share" =>
          \A x \in Devices : x # c \/ ~answer.ok => N[x] = Untold(client[x], op.by)
    BY <1>2, <1>4
  <2> HIDE DEF answer, missed
  <2>4. answer.db \in {db, Rpc(op).db}
    BY DEF answer
  <2> HIDE DEF op, told
  <2> QED BY <1>2, <1>4, <1>6, <2>1, <2>2, <2>3, <2>4 DEF told, op
<1>7. CASE db' = db /\ Set(c, told(client[c], FALSE))
  <2>1. client' = [x \in Devices |-> IF x = c THEN told(client[c], FALSE) ELSE client[x]]
    BY <1>0, <1>7 DEF Set
  <2> QED BY <1>0, <1>7, <2>1
<1>8. CASE /\ db' = answer.db
           /\ client' = [x \in Devices |-> IF x = c THEN told(missed(c), FALSE) ELSE missed(x)]
  <2>1. client' = [x \in Devices |-> IF x = c THEN told(M[c], FALSE) ELSE M[x]]
    BY <1>4, <1>8
  <2>2. \A x \in Devices : M[x] \in {client[x], Untold(client[x], op.by)}
    BY <1>4
  <2>3. answer.db # db /\ op.kind = "share" => \A x \in Devices : M[x] = Untold(client[x], op.by)
    BY <1>2, <1>4
  <2> QED BY <1>4, <1>8, <2>1, <2>2, <2>3
<1> QED BY <1>5, <1>6, <1>7, <1>8

\* What was read before it took effect is old, and a reload is due.
LEMMA ServedOK ==
  ASSUME NEW d, NEW old, DeviceOK(old, d), old.op.kind \in RpcKinds, old.op.stage = "sent", NEW ok \in BOOLEAN
  PROVE  DeviceOK([IF ok THEN Unseen(old) ELSE old EXCEPT !.op.stage = "answered", !.op.ok = ok], d)
<1> DEFINE base == IF ok THEN Unseen(old) ELSE old
           done == [old.op EXCEPT !.stage = "answered", !.ok = ok]
           me == [base EXCEPT !.op = done]
           reads == {[r EXCEPT !.seen = r.got = "nothing"] : r \in old.reads}
           view == [old.view EXCEPT !.seen = FALSE]
<1>0. old \in Clients /\ old.op \in Ops /\ PressedOn(old.op, d) /\ old.op.kind \notin {"none", "shared"}
  BY DEF DeviceOK, Clients, NoOp, RpcKinds
<1>6. /\ base \in Clients /\ base.op = old.op /\ base.gen = old.gen
      /\ base.user = old.user /\ base.loaded = old.loaded
      /\ ~ok => base = old
      /\ ok => ReadFrom(base, d) /\ \A r \in base.reads : r.gen <= base.gen
  <2>1. CASE ~ok
    BY <1>0, <2>1
  <2>2. CASE ok
    <3>1. base = [old EXCEPT !.view = view, !.reads = reads]
      BY <1>0, <2>2 DEF Unseen, Clients, Views
    <3>2. view \in Views /\ view.rows = old.view.rows
      BY <1>0 DEF Clients, Views
    <3>3. /\ reads \in SUBSET Reads
          /\ \A r \in reads : \E q \in old.reads : r.rows = q.rows /\ r.gen = q.gen
      <4>1. \A q \in old.reads : q \in Reads
        BY <1>0 DEF Clients
      <4>2. \A q \in Reads : LET r == [q EXCEPT !.seen = q.got = "nothing"]
                            IN r \in Reads /\ r.rows = q.rows /\ r.gen = q.gen
        BY DEF Reads
      <4> QED BY <4>1, <4>2
    <3> HIDE DEF reads, view, base
    <3>4. /\ base \in Clients /\ base.op = old.op /\ base.gen = old.gen
          /\ base.user = old.user /\ base.loaded = old.loaded
          /\ base.view = view /\ base.reads = reads
      BY <1>0, <3>1, <3>2, <3>3 DEF Clients
    <3>5. ReadFrom(base, d)
      BY <1>0, <3>2, <3>3, <3>4 DEF DeviceOK, ReadFrom
    <3>6. \A r \in base.reads : r.gen <= base.gen
      BY <1>0, <3>3, <3>4 DEF DeviceOK, UpToDate
    <3> QED BY <2>2, <3>4, <3>5, <3>6
  <2> QED BY <2>1, <2>2
<1>7. [base EXCEPT !.op.stage = "answered", !.op.ok = ok] = me
  BY <1>0, <1>6 DEF Clients, Ops
<1>8. /\ done \in Ops /\ done.kind = old.op.kind /\ done.args = old.op.args /\ done.group = old.op.group
      /\ done.stage = "answered" /\ done.ok = ok /\ done.by = old.op.by
  BY <1>0 DEF Ops
<1> HIDE DEF base, done, reads, view
<1>10. /\ me \in Clients /\ me.op = done /\ me.view = base.view /\ me.reads = base.reads
       /\ me.gen = base.gen /\ me.loaded = base.loaded /\ me.user = base.user /\ me.err = base.err
  BY <1>6, <1>8 DEF Clients
<1> HIDE DEF me
<1>11. PressedOn(me.op, d)
  BY <1>0, <1>8, <1>10 DEF PressedOn
<1>12. ReadFrom(me, d)
  BY <1>0, <1>6, <1>10 DEF DeviceOK, ReadFrom
<1>13. UpToDate(me)
  <2>0. LoadedFor(me)
    BY <1>0, <1>6, <1>8, <1>10 DEF DeviceOK, UpToDate, LoadedFor
  <2>1. CASE ok
    BY <1>0, <1>6, <1>8, <1>10, <2>1, <2>0 DEF UpToDate, Settling, RpcKinds
  <2>2. CASE ~ok
    BY <1>0, <1>6, <1>10, <2>2, <2>0 DEF DeviceOK, UpToDate, Seen, Awaited, Settling
  <2> QED BY <2>1, <2>2
<1>14. DeviceOK(me, d)
  BY <1>10, <1>11, <1>12, <1>13 DEF DeviceOK
<1> QED BY <1>7, <1>14 DEF base

LEMMA ServeOpStep ==
  ASSUME FamilyConstants, IInv, NEW c \in Devices, ServeOp(c)
  PROVE  IInv'
<1> DEFINE op == client[c].op
<1>0. DeviceOK(client[c], db) /\ client[c] \in Clients /\ Sound(db) /\ LocksOK(lock, db)
  BY DEF IInv
<1>1. /\ op \in Ops /\ op.kind \in RpcKinds /\ op.stage = "sent" /\ Free(op) /\ PressedOn(op, db)
  BY <1>0 DEF ServeOp, Busy, DeviceOK, Clients, NoOp, Ops, OpKinds
<1>2. Called(op)
  BY <1>0, <1>1 DEF Called, PressedOn, Ops
<1>3. PICK ok \in BOOLEAN, e \in {db, Rpc(op).db}, M \in [Devices -> Clients] :
        /\ db' = e
        /\ \A x \in Devices : M[x] \in {client[x], Untold(client[x], op.by)}
        /\ e # db /\ op.kind = "share" =>
             \A x \in Devices : x # c \/ ~ok => M[x] = Untold(client[x], op.by)
        /\ ok => M[c] = client[c]
        /\ client' = [x \in Devices |->
             IF x = c THEN [IF ok THEN Unseen(M[c]) ELSE M[c] EXCEPT !.op.stage = "answered", !.op.ok = ok]
             ELSE M[x]]
  BY ServeOpIs
<1>4. Sound(e) /\ Follows(db, e)
  <2>1. Follows(db, db)
    BY <1>0, RowsFollow, SoundIsTables DEF SoundTables, FamilyConstants
  <2>2. Sound(Rpc(op).db) /\ Follows(db, Rpc(op).db)
    BY <1>0, <1>2, RpcSound, RpcRows
  <2> QED BY <1>0, <1>3, <2>1, <2>2
<1>5. LocksOK(lock', e)
  <2>1. LocksOK(lock, e)
    BY <1>0, <1>1, <1>2, <1>3, LocksStay
  <2> QED BY <2>1 DEF ServeOp
<1>6. \A x \in Devices : DeviceOK(M[x], db)
  BY <1>3, UntoldIs DEF IInv
<1>7. M[c].op.kind \in RpcKinds /\ M[c].op.stage = "sent"
  BY <1>0, <1>1, <1>3, UntoldIs DEF RpcKinds
<1> DEFINE me == [IF ok THEN Unseen(M[c]) ELSE M[c] EXCEPT !.op.stage = "answered", !.op.ok = ok]
<1>8. DeviceOK(me, db)
  BY <1>6, <1>7, ServedOK
<1> HIDE DEF me
<1>9. client' = [x \in Devices |-> IF x = c THEN me ELSE M[x]]
  BY <1>3 DEF me
<1>10. \A x \in Devices : client'[x] \in Clients /\ DeviceOK(client'[x], db)
  BY <1>6, <1>8, <1>9 DEF DeviceOK
<1>11. client' \in [Devices -> Clients]
  BY <1>9, <1>10
<1> QED BY <1>3, <1>4, <1>5, <1>10, <1>11, NewTables

\* An answer arrives: the device is free, or reloads as who pressed.
LEMMA DeliverOpStep ==
  ASSUME IInv, NEW c \in Devices, DeliverOp(c)
  PROVE  IInv'
<1> DEFINE op == client[c].op
<1>0. DeviceOK(client[c], db) /\ client[c] \in Clients
  BY DEF IInv
<1>1. op \in Ops /\ op.stage = "answered"
  BY <1>0 DEF DeliverOp, Busy, Clients, NoOp
<1>2. CASE ~op.ok \/ op.kind = "shared"
  <2>1. PICK shared \in Shareds : Set(c, [client[c] EXCEPT !.op = NoOp, !.shared = shared])
    <3>1. CASE ~op.ok
      <4>1. Set(c, [client[c] EXCEPT !.op = NoOp])
        BY <3>1 DEF DeliverOp
      <4>2. [client[c] EXCEPT !.op = NoOp] = [client[c] EXCEPT !.op = NoOp, !.shared = client[c].shared]
        BY <1>0 DEF Clients
      <4>3. client[c].shared \in Shareds
        BY <1>0 DEF Clients
      <4> QED BY <4>1, <4>2, <4>3
    <3>2. CASE op.ok /\ op.kind = "shared"
      <4> DEFINE shared == [for |-> op.group, favs |-> op.favs, notes |-> op.notes]
      <4>1. Set(c, [client[c] EXCEPT !.op = NoOp, !.shared = shared])
        BY <3>2 DEF DeliverOp
      <4>2. shared \in Shareds
        BY <1>1 DEF Shareds, Ops
      <4> QED BY <4>1, <4>2
    <3> QED BY <1>2, <3>1, <3>2
  <2> DEFINE me == [client[c] EXCEPT !.op = NoOp, !.shared = shared]
  <2>2. /\ me \in Clients /\ me.op = NoOp /\ me.view = client[c].view /\ me.reads = client[c].reads
        /\ me.gen = client[c].gen /\ me.loaded = client[c].loaded /\ me.user = client[c].user /\ me.err = client[c].err
    BY <1>0 DEF Clients
  <2>3. ~Settling(client[c]) /\ ~Awaited(client[c])
    BY <1>1, <1>2 DEF Settling, Awaited
  <2> HIDE DEF me
  <2>a. UpToDate(me)
    BY <1>0, <2>2, <2>3 DEF DeviceOK, UpToDate, LoadedFor, Seen, NoOp
  <2>4. DeviceOK(me, db)
    BY <1>0, <2>2, <2>a DEF DeviceOK, ReadFrom, PressedOn, NoOp
  <2> QED BY <2>1, <2>4, OneDevice DEF DeliverOp, me
<1>3. CASE op.ok /\ op.kind # "shared"
  <2> DEFINE you == Reload(client[c], op.by)
             next == [op EXCEPT !.stage = "reload", !.gen = client[c].gen + 1]
             me == [you EXCEPT !.op = next]
  <2>1. Set(c, [you EXCEPT !.op.stage = "reload", !.op.gen = client[c].gen + 1])
    BY <1>3 DEF DeliverOp
  <2>2. op.by \in Accounts /\ \A r \in client[c].reads : r.gen <= client[c].gen
    BY <1>0, <1>1 DEF Ops, Accounts, DeviceOK, UpToDate
  <2>3. /\ you \in Clients /\ you.op = op /\ you.gen = client[c].gen + 1
        /\ you.user = client[c].user /\ you.loaded = op.by
        /\ \A r \in you.reads : r.gen <= you.gen /\ (r.gen = you.gen => r.seen)
        /\ \/ you.view = NoView
           \/ you.view = client[c].view /\ you.err = client[c].err /\ client[c].loaded = op.by
        /\ \A r \in you.reads : r \in client[c].reads \/ (r.rows = {} /\ r.got = "nothing")
    BY <1>0, <2>2, ReloadIs
  <2>4. client[c].gen + 1 \in Nat
    BY <1>0 DEF Clients
  <2>5. /\ next \in Ops /\ next.kind = op.kind /\ next.args = op.args /\ next.group = op.group
        /\ next.stage = "reload" /\ next.gen = client[c].gen + 1 /\ next.kind # "none"
    <3>1. op.kind # "none"
      BY DEF DeliverOp, Busy
    <3> QED BY <1>1, <2>4, <3>1 DEF Ops
  <2> HIDE DEF you
  <2>6. [you EXCEPT !.op.stage = "reload", !.op.gen = client[c].gen + 1] = me
    BY <1>1, <2>3 DEF Clients, Ops
  <2>7. Set(c, me)
    BY <2>1, <2>6
  <2> HIDE DEF next
  <2>8. /\ me \in Clients /\ me.op = next /\ me.view = you.view /\ me.reads = you.reads
        /\ me.gen = you.gen /\ me.loaded = you.loaded /\ me.user = you.user /\ me.err = you.err
    BY <2>3, <2>5 DEF Clients
  <2> HIDE DEF me
  <2>9. ReadFrom(me, db)
    BY <1>0, <2>3, <2>8 DEF DeviceOK, ReadFrom, Known, NoView
  <2>10. PressedOn(me.op, db)
    BY <1>0, <2>5, <2>8 DEF DeviceOK, PressedOn
  <2>11. Awaited(me) \/ me.view.seen
    <3>1. client[c].loaded = client[c].user \/ client[c].loaded # op.by
      BY <1>0, <1>1, <2>5 DEF DeviceOK, UpToDate, LoadedFor
    <3>2. CASE client[c].loaded # op.by
      BY <2>3, <2>8, <3>2 DEF NoView
    <3>3. CASE client[c].loaded = op.by
      BY <2>3, <2>5, <2>8, <3>1, <3>3 DEF Awaited
    <3> QED BY <3>2, <3>3
  <2>12. UpToDate(me)
    BY <2>3, <2>5, <2>8, <2>11 DEF UpToDate, Seen, LoadedFor
  <2>13. DeviceOK(me, db)
    BY <2>8, <2>9, <2>10, <2>12 DEF DeviceOK
  <2> QED BY <2>7, <2>13, OneDevice DEF DeliverOp
<1> QED BY <1>2, <1>3

\* An invitation expires: nothing but its mark changes.
LEMMA ExpireStep ==
  ASSUME FamilyConstants, IInv, Expire
  PROVE  IInv'
<1>1. PICK r \in db.rows : ~Active(r) /\ db' = [db EXCEPT !.rows = (@ \ {r}) \cup {[r EXCEPT !.expired = TRUE]}]
  BY DEF Expire
<1> DEFINE s == [r EXCEPT !.expired = TRUE]
           R == (db.rows \ {r}) \cup {s}
           e == [owner |-> db.owner, rows |-> R, next |-> db.next]
<1>2. Sound(db) /\ LocksOK(lock, db)
  BY DEF IInv
<1>3. SoundTables(db.owner, db.rows, db.next) /\ db.next \in Int
  BY <1>2, SoundIsTables DEF SoundTables, FamilyConstants
<1>4. /\ s \in Row /\ s.id = r.id /\ s.group = r.group /\ s.user = r.user /\ s.owner = r.owner /\ ~Active(s)
  <2>1. r \in Row /\ r.user = Nobody
    BY <1>1, <1>3 DEF SoundTables, Active
  <2>2. s \in Row /\ s.id = r.id /\ s.group = r.group /\ s.user = r.user /\ s.owner = r.owner
    BY <2>1 DEF Row
  <2> QED BY <2>1, <2>2 DEF Active
<1> HIDE DEF s
<1>5. db' = e
  <2>1. db' = [db EXCEPT !.rows = R]
    BY <1>1 DEF s
  <2>2. db = [owner |-> db.owner, rows |-> db.rows, next |-> db.next]
    BY <1>2, SoundIsTables
  <2> HIDE DEF R
  <2> QED BY <2>1, <2>2
<1>6. SoundTables(db.owner, R, db.next)
  <2>1. R \subseteq Row /\ \A x \in R : x.id < db.next /\ x.group \in DOMAIN db.owner
    BY <1>3, <1>4 DEF SoundTables
  <2>2. \A x \in R : x.owner => x.user = db.owner[x.group] /\ Active(x)
    BY <1>1, <1>3, <1>4 DEF SoundTables
  <2>3. \A x, y \in R : x.id = y.id => x = y
    BY <1>3, <1>4 DEF SoundTables
  <2>4. \A g \in DOMAIN db.owner : \E x \in R : x.group = g /\ x.owner
    BY <1>3, <1>4 DEF SoundTables
  <2>5. \A x, y \in R : x.group = y.group /\ Active(x) /\ x.user = y.user => x = y
    BY <1>1, <1>3, <1>4 DEF SoundTables
  <2> QED BY <1>3, <2>1, <2>2, <2>3, <2>4, <2>5 DEF SoundTables
<1>7. Sound(e)
  BY <1>6, TablesAreSound
<1>8. e.rows = R /\ e.next = db.next
  OBVIOUS
<1> HIDE DEF e
<1>9. Follows(db, e)
  BY <1>3, <1>4, <1>8 DEF Follows, Active
<1>10. LocksOK(lock, e)
  <2>1. \A x \in db.rows : ~Active(x) => \E y \in e.rows : y.id = x.id /\ ~Active(y)
    BY <1>4, <1>8
  <2> QED BY <1>2, <2>1 DEF LocksOK
<1> QED BY <1>5, <1>7, <1>9, <1>10, NewTablesOnly DEF Expire

\* An acceptance takes a row nobody else has.
LEMMA AcceptBeginsStep ==
  ASSUME FamilyConstants, IInv, NEW u \in Users, AcceptBegins(u)
  PROVE  IInv'
<1>1. PICK r \in db.rows :
        /\ Acceptable(db, u, r.id) /\ ~Locked(r.id)
        /\ lock' = lock \cup {[id |-> r.id, by |-> u, member |-> Mine(db, u, r.group) # {}]}
  BY DEF AcceptBegins
<1> DEFINE a == [id |-> r.id, by |-> u, member |-> Mine(db, u, r.group) # {}]
<1>2. Sound(db) /\ LocksOK(lock, db) /\ db.rows \subseteq Row
  BY DEF IInv, Sound
<1>3. a \in [id : Ids, by : Users, member : BOOLEAN] /\ a.id = r.id
  BY <1>2 DEF Row
<1>4. ~Active(r)
  BY <1>1, <1>2 DEF Acceptable, Sound
<1> HIDE DEF a
<1>5. lock' = lock \cup {a}
  BY <1>1 DEF a
<1>6. LocksOK(lock', db)
  BY <1>1, <1>2, <1>3, <1>4, <1>5 DEF LocksOK, Locked
<1>7. Follows(db, db)
  BY <1>2, RowsFollow, SoundIsTables DEF SoundTables, FamilyConstants
<1> QED BY <1>2, <1>6, <1>7, NewTablesOnly DEF AcceptBegins

\* An acceptance ends: it has changed its own row and no other.
LEMMA AcceptEndsStep ==
  ASSUME FamilyConstants, IInv, AcceptEnds
  PROVE  IInv'
<1>1. PICK a \in lock : db' = Accept(db, a.by, a.id, a.member).db /\ lock' = lock \ {a}
  BY DEF AcceptEnds
<1> DEFINE e == Accept(db, a.by, a.id, a.member).db
<1>2. Sound(db) /\ LocksOK(lock, db)
  BY DEF IInv
<1>3. a.by \in Users /\ a.member \in BOOLEAN
  BY <1>2 DEF LocksOK
<1>4. PICK row \in db.rows : row.id = a.id /\ ~Active(row)
  BY <1>2 DEF LocksOK
<1>5. /\ Sound(e) /\ Follows(db, e)
      /\ \A r \in db.rows : r.id # a.id => r \in e.rows
  BY <1>2, <1>3, <1>4, AcceptSound
<1>6. db' = e
  BY <1>1
<1> HIDE DEF e
<1>7. LocksOK(lock', e)
  <2>1. ASSUME NEW b \in lock \ {a}
        PROVE  \E r \in e.rows : r.id = b.id /\ ~Active(r)
    <3>1. b.id # a.id
      BY <1>2, <2>1 DEF LocksOK
    <3>2. PICK r \in db.rows : r.id = b.id /\ ~Active(r)
      BY <1>2, <2>1 DEF LocksOK
    <3> QED BY <1>5, <3>1, <3>2
  <2>2. lock' = lock \ {a}
    BY <1>1
  <2> QED BY <1>2, <2>1, <2>2 DEF LocksOK
<1> QED BY <1>5, <1>6, <1>7, NewTablesOnly DEF AcceptEnds

-----------------------------------------------------------------------------
(* Every behaviour.                                                        *)

\* Whichever device, account or acceptance moves.
LEMMA NextIInv == ShareConstants /\ IInv /\ [Next]_vars => IInv'
<1> SUFFICES ASSUME FamilyConstants, IInv, [Next]_vars
             PROVE  IInv'
  BY DEF ShareConstants
<1>1. ASSUME NEW c \in Devices, Serves(c) \/ Delivers(c)
      PROVE  IInv'
  BY <1>1, ServeReadStep, ServeOpStep, ServeSharedStep, DeliverReadStep, DeliverOpStep DEF Serves, Delivers
<1>2. ASSUME NEW c \in Devices,
             SwitchUser(c) \/ CloseSheet(c) \/ OpenSheet(c) \/ HideShared(c) \/ PressRetry(c)
      PROVE  IInv'
  BY <1>2, SwitchUserStep, SheetSteps
<1>3. ASSUME NEW c \in Devices,
             \/ PressCreate(c) \/ PressInvite(c) \/ PressDelete(c) \/ PressLeave(c)
             \/ PressRemove(c) \/ PressToggle(c) \/ PressShared(c)
      PROVE  IInv'
  BY <1>3, PressSteps
<1>4. ASSUME UNCHANGED vars
      PROVE  IInv'
  BY <1>4 DEF vars, IInv
<1>5. ASSUME NEW u \in Users, AcceptBegins(u)
      PROVE  IInv'
  BY <1>5, AcceptBeginsStep
<1>6. Expire \/ AcceptEnds => IInv'
  BY ExpireStep, AcceptEndsStep
<1> QED BY <1>1, <1>2, <1>3, <1>4, <1>5, <1>6 DEF Next

\* Only calls and acceptances touch the tables, and what they leave follows.
LEMMA NextFollows ==
  ASSUME FamilyConstants, IInv, Next
  PROVE  Follows(db, db')
<1>1. Sound(db) /\ LocksOK(lock, db) /\ Follows(db, db)
  BY RowsFollow, SoundIsTables DEF IInv, SoundTables, FamilyConstants
<1>2. CASE db' = db
  BY <1>1, <1>2
<1>3. ASSUME NEW c \in Devices, ServeOp(c)
      PROVE  Follows(db, db')
  <2>1. Called(client[c].op)
    <3>1. client[c].op \in Ops /\ client[c].op.kind \in RpcKinds /\ PressedOn(client[c].op, db)
      BY <1>3 DEF IInv, ServeOp, Busy, DeviceOK, Clients, NoOp, Ops, OpKinds
    <3> QED BY <3>1 DEF Called, PressedOn
  <2>2. Follows(db, Rpc(client[c].op).db)
    BY <1>1, <2>1, RpcRows
  <2>3. db' \in {db, Rpc(client[c].op).db}
    BY <1>3 DEF ServeOp
  <2> QED BY <1>1, <2>2, <2>3
<1>4. CASE Expire
  <2>1. PICK r \in db.rows : ~Active(r) /\ db' = [db EXCEPT !.rows = (@ \ {r}) \cup {[r EXCEPT !.expired = TRUE]}]
    BY <1>4 DEF Expire
  <2> DEFINE s == [r EXCEPT !.expired = TRUE]
             R == (db.rows \ {r}) \cup {s}
  <2>2. r \in Row
    BY <1>1 DEF Sound
  <2>3. s.id = r.id /\ s.group = r.group
    BY <2>2 DEF Row
  <2> HIDE DEF s
  <2>4. db' = [db EXCEPT !.rows = R]
    BY <2>1 DEF s
  <2>5. db = [owner |-> db.owner, rows |-> db.rows, next |-> db.next]
    BY <1>1, SoundIsTables
  <2>6. db'.rows = R /\ db'.next = db.next
    <3> HIDE DEF R
    <3> QED BY <2>4, <2>5
  <2>7. db.next \in Int
    BY <1>1, SoundIsTables DEF SoundTables, FamilyConstants
  <2> QED BY <2>1, <2>3, <2>6, <2>7 DEF Follows
<1>5. CASE AcceptEnds
  <2>1. PICK a \in lock : db' = Accept(db, a.by, a.id, a.member).db
    BY <1>5 DEF AcceptEnds
  <2>2. a.by \in Users /\ a.member \in BOOLEAN
    BY <1>1 DEF LocksOK
  <2>3. PICK row \in db.rows : row.id = a.id /\ ~Active(row)
    BY <1>1 DEF LocksOK
  <2> QED BY <1>1, <2>1, <2>2, <2>3, AcceptSound
<1>6. ASSUME NEW c \in Devices,
             \/ PressCreate(c) \/ PressInvite(c) \/ PressDelete(c) \/ PressLeave(c)
             \/ PressRemove(c) \/ PressToggle(c) \/ PressShared(c)
      PROVE  db' = db
  BY <1>6 DEF Press, PressCreate, PressInvite, PressDelete, PressLeave, PressRemove, PressToggle, PressShared
<1>7. ASSUME NEW c \in Devices,
             \/ SwitchUser(c) \/ CloseSheet(c) \/ OpenSheet(c) \/ HideShared(c) \/ PressRetry(c)
             \/ ServeRead(c) \/ ServeShared(c) \/ Delivers(c)
      PROVE  db' = db
  BY <1>7 DEF SwitchUser, CloseSheet, OpenSheet, HideShared, PressRetry, ServeRead, ServeShared,
              Delivers, DeliverRead, DeliverOp
<1>8. ASSUME NEW u \in Users, AcceptBegins(u)
      PROVE  db' = db
  BY <1>8 DEF AcceptBegins
<1> QED BY <1>2, <1>3, <1>4, <1>5, <1>6, <1>7, <1>8 DEF Next, Serves

\* The inductive invariant holds in every behaviour.
LEMMA SpecIInv == ShareConstants => (Spec => []IInv)
<1> SUFFICES ASSUME ShareConstants
             PROVE  Spec => []IInv
  OBVIOUS
<1>1. Init => IInv
  BY InitIInv
<1>2. IInv /\ [Next]_vars => IInv'
  BY NextIInv
<1> QED BY <1>1, <1>2, PTL DEF Spec

\* Whatever is pressed, lost, late or out of order, the tables, the sheets and
\* what they wait for keep their shape.
LEMMA TypeCorrect == ShareConstants => (Spec => []TypeOK)
<1>1. ASSUME IInv
      PROVE  TypeOK
  <2>1. db.rows \subseteq Row /\ db.next \in 1..(MaxRows + 1) /\ DOMAIN db.owner \subseteq Groups
    BY <1>1 DEF IInv, Sound
  <2>2. ASSUME NEW c \in Devices
        PROVE  /\ client[c].user \in Users \cup {Nobody} /\ client[c].loaded \in Users \cup {Nobody}
               /\ Busy(c) => client[c].op.stage \in {"sent", "answered", "reload"}
               /\ client[c].shared.for \in Groups \cup {Nobody} /\ client[c].view.rows \subseteq Row
    <3>1. client[c] \in Clients
      BY <1>1 DEF IInv
    <3>2. Busy(c) => client[c].op \in Ops
      BY <3>1 DEF Busy, Clients, NoOp
    <3> QED BY <3>1, <3>2 DEF Clients, Accounts, Shareds, Views, Ops
  <2> QED BY <2>1, <2>2 DEF TypeOK
<1> QED BY <1>1, SpecIInv, PTL

\* Every group has its owner's row, one of them, and no other row says owner:
\* not leave_family_group, remove_family_member or accept_family_invite, in
\* whichever order devices call them, takes it away or makes a second.
THEOREM OwnersStay == ShareConstants => (Spec => []OwnerStays)
<1>1. ASSUME IInv
      PROVE  OwnerStays
  <2>1. ASSUME NEW g \in DOMAIN db.owner
        PROVE  {r.user : r \in {s \in db.rows : s.group = g /\ s.owner}} = {db.owner[g]}
    <3>1. \A r \in db.rows : r.owner => r.user = db.owner[r.group]
      BY <1>1 DEF IInv, Sound
    <3>2. \E r \in db.rows : r.group = g /\ r.owner
      BY <1>1, <2>1 DEF IInv, Sound
    <3> QED BY <3>1, <3>2
  <2> QED BY <2>1 DEF OwnerStays
<1> QED BY <1>1, SpecIInv, PTL

\* However many invitations of a group one person accepts at once, on however
\* many devices, he is in it once.
THEOREM OneMembership == ShareConstants => (Spec => []OneRowPerMember)
<1>1. ASSUME IInv
      PROVE  OneRowPerMember
  BY <1>1 DEF IInv, Sound, OneRowPerMember
<1> QED BY <1>1, SpecIInv, PTL

\* One row for everybody in a group, and the owner's for the owner.
THEOREM RowsArePersons == ShareConstants => (Spec => []OneRowPerPerson)
BY OwnersStay, OneMembership, PTL DEF OneRowPerPerson

\* A device whose buttons are free shows what it did itself, unless it says that a
\* load failed: the generation of useFamilyShare's reload drops every answer that
\* was read before, and loadedUserId what was shown of another account.
LEMMA OwnWritesAreRead == ShareConstants => (Spec => []ReadYourWrites)
<1>1. ASSUME IInv
      PROVE  ReadYourWrites
  <2>1. ASSUME NEW c \in Devices, ~Busy(c), ~client[c].err
        PROVE  client[c].view.seen
    BY <1>1, <2>1 DEF IInv, DeviceOK, UpToDate, Seen, Awaited, Settling, Busy
  <2>2. DOMAIN client = Devices
    BY <1>1 DEF IInv
  <2> QED BY <2>1, <2>2 DEF ReadYourWrites
<1> QED BY <1>1, SpecIInv, PTL

\* No step hands a membership to somebody else: rows keep their user from
\* acceptance to the end, and an id is never given twice.
THEOREM MembershipsAreKept == ShareConstants => (Spec => InvitationIsForOne)
<1>1. ASSUME FamilyConstants, IInv, [Next]_vars
      PROVE  [MembersKeepTheirRows]_vars
  <2>1. CASE UNCHANGED vars
    BY <2>1
  <2>2. CASE Next
    <3>1. Follows(db, db')
      BY <1>1, <2>2, NextFollows
    <3>2. \A r \in db.rows : r.id < db.next /\ r.id \in Int
      BY <1>1 DEF IInv, Sound, Row, Ids
    <3>3. db.next \in Int
      BY <1>1, SoundIsTables DEF IInv, SoundTables, FamilyConstants
    <3>4. \A r, s \in db.rows : r.id = s.id => r = s
      BY <1>1 DEF IInv, Sound
    <3>5. ASSUME NEW r \in db.rows, NEW s \in db'.rows, r.id = s.id, Active(r)
          PROVE  s.user = r.user
      <4>1. ~(s.id >= db.next)
        BY <3>2, <3>3, <3>5
      <4> QED BY <3>1, <3>4, <3>5, <4>1 DEF Follows
    <3> QED BY <3>5 DEF MembersKeepTheirRows
  <2> QED BY <1>1, <2>1, <2>2
<1> SUFFICES ASSUME ShareConstants
             PROVE  Spec => InvitationIsForOne
  OBVIOUS
<1>2. IInv /\ [Next]_vars => [MembersKeepTheirRows]_vars
  BY <1>1 DEF ShareConstants
<1> QED BY <1>2, SpecIInv, PTL DEF Spec, InvitationIsForOne

-----------------------------------------------------------------------------
(* The buttons that share.  Both values are sent, the one that was not pressed *)
(* as the sheet shows it, so what the sheet shows of the row must be what the  *)
(* tables have when the call takes effect.                                     *)

\* What rows say of u is what d says.
Agrees(rows, u, d) ==
  \A v \in rows, r \in d.rows :
    v.id = r.id /\ v.user = u /\ Active(v) => r.user = u /\ r.fav = v.fav /\ r.note = v.note

\* What is shown, or about to be, agrees for the account it was read for, unless
\* a call has changed that since.
Tells(me, d) ==
  /\ me.view.rows # {} => me.view.user \in Users
  /\ me.view.seen /\ me.view.told => Agrees(me.view.rows, me.view.user, d)
  /\ \A r \in me.reads : r.got = "rows" /\ r.seen /\ r.told => Agrees(r.rows, r.for, d)

\* A call under way says of the value that was not pressed what the tables say, if
\* what it was pressed on was fresh and still is.
SaysTrue(op, d) ==
  op.kind = "share" /\ op.stage = "sent" /\ op.args.fresh =>
    /\ op.args.row \in Int /\ op.args.row < d.next
    /\ \A r \in d.rows : r.id = op.args.row =>
         /\ Active(r)
         /\ r.user = op.by => IF op.args.which = "fav" THEN op.args.note = r.note ELSE op.args.fav = r.fav

SharingInv == \A c \in Devices : Tells(client[c], db) /\ SaysTrue(client[c].op, db)

\* What a membership shares changes by a button of its own person, and it is what
\* that button says that changes, if the sheet showed this membership and what it
\* showed was fresh: it did not say that a load failed, and no call of the account
\* that this device was not told of came after it was read, nor before this one
\* took effect.
OnlyThePressed ==
  \A r \in db.rows, s \in db'.rows :
    r.id = s.id /\ (r.fav # s.fav \/ r.note # s.note) =>
      \E c \in DOMAIN client :
        LET op == client[c].op
        IN /\ op.kind = "share" /\ op.stage = "sent" /\ client'[c].op.stage = "answered"
           /\ r.group = op.group /\ r.user = op.by
           /\ op.args.fresh /\ op.args.row = r.id =>
                IF op.args.which = "fav" THEN r.note = s.note ELSE r.fav = s.fav

\* What d says of u's sharing e says too.
Untouched(u, d, e) ==
  \A r \in d.rows, s \in e.rows : r.id = s.id /\ r.user = u /\ Active(r) => s.fav = r.fav /\ s.note = r.note

LEMMA AgreesFollow ==
  ASSUME FamilyConstants, NEW d, Sound(d), NEW e, Sound(e), Follows(d, e), NEW u,
         NEW rows \in SUBSET Row, Known(rows, d), Agrees(rows, u, d), Untouched(u, d, e)
  PROVE  Agrees(rows, u, e)
<1>1. d.next \in Int
  BY SoundIsTables DEF SoundTables, FamilyConstants
<1>2. ASSUME NEW v \in rows, NEW s \in e.rows, v.id = s.id, v.user = u, Active(v)
      PROVE  s.user = u /\ s.fav = v.fav /\ s.note = v.note
  <2>1. v.id \in Int /\ v.id < d.next
    BY DEF Row, Ids, Known
  <2>2. PICK r \in d.rows : r.id = s.id /\ (Active(r) => s.user = r.user)
    BY <1>1, <1>2, <2>1 DEF Follows
  <2>3. r.user = u /\ r.fav = v.fav /\ r.note = v.note /\ Active(r)
    BY <1>2, <2>2 DEF Agrees, Active
  <2> QED BY <2>2, <2>3 DEF Untouched
<1> QED BY <1>2 DEF Agrees

\* A device agrees with the tables that follow, if they say of the accounts it was
\* told of what they said.
LEMMA TellsFollow ==
  ASSUME FamilyConstants, NEW d, Sound(d), NEW e, Sound(e), Follows(d, e), NEW me, DeviceOK(me, d),
         Tells(me, d), SaysTrue(me.op, d),
         me.view.told => Untouched(me.view.user, d, e),
         \A r \in me.reads : r.got = "rows" /\ r.told => Untouched(r.for, d, e),
         me.op.kind = "share" /\ me.op.args.fresh => Untouched(me.op.by, d, e)
  PROVE  Tells(me, e) /\ SaysTrue(me.op, e)
<1>1. me.view.rows \in SUBSET Row /\ \A r \in me.reads : r.rows \in SUBSET Row
  BY DEF DeviceOK, Clients, Views, Reads
<1>2. Known(me.view.rows, d) /\ \A r \in me.reads : Known(r.rows, d)
  BY DEF DeviceOK, ReadFrom
<1>3. me.view.seen /\ me.view.told => Agrees(me.view.rows, me.view.user, e)
  BY <1>1, <1>2, AgreesFollow DEF Tells
<1>4. ASSUME NEW r \in me.reads, r.got = "rows", r.seen, r.told
      PROVE  Agrees(r.rows, r.for, e)
  BY <1>1, <1>2, <1>4, AgreesFollow DEF Tells
<1>5. SaysTrue(me.op, e)
  <2> DEFINE op == me.op
  <2> HIDE DEF op
  <2> SUFFICES ASSUME op.kind = "share", op.stage = "sent", op.args.fresh
               PROVE  /\ op.args.row \in Int /\ op.args.row < e.next
                      /\ \A s \in e.rows : s.id = op.args.row =>
                           /\ Active(s)
                           /\ s.user = op.by => IF op.args.which = "fav" THEN op.args.note = s.note
                                                ELSE op.args.fav = s.fav
    BY DEF SaysTrue, op
  <2>1. /\ op.args.row \in Int /\ op.args.row < d.next
        /\ \A r \in d.rows : r.id = op.args.row =>
             /\ Active(r)
             /\ r.user = op.by => IF op.args.which = "fav" THEN op.args.note = r.note
                                  ELSE op.args.fav = r.fav
    BY DEF SaysTrue, op
  <2>2. d.next \in Int /\ e.next \in Int /\ d.next <= e.next
    BY SoundIsTables DEF SoundTables, FamilyConstants, Follows
  <2>3. Untouched(op.by, d, e)
    BY DEF op
  <2>4. ASSUME NEW s \in e.rows, s.id = op.args.row
        PROVE  /\ Active(s)
               /\ s.user = op.by => IF op.args.which = "fav" THEN op.args.note = s.note
                                    ELSE op.args.fav = s.fav
    <3>1. PICK r \in d.rows : r.id = s.id /\ (Active(r) => s.user = r.user)
      BY <2>1, <2>2, <2>4 DEF Follows
    <3>2. Active(r) /\ s.user = r.user
      BY <2>1, <2>4, <3>1
    <3> QED BY <2>1, <2>3, <2>4, <3>1, <3>2 DEF Untouched, Active
  <2> QED BY <2>1, <2>2, <2>4
<1> QED BY <1>3, <1>4, <1>5 DEF Tells

\* What shows the same and waits for the same tells the same.
LEMMA TellsRests ==
  ASSUME NEW d, NEW me, NEW you, Tells(me, d), you.view = NoView \/ you.view = me.view,
         \A r \in you.reads : r \in me.reads \/ r.got # "rows"
  PROVE  Tells(you, d)
<1>1. NoView.rows = {} /\ \A u : Agrees({}, u, d)
  BY DEF NoView, Agrees
<1> QED BY <1>1 DEF Tells

\* A step of one device that touches no table.
LEMMA OneTells ==
  ASSUME IInv, SharingInv, NEW c \in Devices, NEW me, Set(c, me), Tells(me, db), SaysTrue(me.op, db),
         UNCHANGED db
  PROVE  SharingInv' /\ OnlyThePressed
<1>1. client'[c] = me /\ \A x \in Devices \ {c} : client'[x] = client[x]
  BY DEF IInv, Set
<1>2. \A x \in Devices : Tells(client'[x], db) /\ SaysTrue(client'[x].op, db)
  BY <1>1 DEF SharingInv
<1>3. \A x \in Devices : Tells(client'[x], db') /\ SaysTrue(client'[x].op, db')
  BY <1>2
<1>4. \A r, s \in db.rows : r.id = s.id => r = s
  BY DEF IInv, Sound
<1> QED BY <1>3, <1>4 DEF SharingInv, OnlyThePressed

LEMMA InitShares == ShareConstants /\ Init => SharingInv
<1> SUFFICES ASSUME ShareConstants, Init, NEW c \in Devices
             PROVE  Tells(client[c], db) /\ SaysTrue(client[c].op, db)
  BY DEF SharingInv
<1> DEFINE u == FirstUser[c]
           me == Starting(u)
<1>1. u \in Accounts
  BY DEF ShareConstants, Accounts
<1>2. me \in Clients /\ me.view = NoView /\ me.reads = {} /\ me.op = NoOp
  BY <1>1 DEF Starting, Clients, NoView, NoShared, Views, Shareds, Accounts, Lists
<1>3. client[c] = Reload(me, u)
  BY DEF Init
<1> HIDE DEF me
<1>4. Tells(me, db)
  BY <1>2 DEF Tells, NoView, Agrees
<1>5. /\ client[c].op = NoOp /\ client[c].view = me.view
      /\ \A r \in client[c].reads : r \in me.reads \/ r.got # "rows"
  BY <1>1, <1>2, <1>3, ReloadIs
<1> QED BY <1>4, <1>5, TellsRests DEF SaysTrue, NoOp

\* reload() asks for what it shows next, and shows nothing it did not show.
LEMMA ReloadTells ==
  ASSUME NEW d, NEW me \in Clients, \A r \in me.reads : r.gen <= me.gen, Tells(me, d),
         NEW u \in Accounts
  PROVE  Tells(Reload(me, u), d) /\ Reload(me, u).op = me.op /\ Reload(me, u) \in Clients
<1>1. LET you == Reload(me, u)
      IN /\ you.op = me.op /\ you \in Clients
         /\ you.view = NoView \/ you.view = me.view
         /\ \A r \in you.reads : r \in me.reads \/ r.got # "rows"
  BY ReloadIs
<1> QED BY <1>1, TellsRests

LEMMA SwitchShares ==
  ASSUME IInv, SharingInv, NEW c \in Devices, SwitchUser(c)
  PROVE  SharingInv' /\ OnlyThePressed
<1>1. PICK u \in (Users \cup {Nobody}) \ {client[c].user} : Set(c, Reload([client[c] EXCEPT !.user = u], u))
  BY DEF SwitchUser
<1> DEFINE me == [client[c] EXCEPT !.user = u]
<1>2. DeviceOK(client[c], db) /\ Tells(client[c], db) /\ SaysTrue(client[c].op, db)
  BY DEF IInv, SharingInv
<1>3. /\ me \in Clients /\ me.view = client[c].view /\ me.reads = client[c].reads /\ me.op = client[c].op
      /\ me.gen = client[c].gen /\ u \in Accounts
  BY <1>2 DEF DeviceOK, Clients, Accounts
<1>4. Set(c, Reload(me, u))
  BY <1>1
<1> HIDE DEF me
<1>5. Tells(me, db) /\ \A r \in me.reads : r.gen <= me.gen
  BY <1>2, <1>3 DEF Tells, DeviceOK, UpToDate
<1>6. Tells(Reload(me, u), db) /\ Reload(me, u).op = me.op
  BY <1>3, <1>5, ReloadTells
<1>7. SaysTrue(Reload(me, u).op, db)
  BY <1>2, <1>3, <1>6
<1> QED BY <1>4, <1>6, <1>7, OneTells DEF SwitchUser

LEMMA RetryShares ==
  ASSUME IInv, SharingInv, NEW c \in Devices, PressRetry(c)
  PROVE  SharingInv' /\ OnlyThePressed
<1>1. DeviceOK(client[c], db) /\ Tells(client[c], db) /\ SaysTrue(client[c].op, db)
  BY DEF IInv, SharingInv
<1>2. client[c] \in Clients /\ client[c].user \in Accounts /\ \A r \in client[c].reads : r.gen <= client[c].gen
  BY <1>1 DEF DeviceOK, Clients, UpToDate
<1> DEFINE me == Reload(client[c], client[c].user)
<1>3. Tells(me, db) /\ me.op = client[c].op
  BY <1>1, <1>2, ReloadTells
<1>4. Set(c, me) /\ UNCHANGED db
  BY DEF PressRetry
<1> HIDE DEF me
<1> QED BY <1>1, <1>3, <1>4, OneTells

\* What the tables say when they are read is what is read.
LEMMA ServeReadShares ==
  ASSUME IInv, SharingInv, NEW c \in Devices, ServeRead(c)
  PROVE  SharingInv' /\ OnlyThePressed
<1>0. PICK r \in client[c].reads :
        \E s \in {[r EXCEPT !.got = "rows", !.rows = Visible(db, r.as)], [r EXCEPT !.got = "error"]} :
          Set(c, [client[c] EXCEPT !.reads = (@ \ {r}) \cup {s}])
  BY DEF ServeRead
<1>1. PICK s \in {[r EXCEPT !.got = "rows", !.rows = Visible(db, r.as)], [r EXCEPT !.got = "error"]} :
        Set(c, [client[c] EXCEPT !.reads = (@ \ {r}) \cup {s}])
  BY <1>0
<1> DEFINE me == [client[c] EXCEPT !.reads = (@ \ {r}) \cup {s}]
<1>2. client[c] \in Clients /\ Sound(db) /\ Tells(client[c], db) /\ SaysTrue(client[c].op, db)
  BY DEF IInv, SharingInv
<1>3. r \in Reads
  BY <1>2 DEF Clients
<1>4. s.got = "rows" => s.rows = Visible(db, r.as)
  BY <1>1, <1>3 DEF Reads
<1>5. \A u : Agrees(Visible(db, r.as), u, db)
  <2>1. \A x, y \in db.rows : x.id = y.id => x = y
    BY <1>2 DEF Sound
  <2>2. Visible(db, r.as) \subseteq db.rows
    BY DEF Visible
  <2> QED BY <2>1, <2>2 DEF Agrees
<1>6. me.view = client[c].view /\ me.reads = (client[c].reads \ {r}) \cup {s} /\ me.op = client[c].op
  BY <1>2 DEF Clients
<1>7. Set(c, me)
  BY <1>1
<1> HIDE DEF me
<1>8. Tells(me, db)
  BY <1>2, <1>4, <1>5, <1>6 DEF Tells
<1> QED BY <1>2, <1>6, <1>7, <1>8, OneTells DEF ServeRead

LEMMA DeliverReadShares ==
  ASSUME FamilyConstants, IInv, SharingInv, NEW c \in Devices, DeliverRead(c)
  PROVE  SharingInv' /\ OnlyThePressed
<1>1. PICK r \in client[c].reads :
        /\ r.got # "nothing"
        /\ Set(c, AfterReload(Answer([client[c] EXCEPT !.reads = @ \ {r}], r), r))
  BY DEF DeliverRead
<1> DEFINE me == [client[c] EXCEPT !.reads = @ \ {r}]
           you == Answer(me, r)
           they == AfterReload(you, r)
<1>2. client[c] \in Clients /\ Tells(client[c], db) /\ SaysTrue(client[c].op, db)
  BY DEF IInv, SharingInv
<1>3. r \in Reads
  BY <1>2 DEF Clients
<1>4. /\ me \in Clients /\ me.view = client[c].view /\ me.reads = client[c].reads \ {r}
      /\ me.op = client[c].op
  BY <1>2 DEF Clients
<1>5. Set(c, they)
  BY <1>1
<1> HIDE DEF me
<1>6. Tells(me, db)
  BY <1>2, <1>4 DEF Tells
<1>7. Tells(you, db) /\ you.op = me.op /\ you \in Clients
  <2>1. CASE r.gen # me.gen
    <3>1. you = me
      BY <2>1 DEF Answer
    <3> QED BY <1>4, <1>6, <3>1
  <2>2. CASE r.gen = me.gen /\ r.got = "rows"
    <3> DEFINE v == [user |-> r.for, rows |-> r.rows, seen |-> r.seen, told |-> r.told]
    <3>1. you = [me EXCEPT !.view = v, !.err = FALSE, !.loading = FALSE]
      BY <2>2 DEF Answer
    <3>2. v \in Views /\ v.rows = r.rows /\ v.seen = r.seen /\ v.told = r.told /\ v.user = r.for
      BY <1>3 DEF Reads, Views, Accounts
    <3> HIDE DEF v, you
    <3>3. you \in Clients /\ you.view = v /\ you.reads = me.reads /\ you.op = me.op
      BY <1>4, <3>1, <3>2 DEF Clients
    <3>4. r.for \in Users /\ (r.seen /\ r.told => Agrees(r.rows, r.for, db))
      BY <1>2, <1>3, <2>2 DEF Tells, Reads
    <3> QED BY <1>6, <3>2, <3>3, <3>4 DEF Tells
  <2>3. CASE r.gen = me.gen /\ r.got = "error"
    <3>1. you = [me EXCEPT !.err = TRUE, !.loading = FALSE]
      BY <2>3 DEF Answer
    <3> HIDE DEF you
    <3>2. you \in Clients /\ you.view = me.view /\ you.reads = me.reads /\ you.op = me.op
      BY <1>4, <3>1 DEF Clients
    <3> QED BY <1>6, <3>2 DEF Tells
  <2> QED BY <1>1, <1>3, <2>1, <2>2, <2>3 DEF Reads
<1> HIDE DEF you
<1>8. Tells(they, db) /\ SaysTrue(they.op, db)
  <2>1. CASE they = you
    BY <1>2, <1>4, <1>7, <2>1
  <2>2. CASE they # you
    <3> DEFINE links == IF you.op.kind = "invite" THEN you.invites \cup {you.op.group} ELSE you.invites
    <3>1. they = [you EXCEPT !.op = NoOp, !.invites = links]
      <4>1. you.op.kind # "none" /\ you.op.stage = "reload" /\ you.op.gen = r.gen
        BY <2>2 DEF AfterReload
      <4>2. they = [you EXCEPT !.op = NoOp, !.invites = IF you.op.kind = "invite" THEN @ \cup {you.op.group} ELSE @]
        BY <4>1 DEF AfterReload
      <4> QED BY <4>2
    <3> HIDE DEF links, they
    <3>2. they.op = NoOp /\ they.view = you.view /\ they.reads = you.reads
      BY <1>7, <3>1 DEF Clients
    <3> QED BY <1>7, <3>2 DEF Tells, SaysTrue, NoOp
  <2> QED BY <2>1, <2>2
<1> HIDE DEF they
<1> QED BY <1>5, <1>8, OneTells DEF DeliverRead

\* A button is pressed.
LEMMA PressShares ==
  ASSUME IInv, SharingInv, NEW c \in Devices, NEW kind, NEW group, NEW args, Press(c, kind, group, args),
         kind = "share" /\ args.fresh =>
           /\ args.row \in Int /\ args.row < db.next
           /\ \A r \in db.rows : r.id = args.row =>
                /\ Active(r)
                /\ IF args.which = "fav" THEN args.note = r.note ELSE args.fav = r.fav
  PROVE  SharingInv' /\ OnlyThePressed
<1> DEFINE op == [kind |-> kind, group |-> group, args |-> args, stage |-> "sent",
                  by |-> client[c].user, gen |-> 0, ok |-> FALSE, favs |-> Nobody, notes |-> Nobody]
           me == [client[c] EXCEPT !.op = op]
<1>1. client[c] \in Clients /\ Tells(client[c], db)
  BY DEF IInv, SharingInv
<1>2. op.kind = kind /\ op.args = args
  OBVIOUS
<1>3. Set(c, me) /\ UNCHANGED db
  BY DEF Press
<1> HIDE DEF op
<1>4. me.op = op /\ me.view = client[c].view /\ me.reads = client[c].reads
  BY <1>1 DEF Clients
<1> HIDE DEF me
<1>5. Tells(me, db)
  BY <1>1, <1>4 DEF Tells
<1>6. SaysTrue(me.op, db)
  BY <1>2, <1>4 DEF SaysTrue
<1> QED BY <1>3, <1>5, <1>6, OneTells

LEMMA PressesShare ==
  ASSUME FamilyConstants, IInv, SharingInv, NEW c \in Devices,
         \/ PressCreate(c) \/ PressInvite(c) \/ PressDelete(c) \/ PressLeave(c)
         \/ PressRemove(c) \/ PressToggle(c) \/ PressShared(c)
  PROVE  SharingInv' /\ OnlyThePressed
<1>1. CASE PressToggle(c)
  <2> DEFINE args(g, which) == [which |-> which, fav |-> MyRow(c, g).fav # (which = "fav"),
                                note |-> MyRow(c, g).note # (which = "note"),
                                row |-> MyRow(c, g).id, fresh |-> Fresh(c)]
  <2>1. PICK g \in MyGroups(c), which \in {"fav", "note"} : Press(c, "share", g, args(g, which))
    BY <1>1 DEF PressToggle
  <2>2. /\ MyRow(c, g) \in client[c].view.rows /\ client[c].view.rows \subseteq Row
        /\ MyRow(c, g).user = client[c].view.user
    BY MyRowIs
  <2> DEFINE v == MyRow(c, g)
             as == args(g, which)
  <2>3. /\ as.row = v.id /\ (as.fresh <=> Fresh(c)) /\ as.which = which
        /\ as.fav = (v.fav # (which = "fav")) /\ as.note = (v.note # (which = "note"))
    OBVIOUS
  <2>4. Press(c, "share", g, as)
    BY <2>1
  <2> HIDE DEF args, as, v
  <2>5. v \in Row /\ v.id \in Int /\ v.id < db.next
    BY <2>2 DEF v, Row, Ids, IInv, DeviceOK, ReadFrom, Known
  <2>6. ASSUME as.fresh, NEW r \in db.rows, r.id = as.row
        PROVE  /\ Active(r)
               /\ IF as.which = "fav" THEN as.note = r.note ELSE as.fav = r.fav
    <3>1. client[c].view.seen /\ client[c].view.told
      BY <2>3, <2>4, <2>6 DEF Fresh, Press, Ready, Busy, IInv, DeviceOK, UpToDate, Seen, Awaited, Settling
    <3>2. Agrees(client[c].view.rows, client[c].view.user, db) /\ client[c].view.user \in Users
      BY <2>2, <3>1 DEF SharingInv, Tells
    <3>3. Active(v)
      BY <2>2, <3>2 DEF v, Active, FamilyConstants
    <3>4. r.user = v.user /\ r.fav = v.fav /\ r.note = v.note
      BY <2>2, <2>3, <2>6, <3>2, <3>3 DEF v, Agrees
    <3>5. Active(r)
      BY <3>3, <3>4 DEF Active
    <3>6. v.fav \in BOOLEAN /\ v.note \in BOOLEAN
      BY <2>5 DEF Row
    <3>7. CASE which = "fav"
      <4>1. as.note = v.note
        BY <2>3, <3>6, <3>7
      <4> QED BY <2>3, <3>4, <3>5, <3>7, <4>1
    <3>8. CASE which = "note"
      <4>1. as.fav = v.fav
        BY <2>3, <3>6, <3>8
      <4> QED BY <2>3, <3>4, <3>5, <3>8, <4>1
    <3> QED BY <3>7, <3>8
  <2> QED BY <2>3, <2>4, <2>5, <2>6, PressShares
<1>2. CASE PressCreate(c)
  BY <1>2, PressShares DEF PressCreate
<1>3. CASE PressInvite(c)
  BY <1>3, PressShares DEF PressInvite
<1>4. CASE PressDelete(c)
  BY <1>4, PressShares DEF PressDelete
<1>5. CASE PressLeave(c)
  BY <1>5, PressShares DEF PressLeave
<1>6. CASE PressRemove(c)
  BY <1>6, PressShares DEF PressRemove
<1>7. CASE PressShared(c)
  BY <1>7, PressShares DEF PressShared
<1> QED BY <1>1, <1>2, <1>3, <1>4, <1>5, <1>6, <1>7

\* What shows the sheet or hides it leaves the rest alone.
LEMMA SheetShares ==
  ASSUME IInv, SharingInv, NEW c \in Devices, HideShared(c) \/ CloseSheet(c) \/ OpenSheet(c)
  PROVE  SharingInv' /\ OnlyThePressed
<1>1. client[c] \in Clients /\ Tells(client[c], db) /\ SaysTrue(client[c].op, db)
  BY DEF IInv, SharingInv
<1>2. PICK me \in {[client[c] EXCEPT !.shared.for = Nobody],
                   [client[c] EXCEPT !.open = FALSE, !.invites = {}, !.shared = NoShared],
                   [client[c] EXCEPT !.open = TRUE]} : Set(c, me) /\ UNCHANGED db
  BY DEF HideShared, CloseSheet, OpenSheet
<1>3. me.view = client[c].view /\ me.reads = client[c].reads /\ me.op = client[c].op
  BY <1>1, <1>2 DEF Clients
<1>4. Tells(me, db)
  BY <1>1, <1>3 DEF Tells
<1> QED BY <1>1, <1>2, <1>3, <1>4, OneTells

LEMMA ServeSharedShares ==
  ASSUME FamilyConstants, IInv, SharingInv, NEW c \in Devices, ServeShared(c)
  PROVE  SharingInv' /\ OnlyThePressed
<1>1. client[c] \in Clients /\ Tells(client[c], db)
  BY DEF IInv, SharingInv
<1>2. PICK op \in Ops : op.kind = "shared" /\ Set(c, [client[c] EXCEPT !.op = op])
  BY ServeSharedIs
<1> DEFINE me == [client[c] EXCEPT !.op = op]
<1>3. me.view = client[c].view /\ me.reads = client[c].reads /\ me.op = op /\ Set(c, me)
  BY <1>1, <1>2 DEF Clients
<1> HIDE DEF me
<1>4. Tells(me, db) /\ SaysTrue(me.op, db)
  BY <1>1, <1>2, <1>3 DEF Tells, SaysTrue
<1> QED BY <1>3, <1>4, OneTells DEF ServeShared

LEMMA DeliverOpShares ==
  ASSUME IInv, SharingInv, NEW c \in Devices, DeliverOp(c)
  PROVE  SharingInv' /\ OnlyThePressed
<1> DEFINE op == client[c].op
<1>1. /\ client[c] \in Clients /\ DeviceOK(client[c], db) /\ Tells(client[c], db)
      /\ op \in Ops /\ op.stage = "answered"
  BY DEF IInv, DeviceOK, SharingInv, DeliverOp, Busy, Clients, NoOp
<1>2. CASE ~op.ok \/ op.kind = "shared"
  <2>1. PICK me \in {[client[c] EXCEPT !.op = NoOp],
                     [client[c] EXCEPT !.op = NoOp,
                        !.shared = [for |-> op.group, favs |-> op.favs, notes |-> op.notes]]} : Set(c, me)
    BY <1>2 DEF DeliverOp
  <2>2. me.view = client[c].view /\ me.reads = client[c].reads /\ me.op = NoOp
    BY <1>1, <2>1 DEF Clients
  <2>3. Tells(me, db) /\ SaysTrue(me.op, db)
    BY <1>1, <2>2 DEF Tells, SaysTrue, NoOp
  <2> QED BY <2>1, <2>3, OneTells DEF DeliverOp
<1>3. CASE op.ok /\ op.kind # "shared"
  <2> DEFINE you == Reload(client[c], op.by)
             next == [op EXCEPT !.stage = "reload", !.gen = client[c].gen + 1]
             me == [you EXCEPT !.op = next]
  <2>1. Set(c, [you EXCEPT !.op.stage = "reload", !.op.gen = client[c].gen + 1])
    BY <1>3 DEF DeliverOp
  <2>2. op.by \in Accounts /\ \A r \in client[c].reads : r.gen <= client[c].gen
    BY <1>1 DEF Ops, Accounts, DeviceOK, UpToDate
  <2>3. Tells(you, db) /\ you.op = op /\ you \in Clients
    BY <1>1, <2>2, ReloadTells
  <2>4. next.stage = "reload"
    BY <1>1 DEF Ops
  <2> HIDE DEF you
  <2>5. [you EXCEPT !.op.stage = "reload", !.op.gen = client[c].gen + 1] = me
    BY <1>1, <2>3 DEF Clients, Ops
  <2> HIDE DEF next
  <2>6. me.view = you.view /\ me.reads = you.reads /\ me.op = next
    BY <2>3 DEF Clients
  <2>7. Set(c, me)
    BY <2>1, <2>5
  <2> HIDE DEF me
  <2>8. Tells(me, db) /\ SaysTrue(me.op, db)
    BY <2>3, <2>4, <2>6 DEF Tells, SaysTrue
  <2> QED BY <2>7, <2>8, OneTells DEF DeliverOp
<1> QED BY <1>2, <1>3

\* The tables change under the devices, and what they say of sharing does not.
LEMMA TablesShare ==
  ASSUME FamilyConstants, IInv, SharingInv, NEW e, db' = e, Sound(e), Follows(db, e),
         \A r \in db.rows, s \in e.rows : r.id = s.id => s.fav = r.fav /\ s.note = r.note,
         UNCHANGED client
  PROVE  SharingInv' /\ OnlyThePressed
<1>1. \A u : Untouched(u, db, e)
  BY DEF Untouched
<1>2. \A c \in Devices : Tells(client[c], e) /\ SaysTrue(client[c].op, e)
  BY <1>1, TellsFollow DEF IInv, SharingInv
<1>3. \A c \in Devices : Tells(client'[c], db') /\ SaysTrue(client'[c].op, db')
  BY <1>2
<1>4. SharingInv'
  BY <1>3 DEF SharingInv
<1> QED BY <1>4 DEF OnlyThePressed

LEMMA ExpireShares ==
  ASSUME FamilyConstants, IInv, SharingInv, Sound(db'), Follows(db, db'), Expire
  PROVE  SharingInv' /\ OnlyThePressed
<1>1. PICK r \in db.rows : db' = [db EXCEPT !.rows = (@ \ {r}) \cup {[r EXCEPT !.expired = TRUE]}]
  BY DEF Expire
<1> DEFINE s == [r EXCEPT !.expired = TRUE]
           R == (db.rows \ {r}) \cup {s}
<1>2. r \in Row /\ db = [owner |-> db.owner, rows |-> db.rows, next |-> db.next]
      /\ \A x, y \in db.rows : x.id = y.id => x = y
  BY SoundIsTables DEF IInv, Sound
<1>3. s.id = r.id /\ s.fav = r.fav /\ s.note = r.note
  BY <1>2 DEF Row
<1> HIDE DEF s
<1>4. db' = [db EXCEPT !.rows = R]
  BY <1>1 DEF s
<1> HIDE DEF R
<1>5. db'.rows = R
  BY <1>2, <1>4
<1>6. \A x \in db.rows, y \in db'.rows : x.id = y.id => y.fav = x.fav /\ y.note = x.note
  BY <1>2, <1>3, <1>5 DEF R
<1> QED BY <1>6, TablesShare DEF Expire

LEMMA AcceptEndsShares ==
  ASSUME FamilyConstants, IInv, SharingInv, Sound(db'), Follows(db, db'), AcceptEnds
  PROVE  SharingInv' /\ OnlyThePressed
<1>1. PICK a \in lock : db' = Accept(db, a.by, a.id, a.member).db
  BY DEF AcceptEnds
<1>2. Sound(db) /\ LocksOK(lock, db)
  BY DEF IInv
<1>3. a.by \in Users /\ a.member \in BOOLEAN
  BY <1>2 DEF LocksOK
<1>4. PICK row \in db.rows : row.id = a.id /\ ~Active(row)
  BY <1>2 DEF LocksOK
<1>5. \A r \in db.rows, s \in db'.rows : r.id = s.id => s.fav = r.fav /\ s.note = r.note
  BY <1>1, <1>2, <1>3, <1>4, AcceptSound
<1> QED BY <1>5, TablesShare DEF AcceptEnds

\* A call that shares has changed what was pressed of the caller's own row, and
\* nothing of anybody else's; the other devices of the account, and this one if
\* its answer is lost, are marked.
LEMMA ServeOpShares ==
  ASSUME FamilyConstants, IInv, SharingInv, Sound(db'), Follows(db, db'), NEW c \in Devices, ServeOp(c)
  PROVE  SharingInv' /\ OnlyThePressed
<1> DEFINE op == client[c].op
<1>0. /\ DeviceOK(client[c], db) /\ client[c] \in Clients /\ Sound(db) /\ db.rows \subseteq Row
      /\ Tells(client[c], db) /\ SaysTrue(op, db)
  BY DEF IInv, DeviceOK, Sound, SharingInv
<1>1. /\ op \in Ops /\ op.kind \in RpcKinds /\ op.stage = "sent" /\ PressedOn(op, db)
  BY <1>0 DEF ServeOp, Busy, DeviceOK, Clients, NoOp, Ops, OpKinds
<1>2. Called(op)
  BY <1>0, <1>1 DEF Called, PressedOn, Ops
<1>3. PICK ok \in BOOLEAN, e \in {db, Rpc(op).db}, M \in [Devices -> Clients] :
        /\ db' = e
        /\ \A x \in Devices : M[x] \in {client[x], Untold(client[x], op.by)}
        /\ e # db /\ op.kind = "share" =>
             \A x \in Devices : x # c \/ ~ok => M[x] = Untold(client[x], op.by)
        /\ ok => M[c] = client[c]
        /\ client' = [x \in Devices |->
             IF x = c THEN [IF ok THEN Unseen(M[c]) ELSE M[c] EXCEPT !.op.stage = "answered", !.op.ok = ok]
             ELSE M[x]]
  BY ServeOpIs
<1>5. \A s \in e.rows :
        \/ s \in db.rows \/ s.id = db.next
        \/ /\ op.kind = "share"
           /\ \E r \in db.rows : /\ s = [r EXCEPT !.fav = op.args.fav, !.note = op.args.note]
                                 /\ r.group = op.group /\ r.user = op.by
  <2>1. \A s \in Rpc(op).db.rows :
          \/ s \in db.rows \/ s.id = db.next
          \/ /\ op.kind = "share"
             /\ \E r \in db.rows : /\ s = [r EXCEPT !.fav = op.args.fav, !.note = op.args.note]
                                   /\ r.group = op.group /\ r.user = op.by
    BY <1>0, <1>2, RpcRows
  <2> HIDE DEF op
  <2> QED BY <1>3, <2>1
<1>6. /\ \A r, s \in db.rows : r.id = s.id => r = s
      /\ \A r \in db.rows : r.id # db.next
      /\ \A r \in db.rows : LET s == [r EXCEPT !.fav = op.args.fav, !.note = op.args.note]
                            IN s.id = r.id /\ s.fav = op.args.fav /\ s.note = op.args.note
  <2>1. \A r, s \in db.rows : r.id = s.id => r = s
    BY <1>0 DEF Sound
  <2>2. \A r \in db.rows : r.id < db.next /\ r.id \in Int /\ db.next \in Int
    BY <1>0 DEF Sound, Row, Ids
  <2>3. \A r \in Row : LET s == [r EXCEPT !.fav = op.args.fav, !.note = op.args.note]
                       IN s.id = r.id /\ s.fav = op.args.fav /\ s.note = op.args.note
    BY DEF Row
  <2> QED BY <1>0, <2>1, <2>2, <2>3
<1>7. ASSUME NEW r \in db.rows, NEW s \in e.rows, r.id = s.id
      PROVE  \/ s = r
             \/ /\ op.kind = "share" /\ r.group = op.group /\ r.user = op.by /\ e # db
                /\ s.fav = op.args.fav /\ s.note = op.args.note
  <2>1. CASE s \in db.rows
    BY <1>6, <1>7, <2>1
  <2>2. CASE s \notin db.rows
    <3>1. PICK q \in db.rows : /\ s = [q EXCEPT !.fav = op.args.fav, !.note = op.args.note]
                               /\ q.group = op.group /\ q.user = op.by /\ op.kind = "share"
      BY <1>5, <1>6, <1>7, <2>2
    <3>2. s.id = q.id /\ s.fav = op.args.fav /\ s.note = op.args.note
      BY <1>6, <3>1
    <3>3. q = r
      BY <1>6, <1>7, <3>2
    <3> QED BY <2>2, <3>1, <3>2, <3>3
  <2> QED BY <2>1, <2>2
<1>8. ASSUME NEW x \in Devices
      PROVE  DeviceOK(M[x], db) /\ Tells(M[x], db) /\ SaysTrue(M[x].op, db)
  <2>1. DeviceOK(client[x], db) /\ Tells(client[x], db) /\ SaysTrue(client[x].op, db)
    BY DEF IInv, SharingInv
  <2>2. CASE M[x] = client[x]
    BY <2>1, <2>2
  <2>3. CASE M[x] = Untold(client[x], op.by)
    <3> DEFINE me == client[x]
               you == Untold(client[x], op.by)
    <3>1. /\ DeviceOK(you, db) /\ you.view.rows = me.view.rows /\ you.view.user = me.view.user
          /\ you.view.seen = me.view.seen /\ (you.view.told => me.view.told)
          /\ \A r \in you.reads : \E q \in me.reads :
               /\ r.rows = q.rows /\ r.for = q.for /\ r.got = q.got /\ r.seen = q.seen
               /\ r.told => q.told
          /\ you.op.kind = me.op.kind
          /\ me.op.kind # "share" => you.op = me.op
          /\ me.op.kind = "share" =>
               /\ you.op.stage = me.op.stage /\ you.op.by = me.op.by
               /\ you.op.args.which = me.op.args.which /\ you.op.args.fav = me.op.args.fav
               /\ you.op.args.note = me.op.args.note /\ you.op.args.row = me.op.args.row
               /\ you.op.args.fresh => me.op.args.fresh
      BY <2>1, UntoldIs
    <3> HIDE DEF you, me
    <3>2. Tells(me, db) /\ SaysTrue(me.op, db)
      BY <2>1 DEF me
    <3>3. Tells(you, db)
      BY <3>1, <3>2 DEF Tells
    <3>4. SaysTrue(you.op, db)
      BY <3>1, <3>2 DEF SaysTrue
    <3> QED BY <2>3, <3>1, <3>3, <3>4 DEF you
  <2> QED BY <1>3, <2>2, <2>3
<1>9. ASSUME NEW x \in Devices, x # c \/ ~ok
      PROVE  Tells(M[x], e) /\ SaysTrue(M[x].op, e)
  <2>1. CASE \A r \in db.rows, s \in e.rows : r.id = s.id => s = r
    <3>1. \A u : Untouched(u, db, e)
      BY <2>1 DEF Untouched
    <3> QED BY <1>0, <1>3, <1>8, <3>1, TellsFollow
  <2>2. CASE ~\A r \in db.rows, s \in e.rows : r.id = s.id => s = r
    <3>1. op.kind = "share" /\ e # db
      BY <1>7, <2>2
    <3>2. M[x] = Untold(client[x], op.by) /\ DeviceOK(client[x], db)
      BY <1>3, <1>9, <3>1 DEF IInv
    <3>3. \A u : u # op.by => Untouched(u, db, e)
      BY <1>7 DEF Untouched
    <3>4. /\ M[x].view.told => M[x].view.user # op.by
          /\ \A r \in M[x].reads : r.got = "rows" /\ r.told => r.for # op.by
          /\ M[x].op.kind = "share" /\ M[x].op.args.fresh => M[x].op.by # op.by
      <4> DEFINE me == client[x]
                 you == Untold(me, op.by)
      <4>1. /\ you.view.told => you.view.user # op.by
            /\ \A r \in you.reads : \E q \in me.reads :
                 /\ r.for = q.for /\ r.got = q.got
                 /\ r.told => q.got = "nothing" \/ q.for # op.by
            /\ you.op.kind = me.op.kind
            /\ me.op.kind = "share" => /\ you.op.by = me.op.by
                                       /\ you.op.args.fresh => me.op.by # op.by
        BY <3>2, UntoldIs
      <4>2. M[x] = you
        BY <3>2
      <4> HIDE DEF you, me
      <4> QED BY <4>1, <4>2
    <3>5. /\ M[x].view.told => Untouched(M[x].view.user, db, e)
          /\ \A r \in M[x].reads : r.got = "rows" /\ r.told => Untouched(r.for, db, e)
          /\ M[x].op.kind = "share" /\ M[x].op.args.fresh => Untouched(M[x].op.by, db, e)
      BY <3>3, <3>4
    <3> QED BY <1>0, <1>3, <1>8, <3>5, TellsFollow
  <2> QED BY <2>1, <2>2
<1> DEFINE old == M[c]
           base == IF ok THEN Unseen(old) ELSE old
           done == [old.op EXCEPT !.stage = "answered", !.ok = ok]
           me == [base EXCEPT !.op = done]
           reads == {[r EXCEPT !.seen = r.got = "nothing"] : r \in old.reads}
           view == [old.view EXCEPT !.seen = FALSE]
<1>10. old \in Clients /\ old.op \in Ops /\ old.op.kind = op.kind
  <2>1. old \in Clients /\ old.op.kind = op.kind
    BY <1>0, <1>3, UntoldIs
  <2> QED BY <1>1, <2>1 DEF Clients, NoOp, RpcKinds
<1>11. done \in Ops /\ done.stage = "answered"
  BY <1>10 DEF Ops
<1>12. base \in Clients /\ base.op = old.op /\ (~ok => base = old) /\ (ok => base.view = view /\ base.reads = reads)
  <2>1. CASE ~ok
    BY <1>10, <2>1
  <2>2. CASE ok
    <3>1. base = [old EXCEPT !.view = view, !.reads = reads]
      BY <1>10, <2>2 DEF Unseen, Clients, Views
    <3>2. view \in Views
      BY <1>10 DEF Clients, Views
    <3>3. reads \in SUBSET Reads
      <4>1. \A q \in old.reads : q \in Reads
        BY <1>10 DEF Clients
      <4>2. \A q \in Reads : [q EXCEPT !.seen = q.got = "nothing"] \in Reads
        BY DEF Reads
      <4> QED BY <4>1, <4>2
    <3> HIDE DEF reads, view, base, old
    <3> QED BY <1>10, <2>2, <3>1, <3>2, <3>3 DEF Clients
  <2> QED BY <2>1, <2>2
<1>13. view.user = old.view.user /\ view.rows = old.view.rows /\ view.seen = FALSE
  BY <1>10 DEF Clients, Views
<1>14. \A q \in reads : q.got = "rows" => ~q.seen
  <2>1. \A r \in Reads : LET q == [r EXCEPT !.seen = r.got = "nothing"]
                         IN q.got = r.got /\ (q.seen <=> r.got = "nothing")
    BY DEF Reads
  <2>2. \A r \in old.reads : r \in Reads
    BY <1>10 DEF Clients
  <2> QED BY <2>1, <2>2
<1>15. client'[c] = me /\ \A x \in Devices \ {c} : client'[x] = M[x]
  <2>1. [base EXCEPT !.op.stage = "answered", !.op.ok = ok] = me
    BY <1>10, <1>12 DEF Clients, Ops
  <2> QED BY <1>3, <2>1
<1> HIDE DEF base, done, reads, view
<1>16. me.op = done /\ me.view = base.view /\ me.reads = base.reads
  BY <1>11, <1>12 DEF Clients
<1> HIDE DEF me, old
<1>17. Tells(me, e)
  <2>1. CASE ok
    <3>1. Tells(old, db)
      BY <1>8 DEF old
    <3> QED BY <1>12, <1>13, <1>14, <1>16, <2>1, <3>1 DEF Tells
  <2>2. CASE ~ok
    <3>1. Tells(old, e)
      BY <1>9, <2>2 DEF old
    <3> QED BY <1>12, <1>16, <2>2, <3>1 DEF Tells
  <2> QED BY <2>1, <2>2
<1>18. SaysTrue(me.op, e)
  BY <1>11, <1>16 DEF SaysTrue
<1>19. SharingInv'
  <2>1. \A x \in Devices : Tells(client'[x], e) /\ SaysTrue(client'[x].op, e)
    BY <1>9, <1>15, <1>17, <1>18
  <2>2. \A x \in Devices : Tells(client'[x], db') /\ SaysTrue(client'[x].op, db')
    BY <1>3, <2>1
  <2> QED BY <2>2 DEF SharingInv
<1>20. ASSUME NEW r \in db.rows, NEW s \in db'.rows, r.id = s.id, r.fav # s.fav \/ r.note # s.note
       PROVE  /\ op.kind = "share" /\ op.stage = "sent" /\ client'[c].op.stage = "answered"
              /\ r.group = op.group /\ r.user = op.by
              /\ op.args.fresh /\ op.args.row = r.id =>
                   IF op.args.which = "fav" THEN r.note = s.note ELSE r.fav = s.fav
  <2>1. /\ op.kind = "share" /\ r.group = op.group /\ r.user = op.by
        /\ s.fav = op.args.fav /\ s.note = op.args.note
    BY <1>3, <1>7, <1>20
  <2>2. op.args.fresh /\ op.args.row = r.id =>
          IF op.args.which = "fav" THEN op.args.note = r.note ELSE op.args.fav = r.fav
    BY <1>0, <1>1, <2>1 DEF SaysTrue
  <2>3. client'[c].op.stage = "answered"
    BY <1>11, <1>15, <1>16
  <2> QED BY <1>1, <2>1, <2>2, <2>3
<1>21. OnlyThePressed
  <2>1. c \in DOMAIN client
    BY DEF IInv
  <2> HIDE DEF op
  <2> QED BY <1>20, <2>1 DEF OnlyThePressed, op
<1> QED BY <1>19, <1>21

\* Whichever device, account or acceptance moves.
LEMMA NextShares ==
  ASSUME ShareConstants, IInv, SharingInv, [Next]_vars
  PROVE  SharingInv' /\ [OnlyThePressed]_vars
<1>0. FamilyConstants
  BY DEF ShareConstants
<1>1. CASE UNCHANGED vars
  BY <1>1 DEF vars, SharingInv
<1>2. CASE Next
  <2>1. Sound(db') /\ Follows(db, db')
    BY <1>0, <1>2, NextIInv, NextFollows DEF IInv
  <2>2. ASSUME NEW c \in Devices, SwitchUser(c) \/ PressRetry(c)
        PROVE  SharingInv' /\ OnlyThePressed
    BY <2>2, SwitchShares, RetryShares
  <2>3. ASSUME NEW c \in Devices, Serves(c) \/ Delivers(c)
        PROVE  SharingInv' /\ OnlyThePressed
    BY <1>0, <2>1, <2>3, ServeReadShares, ServeOpShares, ServeSharedShares, DeliverReadShares, DeliverOpShares
       DEF Serves, Delivers
  <2>4. ASSUME NEW c \in Devices,
               \/ PressCreate(c) \/ PressInvite(c) \/ PressDelete(c) \/ PressLeave(c)
               \/ PressRemove(c) \/ PressToggle(c) \/ PressShared(c)
        PROVE  SharingInv' /\ OnlyThePressed
    BY <1>0, <2>4, PressesShare
  <2>5. ASSUME NEW c \in Devices, HideShared(c) \/ CloseSheet(c) \/ OpenSheet(c)
        PROVE  SharingInv' /\ OnlyThePressed
    BY <2>5, SheetShares
  <2>6. ASSUME NEW u \in Users, AcceptBegins(u)
        PROVE  SharingInv' /\ OnlyThePressed
    <3>1. UNCHANGED <<db, client>> /\ \A r, s \in db.rows : r.id = s.id => r = s
      BY <2>6 DEF AcceptBegins, IInv, Sound
    <3> QED BY <3>1 DEF SharingInv, OnlyThePressed
  <2>7. Expire \/ AcceptEnds => SharingInv' /\ OnlyThePressed
    BY <1>0, <2>1, ExpireShares, AcceptEndsShares
  <2> QED BY <1>2, <2>2, <2>3, <2>4, <2>5, <2>6, <2>7 DEF Next
<1> QED BY <1>1, <1>2

\* The buttons that share change what they say and nothing else, in any behaviour.
LEMMA OnlyPressedChanges == ShareConstants => (Spec => [][OnlyThePressed]_vars)
<1> SUFFICES ASSUME ShareConstants
             PROVE  Spec => [][OnlyThePressed]_vars
  OBVIOUS
<1>1. Init => SharingInv
  BY InitShares
<1>2. IInv /\ SharingInv /\ [Next]_vars => SharingInv' /\ [OnlyThePressed]_vars
  BY NextShares
<1> QED BY <1>1, <1>2, SpecIInv, PTL DEF Spec

-----------------------------------------------------------------------------
(* The maintenance flag in an open tab (MaintenanceFlag).                   *)

CONSTANTS NoValue, MaxSwitches, MaxInFlight, MaxFailures, MaxMounts

VARIABLES flag, visible, watcher, timer, reads, dbOn, loading, lastReadFailed, control, mounts,
          posts, inOrder, toggled, flagSwitches, flagFailures

Flag == INSTANCE MaintenanceFlag
          WITH Nothing <- NoValue, switches <- flagSwitches, failures <- flagFailures

Current(r) == r.watcher = watcher

\* A watcher hears one read at a time, and no read it still hears is late.
ReadsOK ==
    /\ \A i \in DOMAIN reads : reads[i].watcher <= watcher
    /\ \A i, j \in DOMAIN reads : Current(reads[i]) /\ Current(reads[j]) => i = j
    /\ \A i \in DOMAIN reads : Current(reads[i]) => ~reads[i].overtaken

\* The inductive invariant.
FlagInv ==
    /\ Flag!MaintenanceTypeOK /\ ReadsOK /\ (control # NoValue => mounts # 0)
    /\ \A i \in DOMAIN posts : posts[i].stage = "done" => posts[i].answer # NoValue
    /\ Flag!NeverStalls /\ Flag!TimerOnlyWhenIdleInView /\ Flag!ReadsAppliedInOrder /\ Flag!NoOptimismLeft

\* What is left when one read is taken out.
LEMMA Removed ==
    ASSUME NEW S, NEW s \in Seq(S), NEW i \in 1..Len(s)
    PROVE  /\ Flag!RemoveAt(s, i) \in Seq(S) /\ Len(Flag!RemoveAt(s, i)) = Len(s) - 1
           /\ \A j \in 1..Len(s) - 1 : Flag!RemoveAt(s, i)[j] = s[IF j < i THEN j ELSE j + 1]
<1> DEFINE a == SubSeq(s, 1, i - 1)
           b == SubSeq(s, i + 1, Len(s))
<1>1. a \in Seq(S) /\ Len(a) = i - 1 /\ \A j \in 1..i - 1 : a[j] = s[j]
  OBVIOUS
<1>2. b \in Seq(S) /\ Len(b) = Len(s) - i /\ \A j \in 1..Len(s) - i : b[j] = s[i + j]
  OBVIOUS
<1> HIDE DEF a, b
<1>3. a \o b \in Seq(S) /\ Len(a \o b) = Len(s) - 1
  <2>1. a \o b \in Seq(S) /\ Len(a \o b) = Len(a) + Len(b)
    BY <1>1, <1>2, ConcatProperties
  <2>2. Len(s) \in Nat /\ (i - 1) + (Len(s) - i) = Len(s) - 1
    OBVIOUS
  <2> QED BY <1>1, <1>2, <2>1, <2>2
<1>4. \A j \in 1..Len(s) - 1 : (a \o b)[j] = IF j < i THEN a[j] ELSE b[j - (i - 1)]
  <2>1. \A j \in 1..Len(a) + Len(b) : (a \o b)[j] = IF j <= Len(a) THEN a[j] ELSE b[j - Len(a)]
    BY <1>1, <1>2, ConcatProperties
  <2>2. Len(a) + Len(b) = Len(s) - 1 /\ \A j \in 1..Len(s) - 1 : j <= Len(a) <=> j < i
    BY <1>1, <1>2
  <2> QED BY <1>1, <2>1, <2>2
<1>5. ASSUME NEW j \in 1..Len(s) - 1
      PROVE  (a \o b)[j] = s[IF j < i THEN j ELSE j + 1]
  <2>1. CASE j < i
    BY <1>1, <1>4, <2>1
  <2>2. CASE ~(j < i)
    <3>1. j - (i - 1) \in 1..Len(s) - i /\ i + (j - (i - 1)) = j + 1
      BY <2>2
    <3> QED BY <1>2, <1>4, <2>2, <3>1
  <2> QED BY <2>1, <2>2
<1> QED BY <1>3, <1>5 DEF Flag!RemoveAt, a, b

\* A new read of the watcher that has none: it is scheduled nowhere, in flight
\* once, and sent last.
LEMMA Sends ==
    ASSUME Flag!MaintenanceAssumption, FlagInv, NEW w \in 1..MaxMounts, watcher' = w, watcher <= w,
           w = watcher => ~Flag!InFlight, timer' = FALSE,
           reads' = Append(reads, Flag!NewRead(w)), inOrder' = inOrder, visible' \in BOOLEAN
    PROVE  /\ reads' \in Seq(Flag!Read) /\ ReadsOK' /\ Flag!InFlight'
           /\ Flag!NeverStalls' /\ Flag!TimerOnlyWhenIdleInView' /\ Flag!ReadsAppliedInOrder'
<1> DEFINE n == Flag!NewRead(w)
<1>1. reads \in Seq(Flag!Read) /\ watcher \in Nat /\ w \in Nat /\ DOMAIN reads = 1..Len(reads)
  BY DEF FlagInv, Flag!MaintenanceTypeOK
<1>2. n \in Flag!Read /\ n.watcher = w /\ n.overtaken = FALSE
  BY DEF Flag!NewRead, Flag!Read
<1>3. /\ reads' \in Seq(Flag!Read) /\ DOMAIN reads' = 1..Len(reads) + 1 /\ reads'[Len(reads) + 1] = n
      /\ \A i \in 1..Len(reads) : reads'[i] = reads[i]
  BY <1>1, <1>2
<1>4. \A i \in DOMAIN reads : reads[i].watcher <= w /\ reads[i].watcher \in Nat
  <2>1. MaxMounts \in Nat
    BY DEF Flag!MaintenanceAssumption
  <2>2. ASSUME NEW i \in DOMAIN reads
        PROVE  reads[i].watcher \in 1..MaxMounts /\ reads[i].watcher <= watcher
    <3>1. reads[i] \in Flag!Read
      BY <1>1
    <3> QED BY <3>1 DEF Flag!Read, FlagInv, ReadsOK
  <2>3. ASSUME NEW k \in 1..MaxMounts, k <= watcher
        PROVE  k <= w /\ k \in Nat
    BY <1>1, <2>1, <2>3
  <2> QED BY <2>2, <2>3
<1>5. \A i \in DOMAIN reads : reads[i].watcher # w
  BY <1>1, <1>4 DEF FlagInv, ReadsOK, Flag!InFlight
<1>6. ReadsOK'
  BY <1>1, <1>2, <1>3, <1>4, <1>5 DEF ReadsOK, Current
<1>7. Flag!InFlight'
  BY <1>1, <1>2, <1>3 DEF Flag!InFlight
<1> QED BY <1>3, <1>6, <1>7
        DEF FlagInv, Flag!NeverStalls, Flag!TimerOnlyWhenIdleInView, Flag!ReadsAppliedInOrder

\* The timer, the tab's events and a new mount of the provider.
LEMMA TriggersKeep ==
    FlagInv /\ Flag!MaintenanceAssumption /\ (Flag!Show \/ Flag!Elapses \/ Flag!Online \/ Flag!Remount \/ Flag!Hide) => FlagInv'
<1> SUFFICES ASSUME FlagInv, Flag!MaintenanceAssumption, Flag!Show \/ Flag!Elapses \/ Flag!Online \/ Flag!Remount \/ Flag!Hide
             PROVE  FlagInv'
  OBVIOUS
<1> USE DEF Flag!provider, Flag!dashboard
<1>1. /\ UNCHANGED <<flag, dbOn, loading, lastReadFailed, control, mounts, posts, inOrder, toggled,
                     flagSwitches, flagFailures>>
      /\ visible' \in BOOLEAN
  BY DEF FlagInv, Flag!MaintenanceTypeOK, Flag!Show, Flag!Elapses, Flag!Online, Flag!Remount, Flag!Hide
<1>2. Flag!NoOptimismLeft'
  BY <1>1 DEF FlagInv, Flag!NoOptimismLeft
<1>3. watcher \in 1..MaxMounts /\ MaxMounts \in Nat /\ timer \in BOOLEAN
  BY DEF FlagInv, Flag!MaintenanceTypeOK, Flag!MaintenanceAssumption
<1>4. CASE Flag!Elapses \/ Flag!Remount \/ (~Flag!InFlight /\ (Flag!Show \/ Flag!Online))
  <2>1. PICK w \in 1..MaxMounts : /\ watcher' = w /\ watcher <= w /\ (w = watcher => ~Flag!InFlight)
                                  /\ timer' = FALSE /\ reads' = Append(reads, Flag!NewRead(w))
    BY <1>3, <1>4 DEF Flag!Elapses, Flag!Remount, Flag!Show, Flag!Online, Flag!StartRead, FlagInv,
       Flag!TimerOnlyWhenIdleInView
  <2>2. /\ reads' \in Seq(Flag!Read) /\ ReadsOK'
        /\ Flag!NeverStalls' /\ Flag!TimerOnlyWhenIdleInView' /\ Flag!ReadsAppliedInOrder'
    BY <1>1, <2>1, Sends
  <2> QED BY <1>1, <1>2, <2>1, <2>2 DEF FlagInv, Flag!MaintenanceTypeOK
<1>5. CASE Flag!InFlight /\ (Flag!Show \/ Flag!Online)
  <2>1. UNCHANGED <<reads, timer, watcher>>
    BY <1>5 DEF Flag!Show, Flag!Online, Flag!StartRead
  <2> QED BY <1>1, <1>2, <1>5, <2>1
          DEF FlagInv, Flag!MaintenanceTypeOK, ReadsOK, Current, Flag!NeverStalls, Flag!InFlight,
              Flag!TimerOnlyWhenIdleInView, Flag!ReadsAppliedInOrder
<1>6. CASE Flag!Hide
  <2>1. UNCHANGED <<reads, watcher>> /\ timer' = FALSE /\ visible' = FALSE
    BY <1>6 DEF Flag!Hide
  <2> QED BY <1>1, <1>2, <2>1
          DEF FlagInv, Flag!MaintenanceTypeOK, ReadsOK, Current, Flag!NeverStalls, Flag!InFlight,
              Flag!TimerOnlyWhenIdleInView, Flag!ReadsAppliedInOrder
<1> QED BY <1>4, <1>5, <1>6

\* The select is answered with the row as it is, or fails.
LEMMA AnswerKeeps ==
    ASSUME FlagInv, Flag!MaintenanceAssumption, NEW i \in DOMAIN reads, Flag!ReadAnswered(i)
    PROVE  FlagInv'
<1> USE DEF Flag!provider, Flag!dashboard
<1>1. /\ UNCHANGED <<flag, visible, watcher, timer, dbOn, loading, lastReadFailed, control, mounts,
                     posts, inOrder, toggled, flagSwitches>>
      /\ flagFailures' \in 0..MaxFailures
  BY DEF Flag!ReadAnswered, FlagInv, Flag!MaintenanceTypeOK, Flag!MaintenanceAssumption
<1>2. reads \in Seq(Flag!Read) /\ reads[i] \in Flag!Read /\ flag \in BOOLEAN
  BY DEF FlagInv, Flag!MaintenanceTypeOK
<1>3. \/ reads' = [reads EXCEPT ![i].answer = flag]
      \/ reads' = [reads EXCEPT ![i].failed = TRUE]
  BY DEF Flag!ReadAnswered
<1>4. reads'[i] \in Flag!Read /\ reads'[i].watcher = reads[i].watcher /\ reads'[i].overtaken = reads[i].overtaken
  <2>1. DOMAIN reads = 1..Len(reads)
    BY <1>2
  <2>2. CASE reads' = [reads EXCEPT ![i].answer = flag]
    <3>1. reads'[i] = [reads[i] EXCEPT !.answer = flag]
      BY <1>2, <2>2
    <3> QED BY <1>2, <3>1 DEF Flag!Read
  <2>3. CASE reads' = [reads EXCEPT ![i].failed = TRUE]
    <3>1. reads'[i] = [reads[i] EXCEPT !.failed = TRUE]
      BY <1>2, <2>3
    <3> QED BY <1>2, <3>1 DEF Flag!Read
  <2> QED BY <1>3, <2>2, <2>3
<1>5. /\ DOMAIN reads' = DOMAIN reads /\ reads' \in Seq(Flag!Read)
      /\ \A j \in DOMAIN reads : j # i => reads'[j] = reads[j]
  <2>1. reads' = [reads EXCEPT ![i] = reads'[i]]
    BY <1>2, <1>3
  <2> QED BY <1>2, <1>4, <2>1
<1>6. \A j \in DOMAIN reads : reads'[j].watcher = reads[j].watcher /\ reads'[j].overtaken = reads[j].overtaken
  BY <1>4, <1>5
<1>7. ReadsOK' /\ (Flag!InFlight' <=> Flag!InFlight)
  BY <1>1, <1>5, <1>6 DEF FlagInv, ReadsOK, Current, Flag!InFlight
<1>8. Flag!MaintenanceTypeOK'
  BY <1>1, <1>5 DEF FlagInv, Flag!MaintenanceTypeOK
<1> QED BY <1>1, <1>7, <1>8
        DEF FlagInv, Flag!NeverStalls, Flag!TimerOnlyWhenIdleInView, Flag!ReadsAppliedInOrder, Flag!NoOptimismLeft

\* A read ends: one that is heard is the only one of its watcher, and leaves
\* none behind; one of a stopped watcher leaves the others as they are.
LEMMA ReturnKeeps ==
    ASSUME FlagInv, Flag!MaintenanceAssumption, NEW i \in DOMAIN reads, Flag!ReadReturns(i)
    PROVE  FlagInv'
<1> USE DEF Flag!provider, Flag!dashboard
<1> DEFINE r == reads[i]
           over == Flag!OvertakenUpTo(i)
<1>1. UNCHANGED <<flag, visible, watcher, control, mounts, posts, toggled, flagSwitches, flagFailures>>
  BY DEF Flag!ReadReturns
<1>2. reads \in Seq(Flag!Read) /\ r \in Flag!Read /\ i \in 1..Len(reads) /\ DOMAIN reads = 1..Len(reads)
  BY DEF FlagInv, Flag!MaintenanceTypeOK
<1>3. over \in Seq(Flag!Read) /\ Len(over) = Len(reads)
      /\ \A j \in 1..Len(reads) : /\ over[j].watcher = reads[j].watcher
                                  /\ over[j].overtaken = (j < i \/ reads[j].overtaken)
  <2>1. \A j \in 1..Len(reads) : reads[j] \in Flag!Read
    BY <1>2
  <2>2. over = [j \in 1..Len(reads) |-> IF j < i THEN [reads[j] EXCEPT !.overtaken = TRUE] ELSE reads[j]]
    BY <1>2 DEF Flag!OvertakenUpTo
  <2>3. \A j \in 1..Len(reads) : /\ over[j] \in Flag!Read /\ over[j].watcher = reads[j].watcher
                                 /\ over[j].overtaken = (j < i \/ reads[j].overtaken)
    BY <2>1, <2>2 DEF Flag!Read
  <2>4. Len(reads) \in Nat
    BY <1>2
  <2> HIDE DEF over
  <2>5. over \in [1..Len(reads) -> Flag!Read]
    BY <2>2, <2>3
  <2> QED BY <2>3, <2>4, <2>5
<1>4. UNCHANGED <<control, mounts, posts>> /\ Flag!NoOptimismLeft'
  BY <1>1 DEF FlagInv, Flag!NoOptimismLeft
<1>5. CASE Flag!Stopped(r)
  <2>1. reads' = Flag!RemoveAt(reads, i) /\ UNCHANGED <<dbOn, loading, lastReadFailed, timer, inOrder>>
    BY <1>5 DEF Flag!ReadReturns
  <2>2. /\ reads' \in Seq(Flag!Read) /\ DOMAIN reads' = 1..Len(reads) - 1
        /\ \A j \in 1..Len(reads) - 1 : reads'[j] = reads[IF j < i THEN j ELSE j + 1]
    <3> DEFINE rest == Flag!RemoveAt(reads, i)
    <3>1. /\ rest \in Seq(Flag!Read) /\ Len(rest) = Len(reads) - 1
          /\ \A j \in 1..Len(reads) - 1 : rest[j] = reads[IF j < i THEN j ELSE j + 1]
      BY <1>2, Removed
    <3>2. reads' = rest
      BY <2>1
    <3> HIDE DEF rest
    <3> QED BY <3>1, <3>2
  <2>3. ReadsOK'
    <3> DEFINE at(j) == IF j < i THEN j ELSE j + 1
    <3>1. \A j \in 1..Len(reads) - 1 : at(j) \in 1..Len(reads) /\ reads'[j] = reads[at(j)]
      BY <1>2, <2>2
    <3>2. \A j, k \in 1..Len(reads) - 1 : at(j) = at(k) => j = k
      BY <1>2
    <3>3. DOMAIN reads' = 1..Len(reads) - 1 /\ DOMAIN reads = 1..Len(reads) /\ watcher' = watcher
      BY <1>1, <1>2, <2>2
    <3>4. ReadsOK
      BY DEF FlagInv
    <3> HIDE DEF at
    <3> QED BY <3>1, <3>2, <3>3, <3>4, Zenon DEF ReadsOK, Current
  <2>4. Flag!InFlight' <=> Flag!InFlight
    <3>1. ASSUME NEW j \in 1..Len(reads), Current(reads[j])
          PROVE  \E k \in 1..Len(reads) - 1 : reads'[k] = reads[j]
      <4>1. j # i
        BY <1>5, <3>1 DEF Current, Flag!Stopped
      <4>2. CASE j < i
        <5>1. j \in 1..Len(reads) - 1
          BY <1>2, <4>2
        <5> QED BY <2>2, <4>2, <5>1
      <4>3. CASE j > i
        <5>1. j - 1 \in 1..Len(reads) - 1 /\ ~(j - 1 < i) /\ (j - 1) + 1 = j
          BY <1>2, <4>3
        <5> QED BY <2>2, <5>1
      <4> QED BY <1>2, <4>1, <4>2, <4>3
    <3>2. \A j \in 1..Len(reads) - 1 : \E k \in 1..Len(reads) : reads'[j] = reads[k]
      BY <1>2, <2>2
    <3>3. Flag!InFlight => Flag!InFlight'
      BY <1>1, <1>2, <2>2, <3>1 DEF Flag!InFlight, Current
    <3>4. Flag!InFlight' => Flag!InFlight
      BY <1>1, <1>2, <2>2, <3>2 DEF Flag!InFlight
    <3> QED BY <3>3, <3>4
  <2>5. Flag!MaintenanceTypeOK'
    BY <1>1, <2>1, <2>2 DEF FlagInv, Flag!MaintenanceTypeOK
  <2> QED BY <1>1, <1>4, <2>1, <2>3, <2>4, <2>5
          DEF FlagInv, Flag!NeverStalls, Flag!TimerOnlyWhenIdleInView, Flag!ReadsAppliedInOrder
<1>6. CASE ~Flag!Stopped(r)
  <2>1. /\ reads' = Flag!RemoveAt(over, i) /\ dbOn' = Flag!ValueAfter(r) /\ lastReadFailed' = r.failed
        /\ loading' = FALSE /\ timer' = visible /\ inOrder' = (inOrder /\ ~r.overtaken)
        /\ r.answer # NoValue \/ r.failed
    BY <1>6 DEF Flag!ReadReturns, Flag!Scheduled
  <2>2. /\ reads' \in Seq(Flag!Read) /\ DOMAIN reads' = 1..Len(reads) - 1
        /\ \A j \in 1..Len(reads) - 1 : reads'[j] = over[IF j < i THEN j ELSE j + 1]
    <3> HIDE DEF over
    <3> QED BY <1>2, <1>3, <2>1, Removed
  <2>3. Current(r) /\ r.overtaken = FALSE
    BY <1>2, <1>6 DEF FlagInv, ReadsOK, Current, Flag!Stopped, Flag!Read
  <2>4. \A j \in 1..Len(reads) - 1 : ~Current(reads'[j]) /\ reads'[j].watcher <= watcher
    <3> HIDE DEF over
    <3>1. ASSUME NEW j \in 1..Len(reads) - 1
          PROVE  ~Current(reads'[j]) /\ reads'[j].watcher <= watcher
      <4>1. PICK k \in 1..Len(reads) : k # i /\ reads'[j] = over[k]
        BY <1>2, <2>2
      <4> QED BY <1>2, <1>3, <2>3, <4>1 DEF FlagInv, ReadsOK, Current
    <3> QED BY <3>1
  <2>5. ReadsOK' /\ ~Flag!InFlight'
    BY <1>1, <2>2, <2>4 DEF ReadsOK, Current, Flag!InFlight
  <2>6. dbOn' \in BOOLEAN /\ lastReadFailed' \in BOOLEAN
    BY <1>2, <2>1 DEF Flag!ValueAfter, Flag!Read, FlagInv, Flag!MaintenanceTypeOK
  <2>7. Flag!ReadsAppliedInOrder'
    BY <2>1, <2>3 DEF FlagInv, Flag!ReadsAppliedInOrder
  <2>8. Flag!MaintenanceTypeOK'
    BY <1>1, <2>1, <2>2, <2>6, <2>7 DEF FlagInv, Flag!MaintenanceTypeOK, Flag!ReadsAppliedInOrder
  <2> QED BY <1>1, <1>4, <2>1, <2>5, <2>7, <2>8
          DEF FlagInv, Flag!NeverStalls, Flag!TimerOnlyWhenIdleInView
<1> QED BY <1>5, <1>6

\* What says nothing of the watcher keeps what is said of it.
LEMMA WatcherRests ==
    FlagInv /\ UNCHANGED <<visible, watcher, timer, reads, inOrder>> =>
        ReadsOK' /\ Flag!NeverStalls' /\ Flag!TimerOnlyWhenIdleInView' /\ Flag!ReadsAppliedInOrder'
BY DEF FlagInv, ReadsOK, Current, Flag!NeverStalls, Flag!InFlight, Flag!TimerOnlyWhenIdleInView,
   Flag!ReadsAppliedInOrder

\* The control is opened, closed, loaded and pressed; the flag changes elsewhere.
LEMMA ControlKeeps ==
    FlagInv /\ Flag!MaintenanceAssumption /\
    (Flag!SwitchedElsewhere \/ Flag!OpenControl \/ Flag!CloseControl \/ Flag!ControlLoaded) => FlagInv'
<1> SUFFICES ASSUME FlagInv, Flag!MaintenanceAssumption,
                    Flag!SwitchedElsewhere \/ Flag!OpenControl \/ Flag!CloseControl \/ Flag!ControlLoaded
             PROVE  FlagInv'
  OBVIOUS
<1> USE DEF Flag!provider, Flag!dashboard
<1>1. UNCHANGED <<visible, watcher, timer, reads, dbOn, loading, lastReadFailed, posts, inOrder, flagFailures>>
  BY DEF Flag!SwitchedElsewhere, Flag!OpenControl, Flag!CloseControl, Flag!ControlLoaded
<1>2. /\ flag' \in BOOLEAN /\ toggled' \in BOOLEAN \cup {NoValue} /\ mounts' \in 0..MaxMounts
      /\ flagSwitches' \in 0..MaxSwitches
  <2>1. /\ MaxMounts \in Nat /\ MaxSwitches \in Nat /\ flag \in BOOLEAN /\ toggled \in BOOLEAN \cup {NoValue}
        /\ mounts \in 0..MaxMounts /\ flagSwitches \in 0..MaxSwitches
    BY DEF FlagInv, Flag!MaintenanceTypeOK, Flag!MaintenanceAssumption
  <2>2. CASE Flag!SwitchedElsewhere
    BY <2>1, <2>2 DEF Flag!SwitchedElsewhere
  <2>3. CASE Flag!OpenControl
    BY <2>1, <2>3 DEF Flag!OpenControl
  <2>4. CASE Flag!CloseControl \/ Flag!ControlLoaded
    BY <2>1, <2>4 DEF Flag!CloseControl, Flag!ControlLoaded
  <2> QED BY <2>2, <2>3, <2>4
<1>3. control' \in Flag!Control \cup {NoValue} /\ Flag!NoOptimismLeft' /\ (control' # NoValue => mounts' # 0)
  <2>1. CASE Flag!SwitchedElsewhere
    BY <1>1, <2>1 DEF Flag!SwitchedElsewhere, FlagInv, Flag!MaintenanceTypeOK, Flag!NoOptimismLeft
  <2>2. CASE Flag!OpenControl
    <3>1. control' \in Flag!Control /\ control'.optimistic = NoValue
      BY <2>2 DEF Flag!OpenControl, Flag!Control
    <3>2. mounts' # 0
      BY <2>2 DEF Flag!OpenControl, FlagInv, Flag!MaintenanceTypeOK, Flag!MaintenanceAssumption
    <3> QED BY <3>1, <3>2 DEF Flag!NoOptimismLeft
  <2>3. CASE Flag!CloseControl
    BY <2>3 DEF Flag!CloseControl, Flag!NoOptimismLeft
  <2>4. CASE Flag!ControlLoaded
    <3>1. control \in Flag!Control /\ flag \in BOOLEAN /\ control # NoValue /\ UNCHANGED mounts
      BY <2>4 DEF Flag!ControlLoaded, FlagInv, Flag!MaintenanceTypeOK
    <3>2. /\ control' \in Flag!Control /\ control'.optimistic = control.optimistic
          /\ control'.saving = control.saving
      BY <2>4, <3>1 DEF Flag!ControlLoaded, Flag!Control
    <3> QED BY <1>1, <3>1, <3>2 DEF FlagInv, Flag!NoOptimismLeft
  <2> QED BY <2>1, <2>2, <2>3, <2>4
<1>4. Flag!MaintenanceTypeOK'
  BY <1>1, <1>2, <1>3 DEF FlagInv, Flag!MaintenanceTypeOK
<1> QED BY <1>1, <1>3, <1>4, WatcherRests DEF FlagInv

\* Pressing the control sends what it shows.
LEMMA ToggleKeeps == FlagInv /\ Flag!MaintenanceAssumption /\ Flag!Toggle => FlagInv'
<1> SUFFICES ASSUME FlagInv, Flag!MaintenanceAssumption, Flag!Toggle
             PROVE  FlagInv'
  OBVIOUS
<1> USE DEF Flag!provider, Flag!dashboard
<1> DEFINE p == [control |-> mounts, on |-> ~Flag!CurrentOn, previous |-> Flag!CurrentOn,
                 stage |-> "sent", answer |-> NoValue]
<1>1. UNCHANGED <<flag, visible, watcher, timer, reads, dbOn, loading, lastReadFailed, mounts, inOrder, toggled,
                  flagSwitches, flagFailures>>
  BY DEF Flag!Toggle
<1>2. control \in Flag!Control /\ posts \in Seq(Flag!Post) /\ mounts \in 1..MaxMounts
  <2>1. control \in Flag!Control /\ posts \in Seq(Flag!Post) /\ mounts \in 0..MaxMounts /\ mounts # 0
    BY DEF Flag!Toggle, FlagInv, Flag!MaintenanceTypeOK
  <2> QED BY <2>1
<1>3. Flag!CurrentOn \in BOOLEAN
  BY <1>2 DEF Flag!CurrentOn, Flag!Control, FlagInv, Flag!MaintenanceTypeOK
<1>4. p \in Flag!Post /\ p.control = mounts /\ p.stage = "sent" /\ p.on = ~Flag!CurrentOn
  BY <1>2, <1>3 DEF Flag!Post
<1>5. posts' = Append(posts, p) /\ posts' \in Seq(Flag!Post) /\ posts'[Len(posts) + 1] = p
      /\ Len(posts) + 1 \in DOMAIN posts'
  BY <1>2, <1>4 DEF Flag!Toggle
<1>6. control' \in Flag!Control /\ control'.saving = TRUE /\ control'.optimistic = ~Flag!CurrentOn
  BY <1>2, <1>3 DEF Flag!Toggle, Flag!Control
<1>7. Flag!NoOptimismLeft'
  BY <1>1, <1>4, <1>5, <1>6 DEF Flag!NoOptimismLeft
<1>8. Flag!MaintenanceTypeOK'
  BY <1>1, <1>5, <1>6 DEF FlagInv, Flag!MaintenanceTypeOK
<1>9. mounts' # 0
  BY <1>1, <1>2
<1>10. \A j \in DOMAIN posts' : posts'[j].stage = "done" => posts'[j].answer # NoValue
  BY <1>2, <1>4, <1>5 DEF FlagInv
<1> QED BY <1>1, <1>7, <1>8, <1>9, <1>10, WatcherRests DEF FlagInv

\* The API writes the row or refuses, with the answer or without it.
LEMMA PostSentKeeps ==
    ASSUME FlagInv, Flag!MaintenanceAssumption, NEW i \in DOMAIN posts, Flag!PostWrites(i) \/ Flag!PostRefused(i)
    PROVE  FlagInv'
<1> USE DEF Flag!provider, Flag!dashboard
<1>1. UNCHANGED <<visible, watcher, timer, reads, dbOn, loading, lastReadFailed, control, mounts, inOrder,
                  flagSwitches, flagFailures>>
  BY DEF Flag!PostWrites, Flag!PostRefused
<1>2. posts \in Seq(Flag!Post) /\ posts[i] \in Flag!Post /\ posts[i].on \in BOOLEAN
  <2>1. posts \in Seq(Flag!Post) /\ posts[i] \in Flag!Post
    BY DEF FlagInv, Flag!MaintenanceTypeOK
  <2> QED BY <2>1 DEF Flag!Post
<1>3. flag' \in BOOLEAN /\ toggled' \in BOOLEAN \cup {NoValue}
  BY <1>2 DEF Flag!PostWrites, Flag!PostRefused, FlagInv, Flag!MaintenanceTypeOK
<1>4. PICK p \in Flag!Post : /\ posts' = [posts EXCEPT ![i] = p] /\ p.stage # "over"
                             /\ p.control = posts[i].control /\ p.on = posts[i].on
                             /\ p.stage = "done" => p.answer # NoValue
  <2>1. CASE posts' = [posts EXCEPT ![i].stage = "done", ![i].answer = posts[i].on]
    <3> DEFINE p == [posts[i] EXCEPT !.stage = "done", !.answer = posts[i].on]
    <3>1. p \in Flag!Post /\ p.stage = "done" /\ p.control = posts[i].control /\ p.on = posts[i].on
          /\ p.answer # NoValue
      BY <1>2 DEF Flag!Post, Flag!MaintenanceAssumption
    <3>2. posts' = [posts EXCEPT ![i] = p]
      BY <1>2, <2>1
    <3> QED BY <3>1, <3>2
  <2>2. CASE posts' = [posts EXCEPT ![i].stage = "failed"]
    <3> DEFINE p == [posts[i] EXCEPT !.stage = "failed"]
    <3>1. p \in Flag!Post /\ p.stage = "failed" /\ p.control = posts[i].control /\ p.on = posts[i].on
      BY <1>2 DEF Flag!Post
    <3>2. posts' = [posts EXCEPT ![i] = p]
      BY <1>2, <2>2
    <3> QED BY <3>1, <3>2
  <2> QED BY <2>1, <2>2 DEF Flag!PostWrites, Flag!PostRefused
<1>5. posts' \in Seq(Flag!Post) /\ DOMAIN posts' = DOMAIN posts /\ posts'[i] = p
      /\ \A j \in DOMAIN posts : j # i => posts'[j] = posts[j]
  BY <1>2, <1>4
<1>6. Flag!NoOptimismLeft'
  BY <1>1, <1>4, <1>5 DEF FlagInv, Flag!NoOptimismLeft
<1>7. Flag!MaintenanceTypeOK'
  BY <1>1, <1>3, <1>5 DEF FlagInv, Flag!MaintenanceTypeOK
<1>8. control' # NoValue => mounts' # 0
  BY <1>1 DEF FlagInv
<1>9. \A j \in DOMAIN posts' : posts'[j].stage = "done" => posts'[j].answer # NoValue
  BY <1>4, <1>5 DEF FlagInv
<1> QED BY <1>1, <1>6, <1>7, <1>8, <1>9, WatcherRests DEF FlagInv

\* The answer: the control that sent it lets go of what it showed.
LEMMA PostReturnKeeps ==
    ASSUME FlagInv, Flag!MaintenanceAssumption, NEW i \in DOMAIN posts, Flag!PostReturns(i)
    PROVE  FlagInv'
<1> USE DEF Flag!provider, Flag!dashboard
<1> DEFINE p == posts[i]
           over == [p EXCEPT !.stage = "over"]
           here == control # NoValue /\ p.control = mounts
<1>1. UNCHANGED <<flag, visible, watcher, timer, reads, loading, lastReadFailed, mounts, inOrder,
                  flagSwitches, flagFailures>>
  BY DEF Flag!PostReturns
<1>2. posts \in Seq(Flag!Post) /\ p \in Flag!Post /\ p.stage \in {"done", "failed"}
  BY DEF FlagInv, Flag!MaintenanceTypeOK, Flag!PostReturns
<1>3. over \in Flag!Post
  BY <1>2 DEF Flag!Post
<1>4. /\ posts' \in Seq(Flag!Post) /\ DOMAIN posts' = DOMAIN posts
      /\ \A j \in DOMAIN posts : j # i => posts'[j] = posts[j]
  <2>1. posts' = [posts EXCEPT ![i] = over]
    BY <1>2 DEF Flag!PostReturns
  <2> QED BY <1>2, <1>3, <2>1
<1>5. control' = IF here THEN Flag!SettledControl(control, p) ELSE control
  BY DEF Flag!PostReturns
<1>6. p.stage = "done" => p.answer \in BOOLEAN
  BY <1>2 DEF FlagInv, Flag!Post
<1>7. control' \in Flag!Control \cup {NoValue} /\ (control' # NoValue => control # NoValue)
      /\ (here => control' \in Flag!Control /\ control'.optimistic = NoValue)
  <2>1. CASE here
    <3>1. control \in Flag!Control
      BY <2>1 DEF FlagInv, Flag!MaintenanceTypeOK
    <3>2. Flag!SettledControl(control, p) \in Flag!Control /\ Flag!SettledControl(control, p).optimistic = NoValue
      BY <1>2, <3>1 DEF Flag!SettledControl, Flag!Control, Flag!Post
    <3> QED BY <1>5, <2>1, <3>2
  <2>2. CASE ~here
    BY <1>5, <2>2 DEF FlagInv, Flag!MaintenanceTypeOK
  <2> QED BY <2>1, <2>2
<1>8. Flag!NoOptimismLeft'
  <2>1. CASE here
    BY <1>7, <2>1 DEF Flag!NoOptimismLeft
  <2>2. CASE ~here
    <3>1. control' = control /\ mounts' = mounts
      BY <1>1, <1>5, <2>2
    <3> QED BY <1>4, <2>2, <3>1 DEF FlagInv, Flag!NoOptimismLeft
  <2> QED BY <2>1, <2>2
<1>9. dbOn' \in BOOLEAN /\ toggled' \in BOOLEAN \cup {NoValue}
  BY <1>6 DEF Flag!PostReturns, FlagInv, Flag!MaintenanceTypeOK
<1>10. Flag!MaintenanceTypeOK'
  BY <1>1, <1>4, <1>7, <1>9 DEF FlagInv, Flag!MaintenanceTypeOK
<1>11. control' # NoValue => mounts' # 0
  BY <1>1, <1>7 DEF FlagInv
<1>12. \A j \in DOMAIN posts' : posts'[j].stage = "done" => posts'[j].answer # NoValue
  <2>1. posts'[i].stage = "over"
    BY <1>2 DEF Flag!PostReturns, Flag!Post
  <2> QED BY <1>4, <2>1 DEF FlagInv
<1> QED BY <1>1, <1>8, <1>10, <1>11, <1>12, WatcherRests DEF FlagInv

LEMMA FlagInitInv == Flag!MaintenanceAssumption /\ Flag!Init => FlagInv
<1> SUFFICES ASSUME Flag!MaintenanceAssumption, Flag!Init
             PROVE  FlagInv
  OBVIOUS
<1>1. Flag!NewRead(1) \in Flag!Read /\ Flag!NewRead(1).watcher = 1 /\ Flag!NewRead(1).overtaken = FALSE
  BY DEF Flag!NewRead, Flag!Read, Flag!MaintenanceAssumption
<1>2. /\ reads \in Seq(Flag!Read) /\ DOMAIN reads = {1} /\ reads[1] = Flag!NewRead(1) /\ watcher = 1
      /\ posts = <<>> /\ posts \in Seq(Flag!Post) /\ control = NoValue /\ timer = FALSE /\ inOrder = TRUE
  BY <1>1 DEF Flag!Init
<1>3. Flag!MaintenanceTypeOK
  <2>1. {MaxSwitches, MaxFailures} \subseteq Nat /\ 1 \in 1..MaxMounts /\ 0 \in 0..MaxMounts
    BY DEF Flag!MaintenanceAssumption
  <2>2. 0 \in 0..MaxSwitches /\ 0 \in 0..MaxFailures
    BY <2>1
  <2>3. {flag, visible, timer, dbOn, loading, lastReadFailed, inOrder} \subseteq BOOLEAN
    BY DEF Flag!Init
  <2> QED BY <1>2, <2>1, <2>2, <2>3 DEF Flag!Init, Flag!MaintenanceTypeOK
<1>4. ReadsOK /\ Flag!InFlight
  BY <1>1, <1>2 DEF ReadsOK, Current, Flag!InFlight
<1> QED BY <1>2, <1>3, <1>4
        DEF FlagInv, Flag!NeverStalls, Flag!TimerOnlyWhenIdleInView, Flag!ReadsAppliedInOrder, Flag!NoOptimismLeft

LEMMA FlagNextInv ==
    ASSUME Flag!MaintenanceAssumption, FlagInv, [Flag!Next]_(Flag!vars)
    PROVE  FlagInv'
<1>1. CASE UNCHANGED Flag!vars
  <2>1. UNCHANGED <<flag, visible, watcher, timer, reads, dbOn, loading, lastReadFailed, control, mounts,
                    posts, inOrder, toggled, flagSwitches, flagFailures>>
    BY <1>1 DEF Flag!vars, Flag!provider, Flag!dashboard
  <2> QED BY <2>1, WatcherRests DEF FlagInv, Flag!MaintenanceTypeOK, Flag!NoOptimismLeft
<1>2. CASE Flag!Next
  BY <1>2, TriggersKeep, AnswerKeeps, ReturnKeeps, ControlKeeps, ToggleKeeps, PostSentKeeps, PostReturnKeeps
  DEF Flag!Next, Flag!Reading, Flag!Posting
<1> QED BY <1>1, <1>2

LEMMA FlagSpecInv == Flag!MaintenanceAssumption => (Flag!Spec => []FlagInv)
<1> SUFFICES ASSUME Flag!MaintenanceAssumption
             PROVE  Flag!Spec => []FlagInv
  OBVIOUS
<1>1. Flag!Init => FlagInv
  BY FlagInitInv
<1>2. FlagInv /\ [Flag!Next]_(Flag!vars) => FlagInv'
  BY FlagNextInv
<1> QED BY <1>1, <1>2, PTL DEF Flag!Spec

\* A tab in view always has its next read of the flag scheduled or in flight
\* and a tab out of view none, reads are applied in the order they were sent,
\* and the control shows what it sent only while its own request is out: for
\* any number of reads, failures, mounts and switches from anywhere
\* (maintenance.ts 94-117, useMaintenanceMode.tsx 43-67, DashboardPage.tsx
\* 197-234).
LEMMA FlagIsFollowed ==
    Flag!MaintenanceAssumption => (Flag!Spec => [](Flag!MaintenanceTypeOK /\ Flag!ScreenFollows))
<1>1. FlagInv => Flag!MaintenanceTypeOK /\ Flag!ScreenFollows
  BY DEF FlagInv, Flag!ScreenFollows
<1> QED BY <1>1, FlagSpecInv, PTL

\* Maintenance does not end in the tab but by an answer that says so, of a read
\* that returns in this step or of a switch of this tab: never by a failure.
LEMMA MaintenanceIsNotDropped ==
    Flag!MaintenanceAssumption => (Flag!Spec => Flag!NothingElseChanges)
<1> SUFFICES ASSUME Flag!MaintenanceAssumption
             PROVE  Flag!Spec => Flag!NothingElseChanges
  OBVIOUS
<1>1. ASSUME FlagInv, [Flag!Next]_(Flag!vars)
      PROVE  [dbOn /\ ~dbOn' => Flag!EndsByAnswer]_(Flag!vars)
  <2> SUFFICES ASSUME dbOn, ~dbOn'
               PROVE  Flag!EndsByAnswer
    OBVIOUS
  <2> USE DEF Flag!provider, Flag!dashboard
  <2>1. CASE \E i \in DOMAIN reads : Flag!ReadReturns(i)
    <3>1. PICK i \in DOMAIN reads : Flag!ReadReturns(i)
      BY <2>1
    <3>2. reads \in Seq(Flag!Read) /\ reads[i] \in Flag!Read /\ i \in 1..Len(reads) /\ dbOn \in BOOLEAN
      BY <1>1 DEF FlagInv, Flag!MaintenanceTypeOK
    <3>3. ~Flag!Stopped(reads[i]) /\ dbOn' = Flag!ValueAfter(reads[i])
          /\ (reads[i].answer # NoValue \/ reads[i].failed)
      BY <3>1 DEF Flag!ReadReturns
    <3>4. reads[i].answer = FALSE
      BY <3>2, <3>3 DEF Flag!ValueAfter, Flag!Read
    <3> DEFINE over == Flag!OvertakenUpTo(i)
    <3>5. over \in Seq(Flag!Read) /\ Len(over) = Len(reads)
      <4>1. \A j \in 1..Len(reads) : reads[j] \in Flag!Read /\ [reads[j] EXCEPT !.overtaken = TRUE] \in Flag!Read
        <5>1. \A j \in 1..Len(reads) : reads[j] \in Flag!Read
          BY <3>2
        <5>2. ASSUME NEW x \in Flag!Read
              PROVE  [x EXCEPT !.overtaken = TRUE] \in Flag!Read
          BY DEF Flag!Read
        <5> QED BY <5>1, <5>2
      <4>2. over = [j \in 1..Len(reads) |-> IF j < i THEN [reads[j] EXCEPT !.overtaken = TRUE] ELSE reads[j]]
        BY <3>2 DEF Flag!OvertakenUpTo
      <4>3. \A j \in 1..Len(reads) : over[j] \in Flag!Read
        BY <4>1, <4>2
      <4>4. Len(reads) \in Nat
        BY <3>2
      <4> HIDE DEF over
      <4>5. over \in [1..Len(reads) -> Flag!Read]
        BY <4>2, <4>3
      <4> QED BY <4>4, <4>5
    <3>6. reads' = Flag!RemoveAt(over, i)
      BY <3>1, <3>3 DEF Flag!ReadReturns
    <3>7. Len(reads') = Len(reads) - 1
      <4> HIDE DEF over
      <4> QED BY <3>2, <3>5, <3>6, Removed
    <3>8. Len(reads') < Len(reads)
      BY <3>2, <3>7
    <3> QED BY <3>4, <3>8 DEF Flag!EndsByAnswer
  <2>2. CASE \E i \in DOMAIN posts : Flag!PostReturns(i)
    <3>1. PICK i \in DOMAIN posts : Flag!PostReturns(i)
      BY <2>2
    <3>2. posts \in Seq(Flag!Post) /\ posts[i] \in Flag!Post
      BY <1>1 DEF FlagInv, Flag!MaintenanceTypeOK
    <3>3. posts[i].stage = "done" /\ dbOn' = posts[i].answer /\ posts' = [posts EXCEPT ![i].stage = "over"]
      BY <3>1 DEF Flag!PostReturns
    <3>4. posts[i].answer \in BOOLEAN \cup {NoValue}
      <4>1. ASSUME NEW p \in Flag!Post
            PROVE  p.answer \in BOOLEAN \cup {NoValue}
        BY DEF Flag!Post
      <4> QED BY <3>2, <4>1
    <3>5. posts[i].answer # NoValue
      BY <1>1, <3>3 DEF FlagInv
    <3>6. posts[i].answer = FALSE
      BY <3>3, <3>4, <3>5
    <3>7. posts'[i].stage = "over"
      <4>1. posts'[i] = [posts[i] EXCEPT !.stage = "over"]
        BY <3>2, <3>3
      <4>2. ASSUME NEW p \in Flag!Post
            PROVE  [p EXCEPT !.stage = "over"].stage = "over"
        BY DEF Flag!Post
      <4> QED BY <3>2, <4>1, <4>2
    <3> QED BY <3>3, <3>6, <3>7 DEF Flag!EndsByAnswer
  <2>3. CASE UNCHANGED dbOn
    BY <2>3
  <2> QED BY <1>1, <2>1, <2>2, <2>3
          DEF Flag!Next, Flag!Reading, Flag!Posting, Flag!vars, Flag!Show, Flag!Hide, Flag!Online, Flag!Elapses,
              Flag!Remount, Flag!SwitchedElsewhere, Flag!OpenControl, Flag!CloseControl, Flag!ControlLoaded,
              Flag!Toggle, Flag!ReadAnswered, Flag!PostWrites, Flag!PostRefused
<1>2. FlagInv /\ [Flag!Next]_(Flag!vars) => [dbOn /\ ~dbOn' => Flag!EndsByAnswer]_(Flag!vars)
  BY <1>1
<1> QED BY <1>2, FlagSpecInv, PTL DEF Flag!Spec, Flag!NothingElseChanges

-----------------------------------------------------------------------------
(* The page behind an invitation link (FamilyJoin).  What is rendered and   *)
(* what its effect ran for are the same after every step; a preview that is *)
(* still awaited was asked for exactly that.                                *)

CONSTANTS Joiners, Guest, NoSession, Tokens, NoToken, AccountChanges, Refreshes, Loads, Lost

VARIABLES account, storage, page, memory, stored, asked, accepts, invite, members, ended, holder, bounds

Join == INSTANCE FamilyJoin WITH Users <- Joiners, Nobody <- NoSession, Accounts <- AccountChanges

Sessions == Joiners \cup {Guest, NoSession}
Links == Tokens \cup {NoToken}
Pages == [url: Links, address: Links, session: Sessions, token: Links, status: Join!Statuses,
          named: [token: Links, for: Sessions], ran: [token: Links, session: Sessions \cup {"unmounted"}]]
PutBy == {Join!NoPending} \cup [token: Tokens, user: Joiners \cup {NoSession}, old: BOOLEAN]
Previews == [token: Tokens, for: Joiners, as: Sessions, live: BOOLEAN]
Browsers == [page: Pages, memory: PutBy, stored: PutBy, asked: SUBSET Previews]

\* The effect of the page ran for what the page shows.
RanFor(p) == p.ran = [token |-> p.token, session |-> p.session]

\* Previews that would be taken are of what the effect ran for last.
AsksOK(b) == \A r \in b.asked : r.live => b.page.ran = [token |-> r.token, session |-> r.for]

\* What is asked to be confirmed was previewed for what the effect ran for last.
NamedOK(p) == p.status = "confirm" => p.ran.session \in Joiners /\ p.ran = [token |-> p.named.token, session |-> p.named.for]

BrowserOK(b) == b \in Browsers /\ AsksOK(b) /\ NamedOK(b.page)

\* The page, when nothing is being rendered.
PageOK ==
  /\ BrowserOK(Join!Now) /\ \A r \in asked : r.live
  /\ page.status # "away" => RanFor(page)
  /\ page.status = "away" => asked = {}

ServerOK ==
  /\ account \in Sessions /\ invite \in [Tokens -> {"open", "used", "gone"}] /\ members \subseteq Tokens \X Joiners
  /\ accepts \subseteq [token: Tokens, as: Sessions, got: {"nothing", "ok", "error"}]

\* An invitation that is put by belongs to who had it last, and the page knows
\* only those of the account it shows; with a localStorage the way through a
\* login has its invitation there.
PutByOK ==
  /\ storage \in BOOLEAN /\ holder \in [Tokens -> Joiners \cup {NoSession}]
  /\ storage \/ stored = Join!NoPending
  /\ storage => memory \in {Join!NoPending, stored}
  /\ \A q \in {memory, stored} : q # Join!NoPending => holder[q.token] = q.user
  /\ page.token # NoToken => holder[page.token] = Join!Durable(page.session)
  /\ page.status = "away" => page.token = NoToken /\ page.ran.token = NoToken
  /\ page.status = "need-login" =>
       page.token # NoToken /\ page.session \notin Joiners /\ (storage => stored.token = page.token)

BoundsOK == bounds \in [{"accounts", "refreshes", "loads", "lost"} -> Nat]

JoinInv == PageOK /\ ServerOK /\ PutByOK /\ BoundsOK

\* A page without a link takes an invitation that was put by for its account, or
\* for nobody yet.
PickedUp ==
  page'.token # NoToken /\ page'.url = NoToken /\ page'.session \in Joiners =>
    holder[page'.token] \in {NoSession, page'.session}

\* Who comes back from the login finds the invitation again, if the browser keeps
\* it and ten minutes have not passed.
LoginReturns ==
  page.status = "need-login" /\ page'.url = NoToken /\ page'.session \in Joiners
  /\ bounds'.loads # bounds.loads /\ storage /\ page.token \notin ended
  /\ (stored # Join!NoPending => ~stored.old) => page'.token = page.token

\* The token of the page is that of its link, or one that was put by.
TokenOK(b) ==
  /\ b.page.url # NoToken => b.page.token = b.page.url
  /\ b.page.url = NoToken /\ b.page.token = NoToken =>
       b.memory = Join!NoPending /\ b.stored = Join!NoPending

\* Where the token of a rendering r of b is taken from, and what stays put by.
Took(b, r) ==
  LET u == Join!Durable(b.page.session)
  IN \/ b.page.url # NoToken /\ r.memory = b.memory /\ r.stored = b.stored
     \/ /\ b.page.url = NoToken /\ Join!Usable(b.memory, u) /\ r.page.token = b.memory.token
        /\ r.memory = b.memory /\ r.stored = b.stored
     \/ /\ b.page.url = NoToken /\ ~Join!Usable(b.memory, u) /\ Join!Usable(b.stored, u)
        /\ r.page.token = b.stored.token
        /\ r.memory = b.stored /\ r.stored = b.stored
     \/ /\ b.page.url = NoToken /\ r.page.token = NoToken
        /\ ~Join!Usable(b.memory, u) /\ ~Join!Usable(b.stored, u)
        /\ r.memory = Join!NoPending /\ r.stored = Join!NoPending

\* A rendering changes the token and what is put by, nothing else of the page.
LEMMA RenderedIs ==
    ASSUME NEW b \in Browsers
    PROVE  /\ Join!Rendered(b) \in Browsers
           /\ Join!Rendered(b).page = [b.page EXCEPT !.token = Join!Rendered(b).page.token]
           /\ Join!Rendered(b).asked = b.asked
           /\ TokenOK(Join!Rendered(b)) /\ Took(b, Join!Rendered(b))
<1> DEFINE u == Join!Durable(b.page.session)
           own == Join!Usable(b.memory, u)
           kept == Join!Usable(b.stored, u)
<1>1. /\ b.page \in Pages /\ b.memory \in PutBy /\ b.stored \in PutBy /\ b.asked \in SUBSET Previews
      /\ b.page.url \in Links /\ Join!NoPending \in PutBy
  BY DEF Browsers, Pages, PutBy
<1>2. \A q \in PutBy : \A w : Join!Usable(q, w) => q.token \in Links
  BY DEF PutBy, Join!Usable, Join!NoPending, Links
<1>3. \A t \in Links : [b.page EXCEPT !.token = t] \in Pages
  BY <1>1 DEF Pages
<1> HIDE DEF own, kept
<1>4. CASE b.page.url # NoToken
  <2>1. Join!Rendered(b) = [b EXCEPT !.page.token = b.page.url]
    BY <1>4 DEF Join!Rendered
  <2> DEFINE p == [b.page EXCEPT !.token = b.page.url]
  <2>2. p \in Pages /\ p = [b.page EXCEPT !.token = p.token] /\ p.url = b.page.url /\ p.token = b.page.url
    BY <1>1, <1>3 DEF Pages
  <2>3. Join!Rendered(b) = [page |-> p, memory |-> b.memory, stored |-> b.stored, asked |-> b.asked]
    BY <2>1 DEF Browsers
  <2> HIDE DEF p
  <2> QED BY <1>1, <1>4, <2>2, <2>3 DEF Browsers, TokenOK, Took
<1>5. CASE b.page.url = NoToken /\ own
  <2>1. Join!Rendered(b) = [b EXCEPT !.page.token = b.memory.token]
    BY <1>5 DEF Join!Rendered, own
  <2>2. b.memory.token \in Links \ {NoToken}
    BY <1>1, <1>2, <1>5 DEF own, Join!Usable
  <2> DEFINE p == [b.page EXCEPT !.token = b.memory.token]
  <2>3. p \in Pages /\ p = [b.page EXCEPT !.token = p.token] /\ p.url = b.page.url /\ p.token = b.memory.token
    BY <1>1, <1>3, <2>2 DEF Pages
  <2>4. Join!Rendered(b) = [page |-> p, memory |-> b.memory, stored |-> b.stored, asked |-> b.asked]
    BY <2>1 DEF Browsers
  <2> HIDE DEF p
  <2> QED BY <1>1, <1>5, <2>2, <2>3, <2>4 DEF Browsers, TokenOK, Took, own
<1>6. CASE b.page.url = NoToken /\ ~own /\ kept
  <2>1. Join!Rendered(b) = [b EXCEPT !.page.token = b.stored.token, !.memory = b.stored]
    BY <1>6 DEF Join!Rendered, own, kept
  <2>2. b.stored.token \in Links \ {NoToken}
    BY <1>1, <1>2, <1>6 DEF kept, Join!Usable
  <2> DEFINE p == [b.page EXCEPT !.token = b.stored.token]
  <2>3. p \in Pages /\ p = [b.page EXCEPT !.token = p.token] /\ p.url = b.page.url /\ p.token = b.stored.token
    BY <1>1, <1>3, <2>2 DEF Pages
  <2>4. Join!Rendered(b) = [page |-> p, memory |-> b.stored, stored |-> b.stored, asked |-> b.asked]
    BY <2>1 DEF Browsers
  <2> HIDE DEF p
  <2> QED BY <1>1, <1>6, <2>2, <2>3, <2>4 DEF Browsers, TokenOK, Took, own, kept
<1>7. CASE b.page.url = NoToken /\ ~own /\ ~kept
  <2>1. Join!Rendered(b) = [b EXCEPT !.page.token = NoToken, !.memory = Join!NoPending, !.stored = Join!NoPending]
    BY <1>7 DEF Join!Rendered, own, kept
  <2> DEFINE p == [b.page EXCEPT !.token = NoToken]
  <2>2. p \in Pages /\ p = [b.page EXCEPT !.token = p.token] /\ p.url = b.page.url /\ p.token = NoToken
    BY <1>1, <1>3 DEF Links, Pages
  <2>3. Join!Rendered(b) = [page |-> p, memory |-> Join!NoPending, stored |-> Join!NoPending, asked |-> b.asked]
    BY <2>1 DEF Browsers
  <2> HIDE DEF p
  <2> QED BY <1>1, <1>7, <2>2, <2>3 DEF Browsers, TokenOK, Took, own, kept
<1> QED BY <1>4, <1>5, <1>6, <1>7

\* What the effect does: previews that were out are cancelled, at most one is
\* asked for, of the token and the session it ran for.
LEMMA EffectIs ==
    ASSUME NEW b \in Browsers, account' \in Sessions
    PROVE  LET e == Join!Effect(b)
           IN /\ e \in Browsers
              /\ e.page.status \in {"no-token", "need-login", "checking"}
              /\ e.page.token = b.page.token /\ e.page.session = b.page.session /\ e.page.ran = b.page.ran
              /\ e.page.url = b.page.url
              /\ b.page.token # NoToken => /\ e.memory = Join!Saved(b)
                                         /\ e.stored = IF storage THEN Join!Saved(b) ELSE b.stored
              /\ b.page.token = NoToken => e.memory = b.memory /\ e.stored = b.stored
              /\ e.page.status = "need-login" => b.page.token # NoToken /\ b.page.session \notin Joiners
              /\ \A r \in e.asked : r.live => r.token = b.page.token /\ r.for = b.page.session
<1> DEFINE saved == Join!Saved(b)
           Is(e) ==
             /\ e \in Browsers
             /\ e.page.status \in {"no-token", "need-login", "checking"}
             /\ e.page.token = b.page.token /\ e.page.session = b.page.session /\ e.page.ran = b.page.ran
             /\ e.page.url = b.page.url
             /\ b.page.token # NoToken => e.memory = saved /\ e.stored = IF storage THEN saved ELSE b.stored
             /\ b.page.token = NoToken => e.memory = b.memory /\ e.stored = b.stored
             /\ e.page.status = "need-login" => b.page.token # NoToken /\ b.page.session \notin Joiners
             /\ \A r \in e.asked : r.live => r.token = b.page.token /\ r.for = b.page.session
<1> SUFFICES ASSUME NEW e, e = Join!Effect(b)
             PROVE  Is(e)
  OBVIOUS
<1>1. /\ b.page \in Pages /\ b.memory \in PutBy /\ b.stored \in PutBy /\ b.asked \in SUBSET Previews
      /\ b = [page |-> b.page, memory |-> b.memory, stored |-> b.stored, asked |-> b.asked]
      /\ b.page.token \in Links /\ b.page.session \in Sessions
  BY DEF Browsers, Pages
<1>2. Join!Cancelled(b.asked) \in SUBSET Previews /\ \A r \in Join!Cancelled(b.asked) : ~r.live
  BY <1>1 DEF Join!Cancelled, Previews
<1>3. ASSUME NEW st \in Join!Statuses, NEW a \in Links
      PROVE  LET p == [b.page EXCEPT !.address = a, !.status = st]
             IN p \in Pages /\ p.status = st /\ p.token = b.page.token /\ p.session = b.page.session
                /\ p.ran = b.page.ran /\ p.url = b.page.url
  BY <1>1, <1>3 DEF Pages
<1>4. {"no-token", "need-login", "checking"} \subseteq Join!Statuses /\ NoToken \in Links /\ b.page.address \in Links
  BY <1>1 DEF Join!Statuses, Links, Pages
<1>5. CASE b.page.token = NoToken
  <2> DEFINE p == [b.page EXCEPT !.address = b.page.address, !.status = "no-token"]
  <2>1. e = [page |-> p, memory |-> b.memory, stored |-> b.stored, asked |-> Join!Cancelled(b.asked)]
    <3>1. e = [b EXCEPT !.page.status = "no-token", !.asked = Join!Cancelled(@)]
      BY <1>5 DEF Join!Effect
    <3>2. [b.page EXCEPT !.status = "no-token"] = p
      BY <1>1 DEF Pages
    <3> QED BY <1>1, <3>1, <3>2
  <2>2. p \in Pages /\ p.status = "no-token" /\ p.token = b.page.token /\ p.session = b.page.session
        /\ p.ran = b.page.ran /\ p.url = b.page.url
    BY <1>3, <1>4
  <2> HIDE DEF p
  <2> QED BY <1>1, <1>2, <1>5, <2>1, <2>2 DEF Browsers
<1>6. CASE b.page.token # NoToken
  <2> DEFINE p(st) == [b.page EXCEPT !.address = NoToken, !.status = st]
             kept == IF storage THEN saved ELSE b.stored
             ask == [token |-> b.page.token, for |-> b.page.session, as |-> account', live |-> TRUE]
  <2>1. saved \in PutBy
    BY <1>1, <1>6 DEF Join!Saved, Join!Pending, Join!Durable, PutBy, Links
  <2>2. \/ /\ b.page.session \notin Joiners
           /\ e = [page |-> p("need-login"), memory |-> saved, stored |-> kept, asked |-> Join!Cancelled(b.asked)]
        \/ /\ b.page.session \in Joiners
           /\ e = [page |-> p("checking"), memory |-> saved, stored |-> kept,
                   asked |-> Join!Cancelled(b.asked) \cup {ask}]
    <3> DEFINE by == [b EXCEPT !.memory = saved, !.stored = IF storage THEN saved ELSE @,
                               !.page.address = NoToken, !.asked = Join!Cancelled(@)]
    <3>1. by = [page |-> [b.page EXCEPT !.address = NoToken], memory |-> saved, stored |-> kept,
                asked |-> Join!Cancelled(b.asked)]
      <4> DEFINE one == [b EXCEPT !.memory = saved]
                 two == [one EXCEPT !.stored = kept]
                 three == [two EXCEPT !.page.address = NoToken]
      <4>1. by = [three EXCEPT !.asked = Join!Cancelled(b.asked)]
        OBVIOUS
      <4> HIDE DEF saved, kept, by
      <4>2. one = [page |-> b.page, memory |-> saved, stored |-> b.stored, asked |-> b.asked]
        BY <1>1
      <4> HIDE DEF one
      <4>3. two = [page |-> b.page, memory |-> saved, stored |-> kept, asked |-> b.asked]
        BY <4>2
      <4> HIDE DEF two
      <4>4. three = [page |-> [b.page EXCEPT !.address = NoToken], memory |-> saved, stored |-> kept,
                     asked |-> b.asked]
        BY <4>3
      <4> HIDE DEF three
      <4> QED BY <4>1, <4>4
    <3>2. \/ b.page.session \notin Joiners /\ e = [by EXCEPT !.page.status = "need-login"]
          \/ b.page.session \in Joiners /\ e = [by EXCEPT !.page.status = "checking", !.asked = @ \cup {ask}]
      BY <1>6 DEF Join!Effect
    <3>3. \A st : [[b.page EXCEPT !.address = NoToken] EXCEPT !.status = st] = p(st)
      BY <1>1 DEF Pages
    <3> HIDE DEF by, ask, kept, saved, p
    <3> QED BY <3>1, <3>2, <3>3
  <2>3. b.page.session \in Joiners => ask \in Previews
    BY <1>1, <1>6 DEF Previews, Links
  <2>4. \A st \in {"need-login", "checking"} :
          /\ p(st) \in Pages /\ p(st).status = st /\ p(st).token = b.page.token
          /\ p(st).session = b.page.session /\ p(st).ran = b.page.ran /\ p(st).url = b.page.url
    BY <1>3, <1>4
  <2>5. /\ kept \in PutBy /\ ask.token = b.page.token /\ ask.for = b.page.session
        /\ kept = IF storage THEN saved ELSE b.stored
    BY <1>1, <2>1
  <2> HIDE DEF p, kept, ask, saved
  <2> QED BY <1>1, <1>2, <1>6, <2>1, <2>2, <2>3, <2>4, <2>5 DEF Browsers, saved
<1> QED BY <1>1, <1>5, <1>6

\* What a rendering of b and its effect leave put by: the effect, if it runs,
\* puts by what it runs for.
Settled(b, s) ==
  /\ s.page.url = b.page.url /\ s.page.session = b.page.session
  /\ \/ /\ s.page.ran = b.page.ran /\ s.page.status = b.page.status
        /\ Took(b, s)
     \/ /\ \E r \in Browsers : Took(b, r) /\ r.page.token = s.page.token /\ (~storage => s.stored = r.stored)
        /\ s.page.token # NoToken =>
             /\ s.memory = Join!Pending(s.page.token, Join!Durable(s.page.session))
             /\ storage => s.stored = s.memory
        /\ s.page.token = NoToken => s.memory = Join!NoPending /\ s.stored = Join!NoPending
        /\ s.page.status = "need-login" => s.page.token # NoToken /\ s.page.session \notin Joiners

\* What is rendered, and its effect, leave a page whose effect ran for what it
\* shows; what was previewed for anything else is neither awaited nor confirmed.
LEMMA SettleIs ==
    ASSUME NEW b, BrowserOK(b), NEW again \in BOOLEAN, account' \in Sessions
    PROVE  LET s == Join!Settle(b, again)
           IN /\ BrowserOK(s) /\ RanFor(s.page) /\ (b.page.status # "away" => s.page.status # "away")
              /\ Settled(b, s)
<1> DEFINE r == Join!Rendered(b)
           deps == [token |-> r.page.token, session |-> r.page.session]
           t == [r EXCEPT !.page.ran = deps]
           e == Join!Effect(t)
           f == Join!Rendered(e)
<1>1. b \in Browsers /\ r \in Browsers /\ r.asked = b.asked /\ TokenOK(r) /\ Took(b, r)
      /\ r.page = [b.page EXCEPT !.token = r.page.token]
  BY RenderedIs DEF BrowserOK
<1>2. /\ b.page \in Pages /\ r.page \in Pages
      /\ r.page.ran = b.page.ran /\ r.page.status = b.page.status /\ r.page.named = b.page.named
      /\ r.page.session = b.page.session /\ r.page.url = b.page.url
  <2>1. b.page \in Pages /\ r.page \in Pages
    BY <1>1 DEF Browsers
  <2> HIDE DEF r
  <2> QED BY <1>1, <2>1 DEF Pages
<1>3. Join!Settle(b, again) = IF again \/ deps # b.page.ran THEN f ELSE r
  BY DEF Join!Settle
<1>4. CASE ~again /\ deps = b.page.ran
  <2> HIDE DEF r
  <2>1. Settled(b, r)
    BY <1>1, <1>2, <1>4 DEF Settled
  <2> QED BY <1>1, <1>2, <1>3, <1>4, <2>1 DEF BrowserOK, AsksOK, NamedOK, RanFor
<1>5. CASE again \/ deps # b.page.ran
  <2>1. /\ t \in Browsers /\ t.page.ran = deps /\ t.page.token = r.page.token /\ t.page.session = r.page.session
        /\ TokenOK(t) /\ t.page.url = r.page.url /\ t.stored = r.stored
    <3> HIDE DEF r
    <3>1. t = [page |-> [r.page EXCEPT !.ran = deps], memory |-> r.memory, stored |-> r.stored, asked |-> r.asked]
      BY <1>1 DEF Browsers
    <3>2. deps \in [token: Links, session: Sessions \cup {"unmounted"}]
      BY <1>2 DEF Pages
    <3>3. [r.page EXCEPT !.ran = deps] \in Pages /\ [r.page EXCEPT !.ran = deps].ran = deps
          /\ [r.page EXCEPT !.ran = deps].token = r.page.token /\ [r.page EXCEPT !.ran = deps].session = r.page.session
          /\ [r.page EXCEPT !.ran = deps].url = r.page.url
      <4> HIDE DEF deps
      <4> QED BY <1>2, <3>2 DEF Pages
    <3> HIDE DEF deps, t
    <3> QED BY <1>1, <3>1, <3>3 DEF Browsers, TokenOK
  <2> HIDE DEF t
  <2>2. /\ e \in Browsers
        /\ e.page.status \in {"no-token", "need-login", "checking"}
        /\ e.page.token = t.page.token /\ e.page.session = t.page.session /\ e.page.ran = t.page.ran
        /\ e.page.url = t.page.url
        /\ t.page.token # NoToken => /\ e.memory = Join!Saved(t)
                                   /\ e.stored = IF storage THEN Join!Saved(t) ELSE t.stored
        /\ t.page.token = NoToken => e.memory = t.memory /\ e.stored = t.stored
        /\ e.page.status = "need-login" => t.page.token # NoToken /\ t.page.session \notin Joiners
        /\ \A q \in e.asked : q.live => q.token = t.page.token /\ q.for = t.page.session
    BY <2>1, EffectIs
  <2> HIDE DEF e
  <2>3. /\ f \in Browsers /\ f.asked = e.asked /\ f.page = [e.page EXCEPT !.token = f.page.token] /\ TokenOK(f)
        /\ Took(e, f)
    BY <2>2, RenderedIs
  <2>4. /\ f.page.ran = e.page.ran /\ f.page.status = e.page.status /\ f.page.session = e.page.session
        /\ f.page.url = e.page.url
    <3>1. e.page \in Pages
      BY <2>2 DEF Browsers
    <3> HIDE DEF f
    <3> QED BY <2>3, <3>1 DEF Pages
  <2>5. f.page.token = e.page.token
    <3>1. CASE e.page.url # NoToken
      <4> HIDE DEF f
      <4> QED BY <2>1, <2>2, <2>3, <2>4, <3>1 DEF TokenOK
    <3>2. CASE e.page.url = NoToken /\ t.page.token = NoToken
      <4>1. e.memory = Join!NoPending /\ e.stored = Join!NoPending
        BY <2>1, <2>2, <3>2 DEF TokenOK
      <4>2. \A u : ~Join!Usable(e.memory, u) /\ ~Join!Usable(e.stored, u)
        BY <4>1 DEF Join!Usable, Join!NoPending
      <4>3. f = [e EXCEPT !.page.token = NoToken, !.memory = Join!NoPending, !.stored = Join!NoPending]
        BY <3>2, <4>2 DEF Join!Rendered
      <4>4. f.page = [e.page EXCEPT !.token = NoToken]
        BY <2>2, <4>3 DEF Browsers
      <4> HIDE DEF f
      <4> QED BY <2>2, <3>2, <4>4 DEF Browsers, Pages
    <3>3. CASE e.page.url = NoToken /\ t.page.token # NoToken
      <4>1. e.memory = [token |-> t.page.token, user |-> Join!Durable(e.page.session), old |-> FALSE]
        BY <2>2, <3>3 DEF Join!Saved, Join!Pending
      <4>2. Join!Usable(e.memory, Join!Durable(e.page.session))
        BY <3>3, <4>1 DEF Join!Usable
      <4>3. f = [e EXCEPT !.page.token = e.memory.token]
        BY <3>3, <4>2 DEF Join!Rendered
      <4>4. f.page = [e.page EXCEPT !.token = t.page.token]
        BY <2>2, <4>1, <4>3 DEF Browsers
      <4> HIDE DEF f
      <4> QED BY <2>2, <4>4 DEF Browsers, Pages
    <3> QED BY <3>1, <3>2, <3>3
  <2>6. e.page.ran = [token |-> e.page.token, session |-> e.page.session]
    BY <2>1, <2>2
  <2> HIDE DEF f
  <2>7. /\ t.page.token # NoToken => f.memory = Join!Saved(t) /\ f.stored = e.stored
        /\ t.page.token = NoToken => f.memory = Join!NoPending /\ f.stored = Join!NoPending
    <3>1. CASE t.page.token = NoToken
      <4>1. e.page.url = NoToken /\ f.page.token = NoToken
        BY <2>1, <2>2, <2>5, <3>1 DEF TokenOK
      <4> QED BY <2>3, <2>4, <3>1, <4>1 DEF TokenOK
    <3>2. CASE t.page.token # NoToken
      <4>1. e.memory = Join!Saved(t) /\ Join!Usable(e.memory, Join!Durable(e.page.session))
        BY <2>2, <3>2 DEF Join!Saved, Join!Pending, Join!Usable
      <4>2. f.page.token # NoToken
        BY <2>2, <2>5, <3>2
      <4> QED BY <2>3, <3>2, <4>1, <4>2 DEF Took
    <3> QED BY <3>1, <3>2
  <2>8. Settled(b, f)
    <3>1. Join!Saved(t) = Join!Pending(f.page.token, Join!Durable(f.page.session))
      BY <2>2, <2>4, <2>5 DEF Join!Saved
    <3> HIDE DEF r
    <3>2. f.page.url = b.page.url /\ f.page.session = b.page.session
      BY <1>2, <2>1, <2>2, <2>4
    <3>3. \E q \in Browsers : Took(b, q) /\ q.page.token = f.page.token /\ (~storage => f.stored = q.stored)
      <4>1. r.page.token = f.page.token
        BY <2>1, <2>2, <2>5
      <4>2. ~storage => f.stored = r.stored
        <5>1. CASE t.page.token = NoToken
          <6>1. r.page.token = NoToken /\ r.page.url = NoToken
            BY <1>1, <2>1, <5>1 DEF TokenOK
          <6>2. r.stored = Join!NoPending
            BY <1>1, <6>1 DEF TokenOK
          <6> QED BY <2>7, <5>1, <6>2
        <5>2. CASE t.page.token # NoToken
          BY <2>1, <2>2, <2>7, <5>2
        <5> QED BY <5>1, <5>2
      <4> QED BY <1>1, <4>1, <4>2
    <3> QED BY <2>1, <2>2, <2>4, <2>5, <2>7, <3>1, <3>2, <3>3 DEF Settled
  <2> QED BY <1>3, <1>5, <2>2, <2>3, <2>4, <2>5, <2>6, <2>8 DEF BrowserOK, AsksOK, NamedOK, RanFor
<1> QED BY <1>4, <1>5

\* What is put by after a rendering of what was put by, or of nothing.
LEMMA RenderingKeeps ==
    ASSUME PageOK, PutByOK, account' \in Sessions, storage' = storage, NEW again \in BOOLEAN,
           NEW p \in Pages, NEW m \in {memory, Join!NoPending}, NEW st \in {stored, Join!NoPending},
           NEW a \in SUBSET Previews, storage => m \in {Join!NoPending, st},
           BrowserOK(Join!B(p, m, st, a)), Join!Becomes(Join!Settle(Join!B(p, m, st, a), again)),
           p.status # "away", p.ran = Join!Unmounted \/ (page.status # "away" /\ p.ran = page.ran),
           p.status = "need-login" => page.status = "need-login" /\ p.ran = page.ran /\ st = stored
    PROVE  PutByOK' /\ PickedUp
<1> DEFINE b == Join!B(p, m, st, a)
           s == Join!Settle(b, again)
           t == s.page.token
           w == Join!Durable(s.page.session)
<1>1. b.page = p /\ b.memory = m /\ b.stored = st
  BY DEF Join!B
<1>2. BrowserOK(b) /\ Join!Becomes(s)
  OBVIOUS
<1> HIDE DEF b
<1>3. BrowserOK(s) /\ RanFor(s.page) /\ s.page.status # "away" /\ Settled(b, s)
  BY <1>1, <1>2, SettleIs
<1> HIDE DEF s
<1>4. /\ page' = s.page /\ memory' = s.memory /\ stored' = s.stored
      /\ holder' = IF s.page.ran # page.ran /\ t # NoToken THEN [holder EXCEPT ![t] = w] ELSE holder
  BY <1>2 DEF Join!Becomes
<1>5. /\ memory \in PutBy /\ stored \in PutBy /\ s.page \in Pages /\ t \in Links /\ w \in Joiners \cup {NoSession}
      /\ s.page.ran = [token |-> t, session |-> s.page.session]
      /\ page.status # "away" => page.ran = [token |-> page.token, session |-> page.session]
  BY <1>3 DEF PageOK, BrowserOK, Browsers, Join!Now, Join!B, RanFor, Pages, Join!Durable
<1>6. Join!NoPending.token = NoToken /\ \A q \in PutBy : q # Join!NoPending => q.token \in Tokens
  BY DEF PutBy, Join!NoPending
<1>7. t # NoToken => holder'[t] = w
  <2>1. CASE s.page.ran # page.ran
    BY <1>4, <1>5, <2>1 DEF PutByOK, Links
  <2>2. CASE s.page.ran = page.ran /\ page.status # "away"
    BY <1>4, <1>5, <2>2 DEF PutByOK
  <2>3. CASE s.page.ran = page.ran /\ page.status = "away"
    BY <1>5, <2>3 DEF PutByOK
  <2> QED BY <2>1, <2>2, <2>3
<1>8. holder' \in [Tokens -> Joiners \cup {NoSession}]
  BY <1>4, <1>5 DEF PutByOK
<1>9. ASSUME NEW r, Took(b, r)
      PROVE  /\ r.memory \in {m, st, Join!NoPending} /\ r.stored \in {st, Join!NoPending}
             /\ storage => r.memory \in {Join!NoPending, r.stored}
             /\ ~storage => r.stored = Join!NoPending
             /\ r.page.token # NoToken => r.stored = st
             /\ b.page.url = NoToken /\ r.page.token # NoToken =>
                  holder[r.page.token] \in {NoSession, Join!Durable(b.page.session)}
  <2> DEFINE u == Join!Durable(b.page.session)
  <2>1. \A q \in {m, st} : Join!Usable(q, u) => q \in {memory, stored} /\ q # Join!NoPending /\ q.user \in {NoSession, u}
    BY <1>6 DEF Join!Usable
  <2>2. b.page.url = NoToken /\ r.page.token # NoToken =>
          \E q \in {m, st} : Join!Usable(q, u) /\ r.page.token = q.token
    <3> HIDE DEF u
    <3> QED BY <1>1, <1>9 DEF Took, u
  <2>3. b.page.url = NoToken /\ r.page.token # NoToken => holder[r.page.token] \in {NoSession, u}
    <3> HIDE DEF u
    <3> QED BY <2>1, <2>2 DEF PutByOK
  <2>4. /\ r.memory \in {m, st, Join!NoPending} /\ r.stored \in {st, Join!NoPending}
        /\ storage => r.memory \in {Join!NoPending, r.stored}
        /\ r.page.token # NoToken => r.stored = st
    BY <1>1, <1>9 DEF Took
  <2>5. ~storage => r.stored = Join!NoPending
    BY <2>4 DEF PutByOK
  <2> QED BY <2>3, <2>4, <2>5
<1>10. PickedUp
  <2>1. s.page.url = b.page.url /\ s.page.session = b.page.session
        /\ \E r : Took(b, r) /\ r.page.token = t
    BY <1>3 DEF Settled
  <2>2. s.page.session \in Joiners => w = s.page.session
    BY DEF Join!Durable
  <2>3. s.page.url = NoToken /\ t # NoToken => holder[t] \in {NoSession, w}
    BY <1>9, <2>1
  <2> QED BY <1>4, <2>2, <2>3 DEF PickedUp
<1>11. CASE s.page.ran = p.ran /\ s.page.status = p.status /\ Took(b, s)
  <2>1. holder' = holder
    <3>1. CASE p.ran = page.ran
      BY <1>4, <1>11, <3>1
    <3>2. CASE p.ran = Join!Unmounted
      BY <1>4, <1>5, <1>11, <3>2 DEF Join!Unmounted
    <3> QED BY <3>1, <3>2
  <2>2. /\ s.memory \in {memory, stored, Join!NoPending} /\ s.stored \in {stored, Join!NoPending}
        /\ storage => s.memory \in {Join!NoPending, s.stored}
        /\ ~storage => s.stored = Join!NoPending
        /\ t # NoToken => s.stored = st
    BY <1>9, <1>11
  <2>3. \A q \in {s.memory, s.stored} : q # Join!NoPending => holder'[q.token] = q.user
    BY <2>1, <2>2 DEF PutByOK
  <2>4. s.page.status = "need-login" =>
          t # NoToken /\ s.page.session \notin Joiners /\ (storage => s.stored.token = t)
    BY <1>5, <1>11, <2>2 DEF PutByOK
  <2>5. PutByOK'
    BY <1>3, <1>4, <1>7, <1>8, <2>2, <2>3, <2>4 DEF PutByOK
  <2> QED BY <1>10, <2>5
<1>12. CASE /\ \E r \in Browsers : Took(b, r) /\ r.page.token = t /\ (~storage => s.stored = r.stored)
            /\ t # NoToken => s.memory = Join!Pending(t, w) /\ (storage => s.stored = s.memory)
            /\ t = NoToken => s.memory = Join!NoPending /\ s.stored = Join!NoPending
            /\ s.page.status = "need-login" => t # NoToken /\ s.page.session \notin Joiners
  <2>1. ~storage => s.stored = Join!NoPending
    BY <1>9, <1>12
  <2>2. Join!Pending(t, w).token = t /\ Join!Pending(t, w).user = w
    BY DEF Join!Pending
  <2>3. storage => s.memory \in {Join!NoPending, s.stored}
    BY <1>12
  <2>4. \A q \in {s.memory, s.stored} : q # Join!NoPending => t # NoToken /\ q = Join!Pending(t, w)
    BY <1>12, <2>1
  <2>5. \A q \in {s.memory, s.stored} : q # Join!NoPending => holder'[q.token] = q.user
    BY <1>7, <2>2, <2>4
  <2>6. s.page.status = "need-login" =>
          t # NoToken /\ s.page.session \notin Joiners /\ (storage => s.stored.token = t)
    BY <1>12, <2>2
  <2>7. PutByOK'
    BY <1>3, <1>4, <1>7, <1>8, <2>1, <2>3, <2>5, <2>6 DEF PutByOK
  <2> QED BY <1>10, <2>7
<1> QED BY <1>1, <1>3, <1>11, <1>12 DEF Settled

\* What the page and its requests are made of.
LEMMA PageParts ==
    ASSUME PageOK
    PROVE  /\ page \in Pages /\ memory \in PutBy /\ stored \in PutBy /\ asked \in SUBSET Previews
           /\ NamedOK(page) /\ Join!NoPending \in PutBy /\ NoToken \in Links /\ {Guest, NoSession} \subseteq Sessions
           /\ \A r \in asked : page.ran = [token |-> r.token, session |-> r.for]
BY DEF PageOK, BrowserOK, Browsers, AsksOK, PutBy, Links, Sessions, Join!Now, Join!B

\* The page after a rendering.
LEMMA SettledPage ==
    ASSUME PageOK, PutByOK, account' \in Sessions, storage' = storage, NEW again \in BOOLEAN,
           NEW p \in Pages, NEW m \in {memory, Join!NoPending}, NEW st \in {stored, Join!NoPending},
           NEW a \in SUBSET Previews, storage => m \in {Join!NoPending, st},
           p.ran = Join!Unmounted \/ (page.status # "away" /\ p.ran = page.ran),
           p.status = "need-login" => page.status = "need-login" /\ p.ran = page.ran /\ st = stored,
           \A r \in a : r.live => p.ran = [token |-> r.token, session |-> r.for],
           NamedOK(p), p.status # "away", Join!Becomes(Join!Settle(Join!B(p, m, st, a), again))
    PROVE  PageOK' /\ PutByOK' /\ PickedUp
<1> DEFINE b == Join!B(p, m, st, a)
           s == Join!Settle(b, again)
<1>0. m \in PutBy /\ st \in PutBy
  BY PageParts
<1>1. BrowserOK(b) /\ b.page = p
  BY <1>0 DEF BrowserOK, Browsers, AsksOK, Join!B
<1>5. PutByOK' /\ PickedUp
  BY <1>1, RenderingKeeps
<1> HIDE DEF b
<1>2. BrowserOK(s) /\ RanFor(s.page) /\ s.page.status # "away"
  BY <1>1, SettleIs
<1>3. page' = s.page /\ memory' = s.memory /\ stored' = s.stored /\ asked' = {r \in s.asked : r.live}
  BY DEF Join!Becomes, b
<1> HIDE DEF s
<1>4. s.page \in Pages /\ s.memory \in PutBy /\ s.stored \in PutBy /\ s.asked \in SUBSET Previews
  BY <1>2 DEF BrowserOK, Browsers
<1>6. PageOK'
  BY <1>2, <1>3, <1>4 DEF PageOK, BrowserOK, Browsers, AsksOK, Join!Now, Join!B
<1> QED BY <1>5, <1>6

\* A page loaded anew.
LEMMA LoadStep ==
    ASSUME PageOK, PutByOK, account' \in Sessions, storage' = storage, NEW url \in Links, NEW s \in Sessions,
           Join!Load(url, s)
    PROVE  PageOK' /\ PutByOK' /\ PickedUp
<1> DEFINE p == Join!Page(url, s, "idle")
<1>1. p \in Pages /\ p.status = "idle" /\ p.ran = Join!Unmounted
  BY PageParts DEF Join!Page, Pages, Join!Unmounted, Join!Statuses
<1>2. NamedOK(p)
  BY <1>1 DEF NamedOK
<1>3. Join!Becomes(Join!Settle(Join!B(p, Join!NoPending, stored, {}), FALSE))
  BY DEF Join!Load
<1>4. {} \in SUBSET Previews
  OBVIOUS
<1> HIDE DEF p
<1> QED BY <1>1, <1>2, <1>3, <1>4, SettledPage

\* The page goes on, with another status, name or session.
LEMMA PageGoesOn ==
    ASSUME PageOK, PutByOK, account' \in Sessions, storage' = storage, page.status # "away", NEW again \in BOOLEAN,
           NEW ss \in Sessions, NEW status \in Join!Statuses \ {"away"}, NEW name \in [token: Links, for: Sessions],
           status = "confirm" => page.ran.session \in Joiners /\ page.ran = [token |-> name.token, session |-> name.for],
           NEW st \in {stored, Join!NoPending},
           status = "need-login" => page.status = "need-login" /\ st = stored,
           NEW m \in {memory, Join!NoPending}, NEW a \in SUBSET asked, storage => m \in {Join!NoPending, st},
           LET p == [page EXCEPT !.session = ss, !.status = status, !.named = name]
           IN Join!Becomes(Join!Settle(Join!B(p, m, st, a), again))
    PROVE  PageOK' /\ PutByOK' /\ PickedUp
<1> DEFINE p == [page EXCEPT !.session = ss, !.status = status, !.named = name]
<1>1. p \in Pages /\ p.status = status /\ p.named = name /\ p.ran = page.ran
  BY PageParts DEF Pages
<1>2. NamedOK(p)
  BY <1>1 DEF NamedOK
<1> HIDE DEF p
<1>3. a \in SUBSET Previews /\ \A r \in a : r.live => p.ran = [token |-> r.token, session |-> r.for]
  BY <1>1, PageParts
<1>4. Join!Becomes(Join!Settle(Join!B(p, m, st, a), again))
  BY DEF p
<1> QED BY <1>1, <1>2, <1>3, <1>4, SettledPage

\* What the browser holds, with another page, other previews or nothing put by.
LEMMA BrowserFields ==
    ASSUME PageOK
    PROVE  /\ Join!Now = [page |-> page, memory |-> memory, stored |-> stored, asked |-> asked]
           /\ page = [page EXCEPT !.session = page.session, !.status = page.status, !.named = page.named]
           /\ page.session \in Sessions /\ page.status \in Join!Statuses /\ page.named \in [token: Links, for: Sessions]
           /\ page.token \in Links /\ page.address \in Links
<1>1. page \in Pages
  BY PageParts
<1> QED BY <1>1 DEF Pages, Join!Now, Join!B

\* A count goes up, of the four there are.
LEMMA Counts ==
    ASSUME BoundsOK, NEW f, NEW max, Join!Counted(f, max)
    PROVE  BoundsOK' /\ (f # "loads" => bounds'.loads = bounds.loads)
<1>1. f \in {"accounts", "refreshes", "loads", "lost"} => bounds[f] + 1 \in Nat
  BY DEF BoundsOK
<1> QED BY <1>1 DEF BoundsOK, Join!Counted

LEMMA SessionKnownStep ==
    ASSUME JoinInv, Join!SessionKnown
    PROVE  JoinInv' /\ PickedUp
<1>1. PageOK /\ PutByOK /\ account \in Sessions /\ account' = account /\ page.status # "away"
  BY DEF JoinInv, ServerOK, Join!SessionKnown, Join!Mounted
<1>2. [Join!Now EXCEPT !.page.session = account]
        = Join!B([page EXCEPT !.session = account, !.status = page.status, !.named = page.named], memory, stored, asked)
  <2>1. [Join!Now EXCEPT !.page.session = account]
          = [page |-> [page EXCEPT !.session = account], memory |-> memory, stored |-> stored, asked |-> asked]
    BY <1>1, BrowserFields
  <2>2. [page EXCEPT !.session = account] = [page EXCEPT !.session = account, !.status = page.status, !.named = page.named]
    BY <1>1, PageParts DEF Pages
  <2> QED BY <2>1, <2>2 DEF Join!B
<1>3. Join!Becomes(Join!Settle(Join!B([page EXCEPT !.session = account, !.status = page.status, !.named = page.named],
                                      memory, stored, asked), FALSE))
  BY <1>2 DEF Join!SessionKnown
<1>4. page.status = "confirm" =>
        page.ran.session \in Joiners /\ page.ran = [token |-> page.named.token, session |-> page.named.for]
  BY <1>1, PageParts DEF NamedOK
<1>5. storage' = storage /\ (storage => memory \in {Join!NoPending, stored})
  BY <1>1 DEF PutByOK, Join!SessionKnown
<1>6. PageOK' /\ PutByOK' /\ PickedUp
  BY <1>1, <1>3, <1>4, <1>5, BrowserFields, PageParts, PageGoesOn
<1> QED BY <1>1, <1>6 DEF JoinInv, ServerOK, BoundsOK, Join!SessionKnown, Join!server

LEMMA RenderStep ==
    ASSUME JoinInv, Join!Refresh \/ Join!Rerender
    PROVE  JoinInv' /\ PickedUp
<1>1. PageOK /\ PutByOK /\ account \in Sessions /\ account' = account /\ page.status # "away"
  BY DEF JoinInv, ServerOK, Join!Refresh, Join!Rerender, Join!Mounted
<1>2. Join!Now = Join!B(page, memory, stored, asked)
  BY DEF Join!Now
<1>3. PICK again \in BOOLEAN : Join!Becomes(Join!Settle(Join!B(page, memory, stored, asked), again))
  BY <1>2 DEF Join!Refresh, Join!Rerender
<1>4. /\ storage' = storage /\ (storage => memory \in {Join!NoPending, stored})
      /\ BoundsOK /\ Join!Counted("refreshes", Refreshes)
  BY <1>1 DEF PutByOK, JoinInv, Join!Refresh, Join!Rerender
<1>5. PageOK' /\ PutByOK' /\ PickedUp
  BY <1>1, <1>3, <1>4, PageParts, SettledPage
<1>6. BoundsOK'
  BY <1>4, Counts
<1> QED BY <1>1, <1>5, <1>6 DEF JoinInv, ServerOK, Join!Refresh, Join!Rerender, Join!server

LEMMA LoadSteps ==
    ASSUME JoinInv, Join!OpenLink \/ Join!LoadAgain \/ Join!Login
    PROVE  JoinInv' /\ PickedUp
<1>1. PageOK /\ PutByOK /\ account \in Sessions /\ NoSession \in Sessions
  BY DEF JoinInv, ServerOK, Sessions
<1>2. /\ account' \in Sessions /\ accepts' = {} /\ UNCHANGED <<invite, members>>
      /\ \E url \in Links, s \in Sessions : Join!Load(url, s)
  BY <1>1, BrowserFields DEF Join!OpenLink, Join!LoadAgain, Join!Login, Join!server, Links, Sessions
<1>3. storage' = storage /\ BoundsOK /\ Join!Counted("loads", Loads)
  BY DEF JoinInv, Join!OpenLink, Join!LoadAgain, Join!Login
<1>4. PageOK' /\ PutByOK' /\ PickedUp
  BY <1>1, <1>2, <1>3, LoadStep
<1>5. BoundsOK'
  BY <1>3, Counts
<1> QED BY <1>1, <1>2, <1>4, <1>5 DEF JoinInv, ServerOK

\* The account changes elsewhere, ten minutes pass, the page is left, and what the
\* server does.
LEMMA QuietSteps ==
    ASSUME JoinInv,
           Join!ChangeAccount \/ Join!Age \/ Join!Decline \/ Join!Leave \/ Join!AcceptServed \/ Join!InviteGone
    PROVE  JoinInv' /\ PickedUp
<1>1. PageOK /\ ServerOK /\ PutByOK /\ page \in Pages
  BY PageParts DEF JoinInv
<1>a. ASSUME page' = page
      PROVE  PickedUp
  BY <1>1, <1>a DEF PutByOK, PickedUp, Join!Durable
<1>b. BoundsOK'
  <2>1. UNCHANGED bounds \/ Join!Counted("accounts", AccountChanges) \/ Join!Counted("lost", Lost)
    BY DEF Join!ChangeAccount, Join!Age, Join!Decline, Join!Leave, Join!AcceptServed, Join!InviteGone
  <2>2. BoundsOK
    BY DEF JoinInv
  <2>3. CASE UNCHANGED bounds
    BY <2>2, <2>3 DEF BoundsOK
  <2> QED BY <2>1, <2>2, <2>3, Counts
<1>c. ASSUME UNCHANGED <<storage, holder, page, memory, stored>>
      PROVE  PutByOK'
  BY <1>1, <1>c DEF PutByOK
<1>2. CASE Join!ChangeAccount
  <2>1. UNCHANGED <<storage, holder, page, memory, stored, asked, accepts, invite, members>>
    BY <1>2 DEF Join!ChangeAccount, Join!server
  <2>2. account' \in Sessions
    BY <1>2 DEF Join!ChangeAccount, Sessions
  <2>3. PageOK'
    BY <1>1, <2>1 DEF PageOK, BrowserOK, AsksOK, NamedOK, RanFor, Join!Now
  <2>4. ServerOK'
    BY <1>1, <2>1, <2>2 DEF ServerOK
  <2> QED BY <1>a, <1>b, <1>c, <2>1, <2>3, <2>4 DEF JoinInv
<1>3. CASE Join!Age
  <2>1. memory' \in PutBy /\ stored' \in PutBy
    <3>1. ASSUME NEW q \in PutBy, q # Join!NoPending
          PROVE  [q EXCEPT !.old = TRUE] \in PutBy
      BY <3>1 DEF PutBy
    <3>2. Join!NoPending \in PutBy /\ memory \in PutBy /\ stored \in PutBy
      BY <1>1, PageParts
    <3> QED BY <1>3, <3>1, <3>2 DEF Join!Age
  <2>2. UNCHANGED <<account, page, asked, accepts, invite, members>>
    BY <1>3 DEF Join!Age, Join!server
  <2>3. PageOK'
    BY <1>1, <2>1, <2>2, PageParts
    DEF PageOK, BrowserOK, Browsers, AsksOK, NamedOK, RanFor, Join!Now, Join!B
  <2>4. PutByOK'
    <3> DEFINE Aged(q, v) == /\ v.token = q.token /\ (q = Join!NoPending => v = Join!NoPending)
                             /\ q # Join!NoPending => v.user = q.user
    <3>1. UNCHANGED <<storage, holder, page>>
      BY <1>3 DEF Join!Age
    <3>2. ASSUME NEW q \in PutBy, NEW v, v = IF q = Join!NoPending THEN Join!NoPending ELSE [q EXCEPT !.old = TRUE]
          PROVE  Aged(q, v)
      BY <3>2 DEF PutBy, Join!NoPending
    <3>3. memory \in PutBy /\ stored \in PutBy
      BY <1>1, PageParts
    <3>a. Aged(memory, memory') /\ Aged(stored, stored')
      BY <1>3, <3>2, <3>3 DEF Join!Age
    <3>4. storage => memory' \in {Join!NoPending, stored'}
      BY <1>1, <1>3 DEF PutByOK, Join!Age
    <3>5. \A q \in {memory', stored'} : q # Join!NoPending => holder[q.token] = q.user
      BY <1>1, <3>a DEF PutByOK
    <3>6. stored'.token = stored.token /\ (storage \/ stored' = Join!NoPending)
      BY <1>1, <3>a DEF PutByOK
    <3> QED BY <1>1, <3>1, <3>4, <3>5, <3>6 DEF PutByOK
  <2> QED BY <1>1, <1>a, <1>b, <2>2, <2>3, <2>4 DEF JoinInv, ServerOK
<1>4. CASE Join!Decline \/ Join!Leave
  <2>1. /\ page' = Join!Page(NoToken, NoSession, "away") /\ asked' = {}
        /\ memory' \in PutBy /\ stored' \in PutBy /\ UNCHANGED <<account, accepts, invite, members, storage, holder>>
        /\ UNCHANGED <<memory, stored>> \/ (memory' = Join!NoPending /\ stored' = Join!NoPending)
    BY <1>1, <1>4, PageParts DEF Join!Decline, Join!Leave, Join!server
  <2>2. /\ Join!Page(NoToken, NoSession, "away") \in Pages /\ Join!Page(NoToken, NoSession, "away").status = "away"
        /\ Join!Page(NoToken, NoSession, "away").token = NoToken
        /\ Join!Page(NoToken, NoSession, "away").ran.token = NoToken
    BY DEF Join!Page, Pages, Join!Unmounted, Join!Statuses, Links, Sessions
  <2>3. PageOK'
    BY <2>1, <2>2 DEF PageOK, BrowserOK, Browsers, AsksOK, NamedOK, RanFor, Join!Now, Join!B
  <2>4. PutByOK'
    BY <1>1, <2>1, <2>2 DEF PutByOK
  <2>5. PickedUp
    BY <2>1, <2>2 DEF PickedUp
  <2> QED BY <1>1, <1>b, <2>1, <2>3, <2>4, <2>5 DEF JoinInv, ServerOK
<1>5. CASE Join!AcceptServed \/ Join!InviteGone
  <2>1. UNCHANGED <<account, page, memory, stored, asked, storage, holder>>
    BY <1>5 DEF Join!AcceptServed, Join!InviteGone
  <2>a. PutByOK' /\ PickedUp
    BY <1>a, <1>c, <2>1
  <2>2. PageOK'
    BY <1>1, <2>1 DEF PageOK, BrowserOK, AsksOK, NamedOK, RanFor, Join!Now
  <2>3. CASE Join!InviteGone
    BY <1>1, <1>b, <2>1, <2>2, <2>3, <2>a DEF Join!InviteGone, JoinInv, ServerOK
  <2>4. CASE Join!AcceptServed
    <3>1. PICK a \in accepts, got \in {"ok", "error"} :
            /\ accepts' = (accepts \ {a}) \cup {[a EXCEPT !.got = got]}
            /\ \/ /\ a.as \in Joiners /\ members' = members \cup {<<a.token, a.as>>}
                  /\ \E s \in {"gone", "used"} : invite' = [invite EXCEPT ![a.token] = s]
               \/ UNCHANGED <<invite, members>>
      BY <2>4 DEF Join!AcceptServed, Join!server
    <3>2. a \in [token: Tokens, as: Sessions, got: {"nothing", "ok", "error"}]
      BY <1>1 DEF ServerOK
    <3>3. [a EXCEPT !.got = got] \in [token: Tokens, as: Sessions, got: {"nothing", "ok", "error"}]
      BY <3>2
    <3>4. members' \subseteq Tokens \X Joiners /\ invite' \in [Tokens -> {"open", "used", "gone"}]
      BY <1>1, <3>1, <3>2 DEF ServerOK
    <3> QED BY <1>1, <1>b, <2>1, <2>2, <2>a, <3>1, <3>3, <3>4 DEF JoinInv, ServerOK
  <2> QED BY <1>5, <2>3, <2>4
<1> QED BY <1>2, <1>3, <1>4, <1>5

Box(x) == x = [page |-> x.page, memory |-> x.memory, stored |-> x.stored, asked |-> x.asked]

\* What was put by is forgotten, nothing else.
LEMMA Forgets ==
    ASSUME NEW x, Box(x)
    PROVE  Join!Forgotten(x) = [page |-> x.page, memory |-> Join!NoPending, stored |-> Join!NoPending, asked |-> x.asked]
<1> DEFINE half == [x EXCEPT !.memory = Join!NoPending]
<1>1. Join!Forgotten(x) = [half EXCEPT !.stored = Join!NoPending]
  BY DEF Join!Forgotten
<1>2. half = [page |-> x.page, memory |-> Join!NoPending, stored |-> x.stored, asked |-> x.asked]
  BY DEF Box
<1> HIDE DEF half
<1> QED BY <1>1, <1>2

LEMMA PreviewStep ==
    ASSUME JoinInv, Join!PreviewAnswered
    PROVE  JoinInv' /\ PickedUp
<1>1. PageOK /\ PutByOK /\ account \in Sessions /\ account' = account
  BY DEF JoinInv, ServerOK, Join!PreviewAnswered
<1>2. PICK r \in asked :
        LET b == [Join!Now EXCEPT !.asked = @ \ {r}]
        IN \/ Join!Becomes(Join!Settle([b EXCEPT !.page.status = "confirm",
                                               !.page.named = [token |-> r.token, for |-> r.for]], FALSE))
           \/ Join!Becomes(Join!Settle([Join!Forgotten(b) EXCEPT !.page.status = "invalid"], FALSE))
  BY DEF Join!PreviewAnswered
<1> DEFINE b == [Join!Now EXCEPT !.asked = @ \ {r}]
           name == [token |-> r.token, for |-> r.for]
           p(ss, status, n) == [page EXCEPT !.session = ss, !.status = status, !.named = n]
<1>3. b = [page |-> page, memory |-> memory, stored |-> stored, asked |-> asked \ {r}]
  BY DEF Join!Now, Join!B
<1>4. /\ r \in Previews /\ r.token \in Tokens /\ r.for \in Joiners /\ page.ran = [token |-> r.token, session |-> r.for]
      /\ page.status # "away" /\ name \in [token: Links, for: Sessions] /\ asked \ {r} \in SUBSET asked
  <2>1. r \in Previews /\ page.ran = [token |-> r.token, session |-> r.for]
    BY <1>1, PageParts
  <2> QED BY <1>1, <2>1 DEF Previews, Links, Sessions, PageOK
<1>5. \/ Join!Becomes(Join!Settle(Join!B(p(page.session, "confirm", name), memory, stored, asked \ {r}), FALSE))
      \/ Join!Becomes(Join!Settle(Join!B(p(page.session, "invalid", page.named), Join!NoPending, Join!NoPending,
                                         asked \ {r}), FALSE))
  <2>1. [b EXCEPT !.page.status = "confirm", !.page.named = name]
          = Join!B(p(page.session, "confirm", name), memory, stored, asked \ {r})
    <3> DEFINE one == [page EXCEPT !.status = "confirm"]
               half == [b EXCEPT !.page.status = "confirm"]
    <3>1. [one EXCEPT !.named = name] = p(page.session, "confirm", name)
      BY <1>1, PageParts DEF Pages
    <3> HIDE DEF name, b, p
    <3>2. half = [page |-> one, memory |-> memory, stored |-> stored, asked |-> asked \ {r}]
      BY <1>3 DEF one
    <3> HIDE DEF one
    <3>3. [b EXCEPT !.page.status = "confirm", !.page.named = name] = [half EXCEPT !.page.named = name]
      OBVIOUS
    <3> HIDE DEF half
    <3>4. [half EXCEPT !.page.named = name]
            = [page |-> [one EXCEPT !.named = name], memory |-> memory, stored |-> stored, asked |-> asked \ {r}]
      BY <3>2
    <3> QED BY <3>1, <3>3, <3>4 DEF Join!B
  <2>2. [Join!Forgotten(b) EXCEPT !.page.status = "invalid"]
          = Join!B(p(page.session, "invalid", page.named), Join!NoPending, Join!NoPending, asked \ {r})
    <3>1. [page EXCEPT !.status = "invalid"] = p(page.session, "invalid", page.named)
      BY <1>1, PageParts DEF Pages
    <3> HIDE DEF b, p
    <3>2. Join!Forgotten(b) = [page |-> page, memory |-> Join!NoPending, stored |-> Join!NoPending, asked |-> asked \ {r}]
      BY <1>3, Forgets DEF Box
    <3> QED BY <3>1, <3>2 DEF Join!B
  <2> HIDE DEF b, p
  <2> QED BY <1>2, <2>1, <2>2 DEF b
<1>6. {"confirm", "invalid"} \subseteq Join!Statuses \ {"away"}
  BY DEF Join!Statuses
<1>8. storage' = storage /\ (storage => memory \in {Join!NoPending, stored})
  BY <1>1 DEF PutByOK, Join!PreviewAnswered
<1>7. PageOK' /\ PutByOK' /\ PickedUp
  <2>1. CASE Join!Becomes(Join!Settle(Join!B(p(page.session, "confirm", name), memory, stored, asked \ {r}), FALSE))
    <3>1. page.ran.session \in Joiners /\ page.ran = [token |-> name.token, session |-> name.for]
      BY <1>4
    <3>2. page.session \in Sessions /\ memory \in PutBy /\ stored \in PutBy /\ "confirm" \in Join!Statuses \ {"away"}
      BY <1>1, <1>6, BrowserFields, PageParts
    <3>3. name \in [token: Links, for: Sessions]
      BY <1>4
    <3> HIDE DEF name
    <3> QED BY <1>1, <1>4, <1>8, <2>1, <3>1, <3>2, <3>3, PageGoesOn
  <2>2. CASE Join!Becomes(Join!Settle(Join!B(p(page.session, "invalid", page.named), Join!NoPending, Join!NoPending,
                                             asked \ {r}), FALSE))
    BY <1>1, <1>4, <1>6, <1>8, <2>2, BrowserFields, PageParts, PageGoesOn
  <2> QED BY <1>5, <2>1, <2>2
<1>9. BoundsOK'
  <2>1. BoundsOK /\ (UNCHANGED bounds \/ Join!Counted("lost", Lost))
    BY DEF JoinInv, Join!PreviewAnswered
  <2>2. CASE UNCHANGED bounds
    BY <2>1, <2>2 DEF BoundsOK
  <2> QED BY <2>1, <2>2, Counts
<1> QED BY <1>1, <1>7, <1>9 DEF JoinInv, ServerOK, Join!PreviewAnswered, Join!server

LEMMA ConfirmStep ==
    ASSUME JoinInv, Join!Confirm
    PROVE  JoinInv' /\ PickedUp
<1> DEFINE p == [page EXCEPT !.session = page.session, !.status = "accepting", !.named = page.named]
<1>1. PageOK /\ PutByOK /\ account \in Sessions /\ account' = account /\ page.token \in Tokens
      /\ page.status # "away" /\ storage' = storage /\ (storage => memory \in {Join!NoPending, stored})
  BY BrowserFields DEF JoinInv, PutByOK, ServerOK, Join!Confirm, Links
<1>2. [Join!Now EXCEPT !.page.status = "accepting"] = Join!B(p, memory, stored, asked)
  <2>1. [Join!Now EXCEPT !.page.status = "accepting"]
          = [page |-> [page EXCEPT !.status = "accepting"], memory |-> memory, stored |-> stored, asked |-> asked]
    BY <1>1, BrowserFields
  <2>2. [page EXCEPT !.status = "accepting"] = p
    BY <1>1, PageParts DEF Pages
  <2> QED BY <2>1, <2>2 DEF Join!B
<1>3. Join!Becomes(Join!Settle(Join!B(p, memory, stored, asked), FALSE))
  BY <1>2 DEF Join!Confirm
<1>4. "accepting" \in Join!Statuses \ {"away"}
  BY DEF Join!Statuses
<1>5. PageOK' /\ PutByOK' /\ PickedUp
  BY <1>1, <1>3, <1>4, BrowserFields, PageParts, PageGoesOn
<1> QED BY <1>1, <1>5 DEF JoinInv, ServerOK, BoundsOK, Join!Confirm, Join!server

LEMMA AcceptAnsweredStep ==
    ASSUME JoinInv, Join!AcceptAnswered
    PROVE  JoinInv' /\ PickedUp
<1>1. PageOK /\ PutByOK /\ account \in Sessions /\ account' = account
  BY DEF JoinInv, ServerOK, Join!AcceptAnswered
<1>2. PICK a \in accepts :
        Join!Becomes(IF Join!Mounted THEN Join!Settle(Join!AcceptEnds(a), FALSE)
                     ELSE [Join!Forgotten(Join!Now) EXCEPT !.page = page])
  BY DEF Join!AcceptAnswered
<1> DEFINE gone(n) == Join!Forgotten([Join!Now EXCEPT !.page = n])
<1>3. ASSUME NEW n
      PROVE  gone(n) = [page |-> n, memory |-> Join!NoPending, stored |-> Join!NoPending, asked |-> asked]
  <2>1. [Join!Now EXCEPT !.page = n] = [page |-> n, memory |-> memory, stored |-> stored, asked |-> asked]
    BY <1>1, BrowserFields
  <2> QED BY <2>1, Forgets DEF Box
<1>4. CASE page.status # "away"
  <2> DEFINE status == IF a.got = "ok" THEN "done" ELSE "error"
             p == [page EXCEPT !.session = page.session, !.status = status, !.named = page.named]
  <2>1. Join!AcceptEnds(a) = gone([page EXCEPT !.status = status])
    <3>1. [Join!Now EXCEPT !.page.status = status] = [Join!Now EXCEPT !.page = [page EXCEPT !.status = status]]
      BY <1>1, BrowserFields
    <3> QED BY <3>1 DEF Join!AcceptEnds
  <2>2. [page EXCEPT !.status = status] = p
    BY <1>1, PageParts DEF Pages
  <2> HIDE DEF gone
  <2>3. Join!Becomes(Join!Settle(Join!B(p, Join!NoPending, Join!NoPending, asked), FALSE))
    BY <1>2, <1>3, <1>4, <2>1, <2>2 DEF Join!Mounted, Join!B
  <2>4. status \in Join!Statuses \ {"away"} /\ status # "confirm" /\ status # "need-login"
    BY DEF Join!Statuses
  <2>5. storage' = storage
    BY DEF Join!AcceptAnswered
  <2> HIDE DEF status
  <2>6. PageOK' /\ PutByOK' /\ PickedUp
    BY <1>1, <1>4, <2>3, <2>4, <2>5, BrowserFields, PageParts, PageGoesOn
  <2> QED BY <1>1, <2>6 DEF JoinInv, ServerOK, BoundsOK, Join!AcceptAnswered, Join!server
<1>5. CASE page.status = "away"
  <2>1. [Join!Forgotten(Join!Now) EXCEPT !.page = page] = gone(page)
    <3>1. Join!Forgotten(Join!Now) = [page |-> page, memory |-> Join!NoPending, stored |-> Join!NoPending, asked |-> asked]
      BY <1>1, BrowserFields, Forgets DEF Box
    <3> HIDE DEF gone
    <3> QED BY <1>3, <3>1
  <2> HIDE DEF gone
  <2>2. UNCHANGED <<page, holder, storage>> /\ memory' = Join!NoPending /\ stored' = Join!NoPending /\ asked' = {}
    BY <1>1, <1>2, <1>3, <1>5, <2>1 DEF Join!Mounted, Join!Becomes, PageOK, Join!AcceptAnswered
  <2>3. PageOK'
    BY <1>1, <1>5, <2>2, PageParts DEF PageOK, BrowserOK, Browsers, AsksOK, NamedOK, RanFor, Join!Now, Join!B
  <2>4. PutByOK'
    BY <1>1, <1>5, <2>2 DEF PutByOK
  <2>5. PickedUp
    BY <1>1, <1>5, <2>2 DEF PutByOK, PickedUp
  <2> QED BY <1>1, <2>3, <2>4, <2>5 DEF JoinInv, ServerOK, BoundsOK, Join!AcceptAnswered, Join!server
<1> QED BY <1>4, <1>5

LEMMA JoinInitInv == Join!Init => JoinInv
<1> SUFFICES ASSUME Join!Init
             PROVE  JoinInv
  OBVIOUS
<1>1. /\ Join!Page(NoToken, NoSession, "away") \in Pages /\ Join!Page(NoToken, NoSession, "away").status = "away"
      /\ Join!Page(NoToken, NoSession, "away").token = NoToken
      /\ Join!Page(NoToken, NoSession, "away").ran.token = NoToken
  BY DEF Join!Page, Pages, Join!Unmounted, Join!Statuses, Links, Sessions
<1>2. PageOK
  BY <1>1 DEF Join!Init, PageOK, BrowserOK, Browsers, AsksOK, NamedOK, PutBy, Join!Now, Join!B
<1>3. ServerOK
  BY DEF Join!Init, ServerOK, Sessions
<1>4. PutByOK
  BY <1>1 DEF Join!Init, PutByOK
<1>5. BoundsOK
  BY DEF Join!Init, BoundsOK
<1> QED BY <1>2, <1>3, <1>4, <1>5 DEF JoinInv

\* An invitation that was put by stays until the login is over.
LEMMA LoginKeeps ==
    ASSUME JoinInv, Join!Next
    PROVE  LoginReturns
<1> SUFFICES ASSUME page.status = "need-login", page'.url = NoToken, bounds'.loads # bounds.loads, storage,
                    stored # Join!NoPending => ~stored.old
             PROVE  page'.token = page.token
  BY DEF LoginReturns
<1>1. PageOK /\ PutByOK /\ BoundsOK /\ account \in Sessions
  BY DEF JoinInv, ServerOK
<1>2. Join!OpenLink \/ Join!LoadAgain \/ Join!Login
  <2>1. CASE UNCHANGED bounds
    BY <2>1
  <2>2. \A f, max : Join!Counted(f, max) => f = "loads"
    BY <1>1, Counts
  <2> QED BY <2>1, <2>2
      DEF Join!Next, Join!SessionKnown, Join!Refresh, Join!Rerender, Join!ChangeAccount, Join!Age,
          Join!PreviewAnswered, Join!Confirm, Join!Decline, Join!Leave, Join!AcceptServed, Join!AcceptAnswered,
          Join!InviteGone
<1>3. account' \in Sessions /\ \E url \in Links, u \in Sessions : Join!Load(url, u)
  BY <1>1, <1>2, BrowserFields DEF Join!OpenLink, Join!LoadAgain, Join!Login, Links, Sessions
<1>4. PICK url \in Links, u \in Sessions : Join!Load(url, u)
  BY <1>3
<1> DEFINE p == Join!Page(url, u, "idle")
           b == Join!B(p, Join!NoPending, stored, {})
           s == Join!Settle(b, FALSE)
<1>5. p \in Pages /\ p.status = "idle" /\ b.page = p /\ b.memory = Join!NoPending /\ b.stored = stored
  BY <1>1, PageParts DEF Join!Page, Pages, Join!Unmounted, Join!Statuses, Join!B
<1>6. BrowserOK(b)
  BY <1>1, <1>5, PageParts DEF BrowserOK, Browsers, AsksOK, NamedOK, Join!B
<1>7. page' = s.page
  BY <1>4 DEF Join!Load, Join!Becomes
<1> HIDE DEF b
<1>8. Settled(b, s)
  BY <1>3, <1>6, SettleIs
<1> HIDE DEF s
<1>9. b.page.url = NoToken /\ \E r : Took(b, r) /\ r.page.token = s.page.token
  BY <1>7, <1>8 DEF Settled
<1>10. stored # Join!NoPending /\ stored.token = page.token /\ page.token # NoToken /\ stored.user = NoSession
  BY <1>1 DEF PutByOK, Join!NoPending, Join!Durable
<1>11. \A w : Join!Usable(stored, w) /\ ~Join!Usable(Join!NoPending, w)
  BY <1>10 DEF Join!Usable, Join!NoPending
<1> QED BY <1>5, <1>7, <1>9, <1>10, <1>11 DEF Took

LEMMA JoinNextInv ==
    ASSUME JoinInv, [Join!Next]_(Join!vars)
    PROVE  JoinInv' /\ PickedUp /\ LoginReturns
<1>1. CASE UNCHANGED Join!vars
  <2>1. PageOK'
    BY <1>1 DEF Join!vars, JoinInv, PageOK, BrowserOK, AsksOK, NamedOK, RanFor, Join!Now
  <2>2. ServerOK' /\ PutByOK' /\ BoundsOK'
    BY <1>1 DEF Join!vars, JoinInv, ServerOK, PutByOK, BoundsOK
  <2>3. PickedUp /\ LoginReturns
    BY <1>1 DEF Join!vars, JoinInv, PutByOK, PickedUp, LoginReturns, Join!Durable
  <2> QED BY <2>1, <2>2, <2>3 DEF JoinInv
<1>2. CASE Join!Next
  BY <1>2, LoginKeeps, LoadSteps, SessionKnownStep, RenderStep, QuietSteps, PreviewStep, ConfirmStep, AcceptAnsweredStep DEF Join!Next
<1> QED BY <1>1, <1>2

LEMMA JoinSpecInv == Join!Spec => []JoinInv
<1>1. Join!Init => JoinInv
  BY JoinInitInv
<1>2. JoinInv /\ [Join!Next]_(Join!vars) => JoinInv'
  BY JoinNextInv
<1> QED BY <1>1, <1>2, PTL DEF Join!Spec

\* The page asks to confirm only what was previewed for the account it shows.
LEMMA PageConfirms == JoinInv => Join!TypeOK /\ Join!ConfirmIsOfPage
<1> SUFFICES ASSUME JoinInv
             PROVE  Join!TypeOK /\ Join!ConfirmIsOfPage
  OBVIOUS
<1>1. PageOK /\ ServerOK /\ page \in Pages /\ memory \in PutBy /\ stored \in PutBy /\ NamedOK(page)
  BY PageParts DEF JoinInv
<1>2. Join!TypeOK
  <2>1. page.session \in Sessions /\ page.status \in Join!Statuses /\ page.token \in Links
    BY <1>1 DEF Pages
  <2>2. \A q \in PutBy : q = Join!NoPending \/ (q.token \in Tokens /\ q.user \in Joiners \cup {NoSession})
    BY DEF PutBy
  <2> QED BY <1>1, <2>1, <2>2 DEF Join!TypeOK, ServerOK, Sessions, Links
<1>3. Join!ConfirmIsOfPage
  <2>1. page.named \in [token: Links, for: Sessions]
    BY <1>1 DEF Pages
  <2>2. page.status = "confirm" => page.ran = [token |-> page.token, session |-> page.session]
    BY <1>1 DEF PageOK, RanFor
  <2> QED BY <1>1, <2>1, <2>2 DEF Join!ConfirmIsOfPage, NamedOK
<1> QED BY <1>2, <1>3

-----------------------------------------------------------------------------
(* The three together; they run apart, as they do in MCFamily.              *)

VARIABLE part     \* the component a behaviour is of

Sharing ==
    /\ [][FALSE]_part
    /\ \/ part \in {"devices", "same", "switch"} /\ Spec
       \/ part = "join" /\ Join!Spec
       \/ part = "flag" /\ Flag!Spec

SharingAssumption == ShareConstants /\ Flag!MaintenanceAssumption

\* A screen follows what was done: once everything was answered a device shows
\* its own last change, the reload after an RPC is never overtaken by an earlier
\* one, also if the account changes on the device (useFamilyShare.ts 85-153);
\* the page of an invitation asks to confirm
\* only what was previewed for the account it shows, although accounts change
\* and previews answer late (FamilyJoinPage.tsx 168-189); a tab in view always
\* has its next read of the maintenance flag scheduled or in flight and none
\* out of view, answers are applied in the order they were asked for, and the
\* control shows what it sent only while its own request is out
\* (useMaintenanceMode.tsx 43-117, DashboardPage.tsx 197-234).
ScreenFollows ==
    /\ part = "devices" => TypeOK
    /\ part \in {"devices", "same", "switch"} => ReadYourWrites
    /\ part = "join" => Join!TypeOK /\ Join!ConfirmIsOfPage
    /\ part = "flag" => Flag!MaintenanceTypeOK /\ Flag!ScreenFollows

\* Nothing changes but what was meant.  Whatever accounts, devices, failures and
\* lost answers there are, what a membership shares changes only by a sharing
\* button of its own person, and although each button sends both values
\* (FamilyShareSheet.tsx 232, 239; set_family_share writes both), only the one
\* that was pressed changes, with these exceptions: the sheet says that a load
\* failed and still offers its buttons; since what it shows was read another
\* device of the account has shared, or this one with an answer that was lost; or
\* the sheet shows another membership than the caller's own there now, one of the
\* account before or one since taken away and accepted anew.  A device's own
\* calls are no exception: each awaits its reload before the buttons are free.
\* A failed read of the maintenance flag, or anything else but an answer that
\* says off, does not end maintenance in the tab (maintenance.ts 78-79,
\* useMaintenanceMode.tsx 48-50).  An invitation one account put by is not
\* offered to another that has not opened its link (pendingBelongsToUser,
\* CHANGELOG.md 338), and who goes through the login on the page comes back to
\* it, if the browser keeps it and ten minutes have not passed
\* (FamilyJoinPage.tsx 130-134).
NothingElseChanges ==
    [][/\ part \in {"devices", "same", "switch"} => OnlyThePressed
       /\ part = "flag" /\ dbOn /\ ~dbOn' => Flag!EndsByAnswer
       /\ part = "join" => PickedUp /\ LoginReturns]_<<part, vars, Join!vars, Flag!vars>>

\* For any people, groups, devices, invitations and bounds: devices show what
\* they did, the page of an invitation confirms what it previewed, the flag is
\* followed.
THEOREM ScreensFollow == SharingAssumption => (Sharing => []ScreenFollows)
<1> SUFFICES ASSUME SharingAssumption
             PROVE  Sharing => []ScreenFollows
  OBVIOUS
<1> DEFINE shared == part \in {"devices", "same", "switch"}
<1>1. /\ shared => part # "join" /\ part # "flag"
      /\ part = "join" => ~shared /\ part # "flag"
      /\ part = "flag" => ~shared /\ part # "join"
      /\ ~shared /\ [FALSE]_part => ~shared'
      /\ part # "join" /\ [FALSE]_part => (part # "join")'
      /\ part # "flag" /\ [FALSE]_part => (part # "flag")'
  OBVIOUS
<1>2. /\ TypeOK /\ ReadYourWrites /\ part # "join" /\ part # "flag" => ScreenFollows
      /\ JoinInv /\ ~shared /\ part # "flag" => ScreenFollows
      /\ Flag!MaintenanceTypeOK /\ Flag!ScreenFollows /\ ~shared /\ part # "join" => ScreenFollows
  BY PageConfirms DEF ScreenFollows
<1>3. /\ Spec => [](TypeOK /\ ReadYourWrites)
      /\ Join!Spec => []JoinInv
      /\ Flag!Spec => [](Flag!MaintenanceTypeOK /\ Flag!ScreenFollows)
  BY TypeCorrect, OwnWritesAreRead, JoinSpecInv, FlagIsFollowed, PTL DEF SharingAssumption
<1>4. Sharing <=> /\ [][FALSE]_part
                  /\ \/ shared /\ Spec
                     \/ part = "join" /\ Join!Spec
                     \/ part = "flag" /\ Flag!Spec
  BY DEF Sharing
<1> HIDE DEF shared
<1> QED BY <1>1, <1>2, <1>3, <1>4, PTL

\* For any people, groups, devices, accounts on them, failures, invitations and
\* bounds: nothing changes but what was meant.
THEOREM NothingElseIsChanged == SharingAssumption => (Sharing => NothingElseChanges)
<1> SUFFICES ASSUME SharingAssumption
             PROVE  Sharing => NothingElseChanges
  OBVIOUS
<1> DEFINE shared == part \in {"devices", "same", "switch"}
           Meant == /\ part \in {"devices", "same", "switch"} => OnlyThePressed
                    /\ part = "flag" /\ dbOn /\ ~dbOn' => Flag!EndsByAnswer
                    /\ part = "join" => PickedUp /\ LoginReturns
<1>1. /\ shared => part # "join" /\ part # "flag"
      /\ part = "join" => ~shared /\ part # "flag"
      /\ part = "flag" => ~shared /\ part # "join"
      /\ ~shared /\ [FALSE]_part => ~shared'
      /\ part # "join" /\ [FALSE]_part => (part # "join")'
      /\ part # "flag" /\ [FALSE]_part => (part # "flag")'
  OBVIOUS
<1>2. [OnlyThePressed]_vars /\ IInv /\ part # "join" /\ part # "flag" => Meant
  <2>1. IInv => \A r, s \in db.rows : r.id = s.id => r = s
    BY DEF IInv, Sound
  <2> QED BY <2>1 DEF vars, OnlyThePressed
<1>3. JoinInv /\ [Join!Next]_(Join!vars) /\ ~shared /\ part # "flag" => Meant
  BY JoinNextInv
<1>4. [dbOn /\ ~dbOn' => Flag!EndsByAnswer]_(Flag!vars) /\ ~shared /\ part # "join" => Meant
  BY DEF Flag!vars, Flag!provider
<1>5. /\ Spec => [][OnlyThePressed]_vars
      /\ Spec => []IInv
      /\ Join!Spec => []JoinInv
      /\ Flag!Spec => [][dbOn /\ ~dbOn' => Flag!EndsByAnswer]_(Flag!vars)
  BY OnlyPressedChanges, SpecIInv, JoinSpecInv, MaintenanceIsNotDropped, PTL
     DEF SharingAssumption, Flag!NothingElseChanges
<1>6. Sharing <=> /\ [][FALSE]_part
                  /\ \/ shared /\ Spec
                     \/ part = "join" /\ Join!Spec
                     \/ part = "flag" /\ Flag!Spec
  BY DEF Sharing
<1>7. Join!Spec => [][Join!Next]_(Join!vars)
  BY PTL DEF Join!Spec
<1>8. NothingElseChanges <=> [][Meant]_<<part, vars, Join!vars, Flag!vars>>
  BY DEF NothingElseChanges
<1> HIDE DEF shared, Meant
<1> QED BY <1>1, <1>2, <1>3, <1>4, <1>5, <1>6, <1>7, <1>8, PTL
============================================================================
