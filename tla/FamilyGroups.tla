---- MODULE FamilyGroups ----
(***************************************************************************)
(* The groups of family sharing as the database keeps them: what the RPCs  *)
(* create_family_group ... delete_family_group do, for a caller that is    *)
(* already authenticated. A group has rows: its owner, members, and open   *)
(* invitations, which are rows without a user. An answer of an RPC is      *)
(* [ok, db, val]. accept_family_invite locks its row and is two steps.     *)
(***************************************************************************)
EXTENDS Integers, FiniteSets
CONSTANTS Users,      \* accounts
          Anonymous,  \* those of them that are guests
          Nobody,     \* no account
          Groups,     \* ids a group may get
          MaxRows     \* bound: rows ever made

FamilyConstants == Anonymous \subseteq Users /\ Nobody \notin Users /\ MaxRows \in Nat

Ids == 1..MaxRows
Human(u) == u \in Users \ Anonymous
Row == [id : Ids, group : Groups, user : Users \cup {Nobody}, owner : BOOLEAN,
        fav : BOOLEAN, note : BOOLEAN, expired : BOOLEAN]

Active(r) == r.user # Nobody
Mine(db, u, g) == {r \in db.rows : r.group = g /\ r.user = u}
Owns(db, u, g) == g \in DOMAIN db.owner /\ db.owner[g] = u
Refused(db) == [ok |-> FALSE, db |-> db, val |-> {}]
Done(db) == [ok |-> TRUE, db |-> db, val |-> {}]
NewRow(db, g, u, own) == [id |-> db.next, group |-> g, user |-> u, owner |-> own,
                          fav |-> FALSE, note |-> FALSE, expired |-> FALSE]

\* What a caller may read: his own row and those of the groups he is in.
Visible(db, u) ==
  IF Human(u) THEN {r \in db.rows : r.user = u \/ Mine(db, u, r.group) # {}} ELSE {}

CreateGroup(db, u) ==
  LET free == {g \in Groups : g \notin DOMAIN db.owner}
  IN IF ~Human(u) \/ free = {} \/ db.next > MaxRows THEN Refused(db)
     ELSE LET g == CHOOSE x \in free : TRUE
          IN Done([owner |-> [x \in DOMAIN db.owner \cup {g} |-> IF x = g THEN u ELSE db.owner[x]],
                   rows |-> db.rows \cup {NewRow(db, g, u, TRUE)}, next |-> db.next + 1])

\* Expired invitations of the group are cleared away first.
CreateInvite(db, u, g) ==
  IF ~Human(u) \/ ~Owns(db, u, g) \/ db.next > MaxRows THEN Refused(db)
  ELSE Done([db EXCEPT !.rows = {r \in @ : ~(r.group = g /\ ~Active(r) /\ r.expired)}
                                  \cup {NewRow(db, g, Nobody, FALSE)},
                       !.next = @ + 1])

SetShare(db, u, g, fav, note) ==
  IF ~Human(u) \/ Mine(db, u, g) = {} THEN Refused(db)
  ELSE Done([db EXCEPT !.rows = {IF r.group = g /\ r.user = u
                                 THEN [r EXCEPT !.fav = fav, !.note = note] ELSE r : r \in @}])

Leave(db, u, g) ==
  IF ~Human(u) \/ Mine(db, u, g) = {} \/ \E r \in Mine(db, u, g) : r.owner THEN Refused(db)
  ELSE Done([db EXCEPT !.rows = @ \ Mine(db, u, g)])

Remove(db, u, id) ==
  IF Human(u) /\ \E r \in db.rows : r.id = id /\ Owns(db, u, r.group) /\ ~r.owner
  THEN Done([db EXCEPT !.rows = {r \in @ : r.id # id}])
  ELSE Refused(db)

DeleteGroup(db, u, g) ==
  IF ~Human(u) \/ ~Owns(db, u, g) THEN Refused(db)
  ELSE Done([db EXCEPT !.owner = [x \in DOMAIN @ \ {g} |-> @[x]], !.rows = {r \in @ : r.group # g}])

\* Whose favourites and whose notes the caller is shown.
SharedFavorites(db, u, g) ==
  IF ~Human(u) \/ Mine(db, u, g) = {} THEN Refused(db)
  ELSE [Done(db) EXCEPT !.val = {r.user : r \in {s \in db.rows : s.group = g /\ Active(s) /\ s.fav}} \ {u}]
SharedNotes(db, u, g) ==
  IF ~Human(u) \/ Mine(db, u, g) = {} THEN Refused(db)
  ELSE [Done(db) EXCEPT !.val = {r.user : r \in {s \in db.rows : s.group = g /\ Active(s) /\ s.note}} \ {u}]

\* Wrong on purpose: an invitation that was used is accepted again.
AcceptableAgain(db, u, id) ==
  Human(u) /\ \E r \in db.rows : r.id = id /\ ~r.owner /\ r.user # u /\ ~r.expired

\* The invitation a caller may accept; the select locks its row.
Acceptable(db, u, id) ==
  Human(u) /\ \E r \in db.rows : r.id = id /\ ~Active(r) /\ ~r.expired

\* Wrong on purpose: the table has no unique (group_id, user_id).
AcceptNoUnique(db, u, id, member) ==
  LET row == CHOOSE r \in db.rows : r.id = id
  IN IF member THEN Done([db EXCEPT !.rows = @ \ {row}])
     ELSE Done([db EXCEPT !.rows = (@ \ {row}) \cup {[row EXCEPT !.user = u]}])

\* What happens to it: a member's invitation is dropped, and the unique
\* (group_id, user_id) refuses a second membership.
Accept(db, u, id, member) ==
  LET row == CHOOSE r \in db.rows : r.id = id
  IN CASE member -> Done([db EXCEPT !.rows = @ \ {row}])
       [] ~member /\ Mine(db, u, row.group) # {} -> Refused(db)
       [] OTHER -> Done([db EXCEPT !.rows = (@ \ {row}) \cup {[row EXCEPT !.user = u]}])
====
