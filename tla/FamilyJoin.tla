---- MODULE FamilyJoin ----
(***************************************************************************)
(* The page behind an invitation link, /family/join, in one browser: the   *)
(* token from the link or put by for the way through a login, the effect   *)
(* that previews it, the confirmation and the acceptance. The account may  *)
(* change or be refreshed at any moment, and answers may come late.        *)
(***************************************************************************)
EXTENDS Integers, FiniteSets
CONSTANTS Users,     \* accounts with a login
          Guest,     \* an anonymous account
          Nobody,    \* no session
          Tokens,    \* invitations, each of a group of its own
          NoToken,
          Accounts,  \* bound: changes of account from elsewhere
          Refreshes, \* bound: refreshes of the session, renders
          Loads,     \* bound: links opened, reloads and logins
          Lost       \* bound: requests that fail
VARIABLES account,   \* whose session the browser holds
          storage,   \* whether it has a localStorage
          page,      \* the page as it was last rendered
          memory, stored,          \* the invitation put by: in the tab, in localStorage
          asked, accepts,          \* previews and acceptances that are out
          invite, members,         \* the server's invitations and memberships
          ended, holder,           \* history: acceptances finished, who had a token last
          bounds
vars == <<account, storage, page, memory, stored, asked, accepts, invite, members, ended, holder, bounds>>

NoPending == [token |-> NoToken]
Pending(t, u) == [token |-> t, user |-> u, old |-> FALSE]
Durable(s) == IF s \in Users THEN s ELSE Nobody

\* What parsePendingInviteValue and pendingBelongsToUser let through.
Usable(q, u) == q.token # NoToken /\ ~q.old /\ q.user \in {Nobody, u}

\* A rendering takes the token of the link, else the one put by; one that is
\* too old or somebody else's is thrown away in doing so.
Rendered(b) ==
  LET u == Durable(b.page.session)
      own == Usable(b.memory, u)
      kept == Usable(b.stored, u)
  IN CASE b.page.url # NoToken -> [b EXCEPT !.page.token = b.page.url]
       [] b.page.url = NoToken /\ own -> [b EXCEPT !.page.token = b.memory.token]
       [] b.page.url = NoToken /\ ~own /\ kept -> [b EXCEPT !.page.token = b.stored.token, !.memory = b.stored]
       [] OTHER -> [b EXCEPT !.page.token = NoToken, !.memory = NoPending, !.stored = NoPending]

\* Wrong on purpose: a preview that is out is still taken.
StillTaken(rs) == rs

Cancelled(rs) == {[r EXCEPT !.live = FALSE] : r \in rs}

Saved(b) == Pending(b.page.token, Durable(b.page.session))

\* The effect puts the token by, strips the address and asks for a preview.
Effect(b) ==
  LET s == b.page.session
      by == [b EXCEPT !.memory = Saved(b), !.stored = IF storage THEN Saved(b) ELSE @,
                      !.page.address = NoToken, !.asked = Cancelled(@)]
  IN CASE b.page.token = NoToken -> [b EXCEPT !.page.status = "no-token", !.asked = Cancelled(@)]
       [] b.page.token # NoToken /\ s \notin Users -> [by EXCEPT !.page.status = "need-login"]
       [] OTHER -> [by EXCEPT !.page.status = "checking",
                              !.asked = @ \cup {[token |-> b.page.token, for |-> s, as |-> account', live |-> TRUE]}]

\* A rendering and, when what it depends on changed, its effect.
Settle(b, again) ==
  LET r == Rendered(b)
      deps == [token |-> r.page.token, session |-> r.page.session]
  IN IF again \/ deps # b.page.ran THEN Rendered(Effect([r EXCEPT !.page.ran = deps])) ELSE r

B(p, m, st, a) == [page |-> p, memory |-> m, stored |-> st, asked |-> a]
Now == B(page, memory, stored, asked)
Becomes(b) ==
  /\ page' = b.page /\ memory' = b.memory /\ stored' = b.stored
  /\ asked' = {r \in b.asked : r.live}
  /\ holder' = IF b.page.ran # page.ran /\ b.page.token # NoToken
               THEN [holder EXCEPT ![b.page.token] = Durable(b.page.session)] ELSE holder

Unmounted == [token |-> NoToken, session |-> "unmounted"]
Page(url, session, status) ==
  [url |-> url, address |-> url, session |-> session, token |-> NoToken, status |-> status,
   named |-> [token |-> NoToken, for |-> Nobody], ran |-> Unmounted]
Init == /\ account \in Users \cup {Guest, Nobody} /\ storage \in BOOLEAN
        /\ page = Page(NoToken, Nobody, "away")
        /\ memory = NoPending /\ stored = NoPending /\ asked = {} /\ accepts = {}
        /\ invite = [t \in Tokens |-> "open"] /\ members = {}
        /\ ended = {} /\ holder = [t \in Tokens |-> Nobody]
        /\ bounds = [accounts |-> 0, refreshes |-> 0, loads |-> 0, lost |-> 0]

Counted(f, max) == bounds[f] < max /\ bounds' = [bounds EXCEPT ![f] = @ + 1]
Mounted == page.status # "away"
server == <<invite, members>>

\* A page loaded anew knows no session at first, and its memory is gone.
Load(url, session) ==
  Becomes(Settle(B(Page(url, session, "idle"), NoPending, stored, {}), FALSE))
OpenLink == /\ Counted("loads", Loads)
            /\ account' = account
            /\ \E t \in Tokens : Load(t, Nobody) /\ ended' = ended \ {t}
            /\ accepts' = {}
            /\ UNCHANGED <<storage, server>>
LoadAgain == /\ Mounted /\ Counted("loads", Loads)
             /\ account' = account
             /\ Load(page.address, Nobody)
             /\ accepts' = {}
             /\ UNCHANGED <<storage, server, ended>>
\* The way through a login: a callback page takes the new session and leads
\* here, without the token.
Login == /\ page.status = "need-login" /\ Counted("loads", Loads)
         /\ \E u \in Users : account' = u /\ Load(NoToken, u)
         /\ accepts' = {}
         /\ UNCHANGED <<storage, server, ended>>

\* The page learns of the session, at first and when it changes.
SessionKnown == /\ Mounted /\ page.session # account
                /\ account' = account
                /\ Becomes(Settle([Now EXCEPT !.page.session = account], FALSE))
                /\ UNCHANGED <<storage, accepts, server, ended, bounds>>
\* A refresh is a new session object of the same account.
Refresh == /\ Mounted /\ page.session # Nobody /\ Counted("refreshes", Refreshes)
           /\ account' = account
           /\ Becomes(Settle(Now, TRUE))
           /\ UNCHANGED <<storage, accepts, server, ended>>
Rerender == /\ Mounted /\ Counted("refreshes", Refreshes)
            /\ account' = account
            /\ Becomes(Settle(Now, FALSE))
            /\ UNCHANGED <<storage, accepts, server, ended>>
ChangeAccount == /\ Counted("accounts", Accounts)
                 /\ \E u \in (Users \cup {Guest, Nobody}) \ {account} : account' = u
                 /\ UNCHANGED <<storage, page, memory, stored, asked, accepts, server, ended, holder>>
\* Ten minutes pass.
Age == /\ (memory # NoPending \/ stored # NoPending)
       /\ memory' = IF memory = NoPending THEN NoPending ELSE [memory EXCEPT !.old = TRUE]
       /\ stored' = IF stored = NoPending THEN NoPending ELSE [stored EXCEPT !.old = TRUE]
       /\ UNCHANGED <<account, storage, page, asked, accepts, server, ended, holder, bounds>>

\* preview_family_invite: an open invitation, or a used one of a group the
\* caller is a member of.
Previewed(t, u) == u \in Users /\ (invite[t] = "open" \/ (invite[t] = "used" /\ <<t, u>> \in members))
Forgotten(b) == [b EXCEPT !.memory = NoPending, !.stored = NoPending]
PreviewAnswered ==
  /\ \E r \in asked :
       LET b == [Now EXCEPT !.asked = @ \ {r}]
       IN \/ /\ Previewed(r.token, r.as)
             /\ Becomes(Settle([b EXCEPT !.page.status = "confirm",
                                         !.page.named = [token |-> r.token, for |-> r.for]], FALSE))
             /\ UNCHANGED bounds
          \/ /\ IF Previewed(r.token, r.as) THEN Counted("lost", Lost) ELSE UNCHANGED bounds
             /\ Becomes(Settle([Forgotten(b) EXCEPT !.page.status = "invalid"], FALSE))
  /\ account' = account
  /\ UNCHANGED <<storage, accepts, server, ended>>

Confirm == /\ page.status = "confirm" /\ page.token # NoToken
           /\ account' = account
           /\ Becomes(Settle([Now EXCEPT !.page.status = "accepting"], FALSE))
           /\ accepts' = accepts \cup {[token |-> page.token, as |-> account, got |-> "nothing"]}
           /\ UNCHANGED <<storage, server, ended, bounds>>
Decline == /\ page.status = "confirm"
           /\ page' = Page(NoToken, Nobody, "away")
           /\ memory' = NoPending /\ stored' = NoPending /\ asked' = {}
           /\ UNCHANGED <<account, storage, accepts, server, ended, holder, bounds>>
\* The page goes on to the favourites, or home by a button.
Leave == /\ page.status \in {"done", "no-token", "invalid", "error"}
         /\ page' = Page(NoToken, Nobody, "away") /\ asked' = {}
         /\ UNCHANGED <<account, storage, memory, stored, accepts, server, ended, holder, bounds>>

\* accept_family_invite; a member's invitation is dropped.
AcceptServed ==
  /\ \E a \in accepts :
       LET ok == a.as \in Users /\ invite[a.token] = "open"
           member == <<a.token, a.as>> \in members
           answered(got) == accepts' = (accepts \ {a}) \cup {[a EXCEPT !.got = got]}
       IN /\ a.got = "nothing"
          /\ IF ok
             THEN \/ /\ invite' = [invite EXCEPT ![a.token] = IF member THEN "gone" ELSE "used"]
                     /\ members' = members \cup {<<a.token, a.as>>}
                     /\ \/ answered("ok") /\ UNCHANGED bounds
                        \/ answered("error") /\ Counted("lost", Lost)
                  \/ answered("error") /\ Counted("lost", Lost) /\ UNCHANGED server
             ELSE answered("error") /\ UNCHANGED <<server, bounds>>
  /\ UNCHANGED <<account, storage, page, memory, stored, asked, ended, holder>>
\* Done or not, what was put by is forgotten.
AcceptEnds(a) == Forgotten([Now EXCEPT !.page.status = IF a.got = "ok" THEN "done" ELSE "error"])
AcceptAnswered ==
  /\ \E a \in accepts :
       /\ a.got # "nothing" /\ accepts' = accepts \ {a} /\ ended' = ended \cup {a.token}
       /\ account' = account
       /\ Becomes(IF Mounted THEN Settle(AcceptEnds(a), FALSE) ELSE [Forgotten(Now) EXCEPT !.page = page])
  /\ UNCHANGED <<storage, server, bounds>>

\* An invitation is taken away or expires, or somebody else uses it.
InviteGone == /\ \E t \in Tokens : invite[t] = "open" /\ \E s \in {"used", "gone"} : invite' = [invite EXCEPT ![t] = s]
              /\ UNCHANGED <<account, storage, page, memory, stored, asked, accepts, members, ended, holder, bounds>>

Next == \/ OpenLink \/ LoadAgain \/ Login \/ SessionKnown \/ Refresh \/ Rerender \/ ChangeAccount \/ Age
        \/ PreviewAnswered \/ Confirm \/ Decline \/ Leave \/ AcceptServed \/ AcceptAnswered \/ InviteGone
Spec == Init /\ [][Next]_vars
\* Requests are answered, and a page hears of its session.
FairSpec == Spec /\ WF_vars(PreviewAnswered) /\ WF_vars(AcceptServed) /\ WF_vars(AcceptAnswered)
                 /\ WF_vars(SessionKnown)

----
Statuses == {"idle", "checking", "confirm", "accepting", "done", "error", "invalid", "need-login", "no-token", "away"}
\* The variables keep their shape.
TypeOK ==
  /\ account \in Users \cup {Guest, Nobody} /\ page.session \in Users \cup {Guest, Nobody}
  /\ page.status \in Statuses /\ page.token \in Tokens \cup {NoToken}
  /\ members \subseteq Tokens \X Users /\ invite \in [Tokens -> {"open", "used", "gone"}]
  /\ \A q \in {memory, stored} : q = NoPending \/ (q.token \in Tokens /\ q.user \in Users \cup {Nobody})

\* The page asks to confirm only what was previewed for the account it shows,
\* although accounts change and previews answer late (the cancelled flag of
\* the effect, FamilyJoinPage.tsx lines 168-189).
ConfirmIsOfPage ==
  page.status = "confirm" =>
    /\ page.session \in Users
    /\ page.named = [token |-> page.token, for |-> page.session]

====
