---- MODULE MCSchoolSite ----
EXTENDS SchoolSite
\* Two prefectures; a row is given by what differs from an ordinary one.
MCMunis == [p \in Prefs |-> IF p = "a" THEN {"c1", "c2"} ELSE {"c1"}]
Ordinary == [pref |-> "a", city |-> "c1", addr |-> "c1", at |-> 0, url |-> TRUE,
             corr |-> FALSE, dept |-> TRUE, pred |-> Nothing]
MCKinds == {Ordinary,
            [Ordinary EXCEPT !.at = 5, !.pred = 1],
            [Ordinary EXCEPT !.city = Nothing, !.addr = "c2", !.at = 90, !.url = FALSE],
            [Ordinary EXCEPT !.city = "odd", !.addr = "list", !.at = 2],
            [Ordinary EXCEPT !.city = Nothing, !.addr = "list", !.at = 1, !.corr = TRUE, !.dept = FALSE],
            [Ordinary EXCEPT !.pref = "b", !.at = 200],
            [Ordinary EXCEPT !.corr = TRUE, !.dept = FALSE],
            [Ordinary EXCEPT !.at = Nowhere, !.pred = 2],
            [Ordinary EXCEPT !.pref = "b", !.city = "c2", !.addr = "c1", !.at = 201, !.pred = 1]}

\* A file goes wrong only in builds of the first three schools.
Faulty == DOMAIN rows \subseteq {1, 2, 3} /\ GoWrong
BoundedNext == GenerateData \/ RenderPages \/ Faulty \/ Verify
BoundedSpec == Init /\ [][BoundedNext]_vars

ASSUME SiteAssumption
====
