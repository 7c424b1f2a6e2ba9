--------------------------- MODULE MaintenanceFlag ---------------------------
(***************************************************************************)
(* The runtime maintenance flag: a row of app_config, the watcher that     *)
(* carries it to an open tab (lib/maintenance.ts), the provider that keeps *)
(* the last value read, and the control of the dashboard that switches it  *)
(* through the admin API.  The command line and other administrators       *)
(* switch it as well.                                                      *)
(*                                                                         *)
(* One tab.  Reads, switches and the control's own load are in flight      *)
(* together; the tab is hidden and shown, its network comes back, and the  *)
(* provider and the control are mounted again.  The emergency variable     *)
(* VITE_MAINTENANCE_MODE is off: with it nothing below matters.            *)
(***************************************************************************)
EXTENDS Integers, SequencesExt

CONSTANTS
    Nothing,      \* no value, no request
    MaxSwitches,  \* bound: changes of the flag by others, switches by this tab
    MaxInFlight,  \* bound: reads in flight
    MaxFailures,  \* bound: reads that fail
    MaxMounts     \* bound: mounts of the provider, mounts of the control

MaintenanceAssumption ==
    /\ Nothing \notin BOOLEAN
    /\ {MaxSwitches, MaxFailures} \subseteq Nat
    /\ {MaxMounts, MaxInFlight} \subseteq Nat \ {0}

VARIABLES
    flag,       \* the row of app_config
    visible,
    watcher,    \* the number of the watcher that is not stopped
    timer,      \* its next read is scheduled
    reads,      \* the reads in flight, in the order they were sent
    dbOn, loading, lastReadFailed,
    control,    \* the dashboard's MaintenanceControl, or Nothing
    mounts,     \* mounts of the control so far
    posts,      \* its switches
    inOrder,    \* history: no read was applied after one sent later
    toggled,    \* history: the flag as this tab switched it, until it changes
    switches, failures

provider == <<dbOn, loading, lastReadFailed>>
dashboard == <<control, mounts, posts>>
vars == <<flag, visible, watcher, timer, reads, provider, dashboard, inOrder,
          toggled, switches, failures>>

-----------------------------------------------------------------------------
Read == [watcher: 1..MaxMounts, answer: {Nothing} \cup BOOLEAN, failed: BOOLEAN,
         overtaken: BOOLEAN]  \* history: a read sent later was applied
Control == [server: BOOLEAN \cup {Nothing}, optimistic: BOOLEAN \cup {Nothing},
            loading: BOOLEAN, saving: BOOLEAN, loadError: BOOLEAN]
Post == [control: 1..MaxMounts, on: BOOLEAN, previous: BOOLEAN,
         stage: {"sent", "done", "failed", "over"}, answer: BOOLEAN \cup {Nothing}]

MaintenanceTypeOK ==
    /\ {flag, visible, timer, dbOn, loading, lastReadFailed, inOrder} \subseteq BOOLEAN
    /\ watcher \in 1..MaxMounts /\ mounts \in 0..MaxMounts
    /\ reads \in Seq(Read) /\ posts \in Seq(Post)
    /\ control \in Control \cup {Nothing} /\ toggled \in BOOLEAN \cup {Nothing}
    /\ switches \in 0..MaxSwitches /\ failures \in 0..MaxFailures

NewRead(w) == [watcher |-> w, answer |-> Nothing, failed |-> FALSE, overtaken |-> FALSE]

Init ==
    /\ flag \in BOOLEAN /\ visible \in BOOLEAN
    /\ watcher = 1 /\ timer = FALSE /\ reads = <<NewRead(1)>>
    /\ dbOn = FALSE /\ loading = TRUE /\ lastReadFailed = FALSE
    /\ control = Nothing /\ mounts = 0 /\ posts = <<>>
    /\ inOrder = TRUE /\ toggled = Nothing /\ switches = 0 /\ failures = 0

-----------------------------------------------------------------------------
(* The watcher.                                                            *)

InFlight == \E i \in DOMAIN reads : reads[i].watcher = watcher

\* read(): reads once, and the schedule waits until the read has ended.
StartRead ==
    IF InFlight THEN UNCHANGED <<reads, timer>>
    ELSE /\ Len(reads) < MaxInFlight
         /\ reads' = Append(reads, NewRead(watcher)) /\ timer' = FALSE

Elapses ==
    /\ timer /\ timer' = FALSE
    /\ Len(reads) < MaxInFlight /\ reads' = Append(reads, NewRead(watcher))
    /\ UNCHANGED <<flag, visible, watcher, provider, dashboard, inOrder, toggled,
                   switches, failures>>

\* visibilitychange
Show ==
    /\ ~visible /\ visible' = TRUE /\ StartRead
    /\ UNCHANGED <<flag, watcher, provider, dashboard, inOrder, toggled, switches, failures>>

Hide ==
    /\ visible /\ visible' = FALSE /\ timer' = FALSE
    /\ UNCHANGED <<flag, watcher, reads, provider, dashboard, inOrder, toggled,
                   switches, failures>>

\* The event "online", with the tab in view.
Online ==
    /\ visible /\ ~InFlight /\ StartRead
    /\ UNCHANGED <<flag, visible, watcher, provider, dashboard, inOrder, toggled,
                   switches, failures>>

\* The select is answered, or fails.
ReadAnswered(i) ==
    /\ reads[i].answer = Nothing /\ ~reads[i].failed
    /\ \/ /\ reads' = [reads EXCEPT ![i].answer = flag] /\ UNCHANGED failures
       \/ /\ failures < MaxFailures /\ failures' = failures + 1
          /\ reads' = [reads EXCEPT ![i].failed = TRUE]
    /\ UNCHANGED <<flag, visible, watcher, timer, provider, dashboard, inOrder, toggled,
                   switches>>

Stopped(r) == r.watcher # watcher

Scheduled == visible

\* The provider keeps the last value when a read fails.
ValueAfter(r) == IF r.failed THEN dbOn ELSE r.answer

OvertakenUpTo(i) == [j \in DOMAIN reads |->
    IF j < i THEN [reads[j] EXCEPT !.overtaken = TRUE] ELSE reads[j]]

\* The read ends: what a stopped watcher read is dropped.
ReadReturns(i) ==
    LET r == reads[i] IN
    /\ r.answer # Nothing \/ r.failed
    /\ IF Stopped(r)
       THEN /\ reads' = RemoveAt(reads, i)
            /\ UNCHANGED <<provider, timer, inOrder, toggled>>
       ELSE /\ reads' = RemoveAt(OvertakenUpTo(i), i)
            /\ dbOn' = ValueAfter(r) /\ lastReadFailed' = r.failed /\ loading' = FALSE
            /\ timer' = Scheduled
            /\ inOrder' = (inOrder /\ ~r.overtaken)
            /\ UNCHANGED toggled
    /\ UNCHANGED <<flag, visible, watcher, dashboard, switches, failures>>

\* The provider is mounted again (development mounts every effect twice):
\* the old watcher is stopped, a new one reads.  The state is kept.
Remount ==
    /\ watcher < MaxMounts /\ watcher' = watcher + 1
    /\ Len(reads) < MaxInFlight /\ reads' = Append(reads, NewRead(watcher + 1))
    /\ timer' = FALSE
    /\ UNCHANGED <<flag, visible, provider, dashboard, inOrder, toggled, switches, failures>>

-----------------------------------------------------------------------------
(* Switching.                                                              *)

\* The command line, or another administrator.
SwitchedElsewhere ==
    /\ switches < MaxSwitches /\ switches' = switches + 1
    /\ flag' = ~flag /\ toggled' = Nothing
    /\ UNCHANGED <<visible, watcher, timer, reads, provider, dashboard, inOrder, failures>>

\* The dashboard is opened: the control asks the admin API for the row.
OpenControl ==
    /\ control = Nothing /\ mounts < MaxMounts /\ mounts' = mounts + 1
    /\ control' = [server |-> Nothing, optimistic |-> Nothing, loading |-> TRUE,
                   saving |-> FALSE, loadError |-> FALSE]
    /\ UNCHANGED <<flag, visible, watcher, timer, reads, provider, posts, inOrder,
                   toggled, switches, failures>>

CloseControl ==
    /\ control # Nothing /\ control' = Nothing
    /\ UNCHANGED <<flag, visible, watcher, timer, reads, provider, mounts, posts, inOrder,
                   toggled, switches, failures>>

ControlLoaded ==
    /\ control # Nothing /\ control.loading
    /\ \/ control' = [control EXCEPT !.loading = FALSE, !.server = flag]
       \/ control' = [control EXCEPT !.loading = FALSE, !.loadError = TRUE]
    /\ UNCHANGED <<flag, visible, watcher, timer, reads, provider, mounts, posts, inOrder,
                   toggled, switches, failures>>

CurrentOn == IF control.optimistic # Nothing THEN control.optimistic
             ELSE IF loading /\ control.server # Nothing THEN control.server ELSE dbOn

Disabled == loading \/ control.loading \/ control.saving \/ control.loadError

Toggle ==
    /\ control # Nothing /\ ~Disabled /\ visible
    /\ Len(posts) < MaxSwitches
    /\ posts' = Append(posts, [control |-> mounts, on |-> ~CurrentOn, previous |-> CurrentOn,
                               stage |-> "sent", answer |-> Nothing])
    /\ control' = [control EXCEPT !.optimistic = ~CurrentOn, !.server = ~CurrentOn,
                                  !.saving = TRUE]
    /\ UNCHANGED <<flag, visible, watcher, timer, reads, provider, mounts, inOrder,
                   toggled, switches, failures>>

\* The API checks the account and the body and writes the row, whose new
\* value it answers with; the answer may be lost.
PostWrites(i) ==
    /\ posts[i].stage = "sent"
    /\ flag' = posts[i].on /\ toggled' = Nothing
    /\ \/ posts' = [posts EXCEPT ![i].stage = "done", ![i].answer = posts[i].on]
       \/ posts' = [posts EXCEPT ![i].stage = "failed"]
    /\ UNCHANGED <<visible, watcher, timer, reads, provider, control, mounts, inOrder,
                   switches, failures>>

PostRefused(i) ==
    /\ posts[i].stage = "sent"
    /\ posts' = [posts EXCEPT ![i].stage = "failed"]
    /\ UNCHANGED <<flag, visible, watcher, timer, reads, provider, control, mounts, inOrder,
                   toggled, switches, failures>>

SettledControl(c, p) ==
    [c EXCEPT !.server = IF p.stage = "done" THEN p.answer ELSE p.previous,
              !.optimistic = Nothing, !.saving = FALSE]

\* The answer: it goes to the provider even if the control has gone.
PostReturns(i) ==
    LET p == posts[i]
        here == control # Nothing /\ p.control = mounts IN
    /\ p.stage \in {"done", "failed"}
    /\ posts' = [posts EXCEPT ![i].stage = "over"]
    /\ control' = IF here THEN SettledControl(control, p) ELSE control
    /\ IF p.stage = "done"
       THEN /\ dbOn' = p.answer
            /\ toggled' = IF flag = p.answer THEN p.answer ELSE Nothing
       ELSE UNCHANGED <<dbOn, toggled>>
    /\ UNCHANGED <<flag, visible, watcher, timer, reads, loading, lastReadFailed, mounts,
                   inOrder, switches, failures>>

-----------------------------------------------------------------------------
Reading == \E i \in DOMAIN reads : ReadAnswered(i) \/ ReadReturns(i)
Posting == \E i \in DOMAIN posts : PostWrites(i) \/ PostRefused(i) \/ PostReturns(i)

Next ==
    \/ Show \/ Hide \/ Online \/ Elapses \/ Reading \/ Remount
    \/ SwitchedElsewhere \/ OpenControl \/ CloseControl \/ ControlLoaded \/ Toggle \/ Posting

Spec == Init /\ [][Next]_vars

\* Requests are answered and timers fire.
FairSpec == Spec /\ WF_vars(Elapses) /\ WF_vars(Reading) /\ WF_vars(Posting)

-----------------------------------------------------------------------------
(* Properties.                                                             *)

\* A tab in view always has its next read scheduled or one in flight, however
\* hiding, showing, failing and remounting interleave (lines 94-117).
NeverStalls == visible => timer \/ InFlight

\* A tab out of view has no read scheduled, and no read is scheduled while one
\* is in flight (lines 43, 46, 93).
TimerOnlyWhenIdleInView == timer => visible /\ ~InFlight

\* A read is never applied after one that was sent later: triggers do not
\* overlap, and a stopped watcher is not heard (lines 46, 67).
ReadsAppliedInOrder == inOrder

\* The control shows what it sent only while its own request is in flight:
\* afterwards it shows the provider's value (DashboardPage.tsx 197, 231, 234).
NoOptimismLeft ==
    control # Nothing /\ control.optimistic # Nothing =>
        control.saving /\ \E i \in DOMAIN posts :
            posts[i].control = mounts /\ posts[i].stage # "over"
            /\ posts[i].on = control.optimistic

\* The screen follows the flag and what was done about it: the four above.
ScreenFollows == NeverStalls /\ TimerOnlyWhenIdleInView /\ ReadsAppliedInOrder /\ NoOptimismLeft

\* An answer that says off: of a read that returns, or of a switch.
EndsByAnswer ==
    \/ \E i \in DOMAIN reads : reads[i].answer = FALSE /\ Len(reads') < Len(reads)
    \/ \E i \in DOMAIN posts : posts[i].answer = FALSE /\ posts[i] # posts'[i]

\* A failed read, or anything else but an answer that says off, does not end
\* maintenance in the tab (maintenance.ts 78-79, useMaintenanceMode.tsx 48-50).
NothingElseChanges == [][dbOn /\ ~dbOn' => EndsByAnswer]_vars

=============================================================================
