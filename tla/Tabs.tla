-------------------------------- MODULE Tabs --------------------------------
(***************************************************************************)
(* The tabs of the terminal interface (cc-connect-tui: event_loop.rs,      *)
(* tabs.rs): a tab owns a chat session and a claude process, and may have  *)
(* been opened for a room whose host-bg daemon this program started.  Keys *)
(* are handled one at a time, the overlay first; sessions end by           *)
(* themselves, and daemons are stopped from elsewhere.                     *)
(***************************************************************************)
EXTENDS Naturals, Sequences, SequencesExt, FiniteSets, Lists

CONSTANTS
    Topic,    \* rooms there is a ticket of
    MaxTab    \* bound: tabs opened

TabId == 1..MaxTab
NoTab == 0
NoTopic == "none"

VARIABLES
    order,      \* TabSet.order: the tabs, from left to right
    room,       \* topic_hex of each tab opened so far
    hosting,    \* RoomTab.hosting, likewise
    active,     \* TabSet.active
    overlay,    \* App.overlay, and the topic_hex it was opened with
    next,       \* TabSet.next_id
    sessions,   \* run_session tasks that have not ended, by tab
    claudes,    \* claude processes, by tab
    daemons,    \* rooms whose host-bg daemon runs
    over,       \* has the program ended?
    failed      \* History: tabs whose claude could not be started

shown == <<order, active, overlay>>
vars == <<order, room, hosting, active, overlay, next, sessions, claudes, daemons, over, failed>>

Nothing == [is |-> "none", topic |-> NoTopic]
Notice == [is |-> "notice", topic |-> NoTopic]

TypeOK ==
    /\ order \in Seq(TabId)
    /\ room \in [TabId -> Topic \union {NoTopic}]
    /\ hosting \in [TabId -> BOOLEAN]
    /\ active \in TabId \union {NoTab}
    /\ active \in ToSet(order) \/ (active = NoTab /\ order = <<>>)
    /\ overlay \in [is : {"none", "picker", "prompt", "confirm", "notice"},
                    topic : Topic \union {NoTopic}]
    /\ next \in 1..(MaxTab + 1)
    /\ sessions \subseteq TabId /\ claudes \subseteq TabId /\ failed \subseteq TabId
    /\ daemons \subseteq Topic
    /\ over \in BOOLEAN

\* The first tab: of a room this program hosts, or of one it joins.
Init ==
    \E t \in Topic, h \in BOOLEAN :
        /\ order = <<1>> /\ active = 1
        /\ room = [i \in TabId |-> IF i = 1 THEN t ELSE NoTopic]
        /\ hosting = [i \in TabId |-> i = 1 /\ h]
        /\ overlay = Nothing
        /\ next = 2
        /\ sessions = {1} /\ claudes = {1}
        /\ daemons = IF h THEN {t} ELSE {}
        /\ over = FALSE /\ failed = {}

Running == ~over /\ order # <<>>

\* Mutant of Aborted: the session is left to notice that its input is closed.
AbortedNot(ids) == {}

\* Drop for RoomTab: the session's task is aborted, claude is killed.
Aborted(ids) == ids

DropTabs(ids) ==
    /\ sessions' = sessions \ Aborted(ids)
    /\ claudes' = claudes \ ids

-----------------------------------------------------------------------------
\* Keys

\* drop_active_tab, TabSet::remove: the last tab of the strip becomes active.
DropActive ==
    LET rest == Keep(order, TabId \ {active})
    IN  /\ order' = rest
        /\ active' = IF rest = <<>> THEN NoTab ELSE Last(rest)
        /\ DropTabs({active})

\* Ctrl-W: a tab that hosts asks what to do with the daemon.
CloseTab ==
    /\ Running /\ overlay.is = "none"
    /\ IF hosting[active]
       THEN /\ overlay' = [is |-> "confirm", topic |-> room[active]]
            /\ UNCHANGED <<order, active, sessions, claudes>>
       ELSE DropActive /\ UNCHANGED overlay
    /\ UNCHANGED <<room, hosting, next, daemons, over, failed>>

\* y: the daemon is stopped first; if that fails the tab goes anyway, with a notice.
ConfirmStop ==
    /\ Running /\ overlay.is = "confirm"
    /\ \/ /\ daemons' = daemons \ {overlay.topic}
          /\ overlay' = Nothing
       \/ overlay' = Notice /\ UNCHANGED daemons
    /\ DropActive
    /\ UNCHANGED <<room, hosting, next, over, failed>>

\* n, Esc or Enter: the daemon stays.
ConfirmKeep ==
    /\ Running /\ overlay.is = "confirm"
    /\ overlay' = Nothing
    /\ DropActive
    /\ UNCHANGED <<room, hosting, next, daemons, over, failed>>

\* Ctrl-N, then j; Esc leaves any overlay but the confirmation.
OpenOverlay ==
    /\ Running /\ overlay.is \in {"none", "picker"}
    /\ overlay' = [is |-> IF overlay.is = "none" THEN "picker" ELSE "prompt", topic |-> NoTopic]
    /\ UNCHANGED <<order, active, room, hosting, next, sessions, claudes, daemons, over, failed>>

LeaveOverlay ==
    /\ Running /\ overlay.is \in {"picker", "prompt", "notice"}
    /\ overlay' = Nothing
    /\ UNCHANGED <<order, active, room, hosting, next, sessions, claudes, daemons, over, failed>>

\* Enter on a ticket: a session, then claude, then the tab.
Join(t) ==
    /\ Running /\ overlay.is = "prompt" /\ next <= MaxTab
    /\ order' = Append(order, next) /\ active' = next
    /\ room' = [room EXCEPT ![next] = t]
    /\ sessions' = sessions \union {next} /\ claudes' = claudes \union {next}
    /\ overlay' = Nothing
    /\ next' = next + 1
    /\ UNCHANGED <<hosting, daemons, over, failed>>

\* The ticket does not decode: nothing was started.
JoinRefused ==
    /\ Running /\ overlay.is = "prompt" /\ next <= MaxTab
    /\ overlay' = Notice
    /\ next' = next + 1
    /\ UNCHANGED <<order, active, room, hosting, sessions, claudes, daemons, over, failed>>

\* Claude, or its terminal, cannot be started: the handle of the session is dropped,
\* which detaches its task.
JoinFails(t) ==
    /\ Running /\ overlay.is = "prompt" /\ next <= MaxTab
    /\ overlay' = Notice
    /\ room' = [room EXCEPT ![next] = t]
    /\ sessions' = sessions \union {next}
    /\ failed' = failed \union {next}
    /\ next' = next + 1
    /\ UNCHANGED <<order, active, hosting, claudes, daemons, over>>

\* Mutant of OverlayFirst: the digits work under an overlay.
OverlayLast == TRUE

\* handle_key gives a key to the overlay if there is one.
OverlayFirst == overlay.is = "none"

\* A digit, with the chat in focus.
SwitchTab(k) ==
    /\ Running /\ OverlayFirst
    /\ k \in DOMAIN order
    /\ active' = order[k]
    /\ UNCHANGED <<order, overlay, room, hosting, next, sessions, claudes, daemons, over, failed>>

\* Ctrl-Q, or the last tab is gone: the runtime ends, and every task with it.
Quit ==
    /\ ~over /\ (overlay.is = "none" \/ order = <<>>)
    /\ over' = TRUE
    /\ order' = <<>> /\ active' = NoTab
    /\ sessions' = {} /\ claudes' = {}
    /\ UNCHANGED <<room, hosting, overlay, next, daemons, failed>>

-----------------------------------------------------------------------------
\* Around it

\* A session ends with an error; its tab stays.
SessionEnds(i) ==
    /\ ~over /\ i \in sessions
    /\ sessions' = sessions \ {i}
    /\ UNCHANGED <<order, active, overlay, room, hosting, next, claudes, daemons, over, failed>>

ClaudeEnds(i) ==
    /\ ~over /\ i \in claudes
    /\ claudes' = claudes \ {i}
    /\ UNCHANGED <<order, active, overlay, room, hosting, next, sessions, daemons, over, failed>>

DaemonEnds(t) ==
    /\ t \in daemons
    /\ daemons' = daemons \ {t}
    /\ UNCHANGED <<order, active, overlay, room, hosting, next, sessions, claudes, over, failed>>

Next ==
    \/ CloseTab \/ ConfirmStop \/ ConfirmKeep \/ OpenOverlay \/ LeaveOverlay
    \/ JoinRefused \/ Quit
    \/ \E t \in Topic : Join(t) \/ JoinFails(t) \/ DaemonEnds(t)
    \/ \E i \in TabId : SwitchTab(i) \/ SessionEnds(i) \/ ClaudeEnds(i)

Spec == Init /\ [][Next]_vars
-----------------------------------------------------------------------------
\* Properties

\* A session that runs has its tab, and a claude too: closing a tab leaves neither
\* behind, though the session keeps a sender of its own input open (tabs.rs).  The
\* exception is a join whose claude could not be started: its session stays.
NoneLeftBehind ==
    /\ sessions \ failed \subseteq ToSet(order)
    /\ claudes \subseteq ToSet(order)

\* The question about a daemon is about the tab that the answer will close, however
\* long it stays on the screen (handle_overlay_key drops the tab active by then).
AsksAboutActive ==
    overlay.is = "confirm" => hosting[active] /\ overlay.topic = room[active]
=============================================================================
