------------------------- MODULE NotificationPages --------------------------
(***************************************************************************)
(* The notifications of one user in the web application: the page that     *)
(* lists and marks them, the card that counts the unread ones, the         *)
(* permission and registration for web push, and the listener that makes   *)
(* the page load again when a push comes; behind them the endpoints of     *)
(* NotificationReadService.  Loads are neither aborted nor ordered: an     *)
(* older answer may replace a newer list.  The page and the card ask for    *)
(* one page of notifications, and never for the next.                      *)
(*                                                                         *)
(* A request that the client gave up on is still under way: the service    *)
(* may do it later, when nobody waits for it, or never get it.             *)
(***************************************************************************)
EXTENDS Naturals, FiniteSets

CONSTANTS
    Notices,            \* the notifications that may exist, oldest first
    NOTIFICATION_TAKE,  \* notifications in an answer of the list, 50
    Fetches, Marks,     \* bounds: loads and marks that are under way
    MaxNoticeSteps,     \* bound: what users and producers do
    MaxNoticeFaults     \* bound: requests that fail or whose answer is lost

ASSUME NotificationPagesAssumption ==
    /\ Notices \cup Fetches \cup Marks \subseteq Nat /\ IsFiniteSet(Notices)
    /\ Fetches # {}     \* the load that a page begins with
    /\ NOTIFICATION_TAKE \in Nat
    /\ MaxNoticeSteps \in Nat /\ MaxNoticeFaults \in Nat

VARIABLES
    inbox,          \* table notifications
    list,           \* what the page shows
    listed,         \* the first load of the page has ended (~loading)
    spot,           \* the component on the screen
    counter,        \* the number on the card
    fetches,        \* loads under way
    marks,          \* toggles under way
    task,           \* the operation that disables the buttons (working)
    strays,         \* requests of operations that the client gave up on
    alertsOn,       \* pushRegistered
    permission,     \* Notification.permission
    subs,           \* this browser's active subscription, or none
    ear,            \* WebPushListener
    pushes,         \* pushes on their way to this browser
    excused,        \* history: notices that may have changed unknown to the page
    noticeSteps, noticeFaults

noticeVars == <<inbox, list, listed, spot, counter, fetches, marks, task, strays, alertsOn,
                permission, subs, ear, pushes, excused, noticeSteps, noticeFaults>>
shownVars == <<list, listed, counter, excused>>
pushVars == <<permission, subs, ear, pushes, strays>>

NoticeStates == {"ABSENT", "UNREAD", "READ"}
Nothing == [n \in Notices |-> "ABSENT"]
NoFetch == [stage |-> "none", ofTask |-> FALSE, got |-> Nothing, stale |-> {}]
NewFetch(ofTask) == [NoFetch EXCEPT !.stage = "sent", !.ofTask = ofTask]
NoMark == [stage |-> "none", notice |-> {}, to |-> "READ", stale |-> FALSE, heard |-> TRUE]
NoTask == [op |-> "none", stage |-> "none"]
FirstLoad == [f \in Fetches |-> IF \A g \in Fetches : f <= g THEN NewFetch(FALSE) ELSE NoFetch]
FreeFetch(f) == fetches[f] = NoFetch /\ \A g \in Fetches : g < f => fetches[g] # NoFetch
FreeMark(m) == marks[m] = NoMark /\ \A k \in Marks : k < m => marks[k] # NoMark
NoticeStep == noticeSteps < MaxNoticeSteps /\ noticeSteps' = noticeSteps + 1
NoticeFault == noticeFaults < MaxNoticeFaults /\ noticeFaults' = noticeFaults + 1
IsUnread(l) == {n \in Notices : l[n] = "UNREAD"}

\* The first page of the table, newest first: none has too many before it.
Newest(table) ==
    {n \in Notices :
        Cardinality({m \in Notices : m > n /\ table[m] # "ABSENT"}) < NOTIFICATION_TAKE}
FirstPage(table) == [n \in Notices |-> IF n \in Newest(table) THEN table[n] ELSE "ABSENT"]

-----------------------------------------------------------------------------
(* The notification service                                                *)

\* Answers that were computed before a change of these notices are old.
Overtaken(changed) ==
    [f \in Fetches |-> IF fetches[f].stage # "answered" THEN fetches[f]
                       ELSE [fetches[f] EXCEPT !.stale = @ \cup changed]]
OvertakenMarks(changed) ==
    [m \in Marks |-> IF marks[m].stage # "answered" THEN marks[m]
                     ELSE [marks[m] EXCEPT !.stale = @ \/ marks[m].notice \subseteq changed]]

\* A command makes a notification, and deliveries to the browsers.
CreateNotice(n) ==
    /\ inbox[n] = "ABSENT" /\ \A o \in Notices : o < n => inbox[o] # "ABSENT"
    /\ inbox' = [inbox EXCEPT ![n] = "UNREAD"]
    /\ fetches' = Overtaken({n})
    /\ pushes' = IF "this" \in subs THEN pushes \cup {n} ELSE pushes

findManyForUser(f) ==
    /\ fetches[f].stage = "sent"
    /\ fetches' = [fetches EXCEPT ![f].stage = "answered", ![f].got = FirstPage(inbox)]
    /\ UNCHANGED <<inbox, spot, marks, task, alertsOn, shownVars, pushVars,
                   noticeSteps, noticeFaults>>

\* markReadForUser and markUnreadForUser find the row first and return it if it
\* is as asked.
findMarked(m) ==
    /\ marks[m].stage = "sent"
    /\ marks' = [marks EXCEPT ![m].stage =
                    IF \E n \in marks[m].notice : inbox[n] = marks[m].to
                    THEN "answered" ELSE "found"]
    /\ UNCHANGED <<inbox, spot, fetches, task, alertsOn, shownVars, pushVars,
                   noticeSteps, noticeFaults>>

\* The update by id, whatever has become of the row since.
updateMarked(m) ==
    /\ marks[m].stage = "found"
    /\ inbox' = [n \in Notices |-> IF n \in marks[m].notice THEN marks[m].to ELSE inbox[n]]
    /\ fetches' = Overtaken(marks[m].notice)
    /\ marks' = [OvertakenMarks(marks[m].notice) EXCEPT ![m].stage = "answered"]
    /\ excused' = IF marks[m].heard THEN excused ELSE excused \cup marks[m].notice
    /\ UNCHANGED <<list, listed, counter, spot, task, alertsOn, pushVars,
                   noticeSteps, noticeFaults>>

MarkAll(unread) ==
    /\ inbox' = [n \in Notices |-> IF n \in unread THEN "READ" ELSE inbox[n]]
    /\ fetches' = Overtaken(unread)
    /\ marks' = OvertakenMarks(unread)

markAllReadForUser ==
    /\ task.op = "markAll" /\ task.stage = "sent"
    /\ MarkAll(IsUnread(inbox))
    /\ task' = [task EXCEPT !.stage = "answered"]
    /\ UNCHANGED <<shownVars, spot, alertsOn, pushVars, noticeSteps, noticeFaults>>

\* DevelopmentPushService: some browser of the user must be registered; it may be
\* another one.
queueTestPush(n) ==
    /\ task.op = "test" /\ task.stage = "sent"
    /\ CreateNotice(n)
    /\ excused' = excused \cup {n}
    /\ task' = [task EXCEPT !.stage = "answered"]
    /\ UNCHANGED <<list, listed, spot, counter, marks, alertsOn, permission, subs, ear,
                   strays, noticeSteps, noticeFaults>>

refuseTestPush ==
    /\ task.op = "test" /\ task.stage = "sent" /\ subs = {}
    /\ task' = NoTask
    /\ UNCHANGED <<inbox, spot, fetches, marks, alertsOn, shownVars, pushVars,
                   noticeSteps, noticeFaults>>

\* The upsert by token.
registerWebPush ==
    /\ task.op = "enable" /\ task.stage = "register"
    /\ subs' = subs \cup {"this"}
    /\ task' = [task EXCEPT !.stage = "answered"]
    /\ UNCHANGED <<inbox, spot, fetches, marks, alertsOn, shownVars, permission, ear, pushes,
                   strays, noticeSteps, noticeFaults>>

\* The service does what the client gave up on.
strayMarkAll(r) ==
    LET unread == IsUnread(inbox) IN
    /\ r \in strays /\ r[1] = "markAll"
    /\ MarkAll(unread)
    /\ excused' = excused \cup unread /\ strays' = strays \ {r}
    /\ UNCHANGED <<list, listed, counter, spot, task, alertsOn, permission, subs, ear, pushes,
                   noticeSteps, noticeFaults>>

strayTest(r, n) ==
    /\ r \in strays /\ r[1] = "test"
    /\ CreateNotice(n)
    /\ excused' = excused \cup {n} /\ strays' = strays \ {r}
    /\ UNCHANGED <<list, listed, counter, spot, marks, task, alertsOn, permission, subs, ear,
                   noticeSteps, noticeFaults>>

strayRegister(r) ==
    /\ r \in strays /\ r[1] = "enable"
    /\ subs' = subs \cup {"this"} /\ strays' = strays \ {r}
    /\ UNCHANGED <<inbox, spot, fetches, marks, task, alertsOn, shownVars, permission, ear,
                   pushes, noticeSteps, noticeFaults>>

\* Or it never gets it, or refuses it.
strayEnds(r) ==
    /\ r \in strays
    /\ strays' = strays \ {r}
    /\ UNCHANGED <<inbox, spot, fetches, marks, task, alertsOn, shownVars, permission, subs, ear,
                   pushes, noticeSteps, noticeFaults>>

\* Another service notifies the user, or the user marks on another device.
arrive(n) ==
    /\ NoticeStep /\ CreateNotice(n)
    /\ excused' = excused \cup {n}
    /\ UNCHANGED <<list, listed, spot, counter, marks, task, alertsOn, permission, subs, ear,
                   strays, noticeFaults>>

markElsewhere(n, to) ==
    /\ NoticeStep /\ inbox[n] \notin {"ABSENT", to}
    /\ inbox' = [inbox EXCEPT ![n] = to]
    /\ fetches' = Overtaken({n}) /\ marks' = OvertakenMarks({n})
    /\ excused' = excused \cup {n}
    /\ UNCHANGED <<list, listed, spot, counter, task, alertsOn, pushVars, noticeFaults>>

-----------------------------------------------------------------------------
(* The page and the card                                                   *)

\* The load of an operation ends it.
EndOfLoad(f) == task' = IF fetches[f].ofTask THEN NoTask ELSE task

\* The list replaces the one on the page, also a newer one.
setNotifications(f) ==
    /\ list' = fetches[f].got
    /\ excused' = fetches[f].stale

load(f) ==
    /\ fetches[f].stage = "answered" /\ spot = "page"
    /\ setNotifications(f) /\ listed' = TRUE
    /\ fetches' = [fetches EXCEPT ![f] = NoFetch]
    /\ EndOfLoad(f)
    /\ UNCHANGED <<inbox, counter, spot, marks, alertsOn, pushVars, noticeSteps, noticeFaults>>

countUnread(f) ==
    /\ fetches[f].stage = "answered" /\ spot = "card"
    /\ counter' = <<"count", Cardinality(IsUnread(fetches[f].got))>>
    /\ excused' = fetches[f].stale
    /\ fetches' = [fetches EXCEPT ![f] = NoFetch]
    /\ UNCHANGED <<inbox, list, listed, spot, marks, task, alertsOn, pushVars,
                   noticeSteps, noticeFaults>>

loadFails(f) ==
    /\ NoticeFault /\ fetches[f].stage = "answered"
    /\ listed' = (spot = "page")
    /\ counter' = IF spot = "card" THEN <<"error">> ELSE counter
    /\ excused' = Notices
    /\ fetches' = [fetches EXCEPT ![f] = NoFetch]
    /\ EndOfLoad(f)
    /\ UNCHANGED <<inbox, list, spot, marks, alertsOn, pushVars, noticeSteps>>

\* The button says what is shown, and asks for the other.
toggleRead(m, n) ==
    /\ NoticeStep /\ FreeMark(m)
    /\ spot = "page" /\ listed /\ list[n] # "ABSENT"
    /\ marks' = [marks EXCEPT ![m] = [NoMark EXCEPT !.stage = "sent", !.notice = {n},
                    !.to = IF list[n] = "READ" THEN "UNREAD" ELSE "READ"]]
    /\ UNCHANGED <<inbox, spot, fetches, task, alertsOn, shownVars, pushVars, noticeFaults>>

\* The answer replaces the item in whatever list is shown now.
applyMarked(m) ==
    LET mark == marks[m]
        here == spot = "page" /\ \E n \in mark.notice : list[n] # "ABSENT" IN
    /\ mark.stage = "answered" /\ mark.heard
    /\ list' = [n \in Notices |-> IF here /\ n \in mark.notice THEN mark.to ELSE list[n]]
    /\ excused' = CASE here /\ mark.stale -> excused \cup mark.notice
                    [] here /\ ~mark.stale -> excused \ mark.notice
                    [] OTHER -> excused
    /\ marks' = [marks EXCEPT ![m] = NoMark]
    /\ UNCHANGED <<inbox, listed, counter, spot, fetches, task, alertsOn, pushVars,
                   noticeSteps, noticeFaults>>

\* The client gives up: the answer is lost, or will not be heard.
markFails(m) ==
    /\ NoticeFault /\ marks[m].stage # "none" /\ marks[m].heard
    /\ excused' = excused \cup marks[m].notice
    /\ marks' = [marks EXCEPT ![m].heard = FALSE]
    /\ UNCHANGED <<inbox, list, listed, counter, spot, fetches, task, alertsOn, pushVars,
                   noticeSteps>>

\* The service answers nobody, or never gets the request.
markEnds(m) ==
    /\ ~marks[m].heard
    /\ marks' = [marks EXCEPT ![m] = NoMark]
    /\ UNCHANGED <<inbox, spot, fetches, task, alertsOn, shownVars, pushVars,
                   noticeSteps, noticeFaults>>

\* The buttons above the list: at most one of them works.
Start(op, stage) ==
    /\ NoticeStep /\ spot = "page" /\ task = NoTask
    /\ task' = [op |-> op, stage |-> stage]
    /\ UNCHANGED <<inbox, spot, fetches, marks, alertsOn, shownVars, pushVars, noticeFaults>>

markAllRead == IsUnread(list) # {} /\ Start("markAll", "sent")
sendTest == Start("test", "sent")
enableNotifications == ~alertsOn /\ Start("enable", "ask")

\* markAllRead and sendTest load when their request is answered; what they
\* changed is shown by that load.
reload(f) ==
    /\ task.op \in {"markAll", "test"} /\ task.stage = "answered" /\ spot = "page"
    /\ FreeFetch(f)
    /\ fetches' = [fetches EXCEPT ![f] = NewFetch(TRUE)]
    /\ task' = [task EXCEPT !.stage = "load"]
    /\ alertsOn' = (alertsOn \/ task.op = "test")
    /\ excused' = {}
    /\ UNCHANGED <<inbox, list, listed, counter, spot, marks, pushVars, noticeSteps, noticeFaults>>

\* The page is gone: nothing that follows is seen.
endUnseen ==
    /\ task.op \in {"markAll", "test"} /\ spot = "away" /\ task.stage \in {"answered", "load"}
    /\ task' = NoTask
    /\ UNCHANGED <<inbox, spot, fetches, marks, alertsOn, shownVars, pushVars,
                   noticeSteps, noticeFaults>>

\* The client gives up on a request that the service may have done, or may do yet.
taskFails ==
    /\ NoticeFault /\ task.op # "none" /\ task.stage # "load"
    /\ task' = NoTask
    /\ alertsOn' = (alertsOn /\ task.op # "enable")
    /\ excused' = IF task.op # "enable" /\ task.stage = "answered" THEN Notices ELSE excused
    /\ strays' = IF task.stage \in {"sent", "register"}
                 THEN strays \cup {<<task.op, noticeFaults>>} ELSE strays
    /\ UNCHANGED <<inbox, list, listed, counter, spot, fetches, marks, permission, subs, ear,
                   pushes, noticeSteps>>

-----------------------------------------------------------------------------
(* Web push                                                                *)

\* The listener registers its handler once.
start ==
    IF ear.starting \/ ear.handlers > 0 \/ spot = "away" \/ permission # "granted"
    THEN ear' = ear
    ELSE ear' = [ear EXCEPT !.starting = TRUE]

requestPermission(answer) ==
    /\ task.op = "enable" /\ task.stage = "ask"
    /\ permission # "default" => answer = permission
    /\ permission' = answer
    /\ task' = IF answer = "granted" THEN [task EXCEPT !.stage = "register"] ELSE NoTask
    /\ UNCHANGED <<inbox, spot, fetches, marks, alertsOn, shownVars, subs, ear, pushes,
                   strays, noticeSteps, noticeFaults>>

\* The subscription is stored: the event "resourcehive:webpush-enabled".
webpushEnabled ==
    /\ task.op = "enable" /\ task.stage = "answered"
    /\ start
    /\ task' = NoTask
    /\ alertsOn' = (alertsOn \/ spot = "page")
    /\ UNCHANGED <<inbox, spot, fetches, marks, shownVars, permission, subs, pushes,
                   strays, noticeSteps, noticeFaults>>

\* A mistake: the listener keeps the handler when it was unmounted meanwhile.
ListenUnmounted ==
    /\ ear.starting
    /\ ear' = [ear EXCEPT !.starting = FALSE, !.handlers = @ + 1]
    /\ UNCHANGED <<inbox, spot, fetches, marks, task, alertsOn, shownVars, permission, subs,
                   pushes, strays, noticeSteps, noticeFaults>>

\* listenForWebPush has registered the handler; a listener that was unmounted
\* meanwhile removes it at once.
listening ==
    /\ ear.starting
    /\ ear' = [ear EXCEPT !.starting = FALSE, !.handlers = IF spot # "away" THEN @ + 1 ELSE @]
    /\ UNCHANGED <<inbox, spot, fetches, marks, task, alertsOn, shownVars, permission, subs,
                   pushes, strays, noticeSteps, noticeFaults>>

listeningFails ==
    /\ NoticeFault /\ ear.starting
    /\ ear' = [ear EXCEPT !.starting = FALSE]
    /\ UNCHANGED <<inbox, spot, fetches, marks, task, alertsOn, shownVars, permission, subs,
                   pushes, strays, noticeSteps>>

\* The user leaves the dashboard; its layout unmounts with the listener.
leaveDashboard ==
    /\ NoticeStep /\ spot # "away"
    /\ spot' = "away"
    /\ ear' = [ear EXCEPT !.handlers = 0]
    /\ list' = Nothing /\ listed' = FALSE /\ counter' = <<"busy">> /\ alertsOn' = FALSE
    /\ excused' = {}
    /\ fetches' = [f \in Fetches |-> NoFetch]
    /\ UNCHANGED <<inbox, marks, task, strays, permission, subs, pushes, noticeFaults>>

\* A push in the foreground: the event makes the page load again.
notificationReceived(n, f) ==
    /\ n \in pushes /\ ear.handlers > 0
    /\ pushes' = pushes \ {n}
    /\ IF spot = "page"
       THEN /\ FreeFetch(f)
            /\ fetches' = [fetches EXCEPT ![f] = NewFetch(FALSE)]
            /\ excused' = excused \ {n}
       ELSE UNCHANGED <<fetches, excused>>
    /\ UNCHANGED <<inbox, list, listed, counter, spot, marks, task, alertsOn, permission, subs,
                   ear, strays, noticeSteps, noticeFaults>>

\* Without a handler the browser shows the push, or nobody does.
pushUnheard(n) ==
    /\ n \in pushes /\ ear.handlers = 0
    /\ pushes' = pushes \ {n}
    /\ UNCHANGED <<inbox, spot, fetches, marks, task, alertsOn, shownVars, permission, subs, ear,
                   strays, noticeSteps, noticeFaults>>

-----------------------------------------------------------------------------

\* There is room for a notification that has not arrived yet.
NoticeInit ==
    /\ inbox \in {i \in [Notices -> NoticeStates] :
                    \A n, o \in Notices : o < n /\ i[o] = "ABSENT" => i[n] = "ABSENT"}
    /\ \E n \in Notices : inbox[n] = "ABSENT"
    /\ list = Nothing /\ listed = FALSE /\ counter = <<"busy">> /\ excused = {}
    /\ spot \in {"page", "card"}
    /\ fetches = FirstLoad
    /\ marks = [m \in Marks |-> NoMark] /\ task = NoTask /\ strays = {} /\ alertsOn = FALSE
    /\ permission \in {"default", "granted"}
    /\ subs \in SUBSET {"this"}
    /\ "this" \in subs => permission = "granted"
    /\ ear = [starting |-> permission = "granted", handlers |-> 0]
    /\ pushes = {} /\ noticeSteps = 0 /\ noticeFaults = 0

NoticeNext ==
    \/ \E f \in Fetches : findManyForUser(f) \/ load(f) \/ countUnread(f) \/ loadFails(f) \/ reload(f)
    \/ \E m \in Marks : findMarked(m) \/ updateMarked(m) \/ applyMarked(m) \/ markFails(m)
                          \/ markEnds(m)
    \/ \E r \in strays : strayMarkAll(r) \/ strayRegister(r) \/ strayEnds(r)
    \/ \E r \in strays, n \in Notices : strayTest(r, n)
    \/ \E m \in Marks, n \in Notices : toggleRead(m, n)
    \/ \E n \in Notices : arrive(n) \/ queueTestPush(n) \/ pushUnheard(n)
    \/ \E n \in Notices, to \in {"READ", "UNREAD"} : markElsewhere(n, to)
    \/ \E n \in Notices, f \in Fetches : notificationReceived(n, f)
    \/ \E answer \in {"granted", "denied"} : requestPermission(answer)
    \/ markAllRead \/ sendTest \/ enableNotifications
    \/ markAllReadForUser \/ refuseTestPush \/ registerWebPush \/ endUnseen \/ taskFails
    \/ webpushEnabled \/ listening \/ listeningFails \/ leaveDashboard

NoticeSpec == NoticeInit /\ [][NoticeNext]_noticeVars

-----------------------------------------------------------------------------
(* Properties                                                              *)

\* The client waits for nothing; the service may still have requests to do.
Quiet == /\ \A f \in Fetches : fetches[f] = NoFetch
         /\ \A m \in Marks : marks[m] = NoMark \/ ~marks[m].heard
         /\ task = NoTask

\* When the client waits for nothing, the page and the card show the newest
\* notifications of the database, except for what changed after the answer they
\* show was read: own marks that did not cross another request, "mark all" and a
\* push that was heard are always shown.
NoticesHaveACause ==
    Quiet =>
        /\ spot = "page" =>
              \A n \in Notices : \/ list[n] = inbox[n] \/ n \in excused
                                 \/ list[n] = "ABSENT" /\ n \notin Newest(inbox)
        /\ spot = "card" /\ excused = {} =>
              counter = <<"count", Cardinality(IsUnread(FirstPage(inbox)))>>

\* No skeleton stays without a request that will end it.
NoticesAppear ==
    (spot = "page" /\ ~listed) \/ (spot = "card" /\ counter = <<"busy">>) =>
        \E f \in Fetches : fetches[f] # NoFetch

\* A push is heard once, by a listener of a dashboard that is open; a browser that
\* was registered hears it, also when it was registered while the listener started.
OneListener ==
    /\ ear.handlers <= 1
    /\ ear.handlers > 0 => spot # "away"
    /\ spot # "away" /\ permission = "granted" /\ "this" \in subs
         /\ task = NoTask /\ ~ear.starting /\ noticeFaults = 0 => ear.handlers = 1

\* The pages of notifications show what is so, and hear of news once.
NotificationsAreTruthful == NoticesHaveACause /\ NoticesAppear /\ OneListener
=============================================================================
