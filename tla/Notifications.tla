----------------------------- MODULE Notifications -----------------------------
(***************************************************************************)
(* The notification inbox: notifications.py with its routes, the channels  *)
(* that deliver a copy (notification_channels), and the bell of one        *)
(* browser page (notification-inbox.js).                                   *)
(*                                                                         *)
(* The files are read and written without a suspension point, so a call of *)
(* the server is one step; a death of the process can come between the two *)
(* writes of a rotation.  What the server sends the page is kept in the    *)
(* order in which it was computed (wire): the events of the socket arrive  *)
(* in that order, answers to requests at any time.                         *)
(***************************************************************************)
EXTENDS Integers, Sequences, FiniteSets, SequencesExt

CONSTANTS
    Urgent,         \* the notifications of high priority; the others are normal
    Channels,       \* the channels that are configured
    Watched,        \* whether a browser page is open
    Retention,      \* how long the inbox and the read log go back
    ListLimit,      \* rows of the panel
    MaxNotices, MaxClock, MaxPosts, MaxLooks, MaxBreaks    \* bounds

Limits == Retention \in Nat /\ ListLimit \in Nat \ {0}

VARIABLES
    second,         \* the clock
    inbox,          \* the live records, as appended
    shelved,        \* what was rotated out, as appended to the archive
    readLog,        \* events of the read log
    noticed,        \* notifications so far
    tasks,          \* deliveries under way: <<channel, notification>>
    dayPage,        \* entries of the page of the day
    told,           \* what the other channels delivered
    line,           \* the socket: down, open (not subscribed yet), or live
    wire,           \* events and answers on their way to the page
    fetches,        \* requests of the page the server has not answered: their kinds
    posts,          \* reads that are posted, 0 for all of them
    bell,           \* the badge, and the panel
    read, missed,   \* ghosts: what somebody marked read; deliveries that were lost
    posted, looks, breaks,
    mishaps         \* ghost: ways to go wrong the behaviour has met

fileVars == <<inbox, shelved, readLog, noticed>>
channelVars == <<tasks, dayPage, told, missed>>
bellVars == <<line, wire, fetches, posts, bell>>
noticeVars == <<second, fileVars, channelVars, bellVars, read, posted, looks, breaks, mishaps>>

Notices == 1..MaxNotices
Records == [id : Notices, at : 0..MaxClock]
Pushes == {"created", "read"}
Priorities == [normal |-> 1, high |-> 2]

Ids(box) == {box[i].id : i \in DOMAIN box}

\* mutant: a read-all counts for every record of the inbox
ReadIdsAll(box, events) ==
    {r.id : r \in {x \in ToSet(box) : \E e \in ToSet(events) :
                     e.event = "read-all" \/ e.id = x.id}}

\* get_read_ids: read one by one, or by a read-all not before the record
ReadIds(box, events) ==
    {r.id : r \in {x \in ToSet(box) : \E e \in ToSet(events) :
                     \/ e.event = "read" /\ e.id = x.id
                     \/ e.event = "read-all" /\ x.at <= e.at}}

\* unread_count
Unread(box, events) == Cardinality(Ids(box) \ ReadIds(box, events))

\* read_inbox with the read flags joined: the newest first, those of one second as
\* they were appended, and as many as the panel asks for
Listing(box, events) ==
    LET newest == SortSeq(box, LAMBDA r, s : r.at > s.at \/ (r.at = s.at /\ r.id < s.id))
        shown == SubSeq(newest, 1, IF Len(newest) < ListLimit THEN Len(newest) ELSE ListLimit)
    IN  [i \in DOMAIN shown |-> [id |-> shown[i].id,
                                 read |-> shown[i].id \in ReadIds(box, events)]]

Init ==
    /\ second = 0 /\ inbox = <<>> /\ shelved = <<>> /\ readLog = <<>> /\ noticed = 0
    /\ tasks = {} /\ dayPage = <<>> /\ told = {}
    /\ line = IF Watched THEN "live" ELSE "down"    \* a page is mounted and its badge is seeded
    /\ wire = <<>> /\ fetches = <<>> /\ posts = {}
    /\ bell = [count |-> 0, open |-> FALSE, rows |-> <<>>]
    /\ read = {} /\ missed = {} /\ posted = 0 /\ looks = 0 /\ breaks = 0 /\ mishaps = {}

TypeOK ==
    /\ Limits
    /\ second \in 0..MaxClock
    /\ ToSet(inbox) \subseteq Records /\ ToSet(shelved) \subseteq Records
    /\ \A e \in ToSet(readLog) : e.event \in {"read", "read-all"} /\ e.at \in 0..MaxClock
    /\ noticed \in 0..MaxNotices
    /\ tasks \cup told \cup missed \subseteq Channels \X Notices
    /\ ToSet(dayPage) \subseteq Notices
    /\ line \in {"down", "open", "live"}
    /\ \A m \in ToSet(wire) : m.kind \in Pushes \cup {"count", "list", "all", "one"}
    /\ ToSet(fetches) \subseteq {"count", "list"} /\ posts \subseteq 0..MaxNotices
    /\ bell.count \in 0..MaxNotices /\ bell.open \in BOOLEAN /\ Len(bell.rows) <= ListLimit
    /\ read \subseteq Notices

-----------------------------------------------------------------------------
(* The files *)

Old(r) == r.at < second - Retention

\* the first record decides whether a rotation is worth it
Due(records) == records # <<>> /\ Old(records[1])
Recent(records) == IF Due(records) THEN SelectSeq(records, LAMBDA r : ~Old(r)) ELSE records
\* the months are appended to the archive before the inbox is rewritten
Shelved(records) == IF Due(records) THEN SelectSeq(records, Old) ELSE <<>>

\* an event of the bus goes to the socket that is subscribed
Pushed(kind, box, events) ==
    IF line = "live" THEN <<[kind |-> kind, count |-> Unread(box, events), rows |-> <<>>]>>
    ELSE <<>>

\* mutant: only what is above the threshold
MeetsAbove(channel, n) ==
    channel = "page" \/ (IF n \in Urgent THEN Priorities.high ELSE Priorities.normal) > Priorities.high

\* meets_priority; the page of the day takes every record
Meets(channel, n) ==
    channel = "page" \/ (IF n \in Urgent THEN Priorities.high ELSE Priorities.normal) >= Priorities.high

\* the handlers of the channels start a task each and do not wait for it
Handled(n) == tasks' = tasks \cup {<<c, n>> : c \in {x \in Channels : Meets(x, n)}}

Notify ==
    /\ noticed < MaxNotices
    /\ noticed' = noticed + 1
    /\ shelved' = shelved \o Shelved(inbox)
    /\ inbox' = Append(Recent(inbox), [id |-> noticed', at |-> second])
    /\ Handled(noticed')
    /\ wire' = wire \o Pushed("created", inbox', readLog)
    /\ UNCHANGED <<second, readLog, dayPage, told, missed, line, fetches, posts, bell, read,
                   posted, looks, breaks, mishaps>>

\* the event a read adds; the log is rotated first, and what it drops is gone
Marked(e) == readLog' = Append(Recent(readLog), e)

\* a record that should have left the inbox, had there been a notification since
Overdue == \E r \in ToSet(inbox) : Old(r)
Forgets == IF Due(readLog) /\ Overdue THEN mishaps \cup {"overdue"} ELSE mishaps

MarkRead(n) ==
    /\ n \in posts \ {0}
    /\ posts' = posts \ {n}
    /\ Marked([event |-> "read", id |-> n, at |-> second])
    /\ read' = read \cup {n}
    /\ mishaps' = Forgets
    /\ wire' = wire \o Pushed("read", inbox, readLog')
                    \o (IF Watched THEN <<[kind |-> "one", count |-> 0, rows |-> <<>>]>> ELSE <<>>)
    /\ UNCHANGED <<second, inbox, shelved, noticed, channelVars, line, fetches, bell, posted,
                   looks, breaks>>

\* nothing is published when nothing was unread
MarkAllRead ==
    /\ 0 \in posts
    /\ posts' = posts \ {0}
    /\ Marked([event |-> "read-all", id |-> 0, at |-> second])
    /\ read' = read \cup Ids(inbox)
    /\ mishaps' = Forgets
    /\ wire' = wire \o (IF Unread(inbox, readLog) = 0 THEN <<>>
                        ELSE Pushed("read", inbox, readLog'))
                    \o (IF Watched THEN <<[kind |-> "all", count |-> 0, rows |-> <<>>]>> ELSE <<>>)
    /\ UNCHANGED <<second, inbox, shelved, noticed, channelVars, line, fetches, bell, posted,
                   looks, breaks>>

Tick ==
    /\ second < MaxClock /\ second' = second + 1
    /\ UNCHANGED <<fileVars, channelVars, bellVars, read, posted, looks, breaks, mishaps>>

-----------------------------------------------------------------------------
(* The channels *)

Finished(t) == tasks' = tasks \ {t}
outside == <<second, fileVars, bellVars, read, posted, looks, breaks, mishaps>>

\* the lock of the page is held over one append
PageDelivers(n) ==
    /\ <<"page", n>> \in tasks /\ Finished(<<"page", n>>)
    /\ dayPage' = Append(dayPage, n)
    /\ UNCHANGED <<told, missed, outside>>

\* post_direct_message
DmDelivers(n) ==
    /\ <<"dm", n>> \in tasks /\ Finished(<<"dm", n>>)
    /\ told' = told \cup {<<"dm", n>>}
    /\ UNCHANGED <<dayPage, missed, outside>>

\* send_mail
MailDelivers(n) ==
    /\ <<"mail", n>> \in tasks /\ Finished(<<"mail", n>>)
    /\ told' = told \cup {<<"mail", n>>}
    /\ UNCHANGED <<dayPage, missed, outside>>

\* a delivery that fails is logged and not tried again
DeliveryFails(t) ==
    /\ t \in tasks /\ breaks < MaxBreaks /\ breaks' = breaks + 1
    /\ Finished(t) /\ missed' = missed \cup {t}
    /\ UNCHANGED <<dayPage, told, second, fileVars, bellVars, read, posted, looks, mishaps>>

-----------------------------------------------------------------------------
(* The death of the process: between the writes of a rotation, or elsewhere *)

Dies ==
    /\ breaks < MaxBreaks /\ breaks' = breaks + 1
    /\ tasks' = {} /\ missed' = missed \cup tasks
    /\ line' = "down" /\ wire' = <<>> /\ fetches' = <<>> /\ posts' = {}
    /\ mishaps' = IF fetches # <<>> \/ posts # {} \/ wire # <<>>
                  THEN mishaps \cup {"failed"} ELSE mishaps
    /\ UNCHANGED <<second, readLog, noticed, dayPage, told, bell, read, posted, looks>>

\* mutant: the inbox is rewritten before the archive
HalfwayRewritten == inbox' = Recent(inbox) /\ UNCHANGED shelved

\* what is on disk when a rotation is cut short: the archive has the records already
Halfway == shelved' = shelved \o Shelved(inbox) /\ UNCHANGED inbox

DiesRotating == Due(inbox) /\ Dies /\ Halfway
DiesElsewhere == Dies /\ UNCHANGED <<inbox, shelved>>

-----------------------------------------------------------------------------
(* The page: its socket and its requests *)

\* mutant: a new connection brings the events only
ReseedNothing == UNCHANGED fetches

\* the page hears of the open socket before the server has subscribed it
Reseed == fetches' = Append(fetches, "count")

Connect ==
    /\ Watched /\ line = "down"
    /\ line' = "open"
    /\ Reseed
    /\ UNCHANGED <<second, fileVars, channelVars, wire, posts, bell, read, posted, looks,
                   breaks, mishaps>>

\* the rows are not fetched again
Subscribe ==
    /\ line = "open" /\ line' = "live"
    /\ mishaps' = IF bell.open THEN mishaps \cup {"deaf"} ELSE mishaps
    /\ UNCHANGED <<second, fileVars, channelVars, wire, fetches, posts, bell, read, posted,
                   looks, breaks>>

Drop ==
    /\ line # "down" /\ breaks < MaxBreaks /\ breaks' = breaks + 1
    /\ line' = "down"
    /\ wire' = SelectSeq(wire, LAMBDA m : m.kind \notin Pushes)
    /\ UNCHANGED <<second, fileVars, channelVars, fetches, posts, bell, read, posted, looks,
                   mishaps>>

\* notifications_unread_count, list_notifications; what happens before the socket is
\* subscribed is in no event, and may come after the answer
Answer(i) ==
    /\ i \in DOMAIN fetches
    /\ fetches' = RemoveAt(fetches, i)
    /\ wire' = Append(wire, IF fetches[i] = "count"
                            THEN [kind |-> "count", count |-> Unread(inbox, readLog), rows |-> <<>>]
                            ELSE [kind |-> "list", count |-> 0, rows |-> Listing(inbox, readLog)])
    /\ mishaps' = IF fetches[i] = "count" /\ line = "open" THEN mishaps \cup {"early"} ELSE mishaps
    /\ UNCHANGED <<second, fileVars, channelVars, line, posts, bell, read, posted, looks, breaks>>

\* a request that fails leaves the badge, and the rows, as they are
RequestFails ==
    /\ breaks < MaxBreaks /\ breaks' = breaks + 1
    /\ \/ fetches # <<>> /\ fetches' = Tail(fetches) /\ UNCHANGED <<posts, bell>>
       \/ \E n \in posts :
            /\ Watched /\ posts' = posts \ {n} /\ UNCHANGED fetches
            /\ bell' = [bell EXCEPT !.open = @ /\ n = 0]
    /\ mishaps' = mishaps \cup {"failed"}
    /\ UNCHANGED <<second, fileVars, channelVars, line, wire, read, posted, looks>>

\* an older answer is still on its way when this one is taken
Overtakes(i) ==
    IF \E j \in 1..(i - 1) : wire[j].kind \in {"count", "list", "all"}
    THEN mishaps \cup {"crossed"} ELSE mishaps

Taken(i) == wire' = RemoveAt(wire, i) /\ mishaps' = Overtakes(i)
server == <<second, fileVars, channelVars, line, posts, read, posted, looks, breaks>>

\* applyEventUpdate: the count of the event, and a fresh list if the panel is open
EventArrives(i) ==
    /\ wire[i].kind \in Pushes /\ \A j \in 1..(i - 1) : wire[j].kind \notin Pushes
    /\ Taken(i)
    /\ bell' = [bell EXCEPT !.count = wire[i].count]
    /\ fetches' = IF bell.open THEN Append(fetches, "list") ELSE fetches
    /\ UNCHANGED server

CountArrives(i) ==
    /\ wire[i].kind = "count" /\ Taken(i)
    /\ bell' = [bell EXCEPT !.count = wire[i].count]
    /\ UNCHANGED <<fetches, server>>

ListArrives(i) ==
    /\ wire[i].kind = "list" /\ Taken(i)
    /\ bell' = [bell EXCEPT !.rows = wire[i].rows]
    /\ UNCHANGED <<fetches, server>>

\* markAllRead goes on: nothing is unread any more
AllArrives(i) ==
    /\ wire[i].kind = "all" /\ Taken(i)
    /\ bell' = [bell EXCEPT !.count = 0,
                           !.rows = [k \in DOMAIN @ |-> [@[k] EXCEPT !.read = TRUE]]]
    /\ UNCHANGED <<fetches, server>>

\* onRowClick goes on: it navigates, and that closes the panel or opens a window
OneArrives(i) ==
    /\ wire[i].kind = "one" /\ Taken(i)
    /\ \E stays \in BOOLEAN : bell' = [bell EXCEPT !.open = @ /\ stays]
    /\ UNCHANGED <<fetches, server>>

-----------------------------------------------------------------------------
(* The page: the user *)

still == <<second, fileVars, channelVars, line, wire, read, breaks, mishaps>>

OpenPanel ==
    /\ Watched /\ ~bell.open /\ looks < MaxLooks /\ looks' = looks + 1
    /\ bell' = [bell EXCEPT !.open = TRUE]
    /\ fetches' = Append(fetches, "list")
    /\ UNCHANGED <<posts, posted, still>>

ClosePanel ==
    /\ bell.open /\ bell' = [bell EXCEPT !.open = FALSE]
    /\ UNCHANGED <<fetches, posts, posted, looks, still>>

Posts(n) == n \notin posts /\ posted < MaxPosts /\ posted' = posted + 1 /\ posts' = posts \cup {n}

\* a row that is read already is only opened
ClickRow(k) ==
    /\ bell.open /\ k \in DOMAIN bell.rows
    /\ IF bell.rows[k].read
       THEN bell' = [bell EXCEPT !.open = FALSE] /\ UNCHANGED <<posts, posted>>
       ELSE /\ bell' = [bell EXCEPT !.rows[k].read = TRUE,
                                   !.count = IF @ > 0 THEN @ - 1 ELSE 0]
            /\ Posts(bell.rows[k].id)
    /\ UNCHANGED <<fetches, looks, still>>

ClickAll ==
    /\ bell.open /\ bell.count > 0 /\ Posts(0)
    /\ UNCHANGED <<fetches, bell, looks, still>>

\* the routes, called from elsewhere
Call(n) ==
    /\ ~Watched /\ n \in Ids(inbox) \cup {0} /\ Posts(n)
    /\ UNCHANGED <<fetches, bell, looks, still>>

Next ==
    \/ Notify \/ MarkAllRead \/ Tick \/ DiesRotating \/ DiesElsewhere
    \/ Connect \/ Subscribe \/ Drop \/ RequestFails \/ OpenPanel \/ ClosePanel \/ ClickAll
    \/ \E n \in Notices : MarkRead(n) \/ PageDelivers(n) \/ DmDelivers(n) \/ MailDelivers(n)
    \/ \E t \in tasks : DeliveryFails(t)
    \/ \E n \in 0..MaxNotices : Call(n)
    \/ \E i \in DOMAIN fetches : Answer(i)
    \/ \E i \in DOMAIN wire : EventArrives(i) \/ CountArrives(i) \/ ListArrives(i) \/
                              AllArrives(i) \/ OneArrives(i)
    \/ \E k \in DOMAIN bell.rows : ClickRow(k)

Spec == Init /\ [][Next]_noticeVars

-----------------------------------------------------------------------------
(* Properties *)

\* No notification is lost: it is in the inbox or in the archive, also when the
\* process dies in the middle of a rotation.
RecordsAreKept == \A n \in 1..noticed : n \in Ids(inbox) \cup Ids(shelved)

\* A record shows as read when somebody marked it, and from then on.  A read-all
\* also takes what comes within its second (the times are in seconds); and a
\* record that has outlived the retention, because nothing came to rotate it out,
\* shows as unread again when the read log is rotated.
ReadMeansRead ==
    /\ \A r \in ToSet(inbox) : r.id \in ReadIds(inbox, readLog) \ read =>
          \E e \in ToSet(readLog) : e.event = "read-all" /\ e.at = r.at
    /\ read \cap Ids(inbox) \subseteq ReadIds(inbox, readLog) \/ "overdue" \in mishaps

\* Each channel gets what it is configured for, once, or the delivery failed or
\* was cut off by the end of the process.
ChannelsGetTheirs ==
    /\ IsInjective(dayPage)
    /\ \A n \in 1..noticed :
         /\ "page" \in Channels => n \in ToSet(dayPage) \/ <<"page", n>> \in tasks \cup missed
         /\ \A c \in Channels \ {"page"} :
              n \in Urgent <=> <<c, n>> \in tasks \cup missed \cup told

\* When nothing is under way the badge is the number of unread records, and the rows
\* of an open panel are those of the inbox.  Not so when a request failed, when an
\* answer was overtaken by something newer ("crossed"), when the badge was seeded
\* before the socket was subscribed ("early"), and for the rows when the socket was
\* down while they were shown ("deaf").
BellIsRight ==
    line = "live" /\ fetches = <<>> /\ posts = {} /\ wire = <<>>
        /\ mishaps \cap {"failed", "crossed", "early"} = {} =>
        /\ bell.count = Unread(inbox, readLog)
        /\ bell.open /\ "deaf" \notin mishaps => bell.rows = Listing(inbox, readLog)
=============================================================================
