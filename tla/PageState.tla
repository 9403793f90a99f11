------------------------------- MODULE PageState -------------------------------
(***************************************************************************)
(* What one browser page knows of the conversations: conversation-store.js *)
(* with tool-status-store.js and websocket-client.js, the handlers of      *)
(* websocket.py behind its socket, and as much of the turns as they report.*)
(*                                                                         *)
(* Both directions of a socket keep their order; a closed socket drops     *)
(* what is sent.  The server handles a socket's messages one by one and    *)
(* has it subscribed to one conversation; status events go to every        *)
(* socket.  Listings are requests of their own, answered in any order.     *)
(* (WebChat has the messages of a conversation, and their order.)          *)
(***************************************************************************)
EXTENDS Integers, Sequences, FiniteSets, TLC

CONSTANTS
    Chats, NoChat,
    MaxClicks, MaxChatTurns, MaxDrops, MaxAsks    \* bounds

VARIABLES
    chat,        \* the server's side of each conversation
    asked,       \* confirmations asked for
    socket,      \* up, what the server subscribed it to, and is about to
    toServer, toPage,
    view,        \* the conversation on show, and what is shown of it
    badge, revision, sequence,   \* the status of each conversation, and when it was set
    listings,    \* listings that are not answered yet
    clicks, chatTurns, drops,
    odd          \* ways to go wrong the behaviour has met

served == <<chat, asked, chatTurns>>
wires == <<socket, toServer, toPage>>
badges == <<badge, revision, sequence>>
pageVars == <<served, wires, view, badges, listings, clicks, drops, odd>>

Statuses == {"idle", "busy", "waiting", "finished"}
Asks == 1..MaxAsks
Idle == [turn |-> "none", silent |-> FALSE, ask |-> 0, queued |-> FALSE, rows |-> FALSE]
Blank(c) == [cur |-> c, busy |-> FALSE, asks |-> {}, empty |-> TRUE]
Message(kind, c) == [kind |-> kind, of |-> c, ask |-> 0, active |-> FALSE, rows |-> FALSE,
                    status |-> "idle"]

TypeOK ==
    /\ chat \in [Chats -> [turn : {"none", "running", "said"}, silent : BOOLEAN, ask : 0..MaxAsks,
                           queued : BOOLEAN, rows : BOOLEAN]]
    /\ socket \in [up : BOOLEAN, subscribed : Chats \cup {NoChat}, joining : Chats \cup {NoChat}]
    /\ ~socket.up => toServer = <<>> /\ toPage = <<>> /\ socket.subscribed = NoChat
    /\ view \in [cur : Chats \cup {NoChat}, busy : BOOLEAN, asks : SUBSET (Chats \X Asks),
                 empty : BOOLEAN]
    /\ badge \in [Chats -> Statuses] /\ \A c \in Chats : revision[c] \in 0..sequence
    /\ \A l \in listings : l.at <= sequence

\* the status of a conversation, get_activity_status
Activity(c) == IF chat[c].ask # 0 THEN "waiting" ELSE IF chat[c].turn # "none" THEN "busy" ELSE "idle"

Init ==
    /\ chat = [c \in Chats |-> Idle]
    /\ asked = 0 /\ chatTurns = 0
    /\ \E c \in Chats :
         /\ view = Blank(c)
         /\ socket = [up |-> TRUE, subscribed |-> c, joining |-> NoChat]
    /\ toServer = <<>> /\ toPage = <<>>
    /\ badge = [c \in Chats |-> "idle"] /\ revision = [c \in Chats |-> 0] /\ sequence = 0
    /\ listings = {}
    /\ clicks = 0 /\ drops = 0 /\ odd = {}

-----------------------------------------------------------------------------
(* The two directions of the socket *)

Sent(msgs) == toServer' = IF socket.up THEN toServer \o msgs ELSE toServer
\* an event of a conversation goes to the page that is subscribed to it
Event(c, m) == IF socket.up /\ socket.subscribed = c THEN <<m>> ELSE <<>>
\* a status goes to every page
Push(c, s) == IF socket.up THEN <<[Message("status", c) EXCEPT !.status = s]>> ELSE <<>>
WithAsk(kind, c) == [Message(kind, c) EXCEPT !.ask = chat[c].ask]

-----------------------------------------------------------------------------
(* The turns, as far as they report *)

elsewhere == <<socket, toServer, view, badges, listings, clicks, drops>>

\* enqueue_turn on a conversation that is not busy
Started(c, silent) ==
    chat' = [chat EXCEPT ![c].turn = "running", ![c].silent = silent, ![c].rows = TRUE]

Wake(c) ==
    /\ chat[c].turn = "none" /\ chatTurns < MaxChatTurns
    /\ chatTurns' = chatTurns + 1
    /\ \E silent \in BOOLEAN : Started(c, silent)
    /\ toPage' = toPage \o Event(c, Message("start", c))
    /\ UNCHANGED <<asked, elsewhere, odd>>

\* request_confirmation
Ask(c) ==
    /\ chat[c].turn = "running" /\ chat[c].ask = 0 /\ asked < MaxAsks
    /\ asked' = asked + 1
    /\ chat' = [chat EXCEPT ![c].ask = asked']
    /\ toPage' = toPage \o Event(c, [Message("request", c) EXCEPT !.ask = asked'])
                        \o Push(c, "waiting")
    /\ UNCHANGED <<chatTurns, elsewhere, odd>>

\* the answer, or the timeout, is told to the page that is subscribed
Resolved(c) ==
    /\ chat' = [chat EXCEPT ![c].ask = 0]
    /\ toPage' = toPage \o Event(c, WithAsk("response", c)) \o Push(c, "busy")
    /\ odd' = IF socket.subscribed = c \/ ~socket.up THEN odd ELSE odd \cup {"untold"}

TimesOut(c) ==
    /\ chat[c].ask # 0 /\ Resolved(c)
    /\ UNCHANGED <<asked, chatTurns, elsewhere>>

\* the last message of a turn, or its error; a wake may end without a word
Say(c) ==
    /\ chat[c].turn = "running" /\ chat[c].ask = 0
    /\ chat' = [chat EXCEPT ![c].turn = "said"]
    /\ \/ ~chat[c].silent /\ toPage' = toPage \o Event(c, Message("final", c))
       \/ toPage' = toPage \o Event(c, Message("error", c))
       \/ chat[c].silent /\ UNCHANGED toPage
    /\ odd' = IF chat[c].silent THEN odd \cup {"silent"} ELSE odd
    /\ UNCHANGED <<asked, chatTurns, elsewhere>>

\* the finally block: the next of the queue starts, or the status is published
TurnEnds(c) ==
    /\ chat[c].turn = "said"
    /\ IF chat[c].queued
       THEN /\ chat' = [chat EXCEPT ![c].turn = "running", ![c].queued = FALSE, ![c].silent = FALSE]
            /\ toPage' = toPage \o Event(c, Message("start", c))
       ELSE /\ chat' = [chat EXCEPT ![c].turn = "none", ![c].silent = FALSE]
            /\ \E s \in {"finished", "idle"} : toPage' = toPage \o Push(c, s)
    /\ UNCHANGED <<asked, chatTurns, elsewhere, odd>>

-----------------------------------------------------------------------------
(* websocket_chat: one message after the other *)

\* _handle_select_conv: it answers, and subscribes when that was sent
Selects(c) ==
    /\ toPage' = Append(toPage, WithAsk("selected", c))
    /\ socket' = [socket EXCEPT !.joining = c]
    /\ UNCHANGED <<chat, odd>>

Joined ==
    /\ socket.joining # NoChat
    /\ socket' = [socket EXCEPT !.subscribed = socket.joining, !.joining = NoChat]
    /\ UNCHANGED <<served, toServer, toPage, view, badges, listings, clicks, drops,
                   odd>>

\* mutant: the history does not say what waits for an answer
LoadsRowsOnly(c) ==
    /\ toPage' = Append(toPage, [Message("history", c) EXCEPT !.active = chat[c].turn # "none",
                                                             !.rows = chat[c].rows])
    /\ socket' = [socket EXCEPT !.subscribed = c]
    /\ UNCHANGED <<chat, odd>>

\* _handle_load_history: a turn that has said its last word is still active
Loads(c) ==
    /\ toPage' = Append(toPage, [WithAsk("history", c) EXCEPT !.active = chat[c].turn # "none",
                                                            !.rows = chat[c].rows])
    /\ socket' = [socket EXCEPT !.subscribed = c]
    /\ odd' = IF chat[c].turn = "said" /\ ~chat[c].queued THEN odd \cup {"settling"} ELSE odd
    /\ UNCHANGED chat

\* _handle_send
Sends(c) ==
    /\ socket' = [socket EXCEPT !.subscribed = c]
    /\ IF chat[c].turn = "none"
       THEN /\ Started(c, FALSE)
            /\ toPage' = Append(toPage, Message("start", c))
       ELSE /\ chat' = [chat EXCEPT ![c].queued = TRUE]
            /\ UNCHANGED toPage
    /\ UNCHANGED odd

\* respond_to_confirmation
Answers(c, ask) ==
    /\ IF ask # 0 /\ chat[c].ask = ask THEN Resolved(c) ELSE UNCHANGED <<chat, toPage, odd>>
    /\ UNCHANGED socket

\* cancel_turn: a prompt is withdrawn without an event
Cancels(c) ==
    /\ IF chat[c].turn = "running"
       THEN /\ chat' = [chat EXCEPT ![c].turn = "said", ![c].ask = 0]
            /\ toPage' = toPage \o Event(c, Message("final", c))
            /\ odd' = IF chat[c].ask # 0 THEN odd \cup {"withdrawn"} ELSE odd
       ELSE UNCHANGED <<chat, toPage, odd>>
    /\ UNCHANGED socket

Handle ==
    /\ toServer # <<>> /\ socket.joining = NoChat
    /\ LET m == Head(toServer)
       IN  \/ m.kind = "select" /\ Selects(m.of)
           \/ m.kind = "load"   /\ Loads(m.of)
           \/ m.kind = "send"   /\ Sends(m.of)
           \/ m.kind = "answer" /\ Answers(m.of, m.ask)
           \/ m.kind = "cancel" /\ Cancels(m.of)
    /\ toServer' = Tail(toServer)
    /\ UNCHANGED <<asked, chatTurns, view, badges, listings, clicks, drops>>

-----------------------------------------------------------------------------
(* What the user does *)

\* #setConversationStatus
SetBadge(c, s) ==
    /\ sequence' = sequence + 1
    /\ revision' = [revision EXCEPT ![c] = sequence']
    /\ badge' = [badge EXCEPT ![c] = s]

Clicked == clicks < MaxClicks /\ clicks' = clicks + 1

\* selectConversation
Select(c) ==
    /\ view' = Blank(c)
    /\ IF badge[c] = "finished" THEN SetBadge(c, "idle") ELSE UNCHANGED badges
    /\ Sent(<<Message("select", c), Message("load", c)>>)

Click ==
    /\ Clicked
    /\ \E c \in Chats : Select(c)
    /\ UNCHANGED <<served, socket, toPage, listings, drops, odd>>

\* sendMessage in a conversation: shown at once, sent if the socket is up
Echo(c) ==
    /\ view' = [view EXCEPT !.busy = TRUE, !.empty = FALSE]
    /\ SetBadge(c, "busy")
    /\ Sent(<<Message("send", c)>>)

SendMessage ==
    /\ chatTurns < MaxChatTurns /\ view.cur # NoChat
    /\ Echo(view.cur)
    /\ chatTurns' = chatTurns + 1
    /\ UNCHANGED <<chat, asked, socket, toPage, listings, clicks, drops, odd>>

\* respondToConfirm
AnswerAsk ==
    /\ \E a \in view.asks :
         /\ view' = [view EXCEPT !.asks = @ \ {a}]
         /\ Sent(<<[Message("answer", a[1]) EXCEPT !.ask = a[2]]>>)
    /\ UNCHANGED <<served, socket, toPage, badges, listings, clicks, drops, odd>>

CancelTurn ==
    /\ Clicked /\ view.busy /\ view.cur # NoChat
    /\ Sent(<<Message("cancel", view.cur)>>)
    /\ UNCHANGED <<served, socket, toPage, view, badges, listings, drops, odd>>

-----------------------------------------------------------------------------
(* What the page receives *)

Listing == [at |-> sequence', served |-> FALSE, snap |-> [c \in Chats |-> "idle"]]

\* a prompt is shown for the conversation on show
Shown(c, ask) == IF ask # 0 /\ c = view.cur THEN view.asks \cup {<<c, ask>>} ELSE view.asks

\* the page has asked for c anew, and the answer is on its way
Reselected(c) ==
    \/ socket.joining = c
    \/ \E i \in DOMAIN toServer : toServer[i] = Message("select", c)
    \/ \E i \in 2..Len(toPage) : toPage[i].kind = "selected" /\ toPage[i].of = c

Receives(m) ==
    LET c == m.of
        here == c = view.cur
    IN  CASE m.kind = "selected" ->
                 /\ view' = [view EXCEPT !.asks = Shown(c, m.ask)]
                 /\ UNCHANGED <<badges, listings, odd>>
          [] m.kind = "history" ->
                 /\ view' = IF here THEN [view EXCEPT !.asks = Shown(c, m.ask), !.busy = @ \/ m.active,
                                                      !.empty = @ /\ ~m.rows]
                            ELSE view
                 /\ UNCHANGED <<badges, listings, odd>>
          [] m.kind = "start" ->
                 /\ SetBadge(c, "busy")
                 /\ view' = IF here THEN [view EXCEPT !.busy = TRUE] ELSE view
                 /\ odd' = IF here /\ Reselected(c) THEN odd \cup {"late"} ELSE odd
                 /\ UNCHANGED listings
          [] m.kind = "final" ->
                 /\ IF here
                    THEN /\ SetBadge(c, "idle")
                         /\ view' = [view EXCEPT !.busy = FALSE, !.empty = FALSE]
                         /\ listings' = listings \cup {Listing}
                    ELSE UNCHANGED <<badges, view, listings>>
                 /\ UNCHANGED odd
          [] m.kind = "status" ->
                 /\ SetBadge(c, IF m.status = "finished" /\ here THEN "idle" ELSE m.status)
                 /\ UNCHANGED <<view, listings, odd>>
          [] m.kind = "request" ->
                 /\ view' = [view EXCEPT !.asks = Shown(c, m.ask)]
                 /\ UNCHANGED <<badges, listings, odd>>
          [] m.kind = "response" ->
                 /\ view' = [view EXCEPT !.asks = @ \ {<<c, m.ask>>}]
                 /\ UNCHANGED <<badges, listings, odd>>
          [] m.kind = "error" ->
                 /\ SetBadge(c, "idle")
                 /\ view' = [(IF here THEN [view EXCEPT !.busy = FALSE] ELSE view)
                             EXCEPT !.cur = IF view.empty THEN NoChat ELSE @]
                 /\ UNCHANGED <<listings, odd>>

Receive ==
    /\ toPage # <<>> /\ Receives(Head(toPage))
    /\ toPage' = Tail(toPage)
    /\ UNCHANGED <<served, socket, toServer, clicks, drops>>

ServeListing ==
    /\ \E l \in listings :
         /\ ~l.served
         /\ listings' = (listings \ {l}) \cup
                {[l EXCEPT !.served = TRUE, !.snap = [c \in Chats |-> Activity(c)]]}
    /\ UNCHANGED <<served, wires, view, badges, clicks, drops, odd>>

\* mutant: what came over the socket since is not looked at
NewerAlways(l, c) == TRUE
\* nothing newer came over the socket since the listing was asked for
Newer(l, c) == revision[c] <= l.at

\* #syncConversationStatuses
Listed ==
    /\ \E l \in listings :
         LET taken == {c \in Chats : Newer(l, c)
                                     /\ (l.snap[c] # "idle" \/ badge[c] # "finished")}
         IN  /\ l.served /\ listings' = listings \ {l}
             /\ badge' = [c \in Chats |-> IF c \in taken THEN l.snap[c] ELSE badge[c]]
             /\ revision' = [c \in Chats |-> IF c \in taken THEN l.at ELSE revision[c]]
             /\ odd' = IF \E k \in listings \ {l} : k.at = l.at THEN odd \cup {"crossed"} ELSE odd
    /\ UNCHANGED <<served, wires, view, sequence, clicks, drops>>

-----------------------------------------------------------------------------
(* The connection *)

Disconnect ==
    /\ socket.up /\ drops < MaxDrops /\ drops' = drops + 1
    /\ socket' = [up |-> FALSE, subscribed |-> NoChat, joining |-> NoChat]
    /\ toServer' = <<>> /\ toPage' = <<>>
    /\ UNCHANGED <<served, view, badges, listings, clicks, odd>>

\* mutant: the page only asks to be subscribed again
ResubscribeOnly(c) ==
    /\ toServer' = <<Message("select", c)>>
    /\ UNCHANGED view
\* #resubscribe
Resubscribe(c) ==
    /\ toServer' = <<Message("select", c), Message("load", c)>>
    /\ view' = [Blank(c) EXCEPT !.cur = c]

Reconnect ==
    /\ ~socket.up
    /\ socket' = [socket EXCEPT !.up = TRUE]
    /\ UNCHANGED <<sequence, badge, revision>>
    /\ listings' = listings \cup {Listing}
    /\ IF view.cur = NoChat THEN UNCHANGED <<toServer, view>> ELSE Resubscribe(view.cur)
    /\ UNCHANGED <<served, toPage, clicks, drops, odd>>

Next ==
    \/ \E c \in Chats : Wake(c) \/ Ask(c) \/ TimesOut(c) \/ Say(c)
                        \/ TurnEnds(c)
    \/ Joined \/ Handle \/ Click \/ SendMessage \/ AnswerAsk
    \/ CancelTurn \/ Receive \/ ServeListing \/ Listed \/ Disconnect \/ Reconnect

Spec == Init /\ [][Next]_pageVars

-----------------------------------------------------------------------------
(* Properties *)

\* nothing is on its way
Still ==
    /\ socket.up /\ socket.joining = NoChat /\ toServer = <<>> /\ toPage = <<>>
    /\ listings = {}
Quiet == Still /\ \A c \in Chats : chat[c].turn = "none" /\ chat[c].ask = 0

\* When no turn runs, no conversation is shown busy or waiting, whatever order
\* listings and events came in; nor is the one on show marked as news.
BadgesSettle ==
    Quiet => /\ "crossed" \in odd \/ \A c \in Chats : badge[c] \notin {"busy", "waiting"}
             /\ view.cur # NoChat => badge[view.cur] = "idle" \/ "crossed" \in odd

\* When no turn runs, the page is not busy, shows no tool at work and no prompt.
PageSettles ==
    Quiet => /\ view.busy => odd \cap {"silent", "settling", "late"} # {}
             /\ view.asks # {} => odd \cap {"untold", "withdrawn"} # {}

\* A prompt that waits is on the page that shows its conversation, after a
\* change of conversation or a reconnection too.
PromptsAreShown ==
    Still /\ view.cur # NoChat /\ chat[view.cur].ask # 0 => <<view.cur, chat[view.cur].ask>> \in view.asks

=============================================================================
