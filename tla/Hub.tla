-------------------------------- MODULE Hub --------------------------------
(***************************************************************************)
(* The WebSocket hub and the notifications it pushes.  A hub goroutine     *)
(* owns the registry of connections and hands every broadcast to the       *)
(* buffers of the connections it concerns; each connection has a read pump *)
(* and a write pump of its own.  Nothing here ever blocks on a slow        *)
(* browser: a full buffer loses the message, and a resync notice has to    *)
(* take its place.                                                         *)
(*                                                                         *)
(* A message is its number and its address.  What a browser still has to   *)
(* learn (due) is kept beside the code's own state: it grows when a        *)
(* message for a registered connection is broadcast and shrinks when the   *)
(* message, or a notice that asks for a refetch, is read.                  *)
(***************************************************************************)
EXTENDS Integers, FiniteSets, Sequences, SequencesExt

CONSTANTS
  People,
  Tabs,          \* connections
  Person,        \* who opens each
  OrgOfPerson,   \* in which organization
  Connected,     \* tabs already signed in at the start
  Watching,      \* the topics those watch
  Chats,         \* contacts a tab may look at
  Topics,        \* topics a tab may watch
  MaxTopics,     \* maxTopicsPerClient
  BufferSize,    \* of a connection's send channel
  ChannelSize,   \* of the hub's broadcast channel
  MaxBroadcasts, \* other messages in one behaviour
  MaxNotes,      \* notifications in one behaviour
  MaxPings,      \* pings and subscriptions in one behaviour
  MaxReads,      \* requests about notifications in one behaviour
  PageSize       \* of a list of notifications

Companies == {OrgOfPerson[p] : p \in People}

ASSUME HubAssumption ==
  /\ BufferSize \in Nat \ {0} /\ ChannelSize \in Nat \ {0} /\ PageSize \in Nat \ {0}
  /\ MaxTopics \in Nat /\ MaxBroadcasts \in Nat /\ MaxNotes \in Nat /\ MaxPings \in Nat /\ MaxReads \in Nat
  /\ Connected \subseteq Tabs /\ Watching \subseteq Topics /\ Person \in [Tabs -> People] /\ OrgOfPerson \in [People -> Companies]
  /\ IsFiniteSet(People) /\ IsFiniteSet(Watching) /\ Cardinality(Watching) <= MaxTopics
  /\ "none" \notin People \cup Tabs

VARIABLES
  conn,        \* connections: how far they are, what they watch, their buffer
  clients,     \* the hub's registry
  channel,     \* the hub's broadcast channel
  work,        \* the message the hub is handing out
  due,         \* messages each registered browser has yet to learn of
  unannounced, \* browsers with a hole nothing tells them about
  note,        \* notifications rows
  page,        \* a person's walk through their notifications
  counted      \* broadcasts, pings and requests so far

hubVars == <<conn, clients, channel, work, due, unannounced, note, page, counted>>

None == "none"
Idle == [k |-> "idle"]
Closed == [k |-> "closed"]
Notice == [k |-> "notice", n |-> 0]
Pong == [k |-> "pong", n |-> 0]
Push(n, a) == [k |-> "msg", n |-> n, to |-> a]

\* an address: an organization, and at most one of a person, a chat and a topic
ToOrg(o) == [org |-> o, user |-> None, chat |-> None, topic |-> None]
ToUser(p) == [ToOrg(OrgOfPerson[p]) EXCEPT !.user = p]
ToContact(o, c) == [ToOrg(o) EXCEPT !.chat = c]
ToTopic(o, x) == [ToOrg(o) EXCEPT !.topic = x]

Org(t) == OrgOfPerson[Person[t]]

-----------------------------------------------------------------------------
(* Broadcasting *)

\* wants: topics at their word, contacts by what the tab looks at
Wants(t, a) ==
  IF a.topic # None THEN a.topic \in conn[t].topics
  ELSE a.chat = None \/ conn[t].view \in {None, a.chat}

\* the tabs broadcastMessage goes through: one user's, or the organization's
Walked(a) == {t \in clients : Org(t) = a.org /\ a.user \in {None, Person[t]}}

\* those of them that want it now
Addressed(a) == {t \in Walked(a) : a.user # None \/ Wants(t, a)}

\* Broadcast: into the channel, or lost when that is full
Broadcast(as) ==
  LET room == ChannelSize - Len(channel)
      taken == SubSeq(as, 1, IF Len(as) < room THEN Len(as) ELSE room)
      number(i) == counted.msgs + i
      lost == UNION {Addressed(as[i]) : i \in (Len(taken) + 1)..Len(as)}
  IN /\ counted' = [counted EXCEPT !.msgs = @ + Len(as)]
     /\ channel' = channel \o [i \in 1..Len(taken) |-> [n |-> number(i), to |-> taken[i]]]
     /\ due' = [t \in Tabs |-> due[t] \cup {number(i) : i \in {j \in 1..Len(as) : t \in Addressed(as[j])}}]
     /\ unannounced' = unannounced \cup lost
     /\ UNCHANGED <<conn, clients, work>>

\* a broadcast other than a notification's
Signal(as) ==
  /\ counted.msgs + Len(as) <= MaxBroadcasts
  /\ Broadcast(as)
  /\ UNCHANGED <<note, page>>

BroadcastToOrg(o) == Signal(<<ToOrg(o)>>)
BroadcastToContact(o, c) == Signal(<<ToContact(o, c)>>)
BroadcastToTopic(o, x) == Signal(<<ToTopic(o, x)>>)
BroadcastToUser(p) == Signal(<<ToUser(p)>>)

\* FilterOnlineUsers: people with a registered tab
Online(ps) == {p \in ps : \E t \in clients : Person[t] = p}

\* a new chat message for those who may see it and are online (broadcastNewMessage)
BroadcastToUsers(ps) ==
  /\ Online(ps) # {}
  /\ Signal(SetToSeq({ToUser(p) : p \in Online(ps)}))

\* Run takes a message and starts on the tabs it is for
TakeMessage ==
  /\ work = Idle /\ channel # <<>>
  /\ LET m == Head(channel) IN
       work' = IF Walked(m.to) = {} THEN Idle
               ELSE [k |-> "send", n |-> m.n, to |-> m.to, todo |-> Walked(m.to), tab |-> None]
  /\ channel' = Tail(channel)
  /\ UNCHANGED <<conn, clients, due, unannounced, note, page, counted>>

Next1(t) == IF work.todo = {t} THEN Idle ELSE [work EXCEPT !.k = "send", !.tab = None, !.todo = @ \ {t}]
Full(t) == Len(conn[t].buf) >= BufferSize
Put(t, x) == [conn EXCEPT ![t].buf = Append(@, x)]

\* one tab of broadcastMessage: passed over, into its buffer, or dropped
Deliver(t) ==
  /\ work.k = "send" /\ t \in work.todo
  /\ LET wanted == t \in Addressed(work.to) IN
       /\ CASE ~wanted -> work' = Next1(t) /\ UNCHANGED conn
            [] wanted /\ Full(t) -> work' = [work EXCEPT !.k = "full", !.tab = t] /\ UNCHANGED conn
            [] OTHER -> conn' = Put(t, Push(work.n, work.to)) /\ work' = Next1(t)
       /\ due' = [due EXCEPT ![t] = IF wanted THEN @ \cup {work.n} ELSE @ \ {work.n}]
  /\ UNCHANGED <<clients, channel, unannounced, note, page, counted>>

\* dropped: the notice, if the write pump has made room meanwhile ...
DroppedNotice ==
  /\ work.k = "full"
  /\ IF Full(work.tab)
     THEN work' = [work EXCEPT !.k = "evict"] /\ UNCHANGED conn
     ELSE conn' = Put(work.tab, Notice) /\ work' = Next1(work.tab)
  /\ UNCHANGED <<clients, channel, due, unannounced, note, page, counted>>

\* nothing makes room
DroppedKeepQueue ==
  /\ work.k = "evict"
  /\ work' = [work EXCEPT !.k = "retry"]
  /\ UNCHANGED <<conn, clients, channel, due, unannounced, note, page, counted>>

\* ... or else one queued message makes room ...
DroppedEvict ==
  /\ work.k = "evict"
  /\ conn' = [conn EXCEPT ![work.tab].buf = IF @ = <<>> THEN @ ELSE Tail(@)]
  /\ work' = [work EXCEPT !.k = "retry"]
  /\ UNCHANGED <<clients, channel, due, unannounced, note, page, counted>>

\* ... and the notice is tried again; a pong may have taken the place
DroppedRetry ==
  /\ work.k = "retry"
  /\ IF Full(work.tab)
     THEN /\ unannounced' = IF conn[work.tab].ponged THEN unannounced \cup {work.tab} ELSE unannounced
          /\ UNCHANGED conn
     ELSE conn' = Put(work.tab, Notice) /\ UNCHANGED unannounced
  /\ work' = Next1(work.tab)
  /\ UNCHANGED <<clients, channel, due, note, page, counted>>

-----------------------------------------------------------------------------
(* Connections *)

\* WebSocketHandler: the pumps of a connection nobody has signed in on
Open(t) ==
  /\ conn[t].st = "off"
  /\ conn' = [conn EXCEPT ![t].st = "anon", ![t].pump = TRUE]
  /\ UNCHANGED <<clients, channel, work, due, unannounced, note, page, counted>>

\* handleAuthMessage: a good token, and the hub is asked to register
Authenticate(t) ==
  /\ conn[t].st = "anon"
  /\ conn' = [conn EXCEPT ![t].st = "joining"]
  /\ UNCHANGED <<clients, channel, work, due, unannounced, note, page, counted>>

\* no token in five seconds or a bad one: the connection goes as it came
AuthFails(t) ==
  /\ conn[t].st = "anon"
  /\ conn' = [conn EXCEPT ![t].st = "gone", ![t].pump = FALSE]
  /\ UNCHANGED <<clients, channel, work, due, unannounced, note, page, counted>>

\* registerClient, between two messages
RegisterClient(t) ==
  /\ conn[t].st = "joining" /\ work = Idle
  /\ clients' = clients \cup {t}
  /\ conn' = [conn EXCEPT ![t].st = "in"]
  /\ UNCHANGED <<channel, work, due, unannounced, note, page, counted>>

\* ReadPump ends: the browser went, or a write failed and closed the connection
ReadPumpEnds(t) ==
  /\ conn[t].st = "in"
  /\ conn' = [conn EXCEPT ![t].st = "leaving"]
  /\ UNCHANGED <<clients, channel, work, due, unannounced, note, page, counted>>

\* unregisterClient, between two messages: the other tabs of the user stay
UnregisterClient(t) ==
  /\ conn[t].st = "leaving" /\ work = Idle
  /\ clients' = clients \ {t}
  /\ conn' = [conn EXCEPT ![t] = [@ EXCEPT !.st = "gone", !.pump = FALSE, !.buf = <<>>]]
  /\ due' = [due EXCEPT ![t] = {}]
  /\ unannounced' = unannounced \ {t}
  /\ UNCHANGED <<channel, work, note, page, counted>>

\* messages on their way to a tab
Coming(t) ==
  {channel[i].n : i \in 1..Len(channel)}
  \cup (IF work # Idle /\ t \in work.todo THEN {work.n} ELSE {})
  \cup {conn[t].buf[i].n : i \in 1..Len(conn[t].buf)}

\* WritePump sends the head of the buffer; a notice makes the browser fetch everything
WritePump(t) ==
  /\ conn[t].pump /\ conn[t].buf # <<>>
  /\ LET x == Head(conn[t].buf) IN
       /\ conn' = [conn EXCEPT ![t].buf = Tail(@), ![t].ponged = FALSE]
       /\ due' = [due EXCEPT ![t] = IF x.k = "notice" THEN @ \cap Coming(t) ELSE @ \ {x.n}]
       /\ unannounced' = IF x.k = "notice" THEN unannounced \ {t} ELSE unannounced
  /\ UNCHANGED <<clients, channel, work, note, page, counted>>

\* a write or a ping fails: the write pump ends, and the buffer is left to fill
WriteFails(t) ==
  /\ conn[t].pump /\ conn[t].st \in {"in", "leaving"}
  /\ conn' = [conn EXCEPT ![t].pump = FALSE]
  /\ UNCHANGED <<clients, channel, work, due, unannounced, note, page, counted>>

Asks == counted.pings < MaxPings /\ counted' = [counted EXCEPT !.pings = @ + 1]

\* sendPong: into the buffer unless it is full
SendPong(t) ==
  /\ Asks /\ conn[t].st = "in" /\ ~Full(t)
  /\ conn' = [Put(t, Pong) EXCEPT ![t].ponged = TRUE]
  /\ UNCHANGED <<clients, channel, work, due, unannounced, note, page>>

\* handleSetContact
SetContact(t, c) ==
  /\ Asks /\ conn[t].st = "in" /\ conn[t].view # c
  /\ conn' = [conn EXCEPT ![t].view = c]
  /\ UNCHANGED <<clients, channel, work, due, unannounced, note, page>>

\* handleSubscribe: up to the limit, the rest is ignored
Subscribe(t, x) ==
  /\ Asks /\ conn[t].st = "in" /\ x \notin conn[t].topics
  /\ conn' = [conn EXCEPT ![t].topics = IF Cardinality(@) >= MaxTopics THEN @ ELSE @ \cup {x}]
  /\ UNCHANGED <<clients, channel, work, due, unannounced, note, page>>

Unsubscribe(t, x) ==
  /\ Asks /\ x \in conn[t].topics /\ conn[t].st = "in"
  /\ conn' = [conn EXCEPT ![t].topics = @ \ {x}]
  /\ UNCHANGED <<clients, channel, work, due, unannounced, note, page>>

-----------------------------------------------------------------------------
(* Notifications *)

Before(a, b) == a.at < b.at \/ (a.at = b.at /\ a.id < b.id)
Instants == {n.at : n \in note} \cup {0}
Latest == CHOOSE i \in Instants : \A j \in Instants : j <= i

\* eligible: each once, and those who turned the type off left out
Eligible(asked, muted) == asked \ muted

\* Send: one row for each who wants it, with the same time or a later one, and a
\* push to each when the rows are stored
Send(ps, later, ids) ==
  /\ ps # {} /\ Cardinality(note) + Cardinality(ps) <= MaxNotes
  /\ ids \in [ps -> (1..MaxNotes) \ {n.id : n \in note}]
  /\ \A p, q \in ps : ids[p] = ids[q] => p = q
  /\ note' = note \cup {[user |-> p, at |-> IF later THEN Latest + 1 ELSE Latest, id |-> ids[p],
                         read |-> FALSE] : p \in ps}
  /\ Broadcast(SetToSeq({ToUser(p) : p \in ps}))
  /\ UNCHANGED page

Reads == counted.reads < MaxReads /\ counted' = [counted EXCEPT !.reads = @ + 1]

Unread(p) == {n \in note : n.user = p /\ ~n.read}

\* MarkNotificationRead: the caller's own
MarkNotificationRead(p, n) ==
  /\ Reads /\ n \in note /\ n.user = p /\ ~n.read
  /\ note' = (note \ {n}) \cup {[n EXCEPT !.read = TRUE]}
  /\ UNCHANGED <<conn, clients, channel, work, due, unannounced, page>>

MarkAllRead(p) ==
  /\ Reads /\ Unread(p) # {}
  /\ note' = (note \ Unread(p)) \cup {[n EXCEPT !.read = TRUE] : n \in Unread(p)}
  /\ UNCHANGED <<conn, clients, channel, work, due, unannounced, page>>

\* List: the rows older than the cursor, newest first
Rest(p, cursor) == {n \in Unread(p) : cursor = Closed \/ Before(n, cursor)}

Newest(ns, k) == {n \in ns : Cardinality({m \in ns : Before(n, m)}) < k}

\* ListNotifications: a page, and the cursor of the next unless this was the last
ListNotifications(p) ==
  /\ Reads /\ page.user \in {None, p} /\ Unread(p) # {}
  /\ LET rest == Rest(p, page.cursor)
         rows == Newest(rest, PageSize)
         last == CHOOSE n \in rows : \A m \in rows : ~Before(m, n)
         goal == IF page.user = None THEN {n.id : n \in Unread(p)} ELSE page.goal
     IN page' = IF rest = rows
                THEN [user |-> None, cursor |-> Closed, goal |-> {},
                      seen |-> {}, missed |-> (goal \cap {n.id : n \in Unread(p)}) \ (page.seen \cup {n.id : n \in rows})]
                ELSE [user |-> p, cursor |-> last, goal |-> goal,
                      seen |-> page.seen \cup {n.id : n \in rows}, missed |-> {}]
  /\ UNCHANGED <<conn, clients, channel, work, due, unannounced, note>>

-----------------------------------------------------------------------------
HubInit ==
  /\ conn = [t \in Tabs |-> [st |-> IF t \in Connected THEN "in" ELSE "off", view |-> None,
                             topics |-> IF t \in Connected THEN Watching ELSE {},
                             buf |-> <<>>, pump |-> t \in Connected, ponged |-> FALSE]]
  /\ clients = Connected /\ channel = <<>> /\ work = Idle
  /\ due = [t \in Tabs |-> {}] /\ unannounced = {}
  /\ note = {}
  /\ page = [user |-> None, cursor |-> Closed, goal |-> {}, seen |-> {}, missed |-> {}]
  /\ counted = [msgs |-> 0, pings |-> 0, reads |-> 0]

\* broadcasts and connections
StreamNext ==
  \/ \E o \in Companies : \/ BroadcastToOrg(o)
                          \/ \E c \in Chats : BroadcastToContact(o, c)
                          \/ \E x \in Topics : BroadcastToTopic(o, x)
  \/ \E ps \in SUBSET People : BroadcastToUsers(ps)
  \/ \E p \in People : BroadcastToUser(p)
  \/ TakeMessage \/ DroppedNotice \/ DroppedEvict \/ DroppedRetry
  \/ \E t \in Tabs :
       \/ Deliver(t) \/ Open(t) \/ Authenticate(t) \/ AuthFails(t) \/ RegisterClient(t)
       \/ ReadPumpEnds(t) \/ UnregisterClient(t) \/ WritePump(t) \/ WriteFails(t) \/ SendPong(t)
       \/ \E c \in Chats \cup {None} : SetContact(t, c)
       \/ \E x \in Topics : Subscribe(t, x) \/ Unsubscribe(t, x)

\* notifications, with their pushes
NotesNext ==
  \/ \E asked, muted \in SUBSET People, later \in BOOLEAN :
       LET ps == Eligible(asked, muted) IN \E ids \in [ps -> 1..MaxNotes] : Send(ps, later, ids)
  \/ TakeMessage
  \/ \E p \in People : \/ MarkAllRead(p) \/ ListNotifications(p)
                       \/ \E n \in note : MarkNotificationRead(p, n)

HubNext == StreamNext \/ NotesNext

HubSpec == HubInit /\ [][HubNext]_hubVars

-----------------------------------------------------------------------------
(* Properties *)

\* the hub's registry, buffers and messages keep their shape; a buffer, the channel
\* and a tab's topics stay within their limits (hub.go, client.go)
HubTypeOK ==
  /\ clients \subseteq Tabs
  /\ \A t \in Tabs : /\ Len(conn[t].buf) <= BufferSize
                     /\ conn[t].topics \subseteq Topics /\ Cardinality(conn[t].topics) <= MaxTopics
                     /\ due[t] \subseteq 1..(MaxBroadcasts + MaxNotes)
  /\ Len(channel) <= ChannelSize
  /\ Cardinality({n.id : n \in note}) = Cardinality(note)

\* The registry holds exactly the connections that are signed in and not yet
\* gone, so that nothing is ever put into a closed buffer and no open tab of a
\* user stops hearing when another is closed (registerClient, unregisterClient).
RegistryMatches == \A t \in Tabs : t \in clients <=> conn[t].st \in {"in", "leaving"}

\* A browser that is missing a message has it on its way or will be told to fetch
\* everything (dropped, hub.go): the notice is in its buffer or the hub is about to
\* put it there.  Left out are the two ways the code loses the notice as well: a
\* message that found the shared channel full, and a pong that took the place the
\* hub had just made.
HoleAnnounced ==
  \A t \in clients :
    \/ due[t] \subseteq Coming(t)
    \/ Contains(conn[t].buf, Notice)
    \/ work # Idle /\ work.tab = t
    \/ t \in unannounced

\* Nothing of another organization or for another person is ever in a tab's buffer,
\* whichever tabs come and go while the hub hands messages out (broadcastMessage).
OnlyAddressed ==
  \A t \in Tabs : \A i \in 1..Len(conn[t].buf) :
    LET x == conn[t].buf[i] IN
      x.k = "msg" => x.to.org = Org(t) /\ x.to.user \in {None, Person[t]}

\* Whoever pages through their notifications to the end has seen every one that was
\* there when they began and is still unread, whatever arrived or was read in
\* between and however many share an instant (List, notify.go).
PagesMissNothing == page.missed = {}

\* What a tab hears: its own messages, all of them or a notice, for as long as it
\* is signed in, and every notification (hub.go, client.go, notify.go).
HubInv == HubTypeOK /\ RegistryMatches /\ HoleAnnounced /\ OnlyAddressed /\ PagesMissNothing
===========================================================================
