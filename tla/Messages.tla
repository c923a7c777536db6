------------------------------ MODULE Messages ------------------------------
(***************************************************************************)
(* WhatsApp messages and what is told of them afterwards.  The first half  *)
(* sends: a row is stored before Meta is called, Meta's delivery receipts  *)
(* come back each in a goroutine of its own, in any order and more than    *)
(* once, and move the row and its campaign's counters; reactions are       *)
(* written into the row.  The second half receives: a customer's messages  *)
(* and the echoes of a phone, the campaign they answer, and who has read   *)
(* them.                                                                   *)
(*                                                                         *)
(* A request or goroutine that reads and later writes is a job between the *)
(* two; there are at most two jobs.  What overlapped or was cut off by a   *)
(* restart is noted (disturbed), because the code promises nothing there.  *)
(***************************************************************************)
EXTENDS Naturals, FiniteSets, Sequences, FiniteSetsExt

CONSTANTS
  Out,           \* outgoing messages
  InIds,         \* WhatsApp ids of a customer's messages and a phone's echoes
  EchoIds,       \* those of the echoes
  Agents,
  MaxCopies,     \* deliveries of one receipt or one message
  MaxTouches,    \* requests of people in one behaviour
  MaxStops       \* restarts in one behaviour

ASSUME MessagesAssumption ==
  IsFiniteSet(Out) /\ EchoIds \subseteq InIds
  /\ MaxCopies \in Nat /\ MaxTouches \in Nat /\ MaxStops \in Nat

VARIABLES
  row,        \* outgoing messages rows
  leg,        \* how far each send is
  progress,   \* what Meta knows of it
  copies,     \* receipts delivered so far
  heard,      \* receipts that found their row
  tally,      \* the campaign's counters
  recipient,  \* bulk_message_recipients status
  wish,       \* the reactions people last chose
  optedOut,   \* the contact's marketing_opt_out
  box,        \* incoming and echoed rows, in order
  origin,     \* the conversation's origin campaign
  replied,    \* campaign.replied events
  assignee,   \* of the conversation
  bot,        \* the chatbot handles the conversation
  marker,     \* conversation_reads
  opened,     \* how much each person has really seen
  jobs,       \* two requests or goroutines under way
  touches,    \* requests made, restarts
  disturbed   \* what overlapped, or was cut off

messageVars == <<row, leg, progress, copies, heard, tally, recipient, wish, optedOut, box,
                 origin, replied, assignee, bot, marker, opened, jobs, touches, disturbed>>

sendVars == <<row, leg, progress, copies, heard, tally, recipient, wish, optedOut>>
readVars == <<box, origin, replied, assignee, bot, marker, opened>>

Free0 == [k |-> "free"]
Receipts == {"sent", "delivered", "read", "failed"}
Statuses == {"none", "pending"} \cup Receipts
Nobody == "nobody"

\* a job more, in the first free place
Starts(j) ==
  \E i \in 1..2 :
    /\ jobs[i] = Free0 /\ (i = 2 => jobs[1] # Free0)
    /\ jobs' = [jobs EXCEPT ![i] = j]
Goes(i, j) == jobs' = [jobs EXCEPT ![i] = j]
Ends(i) == jobs' = [jobs EXCEPT ![i] = Free0]
Busy(ks) == \E i \in 1..2 : jobs[i].k \in ks
BusyWith(ks, m) == \E i \in 1..2 : jobs[i].k \in ks /\ jobs[i].m = m

Asked1 == touches.asked < MaxTouches /\ touches' = [touches EXCEPT !.asked = @ + 1]

-----------------------------------------------------------------------------
(* Sending *)

\* createOutgoingMessage: stored as pending before Meta is called
Stored(m, by) ==
  /\ row[m].st = "none"
  /\ row' = [row EXCEPT ![m] = [st |-> "pending", wamid |-> FALSE, by |-> by, react |-> {}]]
  /\ leg' = [leg EXCEPT ![m] = "sending"]
  /\ UNCHANGED <<progress, copies, heard, tally, recipient, wish, optedOut, readVars, jobs, touches, disturbed>>

\* SendOutgoingMessage: the row, and the send in a goroutine or at once
SendOutgoingMessage(m) == Stored(m, "direct")

SendMessage(m) == SendOutgoingMessage(m)
SendMediaMessage(m) == SendOutgoingMessage(m)

\* CheckTemplate: an opt-out stops marketing
CheckTemplate(marketing) == ~(marketing /\ optedOut)
SendTemplateMessage(m, marketing) == CheckTemplate(marketing) /\ SendOutgoingMessage(m)

\* the campaign worker stores, sends and counts by itself
CampaignSend(m) == CheckTemplate(TRUE) /\ Stored(m, "campaign")

\* processMarketingPreference
ProcessMarketingPreference(stop) ==
  /\ Asked1 /\ optedOut # stop
  /\ optedOut' = stop
  /\ UNCHANGED <<row, leg, progress, copies, heard, tally, recipient, wish, readVars, jobs, disturbed>>

\* Meta takes the message or refuses it
MetaAnswers(m, ok) ==
  /\ leg[m] = "sending"
  /\ leg' = [leg EXCEPT ![m] = IF ok THEN "accepted" ELSE "refused"]
  /\ progress' = IF ok THEN [progress EXCEPT ![m] = {"sent"}] ELSE progress
  /\ UNCHANGED <<row, copies, heard, tally, recipient, wish, optedOut, readVars, jobs, touches, disturbed>>

\* finalizeMessageSend, and the same two writes of the worker: the row by its id
FinalizeMessageSend(m) ==
  /\ leg[m] \in {"accepted", "refused"}
  /\ row' = [row EXCEPT ![m].st = IF leg[m] = "accepted" THEN "sent" ELSE "failed",
                        ![m].wamid = leg[m] = "accepted"]
  /\ recipient' = IF row[m].by # "campaign" THEN recipient
                  ELSE [recipient EXCEPT ![m] = IF leg[m] = "accepted" THEN "sent" ELSE "failed"]
  /\ leg' = [leg EXCEPT ![m] = "done"]
  /\ UNCHANGED <<progress, copies, heard, tally, wish, optedOut, readVars, jobs, touches, disturbed>>

\* the customer's phone gets it, or shows it, or it fails after all
MetaProgress(m, s) ==
  /\ "sent" \in progress[m] /\ "failed" \notin progress[m] /\ s \notin progress[m]
  /\ s \in {"read", "failed"} => "delivered" \in progress[m] \/ s = "failed"
  /\ s = "failed" => progress[m] = {"sent"}
  /\ progress' = [progress EXCEPT ![m] = @ \cup {s}]
  /\ UNCHANGED <<row, leg, copies, heard, tally, recipient, wish, optedOut, readVars, jobs, touches, disturbed>>

\* statusPriority
StatusPriority(s) ==
  CASE s = "pending" -> 0 [] s = "sent" -> 1 [] s = "delivered" -> 2 [] s = "read" -> 3
    [] s = "failed" -> 4 [] OTHER -> 0

\* whatever comes
MovesAlways(m, s) == s \in Receipts

\* a progression, or a failure
Moves(m, s) == StatusPriority(s) > StatusPriority(row[m].st) \/ s = "failed"

\* updateMessageStatus reads the row: none with that id yet, nothing to move, or on ...
UpdateMessageStatus(m, s) ==
  /\ s \in progress[m] /\ copies[m][s] < MaxCopies
  /\ copies' = [copies EXCEPT ![m][s] = @ + 1]
  /\ IF ~row[m].wamid THEN UNCHANGED <<heard, jobs, disturbed>>
     ELSE /\ heard' = [heard EXCEPT ![m] = @ \cup {s}]
          /\ disturbed' = IF BusyWith({"apply", "count"}, m) THEN disturbed \cup {m} ELSE disturbed
          /\ IF Moves(m, s) THEN Starts([k |-> "apply", m |-> m, s |-> s]) ELSE UNCHANGED jobs
  /\ UNCHANGED <<row, leg, progress, tally, recipient, wish, optedOut, readVars, touches>>

\* ... writes the status by the row's id ...
ApplyStatus(i) ==
  /\ jobs[i].k = "apply"
  /\ row' = [row EXCEPT ![jobs[i].m].st = jobs[i].s]
  /\ IF row[jobs[i].m].by = "campaign" THEN Goes(i, [jobs[i] EXCEPT !.k = "count"]) ELSE Ends(i)
  /\ UNCHANGED <<leg, progress, copies, heard, tally, recipient, wish, optedOut, readVars, touches, disturbed>>

\* ... and counts it, and tells the recipient's row (incrementCampaignStat)
IncrementCampaignStat(i) ==
  /\ jobs[i].k = "count"
  /\ tally' = IF jobs[i].s = "sent" THEN tally ELSE [tally EXCEPT ![jobs[i].s] = @ + 1]
  /\ recipient' = [recipient EXCEPT ![jobs[i].m] = jobs[i].s]
  /\ Ends(i)
  /\ UNCHANGED <<row, leg, progress, copies, heard, wish, optedOut, readVars, touches, disturbed>>

\* recalculateCampaignStats: from the rows as they are
RecalculateCampaignStats ==
  /\ Asked1 /\ \E m \in Out : row[m].by = "campaign"
  /\ LET with(ss) == Cardinality({m \in Out : row[m].by = "campaign" /\ row[m].st \in ss})
     IN tally' = [delivered |-> with({"delivered", "read"}), read |-> with({"read"}), failed |-> with({"failed"})]
  /\ disturbed' = disturbed \cup {m \in Out : BusyWith({"apply", "count"}, m)}
  /\ UNCHANGED <<row, leg, progress, copies, heard, recipient, wish, optedOut, readVars, jobs>>

\* handleIncomingReaction and SendReaction read the row's reactions ...
Reacts(m, who, on) ==
  /\ Asked1
  /\ who = "customer" => row[m].wamid
  /\ row[m].st # "none" /\ on # (who \in row[m].react)
  /\ wish' = [wish EXCEPT ![m] = IF on THEN @ \cup {who} ELSE @ \ {who}]
  /\ disturbed' = IF BusyWith({"react"}, m) THEN disturbed \cup {m} ELSE disturbed
  /\ Starts([k |-> "react", m |-> m, who |-> who, on |-> on, base |-> row[m].react])
  /\ UNCHANGED <<row, leg, progress, copies, heard, tally, recipient, optedOut, readVars>>

HandleIncomingReaction(m, on) == Reacts(m, "customer", on)
SendReaction(m, on) == Reacts(m, "agent", on)

\* the reactions with one changed
WithReaction(base, who, on) == IF on THEN base \cup {who} ELSE base \ {who}

\* ... and write them back
SaveReactions(i) ==
  /\ jobs[i].k = "react"
  /\ row' = [row EXCEPT ![jobs[i].m].react = WithReaction(jobs[i].base, jobs[i].who, jobs[i].on)]
  /\ Ends(i)
  /\ UNCHANGED <<leg, progress, copies, heard, tally, recipient, wish, optedOut, readVars, touches, disturbed>>

-----------------------------------------------------------------------------
(* Receiving and reading *)

SavedAs(id) == {n \in 1..Len(box) : box[n].id = id}

\* processIncomingMessage and processMessageEcho: not twice what is stored already ...
ProcessIncomingMessage(id) ==
  /\ touches.in[id] < MaxCopies
  /\ touches' = [touches EXCEPT !.in[id] = @ + 1]
  /\ SavedAs(id) = {}
  /\ disturbed' = IF Busy({"save"}) /\ \E i \in 1..2 : jobs[i].k = "save" /\ jobs[i].m = id
                  THEN disturbed \cup {id} ELSE disturbed
  /\ Starts([k |-> "save", m |-> id, echo |-> FALSE])
  /\ UNCHANGED <<sendVars, readVars>>

ProcessMessageEcho(id) ==
  /\ touches.in[id] < MaxCopies
  /\ touches' = [touches EXCEPT !.in[id] = @ + 1]
  /\ SavedAs(id) = {}
  /\ disturbed' = IF Busy({"save"}) /\ \E i \in 1..2 : jobs[i].k = "save" /\ jobs[i].m = id
                  THEN disturbed \cup {id} ELSE disturbed
  /\ Starts([k |-> "save", m |-> id, echo |-> TRUE])
  /\ UNCHANGED <<sendVars, readVars>>

\* ... saveIncomingMessage: the row, read at once when the chatbot handles the
\* conversation, and the conversation with its origin as it is now
SaveIncomingMessage(i) ==
  /\ jobs[i].k = "save" /\ ~jobs[i].echo
  /\ box' = Append(box, [id |-> jobs[i].m, echo |-> FALSE, st |-> IF bot THEN "read" ELSE "received",
                         tick |-> FALSE, why |-> IF bot THEN "bot" ELSE "none"])
  /\ IF origin THEN Ends(i) ELSE Goes(i, [k |-> "attribute", m |-> jobs[i].m])
  /\ disturbed' = IF Busy({"attribute"}) THEN disturbed \cup {"reply"} ELSE disturbed
  /\ UNCHANGED <<sendVars, origin, replied, assignee, bot, marker, opened, touches>>

\* an echo is stored as sent
SaveEcho(i) ==
  /\ jobs[i].k = "save" /\ jobs[i].echo
  /\ box' = Append(box, [id |-> jobs[i].m, echo |-> TRUE, st |-> "sent", tick |-> FALSE, why |-> "none"])
  /\ Ends(i)
  /\ UNCHANGED <<sendVars, origin, replied, assignee, bot, marker, opened, touches, disturbed>>

\* AttributeToCampaign and attributeCampaignReply: the origin is written if there is
\* still none, and the reply is counted either way
AttributeCampaignReply(i) ==
  /\ jobs[i].k = "attribute"
  /\ origin' = TRUE /\ replied' = replied + 1
  /\ Ends(i)
  /\ UNCHANGED <<sendVars, box, assignee, bot, marker, opened, touches, disturbed>>

\* the conversation is given to somebody, or the chatbot takes or leaves it
ConversationChanges(a, b) ==
  /\ Asked1 /\ (a # assignee \/ b # bot)
  /\ assignee' = a /\ bot' = b
  /\ UNCHANGED <<sendVars, box, origin, replied, marker, opened, jobs, disturbed>>

\* MaySendReadReceipts: whoever handles the conversation, or could
MaySendReadReceipts(u) == assignee \in {u, Nobody}

\* MarkContactRead without peek: the time and the conversation's assignee are read ...
MarkContactRead(u) ==
  /\ Asked1
  /\ Starts([k |-> "mark", u |-> u, at |-> Len(box), may |-> MaySendReadReceipts(u), from |-> assignee])
  /\ UNCHANGED <<sendVars, readVars, disturbed>>

\* the marker never moves back: GREATEST
Later(u, at) == IF at > marker[u] THEN at ELSE marker[u]

\* ... conversation.MarkRead upserts the person's marker ...
MarkRead(i) ==
  /\ jobs[i].k = "mark"
  /\ LET j == jobs[i] IN
       /\ marker' = [marker EXCEPT ![j.u] = Later(j.u, j.at)]
       /\ opened' = [opened EXCEPT ![j.u] = IF j.at > @ THEN j.at ELSE @]
       /\ IF j.may THEN Goes(i, [k |-> "select", why |-> CASE j.from = Nobody -> "open" [] j.from = j.u -> "handler"
                                                      [] OTHER -> "onlooker"])
          ELSE Ends(i)
  /\ UNCHANGED <<sendVars, box, origin, replied, assignee, bot, touches, disturbed>>

\* GetMessages marks everything read whoever asks
GetMessages(u) ==
  /\ Asked1
  /\ Starts([k |-> "select", why |-> "loaded"])
  /\ UNCHANGED <<sendVars, readVars, disturbed>>

\* the chatbot's reply does, too (MarkIncomingRead)
BotReplies ==
  /\ Asked1 /\ bot
  /\ Starts([k |-> "select", why |-> "bot"])
  /\ UNCHANGED <<sendVars, readVars, disturbed>>

Incoming == {n \in 1..Len(box) : ~box[n].echo}

\* markMessagesAsRead: what is unread is looked up for the receipts ...
SelectUnread(i) ==
  /\ jobs[i].k = "select"
  /\ Goes(i, [k |-> "update", why |-> jobs[i].why,
              rows |-> {n \in Incoming : box[n].st # "read"}, upto |-> Len(box)])
  /\ UNCHANGED <<sendVars, readVars, touches, disturbed>>

\* ... and everything is marked read and the receipts are sent
UpdateUnread(i) ==
  /\ jobs[i].k = "update"
  /\ LET j == jobs[i] IN
          box' = [n \in 1..Len(box) |->
            IF box[n].echo THEN box[n]
            ELSE [box[n] EXCEPT !.st = "read", !.tick = @ \/ n \in j.rows,
                                !.why = IF n \in j.rows /\ @ = "none" THEN j.why
                                        ELSE IF @ = "none" /\ n > j.upto THEN "late" ELSE @]]
  /\ Ends(i)
  /\ UNCHANGED <<sendVars, origin, replied, assignee, bot, marker, opened, touches, disturbed>>

\* UnreadFor: the badge of one person
UnreadFor(u) == {n \in Incoming : n > marker[u]}

-----------------------------------------------------------------------------
\* a restart ends sends and goroutines where they are
Restart ==
  /\ touches.stops < MaxStops /\ touches' = [touches EXCEPT !.stops = @ + 1]
  /\ Busy({"apply", "count", "react"}) \/ \E m \in Out : leg[m] \in {"sending", "accepted", "refused"}
  /\ leg' = [m \in Out |-> IF leg[m] \in {"none", "done"} THEN leg[m] ELSE "lost"]
  /\ jobs' = [i \in 1..2 |-> Free0]
  /\ disturbed' = disturbed \cup {m \in Out : BusyWith({"apply", "count", "react"}, m)}
  /\ UNCHANGED <<row, progress, copies, heard, tally, recipient, wish, optedOut, readVars>>

MessagesInit ==
  /\ row = [m \in Out |-> [st |-> "none", wamid |-> FALSE, by |-> "direct", react |-> {}]]
  /\ leg = [m \in Out |-> "none"]
  /\ progress = [m \in Out |-> {}]
  /\ copies = [m \in Out |-> [s \in Receipts |-> 0]]
  /\ heard = [m \in Out |-> {}]
  /\ tally = [delivered |-> 0, read |-> 0, failed |-> 0]
  /\ recipient = [m \in Out |-> "pending"]
  /\ wish = [m \in Out |-> {}] /\ optedOut = FALSE
  /\ box = <<>> /\ origin = FALSE /\ replied = 0
  /\ assignee = Nobody /\ bot = FALSE
  /\ marker = [u \in Agents |-> 0] /\ opened = [u \in Agents |-> 0]
  /\ jobs = [i \in 1..2 |-> Free0]
  /\ touches = [asked |-> 0, stops |-> 0, in |-> [id \in InIds |-> 0]]
  /\ disturbed = {}

\* sending
OutNext ==
  \/ \E m \in Out :
       \/ SendMessage(m) \/ SendMediaMessage(m) \/ CampaignSend(m) \/ FinalizeMessageSend(m)
       \/ \E b \in BOOLEAN : \/ SendTemplateMessage(m, b) \/ MetaAnswers(m, b)
                             \/ HandleIncomingReaction(m, b) \/ SendReaction(m, b)
       \/ \E s \in Receipts : MetaProgress(m, s) \/ UpdateMessageStatus(m, s)
  \/ \E b \in BOOLEAN : ProcessMarketingPreference(b)
  \/ \E i \in 1..2 : ApplyStatus(i) \/ IncrementCampaignStat(i) \/ SaveReactions(i)
  \/ RecalculateCampaignStats \/ Restart

\* receiving and reading
InNext ==
  \/ \E id \in InIds : IF id \in EchoIds THEN ProcessMessageEcho(id) ELSE ProcessIncomingMessage(id)
  \/ \E a \in Agents \cup {Nobody}, b \in BOOLEAN : ConversationChanges(a, b)
  \/ \E u \in Agents : MarkContactRead(u) \/ GetMessages(u)
  \/ BotReplies
  \/ \E i \in 1..2 : \/ SaveIncomingMessage(i) \/ SaveEcho(i) \/ AttributeCampaignReply(i)
                     \/ MarkRead(i) \/ SelectUnread(i) \/ UpdateUnread(i)

MessagesNext == OutNext \/ InNext
MessagesSpec == MessagesInit /\ [][MessagesNext]_messageVars

-----------------------------------------------------------------------------
(* Properties *)

\* Once its receipts are processed, a message shows the furthest of those that found
\* it, whatever their order and however often each came (statusPriority,
\* updateMessageStatus), unless two were processed at the same time or a restart cut
\* one off.  A receipt that came before the message's WhatsApp id was stored found
\* nothing.
StatusIsBest ==
  \A m \in Out :
    row[m].wamid /\ ~BusyWith({"apply"}, m) /\ m \notin disturbed =>
      StatusPriority(row[m].st) = Max({StatusPriority(s) : s \in heard[m] \cup {"sent"}})

\* The campaign's delivered and read counters count no message twice, and the
\* recipient's row agrees with the message's (incrementCampaignStat), on the same
\* condition.
CountersHonest ==
  LET told(ss) == {m \in Out : row[m].by = "campaign" /\ heard[m] \cap ss # {}} IN
  disturbed \cap Out = {} =>
    /\ tally.delivered <= Cardinality(told({"delivered", "read"}))
    /\ tally.read <= Cardinality(told({"read"}))
    /\ \A m \in Out : row[m].by = "campaign" /\ leg[m] = "done" /\ ~BusyWith({"apply", "count"}, m) =>
         recipient[m] = row[m].st

\* Everybody's last choice of reaction is in the row (handleIncomingReaction,
\* SendReaction), unless two were written at the same time.
ReactionsKept ==
  \A m \in Out : ~BusyWith({"react"}, m) /\ m \notin disturbed => row[m].react = wish[m]

\* A customer's message and a phone's echo are stored once however often they are
\* delivered (processIncomingMessage, processMessageEcho), unless two deliveries
\* were processed at the same time.
StoredOnce == \A id \in InIds : Cardinality(SavedAs(id)) <= 1 \/ id \in disturbed

\* A conversation is counted once as an answer to its campaign
\* (AttributeToCampaign), unless two messages came at the same time.
RepliedOnce == replied <= 1 \/ "reply" \in disturbed

\* A person's badge hides exactly what they have opened, in whatever order the
\* requests of their tabs end (conversation.MarkRead, UnreadFor).
BadgeHonest == \A u \in Agents : UnreadFor(u) = {n \in Incoming : n > opened[u]}

\* A customer's message that is shown as read has had its read receipt sent, unless
\* the chatbot handled it or it came in between the two statements
\* (markMessagesAsRead).
ReadIsReceipted ==
  \A n \in Incoming : box[n].st = "read" => box[n].tick \/ box[n].why \in {"bot", "late"}

\* The read receipt of a message goes out because its assignee opened the
\* conversation, or anybody while nobody was assigned, or the chatbot answered
\* (MaySendReadReceipts), never for an onlooker, except that GetMessages asks nobody.
TicksEarned == \A n \in Incoming : box[n].tick => box[n].why # "onlooker"

\* What the product shows of a message, to the agent, in the campaign's counters
\* and to the customer, is what happened to it (webhook.go, contacts.go).
MessagesInv ==
  /\ StatusIsBest /\ CountersHonest /\ ReactionsKept /\ StoredOnce /\ RepliedOnce
  /\ BadgeHonest /\ ReadIsReceipted /\ TicksEarned
===========================================================================
