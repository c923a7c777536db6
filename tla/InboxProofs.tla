----------------------------- MODULE InboxProofs -----------------------------
(* Proofs about Inbox, for any contacts, agents, teams and bounds.            *)
EXTENDS Inbox, SequenceTheorems, FiniteSetTheorems, WellFoundedInduction, TLAPS

-----------------------------------------------------------------------------
(* Tables as sequences of rows                                               *)

(* The least and the greatest of a bounded set of numbers are in it. *)
LEMMA MinIsMember ==
  ASSUME NEW S, S \subseteq Nat, S # {}
  PROVE  Min(S) \in S /\ \A y \in S : Min(S) =< y
<1> DEFINE R == OpToRel(<, Nat)
<1>1. \E x \in S : \A y \in S : ~ (<<y, x>> \in R)
  <2> HIDE DEF R
  <2>1. IsWellFoundedOn(R, Nat)
    BY NatLessThanWellFounded DEF R
  <2> QED  BY <2>1, WFMin
<1>2. \A x, y \in Nat : <<y, x>> \in R <=> y < x
  BY DEF OpToRel
<1>3. PICK x \in S : \A y \in S : ~ (<<y, x>> \in R)
  BY <1>1
<1>4. \A y \in S : x =< y
  <2> SUFFICES ASSUME NEW y \in S  PROVE x =< y
    OBVIOUS
  <2>1. ~ (y < x) /\ x \in Nat /\ y \in Nat
    BY <1>2, <1>3
  <2> QED  BY <2>1
<1> QED  BY <1>4 DEF Min

LEMMA MaxIsMember ==
  ASSUME NEW n \in Nat, NEW S, S \subseteq 1..n, S # {}
  PROVE  Max(S) \in S
<1> DEFINE D == {n - x : x \in S}
<1>1. D \subseteq Nat /\ D # {}
  <2>1. PICK z : z \in S
    OBVIOUS
  <2>2. n - z \in D
    BY <2>1
  <2>3. \A x \in 1..n : n - x \in Nat
    OBVIOUS
  <2>4. \A x \in S : n - x \in Nat
    BY <2>3
  <2> QED  BY <2>2, <2>4
<1>2. PICK d \in D : \A e \in D : d =< e
  <2> HIDE DEF D
  <2> QED  BY <1>1, MinIsMember
<1>3. PICK x \in S : d = n - x
  OBVIOUS
<1>4. \A y \in S : x >= y
  <2> SUFFICES ASSUME NEW y \in S  PROVE x >= y
    OBVIOUS
  <2>1. n - x =< n - y
    BY <1>2, <1>3
  <2> QED  BY <2>1
<1> QED  BY <1>4 DEF Max

LEMMA RowsOfTable ==
  ASSUME NEW Rows, NEW s \in Seq(Rows)
  PROVE  /\ DOMAIN s = 1..Len(s) /\ Len(s) \in Nat /\ s \in [DOMAIN s -> Rows]
         /\ \A i \in DOMAIN s : s[i] \in Rows
         /\ DOMAIN s \subseteq Nat \ {0}
  BY LenProperties

LEMMA TableOfRows ==
  ASSUME NEW Rows, NEW s \in Seq(Rows), NEW f \in [DOMAIN s -> Rows]
  PROVE  f \in Seq(Rows) /\ Len(f) = Len(s) /\ DOMAIN f = DOMAIN s
<1>1. f \in [1..Len(s) -> Rows] /\ Len(s) \in Nat
  BY RowsOfTable
<1>2. f \in Seq(Rows)
  BY <1>1, SeqDef
<1>3. DOMAIN f = 1..Len(f) /\ Len(f) \in Nat
  BY <1>2, LenProperties
<1>4. 1..Len(f) = 1..Len(s)
  BY <1>1, <1>3
<1>5. Len(f) = Len(s)
  BY <1>1, <1>3, <1>4
<1> QED  BY <1>1, <1>2, <1>3, <1>5, RowsOfTable

(* The rows of a table are rewritten in place and keep their contact. *)
Rewrite(old, new, Rows) == /\ new \in [DOMAIN old -> Rows]
                           /\ \A i \in DOMAIN old : new[i].contact = old[i].contact

LEMMA RewriteRow ==
  ASSUME NEW Rows, NEW s \in Seq(Rows), NEW i \in DOMAIN s, NEW r \in Rows,
         r.contact = s[i].contact
  PROVE  /\ Rewrite(s, [s EXCEPT ![i] = r], Rows)
         /\ [s EXCEPT ![i] = r][i] = r
         /\ \A j \in DOMAIN s : j # i => [s EXCEPT ![i] = r][j] = s[j]
  BY RowsOfTable DEF Rewrite

LEMMA AppendRow ==
  ASSUME NEW Rows, NEW s \in Seq(Rows), NEW r \in Rows
  PROVE  LET n == Len(s) + 1
             a == Append(s, r)
         IN /\ a \in Seq(Rows) /\ Len(a) = n /\ DOMAIN a = DOMAIN s \cup {n}
            /\ n \notin DOMAIN s /\ a[n] = r
            /\ \A i \in DOMAIN s : a[i] = s[i]
<1>1. Append(s, r) \in Seq(Rows) /\ Len(Append(s, r)) = Len(s) + 1
  OBVIOUS
<1>2. DOMAIN Append(s, r) = 1..(Len(s) + 1) /\ DOMAIN s = 1..Len(s) /\ Len(s) \in Nat
  BY <1>1, RowsOfTable
<1>3. /\ Append(s, r)[Len(s) + 1] = r
      /\ \A i \in 1..Len(s) : Append(s, r)[i] = s[i]
  OBVIOUS
<1>4. 1..(Len(s) + 1) = 1..Len(s) \cup {Len(s) + 1} /\ Len(s) + 1 \notin 1..Len(s)
  BY <1>2
<1> QED  BY <1>1, <1>2, <1>3, <1>4

-----------------------------------------------------------------------------
(* One live conversation per contact                                         *)

ConvTypes == conv \in Seq(Conversation) /\ Len(conv) <= MaxConvs

OneLive == \A i, j \in DOMAIN conv :
             /\ conv[i].contact = conv[j].contact
             /\ conv[i].status # "resolved" /\ conv[j].status # "resolved"
             => i = j

(* activeForUpdate finds the live conversation when there is one. *)
LEMMA LiveFacts ==
  ASSUME ConvTypes, NEW c
  PROVE  /\ Live(c) = 0 <=> LiveConvs(c) = {}
         /\ Live(c) # 0 => Live(c) \in LiveConvs(c)
<1>1. LiveConvs(c) \subseteq Nat \ {0}
  BY RowsOfTable DEF LiveConvs, ConvTypes
<1>2. LiveConvs(c) # {} => Min(LiveConvs(c)) \in LiveConvs(c)
  BY <1>1, MinIsMember
<1> QED  BY <1>1, <1>2 DEF Live

LEMMA ConvRow ==
  ASSUME ConvTypes, NEW i \in DOMAIN conv
  PROVE  conv[i] \in Conversation /\ conv[i].contact \in Contacts
<1>1. conv[i] \in Conversation
  BY RowsOfTable DEF ConvTypes
<1> QED  BY <1>1 DEF Conversation

(* What a step may do to the conversations. *)
ConvStep == ConvTypes' /\ OneLive' /\ DOMAIN conv \subseteq DOMAIN conv'

LEMMA ConvStays ==
  ASSUME ConvTypes, OneLive, UNCHANGED conv
  PROVE  ConvStep
  BY DEF ConvStep, ConvTypes, OneLive

(* No conversation comes to life. *)
LEMMA ConvKeeps ==
  ASSUME ConvTypes, OneLive, Rewrite(conv, conv', Conversation),
         \A i \in DOMAIN conv : conv'[i].status # "resolved" => conv[i].status # "resolved"
  PROVE  ConvStep
<1>1. ConvTypes' /\ DOMAIN conv' = DOMAIN conv
  BY TableOfRows DEF ConvTypes, Rewrite
<1>2. OneLive'
  BY <1>1 DEF OneLive, Rewrite
<1> QED  BY <1>1, <1>2 DEF ConvStep

(* One conversation is written, that was live or whose contact has none. *)
LEMMA ConvWrites ==
  ASSUME ConvTypes, OneLive, NEW i \in DOMAIN conv, NEW r \in Conversation,
         r.contact = conv[i].contact, conv' = [conv EXCEPT ![i] = r],
         \/ conv[i].status # "resolved"
         \/ LiveConvs(conv[i].contact) = {}
         \/ r.status = "resolved"
  PROVE  ConvStep
<1>1. /\ Rewrite(conv, conv', Conversation)
      /\ conv'[i] = r /\ \A j \in DOMAIN conv : j # i => conv'[j] = conv[j]
  BY RewriteRow DEF ConvTypes
<1>2. ConvTypes' /\ DOMAIN conv' = DOMAIN conv
  BY <1>1, TableOfRows DEF ConvTypes, Rewrite
<1>3. OneLive'
  <2>1. CASE conv[i].status # "resolved" \/ r.status = "resolved"
    BY <1>1, <1>2, <2>1 DEF OneLive
  <2>2. CASE LiveConvs(conv[i].contact) = {}
    BY <1>1, <1>2, <2>2 DEF OneLive, LiveConvs
  <2> QED  BY <2>1, <2>2
<1> QED  BY <1>2, <1>3 DEF ConvStep

LEMMA ConvOpens ==
  ASSUME ConvTypes, OneLive, NEW r \in Conversation, CreateConversation(r.contact, r),
         MaxConvs \in Nat
  PROVE  ConvStep
<1>1. /\ conv' \in Seq(Conversation) /\ Len(conv') = Len(conv) + 1
      /\ DOMAIN conv' = DOMAIN conv \cup {Len(conv) + 1}
      /\ Len(conv) + 1 \notin DOMAIN conv /\ conv'[Len(conv) + 1] = r
      /\ \A i \in DOMAIN conv : conv'[i] = conv[i]
  BY AppendRow DEF ConvTypes, CreateConversation
<1>2. Len(conv) \in Nat /\ Len(conv) < MaxConvs /\ LiveConvs(r.contact) = {}
  BY LiveFacts, RowsOfTable DEF CreateConversation, ConvTypes
<1>3. ConvTypes'
  BY <1>1, <1>2 DEF ConvTypes
<1>4. OneLive'
  BY <1>1, <1>2 DEF OneLive, LiveConvs
<1> QED  BY <1>1, <1>3, <1>4 DEF ConvStep

-----------------------------------------------------------------------------
(* The inductive invariant                                                   *)

XferTypes == xfer \in Seq(Transfer) /\ Len(xfer) <= MaxTransfers

PeopleTypes ==
  /\ owner \in [Contacts -> AgentOrNone]
  /\ session \subseteq Contacts /\ botWait \subseteq Contacts
  /\ repliers \in [Contacts -> SUBSET Agents]
  /\ away \subseteq Agents
  /\ team \in [Teams -> [exists: BOOLEAN, active: BOOLEAN,
                         members: SUBSET Agents, strategy: Strategies]]
  /\ cache \in [Teams -> TeamConfig \cup {None}]
  /\ stamps \in [Teams -> Seq(Agents)]
  /\ ops \in 0..MaxOps

(* What an unlocked read may have left in flight: it names rows that exist,  *)
(* and a whole row still to be saved is that of an active transfer of the    *)
(* same contact, picked up if somebody is to hold it.                        *)
SweepRead == [op: {"sweep"}, rows: SUBSET DOMAIN conv]
FillRead == [op: {"fill"}, team: Teams, cfg: TeamConfig]
CreateRead == [op: {"create"}, contact: Contacts, agent: AgentOrNone, team: TeamOrNone]
PickRead == [op: {"pick"}, agent: Agents, cand: DOMAIN xfer, skip: SUBSET DOMAIN xfer]
AssignRead == {f \in [op: {"assign"}, id: DOMAIN xfer, row: Transfer] :
                 /\ f.row.status = "active" /\ f.row.contact = xfer[f.id].contact
                 /\ f.row.agent # None => f.row.picked}
ReturnRead == [op: {"return"}, agent: Agents, held: SUBSET ((DOMAIN xfer) \X TeamOrNone)]
CloseRead == {f \in [op: {"close"}, rows: SUBSET ((DOMAIN xfer) \X Transfer)] :
                \A h \in f.rows : h[2].contact = xfer[h[1]].contact}

Reads == SweepRead \cup FillRead \cup CreateRead \cup PickRead \cup AssignRead
         \cup ReturnRead \cup CloseRead

FlightTypes == /\ flight \subseteq Reads
               /\ IsFiniteSet(flight) /\ Cardinality(flight) <= MaxFlight

Inv == /\ ConvTypes /\ OneLive
       /\ XferTypes /\ HeldIsPickedUp
       /\ PeopleTypes /\ FlightTypes

-----------------------------------------------------------------------------
(* What a step may do to the transfers                                       *)

XferStep == /\ XferTypes' /\ HeldIsPickedUp' /\ DOMAIN xfer \subseteq DOMAIN xfer'
            /\ \A x \in DOMAIN xfer : xfer'[x].contact = xfer[x].contact

LEMMA XferRow ==
  ASSUME XferTypes, NEW x \in DOMAIN xfer
  PROVE  xfer[x] \in Transfer /\ xfer[x].contact \in Contacts
<1>1. xfer[x] \in Transfer
  BY RowsOfTable DEF XferTypes
<1> QED  BY <1>1 DEF Transfer

LEMMA XferStays ==
  ASSUME XferTypes, HeldIsPickedUp, UNCHANGED xfer
  PROVE  XferStep
  BY DEF XferStep, XferTypes, HeldIsPickedUp

LEMMA XferRewrites ==
  ASSUME XferTypes, Rewrite(xfer, xfer', Transfer),
         \A x \in DOMAIN xfer :
           xfer'[x].status = "active" /\ xfer'[x].agent # None => xfer'[x].picked
  PROVE  XferStep /\ DOMAIN xfer' = DOMAIN xfer
<1>1. XferTypes' /\ DOMAIN xfer' = DOMAIN xfer
  BY TableOfRows DEF XferTypes, Rewrite
<1>2. HeldIsPickedUp'
  BY <1>1 DEF HeldIsPickedUp
<1> QED  BY <1>1, <1>2 DEF XferStep, Rewrite

LEMMA XferWrites ==
  ASSUME XferTypes, HeldIsPickedUp, NEW x \in DOMAIN xfer, NEW r \in Transfer,
         r.contact = xfer[x].contact, xfer' = [xfer EXCEPT ![x] = r],
         r.status = "active" /\ r.agent # None => r.picked
  PROVE  /\ XferStep /\ DOMAIN xfer' = DOMAIN xfer
         /\ xfer'[x] = r /\ \A y \in DOMAIN xfer : y # x => xfer'[y] = xfer[y]
<1>1. /\ Rewrite(xfer, xfer', Transfer)
      /\ xfer'[x] = r /\ \A y \in DOMAIN xfer : y # x => xfer'[y] = xfer[y]
  BY RewriteRow DEF XferTypes
<1>2. \A y \in DOMAIN xfer :
        xfer'[y].status = "active" /\ xfer'[y].agent # None => xfer'[y].picked
  BY <1>1 DEF HeldIsPickedUp
<1> QED  BY <1>1, <1>2, XferRewrites

LEMMA XferInserts ==
  ASSUME XferTypes, HeldIsPickedUp, NEW r \in Transfer, xfer' = Append(xfer, r),
         Len(xfer) < MaxTransfers, MaxTransfers \in Nat,
         r.agent # None => r.picked
  PROVE  /\ XferStep
         /\ DOMAIN xfer' = DOMAIN xfer \cup {Len(xfer) + 1}
         /\ xfer'[Len(xfer) + 1] = r /\ \A x \in DOMAIN xfer : xfer'[x] = xfer[x]
<1>1. /\ xfer' \in Seq(Transfer) /\ Len(xfer') = Len(xfer) + 1
      /\ DOMAIN xfer' = DOMAIN xfer \cup {Len(xfer) + 1}
      /\ Len(xfer) + 1 \notin DOMAIN xfer /\ xfer'[Len(xfer) + 1] = r
      /\ \A x \in DOMAIN xfer : xfer'[x] = xfer[x]
  BY AppendRow DEF XferTypes
<1>2. XferTypes'
  BY <1>1, RowsOfTable DEF XferTypes
<1>3. HeldIsPickedUp'
  BY <1>1 DEF HeldIsPickedUp
<1> QED  BY <1>1, <1>2, <1>3 DEF XferStep

-----------------------------------------------------------------------------
(* The operators of the model                                                *)

(* Mirroring and handling rewrite conversations without waking or ending one. *)
LEMMA MirroredFacts ==
  ASSUME NEW cs \in Seq(Conversation), NEW t \in Transfer
  PROVE  /\ Rewrite(cs, Mirrored(cs, t), Conversation)
         /\ \A i \in DOMAIN cs : Mirrored(cs, t)[i].status = cs[i].status
         /\ \A i \in DOMAIN cs :
              t.status = "active" /\ cs[i].contact = t.contact /\ cs[i].status # "resolved"
                => Mirrored(cs, t)[i].assignee = t.agent
<1>1. ASSUME NEW i \in DOMAIN cs
      PROVE  /\ Mirrored(cs, t)[i] \in Conversation
             /\ Mirrored(cs, t)[i].status = cs[i].status
             /\ Mirrored(cs, t)[i].contact = cs[i].contact
             /\ t.status = "active" /\ cs[i].contact = t.contact /\ cs[i].status # "resolved"
                => Mirrored(cs, t)[i].assignee = t.agent
  <2>1. cs[i] \in Conversation
    BY RowsOfTable
  <2>2. /\ t.agent \in AgentOrNone /\ t.team \in TeamOrNone /\ None \in AgentOrNone
        /\ "human" \in {"none", "bot", "human", "handoff_pending"}
    BY DEF Transfer, AgentOrNone
  <2>3. CASE cs[i].contact # t.contact \/ cs[i].status = "resolved"
    BY <2>1, <2>3 DEF Mirrored
  <2>4. CASE ~(cs[i].contact # t.contact \/ cs[i].status = "resolved") /\ t.status = "active"
    <3>1. Mirrored(cs, t)[i] =
            [cs[i] EXCEPT !.assignee = t.agent, !.team = t.team,
                          !.handling = IF t.agent # None THEN "human" ELSE @]
      BY <2>4 DEF Mirrored
    <3> QED  BY <2>1, <2>2, <2>4, <3>1 DEF Conversation
  <2>5. CASE ~(cs[i].contact # t.contact \/ cs[i].status = "resolved") /\ t.status # "active"
    <3>1. Mirrored(cs, t)[i] = cs[i] \/ Mirrored(cs, t)[i] = [cs[i] EXCEPT !.assignee = None]
      BY <2>5 DEF Mirrored
    <3> QED  BY <2>1, <2>2, <2>5, <3>1 DEF Conversation
  <2> QED  BY <2>3, <2>4, <2>5
<1>2. Mirrored(cs, t) \in [DOMAIN cs -> Conversation]
  <2>1. \A i \in DOMAIN cs : Mirrored(cs, t)[i] \in Conversation
    BY <1>1
  <2> QED  BY <2>1 DEF Mirrored
<1> QED  BY <1>1, <1>2 DEF Rewrite

LEMMA HandledFacts ==
  ASSUME NEW cs \in Seq(Conversation), NEW c,
         NEW h \in {"none", "bot", "human", "handoff_pending"}
  PROVE  /\ Rewrite(cs, Handled(cs, c, h), Conversation)
         /\ \A i \in DOMAIN cs : Handled(cs, c, h)[i].status = cs[i].status
         /\ \A i \in DOMAIN cs : Handled(cs, c, h)[i].assignee = cs[i].assignee
<1>1. ASSUME NEW i \in DOMAIN cs
      PROVE  /\ Handled(cs, c, h)[i] \in Conversation
             /\ Handled(cs, c, h)[i].status = cs[i].status
             /\ Handled(cs, c, h)[i].contact = cs[i].contact
             /\ Handled(cs, c, h)[i].assignee = cs[i].assignee
  <2>1. cs[i] \in Conversation
    BY RowsOfTable
  <2> QED  BY <2>1 DEF Handled, Conversation
<1>2. Handled(cs, c, h) \in [DOMAIN cs -> Conversation]
  <2>1. \A i \in DOMAIN cs : Handled(cs, c, h)[i] \in Conversation
    BY <1>1
  <2> QED  BY <2>1 DEF Handled
<1> QED  BY <1>1, <1>2 DEF Rewrite

LEMMA NewTransferFacts ==
  ASSUME NEW c \in Contacts, NEW a \in AgentOrNone, NEW t \in TeamOrNone
  PROVE  /\ NewTransfer(c, a, t) \in Transfer
         /\ NewTransfer(c, a, t).agent = a /\ NewTransfer(c, a, t).contact = c
         /\ NewTransfer(c, a, t).status = "active"
         /\ a # None => NewTransfer(c, a, t).picked
<1>1. 0 \in 0..2
  OBVIOUS
<1>2. NewTransfer(c, a, t) \in Transfer
  BY <1>1, Zenon DEF NewTransfer, Transfer
<1> QED  BY <1>2 DEF NewTransfer

LEMMA PickedUpFacts ==
  ASSUME NEW t \in Transfer
  PROVE  /\ PickedUp(t) \in Transfer /\ PickedUp(t).picked
         /\ PickedUp(t).contact = t.contact /\ PickedUp(t).status = t.status
         /\ PickedUp(t).agent = t.agent
  BY DEF PickedUp, Transfer

-----------------------------------------------------------------------------
(* The assigner                                                              *)

LEMMA ConfigTypes ==
  ASSUME PeopleTypes, NEW t \in Teams
  PROVE  GetTeamConfig(t) \in TeamConfig \cup {None}
<1>1. team[t] \in [exists: BOOLEAN, active: BOOLEAN, members: SUBSET Agents,
                   strategy: Strategies] /\ cache[t] \in TeamConfig \cup {None}
  BY DEF PeopleTypes
<1>2. DBConfig(t) \in TeamConfig \cup {None}
  BY <1>1 DEF DBConfig, TeamConfig
<1> QED  BY <1>1, <1>2 DEF GetTeamConfig

(* ORDER BY last_assigned_at picks one of the rows it is given. *)
LEMMA LongestIsARow ==
  ASSUME NEW rows, NEW order \in Seq(Agents)
  PROVE  Longest(rows, order) \subseteq rows \cup {None}
<1> DEFINE ranked == {i \in DOMAIN order : order[i] \in rows}
<1>1. ranked \subseteq Nat
  BY RowsOfTable
<1>2. ranked # {} => Min(ranked) \in ranked
  BY <1>1, MinIsMember
<1>3. Longest(rows, order) \in SUBSET (rows \ ToSet(order))
      \/ (ranked # {} /\ Longest(rows, order) = {order[Min(ranked)]})
      \/ Longest(rows, order) = {None}
  BY DEF Longest
<1> QED  BY <1>2, <1>3

(* Whatever the strategy, work goes to an available agent or to nobody, and  *)
(* round robin looks no further than the present members.                    *)
LEMMA AssignFacts ==
  ASSUME PeopleTypes, NEW t \in Teams
  PROVE  /\ AssignToTeam(t) \subseteq (Agents \ away) \cup {None}
         /\ GetTeamConfig(t) # None /\ GetTeamConfig(t).strategy = "round_robin"
              => AssignToTeam(t) \subseteq team[t].members \cup {None}
<1>1. /\ away \subseteq Agents /\ stamps[t] \in Seq(Agents)
      /\ team[t].members \subseteq Agents
  BY DEF PeopleTypes
<1>2. ASSUME NEW m \in SUBSET Agents
      PROVE  /\ RoundRobin(t, m) \subseteq (Agents \ away) \cup {None}
             /\ RoundRobin(t, m) \subseteq team[t].members \cup {None}
  <2> DEFINE rows == Available(m) \cap (IF team[t].exists THEN team[t].members ELSE {})
  <2>1. RoundRobin(t, m) \subseteq rows \cup {None}
    <3> HIDE DEF rows
    <3>1. Longest(rows, stamps[t]) \subseteq rows \cup {None}
      BY <1>1, LongestIsARow
    <3> QED  BY <3>1 DEF RoundRobin, rows
  <2>2. rows \subseteq Agents \ away /\ rows \subseteq team[t].members
    BY DEF Available
  <2> QED  BY <2>1, <2>2
<1>3. ASSUME NEW m \in SUBSET Agents
      PROVE  LoadBalanced(m) \subseteq (Agents \ away) \cup {None}
  BY DEF LoadBalanced, Available
<1>4. CASE GetTeamConfig(t) = None
  BY <1>4 DEF AssignToTeam
<1>5. CASE GetTeamConfig(t) # None
  <2>1. PICK cfg \in TeamConfig : cfg = GetTeamConfig(t)
    BY <1>5, ConfigTypes
  <2>2. cfg.members \in SUBSET Agents
    BY <2>1 DEF TeamConfig
  <2>3. CASE cfg.strategy = "load_balanced"
    BY <1>3, <1>5, <2>1, <2>2, <2>3 DEF AssignToTeam
  <2>4. CASE cfg.strategy = "manual"
    BY <1>5, <2>1, <2>4 DEF AssignToTeam
  <2>5. CASE cfg.strategy \notin {"load_balanced", "manual"}
    <3>1. AssignToTeam(t) = RoundRobin(t, cfg.members)
      BY <1>5, <2>1, <2>5 DEF AssignToTeam
    <3> QED  BY <1>2, <2>2, <3>1
  <2> QED  BY <2>3, <2>4, <2>5
<1> QED  BY <1>4, <1>5

LEMMA UnstampedTypes ==
  ASSUME NEW order \in Seq(Agents), NEW a
  PROVE  Unstamped(order, a) \in Seq(Agents)
<1>1. CASE a \notin ToSet(order)
  BY <1>1 DEF Unstamped
<1>2. CASE a \in ToSet(order)
  <2>1. \E i \in DOMAIN order : order[i] = a
    BY <1>2 DEF ToSet
  <2>2. PICK i \in DOMAIN order : Unstamped(order, a) = RemoveAt(order, i)
    BY <1>2, <2>1 DEF Unstamped
  <2>3. i \in 1..Len(order) /\ Len(order) \in Nat
    BY RowsOfTable
  <2>4. SubSeq(order, 1, i - 1) \in Seq(Agents) /\ SubSeq(order, i + 1, Len(order)) \in Seq(Agents)
    BY <2>3
  <2> QED  BY <2>2, <2>4 DEF RemoveAt
<1> QED  BY <1>1, <1>2

LEMMA SameAgentTypes ==
  ASSUME PeopleTypes, NEW c \in Contacts
  PROVE  SameAgentOf(c) \in AgentOrNone
  BY DEF SameAgentOf, PeopleTypes, AgentOrNone

-----------------------------------------------------------------------------
(* Reads in flight                                                           *)

LEMMA ReadKinds ==
  ASSUME FlightTypes, NEW f \in flight
  PROVE  /\ f.op = "sweep" => f \in SweepRead
         /\ f.op = "fill" => f \in FillRead
         /\ f.op = "create" => f \in CreateRead
         /\ f.op = "pick" => f \in PickRead
         /\ f.op = "assign" => f \in AssignRead
         /\ f.op = "return" => f \in ReturnRead
         /\ f.op = "close" => f \in CloseRead
<1>1. /\ \A g \in SweepRead : g.op = "sweep"
      /\ \A g \in FillRead : g.op = "fill"
      /\ \A g \in CreateRead : g.op = "create"
      /\ \A g \in PickRead : g.op = "pick"
      /\ \A g \in AssignRead : g.op = "assign"
      /\ \A g \in ReturnRead : g.op = "return"
      /\ \A g \in CloseRead : g.op = "close"
  BY DEF SweepRead, FillRead, CreateRead, PickRead, AssignRead, ReturnRead, CloseRead
<1>2. f \in SweepRead \cup FillRead \cup CreateRead \cup PickRead \cup AssignRead
            \cup ReturnRead \cup CloseRead
  BY DEF FlightTypes, Reads
<1> QED  BY <1>1, <1>2

-----------------------------------------------------------------------------
(* The steps that write transfers                                            *)

Inserts == \E c \in Contacts, a \in AgentOrNone, t \in TeamOrNone, e \in BOOLEAN :
             Finalize(c, a, t, e)

LEMMA CreateInserts ==
  ASSUME PeopleTypes, FlightTypes, NEW f \in flight, CreateAgentTransfer(f)
  PROVE  Inserts \/ UNCHANGED <<conv, xfer, owner, session, botWait, repliers, people>>
<1>1. f.op = "create" /\ f \in CreateRead
  BY ReadKinds DEF CreateAgentTransfer
<1>2. f.contact \in Contacts /\ f.agent \in AgentOrNone /\ f.team \in TeamOrNone
  BY <1>1 DEF CreateRead
<1>3. None \in AgentOrNone /\ None \in TeamOrNone /\ TRUE \in BOOLEAN
  BY DEF AgentOrNone, TeamOrNone
<1>4. CASE f.agent = None /\ f.team # None
           /\ \E a \in AssignToTeam(f.team) : Finalize(f.contact, a, f.team, TRUE)
  <2>1. f.team \in Teams
    BY <1>2, <1>4 DEF TeamOrNone
  <2>2. AssignToTeam(f.team) \subseteq AgentOrNone
    BY <2>1, AssignFacts DEF AgentOrNone
  <2> QED  BY <1>2, <1>3, <1>4, <2>2 DEF Inserts
<1>5. CASE Finalize(f.contact, f.agent, f.team, TRUE)
  BY <1>2, <1>3, <1>5 DEF Inserts
<1>6. CASE Finalize(f.contact, SameAgentOf(f.contact), None, TRUE)
  BY <1>2, <1>3, <1>6, SameAgentTypes DEF Inserts
<1>7. CASE UNCHANGED <<conv, xfer, owner, session, botWait, repliers, people>>
  BY <1>7
<1> QED  BY <1>4, <1>5, <1>6, <1>7 DEF CreateAgentTransfer

LEMMA BotInserts ==
  ASSUME PeopleTypes, NEW c \in Contacts,
         \/ CreateTransferToQueue(c) \/ CreateTransferFromKeyword(c)
         \/ \E t \in Teams : CreateTransferToTeam(c, t)
  PROVE  Inserts \/ SuppressedOutOfHours(c)
<1>1. None \in AgentOrNone /\ None \in TeamOrNone /\ Teams \subseteq TeamOrNone
      /\ TRUE \in BOOLEAN /\ FALSE \in BOOLEAN
  BY DEF AgentOrNone, TeamOrNone
<1>2. CASE CreateTransferToQueue(c)
  BY <1>1, <1>2 DEF CreateTransferToQueue, Inserts
<1>3. CASE CreateTransferFromKeyword(c)
  BY <1>1, <1>3, SameAgentTypes DEF CreateTransferFromKeyword, Inserts
<1>4. CASE \E t \in Teams : CreateTransferToTeam(c, t)
  <2>1. PICK t \in Teams : CreateTransferToTeam(c, t)
    BY <1>4
  <2>2. AssignToTeam(t) \subseteq AgentOrNone
    BY AssignFacts DEF AgentOrNone
  <2> QED  BY <1>1, <2>1, <2>2 DEF CreateTransferToTeam, Inserts
<1> QED  BY <1>2, <1>3, <1>4

Assigns == \E c \in Contacts, a \in AgentOrNone, t \in TeamOrNone :
             AssignConversation(c, a, t)

WritesTransfer ==
  \/ Inserts \/ Assigns \/ MarkSLABreached \/ DeadlinePasses
  \/ \E f \in flight : \/ PickNextClaim(f) \/ AssignTransferSave(f)
                       \/ ReturnToQueue(f) \/ AutoCloseExpired(f)
  \/ \E x \in DOMAIN xfer : ResumeFromTransfer(x) \/ Escalate(x)
  \/ \E t \in Teams : DeleteTeam(t)

(* Every other step leaves the transfers as they are. *)
LEMMA TransferWriters ==
  ASSUME Inv, Next
  PROVE  WritesTransfer \/ UNCHANGED xfer
<1> USE DEF WritesTransfer
<1>1. CASE Customer
  BY <1>1 DEF Customer, TouchInbound, BotReply
<1>2. CASE Conversations
  <2>1. CASE \E c \in Contacts, a \in Agents : AgentReply(c, a)
    BY <2>1 DEF AgentReply
  <2>2. CASE \E c \in Contacts : SetConversationStatus(c) \/ MarkConversationPending(c)
    BY <2>2 DEF SetConversationStatus, MarkConversationPending, OpenConversation,
                ResolveConversation, SnoozeConversation
  <2>3. CASE \E c \in Contacts, a \in AgentOrNone, t \in TeamOrNone : AssignConversation(c, a, t)
    BY <2>3 DEF Assigns
  <2>4. CASE \E i \in DOMAIN conv : ReopenConversation(i) \/ BulkConversations(i)
    <3>1. \A i \in DOMAIN conv : conv[i].contact \in Contacts
      BY ConvRow DEF Inv
    <3> QED  BY <2>4, <3>1 DEF ReopenConversation, BulkConversations, ResolveConversation,
                MarkConversationPending, SnoozeConversation, Assigns
  <2>5. CASE SweepIdleRead \/ \E f \in flight : SweepIdleResolve(f)
    BY <2>5 DEF SweepIdleRead, SweepIdleResolve
  <2> QED  BY <1>2, <2>1, <2>2, <2>3, <2>4, <2>5 DEF Conversations
<1>3. CASE WakeSnoozed
  BY <1>3 DEF WakeSnoozed
<1>4. CASE Creation
  <2>1. CASE \E f \in flight : CreateAgentTransfer(f)
    BY <2>1, CreateInserts DEF Inv
  <2>2. CASE \E c \in Contacts : AssignConversationAction(c)
    <3>1. None \in TeamOrNone
      BY DEF TeamOrNone
    <3>2. PICK c \in Contacts : AssignConversationAction(c)
      BY <2>2
    <3>3. CASE \E t \in Teams : CreateTransferToTeam(c, t)
      BY <3>3, BotInserts DEF Inv, SuppressedOutOfHours
    <3>4. CASE \E a \in AgentOrNone : AssignConversation(c, a, None)
      BY <3>1, <3>4 DEF Assigns
    <3> QED  BY <3>2, <3>3, <3>4 DEF AssignConversationAction
  <2>3. CASE \E c \in Contacts : CreateTransferToQueue(c) \/ CreateTransferFromKeyword(c)
    BY <2>3, BotInserts DEF Inv, SuppressedOutOfHours
  <2>4. CASE \/ \E c \in Contacts, a \in AgentOrNone, t \in TeamOrNone : CreateCheck(c, a, t)
             \/ \E f \in flight : StoreTeamConfig(f)
             \/ \E t \in Teams : LoadTeamConfig(t)
    BY <2>4 DEF CreateCheck, StoreTeamConfig, LoadTeamConfig
  <2> QED  BY <1>4, <2>1, <2>2, <2>3, <2>4 DEF Creation
<1>5. CASE Work
  BY <1>5 DEF Work, PickNextRead, GoAway, ComeBack, AssignTransferRead
<1>6. CASE Processor
  BY <1>6 DEF Processor, SlaRead, CloseInactiveBot
<1>7. CASE TeamAdmin
  BY <1>7 DEF TeamAdmin, UpdateTeam, AddTeamMember, RemoveTeamMember
<1>8. CASE Time
  BY <1>8 DEF Time, SnoozeRunsOut, ConversationAges
<1> QED  BY <1>1, <1>2, <1>3, <1>4, <1>5, <1>6, <1>7, <1>8 DEF Next

-----------------------------------------------------------------------------
(* What those steps do                                                       *)

ClaimStep ==
  \A x \in DOMAIN xfer :
    (xfer[x].agent # None /\ xfer'[x].agent \notin {None, xfer[x].agent})
      => \/ \E f \in flight \ flight' : f.op = "assign" /\ f.id = x
         \/ ops' = ops + 1

EndStep ==
  \A x \in DOMAIN xfer :
    (xfer[x].status # "active" /\ xfer'[x].status = "active")
      => \E f \in flight \ flight' : f.op = "assign" /\ f.id = x

MirrorStep ==
  \A x \in DOMAIN xfer' :
    /\ xfer'[x].status = "active"
    /\ IF x \in DOMAIN xfer THEN xfer'[x].agent # xfer[x].agent ELSE TRUE
    => \A i \in DOMAIN conv' :
         conv'[i].contact = xfer'[x].contact /\ conv'[i].status # "resolved"
           => conv'[i].assignee = xfer'[x].agent

TransferStep == XferStep /\ ClaimStep /\ EndStep /\ MirrorStep

(* No transfer changes hands or comes back. *)
LEMMA QuietTransfers ==
  ASSUME XferStep, DOMAIN xfer' = DOMAIN xfer,
         \A x \in DOMAIN xfer : /\ xfer'[x].agent = xfer[x].agent
                                /\ xfer'[x].status = "active" => xfer[x].status = "active"
  PROVE  TransferStep
  BY DEF TransferStep, ClaimStep, EndStep, MirrorStep

LEMMA InsertsStep ==
  ASSUME Inv, Inserts
  PROVE  TransferStep
<1>1. PICK c \in Contacts, a \in AgentOrNone, t \in TeamOrNone, e \in BOOLEAN :
        Finalize(c, a, t, e)
  BY DEF Inserts
<1> DEFINE r == NewTransfer(c, a, t)
           cs == Handled(conv, c, "human")
<1>2. /\ r \in Transfer /\ r.agent = a /\ r.contact = c /\ r.status = "active"
      /\ a # None => r.picked
  BY NewTransferFacts
<1>3. /\ Len(xfer) < MaxTransfers /\ xfer' = Append(xfer, r) /\ conv' = Mirrored(cs, r)
  BY <1>1 DEF Finalize
<1>4. /\ conv \in Seq(Conversation) /\ XferTypes /\ HeldIsPickedUp /\ MaxTransfers \in Nat
  BY BoundsAssumption DEF Inv, ConvTypes
<1>5. cs \in Seq(Conversation)
  <2>1. Rewrite(conv, cs, Conversation)
    BY <1>4, HandledFacts
  <2>2. cs \in [DOMAIN conv -> Conversation]
    BY <2>1 DEF Rewrite
  <2> HIDE DEF cs
  <2> QED  BY <1>4, <2>2, TableOfRows
<1> HIDE DEF r, cs
<1>6. /\ XferStep
      /\ DOMAIN xfer' = DOMAIN xfer \cup {Len(xfer) + 1}
      /\ xfer'[Len(xfer) + 1] = r /\ \A x \in DOMAIN xfer : xfer'[x] = xfer[x]
  BY <1>2, <1>3, <1>4, XferInserts
<1>7. ClaimStep /\ EndStep
  BY <1>6 DEF ClaimStep, EndStep
<1>8. \A i \in DOMAIN conv' :
        conv'[i].contact = c /\ conv'[i].status # "resolved" => conv'[i].assignee = a
  <2>1. /\ DOMAIN conv' = DOMAIN cs
        /\ \A i \in DOMAIN cs : conv'[i].contact = cs[i].contact /\ conv'[i].status = cs[i].status
        /\ \A i \in DOMAIN cs : cs[i].contact = c /\ cs[i].status # "resolved"
                                  => conv'[i].assignee = a
    BY <1>2, <1>3, <1>5, MirroredFacts DEF Rewrite
  <2> QED  BY <2>1
<1>9. MirrorStep
  BY <1>2, <1>6, <1>8 DEF MirrorStep
<1> QED  BY <1>6, <1>7, <1>9 DEF TransferStep

LEMMA AssignedActiveFacts ==
  ASSUME XferTypes, HeldIsPickedUp, NEW c, NEW a \in AgentOrNone, NEW t \in TeamOrNone
  PROVE  LET xs == AssignedActive(xfer, c, a, t) IN
         /\ Rewrite(xfer, xs, Transfer)
         /\ \A x \in DOMAIN xfer :
              /\ xs[x].status = xfer[x].status
              /\ xs[x].status = "active" /\ xs[x].agent # None => xs[x].picked
              /\ xs[x].agent # xfer[x].agent => xfer[x].contact = c /\ xs[x].agent = a
<1> DEFINE xs == AssignedActive(xfer, c, a, t)
<1>1. ASSUME NEW x \in DOMAIN xfer
      PROVE  /\ xs[x] \in Transfer /\ xs[x].contact = xfer[x].contact
             /\ xs[x].status = xfer[x].status
             /\ xs[x].status = "active" /\ xs[x].agent # None => xs[x].picked
             /\ xs[x].agent # xfer[x].agent => xfer[x].contact = c /\ xs[x].agent = a
  <2> DEFINE old == xfer[x]
             moved == [old EXCEPT !.agent = a, !.team = IF t # None THEN t ELSE @]
  <2>1. old \in Transfer
    BY XferRow
  <2>2. /\ moved \in Transfer /\ moved.agent = a /\ moved.contact = old.contact
        /\ moved.status = old.status /\ moved.picked = old.picked
    BY <2>1 DEF Transfer
  <2>3. CASE old.contact # c \/ old.status # "active"
    <3>1. xs[x] = old
      BY <2>3 DEF AssignedActive
    <3> QED  BY <2>1, <3>1 DEF HeldIsPickedUp
  <2>4. CASE ~(old.contact # c \/ old.status # "active")
    <3>1. xs[x] = IF a = None THEN [moved EXCEPT !.picked = FALSE]
                  ELSE IF old.picked THEN moved ELSE PickedUp(moved)
      BY <2>4 DEF AssignedActive
    <3> HIDE DEF moved
    <3>2. CASE a = None
      <4>1. xs[x] = [moved EXCEPT !.picked = FALSE]
        BY <3>1, <3>2
      <4>2. [moved EXCEPT !.picked = FALSE] \in Transfer
        BY <2>2 DEF Transfer
      <4>3. /\ [moved EXCEPT !.picked = FALSE].agent = a
            /\ [moved EXCEPT !.picked = FALSE].contact = old.contact
            /\ [moved EXCEPT !.picked = FALSE].status = old.status
        BY <2>2 DEF Transfer
      <4> HIDE DEF xs
      <4> QED  BY <2>4, <3>2, <4>1, <4>2, <4>3
    <3>3. CASE a # None /\ old.picked
      BY <2>2, <2>4, <3>1, <3>3
    <3>4. CASE a # None /\ ~old.picked
      BY <2>2, <2>4, <3>1, <3>4, PickedUpFacts
    <3> QED  BY <3>2, <3>3, <3>4
  <2> QED  BY <2>3, <2>4
<1>2. xs \in [DOMAIN xfer -> Transfer]
  <2>1. \A x \in DOMAIN xfer : xs[x] \in Transfer
    BY <1>1
  <2> QED  BY <2>1 DEF AssignedActive
<1> QED  BY <1>1, <1>2 DEF Rewrite

LEMMA AssignsStep ==
  ASSUME Inv, Assigns
  PROVE  TransferStep
<1>1. PICK c \in Contacts, a \in AgentOrNone, t \in TeamOrNone : AssignConversation(c, a, t)
  BY DEF Assigns
<1>2. /\ Live(c) # 0 /\ xfer' = AssignedActive(xfer, c, a, t)
      /\ conv' = [conv EXCEPT ![Live(c)] = AssignedTo(@, a, t)]
      /\ ops' = ops + 1
  BY <1>1 DEF AssignConversation, Assign, Request
<1>3. /\ Rewrite(xfer, xfer', Transfer)
      /\ \A x \in DOMAIN xfer :
              /\ xfer'[x].status = xfer[x].status
              /\ xfer'[x].status = "active" /\ xfer'[x].agent # None => xfer'[x].picked
              /\ xfer'[x].agent # xfer[x].agent => xfer[x].contact = c /\ xfer'[x].agent = a
  BY <1>2, AssignedActiveFacts DEF Inv
<1>4. XferStep /\ DOMAIN xfer' = DOMAIN xfer
  BY <1>3, XferRewrites DEF Inv
<1>5. ClaimStep /\ EndStep
  BY <1>2, <1>3 DEF ClaimStep, EndStep
<1>6. Live(c) \in LiveConvs(c) /\ ConvTypes /\ OneLive
  BY <1>2, LiveFacts DEF Inv
<1>7. \A i \in DOMAIN conv' :
        conv'[i].contact = c /\ conv'[i].status # "resolved" => conv'[i].assignee = a
  <2>1. PICK l \in DOMAIN conv : l = Live(c) /\ conv[l].contact = c /\ conv[l].status # "resolved"
    BY <1>6 DEF LiveConvs
  <2>2. conv[l] \in Conversation
    BY <1>6, ConvRow
  <2>3. /\ DOMAIN conv' = DOMAIN conv /\ conv'[l] = AssignedTo(conv[l], a, t)
        /\ \A i \in DOMAIN conv : i # l => conv'[i] = conv[i]
    BY <1>2, <2>1
  <2>4. conv'[l].assignee = a
    BY <2>2, <2>3 DEF Conversation, AssignedTo
  <2> QED  BY <1>6, <2>1, <2>3, <2>4 DEF OneLive
<1>8. MirrorStep
  BY <1>3, <1>4, <1>7 DEF MirrorStep, Rewrite
<1> QED  BY <1>4, <1>5, <1>8 DEF TransferStep

LEMMA PairParts ==
  ASSUME NEW A, NEW B, NEW p \in A \X B
  PROVE  p[1] \in A /\ p[2] \in B
  OBVIOUS

(* AssignAgentTransfer saves the row. *)
SavedWhole(x) == \E f \in flight \ flight' : f.op = "assign" /\ f.id = x

(* One row is written by its key, and the mirror follows a new holder. *)
LEMMA RowWritten ==
  ASSUME Inv, NEW x \in DOMAIN xfer, NEW r \in Transfer,
         r.contact = xfer[x].contact, xfer' = [xfer EXCEPT ![x] = r],
         r.status = "active" /\ r.agent # None => r.picked,
         \/ r.agent = xfer[x].agent
         \/ r.status = "active" /\ conv' = Mirrored(conv, r),
         \/ /\ r.agent # xfer[x].agent => xfer[x].agent = None \/ r.agent = None
            /\ r.status = "active" => xfer[x].status = "active"
         \/ SavedWhole(x)
  PROVE  TransferStep
<1>1. /\ XferStep /\ DOMAIN xfer' = DOMAIN xfer
      /\ xfer'[x] = r /\ \A y \in DOMAIN xfer : y # x => xfer'[y] = xfer[y]
  BY XferWrites DEF Inv
<1>2. ClaimStep
  BY <1>1 DEF ClaimStep, SavedWhole
<1>3. EndStep
  BY <1>1 DEF EndStep, SavedWhole
<1>4. MirrorStep
  <2>1. CASE r.agent = xfer[x].agent
    BY <1>1, <2>1 DEF MirrorStep
  <2>2. CASE r.status = "active" /\ conv' = Mirrored(conv, r)
    <3>1. conv \in Seq(Conversation)
      BY DEF Inv, ConvTypes
    <3>2. \A i \in DOMAIN conv' :
            conv'[i].contact = r.contact /\ conv'[i].status # "resolved" => conv'[i].assignee = r.agent
      BY <2>2, <3>1, MirroredFacts DEF Rewrite
    <3> QED  BY <1>1, <3>2 DEF MirrorStep
  <2> QED  BY <2>1, <2>2
<1> QED  BY <1>1, <1>2, <1>3, <1>4 DEF TransferStep

LEMMA PickStep ==
  ASSUME Inv, NEW f \in flight, PickNextClaim(f)
  PROVE  TransferStep
<1>1. f \in PickRead
  BY ReadKinds DEF PickNextClaim, Inv
<1>2. f.cand \in DOMAIN xfer /\ f.agent \in Agents
  BY <1>1 DEF PickRead
<1>3. CASE ~StillQueued(f.cand)
  <2>1. UNCHANGED xfer
    BY <1>3 DEF PickNextClaim
  <2>2. XferStep
    BY <2>1, XferStays DEF Inv
  <2> QED  BY <2>1, <2>2, QuietTransfers
<1>4. CASE StillQueued(f.cand)
  <2> DEFINE t == [xfer[f.cand] EXCEPT !.agent = f.agent, !.picked = TRUE]
  <2>1. xfer' = [xfer EXCEPT ![f.cand] = t] /\ conv' = Mirrored(conv, t)
    BY <1>4 DEF PickNextClaim
  <2>2. xfer[f.cand] \in Transfer
    BY <1>2, XferRow DEF Inv
  <2>3. /\ t \in Transfer /\ t.contact = xfer[f.cand].contact /\ t.agent = f.agent
        /\ t.status = xfer[f.cand].status /\ t.picked
    BY <1>2, <2>2 DEF Transfer, AgentOrNone
  <2>4. xfer[f.cand].agent = None /\ xfer[f.cand].status = "active"
    BY <1>4 DEF StillQueued
  <2> HIDE DEF t
  <2> QED  BY <1>2, <2>1, <2>3, <2>4, RowWritten
<1> QED  BY <1>3, <1>4

LEMMA AssignSaveStep ==
  ASSUME Inv, NEW f \in flight, AssignTransferSave(f)
  PROVE  TransferStep
<1>1. f \in AssignRead /\ f.op = "assign"
  BY ReadKinds DEF AssignTransferSave, Inv
<1>2. /\ f.id \in DOMAIN xfer /\ f.row \in Transfer /\ f.row.status = "active"
      /\ f.row.contact = xfer[f.id].contact
      /\ f.row.agent # None => f.row.picked
  BY <1>1 DEF AssignRead
<1>3. SavedWhole(f.id)
  BY <1>1 DEF AssignTransferSave, Land, SavedWhole
<1>4. CASE UNCHANGED xfer
  <2>1. XferStep
    BY <1>4, XferStays DEF Inv
  <2> QED  BY <1>4, <2>1, QuietTransfers
<1>5. CASE xfer' = [xfer EXCEPT ![f.id] = f.row] /\ conv' = Mirrored(conv, f.row)
  <2>1. PICK x \in DOMAIN xfer, r \in Transfer : x = f.id /\ r = f.row
    BY <1>2
  <2>2. /\ r.contact = xfer[x].contact /\ r.status = "active"
        /\ r.agent # None => r.picked
    BY <1>2, <2>1
  <2>3. xfer' = [xfer EXCEPT ![x] = r] /\ conv' = Mirrored(conv, r)
    BY <1>5, <2>1
  <2>4. SavedWhole(x)
    BY <1>3, <2>1, Zenon
  <2> QED  BY <2>2, <2>3, <2>4, RowWritten
<1> QED  BY <1>4, <1>5 DEF AssignTransferSave

LEMMA ReturnStep ==
  ASSUME Inv, NEW f \in flight, ReturnToQueue(f)
  PROVE  TransferStep
<1>1. f \in ReturnRead
  BY ReadKinds DEF ReturnToQueue, Inv
<1>2. PICK h \in f.held :
        /\ xfer' = IF xfer[h[1]].status = "active"
                   THEN [xfer EXCEPT ![h[1]] = [@ EXCEPT !.agent = None, !.picked = FALSE]] ELSE xfer
        /\ conv' = Mirrored(conv, [xfer[h[1]] EXCEPT !.status = "active", !.agent = None,
                                                     !.team = h[2]])
  BY DEF ReturnToQueue
<1>a. h \in (DOMAIN xfer) \X TeamOrNone
  <2>1. f.held \subseteq (DOMAIN xfer) \X TeamOrNone
    BY <1>1 DEF ReturnRead
  <2> QED  BY <2>1
<1>b. h[1] \in DOMAIN xfer /\ h[2] \in TeamOrNone
  BY <1>a, PairParts, Zenon
<1>3. PICK x \in DOMAIN xfer : x = h[1]
  BY <1>b, Zenon
<1>4. h[2] \in TeamOrNone /\ xfer[x] \in Transfer
  BY <1>b, XferRow DEF Inv
<1>5. CASE xfer[x].status # "active"
  <2>1. UNCHANGED xfer
    BY <1>2, <1>3, <1>5
  <2>2. XferStep
    BY <2>1, XferStays DEF Inv
  <2> QED  BY <2>1, <2>2, QuietTransfers
<1>6. CASE xfer[x].status = "active"
  <2> DEFINE r == [xfer[x] EXCEPT !.agent = None, !.picked = FALSE]
             m == [xfer[x] EXCEPT !.status = "active", !.agent = None, !.team = h[2]]
  <2>1. xfer' = [xfer EXCEPT ![x] = r] /\ conv' = Mirrored(conv, m)
    BY <1>2, <1>3, <1>6
  <2>2. /\ r \in Transfer /\ r.contact = xfer[x].contact /\ r.agent = None /\ r.status = "active"
        /\ m \in Transfer /\ m.contact = xfer[x].contact /\ m.agent = None /\ m.status = "active"
    BY <1>4, <1>6 DEF Transfer, AgentOrNone
  <2> HIDE DEF r, m
  <2>3. /\ XferStep /\ DOMAIN xfer' = DOMAIN xfer
        /\ xfer'[x] = r /\ \A y \in DOMAIN xfer : y # x => xfer'[y] = xfer[y]
    BY <2>1, <2>2, XferWrites DEF Inv
  <2>4. ClaimStep /\ EndStep
    BY <1>6, <2>2, <2>3 DEF ClaimStep, EndStep
  <2>5. conv \in Seq(Conversation)
    BY DEF Inv, ConvTypes
  <2>6. \A i \in DOMAIN conv' :
          conv'[i].contact = m.contact /\ conv'[i].status # "resolved" => conv'[i].assignee = None
    BY <2>1, <2>2, <2>5, MirroredFacts DEF Rewrite
  <2>7. MirrorStep
    BY <2>2, <2>3, <2>6 DEF MirrorStep
  <2> QED  BY <2>3, <2>4, <2>7 DEF TransferStep
<1> QED  BY <1>5, <1>6

LEMMA CloseStep ==
  ASSUME Inv, NEW f \in flight, AutoCloseExpired(f)
  PROVE  TransferStep
<1>1. f \in CloseRead
  BY ReadKinds DEF AutoCloseExpired, Inv
<1>2. PICK h \in f.rows :
        \/ xfer' = [xfer EXCEPT ![h[1]] = [@ EXCEPT !.expDue = FALSE]]
        \/ xfer' = [xfer EXCEPT ![h[1]] = [@ EXCEPT !.status = "expired"]]
  BY DEF AutoCloseExpired
<1>3. PICK x \in DOMAIN xfer : x = h[1]
  <2>1. f.rows \subseteq (DOMAIN xfer) \X Transfer
    BY <1>1 DEF CloseRead
  <2>2. h \in (DOMAIN xfer) \X Transfer
    BY <2>1
  <2>3. h[1] \in DOMAIN xfer
    BY <2>2, PairParts, Zenon
  <2> QED  BY <2>3, Zenon
<1>5. xfer[x] \in Transfer
  BY XferRow DEF Inv
<1>6. xfer[x].status = "active" /\ xfer[x].agent # None => xfer[x].picked
  BY DEF Inv, HeldIsPickedUp
<1>7. CASE xfer' = [xfer EXCEPT ![x] = [@ EXCEPT !.expDue = FALSE]]
  <2> DEFINE r == [xfer[x] EXCEPT !.expDue = FALSE]
  <2>1. xfer' = [xfer EXCEPT ![x] = r]
    BY <1>7
  <2>2. /\ r \in Transfer /\ r.contact = xfer[x].contact /\ r.agent = xfer[x].agent
        /\ r.status = xfer[x].status /\ r.picked = xfer[x].picked
    BY <1>5 DEF Transfer
  <2> HIDE DEF r
  <2> QED  BY <1>6, <2>1, <2>2, RowWritten
<1>8. CASE xfer' = [xfer EXCEPT ![x] = [@ EXCEPT !.status = "expired"]]
  <2> DEFINE r == [xfer[x] EXCEPT !.status = "expired"]
  <2>1. xfer' = [xfer EXCEPT ![x] = r]
    BY <1>8
  <2>2. /\ r \in Transfer /\ r.contact = xfer[x].contact /\ r.agent = xfer[x].agent
        /\ r.status = "expired"
    BY <1>5 DEF Transfer
  <2> HIDE DEF r
  <2> QED  BY <1>6, <2>1, <2>2, RowWritten
<1> QED  BY <1>2, <1>3, <1>7, <1>8

LEMMA ResumeStep ==
  ASSUME Inv, NEW x \in DOMAIN xfer, ResumeFromTransfer(x)
  PROVE  TransferStep
<1> DEFINE r == [xfer[x] EXCEPT !.status = "resumed"]
<1>1. xfer' = [xfer EXCEPT ![x] = r]
  BY DEF ResumeFromTransfer
<1>2. xfer[x] \in Transfer
  BY XferRow DEF Inv
<1>3. /\ r \in Transfer /\ r.contact = xfer[x].contact /\ r.agent = xfer[x].agent
      /\ r.status = "resumed"
  BY <1>2 DEF Transfer
<1> HIDE DEF r
<1> QED  BY <1>1, <1>3, RowWritten

(* The SLA flags of a row may change; who holds it and whether it runs do not. *)
LEMMA FlagsWritten ==
  ASSUME Inv, Rewrite(xfer, xfer', Transfer),
         \A x \in DOMAIN xfer : /\ xfer'[x].agent = xfer[x].agent
                                /\ xfer'[x].status = xfer[x].status
                                /\ xfer'[x].picked = xfer[x].picked
  PROVE  TransferStep
<1>1. \A x \in DOMAIN xfer :
        xfer'[x].status = "active" /\ xfer'[x].agent # None => xfer'[x].picked
  BY DEF Inv, HeldIsPickedUp
<1>2. XferStep /\ DOMAIN xfer' = DOMAIN xfer
  BY <1>1, XferRewrites DEF Inv
<1> QED  BY <1>2, QuietTransfers

LEMMA FlagWritten ==
  ASSUME Inv, NEW x \in DOMAIN xfer, NEW r \in Transfer, xfer' = [xfer EXCEPT ![x] = r],
         r.contact = xfer[x].contact, r.agent = xfer[x].agent,
         r.status = xfer[x].status, r.picked = xfer[x].picked
  PROVE  TransferStep
<1>1. /\ Rewrite(xfer, xfer', Transfer)
      /\ xfer'[x] = r /\ \A y \in DOMAIN xfer : y # x => xfer'[y] = xfer[y]
  BY RewriteRow DEF Inv, XferTypes
<1>2. \A y \in DOMAIN xfer : /\ xfer'[y].agent = xfer[y].agent
                             /\ xfer'[y].status = xfer[y].status
                             /\ xfer'[y].picked = xfer[y].picked
  BY <1>1
<1> QED  BY <1>1, <1>2, FlagsWritten

LEMMA EscalateStep ==
  ASSUME Inv, NEW x \in DOMAIN xfer, Escalate(x)
  PROVE  TransferStep
<1> DEFINE q == [xfer[x] EXCEPT !.escDue = FALSE]
           e == Escalated(xfer[x])
<1>1. xfer[x] \in Transfer
  BY XferRow DEF Inv
<1>2. xfer' = [xfer EXCEPT ![x] = q] \/ xfer' = [xfer EXCEPT ![x] = e]
  BY DEF Escalate
<1>3. xfer[x].level < 2 /\ xfer[x].level \in 0..2
  BY <1>1 DEF Escalate, Transfer
<1>4. xfer[x].level + 1 \in 0..2
  BY <1>3
<1>5. /\ q \in Transfer /\ q.contact = xfer[x].contact /\ q.agent = xfer[x].agent
      /\ q.status = xfer[x].status /\ q.picked = xfer[x].picked
  BY <1>1 DEF Transfer
<1>6. e \in Transfer
  <2>1. (xfer[x].breached \/ xfer[x].respDue) \in BOOLEAN
    BY Zenon
  <2>2. \A n \in 0..2, b \in BOOLEAN :
          [xfer[x] EXCEPT !.level = n, !.breached = b] \in Transfer
    BY <1>1, Zenon DEF Transfer
  <2> QED  BY <1>4, <2>1, <2>2, Zenon DEF Escalated
<1>7. /\ e.contact = xfer[x].contact /\ e.agent = xfer[x].agent
      /\ e.status = xfer[x].status /\ e.picked = xfer[x].picked
  BY <1>1 DEF Transfer, Escalated
<1> HIDE DEF q, e
<1> QED  BY <1>2, <1>5, <1>6, <1>7, FlagWritten

LEMMA BreachStep ==
  ASSUME Inv, MarkSLABreached
  PROVE  TransferStep
<1>1. PICK late \in SUBSET DOMAIN xfer :
        xfer' = [x \in DOMAIN xfer |-> IF x \in late THEN [xfer[x] EXCEPT !.breached = TRUE]
                                       ELSE xfer[x]]
  BY DEF MarkSLABreached, Queued
<1>2. ASSUME NEW x \in DOMAIN xfer
      PROVE  /\ xfer'[x] \in Transfer /\ xfer'[x].contact = xfer[x].contact
             /\ xfer'[x].agent = xfer[x].agent
             /\ xfer'[x].status = xfer[x].status
             /\ xfer'[x].picked = xfer[x].picked
  <2>1. xfer[x] \in Transfer
    BY XferRow DEF Inv
  <2>2. xfer'[x] = [xfer[x] EXCEPT !.breached = TRUE] \/ xfer'[x] = xfer[x]
    BY <1>1
  <2> QED  BY <2>1, <2>2 DEF Transfer
<1>3. xfer' \in [DOMAIN xfer -> Transfer]
  <2>1. \A x \in DOMAIN xfer : xfer'[x] \in Transfer
    BY <1>2
  <2> QED  BY <1>1, <2>1
<1> QED  BY <1>2, <1>3, FlagsWritten DEF Rewrite

LEMMA DeadlineStep ==
  ASSUME Inv, DeadlinePasses
  PROVE  TransferStep
<1>1. PICK x \in DOMAIN xfer :
        \/ xfer' = [xfer EXCEPT ![x] = [@ EXCEPT !.respDue = TRUE]]
        \/ xfer' = [xfer EXCEPT ![x] = [@ EXCEPT !.escDue = TRUE]]
        \/ xfer' = [xfer EXCEPT ![x] = [@ EXCEPT !.expDue = TRUE]]
  BY DEF DeadlinePasses
<1>2. xfer[x] \in Transfer
  BY XferRow DEF Inv
<1>3. PICK r : /\ xfer' = [xfer EXCEPT ![x] = r]
               /\ \/ r = [xfer[x] EXCEPT !.respDue = TRUE]
                  \/ r = [xfer[x] EXCEPT !.escDue = TRUE]
                  \/ r = [xfer[x] EXCEPT !.expDue = TRUE]
  BY <1>1
<1>4. /\ r \in Transfer /\ r.contact = xfer[x].contact /\ r.agent = xfer[x].agent
      /\ r.status = xfer[x].status /\ r.picked = xfer[x].picked
  BY <1>2, <1>3 DEF Transfer
<1> QED  BY <1>3, <1>4, FlagWritten

LEMMA DeleteTeamStep ==
  ASSUME Inv, NEW t \in Teams, DeleteTeam(t)
  PROVE  TransferStep
<1>1. CASE UNCHANGED xfer
  <2>1. XferStep
    BY <1>1, XferStays DEF Inv
  <2> QED  BY <1>1, <2>1, QuietTransfers
<1>2. CASE \E to \in Teams :
             xfer' = [x \in DOMAIN xfer |-> IF <<"transfer", x>> \in TeamRefs(t)
                                            THEN [xfer[x] EXCEPT !.team = to] ELSE xfer[x]]
  <2>1. PICK to \in Teams :
          xfer' = [x \in DOMAIN xfer |-> IF <<"transfer", x>> \in TeamRefs(t)
                                         THEN [xfer[x] EXCEPT !.team = to] ELSE xfer[x]]
    BY <1>2
  <2>2. ASSUME NEW x \in DOMAIN xfer
        PROVE  /\ xfer'[x] \in Transfer /\ xfer'[x].contact = xfer[x].contact
               /\ xfer'[x].agent = xfer[x].agent
               /\ xfer'[x].status = xfer[x].status
               /\ xfer'[x].picked = xfer[x].picked
    <3>1. xfer[x] \in Transfer
      BY XferRow DEF Inv
    <3>2. xfer'[x] = [xfer[x] EXCEPT !.team = to] \/ xfer'[x] = xfer[x]
      BY <2>1
    <3> QED  BY <3>1, <3>2 DEF Transfer, TeamOrNone
  <2>3. xfer' \in [DOMAIN xfer -> Transfer]
    <3>1. \A x \in DOMAIN xfer : xfer'[x] \in Transfer
      BY <2>2
    <3> QED  BY <2>1, <3>1
  <2> QED  BY <2>2, <2>3, FlagsWritten DEF Rewrite
<1> QED  BY <1>1, <1>2 DEF DeleteTeam

(* Every step keeps the transfers in order. *)
LEMMA TransfersStep ==
  ASSUME Inv, Next
  PROVE  TransferStep
<1>1. CASE UNCHANGED xfer
  <2>1. XferStep
    BY <1>1, XferStays DEF Inv
  <2> QED  BY <1>1, <2>1, QuietTransfers
<1>2. CASE WritesTransfer
  BY <1>2, InsertsStep, AssignsStep, BreachStep, DeadlineStep, PickStep, AssignSaveStep,
     ReturnStep, CloseStep, ResumeStep, EscalateStep, DeleteTeamStep DEF WritesTransfer
<1> QED  BY <1>1, <1>2, TransferWriters

-----------------------------------------------------------------------------
(* The steps that write conversations                                        *)

ConvInv == ConvTypes /\ OneLive

(* The live conversation of a contact is rewritten. *)
LEMMA LiveWritten ==
  ASSUME ConvInv, NEW c, Live(c) # 0, NEW r \in Conversation,
         r.contact = conv[Live(c)].contact, conv' = [conv EXCEPT ![Live(c)] = r]
  PROVE  ConvStep
<1>1. PICK i \in DOMAIN conv : i = Live(c) /\ conv[i].status # "resolved"
  BY LiveFacts DEF ConvInv, LiveConvs
<1> QED  BY <1>1, ConvWrites DEF ConvInv

LEMMA LiveRow ==
  ASSUME ConvInv, NEW c, Live(c) # 0
  PROVE  conv[Live(c)] \in Conversation /\ Live(c) \in DOMAIN conv
  BY LiveFacts, ConvRow DEF ConvInv, LiveConvs

LEMMA NewConversationTypes ==
  ASSUME NEW c \in Contacts, NEW h \in {"none", "bot", "human", "handoff_pending"}
  PROVE  NewConversation(c, h) \in Conversation /\ NewConversation(c, h).contact = c
  BY DEF NewConversation, Conversation, AgentOrNone, TeamOrNone

LEMMA TouchStep ==
  ASSUME ConvInv, NEW c \in Contacts, TouchInbound(c)
  PROVE  ConvStep
<1>1. CASE TouchExisting(c)
  <2>1. Live(c) # 0 /\ conv' = [conv EXCEPT ![Live(c)] = Touched(conv[Live(c)])]
    BY <1>1 DEF TouchExisting
  <2>2. PICK k \in Conversation : k = conv[Live(c)]
    BY <2>1, LiveRow
  <2>3. Touched(k) \in Conversation /\ Touched(k).contact = k.contact
    BY DEF Touched, Conversation
  <2> QED  BY <2>1, <2>2, <2>3, LiveWritten
<1>2. CASE ReopenRecent(c)
  <2>1. /\ Live(c) = 0 /\ Reopenable(c) # {}
        /\ conv' = [conv EXCEPT ![Max(Reopenable(c))] =
                      [conv[Max(Reopenable(c))] EXCEPT !.status = "open", !.waiting = TRUE]]
    BY <1>2 DEF ReopenRecent
  <2>2. Reopenable(c) \subseteq 1..Len(conv) /\ Len(conv) \in Nat
    BY RowsOfTable DEF ConvInv, ConvTypes, Reopenable
  <2>3. PICK i \in Reopenable(c) : i = Max(Reopenable(c))
    BY <2>1, <2>2, MaxIsMember
  <2>4. i \in DOMAIN conv /\ conv[i].contact = c /\ LiveConvs(c) = {}
    BY <2>1, LiveFacts DEF Reopenable, ConvInv
  <2> DEFINE r == [conv[i] EXCEPT !.status = "open", !.waiting = TRUE]
  <2>5. conv' = [conv EXCEPT ![i] = r]
    BY <2>1, <2>3
  <2>6. conv[i] \in Conversation
    BY <2>4, ConvRow DEF ConvInv
  <2>7. r \in Conversation /\ r.contact = conv[i].contact
    BY <2>6 DEF Conversation
  <2> HIDE DEF r
  <2> QED  BY <2>4, <2>5, <2>7, ConvWrites DEF ConvInv
<1>3. CASE \E h \in {"none", "bot"} : CreateConversation(c, NewConversation(c, h))
  <2>1. PICK h \in {"none", "bot"} : CreateConversation(c, NewConversation(c, h))
    BY <1>3
  <2>2. NewConversation(c, h) \in Conversation /\ NewConversation(c, h).contact = c
    BY NewConversationTypes
  <2> QED  BY <2>1, <2>2, ConvOpens, BoundsAssumption DEF ConvInv
<1> QED  BY <1>1, <1>2, <1>3 DEF TouchInbound

LEMMA AgentReplyStep ==
  ASSUME ConvInv, NEW c \in Contacts, NEW a \in Agents, AgentReply(c, a)
  PROVE  ConvStep
<1>1. CASE Live(c) # 0 /\ conv' = [conv EXCEPT ![Live(c)] = Answered(conv[Live(c)])]
  <2>2. PICK k \in Conversation : k = conv[Live(c)]
    BY <1>1, LiveRow
  <2>3. Answered(k) \in Conversation /\ Answered(k).contact = k.contact
    BY DEF Answered, Conversation
  <2> QED  BY <1>1, <2>2, <2>3, LiveWritten
<1> DEFINE r == [NewConversation(c, "human") EXCEPT
                   !.waiting = FALSE, !.status = IF AutoPending THEN "pending" ELSE "open"]
<1>2. CASE CreateConversation(c, r)
  <2>1. r \in Conversation /\ r.contact = c
    BY DEF NewConversation, Conversation, AgentOrNone, TeamOrNone
  <2> HIDE DEF r
  <2> QED  BY <1>2, <2>1, ConvOpens, BoundsAssumption DEF ConvInv
<1> QED  BY <1>1, <1>2 DEF AgentReply

LEMMA BotReplyStep ==
  ASSUME ConvInv, NEW c \in Contacts, BotReply(c)
  PROVE  ConvStep
<1>1. CASE Live(c) = 0
  BY <1>1, ConvStays DEF BotReply, ConvInv
<1>2. CASE Live(c) # 0
  <2> DEFINE r == [conv[Live(c)] EXCEPT !.fresh = TRUE]
  <2>1. conv' = [conv EXCEPT ![Live(c)] = r]
    BY <1>2 DEF BotReply
  <2>2. r \in Conversation /\ r.contact = conv[Live(c)].contact
    BY <1>2, LiveRow DEF Conversation
  <2> HIDE DEF r
  <2> QED  BY <1>2, <2>1, <2>2, LiveWritten
<1> QED  BY <1>1, <1>2

LEMMA ResolveStep ==
  ASSUME ConvInv, NEW c, ResolveEffect(c)
  PROVE  ConvStep
<1> DEFINE r == [conv[Live(c)] EXCEPT !.status = "resolved", !.waiting = FALSE,
                                   !.snooze = "no", !.handling = "none", !.fresh = TRUE]
<1>1. Live(c) # 0 /\ conv' = [conv EXCEPT ![Live(c)] = r]
  BY DEF ResolveEffect
<1>2. r \in Conversation /\ r.contact = conv[Live(c)].contact
  BY <1>1, LiveRow DEF Conversation
<1> HIDE DEF r
<1> QED  BY <1>1, <1>2, LiveWritten

LEMMA StatusStep ==
  ASSUME ConvInv, NEW c,
         SnoozeConversation(c) \/ MarkConversationPending(c) \/ OpenConversation(c)
  PROVE  ConvStep
<1>1. Live(c) # 0
  BY DEF SnoozeConversation, Snooze, MarkConversationPending, OpenConversation, SetStatus
<1>2. PICK k \in Conversation : k = conv[Live(c)]
  BY <1>1, LiveRow
<1>3. CASE SnoozeConversation(c)
  <2> DEFINE r == [k EXCEPT !.status = "snoozed", !.snooze = "set"]
  <2>1. conv' = [conv EXCEPT ![Live(c)] = r]
    BY <1>2, <1>3 DEF SnoozeConversation, Snooze
  <2>2. r \in Conversation /\ r.contact = k.contact
    BY DEF Conversation
  <2> HIDE DEF r
  <2> QED  BY <1>1, <1>2, <2>1, <2>2, LiveWritten
<1>4. CASE MarkConversationPending(c)
  <2> DEFINE r == [k EXCEPT !.status = "pending", !.waiting = FALSE]
  <2>1. conv' = [conv EXCEPT ![Live(c)] = r]
    BY <1>2, <1>4 DEF MarkConversationPending, SetStatus
  <2>2. r \in Conversation /\ r.contact = k.contact
    BY DEF Conversation
  <2> HIDE DEF r
  <2> QED  BY <1>1, <1>2, <2>1, <2>2, LiveWritten
<1>5. CASE OpenConversation(c)
  <2> DEFINE r == [k EXCEPT !.status = "open", !.snooze = "no"]
  <2>1. conv' = [conv EXCEPT ![Live(c)] = r]
    BY <1>2, <1>5 DEF OpenConversation, SetStatus
  <2>2. r \in Conversation /\ r.contact = k.contact
    BY DEF Conversation
  <2> HIDE DEF r
  <2> QED  BY <1>1, <1>2, <2>1, <2>2, LiveWritten
<1> QED  BY <1>3, <1>4, <1>5

LEMMA AssignConvStep ==
  ASSUME ConvInv, Assigns
  PROVE  ConvStep
<1>1. PICK c \in Contacts, a \in AgentOrNone, t \in TeamOrNone : AssignConversation(c, a, t)
  BY DEF Assigns
<1>2. Live(c) # 0 /\ conv' = [conv EXCEPT ![Live(c)] = AssignedTo(conv[Live(c)], a, t)]
  BY <1>1 DEF AssignConversation, Assign
<1>3. PICK k \in Conversation : k = conv[Live(c)]
  BY <1>2, LiveRow
<1>4. AssignedTo(k, a, t) \in Conversation /\ AssignedTo(k, a, t).contact = k.contact
  BY DEF AssignedTo, Conversation
<1> QED  BY <1>2, <1>3, <1>4, LiveWritten

LEMMA ReopenStep ==
  ASSUME ConvInv, NEW i \in DOMAIN conv, ReopenConversation(i)
  PROVE  ConvStep
<1>1. PICK recent \in BOOLEAN :
        conv' = [conv EXCEPT ![i] = [conv[i] EXCEPT !.status = "open", !.snooze = "no",
                                                    !.fresh = recent]]
  BY DEF ReopenConversation, Reopen
<1>2. LiveConvs(conv[i].contact) = {}
  BY LiveFacts DEF ReopenConversation, Reopen, ConvInv
<1> DEFINE r == [conv[i] EXCEPT !.status = "open", !.snooze = "no", !.fresh = recent]
<1>3. conv[i] \in Conversation
  BY ConvRow DEF ConvInv
<1>4. r \in Conversation /\ r.contact = conv[i].contact
  BY <1>3 DEF Conversation
<1>5. conv' = [conv EXCEPT ![i] = r]
  BY <1>1
<1> HIDE DEF r
<1> QED  BY <1>2, <1>4, <1>5, ConvWrites DEF ConvInv

LEMMA TimeConvStep ==
  ASSUME ConvInv, WakeSnoozed \/ SnoozeRunsOut \/ ConversationAges
  PROVE  ConvStep
<1>0. PICK i \in DOMAIN conv : \E r :
          /\ conv' = [conv EXCEPT ![i] = r]
          /\ \/ conv[i].status = "snoozed" /\ r = [conv[i] EXCEPT !.status = "open", !.snooze = "no"]
             \/ r = [conv[i] EXCEPT !.snooze = "due"]
             \/ r = [conv[i] EXCEPT !.fresh = FALSE]
  BY DEF WakeSnoozed, SnoozeRunsOut, ConversationAges
<1>1. PICK r :
        /\ conv' = [conv EXCEPT ![i] = r]
        /\ \/ conv[i].status = "snoozed" /\ r = [conv[i] EXCEPT !.status = "open", !.snooze = "no"]
           \/ r = [conv[i] EXCEPT !.snooze = "due"]
           \/ r = [conv[i] EXCEPT !.fresh = FALSE]
  BY <1>0
<1>2. conv[i] \in Conversation
  BY ConvRow DEF ConvInv
<1>3. /\ r \in Conversation /\ r.contact = conv[i].contact
      /\ conv[i].status # "resolved" \/ r.status = "resolved"
  BY <1>1, <1>2 DEF Conversation
<1> QED  BY <1>1, <1>3, ConvWrites DEF ConvInv

(* A rewrite that changes no status. *)
SameStatuses(cs) == /\ Rewrite(conv, cs, Conversation)
                    /\ \A i \in DOMAIN conv : cs[i].status = conv[i].status

LEMMA MirrorsKeep ==
  ASSUME ConvInv, NEW t \in Transfer, conv' = Mirrored(conv, t)
  PROVE  ConvStep
<1>1. SameStatuses(conv')
  BY MirroredFacts DEF ConvInv, ConvTypes, SameStatuses
<1> QED  BY <1>1, ConvKeeps DEF ConvInv, SameStatuses

LEMMA HandlingKeeps ==
  ASSUME ConvInv, NEW c, NEW h \in {"none", "bot", "human", "handoff_pending"},
         conv' = Handled(conv, c, h)
  PROVE  ConvStep
<1>1. SameStatuses(conv')
  BY HandledFacts DEF ConvInv, ConvTypes, SameStatuses
<1> QED  BY <1>1, ConvKeeps DEF ConvInv, SameStatuses

LEMMA InsertsConv ==
  ASSUME ConvInv, Inserts
  PROVE  ConvStep
<1>1. PICK c \in Contacts, a \in AgentOrNone, t \in TeamOrNone, e \in BOOLEAN :
        Finalize(c, a, t, e)
  BY DEF Inserts
<1> DEFINE r == NewTransfer(c, a, t)
           cs == Handled(conv, c, "human")
<1>2. r \in Transfer /\ conv' = Mirrored(cs, r)
  BY <1>1, NewTransferFacts DEF Finalize
<1>3. SameStatuses(cs) /\ conv \in Seq(Conversation)
  BY HandledFacts DEF ConvInv, ConvTypes, SameStatuses
<1> HIDE DEF r, cs
<1>4. cs \in Seq(Conversation) /\ DOMAIN cs = DOMAIN conv
  BY <1>3, TableOfRows DEF SameStatuses, Rewrite
<1>5. /\ Rewrite(cs, conv', Conversation)
      /\ \A i \in DOMAIN cs : conv'[i].status = cs[i].status
  BY <1>2, <1>4, MirroredFacts
<1>6. SameStatuses(conv')
  BY <1>3, <1>4, <1>5 DEF SameStatuses, Rewrite
<1> QED  BY <1>6, ConvKeeps DEF ConvInv, SameStatuses

LEMMA ResumeConv ==
  ASSUME Inv, NEW x \in DOMAIN xfer, ResumeFromTransfer(x)
  PROVE  ConvStep
<1> DEFINE r == [xfer[x] EXCEPT !.status = "resumed"]
           cs == Mirrored(conv, r)
<1>1. conv' = Handled(cs, r.contact, "bot")
  BY DEF ResumeFromTransfer
<1>2. xfer[x] \in Transfer /\ conv \in Seq(Conversation)
  BY XferRow DEF Inv, ConvTypes
<1>3. r \in Transfer
  BY <1>2 DEF Transfer
<1> HIDE DEF r
<1>4. SameStatuses(cs)
  BY <1>2, <1>3, MirroredFacts DEF SameStatuses
<1> HIDE DEF cs
<1>5. cs \in Seq(Conversation) /\ DOMAIN cs = DOMAIN conv
  BY <1>2, <1>4, TableOfRows DEF SameStatuses, Rewrite
<1>6. /\ Rewrite(cs, conv', Conversation)
      /\ \A i \in DOMAIN cs : conv'[i].status = cs[i].status
  BY <1>1, <1>5, HandledFacts
<1>7. SameStatuses(conv')
  BY <1>4, <1>5, <1>6 DEF SameStatuses, Rewrite
<1> QED  BY <1>7, ConvKeeps DEF Inv, SameStatuses

LEMMA FlightConv ==
  ASSUME Inv, NEW f \in flight,
         \/ PickNextClaim(f) \/ AssignTransferSave(f) \/ ReturnToQueue(f) \/ AutoCloseExpired(f)
  PROVE  ConvStep
<1>1. CASE UNCHANGED conv
  BY <1>1, ConvStays DEF Inv
<1>2. CASE \E t \in Transfer : conv' = Mirrored(conv, t)
  BY <1>2, MirrorsKeep DEF Inv, ConvInv
<1>3. CASE PickNextClaim(f)
  <2>1. f \in PickRead
    BY <1>3, ReadKinds DEF PickNextClaim, Inv
  <2>2. f.cand \in DOMAIN xfer /\ f.agent \in Agents
    BY <2>1 DEF PickRead
  <2>3. xfer[f.cand] \in Transfer
    BY <2>2, XferRow DEF Inv
  <2>4. [xfer[f.cand] EXCEPT !.agent = f.agent, !.picked = TRUE] \in Transfer
    BY <2>2, <2>3 DEF Transfer, AgentOrNone
  <2> QED  BY <1>1, <1>2, <1>3, <2>4 DEF PickNextClaim
<1>4. CASE AssignTransferSave(f)
  <2>1. f \in AssignRead
    BY <1>4, ReadKinds DEF AssignTransferSave, Inv
  <2>2. f.row \in Transfer
    BY <2>1 DEF AssignRead
  <2> QED  BY <1>1, <1>2, <1>4, <2>2 DEF AssignTransferSave
<1>5. CASE ReturnToQueue(f)
  <2>1. f \in ReturnRead
    BY <1>5, ReadKinds DEF ReturnToQueue, Inv
  <2>2. PICK h \in f.held :
          conv' = Mirrored(conv, [xfer[h[1]] EXCEPT !.status = "active", !.agent = None,
                                                    !.team = h[2]])
    BY <1>5 DEF ReturnToQueue
  <2>3. f.held \subseteq (DOMAIN xfer) \X TeamOrNone
    BY <2>1 DEF ReturnRead
  <2>4. h[1] \in DOMAIN xfer /\ h[2] \in TeamOrNone
    BY <2>3
  <2>5. xfer[h[1]] \in Transfer
    BY <2>4, XferRow DEF Inv
  <2>6. [xfer[h[1]] EXCEPT !.status = "active", !.agent = None, !.team = h[2]] \in Transfer
    BY <2>4, <2>5 DEF Transfer, AgentOrNone
  <2> QED  BY <1>2, <2>2, <2>6
<1>6. CASE AutoCloseExpired(f)
  <2>1. f \in CloseRead
    BY <1>6, ReadKinds DEF AutoCloseExpired, Inv
  <2>2. PICK h \in f.rows :
          UNCHANGED conv \/ conv' = Mirrored(conv, [h[2] EXCEPT !.status = "expired"])
    BY <1>6 DEF AutoCloseExpired
  <2>3. f.rows \subseteq (DOMAIN xfer) \X Transfer
    BY <2>1 DEF CloseRead
  <2>4. h[2] \in Transfer
    BY <2>3
  <2>5. [h[2] EXCEPT !.status = "expired"] \in Transfer
    BY <2>4 DEF Transfer
  <2> QED  BY <1>1, <1>2, <2>2, <2>5
<1> QED  BY <1>3, <1>4, <1>5, <1>6

LEMMA DeleteTeamConv ==
  ASSUME ConvInv, NEW t \in Teams, DeleteTeam(t)
  PROVE  ConvStep
<1>1. CASE UNCHANGED conv
  BY <1>1, ConvStays DEF ConvInv
<1>2. CASE \E to \in Teams :
             conv' = [i \in DOMAIN conv |-> IF <<"conversation", i>> \in TeamRefs(t)
                                            THEN [conv[i] EXCEPT !.team = to] ELSE conv[i]]
  <2>1. PICK to \in Teams :
          conv' = [i \in DOMAIN conv |-> IF <<"conversation", i>> \in TeamRefs(t)
                                         THEN [conv[i] EXCEPT !.team = to] ELSE conv[i]]
    BY <1>2
  <2>2. ASSUME NEW i \in DOMAIN conv
        PROVE  /\ conv'[i] \in Conversation /\ conv'[i].contact = conv[i].contact
               /\ conv'[i].status = conv[i].status
    <3>1. conv[i] \in Conversation
      BY ConvRow DEF ConvInv
    <3>2. conv'[i] = [conv[i] EXCEPT !.team = to] \/ conv'[i] = conv[i]
      BY <2>1
    <3> QED  BY <3>1, <3>2 DEF Conversation, TeamOrNone
  <2>3. conv' \in [DOMAIN conv -> Conversation]
    <3>1. \A i \in DOMAIN conv : conv'[i] \in Conversation
      BY <2>2
    <3> QED  BY <2>1, <3>1
  <2> QED  BY <2>2, <2>3, ConvKeeps DEF ConvInv, Rewrite
<1> QED  BY <1>1, <1>2 DEF DeleteTeam

(* Every step leaves a contact at most one live conversation. *)
LEMMA ConversationsStep ==
  ASSUME Inv, Next
  PROVE  ConvStep
<1>1. ConvInv
  BY DEF Inv, ConvInv
<1>2. CASE UNCHANGED conv
  BY <1>2, ConvStays DEF Inv
<1>3. CASE Customer
  BY <1>1, <1>3, TouchStep, BotReplyStep DEF Customer
<1>4. CASE Conversations
  <2>1. CASE \E c \in Contacts, a \in Agents : AgentReply(c, a)
    BY <1>1, <2>1, AgentReplyStep
  <2>2. CASE \E c : ResolveConversation(c)
    BY <1>1, <2>2, ResolveStep DEF ResolveConversation
  <2>3. CASE \E c : SnoozeConversation(c) \/ MarkConversationPending(c) \/ OpenConversation(c)
    BY <1>1, <2>3, StatusStep
  <2>4. CASE Assigns
    BY <1>1, <2>4, AssignConvStep
  <2>5. CASE \E i \in DOMAIN conv : ReopenConversation(i)
    BY <1>1, <2>5, ReopenStep
  <2>6. CASE \E i \in DOMAIN conv : BulkConversations(i)
    <3>1. PICK i \in DOMAIN conv : BulkConversations(i)
      BY <2>6
    <3>2. conv[i].contact \in Contacts
      BY ConvRow DEF Inv
    <3> QED  BY <2>2, <2>3, <2>4, <3>1, <3>2 DEF BulkConversations, Assigns
  <2>7. CASE SweepIdleRead
    BY <1>2, <2>7 DEF SweepIdleRead
  <2>8. CASE \E f \in flight : SweepIdleResolve(f)
    BY <1>1, <1>2, <2>8, ResolveStep DEF SweepIdleResolve
  <2>9. CASE \E c \in Contacts : SetConversationStatus(c) \/ MarkConversationPending(c)
    BY <2>2, <2>3, <2>9 DEF SetConversationStatus
  <2> QED  BY <1>4, <2>1, <2>4, <2>5, <2>6, <2>7, <2>8, <2>9 DEF Conversations, Assigns
<1>5. CASE WakeSnoozed \/ SnoozeRunsOut \/ ConversationAges
  BY <1>1, <1>5, TimeConvStep
<1>6. CASE Creation
  <2>1. CASE Inserts
    BY <1>1, <2>1, InsertsConv
  <2>2. CASE \E c \in Contacts : SuppressedOutOfHours(c)
    BY <1>1, <2>2, HandlingKeeps DEF SuppressedOutOfHours
  <2>3. CASE \E f \in flight : CreateAgentTransfer(f)
    BY <1>2, <2>1, <2>3, CreateInserts DEF Inv
  <2>4. CASE \E c \in Contacts : CreateTransferToQueue(c) \/ CreateTransferFromKeyword(c)
    BY <2>1, <2>2, <2>4, BotInserts DEF Inv
  <2>5. CASE \E c \in Contacts : AssignConversationAction(c)
    <3>1. PICK c \in Contacts : AssignConversationAction(c)
      BY <2>5
    <3>2. CASE \E t \in Teams : CreateTransferToTeam(c, t)
      BY <2>1, <2>2, <3>2, BotInserts DEF Inv
    <3>3. CASE \E a \in AgentOrNone : AssignConversation(c, a, None)
      <4>1. None \in TeamOrNone
        BY DEF TeamOrNone
      <4>2. Assigns
        BY <3>3, <4>1 DEF Assigns
      <4> QED  BY <1>1, <4>2, AssignConvStep
    <3> QED  BY <3>1, <3>2, <3>3 DEF AssignConversationAction
  <2>6. CASE \/ \E c \in Contacts, a \in AgentOrNone, t \in TeamOrNone : CreateCheck(c, a, t)
             \/ \E f \in flight : StoreTeamConfig(f)
             \/ \E t \in Teams : LoadTeamConfig(t)
    BY <1>2, <2>6 DEF CreateCheck, StoreTeamConfig, LoadTeamConfig
  <2> QED  BY <1>6, <2>3, <2>4, <2>5, <2>6 DEF Creation
<1>7. CASE Work
  BY <1>2, <1>7, FlightConv, ResumeConv
     DEF Work, PickNextRead, GoAway, ComeBack, AssignTransferRead
<1>8. CASE Processor
  BY <1>2, <1>8, FlightConv DEF Processor, SlaRead, MarkSLABreached, Escalate, CloseInactiveBot
<1>9. CASE TeamAdmin
  BY <1>1, <1>2, <1>9, DeleteTeamConv DEF TeamAdmin, UpdateTeam, AddTeamMember, RemoveTeamMember
<1>10. CASE DeadlinePasses
  BY <1>2, <1>10 DEF DeadlinePasses
<1> QED  BY <1>3, <1>4, <1>5, <1>6, <1>7, <1>8, <1>9, <1>10 DEF Next, Time

-----------------------------------------------------------------------------
(* The reads in flight stay well formed                                      *)

LEMMA ReadsKept ==
  ASSUME ConvStep, XferStep
  PROVE  Reads \subseteq Reads'
<1>1. /\ DOMAIN conv \subseteq DOMAIN conv' /\ DOMAIN xfer \subseteq DOMAIN xfer'
      /\ \A x \in DOMAIN xfer : xfer'[x].contact = xfer[x].contact
  BY DEF ConvStep, XferStep
<1>2. SweepRead \subseteq SweepRead' /\ FillRead = FillRead' /\ CreateRead = CreateRead'
  BY <1>1 DEF SweepRead, FillRead, CreateRead
<1>3. PickRead \subseteq PickRead' /\ AssignRead \subseteq AssignRead'
  BY <1>1 DEF PickRead, AssignRead
<1>4. /\ (DOMAIN xfer) \X TeamOrNone \subseteq (DOMAIN xfer)' \X TeamOrNone
      /\ (DOMAIN xfer) \X Transfer \subseteq (DOMAIN xfer)' \X Transfer
  BY <1>1
<1>5. ReturnRead \subseteq ReturnRead'
  BY <1>4 DEF ReturnRead
<1>6. CloseRead \subseteq CloseRead'
  <2> SUFFICES ASSUME NEW f \in CloseRead  PROVE f \in CloseRead'
    OBVIOUS
  <2>1. /\ f \in [op: {"close"}, rows: SUBSET ((DOMAIN xfer) \X Transfer)]
        /\ \A h \in f.rows : h[2].contact = xfer[h[1]].contact
    BY DEF CloseRead
  <2>2. f \in [op: {"close"}, rows: SUBSET ((DOMAIN xfer)' \X Transfer)]
    BY <1>4, <2>1
  <2>3. ASSUME NEW h \in f.rows  PROVE h[2].contact = xfer'[h[1]].contact
    <3>1. h[1] \in DOMAIN xfer
      BY <2>1
    <3> QED  BY <1>1, <2>1, <3>1
  <2> QED  BY <2>2, <2>3 DEF CloseRead
<1> QED  BY <1>2, <1>3, <1>5, <1>6 DEF Reads

FlightMove == \/ flight' \subseteq flight
              \/ \E r \in Reads : Launch(r)
              \/ \E f \in flight, r \in Reads : flight' = (flight \ {f}) \cup {r}

LEMMA FlightMoves ==
  ASSUME FlightTypes, FlightMove, Reads \subseteq Reads', MaxFlight \in Nat
  PROVE  FlightTypes'
<1>1. IsFiniteSet(flight) /\ Cardinality(flight) \in Nat /\ Cardinality(flight) <= MaxFlight
  BY FS_CardinalityType DEF FlightTypes
<1>2. flight' \subseteq Reads'
  BY DEF FlightMove, FlightTypes, Launch
<1>3. IsFiniteSet(flight') /\ Cardinality(flight') <= MaxFlight
  <2>1. CASE flight' \subseteq flight
    <3>1. IsFiniteSet(flight') /\ Cardinality(flight') <= Cardinality(flight)
      BY <1>1, <2>1, FS_Subset
    <3> QED  BY <1>1, <3>1, FS_CardinalityType
  <2>2. CASE \E r \in Reads : Launch(r)
    <3>1. PICK r \in Reads : Cardinality(flight) < MaxFlight /\ flight' = flight \cup {r}
      BY <2>2 DEF Launch
    <3>2. /\ IsFiniteSet(flight')
          /\ Cardinality(flight') = Cardinality(flight) \/ Cardinality(flight') = Cardinality(flight) + 1
      BY <1>1, <3>1, FS_AddElement
    <3> QED  BY <1>1, <3>1, <3>2
  <2>3. CASE \E f \in flight, r \in Reads : flight' = (flight \ {f}) \cup {r}
    <3>1. PICK f \in flight, r \in Reads : flight' = (flight \ {f}) \cup {r}
      BY <2>3
    <3>2. IsFiniteSet(flight \ {f}) /\ Cardinality(flight \ {f}) = Cardinality(flight) - 1
      BY <1>1, FS_RemoveElement
    <3>3. /\ IsFiniteSet(flight')
          /\ Cardinality(flight') = Cardinality(flight \ {f})
             \/ Cardinality(flight') = Cardinality(flight \ {f}) + 1
      BY <3>1, <3>2, FS_AddElement
    <3> QED  BY <1>1, <3>2, <3>3
  <2> QED  BY <2>1, <2>2, <2>3 DEF FlightMove
<1> QED  BY <1>2, <1>3 DEF FlightTypes

(* What each read leaves in flight *)
LEMMA ReadsLaunched ==
  ASSUME Inv,
         \/ SweepIdleRead \/ SlaRead
         \/ \E c \in Contacts, a \in AgentOrNone, t \in TeamOrNone : CreateCheck(c, a, t)
         \/ \E t \in Teams : LoadTeamConfig(t)
         \/ \E a \in Agents : PickNextRead(a) \/ GoAway(a)
         \/ \E x \in DOMAIN xfer, a \in AgentOrNone, t \in TeamOrNone : AssignTransferRead(x, a, t)
  PROVE  FlightMove
<1>1. CASE SweepIdleRead
  <2>1. Launch([op |-> "sweep", rows |-> StaleRows])
    BY <1>1 DEF SweepIdleRead
  <2>2. [op |-> "sweep", rows |-> StaleRows] \in SweepRead
    BY DEF SweepRead, StaleRows
  <2> QED  BY <2>1, <2>2 DEF FlightMove, Reads
<1>2. CASE SlaRead
  <2>1. PICK due \in SUBSET DOMAIN xfer :
          Launch([op |-> "close", rows |-> {<<x, xfer[x]>> : x \in due}])
    BY <1>2 DEF SlaRead
  <2>2. {<<x, xfer[x]>> : x \in due} \subseteq (DOMAIN xfer) \X Transfer
    BY XferRow DEF Inv
  <2>3. \A h \in {<<x, xfer[x]>> : x \in due} : h[2].contact = xfer[h[1]].contact
    OBVIOUS
  <2>4. [op |-> "close", rows |-> {<<x, xfer[x]>> : x \in due}] \in CloseRead
    BY <2>2, <2>3 DEF CloseRead
  <2> QED  BY <2>1, <2>4 DEF FlightMove, Reads
<1>3. CASE \E c \in Contacts, a \in AgentOrNone, t \in TeamOrNone : CreateCheck(c, a, t)
  <2>1. PICK c \in Contacts, a \in AgentOrNone, t \in TeamOrNone : CreateCheck(c, a, t)
    BY <1>3
  <2>2. Launch([op |-> "create", contact |-> c, agent |-> a, team |-> t])
    BY <2>1 DEF CreateCheck
  <2>3. [op |-> "create", contact |-> c, agent |-> a, team |-> t] \in CreateRead
    BY DEF CreateRead
  <2> QED  BY <2>2, <2>3 DEF FlightMove, Reads
<1>4. CASE \E t \in Teams : LoadTeamConfig(t)
  <2>1. PICK t \in Teams : DBConfig(t) # None
                           /\ Launch([op |-> "fill", team |-> t, cfg |-> DBConfig(t)])
    BY <1>4 DEF LoadTeamConfig
  <2>2. team[t] \in [exists: BOOLEAN, active: BOOLEAN, members: SUBSET Agents,
                     strategy: Strategies]
    BY DEF Inv, PeopleTypes
  <2>3. DBConfig(t) \in TeamConfig
    BY <2>1, <2>2 DEF DBConfig, TeamConfig
  <2>4. [op |-> "fill", team |-> t, cfg |-> DBConfig(t)] \in FillRead
    BY <2>3 DEF FillRead
  <2> QED  BY <2>1, <2>4 DEF FlightMove, Reads
<1>5. CASE \E a \in Agents : PickNextRead(a)
  <2>1. PICK a \in Agents : /\ Candidates(a, {}) # {}
                            /\ Launch([op |-> "pick", agent |-> a,
                                       cand |-> Min(Candidates(a, {})), skip |-> {}])
    BY <1>5 DEF PickNextRead
  <2>2. Candidates(a, {}) \subseteq DOMAIN xfer /\ DOMAIN xfer \subseteq Nat
    BY RowsOfTable DEF Candidates, Queued, Inv, XferTypes
  <2>3. Min(Candidates(a, {})) \in DOMAIN xfer
    BY <2>1, <2>2, MinIsMember
  <2>4. [op |-> "pick", agent |-> a, cand |-> Min(Candidates(a, {})), skip |-> {}] \in PickRead
    BY <2>3 DEF PickRead
  <2> QED  BY <2>1, <2>4 DEF FlightMove, Reads
<1>6. CASE \E a \in Agents : GoAway(a)
  <2>1. PICK a \in Agents : GoAway(a)
    BY <1>6
  <2>2. PICK held \in SUBSET DOMAIN xfer :
          UNCHANGED flight \/ Launch([op |-> "return", agent |-> a,
                                      held |-> {<<x, xfer[x].team>> : x \in held}])
    BY <2>1 DEF GoAway
  <2>3. {<<x, xfer[x].team>> : x \in held} \subseteq (DOMAIN xfer) \X TeamOrNone
    BY XferRow DEF Inv, Transfer
  <2>4. [op |-> "return", agent |-> a, held |-> {<<x, xfer[x].team>> : x \in held}] \in ReturnRead
    BY <2>3 DEF ReturnRead
  <2> QED  BY <2>2, <2>4 DEF FlightMove, Reads
<1>7. CASE \E x \in DOMAIN xfer, a \in AgentOrNone, t \in TeamOrNone : AssignTransferRead(x, a, t)
  <2>1. PICK x \in DOMAIN xfer, a \in AgentOrNone, t \in TeamOrNone : AssignTransferRead(x, a, t)
    BY <1>7
  <2> DEFINE moved == [xfer[x] EXCEPT !.agent = a, !.team = t]
             row == IF a # None /\ ~xfer[x].picked THEN PickedUp(moved) ELSE moved
  <2>2. xfer[x].status = "active" /\ Launch([op |-> "assign", id |-> x, row |-> row])
    BY <2>1 DEF AssignTransferRead
  <2>3. xfer[x] \in Transfer
    BY XferRow DEF Inv
  <2>4. /\ moved \in Transfer /\ moved.agent = a /\ moved.contact = xfer[x].contact
        /\ moved.status = "active" /\ moved.picked = xfer[x].picked
    BY <2>2, <2>3 DEF Transfer
  <2>5. /\ row \in Transfer /\ row.status = "active" /\ row.contact = xfer[x].contact
        /\ row.agent # None => row.picked
    <3> HIDE DEF moved
    <3>1. CASE a # None /\ ~xfer[x].picked
      BY <2>4, <3>1, PickedUpFacts
    <3>2. CASE ~(a # None /\ ~xfer[x].picked)
      BY <2>4, <3>2
    <3> QED  BY <3>1, <3>2
  <2> HIDE DEF row
  <2>6. [op |-> "assign", id |-> x, row |-> row] \in AssignRead
    BY <2>5 DEF AssignRead
  <2> QED  BY <2>2, <2>6 DEF FlightMove, Reads
<1> QED  BY <1>1, <1>2, <1>3, <1>4, <1>5, <1>6, <1>7

(* A read that lands goes, or goes on with what is left of its work. *)
LEMMA ReadsLanded ==
  ASSUME Inv, NEW f \in flight,
         \/ SweepIdleResolve(f) \/ CreateAgentTransfer(f) \/ StoreTeamConfig(f)
         \/ PickNextClaim(f) \/ AssignTransferSave(f) \/ ReturnToQueue(f) \/ AutoCloseExpired(f)
  PROVE  FlightMove
<1>1. CASE Land(f)
  BY <1>1 DEF Land, FlightMove
<1>2. CASE flight' = flight \ {f} \/ \E r \in Reads : flight' = (flight \ {f}) \cup {r}
  BY <1>2 DEF FlightMove
<1>3. CASE SweepIdleResolve(f)
  <2>1. f \in SweepRead
    BY <1>3, ReadKinds DEF SweepIdleResolve, Inv
  <2>2. PICK i \in f.rows : flight' = (flight \ {f}) \cup
          IF f.rows \ {i} = {} THEN {} ELSE {[f EXCEPT !.rows = f.rows \ {i}]}
    BY <1>3 DEF SweepIdleResolve
  <2>3. [f EXCEPT !.rows = f.rows \ {i}] \in Reads
    BY <2>1 DEF SweepRead, Reads
  <2> QED  BY <1>2, <2>2, <2>3
<1>4. CASE CreateAgentTransfer(f) \/ StoreTeamConfig(f) \/ AssignTransferSave(f)
  BY <1>1, <1>4 DEF CreateAgentTransfer, StoreTeamConfig, AssignTransferSave
<1>5. CASE PickNextClaim(f)
  <2>1. f \in PickRead
    BY <1>5, ReadKinds DEF PickNextClaim, Inv
  <2> DEFINE skip == f.skip \cup {f.cand}
             next == Candidates(f.agent, skip)
  <2>2. Land(f) \/ flight' = (flight \ {f}) \cup
                     IF next = {} \/ Cardinality(skip) >= 3 THEN {}
                     ELSE {[f EXCEPT !.cand = Min(next), !.skip = skip]}
    BY <1>5 DEF PickNextClaim
  <2>3. next \subseteq DOMAIN xfer /\ DOMAIN xfer \subseteq Nat
    BY RowsOfTable DEF Candidates, Queued, Inv, XferTypes
  <2>4. skip \subseteq DOMAIN xfer
    BY <2>1 DEF PickRead
  <2> HIDE DEF next, skip
  <2>5. next # {} => Min(next) \in DOMAIN xfer
    BY <2>3, MinIsMember
  <2>6. next # {} => [f EXCEPT !.cand = Min(next), !.skip = skip] \in PickRead
    BY <2>1, <2>4, <2>5 DEF PickRead
  <2> QED  BY <1>1, <1>2, <2>2, <2>6 DEF Reads
<1>6. CASE ReturnToQueue(f)
  <2>1. f \in ReturnRead
    BY <1>6, ReadKinds DEF ReturnToQueue, Inv
  <2>2. PICK h \in f.held : flight' = (flight \ {f}) \cup
          IF f.held \ {h} = {} THEN {} ELSE {[f EXCEPT !.held = f.held \ {h}]}
    BY <1>6 DEF ReturnToQueue
  <2>3. [f EXCEPT !.held = f.held \ {h}] \in Reads
    BY <2>1 DEF ReturnRead, Reads
  <2> QED  BY <1>2, <2>2, <2>3
<1>7. CASE AutoCloseExpired(f)
  <2>1. f \in CloseRead
    BY <1>7, ReadKinds DEF AutoCloseExpired, Inv
  <2>2. PICK h \in f.rows : flight' = (flight \ {f}) \cup
          IF f.rows \ {h} = {} THEN {} ELSE {[f EXCEPT !.rows = f.rows \ {h}]}
    BY <1>7 DEF AutoCloseExpired
  <2>3. [f EXCEPT !.rows = f.rows \ {h}] \in Reads
    BY <2>1 DEF CloseRead, Reads
  <2> QED  BY <1>2, <2>2, <2>3
<1> QED  BY <1>3, <1>4, <1>5, <1>6, <1>7

LEMMA FlightStep ==
  ASSUME Inv, Next
  PROVE  FlightTypes'
<1>1. FlightMove
  <2>1. CASE UNCHANGED flight
    BY <2>1 DEF FlightMove
  <2>2. CASE Customer
    BY <2>1, <2>2 DEF Customer, TouchInbound, BotReply
  <2>3. CASE Conversations
    BY <2>1, <2>3, ReadsLaunched, ReadsLanded
       DEF Conversations, AgentReply, SetConversationStatus, MarkConversationPending,
           OpenConversation, ResolveConversation, SnoozeConversation, AssignConversation,
           ReopenConversation, BulkConversations
  <2>4. CASE Creation
    BY <2>1, <2>4, ReadsLaunched, ReadsLanded
       DEF Creation, CreateTransferToQueue, CreateTransferFromKeyword, CreateTransferToTeam,
           AssignConversationAction, AssignConversation
  <2>5. CASE Work
    BY <2>1, <2>5, ReadsLaunched, ReadsLanded DEF Work, ComeBack, ResumeFromTransfer
  <2>6. CASE Processor
    BY <2>1, <2>6, ReadsLaunched, ReadsLanded
       DEF Processor, MarkSLABreached, Escalate, CloseInactiveBot
  <2>7. CASE TeamAdmin
    BY <2>1, <2>7 DEF TeamAdmin, UpdateTeam, DeleteTeam, AddTeamMember, RemoveTeamMember
  <2>8. CASE WakeSnoozed \/ Time
    BY <2>1, <2>8 DEF WakeSnoozed, Time, SnoozeRunsOut, ConversationAges, DeadlinePasses
  <2> QED  BY <2>2, <2>3, <2>4, <2>5, <2>6, <2>7, <2>8 DEF Next
<1>2. ConvStep /\ XferStep
  BY ConversationsStep, TransfersStep DEF TransferStep
<1>3. Reads \subseteq Reads'
  BY <1>2, ReadsKept
<1> QED  BY <1>1, <1>3, FlightMoves, BoundsAssumption DEF Inv

-----------------------------------------------------------------------------
(* The tables beside them                                                    *)

DeskTypes == /\ owner \in [Contacts -> AgentOrNone]
             /\ session \subseteq Contacts /\ botWait \subseteq Contacts
             /\ repliers \in [Contacts -> SUBSET Agents]

TeamTypes == /\ away \subseteq Agents
             /\ team \in [Teams -> [exists: BOOLEAN, active: BOOLEAN,
                                    members: SUBSET Agents, strategy: Strategies]]
             /\ cache \in [Teams -> TeamConfig \cup {None}]
             /\ stamps \in [Teams -> Seq(Agents)]

LEMMA DeskStays ==
  ASSUME DeskTypes, UNCHANGED <<owner, session, botWait, repliers>>
  PROVE  DeskTypes'
  BY DEF DeskTypes

LEMMA TeamsStay ==
  ASSUME TeamTypes, UNCHANGED people
  PROVE  TeamTypes'
  BY DEF TeamTypes, people

LEMMA InsertsDesk ==
  ASSUME DeskTypes, Inserts
  PROVE  DeskTypes'
  BY DEF DeskTypes, Inserts, Finalize

LEMMA DeskStep ==
  ASSUME Inv, Next
  PROVE  DeskTypes'
<1>1. DeskTypes
  BY DEF Inv, PeopleTypes, DeskTypes
<1>2. CASE UNCHANGED <<owner, session, botWait, repliers>>
  BY <1>1, <1>2, DeskStays
<1>3. CASE Customer
  BY <1>1, <1>3 DEF Customer, TouchInbound, BotReply, DeskTypes
<1>4. CASE Conversations
  <2>1. CASE \E c \in Contacts, a \in Agents : AgentReply(c, a)
    BY <1>1, <2>1 DEF AgentReply, DeskTypes
  <2>2. CASE \E c : ResolveConversation(c)
    BY <1>1, <2>2 DEF ResolveConversation, ResolveEffect, DeskTypes
  <2>3. CASE \E f \in flight : SweepIdleResolve(f)
    BY <1>1, <2>3 DEF SweepIdleResolve, ResolveEffect, DeskTypes
  <2> QED  BY <1>2, <1>4, <2>1, <2>2, <2>3
              DEF Conversations, SetConversationStatus, MarkConversationPending,
                  OpenConversation, SnoozeConversation, AssignConversation,
                  ReopenConversation, BulkConversations, SweepIdleRead
<1>5. CASE Creation
  <2>1. CASE Inserts
    BY <1>1, <2>1, InsertsDesk
  <2>2. CASE \E c \in Contacts : SuppressedOutOfHours(c)
    BY <1>2, <2>2 DEF SuppressedOutOfHours
  <2>3. CASE \E c \in Contacts : CreateTransferToQueue(c) \/ CreateTransferFromKeyword(c)
                                  \/ \E t \in Teams : CreateTransferToTeam(c, t)
    BY <2>1, <2>2, <2>3, BotInserts DEF Inv
  <2>4. CASE \E f \in flight : CreateAgentTransfer(f)
    BY <1>2, <2>1, <2>4, CreateInserts DEF Inv
  <2> QED  BY <1>2, <1>5, <2>3, <2>4
              DEF Creation, CreateCheck, StoreTeamConfig, LoadTeamConfig,
                  AssignConversationAction, AssignConversation
<1>6. CASE Work
  <2>1. CASE \E f \in flight : PickNextClaim(f)
    <3>1. PICK f \in flight : PickNextClaim(f)
      BY <2>1
    <3>2. f \in PickRead
      BY <3>1, ReadKinds DEF PickNextClaim, Inv
    <3>3. f.agent \in AgentOrNone
      BY <3>2 DEF PickRead, AgentOrNone
    <3> QED  BY <1>1, <3>1, <3>3 DEF PickNextClaim, DeskTypes
  <2>2. CASE \E f \in flight : AssignTransferSave(f)
    <3>1. PICK f \in flight : AssignTransferSave(f)
      BY <2>2
    <3>2. f \in AssignRead
      BY <3>1, ReadKinds DEF AssignTransferSave, Inv
    <3>3. f.row.agent \in AgentOrNone
      BY <3>2 DEF AssignRead, Transfer
    <3> QED  BY <1>1, <3>1, <3>3 DEF AssignTransferSave, DeskTypes
  <2>3. CASE \E x \in DOMAIN xfer : ResumeFromTransfer(x)
    BY <1>1, <2>3 DEF ResumeFromTransfer, DeskTypes
  <2> QED  BY <1>2, <1>6, <2>1, <2>2, <2>3
              DEF Work, PickNextRead, GoAway, ComeBack, ReturnToQueue, AssignTransferRead
<1>7. CASE Processor
  BY <1>1, <1>2, <1>7 DEF Processor, SlaRead, MarkSLABreached, AutoCloseExpired, Escalate,
                          CloseInactiveBot, DeskTypes
<1>8. CASE TeamAdmin
  BY <1>2, <1>8 DEF TeamAdmin, UpdateTeam, DeleteTeam, AddTeamMember, RemoveTeamMember
<1>9. CASE WakeSnoozed \/ Time
  BY <1>2, <1>9 DEF WakeSnoozed, Time, SnoozeRunsOut, ConversationAges, DeadlinePasses
<1> QED  BY <1>3, <1>4, <1>5, <1>6, <1>7, <1>8, <1>9 DEF Next

LEMMA AssignEffectsTypes ==
  ASSUME PeopleTypes, NEW t \in Teams, NEW a \in AgentOrNone, AssignEffects(t, a)
  PROVE  TeamTypes'
<1>1. GetTeamConfig(t) \in TeamConfig \cup {None}
  BY ConfigTypes
<1>2. cache' \in [Teams -> TeamConfig \cup {None}]
  BY <1>1 DEF AssignEffects, PeopleTypes
<1>3. stamps' \in [Teams -> Seq(Agents)]
  <2>1. a # None => Append(Unstamped(stamps[t], a), a) \in Seq(Agents)
    <3>1. Unstamped(stamps[t], a) \in Seq(Agents)
      BY UnstampedTypes DEF PeopleTypes
    <3> QED  BY <3>1 DEF AgentOrNone
  <2>2. \/ UNCHANGED stamps
        \/ a # None /\ stamps' = [stamps EXCEPT ![t] = Append(Unstamped(stamps[t], a), a)]
    BY DEF AssignEffects
  <2> QED  BY <2>1, <2>2 DEF PeopleTypes
<1> QED  BY <1>2, <1>3 DEF AssignEffects, PeopleTypes, TeamTypes

LEMMA TeamStep ==
  ASSUME Inv, Next
  PROVE  TeamTypes'
<1>1. TeamTypes /\ PeopleTypes
  BY DEF Inv, PeopleTypes, TeamTypes
<1>2. CASE UNCHANGED people
  BY <1>1, <1>2, TeamsStay
<1>3. CASE Customer
  BY <1>2, <1>3 DEF Customer, TouchInbound, BotReply
<1>4. CASE Conversations
  BY <1>2, <1>4
     DEF Conversations, AgentReply, SetConversationStatus, MarkConversationPending,
         OpenConversation, ResolveConversation, SnoozeConversation, AssignConversation,
         ReopenConversation, BulkConversations, SweepIdleRead, SweepIdleResolve
<1>5. CASE Creation
  <2>1. ASSUME NEW t \in Teams, NEW a \in AssignToTeam(t), AssignEffects(t, a)
        PROVE  TeamTypes'
    <3>1. a \in AgentOrNone
      BY <1>1, AssignFacts DEF AgentOrNone
    <3> QED  BY <1>1, <2>1, <3>1, AssignEffectsTypes
  <2>2. CASE \E f \in flight : CreateAgentTransfer(f)
    <3>1. PICK f \in flight : CreateAgentTransfer(f)
      BY <2>2
    <3>2. f.team \in TeamOrNone
      BY <3>1, ReadKinds DEF CreateAgentTransfer, CreateRead, Inv
    <3>3. CASE f.team # None /\ \E a \in AssignToTeam(f.team) : AssignEffects(f.team, a)
      BY <2>1, <3>2, <3>3 DEF TeamOrNone
    <3> QED  BY <1>2, <3>1, <3>3 DEF CreateAgentTransfer
  <2>3. CASE \E f \in flight : StoreTeamConfig(f)
    <3>1. PICK f \in flight : StoreTeamConfig(f)
      BY <2>3
    <3>2. f.team \in Teams /\ f.cfg \in TeamConfig
      BY <3>1, ReadKinds DEF StoreTeamConfig, FillRead, Inv
    <3> QED  BY <1>1, <3>1, <3>2 DEF StoreTeamConfig, TeamTypes
  <2>4. CASE \E c \in Contacts : CreateTransferToQueue(c) \/ CreateTransferFromKeyword(c)
    BY <1>2, <2>4 DEF CreateTransferToQueue, CreateTransferFromKeyword, SuppressedOutOfHours
  <2>5. CASE \E c \in Contacts : AssignConversationAction(c)
    BY <1>2, <2>1, <2>5 DEF AssignConversationAction, CreateTransferToTeam, AssignConversation,
                            SuppressedOutOfHours
  <2> QED  BY <1>2, <1>5, <2>2, <2>3, <2>4, <2>5 DEF Creation, CreateCheck, LoadTeamConfig
<1>6. CASE Work
  <2>1. CASE \E a \in Agents : GoAway(a) \/ ComeBack(a)
    BY <1>1, <2>1 DEF GoAway, ComeBack, TeamTypes
  <2> QED  BY <1>2, <1>6, <2>1
              DEF Work, PickNextRead, PickNextClaim, AssignTransferSave, ReturnToQueue,
                  ResumeFromTransfer, AssignTransferRead
<1>7. CASE Processor
  BY <1>2, <1>7 DEF Processor, SlaRead, MarkSLABreached, AutoCloseExpired, Escalate,
                    CloseInactiveBot
<1>8. CASE TeamAdmin
  <2>1. CASE \E t \in Teams : UpdateTeam(t)
    <3>1. PICK t \in Teams, on \in BOOLEAN, s \in Strategies :
            /\ team' = [team EXCEPT ![t].active = on, ![t].strategy = s]
            /\ cache' = [cache EXCEPT ![t] = None] /\ UNCHANGED <<away, stamps>>
      BY <2>1 DEF UpdateTeam
    <3> QED  BY <1>1, <3>1 DEF TeamTypes
  <2>2. CASE \E t \in Teams : DeleteTeam(t)
    <3>1. PICK t \in Teams :
            /\ team' = [team EXCEPT ![t].exists = FALSE, ![t].members = {}]
            /\ cache' = [cache EXCEPT ![t] = None]
            /\ stamps' = [stamps EXCEPT ![t] = <<>>] /\ UNCHANGED away
      BY <2>2 DEF DeleteTeam
    <3>2. <<>> \in Seq(Agents)
      OBVIOUS
    <3> QED  BY <1>1, <3>1, <3>2 DEF TeamTypes
  <2>3. CASE \E t \in Teams, a \in Agents : AddTeamMember(t, a)
    <3>1. PICK t \in Teams, a \in Agents :
            /\ team' = [team EXCEPT ![t].members = @ \cup {a}]
            /\ cache' = [cache EXCEPT ![t] = None] /\ UNCHANGED <<away, stamps>>
      BY <2>3 DEF AddTeamMember
    <3> QED  BY <1>1, <3>1 DEF TeamTypes
  <2>4. CASE \E t \in Teams, a \in Agents : RemoveTeamMember(t, a)
    <3>1. PICK t \in Teams, a \in Agents :
            /\ team' = [team EXCEPT ![t].members = @ \ {a}]
            /\ cache' = [cache EXCEPT ![t] = None]
            /\ stamps' = [stamps EXCEPT ![t] = Unstamped(stamps[t], a)] /\ UNCHANGED away
      BY <2>4 DEF RemoveTeamMember
    <3>2. Unstamped(stamps[t], a) \in Seq(Agents)
      BY <1>1, UnstampedTypes DEF TeamTypes
    <3> QED  BY <1>1, <3>1, <3>2 DEF TeamTypes
  <2> QED  BY <1>8, <2>1, <2>2, <2>3, <2>4 DEF TeamAdmin
<1>9. CASE WakeSnoozed \/ Time
  BY <1>2, <1>9 DEF WakeSnoozed, Time, SnoozeRunsOut, ConversationAges, DeadlinePasses
<1> QED  BY <1>3, <1>4, <1>5, <1>6, <1>7, <1>8, <1>9 DEF Next

LEMMA OpsStep ==
  ASSUME Inv, Next
  PROVE  ops' \in 0..MaxOps
<1>1. ops \in 0..MaxOps /\ MaxOps \in Nat
  BY BoundsAssumption DEF Inv, PeopleTypes
<1>2. CASE UNCHANGED ops
  BY <1>1, <1>2
<1>3. CASE Request
  BY <1>1, <1>3 DEF Request
<1>4. CASE Customer \/ Conversations
  BY <1>2, <1>3, <1>4
     DEF Customer, TouchInbound, BotReply, Conversations, AgentReply, SetConversationStatus,
         MarkConversationPending, OpenConversation, ResolveConversation, SnoozeConversation,
         AssignConversation, ReopenConversation, BulkConversations, SweepIdleRead,
         SweepIdleResolve
<1>5. CASE Creation
  BY <1>2, <1>3, <1>5
     DEF Creation, CreateCheck, CreateAgentTransfer, StoreTeamConfig, CreateTransferToQueue,
         CreateTransferFromKeyword, AssignConversationAction, CreateTransferToTeam,
         AssignConversation, LoadTeamConfig
<1>6. CASE Work
  BY <1>2, <1>3, <1>6
     DEF Work, PickNextRead, GoAway, ComeBack, PickNextClaim, AssignTransferSave,
         ReturnToQueue, ResumeFromTransfer, AssignTransferRead
<1>7. CASE Processor
  BY <1>2, <1>7 DEF Processor, SlaRead, MarkSLABreached, AutoCloseExpired, Escalate,
                    CloseInactiveBot
<1>8. CASE TeamAdmin
  BY <1>3, <1>8 DEF TeamAdmin, UpdateTeam, DeleteTeam, AddTeamMember, RemoveTeamMember
<1>9. CASE WakeSnoozed \/ Time
  BY <1>2, <1>9 DEF WakeSnoozed, Time, SnoozeRunsOut, ConversationAges, DeadlinePasses
<1> QED  BY <1>4, <1>5, <1>6, <1>7, <1>8, <1>9 DEF Next

-----------------------------------------------------------------------------
(* The invariant, and what follows                                           *)

LEMMA InitInv ==
  ASSUME Init
  PROVE  Inv
<1>1. /\ \A S : <<>> \in Seq(S) /\ Len(<<>>) = 0 /\ DOMAIN <<>> = {}
      /\ 0 \in 0..MaxOps /\ 0 <= MaxConvs /\ 0 <= MaxTransfers /\ 0 <= MaxFlight
  BY BoundsAssumption
<1>2. ConvTypes /\ OneLive /\ XferTypes /\ HeldIsPickedUp
  BY <1>1 DEF Init, ConvTypes, OneLive, XferTypes, HeldIsPickedUp
<1>3. PeopleTypes
  <2>1. owner \in [Contacts -> AgentOrNone] /\ session \subseteq Contacts
        /\ botWait \subseteq Contacts /\ repliers \in [Contacts -> SUBSET Agents]
        /\ away \subseteq Agents /\ ops \in 0..MaxOps
    BY <1>1 DEF Init, AgentOrNone
  <2>2. [exists |-> TRUE, active |-> TRUE, members |-> Agents, strategy |-> "round_robin"]
          \in [exists: BOOLEAN, active: BOOLEAN, members: SUBSET Agents, strategy: Strategies]
    BY BoundsAssumption
  <2>3. team \in [Teams -> [exists: BOOLEAN, active: BOOLEAN,
                            members: SUBSET Agents, strategy: Strategies]]
    BY <2>2 DEF Init
  <2>4. cache \in [Teams -> TeamConfig \cup {None}] /\ stamps \in [Teams -> Seq(Agents)]
    BY <1>1 DEF Init
  <2> QED  BY <2>1, <2>3, <2>4 DEF PeopleTypes
<1>4. FlightTypes
  BY <1>1, FS_EmptySet DEF Init, FlightTypes
<1> QED  BY <1>2, <1>3, <1>4 DEF Inv

LEMMA InvStays ==
  ASSUME Inv, UNCHANGED vars
  PROVE  Inv'
<1>1. ConvTypes' /\ OneLive' /\ XferTypes' /\ HeldIsPickedUp'
  BY DEF Inv, vars, ConvTypes, OneLive, XferTypes, HeldIsPickedUp
<1>2. PeopleTypes'
  BY DEF Inv, vars, PeopleTypes
<1>3. FlightTypes'
  BY DEF Inv, vars, FlightTypes, Reads, SweepRead, FillRead, CreateRead, PickRead, AssignRead,
         ReturnRead, CloseRead
<1> QED  BY <1>1, <1>2, <1>3 DEF Inv

LEMMA InvStep ==
  ASSUME Inv, Next
  PROVE  Inv'
<1>1. ConvTypes' /\ OneLive'
  BY ConversationsStep DEF ConvStep
<1>2. XferTypes' /\ HeldIsPickedUp'
  BY TransfersStep DEF TransferStep, XferStep
<1>3. PeopleTypes'
  BY DeskStep, TeamStep, OpsStep DEF DeskTypes, TeamTypes, PeopleTypes
<1> QED  BY <1>1, <1>2, <1>3, FlightStep DEF Inv

(* The inductive invariant: one live conversation per contact, pickups        *)
(* recorded, and every read in flight naming rows that exist.                 *)
THEOREM InboxInvariant == Spec => []Inv
<1>1. Init => Inv
  BY InitInv
<1>2. Inv /\ [Next]_vars => Inv'
  BY InvStep, InvStays
<1> QED  BY <1>1, <1>2, PTL DEF Spec

LEMMA OneLiveCounted ==
  ASSUME Inv
  PROVE  OneLiveConversation
<1> SUFFICES ASSUME NEW c \in Contacts
             PROVE  Cardinality(LiveConvs(c)) <= 1
  BY DEF OneLiveConversation
<1>1. CASE LiveConvs(c) = {}
  BY <1>1, FS_EmptySet
<1>2. CASE LiveConvs(c) # {}
  <2>1. PICK i : LiveConvs(c) = {i}
    <3>1. PICK i : i \in LiveConvs(c)
      BY <1>2
    <3>2. \A j \in LiveConvs(c) : j = i
      BY <3>1 DEF Inv, OneLive, LiveConvs
    <3> QED  BY <3>1, <3>2
  <2> QED  BY <2>1, FS_Singleton
<1> QED  BY <1>1, <1>2

LEMMA InvTypes ==
  ASSUME Inv
  PROVE  TypeOK
  BY DEF Inv, ConvTypes, XferTypes, PeopleTypes, FlightTypes, TypeOK

LEMMA InvAssigns ==
  ASSUME Inv
  PROVE  AssignmentIsSafe
<1> SUFFICES ASSUME NEW t \in Teams
             PROVE  /\ AssignToTeam(t) \cap away = {}
                    /\ (GetTeamConfig(t) # None /\ GetTeamConfig(t).strategy = "round_robin")
                         => AssignToTeam(t) \subseteq team[t].members \cup {None}
  BY DEF AssignmentIsSafe
<1>1. None \notin away
  BY BoundsAssumption DEF Inv, PeopleTypes
<1> QED  BY <1>1, AssignFacts DEF Inv

LEMMA InvLists ==
  ASSUME Inv
  PROVE  WorkListsAgree
<1> SUFFICES ASSUME NEW u \in Agents
             PROVE  /\ ListAgentTransfers(u) \cap Queued = Candidates(u, {})
                    /\ \A q \in DOMAIN QueueCounts(u) :
                         QueueCounts(u)[q] = Cardinality({x \in Candidates(u, {}) : xfer[x].team = q})
                    /\ \A view \in {"mine", "unassigned", "bot"} :
                         GetInboxCounts(u)[view] = Cardinality(ListInbox(u, view))
  BY DEF WorkListsAgree
<1>1. u # None
  BY BoundsAssumption
<1>2. \A x \in DOMAIN xfer : xfer[x].team \in TeamOrNone
  BY XferRow DEF Inv, Transfer
<1>3. ListAgentTransfers(u) \cap Queued = Candidates(u, {})
  BY <1>1, <1>2 DEF ListAgentTransfers, Queued, Candidates, MayPick, TeamOrNone
<1>4. ASSUME NEW q \in DOMAIN QueueCounts(u)
      PROVE  QueueCounts(u)[q] = Cardinality({x \in Candidates(u, {}) : xfer[x].team = q})
  <2>1. q \in {t \in Teams : u \in team[t].members} \cup {None}
    BY DEF QueueCounts
  <2>2. {x \in Queued : xfer[x].team = q} = {x \in Candidates(u, {}) : xfer[x].team = q}
    BY <2>1 DEF Candidates, MayPick
  <2>3. QueueCounts(u)[q] = Cardinality({x \in Queued : xfer[x].team = q})
    BY <2>1 DEF QueueCounts
  <2> QED  BY <2>2, <2>3
<1>5. GetInboxCounts(u)["mine"] = Cardinality(ListInbox(u, "mine"))
  <2>1. ListInbox(u, "mine") =
          {i \in {j \in DOMAIN conv : conv[j].status # "resolved"} : conv[i].assignee = u}
    BY DEF ListInbox
  <2> QED  BY <2>1 DEF GetInboxCounts
<1>6. GetInboxCounts(u)["unassigned"] = Cardinality(ListInbox(u, "unassigned"))
  <2>1. ListInbox(u, "unassigned") =
          {i \in {k \in {j \in DOMAIN conv : conv[j].status # "resolved"} :
                    conv[k].assignee = None} : conv[i].handling # "bot"}
    BY DEF ListInbox
  <2> QED  BY <2>1 DEF GetInboxCounts
<1>7. GetInboxCounts(u)["bot"] = Cardinality(ListInbox(u, "bot"))
  <2>1. ListInbox(u, "bot") =
          {i \in {k \in {j \in DOMAIN conv : conv[j].status # "resolved"} :
                    conv[k].assignee = None} : conv[i].handling = "bot"}
    BY DEF ListInbox
  <2> QED  BY <2>1 DEF GetInboxCounts
<1> QED  BY <1>3, <1>4, <1>5, <1>6, <1>7

(* A contact never has two live conversations: touchInbound, RecordOutbound   *)
(* and Reopen look before they open one, under the contact's lock, and no     *)
(* other write brings a resolved conversation back (service.go:127-707).      *)
THEOREM OneConversation == Spec => []OneLiveConversation
<1>1. Inv => OneLiveConversation
  BY OneLiveCounted
<1> QED  BY <1>1, InboxInvariant, PTL

(* Round robin looks at the present members whatever the cache says, no       *)
(* strategy gives work to somebody away, a held transfer has its pickup       *)
(* recorded even when AssignAgentTransfer saves a stale row, and every list   *)
(* agrees with the counter beside it (assigner.go, transfers/service.go,      *)
(* inbox.go).                                                                 *)
THEOREM InboxIsConsistent == Spec => []InboxInv
<1>1. Inv => InboxInv
  BY InvTypes, InvAssigns, InvLists DEF Inv, InboxInv
<1> QED  BY <1>1, InboxInvariant, PTL

LEMMA StepKeeps ==
  ASSUME Inv, [Next]_vars
  PROVE  [ClaimStep]_vars /\ [EndStep]_vars /\ [MirrorStep]_vars
  BY TransfersStep DEF TransferStep

(* A transfer leaves an agent for another only by an explicit assignment, and *)
(* an ended one comes back only through AssignAgentTransfer's save of the row *)
(* it read (transfers/service.go:80-147, agent_transfers.go:713-789).         *)
THEOREM TransfersAreKept == Spec => TransfersKept
<1>1. Inv /\ [Next]_vars => [ClaimStep]_vars /\ [EndStep]_vars
  BY StepKeeps
<1>2. Spec => [][ClaimStep]_vars /\ [][EndStep]_vars
  BY <1>1, InboxInvariant, PTL DEF Spec
<1> QED  BY <1>2 DEF TransfersKept, ClaimIsExclusive, EndedStaysEnded, ClaimStep, EndStep

(* Whoever comes to hold an active transfer, the contact's live conversation  *)
(* names the same person after the same step (MirrorToConversation and        *)
(* AssignActiveTx, mirror.go).                                                *)
THEOREM MirrorFollows == Spec => MirrorFollowsTransfer
<1>1. Inv /\ [Next]_vars => [MirrorStep]_vars
  BY StepKeeps
<1>2. Spec => [][MirrorStep]_vars
  BY <1>1, InboxInvariant, PTL DEF Spec
<1> QED  BY <1>2 DEF MirrorFollowsTransfer, MirrorStep
=============================================================================
