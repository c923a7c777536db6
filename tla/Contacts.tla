----------------------------- MODULE Contacts -----------------------------
(***************************************************************************)
(* Contacts: how a number finds its record, how records are deleted,       *)
(* restored, suspected to be duplicates and merged, what becomes of the    *)
(* work attached to them, and who may see which record.                    *)
(*                                                                         *)
(* A customer's number is written in two ways, "local" and "intl", which   *)
(* the country code makes one number.  The BSUID, the second identifier,   *)
(* goes through the same chain and is left out, as are names and accounts. *)
(* Handlers that read and later write on the strength of what they read    *)
(* are two steps with the half-done request in jobs.                       *)
(***************************************************************************)
EXTENDS Naturals, FiniteSets

CONSTANTS
  Users,
  Readers,       \* the users with contacts:read
  Members,       \* the users on the one team, at first
  Words,         \* tags, and options of a field
  None,
  MaxContacts,
  MaxJobs,       \* bound: requests in progress at once
  MaxOps         \* bound: requests

ASSUME ContactsAssumption ==
  /\ Readers \subseteq Users /\ Members \subseteq Users /\ None \notin Users \cup Words
  /\ MaxContacts \in Nat /\ MaxContacts >= 2 /\ {MaxJobs, MaxOps} \subseteq Nat

VARIABLES
  contact,
  work,      \* what hangs on each contact
  pair,      \* contact_duplicate_candidates
  member,    \* the users on the team now
  jobs,
  lost,      \* why messages were dropped
  ops

contactVars == <<contact, work, pair, member, jobs, lost, ops>>

Ids == 1..MaxContacts
Slots == 1..MaxJobs
Owners == Users \cup {None}
Texts == {"local", "intl"}
Pairs == {p \in SUBSET Ids : Cardinality(p) = 2}
Kinds == {"conv", "transfer", "session", "hist", "note"}

\* NormalizeWithCountry
NormalizeWithCountry(text) == IF text = "local" THEN "intl" ELSE text

NoContact == [st |-> "no", num |-> "intl", into |-> 0, owner |-> None, tags |-> {}, opt |-> None]
NoWork == [conv |-> "none", transfer |-> "none", session |-> FALSE, hist |-> FALSE,
           note |-> None, stray |-> {}]

Contact == [st: {"no", "live", "user", "sync", "merged"},   \* deleted_at with its reason
            num: Texts, into: Ids \cup {0}, owner: Owners,
            tags: SUBSET Words, opt: Words \cup {None}]     \* the value of one custom field
Work == [conv: {"none", "bot", "general", "team", "taken"},   \* who has the open conversation
         transfer: {"none", "queue"} \cup Users,              \* the active transfer
         session: BOOLEAN,                                    \* an active chatbot session
         hist: BOOLEAN,                                       \* messages, runs, calls, tasks ...
         note: Owners,
         stray: SUBSET Kinds]   \* filed under a record no longer live, or left by a restart

Idle == [k |-> "idle"]
Callers == {"inbound", "sync", "create", "import"}
Job ==
  {Idle}
  \cup [k: {"insert"}, why: Callers, num: Texts, twin: Ids \cup {0}, tags: SUBSET Words]
  \cup [k: {"restore"}, why: Callers, c: Ids, was: {"sync", "user", "merged"}]
  \cup [k: {"file"}, by: Owners, c: Ids]
  \cup [k: {"end"}, c: Ids]
  \cup [k: {"merge"}, p: Ids, s: Ids, read: [{"p", "s"} -> SUBSET Words]]
  \cup [k: {"tags"}, c: Ids, read: SUBSET Words, add: SUBSET Words, drop: SUBSET Words]

TypeOK ==
  /\ contact \in [Ids -> Contact] /\ work \in [Ids -> Work]
  /\ pair \in [Pairs -> {"none", "pending", "dismissed", "merged"}]
  /\ member \subseteq Users
  /\ \A i \in Slots : jobs[i] \in Job
  /\ lost \subseteq {"restart", "collision", "error"}
  /\ ops \in 0..MaxOps

Live(c) == contact[c].st = "live"

Has(c, k) ==
  CASE k = "conv" -> work[c].conv # "none"
    [] k = "transfer" -> work[c].transfer # "none"
    [] k = "session" -> work[c].session
    [] k = "hist" -> work[c].hist
    [] k = "note" -> work[c].note # None

\* one person recorded twice, under both spellings; the second record may have
\* been removed by the phone's address book
ContactsInit ==
  /\ \E st \in {"live", "sync"}, t \in Users \ Readers, w \in Words :
       /\ contact = [c \in Ids |-> CASE c = 1 -> [NoContact EXCEPT !.st = "live", !.num = "local"]
                                     [] c = 2 -> [NoContact EXCEPT !.st = st, !.tags = {w}, !.opt = w]
                                     [] OTHER -> NoContact]
       /\ work = [c \in Ids |-> IF c = 2
                    THEN [NoWork EXCEPT !.conv = "team", !.transfer = t, !.hist = TRUE]
                    ELSE NoWork]
  /\ pair = [p \in Pairs |-> "none"]
  /\ member = Members
  /\ jobs = [i \in Slots |-> Idle]
  /\ lost = {}
  /\ ops = 0

Request == ops < MaxOps /\ ops' = ops + 1

Starts(job) ==
  LET free == {i \in Slots : jobs[i] = Idle} IN
  /\ free # {}
  /\ jobs' = [jobs EXCEPT ![CHOOSE i \in free : \A j \in free : i <= j] = job]
Becomes(i, job) == jobs' = [jobs EXCEPT ![i] = job]
Ends(i) == Becomes(i, Idle)

-----------------------------------------------------------------------------
(* Who sees which contact *)

\* queueVisibleContactIDs
QueueVisible(u, c) == work[c].conv = "general" \/ (work[c].conv = "team" /\ u \in member)

\* scopeAssignedContact, canSeeContact: every route that names a contact
CanSeeContact(u, c) ==
  /\ Live(c)
  /\ u \in Readers \/ contact[c].owner = u \/ work[c].transfer = u \/ QueueVisible(u, c)

\* the contact list, its page, its conversation and its panel
ListContacts(u) == {c \in Ids : CanSeeContact(u, c)}
GetContact(u) == {c \in Ids : CanSeeContact(u, c)}
GetMessages(u) == {c \in Ids : CanSeeContact(u, c)}
GetContactSessionData(u) == {c \in Ids : CanSeeContact(u, c)}
ListConversationNotes(u) == {c \in Ids : CanSeeContact(u, c)}
GetContactTimeline(u) == {c \in Ids : CanSeeContact(u, c)}

\* Scope: the query of searches and segments, which names its tables itself and
\* so still counts a membership that was ended
Scope(u, c) ==
  \/ u \in Readers \/ contact[c].owner = u \/ work[c].transfer = u
  \/ work[c].conv = "general" \/ (work[c].conv = "team" /\ u \in Members)

\* Apply with an empty filter
SearchContacts(u) == {c \in Ids : Live(c) /\ Scope(u, c)}

-----------------------------------------------------------------------------
(* Finding the record of a number *)

\* first: a live row before a deleted one, then the oldest
First(rows) ==
  LET best == IF \E c \in rows : Live(c) THEN {c \in rows : Live(c)} ELSE rows
  IN  IF rows = {} THEN 0 ELSE CHOOSE c \in best : \A d \in best : c <= d

\* lookup: the text as written, then the normalised number
Lookup(text) ==
  LET rows == {c \in Ids : contact[c].st # "no"}
      exact == {c \in rows : contact[c].num = text}
      same == {c \in rows : NormalizeWithCountry(contact[c].num) = NormalizeWithCountry(text)}
  IN  IF exact # {} THEN First(exact) ELSE First(same)

\* resolveExisting: follow a merge by one step, use a live record, restore what
\* the address book removed, and otherwise begin a new record
ResolveExisting(c, may) ==
  IF c # 0 /\ contact[c].into # 0 /\ Live(contact[c].into) THEN <<"use", contact[c].into>>
  ELSE IF c # 0 /\ Live(c) THEN <<"use", c>>
  ELSE IF c # 0 /\ contact[c].st = "sync" /\ "restore" \in may THEN <<"restore", c>>
  ELSE IF "create" \in may THEN <<"create", 0>>
  ELSE <<"missing", 0>>

\* Resolve, up to its first write
Resolve(why, text, may, tags) ==
  LET found == ResolveExisting(Lookup(text), may) IN
  /\ Request
  /\ CASE found[1] = "use" /\ why = "inbound" ->
            Starts([k |-> "file", by |-> None, c |-> found[2]])
       [] found[1] = "restore" ->
            Starts([k |-> "restore", why |-> why, c |-> found[2], was |-> contact[found[2]].st])
       [] found[1] = "create" ->
            Starts([k |-> "insert", why |-> why, num |-> text, twin |-> 0, tags |-> tags])
       [] OTHER -> FALSE     \* a request that changes nothing here
  /\ UNCHANGED <<contact, work, pair, member, lost>>

\* processIncomingMessageFull: a message from the customer
Inbound == Resolve("inbound", "intl", {"create", "restore"}, {})

\* processContactSync: the phone's address book gained the number
SyncAdd == Resolve("sync", "intl", {"create", "restore"}, {})

\* CreateContact; its tags and values are set as an update would
CreateContact(text) == Resolve("create", text, {"create"}, {})

\* importOneContact: look first, then follow the policy for a match
ImportOneContact(text, policy, tags) ==
  LET found == ResolveExisting(Lookup(text), {}) IN
  /\ Request
  /\ CASE found[1] = "missing" ->
            Starts([k |-> "insert", why |-> "import", num |-> text, twin |-> 0, tags |-> tags])
       [] found[1] = "use" /\ policy = "update" ->
            Starts([k |-> "tags", c |-> found[2], read |-> contact[found[2]].tags,
                    add |-> tags, drop |-> {}])
       [] found[1] = "use" /\ policy = "create_anyway" ->
            Starts([k |-> "insert", why |-> "import", num |-> text, twin |-> found[2], tags |-> tags])
       [] OTHER -> FALSE     \* skipped
  /\ UNCHANGED <<contact, work, pair, member, lost>>

\* ImportContactsCSV: of the rows with one normalised number the last is left
ImportContactsCSV(policy, tags) == \E text \in Texts : ImportOneContact(text, policy, tags)

\* FlagPair: a pair that has a row keeps it
FlagPair(a, b) == [pair EXCEPT ![{a, b}] = IF @ = "none" THEN "pending" ELSE @]

\* create, when another request has taken the number meanwhile
Relookup(text) == LET c == Lookup(text) IN IF c # 0 /\ Live(c) THEN c ELSE 0

\* create
Create(i) ==
  LET job == jobs[i]
      taken == \E c \in Ids : Live(c) /\ contact[c].num = job.num
      again == Relookup(job.num)
      new == {c \in Ids : contact[c].st = "no" /\ \A d \in Ids : d < c => contact[d].st # "no"}
  IN
  /\ job.k = "insert"
  /\ \/ /\ taken
        /\ IF again # 0 /\ job.why = "inbound"
             THEN Becomes(i, [k |-> "file", by |-> None, c |-> again])
             ELSE IF again # 0 /\ job.why = "import" /\ job.twin = 0
             THEN Becomes(i, [k |-> "tags", c |-> again, read |-> contact[again].tags,
                              add |-> job.tags, drop |-> {}])
             ELSE Ends(i)
        /\ lost' = IF again = 0 /\ job.why = "inbound" THEN lost \cup {"error"} ELSE lost
        /\ UNCHANGED <<contact, pair>>
     \/ \E c \in new :
        /\ ~taken
        /\ contact' = [contact EXCEPT ![c] =
                         [NoContact EXCEPT !.st = "live", !.num = job.num, !.tags = job.tags]]
        /\ pair' = IF job.twin = 0 THEN pair ELSE FlagPair(c, job.twin)
        /\ IF job.why = "inbound" THEN Becomes(i, [k |-> "file", by |-> None, c |-> c]) ELSE Ends(i)
        /\ UNCHANGED lost
  /\ UNCHANGED <<work, member, ops>>

\* resolveExisting, the restoring write; two live rows may not share a text
RestoreContact(i) ==
  LET job == jobs[i]
      taken == \E c \in Ids \ {job.c} : Live(c) /\ contact[c].num = contact[job.c].num
  IN
  /\ job.k = "restore"
  /\ contact' = IF taken THEN contact ELSE [contact EXCEPT ![job.c].st = "live"]
  /\ work' = IF taken THEN work ELSE [work EXCEPT ![job.c].stray = {}]
  /\ IF ~taken /\ job.why = "inbound"
       THEN Becomes(i, [k |-> "file", by |-> None, c |-> job.c]) ELSE Ends(i)
  /\ lost' = IF taken /\ job.why = "inbound" THEN lost \cup {"collision"} ELSE lost
  /\ UNCHANGED <<pair, member, ops>>

\* what is filed under a record that is not live is stray
Filed(w, c, kinds) == IF Live(c) THEN w ELSE [w EXCEPT !.stray = @ \cup kinds]

\* saveIncomingMessage and the conversation it opens, or a message an agent sends
FileMessage(i) ==
  LET c == jobs[i].c
      opens == jobs[i].by = None /\ work[c].conv = "none"
  IN
  /\ jobs[i].k = "file"
  /\ \E who \in {"bot", "general"} :
       work' = [work EXCEPT ![c] =
         Filed([work[c] EXCEPT !.hist = TRUE, !.conv = IF opens THEN who ELSE @], c,
               IF opens THEN {"hist", "conv"} ELSE {"hist"})]
  /\ Ends(i)
  /\ UNCHANGED <<contact, pair, member, lost, ops>>

\* SendMessage
SendMessage(u, c) ==
  /\ Request
  /\ CanSeeContact(u, c)
  /\ ~work[c].hist
  /\ Starts([k |-> "file", by |-> u, c |-> c])
  /\ UNCHANGED <<contact, work, pair, member, lost>>

\* CreateConversationNote, one note standing for all
CreateConversationNote(u, c) ==
  /\ Request
  /\ CanSeeContact(u, c) /\ work[c].note = None
  /\ work' = [work EXCEPT ![c].note = u]
  /\ UNCHANGED <<contact, pair, member, jobs, lost>>

\* DeleteConversationNote: its author, whoever the contact belongs to by now
DeleteConversationNote(u, c) ==
  /\ Request
  /\ work[c].note = u
  /\ work' = [work EXCEPT ![c].note = None, ![c].stray = @ \ {"note"}]
  /\ UNCHANGED <<contact, pair, member, jobs, lost>>

\* the rest of the system: conversations change hands, bots and agents start
WorkChanges(c) ==
  /\ Request
  /\ Live(c)
  /\ \/ ~work[c].session /\ work' = [work EXCEPT ![c].session = TRUE]
     \/ /\ work[c].transfer = "none"
        /\ \E to \in {"queue"} \cup (Users \ Readers) : work' = [work EXCEPT ![c].transfer = to]
     \/ \E who \in {"general", "team", "taken"} \ {work[c].conv} :
          work[c].conv # "none" /\ work' = [work EXCEPT ![c].conv = who]
  /\ UNCHANGED <<contact, pair, member, jobs, lost>>

\* a user is taken off the team
LeavesTeam(u) ==
  /\ Request
  /\ member' = member \ {u} /\ u \in member
  /\ UNCHANGED <<contact, work, pair, jobs, lost>>

-----------------------------------------------------------------------------
(* Owners and tags *)

Owned(c, u) ==
  /\ Live(c) /\ contact[c].owner # u
  /\ contact' = [contact EXCEPT ![c].owner = u]
Tagged(c, tags) ==
  /\ Live(c) /\ contact[c].tags # tags
  /\ contact' = [contact EXCEPT ![c].tags = tags]

\* AssignContact
AssignContact(c, u) == Request /\ Owned(c, u) /\ UNCHANGED <<work, pair, member, jobs, lost>>

\* UpdateContactTags writes the list it was sent
UpdateContactTags(c, tags) == Request /\ Tagged(c, tags) /\ UNCHANGED <<work, pair, member, jobs, lost>>

\* UpdateContact: the columns named in the request, by id, whoever sees the contact
UpdateContact(c, u, tags) ==
  /\ Request
  /\ Owned(c, u) \/ Tagged(c, tags)
  /\ UNCHANGED <<work, pair, member, jobs, lost>>

\* the action of an automation that sets the owner, or clears it
SetContactOwner(c, u) == Request /\ Owned(c, u) /\ UNCHANGED <<work, pair, member, jobs, lost>>

\* BulkUpdateContacts and applyBulkOwner, on a contact the user sees
ApplyBulkOwner(v, c, u) ==
  /\ Request
  /\ CanSeeContact(v, c)
  /\ Owned(c, u)
  /\ UNCHANGED <<work, pair, member, jobs, lost>>

ReadTags(c, add, drop) ==
  /\ ~(add \subseteq contact[c].tags) \/ drop \cap contact[c].tags # {}
  /\ Starts([k |-> "tags", c |-> c, read |-> contact[c].tags, add |-> add, drop |-> drop])
  /\ UNCHANGED <<contact, work, pair, member, lost>>

\* BulkUpdateContacts: the tags of the contacts the user sees are read first
BulkUpdateContacts(v, c, add, drop) ==
  Request /\ CanSeeContact(v, c) /\ ReadTags(c, add, drop)

\* the action of an automation that removes tags reads them first, too
RemoveTags(c, drop) == Request /\ Live(c) /\ ReadTags(c, {}, drop)

\* applyBulkTags, mergeImportTags: what was read and what is added, less what
\* is dropped
ApplyTags(read, add, drop) == (read \cup add) \ drop

WriteTags(i) ==
  LET job == jobs[i] IN
  /\ job.k = "tags"
  /\ contact' = IF Live(job.c)
                  THEN [contact EXCEPT ![job.c].tags = ApplyTags(job.read, job.add, job.drop)]
                  ELSE contact
  /\ Ends(i)
  /\ UNCHANGED <<work, pair, member, lost, ops>>

-----------------------------------------------------------------------------
(* Deleting *)

\* Delete and DeleteContact: the mark, and then the work in flight
DeleteContact(c) ==
  /\ Request
  /\ Live(c)
  /\ contact' = [contact EXCEPT ![c].st = "user"]
  /\ Starts([k |-> "end", c |-> c])
  /\ UNCHANGED <<work, pair, member, lost>>

\* endWorkInFlight
EndWorkInFlight(w) ==
  [w EXCEPT !.session = FALSE, !.transfer = "none", !.conv = "none",
            !.stray = @ \ {"session", "transfer", "conv"}]

EndWork(i) ==
  /\ jobs[i].k = "end"
  /\ work' = [work EXCEPT ![jobs[i].c] = EndWorkInFlight(@)]
  /\ Ends(i)
  /\ UNCHANGED <<contact, pair, member, lost, ops>>

\* FindContact
FindContact(text) == {c \in Ids : Live(c) /\ contact[c].num = text}

\* processContactSync: the address book lost the number, the work goes on
SyncRemove ==
  /\ Request
  /\ \E c \in FindContact("intl") : contact' = [contact EXCEPT ![c].st = "sync"]
  /\ UNCHANGED <<work, pair, member, jobs, lost>>

-----------------------------------------------------------------------------
(* Duplicates *)

\* findPairs: live contacts of one number
FindPairs ==
  {p \in Pairs : \A c, d \in p :
     /\ Live(c) /\ contact[c].into = 0
     /\ NormalizeWithCountry(contact[c].num) = NormalizeWithCountry(contact[d].num)}

\* Scan
Scan == [p \in Pairs |-> IF p \in FindPairs /\ pair[p] = "none" THEN "pending" ELSE pair[p]]

\* ScanDuplicates, and the hourly job
ScanDuplicates ==
  /\ Request
  /\ Scan # pair /\ pair' = Scan
  /\ UNCHANGED <<contact, work, member, jobs, lost>>

\* DismissDuplicate: by the id of the row, whatever its status
DismissDuplicate(p) ==
  /\ Request
  /\ pair[p] \in {"pending", "merged"}
  /\ pair' = [pair EXCEPT ![p] = "dismissed"]
  /\ UNCHANGED <<contact, work, member, jobs, lost>>

\* the locks forgotten
Unlocked(p, s) == FALSE

\* the advisory locks of the merges in progress
Locked(p, s) == \E i \in Slots : jobs[i].k = "merge" /\ {jobs[i].p, jobs[i].s} \cap {p, s} # {}

\* MergeContacts and Merge: lock, read and check
MergeContacts(p, s) ==
  /\ Request
  /\ p # s /\ ~Locked(p, s)
  /\ Live(p) /\ Live(s) /\ contact[s].into = 0
  /\ Starts([k |-> "merge", p |-> p, s |-> s,
             read |-> [x \in {"p", "s"} |-> contact[IF x = "p" THEN p ELSE s].tags]])
  /\ UNCHANGED <<contact, work, pair, member, lost>>

\* endDuplicateWork that ends the secondary's work whether or not it is doubled
EndAllWork(p, s) == [s EXCEPT !.transfer = "none", !.session = FALSE]

\* endDuplicateWork: what the primary has too
EndDuplicateWork(p, s) ==
  [s EXCEPT !.transfer = IF p.transfer # "none" THEN "none" ELSE @,
            !.session = @ /\ ~p.session]

\* ContactRefTables: every table with a contact_id, found in the schema
ContactRefTables == {"transfer", "session", "hist", "note"}

\* RepointContact
RepointContact(p, s) ==
  [p EXCEPT !.transfer = IF s.transfer # "none" THEN s.transfer ELSE @,
            !.session = @ \/ s.session,
            !.hist = @ \/ s.hist \/ s.conv # "none",
            !.note = IF @ = None /\ "note" \in ContactRefTables THEN s.note ELSE @]

\* mergeTags
MergeTags(a, b) == a \cup b

\* Merge, from its first write to its commit.  The mark on the secondary only
\* matches a row that is still live; its conversation is resolved and moved
Merge(i) ==
  LET job == jobs[i]
      sec == EndDuplicateWork(work[job.p], work[job.s])
      moved == {k \in ContactRefTables : Has(job.s, k)}
  IN
  /\ job.k = "merge"
  /\ work' = [work EXCEPT
       ![job.p] = Filed(RepointContact(work[job.p], sec), job.p, moved),
       ![job.s] = IF "note" \in ContactRefTables THEN NoWork ELSE [NoWork EXCEPT !.note = sec.note]]
  /\ contact' = [contact EXCEPT
       ![job.p].tags = IF Live(job.p) THEN MergeTags(job.read["p"], job.read["s"]) ELSE @,
       ![job.p].opt = IF @ = None THEN contact[job.s].opt ELSE @,
       ![job.s].opt = None,
       ![job.s].st = IF @ = "live" THEN "merged" ELSE @,
       ![job.s].into = IF Live(job.s) THEN job.p ELSE @]
  /\ pair' = [pair EXCEPT ![{job.p, job.s}] = IF @ = "none" THEN @ ELSE "merged"]
  /\ Ends(i)
  /\ UNCHANGED <<member, lost, ops>>

\* the process is replaced while requests are in progress
Restart ==
  /\ \E i \in Slots : jobs[i] # Idle
  /\ ops < MaxOps
  /\ jobs' = [i \in Slots |-> Idle]
  /\ lost' = lost \cup {"restart" : i \in {j \in Slots : jobs[j].k \in {"insert", "restore", "file"}}}
  /\ work' = [c \in Ids |->
       IF \E i \in Slots : jobs[i].k = "end" /\ jobs[i].c = c
         THEN [work[c] EXCEPT !.stray = @ \cup {k \in {"conv", "transfer", "session"} : Has(c, k)}]
         ELSE work[c]]
  /\ ops' = ops + 1
  /\ UNCHANGED <<contact, pair, member>>

ContactsNext ==
  \/ Inbound \/ SyncAdd \/ SyncRemove \/ ScanDuplicates \/ Restart
  \/ \E text \in Texts : CreateContact(text)
  \/ \E policy \in {"update", "create_anyway"}, w \in Words : ImportContactsCSV(policy, {w})
  \/ \E i \in Slots :
       \/ Create(i) \/ RestoreContact(i) \/ FileMessage(i) \/ WriteTags(i) \/ EndWork(i) \/ Merge(i)
  \/ \E c \in Ids :
       \/ WorkChanges(c) \/ DeleteContact(c)
       \/ \E s \in Ids : MergeContacts(c, s)
       \/ \E u \in Owners :
            \/ AssignContact(c, u) \/ SetContactOwner(c, u) \/ UpdateContact(c, u, {})
            \/ \E v \in Users : ApplyBulkOwner(v, c, u)
       \/ \E u \in Users : SendMessage(u, c) \/ CreateConversationNote(u, c) \/ DeleteConversationNote(u, c)
       \/ \E w \in Words :
            \/ UpdateContactTags(c, {w}) \/ RemoveTags(c, {w})
            \/ \E v \in Users : BulkUpdateContacts(v, c, {w}, {}) \/ BulkUpdateContacts(v, c, {}, {w})
  \/ \E p \in Pairs : DismissDuplicate(p)
  \/ \E u \in Users : LeavesTeam(u)

-----------------------------------------------------------------------------
(* Properties *)

\* A contact a person deleted stays deleted: no message, no address book and
\* no import brings it back.  Only a request that had seen the record removed by
\* the address book, and writes after it was restored and then deleted, can
DeletionStands ==
  [][\A c \in Ids :
       contact[c].st = "user" /\ contact'[c].st # "user" =>
         /\ contact'[c].st = "live"
         /\ \E i \in Slots : jobs[i].k = "restore" /\ jobs[i].c = c /\ jobs[i].was = "sync"
    ]_contactVars

\* Following the records contacts were merged into ends at one that was not:
\* no merges, of one pair from opposite sides or in a ring, swallow every record
\* of a person.  (A live record may point on, and be pointed back at: a request
\* that saw it removed by the address book may revive it after its merge)
MergesEnd ==
  /\ \A c \in Ids : (contact[c].st = "merged" => contact[c].into # 0) /\ contact[c].into # c
  /\ \A S \in SUBSET {c \in Ids : contact[c].st = "merged"} :
       S # {} => \E c \in S : contact[c].into \notin S

\* A number whose record was merged into a live one reaches a live record, for
\* as long as no older record of that spelling that is gone for good hides it
SurvivorFound ==
  \A c \in Ids :
    /\ contact[c].st = "merged" /\ Live(contact[c].into)
    /\ \A d \in Ids : d < c /\ contact[d].num = contact[c].num => contact[d].st \in {"no", "live", "sync"}
    => ResolveExisting(Lookup(contact[c].num), {"create", "restore"})[1] \in {"use", "restore"}

\* Nothing is left under a record nobody can open: a merge takes everything
\* along and a deletion ends what was going on, whatever arrives meanwhile.
\* What a request in progress files late, and what a restart in the middle of a
\* deletion leaves, is marked stray
WorkFollows ==
  \A c \in Ids :
    /\ contact[c].st = "merged" => {k \in Kinds : Has(c, k)} \subseteq work[c].stray
    /\ contact[c].st = "user" =>
         \/ {k \in {"conv", "transfer", "session"} : Has(c, k)} \subseteq work[c].stray
         \/ \E i \in Slots : jobs[i].k = "end" /\ jobs[i].c = c

\* A merge does not take a customer away from the agent or the queue they were
\* handed to: the survivor has a handoff if either record had one
HandoffSurvives ==
  [][\A i \in Slots :
       jobs[i].k = "merge" /\ jobs'[i] = Idle /\ contact'[jobs[i].s].st = "merged" =>
         \A c \in {jobs[i].p, jobs[i].s} :
           work[c].transfer # "none" => work'[jobs[i].p].transfer # "none"
    ]_contactVars

\* A tag leaves a contact only if somebody asked for that, or if the request
\* that writes had read the tags before they changed
TagsKept ==
  [][\A i \in Slots :
       jobs[i].k = "tags" /\ jobs'[i] = Idle /\ contact[jobs[i].c].tags = jobs[i].read =>
         contact[jobs[i].c].tags \ jobs[i].drop \subseteq contact'[jobs[i].c].tags
    ]_contactVars

\* A customer's message is dropped only by a restart, or when the record to be
\* restored lost its number to a new one meanwhile
MessageKept == lost \subseteq {"restart", "collision"}

\* A pair somebody has said no to is not asked about again
DismissedStays ==
  [][\A p \in Pairs : pair[p] = "dismissed" => pair'[p] # "pending"]_contactVars

\* A contact a user finds is one they can open, and the other way round, on
\* every screen; searches differ for a member taken off the team only
ViewsAgree ==
  \A u \in Users :
    LET opens == GetContact(u) IN
    /\ ListContacts(u) = opens /\ GetMessages(u) = opens /\ GetContactSessionData(u) = opens
    /\ ListConversationNotes(u) = opens /\ GetContactTimeline(u) = opens
    /\ opens \subseteq SearchContacts(u)
    /\ \A c \in SearchContacts(u) \ opens : u \in Members \ member /\ work[c].conv = "team"

\* A customer who writes is found under the record that survived, with all that
\* belongs to it, by everyone who may see it (lifecycle.go, merge.go).
ContactsInv ==
  TypeOK /\ MergesEnd /\ SurvivorFound /\ WorkFollows /\ MessageKept /\ ViewsAgree
===========================================================================
