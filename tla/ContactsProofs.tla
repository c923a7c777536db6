---------------------------- MODULE ContactsProofs ----------------------------
(* Proofs about Contacts and Labels, for any users, words, number of records, *)
(* segments and requests under way, and any bounds.                           *)
EXTENDS Labels, FiniteSetTheorems, WellFoundedInduction, TLAPS

-----------------------------------------------------------------------------
(* Contacts: the inductive invariant                                          *)

PairMarks == {"none", "pending", "dismissed", "merged"}

ContactTypes ==
  /\ contact \in [Ids -> Contact] /\ work \in [Ids -> Work]
  /\ pair \in [Pairs -> PairMarks] /\ member \subseteq Members
  /\ jobs \in [Slots -> Job]
  /\ lost \subseteq {"restart", "collision"} /\ ops \in 0..MaxOps

(* What the requests under way rely on: a record to restore was removed by    *)
(* the address book when it was read, and neither record of a merge has been  *)
(* merged meanwhile, which the locks see to.                                  *)
MergeSane(job) ==
  /\ job.p # job.s /\ contact[job.s].into = 0
  /\ contact[job.p].st # "merged" /\ contact[job.s].st # "merged"
RestoresSane == \A i \in Slots : jobs[i].k = "restore" => jobs[i].was = "sync"
MergesSane == \A i \in Slots : jobs[i].k = "merge" => MergeSane(jobs[i])
LocksHold ==
  \A i, j \in Slots : i # j /\ jobs[i].k = "merge" /\ jobs[j].k = "merge" =>
    {jobs[i].p, jobs[i].s} \cap {jobs[j].p, jobs[j].s} = {}

MergeInv == MergesSane /\ LocksHold /\ MergesEnd

(* WorkFollows, record by record. *)
Ending(c) == \E i \in Slots : jobs[i].k = "end" /\ jobs[i].c = c
Followed(c) ==
  /\ contact[c].st = "merged" => \A k \in Kinds : Has(c, k) => k \in work[c].stray
  /\ contact[c].st = "user" =>
       Ending(c) \/ \A k \in {"conv", "transfer", "session"} : Has(c, k) => k \in work[c].stray

ContactsIInv ==
  ContactTypes /\ RestoresSane /\ MergeInv /\ \A c \in Ids : Followed(c)

-----------------------------------------------------------------------------
(* Jobs                                                                       *)

LEMMA LeastOfAll ==
  ASSUME NEW S, S \subseteq Nat, S # {}
  PROVE  \E x \in S : \A y \in S : x <= y
<1> DEFINE R == OpToRel(<, Nat)
<1>1. \E x \in S : \A y \in S : ~ (<<y, x>> \in R)
  <2> HIDE DEF R
  <2>1. IsWellFoundedOn(R, Nat)
    BY NatLessThanWellFounded DEF R
  <2> QED  BY <2>1, WFMin
<1>2. \A x, y \in Nat : <<y, x>> \in R <=> y < x
  BY DEF OpToRel
<1> HIDE DEF R
<1>3. PICK x \in S : \A y \in S : ~ (<<y, x>> \in R)
  BY <1>1
<1>4. ASSUME NEW y \in S  PROVE x <= y
  <2>1. x \in Nat /\ y \in Nat /\ ~ (y < x)
    BY <1>2, <1>3
  <2> QED  BY <2>1
<1> QED  BY <1>3, <1>4

LEMMA Bounds == Ids \subseteq Nat \ {0} /\ Slots \subseteq Nat /\ 0 \notin Ids /\ MaxContacts \in Nat
BY ContactsAssumption DEF Ids, Slots

(* Which record a kind of request is, for any value of the others. *)
InsertJob == [k: {"insert"}, why: Callers, num: Texts, twin: Ids \cup {0}, tags: SUBSET Words]
RestoreJob == [k: {"restore"}, why: Callers, c: Ids, was: {"sync", "user", "merged"}]
FileJob == [k: {"file"}, by: Owners, c: Ids]
EndJob == [k: {"end"}, c: Ids]
MergeJob == [k: {"merge"}, p: Ids, s: Ids, read: [{"p", "s"} -> SUBSET Words]]
TagsJob == [k: {"tags"}, c: Ids, read: SUBSET Words, add: SUBSET Words, drop: SUBSET Words]

LEMMA JobIs == Job = {Idle} \cup InsertJob \cup RestoreJob \cup FileJob \cup EndJob \cup MergeJob \cup TagsJob
BY DEF Job, InsertJob, RestoreJob, FileJob, EndJob, MergeJob, TagsJob

LEMMA KindOfJob ==
  ASSUME NEW j \in Job
  PROVE  /\ j.k = "insert" => j \in InsertJob
         /\ j.k = "restore" => j \in RestoreJob
         /\ j.k = "file" => j \in FileJob
         /\ j.k = "end" => j \in EndJob
         /\ j.k = "merge" => j \in MergeJob
         /\ j.k = "tags" => j \in TagsJob
         /\ Idle.k = "idle"
BY JobIs DEF Idle, InsertJob, RestoreJob, FileJob, EndJob, MergeJob, TagsJob

(* A request starts in a free place. *)
LEMMA JobStarts ==
  ASSUME NEW job, Starts(job)
  PROVE  \E i \in Slots : jobs[i] = Idle /\ jobs' = [jobs EXCEPT ![i] = job]
<1> DEFINE free == {i \in Slots : jobs[i] = Idle}
           i0 == CHOOSE i \in free : \A j \in free : i <= j
<1>1. free # {} /\ jobs' = [jobs EXCEPT ![i0] = job]
  BY DEF Starts
<1>2. \E i \in free : \A j \in free : i <= j
  BY <1>1, Bounds, LeastOfAll
<1>3. i0 \in free
  BY <1>2
<1> QED  BY <1>1, <1>3

-----------------------------------------------------------------------------
(* Steps that leave merges, or the work of a record, alone                    *)

(* No record is merged by the step, and no merge is begun. *)
LEMMA MergeFrame ==
  ASSUME MergeInv, contact \in [Ids -> Contact], jobs \in [Slots -> Job],
         \A c \in Ids : /\ contact'[c].into \in {contact[c].into, 0}
                        /\ contact'[c].st = "merged" => contact[c].st = "merged" /\ contact'[c].into = contact[c].into,
         \A i \in Slots : jobs'[i].k = "merge" => jobs'[i] = jobs[i]
  PROVE  MergeInv'
<1>1. MergesSane'
  <2> SUFFICES ASSUME NEW i \in Slots, jobs'[i].k = "merge"  PROVE MergeSane(jobs[i])'
    BY DEF MergesSane
  <2>1. jobs'[i] = jobs[i] /\ jobs[i].k = "merge" /\ MergeSane(jobs[i])
    BY DEF MergeInv, MergesSane
  <2>2. jobs[i].p \in Ids /\ jobs[i].s \in Ids
    BY <2>1, KindOfJob DEF MergeJob
  <2> QED  BY <2>1, <2>2 DEF MergeSane
<1>2. LocksHold'
  BY DEF MergeInv, LocksHold
<1>3. MergesEnd'
  <2>1. \A c \in Ids : (contact'[c].st = "merged" => contact'[c].into # 0) /\ contact'[c].into # c
    BY Bounds DEF MergeInv, MergesEnd
  <2>2. ASSUME NEW S \in SUBSET {c \in Ids : contact'[c].st = "merged"}, S # {}
        PROVE  \E c \in S : contact'[c].into \notin S
    <3>1. S \in SUBSET {c \in Ids : contact[c].st = "merged"}
      OBVIOUS
    <3>2. PICK c \in S : contact[c].into \notin S
      BY <2>2, <3>1 DEF MergeInv, MergesEnd
    <3>3. contact'[c].into = contact[c].into
      BY <2>2
    <3> QED  BY <3>2, <3>3
  <2> QED  BY <2>1, <2>2 DEF MergesEnd
<1> QED  BY <1>1, <1>2, <1>3 DEF MergeInv

(* What Has asks of each kind. *)
LEMMA HasIs ==
  ASSUME NEW c
  PROVE  /\ Has(c, "conv") <=> work[c].conv # "none"
         /\ Has(c, "transfer") <=> work[c].transfer # "none"
         /\ Has(c, "session") <=> work[c].session
         /\ Has(c, "hist") <=> work[c].hist
         /\ Has(c, "note") <=> work[c].note # None
BY DEF Has

LEMMA HasIsNext ==
  ASSUME NEW c
  PROVE  /\ Has(c, "conv")' <=> work'[c].conv # "none"
         /\ Has(c, "transfer")' <=> work'[c].transfer # "none"
         /\ Has(c, "session")' <=> work'[c].session
         /\ Has(c, "hist")' <=> work'[c].hist
         /\ Has(c, "note")' <=> work'[c].note # None
BY DEF Has

(* A record whose work is left alone, or that is open to all. *)
LEMMA FollowedStays ==
  ASSUME NEW c \in Ids, Followed(c),
         \/ contact'[c].st \notin {"merged", "user"}
         \/ contact'[c].st = contact[c].st /\ work'[c] = work[c] /\ (Ending(c) => Ending(c)')
  PROVE  Followed(c)'
<1>1. CASE contact'[c].st \notin {"merged", "user"}
  BY <1>1 DEF Followed
<1>2. CASE contact'[c].st = contact[c].st /\ work'[c] = work[c] /\ (Ending(c) => Ending(c)')
  <2>1. \A k \in Kinds : Has(c, k)' <=> Has(c, k)
    BY <1>2, HasIs, HasIsNext DEF Kinds
  <2> QED  BY <1>2, <2>1 DEF Followed, Kinds
<1> QED  BY <1>1, <1>2

(* A request that ends leaves the deletions of others under way. *)
LEMMA EndingStays ==
  ASSUME NEW c, jobs \in [Slots -> Job], NEW i \in Slots, NEW job, jobs' = [jobs EXCEPT ![i] = job],
         jobs[i].k # "end"
  PROVE  Ending(c) => Ending(c)'
BY DEF Ending

(* A request that reads and leaves the rest to later. *)
LEMMA StartKeeps ==
  ASSUME ContactsIInv, NEW job \in Job, Starts(job), job.k # "merge",
         job.k = "restore" => job.was = "sync",
         UNCHANGED <<contact, work, pair, member, lost>>, ops' \in 0..MaxOps
  PROVE  ContactsIInv'
<1>1. PICK i \in Slots : jobs[i] = Idle /\ jobs' = [jobs EXCEPT ![i] = job]
  BY JobStarts
<1>2. ContactTypes /\ jobs \in [Slots -> Job] /\ contact \in [Ids -> Contact]
  BY DEF ContactsIInv, ContactTypes
<1>3. jobs' \in [Slots -> Job] /\ jobs'[i] = job /\ \A j \in Slots : j # i => jobs'[j] = jobs[j]
  BY <1>1, <1>2
<1>4. ContactTypes'
  BY <1>2, <1>3 DEF ContactTypes
<1>5. RestoresSane'
  BY <1>3 DEF ContactsIInv, RestoresSane
<1>6. MergeInv'
  <2>1. \A j \in Slots : jobs'[j].k = "merge" => jobs'[j] = jobs[j]
    BY <1>3
  <2>2. \A c \in Ids : /\ contact'[c].into \in {contact[c].into, 0}
                       /\ contact'[c].st = "merged" => contact[c].st = "merged" /\ contact'[c].into = contact[c].into
    OBVIOUS
  <2> QED  BY <1>2, <2>1, <2>2, MergeFrame DEF ContactsIInv
<1>7. ASSUME NEW c \in Ids  PROVE Followed(c)'
  <2>1. jobs[i].k # "end"
    BY <1>1 DEF Idle
  <2>2. Ending(c) => Ending(c)'
    BY <1>1, <1>2, <2>1, EndingStays
  <2> QED  BY <2>2, FollowedStays DEF ContactsIInv
<1> QED  BY <1>4, <1>5, <1>6, <1>7 DEF ContactsIInv

(* A step that changes owners, tags or values only. *)
LEMMA EditKeeps ==
  ASSUME ContactsIInv, contact' \in [Ids -> Contact],
         \A c \in Ids : contact'[c].st = contact[c].st /\ contact'[c].into = contact[c].into,
         UNCHANGED <<work, pair, member, lost, jobs>>, ops' \in 0..MaxOps
  PROVE  ContactsIInv'
<1>1. ContactTypes /\ jobs \in [Slots -> Job] /\ contact \in [Ids -> Contact]
  BY DEF ContactsIInv, ContactTypes
<1>2. ContactTypes'
  BY <1>1 DEF ContactTypes
<1>3. RestoresSane'
  BY DEF ContactsIInv, RestoresSane
<1>4. MergeInv'
  BY <1>1, MergeFrame DEF ContactsIInv
<1>5. ASSUME NEW c \in Ids  PROVE Followed(c)'
  <2>1. Ending(c) => Ending(c)'
    BY DEF Ending
  <2> QED  BY <2>1, FollowedStays DEF ContactsIInv
<1> QED  BY <1>2, <1>3, <1>4, <1>5 DEF ContactsIInv

(* A step that changes the work of one record, and ends a request or none. *)
LEMMA WorkKeeps ==
  ASSUME ContactsIInv, NEW c \in Ids, work' \in [Ids -> Work], \A d \in Ids \ {c} : work'[d] = work[d],
         jobs' \in [Slots -> Job], \A i \in Slots : jobs'[i] = jobs[i] \/ (jobs'[i] = Idle /\ (jobs[i].k = "end" => jobs[i].c = c)),
         Followed(c)',
         UNCHANGED <<contact, pair, member, lost>>, ops' \in 0..MaxOps
  PROVE  ContactsIInv'
<1>1. ContactTypes /\ jobs \in [Slots -> Job] /\ contact \in [Ids -> Contact] /\ Idle.k = "idle"
  BY DEF ContactsIInv, ContactTypes, Idle
<1>2. ContactTypes'
  BY <1>1 DEF ContactTypes
<1>3. RestoresSane'
  BY <1>1 DEF ContactsIInv, RestoresSane
<1>4. MergeInv'
  <2>1. \A j \in Slots : jobs'[j].k = "merge" => jobs'[j] = jobs[j]
    BY <1>1
  <2>2. \A d \in Ids : /\ contact'[d].into \in {contact[d].into, 0}
                       /\ contact'[d].st = "merged" => contact[d].st = "merged" /\ contact'[d].into = contact[d].into
    OBVIOUS
  <2> QED  BY <1>1, <2>1, <2>2, MergeFrame DEF ContactsIInv
<1>5. ASSUME NEW d \in Ids, d # c  PROVE Followed(d)'
  <2>1. Ending(d) => Ending(d)'
    BY <1>5 DEF Ending
  <2> QED  BY <1>5, <2>1, FollowedStays DEF ContactsIInv
<1> QED  BY <1>2, <1>3, <1>4, <1>5 DEF ContactsIInv

LEMMA RequestCounts == ContactsIInv /\ Request => ops' \in 0..MaxOps
BY ContactsAssumption DEF ContactsIInv, ContactTypes, Request

-----------------------------------------------------------------------------
(* Finding a record                                                           *)

LEMMA FirstIs ==
  ASSUME NEW rows \in SUBSET Ids, rows # {}
  PROVE  /\ First(rows) \in rows
         /\ (\E c \in rows : Live(c)) => Live(First(rows))
         /\ (\A c \in rows : ~Live(c)) => \A d \in rows : First(rows) <= d
<1> DEFINE best == IF \E c \in rows : Live(c) THEN {c \in rows : Live(c)} ELSE rows
<1>1. best \subseteq rows /\ best # {} /\ best \subseteq Nat
  BY Bounds
<1>2. \E c \in best : \A d \in best : c <= d
  BY <1>1, LeastOfAll
<1>3. First(rows) = CHOOSE c \in best : \A d \in best : c <= d
  BY DEF First
<1>4. First(rows) \in best /\ \A d \in best : First(rows) <= d
  <2> HIDE DEF best
  <2> QED  BY <1>2, <1>3
<1> QED  BY <1>1, <1>4

(* A spelling some record has is looked up among the records of that spelling.*)
LEMMA LookupIs ==
  ASSUME NEW text
  PROVE  /\ Lookup(text) \in Ids \cup {0}
         /\ Lookup(text) # 0 => contact[Lookup(text)].st # "no"
         /\ \A c \in Ids : contact[c].st # "no" /\ contact[c].num = text =>
              /\ Lookup(text) \in Ids /\ contact[Lookup(text)].num = text
              /\ Live(c) => Live(Lookup(text))
              /\ ~Live(Lookup(text)) => Lookup(text) <= c
<1> DEFINE rows == {c \in Ids : contact[c].st # "no"}
           exact == {c \in rows : contact[c].num = text}
           same == {c \in rows : NormalizeWithCountry(contact[c].num) = NormalizeWithCountry(text)}
<1>1. Lookup(text) = IF exact # {} THEN First(exact) ELSE First(same)
  BY DEF Lookup
<1>2. exact \in SUBSET Ids /\ same \in SUBSET Ids
  OBVIOUS
<1>3. CASE exact # {}
  <2>1. First(exact) \in exact
    BY <1>2, <1>3, FirstIs
  <2>2. (\E c \in exact : Live(c)) => Live(First(exact))
    BY <1>2, <1>3, FirstIs
  <2>3. (\A c \in exact : ~Live(c)) => \A d \in exact : First(exact) <= d
    BY <1>2, <1>3, FirstIs
  <2>4. Lookup(text) = First(exact)
    BY <1>1, <1>3
  <2> QED  BY <2>1, <2>2, <2>3, <2>4
<1>4. CASE exact = {}
  <2>1. Lookup(text) = First(same)
    BY <1>1, <1>4
  <2>2. CASE same = {}
    BY <1>4, <2>1, <2>2 DEF First
  <2>3. CASE same # {}
    BY <1>2, <1>4, <2>1, <2>3, FirstIs
  <2> QED  BY <2>2, <2>3
<1> QED  BY <1>3, <1>4

LEMMA ResolveIs ==
  ASSUME contact \in [Ids -> Contact], NEW c \in Ids \cup {0}, NEW may
  PROVE  LET found == ResolveExisting(c, may) IN
         /\ found[1] = "use" => found[2] \in Ids /\ Live(found[2])
         /\ found[1] = "restore" => found[2] = c /\ c \in Ids /\ contact[c].st = "sync"
<1> DEFINE found == ResolveExisting(c, may)
<1>1. c # 0 => c \in Ids /\ contact[c].into \in Ids \cup {0}
  BY DEF Contact
<1>2. CASE c # 0 /\ contact[c].into # 0 /\ Live(contact[c].into)
  <2>1. found = <<"use", contact[c].into>>
    BY <1>2 DEF ResolveExisting
  <2> QED  BY <1>1, <1>2, <2>1
<1>3. CASE ~(c # 0 /\ contact[c].into # 0 /\ Live(contact[c].into))
  <2>1. CASE c # 0 /\ Live(c)
    <3>1. found = <<"use", c>>
      BY <1>3, <2>1 DEF ResolveExisting
    <3> QED  BY <1>1, <2>1, <3>1
  <2>2. CASE ~(c # 0 /\ Live(c)) /\ c # 0 /\ contact[c].st = "sync" /\ "restore" \in may
    <3>1. found = <<"restore", c>>
      BY <1>3, <2>2 DEF ResolveExisting
    <3> QED  BY <1>1, <2>2, <3>1
  <2>3. CASE ~(c # 0 /\ Live(c)) /\ ~(c # 0 /\ contact[c].st = "sync" /\ "restore" \in may)
    <3>1. found \in {<<"create", 0>>, <<"missing", 0>>}
      BY <1>3, <2>3 DEF ResolveExisting
    <3> QED  BY <3>1
  <2> QED  BY <2>1, <2>2, <2>3
<1> QED  BY <1>2, <1>3

LEMMA TagsTyped ==
  ASSUME ContactsIInv, NEW c \in Ids
  PROVE  /\ contact[c].tags \subseteq Words /\ contact[c].num \in Texts
         /\ contact[c].opt \in Words \cup {None} /\ contact[c] \in Contact /\ work[c] \in Work
BY DEF ContactsIInv, ContactTypes, Contact

LEMMA FileJobs == \A u \in Owners, c \in Ids : [k |-> "file", by |-> u, c |-> c] \in FileJob
BY DEF FileJob
LEMMA InsertJobs ==
  \A w \in Callers, t \in Texts, x \in Ids \cup {0}, g \in SUBSET Words :
    [k |-> "insert", why |-> w, num |-> t, twin |-> x, tags |-> g] \in InsertJob
BY DEF InsertJob
LEMMA TagsJobs ==
  \A c \in Ids, g, a, d \in SUBSET Words : [k |-> "tags", c |-> c, read |-> g, add |-> a, drop |-> d] \in TagsJob
BY DEF TagsJob

LEMMA JobStartsKeep ==
  ASSUME ContactsIInv, NEW job \in InsertJob \cup FileJob \cup TagsJob \cup EndJob, Starts(job),
         UNCHANGED <<contact, work, pair, member, lost>>, ops' \in 0..MaxOps
  PROVE  ContactsIInv'
<1>1. job \in Job /\ job.k \notin {"merge", "restore"}
  BY JobIs DEF InsertJob, FileJob, TagsJob, EndJob
<1> QED  BY <1>1, StartKeeps

LEMMA ResolveKeeps ==
  ASSUME ContactsIInv, NEW why \in Callers, NEW text \in Texts, NEW may, NEW tags \in SUBSET Words,
         Resolve(why, text, may, tags)
  PROVE  ContactsIInv'
<1> DEFINE found == ResolveExisting(Lookup(text), may)
<1>1. /\ found[1] = "use" => found[2] \in Ids /\ Live(found[2])
      /\ found[1] = "restore" => found[2] \in Ids /\ contact[found[2]].st = "sync"
  BY LookupIs, ResolveIs DEF ContactsIInv, ContactTypes
<1>2. UNCHANGED <<contact, work, pair, member, lost>> /\ ops' \in 0..MaxOps
  BY RequestCounts DEF Resolve
<1>3. CASE found[1] = "use" /\ why = "inbound"
  <2>1. Starts([k |-> "file", by |-> None, c |-> found[2]])
    BY <1>3 DEF Resolve
  <2>2. [k |-> "file", by |-> None, c |-> found[2]] \in FileJob
    BY <1>1, <1>3, FileJobs DEF Owners
  <2> QED  BY <1>2, <2>1, <2>2, JobStartsKeep
<1>4. CASE found[1] = "restore"
  <2> DEFINE job == [k |-> "restore", why |-> why, c |-> found[2], was |-> contact[found[2]].st]
  <2>1. Starts(job)
    BY <1>4 DEF Resolve
  <2>2. job \in RestoreJob
    BY <1>1, <1>4 DEF RestoreJob
  <2>3. job.k = "restore" /\ job.was = "sync"
    BY <1>1, <1>4
  <2>4. job \in Job
    BY <2>2, JobIs
  <2> HIDE DEF job
  <2> QED  BY <1>2, <2>1, <2>3, <2>4, StartKeeps
<1>5. CASE ~(found[1] = "use" /\ why = "inbound") /\ found[1] # "restore" /\ found[1] = "create"
  <2>1. Starts([k |-> "insert", why |-> why, num |-> text, twin |-> 0, tags |-> tags])
    BY <1>5 DEF Resolve
  <2>2. [k |-> "insert", why |-> why, num |-> text, twin |-> 0, tags |-> tags] \in InsertJob
    BY InsertJobs
  <2> QED  BY <1>2, <2>1, <2>2, JobStartsKeep
<1>6. CASE ~(found[1] = "use" /\ why = "inbound") /\ found[1] # "restore" /\ found[1] # "create"
  BY <1>6 DEF Resolve
<1> QED  BY <1>3, <1>4, <1>5, <1>6

LEMMA ImportKeeps ==
  ASSUME ContactsIInv, NEW text \in Texts, NEW policy, NEW tags \in SUBSET Words,
         ImportOneContact(text, policy, tags)
  PROVE  ContactsIInv'
<1> DEFINE found == ResolveExisting(Lookup(text), {})
<1>1. found[1] = "use" => found[2] \in Ids
  BY LookupIs, ResolveIs DEF ContactsIInv, ContactTypes
<1>2. UNCHANGED <<contact, work, pair, member, lost>> /\ ops' \in 0..MaxOps
  BY RequestCounts DEF ImportOneContact
<1>3. CASE found[1] = "missing"
  <2>1. Starts([k |-> "insert", why |-> "import", num |-> text, twin |-> 0, tags |-> tags])
    BY <1>3 DEF ImportOneContact
  <2>2. [k |-> "insert", why |-> "import", num |-> text, twin |-> 0, tags |-> tags] \in InsertJob
    BY InsertJobs DEF Callers
  <2> QED  BY <1>2, <2>1, <2>2, JobStartsKeep
<1>4. CASE found[1] # "missing" /\ found[1] = "use" /\ policy = "update"
  <2> DEFINE job == [k |-> "tags", c |-> found[2], read |-> contact[found[2]].tags, add |-> tags, drop |-> {}]
  <2>1. Starts(job)
    BY <1>4 DEF ImportOneContact
  <2>2. job \in TagsJob
    BY <1>1, <1>4, TagsTyped, TagsJobs
  <2> QED  BY <1>2, <2>1, <2>2, JobStartsKeep
<1>5. CASE found[1] # "missing" /\ ~(found[1] = "use" /\ policy = "update") /\ found[1] = "use" /\ policy = "create_anyway"
  <2>1. Starts([k |-> "insert", why |-> "import", num |-> text, twin |-> found[2], tags |-> tags])
    BY <1>5 DEF ImportOneContact
  <2>2. [k |-> "insert", why |-> "import", num |-> text, twin |-> found[2], tags |-> tags] \in InsertJob
    BY <1>1, <1>5, InsertJobs DEF Callers
  <2> QED  BY <1>2, <2>1, <2>2, JobStartsKeep
<1>6. CASE found[1] # "missing" /\ ~(found[1] = "use" /\ policy = "update") /\ ~(found[1] = "use" /\ policy = "create_anyway")
  BY <1>6 DEF ImportOneContact
<1> QED  BY <1>3, <1>4, <1>5, <1>6

LEMMA SendMessageKeeps ==
  ASSUME ContactsIInv, NEW u \in Users, NEW c \in Ids, SendMessage(u, c)
  PROVE  ContactsIInv'
<1>1. [k |-> "file", by |-> u, c |-> c] \in FileJob
  BY FileJobs DEF Owners
<1> QED  BY <1>1, RequestCounts, JobStartsKeep DEF SendMessage

LEMMA ReadTagsKeeps ==
  ASSUME ContactsIInv, Request, NEW c \in Ids, NEW a \in SUBSET Words, NEW d \in SUBSET Words, ReadTags(c, a, d)
  PROVE  ContactsIInv'
<1>1. [k |-> "tags", c |-> c, read |-> contact[c].tags, add |-> a, drop |-> d] \in TagsJob
  BY TagsTyped, TagsJobs
<1> QED  BY <1>1, RequestCounts, JobStartsKeep DEF ReadTags

-----------------------------------------------------------------------------
(* Owners and tags                                                            *)

LEMMA OwnedKeeps ==
  ASSUME ContactsIInv, Request, NEW c \in Ids, NEW u \in Owners, Owned(c, u),
         UNCHANGED <<work, pair, member, jobs, lost>>
  PROVE  ContactsIInv'
<1>1. contact \in [Ids -> Contact] /\ contact' = [contact EXCEPT ![c].owner = u]
  BY DEF Owned, ContactsIInv, ContactTypes
<1>2. contact' \in [Ids -> Contact]
  BY <1>1 DEF Contact
<1>3. \A d \in Ids : contact'[d].st = contact[d].st /\ contact'[d].into = contact[d].into
  BY <1>1 DEF Contact
<1> QED  BY <1>2, <1>3, RequestCounts, EditKeeps

LEMMA TaggedKeeps ==
  ASSUME ContactsIInv, Request, NEW c \in Ids, NEW tags \in SUBSET Words, Tagged(c, tags),
         UNCHANGED <<work, pair, member, jobs, lost>>
  PROVE  ContactsIInv'
<1>1. contact \in [Ids -> Contact] /\ contact' = [contact EXCEPT ![c].tags = tags]
  BY DEF Tagged, ContactsIInv, ContactTypes
<1>2. contact' \in [Ids -> Contact]
  BY <1>1 DEF Contact
<1>3. \A d \in Ids : contact'[d].st = contact[d].st /\ contact'[d].into = contact[d].into
  BY <1>1 DEF Contact
<1> QED  BY <1>2, <1>3, RequestCounts, EditKeeps

-----------------------------------------------------------------------------
(* Requests that finish, or go on to their next step                          *)

LEMMA StepKeeps ==
  ASSUME ContactsIInv, NEW i \in Slots, NEW job \in Job, jobs' = [jobs EXCEPT ![i] = job],
         job.k \notin {"merge", "restore"},
         contact' \in [Ids -> Contact], work' \in [Ids -> Work], pair' \in [Pairs -> PairMarks],
         \A c \in Ids : /\ contact'[c].into \in {contact[c].into, 0}
                        /\ contact'[c].st = "merged" => contact[c].st = "merged" /\ contact'[c].into = contact[c].into,
         \A c \in Ids : Followed(c)',
         lost' \subseteq {"restart", "collision"}, member' = member, ops' \in 0..MaxOps
  PROVE  ContactsIInv'
<1>1. ContactTypes /\ jobs \in [Slots -> Job] /\ contact \in [Ids -> Contact]
  BY DEF ContactsIInv, ContactTypes
<1>2. jobs' \in [Slots -> Job] /\ jobs'[i] = job /\ \A j \in Slots : j # i => jobs'[j] = jobs[j]
  BY <1>1
<1>3. ContactTypes'
  BY <1>1, <1>2 DEF ContactTypes
<1>4. RestoresSane'
  BY <1>2 DEF ContactsIInv, RestoresSane
<1>5. MergeInv'
  <2>1. \A j \in Slots : jobs'[j].k = "merge" => jobs'[j] = jobs[j]
    BY <1>2
  <2> QED  BY <1>1, <2>1, MergeFrame DEF ContactsIInv
<1> QED  BY <1>3, <1>4, <1>5 DEF ContactsIInv

LEMMA QuietJobs ==
  /\ Idle \in Job /\ Idle.k \notin {"merge", "restore"}
  /\ \A job \in FileJob \cup TagsJob \cup EndJob : job \in Job /\ job.k \notin {"merge", "restore"}
BY JobIs DEF Idle, FileJob, TagsJob, EndJob

LEMMA CreateKeeps ==
  ASSUME ContactsIInv, NEW i \in Slots, Create(i)
  PROVE  ContactsIInv'
<1> DEFINE job == jobs[i]
           taken == \E c \in Ids : Live(c) /\ contact[c].num = job.num
           again == Relookup(job.num)
<1>1. /\ contact \in [Ids -> Contact] /\ work \in [Ids -> Work] /\ pair \in [Pairs -> PairMarks]
      /\ jobs \in [Slots -> Job] /\ lost \subseteq {"restart", "collision"} /\ ops \in 0..MaxOps
      /\ \A c \in Ids : Followed(c)
  BY DEF ContactsIInv, ContactTypes
<1>2. job.k = "insert" /\ UNCHANGED <<work, member, ops>>
  BY DEF Create
<1>3. job.why \in Callers /\ job.num \in Texts /\ job.twin \in Ids \cup {0} /\ job.tags \subseteq Words
  BY <1>1, <1>2, KindOfJob DEF InsertJob
<1>4. jobs[i].k # "end"
  BY <1>2
<1>5. CASE /\ taken /\ UNCHANGED <<contact, pair>>
           /\ IF again # 0 /\ job.why = "inbound"
                THEN Becomes(i, [k |-> "file", by |-> None, c |-> again])
                ELSE IF again # 0 /\ job.why = "import" /\ job.twin = 0
                THEN Becomes(i, [k |-> "tags", c |-> again, read |-> contact[again].tags,
                                 add |-> job.tags, drop |-> {}])
                ELSE Ends(i)
           /\ lost' = IF again = 0 /\ job.why = "inbound" THEN lost \cup {"error"} ELSE lost
  <2>1. again # 0 /\ again \in Ids
    <3>1. PICK c \in Ids : Live(c) /\ contact[c].num = job.num
      BY <1>5
    <3>2. Lookup(job.num) \in Ids /\ Live(Lookup(job.num))
      BY <3>1, LookupIs DEF Live
    <3> QED  BY <3>2, Bounds DEF Relookup
  <2>2. lost' = lost
    BY <1>5, <2>1
  <2>3. \E next \in FileJob \cup TagsJob \cup {Idle} : jobs' = [jobs EXCEPT ![i] = next]
    <3>1. CASE job.why = "inbound"
      <4>1. [k |-> "file", by |-> None, c |-> again] \in FileJob
        BY <2>1, FileJobs DEF Owners
      <4>2. jobs' = [jobs EXCEPT ![i] = [k |-> "file", by |-> None, c |-> again]]
        BY <1>5, <2>1, <3>1 DEF Becomes
      <4> QED  BY <4>1, <4>2
    <3>2. CASE job.why # "inbound" /\ job.why = "import" /\ job.twin = 0
      <4> DEFINE next == [k |-> "tags", c |-> again, read |-> contact[again].tags, add |-> job.tags, drop |-> {}]
      <4>1. next \in TagsJob
        BY <1>3, <2>1, TagsTyped, TagsJobs
      <4>2. jobs' = [jobs EXCEPT ![i] = next]
        BY <1>5, <2>1, <3>2 DEF Becomes
      <4> QED  BY <4>1, <4>2
    <3>3. CASE job.why # "inbound" /\ ~(job.why = "import" /\ job.twin = 0)
      BY <1>5, <2>1, <3>3 DEF Ends, Becomes
    <3> QED  BY <3>1, <3>2, <3>3
  <2>4. PICK next \in FileJob \cup TagsJob \cup {Idle} : jobs' = [jobs EXCEPT ![i] = next]
    BY <2>3
  <2>5. next \in Job /\ next.k \notin {"merge", "restore"}
    BY QuietJobs
  <2>6. ASSUME NEW c \in Ids  PROVE Followed(c)'
    <3>1. Ending(c) => Ending(c)'
      BY <1>1, <1>4, <2>4, EndingStays
    <3> QED  BY <1>1, <1>2, <1>5, <3>1, FollowedStays
  <2>7. contact' = contact /\ pair' = pair
    BY <1>5
  <2>8. \A c \in Ids : /\ contact'[c].into \in {contact[c].into, 0}
                       /\ contact'[c].st = "merged" => contact[c].st = "merged" /\ contact'[c].into = contact[c].into
    BY <2>7
  <2> QED  BY <1>1, <1>2, <2>2, <2>4, <2>5, <2>6, <2>7, <2>8, StepKeeps
<1>6. CASE \E c \in Ids :
             /\ contact[c].st = "no"
             /\ contact' = [contact EXCEPT ![c] =
                              [NoContact EXCEPT !.st = "live", !.num = job.num, !.tags = job.tags]]
             /\ pair' = IF job.twin = 0 THEN pair ELSE FlagPair(c, job.twin)
             /\ IF job.why = "inbound" THEN Becomes(i, [k |-> "file", by |-> None, c |-> c]) ELSE Ends(i)
             /\ UNCHANGED lost
  <2>1. PICK n \in Ids :
             /\ contact[n].st = "no"
             /\ contact' = [contact EXCEPT ![n] =
                              [NoContact EXCEPT !.st = "live", !.num = job.num, !.tags = job.tags]]
             /\ pair' = IF job.twin = 0 THEN pair ELSE FlagPair(n, job.twin)
             /\ IF job.why = "inbound" THEN Becomes(i, [k |-> "file", by |-> None, c |-> n]) ELSE Ends(i)
             /\ UNCHANGED lost
    BY <1>6
  <2> DEFINE new == [NoContact EXCEPT !.st = "live", !.num = job.num, !.tags = job.tags]
  <2>2. new \in Contact /\ new.st = "live" /\ new.into = 0
    BY <1>3 DEF NoContact, Contact, Texts, Owners
  <2>3. contact' \in [Ids -> Contact] /\ contact'[n] = new /\ \A c \in Ids \ {n} : contact'[c] = contact[c]
    <3>1. contact' = [contact EXCEPT ![n] = new]
      BY <2>1
    <3> HIDE DEF new
    <3> QED  BY <1>1, <2>2, <3>1
  <2> HIDE DEF new
  <2>4. pair' \in [Pairs -> PairMarks]
    <3>1. FlagPair(n, job.twin) \in [Pairs -> PairMarks]
      BY <1>1 DEF FlagPair, PairMarks
    <3> QED  BY <1>1, <2>1, <3>1
  <2>5. \E next \in FileJob \cup TagsJob \cup {Idle} : jobs' = [jobs EXCEPT ![i] = next]
    <3>1. CASE job.why = "inbound"
      <4>1. [k |-> "file", by |-> None, c |-> n] \in FileJob
        BY FileJobs DEF Owners
      <4>2. jobs' = [jobs EXCEPT ![i] = [k |-> "file", by |-> None, c |-> n]]
        BY <2>1, <3>1 DEF Becomes
      <4> QED  BY <4>1, <4>2
    <3>2. CASE job.why # "inbound"
      BY <2>1, <3>2 DEF Ends, Becomes
    <3> QED  BY <3>1, <3>2
  <2>6. PICK next \in FileJob \cup TagsJob \cup {Idle} : jobs' = [jobs EXCEPT ![i] = next]
    BY <2>5
  <2>7. next \in Job /\ next.k \notin {"merge", "restore"}
    BY QuietJobs
  <2>8. ASSUME NEW c \in Ids  PROVE Followed(c)'
    <3>1. Ending(c) => Ending(c)'
      BY <1>1, <1>4, <2>6, EndingStays
    <3>2. CASE c = n
      BY <1>1, <2>2, <2>3, <3>2, FollowedStays
    <3>3. CASE c # n
      BY <1>1, <1>2, <2>3, <3>1, <3>3, FollowedStays
    <3> QED  BY <3>2, <3>3
  <2>9. \A c \in Ids : /\ contact'[c].into \in {contact[c].into, 0}
                       /\ contact'[c].st = "merged" => contact[c].st = "merged" /\ contact'[c].into = contact[c].into
    BY <2>2, <2>3
  <2>10. lost' = lost /\ work' = work /\ member' = member /\ ops' = ops
    BY <1>2, <2>1
  <2> QED  BY <1>1, <2>3, <2>4, <2>6, <2>7, <2>8, <2>9, <2>10, StepKeeps
<1> QED  BY <1>5, <1>6 DEF Create

LEMMA RestoreKeeps ==
  ASSUME ContactsIInv, NEW i \in Slots, RestoreContact(i)
  PROVE  ContactsIInv'
<1> DEFINE job == jobs[i]
           taken == \E c \in Ids \ {job.c} : Live(c) /\ contact[c].num = contact[job.c].num
<1>1. /\ contact \in [Ids -> Contact] /\ work \in [Ids -> Work] /\ pair \in [Pairs -> PairMarks]
      /\ jobs \in [Slots -> Job] /\ lost \subseteq {"restart", "collision"} /\ ops \in 0..MaxOps
      /\ \A c \in Ids : Followed(c)
  BY DEF ContactsIInv, ContactTypes
<1>2. /\ job.k = "restore" /\ UNCHANGED <<pair, member, ops>>
      /\ contact' = IF taken THEN contact ELSE [contact EXCEPT ![job.c].st = "live"]
      /\ work' = IF taken THEN work ELSE [work EXCEPT ![job.c].stray = {}]
      /\ IF ~taken /\ job.why = "inbound"
           THEN Becomes(i, [k |-> "file", by |-> None, c |-> job.c]) ELSE Ends(i)
      /\ lost' = IF taken /\ job.why = "inbound" THEN lost \cup {"collision"} ELSE lost
  BY DEF RestoreContact
<1>3. job.c \in Ids
  BY <1>1, <1>2, KindOfJob DEF RestoreJob
<1>4. \E next \in FileJob \cup {Idle} : jobs' = [jobs EXCEPT ![i] = next]
  <2>1. [k |-> "file", by |-> None, c |-> job.c] \in FileJob
    BY <1>3, FileJobs DEF Owners
  <2> HIDE DEF taken
  <2>2. CASE ~taken /\ job.why = "inbound"
    BY <1>2, <2>1, <2>2 DEF Becomes
  <2>3. CASE ~(~taken /\ job.why = "inbound")
    BY <1>2, <2>3 DEF Ends, Becomes
  <2> QED  BY <2>2, <2>3
<1>5. PICK next \in FileJob \cup {Idle} : jobs' = [jobs EXCEPT ![i] = next]
  BY <1>4
<1>6. next \in Job /\ next.k \notin {"merge", "restore"} /\ jobs[i].k # "end"
  BY <1>2, QuietJobs
<1>7. lost' \subseteq {"restart", "collision"}
  BY <1>1, <1>2
<1> HIDE DEF taken
<1>8. CASE taken
  <2>1. contact' = contact /\ work' = work
    BY <1>2, <1>8
  <2>2. ASSUME NEW c \in Ids  PROVE Followed(c)'
    <3>1. Ending(c) => Ending(c)'
      BY <1>1, <1>5, <1>6, EndingStays
    <3> QED  BY <1>1, <2>1, <3>1, FollowedStays
  <2>3. \A c \in Ids : /\ contact'[c].into \in {contact[c].into, 0}
                       /\ contact'[c].st = "merged" => contact[c].st = "merged" /\ contact'[c].into = contact[c].into
    BY <2>1
  <2> QED  BY <1>1, <1>2, <1>5, <1>6, <1>7, <2>1, <2>2, <2>3, StepKeeps
<1>9. CASE ~taken
  <2>1. contact' = [contact EXCEPT ![job.c].st = "live"] /\ work' = [work EXCEPT ![job.c].stray = {}]
    BY <1>2, <1>9
  <2>2. contact' \in [Ids -> Contact]
    <3>1. contact[job.c] \in Contact /\ contact' = [contact EXCEPT ![job.c] = [contact[job.c] EXCEPT !.st = "live"]]
      BY <1>1, <1>3, <2>1
    <3>2. [contact[job.c] EXCEPT !.st = "live"] \in Contact
      BY <3>1 DEF Contact
    <3> QED  BY <1>1, <3>1, <3>2
  <2>3. work' \in [Ids -> Work]
    <3>1. work[job.c] \in Work /\ work' = [work EXCEPT ![job.c] = [work[job.c] EXCEPT !.stray = {}]]
      BY <1>1, <1>3, <2>1
    <3>2. [work[job.c] EXCEPT !.stray = {}] \in Work
      BY <3>1 DEF Work
    <3> QED  BY <1>1, <3>1, <3>2
  <2>4. \A c \in Ids : /\ contact'[c].into = contact[c].into
                       /\ contact'[c].st = IF c = job.c THEN "live" ELSE contact[c].st
    BY <1>1, <2>1 DEF Contact
  <2>5. \A c \in Ids \ {job.c} : work'[c] = work[c]
    BY <1>1, <2>1
  <2>6. ASSUME NEW c \in Ids  PROVE Followed(c)'
    <3>1. Ending(c) => Ending(c)'
      BY <1>1, <1>5, <1>6, EndingStays
    <3>2. CASE c = job.c
      BY <1>1, <2>4, <3>2, FollowedStays
    <3>3. CASE c # job.c
      BY <1>1, <2>4, <2>5, <3>1, <3>3, FollowedStays
    <3> QED  BY <3>2, <3>3
  <2>7. \A c \in Ids : /\ contact'[c].into \in {contact[c].into, 0}
                       /\ contact'[c].st = "merged" => contact[c].st = "merged" /\ contact'[c].into = contact[c].into
    BY <2>4
  <2> QED  BY <1>1, <1>2, <1>5, <1>6, <1>7, <2>2, <2>3, <2>6, <2>7, StepKeeps
<1> QED  BY <1>8, <1>9

-----------------------------------------------------------------------------
(* Work                                                                       *)

LEMMA IInvIs ==
  ASSUME ContactsIInv
  PROVE  /\ contact \in [Ids -> Contact] /\ work \in [Ids -> Work] /\ pair \in [Pairs -> PairMarks]
         /\ jobs \in [Slots -> Job] /\ lost \subseteq {"restart", "collision"} /\ ops \in 0..MaxOps
         /\ member \subseteq Members /\ \A c \in Ids : Followed(c)
BY DEF ContactsIInv, ContactTypes

(* The kinds of work a record has, and those that are marked. *)
LEMMA FollowedIs ==
  ASSUME NEW c \in Ids
  PROVE  Followed(c)' <=>
         /\ contact'[c].st = "merged" =>
              /\ work'[c].conv # "none" => "conv" \in work'[c].stray
              /\ work'[c].transfer # "none" => "transfer" \in work'[c].stray
              /\ work'[c].session => "session" \in work'[c].stray
              /\ work'[c].hist => "hist" \in work'[c].stray
              /\ work'[c].note # None => "note" \in work'[c].stray
         /\ contact'[c].st = "user" =>
              \/ Ending(c)'
              \/ /\ work'[c].conv # "none" => "conv" \in work'[c].stray
                 /\ work'[c].transfer # "none" => "transfer" \in work'[c].stray
                 /\ work'[c].session => "session" \in work'[c].stray
<1>1. (\A k \in Kinds : Has(c, k)' => k \in work'[c].stray) <=>
              /\ work'[c].conv # "none" => "conv" \in work'[c].stray
              /\ work'[c].transfer # "none" => "transfer" \in work'[c].stray
              /\ work'[c].session => "session" \in work'[c].stray
              /\ work'[c].hist => "hist" \in work'[c].stray
              /\ work'[c].note # None => "note" \in work'[c].stray
  BY HasIsNext DEF Kinds
<1>2. (\A k \in {"conv", "transfer", "session"} : Has(c, k)' => k \in work'[c].stray) <=>
              /\ work'[c].conv # "none" => "conv" \in work'[c].stray
              /\ work'[c].transfer # "none" => "transfer" \in work'[c].stray
              /\ work'[c].session => "session" \in work'[c].stray
  BY HasIsNext
<1> QED  BY <1>1, <1>2 DEF Followed

LEMMA FollowedNow ==
  ASSUME NEW c \in Ids, Followed(c)
  PROVE  /\ contact[c].st = "merged" =>
              /\ work[c].conv # "none" => "conv" \in work[c].stray
              /\ work[c].transfer # "none" => "transfer" \in work[c].stray
              /\ work[c].session => "session" \in work[c].stray
              /\ work[c].hist => "hist" \in work[c].stray
              /\ work[c].note # None => "note" \in work[c].stray
         /\ contact[c].st = "user" =>
              \/ Ending(c)
              \/ /\ work[c].conv # "none" => "conv" \in work[c].stray
                 /\ work[c].transfer # "none" => "transfer" \in work[c].stray
                 /\ work[c].session => "session" \in work[c].stray
BY HasIs DEF Followed, Kinds

(* The work of one record is replaced. *)
LEMMA OneWork ==
  ASSUME ContactsIInv, NEW c \in Ids, NEW w \in Work, work' = [work EXCEPT ![c] = w]
  PROVE  work' \in [Ids -> Work] /\ work'[c] = w /\ \A d \in Ids \ {c} : work'[d] = work[d]
BY IInvIs

LEMMA JobEnds ==
  ASSUME ContactsIInv, NEW i \in Slots, Ends(i)
  PROVE  jobs' \in [Slots -> Job] /\ jobs'[i] = Idle /\ \A j \in Slots \ {i} : jobs'[j] = jobs[j]
BY IInvIs, QuietJobs DEF Ends, Becomes

LEMMA FileMessageKeeps ==
  ASSUME ContactsIInv, NEW i \in Slots, FileMessage(i)
  PROVE  ContactsIInv'
<1>1. /\ jobs[i].k = "file" /\ Ends(i) /\ UNCHANGED <<contact, pair, member, lost, ops>>
      /\ jobs' = [jobs EXCEPT ![i] = Idle]
  BY DEF FileMessage, Ends, Becomes
<1>2. PICK c \in Ids : c = jobs[i].c
  BY <1>1, IInvIs, KindOfJob DEF FileJob
<1>3. work[c] \in Work /\ Followed(c)
  BY IInvIs
<1>4. \E opens \in BOOLEAN, who \in {"bot", "general"} :
        work' = [work EXCEPT ![c] =
          Filed([work[c] EXCEPT !.hist = TRUE, !.conv = IF opens THEN who ELSE work[c].conv], c,
                IF opens THEN {"hist", "conv"} ELSE {"hist"})]
  <2>1. (jobs[i].by = None /\ work[c].conv = "none") \in BOOLEAN
    OBVIOUS
  <2> QED  BY <1>2, <1>3, <2>1 DEF FileMessage
<1>5. PICK opens \in BOOLEAN, who \in {"bot", "general"} :
        work' = [work EXCEPT ![c] =
          Filed([work[c] EXCEPT !.hist = TRUE, !.conv = IF opens THEN who ELSE work[c].conv], c,
                IF opens THEN {"hist", "conv"} ELSE {"hist"})]
  BY <1>4
<1> DEFINE kinds == IF opens THEN {"hist", "conv"} ELSE {"hist"}
           v == IF opens THEN who ELSE work[c].conv
           put == [work[c] EXCEPT !.hist = TRUE, !.conv = v]
           w == Filed(put, c, kinds)
<1>6. put \in Work
  BY <1>3 DEF Work
<1>7. /\ put.stray = work[c].stray /\ put.conv = v /\ put.transfer = work[c].transfer
      /\ put.session = work[c].session /\ put.note = work[c].note /\ put.stray \subseteq Kinds
  BY <1>3 DEF Work
<1>8. kinds \subseteq Kinds /\ "hist" \in kinds /\ (v # work[c].conv => "conv" \in kinds)
  BY DEF Kinds
<1>9. work' = [work EXCEPT ![c] = w]
  BY <1>5
<1> HIDE DEF put, kinds, v
<1>10. w \in Work
  BY <1>6, <1>7, <1>8 DEF Filed, Work
<1>11. work' \in [Ids -> Work] /\ work'[c] = w /\ \A d \in Ids \ {c} : work'[d] = work[d]
  <2> HIDE DEF w
  <2> QED  BY <1>9, <1>10, OneWork
<1>12. Followed(c)'
  <2>1. CASE Live(c)
    BY <1>1, <2>1, FollowedIs DEF Live
  <2>2. CASE ~Live(c)
    <3>1. w = [put EXCEPT !.stray = @ \cup kinds]
      BY <2>2 DEF Filed
    <3>2. /\ w.stray = work[c].stray \cup kinds /\ w.conv = v /\ w.transfer = work[c].transfer
          /\ w.session = work[c].session /\ w.note = work[c].note
      BY <1>6, <1>7, <3>1 DEF Work
    <3>3. Ending(c) => Ending(c)'
      BY <1>1, IInvIs, EndingStays
    <3> HIDE DEF w
    <3> QED  BY <1>1, <1>3, <1>8, <1>11, <3>2, <3>3, FollowedIs, FollowedNow
  <2> QED  BY <2>1, <2>2
<1>13. jobs' \in [Slots -> Job] /\ \A j \in Slots : jobs'[j] = jobs[j] \/ (jobs'[j] = Idle /\ (jobs[j].k = "end" => jobs[j].c = c))
  BY <1>1, JobEnds
<1> QED  BY <1>1, <1>11, <1>12, <1>13, WorkKeeps, IInvIs

(* A request changes the work of a record nobody has closed, or less of it. *)
LEMMA OpenWorkKeeps ==
  ASSUME ContactsIInv, Request, NEW c \in Ids, NEW w \in Work, work' = [work EXCEPT ![c] = w],
         UNCHANGED <<contact, pair, member, jobs, lost>>, Followed(c)'
  PROVE  ContactsIInv'
BY OneWork, WorkKeeps, RequestCounts, IInvIs

LEMMA NotesKeep ==
  ASSUME ContactsIInv, NEW u \in Users, NEW c \in Ids,
         CreateConversationNote(u, c) \/ DeleteConversationNote(u, c)
  PROVE  ContactsIInv'
<1>1. work[c] \in Work /\ Followed(c) /\ work \in [Ids -> Work] /\ u \in Owners /\ None \in Owners
  BY IInvIs DEF Owners
<1>2. CASE CreateConversationNote(u, c)
  <2> DEFINE w == [work[c] EXCEPT !.note = u]
  <2>1. w \in Work
    BY <1>1 DEF Work
  <2>2. work' = [work EXCEPT ![c] = w] /\ Request /\ UNCHANGED <<contact, pair, member, jobs, lost>> /\ Live(c)
    BY <1>1, <1>2 DEF CreateConversationNote, CanSeeContact
  <2>3. Followed(c)'
    BY <2>2, FollowedIs DEF Live
  <2> HIDE DEF w
  <2> QED  BY <2>1, <2>2, <2>3, OpenWorkKeeps
<1>3. CASE DeleteConversationNote(u, c)
  <2> DEFINE w == [work[c] EXCEPT !.note = None, !.stray = work[c].stray \ {"note"}]
  <2>1. w \in Work
    BY <1>1 DEF Work
  <2>2. work' = [work EXCEPT ![c] = w] /\ Request /\ UNCHANGED <<contact, pair, member, jobs, lost>>
    BY <1>1, <1>3 DEF DeleteConversationNote, Work
  <2>3. /\ w.conv = work[c].conv /\ w.transfer = work[c].transfer /\ w.session = work[c].session
        /\ w.hist = work[c].hist /\ w.note = None /\ w.stray = work[c].stray \ {"note"}
    BY <1>1 DEF Work
  <2> HIDE DEF w
  <2>4. work'[c] = w
    BY <2>1, <2>2, OneWork
  <2>5. Ending(c) => Ending(c)'
    BY <2>2 DEF Ending
  <2>6. Followed(c)'
    BY <1>1, <2>2, <2>3, <2>4, <2>5, FollowedIs, FollowedNow
  <2> QED  BY <2>1, <2>2, <2>6, OpenWorkKeeps
<1> QED  BY <1>2, <1>3

LEMMA WorkChangesKeeps ==
  ASSUME ContactsIInv, NEW c \in Ids, WorkChanges(c)
  PROVE  ContactsIInv'
<1>1. /\ Request /\ UNCHANGED <<contact, pair, member, jobs, lost>> /\ Live(c)
      /\ work[c] \in Work /\ work \in [Ids -> Work]
  BY IInvIs DEF WorkChanges
<1>2. Followed(c)'
  BY <1>1, FollowedIs DEF Live
<1>3. CASE work' = [work EXCEPT ![c].session = TRUE]
  <2>1. [work[c] EXCEPT !.session = TRUE] \in Work
    BY <1>1 DEF Work
  <2>2. work' = [work EXCEPT ![c] = [work[c] EXCEPT !.session = TRUE]]
    BY <1>1, <1>3
  <2> QED  BY <1>1, <1>2, <2>1, <2>2, OpenWorkKeeps
<1>4. ASSUME NEW to \in {"queue"} \cup (Users \ Readers), work' = [work EXCEPT ![c].transfer = to]
      PROVE  ContactsIInv'
  <2>1. [work[c] EXCEPT !.transfer = to] \in Work
    BY <1>1 DEF Work
  <2>2. work' = [work EXCEPT ![c] = [work[c] EXCEPT !.transfer = to]]
    BY <1>1, <1>4
  <2> QED  BY <1>1, <1>2, <2>1, <2>2, OpenWorkKeeps
<1>5. ASSUME NEW who \in {"general", "team", "taken"}, work' = [work EXCEPT ![c].conv = who]
      PROVE  ContactsIInv'
  <2>1. [work[c] EXCEPT !.conv = who] \in Work
    BY <1>1 DEF Work
  <2>2. work' = [work EXCEPT ![c] = [work[c] EXCEPT !.conv = who]]
    BY <1>1, <1>5
  <2> QED  BY <1>1, <1>2, <2>1, <2>2, OpenWorkKeeps
<1> QED  BY <1>3, <1>4, <1>5 DEF WorkChanges

LEMMA EndWorkKeeps ==
  ASSUME ContactsIInv, NEW i \in Slots, EndWork(i)
  PROVE  ContactsIInv'
<1>1. jobs[i].k = "end" /\ Ends(i) /\ UNCHANGED <<contact, pair, member, lost, ops>>
  BY DEF EndWork
<1>2. PICK c \in Ids : c = jobs[i].c
  BY <1>1, IInvIs, KindOfJob DEF EndJob
<1>3. work[c] \in Work /\ Followed(c) /\ work \in [Ids -> Work]
  BY IInvIs
<1> DEFINE w == EndWorkInFlight(work[c])
<1>4. w \in Work
  BY <1>3 DEF Work, EndWorkInFlight
<1>5. work' = [work EXCEPT ![c] = w]
  BY <1>2, <1>3 DEF EndWork
<1>6. /\ w.conv = "none" /\ w.transfer = "none" /\ ~w.session
      /\ w.hist = work[c].hist /\ w.note = work[c].note
      /\ w.stray = work[c].stray \ {"session", "transfer", "conv"}
  BY <1>3 DEF Work, EndWorkInFlight
<1> HIDE DEF w
<1>7. work' \in [Ids -> Work] /\ work'[c] = w /\ \A d \in Ids \ {c} : work'[d] = work[d]
  BY <1>4, <1>5, OneWork
<1>8. Followed(c)'
  BY <1>1, <1>3, <1>6, <1>7, FollowedIs, FollowedNow
<1>9. jobs' \in [Slots -> Job] /\ \A j \in Slots : jobs'[j] = jobs[j] \/ (jobs'[j] = Idle /\ (jobs[j].k = "end" => jobs[j].c = c))
  BY <1>1, <1>2, JobEnds
<1> QED  BY <1>1, <1>7, <1>8, <1>9, WorkKeeps, IInvIs

-----------------------------------------------------------------------------
(* The remaining requests                                                     *)

(* A step that leaves records and work alone. *)
LEMMA AsideKeeps ==
  ASSUME ContactsIInv, Request, UNCHANGED <<contact, work, jobs, lost>>,
         pair' \in [Pairs -> PairMarks], member' \subseteq Members
  PROVE  ContactsIInv'
<1>1. ContactTypes /\ jobs \in [Slots -> Job] /\ contact \in [Ids -> Contact]
  BY DEF ContactsIInv, ContactTypes
<1>2. ContactTypes'
  BY <1>1, RequestCounts DEF ContactTypes
<1>3. RestoresSane'
  BY DEF ContactsIInv, RestoresSane
<1>4. MergeInv'
  <2>1. \A c \in Ids : /\ contact'[c].into \in {contact[c].into, 0}
                       /\ contact'[c].st = "merged" => contact[c].st = "merged" /\ contact'[c].into = contact[c].into
    OBVIOUS
  <2> QED  BY <1>1, <2>1, MergeFrame DEF ContactsIInv
<1>5. ASSUME NEW c \in Ids  PROVE Followed(c)'
  <2>1. Ending(c) => Ending(c)'
    BY DEF Ending
  <2> QED  BY <2>1, IInvIs, FollowedStays
<1> QED  BY <1>2, <1>3, <1>4, <1>5 DEF ContactsIInv

LEMMA PairsKeep ==
  ASSUME ContactsIInv, ScanDuplicates \/ (\E p \in Pairs : DismissDuplicate(p)) \/ (\E u \in Users : LeavesTeam(u))
  PROVE  ContactsIInv'
<1>1. CASE ScanDuplicates
  <2>1. Scan \in [Pairs -> PairMarks]
    BY IInvIs DEF Scan, PairMarks
  <2> QED  BY <1>1, <2>1, IInvIs, AsideKeeps DEF ScanDuplicates
<1>2. CASE \E p \in Pairs : DismissDuplicate(p)
  BY <1>2, IInvIs, AsideKeeps DEF DismissDuplicate, PairMarks
<1>3. CASE \E u \in Users : LeavesTeam(u)
  BY <1>3, IInvIs, AsideKeeps DEF LeavesTeam
<1> QED  BY <1>1, <1>2, <1>3

LEMMA ContactSets ==
  ASSUME contact \in [Ids -> Contact], NEW c \in Ids
  PROVE  /\ \A g \in SUBSET Words :
              LET f == [contact EXCEPT ![c].tags = g] IN
              /\ f \in [Ids -> Contact]
              /\ \A d \in Ids : f[d].st = contact[d].st /\ f[d].into = contact[d].into
         /\ \A x \in {"user", "sync"} :
              LET f == [contact EXCEPT ![c].st = x] IN
              /\ f \in [Ids -> Contact]
              /\ \A d \in Ids : /\ f[d].into = contact[d].into
                                /\ f[d].st = IF d = c THEN x ELSE contact[d].st
<1>1. ASSUME NEW g \in SUBSET Words
      PROVE LET f == [contact EXCEPT ![c].tags = g] IN
              /\ f \in [Ids -> Contact]
              /\ \A d \in Ids : f[d].st = contact[d].st /\ f[d].into = contact[d].into
  BY DEF Contact
<1>2. ASSUME NEW x \in {"user", "sync"}
      PROVE LET f == [contact EXCEPT ![c].st = x] IN
              /\ f \in [Ids -> Contact]
              /\ \A d \in Ids : /\ f[d].into = contact[d].into
                                /\ f[d].st = IF d = c THEN x ELSE contact[d].st
  <2> DEFINE r == [contact[c] EXCEPT !.st = x]
             f == [contact EXCEPT ![c] = r]
  <2>1. r \in Contact /\ r.st = x /\ r.into = contact[c].into
    BY DEF Contact
  <2>2. [contact EXCEPT ![c].st = x] = f
    OBVIOUS
  <2> HIDE DEF r
  <2>3. f \in [Ids -> Contact] /\ \A d \in Ids : f[d].into = contact[d].into /\ f[d].st = IF d = c THEN x ELSE contact[d].st
    BY <2>1
  <2> QED  BY <2>2, <2>3
<1> QED  BY <1>1, <1>2

LEMMA WriteTagsKeeps ==
  ASSUME ContactsIInv, NEW i \in Slots, WriteTags(i)
  PROVE  ContactsIInv'
<1>1. jobs[i].k = "tags" /\ Ends(i) /\ jobs' = [jobs EXCEPT ![i] = Idle] /\ UNCHANGED <<work, pair, member, lost, ops>>
  BY DEF WriteTags, Ends, Becomes
<1>2. PICK c \in Ids : c = jobs[i].c
  BY <1>1, IInvIs, KindOfJob DEF TagsJob
<1>3. ApplyTags(jobs[i].read, jobs[i].add, jobs[i].drop) \in SUBSET Words
  BY <1>1, IInvIs, KindOfJob DEF TagsJob, ApplyTags
<1>4. contact' \in [Ids -> Contact] /\ \A d \in Ids : contact'[d].st = contact[d].st /\ contact'[d].into = contact[d].into
  <2>1. CASE Live(c)
    <3>1. contact' = [contact EXCEPT ![c].tags = ApplyTags(jobs[i].read, jobs[i].add, jobs[i].drop)]
      BY <1>2, <2>1 DEF WriteTags
    <3>2. PICK g \in SUBSET Words : g = ApplyTags(jobs[i].read, jobs[i].add, jobs[i].drop)
      BY <1>3
    <3>3. contact' = [contact EXCEPT ![c].tags = g]
      BY <3>1, <3>2
    <3>4. contact \in [Ids -> Contact]
      BY IInvIs
    <3>5. LET f == [contact EXCEPT ![c].tags = g] IN
              /\ f \in [Ids -> Contact]
              /\ \A d \in Ids : f[d].st = contact[d].st /\ f[d].into = contact[d].into
      BY <3>4 DEF Contact
    <3> QED  BY <3>3, <3>5
  <2>2. CASE ~Live(c)
    <3>1. contact' = contact
      BY <1>2, <2>2 DEF WriteTags
    <3> QED  BY <3>1, IInvIs
  <2> QED  BY <2>1, <2>2
<1>5. ASSUME NEW d \in Ids  PROVE Followed(d)'
  <2>1. Ending(d) => Ending(d)'
    BY <1>1, IInvIs, EndingStays
  <2> QED  BY <1>1, <1>4, <2>1, IInvIs, FollowedStays
<1>6. \A d \in Ids : /\ contact'[d].into \in {contact[d].into, 0}
                     /\ contact'[d].st = "merged" => contact[d].st = "merged" /\ contact'[d].into = contact[d].into
  BY <1>4
<1> QED  BY <1>1, <1>4, <1>5, <1>6, QuietJobs, IInvIs, StepKeeps

LEMMA DeleteKeeps ==
  ASSUME ContactsIInv, NEW c \in Ids, DeleteContact(c)
  PROVE  ContactsIInv'
<1>1. contact' = [contact EXCEPT ![c].st = "user"] /\ UNCHANGED <<work, pair, member, lost>> /\ ops' \in 0..MaxOps
  BY RequestCounts DEF DeleteContact
<1> DEFINE job == [k |-> "end", c |-> c]
<1>2. job \in EndJob /\ job.k = "end" /\ job.c = c
  BY DEF EndJob
<1>3. Starts(job)
  BY DEF DeleteContact
<1> HIDE DEF job
<1>4. PICK i \in Slots : jobs[i] = Idle /\ jobs' = [jobs EXCEPT ![i] = job]
  BY <1>3, JobStarts
<1>5. /\ contact' \in [Ids -> Contact]
      /\ \A d \in Ids : /\ contact'[d].into = contact[d].into
                        /\ contact'[d].st = IF d = c THEN "user" ELSE contact[d].st
  BY <1>1, IInvIs, ContactSets
<1>6. ASSUME NEW d \in Ids  PROVE Followed(d)'
  <2>1. jobs[i].k # "end"
    BY <1>4 DEF Idle
  <2>2. Ending(d) => Ending(d)'
    BY <1>4, <2>1, IInvIs, EndingStays
  <2>3. CASE d = c
    <3>1. jobs'[i] = job
      BY <1>4, IInvIs
    <3>2. Ending(d)'
      BY <1>2, <2>3, <3>1 DEF Ending
    <3> QED  BY <1>5, <2>3, <3>2, FollowedIs
  <2>4. CASE d # c
    BY <1>1, <1>5, <2>2, <2>4, IInvIs, FollowedStays
  <2> QED  BY <2>3, <2>4
<1>7. \A d \in Ids : /\ contact'[d].into \in {contact[d].into, 0}
                     /\ contact'[d].st = "merged" => contact[d].st = "merged" /\ contact'[d].into = contact[d].into
  BY <1>5
<1>8. job \in Job /\ job.k \notin {"merge", "restore"}
  BY <1>2, QuietJobs
<1> QED  BY <1>1, <1>4, <1>5, <1>6, <1>7, <1>8, IInvIs, StepKeeps

LEMMA SyncRemoveKeeps ==
  ASSUME ContactsIInv, SyncRemove
  PROVE  ContactsIInv'
<1>1. UNCHANGED <<work, pair, member, jobs, lost>> /\ ops' \in 0..MaxOps
  BY RequestCounts DEF SyncRemove
<1>2. PICK c \in Ids : contact' = [contact EXCEPT ![c].st = "sync"]
  BY DEF SyncRemove, FindContact
<1>3. /\ contact' \in [Ids -> Contact]
      /\ \A d \in Ids : /\ contact'[d].into = contact[d].into
                        /\ contact'[d].st = IF d = c THEN "sync" ELSE contact[d].st
  BY <1>2, IInvIs, ContactSets
<1>4. ContactTypes'
  BY <1>1, <1>3, IInvIs DEF ContactTypes
<1>5. RestoresSane'
  BY <1>1 DEF ContactsIInv, RestoresSane
<1>6. MergeInv'
  <2>1. \A d \in Ids : /\ contact'[d].into \in {contact[d].into, 0}
                       /\ contact'[d].st = "merged" => contact[d].st = "merged" /\ contact'[d].into = contact[d].into
    BY <1>3
  <2>2. \A j \in Slots : jobs'[j].k = "merge" => jobs'[j] = jobs[j]
    BY <1>1
  <2> QED  BY <2>1, <2>2, IInvIs, MergeFrame DEF ContactsIInv
<1>7. ASSUME NEW d \in Ids  PROVE Followed(d)'
  <2>1. Ending(d) => Ending(d)'
    BY <1>1 DEF Ending
  <2>2. contact'[d].st \notin {"merged", "user"} \/ (contact'[d].st = contact[d].st /\ work'[d] = work[d])
    BY <1>1, <1>3
  <2> QED  BY <2>1, <2>2, IInvIs, FollowedStays
<1> QED  BY <1>4, <1>5, <1>6, <1>7 DEF ContactsIInv

LEMMA RestartKeeps ==
  ASSUME ContactsIInv, Restart
  PROVE  ContactsIInv'
<1>1. /\ jobs' = [i \in Slots |-> Idle] /\ UNCHANGED <<contact, pair, member>> /\ ops' \in 0..MaxOps
      /\ lost' \subseteq {"restart", "collision"}
  <2>1. ops < MaxOps /\ ops' = ops + 1 /\ jobs' = [i \in Slots |-> Idle] /\ UNCHANGED <<contact, pair, member>>
    BY DEF Restart
  <2>2. lost' = lost \cup {"restart" : i \in {j \in Slots : jobs[j].k \in {"insert", "restore", "file"}}}
    BY DEF Restart
  <2>3. lost' \subseteq {"restart", "collision"}
    BY <2>2, IInvIs
  <2>4. ops' \in 0..MaxOps
    BY <2>1, IInvIs, ContactsAssumption
  <2> QED  BY <2>1, <2>3, <2>4
<1> DEFINE left(c) == {k \in {"conv", "transfer", "session"} : Has(c, k)}
           w(c) == IF Ending(c) THEN [work[c] EXCEPT !.stray = @ \cup left(c)] ELSE work[c]
<1>2. work' = [c \in Ids |-> w(c)]
  BY DEF Restart, Ending
<1>3. ASSUME NEW c \in Ids
      PROVE  /\ w(c) \in Work
             /\ w(c).conv = work[c].conv /\ w(c).transfer = work[c].transfer
             /\ w(c).session = work[c].session /\ w(c).hist = work[c].hist /\ w(c).note = work[c].note
             /\ work[c].stray \subseteq w(c).stray
             /\ Ending(c) => left(c) \subseteq w(c).stray
  <2>1. work[c] \in Work
    BY IInvIs
  <2>2. CASE Ending(c)
    <3>1. w(c) = [work[c] EXCEPT !.stray = @ \cup left(c)]
      BY <2>2
    <3>2. left(c) \subseteq Kinds
      BY DEF Kinds
    <3> HIDE DEF left, w
    <3> QED  BY <2>1, <3>1, <3>2 DEF Work
  <2>3. CASE ~Ending(c)
    BY <2>1, <2>3 DEF Work
  <2> QED  BY <2>2, <2>3
<1>4. ASSUME NEW c \in Ids
      PROVE  Ending(c) => /\ work[c].conv # "none" => "conv" \in w(c).stray
                          /\ work[c].transfer # "none" => "transfer" \in w(c).stray
                          /\ work[c].session => "session" \in w(c).stray
  <2>1. Ending(c) => left(c) \subseteq w(c).stray
    BY <1>3
  <2> HIDE DEF w
  <2> QED  BY <2>1, HasIs
<1> HIDE DEF w
<1>5. \A c \in Ids : work'[c] = w(c)
  BY <1>2
<1>6. work' \in [Ids -> Work]
  BY <1>2, <1>3
<1>7. ASSUME NEW c \in Ids  PROVE Followed(c)'
  <2>1. contact'[c].st = contact[c].st /\ Followed(c)
    BY <1>1, IInvIs
  <2> QED  BY <1>3, <1>4, <1>5, <2>1, FollowedIs, FollowedNow
<1>8. \A i \in Slots : jobs'[i] = Idle /\ jobs'[i].k = "idle"
  BY <1>1 DEF Idle
<1>9. ContactTypes'
  BY <1>1, <1>6, QuietJobs, IInvIs DEF ContactTypes
<1>10. RestoresSane'
  BY <1>8 DEF RestoresSane
<1>11. MergeInv'
  <2>1. \A d \in Ids : /\ contact'[d].into \in {contact[d].into, 0}
                       /\ contact'[d].st = "merged" => contact[d].st = "merged" /\ contact'[d].into = contact[d].into
    BY <1>1
  <2>2. \A j \in Slots : jobs'[j].k = "merge" => jobs'[j] = jobs[j]
    BY <1>8
  <2> QED  BY <2>1, <2>2, IInvIs, MergeFrame DEF ContactsIInv
<1> QED  BY <1>7, <1>9, <1>10, <1>11 DEF ContactsIInv

-----------------------------------------------------------------------------
(* Merges                                                                     *)

LEMMA MergeContactsKeeps ==
  ASSUME ContactsIInv, NEW p \in Ids, NEW s \in Ids, MergeContacts(p, s)
  PROVE  ContactsIInv'
<1> DEFINE read == [x \in {"p", "s"} |-> contact[IF x = "p" THEN p ELSE s].tags]
           job == [k |-> "merge", p |-> p, s |-> s, read |-> read]
<1>1. /\ p # s /\ ~Locked(p, s) /\ Live(p) /\ Live(s) /\ contact[s].into = 0 /\ Starts(job)
      /\ UNCHANGED <<contact, work, pair, member, lost>> /\ ops' \in 0..MaxOps
  BY RequestCounts DEF MergeContacts
<1>2. job \in MergeJob
  <2>1. read \in [{"p", "s"} -> SUBSET Words]
    BY TagsTyped
  <2> HIDE DEF read
  <2> QED  BY <2>1 DEF MergeJob
<1>3. job \in Job /\ job.k = "merge" /\ job.p = p /\ job.s = s
  BY <1>2, JobIs
<1> HIDE DEF job
<1>4. PICK i \in Slots : jobs[i] = Idle /\ jobs' = [jobs EXCEPT ![i] = job]
  BY <1>1, JobStarts
<1>5. jobs' \in [Slots -> Job] /\ jobs'[i] = job /\ \A j \in Slots : j # i => jobs'[j] = jobs[j]
  BY <1>3, <1>4, IInvIs
<1>6. ContactTypes'
  BY <1>1, <1>5, IInvIs DEF ContactTypes
<1>7. RestoresSane'
  BY <1>3, <1>5 DEF ContactsIInv, RestoresSane
<1>8. MergesSane'
  <2> SUFFICES ASSUME NEW j \in Slots, jobs'[j].k = "merge"
               PROVE  /\ jobs'[j].p # jobs'[j].s /\ contact'[jobs'[j].s].into = 0
                      /\ contact'[jobs'[j].p].st # "merged" /\ contact'[jobs'[j].s].st # "merged"
    BY DEF MergesSane, MergeSane
  <2>1. CASE j = i
    BY <1>1, <1>3, <1>5, <2>1 DEF Live
  <2>2. CASE j # i
    BY <1>1, <1>5, <2>2 DEF ContactsIInv, MergeInv, MergesSane, MergeSane
  <2> QED  BY <2>1, <2>2
<1>9. LocksHold'
  <2>1. \A j \in Slots : jobs[j].k = "merge" => {jobs[j].p, jobs[j].s} \cap {p, s} = {}
    BY <1>1 DEF Locked
  <2> QED  BY <1>3, <1>5, <2>1 DEF ContactsIInv, MergeInv, LocksHold
<1>10. MergesEnd'
  BY <1>1 DEF ContactsIInv, MergeInv, MergesEnd
<1>11. ASSUME NEW c \in Ids  PROVE Followed(c)'
  <2>1. jobs[i].k # "end"
    BY <1>4 DEF Idle
  <2>2. Ending(c) => Ending(c)'
    BY <1>4, <2>1, IInvIs, EndingStays
  <2> QED  BY <1>1, <2>2, IInvIs, FollowedStays
<1> QED  BY <1>6, <1>7, <1>8, <1>9, <1>10, <1>11 DEF ContactsIInv, MergeInv

(* What a merge makes of the two records and of their work. *)
LEMMA MergeIs ==
  ASSUME ContactsIInv, NEW i \in Slots, Merge(i), NEW p \in Ids, NEW s \in Ids, p = jobs[i].p, s = jobs[i].s
  PROVE  /\ p # s /\ contact[s].into = 0 /\ contact[p].st # "merged" /\ contact[s].st # "merged"
         /\ contact' \in [Ids -> Contact]
         /\ contact'[p].st = contact[p].st /\ contact'[p].into = contact[p].into
         /\ contact'[s].st = IF Live(s) THEN "merged" ELSE contact[s].st
         /\ contact'[s].into = IF Live(s) THEN p ELSE 0
         /\ contact'[p].opt \in {contact[p].opt, contact[s].opt} /\ contact'[s].opt = None
         /\ \A c \in Ids \ {p, s} : contact'[c] = contact[c]
<1>1. jobs[i].k = "merge" /\ jobs[i] \in MergeJob
  BY IInvIs, KindOfJob DEF Merge
<1>2. p # s /\ contact[s].into = 0 /\ contact[p].st # "merged" /\ contact[s].st # "merged"
  BY <1>1 DEF ContactsIInv, MergeInv, MergesSane, MergeSane
<1>3. contact[p] \in Contact /\ contact[s] \in Contact /\ contact \in [Ids -> Contact]
  BY IInvIs
<1> DEFINE tags == IF Live(p) THEN MergeTags(jobs[i].read["p"], jobs[i].read["s"]) ELSE contact[p].tags
           opt == IF contact[p].opt = None THEN contact[s].opt ELSE contact[p].opt
           st == IF contact[s].st = "live" THEN "merged" ELSE contact[s].st
           into == IF Live(s) THEN p ELSE contact[s].into
           first == [contact[p] EXCEPT !.tags = tags, !.opt = opt]
           second == [contact[s] EXCEPT !.opt = None, !.st = st, !.into = into]
<1>4. tags \subseteq Words /\ opt \in Words \cup {None} /\ opt \in {contact[p].opt, contact[s].opt}
  BY <1>1, <1>3 DEF MergeJob, MergeTags, Contact
<1>5. st \in {"no", "live", "user", "sync", "merged"} /\ into \in Ids \cup {0}
  BY <1>3 DEF Contact
<1>6. contact' = [contact EXCEPT ![p] = first, ![s] = second]
  <2>1. contact' = [contact EXCEPT
       ![p].tags = tags, ![p].opt = IF @ = None THEN contact[s].opt ELSE @,
       ![s].opt = None, ![s].st = IF @ = "live" THEN "merged" ELSE @,
       ![s].into = IF Live(s) THEN p ELSE @]
    BY <1>3 DEF Merge
  <2> HIDE DEF tags
  <2> QED  BY <1>2, <1>3, <2>1 DEF Contact
<1> HIDE DEF tags, opt, st, into
<1>7. first \in Contact /\ first.st = contact[p].st /\ first.into = contact[p].into /\ first.opt = opt
  BY <1>3, <1>4 DEF Contact
<1>8. second \in Contact /\ second.st = st /\ second.into = into /\ second.opt = None
  BY <1>3, <1>5 DEF Contact
<1> HIDE DEF first, second
<1>9. /\ contact' \in [Ids -> Contact] /\ contact'[p] = first /\ contact'[s] = second
      /\ \A c \in Ids \ {p, s} : contact'[c] = contact[c]
  BY <1>2, <1>3, <1>6, <1>7, <1>8
<1> QED  BY <1>2, <1>4, <1>7, <1>8, <1>9 DEF st, into, Live

(* ... and the work of the one is the other's, or is marked. *)
LEMMA MergeWork ==
  ASSUME ContactsIInv, NEW i \in Slots, Merge(i), NEW p \in Ids, NEW s \in Ids, p = jobs[i].p, s = jobs[i].s, p # s
  PROVE  /\ work' \in [Ids -> Work] /\ work'[s] = NoWork
         /\ \A c \in Ids \ {p, s} : work'[c] = work[c]
         /\ work[p].transfer # "none" \/ work[s].transfer # "none" => work'[p].transfer # "none"
         /\ ~Live(p) =>
              /\ work'[p].conv = work[p].conv /\ work[p].stray \subseteq work'[p].stray
              /\ work'[p].transfer = work[p].transfer \/ "transfer" \in work'[p].stray
              /\ (work'[p].session => work[p].session) \/ "session" \in work'[p].stray
<1>1. work[p] \in Work /\ work[s] \in Work /\ work \in [Ids -> Work]
  BY IInvIs
<1> DEFINE tr == IF work[p].transfer # "none" THEN "none" ELSE work[s].transfer
           se == work[s].session /\ ~work[p].session
           sec == [work[s] EXCEPT !.transfer = tr, !.session = se]
           pt == IF tr # "none" THEN tr ELSE work[p].transfer
           ps == work[p].session \/ se
           ph == work[p].hist \/ work[s].hist \/ work[s].conv # "none"
           pn == IF work[p].note = None THEN work[s].note ELSE work[p].note
           to == [work[p] EXCEPT !.transfer = pt, !.session = ps, !.hist = ph, !.note = pn]
           moved == {k \in ContactRefTables : Has(s, k)}
           w == Filed(to, p, moved)
<1>2. sec \in Work /\ sec.transfer = tr /\ sec.conv = work[s].conv /\ sec.hist = work[s].hist /\ sec.note = work[s].note
  <2>1. tr \in {"none", "queue"} \cup Users /\ se \in BOOLEAN
    BY <1>1 DEF Work
  <2> HIDE DEF tr, se
  <2> QED  BY <1>1, <2>1 DEF Work
<1>3. sec.session <=> se
  BY <1>1 DEF Work
<1>4. EndDuplicateWork(work[p], work[s]) = sec
  BY <1>1 DEF EndDuplicateWork
<1>5. tr \in {"none", "queue"} \cup Users /\ pt \in {"none", "queue"} \cup Users /\ pn \in Owners
  BY <1>1 DEF Work
<1>6. to \in Work /\ to.stray = work[p].stray /\ to.conv = work[p].conv /\ to.transfer = pt
  <2> HIDE DEF pt, ps, ph, pn
  <2>1. ps \in BOOLEAN /\ ph \in BOOLEAN
    BY <1>1 DEF ps, ph, Work
  <2> QED  BY <1>1, <1>5, <2>1 DEF Work
<1>7. to.session <=> ps
  BY <1>1 DEF Work
<1>8. RepointContact(work[p], sec) = to
  <2> HIDE DEF sec, tr, se, pt
  <2>1. sec.transfer # "none" <=> tr # "none"
    BY <1>2
  <2>2. (work[p].session \/ sec.session) = ps
    BY <1>1, <1>3
  <2>3. (work[p].hist \/ sec.hist \/ sec.conv # "none") = ph
    BY <1>2
  <2>4. (IF work[p].note = None /\ "note" \in ContactRefTables THEN sec.note ELSE work[p].note) = pn
    BY <1>2 DEF ContactRefTables
  <2>5. (IF sec.transfer # "none" THEN sec.transfer ELSE work[p].transfer) = pt
    BY <1>2 DEF pt
  <2> HIDE DEF ps, ph, pn
  <2> QED  BY <2>2, <2>3, <2>4, <2>5 DEF RepointContact
<1>9. work' = [work EXCEPT ![p] = w, ![s] = NoWork]
  <2>1. work' = [work EXCEPT
       ![p] = Filed(RepointContact(work[p], EndDuplicateWork(work[p], work[s])), p, moved),
       ![s] = IF "note" \in ContactRefTables THEN NoWork ELSE [NoWork EXCEPT !.note = EndDuplicateWork(work[p], work[s]).note]]
    BY DEF Merge
  <2>2. "note" \in ContactRefTables
    BY DEF ContactRefTables
  <2> HIDE DEF to, sec, moved
  <2> QED  BY <1>4, <1>8, <2>1, <2>2
<1>10. moved \subseteq Kinds
  BY DEF ContactRefTables, Kinds
<1>11. (work[s].transfer # "none" => "transfer" \in moved) /\ (work[s].session => "session" \in moved)
  BY HasIs DEF ContactRefTables
<1>12. NoWork \in Work
  BY DEF NoWork, Work, Owners
<1> HIDE DEF moved, to
<1>13. w \in Work /\ w.transfer = pt
  BY <1>6, <1>10 DEF Filed, Work
<1>14. ~Live(p) => w.stray = work[p].stray \cup moved /\ w.conv = work[p].conv /\ (w.session => ps)
  BY <1>6, <1>7, <1>10 DEF Filed, Work
<1> HIDE DEF w
<1>15. work' \in [Ids -> Work] /\ work'[p] = w /\ work'[s] = NoWork /\ \A c \in Ids \ {p, s} : work'[c] = work[c]
  BY <1>1, <1>9, <1>12, <1>13
<1>16. ~Live(p) => /\ work'[p].conv = work[p].conv /\ work[p].stray \subseteq work'[p].stray
                   /\ work'[p].transfer = work[p].transfer \/ "transfer" \in work'[p].stray
                   /\ (work'[p].session => work[p].session) \/ "session" \in work'[p].stray
  BY <1>11, <1>13, <1>14, <1>15
<1>17. work[p].transfer # "none" \/ work[s].transfer # "none" => pt # "none"
  OBVIOUS
<1> QED  BY <1>13, <1>15, <1>16, <1>17

LEMMA MergeKeeps ==
  ASSUME ContactsIInv, NEW i \in Slots, Merge(i)
  PROVE  ContactsIInv'
<1>1. /\ jobs[i].k = "merge" /\ Ends(i) /\ UNCHANGED <<member, lost, ops>>
      /\ jobs' = [jobs EXCEPT ![i] = Idle]
  BY DEF Merge, Ends, Becomes
<1>2. PICK p \in Ids, s \in Ids : p = jobs[i].p /\ s = jobs[i].s
  BY <1>1, IInvIs, KindOfJob DEF MergeJob
<1>3. /\ p # s /\ contact[s].into = 0 /\ contact[p].st # "merged" /\ contact[s].st # "merged"
      /\ contact' \in [Ids -> Contact]
      /\ contact'[p].st = contact[p].st /\ contact'[p].into = contact[p].into
      /\ contact'[s].st = IF Live(s) THEN "merged" ELSE contact[s].st
      /\ contact'[s].into = IF Live(s) THEN p ELSE 0
      /\ \A c \in Ids \ {p, s} : contact'[c] = contact[c]
  BY <1>2, MergeIs
<1>4. /\ work' \in [Ids -> Work] /\ work'[s] = NoWork
      /\ \A c \in Ids \ {p, s} : work'[c] = work[c]
      /\ ~Live(p) =>
              /\ work'[p].conv = work[p].conv /\ work[p].stray \subseteq work'[p].stray
              /\ work'[p].transfer = work[p].transfer \/ "transfer" \in work'[p].stray
              /\ (work'[p].session => work[p].session) \/ "session" \in work'[p].stray
  BY <1>2, <1>3, MergeWork
<1>5. pair' \in [Pairs -> PairMarks]
  BY IInvIs DEF Merge, PairMarks
<1>6. jobs' \in [Slots -> Job] /\ jobs'[i] = Idle /\ jobs'[i].k = "idle" /\ \A j \in Slots : j # i => jobs'[j] = jobs[j]
  BY <1>1, JobEnds DEF Idle
<1>7. ContactTypes'
  BY <1>1, <1>3, <1>4, <1>5, <1>6, IInvIs DEF ContactTypes
<1>8. RestoresSane'
  BY <1>6 DEF ContactsIInv, RestoresSane
<1>9. MergesSane'
  <2> SUFFICES ASSUME NEW j \in Slots, jobs'[j].k = "merge"
               PROVE  /\ jobs'[j].p # jobs'[j].s /\ contact'[jobs'[j].s].into = 0
                      /\ contact'[jobs'[j].p].st # "merged" /\ contact'[jobs'[j].s].st # "merged"
    BY DEF MergesSane, MergeSane
  <2>1. j # i /\ jobs'[j] = jobs[j] /\ jobs[j].k = "merge"
    BY <1>6
  <2>2. {p, s} \cap {jobs[j].p, jobs[j].s} = {}
    BY <1>1, <1>2, <2>1 DEF ContactsIInv, MergeInv, LocksHold
  <2>3. jobs[j].p \in Ids /\ jobs[j].s \in Ids
    BY <2>1, IInvIs, KindOfJob DEF MergeJob
  <2>4. contact'[jobs[j].p] = contact[jobs[j].p] /\ contact'[jobs[j].s] = contact[jobs[j].s]
    BY <1>3, <2>2, <2>3
  <2> QED  BY <2>1, <2>4 DEF ContactsIInv, MergeInv, MergesSane, MergeSane
<1>10. LocksHold'
  BY <1>6 DEF ContactsIInv, MergeInv, LocksHold
<1>11. MergesEnd'
  <2>1. \A c \in Ids : (contact[c].st = "merged" => contact[c].into # 0) /\ contact[c].into # c
    BY DEF ContactsIInv, MergeInv, MergesEnd
  <2>2. ASSUME NEW c \in Ids
        PROVE (contact'[c].st = "merged" => contact'[c].into # 0) /\ contact'[c].into # c
    <3>1. CASE c = s
      BY <1>3, <3>1, Bounds
    <3>2. CASE c # s
      BY <1>3, <2>1, <3>2
    <3> QED  BY <3>1, <3>2
  <2>3. ASSUME NEW S \in SUBSET {c \in Ids : contact'[c].st = "merged"}, S # {}
        PROVE  \E c \in S : contact'[c].into \notin S
    <3>1. p \notin S
      BY <1>3
    <3>2. CASE s \in S
      <4>1. contact'[s].into = p
        BY <1>3, <3>2
      <4> QED  BY <3>1, <3>2, <4>1
    <3>3. CASE s \notin S
      <4>1. S \subseteq Ids \ {p, s} /\ S \in SUBSET {c \in Ids : contact[c].st = "merged"}
        BY <1>3, <3>1, <3>3
      <4>2. PICK c \in S : contact[c].into \notin S
        BY <2>3, <4>1 DEF ContactsIInv, MergeInv, MergesEnd
      <4>3. contact'[c] = contact[c]
        BY <1>3, <4>1
      <4> QED  BY <4>2, <4>3
    <3> QED  BY <3>2, <3>3
  <2> QED  BY <2>2, <2>3 DEF MergesEnd
<1>12. ASSUME NEW c \in Ids  PROVE Followed(c)'
  <2>1. Ending(c) => Ending(c)'
    BY <1>1, IInvIs, EndingStays
  <2>2. Followed(c)
    BY IInvIs
  <2>3. CASE c = p
    <3>1. contact'[c].st = contact[c].st /\ contact[c].st # "merged"
      BY <1>3, <2>3
    <3>2. CASE Live(p)
      BY <2>3, <3>1, <3>2, FollowedIs DEF Live
    <3>3. CASE ~Live(p)
      <4>1. /\ work'[c].conv = work[c].conv /\ work[c].stray \subseteq work'[c].stray
            /\ work'[c].transfer = work[c].transfer \/ "transfer" \in work'[c].stray
            /\ (work'[c].session => work[c].session) \/ "session" \in work'[c].stray
        BY <1>4, <2>3, <3>3
      <4> QED  BY <2>1, <2>2, <3>1, <4>1, FollowedIs, FollowedNow
    <3> QED  BY <3>2, <3>3
  <2>4. CASE c = s
    <3>1. work'[c].conv = "none" /\ work'[c].transfer = "none" /\ ~work'[c].session /\ ~work'[c].hist /\ work'[c].note = None
      BY <1>4, <2>4 DEF NoWork
    <3> QED  BY <3>1, FollowedIs
  <2>5. CASE c # p /\ c # s
    BY <1>3, <1>4, <2>1, <2>2, <2>5, FollowedStays
  <2> QED  BY <2>3, <2>4, <2>5
<1> QED  BY <1>7, <1>8, <1>9, <1>10, <1>11, <1>12 DEF ContactsIInv, MergeInv

-----------------------------------------------------------------------------
(* Labels: the inductive invariant                                            *)

FieldType == [st: {"live", "archived", "gone"}, opts: SUBSET Words, dropped: SUBSET Words,
              forced: SUBSET Words, odd: BOOLEAN]

LabelTypes ==
  /\ tagdef \subseteq Words /\ field \in FieldType
  /\ holder \in [Holders -> Holder] /\ edits \in [Slots -> Edit]

(* A segment that is gone asks for nothing; one that was written by no edit   *)
(* that met another names a segment that stands, and no ring of such holders  *)
(* names only itself.                                                         *)
GoneEmpty ==
  \A h \in Holders : holder[h].at = "gone" => holder[h].tag = None /\ holder[h].opt = None /\ holder[h].seg = 0
NamesStand ==
  \A h \in Holders : ~holder[h].odd /\ holder[h].seg # 0 => holder[holder[h].seg].at = "live"
NoRing ==
  \A S \in SUBSET Holders : S # {} => \E h \in S : holder[h].odd \/ holder[h].seg \notin S

HoldersInv == GoneEmpty /\ NamesStand /\ NoRing /\ holder[Rule].at = "live"

(* What an edit under way still knows, while no other edit has met it.        *)
SaveFresh(e) == CheckReferences(e.s, e.filter.seg) /\ e.filter.opt \in field.opts \cup {None}
UnsaveFresh(e) == Dependents(e.s) = {} /\ AutomationDependents(e.s) = {}
FieldFresh(e) ==
  /\ field.st # "gone" /\ e.was = field.opts
  /\ e.from # None => e.from \in e.was /\ e.to \in e.opts
  /\ ~e.force => ~OptionsStillInUse((e.was \ e.opts) \ {e.from})

(* A rename: before it, nothing bears the new word; between its two writes,   *)
(* the filters as they will be admit whom they admitted; then they do.        *)
Renamed(w, from, to) == IF w = from THEN to ELSE w
AudienceRenamed(s, from, to) ==
  {c \in Ids : Live(c) /\ \A n \in 0..(MaxNesting - 1) :
     After[n][s] # 0 => /\ TagRule(c, Renamed(holder[After[n][s]].tag, from, to))
                        /\ OptionRule(c, holder[After[n][s]].opt)}
RenameFresh(e) ==
  /\ e.from # e.to
  /\ e.step \in {1, 2} => \A s \in Segments : holder[s].opt # e.from
  /\ e.step = 1 => /\ \A h \in Holders : holder[h].tag # e.to
                   /\ \A c \in Ids : e.to \notin contact[c].tags
  /\ e.step \in {1, 3, 4} => \A s \in Segments : Audience(s) = e.before[s]
  /\ e.step = 2 => \A s \in Segments : AudienceRenamed(s, e.from, e.to) = e.before[s]

Fresh(e) ==
  /\ e.k = "save" => e.raced \/ SaveFresh(e)
  /\ e.k = "unsave" => e.raced \/ UnsaveFresh(e)
  /\ e.k = "field" => e.raced \/ FieldFresh(e)
  /\ e.k = "value" => e.raced \/ e.w \in field.opts
  /\ e.k = "rename" => ~e.clean \/ RenameFresh(e)

LabelsIInv ==
  /\ LabelTypes /\ HoldersInv /\ ValuesOffered /\ FiltersMatch
  /\ \A i \in Slots : Fresh(edits[i])

-----------------------------------------------------------------------------
(* Following references                                                       *)

LEMMA HolderSets ==
  /\ Holders \subseteq Nat /\ Segments \subseteq Holders /\ 0 \notin Holders
  /\ Rule \in Holders /\ Rule \notin Segments /\ Holders = Segments \cup {Rule}
  /\ MaxNesting \in Nat /\ MaxNesting - 1 \in 0..MaxNesting
BY LabelsAssumption DEF Holders, Segments, Rule

(* The chain of references is well defined, for any holders. *)
Hop(n, prev, hold) ==
  [s \in Holders |-> IF n = 0 THEN s ELSE LET t == prev[s] IN IF t = 0 THEN 0 ELSE hold[t].seg]
IsChain(f, hold, k) == f = [n \in 0..k |-> Hop(n, f[n - 1], hold)]

LEMMA ChainExists ==
  ASSUME NEW hold, NEW k \in Nat
  PROVE  \E f : IsChain(f, hold, k)
<1> DEFINE Bad == {m \in Nat : ~ \E f : IsChain(f, hold, m)}
<1>1. SUFFICES ASSUME Bad # {}  PROVE FALSE
  <2>1. k \notin Bad
    BY <1>1
  <2> QED  BY <2>1
<1>2. PICK m \in Bad : \A x \in Bad : m <= x
  <2>1. Bad \subseteq Nat
    OBVIOUS
  <2> HIDE DEF Bad
  <2> QED  BY <1>1, <2>1, LeastOfAll
<1>3. m \in Nat /\ ~ \E f : IsChain(f, hold, m)
  BY <1>2
<1>4. CASE m = 0
  <2> DEFINE g == [n \in 0..0 |-> Hop(0, 0, hold)]
  <2>1. \A prev : Hop(0, prev, hold) = Hop(0, 0, hold)
    BY DEF Hop
  <2>2. [n \in 0..0 |-> Hop(n, g[n - 1], hold)] = g
    BY <2>1
  <2>3. IsChain(g, hold, 0)
    BY <2>2 DEF IsChain
  <2> QED  BY <1>3, <1>4, <2>3
<1>5. CASE m # 0
  <2>1. m - 1 \in Nat /\ m - 1 \notin Bad
    BY <1>2, <1>3, <1>5
  <2>2. PICK f : IsChain(f, hold, m - 1)
    BY <2>1
  <2> DEFINE g == [n \in 0..m |-> IF n = m THEN Hop(m, f[m - 1], hold) ELSE f[n]]
  <2>3. \A n \in 0..(m - 1) : f[n] = Hop(n, f[n - 1], hold)
    BY <2>2 DEF IsChain
  <2>4. \A x, y : Hop(0, x, hold) = Hop(0, y, hold)
    BY DEF Hop
  <2>5. ASSUME NEW n \in 0..m  PROVE g[n] = Hop(n, g[n - 1], hold)
    <3>1. CASE n = m
      <4>1. n - 1 \in 0..m /\ n - 1 # m
        BY <1>3, <1>5, <3>1
      <4>2. g[n - 1] = f[m - 1] /\ g[n] = Hop(m, f[m - 1], hold)
        BY <3>1, <4>1
      <4> QED  BY <3>1, <4>2
    <3>2. CASE n # m /\ n # 0
      <4>1. n \in 0..(m - 1) /\ g[n] = f[n] /\ g[n - 1] = f[n - 1]
        BY <1>3, <3>2
      <4> QED  BY <2>3, <4>1
    <3>3. CASE n # m /\ n = 0
      <4>1. n \in 0..(m - 1) /\ g[n] = f[n]
        BY <1>3, <3>3
      <4> HIDE DEF g
      <4> QED  BY <2>3, <2>4, <3>3, <4>1
    <3> QED  BY <3>1, <3>2, <3>3
  <2>6. g = [n \in 0..m |-> g[n]]
    OBVIOUS
  <2> HIDE DEF g
  <2>7. [n \in 0..m |-> g[n]] = [n \in 0..m |-> Hop(n, g[n - 1], hold)]
    BY <2>5
  <2>8. IsChain(g, hold, m)
    BY <2>6, <2>7 DEF IsChain
  <2> QED  BY <1>3, <2>8
<1> QED  BY <1>4, <1>5

LEMMA AfterIs == IsChain(After, holder, MaxNesting)
<1>1. \E f : IsChain(f, holder, MaxNesting)
  BY ChainExists, HolderSets
<1>2. After = CHOOSE f : IsChain(f, holder, MaxNesting)
  BY DEF After, IsChain, Hop
<1> QED  BY <1>1, <1>2

LEMMA AfterIsNext == IsChain(After', holder', MaxNesting)
<1>1. \E f : IsChain(f, holder', MaxNesting)
  BY ChainExists, HolderSets
<1>2. After' = CHOOSE f : IsChain(f, holder', MaxNesting)
  BY DEF After, IsChain, Hop
<1> QED  BY <1>1, <1>2

LEMMA CountUp ==
  ASSUME NEW k \in Nat, NEW S, 0 \in S, \A n \in 0..k : n < k /\ n \in S => n + 1 \in S
  PROVE  \A n \in 0..k : n \in S
<1> DEFINE Bad == {n \in 0..k : n \notin S}
<1>1. SUFFICES ASSUME Bad # {}  PROVE FALSE
  OBVIOUS
<1>2. PICK m \in Bad : \A x \in Bad : m <= x
  <2>1. Bad \subseteq Nat
    OBVIOUS
  <2> HIDE DEF Bad
  <2> QED  BY <1>1, <2>1, LeastOfAll
<1>3. m \in 0..k /\ m \notin S /\ m # 0
  BY <1>2
<1>4. m - 1 \in 0..k /\ m - 1 < k /\ m - 1 \notin Bad /\ m - 1 + 1 = m
  BY <1>2, <1>3
<1> QED  BY <1>3, <1>4

LEMMA Chain ==
  ASSUME NEW hold \in [Holders -> Holder], NEW f, IsChain(f, hold, MaxNesting), NEW s \in Holders
  PROVE  /\ f[0][s] = s
         /\ \A n \in 0..MaxNesting : f[n][s] \in Holders \cup {0}
         /\ \A n \in 0..MaxNesting : n # 0 => f[n][s] \in Segments \cup {0}
         /\ \A n \in 0..MaxNesting : n # 0 => f[n][s] = IF f[n - 1][s] = 0 THEN 0 ELSE hold[f[n - 1][s]].seg
<1>1. 0 \in 0..MaxNesting
  BY HolderSets
<1>2. \A n \in 0..MaxNesting : f[n] = Hop(n, f[n - 1], hold)
  BY DEF IsChain
<1>3. f[0][s] = s
  BY <1>1, <1>2 DEF Hop
<1>4. ASSUME NEW n \in 0..MaxNesting, n # 0
      PROVE  f[n][s] = IF f[n - 1][s] = 0 THEN 0 ELSE hold[f[n - 1][s]].seg
  <2>1. f[n] = Hop(n, f[n - 1], hold)
    BY <1>2
  <2>2. \A prev : Hop(n, prev, hold)[s] = IF prev[s] = 0 THEN 0 ELSE hold[prev[s]].seg
    BY <1>4 DEF Hop
  <2> QED  BY <2>1, <2>2
<1> DEFINE Good == {n \in 0..MaxNesting : f[n][s] \in Holders \cup {0}}
<1>5. 0 \in Good
  BY <1>1, <1>3
<1>6. ASSUME NEW n \in 0..MaxNesting, n < MaxNesting, n \in Good
      PROVE  n + 1 \in Good /\ f[n + 1][s] \in Segments \cup {0}
  <2>1. n + 1 \in 0..MaxNesting /\ n + 1 # 0 /\ (n + 1) - 1 = n
    BY <1>6, HolderSets
  <2>2. f[n + 1][s] = IF f[n][s] = 0 THEN 0 ELSE hold[f[n][s]].seg
    BY <1>4, <2>1
  <2>3. f[n][s] # 0 => hold[f[n][s]].seg \in Segments \cup {0}
    BY <1>6 DEF Holder
  <2> QED  BY <2>1, <2>2, <2>3, HolderSets
<1>7. \A n \in 0..MaxNesting : n \in Good
  <2> HIDE DEF Good
  <2> QED  BY <1>5, <1>6, HolderSets, CountUp
<1>8. ASSUME NEW n \in 0..MaxNesting, n # 0
      PROVE  f[n][s] \in Segments \cup {0}
  <2>1. n - 1 \in 0..MaxNesting /\ n - 1 < MaxNesting /\ (n - 1) + 1 = n
    BY <1>8, HolderSets
  <2> QED  BY <1>6, <1>7, <2>1
<1> QED  BY <1>3, <1>4, <1>7, <1>8

(* Nothing comes after the end of a chain. *)
LEMMA ChainBack ==
  ASSUME NEW hold \in [Holders -> Holder], NEW f, IsChain(f, hold, MaxNesting), NEW s \in Holders,
         NEW n \in 0..MaxNesting, f[n][s] # 0
  PROVE  \A m \in 0..n : f[m][s] # 0
<1> DEFINE Good == {m \in 0..n : f[n - m][s] # 0}
<1>1. n \in Nat /\ 0 \in Good
  BY HolderSets
<1>2. ASSUME NEW m \in 0..n, m < n, m \in Good
      PROVE  m + 1 \in Good
  <2>1. n - m \in 0..MaxNesting /\ n - m # 0 /\ (n - m) - 1 = n - (m + 1) /\ m + 1 \in 0..n
    BY <1>2, HolderSets
  <2>2. f[n - m][s] = IF f[(n - m) - 1][s] = 0 THEN 0 ELSE hold[f[(n - m) - 1][s]].seg
    BY <2>1, Chain
  <2> QED  BY <1>2, <2>1, <2>2
<1>3. \A m \in 0..n : m \in Good
  <2> HIDE DEF Good
  <2> QED  BY <1>1, <1>2, CountUp
<1>4. ASSUME NEW m \in 0..n  PROVE f[m][s] # 0
  <2>1. n - m \in 0..n /\ n - (n - m) = m
    BY <1>1
  <2> QED  BY <1>3, <2>1
<1> QED  BY <1>4

(* Holders that name the same segments have the same chains. *)
LEMMA ChainSame ==
  ASSUME NEW hold \in [Holders -> Holder], NEW f, IsChain(f, hold, MaxNesting),
         NEW held \in [Holders -> Holder], NEW g, IsChain(g, held, MaxNesting),
         \A h \in Holders : held[h].seg = hold[h].seg
  PROVE  \A n \in 0..MaxNesting, s \in Holders : g[n][s] = f[n][s]
<1> SUFFICES ASSUME NEW s \in Holders  PROVE \A n \in 0..MaxNesting : g[n][s] = f[n][s]
  OBVIOUS
<1> DEFINE Good == {n \in 0..MaxNesting : g[n][s] = f[n][s]}
<1>1. 0 \in Good
  <2>1. f[0][s] = s /\ g[0][s] = s
    BY Chain
  <2> QED  BY <2>1, HolderSets
<1>2. ASSUME NEW n \in 0..MaxNesting, n < MaxNesting, n \in Good
      PROVE  n + 1 \in Good
  <2>1. n + 1 \in 0..MaxNesting /\ n + 1 # 0 /\ (n + 1) - 1 = n
    BY <1>2, HolderSets
  <2>2. f[n + 1][s] = IF f[n][s] = 0 THEN 0 ELSE hold[f[n][s]].seg
    BY <2>1, Chain
  <2>3. g[n + 1][s] = IF g[n][s] = 0 THEN 0 ELSE held[g[n][s]].seg
    BY <2>1, Chain
  <2>4. f[n][s] \in Holders \cup {0}
    BY Chain
  <2> QED  BY <1>2, <2>1, <2>2, <2>3, <2>4
<1>3. \A n \in 0..MaxNesting : n \in Good
  <2> HIDE DEF Good
  <2> QED  BY <1>1, <1>2, HolderSets, CountUp
<1> QED  BY <1>3

(* A chain of holders no two edits met at neither ends at a segment that is   *)
(* gone nor comes back to where it began.                                     *)
LEMMA SegmentsDoStand ==
  ASSUME LabelTypes, HoldersInv
  PROVE  SegmentsStand
<1>1. holder \in [Holders -> Holder] /\ IsChain(After, holder, MaxNesting)
  BY AfterIs DEF LabelTypes
<1> SUFFICES ASSUME NEW h \in Holders, \A n \in 0..MaxNesting : After[n][h] # 0 => ~holder[After[n][h]].odd,
                    NEW n \in 1..MaxNesting, After[n][h] # 0
             PROVE  holder[After[n][h]].at = "live" /\ After[n][h] # h
  BY DEF SegmentsStand
<1>2. n \in 0..MaxNesting /\ n # 0 /\ n - 1 \in 0..n /\ 0..n \subseteq 0..MaxNesting /\ n \in Nat
  BY HolderSets
<1>3. \A m \in 0..n : After[m][h] # 0 /\ After[m][h] \in Holders /\ ~holder[After[m][h]].odd
  <2>1. \A m \in 0..n : After[m][h] # 0
    BY <1>1, <1>2, ChainBack
  <2>2. \A m \in 0..n : After[m][h] \in Holders \cup {0}
    BY <1>1, <1>2, Chain
  <2> QED  BY <1>2, <2>1, <2>2
<1>4. \A m \in 0..n : m # 0 => After[m][h] = holder[After[m - 1][h]].seg
  <2> SUFFICES ASSUME NEW m \in 0..n, m # 0  PROVE After[m][h] = holder[After[m - 1][h]].seg
    OBVIOUS
  <2>1. m \in 0..MaxNesting /\ m - 1 \in 0..n
    BY <1>2
  <2>2. After[m][h] = IF After[m - 1][h] = 0 THEN 0 ELSE holder[After[m - 1][h]].seg
    BY <1>1, <2>1, Chain
  <2> QED  BY <1>3, <2>1, <2>2
<1>5. holder[After[n][h]].at = "live"
  BY <1>2, <1>3, <1>4 DEF HoldersInv, NamesStand
<1>6. ASSUME After[n][h] = h  PROVE FALSE
  <2> DEFINE S == {After[m][h] : m \in 0..(n - 1)}
  <2>1. S \in SUBSET Holders /\ S # {} /\ h \in S
    <3>1. 0 \in 0..(n - 1) /\ After[0][h] = h
      BY <1>1, <1>2, Chain
    <3>2. 0..(n - 1) \subseteq 0..n
      BY <1>2
    <3> QED  BY <1>3, <3>1, <3>2
  <2>2. \A x \in S : ~holder[x].odd /\ holder[x].seg \in S
    <3> SUFFICES ASSUME NEW m \in 0..(n - 1)  PROVE ~holder[After[m][h]].odd /\ holder[After[m][h]].seg \in S
      OBVIOUS
    <3>1. m \in 0..n /\ m + 1 \in 0..n /\ m + 1 # 0 /\ (m + 1) - 1 = m
      BY <1>2
    <3>2. holder[After[m][h]].seg = After[m + 1][h]
      BY <1>4, <3>1
    <3>3. CASE m + 1 = n
      BY <1>3, <1>6, <2>1, <3>1, <3>2, <3>3
    <3>4. CASE m + 1 # n
      <4>1. m + 1 \in 0..(n - 1)
        BY <1>2, <3>4
      <4> QED  BY <1>3, <3>1, <3>2, <4>1
    <3> QED  BY <3>3, <3>4
  <2> HIDE DEF S
  <2> QED  BY <2>1, <2>2 DEF HoldersInv, NoRing
<1> QED  BY <1>5, <1>6

-----------------------------------------------------------------------------
(* Edits                                                                      *)

RenameEdit == [k: {"rename"}, from: Words, to: Words, step: 1..4, clean: BOOLEAN,
               before: [Segments -> SUBSET Ids]]
Filter == [tag: Words \cup {None}, opt: Words \cup {None}, seg: Segments \cup {0}]
SaveEdit == [k: {"save"}, s: Segments, filter: Filter, raced: BOOLEAN]
UnsaveEdit == [k: {"unsave"}, s: Segments, raced: BOOLEAN]
FieldEdit == [k: {"field"}, was: SUBSET Words, opts: SUBSET Words, from: Words \cup {None},
              to: Words \cup {None}, st: {"live", "archived"}, force: BOOLEAN, raced: BOOLEAN]
TagEdit == [k: {"tag"}, c: Ids, read: SUBSET Words, w: Words]
ValueEdit == [k: {"value"}, c: Ids, w: Words, raced: BOOLEAN]

LEMMA EditIs == Edit = {Idle} \cup RenameEdit \cup SaveEdit \cup UnsaveEdit \cup FieldEdit \cup TagEdit \cup ValueEdit
BY DEF Edit, RenameEdit, SaveEdit, UnsaveEdit, FieldEdit, TagEdit, ValueEdit, Filter

LEMMA KindOfEdit ==
  ASSUME NEW e \in Edit
  PROVE  /\ e.k = "rename" => e \in RenameEdit
         /\ e.k = "save" => e \in SaveEdit
         /\ e.k = "unsave" => e \in UnsaveEdit
         /\ e.k = "field" => e \in FieldEdit
         /\ e.k = "tag" => e \in TagEdit
         /\ e.k = "value" => e \in ValueEdit
         /\ e.k \in {"idle", "rename", "save", "unsave", "field", "tag", "value"}
         /\ Idle.k = "idle" /\ Idle \in Edit
<1>1. /\ Idle.k = "idle" /\ \A x \in RenameEdit : x.k = "rename"
      /\ \A x \in SaveEdit : x.k = "save"
      /\ \A x \in UnsaveEdit : x.k = "unsave"
      /\ \A x \in FieldEdit : x.k = "field"
      /\ \A x \in TagEdit : x.k = "tag"
      /\ \A x \in ValueEdit : x.k = "value"
  BY DEF Idle, RenameEdit, SaveEdit, UnsaveEdit, FieldEdit, TagEdit, ValueEdit
<1> QED  BY <1>1, EditIs

LEMMA EditBegins ==
  ASSUME NEW e, Begins(e)
  PROVE  \E i \in Slots : edits[i] = Idle /\ edits' = [edits EXCEPT ![i] = e]
<1> DEFINE free == {i \in Slots : edits[i] = Idle}
           busy == {i \in Slots : jobs[i] # Idle}
           i0 == CHOOSE i \in free : \A j \in free : i <= j
<1>1. Cardinality(free) > Cardinality(busy) /\ edits' = [edits EXCEPT ![i0] = e]
  BY DEF Begins
<1>2. free # {}
  <2>1. IsFiniteSet(Slots)
    BY ContactsAssumption, FS_Interval DEF Slots
  <2>2. Cardinality(busy) \in Nat
    BY <2>1, FS_Subset, FS_CardinalityType
  <2> HIDE DEF free, busy
  <2> QED  BY <1>1, <2>2, FS_EmptySet
<1>3. \E i \in free : \A j \in free : i <= j
  BY <1>2, Bounds, LeastOfAll
<1>4. i0 \in free
  BY <1>3
<1> QED  BY <1>1, <1>4

(* The other edits under way have been met. *)
LEMMA RacedIs ==
  ASSUME edits \in [Slots -> Edit], NEW S
  PROVE  /\ Raced(S) \in [Slots -> Edit]
         /\ \A i \in Slots : i \in S => Raced(S)[i] = Idle
         /\ \A i \in Slots : Raced(S)[i].k = "rename" => ~Raced(S)[i].clean
         /\ \A i \in Slots : Raced(S)[i].k \in {"save", "unsave", "field", "value"} => Raced(S)[i].raced
<1> SUFFICES ASSUME NEW i \in Slots
             PROVE  /\ Raced(S)[i] \in Edit
                    /\ i \in S => Raced(S)[i] = Idle
                    /\ Raced(S)[i].k = "rename" => ~Raced(S)[i].clean
                    /\ Raced(S)[i].k \in {"save", "unsave", "field", "value"} => Raced(S)[i].raced
  <2>1. Raced(S) = [j \in Slots |-> Raced(S)[j]]
    BY DEF Raced
  <2> QED  BY <2>1
<1> DEFINE e == edits[i]
<1>1. e \in Edit
  OBVIOUS
<1>2. Raced(S)[i] = IF i \in S THEN Idle
                   ELSE IF e.k = "rename" THEN [e EXCEPT !.clean = FALSE]
                   ELSE IF e.k \in {"save", "unsave", "field", "value"} THEN [e EXCEPT !.raced = TRUE]
                   ELSE e
  BY DEF Raced
<1> HIDE DEF e
<1>3. CASE i \in S
  BY <1>1, <1>2, <1>3, KindOfEdit
<1>4. CASE i \notin S /\ e.k = "rename"
  <2>1. e \in RenameEdit /\ Raced(S)[i] = [e EXCEPT !.clean = FALSE]
    BY <1>1, <1>2, <1>4, KindOfEdit
  <2>2. [e EXCEPT !.clean = FALSE] \in RenameEdit /\ [e EXCEPT !.clean = FALSE].k = "rename" /\ ~[e EXCEPT !.clean = FALSE].clean
    BY <2>1 DEF RenameEdit
  <2> QED  BY <1>4, <2>1, <2>2, EditIs
<1>5. CASE i \notin S /\ e.k \in {"save", "unsave", "field", "value"}
  <2> DEFINE r == [e EXCEPT !.raced = TRUE]
  <2>1. Raced(S)[i] = r
    BY <1>2, <1>5
  <2>2. CASE e.k = "save"
    <3>1. e \in SaveEdit
      BY <1>1, <2>2, KindOfEdit
    <3>2. r \in SaveEdit /\ r.k = "save" /\ r.raced
      BY <3>1 DEF SaveEdit
    <3> HIDE DEF r
    <3> QED  BY <1>5, <2>1, <3>2, EditIs
  <2>3. CASE e.k = "unsave"
    <3>1. e \in UnsaveEdit
      BY <1>1, <2>3, KindOfEdit
    <3>2. r \in UnsaveEdit /\ r.k = "unsave" /\ r.raced
      BY <3>1 DEF UnsaveEdit
    <3> HIDE DEF r
    <3> QED  BY <1>5, <2>1, <3>2, EditIs
  <2>4. CASE e.k = "field"
    <3>1. e \in FieldEdit
      BY <1>1, <2>4, KindOfEdit
    <3>2. r \in FieldEdit /\ r.k = "field" /\ r.raced
      BY <3>1 DEF FieldEdit
    <3> HIDE DEF r
    <3> QED  BY <1>5, <2>1, <3>2, EditIs
  <2>5. CASE e.k = "value"
    <3>1. e \in ValueEdit
      BY <1>1, <2>5, KindOfEdit
    <3>2. r \in ValueEdit /\ r.k = "value" /\ r.raced
      BY <3>1 DEF ValueEdit
    <3> HIDE DEF r
    <3> QED  BY <1>5, <2>1, <3>2, EditIs
  <2> QED  BY <1>5, <2>2, <2>3, <2>4, <2>5
<1>6. CASE i \notin S /\ e.k \notin {"rename", "save", "unsave", "field", "value"}
  <2>1. Raced(S)[i] = e
    BY <1>2, <1>6
  <2> QED  BY <1>1, <1>6, <2>1
<1> QED  BY <1>3, <1>4, <1>5, <1>6

LEMMA RacedFresh ==
  ASSUME edits \in [Slots -> Edit], NEW S, edits' = Raced(S)
  PROVE  edits' \in [Slots -> Edit] /\ \A i \in Slots : Fresh(edits[i])'
<1>1. /\ edits' \in [Slots -> Edit]
      /\ \A i \in Slots : edits'[i].k = "rename" => ~edits'[i].clean
      /\ \A i \in Slots : edits'[i].k \in {"save", "unsave", "field", "value"} => edits'[i].raced
  BY RacedIs
<1> QED  BY <1>1 DEF Fresh

(* What an edit knows does not change while nothing is written. *)
LEMMA FreshStays ==
  ASSUME UNCHANGED <<contact, holder, field>>, NEW e, Fresh(e)
  PROVE  Fresh(e)'
<1>1. After' = After
  <2>1. After = CHOOSE f : IsChain(f, holder, MaxNesting)
    BY DEF After, IsChain, Hop
  <2>2. After' = CHOOSE f : IsChain(f, holder', MaxNesting)
    BY DEF After, IsChain, Hop
  <2> QED  BY <2>1, <2>2
<1>2. SaveFresh(e) => SaveFresh(e)'
  BY <1>1 DEF SaveFresh, CheckReferences
<1>3. UnsaveFresh(e) => UnsaveFresh(e)'
  BY DEF UnsaveFresh, Dependents, AutomationDependents
<1>4. FieldFresh(e) => FieldFresh(e)'
  BY DEF FieldFresh, OptionsStillInUse, FindDependents
<1>5. RenameFresh(e) => RenameFresh(e)'
  <2>1. \A s : Audience(s)' = Audience(s)
    BY <1>1 DEF Audience, Live, TagRule, OptionRule
  <2>2. \A s, a, b : AudienceRenamed(s, a, b)' = AudienceRenamed(s, a, b)
    BY <1>1 DEF AudienceRenamed, Live, TagRule, OptionRule, Renamed
  <2> QED  BY <2>1, <2>2 DEF RenameFresh
<1> QED  BY <1>2, <1>3, <1>4, <1>5 DEF Fresh

(* A step that writes no configuration and no contact. *)
LEMMA QuietKeeps ==
  ASSUME LabelsIInv, UNCHANGED <<contact, holder, field>>, tagdef' \subseteq Words,
         \/ edits' = edits
         \/ \E e \in Edit : Begins(e) /\ Fresh(e)
  PROVE  LabelsIInv'
<1>1. /\ LabelTypes /\ HoldersInv /\ ValuesOffered /\ FiltersMatch
      /\ edits \in [Slots -> Edit] /\ \A i \in Slots : Fresh(edits[i])
  BY DEF LabelsIInv, LabelTypes
<1>2. HoldersInv'
  BY <1>1 DEF HoldersInv, GoneEmpty, NamesStand, NoRing
<1>3. ValuesOffered' /\ FiltersMatch'
  BY <1>1 DEF ValuesOffered, FiltersMatch
<1>4. edits' \in [Slots -> Edit] /\ \A i \in Slots : Fresh(edits[i])'
  <2>1. CASE edits' = edits
    <3>1. ASSUME NEW i \in Slots  PROVE Fresh(edits[i])'
      <4>1. PICK e : e = edits[i]
        OBVIOUS
      <4>2. Fresh(e)'
        BY <1>1, <4>1, FreshStays
      <4>3. e = edits'[i]
        BY <2>1, <4>1
      <4> QED  BY <4>2, <4>3
    <3> QED  BY <1>1, <2>1, <3>1
  <2>2. CASE \E e \in Edit : Begins(e) /\ Fresh(e)
    <3>1. PICK d \in Edit : Begins(d) /\ Fresh(d)
      BY <2>2
    <3>2. PICK j \in Slots : edits[j] = Idle /\ edits' = [edits EXCEPT ![j] = d]
      BY <3>1, EditBegins
    <3>3. ASSUME NEW i \in Slots  PROVE Fresh(edits[i])'
      <4>1. PICK e : e = IF i = j THEN d ELSE edits[i]
        OBVIOUS
      <4>2. Fresh(e)'
        BY <1>1, <3>1, <4>1, FreshStays
      <4>3. e = edits'[i]
        BY <1>1, <3>2, <4>1
      <4> QED  BY <4>2, <4>3
    <3> QED  BY <1>1, <3>2, <3>3
  <2> QED  BY <2>1, <2>2
<1>5. LabelTypes'
  BY <1>1, <1>4 DEF LabelTypes
<1> QED  BY <1>2, <1>3, <1>4, <1>5 DEF LabelsIInv

-----------------------------------------------------------------------------
(* Edits that begin                                                           *)

LEMMA LabelsInvIs ==
  ASSUME LabelsIInv
  PROVE  /\ tagdef \subseteq Words /\ field \in FieldType /\ holder \in [Holders -> Holder]
         /\ edits \in [Slots -> Edit] /\ HoldersInv /\ ValuesOffered /\ FiltersMatch
         /\ \A i \in Slots : Fresh(edits[i])
BY DEF LabelsIInv, LabelTypes

LEMMA CreateTagLabels ==
  ASSUME LabelsIInv, NEW w \in Words, CreateTag(w)
  PROVE  LabelsIInv'
BY LabelsInvIs, QuietKeeps DEF CreateTag, NotContacts

LEMMA UpdateTagLabels ==
  ASSUME LabelsIInv, NEW from \in Words, NEW to \in Words, UpdateTag(from, to)
  PROVE  LabelsIInv'
<1> DEFINE clean == /\ FindDependents(to) = {} /\ \A c \in Ids : to \notin contact[c].tags
                    /\ \A s \in Segments : holder[s].opt # from
           before == [s \in Segments |-> Audience(s)]
           e == [k |-> "rename", from |-> from, to |-> to, step |-> 1, clean |-> clean, before |-> before]
<1>1. Begins(e) /\ UNCHANGED <<contact, tagdef, field, holder>> /\ from # to
  BY DEF UpdateTag, NotContacts
<1>2. clean => \A h \in Holders : holder[h].tag # to
  <2> SUFFICES ASSUME clean, NEW h \in Holders  PROVE holder[h].tag # to
    OBVIOUS
  <2>1. holder[h].at \in {"live", "gone"}
    BY LabelsInvIs DEF Holder
  <2>2. CASE holder[h].at = "live"
    BY <2>2 DEF FindDependents
  <2>3. CASE holder[h].at = "gone"
    BY <2>3, LabelsInvIs, ContactsAssumption DEF HoldersInv, GoneEmpty
  <2> QED  BY <2>1, <2>2, <2>3
<1>3. clean => (\A c \in Ids : to \notin contact[c].tags) /\ \A s \in Segments : holder[s].opt # from
  OBVIOUS
<1>4. clean \in BOOLEAN
  OBVIOUS
<1>5. before \in [Segments -> SUBSET Ids] /\ \A s \in Segments : Audience(s) = before[s]
  BY DEF Audience
<1> HIDE DEF clean, before
<1>6. e \in RenameEdit
  BY <1>4, <1>5 DEF RenameEdit
<1>7. /\ e.k = "rename" /\ e.from = from /\ e.to = to /\ e.step = 1 /\ e.before = before
      /\ e.clean = clean
  OBVIOUS
<1> HIDE DEF e
<1>8. clean => RenameFresh(e)
  BY <1>1, <1>2, <1>3, <1>5, <1>7 DEF RenameFresh
<1>9. Fresh(e)
  BY <1>7, <1>8 DEF Fresh
<1>10. e \in Edit
  BY <1>6, EditIs
<1> QED  BY <1>1, <1>9, <1>10, LabelsInvIs, QuietKeeps

LEMMA AddTagsLabels ==
  ASSUME LabelsIInv, contact \in [Ids -> Contact], NEW c \in Ids, NEW w \in Words, AddTags(c, w)
  PROVE  LabelsIInv'
<1> DEFINE e == [k |-> "tag", c |-> c, read |-> contact[c].tags, w |-> w]
<1>1. Begins(e) /\ UNCHANGED <<contact, tagdef, field, holder>>
  BY DEF AddTags, NotContacts
<1>2. contact[c].tags \subseteq Words
  BY DEF Contact
<1>3. e \in TagEdit
  BY <1>2 DEF TagEdit
<1>4. e.k = "tag"
  OBVIOUS
<1> HIDE DEF e
<1>5. Fresh(e) /\ e \in Edit
  BY <1>3, <1>4, EditIs DEF Fresh
<1> QED  BY <1>1, <1>5, LabelsInvIs, QuietKeeps

LEMMA FiltersTyped ==
  ASSUME LabelsIInv, NEW filter \in Filters
  PROVE  filter \in Filter /\ filter.opt \in field.opts \cup {None}
<1>1. field.opts \subseteq Words
  BY LabelsInvIs DEF FieldType
<1> QED  BY <1>1 DEF Filters, Filter, NoFilter

LEMMA SaveSegmentLabels ==
  ASSUME LabelsIInv, NEW s \in Segments, NEW filter \in Filters, SaveSegment(s, filter)
  PROVE  LabelsIInv'
<1> DEFINE e == [k |-> "save", s |-> s, filter |-> filter, raced |-> FALSE]
<1>1. Begins(e) /\ UNCHANGED <<contact, tagdef, field, holder>> /\ CheckReferences(s, filter.seg)
  BY DEF SaveSegment, NotContacts
<1>2. filter \in Filter /\ filter.opt \in field.opts \cup {None}
  BY FiltersTyped
<1>3. e \in SaveEdit
  BY <1>2 DEF SaveEdit
<1>4. e.k = "save" /\ e.s = s /\ e.filter = filter
  OBVIOUS
<1> HIDE DEF e
<1>5. Fresh(e) /\ e \in Edit
  BY <1>1, <1>2, <1>3, <1>4, EditIs DEF Fresh, SaveFresh
<1> QED  BY <1>1, <1>5, LabelsInvIs, QuietKeeps

LEMMA DeleteSegmentLabels ==
  ASSUME LabelsIInv, NEW s \in Segments, DeleteSegment(s)
  PROVE  LabelsIInv'
<1> DEFINE e == [k |-> "unsave", s |-> s, raced |-> FALSE]
<1>1. Begins(e) /\ UNCHANGED <<contact, tagdef, field, holder>> /\ Dependents(s) = {} /\ AutomationDependents(s) = {}
  BY DEF DeleteSegment, NotContacts
<1>2. e \in UnsaveEdit
  BY DEF UnsaveEdit
<1>3. e.k = "unsave" /\ e.s = s
  OBVIOUS
<1> HIDE DEF e
<1>4. Fresh(e) /\ e \in Edit
  BY <1>1, <1>2, <1>3, EditIs DEF Fresh, UnsaveFresh
<1> QED  BY <1>1, <1>4, LabelsInvIs, QuietKeeps

LEMMA UpdateFieldLabels ==
  ASSUME LabelsIInv, NEW opts \in SUBSET Words, NEW from \in Words \cup {None}, NEW to \in Words \cup {None},
         NEW force \in BOOLEAN, NEW st, field.st # "gone" => st \in {"live", "archived"},
         UpdateContactField(opts, from, to, force, st)
  PROVE  LabelsIInv'
<1> DEFINE e == [k |-> "field", was |-> field.opts, opts |-> opts, from |-> from, to |-> to, st |-> st,
                 force |-> force, raced |-> FALSE]
<1>1. /\ Begins(e) /\ UNCHANGED <<contact, tagdef, field, holder>> /\ field.st # "gone"
      /\ from # None => from \in field.opts /\ to \in opts
      /\ (field.opts \ opts) \ {from} # {} /\ ~force => ~OptionsStillInUse((field.opts \ opts) \ {from})
  BY DEF UpdateContactField, NotContacts
<1>2. field.opts \subseteq Words
  BY LabelsInvIs DEF FieldType
<1>3. e \in FieldEdit
  BY <1>1, <1>2 DEF FieldEdit
<1>4. e.k = "field" /\ e.was = field.opts /\ e.opts = opts /\ e.from = from /\ e.to = to /\ e.force = force
  OBVIOUS
<1> HIDE DEF e
<1>5. ~force => ~OptionsStillInUse((field.opts \ opts) \ {from})
  <2>1. (field.opts \ opts) \ {from} = {} => ~OptionsStillInUse((field.opts \ opts) \ {from})
    BY DEF OptionsStillInUse
  <2> QED  BY <1>1, <2>1
<1>6. FieldFresh(e)
  BY <1>1, <1>4, <1>5 DEF FieldFresh
<1>7. Fresh(e) /\ e \in Edit
  BY <1>3, <1>4, <1>6, EditIs DEF Fresh
<1> QED  BY <1>1, <1>7, LabelsInvIs, QuietKeeps

LEMMA SetValuesLabels ==
  ASSUME LabelsIInv, NEW c \in Ids, NEW w \in Words, SetValues(c, w)
  PROVE  LabelsIInv'
<1> DEFINE e == [k |-> "value", c |-> c, w |-> w, raced |-> FALSE]
<1>1. Begins(e) /\ UNCHANGED <<contact, tagdef, field, holder>> /\ w \in field.opts
  BY DEF SetValues, NotContacts, Coerce
<1>2. e \in ValueEdit
  BY DEF ValueEdit
<1>3. e.k = "value" /\ e.w = w
  OBVIOUS
<1> HIDE DEF e
<1>4. Fresh(e) /\ e \in Edit
  BY <1>1, <1>2, <1>3, EditIs DEF Fresh
<1> QED  BY <1>1, <1>4, LabelsInvIs, QuietKeeps

-----------------------------------------------------------------------------
(* Edits that write                                                           *)

LEMMA LoudKeeps ==
  ASSUME LabelsIInv, NEW S, edits' = Raced(S), tagdef' \subseteq Words, field' \in FieldType,
         holder' \in [Holders -> Holder], HoldersInv', ValuesOffered', FiltersMatch'
  PROVE  LabelsIInv'
<1>1. edits' \in [Slots -> Edit] /\ \A i \in Slots : Fresh(edits[i])'
  BY LabelsInvIs, RacedFresh
<1> QED  BY <1>1 DEF LabelsIInv, LabelTypes

(* Holders that go on naming what they name. *)
LEMMA HoldersStay ==
  ASSUME HoldersInv, holder \in [Holders -> Holder],
         \A h \in Holders : /\ holder'[h].seg = holder[h].seg /\ holder'[h].at = holder[h].at
                            /\ holder[h].odd => holder'[h].odd
                            /\ holder[h].at = "gone" => holder'[h].tag = holder[h].tag /\ holder'[h].opt = holder[h].opt
  PROVE  HoldersInv'
<1>1. GoneEmpty'
  BY DEF HoldersInv, GoneEmpty
<1>2. NamesStand'
  <2> SUFFICES ASSUME NEW h \in Holders, ~holder'[h].odd, holder'[h].seg # 0
               PROVE  holder'[holder'[h].seg].at = "live"
    BY DEF NamesStand
  <2>1. holder[h].seg \in Holders
    <3>1. holder[h].seg \in Segments \cup {0}
      BY DEF Holder
    <3> QED  BY <3>1, HolderSets
  <2> QED  BY <2>1 DEF HoldersInv, NamesStand
<1>3. NoRing'
  BY DEF HoldersInv, NoRing
<1> QED  BY <1>1, <1>2, <1>3, HolderSets DEF HoldersInv

LEMMA SegTyped ==
  ASSUME holder \in [Holders -> Holder], NEW h \in Holders
  PROVE  holder[h].seg \in Segments \cup {0} /\ holder[h].at \in {"live", "gone"} /\ (holder[h].seg # 0 => holder[h].seg \in Holders)
<1>1. holder[h].seg \in Segments \cup {0} /\ holder[h].at \in {"live", "gone"}
  BY DEF Holder
<1> QED  BY <1>1, HolderSets

LEMMA SaveRuleHolders ==
  ASSUME LabelsIInv, NEW s \in Segments \cup {0}, SaveRule(s)
  PROVE  holder' \in [Holders -> Holder] /\ HoldersInv' /\ FiltersMatch'
<1>1. holder \in [Holders -> Holder] /\ HoldersInv /\ FiltersMatch /\ UNCHANGED field
  BY LabelsInvIs DEF SaveRule
<1> DEFINE r == [holder[Rule] EXCEPT !.seg = s]
<1>2. holder' = [holder EXCEPT ![Rule] = r] /\ (s # 0 => holder[s].at = "live")
  BY <1>1, HolderSets DEF SaveRule
<1>3. r \in Holder /\ r.seg = s /\ r.at = holder[Rule].at /\ r.tag = holder[Rule].tag /\ r.opt = holder[Rule].opt
  BY <1>1, HolderSets DEF Holder
<1>4. r.odd <=> holder[Rule].odd
  BY <1>1, HolderSets DEF Holder
<1> HIDE DEF r
<1>5. holder' \in [Holders -> Holder] /\ holder'[Rule] = r /\ \A h \in Holders \ {Rule} : holder'[h] = holder[h]
  BY <1>1, <1>2, <1>3, HolderSets
<1>6. \A t \in Segments : holder'[t] = holder[t]
  BY <1>5, HolderSets
<1>7. GoneEmpty'
  BY <1>1, <1>3, <1>5 DEF HoldersInv, GoneEmpty
<1>8. NamesStand'
  <2> SUFFICES ASSUME NEW h \in Holders, ~holder'[h].odd, holder'[h].seg # 0
               PROVE  holder'[holder'[h].seg].at = "live"
    BY DEF NamesStand
  <2>1. CASE h = Rule
    BY <1>2, <1>3, <1>5, <1>6, <2>1
  <2>2. CASE h # Rule
    <3>1. holder[h].seg \in Segments
      BY <1>1, <1>5, <2>2, SegTyped
    <3> QED  BY <1>1, <1>5, <1>6, <2>2, <3>1 DEF HoldersInv, NamesStand
  <2> QED  BY <2>1, <2>2
<1>9. NoRing'
  <2> SUFFICES ASSUME NEW S \in SUBSET Holders, S # {}, \A h \in S : ~holder'[h].odd /\ holder'[h].seg \in S
               PROVE  FALSE
    BY DEF NoRing
  <2>1. \A h \in S : holder'[h].seg \in Segments
    <3>1. ASSUME NEW h \in S  PROVE holder'[h].seg \in Segments
      <4>1. holder'[h].seg \in Segments \cup {0}
        BY <1>5 DEF Holder
      <4> QED  BY <4>1, HolderSets
    <3> QED  BY <3>1
  <2> DEFINE T == S \ {Rule}
  <2>2. T # {} /\ T \in SUBSET Holders
    BY <2>1, HolderSets
  <2>3. \A h \in T : ~holder[h].odd /\ holder[h].seg \in T
    BY <1>5, <2>1, HolderSets
  <2> HIDE DEF T
  <2> QED  BY <1>1, <2>2, <2>3 DEF HoldersInv, NoRing
<1>10. holder'[Rule].at = "live"
  BY <1>1, <1>3, <1>5 DEF HoldersInv
<1>11. FiltersMatch'
  <2>1. \A h \in Holders : /\ holder'[h].at = holder[h].at /\ holder'[h].opt = holder[h].opt
                           /\ holder'[h].odd <=> holder[h].odd
    BY <1>3, <1>4, <1>5
  <2> QED  BY <1>1, <2>1 DEF FiltersMatch
<1> QED  BY <1>5, <1>7, <1>8, <1>9, <1>10, <1>11 DEF HoldersInv

LEMMA SaveRuleLabels ==
  ASSUME LabelsIInv, NEW s \in Segments \cup {0}, SaveRule(s)
  PROVE  LabelsIInv'
<1>1. edits' = Raced({}) /\ UNCHANGED <<contact, tagdef, field>>
  BY DEF SaveRule, NotContacts
<1>2. ValuesOffered'
  BY <1>1, LabelsInvIs DEF ValuesOffered
<1> QED  BY <1>1, <1>2, SaveRuleHolders, LabelsInvIs, LoudKeeps

(* A segment that is saved names one whose chain does not come back to it.    *)
LEMMA WriteSegmentHolders ==
  ASSUME LabelsIInv, NEW i \in Slots, WriteSegment(i)
  PROVE  holder' \in [Holders -> Holder] /\ HoldersInv' /\ FiltersMatch'
<1>1. holder \in [Holders -> Holder] /\ HoldersInv /\ FiltersMatch /\ UNCHANGED field /\ edits[i].k = "save"
  BY LabelsInvIs DEF WriteSegment
<1>2. PICK e \in SaveEdit : e = edits[i]
  BY <1>1, LabelsInvIs, KindOfEdit
<1>3. PICK s \in Segments, seg \in Segments \cup {0} : s = e.s /\ seg = e.filter.seg
  BY DEF SaveEdit, Filter
<1>4. e.filter.tag \in Words \cup {None} /\ e.filter.opt \in Words \cup {None} /\ s \in Holders /\ s # Rule
  BY HolderSets DEF SaveEdit, Filter
<1>5. e.raced \/ (CheckReferences(s, seg) /\ e.filter.opt \in field.opts \cup {None})
  BY <1>1, <1>2, <1>3, LabelsInvIs DEF Fresh, SaveFresh
<1>6. CASE holder[s].at # "live"
  <2>1. holder' = holder
    BY <1>2, <1>3, <1>6 DEF WriteSegment
  <2> QED  BY <1>1, <2>1, HoldersStay DEF FiltersMatch
<1>7. CASE holder[s].at = "live"
  <2> DEFINE odd == holder[s].odd \/ e.raced
             r == [at |-> "live", tag |-> e.filter.tag, opt |-> e.filter.opt, seg |-> seg, odd |-> odd]
  <2>1. holder' = [holder EXCEPT ![s] = r]
    BY <1>2, <1>3, <1>7 DEF WriteSegment
  <2>2. odd \in BOOLEAN /\ (~odd => ~holder[s].odd /\ ~e.raced)
    BY <1>1, <1>4 DEF Holder, SaveEdit
  <2> HIDE DEF odd
  <2>3. r \in Holder /\ r.at = "live" /\ r.seg = seg /\ r.opt = e.filter.opt /\ r.odd = odd
    BY <1>4, <2>2 DEF Holder
  <2> HIDE DEF r
  <2>4. holder' \in [Holders -> Holder] /\ holder'[s] = r /\ \A h \in Holders \ {s} : holder'[h] = holder[h]
    BY <1>1, <1>4, <2>1, <2>3
  <2>5. \A h \in Holders : holder'[h].at = holder[h].at
    BY <1>7, <2>3, <2>4
  <2>6. GoneEmpty'
    BY <1>1, <2>3, <2>4 DEF HoldersInv, GoneEmpty
  <2>7. IsChain(After, holder, MaxNesting) /\ (seg # 0 => seg \in Holders)
    BY AfterIs, HolderSets
  <2>8. ASSUME seg # 0, CheckReferences(s, seg)
        PROVE  /\ holder[seg].at = "live" /\ After[0][seg] = seg /\ After[MaxNesting - 1][seg] = 0
               /\ \A n \in 0..(MaxNesting - 1) : After[n][seg] # s
    <3>1. After[0][seg] = seg /\ 0 \in 0..(MaxNesting - 1)
      BY <1>1, <2>7, <2>8, Chain, LabelsAssumption
    <3>2. \A n \in 0..(MaxNesting - 1) : After[n][seg] # 0 => After[n][seg] # s /\ holder[After[n][seg]].at = "live"
      BY <2>8 DEF CheckReferences
    <3>3. After[MaxNesting - 1][seg] = 0
      BY <2>8 DEF CheckReferences
    <3> QED  BY <1>4, <2>8, <3>1, <3>2, <3>3, HolderSets
  <2>9. NamesStand'
    <3> SUFFICES ASSUME NEW h \in Holders, ~holder'[h].odd, holder'[h].seg # 0
                 PROVE  holder'[holder'[h].seg].at = "live"
      BY DEF NamesStand
    <3>1. holder'[h].seg \in Holders
      <4>1. holder'[h].seg \in Segments \cup {0}
        BY <2>4 DEF Holder
      <4> QED  BY <4>1, HolderSets
    <3>2. CASE h = s
      <4>1. ~odd /\ seg # 0 /\ holder'[h].seg = seg
        BY <2>3, <2>4, <3>2
      <4>2. CheckReferences(s, seg)
        BY <1>5, <2>2, <4>1
      <4> QED  BY <2>5, <2>8, <3>1, <4>1, <4>2
    <3>3. CASE h # s
      <4>1. holder'[h] = holder[h]
        BY <2>4, <3>3
      <4>2. holder[holder[h].seg].at = "live"
        BY <1>1, <4>1 DEF HoldersInv, NamesStand
      <4> QED  BY <2>5, <3>1, <4>1, <4>2
    <3> QED  BY <3>2, <3>3
  <2>10. NoRing'
    <3> SUFFICES ASSUME NEW S \in SUBSET Holders, S # {}, \A h \in S : ~holder'[h].odd /\ holder'[h].seg \in S
                 PROVE  FALSE
      BY DEF NoRing
    <3>1. CASE s \notin S
      <4>1. \A h \in S : ~holder[h].odd /\ holder[h].seg \in S
        BY <2>4, <3>1
      <4> QED  BY <1>1, <4>1 DEF HoldersInv, NoRing
    <3>2. CASE s \in S
      <4>1. ~odd /\ seg \in S /\ seg # 0
        BY <2>3, <2>4, <3>2, HolderSets
      <4>2. CheckReferences(s, seg)
        BY <1>5, <2>2, <4>1
      <4>3. /\ After[0][seg] = seg /\ After[MaxNesting - 1][seg] = 0
            /\ \A n \in 0..(MaxNesting - 1) : After[n][seg] # s
        BY <2>8, <4>1, <4>2
      <4> DEFINE Good == {n \in 0..(MaxNesting - 1) : After[n][seg] \in S}
      <4>4. MaxNesting - 1 \in Nat /\ 0 \in 0..(MaxNesting - 1) /\ 0..(MaxNesting - 1) \subseteq 0..MaxNesting
        BY LabelsAssumption
      <4>5. 0 \in Good
        BY <4>1, <4>3, <4>4
      <4>6. ASSUME NEW n \in 0..(MaxNesting - 1), n < MaxNesting - 1, n \in Good
            PROVE  n + 1 \in Good
        <5>1. n + 1 \in 0..(MaxNesting - 1) /\ n + 1 \in 0..MaxNesting /\ n + 1 # 0 /\ (n + 1) - 1 = n
          BY <4>4, <4>6
        <5>2. After[n + 1][seg] = IF After[n][seg] = 0 THEN 0 ELSE holder[After[n][seg]].seg
          BY <1>1, <2>7, <4>1, <5>1, Chain
        <5>3. After[n][seg] \in S /\ After[n][seg] # s /\ After[n][seg] # 0
          BY <4>3, <4>6, HolderSets
        <5>4. holder'[After[n][seg]] = holder[After[n][seg]]
          BY <2>4, <5>3
        <5> QED  BY <5>1, <5>2, <5>3, <5>4
      <4>7. MaxNesting - 1 \in Good
        <5>1. \A n \in 0..(MaxNesting - 1) : n \in Good
          <6> HIDE DEF Good
          <6> QED  BY <4>4, <4>5, <4>6, CountUp
        <5>2. MaxNesting - 1 \in 0..(MaxNesting - 1)
          BY <4>4
        <5> QED  BY <5>1, <5>2
      <4> QED  BY <4>3, <4>7, HolderSets
    <3> QED  BY <3>1, <3>2
  <2>11. FiltersMatch'
    <3> SUFFICES ASSUME field.st # "gone", ~field.odd, NEW h \in Holders, holder'[h].at = "live", ~holder'[h].odd
                 PROVE  holder'[h].opt \in field.opts \cup field.forced \cup {None}
      BY <1>1 DEF FiltersMatch
    <3>1. CASE h = s
      BY <1>5, <2>2, <2>3, <2>4, <3>1
    <3>2. CASE h # s
      BY <1>1, <2>4, <3>2 DEF FiltersMatch
    <3> QED  BY <3>1, <3>2
  <2>12. holder'[Rule].at = "live"
    BY <1>1, <1>4, <2>4, HolderSets DEF HoldersInv
  <2> QED  BY <2>4, <2>6, <2>9, <2>10, <2>11, <2>12 DEF HoldersInv
<1> QED  BY <1>6, <1>7

LEMMA WriteSegmentLabels ==
  ASSUME LabelsIInv, NEW i \in Slots, WriteSegment(i)
  PROVE  LabelsIInv'
<1>1. edits' = Raced({i}) /\ UNCHANGED <<contact, tagdef, field>>
  BY DEF WriteSegment, Finishes, contactVars
<1>2. ValuesOffered'
  BY <1>1, LabelsInvIs DEF ValuesOffered
<1> QED  BY <1>1, <1>2, WriteSegmentHolders, LabelsInvIs, LoudKeeps

LEMMA RemoveSegmentHolders ==
  ASSUME LabelsIInv, NEW i \in Slots, RemoveSegment(i)
  PROVE  holder' \in [Holders -> Holder] /\ HoldersInv' /\ FiltersMatch'
<1>1. holder \in [Holders -> Holder] /\ HoldersInv /\ FiltersMatch /\ UNCHANGED field /\ edits[i].k = "unsave"
  BY LabelsInvIs DEF RemoveSegment
<1>2. PICK e \in UnsaveEdit : e = edits[i]
  BY <1>1, LabelsInvIs, KindOfEdit
<1>3. PICK s \in Segments : s = e.s
  BY DEF UnsaveEdit
<1>4. s \in Holders /\ s # Rule
  BY HolderSets
<1>5. e.raced \/ (Dependents(s) = {} /\ AutomationDependents(s) = {})
  BY <1>1, <1>2, <1>3, LabelsInvIs DEF Fresh, UnsaveFresh
<1> DEFINE odd(h) == holder[h].odd \/ (e.raced /\ holder[h].seg = s)
           r(h) == IF h = s THEN [holder[h] EXCEPT !.at = "gone", !.tag = None, !.opt = None, !.seg = 0]
                   ELSE [holder[h] EXCEPT !.odd = odd(h)]
<1>6. holder' = [h \in Holders |-> r(h)]
  BY <1>2, <1>3 DEF RemoveSegment
<1>7. ASSUME NEW h \in Holders
      PROVE  /\ r(h) \in Holder
             /\ h = s => r(h).at = "gone" /\ r(h).tag = None /\ r(h).opt = None /\ r(h).seg = 0
             /\ h # s => /\ r(h).at = holder[h].at /\ r(h).tag = holder[h].tag /\ r(h).opt = holder[h].opt
                         /\ r(h).seg = holder[h].seg
                         /\ holder[h].odd => r(h).odd
                         /\ e.raced /\ holder[h].seg = s => r(h).odd
  <2>1. holder[h] \in Holder
    BY <1>1
  <2>2. CASE h = s
    <3>1. r(h) = [holder[h] EXCEPT !.at = "gone", !.tag = None, !.opt = None, !.seg = 0]
      BY <2>2
    <3> HIDE DEF r
    <3> QED  BY <2>1, <2>2, <3>1 DEF Holder
  <2>3. CASE h # s
    <3>1. r(h) = [holder[h] EXCEPT !.odd = odd(h)] /\ odd(h) \in BOOLEAN
      BY <2>1, <2>3 DEF Holder
    <3>2. (holder[h].odd => odd(h)) /\ (e.raced /\ holder[h].seg = s => odd(h))
      OBVIOUS
    <3> HIDE DEF r, odd
    <3> QED  BY <2>1, <2>3, <3>1, <3>2 DEF Holder
  <2> QED  BY <2>2, <2>3
<1>8. \A h \in Holders : holder'[h] = r(h)
  BY <1>6
<1> HIDE DEF r
<1>9. holder' \in [Holders -> Holder]
  BY <1>6, <1>7
<1>10. GoneEmpty'
  BY <1>1, <1>7, <1>8 DEF HoldersInv, GoneEmpty
<1>11. NamesStand'
  <2> SUFFICES ASSUME NEW h \in Holders, ~holder'[h].odd, holder'[h].seg # 0
               PROVE  holder'[holder'[h].seg].at = "live"
    BY DEF NamesStand
  <2>1. h # s /\ holder'[h].seg = holder[h].seg /\ ~holder[h].odd /\ holder[h].seg \in Holders
    BY <1>1, <1>7, <1>8, SegTyped
  <2>2. holder[holder[h].seg].at = "live"
    BY <1>1, <1>7, <1>8, <2>1 DEF HoldersInv, NamesStand
  <2>3. holder[h].seg # s
    <3> SUFFICES ASSUME holder[h].seg = s  PROVE FALSE
      OBVIOUS
    <3>1. ~e.raced
      BY <1>7, <1>8, <2>1
    <3>2. holder[h].at = "live"
      BY <1>1, <1>4, <2>1, SegTyped, HolderSets DEF HoldersInv, GoneEmpty
    <3>3. h \in Segments \ {s} \/ h = Rule
      BY <2>1, HolderSets
    <3> QED  BY <1>5, <3>1, <3>2, <3>3 DEF Dependents, AutomationDependents
  <2> QED  BY <1>7, <1>8, <2>1, <2>2, <2>3
<1>12. NoRing'
  <2> SUFFICES ASSUME NEW S \in SUBSET Holders, S # {}, \A h \in S : ~holder'[h].odd /\ holder'[h].seg \in S
               PROVE  FALSE
    BY DEF NoRing
  <2>1. s \notin S
    BY <1>7, <1>8, HolderSets
  <2>2. \A h \in S : ~holder[h].odd /\ holder[h].seg \in S
    BY <1>7, <1>8, <2>1
  <2> QED  BY <1>1, <2>2 DEF HoldersInv, NoRing
<1>13. holder'[Rule].at = "live"
  BY <1>1, <1>4, <1>7, <1>8, HolderSets DEF HoldersInv
<1>14. FiltersMatch'
  BY <1>1, <1>7, <1>8 DEF FiltersMatch
<1> QED  BY <1>9, <1>10, <1>11, <1>12, <1>13, <1>14 DEF HoldersInv

LEMMA RemoveSegmentLabels ==
  ASSUME LabelsIInv, NEW i \in Slots, RemoveSegment(i)
  PROVE  LabelsIInv'
<1>1. edits' = Raced({i}) /\ UNCHANGED <<contact, tagdef, field>>
  BY DEF RemoveSegment, Finishes, contactVars
<1>2. ValuesOffered'
  BY <1>1, LabelsInvIs DEF ValuesOffered
<1> QED  BY <1>1, <1>2, RemoveSegmentHolders, LabelsInvIs, LoudKeeps

-----------------------------------------------------------------------------
(* Renaming a tag                                                             *)

(* Steps that write contacts, and give none a value it did not have.          *)
LEMMA ContactsWritten ==
  ASSUME LabelsIInv, UNCHANGED <<holder, field>>, tagdef' \subseteq Words, NEW S, edits' = Raced(S),
         \A c \in Ids : contact'[c].opt = None \/ \E d \in Ids : contact'[c].opt = contact[d].opt
  PROVE  LabelsIInv'
<1>1. HoldersInv' /\ FiltersMatch'
  BY LabelsInvIs DEF HoldersInv, GoneEmpty, NamesStand, NoRing, FiltersMatch
<1>2. ValuesOffered'
  BY LabelsInvIs DEF ValuesOffered
<1> QED  BY <1>1, <1>2, LabelsInvIs, LoudKeeps

LEMMA RenameGoes ==
  ASSUME edits \in [Slots -> Edit], NEW i \in Slots, NEW e \in RenameEdit, NEW clean \in BOOLEAN,
         edits' = [Raced({}) EXCEPT ![i] =
                     IF e.step = 4 THEN Idle ELSE [e EXCEPT !.step = e.step + 1, !.clean = clean]],
         \A d \in RenameEdit :
           clean /\ e.step # 4 /\ d.from = e.from /\ d.to = e.to /\ d.step = e.step + 1 /\ d.before = e.before
             => RenameFresh(d)'
  PROVE  edits' \in [Slots -> Edit] /\ \A j \in Slots : Fresh(edits[j])'
<1>1. /\ Raced({}) \in [Slots -> Edit]
      /\ \A j \in Slots : Raced({})[j].k = "rename" => ~Raced({})[j].clean
      /\ \A j \in Slots : Raced({})[j].k \in {"save", "unsave", "field", "value"} => Raced({})[j].raced
  BY RacedIs
<1>2. \A j \in Slots : j # i => edits'[j] = Raced({})[j]
  BY <1>1
<1>3. ASSUME NEW j \in Slots, j # i  PROVE Fresh(edits[j])'
  BY <1>1, <1>2, <1>3 DEF Fresh
<1>4. CASE e.step = 4
  <2>1. edits' = [Raced({}) EXCEPT ![i] = Idle]
    BY <1>4
  <2>2. edits'[i] = Idle /\ Idle \in Edit /\ edits'[i].k = "idle"
    <3>1. edits'[i] = Idle /\ Idle \in Edit
      BY <1>1, <2>1, EditIs
    <3>2. Idle.k = "idle"
      BY DEF Idle
    <3> QED  BY <3>1, <3>2
  <2>3. Fresh(edits[i])'
    BY <2>2 DEF Fresh
  <2> QED  BY <1>1, <1>3, <2>1, <2>2, <2>3
<1>5. CASE e.step # 4
  <2> DEFINE d == [e EXCEPT !.step = e.step + 1, !.clean = clean]
  <2>1. edits' = [Raced({}) EXCEPT ![i] = d]
    BY <1>5
  <2>2. e.step \in 1..4
    BY DEF RenameEdit
  <2>3. e.step + 1 \in 1..4
    BY <1>5, <2>2
  <2>4. /\ d \in RenameEdit /\ d.k = "rename" /\ d.from = e.from /\ d.to = e.to /\ d.step = e.step + 1
        /\ d.before = e.before /\ d.clean = clean
    BY <2>3 DEF RenameEdit
  <2> HIDE DEF d
  <2>5. d \in Edit
    BY <2>4, EditIs
  <2>6. edits'[i] = d
    BY <1>1, <2>1
  <2>7. PICK x \in RenameEdit : x = d
    BY <2>4
  <2>8. Fresh(x)'
    <3>1. clean => RenameFresh(x)'
      BY <1>5, <2>4, <2>7
    <3> QED  BY <2>4, <2>7, <3>1 DEF Fresh
  <2>9. Fresh(edits[i])'
    BY <2>6, <2>7, <2>8
  <2> QED  BY <1>1, <1>3, <2>1, <2>5, <2>9
<1> QED  BY <1>4, <1>5

(* The contacts the tag is renamed on are found by the filter as it will be. *)
LEMMA RenameContacts ==
  ASSUME LabelsIInv, contact \in [Ids -> Contact], NEW e \in RenameEdit, RenameFresh(e), e.step = 1,
         contact' = [c \in Ids |-> IF e.from \in contact[c].tags
                       THEN [contact[c] EXCEPT !.tags = (@ \ {e.from}) \cup {e.to}] ELSE contact[c]],
         UNCHANGED holder, NEW s \in Segments
  PROVE  AudienceRenamed(s, e.from, e.to)' = e.before[s]
<1>1. PICK from \in Words, to \in Words : from = e.from /\ to = e.to
  BY DEF RenameEdit
<1>2. /\ from # to /\ \A h \in Holders : holder[h].tag # to
      /\ \A c \in Ids : to \notin contact[c].tags
      /\ Audience(s) = e.before[s]
  BY <1>1 DEF RenameFresh
<1>3. After' = After
  <2>1. After = CHOOSE f : IsChain(f, holder, MaxNesting)
    BY DEF After, IsChain, Hop
  <2>2. After' = CHOOSE f : IsChain(f, holder', MaxNesting)
    BY DEF After, IsChain, Hop
  <2> QED  BY <2>1, <2>2
<1>4. ASSUME NEW c \in Ids
      PROVE  /\ contact'[c].st = contact[c].st /\ contact'[c].opt = contact[c].opt
             /\ from \in contact[c].tags => contact'[c].tags = (contact[c].tags \ {from}) \cup {to}
             /\ from \notin contact[c].tags => contact'[c].tags = contact[c].tags
  <2>1. contact[c] \in Contact
    OBVIOUS
  <2>2. CASE from \in contact[c].tags
    <3>1. contact'[c] = [contact[c] EXCEPT !.tags = (@ \ {from}) \cup {to}]
      BY <1>1, <2>2
    <3> QED  BY <2>1, <2>2, <3>1 DEF Contact
  <2>3. CASE from \notin contact[c].tags
    BY <1>1, <2>3
  <2> QED  BY <2>2, <2>3
<1>5. ASSUME NEW c \in Ids, NEW w, w # to
      PROVE  TagRule(c, w) <=> TagRule(c, Renamed(w, from, to))'
  <2>1. from # None /\ to # None
    BY ContactsAssumption
  <2>2. CASE w = from
    BY <1>2, <1>4, <2>1, <2>2 DEF TagRule, Renamed
  <2>3. CASE w # from
    <3>1. Renamed(w, from, to) = w
      BY <2>3 DEF Renamed
    <3>2. w \in contact[c].tags <=> w \in contact'[c].tags
      <4>1. CASE from \in contact[c].tags
        <5>1. contact'[c].tags = (contact[c].tags \ {from}) \cup {to}
          BY <1>4, <4>1
        <5> QED  BY <1>5, <2>3, <5>1
      <4>2. CASE from \notin contact[c].tags
        <5>1. contact'[c].tags = contact[c].tags
          BY <1>4, <4>2
        <5> QED  BY <5>1
      <4> QED  BY <4>1, <4>2
    <3> QED  BY <3>1, <3>2 DEF TagRule
  <2> QED  BY <2>2, <2>3
<1>6. \A n \in 0..(MaxNesting - 1) : After[n][s] # 0 => After[n][s] \in Holders
  <2>1. \A n \in 0..MaxNesting : After[n][s] \in Holders \cup {0}
    BY AfterIs, LabelsInvIs, Chain, HolderSets
  <2> QED  BY <2>1, HolderSets
<1>7. ASSUME NEW c \in Ids
      PROVE  c \in Audience(s) <=> c \in AudienceRenamed(s, from, to)'
  <2>1. Live(c)' <=> Live(c)
    BY <1>4 DEF Live
  <2>2. ASSUME NEW n \in 0..(MaxNesting - 1), After[n][s] # 0
        PROVE  /\ TagRule(c, holder[After[n][s]].tag) <=> TagRule(c, Renamed(holder[After[n][s]].tag, from, to))'
               /\ OptionRule(c, holder[After[n][s]].opt) <=> OptionRule(c, holder[After[n][s]].opt)'
    <3>1. PICK w : w = holder[After[n][s]].tag
      OBVIOUS
    <3>2. w # to
      BY <1>2, <1>6, <2>2, <3>1
    <3>3. TagRule(c, w) <=> TagRule(c, Renamed(w, from, to))'
      BY <1>5, <3>2
    <3>4. OptionRule(c, holder[After[n][s]].opt) <=> OptionRule(c, holder[After[n][s]].opt)'
      BY <1>3, <1>4 DEF OptionRule
    <3>5. w = holder'[After'[n][s]].tag
      BY <1>3, <3>1
    <3> QED  BY <3>1, <3>3, <3>4, <3>5
  <2> QED  BY <1>3, <2>1, <2>2 DEF Audience, AudienceRenamed
<1>8. Audience(s) \subseteq Ids /\ AudienceRenamed(s, from, to)' \subseteq Ids
  BY DEF Audience, AudienceRenamed
<1>9. AudienceRenamed(s, from, to)' = Audience(s)
  BY <1>7, <1>8
<1> QED  BY <1>1, <1>2, <1>9

(* The filters, renamed too, admit whom they admitted. *)
LEMMA RenameHolders ==
  ASSUME LabelsIInv, NEW e \in RenameEdit, RenameFresh(e), e.step = 2,
         holder' \in [Holders -> Holder], UNCHANGED contact,
         \A h \in Holders : /\ holder'[h].seg = holder[h].seg
                            /\ holder[h].opt # e.from => holder'[h].opt = holder[h].opt
                            /\ holder'[h].tag = Renamed(holder[h].tag, e.from, e.to),
         NEW s \in Segments
  PROVE  Audience(s)' = e.before[s]
<1>1. PICK from \in Words, to \in Words : from = e.from /\ to = e.to
  BY DEF RenameEdit
<1>2. (\A t \in Segments : holder[t].opt # from) /\ AudienceRenamed(s, from, to) = e.before[s]
  BY <1>1 DEF RenameFresh
<1>3. \A n \in 0..MaxNesting, h \in Holders : After'[n][h] = After[n][h]
  BY AfterIs, AfterIsNext, LabelsInvIs, ChainSame
<1>4. \A n \in 0..(MaxNesting - 1) : After[n][s] # 0 => After[n][s] \in Segments
  <2>1. \A n \in 0..MaxNesting : n # 0 => After[n][s] \in Segments \cup {0}
    BY AfterIs, LabelsInvIs, Chain, HolderSets
  <2>2. After[0][s] = s
    <3>1. s \in Holders /\ holder \in [Holders -> Holder]
      BY LabelsInvIs, HolderSets
    <3> QED  BY <3>1, AfterIs, Chain
  <2>3. 0..(MaxNesting - 1) \subseteq 0..MaxNesting
    BY HolderSets
  <2> QED  BY <2>1, <2>2, <2>3
<1>5. ASSUME NEW c \in Ids
      PROVE  c \in AudienceRenamed(s, from, to) <=> c \in Audience(s)'
  <2>1. Live(c)' <=> Live(c)
    BY DEF Live
  <2>2. ASSUME NEW n \in 0..(MaxNesting - 1)
        PROVE  /\ After'[n][s] = After[n][s]
               /\ After[n][s] # 0 =>
                    /\ TagRule(c, Renamed(holder[After[n][s]].tag, from, to)) <=> TagRule(c, holder[After[n][s]].tag)'
                    /\ OptionRule(c, holder[After[n][s]].opt) <=> OptionRule(c, holder[After[n][s]].opt)'
    <3>1. After'[n][s] = After[n][s]
      BY <1>3, HolderSets
    <3>2. ASSUME After[n][s] # 0
          PROVE  /\ holder'[After'[n][s]].tag = Renamed(holder[After[n][s]].tag, from, to)
                 /\ holder'[After'[n][s]].opt = holder[After[n][s]].opt
      <4>1. After[n][s] \in Segments /\ After[n][s] \in Holders
        BY <1>4, <3>2, HolderSets
      <4> QED  BY <1>1, <1>2, <3>1, <4>1
    <3> QED  BY <3>1, <3>2 DEF TagRule, OptionRule
  <2> QED  BY <2>1, <2>2 DEF Audience, AudienceRenamed
<1>6. AudienceRenamed(s, from, to) \subseteq Ids /\ Audience(s)' \subseteq Ids
  BY DEF Audience, AudienceRenamed
<1>7. Audience(s)' = AudienceRenamed(s, from, to)
  BY <1>5, <1>6
<1> QED  BY <1>2, <1>7

LEMMA UpdateTagStepLabels ==
  ASSUME LabelsIInv, contact \in [Ids -> Contact], NEW i \in Slots, UpdateTagStep(i)
  PROVE  LabelsIInv'
<1>1. edits[i].k = "rename" /\ UNCHANGED field
  BY DEF UpdateTagStep
<1>2. PICK e \in RenameEdit : e = edits[i]
  BY <1>1, LabelsInvIs, KindOfEdit
<1>3. e.step \in 1..4 /\ e.from \in Words /\ e.to \in Words /\ e.clean \in BOOLEAN
  BY DEF RenameEdit
<1>4. e.clean => RenameFresh(e)
  BY <1>1, <1>2, LabelsInvIs DEF Fresh
<1> DEFINE Goes(clean) ==
        edits' = [Raced({}) EXCEPT ![i] =
                    IF e.step = 4 THEN Idle ELSE [e EXCEPT !.step = e.step + 1, !.clean = clean]]
<1>5. CASE e.step = 1
  <2>1. \/ /\ contact' = [c \in Ids |-> IF e.from \in contact[c].tags
                   THEN [contact[c] EXCEPT !.tags = (@ \ {e.from}) \cup {e.to}] ELSE contact[c]]
           /\ Goes(e.clean)
        \/ contact' = contact /\ Goes(FALSE)
    BY <1>2, <1>5 DEF UpdateTagStep
  <2>2. UNCHANGED <<tagdef, holder>>
    BY <1>2, <1>5 DEF UpdateTagStep
  <2>3. \A c \in Ids : contact'[c].opt = contact[c].opt
    <3>1. CASE contact' = [c \in Ids |-> IF e.from \in contact[c].tags
                   THEN [contact[c] EXCEPT !.tags = (@ \ {e.from}) \cup {e.to}] ELSE contact[c]]
      BY <3>1 DEF Contact
    <3> QED  BY <2>1, <3>1
  <2>4. HoldersInv' /\ ValuesOffered' /\ FiltersMatch'
    BY <1>1, <2>2, <2>3, LabelsInvIs DEF HoldersInv, GoneEmpty, NamesStand, NoRing, ValuesOffered, FiltersMatch
  <2>5. edits' \in [Slots -> Edit] /\ \A j \in Slots : Fresh(edits[j])'
    <3>1. CASE /\ contact' = [c \in Ids |-> IF e.from \in contact[c].tags
                   THEN [contact[c] EXCEPT !.tags = (@ \ {e.from}) \cup {e.to}] ELSE contact[c]]
               /\ Goes(e.clean)
      <4>1. ASSUME NEW d \in RenameEdit, e.clean, d.from = e.from, d.to = e.to, d.step = e.step + 1, d.before = e.before
            PROVE  RenameFresh(d)'
        <5>1. d.step = 2
          BY <1>5, <4>1
        <5>2. \A s \in Segments : AudienceRenamed(s, e.from, e.to)' = e.before[s]
          BY <1>4, <1>5, <2>2, <3>1, <4>1, RenameContacts
        <5>3. e.from # e.to /\ \A s \in Segments : holder[s].opt # e.from
          BY <1>4, <1>5, <4>1 DEF RenameFresh
        <5> QED  BY <2>2, <4>1, <5>1, <5>2, <5>3 DEF RenameFresh
      <4> QED  BY <1>3, <3>1, <4>1, LabelsInvIs, RenameGoes
    <3>2. CASE Goes(FALSE)
      BY <3>2, LabelsInvIs, RenameGoes
    <3> QED  BY <2>1, <3>1, <3>2
  <2> QED  BY <1>1, <2>2, <2>4, <2>5, LabelsInvIs DEF LabelsIInv, LabelTypes
<1>6. CASE e.step = 2
  <2>1. \/ /\ holder' = [h \in Holders |-> IF holder[h].at = "live"
                   THEN RenameTag(holder[h], e.from, e.to) ELSE holder[h]]
           /\ Goes(e.clean)
        \/ holder' = holder /\ Goes(FALSE)
    BY <1>2, <1>6 DEF UpdateTagStep
  <2>2. UNCHANGED <<tagdef, contact>>
    BY <1>2, <1>6 DEF UpdateTagStep
  <2>3. ASSUME NEW h \in Holders, holder[h].at = "live"
        PROVE  LET r == RenameTag(holder[h], e.from, e.to) IN
               /\ r \in Holder /\ r.at = holder[h].at /\ r.seg = holder[h].seg
               /\ r.tag = Renamed(holder[h].tag, e.from, e.to)
               /\ holder[h].opt # e.from => r.opt = holder[h].opt
               /\ holder[h].odd \/ holder[h].opt = e.from => r.odd
    <3> DEFINE tag == IF holder[h].tag = e.from THEN e.to ELSE holder[h].tag
               opt == IF holder[h].opt = e.from THEN e.to ELSE holder[h].opt
               odd == holder[h].odd \/ holder[h].opt = e.from
               r == [holder[h] EXCEPT !.tag = tag, !.opt = opt, !.odd = odd]
    <3>1. holder[h] \in Holder
      BY LabelsInvIs
    <3>2. tag \in Words \cup {None} /\ opt \in Words \cup {None} /\ odd \in BOOLEAN
      BY <1>3, <3>1 DEF Holder
    <3>3. RenameTag(holder[h], e.from, e.to) = r
      BY <3>1 DEF RenameTag, Holder
    <3>4. tag = Renamed(holder[h].tag, e.from, e.to)
      BY DEF Renamed
    <3>5. holder[h].odd \/ holder[h].opt = e.from => odd
      OBVIOUS
    <3>6. holder[h].opt # e.from => opt = holder[h].opt
      OBVIOUS
    <3> HIDE DEF tag, opt, odd
    <3>7. r \in Holder /\ r.at = holder[h].at /\ r.seg = holder[h].seg /\ r.tag = tag /\ r.opt = opt /\ r.odd = odd
      BY <3>1, <3>2 DEF Holder
    <3> HIDE DEF r
    <3> QED  BY <3>3, <3>4, <3>5, <3>6, <3>7
  <2>4. CASE /\ holder' = [h \in Holders |-> IF holder[h].at = "live"
                   THEN RenameTag(holder[h], e.from, e.to) ELSE holder[h]]
             /\ Goes(e.clean)
    <3>1. ASSUME NEW h \in Holders
          PROVE  /\ holder'[h] \in Holder /\ holder'[h].at = holder[h].at /\ holder'[h].seg = holder[h].seg
                 /\ holder'[h].tag = Renamed(holder[h].tag, e.from, e.to)
                 /\ holder[h].at = "gone" => holder'[h] = holder[h]
                 /\ holder[h].opt # e.from => holder'[h].opt = holder[h].opt
                 /\ holder[h].odd => holder'[h].odd
                 /\ holder[h].at = "live" /\ holder[h].opt = e.from => holder'[h].odd
      <4>1. CASE holder[h].at = "live"
        <5>1. holder'[h] = RenameTag(holder[h], e.from, e.to)
          BY <2>4, <4>1
        <5> QED  BY <2>3, <4>1, <5>1
      <4>2. CASE holder[h].at # "live"
        <5>1. holder'[h] = holder[h] /\ holder[h].at = "gone" /\ holder[h] \in Holder
          BY <2>4, <4>2, LabelsInvIs, SegTyped
        <5>2. holder[h].tag = None /\ e.from # None
          BY <1>3, <5>1, LabelsInvIs, ContactsAssumption DEF HoldersInv, GoneEmpty
        <5> QED  BY <4>2, <5>1, <5>2 DEF Renamed
      <4> QED  BY <4>1, <4>2
    <3>2. holder' \in [Holders -> Holder]
      BY <2>4, <3>1
    <3>3. HoldersInv'
      BY <3>1, LabelsInvIs, HoldersStay
    <3>4. ValuesOffered'
      BY <1>1, <2>2, LabelsInvIs DEF ValuesOffered
    <3>5. FiltersMatch'
      <4>1. \A h \in Holders : holder'[h].at = "live" /\ ~holder'[h].odd =>
              holder[h].at = "live" /\ ~holder[h].odd /\ holder'[h].opt = holder[h].opt
        BY <3>1
      <4> QED  BY <1>1, <4>1, LabelsInvIs DEF FiltersMatch
    <3>6. ASSUME NEW d \in RenameEdit, e.clean, d.from = e.from, d.to = e.to, d.step = e.step + 1, d.before = e.before
          PROVE  RenameFresh(d)'
      <4>1. d.step = 3
        BY <1>6, <3>6
      <4>2. \A s \in Segments : Audience(s)' = e.before[s]
        BY <1>4, <1>6, <2>2, <3>1, <3>2, <3>6, RenameHolders
      <4>3. e.from # e.to
        BY <1>4, <3>6 DEF RenameFresh
      <4> QED  BY <3>6, <4>1, <4>2, <4>3 DEF RenameFresh
    <3>7. edits' \in [Slots -> Edit] /\ \A j \in Slots : Fresh(edits[j])'
      BY <1>3, <2>4, <3>6, LabelsInvIs, RenameGoes
    <3> QED  BY <1>1, <2>2, <3>2, <3>3, <3>4, <3>5, <3>7, LabelsInvIs DEF LabelsIInv, LabelTypes
  <2>5. CASE holder' = holder /\ Goes(FALSE)
    <3>1. edits' \in [Slots -> Edit] /\ \A j \in Slots : Fresh(edits[j])'
      BY <2>5, LabelsInvIs, RenameGoes
    <3>2. HoldersInv' /\ ValuesOffered' /\ FiltersMatch'
      BY <1>1, <2>2, <2>5, LabelsInvIs DEF HoldersInv, GoneEmpty, NamesStand, NoRing, ValuesOffered, FiltersMatch
    <3> QED  BY <1>1, <2>2, <2>5, <3>1, <3>2, LabelsInvIs DEF LabelsIInv, LabelTypes
  <2> QED  BY <2>1, <2>4, <2>5
<1>7. CASE e.step \in {3, 4}
  <2>1. Goes(e.clean) /\ UNCHANGED <<holder, contact>> /\ tagdef' \subseteq Words
    <3>1. CASE e.step = 3
      BY <1>2, <3>1, LabelsInvIs DEF UpdateTagStep
    <3>2. CASE e.step = 4
      BY <1>2, <1>3, <3>2, LabelsInvIs DEF UpdateTagStep
    <3> QED  BY <1>7, <3>1, <3>2
  <2>2. HoldersInv' /\ ValuesOffered' /\ FiltersMatch'
    BY <1>1, <2>1, LabelsInvIs DEF HoldersInv, GoneEmpty, NamesStand, NoRing, ValuesOffered, FiltersMatch
  <2>3. ASSUME NEW d \in RenameEdit, e.clean, e.step # 4, d.from = e.from, d.to = e.to, d.step = e.step + 1, d.before = e.before
        PROVE  RenameFresh(d)'
    <3>1. d.step = 4
      BY <1>7, <2>3
    <3>2. e.from # e.to /\ \A s \in Segments : Audience(s) = e.before[s]
      BY <1>4, <1>7, <2>3 DEF RenameFresh
    <3>3. RenameFresh(d)
      BY <2>3, <3>1, <3>2 DEF RenameFresh
    <3>4. PICK x : x = [k |-> "rename", from |-> d.from, to |-> d.to, step |-> d.step, clean |-> TRUE, before |-> d.before]
      OBVIOUS
    <3>5. x.k = "rename" /\ x.from = d.from /\ x.to = d.to /\ x.step = d.step /\ x.clean /\ x.before = d.before
      BY <3>4
    <3>6. Fresh(x)
      BY <3>3, <3>5 DEF Fresh, RenameFresh
    <3>7. Fresh(x)'
      BY <1>1, <2>1, <3>6, FreshStays
    <3> QED  BY <3>5, <3>7 DEF Fresh, RenameFresh
  <2>4. edits' \in [Slots -> Edit] /\ \A j \in Slots : Fresh(edits[j])'
    BY <1>3, <2>1, <2>3, LabelsInvIs, RenameGoes
  <2> QED  BY <1>1, <2>1, <2>2, <2>4, LabelsInvIs DEF LabelsIInv, LabelTypes
<1> QED  BY <1>3, <1>5, <1>6, <1>7

LEMMA DeleteTagLabels ==
  ASSUME LabelsIInv, contact \in [Ids -> Contact], NEW w \in Words, DeleteTag(w)
  PROVE  LabelsIInv'
<1>1. /\ contact' = [c \in Ids |-> [contact[c] EXCEPT !.tags = @ \ {w}]]
      /\ edits' = Raced({}) /\ UNCHANGED <<holder, field>> /\ tagdef' \subseteq Words
  BY LabelsInvIs DEF DeleteTag
<1>2. \A c \in Ids : contact'[c].opt = contact[c].opt
  BY <1>1 DEF Contact
<1> QED  BY <1>1, <1>2, ContactsWritten

LEMMA EnsureTagsLabels ==
  ASSUME LabelsIInv, contact \in [Ids -> Contact], NEW i \in Slots, EnsureTags(i)
  PROVE  LabelsIInv'
<1>1. edits[i].k = "tag" /\ edits' = Raced({i}) /\ UNCHANGED <<holder, field>>
  BY DEF EnsureTags, Finishes
<1>2. PICK e \in TagEdit : e = edits[i]
  BY <1>1, LabelsInvIs, KindOfEdit
<1>3. e.w \in Words /\ tagdef' \subseteq Words
  BY <1>2, LabelsInvIs DEF EnsureTags, TagEdit
<1>4. contact' = contact \/ contact' = [contact EXCEPT ![e.c].tags = e.read \cup {e.w}]
  BY <1>2 DEF EnsureTags
<1>5. \A c \in Ids : contact'[c].opt = contact[c].opt
  BY <1>4 DEF Contact
<1> QED  BY <1>1, <1>3, <1>5, ContactsWritten

-----------------------------------------------------------------------------
(* The field                                                                  *)

LEMMA SaveFieldLabels ==
  ASSUME LabelsIInv, contact \in [Ids -> Contact], NEW i \in Slots, SaveContactField(i)
  PROVE  LabelsIInv'
<1>1. edits[i].k = "field" /\ edits' = Raced({i}) /\ UNCHANGED tagdef
  BY DEF SaveContactField, Finishes
<1>2. PICK e \in FieldEdit : e = edits[i]
  BY <1>1, LabelsInvIs, KindOfEdit
<1>3. /\ e.opts \subseteq Words /\ e.was \subseteq Words /\ e.from \in Words \cup {None} /\ e.to \in Words \cup {None}
      /\ e.st \in {"live", "archived"} /\ e.force \in BOOLEAN /\ e.raced \in BOOLEAN
  BY DEF FieldEdit
<1>4. e.raced \/ FieldFresh(e)
  BY <1>1, <1>2, LabelsInvIs DEF Fresh
<1> DEFINE removed == (e.was \ e.opts) \ {e.from}
           dropped == field.dropped \cup removed
           forced == field.forced \cup {w \in removed : e.force}
           odd == field.odd \/ e.raced
<1>5. field' = [st |-> e.st, opts |-> e.opts, dropped |-> dropped, forced |-> forced, odd |-> odd]
  BY <1>2 DEF SaveContactField
<1>6. contact' = [c \in Ids |-> [contact[c] EXCEPT !.opt = ApplyOptionRename(@, e.from, e.to)]]
  BY <1>2 DEF SaveContactField
<1>7. holder' = [h \in Holders |-> RewriteConfigValueWithin(holder[h], e.from, e.to)]
  BY <1>2 DEF SaveContactField
<1>8. field.dropped \subseteq Words /\ field.forced \subseteq Words /\ field.odd \in BOOLEAN
  BY LabelsInvIs DEF FieldType
<1>9. dropped \subseteq Words /\ forced \subseteq Words /\ odd \in BOOLEAN
  BY <1>3, <1>8
<1>10. ~odd => ~field.odd /\ FieldFresh(e)
  BY <1>4
<1>11. /\ field' \in FieldType /\ field'.st = e.st /\ field'.opts = e.opts
       /\ field'.dropped = dropped /\ field'.forced = forced /\ field'.odd = odd
  <2> HIDE DEF dropped, forced, odd
  <2> QED  BY <1>3, <1>5, <1>9 DEF FieldType
<1>12. \A c \in Ids : contact'[c].opt = ApplyOptionRename(contact[c].opt, e.from, e.to)
  BY <1>6 DEF Contact
<1> DEFINE H(h) == RewriteConfigValueWithin(holder[h], e.from, e.to)
<1>13. ASSUME NEW h \in Holders
       PROVE  /\ H(h) \in Holder /\ H(h).at = holder[h].at /\ H(h).seg = holder[h].seg
              /\ holder[h].odd => H(h).odd
              /\ holder[h].at = "gone" => H(h) = holder[h]
              /\ holder[h].at = "live" => H(h).opt = ApplyOptionRename(holder[h].opt, e.from, e.to)
  <2>1. holder[h] \in Holder
    BY LabelsInvIs
  <2>2. CASE holder[h].at = "live" /\ holder[h].opt # None /\ e.from # None
    <3> DEFINE opt == IF holder[h].opt = e.from THEN e.to ELSE holder[h].opt
               tag == IF holder[h].tag = e.from THEN e.to ELSE holder[h].tag
               o == holder[h].odd \/ holder[h].tag = e.from
               r == [holder[h] EXCEPT !.opt = opt, !.tag = tag, !.odd = o]
    <3>1. H(h) = r
      BY <2>1, <2>2 DEF RewriteConfigValueWithin, Holder
    <3>2. tag \in Words \cup {None} /\ opt \in Words \cup {None} /\ o \in BOOLEAN
      BY <1>3, <2>1 DEF Holder
    <3>3. (holder[h].odd => o) /\ opt = ApplyOptionRename(holder[h].opt, e.from, e.to)
      BY <2>2 DEF ApplyOptionRename
    <3> HIDE DEF opt, tag, o
    <3>4. r \in Holder /\ r.at = holder[h].at /\ r.seg = holder[h].seg /\ r.opt = opt /\ r.odd = o
      BY <2>1, <3>2 DEF Holder
    <3> HIDE DEF r
    <3> QED  BY <2>2, <3>1, <3>3, <3>4
  <2>3. CASE ~(holder[h].at = "live" /\ holder[h].opt # None /\ e.from # None)
    <3>1. H(h) = holder[h]
      BY <2>3 DEF RewriteConfigValueWithin
    <3>2. holder[h].at = "live" => holder[h].opt = ApplyOptionRename(holder[h].opt, e.from, e.to)
      BY <2>3 DEF ApplyOptionRename
    <3> HIDE DEF H
    <3> QED  BY <2>1, <3>1, <3>2
  <2> QED  BY <2>2, <2>3
<1>14. \A h \in Holders : holder'[h] = H(h)
  BY <1>7
<1>15. holder' \in [Holders -> Holder]
  BY <1>7, <1>13
<1> HIDE DEF H
<1>16. HoldersInv'
  BY <1>13, <1>14, LabelsInvIs, HoldersStay
<1>17. ASSUME FieldFresh(e), NEW x, x \in field.opts  PROVE ApplyOptionRename(x, e.from, e.to) \in e.opts \cup removed
  <2>1. CASE e.from # None /\ x = e.from
    BY <1>17, <2>1 DEF FieldFresh, ApplyOptionRename
  <2>2. CASE ~(e.from # None /\ x = e.from)
    <3>1. ApplyOptionRename(x, e.from, e.to) = x
      BY <2>2 DEF ApplyOptionRename
    <3>2. x # e.from
      <4>1. field.opts \subseteq Words
        BY LabelsInvIs DEF FieldType
      <4> QED  BY <1>17, <2>2, <4>1, ContactsAssumption
    <3> QED  BY <1>17, <3>1, <3>2 DEF FieldFresh
  <2> QED  BY <2>1, <2>2
<1>18. ASSUME FieldFresh(e), NEW x
       PROVE  \/ ApplyOptionRename(x, e.from, e.to) = x
              \/ x = e.from /\ ApplyOptionRename(x, e.from, e.to) \in e.opts
  BY <1>18 DEF FieldFresh, ApplyOptionRename
<1>19. ValuesOffered'
  <2> SUFFICES ASSUME ~odd, NEW c \in Ids
               PROVE  contact'[c].opt \in e.opts \cup dropped \cup {None}
    BY <1>11 DEF ValuesOffered
  <2>1. FieldFresh(e) /\ contact[c].opt \in field.opts \cup field.dropped \cup {None}
    BY <1>10, LabelsInvIs DEF ValuesOffered
  <2>2. PICK x : x = contact[c].opt
    OBVIOUS
  <2>3. contact'[c].opt = ApplyOptionRename(x, e.from, e.to)
    BY <1>12, <2>2
  <2>4. CASE x \in field.opts
    BY <1>17, <2>1, <2>3, <2>4
  <2>5. CASE x \in field.dropped \cup {None}
    BY <1>18, <2>1, <2>3, <2>5
  <2> QED  BY <2>1, <2>2, <2>4, <2>5
<1>20. FiltersMatch'
  <2> SUFFICES ASSUME ~odd, NEW h \in Holders, holder'[h].at = "live", ~holder'[h].odd
               PROVE  holder'[h].opt \in e.opts \cup forced \cup {None}
    BY <1>11 DEF FiltersMatch
  <2>1. FieldFresh(e) /\ field.st # "gone" /\ ~field.odd
    BY <1>10 DEF FieldFresh
  <2>2. holder[h].at = "live" /\ ~holder[h].odd /\ holder'[h].opt = ApplyOptionRename(holder[h].opt, e.from, e.to)
    BY <1>13, <1>14
  <2>3. PICK x : x = holder[h].opt
    OBVIOUS
  <2>4. x \in field.opts \cup field.forced \cup {None} /\ holder'[h].opt = ApplyOptionRename(x, e.from, e.to)
    BY <2>1, <2>2, <2>3, LabelsInvIs DEF FiltersMatch
  <2>5. CASE x \in field.opts
    <3>1. CASE x \in removed
      <4>1. ApplyOptionRename(x, e.from, e.to) = x
        BY <3>1 DEF ApplyOptionRename
      <4>2. e.force
        <5>1. h \in FindDependents(x)
          BY <2>2, <2>3 DEF FindDependents
        <5>2. OptionsStillInUse(removed)
          BY <3>1, <5>1 DEF OptionsStillInUse
        <5> QED  BY <2>1, <5>2 DEF FieldFresh
      <4> QED  BY <2>4, <3>1, <4>1, <4>2
    <3>2. CASE x \notin removed
      <4>1. x \in e.opts \/ x = e.from
        BY <2>1, <2>5, <3>2 DEF FieldFresh
      <4>2. x # None
        <5>1. field.opts \subseteq Words
          BY LabelsInvIs DEF FieldType
        <5> QED  BY <2>5, <5>1, ContactsAssumption
      <4>3. ApplyOptionRename(x, e.from, e.to) \in e.opts
        BY <2>1, <4>1, <4>2 DEF ApplyOptionRename, FieldFresh
      <4> QED  BY <2>4, <4>3
    <3> QED  BY <3>1, <3>2
  <2>6. CASE x \in field.forced \cup {None}
    BY <1>18, <2>1, <2>4, <2>6
  <2> QED  BY <2>4, <2>5, <2>6
<1> QED  BY <1>1, <1>11, <1>15, <1>16, <1>19, <1>20, LabelsInvIs, LoudKeeps

LEMMA DeleteFieldLabels ==
  ASSUME LabelsIInv, contact \in [Ids -> Contact], DeleteContactField
  PROVE  LabelsIInv'
<1>1. /\ field' = [field EXCEPT !.st = "gone", !.opts = {}] /\ edits' = Raced({}) /\ UNCHANGED <<tagdef, holder>>
      /\ contact' = [c \in Ids |-> [contact[c] EXCEPT !.opt = None]]
  BY DEF DeleteContactField
<1>2. field' \in FieldType /\ field'.st = "gone"
  BY <1>1, LabelsInvIs DEF FieldType
<1>3. \A c \in Ids : contact'[c].opt = None
  BY <1>1 DEF Contact
<1>4. HoldersInv' /\ FiltersMatch' /\ ValuesOffered'
  BY <1>1, <1>2, <1>3, LabelsInvIs DEF HoldersInv, GoneEmpty, NamesStand, NoRing, FiltersMatch, ValuesOffered
<1> QED  BY <1>1, <1>2, <1>4, LabelsInvIs, LoudKeeps

LEMMA WriteValueLabels ==
  ASSUME LabelsIInv, contact \in [Ids -> Contact], NEW i \in Slots, WriteValue(i)
  PROVE  LabelsIInv'
<1>1. edits[i].k = "value" /\ edits' = Raced({i}) /\ UNCHANGED <<tagdef, holder>>
  BY DEF WriteValue, Finishes
<1>2. PICK e \in ValueEdit : e = edits[i]
  BY <1>1, LabelsInvIs, KindOfEdit
<1>3. e.raced \/ e.w \in field.opts
  BY <1>1, <1>2, LabelsInvIs DEF Fresh
<1> DEFINE odd == field.odd \/ e.raced
<1>4. field' = [field EXCEPT !.odd = odd] /\ contact' = [contact EXCEPT ![e.c].opt = e.w]
  BY <1>2, LabelsInvIs DEF WriteValue, FieldType
<1>5. odd \in BOOLEAN /\ (~odd => ~field.odd /\ e.w \in field.opts)
  BY <1>3, LabelsInvIs DEF FieldType, ValueEdit
<1> HIDE DEF odd
<1>6. /\ field' \in FieldType /\ field'.st = field.st /\ field'.opts = field.opts /\ field'.dropped = field.dropped
      /\ field'.forced = field.forced /\ field'.odd = odd
  BY <1>4, <1>5, LabelsInvIs DEF FieldType
<1>7. \A c \in Ids : contact'[c].opt = contact[c].opt \/ contact'[c].opt = e.w
  BY <1>4 DEF Contact
<1>8. ValuesOffered'
  BY <1>5, <1>6, <1>7, LabelsInvIs DEF ValuesOffered
<1>9. HoldersInv' /\ FiltersMatch'
  BY <1>1, <1>5, <1>6, LabelsInvIs DEF HoldersInv, GoneEmpty, NamesStand, NoRing, FiltersMatch
<1> QED  BY <1>1, <1>6, <1>8, <1>9, LabelsInvIs, LoudKeeps

-----------------------------------------------------------------------------
(* Every step                                                                 *)

LEMMA ContactsNextKeeps ==
  ASSUME ContactsIInv, ContactsNext
  PROVE  ContactsIInv'
<1>1. CASE Inbound
  <2>1. "inbound" \in Callers /\ "intl" \in Texts
    BY DEF Callers, Texts
  <2> QED  BY <1>1, <2>1, ResolveKeeps DEF Inbound
<1>2. CASE SyncAdd
  <2>1. "sync" \in Callers /\ "intl" \in Texts
    BY DEF Callers, Texts
  <2> QED  BY <1>2, <2>1, ResolveKeeps DEF SyncAdd
<1>3. CASE SyncRemove \/ ScanDuplicates \/ Restart
  BY <1>3, SyncRemoveKeeps, PairsKeep, RestartKeeps
<1>4. CASE \E text \in Texts : CreateContact(text)
  <2>1. "create" \in Callers
    BY DEF Callers
  <2> QED  BY <1>4, <2>1, ResolveKeeps DEF CreateContact
<1>5. CASE \E policy \in {"update", "create_anyway"}, w \in Words : ImportContactsCSV(policy, {w})
  BY <1>5, ImportKeeps DEF ImportContactsCSV
<1>6. CASE \E i \in Slots : Create(i) \/ RestoreContact(i) \/ FileMessage(i) \/ WriteTags(i) \/ EndWork(i) \/ Merge(i)
  BY <1>6, CreateKeeps, RestoreKeeps, FileMessageKeeps, WriteTagsKeeps, EndWorkKeeps, MergeKeeps
<1>7. CASE \E c \in Ids : WorkChanges(c) \/ DeleteContact(c) \/ \E s \in Ids : MergeContacts(c, s)
  BY <1>7, WorkChangesKeeps, DeleteKeeps, MergeContactsKeeps
<1>8. ASSUME NEW c \in Ids, NEW u \in Owners,
             \/ AssignContact(c, u) \/ SetContactOwner(c, u) \/ UpdateContact(c, u, {})
             \/ \E v \in Users : ApplyBulkOwner(v, c, u)
      PROVE  ContactsIInv'
  <2>1. /\ Request /\ UNCHANGED <<work, pair, member, jobs, lost>>
        /\ Owned(c, u) \/ Tagged(c, {})
    BY <1>8 DEF AssignContact, SetContactOwner, UpdateContact, ApplyBulkOwner
  <2>2. {} \in SUBSET Words
    OBVIOUS
  <2> QED  BY <2>1, <2>2, OwnedKeeps, TaggedKeeps
<1>9. CASE \E c \in Ids : \E u \in Users : SendMessage(u, c) \/ CreateConversationNote(u, c) \/ DeleteConversationNote(u, c)
  BY <1>9, SendMessageKeeps, NotesKeep
<1>10. ASSUME NEW c \in Ids, NEW w \in Words,
            \/ UpdateContactTags(c, {w}) \/ RemoveTags(c, {w})
            \/ \E v \in Users : BulkUpdateContacts(v, c, {w}, {}) \/ BulkUpdateContacts(v, c, {}, {w})
       PROVE  ContactsIInv'
  <2>1. {w} \in SUBSET Words /\ {} \in SUBSET Words
    OBVIOUS
  <2>2. CASE UpdateContactTags(c, {w})
    BY <2>1, <2>2, TaggedKeeps DEF UpdateContactTags
  <2>3. CASE Request /\ (ReadTags(c, {}, {w}) \/ ReadTags(c, {w}, {}))
    BY <2>1, <2>3, ReadTagsKeeps
  <2> QED  BY <1>10, <2>2, <2>3 DEF RemoveTags, BulkUpdateContacts
<1>11. CASE (\E p \in Pairs : DismissDuplicate(p)) \/ (\E u \in Users : LeavesTeam(u))
  BY <1>11, PairsKeep
<1> QED  BY <1>1, <1>2, <1>3, <1>4, <1>5, <1>6, <1>7, <1>8, <1>9, <1>10, <1>11 DEF ContactsNext

(* No request on contacts gives one a value of the field no contact had. *)
ValuesKept == \A c \in Ids : contact'[c].opt = None \/ \E d \in Ids : contact'[c].opt = contact[d].opt

LEMMA SameOpts ==
  ASSUME \A c \in Ids : contact'[c].opt = contact[c].opt
  PROVE  ValuesKept
BY DEF ValuesKept

LEMMA ContactsNextValues ==
  ASSUME ContactsIInv, ContactsNext
  PROVE  ValuesKept
<1>1. contact \in [Ids -> Contact] /\ jobs \in [Slots -> Job]
  BY IInvIs
<1>2. CASE UNCHANGED contact
  BY <1>2 DEF ValuesKept
<1>3. ASSUME NEW c \in Ids, NEW u, contact' = [contact EXCEPT ![c].owner = u]  PROVE ValuesKept
  BY <1>1, <1>3, SameOpts DEF Contact
<1>4. ASSUME NEW c \in Ids, NEW g, contact' = [contact EXCEPT ![c].tags = g]  PROVE ValuesKept
  BY <1>1, <1>4, SameOpts DEF Contact
<1>5. ASSUME NEW c \in Ids, NEW st, contact' = [contact EXCEPT ![c].st = st]  PROVE ValuesKept
  BY <1>1, <1>5, SameOpts DEF Contact
<1>6. CASE Inbound \/ SyncAdd \/ \E text \in Texts : CreateContact(text)
  BY <1>2, <1>6 DEF Inbound, SyncAdd, CreateContact, Resolve
<1>7. CASE \E policy \in {"update", "create_anyway"}, w \in Words : ImportContactsCSV(policy, {w})
  BY <1>2, <1>7 DEF ImportContactsCSV, ImportOneContact
<1>8. CASE SyncRemove
  BY <1>5, <1>8 DEF SyncRemove, FindContact
<1>9. CASE ScanDuplicates \/ Restart \/ (\E p \in Pairs : DismissDuplicate(p)) \/ (\E u \in Users : LeavesTeam(u))
  BY <1>2, <1>9 DEF ScanDuplicates, Restart, DismissDuplicate, LeavesTeam
<1>10. ASSUME NEW i \in Slots, Create(i)  PROVE ValuesKept
  <2>1. \/ UNCHANGED contact
        \/ \E n \in Ids : contact' = [contact EXCEPT ![n] =
                       [NoContact EXCEPT !.st = "live", !.num = jobs[i].num, !.tags = jobs[i].tags]]
    BY <1>10 DEF Create
  <2>2. ASSUME NEW n \in Ids, contact' = [contact EXCEPT ![n] =
                       [NoContact EXCEPT !.st = "live", !.num = jobs[i].num, !.tags = jobs[i].tags]]
        PROVE  ValuesKept
    <3> DEFINE r == [NoContact EXCEPT !.st = "live", !.num = jobs[i].num, !.tags = jobs[i].tags]
    <3>1. r.opt = None
      BY DEF NoContact
    <3>2. contact' = [contact EXCEPT ![n] = r]
      BY <2>2
    <3> HIDE DEF r
    <3> QED  BY <1>1, <3>1, <3>2 DEF ValuesKept
  <2> QED  BY <1>2, <2>1, <2>2
<1>11. ASSUME NEW i \in Slots, RestoreContact(i)  PROVE ValuesKept
  <2>1. PICK c \in Ids : c = jobs[i].c
    BY <1>1, <1>11, KindOfJob DEF RestoreContact, RestoreJob
  <2>2. contact' = contact \/ contact' = [contact EXCEPT ![c].st = "live"]
    BY <1>11, <2>1 DEF RestoreContact
  <2> QED  BY <1>2, <1>5, <2>2
<1>12. ASSUME NEW i \in Slots, FileMessage(i) \/ EndWork(i)  PROVE ValuesKept
  BY <1>2, <1>12 DEF FileMessage, EndWork
<1>13. ASSUME NEW i \in Slots, WriteTags(i)  PROVE ValuesKept
  <2>1. PICK c \in Ids : c = jobs[i].c
    BY <1>1, <1>13, KindOfJob DEF WriteTags, TagsJob
  <2>2. contact' = contact \/ contact' = [contact EXCEPT ![c].tags = ApplyTags(jobs[i].read, jobs[i].add, jobs[i].drop)]
    BY <1>13, <2>1 DEF WriteTags
  <2> QED  BY <1>2, <1>4, <2>2
<1>14. ASSUME NEW i \in Slots, Merge(i)  PROVE ValuesKept
  <2>a. jobs[i].k = "merge"
    BY <1>14 DEF Merge
  <2>1. PICK p \in Ids, s \in Ids : p = jobs[i].p /\ s = jobs[i].s
    BY <2>a, IInvIs, KindOfJob DEF MergeJob
  <2>2. /\ contact'[p].opt \in {contact[p].opt, contact[s].opt} /\ contact'[s].opt = None
        /\ \A c \in Ids \ {p, s} : contact'[c] = contact[c]
    BY <1>14, <2>1, MergeIs
  <2> QED  BY <2>2 DEF ValuesKept
<1>15. ASSUME NEW c \in Ids, WorkChanges(c) \/ DeleteContact(c) \/ \E s \in Ids : MergeContacts(c, s)  PROVE ValuesKept
  BY <1>2, <1>5, <1>15 DEF WorkChanges, DeleteContact, MergeContacts
<1>16. ASSUME NEW c \in Ids, NEW u \in Owners,
             \/ AssignContact(c, u) \/ SetContactOwner(c, u) \/ UpdateContact(c, u, {})
             \/ \E v \in Users : ApplyBulkOwner(v, c, u)
       PROVE  ValuesKept
  <2>1. Owned(c, u) \/ Tagged(c, {})
    BY <1>16 DEF AssignContact, SetContactOwner, UpdateContact, ApplyBulkOwner
  <2> QED  BY <1>3, <1>4, <2>1 DEF Owned, Tagged
<1>17. ASSUME NEW c \in Ids, NEW u \in Users, SendMessage(u, c) \/ CreateConversationNote(u, c) \/ DeleteConversationNote(u, c)
       PROVE  ValuesKept
  BY <1>2, <1>17 DEF SendMessage, CreateConversationNote, DeleteConversationNote
<1>18. ASSUME NEW c \in Ids, NEW w \in Words,
            \/ UpdateContactTags(c, {w}) \/ RemoveTags(c, {w})
            \/ \E v \in Users : BulkUpdateContacts(v, c, {w}, {}) \/ BulkUpdateContacts(v, c, {}, {w})
       PROVE  ValuesKept
  <2>1. Tagged(c, {w}) \/ UNCHANGED contact
    BY <1>18 DEF UpdateContactTags, RemoveTags, BulkUpdateContacts, ReadTags
  <2> QED  BY <1>2, <1>4, <2>1 DEF Tagged
<1> QED  BY <1>6, <1>7, <1>8, <1>9, <1>10, <1>11, <1>12, <1>13, <1>14, <1>15, <1>16, <1>17, <1>18 DEF ContactsNext

LEMMA ContactsNextLabels ==
  ASSUME ContactsIInv, LabelsIInv, ContactsNext, edits' = IF contact' # contact THEN Raced({}) ELSE edits,
         UNCHANGED <<tagdef, field, holder>>
  PROVE  LabelsIInv'
<1>1. CASE contact' = contact
  <2>1. edits' = edits
    BY <1>1
  <2> QED  BY <1>1, <2>1, LabelsInvIs, QuietKeeps
<1>2. CASE contact' # contact
  <2>1. edits' = Raced({})
    BY <1>2
  <2> QED  BY <2>1, ContactsNextValues, LabelsInvIs, ContactsWritten DEF ValuesKept
<1> QED  BY <1>1, <1>2

(* The edits leave everything about contacts alone but tags and values. *)
SameRecords == jobs' = jobs /\ pair' = pair /\ \A c \in Ids : contact'[c].st = contact[c].st

LEMMA QuietEdits ==
  ASSUME ContactsIInv, Request, NotContacts
  PROVE  ContactsIInv' /\ SameRecords
<1>1. /\ UNCHANGED <<contact, work, jobs, lost>> /\ pair' = pair /\ member' = member
  BY DEF NotContacts
<1>2. pair' \in [Pairs -> PairMarks] /\ member' \subseteq Members
  BY <1>1, IInvIs
<1> QED  BY <1>1, <1>2, AsideKeeps DEF SameRecords

LEMMA StutterKeeps ==
  ASSUME ContactsIInv, UNCHANGED contactVars
  PROVE  ContactsIInv' /\ SameRecords
<1>1. /\ UNCHANGED <<contact, work, jobs, lost, pair, member, ops>>
  BY DEF contactVars
<1>2. contact' \in [Ids -> Contact] /\ ops' \in 0..MaxOps
  BY <1>1, IInvIs
<1> QED  BY <1>1, <1>2, EditKeeps DEF SameRecords

LEMMA NewTags ==
  ASSUME NEW r \in Contact, NEW g \in SUBSET Words, NEW x, x = [r EXCEPT !.tags = g]
  PROVE  x \in Contact /\ x.st = r.st /\ x.into = r.into
BY DEF Contact

LEMMA NewOpt ==
  ASSUME NEW r \in Contact, NEW w \in Words \cup {None}, NEW x, x = [r EXCEPT !.opt = w]
  PROVE  x \in Contact /\ x.st = r.st /\ x.into = r.into
BY DEF Contact

LEMMA UpdateTagStepKeeps ==
  ASSUME ContactsIInv, LabelsIInv, NEW i \in Slots, UpdateTagStep(i)
  PROVE  ContactsIInv' /\ SameRecords
<1>1. UNCHANGED <<work, pair, member, jobs, lost, ops>> /\ edits[i].k = "rename"
  BY DEF UpdateTagStep
<1>2. ops' \in 0..MaxOps /\ contact \in [Ids -> Contact]
  BY <1>1, IInvIs
<1>3. PICK from \in Words, to \in Words : from = edits[i].from /\ to = edits[i].to
  BY <1>1, LabelsInvIs, KindOfEdit DEF RenameEdit
<1>4. edits[i].step \in 1..4
  BY <1>1, LabelsInvIs, KindOfEdit DEF RenameEdit
<1>5. \/ contact' = contact
      \/ contact' = [c \in Ids |-> IF from \in contact[c].tags
                   THEN [contact[c] EXCEPT !.tags = (@ \ {from}) \cup {to}] ELSE contact[c]]
  <2>1. CASE edits[i].step = 1
    BY <1>3, <2>1 DEF UpdateTagStep
  <2>2. CASE edits[i].step = 2
    BY <1>3, <2>2 DEF UpdateTagStep
  <2>3. CASE edits[i].step = 3
    BY <1>3, <2>3 DEF UpdateTagStep
  <2>4. CASE edits[i].step = 4
    BY <1>3, <2>4 DEF UpdateTagStep
  <2> QED  BY <1>4, <2>1, <2>2, <2>3, <2>4
<1>6. \A c \in Ids : contact[c] \in Contact /\ (contact[c].tags \ {from}) \cup {to} \in SUBSET Words
  BY <1>2, TagsTyped
<1>7. contact' \in [Ids -> Contact] /\ \A c \in Ids : contact'[c].st = contact[c].st /\ contact'[c].into = contact[c].into
  <2>1. CASE contact' = contact
    BY <1>2, <2>1
  <2>2. CASE contact' = [c \in Ids |-> IF from \in contact[c].tags
                   THEN [contact[c] EXCEPT !.tags = (@ \ {from}) \cup {to}] ELSE contact[c]]
    <3>1. \A c \in Ids : contact'[c] = IF from \in contact[c].tags
                   THEN [contact[c] EXCEPT !.tags = (contact[c].tags \ {from}) \cup {to}] ELSE contact[c]
      BY <2>2
    <3>2. ASSUME NEW c \in Ids
          PROVE  contact'[c] \in Contact /\ contact'[c].st = contact[c].st /\ contact'[c].into = contact[c].into
      <4>1. CASE from \in contact[c].tags
        <5>1. PICK g \in SUBSET Words : g = (contact[c].tags \ {from}) \cup {to}
          BY <1>6
        <5>2. contact'[c] = [contact[c] EXCEPT !.tags = g]
          BY <3>1, <4>1, <5>1
        <5> QED  BY <1>6, <5>2, NewTags
      <4>2. CASE from \notin contact[c].tags
        <5>1. contact'[c] = contact[c]
          BY <3>1, <4>2
        <5> QED  BY <1>6, <5>1
      <4> QED  BY <4>1, <4>2
    <3> QED  BY <2>2, <3>2
  <2> QED  BY <1>5, <2>1, <2>2
<1> QED  BY <1>1, <1>2, <1>7, EditKeeps DEF SameRecords

LEMMA DeleteTagKeeps ==
  ASSUME ContactsIInv, NEW w \in Words, DeleteTag(w)
  PROVE  ContactsIInv' /\ SameRecords
<1>1. /\ UNCHANGED <<work, pair, member, jobs, lost>> /\ Request
      /\ contact' = [c \in Ids |-> [contact[c] EXCEPT !.tags = @ \ {w}]]
  BY DEF DeleteTag
<1>2. \A c \in Ids : contact[c] \in Contact /\ contact[c].tags \ {w} \in SUBSET Words
  BY TagsTyped
<1>3. \A c \in Ids : contact'[c] = [contact[c] EXCEPT !.tags = contact[c].tags \ {w}]
  BY <1>1
<1>4. ASSUME NEW c \in Ids
      PROVE  contact'[c] \in Contact /\ contact'[c].st = contact[c].st /\ contact'[c].into = contact[c].into
  <2>1. PICK g \in SUBSET Words : g = contact[c].tags \ {w}
    BY <1>2
  <2>2. contact'[c] = [contact[c] EXCEPT !.tags = g]
    BY <1>3, <2>1
  <2> QED  BY <1>2, <2>2, NewTags
<1>5. contact' \in [Ids -> Contact]
  BY <1>1, <1>4
<1> QED  BY <1>1, <1>4, <1>5, RequestCounts, EditKeeps DEF SameRecords

LEMMA EnsureTagsKeeps ==
  ASSUME ContactsIInv, LabelsIInv, NEW i \in Slots, EnsureTags(i)
  PROVE  ContactsIInv' /\ SameRecords
<1>1. UNCHANGED <<work, pair, member, jobs, lost, ops>> /\ edits[i].k = "tag"
  BY DEF EnsureTags
<1>2. PICK c \in Ids, g \in SUBSET Words : c = edits[i].c /\ g = edits[i].read \cup {edits[i].w}
  <2>1. edits[i] \in TagEdit
    BY <1>1, LabelsInvIs, KindOfEdit
  <2>2. edits[i].c \in Ids /\ edits[i].read \cup {edits[i].w} \in SUBSET Words
    BY <2>1 DEF TagEdit
  <2> QED  BY <2>2
<1>3. contact' = contact \/ contact' = [contact EXCEPT ![c].tags = g]
  BY <1>2 DEF EnsureTags
<1>4. ops' \in 0..MaxOps /\ contact \in [Ids -> Contact]
  BY <1>1, IInvIs
<1>5. ASSUME NEW d \in Ids
      PROVE  contact'[d] \in Contact /\ contact'[d].st = contact[d].st /\ contact'[d].into = contact[d].into
  <2>1. contact'[d] = contact[d] \/ contact'[d] = [contact[d] EXCEPT !.tags = g]
    BY <1>3, <1>4
  <2> QED  BY <2>1, TagsTyped, NewTags
<1>6. contact' \in [Ids -> Contact]
  BY <1>3, <1>4, <1>5
<1> QED  BY <1>1, <1>4, <1>5, <1>6, EditKeeps DEF SameRecords

LEMMA SaveFieldKeeps ==
  ASSUME ContactsIInv, LabelsIInv, NEW i \in Slots, SaveContactField(i)
  PROVE  ContactsIInv' /\ SameRecords
<1>1. UNCHANGED <<work, pair, member, jobs, lost, ops>> /\ edits[i].k = "field"
  BY DEF SaveContactField
<1>2. PICK from \in Words \cup {None}, to \in Words \cup {None} : from = edits[i].from /\ to = edits[i].to
  BY <1>1, LabelsInvIs, KindOfEdit DEF FieldEdit
<1>3. contact' = [c \in Ids |-> [contact[c] EXCEPT !.opt = ApplyOptionRename(contact[c].opt, from, to)]]
  BY <1>2 DEF SaveContactField
<1>4. \A c \in Ids : contact[c] \in Contact /\ ApplyOptionRename(contact[c].opt, from, to) \in Words \cup {None}
  BY TagsTyped DEF ApplyOptionRename
<1>5. \A c \in Ids : contact'[c] = [contact[c] EXCEPT !.opt = ApplyOptionRename(contact[c].opt, from, to)]
  BY <1>3
<1>6. ASSUME NEW c \in Ids
      PROVE  contact'[c] \in Contact /\ contact'[c].st = contact[c].st /\ contact'[c].into = contact[c].into
  <2>1. contact'[c] = [contact[c] EXCEPT !.opt = ApplyOptionRename(contact[c].opt, from, to)]
    BY <1>5
  <2> QED  BY <1>4, <2>1, NewOpt
<1>7. contact' \in [Ids -> Contact]
  BY <1>3, <1>6
<1>8. ops' \in 0..MaxOps
  BY <1>1, IInvIs
<1> QED  BY <1>1, <1>6, <1>7, <1>8, EditKeeps DEF SameRecords

LEMMA DeleteFieldKeeps ==
  ASSUME ContactsIInv, DeleteContactField
  PROVE  ContactsIInv' /\ SameRecords
<1>1. /\ UNCHANGED <<work, pair, member, jobs, lost>> /\ Request
      /\ contact' = [c \in Ids |-> [contact[c] EXCEPT !.opt = None]]
  BY DEF DeleteContactField
<1>2. \A c \in Ids : contact'[c] = [contact[c] EXCEPT !.opt = None]
  BY <1>1
<1>3. ASSUME NEW c \in Ids
      PROVE  contact'[c] \in Contact /\ contact'[c].st = contact[c].st /\ contact'[c].into = contact[c].into
  <2>1. contact'[c] = [contact[c] EXCEPT !.opt = None]
    BY <1>2
  <2> QED  BY <2>1, TagsTyped, NewOpt
<1>4. contact' \in [Ids -> Contact]
  BY <1>1, <1>3
<1> QED  BY <1>1, <1>3, <1>4, RequestCounts, EditKeeps DEF SameRecords

LEMMA WriteValueKeeps ==
  ASSUME ContactsIInv, LabelsIInv, NEW i \in Slots, WriteValue(i)
  PROVE  ContactsIInv' /\ SameRecords
<1>1. UNCHANGED <<work, pair, member, jobs, lost, ops>> /\ edits[i].k = "value"
  BY DEF WriteValue
<1>2. PICK c \in Ids, w \in Words : c = edits[i].c /\ w = edits[i].w
  BY <1>1, LabelsInvIs, KindOfEdit DEF ValueEdit
<1>3. contact' = [contact EXCEPT ![c].opt = w]
  BY <1>2 DEF WriteValue
<1>4. ops' \in 0..MaxOps /\ contact \in [Ids -> Contact]
  BY <1>1, IInvIs
<1>6. ASSUME NEW d \in Ids
      PROVE  contact'[d] \in Contact /\ contact'[d].st = contact[d].st /\ contact'[d].into = contact[d].into
  <2>1. contact'[d] = contact[d] \/ contact'[d] = [contact[d] EXCEPT !.opt = w]
    BY <1>3, <1>4
  <2> QED  BY <2>1, TagsTyped, NewOpt
<1>7. contact' \in [Ids -> Contact]
  BY <1>3, <1>4, <1>6
<1> QED  BY <1>1, <1>4, <1>6, <1>7, EditKeeps DEF SameRecords

(* The edits of the field the model offers. *)
FieldUpdates ==
  \/ UpdateContactField(field.opts, None, None, FALSE, IF field.st = "live" THEN "archived" ELSE "live")
  \/ \E w \in Words :
       \/ UpdateContactField(field.opts \cup {w}, None, None, FALSE, field.st)
       \/ \E force \in BOOLEAN : UpdateContactField(field.opts \ {w}, None, None, force, field.st)
       \/ \E to \in Words : UpdateContactField((field.opts \ {w}) \cup {to}, w, to, FALSE, field.st)

LEMMA FieldUpdatesKeep ==
  ASSUME ContactsIInv, LabelsIInv, FieldUpdates
  PROVE  ContactsIInv' /\ SameRecords /\ LabelsIInv'
<1>1. Request /\ NotContacts
  BY DEF FieldUpdates, UpdateContactField
<1>2. ContactsIInv' /\ SameRecords
  BY <1>1, QuietEdits
<1>3. field.opts \in SUBSET Words /\ (field.st # "gone" => field.st \in {"live", "archived"})
  BY LabelsInvIs DEF FieldType
<1>4. \A w \in Words : field.opts \cup {w} \in SUBSET Words /\ field.opts \ {w} \in SUBSET Words
                       /\ \A to \in Words : (field.opts \ {w}) \cup {to} \in SUBSET Words
  BY <1>3
<1>5. CASE UpdateContactField(field.opts, None, None, FALSE, IF field.st = "live" THEN "archived" ELSE "live")
  <2>1. (IF field.st = "live" THEN "archived" ELSE "live") \in {"live", "archived"}
    OBVIOUS
  <2> QED  BY <1>2, <1>3, <1>5, <2>1, UpdateFieldLabels
<1>6. ASSUME NEW w \in Words, UpdateContactField(field.opts \cup {w}, None, None, FALSE, field.st)
      PROVE  LabelsIInv'
  BY <1>3, <1>4, <1>6, UpdateFieldLabels
<1>7. ASSUME NEW w \in Words, NEW force \in BOOLEAN, UpdateContactField(field.opts \ {w}, None, None, force, field.st)
      PROVE  LabelsIInv'
  BY <1>3, <1>4, <1>7, UpdateFieldLabels
<1>8. ASSUME NEW w \in Words, NEW to \in Words, UpdateContactField((field.opts \ {w}) \cup {to}, w, to, FALSE, field.st)
      PROVE  LabelsIInv'
  BY <1>3, <1>4, <1>8, UpdateFieldLabels
<1> QED  BY <1>2, <1>5, <1>6, <1>7, <1>8 DEF FieldUpdates

LEMMA LabelsNextKeeps ==
  ASSUME ContactsIInv, LabelsIInv, LabelsNext
  PROVE  ContactsIInv' /\ SameRecords /\ LabelsIInv'
<1>a. contact \in [Ids -> Contact]
  BY IInvIs
<1>1. ASSUME DeleteContactField  PROVE ContactsIInv' /\ SameRecords /\ LabelsIInv'
  BY <1>a, <1>1, DeleteFieldKeeps, DeleteFieldLabels
<1>2. ASSUME NEW w \in Words, CreateTag(w)  PROVE ContactsIInv' /\ SameRecords /\ LabelsIInv'
  <2>1. Request /\ NotContacts
    BY <1>2 DEF CreateTag
  <2> QED  BY <1>2, <2>1, QuietEdits, CreateTagLabels
<1>3. ASSUME NEW w \in Words, DeleteTag(w)  PROVE ContactsIInv' /\ SameRecords /\ LabelsIInv'
  BY <1>a, <1>3, DeleteTagKeeps, DeleteTagLabels
<1>4. ASSUME NEW w \in Words, NEW to \in Words, UpdateTag(w, to)  PROVE ContactsIInv' /\ SameRecords /\ LabelsIInv'
  <2>1. Request /\ NotContacts
    BY <1>4 DEF UpdateTag
  <2> QED  BY <1>4, <2>1, QuietEdits, UpdateTagLabels
<1>5. ASSUME NEW w \in Words, NEW c \in Ids, SetValues(c, w)  PROVE ContactsIInv' /\ SameRecords /\ LabelsIInv'
  <2>1. Request /\ NotContacts
    BY <1>5 DEF SetValues
  <2> QED  BY <1>5, <2>1, QuietEdits, SetValuesLabels
<1>6. ASSUME NEW w \in Words, NEW c \in Ids, AddTags(c, w)  PROVE ContactsIInv' /\ SameRecords /\ LabelsIInv'
  <2>1. Request /\ NotContacts
    BY <1>6 DEF AddTags
  <2> QED  BY <1>a, <1>6, <2>1, QuietEdits, AddTagsLabels
<1>7. ASSUME NEW s \in Segments, DeleteSegment(s)  PROVE ContactsIInv' /\ SameRecords /\ LabelsIInv'
  <2>1. Request /\ NotContacts
    BY <1>7 DEF DeleteSegment
  <2> QED  BY <1>7, <2>1, QuietEdits, DeleteSegmentLabels
<1>8. ASSUME NEW s \in Segments, NEW filter \in Filters, SaveSegment(s, filter)  PROVE ContactsIInv' /\ SameRecords /\ LabelsIInv'
  <2>1. Request /\ NotContacts
    BY <1>8 DEF SaveSegment
  <2> QED  BY <1>8, <2>1, QuietEdits, SaveSegmentLabels
<1>9. ASSUME NEW s \in Segments \cup {0}, SaveRule(s)  PROVE ContactsIInv' /\ SameRecords /\ LabelsIInv'
  <2>1. Request /\ NotContacts
    BY <1>9 DEF SaveRule
  <2> QED  BY <1>9, <2>1, QuietEdits, SaveRuleLabels
<1>10. ASSUME NEW i \in Slots, UpdateTagStep(i)  PROVE ContactsIInv' /\ SameRecords /\ LabelsIInv'
  BY <1>a, <1>10, UpdateTagStepKeeps, UpdateTagStepLabels
<1>11. ASSUME NEW i \in Slots, EnsureTags(i)  PROVE ContactsIInv' /\ SameRecords /\ LabelsIInv'
  BY <1>a, <1>11, EnsureTagsKeeps, EnsureTagsLabels
<1>12. ASSUME NEW i \in Slots, WriteSegment(i)  PROVE ContactsIInv' /\ SameRecords /\ LabelsIInv'
  <2>1. UNCHANGED contactVars
    BY <1>12 DEF WriteSegment
  <2> QED  BY <1>12, <2>1, StutterKeeps, WriteSegmentLabels
<1>13. ASSUME NEW i \in Slots, RemoveSegment(i)  PROVE ContactsIInv' /\ SameRecords /\ LabelsIInv'
  <2>1. UNCHANGED contactVars
    BY <1>13 DEF RemoveSegment
  <2> QED  BY <1>13, <2>1, StutterKeeps, RemoveSegmentLabels
<1>14. ASSUME NEW i \in Slots, SaveContactField(i)  PROVE ContactsIInv' /\ SameRecords /\ LabelsIInv'
  BY <1>a, <1>14, SaveFieldKeeps, SaveFieldLabels
<1>15. ASSUME NEW i \in Slots, WriteValue(i)  PROVE ContactsIInv' /\ SameRecords /\ LabelsIInv'
  BY <1>a, <1>15, WriteValueKeeps, WriteValueLabels
<1>16. ASSUME FieldUpdates  PROVE ContactsIInv' /\ SameRecords /\ LabelsIInv'
  BY <1>16, FieldUpdatesKeep
<1> QED
  BY <1>1, <1>2, <1>3, <1>4, <1>5, <1>6, <1>7, <1>8, <1>9, <1>10, <1>11, <1>12, <1>13, <1>14, <1>15, <1>16
  DEF LabelsNext, FieldUpdates

-----------------------------------------------------------------------------
(* The initial states                                                         *)

LEMMA ContactsStart ==
  ASSUME Init
  PROVE  ContactsIInv
<1>1. PICK st \in {"live", "sync"}, t \in Users \ Readers, w \in Words :
        /\ contact = [c \in Ids |-> CASE c = 1 -> [NoContact EXCEPT !.st = "live", !.num = "local"]
                                      [] c = 2 -> [NoContact EXCEPT !.st = st, !.tags = {w}, !.opt = w]
                                      [] OTHER -> NoContact]
        /\ work = [c \in Ids |-> IF c = 2
                     THEN [NoWork EXCEPT !.conv = "team", !.transfer = t, !.hist = TRUE]
                     ELSE NoWork]
  BY DEF Init, ContactsInit
<1>2. /\ pair = [p \in Pairs |-> "none"] /\ member = Members /\ jobs = [i \in Slots |-> Idle]
      /\ lost = {} /\ ops = 0
  BY DEF Init, ContactsInit
<1>3. \A c \in Ids : /\ contact[c] \in Contact /\ contact[c].st \in {"no", "live", "sync"} /\ contact[c].into = 0
  <2> TAKE c \in Ids
  <2>1. CASE c = 1
    <3>1. contact[c] = [NoContact EXCEPT !.st = "live", !.num = "local"]
      BY <1>1, <2>1
    <3> QED  BY <3>1 DEF NoContact, Contact, Texts, Owners
  <2>2. CASE c = 2
    <3>1. contact[c] = [NoContact EXCEPT !.st = st, !.tags = {w}, !.opt = w]
      BY <1>1, <2>2
    <3>2. contact[c] = [st |-> st, num |-> "intl", into |-> 0, owner |-> None, tags |-> {w}, opt |-> w]
      BY <3>1 DEF NoContact
    <3>3. {w} \in SUBSET Words
      OBVIOUS
    <3> QED  BY <3>2, <3>3 DEF Contact, Texts, Owners
  <2>3. CASE c \notin {1, 2}
    <3>1. contact[c] = NoContact
      BY <1>1, <2>3
    <3> QED  BY <3>1 DEF NoContact, Contact, Texts, Owners
  <2> QED  BY <2>1, <2>2, <2>3
<1>4. contact \in [Ids -> Contact]
  BY <1>1, <1>3
<1>5. work \in [Ids -> Work]
  <2>1. NoWork \in Work
    BY DEF NoWork, Work, Owners
  <2>2. [NoWork EXCEPT !.conv = "team", !.transfer = t, !.hist = TRUE] \in Work
    BY DEF NoWork, Work, Owners
  <2> QED  BY <1>1, <2>1, <2>2
<1>6. \A i \in Slots : jobs[i] = Idle /\ jobs[i].k = "idle"
  BY <1>2 DEF Idle
<1>7. jobs \in [Slots -> Job]
  BY <1>2, QuietJobs
<1>8. pair \in [Pairs -> PairMarks] /\ lost \subseteq {"restart", "collision"} /\ ops \in 0..MaxOps /\ member \subseteq Members
  BY <1>2, ContactsAssumption DEF PairMarks
<1>9. MergesEnd
  <2>1. \A c \in Ids : (contact[c].st = "merged" => contact[c].into # 0) /\ contact[c].into # c
    BY <1>3, Bounds
  <2>2. {c \in Ids : contact[c].st = "merged"} = {}
    BY <1>3
  <2> QED  BY <2>1, <2>2 DEF MergesEnd
<1>10. MergeInv /\ RestoresSane
  BY <1>6, <1>9 DEF MergeInv, MergesSane, LocksHold, RestoresSane
<1>11. \A c \in Ids : Followed(c)
  BY <1>3 DEF Followed
<1> QED  BY <1>4, <1>5, <1>7, <1>8, <1>10, <1>11 DEF ContactsIInv, ContactTypes

LEMMA LabelsStart ==
  ASSUME Init
  PROVE  LabelsIInv
<1>1. PICK st \in {"live", "sync"}, x \in Words :
        contact = [c \in Ids |-> CASE c = 1 -> [NoContact EXCEPT !.st = "live", !.num = "local"]
                                   [] c = 2 -> [NoContact EXCEPT !.st = st, !.tags = {x}, !.opt = x]
                                   [] OTHER -> NoContact]
  BY DEF Init, ContactsInit
<1>2. PICK w \in contact[2].tags :
        /\ tagdef = {w}
        /\ field = [st |-> "live", opts |-> {w}, dropped |-> {}, forced |-> {}, odd |-> FALSE]
        /\ holder = [h \in Holders |->
             [at |-> "live", tag |-> IF h = 1 THEN w ELSE None, opt |-> IF h = Rule THEN w ELSE None,
              seg |-> IF h = 2 THEN 1 ELSE 0, odd |-> FALSE]]
        /\ edits = [i \in Slots |-> Idle]
  BY DEF Init, LabelsInit
<1>3. 2 \in Ids
  BY ContactsAssumption DEF Ids
<1>4. contact[2] = [NoContact EXCEPT !.st = st, !.tags = {x}, !.opt = x]
  BY <1>1, <1>3
<1>5. w = x
  BY <1>2, <1>4 DEF NoContact
<1>6. \A c \in Ids : contact[c].opt \in {None, w}
  <2> TAKE c \in Ids
  <2>1. CASE c = 1
    <3>1. contact[c] = [NoContact EXCEPT !.st = "live", !.num = "local"]
      BY <1>1, <2>1
    <3> QED  BY <3>1 DEF NoContact
  <2>2. CASE c = 2
    BY <1>4, <1>5, <2>2 DEF NoContact
  <2>3. CASE c \notin {1, 2}
    <3>1. contact[c] = NoContact
      BY <1>1, <2>3
    <3> QED  BY <3>1 DEF NoContact
  <2> QED  BY <2>1, <2>2, <2>3
<1>7. 1 \in Segments /\ 2 \in Segments
  BY LabelsAssumption DEF Segments
<1>8. \A h \in Holders : /\ holder[h].at = "live" /\ holder[h].tag \in {w, None} /\ holder[h].opt \in {w, None}
                         /\ holder[h].seg \in {0, 1} /\ (holder[h].seg = 1 => h = 2) /\ ~holder[h].odd
                         /\ holder[h] \in Holder
  <2> TAKE h \in Holders
  <2>1. holder[h] = [at |-> "live", tag |-> IF h = 1 THEN w ELSE None, opt |-> IF h = Rule THEN w ELSE None,
                     seg |-> IF h = 2 THEN 1 ELSE 0, odd |-> FALSE]
    BY <1>2
  <2>2. holder[h] \in Holder
    BY <1>5, <1>7, <2>1 DEF Holder
  <2> QED  BY <2>1, <2>2
<1>9. holder \in [Holders -> Holder]
  BY <1>2, <1>8
<1>10. field \in FieldType
  BY <1>2, <1>5 DEF FieldType
<1>11. edits \in [Slots -> Edit]
  BY <1>2, EditIs
<1>12. LabelTypes
  BY <1>2, <1>5, <1>9, <1>10, <1>11 DEF LabelTypes
<1>13. NoRing
  <2> SUFFICES ASSUME NEW S \in SUBSET Holders, S # {}  PROVE \E h \in S : holder[h].odd \/ holder[h].seg \notin S
    BY DEF NoRing
  <2>1. CASE 1 \in S
    <3>1. holder[1].seg = 0
      BY <1>8, <2>1
    <3> QED  BY <2>1, <3>1, HolderSets
  <2>2. CASE 1 \notin S
    <3>1. PICK h \in S : TRUE
      OBVIOUS
    <3>2. holder[h].seg \in {0, 1}
      BY <1>8
    <3> QED  BY <2>2, <3>2, HolderSets
  <2> QED  BY <2>1, <2>2
<1>14. HoldersInv
  <2>1. GoneEmpty
    BY <1>8 DEF GoneEmpty
  <2>2. NamesStand
    <3>1. ASSUME NEW h \in Holders, holder[h].seg # 0  PROVE holder[holder[h].seg].at = "live"
      <4>1. holder[h].seg \in Holders
        BY <1>7, <1>8, <3>1, HolderSets
      <4> QED  BY <1>8, <4>1
    <3> QED  BY <3>1 DEF NamesStand
  <2>3. holder[Rule].at = "live"
    BY <1>8, HolderSets
  <2> QED  BY <1>13, <2>1, <2>2, <2>3 DEF HoldersInv
<1>15. ValuesOffered /\ FiltersMatch
  <2>1. field.opts = {w}
    BY <1>2
  <2> QED  BY <1>6, <1>8, <2>1 DEF ValuesOffered, FiltersMatch
<1>16. \A i \in Slots : Fresh(edits[i])
  BY <1>2 DEF Fresh, Idle
<1> QED  BY <1>12, <1>14, <1>15, <1>16 DEF LabelsIInv

-----------------------------------------------------------------------------
(* The invariants                                                             *)

LEMMA NextKeeps ==
  ASSUME ContactsIInv, LabelsIInv, [Next]_vars
  PROVE  ContactsIInv' /\ LabelsIInv'
<1>1. CASE LabelsNext
  BY <1>1, LabelsNextKeeps
<1>2. CASE /\ ContactsNext
           /\ edits' = IF contact' # contact THEN Raced({}) ELSE edits
           /\ UNCHANGED <<tagdef, field, holder>>
  BY <1>2, ContactsNextKeeps, ContactsNextLabels
<1>3. CASE UNCHANGED vars
  <2>1. UNCHANGED contactVars /\ UNCHANGED <<tagdef, field, holder, edits>>
    BY <1>3 DEF vars, labelVars
  <2>2. ContactsIInv'
    BY <2>1, StutterKeeps
  <2>3. UNCHANGED <<contact, holder, field>> /\ tagdef' \subseteq Words /\ edits' = edits
    BY <2>1, LabelsInvIs DEF contactVars
  <2>4. LabelsIInv'
    BY <2>3, QuietKeeps
  <2> QED  BY <2>2, <2>4
<1> QED  BY <1>1, <1>2, <1>3 DEF Next

(* What the requests and the edits under way rely on holds in every reachable *)
(* state, for any numbers of contacts, requests, segments and words.          *)
THEOREM ContactsInvariant == Spec => [](ContactsIInv /\ LabelsIInv)
<1>1. Init => ContactsIInv /\ LabelsIInv
  BY ContactsStart, LabelsStart
<1>2. ContactsIInv /\ LabelsIInv /\ [Next]_vars => ContactsIInv' /\ LabelsIInv'
  BY NextKeeps
<1> QED  BY <1>1, <1>2, PTL DEF Spec

(* A spelling whose record was merged resolves to a record that is open. *)
LEMMA SurvivorIsFound ==
  ASSUME ContactsIInv
  PROVE  SurvivorFound
<1> SUFFICES ASSUME NEW c \in Ids, contact[c].st = "merged", Live(contact[c].into),
                    \A d \in Ids : d < c /\ contact[d].num = contact[c].num => contact[d].st \in {"no", "live", "sync"}
             PROVE  ResolveExisting(Lookup(contact[c].num), {"create", "restore"})[1] \in {"use", "restore"}
  BY DEF SurvivorFound
<1>1. PICK x : x = Lookup(contact[c].num)
  OBVIOUS
<1>2. x \in Ids /\ contact[x].num = contact[c].num /\ (~Live(x) => x <= c) /\ contact[x].st # "no"
  BY <1>1, LookupIs, Bounds
<1>3. contact[c].into # 0 /\ x # 0 /\ x \in Nat /\ c \in Nat
  BY <1>2, Bounds DEF ContactsIInv, MergeInv, MergesEnd
<1>4. CASE Live(x)
  BY <1>1, <1>3, <1>4 DEF ResolveExisting
<1>5. CASE ~Live(x) /\ x = c
  BY <1>1, <1>3, <1>5 DEF ResolveExisting
<1>6. CASE ~Live(x) /\ x # c
  <2>1. x < c
    BY <1>2, <1>3, <1>6
  <2>2. contact[x].st = "sync"
    BY <1>2, <1>6, <2>1 DEF Live
  <2> QED  BY <1>1, <1>3, <2>2 DEF ResolveExisting
<1> QED  BY <1>4, <1>5, <1>6

LEMMA ViewsDoAgree ==
  ASSUME ContactsIInv
  PROVE  ViewsAgree
<1> SUFFICES ASSUME NEW u \in Users
             PROVE  LET opens == GetContact(u) IN
                    /\ ListContacts(u) = opens /\ GetMessages(u) = opens /\ GetContactSessionData(u) = opens
                    /\ ListConversationNotes(u) = opens /\ GetContactTimeline(u) = opens
                    /\ opens \subseteq SearchContacts(u)
                    /\ \A c \in SearchContacts(u) \ opens : u \in Members \ member /\ work[c].conv = "team"
  BY DEF ViewsAgree
<1>1. member \subseteq Members
  BY IInvIs
<1>2. GetContact(u) \subseteq SearchContacts(u)
  BY <1>1 DEF GetContact, SearchContacts, CanSeeContact, Scope, QueueVisible
<1>3. \A c \in SearchContacts(u) \ GetContact(u) : u \in Members \ member /\ work[c].conv = "team"
  BY DEF GetContact, SearchContacts, CanSeeContact, Scope, QueueVisible
<1> QED
  BY <1>2, <1>3
  DEF GetContact, ListContacts, GetMessages, GetContactSessionData, ListConversationNotes, GetContactTimeline

LEMMA WorkDoesFollow ==
  ASSUME ContactsIInv
  PROVE  WorkFollows
BY IInvIs DEF WorkFollows, Followed, Ending

LEMMA ContactsSound ==
  ASSUME ContactsIInv
  PROVE  ContactsInv
<1>1. TypeOK
  BY IInvIs, ContactsAssumption DEF TypeOK, PairMarks
<1>2. MergesEnd
  BY DEF ContactsIInv, MergeInv
<1>3. MessageKept
  BY IInvIs DEF MessageKept
<1> QED  BY <1>1, <1>2, <1>3, SurvivorIsFound, ViewsDoAgree, WorkDoesFollow DEF ContactsInv

(* A customer who writes reaches the record that survived, merges never       *)
(* swallow every record of a person, what hangs on a record that is closed is *)
(* accounted for, no message is dropped but by a restart or a collision, and  *)
(* every screen shows a user the same contacts, in every reachable state.     *)
THEOREM CustomersAreFound == Spec => []ContactsInv
<1>1. ContactsIInv /\ LabelsIInv => ContactsInv
  BY ContactsSound
<1> QED  BY <1>1, ContactsInvariant, PTL

(* What configurations say about tags, options and segments goes on meaning   *)
(* what it meant: references stand and end, values are offered ones, and a    *)
(* filter asks for options there are, unless two edits met.                   *)
THEOREM LabelsGoOnMeaning == Spec => []LabelsInv
<1>1. ContactsIInv /\ LabelsIInv => LabelsInv
  <2> SUFFICES ASSUME LabelsIInv  PROVE LabelsInv
    OBVIOUS
  <2>1. LabelsTypeOK
    BY LabelsInvIs DEF LabelsTypeOK, FieldType
  <2>2. LabelTypes /\ HoldersInv
    BY DEF LabelsIInv
  <2> QED  BY <2>1, <2>2, LabelsInvIs, SegmentsDoStand DEF LabelsInv
<1> QED  BY <1>1, ContactsInvariant, PTL

-----------------------------------------------------------------------------
(* What no step undoes                                                        *)

DeletionStep ==
  \A c \in Ids :
    contact[c].st = "user" /\ contact'[c].st # "user" =>
      /\ contact'[c].st = "live"
      /\ \E i \in Slots : jobs[i].k = "restore" /\ jobs[i].c = c /\ jobs[i].was = "sync"
HandoffStep ==
  \A i \in Slots :
    jobs[i].k = "merge" /\ jobs'[i] = Idle /\ contact'[jobs[i].s].st = "merged" =>
      \A c \in {jobs[i].p, jobs[i].s} :
        work[c].transfer # "none" => work'[jobs[i].p].transfer # "none"
TagsStep ==
  \A i \in Slots :
    jobs[i].k = "tags" /\ jobs'[i] = Idle /\ contact[jobs[i].c].tags = jobs[i].read =>
      contact[jobs[i].c].tags \ jobs[i].drop \subseteq contact'[jobs[i].c].tags
DismissedStep == \A p \in Pairs : pair[p] = "dismissed" => pair'[p] # "pending"
Stand == DeletionStep /\ HandoffStep /\ TagsStep /\ DismissedStep

(* Most steps bring back no record, and finish no merge and no write of tags. *)
NoneBack == \A c \in Ids : contact[c].st = "user" => contact'[c].st = "user"
GoOn == \A i \in Slots : jobs[i].k \in {"merge", "tags"} => jobs'[i] = jobs[i]

LEMMA GoOnStands ==
  ASSUME GoOn
  PROVE  HandoffStep /\ TagsStep
BY DEF GoOn, HandoffStep, TagsStep, Idle

LEMMA QuietStands ==
  ASSUME NoneBack, GoOn, DismissedStep
  PROVE  Stand
BY GoOnStands DEF Stand, DeletionStep, NoneBack

LEMMA StartGoesOn ==
  ASSUME ContactsIInv, NEW job, Starts(job)
  PROVE  GoOn
<1>1. PICK i \in Slots : jobs[i] = Idle /\ jobs' = [jobs EXCEPT ![i] = job]
  BY JobStarts
<1>2. jobs[i].k = "idle"
  BY <1>1 DEF Idle
<1> QED  BY <1>1, <1>2, IInvIs DEF GoOn

LEMMA BecomesGoesOn ==
  ASSUME ContactsIInv, NEW i \in Slots, NEW job, Becomes(i, job), jobs[i].k \notin {"merge", "tags"}
  PROVE  GoOn
<1>1. jobs' = [jobs EXCEPT ![i] = job]
  BY DEF Becomes
<1> QED  BY <1>1, IInvIs DEF GoOn

LEMMA SameStands ==
  ASSUME UNCHANGED <<contact, pair>>
  PROVE  NoneBack /\ DismissedStep
BY DEF NoneBack, DismissedStep

LEMMA RequestStands ==
  ASSUME ContactsIInv, \E job : Starts(job), UNCHANGED <<contact, pair>>
  PROVE  Stand
BY StartGoesOn, SameStands, QuietStands

(* One record has another state, or another owner, or other tags. *)
LEMMA OneField ==
  ASSUME contact \in [Ids -> Contact], NEW c \in Ids, NEW x
  PROVE  /\ contact' = [contact EXCEPT ![c].st = x] => \A d \in Ids \ {c} : contact'[d] = contact[d]
         /\ contact' = [contact EXCEPT ![c].st = x] => contact'[c].st = x
         /\ contact' = [contact EXCEPT ![c].owner = x] => \A d \in Ids : contact'[d].st = contact[d].st
         /\ contact' = [contact EXCEPT ![c].tags = x] => \A d \in Ids : contact'[d].st = contact[d].st
         /\ contact' = [contact EXCEPT ![c].tags = x] => contact'[c].tags = x
<1>1. contact[c] \in Contact
  OBVIOUS
<1>2. /\ [contact[c] EXCEPT !.st = x].st = x
      /\ [contact[c] EXCEPT !.owner = x].st = contact[c].st
      /\ [contact[c] EXCEPT !.tags = x].st = contact[c].st /\ [contact[c] EXCEPT !.tags = x].tags = x
  BY <1>1 DEF Contact
<1>3. \A r : LET f == [contact EXCEPT ![c] = r] IN f[c] = r /\ \A d \in Ids \ {c} : f[d] = contact[d]
  OBVIOUS
<1> QED  BY <1>2, <1>3

LEMMA LabelsStandStill ==
  ASSUME SameRecords
  PROVE  Stand
<1>1. NoneBack /\ GoOn /\ DismissedStep
  BY DEF SameRecords, NoneBack, GoOn, DismissedStep
<1> QED  BY <1>1, QuietStands

LEMMA ResolveStands ==
  ASSUME ContactsIInv, NEW why, NEW text, NEW may, NEW tags, Resolve(why, text, may, tags)
  PROVE  Stand
<1>1. UNCHANGED <<contact, pair>>
  BY DEF Resolve
<1>2. \E job : Starts(job)
  BY DEF Resolve
<1> QED  BY <1>1, <1>2, RequestStands

LEMMA ImportStands ==
  ASSUME ContactsIInv, NEW text, NEW policy, NEW tags, ImportOneContact(text, policy, tags)
  PROVE  Stand
<1>1. UNCHANGED <<contact, pair>>
  BY DEF ImportOneContact
<1>2. \E job : Starts(job)
  BY DEF ImportOneContact
<1> QED  BY <1>1, <1>2, RequestStands

LEMMA CreateStands ==
  ASSUME ContactsIInv, NEW i \in Slots, Create(i)
  PROVE  Stand
<1>1. jobs[i].k = "insert" /\ \E job : Becomes(i, job)
  BY DEF Create, Ends
<1>2. GoOn
  BY <1>1, BecomesGoesOn
<1>3. contact \in [Ids -> Contact] /\ pair \in [Pairs -> PairMarks]
  BY IInvIs
<1>4. \/ contact' = contact
      \/ \E n \in Ids : \E r : contact[n].st = "no" /\ contact' = [contact EXCEPT ![n] = r]
  BY DEF Create
<1>5. NoneBack
  BY <1>3, <1>4 DEF NoneBack
<1>6. pair' = pair \/ \E q \in SUBSET Ids : pair' = [pair EXCEPT ![q] = IF @ = "none" THEN "pending" ELSE @]
  <2>1. jobs[i].twin \in Ids \cup {0}
    BY <1>1, IInvIs, KindOfJob DEF InsertJob
  <2>2. \/ pair' = pair
        \/ \E n \in Ids : pair' = (IF jobs[i].twin = 0 THEN pair ELSE FlagPair(n, jobs[i].twin))
    BY DEF Create
  <2>3. ASSUME NEW n \in Ids, pair' = FlagPair(n, jobs[i].twin), jobs[i].twin # 0
        PROVE  \E q \in SUBSET Ids : pair' = [pair EXCEPT ![q] = IF @ = "none" THEN "pending" ELSE @]
    <3>1. {n, jobs[i].twin} \in SUBSET Ids
      BY <2>1, <2>3
    <3> QED  BY <2>3, <3>1 DEF FlagPair
  <2> QED  BY <2>2, <2>3
<1>7. DismissedStep
  BY <1>3, <1>6 DEF DismissedStep
<1> QED  BY <1>2, <1>5, <1>7, QuietStands

(* A record comes back by a request that saw it removed by the address book.  *)
LEMMA RestoreStands ==
  ASSUME ContactsIInv, NEW i \in Slots, RestoreContact(i)
  PROVE  Stand
<1>1. jobs[i].k = "restore" /\ (\E job : Becomes(i, job)) /\ pair' = pair
  BY DEF RestoreContact, Ends
<1>2. GoOn
  BY <1>1, BecomesGoesOn
<1>3. jobs[i].was = "sync"
  BY <1>1 DEF ContactsIInv, RestoresSane
<1>a. PICK c \in Ids : c = jobs[i].c
  BY <1>1, IInvIs, KindOfJob DEF RestoreJob
<1>4. contact' = contact \/ contact' = [contact EXCEPT ![c].st = "live"]
  BY <1>a DEF RestoreContact
<1>b. (\A d \in Ids \ {c} : contact'[d] = contact[d]) /\ contact'[c].st \in {contact[c].st, "live"}
  BY <1>4, IInvIs, OneField
<1>5. DeletionStep
  BY <1>1, <1>3, <1>a, <1>b DEF DeletionStep
<1>6. DismissedStep
  BY <1>1 DEF DismissedStep
<1> QED  BY <1>2, <1>5, <1>6, GoOnStands DEF Stand

LEMMA FileStands ==
  ASSUME ContactsIInv, NEW i \in Slots, FileMessage(i) \/ EndWork(i)
  PROVE  Stand
<1>1. jobs[i].k \in {"file", "end"} /\ Becomes(i, Idle) /\ UNCHANGED <<contact, pair>>
  BY DEF FileMessage, EndWork, Ends
<1> QED  BY <1>1, BecomesGoesOn, SameStands, QuietStands

(* What is written keeps every tag that was read and is not to be dropped.    *)
LEMMA WriteTagsStands ==
  ASSUME ContactsIInv, NEW i \in Slots, WriteTags(i)
  PROVE  Stand
<1>1. jobs[i].k = "tags" /\ jobs' = [jobs EXCEPT ![i] = Idle] /\ pair' = pair
  BY DEF WriteTags, Ends, Becomes
<1>2. PICK c \in Ids : c = jobs[i].c
  BY <1>1, IInvIs, KindOfJob DEF TagsJob
<1>a. PICK g : g = ApplyTags(jobs[i].read, jobs[i].add, jobs[i].drop)
  OBVIOUS
<1>3. contact' = contact \/ contact' = [contact EXCEPT ![c].tags = g]
  BY <1>2, <1>a DEF WriteTags
<1>4. NoneBack
  BY <1>3, IInvIs, OneField DEF NoneBack
<1>5. contact'[c].tags = contact[c].tags \/ contact'[c].tags = (jobs[i].read \cup jobs[i].add) \ jobs[i].drop
  BY <1>3, <1>a, IInvIs, OneField DEF ApplyTags
<1>6. contact[c].tags = jobs[i].read => contact[c].tags \ jobs[i].drop \subseteq contact'[c].tags
  BY <1>5
<1>7. \A j \in Slots \ {i} : jobs'[j] = jobs[j]
  BY <1>1, IInvIs
<1>8. TagsStep
  BY <1>2, <1>6, <1>7 DEF TagsStep, Idle
<1>9. HandoffStep
  BY <1>1, <1>7 DEF HandoffStep, Idle
<1>10. DeletionStep /\ DismissedStep
  BY <1>1, <1>4 DEF DeletionStep, NoneBack, DismissedStep
<1> QED  BY <1>8, <1>9, <1>10 DEF Stand

(* The survivor of a merge has the handoff of either record. *)
LEMMA MergeStands ==
  ASSUME ContactsIInv, NEW i \in Slots, Merge(i)
  PROVE  Stand
<1>1. /\ jobs[i].k = "merge" /\ jobs' = [jobs EXCEPT ![i] = Idle]
      /\ pair' = [pair EXCEPT ![{jobs[i].p, jobs[i].s}] = IF @ = "none" THEN @ ELSE "merged"]
  BY DEF Merge, Ends, Becomes
<1>2. PICK p \in Ids, s \in Ids : p = jobs[i].p /\ s = jobs[i].s
  BY <1>1, IInvIs, KindOfJob DEF MergeJob
<1>3. /\ p # s /\ contact'[p].st = contact[p].st
      /\ contact'[s].st = IF Live(s) THEN "merged" ELSE contact[s].st
      /\ \A c \in Ids \ {p, s} : contact'[c] = contact[c]
  BY <1>2, MergeIs
<1>4. NoneBack
  BY <1>3 DEF NoneBack, Live
<1>5. work[p].transfer # "none" \/ work[s].transfer # "none" => work'[p].transfer # "none"
  BY <1>2, <1>3, MergeWork
<1>6. \A j \in Slots \ {i} : jobs'[j] = jobs[j]
  BY <1>1, IInvIs
<1>7. HandoffStep
  BY <1>2, <1>5, <1>6 DEF HandoffStep, Idle
<1>8. TagsStep
  BY <1>1, <1>6 DEF TagsStep, Idle
<1>9. DismissedStep
  BY <1>1, IInvIs DEF DismissedStep
<1>10. DeletionStep
  BY <1>4 DEF DeletionStep, NoneBack
<1> QED  BY <1>7, <1>8, <1>9, <1>10 DEF Stand

(* A restart takes no merge half way. *)
LEMMA RestartStands ==
  ASSUME ContactsIInv, Restart
  PROVE  Stand
<1>1. UNCHANGED <<contact, pair>>
  BY DEF Restart
<1>2. \A i \in Slots : jobs[i].k = "merge" => contact[jobs[i].s].st # "merged"
  BY DEF ContactsIInv, MergeInv, MergesSane, MergeSane
<1>3. HandoffStep
  BY <1>1, <1>2 DEF HandoffStep
<1>4. TagsStep
  BY <1>1 DEF TagsStep
<1> QED  BY <1>1, <1>3, <1>4, SameStands DEF Stand, DeletionStep, NoneBack

LEMMA DeleteStands ==
  ASSUME ContactsIInv, NEW c \in Ids, DeleteContact(c)
  PROVE  Stand
<1>1. /\ contact' = [contact EXCEPT ![c].st = "user"] /\ pair' = pair
      /\ Starts([k |-> "end", c |-> c])
  BY DEF DeleteContact
<1>2. NoneBack
  BY <1>1, IInvIs DEF NoneBack
<1>3. GoOn
  BY <1>1, StartGoesOn
<1>4. DismissedStep
  BY <1>1 DEF DismissedStep
<1> QED  BY <1>2, <1>3, <1>4, QuietStands

LEMMA SyncRemoveStands ==
  ASSUME ContactsIInv, SyncRemove
  PROVE  Stand
<1>1. PICK c \in FindContact("intl") : contact' = [contact EXCEPT ![c].st = "sync"]
  BY DEF SyncRemove
<1>2. c \in Ids /\ Live(c)
  BY DEF FindContact
<1>3. NoneBack
  BY <1>1, <1>2, IInvIs DEF NoneBack, Live
<1>4. UNCHANGED <<pair, jobs>>
  BY DEF SyncRemove
<1>5. GoOn /\ DismissedStep
  BY <1>4 DEF GoOn, DismissedStep
<1> QED  BY <1>3, <1>5, QuietStands

(* Owners, tags, notes, the work of the rest of the system, the team. *)
LEMMA AsideStands ==
  ASSUME ContactsIInv, UNCHANGED jobs, DismissedStep,
         \/ contact' = contact
         \/ \E c \in Ids : \E u : contact' = [contact EXCEPT ![c].owner = u] \/ contact' = [contact EXCEPT ![c].tags = u]
  PROVE  Stand
<1>1. GoOn
  BY DEF GoOn
<1>2. ASSUME NEW c \in Ids, NEW u, contact' = [contact EXCEPT ![c].owner = u] \/ contact' = [contact EXCEPT ![c].tags = u]
      PROVE  NoneBack
  BY <1>2, IInvIs, OneField DEF NoneBack
<1>3. NoneBack
  BY <1>2 DEF NoneBack
<1> QED  BY <1>1, <1>3, QuietStands

LEMMA ScanStands ==
  ASSUME ContactsIInv, ScanDuplicates \/ \E p \in Pairs : DismissDuplicate(p)
  PROVE  Stand
<1>1. UNCHANGED <<contact, jobs>>
  BY DEF ScanDuplicates, DismissDuplicate
<1>2. pair' = Scan \/ \E p \in Pairs : pair' = [pair EXCEPT ![p] = "dismissed"]
  BY DEF ScanDuplicates, DismissDuplicate
<1>3. DismissedStep
  BY <1>2, IInvIs DEF DismissedStep, Scan
<1> QED  BY <1>1, <1>3, AsideStands

LEMMA ContactsNextStands ==
  ASSUME ContactsIInv, ContactsNext
  PROVE  Stand
<1>1. ASSUME Inbound \/ SyncAdd \/ \E text \in Texts : CreateContact(text)  PROVE Stand
  BY <1>1, ResolveStands DEF Inbound, SyncAdd, CreateContact
<1>2. ASSUME NEW policy, NEW w, ImportContactsCSV(policy, {w})  PROVE Stand
  BY <1>2, ImportStands DEF ImportContactsCSV
<1>3. ASSUME NEW c \in Ids, WorkChanges(c)  PROVE Stand
  <2>1. UNCHANGED <<contact, pair, jobs>>
    BY <1>3 DEF WorkChanges
  <2> QED  BY <2>1, SameStands, AsideStands
<1>4. ASSUME NEW c \in Ids, NEW s \in Ids, MergeContacts(c, s)  PROVE Stand
  <2>1. UNCHANGED <<contact, pair>> /\ \E job : Starts(job)
    BY <1>4 DEF MergeContacts
  <2> QED  BY <2>1, RequestStands
<1>5. ASSUME NEW c \in Ids, NEW u \in Owners,
             \/ AssignContact(c, u) \/ SetContactOwner(c, u) \/ UpdateContact(c, u, {})
             \/ \E v \in Users : ApplyBulkOwner(v, c, u)
      PROVE  Stand
  <2>1. (Owned(c, u) \/ Tagged(c, {})) /\ UNCHANGED <<pair, jobs>>
    BY <1>5 DEF AssignContact, SetContactOwner, UpdateContact, ApplyBulkOwner
  <2>2. DismissedStep
    BY <2>1 DEF DismissedStep
  <2>3. contact' = [contact EXCEPT ![c].owner = u] \/ contact' = [contact EXCEPT ![c].tags = {}]
    BY <2>1 DEF Owned, Tagged
  <2> QED  BY <2>1, <2>2, <2>3, AsideStands
<1>6. ASSUME NEW c \in Ids, NEW u \in Users, SendMessage(u, c)  PROVE Stand
  <2>1. UNCHANGED <<contact, pair>> /\ \E job : Starts(job)
    BY <1>6 DEF SendMessage
  <2> QED  BY <2>1, RequestStands
<1>7. ASSUME NEW c \in Ids, NEW u \in Users, CreateConversationNote(u, c) \/ DeleteConversationNote(u, c)  PROVE Stand
  <2>1. UNCHANGED <<contact, pair, jobs>>
    BY <1>7 DEF CreateConversationNote, DeleteConversationNote
  <2> QED  BY <2>1, SameStands, AsideStands
<1>8. ASSUME NEW c \in Ids, NEW w \in Words, UpdateContactTags(c, {w})  PROVE Stand
  <2>1. contact' = [contact EXCEPT ![c].tags = {w}] /\ UNCHANGED <<pair, jobs>>
    BY <1>8 DEF UpdateContactTags, Tagged
  <2>2. DismissedStep
    BY <2>1 DEF DismissedStep
  <2> QED  BY <2>1, <2>2, AsideStands
<1>9. ASSUME NEW c \in Ids, NEW w \in Words,
             RemoveTags(c, {w}) \/ \E v \in Users : BulkUpdateContacts(v, c, {w}, {}) \/ BulkUpdateContacts(v, c, {}, {w})
      PROVE  Stand
  <2>1. ReadTags(c, {w}, {}) \/ ReadTags(c, {}, {w})
    BY <1>9 DEF RemoveTags, BulkUpdateContacts
  <2>2. UNCHANGED <<contact, pair>> /\ \E job : Starts(job)
    BY <2>1 DEF ReadTags
  <2> QED  BY <2>2, RequestStands
<1>10. ASSUME NEW u \in Users, LeavesTeam(u)  PROVE Stand
  <2>1. UNCHANGED <<contact, pair, jobs>>
    BY <1>10 DEF LeavesTeam
  <2> QED  BY <2>1, SameStands, AsideStands
<1> QED
  BY <1>1, <1>2, <1>3, <1>4, <1>5, <1>6, <1>7, <1>8, <1>9, <1>10, CreateStands, RestoreStands, FileStands,
     WriteTagsStands, MergeStands, RestartStands, DeleteStands, SyncRemoveStands, ScanStands
  DEF ContactsNext

(* When a rename that met nobody ends, every segment has whom it had. *)
AudienceStep ==
  \A i \in Slots :
    edits[i].k = "rename" /\ edits[i].step = 4 /\ edits'[i] = Idle /\ edits[i].clean =>
      \A s \in Segments : Audience(s) = edits[i].before[s]

LEMMA AudienceStands ==
  ASSUME LabelsIInv
  PROVE  AudienceStep
BY LabelsInvIs DEF AudienceStep, Fresh, RenameFresh

(* No step undoes what a person decided: a deletion, a handoff, a tag and     *)
(* whom it reaches, a pair that is none, whatever else is under way.          *)
THEOREM DecisionsDoStand == Spec => DecisionsStand
<1>1. ContactsIInv /\ LabelsIInv /\ [Next]_vars => [Stand]_contactVars /\ [AudienceStep]_vars
  <2> SUFFICES ASSUME ContactsIInv, LabelsIInv, [Next]_vars
               PROVE  [Stand]_contactVars /\ AudienceStep
    OBVIOUS
  <2>1. CASE LabelsNext
    BY <2>1, LabelsNextKeeps, LabelsStandStill, AudienceStands
  <2>2. CASE ContactsNext
    BY <2>2, ContactsNextStands, AudienceStands
  <2>3. CASE UNCHANGED vars
    BY <2>3, AudienceStands DEF vars
  <2> QED  BY <2>1, <2>2, <2>3 DEF Next
<1>2. Spec => [][Stand]_contactVars /\ [][AudienceStep]_vars
  BY <1>1, ContactsInvariant, PTL DEF Spec
<1>3. Stand => DeletionStep /\ HandoffStep /\ TagsStep /\ DismissedStep
  BY DEF Stand
<1>4. Spec => /\ [][DeletionStep]_contactVars /\ [][HandoffStep]_contactVars
              /\ [][TagsStep]_contactVars /\ [][DismissedStep]_contactVars
  BY <1>2, <1>3, PTL
<1> QED
  BY <1>2, <1>4
  DEF DecisionsStand, DeletionStands, HandoffSurvives, TagsKept, DismissedStays, RenameKeepsAudience,
      DeletionStep, HandoffStep, TagsStep, DismissedStep, AudienceStep
=============================================================================
