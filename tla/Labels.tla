------------------------------ MODULE Labels ------------------------------
(***************************************************************************)
(* The words contacts are described with and that configurations repeat:   *)
(* tags, the options of a custom field, and segments, saved filters that   *)
(* name tags, options and other segments.  A word is renamed or removed in *)
(* one place and has to follow in the others.                              *)
(*                                                                         *)
(* One custom field of the organization's own, a dropdown, stands for the  *)
(* fields; a filter has at most one condition of each kind; the last       *)
(* holder is an automation rule with a contact filter.  Counts, names,     *)
(* visibility and colours are left out.                                    *)
(***************************************************************************)
EXTENDS Contacts

CONSTANTS
  MaxNesting,    \* how deep segments may refer to segments
  MaxHolders     \* segments, and after them one rule

ASSUME LabelsAssumption == MaxNesting \in Nat \ {0} /\ MaxHolders \in Nat /\ MaxHolders >= 3

VARIABLES
  tagdef,    \* the tags table
  field,     \* the field's definition
  holder,    \* segments and the rule
  edits      \* edits in progress

labelVars == <<tagdef, field, holder, edits>>
vars == <<contactVars, labelVars>>

Holders == 1..MaxHolders
Segments == 1..(MaxHolders - 1)
Rule == MaxHolders

Holder == [at: {"live", "gone"}, tag: Words \cup {None}, opt: Words \cup {None},
           seg: Segments \cup {0},
           odd: BOOLEAN]   \* two edits met here, or a word of another kind was taken for this one

Edit ==
  {Idle}
  \cup [k: {"rename"}, from: Words, to: Words, step: 1..4, clean: BOOLEAN,
        before: [Segments -> SUBSET Ids]]
  \cup [k: {"save"}, s: Segments, filter: [tag: Words \cup {None}, opt: Words \cup {None},
                                           seg: Segments \cup {0}], raced: BOOLEAN]
  \cup [k: {"unsave"}, s: Segments, raced: BOOLEAN]
  \cup [k: {"field"}, was: SUBSET Words, opts: SUBSET Words, from: Words \cup {None},
        to: Words \cup {None}, st: {"live", "archived"}, force: BOOLEAN, raced: BOOLEAN]
  \cup [k: {"tag"}, c: Ids, read: SUBSET Words, w: Words]
  \cup [k: {"value"}, c: Ids, w: Words, raced: BOOLEAN]

LabelsTypeOK ==
  /\ tagdef \subseteq Words
  /\ field \in [st: {"live", "archived", "gone"}, opts: SUBSET Words,
                dropped: SUBSET Words,    \* options an edit removed
                forced: SUBSET Words,     \* those removed with force
                odd: BOOLEAN]             \* two edits met
  /\ holder \in [Holders -> Holder]
  /\ \A i \in Slots : edits[i] \in Edit

-----------------------------------------------------------------------------
(* Filters *)

\* expand, step by step: the segment n references away
After[n \in 0..MaxNesting] ==
  [s \in Holders |-> IF n = 0 THEN s
                     ELSE LET t == After[n - 1][s] IN IF t = 0 THEN 0 ELSE holder[t].seg]

\* compileTags and compileOption
TagRule(c, w) == w = None \/ w \in contact[c].tags
OptionRule(c, w) == w = None \/ contact[c].opt = w

\* Apply: the contacts every filter on the way admits
Audience(s) ==
  {c \in Ids : Live(c) /\ \A n \in 0..(MaxNesting - 1) :
     After[n][s] # 0 => TagRule(c, holder[After[n][s]].tag) /\ OptionRule(c, holder[After[n][s]].opt)}

\* RegisterFields: an archived field is not offered to filters
Registered == field.st = "live"

\* validateNode: a condition on a field that is registered
Validate(filter) == filter.opt # None => Registered

\* checkReferences: every segment on the way exists, none is this one, and the
\* chain is not too long
CheckReferences(s, seg) ==
  seg # 0 =>
    /\ \A n \in 0..(MaxNesting - 1) :
         LET t == After[n][seg] IN t # 0 => t # s /\ holder[t].at = "live"
    /\ After[MaxNesting - 1][seg] = 0

\* dependents of the segments service without the query
NoDependents(s) == {}

\* dependents: the other segments that name this one
Dependents(s) == {h \in Segments \ {s} : holder[h].at = "live" /\ holder[h].seg = s}

\* FindDependents: the segments and rules whose text has the word
FindDependents(w) == {h \in Holders : holder[h].at = "live" /\ w \in {holder[h].tag, holder[h].opt}}

\* automationDependents: the rules that name the segment
AutomationDependents(s) == {h \in {Rule} : holder[h].at = "live" /\ holder[h].seg = s}

-----------------------------------------------------------------------------

\* the second contact's tag and its option bear the same name; a segment asks
\* for the tag, one is built on that, and a rule asks for the option
LabelsInit ==
  \E w \in contact[2].tags :
    /\ tagdef = {w}
    /\ field = [st |-> "live", opts |-> {w}, dropped |-> {}, forced |-> {}, odd |-> FALSE]
    /\ holder = [h \in Holders |->
         [at |-> "live", tag |-> IF h = 1 THEN w ELSE None, opt |-> IF h = Rule THEN w ELSE None,
          seg |-> IF h = 2 THEN 1 ELSE 0, odd |-> FALSE]]
    /\ edits = [i \in Slots |-> Idle]

Begins(edit) ==
  LET free == {i \in Slots : edits[i] = Idle} IN
  /\ Cardinality(free) > Cardinality({i \in Slots : jobs[i] # Idle})
  /\ edits' = [edits EXCEPT ![CHOOSE i \in free : \A j \in free : i <= j] = edit]

\* the other edits in progress have read what is being changed
Raced(S) ==
  [i \in Slots |-> IF i \in S THEN Idle
                   ELSE IF edits[i].k = "rename" THEN [edits[i] EXCEPT !.clean = FALSE]
                   ELSE IF edits[i].k \in {"save", "unsave", "field", "value"} THEN [edits[i] EXCEPT !.raced = TRUE]
                   ELSE edits[i]]
Finishes(i) == edits' = Raced({i})

NotContacts == UNCHANGED <<contact, work, pair, member, jobs, lost>>

(* Tags *)

\* CreateTag
CreateTag(w) ==
  /\ Request
  /\ w \notin tagdef /\ tagdef' = tagdef \cup {w}
  /\ NotContacts /\ UNCHANGED <<field, holder, edits>>

\* UpdateTag, its checks.  The rename is clean if the new word is nowhere in
\* use, and the old one is not an option in a filter as well
UpdateTag(from, to) ==
  /\ Request
  /\ from \in tagdef /\ to \notin tagdef
  /\ Begins([k |-> "rename", from |-> from, to |-> to, step |-> 1,
             clean |-> /\ FindDependents(to) = {} /\ \A c \in Ids : to \notin contact[c].tags
                       /\ \A s \in Segments : holder[s].opt # from,
             before |-> [s \in Segments |-> Audience(s)]])
  /\ NotContacts /\ UNCHANGED <<tagdef, field, holder>>

\* RenameTag: the quoted word is replaced wherever the text has it, an option
\* of that name too
RenameTag(h, from, to) ==
  [h EXCEPT !.tag = IF @ = from THEN to ELSE @,
            !.opt = IF @ = from THEN to ELSE @,
            !.odd = @ \/ h.opt = from]

\* UpdateTag: contacts, configurations, the old row, the new row.  The first
\* two may fail and are passed over
UpdateTagStep(i) ==
  LET e == edits[i]
      Goes(clean) ==
        edits' = [Raced({}) EXCEPT ![i] =
                    IF e.step = 4 THEN Idle ELSE [e EXCEPT !.step = e.step + 1, !.clean = clean]]
  IN
  /\ e.k = "rename"
  /\ CASE e.step = 1 ->
            \/ /\ contact' = [c \in Ids |-> IF e.from \in contact[c].tags
                   THEN [contact[c] EXCEPT !.tags = (@ \ {e.from}) \cup {e.to}] ELSE contact[c]]
               /\ Goes(e.clean)
               /\ UNCHANGED <<tagdef, holder>>
            \/ contact' = contact /\ Goes(FALSE) /\ UNCHANGED <<tagdef, holder>>
       [] e.step = 2 ->
            \/ /\ holder' = [h \in Holders |-> IF holder[h].at = "live"
                   THEN RenameTag(holder[h], e.from, e.to) ELSE holder[h]]
               /\ Goes(e.clean)
               /\ UNCHANGED <<tagdef, contact>>
            \/ holder' = holder /\ Goes(FALSE) /\ UNCHANGED <<tagdef, contact>>
       [] e.step = 3 -> tagdef' = tagdef \ {e.from} /\ Goes(e.clean) /\ UNCHANGED <<holder, contact>>
       [] e.step = 4 -> tagdef' = tagdef \cup {e.to} /\ Goes(e.clean) /\ UNCHANGED <<holder, contact>>
  /\ UNCHANGED <<work, pair, member, jobs, lost, ops, field>>

\* DeleteTag: off the contacts, whatever configurations name it
DeleteTag(w) ==
  /\ Request
  /\ w \in tagdef /\ tagdef' = tagdef \ {w}
  /\ contact' = [c \in Ids |-> [contact[c] EXCEPT !.tags = @ \ {w}]]
  /\ edits' = Raced({})
  /\ UNCHANGED <<work, pair, member, jobs, lost, field, holder>>

\* the action of an automation that adds a tag reads the contact's tags first
AddTags(c, w) ==
  /\ Request
  /\ Live(c) /\ w \notin contact[c].tags
  /\ Begins([k |-> "tag", c |-> c, read |-> contact[c].tags, w |-> w])
  /\ NotContacts /\ UNCHANGED <<tagdef, field, holder>>

\* ensureTags and the write: a tag that is not defined is made
EnsureTags(i) ==
  LET e == edits[i] IN
  /\ e.k = "tag"
  /\ tagdef' = tagdef \cup {e.w}
  /\ contact' = IF Live(e.c) THEN [contact EXCEPT ![e.c].tags = e.read \cup {e.w}] ELSE contact
  /\ Finishes(i)
  /\ UNCHANGED <<work, pair, member, jobs, lost, ops, field, holder>>

(* Segments *)

NoFilter == [tag |-> None, opt |-> None, seg |-> 0]
Filters == {[NoFilter EXCEPT !.tag = w] : w \in Words} \cup {[NoFilter EXCEPT !.opt = w] : w \in field.opts}
           \cup {[NoFilter EXCEPT !.seg = s] : s \in Segments}

\* saveSegment and Save: validate the filter and its references
SaveSegment(s, filter) ==
  /\ Request
  /\ holder[s].at = "live"
  /\ Validate(filter)
  /\ CheckReferences(s, filter.seg)
  /\ Begins([k |-> "save", s |-> s, filter |-> filter, raced |-> FALSE])
  /\ NotContacts /\ UNCHANGED <<tagdef, field, holder>>

WriteSegment(i) ==
  LET e == edits[i] IN
  /\ e.k = "save"
  /\ holder' = IF holder[e.s].at = "live"
       THEN [holder EXCEPT ![e.s] = [at |-> "live", tag |-> e.filter.tag, opt |-> e.filter.opt,
                                     seg |-> e.filter.seg, odd |-> @.odd \/ e.raced]]
       ELSE holder
  /\ Finishes(i)
  /\ UNCHANGED <<contactVars, tagdef, field>>

\* DeleteSegment and Delete: refused while a rule or a segment names it
DeleteSegment(s) ==
  /\ Request
  /\ holder[s].at = "live"
  /\ AutomationDependents(s) = {} /\ Dependents(s) = {}
  /\ Begins([k |-> "unsave", s |-> s, raced |-> FALSE])
  /\ NotContacts /\ UNCHANGED <<tagdef, field, holder>>

RemoveSegment(i) ==
  LET e == edits[i] IN
  /\ e.k = "unsave"
  /\ holder' = [h \in Holders |->
       IF h = e.s THEN [holder[h] EXCEPT !.at = "gone", !.tag = None, !.opt = None, !.seg = 0]
       ELSE [holder[h] EXCEPT !.odd = @ \/ (e.raced /\ holder[h].seg = e.s)]]
  /\ Finishes(i)
  /\ UNCHANGED <<contactVars, tagdef, field>>

\* the author of the rule picks a segment
SaveRule(s) ==
  /\ Request
  /\ s # 0 => holder[s].at = "live"
  /\ holder[Rule].seg # s
  /\ holder' = [holder EXCEPT ![Rule].seg = s]
  /\ edits' = Raced({})
  /\ NotContacts /\ UNCHANGED <<tagdef, field>>

(* The custom field *)

\* optionsStillInUse
OptionsStillInUse(removed) == \E w \in removed : FindDependents(w) # {}

\* UpdateContactField, its checks: an option added, removed, with or without
\* force, or renamed, or the field archived or brought back
UpdateContactField(opts, from, to, force, st) ==
  LET removed == (field.opts \ opts) \ {from} IN
  /\ Request
  /\ field.st # "gone" /\ (opts # field.opts \/ st # field.st)
  /\ from # None => from \in field.opts /\ to \in opts /\ from # to     \* claimedRenames
  /\ removed # {} /\ ~force => ~OptionsStillInUse(removed)
  /\ Begins([k |-> "field", was |-> field.opts, opts |-> opts, from |-> from, to |-> to, st |-> st,
             force |-> force, raced |-> FALSE])
  /\ NotContacts /\ UNCHANGED <<tagdef, field, holder>>

\* applyOptionRenames: the values of contacts
ApplyOptionRename(w, from, to) == IF from # None /\ w = from THEN to ELSE w

\* RewriteConfigValueWithin: the filters that mention the field; a tag of that
\* name in one of them goes along
RewriteConfigValueWithin(h, from, to) ==
  IF h.at = "live" /\ h.opt # None /\ from # None
    THEN [h EXCEPT !.opt = IF @ = from THEN to ELSE @,
                   !.tag = IF @ = from THEN to ELSE @, !.odd = @ \/ h.tag = from]
    ELSE h

\* UpdateContactField, its transaction: the whole definition is saved as it
\* was read and edited
SaveContactField(i) ==
  LET e == edits[i]
      removed == (e.was \ e.opts) \ {e.from}
  IN
  /\ e.k = "field"
  /\ field' = [st |-> e.st, opts |-> e.opts,
               dropped |-> field.dropped \cup removed,
               forced |-> field.forced \cup {w \in removed : e.force},
               odd |-> field.odd \/ e.raced]
  /\ contact' = [c \in Ids |-> [contact[c] EXCEPT !.opt = ApplyOptionRename(@, e.from, e.to)]]
  /\ holder' = [h \in Holders |-> RewriteConfigValueWithin(holder[h], e.from, e.to)]
  /\ Finishes(i)
  /\ UNCHANGED <<work, pair, member, jobs, lost, ops, tagdef>>

\* DeleteContactField: with its values, whatever configurations name it
DeleteContactField ==
  /\ Request
  /\ field.st # "gone"
  /\ field' = [field EXCEPT !.st = "gone", !.opts = {}]
  /\ contact' = [c \in Ids |-> [contact[c] EXCEPT !.opt = None]]
  /\ edits' = Raced({})
  /\ UNCHANGED <<work, pair, member, jobs, lost, tagdef, holder>>

\* coerceDropdown
Coerce(w) == w \in field.opts

\* SetValues: the definition is read and the value checked, then it is written
SetValues(c, w) ==
  /\ Request
  /\ Live(c) /\ field.st = "live" /\ Coerce(w) /\ contact[c].opt # w
  /\ Begins([k |-> "value", c |-> c, w |-> w, raced |-> FALSE])
  /\ NotContacts /\ UNCHANGED <<tagdef, field, holder>>

WriteValue(i) ==
  LET e == edits[i] IN
  /\ e.k = "value"
  /\ contact' = [contact EXCEPT ![e.c].opt = e.w]
  /\ field' = [field EXCEPT !.odd = @ \/ e.raced]
  /\ Finishes(i)
  /\ UNCHANGED <<work, pair, member, jobs, lost, ops, tagdef, holder>>

-----------------------------------------------------------------------------

Init == ContactsInit /\ LabelsInit

LabelsNext ==
  \/ DeleteContactField
  \/ \E w \in Words :
       \/ CreateTag(w) \/ DeleteTag(w)
       \/ \E to \in Words : UpdateTag(w, to)
       \/ \E c \in Ids : SetValues(c, w) \/ AddTags(c, w)
  \/ \E s \in Segments :
       DeleteSegment(s) \/ \E filter \in Filters : SaveSegment(s, filter)
  \/ \E s \in Segments \cup {0} : SaveRule(s)
  \/ UpdateContactField(field.opts, None, None, FALSE, IF field.st = "live" THEN "archived" ELSE "live")
  \/ \E w \in Words :
       \/ UpdateContactField(field.opts \cup {w}, None, None, FALSE, field.st)
       \/ \E force \in BOOLEAN : UpdateContactField(field.opts \ {w}, None, None, force, field.st)
       \/ \E to \in Words : UpdateContactField((field.opts \ {w}) \cup {to}, w, to, FALSE, field.st)
  \/ \E i \in Slots :
       \/ UpdateTagStep(i) \/ EnsureTags(i) \/ WriteSegment(i) \/ RemoveSegment(i) \/ SaveContactField(i) \/ WriteValue(i)

\* a change to a contact may meet an edit in progress
Next ==
  \/ /\ ContactsNext
     /\ Cardinality({i \in Slots : jobs'[i] # Idle}) + Cardinality({i \in Slots : edits[i] # Idle}) <= MaxJobs
     /\ edits' = IF contact' # contact THEN Raced({}) ELSE edits
     /\ UNCHANGED <<tagdef, field, holder>>
  \/ LabelsNext

Spec == Init /\ [][Next]_vars

-----------------------------------------------------------------------------
(* Properties *)

\* A segment or rule that stands names only segments that stand, and following
\* them ends, unless two edits met
SegmentsStand ==
  \A h \in Holders :
    (\A n \in 0..MaxNesting : After[n][h] # 0 => ~holder[After[n][h]].odd) =>
      \A n \in 1..MaxNesting :
        After[n][h] # 0 => holder[After[n][h]].at = "live" /\ After[n][h] # h

\* The value a contact has for the field is one the field offers, or one an
\* edit took off the list, unless two edits met
ValuesOffered ==
  ~field.odd =>
    \A c \in Ids : contact[c].opt \in field.opts \cup field.dropped \cup {None}

\* The option a filter asks for is one the field offers: it is renamed with the
\* option, and removing it takes force, unless two edits met or the option bears
\* the name of a tag that was renamed
FiltersMatch ==
  field.st # "gone" /\ ~field.odd =>
    \A h \in Holders :
      holder[h].at = "live" /\ ~holder[h].odd => holder[h].opt \in field.opts \cup field.forced \cup {None}

\* Renaming a tag changes nobody's audience: when a rename that met no other
\* edit and no failure ends, every segment has the contacts it had
RenameKeepsAudience ==
  [][\A i \in Slots :
       edits[i].k = "rename" /\ edits[i].step = 4 /\ edits'[i] = Idle /\ edits[i].clean =>
         \A s \in Segments : Audience(s) = edits[i].before[s]
    ]_vars

\* The configurations that name segments, options and tags go on meaning what
\* they meant (segments/service.go, contact_fields.go, tags.go).
LabelsInv == LabelsTypeOK /\ SegmentsStand /\ ValuesOffered /\ FiltersMatch

\* No step undoes what a person decided: a deletion, a handoff, a tag and whom it
\* reaches, a pair that is none (lifecycle.go, merge.go, contacts_bulk.go, tags.go).
DecisionsStand ==
  DeletionStands /\ HandoffSurvives /\ TagsKept /\ DismissedStays /\ RenameKeepsAudience
===========================================================================
