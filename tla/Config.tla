-------------------------------- MODULE Config --------------------------------
(***************************************************************************)
(* Configuration of an organization and the Redis copies of it.             *)
(*                                                                          *)
(* internal/handlers/accounts.go and entityrefs.RenameAccount: WhatsApp     *)
(* accounts, whose name eighteen tables refer to, whose number is the key   *)
(* of a cache, and of which one is the default.                             *)
(*                                                                          *)
(* internal/handlers/ivr_flows.go: call menus, of which one per account     *)
(* answers calls.                                                           *)
(*                                                                          *)
(* internal/handlers/cache.go and the handlers that write what it caches:   *)
(* chatbot settings, SLA settings, flows, keyword rules, AI contexts,       *)
(* webhooks, tags, organization settings.  Each cache is filled by a reader *)
(* (look, load, store: three steps) and dropped by the writer after its     *)
(* commit.  The caches do not depend on one another, so one of them, the    *)
(* subject, is followed at a time; its content is a version number.         *)
(***************************************************************************)
EXTENDS Integers, FiniteSets

CONSTANTS
    Accounts,     \* account rows
    Names,        \* names an account may get
    Phones,       \* phone number ids
    Tables,       \* tables that refer to accounts by name
    Menus,        \* IVR flow rows
    Subjects,     \* what is cached
    Handlers,     \* handler goroutines that may overlap
    MaxCalls,     \* bound on requests about accounts
    MaxMenuCalls, \* bound on requests about menus
    MaxWrites,    \* bound on configuration writes
    MaxReads0     \* bound on cache fills

ASSUME ConfigAssumption == {MaxCalls, MaxMenuCalls, MaxWrites, MaxReads0} \subseteq Nat

VARIABLES
    acct,     \* [account -> [st, name, phone, dflt, ver]]
    acache,   \* [phone -> entry], the webhook's copy of the account
    afill,    \* [phone -> row loaded by a reader on its way to the cache]
    astale,   \* numbers whose entry is excused: raced, or left by a change
    refs,     \* [table -> account name, or None]
    hreq,     \* requests under way
    crossed,  \* a request wrote over rows changed since it read them
    menu,     \* [menu -> [st, acct, start]]
    calls0,
    subject,  \* the cache being followed
    store,    \* version in the database
    copy0,    \* version in Redis, or Miss
    loading,  \* version a reader has loaded, or Miss
    dropping, \* a writer is between its commit and its invalidation
    excuse,   \* why the copy may be stale although nobody is dropping it
    writes, reads0

accountVars == <<acct, acache, afill, astale, refs>>
menuVars == <<menu>>
cacheVars == <<subject, store, copy0, loading, dropping, excuse, writes, reads0>>
configVars == <<accountVars, menuVars, hreq, crossed, calls0, cacheVars>>

No == "none"
Miss0 == -1
Resting == [do |-> No]
Ask == calls0 < MaxCalls /\ calls0' = calls0 + 1
AskMenu == calls0 < MaxMenuCalls /\ calls0' = calls0 + 1
Set0(s, r) == hreq' = [hreq EXCEPT ![s] = r]

-----------------------------------------------------------------------------
(* WhatsApp accounts *)

LiveAccounts == {a \in Accounts : acct[a].st = "live"}
ByName(n) == {a \in LiveAccounts : acct[a].name = n}
Taken(n, p, but) ==
    \E a \in Accounts \ {but} : acct[a].st # No /\ (acct[a].name = n \/ acct[a].phone = p)

\* The defaults of the organization are cleared by a statement of their own.
Undefaulted == [a \in Accounts |-> [acct[a] EXCEPT !.dflt = IF acct[a].st = "live" THEN FALSE ELSE @]]

\* CreateAccount: first the other defaults, if this is to be one ...
CreateAccount(s) ==
    /\ Ask /\ hreq[s] = Resting
    /\ \E a \in Accounts, n \in Names, p \in Phones, d \in BOOLEAN :
         /\ acct[a].st = No /\ \A o \in Handlers : hreq[o].do = "insert" => hreq[o].a # a
         /\ acct' = IF d THEN Undefaulted ELSE acct
         /\ Set0(s, [do |-> "insert", a |-> a, seen |-> acct', forget |-> FALSE,
                     row |-> [st |-> "live", name |-> n, phone |-> p, dflt |-> d, ver |-> 0]])
    /\ UNCHANGED <<acache, afill, astale, refs, crossed, menuVars, cacheVars>>

\* ... then the row, refused when the name or the number is in use.
InsertAccount(s) ==
    LET r == hreq[s] IN
    /\ r.do = "insert"
    /\ IF Taken(r.row.name, r.row.phone, r.a)
       THEN UNCHANGED <<acct, crossed>> /\ Set0(s, Resting)
       ELSE /\ acct' = [acct EXCEPT ![r.a] = r.row]
            /\ crossed' = (crossed \/ acct # r.seen)
            /\ Set0(s, IF r.forget THEN [do |-> "forget", phone |-> r.row.phone] ELSE Resting)
    /\ UNCHANGED <<acache, afill, astale, refs, calls0, menuVars, cacheVars>>

\* UpdateAccount reads the row and is asked for a name, a number and whether
\* to be the default.
UpdateAccount(s) ==
    /\ Ask /\ hreq[s] = Resting
    /\ \E a \in LiveAccounts, n \in Names, p \in Phones, d \in BOOLEAN :
         /\ [acct[a] EXCEPT !.name = n, !.phone = p, !.dflt = d] # acct[a]
         /\ Set0(s, [do |-> "update", a |-> a, seen |-> acct,
                     row |-> [acct[a] EXCEPT !.name = n, !.phone = p, !.dflt = d, !.ver = 1]])
    /\ UNCHANGED <<accountVars, crossed, menuVars, cacheVars>>

\* Only a row that becomes the default clears the others.
ClearDefaults(s) ==
    LET r == hreq[s] IN
    /\ r.do = "update"
    /\ acct' = IF r.row.dflt /\ ~r.seen[r.a].dflt THEN Undefaulted ELSE acct
    /\ crossed' = (crossed \/ acct # r.seen)
    /\ Set0(s, [r EXCEPT !.do = "save", !.seen = [acct' EXCEPT ![r.a] = r.seen[r.a]]])
    /\ UNCHANGED <<acache, afill, astale, refs, calls0, menuVars, cacheVars>>
RenameSomeTables(old, new) ==
    LET left == CHOOSE t \in Tables : TRUE
    IN  [t \in Tables |-> IF refs[t] = old /\ t # left THEN new ELSE refs[t]]

\* entityrefs.RenameAccount: every table, in the transaction of the row.
RenameAccount(old, new) == [t \in Tables |-> IF refs[t] = old THEN new ELSE refs[t]]
\* The whole row is saved with the name it was read under as the old name.  A
\* collision undoes the transaction.  The cache entry under the new number is
\* dropped next; one under the old number is left to its expiry.
SaveAccount(s) ==
    LET r == hreq[s]
        old == r.seen[r.a]
    IN
    /\ r.do = "save"
    /\ IF Taken(r.row.name, r.row.phone, r.a)
       THEN UNCHANGED <<acct, refs, crossed, astale>> /\ Set0(s, Resting)
       ELSE /\ acct' = [acct EXCEPT ![r.a] = r.row]
            /\ refs' = RenameAccount(old.name, r.row.name)
            /\ crossed' = (crossed \/ [acct EXCEPT ![r.a].dflt = old.dflt] # r.seen)
            /\ astale' = astale \cup ({old.phone, acct[r.a].phone} \ {r.row.phone})
            /\ Set0(s, [do |-> "forget", phone |-> r.row.phone])
    /\ UNCHANGED <<acache, afill, calls0, menuVars, cacheVars>>

\* createOrUpdateAccount: the row of a number that was connected before.
Reconnected(a, n) == [acct[a] EXCEPT !.name = n, !.ver = 1]

\* ExchangeToken: the row with that number, deleted
\* or not, is taken up again under a name Meta gives; it keeps its flags, and
\* a deleted one stays deleted.  A number nobody has gets a row, no default.
ExchangeToken(s) ==
    /\ Ask /\ hreq[s] = Resting
    /\ \E a \in Accounts, n \in Names :
         \/ /\ acct[a].st # No
            /\ Set0(s, [do |-> "save", a |-> a, seen |-> acct, row |-> Reconnected(a, n)])
         \/ /\ acct[a].st = No /\ \A o \in Handlers : hreq[o].do = "insert" => hreq[o].a # a
            /\ \E p \in Phones :
                 /\ \A b \in Accounts : acct[b].phone # p
                 /\ Set0(s, [do |-> "insert", a |-> a, seen |-> acct, forget |-> TRUE,
                             row |-> [st |-> "live", name |-> n, phone |-> p, dflt |-> FALSE, ver |-> 0]])
    /\ UNCHANGED <<accountVars, crossed, menuVars, cacheVars>>

\* RegisterPhoneNumber: the row as read, with the new registration.
RegisterPhoneNumber(s) ==
    /\ Ask /\ hreq[s] = Resting
    /\ \E a \in LiveAccounts :
         Set0(s, [do |-> "save", a |-> a, seen |-> acct, row |-> [acct[a] EXCEPT !.ver = 1]])
    /\ UNCHANGED <<accountVars, crossed, menuVars, cacheVars>>

\* DeleteAccount: references keep the name.
DeleteAccount(s) ==
    /\ Ask /\ hreq[s] = Resting
    /\ \E a \in LiveAccounts :
         /\ acct' = [acct EXCEPT ![a].st = "gone"]
         /\ Set0(s, [do |-> "forget", phone |-> acct[a].phone])
    /\ UNCHANGED <<acache, afill, astale, refs, crossed, menuVars, cacheVars>>

\* InvalidateWhatsAppAccountCache.
InvalidateWhatsAppAccountCache(s) ==
    /\ hreq[s].do = "forget"
    /\ acache' = [acache EXCEPT ![hreq[s].phone] = Resting]
    /\ astale' = astale \ {hreq[s].phone}
    /\ Set0(s, Resting)
    /\ UNCHANGED <<acct, afill, refs, crossed, calls0, menuVars, cacheVars>>

\* What the webhook uses of an account.
Row(p) == {[do |-> "row", name |-> acct[a].name, ver |-> acct[a].ver] :
              a \in {b \in LiveAccounts : acct[b].phone = p}}

\* getWhatsAppAccountCached: a miss loads the row, and stores it later.
LoadAccount(p) ==
    /\ acache[p] = Resting /\ afill[p] = Resting
    /\ \E e \in Row(p) : afill' = [afill EXCEPT ![p] = e]
    /\ UNCHANGED <<acct, acache, astale, refs, hreq, crossed, calls0, menuVars, cacheVars>>
StoreAccount(p) ==
    /\ afill[p] # Resting
    /\ acache' = [acache EXCEPT ![p] = afill[p]]
    /\ afill' = [afill EXCEPT ![p] = Resting]
    /\ astale' = IF afill[p] \in Row(p) THEN astale ELSE astale \cup {p}
    /\ UNCHANGED <<acct, refs, hreq, crossed, calls0, menuVars, cacheVars>>

\* A handler that stores an account's name in a row of its own looks the
\* account up first (resolveWhatsAppAccount by name) ...
ResolveWhatsAppAccount(s) ==
    /\ Ask /\ hreq[s] = Resting
    /\ \E t \in Tables, n \in Names :
         /\ refs[t] = No /\ ByName(n) # {}
         /\ Set0(s, [do |-> "refer", t |-> t, name |-> n])
    /\ UNCHANGED <<accountVars, crossed, menuVars, cacheVars>>
\* ... and inserts later, with the name it was given.
InsertReference(s) ==
    /\ hreq[s].do = "refer"
    /\ refs' = [refs EXCEPT ![hreq[s].t] = hreq[s].name]
    /\ crossed' = (crossed \/ ByName(hreq[s].name) = {})
    /\ Set0(s, Resting)
    /\ UNCHANGED <<acct, acache, afill, astale, calls0, menuVars, cacheVars>>

AccountStep ==
    \/ \E s \in Handlers :
         \/ CreateAccount(s) \/ InsertAccount(s) \/ UpdateAccount(s) \/ ClearDefaults(s) \/ SaveAccount(s)
         \/ ExchangeToken(s) \/ RegisterPhoneNumber(s) \/ DeleteAccount(s)
         \/ InvalidateWhatsAppAccountCache(s) \/ ResolveWhatsAppAccount(s) \/ InsertReference(s)
    \/ \E p \in Phones : LoadAccount(p) \/ StoreAccount(p)

-----------------------------------------------------------------------------
(* IVR flows *)

StartsCleared(n, but) == [m \in Menus |-> IF menu[m].st = "live" /\ menu[m].acct = n /\ m # but
                                    THEN [menu[m] EXCEPT !.start = FALSE] ELSE menu[m]]
\* CreateIVRFlow clears the account's call start before it validates ...
CreateIVRFlow(s) ==
    /\ AskMenu /\ hreq[s] = Resting
    /\ \E m \in Menus, n \in Names, start \in BOOLEAN :
         /\ menu[m].st = No /\ \A o \in Handlers : hreq[o].do = "menu" => hreq[o].m # m
         /\ menu' = IF start THEN StartsCleared(n, m) ELSE menu
         /\ Set0(s, [do |-> "menu", m |-> m, seen |-> menu', row |-> [st |-> "live", acct |-> n, start |-> start]])
    /\ UNCHANGED <<accountVars, crossed, cacheVars>>

\* UpdateIVRFlow: the call start of the account the menu is in, not of the one
\* it is moved to.
UpdateIVRFlow(s) ==
    /\ AskMenu /\ hreq[s] = Resting
    /\ \E m \in Menus, n \in Names, start \in BOOLEAN :
         /\ menu[m].st = "live"
         /\ menu' = IF start /\ ~menu[m].start THEN StartsCleared(menu[m].acct, m) ELSE menu
         /\ Set0(s, [do |-> "menu", m |-> m, seen |-> menu', row |-> [st |-> "live", acct |-> n, start |-> start]])
    /\ UNCHANGED <<accountVars, crossed, cacheVars>>

\* validateFlowGraph or the speech service refuses; what was cleared stays so.
ValidateFlowGraph(s) ==
    /\ hreq[s].do = "menu"
    /\ Set0(s, Resting)
    /\ UNCHANGED <<accountVars, crossed, calls0, menuVars, cacheVars>>

\* ... and writes.
WriteIVRFlow(s) ==
    LET r == hreq[s]
        moved == menu[r.m].st = "live" /\ menu[r.m].acct # r.row.acct
    IN
    /\ r.do = "menu"
    /\ menu[r.m].st # "gone"
    /\ menu' = [menu EXCEPT ![r.m] = r.row]
    /\ crossed' = (crossed \/ menu # r.seen \/ (moved /\ r.row.start))
    /\ Set0(s, Resting)
    /\ UNCHANGED <<accountVars, calls0, cacheVars>>

DeleteIVRFlow ==
    /\ AskMenu
    /\ \E m \in Menus : menu[m].st = "live" /\ menu' = [menu EXCEPT ![m].st = "gone"]
    /\ UNCHANGED <<accountVars, hreq, crossed, cacheVars>>

MenuStep ==
    \/ DeleteIVRFlow
    \/ \E s \in Handlers : CreateIVRFlow(s) \/ UpdateIVRFlow(s) \/ ValidateFlowGraph(s) \/ WriteIVRFlow(s)

-----------------------------------------------------------------------------
(* Caches *)

\* A handler's commit; its invalidation follows.
Commits(subjects) ==
    /\ writes < MaxWrites /\ writes' = writes + 1
    /\ subject \in subjects
    /\ store' = store + 1
    /\ UNCHANGED <<subject, copy0, loading, reads0>>
Announced == dropping' = dropping + 1 /\ UNCHANGED excuse
Unannounced == excuse' = TRUE /\ UNCHANGED dropping

\* The settings row is part of two caches, and both are dropped.
WriteChatbotSettings == Commits({"settings", "sla"}) /\ Announced
WriteKeywordRule == Commits({"rules"}) /\ Announced
WriteChatbotFlow == Commits({"flows"}) /\ Announced
CreateAIContext == Commits({"contexts"}) /\ Announced
UpdateAIContext == Commits({"contexts"}) /\ Announced
DeleteAIContext == Commits({"contexts"}) /\ Announced
CreateWebhook == Commits({"webhooks"}) /\ Announced

UpdateWebhook == Commits({"webhooks"}) /\ Announced
DeleteWebhook == Commits({"webhooks"}) /\ Announced
WriteTag == Commits({"tags"}) /\ Announced
UpdateOrganizationSettings == Commits({"organization"}) /\ Announced

\* Renaming an account rewrites rows of several kinds and drops the copies of
\* the settings only.
AccountRenamed == \/ Commits({"settings"}) /\ Announced
                  \/ Commits({"flows", "rules", "contexts"}) /\ Unannounced

\* The invalidation: one key, or a scan over the keys of the organization.
Invalidate ==
    /\ dropping > 0
    /\ dropping' = dropping - 1
    /\ copy0' = Miss0
    /\ excuse' = (excuse /\ loading # Miss0)
    /\ UNCHANGED <<subject, store, loading, writes, reads0>>

\* Redis does not answer: the error is dropped with the invalidation.
InvalidationLost ==
    /\ dropping > 0
    /\ dropping' = dropping - 1
    /\ excuse' = TRUE
    /\ UNCHANGED <<subject, store, copy0, loading, writes, reads0>>

\* A reader that missed loads from the database.
Load(subjects) ==
    /\ subject \in subjects
    /\ reads0 < MaxReads0 /\ reads0' = reads0 + 1
    /\ copy0 = Miss0 /\ loading = Miss0
    /\ loading' = store
    /\ UNCHANGED <<subject, store, copy0, dropping, excuse, writes>>
GetChatbotSettingsCached == Load({"settings"})
GetSLAEnabledSettingsCached == Load({"sla"})
GetKeywordRulesCached == Load({"rules"})
GetFlowsCached == Load({"flows"})
GetAIContextsCached == Load({"contexts"})
GetWebhooksCached == Load({"webhooks"})
GetTagsCached == Load({"tags"})
GetOrgSettingsCached == Load({"organization"})

\* Keyword rules and AI contexts: a failed query is logged and the empty list
\* is cached like any other.
LoadNothing ==
    /\ subject \in {"rules", "contexts"}
    /\ reads0 < MaxReads0 /\ reads0' = reads0 + 1
    /\ copy0 = Miss0 /\ loading = Miss0
    /\ loading' = 0 /\ excuse' = TRUE
    /\ UNCHANGED <<subject, store, copy0, dropping, writes>>

\* The reader stores what it loaded, however old that is by now.
StoreCopy ==
    /\ loading # Miss0
    /\ copy0' = loading /\ loading' = Miss0
    /\ excuse' = (excuse \/ loading # store)
    /\ UNCHANGED <<subject, store, dropping, writes, reads0>>

\* The key expires.
ExpireCopy ==
    /\ copy0 # Miss0
    /\ copy0' = Miss0
    /\ excuse' = (excuse /\ loading # Miss0)
    /\ UNCHANGED <<subject, store, loading, dropping, writes, reads0>>

CacheStep ==
    /\ \/ WriteChatbotSettings \/ WriteKeywordRule \/ WriteChatbotFlow \/ CreateAIContext \/ UpdateAIContext \/ DeleteAIContext
       \/ CreateWebhook \/ UpdateWebhook \/ DeleteWebhook \/ WriteTag \/ UpdateOrganizationSettings
       \/ AccountRenamed \/ Invalidate \/ InvalidationLost \/ LoadNothing \/ StoreCopy \/ ExpireCopy
       \/ GetChatbotSettingsCached \/ GetSLAEnabledSettingsCached \/ GetKeywordRulesCached \/ GetFlowsCached
       \/ GetAIContextsCached \/ GetWebhooksCached \/ GetTagsCached \/ GetOrgSettingsCached
    /\ UNCHANGED <<accountVars, menuVars, hreq, crossed, calls0>>

-----------------------------------------------------------------------------

Unused == [st |-> No, name |-> No, phone |-> No, dflt |-> FALSE, ver |-> 0]
ConfigInit ==
    /\ \E a \in Accounts, n \in Names, p \in Phones, t \in Tables :
         /\ acct = [b \in Accounts |-> IF b = a THEN [st |-> "live", name |-> n, phone |-> p, dflt |-> TRUE, ver |-> 0]
                                               ELSE Unused]
         /\ refs = [u \in Tables |-> IF u = t THEN No ELSE n]
         /\ menu = [m \in Menus |-> [st |-> No, acct |-> n, start |-> FALSE]]
    /\ acache = [p \in Phones |-> Resting] /\ afill = [p \in Phones |-> Resting] /\ astale = {}
    /\ hreq = [s \in Handlers |-> Resting]
    /\ crossed = FALSE /\ calls0 = 0
    /\ subject \in Subjects
    /\ store = 0 /\ copy0 = Miss0 /\ loading = Miss0 /\ dropping = 0 /\ excuse = FALSE
    /\ writes = 0 /\ reads0 = 0

ConfigNext == AccountStep \/ MenuStep \/ CacheStep
ConfigSpec == ConfigInit /\ [][ConfigNext]_configVars

-----------------------------------------------------------------------------
(* Properties *)

\* At most one account of an organization is the default for outgoing
\* messages, although the others are cleared by a statement outside the
\* transaction that saves the row; only requests that overlapped break it.
OneDefaultAccount ==
    Cardinality({a \in LiveAccounts : acct[a].dflt}) <= 1 \/ crossed

\* What a row of another table says its account is, is an account: renames
\* reach every table, in the transaction of the account row (RenameAccount).
\* Only rows written, or accounts saved, from what was read before a rename
\* lose it.
ReferencesResolve ==
    \A t \in Tables : refs[t] # No =>
        crossed \/ \E a \in Accounts : acct[a].st # No /\ acct[a].name = refs[t]

\* The account the webhook finds under a number is the row with that number,
\* unless its invalidation is on its way, a reader stored a row it had loaded
\* before the change, or the account was moved away from the number.
AccountCacheFresh ==
    \A p \in Phones : acache[p] # Resting /\ p \notin astale =>
        acache[p] \in Row(p) \/ \E s \in Handlers : hreq[s] = [do |-> "forget", phone |-> p]

\* At most one menu of an account answers its calls, except after overlapping
\* edits or when a menu that answers calls was moved to another account.
OneCallStart ==
    \A n \in Names : Cardinality({m \in Menus : menu[m].st = "live" /\ menu[m].acct = n /\ menu[m].start}) <= 1
                     \/ crossed

\* A cached configuration is the one in the database, unless a writer has yet
\* to drop it, or one of the known gaps was met: a fill that raced a write, a
\* lost invalidation, an account rename, an empty list after a failed query.
CopyIsCurrent == copy0 \in {Miss0, store} \/ dropping > 0 \/ excuse

\* Accounts, menus and settings: one default, one menu that answers, names that
\* resolve, and copies that are current (accounts.go, ivr_flows.go, cache.go).
ConfigInv ==
    OneDefaultAccount /\ ReferencesResolve /\ AccountCacheFresh /\ OneCallStart /\ CopyIsCurrent
=============================================================================
