------------------------------ MODULE MCPlatform ------------------------------
(***************************************************************************)
(* The parts of the platform that share no state, in one run: a behaviour   *)
(* follows one of them, chosen at the start, and leaves the others as they  *)
(* began.  Every part is explored in full, and the size of the run is the   *)
(* sum of the parts, not their product.                                     *)
(***************************************************************************)
EXTENDS Access, Hub, Messages, MetaMirror, Config

CONSTANTS FirstAccount, FirstName, FirstPhone, FirstTable

MCPerson == [t \in Tabs |-> CHOOSE p \in People : TRUE]
MCOrgOfPerson == [p \in People |-> "acme"]

VARIABLE focus

Parts == {"access", "stream", "notes", "outbound", "inbound", "templates", "flows",
          "accounts", "menus", "caches"}

\* The parts that begin in several ways do so only when they are followed.
PlatformInit ==
    /\ focus \in Parts
    /\ AccessInit /\ HubInit /\ MessagesInit /\ MirrorInit /\ ConfigInit
    /\ focus # "access" => \A x \in Slots : member[x].st = "live" => x[2] = user[x[1]].home
    /\ focus # "templates" => tmpl.st = Absent
    /\ focus # "caches" => subject = "settings"
    /\ acct[FirstAccount] = [st |-> "live", name |-> FirstName, phone |-> FirstPhone, dflt |-> TRUE, ver |-> 0]
    /\ refs[FirstTable] = No

PlatformNext ==
    \/ /\ focus = "access" /\ AccessNext
       /\ UNCHANGED <<focus, hubVars, messageVars, mirrorVars, configVars>>
    \/ /\ \/ focus = "stream" /\ StreamNext
          \/ focus = "notes" /\ NotesNext
       /\ UNCHANGED <<focus, accessVars, messageVars, mirrorVars, configVars>>
    \/ /\ \/ focus = "outbound" /\ OutNext
          \/ focus = "inbound" /\ InNext
       /\ UNCHANGED <<focus, accessVars, hubVars, mirrorVars, configVars>>
    \/ /\ \/ focus = "templates" /\ TemplateNext /\ UNCHANGED flowVars
          \/ focus = "flows" /\ FlowNext /\ UNCHANGED templateVars
       /\ UNCHANGED <<focus, accessVars, hubVars, messageVars, configVars>>
    \/ /\ \/ focus = "accounts" /\ AccountStep
          \/ focus = "menus" /\ MenuStep
          \/ focus = "caches" /\ CacheStep
       /\ UNCHANGED <<focus, accessVars, hubVars, messageVars, mirrorVars>>

PlatformSpec == PlatformInit /\ [][PlatformNext]_<<focus, accessVars, hubVars, messageVars, mirrorVars, configVars>>
=============================================================================
