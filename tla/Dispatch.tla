------------------------------- MODULE Dispatch -------------------------------
(***************************************************************************)
(* The notification fan-out: notify.Dispatcher.Dispatch for one tenant     *)
(* (internal/notify/dispatcher.go), against requests that change the       *)
(* tenant's settings while it runs (slash commands, modals, the REST API,  *)
(* OAuth installs and the setup page, all through internal/store/sqlite).  *)
(*                                                                         *)
(* A dispatch reads the settings in up to six statements, none of them in  *)
(* a transaction with another: the count of the filters, the matching      *)
(* filter, the subscriptions, the tenant, the Zoom credentials, and for    *)
(* each IRC subscription the IRC configuration.  "moments" records every   *)
(* state of the settings a dispatch lived through, so that what it sent    *)
(* can be compared with what each of them asks for.                        *)
(*                                                                         *)
(* The Zoom API clients live in memory, one per tenant, and outlive the    *)
(* credentials they were made from.                                        *)
(***************************************************************************)
EXTENDS Integers, FiniteSets

CONSTANTS
  Dispatchers,   \* webhook goroutines inside Dispatch
  Topics,        \* meeting topics
  Meetings,      \* meeting ids
  Patterns,      \* filter patterns
  Contains,      \* Contains[p]: the topics that pattern p occurs in, case folded
  Suffixes,      \* message suffixes
  Tokens,        \* Slack bot tokens
  Servers,       \* IRC servers that may be configured
  Creds,         \* Zoom API credentials
  Targets,       \* Slack and IRC channels
  Subscriptions, \* rows of subscriptions that may exist, enabled
  None,          \* sentinel: NULL, no row
  InitSettings,  \* what the settings may be at the start, ids up to InitFilters
  InitFilters,   \* the filter rows created by then
  MaxFilters,    \* bound on the filter rows ever created
  MaxChanges,    \* bound on the settings requests
  MaxErrors      \* bound on the statements that fail

SubscriptionType == {"slack", "irc"}
Links    == BOOLEAN \cup {None}
Tenant   == [suffix : Suffixes, link : BOOLEAN, token : Tokens]
FilterId == 1..MaxFilters
Filter   == [id : FilterId, pattern : Patterns, suffix : Suffixes \cup {None}, link : Links]

ASSUME DispatchAssumption ==
  /\ Contains \in [Patterns -> SUBSET Topics]
  /\ Subscriptions \subseteq
       [id : Nat, type : SubscriptionType, meeting : Meetings \cup {None}, target : Targets]
  /\ None \notin Topics \cup Meetings \cup Suffixes \cup Creds \cup BOOLEAN
  /\ None \notin Tenant \cup Filter
  /\ {MaxFilters, MaxChanges, MaxErrors} \subseteq Nat
  /\ InitFilters \in 0..MaxFilters
  /\ \A s \in InitSettings :
       /\ DOMAIN s = {"tenant", "filters", "subs", "irc", "creds"}
       /\ s.tenant \in Tenant \cup {None}
       /\ s.tenant = None => s.filters = {} /\ s.subs = {} /\ s.irc = {} /\ s.creds = None
       /\ \A f \in s.filters : f \in Filter /\ f.id <= InitFilters
       /\ \A f, g \in s.filters : f.id = g.id => f = g
       /\ s.subs \subseteq Subscriptions /\ s.irc \subseteq Servers
       /\ \A u, v \in s.subs : u.id = v.id => u = v
       /\ s.creds \in Creds \cup {None}

VARIABLES
  tenant,       \* row of tenants, or None
  filters,      \* rows of meeting_filters
  lastFilter,   \* its AUTOINCREMENT sequence
  subs,         \* enabled rows of subscriptions
  irc,          \* servers in irc_configs
  creds,        \* row of zoom_credentials, or None
  client,       \* Dispatcher.zoomClients[tenant]: the credentials it holds, or None
  dispatcher,   \* dispatcher[d]: what the goroutine is doing
  sends,        \* sends[d]: the Send calls its dispatch made
  moments,      \* moments[d]: the settings while its dispatch ran
  changes,      \* settings requests so far
  errors        \* failed statements so far

settingVars == <<tenant, filters, lastFilter, subs, irc, creds>>
vars == <<settingVars, client, dispatcher, sends, moments, changes, errors>>

-----------------------------------------------------------------------------
(* A Send call: to whom, through which token or server, and the text.       *)
Message ==
  [to : Subscriptions, via : Tokens \cup Servers, suffix : Suffixes, linked : BOOLEAN]

Steps == {"idle", "count", "match", "subs", "tenant", "creds", "link", "send", "done"}

DispatcherState ==
  [step : Steps, topic : Topics \cup {None}, meeting : Meetings \cup {None},
   filter : Filter \cup {None}, subs : SUBSET Subscriptions, tenant : Tenant \cup {None},
   creds : Creds \cup {None}, used : Creds \cup {None}, linked : BOOLEAN,
   verdict : {"open", "allowed", "dropped"}, failed : BOOLEAN, start : Nat]

Idle ==
  [step |-> "idle", topic |-> None, meeting |-> None, filter |-> None, subs |-> {},
   tenant |-> None, creds |-> None, used |-> None, linked |-> FALSE,
   verdict |-> "open", failed |-> FALSE, start |-> 0]

Running(d) == dispatcher[d].step \notin {"idle", "done"}

Settings ==
  [tenant |-> tenant, filters |-> filters, subs |-> subs, irc |-> irc, creds |-> creds]

Init ==
  /\ \E s \in InitSettings :
       /\ tenant = s.tenant /\ filters = s.filters /\ subs = s.subs
       /\ irc = s.irc /\ creds = s.creds
  /\ lastFilter = InitFilters
  /\ client = None
  /\ dispatcher = [d \in Dispatchers |-> Idle]
  /\ sends = [d \in Dispatchers |-> {}]
  /\ moments = [d \in Dispatchers |-> {}]
  /\ changes = 0
  /\ errors = 0

-----------------------------------------------------------------------------
(* Which filter applies: the first by id whose pattern occurs in the topic. *)

Matching(fs, topic) == {f \in fs : topic \in Contains[f.pattern]}

(* Variant: the newest filter that matches. *)
LastMatch(fs, topic) ==
  IF Matching(fs, topic) = {} THEN None
  ELSE CHOOSE f \in Matching(fs, topic) : \A g \in Matching(fs, topic) : f.id >= g.id

FirstMatch(fs, topic) ==
  IF Matching(fs, topic) = {} THEN None
  ELSE CHOOSE f \in Matching(fs, topic) : \A g \in Matching(fs, topic) : f.id <= g.id

(* A filter's override wins over the tenant's default. *)
SuffixFor(t, f) == IF f # None /\ f.suffix # None THEN f.suffix ELSE t.suffix

LinkFor(t, f) == IF f # None /\ f.link # None THEN f.link ELSE t.link

ForMeeting(ss, m) == {s \in ss : s.meeting \in {m, None}}

(* The Send calls for subscription s. *)
SendsTo(s, t, suffix, linked, servers) ==
  [to : {s}, via : IF s.type = "slack" THEN {t.token} ELSE servers,
   suffix : {suffix}, linked : {linked}]

-----------------------------------------------------------------------------
(* The dispatch *)

Goto(d, s) == [dispatcher EXCEPT ![d].step = s]

(* A statement fails; the dispatch gives up. *)
GiveUp(d) ==
  /\ errors < MaxErrors
  /\ errors' = errors + 1
  /\ dispatcher' = [dispatcher EXCEPT ![d].step = "done", ![d].failed = TRUE]
  /\ UNCHANGED client

Call(d) ==
  /\ dispatcher[d].step = "idle"
  /\ \E topic \in Topics, m \in Meetings :
       dispatcher' = [dispatcher EXCEPT ![d] =
         [Idle EXCEPT !.step = "count", !.topic = topic, !.meeting = m, !.start = changes]]
  /\ moments' = [moments EXCEPT ![d] = {Settings}]
  /\ UNCHANGED <<settingVars, client, sends, changes, errors>>

(* CheckFilter, first statement: SELECT COUNT.  No filters: all is allowed. *)
CountFilters(d) ==
  /\ dispatcher[d].step = "count"
  /\ \/ /\ dispatcher' = IF filters = {}
                         THEN [Goto(d, "subs") EXCEPT ![d].verdict = "allowed"]
                         ELSE Goto(d, "match")
        /\ UNCHANGED <<client, errors>>
     \/ GiveUp(d)
  /\ UNCHANGED <<settingVars, sends, moments, changes>>

(* Variant: "no match" is read like "no filters". *)
MatchOrAllow(d) ==
  /\ dispatcher[d].step = "match"
  /\ dispatcher' = [Goto(d, "subs") EXCEPT
       ![d].verdict = "allowed", ![d].filter = FirstMatch(filters, dispatcher[d].topic)]
  /\ UNCHANGED <<settingVars, client, sends, moments, changes, errors>>

(* CheckFilter, second statement: the first match, or the topic is dropped. *)
MatchFilter(d) ==
  /\ dispatcher[d].step = "match"
  /\ LET f == FirstMatch(filters, dispatcher[d].topic)
     IN  \/ /\ dispatcher' = IF f = None
                             THEN [Goto(d, "done") EXCEPT ![d].verdict = "dropped"]
                             ELSE [Goto(d, "subs") EXCEPT ![d].verdict = "allowed", ![d].filter = f]
            /\ UNCHANGED <<client, errors>>
         \/ GiveUp(d)
  /\ UNCHANGED <<settingVars, sends, moments, changes>>

GetSubscriptionsForMeeting(d) ==
  /\ dispatcher[d].step = "subs"
  /\ LET ss == ForMeeting(subs, dispatcher[d].meeting)
     IN  \/ /\ dispatcher' = IF ss = {} THEN Goto(d, "done")
                             ELSE [Goto(d, "tenant") EXCEPT ![d].subs = ss]
            /\ UNCHANGED <<client, errors>>
         \/ GiveUp(d)
  /\ UNCHANGED <<settingVars, sends, moments, changes>>

GetTenant(d) ==
  /\ dispatcher[d].step = "tenant"
  /\ \/ /\ dispatcher' = IF tenant = None THEN Goto(d, "done")
                         ELSE [Goto(d, IF LinkFor(tenant, dispatcher[d].filter)
                                       THEN "creds" ELSE "send") EXCEPT ![d].tenant = tenant]
        /\ UNCHANGED <<client, errors>>
     \/ GiveUp(d)
  /\ UNCHANGED <<settingVars, sends, moments, changes>>

(* getMeetingLink: no credentials, or an error, and the text goes unlinked. *)
GetZoomCredentials(d) ==
  /\ dispatcher[d].step = "creds"
  /\ \/ /\ dispatcher' = IF creds = None THEN Goto(d, "send")
                         ELSE [Goto(d, "link") EXCEPT ![d].creds = creds]
        /\ UNCHANGED errors
     \/ /\ errors < MaxErrors /\ errors' = errors + 1
        /\ dispatcher' = Goto(d, "send")
  /\ UNCHANGED <<settingVars, client, sends, moments, changes>>

(* getOrCreateZoomClient, under its mutex: the client that is there, or one *)
(* made from the credentials just read.                                     *)
ClientFor(d) == IF client # None THEN client ELSE dispatcher[d].creds

(* The request to Zoom succeeds or fails. *)
FetchLink(d) ==
  /\ dispatcher[d].step = "link"
  /\ client' = ClientFor(d)
  /\ \E linked \in BOOLEAN :
       dispatcher' = [Goto(d, "send") EXCEPT ![d].used = ClientFor(d), ![d].linked = linked]
  /\ UNCHANGED <<settingVars, sends, moments, changes, errors>>

(* One turn of the loop over the subscriptions.  A Send that fails is only  *)
(* counted; GetIRCConfig is read again for each IRC subscription, and none  *)
(* or an error skips that one.                                              *)
Send(d) ==
  /\ dispatcher[d].step = "send"
  /\ \E s \in dispatcher[d].subs :
       LET x == dispatcher[d]
           calls == SendsTo(s, x.tenant, SuffixFor(x.tenant, x.filter), x.linked, irc)
       IN  \/ /\ sends' = [sends EXCEPT ![d] = @ \cup calls]
              /\ dispatcher' = [dispatcher EXCEPT ![d].subs = @ \ {s}]
              /\ UNCHANGED errors
           \/ /\ s.type = "irc" /\ errors < MaxErrors /\ errors' = errors + 1
              /\ dispatcher' = [dispatcher EXCEPT ![d].subs = @ \ {s}, ![d].failed = TRUE]
              /\ UNCHANGED sends
  /\ UNCHANGED <<settingVars, client, moments, changes>>

Finish(d) ==
  /\ dispatcher[d].step = "send" /\ dispatcher[d].subs = {}
  /\ dispatcher' = Goto(d, "done")
  /\ UNCHANGED <<settingVars, client, sends, moments, changes, errors>>

(* The goroutine leaves Dispatch; it may be called again. *)
Return(d) ==
  /\ dispatcher[d].step = "done"
  /\ dispatcher' = [dispatcher EXCEPT ![d] = Idle]
  /\ sends' = [sends EXCEPT ![d] = {}]
  /\ moments' = [moments EXCEPT ![d] = {}]
  /\ UNCHANGED <<settingVars, client, changes, errors>>

-----------------------------------------------------------------------------
(* Requests that change the settings; each is one statement of the store,   *)
(* and every dispatch on its way has lived through its outcome.             *)

Change ==
  /\ changes < MaxChanges
  /\ changes' = changes + 1
  /\ moments' = [d \in Dispatchers |->
                   IF Running(d) THEN moments[d] \cup {Settings'} ELSE moments[d]]
  /\ UNCHANGED <<client, dispatcher, sends, errors>>

CreateFilter ==
  /\ tenant # None /\ lastFilter < MaxFilters
  /\ \E p \in Patterns, suffix \in Suffixes \cup {None}, link \in Links :
       filters' = filters \cup
         {[id |-> lastFilter + 1, pattern |-> p, suffix |-> suffix, link |-> link]}
  /\ lastFilter' = lastFilter + 1
  /\ UNCHANGED <<tenant, subs, irc, creds>>
  /\ Change

(* UPDATE writes the pattern and both overrides. *)
UpdateFilter ==
  /\ \E f \in filters, p \in Patterns, suffix \in Suffixes \cup {None}, link \in Links :
       filters' = (filters \ {f}) \cup
         {[id |-> f.id, pattern |-> p, suffix |-> suffix, link |-> link]}
  /\ UNCHANGED <<tenant, lastFilter, subs, irc, creds>>
  /\ Change

DeleteFilter ==
  /\ \E f \in filters : filters' = filters \ {f}
  /\ UNCHANGED <<tenant, lastFilter, subs, irc, creds>>
  /\ Change

CreateSubscription ==
  /\ tenant # None
  /\ \E s \in Subscriptions :
       /\ \A u \in subs : u.id # s.id
       /\ subs' = subs \cup {s}
  /\ UNCHANGED <<tenant, filters, lastFilter, irc, creds>>
  /\ Change

(* UPDATE writes the whole row, "enabled" included; a disabled row may be   *)
(* enabled by it.                                                           *)
UpdateSubscription ==
  /\ tenant # None
  /\ \E s \in Subscriptions, enabled \in BOOLEAN :
       subs' = {u \in subs : u.id # s.id} \cup (IF enabled THEN {s} ELSE {})
  /\ UNCHANGED <<tenant, filters, lastFilter, irc, creds>>
  /\ Change

DeleteSubscription ==
  /\ \E s \in subs : subs' = subs \ {s}
  /\ UNCHANGED <<tenant, filters, lastFilter, irc, creds>>
  /\ Change

UpdateTenantDefaults ==
  /\ tenant # None
  /\ \E suffix \in Suffixes, link \in BOOLEAN :
       tenant' = [tenant EXCEPT !.suffix = suffix, !.link = link]
  /\ UNCHANGED <<filters, lastFilter, subs, irc, creds>>
  /\ Change

(* A re-install writes a new bot token. *)
UpdateTenant ==
  /\ tenant # None
  /\ \E token \in Tokens : tenant' = [tenant EXCEPT !.token = token]
  /\ UNCHANGED <<filters, lastFilter, subs, irc, creds>>
  /\ Change

CreateTenant ==
  /\ tenant = None
  /\ tenant' \in Tenant
  /\ UNCHANGED <<filters, lastFilter, subs, irc, creds>>
  /\ Change

(* Variant: foreign_keys is off, nothing cascades. *)
DeleteTenantOnly ==
  /\ tenant # None
  /\ tenant' = None
  /\ UNCHANGED <<filters, lastFilter, subs, irc, creds>>
  /\ Change

(* ON DELETE CASCADE empties every table of the tenant. *)
DeleteTenant ==
  /\ tenant # None
  /\ tenant' = None
  /\ filters' = {} /\ subs' = {} /\ irc' = {} /\ creds' = None
  /\ UNCHANGED lastFilter
  /\ Change

UpsertIRCConfig ==
  /\ tenant # None
  /\ \E v \in Servers : irc' = irc \cup {v}
  /\ UNCHANGED <<tenant, filters, lastFilter, subs, creds>>
  /\ Change

(* Neither the API nor the setup page tells the dispatcher. *)
UpsertZoomCredentials ==
  /\ tenant # None
  /\ creds' \in Creds
  /\ UNCHANGED <<tenant, filters, lastFilter, subs, irc>>
  /\ Change

-----------------------------------------------------------------------------
SettingsStep ==
  \/ CreateFilter
  \/ UpdateFilter
  \/ DeleteFilter
  \/ CreateSubscription
  \/ UpdateSubscription
  \/ DeleteSubscription
  \/ UpdateTenantDefaults
  \/ UpdateTenant
  \/ CreateTenant
  \/ DeleteTenant
  \/ UpsertIRCConfig
  \/ UpsertZoomCredentials

DispatchStep(d) ==
  \/ Call(d)
  \/ CountFilters(d)
  \/ MatchFilter(d)
  \/ GetSubscriptionsForMeeting(d)
  \/ GetTenant(d)
  \/ GetZoomCredentials(d)
  \/ FetchLink(d)
  \/ Send(d)
  \/ Finish(d)
  \/ Return(d)

Next == SettingsStep \/ \E d \in Dispatchers : DispatchStep(d)

Spec == Init /\ [][Next]_vars

-----------------------------------------------------------------------------
(* What settings s ask of an event, read off the documentation of the       *)
(* commands and independent of how Dispatch computes it.                    *)

Allowed(s, topic) ==
  s.filters = {} \/ \E f \in s.filters : topic \in Contains[f.pattern]

(* The filters before every other one that matches: at most one. *)
Governing(s, topic) ==
  {f \in s.filters : /\ topic \in Contains[f.pattern]
                     /\ \A g \in s.filters : g.id < f.id => topic \notin Contains[g.pattern]}

Overrides(s, topic) == {f \in Governing(s, topic) : f.suffix # None}
LinkOverrides(s, topic) == {f \in Governing(s, topic) : f.link # None}

WantedSuffixes(s, topic) ==
  IF Overrides(s, topic) = {} THEN {s.tenant.suffix} ELSE {f.suffix : f \in Overrides(s, topic)}

LinkWanted(s, topic) ==
  /\ s.creds # None
  /\ IF LinkOverrides(s, topic) = {} THEN s.tenant.link
     ELSE \E f \in LinkOverrides(s, topic) : f.link

(* The Send calls owed to subscription x, when Zoom gives the link or not.  *)
Owed(s, x, topic, m, linked) ==
  IF s.tenant # None /\ x \in s.subs /\ x.meeting \in {m, None} /\ Allowed(s, topic)
  THEN [to : {x}, via : IF x.type = "slack" THEN {s.tenant.token} ELSE s.irc,
        suffix : WantedSuffixes(s, topic), linked : {linked}]
  ELSE {}

-----------------------------------------------------------------------------
(* Properties *)

(* Every variable has its type; rows belong to an installed tenant, and the *)
(* id of a filter or a subscription is its own.                             *)
TypeOK ==
  /\ tenant \in Tenant \cup {None}
  /\ tenant = None => filters = {} /\ subs = {} /\ irc = {} /\ creds = None
  /\ filters \subseteq Filter
  /\ \A f, g \in filters : f.id = g.id => f = g
  /\ \A f \in filters : f.id <= lastFilter
  /\ lastFilter \in 0..MaxFilters
  /\ subs \subseteq Subscriptions
  /\ \A s, u \in subs : s.id = u.id => s = u
  /\ irc \subseteq Servers
  /\ creds \in Creds \cup {None}
  /\ client \in Creds \cup {None}
  /\ dispatcher \in [Dispatchers -> DispatcherState]
  /\ sends \in [Dispatchers -> SUBSET Message]
  /\ changes \in Nat /\ errors \in Nat

(* A dispatch goes past the filters only if at some moment while it ran the *)
(* filters allowed the topic, however many requests changed them.           *)
PassedWhileAllowed ==
  \A d \in Dispatchers :
    dispatcher[d].verdict = "allowed" =>
      \E s \in moments[d] : Allowed(s, dispatcher[d].topic)

(* The only filter of the tenant was deleted while dispatch d ran. *)
LastFilterDeleted(d) ==
  \E s, r \in moments[d] : s.filters # {} /\ r.filters = {} /\ r.tenant # None

(* Although the settings are read piecemeal, a dispatch that saw at most    *)
(* one of them change sends each subscription exactly what the settings     *)
(* before or after the change ask for: the right text, through the right    *)
(* token or servers, or nothing.  CheckFilter's two statements make one     *)
(* exception: the last filter, deleted between them, drops the event.       *)
OneChangeIsAtomic ==
  \A d \in Dispatchers :
    LET x == dispatcher[d]
    IN  /\ x.step = "done" /\ ~x.failed
        /\ changes - x.start <= 1
        /\ ~LastFilterDeleted(d)
        => \A u \in Subscriptions : \E s \in moments[d], linked \in BOOLEAN :
             /\ linked => LinkWanted(s, x.topic)
             /\ {c \in sends[d] : c.to = u} = Owed(s, u, x.topic, x.meeting, linked)
=============================================================================
