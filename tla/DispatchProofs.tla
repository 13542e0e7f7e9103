---------------------------- MODULE DispatchProofs ----------------------------
(***************************************************************************)
(* Facts of Dispatch that hold for any number of dispatches, filters,      *)
(* settings requests and failed statements.                                *)
(***************************************************************************)
EXTENDS Dispatch, TLAPS, WellFoundedInduction

USE DispatchAssumption

-----------------------------------------------------------------------------
(* Which filter applies *)

(* A set of filters that is not empty has a first one. *)
LEMMA FirstExists ==
  ASSUME NEW fs \in SUBSET Filter, fs # {}
  PROVE  \E f \in fs : \A g \in fs : f.id <= g.id
<1> DEFINE ids == {f.id : f \in fs}
<1>1. ids \subseteq Nat /\ ids # {}
  BY DEF Filter, FilterId
<1> HIDE DEF ids
<1>2. PICK i \in ids : \A j \in ids : ~ (<<j, i>> \in OpToRel(<, Nat))
  BY <1>1, WFMin, NatLessThanWellFounded, Zenon
<1>3. \A j \in ids : ~ (j < i)
  BY <1>1, <1>2, Zenon DEF OpToRel
<1>4. \A j \in ids : i <= j
  BY <1>1, <1>3
<1> QED
  BY <1>4 DEF ids

(* FirstMatch finds a filter that matches, before every other one that      *)
(* does, exactly when there is one.                                         *)
LEMMA FirstMatchIsFirst ==
  ASSUME NEW fs \in SUBSET Filter, NEW topic
  PROVE  LET f == FirstMatch(fs, topic)
         IN  IF \E g \in fs : topic \in Contains[g.pattern]
             THEN /\ f \in fs /\ topic \in Contains[f.pattern]
                  /\ \A g \in fs : topic \in Contains[g.pattern] => f.id <= g.id
             ELSE f = None
<1>1. CASE Matching(fs, topic) = {}
  BY <1>1 DEF FirstMatch, Matching
<1>2. CASE Matching(fs, topic) # {}
  <2>1. \E f \in Matching(fs, topic) : \A g \in Matching(fs, topic) : f.id <= g.id
    BY <1>2, FirstExists DEF Matching
  <2>2. /\ FirstMatch(fs, topic) \in Matching(fs, topic)
        /\ \A g \in Matching(fs, topic) : FirstMatch(fs, topic).id <= g.id
    BY <1>2, <2>1 DEF FirstMatch
  <2> QED
    BY <1>2, <2>2 DEF Matching
<1> QED
  BY <1>1, <1>2

LEMMA SuffixTyped ==
  ASSUME NEW t \in Tenant, NEW f \in Filter \cup {None}
  PROVE  SuffixFor(t, f) \in Suffixes
BY DEF SuffixFor, Tenant, Filter

-----------------------------------------------------------------------------
(* Type correctness *)

(* What a dispatch has read by the time it uses it. *)
ReadFirst ==
  /\ DOMAIN moments = Dispatchers
  /\ \A d \in Dispatchers :
       /\ dispatcher[d].step \in {"creds", "link", "send"} => dispatcher[d].tenant \in Tenant
       /\ dispatcher[d].step = "link" => dispatcher[d].creds \in Creds

LEMMA IdleTyped == Idle \in DispatcherState /\ Idle.step = "idle" /\ Idle.verdict = "open"
<1>1. Idle.start \in Nat /\ Idle.subs \in SUBSET Subscriptions
  BY DEF Idle
<1> QED
  BY <1>1 DEF Idle, DispatcherState, Steps

LEMMA InitTyped == Init => TypeOK /\ ReadFirst
<1> SUFFICES ASSUME Init PROVE TypeOK /\ ReadFirst
  OBVIOUS
<1>1. PICK s \in InitSettings :
        tenant = s.tenant /\ filters = s.filters /\ subs = s.subs /\ irc = s.irc /\ creds = s.creds
  BY DEF Init
<1>2. /\ tenant \in Tenant \cup {None}
      /\ tenant = None => filters = {} /\ subs = {} /\ irc = {} /\ creds = None
      /\ filters \subseteq Filter
      /\ \A f, g \in filters : f.id = g.id => f = g
      /\ subs \subseteq Subscriptions /\ irc \subseteq Servers /\ creds \in Creds \cup {None}
  BY <1>1
<1>3. \A d \in Dispatchers : dispatcher[d] = Idle
  BY DEF Init
<1>4. dispatcher \in [Dispatchers -> DispatcherState]
  BY IdleTyped DEF Init
<1>5. sends \in [Dispatchers -> SUBSET Message]
  BY DEF Init
<1> QED
  BY <1>2, <1>3, <1>4, <1>5, IdleTyped DEF Init, TypeOK, ReadFirst

(* A dispatch moves on: its own entry changes to one with the right type.   *)
LEMMA MoveTyped ==
  ASSUME TypeOK, ReadFirst, NEW d \in Dispatchers, NEW x \in DispatcherState,
         dispatcher' = [dispatcher EXCEPT ![d] = x],
         x.step \in {"creds", "link", "send"} => x.tenant \in Tenant,
         x.step = "link" => x.creds \in Creds,
         DOMAIN moments' = Dispatchers,
         UNCHANGED settingVars, client' \in Creds \cup {None},
         sends' \in [Dispatchers -> SUBSET Message],
         changes' \in Nat, errors' \in Nat
  PROVE  TypeOK' /\ ReadFirst'
<1>1. dispatcher' \in [Dispatchers -> DispatcherState]
  BY DEF TypeOK
<1>2. \A e \in Dispatchers : dispatcher'[e] = IF e = d THEN x ELSE dispatcher[e]
  BY DEF TypeOK
<1>3. ReadFirst'
  BY <1>2 DEF ReadFirst
<1> QED
  BY <1>1, <1>3 DEF TypeOK, settingVars

(* What the actions of a dispatch leave alone has its type.                  *)
LEMMA RestTyped ==
  ASSUME TypeOK, ReadFirst
  PROVE  /\ client \in Creds \cup {None} /\ sends \in [Dispatchers -> SUBSET Message]
         /\ DOMAIN moments = Dispatchers /\ changes \in Nat /\ errors \in Nat
BY DEF TypeOK, ReadFirst

(* A settings request leaves the dispatches alone. *)
LEMMA ChangeTyped ==
  ASSUME TypeOK, ReadFirst, Change,
         tenant' \in Tenant \cup {None},
         tenant' = None => filters' = {} /\ subs' = {} /\ irc' = {} /\ creds' = None,
         filters' \subseteq Filter, \A f, g \in filters' : f.id = g.id => f = g,
         lastFilter' \in 0..MaxFilters, \A f \in filters' : f.id <= lastFilter',
         subs' \subseteq Subscriptions, \A s, u \in subs' : s.id = u.id => s = u,
         irc' \subseteq Servers, creds' \in Creds \cup {None}
  PROVE  TypeOK' /\ ReadFirst'
BY DEF TypeOK, ReadFirst, Change

LEMMA SettingsTyped ==
  ASSUME TypeOK, ReadFirst, SettingsStep
  PROVE  TypeOK' /\ ReadFirst'
<1>1. CASE CreateFilter
  <2> PICK p \in Patterns, suffix \in Suffixes \cup {None}, link \in Links :
        filters' = filters \cup
          {[id |-> lastFilter + 1, pattern |-> p, suffix |-> suffix, link |-> link]}
    BY <1>1 DEF CreateFilter
  <2> DEFINE f == [id |-> lastFilter + 1, pattern |-> p, suffix |-> suffix, link |-> link]
  <2>1. lastFilter + 1 \in FilterId
    BY <1>1 DEF CreateFilter, TypeOK, FilterId
  <2>2. f \in Filter /\ f.id = lastFilter + 1
    BY <2>1 DEF Filter
  <2>3. \A g \in filters : g.id \in Nat /\ g.id <= lastFilter
    BY DEF TypeOK, Filter, FilterId
  <2>4. \A g \in filters : g.id # f.id
    BY <2>2, <2>3 DEF TypeOK
  <2>5. filters' = filters \cup {f}
    OBVIOUS
  <2> HIDE DEF f
  <2>6. /\ filters' \subseteq Filter
        /\ \A g, h \in filters' : g.id = h.id => g = h
        /\ \A g \in filters' : g.id <= lastFilter'
    BY <1>1, <2>2, <2>3, <2>4, <2>5 DEF CreateFilter, TypeOK
  <2> QED
    BY <1>1, <2>1, <2>6, ChangeTyped DEF CreateFilter, TypeOK, FilterId
<1>2. CASE UpdateFilter
  <2> PICK f \in filters, p \in Patterns, suffix \in Suffixes \cup {None}, link \in Links :
        filters' = (filters \ {f}) \cup
          {[id |-> f.id, pattern |-> p, suffix |-> suffix, link |-> link]}
    BY <1>2 DEF UpdateFilter
  <2> DEFINE g == [id |-> f.id, pattern |-> p, suffix |-> suffix, link |-> link]
  <2>1. g \in Filter /\ g.id = f.id
    BY DEF TypeOK, Filter
  <2>2. filters' = (filters \ {f}) \cup {g}
    OBVIOUS
  <2> HIDE DEF g
  <2>3. /\ filters' \subseteq Filter
        /\ \A h, k \in filters' : h.id = k.id => h = k
        /\ \A h \in filters' : h.id <= lastFilter'
    BY <1>2, <2>1, <2>2 DEF UpdateFilter, TypeOK
  <2> QED
    BY <1>2, <2>3, ChangeTyped DEF UpdateFilter, TypeOK
<1>3. CASE DeleteFilter
  <2>1. filters' \subseteq filters /\ tenant # None
    BY <1>3 DEF DeleteFilter, TypeOK
  <2> QED
    BY <1>3, <2>1, ChangeTyped DEF DeleteFilter, TypeOK
<1>4. CASE CreateSubscription \/ UpdateSubscription \/ DeleteSubscription
  <2>1. /\ subs' \subseteq Subscriptions
        /\ \A s, u \in subs' : s.id = u.id => s = u
        /\ tenant # None
    BY <1>4 DEF CreateSubscription, UpdateSubscription, DeleteSubscription, TypeOK
  <2>2. Change /\ UNCHANGED <<tenant, filters, lastFilter, irc, creds>>
    BY <1>4 DEF CreateSubscription, UpdateSubscription, DeleteSubscription
  <2> QED
    BY <2>1, <2>2, ChangeTyped DEF TypeOK
<1>5. CASE UpdateTenantDefaults
  <2>1. tenant' \in Tenant
    BY <1>5 DEF UpdateTenantDefaults, TypeOK, Tenant
  <2> QED
    BY <1>5, <2>1, ChangeTyped DEF UpdateTenantDefaults, TypeOK
<1>6. CASE UpdateTenant
  <2>1. tenant' \in Tenant
    BY <1>6 DEF UpdateTenant, TypeOK, Tenant
  <2> QED
    BY <1>6, <2>1, ChangeTyped DEF UpdateTenant, TypeOK
<1>7. CASE CreateTenant
  BY <1>7, ChangeTyped DEF CreateTenant, TypeOK
<1>8. CASE DeleteTenant
  BY <1>8, ChangeTyped DEF DeleteTenant, TypeOK
<1>9. CASE UpsertIRCConfig
  <2>1. irc' \subseteq Servers
    BY <1>9 DEF UpsertIRCConfig, TypeOK
  <2> QED
    BY <1>9, <2>1, ChangeTyped DEF UpsertIRCConfig, TypeOK
<1>10. CASE UpsertZoomCredentials
  BY <1>10, ChangeTyped DEF UpsertZoomCredentials, TypeOK
<1> QED
  BY <1>1, <1>2, <1>3, <1>4, <1>5, <1>6, <1>7, <1>8, <1>9, <1>10 DEF SettingsStep

(* An entry keeps its type when one of its fields is written, and what else *)
(* MoveTyped asks about it.                                                 *)
LEMMA StepWritten ==
  ASSUME NEW y \in DispatcherState, NEW s \in Steps
  PROVE  LET x == [y EXCEPT !.step = s]
         IN  x \in DispatcherState /\ x.step = s /\ x.tenant = y.tenant /\ x.creds = y.creds
BY DEF DispatcherState

Same(x, y) == x.step = y.step /\ x.tenant = y.tenant /\ x.creds = y.creds

LEMMA FieldWritten ==
  ASSUME NEW y \in DispatcherState
  PROVE  /\ \A b \in BOOLEAN :
              [y EXCEPT !.failed = b] \in DispatcherState /\ Same([y EXCEPT !.failed = b], y)
         /\ \A v \in {"open", "allowed", "dropped"} :
              [y EXCEPT !.verdict = v] \in DispatcherState /\ Same([y EXCEPT !.verdict = v], y)
         /\ \A f \in Filter \cup {None} :
              [y EXCEPT !.filter = f] \in DispatcherState /\ Same([y EXCEPT !.filter = f], y)
         /\ \A ss \in SUBSET Subscriptions :
              [y EXCEPT !.subs = ss] \in DispatcherState /\ Same([y EXCEPT !.subs = ss], y)
<1>1. ASSUME NEW b \in BOOLEAN
      PROVE  [y EXCEPT !.failed = b] \in DispatcherState /\ Same([y EXCEPT !.failed = b], y)
  BY DEF DispatcherState, Same
<1>2. ASSUME NEW v \in {"open", "allowed", "dropped"}
      PROVE  [y EXCEPT !.verdict = v] \in DispatcherState /\ Same([y EXCEPT !.verdict = v], y)
  BY DEF DispatcherState, Same
<1>3. ASSUME NEW f \in Filter \cup {None}
      PROVE  [y EXCEPT !.filter = f] \in DispatcherState /\ Same([y EXCEPT !.filter = f], y)
  BY DEF DispatcherState, Same
<1>4. ASSUME NEW ss \in SUBSET Subscriptions
      PROVE  [y EXCEPT !.subs = ss] \in DispatcherState /\ Same([y EXCEPT !.subs = ss], y)
  BY DEF DispatcherState, Same
<1> QED
  BY <1>1, <1>2, <1>3, <1>4

LEMMA TenantWritten ==
  ASSUME NEW y \in DispatcherState, NEW t \in Tenant
  PROVE  LET x == [y EXCEPT !.tenant = t]
         IN  x \in DispatcherState /\ x.step = y.step /\ x.tenant = t
BY DEF DispatcherState

LEMMA CredsWritten ==
  ASSUME NEW y \in DispatcherState, NEW c \in Creds
  PROVE  LET x == [y EXCEPT !.creds = c]
         IN  x \in DispatcherState /\ x.tenant = y.tenant /\ x.creds = c
BY DEF DispatcherState

LEMMA UsedWritten ==
  ASSUME NEW y \in DispatcherState, NEW c \in Creds
  PROVE  LET x == [y EXCEPT !.used = c] IN x \in DispatcherState /\ Same(x, y)
BY DEF DispatcherState, Same

LEMMA LinkedWritten ==
  ASSUME NEW y \in DispatcherState, NEW b \in BOOLEAN
  PROVE  LET x == [y EXCEPT !.linked = b] IN x \in DispatcherState /\ Same(x, y)
BY DEF DispatcherState, Same

LEMMA EntryOf == ASSUME TypeOK, NEW d \in Dispatchers PROVE dispatcher[d] \in DispatcherState
BY DEF TypeOK

LEMMA GiveUpTyped ==
  ASSUME TypeOK, ReadFirst, NEW d \in Dispatchers, GiveUp(d),
         UNCHANGED <<settingVars, sends, moments, changes>>
  PROVE  TypeOK' /\ ReadFirst'
<1> DEFINE y == [dispatcher[d] EXCEPT !.step = "done"]
           x == [y EXCEPT !.failed = TRUE]
<1>1. y \in DispatcherState /\ y.step = "done"
  BY EntryOf, StepWritten DEF Steps
<1>2. dispatcher' = [dispatcher EXCEPT ![d] = x]
  BY DEF GiveUp
<1> HIDE DEF y
<1>3. x \in DispatcherState /\ x.step = "done"
  BY <1>1, FieldWritten DEF Same
<1>4. errors' \in Nat /\ client' = client
  BY DEF GiveUp, TypeOK
<1> HIDE DEF x
<1> QED
  BY <1>2, <1>3, <1>4, MoveTyped DEF TypeOK, ReadFirst

(* The goroutine goes to step s and, if it needs the tenant there, has it.  *)
LEMMA GotoTyped ==
  ASSUME TypeOK, ReadFirst, NEW d \in Dispatchers, NEW s \in Steps,
         dispatcher' = Goto(d, s),
         s \in {"creds", "link", "send"} => dispatcher[d].tenant \in Tenant,
         s # "link",
         UNCHANGED <<settingVars, client, sends, moments, changes>>, errors' \in Nat
  PROVE  TypeOK' /\ ReadFirst'
<1> DEFINE x == [dispatcher[d] EXCEPT !.step = s]
<1>1. x \in DispatcherState /\ x.step = s /\ x.tenant = dispatcher[d].tenant
  BY EntryOf, StepWritten
<1>2. dispatcher' = [dispatcher EXCEPT ![d] = x]
  BY DEF Goto
<1> HIDE DEF x
<1> QED
  BY <1>1, <1>2, MoveTyped DEF TypeOK, ReadFirst

LEMMA CallTyped ==
  ASSUME TypeOK, ReadFirst, NEW d \in Dispatchers, Call(d)
  PROVE  TypeOK' /\ ReadFirst'
<1> PICK topic \in Topics, m \in Meetings : dispatcher' = [dispatcher EXCEPT ![d] =
      [Idle EXCEPT !.step = "count", !.topic = topic, !.meeting = m, !.start = changes]]
  BY DEF Call
<1> DEFINE x == [Idle EXCEPT !.step = "count", !.topic = topic, !.meeting = m, !.start = changes]
<1>1. x \in DispatcherState /\ x.step = "count"
  BY DEF Idle, TypeOK, DispatcherState, Steps
<1>2. dispatcher' = [dispatcher EXCEPT ![d] = x]
  OBVIOUS
<1> HIDE DEF x
<1> QED
  BY <1>1, <1>2, MoveTyped DEF Call, TypeOK, ReadFirst

LEMMA CountTyped ==
  ASSUME TypeOK, ReadFirst, NEW d \in Dispatchers, CountFilters(d)
  PROVE  TypeOK' /\ ReadFirst'
<1>1. CASE GiveUp(d)
  BY <1>1, GiveUpTyped DEF CountFilters
<1>2. CASE UNCHANGED <<client, errors>> /\ dispatcher' = Goto(d, "match")
  BY <1>2, GotoTyped DEF CountFilters, Steps, TypeOK
<1>3. CASE UNCHANGED <<client, errors>> /\ dispatcher' = [Goto(d, "subs") EXCEPT ![d].verdict = "allowed"]
  <2> DEFINE y == [dispatcher[d] EXCEPT !.step = "subs"]
             x == [y EXCEPT !.verdict = "allowed"]
  <2>1. dispatcher' = [dispatcher EXCEPT ![d] = x]
    BY <1>3 DEF Goto, TypeOK
  <2>2. y \in DispatcherState /\ y.step = "subs"
    BY EntryOf, StepWritten DEF Steps
  <2> HIDE DEF y
  <2>3. x \in DispatcherState /\ x.step = "subs"
    BY <2>2, FieldWritten DEF Same
  <2> HIDE DEF x
  <2> QED
    BY <1>3, <2>1, <2>3, MoveTyped DEF CountFilters, TypeOK, ReadFirst
<1> QED
  BY <1>1, <1>2, <1>3 DEF CountFilters

LEMMA MatchTyped ==
  ASSUME TypeOK, ReadFirst, NEW d \in Dispatchers, MatchFilter(d)
  PROVE  TypeOK' /\ ReadFirst'
<1> DEFINE f == FirstMatch(filters, dispatcher[d].topic)
<1>1. CASE GiveUp(d)
  BY <1>1, GiveUpTyped DEF MatchFilter
<1>2. CASE UNCHANGED <<client, errors>> /\ f = None
           /\ dispatcher' = [Goto(d, "done") EXCEPT ![d].verdict = "dropped"]
  <2> DEFINE y == [dispatcher[d] EXCEPT !.step = "done"]
             x == [y EXCEPT !.verdict = "dropped"]
  <2>1. dispatcher' = [dispatcher EXCEPT ![d] = x]
    BY <1>2 DEF Goto, TypeOK
  <2>2. y \in DispatcherState /\ y.step = "done"
    BY EntryOf, StepWritten DEF Steps
  <2> HIDE DEF y
  <2>3. x \in DispatcherState /\ x.step = "done"
    BY <2>2, FieldWritten DEF Same
  <2> HIDE DEF x
  <2> QED
    BY <1>2, <2>1, <2>3, MoveTyped DEF MatchFilter, TypeOK, ReadFirst
<1>3. CASE UNCHANGED <<client, errors>> /\ f # None
           /\ dispatcher' = [Goto(d, "subs") EXCEPT ![d].verdict = "allowed", ![d].filter = f]
  <2>1. f \in Filter
    BY <1>3, FirstMatchIsFirst DEF TypeOK
  <2> HIDE DEF f
  <2> DEFINE z == [dispatcher[d] EXCEPT !.step = "subs"]
             y == [z EXCEPT !.verdict = "allowed"]
             x == [y EXCEPT !.filter = f]
  <2>2. dispatcher' = [dispatcher EXCEPT ![d] = x]
    BY <1>3 DEF Goto, TypeOK
  <2>3. z \in DispatcherState /\ z.step = "subs"
    BY EntryOf, StepWritten DEF Steps
  <2> HIDE DEF z
  <2>4. y \in DispatcherState /\ y.step = "subs"
    BY <2>3, FieldWritten DEF Same
  <2> HIDE DEF y
  <2>5. x \in DispatcherState /\ x.step = "subs"
    BY <2>1, <2>4, FieldWritten DEF Same
  <2> HIDE DEF x
  <2> QED
    BY <1>3, <2>2, <2>5, MoveTyped DEF MatchFilter, TypeOK, ReadFirst
<1> QED
  BY <1>1, <1>2, <1>3 DEF MatchFilter

LEMMA SubsTyped ==
  ASSUME TypeOK, ReadFirst, NEW d \in Dispatchers, GetSubscriptionsForMeeting(d)
  PROVE  TypeOK' /\ ReadFirst'
<1> DEFINE ss == ForMeeting(subs, dispatcher[d].meeting)
<1>1. CASE GiveUp(d)
  BY <1>1, GiveUpTyped DEF GetSubscriptionsForMeeting
<1>2. CASE UNCHANGED <<client, errors>> /\ dispatcher' = Goto(d, "done")
  BY <1>2, GotoTyped DEF GetSubscriptionsForMeeting, Steps, TypeOK
<1>3. CASE UNCHANGED <<client, errors>> /\ dispatcher' = [Goto(d, "tenant") EXCEPT ![d].subs = ss]
  <2>1. ss \in SUBSET Subscriptions
    BY DEF ForMeeting, TypeOK
  <2> HIDE DEF ss
  <2> DEFINE y == [dispatcher[d] EXCEPT !.step = "tenant"]
             x == [y EXCEPT !.subs = ss]
  <2>2. dispatcher' = [dispatcher EXCEPT ![d] = x]
    BY <1>3 DEF Goto, TypeOK
  <2>3. y \in DispatcherState /\ y.step = "tenant"
    BY EntryOf, StepWritten DEF Steps
  <2> HIDE DEF y
  <2>4. x \in DispatcherState /\ x.step = "tenant"
    BY <2>1, <2>3, FieldWritten DEF Same
  <2> HIDE DEF x
  <2> QED
    BY <1>3, <2>2, <2>4, RestTyped, MoveTyped DEF GetSubscriptionsForMeeting
<1> QED
  BY <1>1, <1>2, <1>3 DEF GetSubscriptionsForMeeting

LEMMA TenantTyped ==
  ASSUME TypeOK, ReadFirst, NEW d \in Dispatchers, GetTenant(d)
  PROVE  TypeOK' /\ ReadFirst'
<1> DEFINE s == IF LinkFor(tenant, dispatcher[d].filter) THEN "creds" ELSE "send"
<1>1. CASE GiveUp(d)
  BY <1>1, GiveUpTyped DEF GetTenant
<1>2. CASE UNCHANGED <<client, errors>> /\ dispatcher' = Goto(d, "done")
  BY <1>2, GotoTyped DEF GetTenant, Steps, TypeOK
<1>3. CASE UNCHANGED <<client, errors>> /\ tenant # None
           /\ dispatcher' = [Goto(d, s) EXCEPT ![d].tenant = tenant]
  <2>1. s \in Steps /\ s # "link" /\ tenant \in Tenant
    BY <1>3 DEF TypeOK, Steps
  <2> HIDE DEF s
  <2> DEFINE y == [dispatcher[d] EXCEPT !.step = s]
             x == [y EXCEPT !.tenant = tenant]
  <2>2. dispatcher' = [dispatcher EXCEPT ![d] = x]
    BY <1>3 DEF Goto, TypeOK
  <2>3. y \in DispatcherState /\ y.step = s
    BY <2>1, EntryOf, StepWritten
  <2> HIDE DEF y
  <2>4. x \in DispatcherState /\ x.step = s /\ x.tenant = tenant
    BY <2>1, <2>3, TenantWritten
  <2> HIDE DEF x
  <2> QED
    BY <1>3, <2>1, <2>2, <2>4, RestTyped, MoveTyped DEF GetTenant
<1> QED
  BY <1>1, <1>2, <1>3 DEF GetTenant

LEMMA CredsTyped ==
  ASSUME TypeOK, ReadFirst, NEW d \in Dispatchers, GetZoomCredentials(d)
  PROVE  TypeOK' /\ ReadFirst'
<1>1. dispatcher[d].tenant \in Tenant /\ errors' \in Nat
  BY DEF GetZoomCredentials, ReadFirst, TypeOK
<1>2. CASE dispatcher' = Goto(d, "send")
  BY <1>1, <1>2, GotoTyped DEF GetZoomCredentials, Steps
<1>3. CASE creds # None /\ dispatcher' = [Goto(d, "link") EXCEPT ![d].creds = creds]
  <2>1. creds \in Creds
    BY <1>3 DEF TypeOK
  <2> DEFINE y == [dispatcher[d] EXCEPT !.step = "link"]
             x == [y EXCEPT !.creds = creds]
  <2>2. dispatcher' = [dispatcher EXCEPT ![d] = x]
    BY <1>3 DEF Goto, TypeOK
  <2>3. y \in DispatcherState /\ y.tenant = dispatcher[d].tenant
    BY EntryOf, StepWritten DEF Steps
  <2> HIDE DEF y
  <2>4. x \in DispatcherState /\ x.tenant \in Tenant /\ x.creds \in Creds
    BY <1>1, <2>1, <2>3, CredsWritten
  <2> HIDE DEF x
  <2> QED
    BY <1>1, <2>2, <2>4, RestTyped, MoveTyped DEF GetZoomCredentials
<1> QED
  BY <1>2, <1>3 DEF GetZoomCredentials

LEMMA LinkTyped ==
  ASSUME TypeOK, ReadFirst, NEW d \in Dispatchers, FetchLink(d)
  PROVE  TypeOK' /\ ReadFirst'
<1> DEFINE c == ClientFor(d)
<1>1. c \in Creds /\ dispatcher[d].tenant \in Tenant
  BY DEF FetchLink, ClientFor, ReadFirst, TypeOK
<1>2. PICK linked \in BOOLEAN :
        dispatcher' = [Goto(d, "send") EXCEPT ![d].used = c, ![d].linked = linked]
  BY DEF FetchLink
<1>3. client' = c
  BY DEF FetchLink
<1> HIDE DEF c
<1> DEFINE z == [dispatcher[d] EXCEPT !.step = "send"]
           y == [z EXCEPT !.used = c]
           x == [y EXCEPT !.linked = linked]
<1>4. dispatcher' = [dispatcher EXCEPT ![d] = x]
  BY <1>2 DEF Goto, TypeOK
<1>5. z \in DispatcherState /\ z.step = "send" /\ z.tenant = dispatcher[d].tenant
  BY EntryOf, StepWritten DEF Steps
<1> HIDE DEF z
<1>6. y \in DispatcherState /\ y.step = "send" /\ y.tenant = dispatcher[d].tenant
  BY <1>1, <1>5, UsedWritten DEF Same
<1> HIDE DEF y
<1>7. x \in DispatcherState /\ x.step = "send" /\ x.tenant \in Tenant
  BY <1>1, <1>6, LinkedWritten DEF Same
<1> HIDE DEF x
<1> QED
  BY <1>1, <1>3, <1>4, <1>7, RestTyped, MoveTyped DEF FetchLink

LEMMA SendsTyped ==
  ASSUME NEW s \in Subscriptions, NEW t \in Tenant, NEW suffix \in Suffixes,
         NEW linked \in BOOLEAN, NEW servers \in SUBSET Servers
  PROVE  SendsTo(s, t, suffix, linked, servers) \subseteq Message
BY DEF SendsTo, Message, Tenant

LEMMA SendTyped ==
  ASSUME TypeOK, ReadFirst, NEW d \in Dispatchers, Send(d)
  PROVE  TypeOK' /\ ReadFirst'
<1> DEFINE x == dispatcher[d]
           rest(s) == [x EXCEPT !.subs = @ \ {s}]
           calls(s) == SendsTo(s, x.tenant, SuffixFor(x.tenant, x.filter), x.linked, irc)
<1>1. /\ x \in DispatcherState /\ x.step = "send" /\ x.tenant \in Tenant
      /\ x.subs \in SUBSET Subscriptions /\ x.filter \in Filter \cup {None}
      /\ x.linked \in BOOLEAN
  BY EntryOf DEF Send, ReadFirst, DispatcherState
<1>0. UNCHANGED <<settingVars, client, moments, changes>>
  BY DEF Send
<1>2. PICK s \in x.subs :
        \/ /\ sends' = [sends EXCEPT ![d] = @ \cup calls(s)]
           /\ dispatcher' = [dispatcher EXCEPT ![d].subs = @ \ {s}]
           /\ UNCHANGED errors
        \/ /\ errors < MaxErrors /\ errors' = errors + 1
           /\ dispatcher' = [dispatcher EXCEPT ![d].subs = @ \ {s}, ![d].failed = TRUE]
           /\ UNCHANGED sends
  BY Zenon DEF Send
<1>3. calls(s) \subseteq Message
  <2>1. SuffixFor(x.tenant, x.filter) \in Suffixes
    BY <1>1, SuffixTyped
  <2> QED
    BY <1>1, <1>2, <2>1, SendsTyped DEF TypeOK
<1>4. rest(s) \in DispatcherState /\ Same(rest(s), x)
  <2> DEFINE ss == x.subs \ {s}
  <2>1. ss \in SUBSET Subscriptions
    BY <1>1
  <2>2. rest(s) = [x EXCEPT !.subs = ss]
    OBVIOUS
  <2> HIDE DEF ss, x
  <2> QED
    BY <1>1, <2>1, <2>2, FieldWritten
<1>5. CASE /\ sends' = [sends EXCEPT ![d] = @ \cup calls(s)]
           /\ dispatcher' = [dispatcher EXCEPT ![d].subs = @ \ {s}]
           /\ UNCHANGED errors
  <2> DEFINE y == rest(s)
             k == calls(s)
  <2>1. sends' = [sends EXCEPT ![d] = @ \cup k] /\ dispatcher' = [dispatcher EXCEPT ![d] = y]
    BY <1>5 DEF TypeOK
  <2>2. y \in DispatcherState /\ y.step = "send" /\ y.tenant \in Tenant /\ k \subseteq Message
    BY <1>1, <1>3, <1>4 DEF Same
  <2> HIDE DEF y, k, x
  <2>3. sends' \in [Dispatchers -> SUBSET Message]
    BY <2>1, <2>2 DEF TypeOK
  <2> QED
    BY <1>0, <1>5, <2>1, <2>2, <2>3, RestTyped, MoveTyped
<1>6. CASE /\ errors < MaxErrors /\ errors' = errors + 1
           /\ dispatcher' = [dispatcher EXCEPT ![d].subs = @ \ {s}, ![d].failed = TRUE]
           /\ UNCHANGED sends
  <2> DEFINE y == rest(s)
             z == [y EXCEPT !.failed = TRUE]
  <2>0. dispatcher \in [Dispatchers -> DispatcherState]
    BY DEF TypeOK
  <2>1. dispatcher' = [dispatcher EXCEPT ![d] = z]
    BY <1>6, <2>0
  <2>2. y \in DispatcherState /\ y.step = "send" /\ y.tenant \in Tenant
    BY <1>1, <1>4 DEF Same
  <2> HIDE DEF y, x
  <2>3. z \in DispatcherState /\ z.step = "send" /\ z.tenant \in Tenant
    BY <2>2, FieldWritten DEF Same
  <2> HIDE DEF z
  <2>4. errors' \in Nat /\ sends' \in [Dispatchers -> SUBSET Message]
    BY <1>6 DEF TypeOK
  <2> QED
    BY <1>0, <2>1, <2>3, <2>4, RestTyped, MoveTyped
<1> QED
  BY <1>2, <1>5, <1>6

LEMMA ReturnTyped ==
  ASSUME TypeOK, ReadFirst, NEW d \in Dispatchers, Return(d)
  PROVE  TypeOK' /\ ReadFirst'
<1>1. sends' \in [Dispatchers -> SUBSET Message] /\ DOMAIN moments' = Dispatchers
  BY DEF Return, TypeOK, ReadFirst
<1> QED
  BY <1>1, IdleTyped, MoveTyped DEF Return, TypeOK

LEMMA NextTyped == TypeOK /\ ReadFirst /\ [Next]_vars => TypeOK' /\ ReadFirst'
<1> SUFFICES ASSUME TypeOK, ReadFirst, [Next]_vars PROVE TypeOK' /\ ReadFirst'
  OBVIOUS
<1>1. CASE SettingsStep
  BY <1>1, SettingsTyped
<1>2. ASSUME NEW d \in Dispatchers, DispatchStep(d) PROVE TypeOK' /\ ReadFirst'
  <2>1. CASE Finish(d)
    BY <2>1, GotoTyped DEF Finish, ReadFirst, Steps, TypeOK
  <2> QED
    BY <1>2, <2>1, CallTyped, CountTyped, MatchTyped, SubsTyped, TenantTyped, CredsTyped,
       LinkTyped, SendTyped, ReturnTyped DEF DispatchStep
<1>3. CASE UNCHANGED vars
  BY <1>3 DEF TypeOK, ReadFirst, vars, settingVars
<1> QED
  BY <1>1, <1>2, <1>3 DEF Next

(* Every variable has its type, no row outlives its tenant and filter ids   *)
(* are unique, whatever is dispatched and changed.                          *)
THEOREM TypeCorrect == Spec => [](TypeOK /\ ReadFirst)
BY InitTyped, NextTyped, PTL DEF Spec

-----------------------------------------------------------------------------
(* PassedWhileAllowed *)

(* A dispatch on its way has lived through the present settings. *)
LivesNow == \A d \in Dispatchers : Running(d) => Settings \in moments[d]

(* What a step does to the history and the verdict of dispatch d: the       *)
(* history only grows until the goroutine returns, and a verdict "allowed"  *)
(* that is new was reached with filters that allow the topic.               *)
Witnessed(d) ==
  \/ dispatcher'[d].verdict = "open"
  \/ /\ moments[d] \subseteq moments'[d]
     /\ dispatcher'[d].topic = dispatcher[d].topic
     /\ dispatcher'[d].verdict = "allowed" =>
          \/ dispatcher[d].verdict = "allowed"
          \/ Running(d) /\ Allowed(Settings, dispatcher[d].topic)

LEMMA InitAllowed == Init => LivesNow /\ PassedWhileAllowed
<1> SUFFICES ASSUME Init PROVE LivesNow /\ PassedWhileAllowed
  OBVIOUS
<1>1. \A d \in Dispatchers : dispatcher[d] = Idle
  BY DEF Init
<1> QED
  BY <1>1, IdleTyped DEF LivesNow, PassedWhileAllowed, Running

(* Each step but Return lets the histories grow, and what it does to the    *)
(* settings is in them.                                                     *)
LEMMA SettingsHistory ==
  ASSUME TypeOK, ReadFirst, LivesNow, SettingsStep
  PROVE  LivesNow' /\ \A d \in Dispatchers : Witnessed(d)
<1>1. Change
  BY DEF SettingsStep, CreateFilter, UpdateFilter, DeleteFilter, CreateSubscription,
         UpdateSubscription, DeleteSubscription, UpdateTenantDefaults, UpdateTenant,
         CreateTenant, DeleteTenant, UpsertIRCConfig, UpsertZoomCredentials
<1>2. \A d \in Dispatchers :
        moments'[d] = IF Running(d) THEN moments[d] \cup {Settings'} ELSE moments[d]
  BY <1>1 DEF Change
<1>3. dispatcher' = dispatcher
  BY <1>1 DEF Change
<1> QED
  BY <1>2, <1>3 DEF LivesNow, Running, Witnessed

(* A step of dispatch e leaves the settings and the other dispatches alone. *)
LEMMA StepIsLocal ==
  ASSUME TypeOK, ReadFirst, NEW e \in Dispatchers, DispatchStep(e)
  PROVE  /\ Settings' = Settings
         /\ \A d \in Dispatchers \ {e} : dispatcher'[d] = dispatcher[d] /\ moments'[d] = moments[d]
<1> DEFINE Local == /\ Settings' = Settings
                    /\ \A d \in Dispatchers \ {e} :
                         dispatcher'[d] = dispatcher[d] /\ moments'[d] = moments[d]
<1> dispatcher \in [Dispatchers -> DispatcherState] /\ DOMAIN moments = Dispatchers
  BY DEF TypeOK, ReadFirst
<1>1. CASE Call(e)
  BY <1>1 DEF Call, Settings, settingVars
<1>2. CASE Return(e)
  BY <1>2 DEF Return, Settings, settingVars
<1>3. CASE CountFilters(e)
  BY <1>3 DEF CountFilters, Goto, GiveUp, Settings, settingVars
<1>4. CASE MatchFilter(e)
  BY <1>4 DEF MatchFilter, Goto, GiveUp, Settings, settingVars
<1>5. CASE GetSubscriptionsForMeeting(e)
  BY <1>5 DEF GetSubscriptionsForMeeting, Goto, GiveUp, Settings, settingVars
<1>6. CASE GetTenant(e)
  BY <1>6 DEF GetTenant, Goto, GiveUp, Settings, settingVars
<1>7. CASE GetZoomCredentials(e)
  BY <1>7 DEF GetZoomCredentials, Goto, GiveUp, Settings, settingVars
<1>8. CASE FetchLink(e)
  BY <1>8 DEF FetchLink, Goto, GiveUp, Settings, settingVars
<1>9. CASE Send(e)
  BY <1>9 DEF Send, Goto, GiveUp, Settings, settingVars
<1>10. CASE Finish(e)
  BY <1>10 DEF Finish, Goto, GiveUp, Settings, settingVars
<1> QED
  BY <1>1, <1>2, <1>3, <1>4, <1>5, <1>6, <1>7, <1>8, <1>9, <1>10 DEF DispatchStep

(* What it does to its own history and verdict. *)
LEMMA StepIsWitnessed ==
  ASSUME TypeOK, ReadFirst, NEW e \in Dispatchers, DispatchStep(e)
  PROVE  /\ Witnessed(e)
         /\ Running(e)' => (Running(e) /\ moments'[e] = moments[e]) \/ moments'[e] = {Settings}
<1> DEFINE Quiet == /\ moments' = moments
                    /\ dispatcher'[e].topic = dispatcher[e].topic
                    /\ dispatcher'[e].verdict = dispatcher[e].verdict
<1> dispatcher \in [Dispatchers -> DispatcherState] /\ DOMAIN moments = Dispatchers
  BY DEF TypeOK, ReadFirst
<1> dispatcher[e] \in DispatcherState
  BY EntryOf
<1>1. CASE Call(e)
  <2>1. dispatcher'[e].verdict = "open" /\ moments'[e] = {Settings}
    BY <1>1, IdleTyped DEF Call, DispatcherState
  <2> QED
    BY <2>1 DEF Witnessed
<1>2. CASE Return(e)
  <2>1. dispatcher'[e] = Idle
    BY <1>2 DEF Return
  <2> QED
    BY <2>1, IdleTyped DEF Witnessed, Running
<1>3. CASE CountFilters(e)
  <2>1. /\ dispatcher[e].step = "count" /\ moments' = moments
        /\ dispatcher'[e].topic = dispatcher[e].topic
        /\ \/ dispatcher'[e].verdict = dispatcher[e].verdict
           \/ dispatcher'[e].verdict = "allowed" /\ filters = {}
    BY <1>3 DEF CountFilters, Goto, GiveUp, DispatcherState
  <2>2. filters = {} => Allowed(Settings, dispatcher[e].topic)
    BY DEF Allowed, Settings
  <2> QED
    BY <2>1, <2>2 DEF Witnessed, Running
<1>4. CASE MatchFilter(e)
  <2> DEFINE f == FirstMatch(filters, dispatcher[e].topic)
  <2>1. /\ dispatcher[e].step = "match" /\ moments' = moments
        /\ dispatcher'[e].topic = dispatcher[e].topic
        /\ \/ dispatcher'[e].verdict = dispatcher[e].verdict
           \/ dispatcher'[e].verdict = "dropped"
           \/ dispatcher'[e].verdict = "allowed" /\ f # None
    BY <1>4 DEF MatchFilter, Goto, GiveUp, DispatcherState
  <2>2. f # None => Allowed(Settings, dispatcher[e].topic)
    BY FirstMatchIsFirst DEF Allowed, Settings, TypeOK
  <2> QED
    BY <2>1, <2>2 DEF Witnessed, Running
<1>5. CASE GetSubscriptionsForMeeting(e)
  <2>1. Quiet /\ Running(e)
    BY <1>5 DEF GetSubscriptionsForMeeting, Goto, GiveUp, Running, DispatcherState
  <2> QED
    BY <2>1 DEF Witnessed
<1>6. CASE GetTenant(e)
  <2>1. Quiet /\ Running(e)
    BY <1>6 DEF GetTenant, Goto, GiveUp, Running, DispatcherState
  <2> QED
    BY <2>1 DEF Witnessed
<1>7. CASE GetZoomCredentials(e)
  <2>1. Quiet /\ Running(e)
    BY <1>7 DEF GetZoomCredentials, Goto, GiveUp, Running, DispatcherState
  <2> QED
    BY <2>1 DEF Witnessed
<1>8. CASE FetchLink(e)
  <2>1. Quiet /\ Running(e)
    BY <1>8 DEF FetchLink, Goto, GiveUp, Running, DispatcherState
  <2> QED
    BY <2>1 DEF Witnessed
<1>9. CASE Send(e)
  <2>1. Quiet /\ Running(e)
    BY <1>9 DEF Send, Goto, GiveUp, Running, DispatcherState
  <2> QED
    BY <2>1 DEF Witnessed
<1>10. CASE Finish(e)
  <2>1. Quiet /\ Running(e)
    BY <1>10 DEF Finish, Goto, GiveUp, Running, DispatcherState
  <2> QED
    BY <2>1 DEF Witnessed
<1> QED
  BY <1>1, <1>2, <1>3, <1>4, <1>5, <1>6, <1>7, <1>8, <1>9, <1>10 DEF DispatchStep

LEMMA NextHistory ==
  TypeOK /\ ReadFirst /\ LivesNow /\ [Next]_vars =>
    LivesNow' /\ \A d \in Dispatchers : Witnessed(d)
<1> SUFFICES ASSUME TypeOK, ReadFirst, LivesNow, [Next]_vars
             PROVE  LivesNow' /\ \A d \in Dispatchers : Witnessed(d)
  OBVIOUS
<1>1. CASE SettingsStep
  BY <1>1, SettingsHistory
<1>2. ASSUME NEW e \in Dispatchers, DispatchStep(e)
      PROVE  LivesNow' /\ \A d \in Dispatchers : Witnessed(d)
  <2>1. ASSUME NEW d \in Dispatchers, d # e
        PROVE  Witnessed(d) /\ (Running(d)' => Settings' \in moments'[d])
    BY <1>2, <2>1, StepIsLocal DEF Witnessed, Running, LivesNow
  <2>2. Witnessed(e) /\ (Running(e)' => Settings' \in moments'[e])
    BY <1>2, StepIsLocal, StepIsWitnessed DEF LivesNow
  <2> QED
    BY <2>1, <2>2 DEF LivesNow
<1>3. CASE UNCHANGED vars
  BY <1>3 DEF LivesNow, Running, Witnessed, Settings, vars, settingVars
<1> QED
  BY <1>1, <1>2, <1>3 DEF Next

(* A dispatch that passed the filters did so at a moment when they allowed  *)
(* its topic, for any filters and any requests that change them meanwhile:  *)
(* the two statements of CheckFilter never let a topic through that was     *)
(* excluded all along.                                                      *)
THEOREM NeverPassedExcluded == Spec => []PassedWhileAllowed
<1>1. LivesNow /\ PassedWhileAllowed /\ (\A d \in Dispatchers : Witnessed(d)) => PassedWhileAllowed'
  BY DEF LivesNow, PassedWhileAllowed, Witnessed
<1> QED
  BY <1>1, InitAllowed, NextHistory, TypeCorrect, PTL DEF Spec

-----------------------------------------------------------------------------
(* OneChangeIsAtomic.  The invariant follows one dispatch: what it has read *)
(* so far (x is its entry, ms its moments, sent its calls) is what the      *)
(* present settings hold, or what settings held that one request has since  *)
(* turned into the present ones.  The next statement reads the present      *)
(* settings: a table that request left alone, and then the older settings   *)
(* still explain everything, or the one it wrote, and then the present ones *)
(* do, since the tables read before are the same in both.                   *)

(* Everything read so far is what settings s hold. *)
Agrees(x, s) ==
  /\ x.step = "match" => s.filters # {}
  /\ x.step \in {"subs", "tenant", "creds", "link", "send"} =>
       Allowed(s, x.topic) /\ x.filter = FirstMatch(s.filters, x.topic)
  /\ x.step \in {"tenant", "creds", "link"} => x.subs = ForMeeting(s.subs, x.meeting)
  /\ x.step = "send" => x.subs \subseteq ForMeeting(s.subs, x.meeting)
  /\ x.step \in {"creds", "link", "send"} => x.tenant = s.tenant
  /\ x.step \in {"creds", "link"} \/ x.linked => LinkFor(x.tenant, x.filter)
  /\ x.step = "link" \/ x.linked => s.creds # None

SameBut(s, r, g) ==
  /\ g # "tenant"  => r.tenant = s.tenant
  /\ g # "filters" => r.filters = s.filters
  /\ g # "subs"    => r.subs = s.subs
  /\ g # "irc"     => r.irc = s.irc
  /\ g # "creds"   => r.creds = s.creds

Tables == {"tenant", "filters", "subs", "irc", "creds"}

(* One request leads from s to r: it deletes the tenant or writes one table. *)
OneRequest(s, r) == r.tenant = None \/ \E g \in Tables : SameBut(s, r, g)

(* With n requests so far, the present settings r explain what was read, or *)
(* those before the only request that came in between do.                   *)
Consistent(x, r, ms, n) ==
  \/ Agrees(x, r)
  \/ n - x.start = 1 /\ \E s \in ms : Agrees(x, s) /\ OneRequest(s, r)

SentTo(sent, u) == {c \in sent : c.to = u}

(* What was sent to u is what one of the moments asks for. *)
Served(x, ms, sent, u) ==
  \E s \in ms, linked \in BOOLEAN :
    /\ linked => LinkWanted(s, x.topic)
    /\ SentTo(sent, u) = Owed(s, u, x.topic, x.meeting, linked)

(* The exception: LastFilterDeleted. *)
Emptied(ms) == \E s, r \in ms : s.filters # {} /\ r.filters = {} /\ r.tenant # None

Counted(x, ms, n) == ~x.failed /\ n - x.start <= 1 /\ ~Emptied(ms)

Explained(x, r, ms, sent, n) ==
  /\ x.step # "idle" => x.start <= n
  /\ x.step \notin {"send", "done"} => sent = {} /\ ~x.linked
  /\ x.step = "count" => x.filter = None
  /\ Counted(x, ms, n) =>
       /\ x.step \notin {"idle", "done"} => Consistent(x, r, ms, n)
       /\ x.step = "send" =>
            \A u \in Subscriptions :
              IF u \in x.subs THEN SentTo(sent, u) = {} ELSE Served(x, ms, sent, u)
       /\ x.step = "done" => \A u \in Subscriptions : Served(x, ms, sent, u)

ExplainedNow(d) == Explained(dispatcher[d], Settings, moments[d], sends[d], changes)

(* What TypeOK says of the present settings holds of those remembered. *)
WellFormed(s) ==
  /\ s.filters \subseteq Filter
  /\ \A f, g \in s.filters : f.id = g.id => f = g
  /\ s.tenant = None => s.filters = {} /\ s.subs = {} /\ s.irc = {} /\ s.creds = None

MomentsOK == \A d \in Dispatchers : \A s \in moments[d] : WellFormed(s)

Explicable ==
  TypeOK /\ ReadFirst /\ LivesNow /\ MomentsOK /\ \A d \in Dispatchers : ExplainedNow(d)

-----------------------------------------------------------------------------
(* What settings ask for, and what Dispatch computes *)

(* The governing filter is the first that matches. *)
LEMMA GoverningIsFirst ==
  ASSUME NEW s, WellFormed(s), NEW topic, Allowed(s, topic)
  PROVE  LET f == FirstMatch(s.filters, topic)
         IN  Governing(s, topic) = IF f = None THEN {} ELSE {f}
<1> DEFINE f == FirstMatch(s.filters, topic)
<1>1. CASE s.filters = {}
  <2>1. f = None
    BY <1>1 DEF FirstMatch, Matching
  <2> QED
    BY <1>1, <2>1 DEF Governing
<1>2. CASE s.filters # {}
  <2>1. \E g \in s.filters : topic \in Contains[g.pattern]
    BY <1>2 DEF Allowed
  <2>2. /\ f \in s.filters /\ topic \in Contains[f.pattern]
        /\ \A g \in s.filters : topic \in Contains[g.pattern] => f.id <= g.id
    BY <2>1, FirstMatchIsFirst DEF WellFormed
  <2>3. f # None /\ \A g \in s.filters : g.id \in Nat
    BY <2>2 DEF WellFormed, Filter, FilterId
  <2> HIDE DEF f
  <2>4. f \in Governing(s, topic)
    <3>1. \A g \in s.filters : g.id < f.id => topic \notin Contains[g.pattern]
      BY <2>2, <2>3
    <3> QED
      BY <2>2, <3>1 DEF Governing
  <2>5. \A g \in Governing(s, topic) : g = f
    <3> SUFFICES ASSUME NEW g \in Governing(s, topic) PROVE g = f
      OBVIOUS
    <3>1. /\ g \in s.filters /\ topic \in Contains[g.pattern] /\ ~(f.id < g.id)
      BY <2>2 DEF Governing
    <3>2. g.id = f.id
      BY <2>2, <2>3, <3>1
    <3> QED
      BY <2>2, <3>1, <3>2 DEF WellFormed
  <2> QED
    BY <2>3, <2>4, <2>5 DEF f
<1> QED
  BY <1>1, <1>2

LEMMA SuffixAsWanted ==
  ASSUME NEW s, WellFormed(s), NEW topic, Allowed(s, topic)
  PROVE  WantedSuffixes(s, topic) = {SuffixFor(s.tenant, FirstMatch(s.filters, topic))}
<1> DEFINE f == FirstMatch(s.filters, topic)
<1>1. Governing(s, topic) = IF f = None THEN {} ELSE {f}
  BY GoverningIsFirst
<1> HIDE DEF f
<1>2. Overrides(s, topic) = IF f # None /\ f.suffix # None THEN {f} ELSE {}
  BY <1>1 DEF Overrides
<1>3. WantedSuffixes(s, topic) = {SuffixFor(s.tenant, f)}
  BY <1>2 DEF WantedSuffixes, SuffixFor
<1> QED
  BY <1>3 DEF f

LEMMA LinkAsWanted ==
  ASSUME NEW s, WellFormed(s), NEW topic, Allowed(s, topic),
         s.creds # None, LinkFor(s.tenant, FirstMatch(s.filters, topic))
  PROVE  LinkWanted(s, topic)
<1> DEFINE f == FirstMatch(s.filters, topic)
<1>1. Governing(s, topic) = IF f = None THEN {} ELSE {f}
  BY GoverningIsFirst
<1>2. LinkFor(s.tenant, f)
  OBVIOUS
<1> HIDE DEF f
<1>3. LinkOverrides(s, topic) = IF f # None /\ f.link # None THEN {f} ELSE {}
  BY <1>1 DEF LinkOverrides
<1> QED
  BY <1>2, <1>3 DEF LinkWanted, LinkFor

(* Nothing is owed by a deleted tenant, for an excluded topic, or to a      *)
(* subscription that is not for the meeting.                                *)
LEMMA NothingOwed ==
  ASSUME NEW s, NEW u, NEW topic, NEW m, NEW linked,
         s.tenant = None \/ ~Allowed(s, topic) \/ u \notin ForMeeting(s.subs, m)
  PROVE  Owed(s, u, topic, m, linked) = {}
BY DEF Owed, ForMeeting

(* A dispatch that sent nothing to u served it, when nothing is owed to u.  *)
LEMMA ServedNothing ==
  ASSUME NEW x, NEW ms, NEW s \in ms, NEW sent, NEW u, SentTo(sent, u) = {},
         s.tenant = None \/ ~Allowed(s, x.topic) \/ u \notin ForMeeting(s.subs, x.meeting)
  PROVE  Served(x, ms, sent, u)
<1>1. Owed(s, u, x.topic, x.meeting, FALSE) = {}
  BY NothingOwed
<1> QED
  BY <1>1 DEF Served

(* The calls made for u by a dispatch that agrees with s. *)
LEMMA CallsAreOwed ==
  ASSUME NEW x \in DispatcherState, NEW s, WellFormed(s), Agrees(x, s), x.step = "send",
         x.tenant \in Tenant, NEW u \in x.subs, NEW servers, u.type = "slack" \/ servers = s.irc
  PROVE  /\ x.linked => LinkWanted(s, x.topic)
         /\ SendsTo(u, x.tenant, SuffixFor(x.tenant, x.filter), x.linked, servers) =
              Owed(s, u, x.topic, x.meeting, x.linked)
<1>1. /\ Allowed(s, x.topic) /\ x.filter = FirstMatch(s.filters, x.topic)
      /\ u \in ForMeeting(s.subs, x.meeting)
      /\ x.tenant = s.tenant /\ s.tenant # None
      /\ x.linked => LinkFor(s.tenant, x.filter) /\ s.creds # None
  BY DEF Agrees
<1>2. x.linked => LinkWanted(s, x.topic)
  BY <1>1, LinkAsWanted
<1>3. WantedSuffixes(s, x.topic) = {SuffixFor(x.tenant, x.filter)}
  BY <1>1, SuffixAsWanted
<1>4. u \in s.subs /\ u.meeting \in {x.meeting, None}
  BY <1>1 DEF ForMeeting
<1> QED
  BY <1>1, <1>2, <1>3, <1>4 DEF SendsTo, Owed

-----------------------------------------------------------------------------
(* One statement more.  In each lemma x is the entry before the step, y the *)
(* one after it, r the present settings, and s settings that x agrees with. *)

Kept(x, y) == y.topic = x.topic /\ y.meeting = x.meeting /\ y.start = x.start

(* The first statement to read the filters, and the second: r explain them. *)
LEMMA FiltersRead ==
  ASSUME NEW r, WellFormed(r), NEW x, NEW y, Kept(x, y), ~y.linked,
         \/ y.step = "match" /\ r.filters # {}
         \/ y.step = "subs" /\ r.filters = {} /\ y.filter = None
         \/ /\ y.step = "subs" /\ y.filter = FirstMatch(r.filters, x.topic)
            /\ y.filter # None
  PROVE  Agrees(y, r)
<1>1. r.filters = {} => Allowed(r, x.topic) /\ FirstMatch(r.filters, x.topic) = None
  BY DEF Allowed, FirstMatch, Matching
<1>2. FirstMatch(r.filters, x.topic) # None => Allowed(r, x.topic)
  BY FirstMatchIsFirst DEF WellFormed, Allowed
<1> QED
  BY <1>1, <1>2 DEF Agrees, Kept

(* No filter matches any more: the topic is excluded, or the tenant is gone.*)
LEMMA TopicDropped ==
  ASSUME NEW r, WellFormed(r), NEW ms, r \in ms, ~Emptied(ms), NEW n, NEW x, x.step = "match",
         Consistent(x, r, ms, n), FirstMatch(r.filters, x.topic) = None
  PROVE  r.tenant = None \/ ~Allowed(r, x.topic)
<1>1. CASE r.filters # {}
  <2>1. ~ \E g \in r.filters : x.topic \in Contains[g.pattern]
    <3> SUFFICES ASSUME \E g \in r.filters : x.topic \in Contains[g.pattern] PROVE FALSE
      OBVIOUS
    <3>1. FirstMatch(r.filters, x.topic) \in r.filters
      BY FirstMatchIsFirst DEF WellFormed
    <3> QED
      BY <3>1 DEF WellFormed
  <2> QED
    BY <1>1, <2>1 DEF Allowed
<1>2. CASE r.filters = {}
  <2>1. PICK s \in ms : s.filters # {}
    BY <1>2 DEF Consistent, Agrees
  <2> QED
    BY <1>2, <2>1 DEF Emptied
<1> QED
  BY <1>1, <1>2

(* A statement that reads table g of settings that are not a deleted        *)
(* tenant's: whoever explained x before, one of them explains y.            *)
LEMMA TableRead ==
  ASSUME NEW r, r.tenant # None, NEW ms, NEW n, NEW x, NEW y, Kept(x, y),
         Consistent(x, r, ms, n), NEW g \in Tables,
         \A s : Agrees(x, s) /\ (s = r \/ \E t \in Tables : t # g /\ SameBut(s, r, t)) => Agrees(y, s),
         \A s : Agrees(x, s) /\ SameBut(s, r, g) => Agrees(y, r)
  PROVE  Consistent(y, r, ms, n)
<1>1. CASE Agrees(x, r)
  BY <1>1 DEF Consistent
<1>2. ASSUME NEW s \in ms, n - x.start = 1, Agrees(x, s), OneRequest(s, r)
      PROVE  Consistent(y, r, ms, n)
  <2>1. PICK t \in Tables : SameBut(s, r, t)
    BY <1>2 DEF OneRequest
  <2>2. CASE t = g
    BY <1>2, <2>1, <2>2 DEF Consistent
  <2>3. CASE t # g
    BY <1>2, <2>1, <2>3 DEF Consistent, Kept
  <2> QED
    BY <2>2, <2>3
<1> QED
  BY <1>1, <1>2 DEF Consistent

LEMMA SubscriptionsRead ==
  ASSUME NEW r, r.tenant # None, NEW ms, NEW n, NEW x, NEW y, Kept(x, y),
         x.step = "subs", ~x.linked, Consistent(x, r, ms, n),
         y.step = "tenant", y.filter = x.filter, ~y.linked,
         y.subs = ForMeeting(r.subs, x.meeting)
  PROVE  Consistent(y, r, ms, n)
<1>1. ASSUME NEW s, Agrees(x, s), s.subs = r.subs
      PROVE  Agrees(y, s)
  BY <1>1 DEF Agrees, Kept
<1>2. ASSUME NEW s, Agrees(x, s), SameBut(s, r, "subs")
      PROVE  Agrees(y, r)
  <2>1. s.filters = r.filters
    BY <1>2 DEF SameBut
  <2> QED
    BY <1>2, <2>1 DEF Agrees, Kept, Allowed
<1>3. \A s : (s = r \/ \E t \in Tables : t # "subs" /\ SameBut(s, r, t)) => s.subs = r.subs
  BY DEF SameBut
<1>4. \A s : Agrees(x, s) /\ (s = r \/ \E t \in Tables : t # "subs" /\ SameBut(s, r, t)) => Agrees(y, s)
  BY <1>1, <1>3
<1>5. "subs" \in Tables
  BY DEF Tables
<1> QED
  BY <1>2, <1>4, <1>5, TableRead

LEMMA TenantRead ==
  ASSUME NEW r, r.tenant # None, NEW ms, NEW n, NEW x, NEW y, Kept(x, y),
         x.step = "tenant", ~x.linked, Consistent(x, r, ms, n),
         y.filter = x.filter, y.subs = x.subs, ~y.linked, y.tenant = r.tenant,
         y.step = IF LinkFor(r.tenant, x.filter) THEN "creds" ELSE "send"
  PROVE  Consistent(y, r, ms, n)
<1>1. ASSUME NEW s, Agrees(x, s), s.tenant = r.tenant
      PROVE  Agrees(y, s)
  BY <1>1 DEF Agrees, Kept
<1>2. ASSUME NEW s, Agrees(x, s), SameBut(s, r, "tenant")
      PROVE  Agrees(y, r)
  <2>1. s.filters = r.filters /\ s.subs = r.subs
    BY <1>2 DEF SameBut
  <2> QED
    BY <1>2, <2>1 DEF Agrees, Kept, Allowed
<1>3. \A s : (s = r \/ \E t \in Tables : t # "tenant" /\ SameBut(s, r, t)) => s.tenant = r.tenant
  BY DEF SameBut
<1>4. \A s : Agrees(x, s) /\ (s = r \/ \E t \in Tables : t # "tenant" /\ SameBut(s, r, t)) => Agrees(y, s)
  BY <1>1, <1>3
<1>5. "tenant" \in Tables
  BY DEF Tables
<1> QED
  BY <1>2, <1>4, <1>5, TableRead

LEMMA CredentialsRead ==
  ASSUME NEW r, r.tenant # None, r.creds # None, NEW ms, NEW n, NEW x, NEW y, Kept(x, y),
         x.step = "creds", ~x.linked, Consistent(x, r, ms, n),
         y.filter = x.filter, y.subs = x.subs, ~y.linked, y.tenant = x.tenant,
         y.step = "link"
  PROVE  Consistent(y, r, ms, n)
<1>1. ASSUME NEW s, Agrees(x, s), s.creds = r.creds
      PROVE  Agrees(y, s)
  BY <1>1 DEF Agrees, Kept
<1>2. ASSUME NEW s, Agrees(x, s), SameBut(s, r, "creds")
      PROVE  Agrees(y, r)
  <2>1. s.filters = r.filters /\ s.subs = r.subs /\ s.tenant = r.tenant
    BY <1>2 DEF SameBut
  <2> QED
    BY <1>2, <2>1 DEF Agrees, Kept, Allowed
<1>3. \A s : (s = r \/ \E t \in Tables : t # "creds" /\ SameBut(s, r, t)) => s.creds = r.creds
  BY DEF SameBut
<1>4. \A s : Agrees(x, s) /\ (s = r \/ \E t \in Tables : t # "creds" /\ SameBut(s, r, t)) => Agrees(y, s)
  BY <1>1, <1>3
<1>5. "creds" \in Tables
  BY DEF Tables
<1> QED
  BY <1>2, <1>4, <1>5, TableRead

(* A step that reads no table leaves every explanation as it is. *)
LEMMA NothingRead ==
  ASSUME NEW r, NEW ms, NEW n, NEW x, NEW y, Kept(x, y), Consistent(x, r, ms, n),
         \A s : Agrees(x, s) => Agrees(y, s)
  PROVE  Consistent(y, r, ms, n)
BY DEF Consistent, Kept

(* The dispatch comes to its loop: whom it will not turn to is owed nothing.*)
LEMMA LoopEntered ==
  ASSUME NEW r, NEW ms, r \in ms, NEW n, NEW x, NEW y, Kept(x, y),
         x.step \in {"tenant", "creds", "link"}, Consistent(x, r, ms, n), y.subs = x.subs
  PROVE  \A u \in Subscriptions :
           IF u \in y.subs THEN SentTo({}, u) = {} ELSE Served(y, ms, {}, u)
<1> SUFFICES ASSUME NEW u \in Subscriptions, u \notin x.subs PROVE Served(y, ms, {}, u)
  BY DEF SentTo
<1>1. PICK s \in ms : Agrees(x, s)
  BY DEF Consistent
<1>2. u \notin ForMeeting(s.subs, y.meeting)
  BY <1>1 DEF Agrees, Kept
<1>3. SentTo({}, u) = {}
  BY DEF SentTo
<1> QED
  BY <1>2, <1>3, ServedNothing

(* One turn of the loop: subscription u is served as one of the moments     *)
(* asks for, and what was sent to the others stays as it is.                *)
LEMMA SendServes ==
  ASSUME NEW r, WellFormed(r), NEW ms, r \in ms, \A s \in ms : WellFormed(s), NEW n,
         NEW x \in DispatcherState, x.step = "send", x.tenant \in Tenant,
         Consistent(x, r, ms, n), NEW u \in x.subs, NEW sent, SentTo(sent, u) = {},
         NEW calls,
         calls = SendsTo(u, x.tenant, SuffixFor(x.tenant, x.filter), x.linked, r.irc)
  PROVE  Served(x, ms, sent \cup calls, u)
<1>0. x.linked \in BOOLEAN
  BY DEF DispatcherState
<1>1. SentTo(sent \cup calls, u) = calls
  BY DEF SentTo, SendsTo
<1>2. ASSUME NEW s \in ms, Agrees(x, s), u.type = "slack" \/ r.irc = s.irc
      PROVE  Served(x, ms, sent \cup calls, u)
  BY <1>0, <1>1, <1>2, CallsAreOwed DEF Served
<1>3. CASE Agrees(x, r)
  BY <1>2, <1>3
<1>4. ASSUME NEW s \in ms, Agrees(x, s), OneRequest(s, r), u.type # "slack", r.irc # s.irc
      PROVE  Served(x, ms, sent \cup calls, u)
  <2>1. CASE r.tenant = None
    <3>1. calls = {}
      BY <1>4, <2>1 DEF WellFormed, SendsTo
    <3> QED
      BY <1>1, <2>1, <3>1, ServedNothing
  <2>2. CASE SameBut(s, r, "irc")
    <3>1. s.filters = r.filters /\ s.subs = r.subs /\ s.tenant = r.tenant /\ s.creds = r.creds
      BY <2>2 DEF SameBut
    <3>2. Agrees(x, r)
      BY <1>4, <3>1 DEF Agrees, Allowed
    <3> QED
      BY <1>3, <3>2
  <2> QED
    BY <1>4, <2>1, <2>2 DEF OneRequest, SameBut
<1> QED
  BY <1>2, <1>3, <1>4 DEF Consistent

LEMMA OthersServed ==
  ASSUME NEW ms, NEW x, NEW y, Kept(x, y), NEW u, NEW v, v # u, NEW sent, NEW calls,
         \A c \in calls : c.to = u
  PROVE  /\ SentTo(sent \cup calls, v) = SentTo(sent, v)
         /\ Served(x, ms, sent, v) => Served(y, ms, sent \cup calls, v)
<1>1. SentTo(sent \cup calls, v) = SentTo(sent, v)
  BY DEF SentTo
<1> QED
  BY <1>1 DEF Served, Kept

-----------------------------------------------------------------------------
(* The steps of a dispatch *)

(* What is to be shown of a step of dispatch e. *)
LEMMA Advance ==
  ASSUME Explicable, NEW e \in Dispatchers, Running(e), UNCHANGED <<settingVars, moments, changes>>,
         LET x == dispatcher[e]
             y == dispatcher'[e]
             ms == moments[e]
         IN  /\ Kept(x, y) /\ y.step \notin {"idle", "count"}
             /\ y.step \notin {"send", "done"} => sends'[e] = {} /\ ~y.linked
             /\ \/ y.failed
                \/ /\ y.failed = x.failed
                   /\ Counted(x, ms, changes) =>
                        /\ y.step # "done" => Consistent(y, Settings, ms, changes)
                        /\ y.step = "send" =>
                             \A u \in Subscriptions :
                               IF u \in y.subs THEN SentTo(sends'[e], u) = {}
                               ELSE Served(y, ms, sends'[e], u)
                        /\ y.step = "done" =>
                             \A u \in Subscriptions : Served(y, ms, sends'[e], u)
  PROVE  ExplainedNow(e)'
<1> DEFINE x == dispatcher[e]
           y == dispatcher'[e]
           ms == moments[e]
<1>1. Settings' = Settings /\ moments'[e] = ms /\ changes' = changes
  BY DEF Settings, settingVars
<1>2. x.step # "idle" /\ x.start <= changes
  BY DEF Explicable, ExplainedNow, Explained, Running
<1>3. y.failed = x.failed /\ Kept(x, y) /\ Counted(y, ms, changes) => Counted(x, ms, changes)
  BY DEF Counted, Kept
<1>4. Explained(y, Settings, ms, sends'[e], changes)
  BY <1>2, <1>3 DEF Explained, Kept, Counted
<1> QED
  BY <1>1, <1>4 DEF ExplainedNow

(* What holds before the step. *)
LEMMA Before ==
  ASSUME Explicable, NEW e \in Dispatchers, Running(e)
  PROVE  /\ dispatcher[e] \in DispatcherState
         /\ dispatcher \in [Dispatchers -> DispatcherState]
         /\ Settings \in moments[e] /\ WellFormed(Settings)
         /\ \A s \in moments[e] : WellFormed(s)
         /\ dispatcher[e].step # "send" => sends[e] = {} /\ ~dispatcher[e].linked
         /\ Counted(dispatcher[e], moments[e], changes) =>
              Consistent(dispatcher[e], Settings, moments[e], changes)
<1>1. dispatcher \in [Dispatchers -> DispatcherState] /\ dispatcher[e] \in DispatcherState
  BY EntryOf DEF Explicable, TypeOK
<1>2. Settings \in moments[e] /\ \A s \in moments[e] : WellFormed(s)
  BY DEF Explicable, LivesNow, MomentsOK
<1>3. ExplainedNow(e)
  BY DEF Explicable
<1> QED
  BY <1>1, <1>2, <1>3 DEF ExplainedNow, Explained, Running

LEMMA Entries ==
  ASSUME Explicable, NEW e \in Dispatchers
  PROVE  /\ dispatcher[e] \in DispatcherState
         /\ dispatcher \in [Dispatchers -> DispatcherState]
BY EntryOf DEF Explicable, TypeOK

LEMMA GiveUpExplained ==
  ASSUME Explicable, NEW e \in Dispatchers, Running(e), GiveUp(e),
         UNCHANGED <<settingVars, sends, moments, changes>>
  PROVE  ExplainedNow(e)'
<1>1. /\ Kept(dispatcher[e], dispatcher'[e]) /\ dispatcher'[e].step = "done"
      /\ dispatcher'[e].failed
  BY Entries DEF GiveUp, Kept, DispatcherState
<1> QED
  BY <1>1, Advance

LEMMA CallExplained ==
  ASSUME Explicable, NEW e \in Dispatchers, Call(e)
  PROVE  ExplainedNow(e)'
<1>1. dispatcher \in [Dispatchers -> DispatcherState] /\ DOMAIN moments = Dispatchers
  BY DEF Explicable, TypeOK, ReadFirst
<1>2. PICK topic \in Topics, m \in Meetings : dispatcher' = [dispatcher EXCEPT ![e] =
        [Idle EXCEPT !.step = "count", !.topic = topic, !.meeting = m, !.start = changes]]
  BY DEF Call
<1>3. /\ dispatcher'[e].step = "count" /\ dispatcher'[e].start = changes
      /\ dispatcher'[e].filter = None /\ ~dispatcher'[e].linked
  BY <1>1, <1>2 DEF Idle
<1>4. sends'[e] = {}
  <2>1. ExplainedNow(e) /\ dispatcher[e].step = "idle"
    BY DEF Explicable, Call
  <2> QED
    BY <2>1 DEF ExplainedNow, Explained, Call
<1>5. Settings' = Settings /\ changes' = changes /\ changes \in Nat
  BY DEF Call, Settings, settingVars, Explicable, TypeOK
<1>6. Agrees(dispatcher'[e], Settings)
  BY <1>3 DEF Agrees
<1>7. dispatcher'[e].start <= changes
  BY <1>3, <1>5
<1> QED
  BY <1>3, <1>4, <1>5, <1>6, <1>7 DEF ExplainedNow, Explained, Consistent

LEMMA CountExplained ==
  ASSUME Explicable, NEW e \in Dispatchers, CountFilters(e)
  PROVE  ExplainedNow(e)'
<1> DEFINE x == dispatcher[e]
           y == dispatcher'[e]
<1>0. Running(e) /\ x.step = "count" /\ x.filter = None
  BY DEF CountFilters, Running, Explicable, ExplainedNow, Explained
<1>1. UNCHANGED <<settingVars, sends, moments, changes>>
  BY DEF CountFilters
<1>2. CASE GiveUp(e)
  BY <1>0, <1>1, <1>2, GiveUpExplained
<1>3. CASE dispatcher' = IF filters = {}
                         THEN [Goto(e, "subs") EXCEPT ![e].verdict = "allowed"]
                         ELSE Goto(e, "match")
  <2>1. /\ Kept(x, y) /\ y.failed = x.failed /\ y.linked = x.linked /\ y.filter = x.filter
        /\ y.step = IF filters = {} THEN "subs" ELSE "match"
    BY <1>0, <1>3, Entries DEF Goto, Kept, DispatcherState
  <2>2. Settings.filters = filters
    BY DEF Settings
  <2>3. Agrees(y, Settings)
    BY <1>0, <2>1, <2>2, Before, FiltersRead
  <2> QED
    BY <1>0, <1>1, <2>1, <2>3, Before, Advance DEF Consistent
<1> QED
  BY <1>2, <1>3 DEF CountFilters

LEMMA MatchExplained ==
  ASSUME Explicable, NEW e \in Dispatchers, MatchFilter(e)
  PROVE  ExplainedNow(e)'
<1> DEFINE x == dispatcher[e]
           y == dispatcher'[e]
           f == FirstMatch(filters, x.topic)
<1>0. Running(e) /\ x.step = "match" /\ Settings.filters = filters
  BY DEF MatchFilter, Running, Settings
<1>1. UNCHANGED <<settingVars, sends, moments, changes>>
  BY DEF MatchFilter
<1>2. CASE GiveUp(e)
  BY <1>0, <1>1, <1>2, GiveUpExplained
<1>3. CASE f # None /\ dispatcher' = [Goto(e, "subs") EXCEPT ![e].verdict = "allowed", ![e].filter = f]
  <2> HIDE DEF f
  <2>1. /\ Kept(x, y) /\ y.failed = x.failed /\ y.linked = x.linked /\ y.filter = f
        /\ y.step = "subs"
    BY <1>0, <1>3, Entries DEF Goto, Kept, DispatcherState
  <2>2. y.filter = FirstMatch(Settings.filters, x.topic) /\ y.filter # None /\ ~y.linked
    BY <1>0, <1>3, <2>1, Before DEF f
  <2>3. Agrees(y, Settings)
    <3>1. WellFormed(Settings)
      BY <1>0, Before
    <3> HIDE DEF x, y
    <3> QED
      BY <2>1, <2>2, <3>1, FiltersRead
  <2> QED
    BY <1>0, <1>1, <2>1, <2>2, <2>3, Before, Advance DEF Consistent
<1>4. CASE f = None /\ dispatcher' = [Goto(e, "done") EXCEPT ![e].verdict = "dropped"]
  <2> HIDE DEF f
  <2>1. /\ Kept(x, y) /\ y.failed = x.failed /\ y.step = "done"
    BY <1>0, <1>4, Entries DEF Goto, Kept, DispatcherState
  <2>2. ASSUME Counted(x, moments[e], changes)
        PROVE  Settings.tenant = None \/ ~Allowed(Settings, y.topic)
    BY <1>0, <1>4, <2>1, <2>2, Before, TopicDropped DEF Counted, Kept, f
  <2>3. Counted(x, moments[e], changes) =>
          \A u \in Subscriptions : Served(y, moments[e], sends'[e], u)
    <3>1. \A u \in Subscriptions : SentTo(sends'[e], u) = {}
      BY <1>0, <1>1, Before DEF SentTo
    <3> QED
      BY <1>0, <2>2, <3>1, Before, ServedNothing
  <2> QED
    BY <1>0, <1>1, <2>1, <2>3, Advance
<1> QED
  BY <1>2, <1>3, <1>4 DEF MatchFilter

(* The dispatch ends early, and nothing is owed to anybody. *)
LEMMA EarlyEnd ==
  ASSUME Explicable, NEW e \in Dispatchers, Running(e), dispatcher[e].step # "send",
         dispatcher' = Goto(e, "done"), UNCHANGED <<settingVars, sends, moments, changes>>,
         Settings.tenant = None \/ ForMeeting(Settings.subs, dispatcher[e].meeting) = {}
  PROVE  ExplainedNow(e)'
<1> DEFINE x == dispatcher[e]
           y == dispatcher'[e]
<1>1. Kept(x, y) /\ y.failed = x.failed /\ y.step = "done"
  BY Entries DEF Goto, Kept, DispatcherState
<1>2. \A u \in Subscriptions : Served(y, moments[e], sends'[e], u)
  <2>1. \A u \in Subscriptions : SentTo(sends'[e], u) = {}
    BY Before DEF SentTo
  <2> QED
    BY <1>1, <2>1, Before, ServedNothing DEF Kept
<1> QED
  BY <1>1, <1>2, Advance

LEMMA SubsExplained ==
  ASSUME Explicable, NEW e \in Dispatchers, GetSubscriptionsForMeeting(e)
  PROVE  ExplainedNow(e)'
<1> DEFINE x == dispatcher[e]
           y == dispatcher'[e]
           ss == ForMeeting(subs, x.meeting)
<1>0. Running(e) /\ x.step = "subs" /\ Settings.subs = subs
  BY DEF GetSubscriptionsForMeeting, Running, Settings
<1>1. UNCHANGED <<settingVars, sends, moments, changes>>
  BY DEF GetSubscriptionsForMeeting
<1>2. CASE GiveUp(e)
  BY <1>0, <1>1, <1>2, GiveUpExplained
<1>3. CASE ss = {} /\ dispatcher' = Goto(e, "done")
  BY <1>0, <1>1, <1>3, EarlyEnd
<1>4. CASE ss # {} /\ dispatcher' = [Goto(e, "tenant") EXCEPT ![e].subs = ss]
  <2>0. Settings.tenant # None
    BY <1>0, <1>4, Before DEF WellFormed, ForMeeting
  <2> HIDE DEF ss
  <2>1. /\ Kept(x, y) /\ y.failed = x.failed /\ y.linked = x.linked /\ y.filter = x.filter
        /\ y.subs = ss /\ y.step = "tenant"
    BY <1>0, <1>4, Entries DEF Goto, Kept, DispatcherState
  <2>2. Counted(x, moments[e], changes) => Consistent(y, Settings, moments[e], changes)
    BY <1>0, <2>0, <2>1, Before, SubscriptionsRead DEF ss
  <2> QED
    BY <1>0, <1>1, <2>1, <2>2, Before, Advance
<1> QED
  BY <1>2, <1>3, <1>4 DEF GetSubscriptionsForMeeting

LEMMA TenantExplained ==
  ASSUME Explicable, NEW e \in Dispatchers, GetTenant(e)
  PROVE  ExplainedNow(e)'
<1> DEFINE x == dispatcher[e]
           y == dispatcher'[e]
           s == IF LinkFor(tenant, x.filter) THEN "creds" ELSE "send"
<1>0. Running(e) /\ x.step = "tenant" /\ Settings.tenant = tenant
  BY DEF GetTenant, Running, Settings
<1>1. UNCHANGED <<settingVars, sends, moments, changes>>
  BY DEF GetTenant
<1>2. CASE GiveUp(e)
  BY <1>0, <1>1, <1>2, GiveUpExplained
<1>3. CASE tenant = None /\ dispatcher' = Goto(e, "done")
  BY <1>0, <1>1, <1>3, EarlyEnd
<1>4. CASE tenant # None /\ dispatcher' = [Goto(e, s) EXCEPT ![e].tenant = tenant]
  <2> HIDE DEF s
  <2>1. /\ Kept(x, y) /\ y.failed = x.failed /\ y.linked = x.linked /\ y.filter = x.filter
        /\ y.subs = x.subs /\ y.tenant = tenant /\ y.step = s
    BY <1>0, <1>4, Entries DEF Goto, Kept, DispatcherState
  <2>2. Counted(x, moments[e], changes) => Consistent(y, Settings, moments[e], changes)
    <3>1. /\ Settings.tenant # None /\ y.tenant = Settings.tenant
          /\ y.step = IF LinkFor(Settings.tenant, x.filter) THEN "creds" ELSE "send"
      BY <1>0, <1>4, <2>1 DEF s
    <3>2. /\ x.step = "tenant" /\ ~x.linked /\ ~y.linked
          /\ Counted(x, moments[e], changes) => Consistent(x, Settings, moments[e], changes)
      BY <1>0, <2>1, Before
    <3> HIDE DEF x, y
    <3> QED
      BY <2>1, <3>1, <3>2, TenantRead
  <2>3. Counted(x, moments[e], changes) =>
          \A u \in Subscriptions :
            IF u \in y.subs THEN SentTo(sends'[e], u) = {} ELSE Served(y, moments[e], sends'[e], u)
    <3>1. sends'[e] = {}
      BY <1>0, <1>1, Before
    <3> QED
      BY <1>0, <2>1, <3>1, Before, LoopEntered
  <2>4. y.step \in {"creds", "send"}
    BY <2>1 DEF s
  <2> QED
    BY <1>0, <1>1, <2>1, <2>2, <2>3, <2>4, Before, Advance
<1> QED
  BY <1>2, <1>3, <1>4 DEF GetTenant

LEMMA CredsExplained ==
  ASSUME Explicable, NEW e \in Dispatchers, GetZoomCredentials(e)
  PROVE  ExplainedNow(e)'
<1> DEFINE x == dispatcher[e]
           y == dispatcher'[e]
<1>0. Running(e) /\ x.step = "creds" /\ Settings.creds = creds
  BY DEF GetZoomCredentials, Running, Settings
<1>1. UNCHANGED <<settingVars, sends, moments, changes>>
  BY DEF GetZoomCredentials
<1>2. CASE dispatcher' = Goto(e, "send")
  <2>1. /\ Kept(x, y) /\ y.failed = x.failed /\ y.linked = x.linked /\ y.filter = x.filter
        /\ y.subs = x.subs /\ y.tenant = x.tenant /\ y.step = "send"
    BY <1>0, <1>2, Entries DEF Goto, Kept, DispatcherState
  <2>2. \A s : Agrees(x, s) => Agrees(y, s)
    BY <1>0, <2>1, Before DEF Agrees, Kept
  <2>3. Counted(x, moments[e], changes) => Consistent(y, Settings, moments[e], changes)
    BY <1>0, <2>1, <2>2, Before, NothingRead
  <2>4. Counted(x, moments[e], changes) =>
          \A u \in Subscriptions :
            IF u \in y.subs THEN SentTo(sends'[e], u) = {} ELSE Served(y, moments[e], sends'[e], u)
    <3>1. sends'[e] = {}
      BY <1>0, <1>1, Before
    <3> QED
      BY <1>0, <2>1, <3>1, Before, LoopEntered
  <2> QED
    BY <1>0, <1>1, <2>1, <2>3, <2>4, Advance
<1>3. CASE creds # None /\ dispatcher' = [Goto(e, "link") EXCEPT ![e].creds = creds]
  <2>0. Settings.tenant # None
    BY <1>0, <1>3, Before DEF WellFormed
  <2>1. /\ Kept(x, y) /\ y.failed = x.failed /\ y.linked = x.linked /\ y.filter = x.filter
        /\ y.subs = x.subs /\ y.tenant = x.tenant /\ y.step = "link"
    BY <1>0, <1>3, Entries DEF Goto, Kept, DispatcherState
  <2>2. Counted(x, moments[e], changes) => Consistent(y, Settings, moments[e], changes)
    BY <1>0, <1>3, <2>0, <2>1, Before, CredentialsRead
  <2> QED
    BY <1>0, <1>1, <2>1, <2>2, Before, Advance
<1> QED
  BY <1>2, <1>3 DEF GetZoomCredentials

LEMMA LinkExplained ==
  ASSUME Explicable, NEW e \in Dispatchers, FetchLink(e)
  PROVE  ExplainedNow(e)'
<1> DEFINE x == dispatcher[e]
           y == dispatcher'[e]
           c == ClientFor(e)
<1>0. Running(e) /\ x.step = "link"
  BY DEF FetchLink, Running
<1>1. UNCHANGED <<settingVars, sends, moments, changes>>
  BY DEF FetchLink
<1>2. PICK linked \in BOOLEAN :
        dispatcher' = [Goto(e, "send") EXCEPT ![e].used = c, ![e].linked = linked]
  BY DEF FetchLink
<1> HIDE DEF c
<1>3. /\ Kept(x, y) /\ y.failed = x.failed /\ y.filter = x.filter
      /\ y.subs = x.subs /\ y.tenant = x.tenant /\ y.step = "send"
  BY <1>0, <1>2, Entries DEF Goto, Kept, DispatcherState
<1>4. \A s : Agrees(x, s) => Agrees(y, s)
  <2>1. \A s : Agrees(x, s) => LinkFor(x.tenant, x.filter) /\ s.creds # None
    BY <1>0 DEF Agrees
  <2> QED
    BY <1>0, <1>3, <2>1 DEF Agrees, Kept
<1>5. Counted(x, moments[e], changes) => Consistent(y, Settings, moments[e], changes)
  BY <1>0, <1>3, <1>4, Before, NothingRead
<1>6. Counted(x, moments[e], changes) =>
        \A u \in Subscriptions :
          IF u \in y.subs THEN SentTo(sends'[e], u) = {} ELSE Served(y, moments[e], sends'[e], u)
  <2>1. sends'[e] = {}
    BY <1>0, <1>1, Before
  <2> QED
    BY <1>0, <1>3, <2>1, Before, LoopEntered
<1> QED
  BY <1>0, <1>1, <1>3, <1>5, <1>6, Advance

LEMMA SendExplained ==
  ASSUME Explicable, NEW e \in Dispatchers, Send(e)
  PROVE  ExplainedNow(e)'
<1> DEFINE x == dispatcher[e]
           y == dispatcher'[e]
           calls(u) == SendsTo(u, x.tenant, SuffixFor(x.tenant, x.filter), x.linked, irc)
<1>0. Running(e) /\ x.step = "send" /\ x.tenant \in Tenant /\ Settings.irc = irc
  BY DEF Send, Running, Settings, Explicable, ReadFirst
<1>1. UNCHANGED <<settingVars, moments, changes>>
  BY DEF Send
<1>2. PICK u \in x.subs :
        \/ /\ sends' = [sends EXCEPT ![e] = @ \cup calls(u)]
           /\ dispatcher' = [dispatcher EXCEPT ![e].subs = @ \ {u}]
        \/ dispatcher' = [dispatcher EXCEPT ![e].subs = @ \ {u}, ![e].failed = TRUE]
  BY Zenon DEF Send
<1>3. CASE dispatcher' = [dispatcher EXCEPT ![e].subs = @ \ {u}, ![e].failed = TRUE]
  <2>1. Kept(x, y) /\ y.failed /\ y.step = "send"
    BY <1>0, <1>3, Entries DEF Kept, DispatcherState
  <2> QED
    BY <1>0, <1>1, <2>1, Advance
<1>4. CASE /\ sends' = [sends EXCEPT ![e] = @ \cup calls(u)]
           /\ dispatcher' = [dispatcher EXCEPT ![e].subs = @ \ {u}]
  <2>1. /\ Kept(x, y) /\ y.failed = x.failed /\ y.linked = x.linked /\ y.filter = x.filter
        /\ y.subs = x.subs \ {u} /\ y.tenant = x.tenant /\ y.step = "send"
    BY <1>0, <1>4, Entries DEF Kept, DispatcherState
  <2>2. \A s : Agrees(x, s) => Agrees(y, s)
    BY <1>0, <2>1 DEF Agrees, Kept
  <2>3. Counted(x, moments[e], changes) => Consistent(y, Settings, moments[e], changes)
    BY <1>0, <2>1, <2>2, Before, NothingRead
  <2>4. sends'[e] = sends[e] \cup calls(u)
    BY <1>4 DEF Explicable, TypeOK
  <2>5. \A c \in calls(u) : c.to = u
    BY DEF SendsTo
  <2>6. u \in Subscriptions
    BY <1>0, Entries DEF DispatcherState
  <2>7. ASSUME Counted(x, moments[e], changes), NEW v \in Subscriptions
        PROVE  IF v \in y.subs THEN SentTo(sends'[e], v) = {} ELSE Served(y, moments[e], sends'[e], v)
    <3>1. \A w \in Subscriptions :
            IF w \in x.subs THEN SentTo(sends[e], w) = {} ELSE Served(x, moments[e], sends[e], w)
      BY <1>0, <2>7 DEF Explicable, ExplainedNow, Explained
    <3>2. CASE v # u
      <4> DEFINE k == calls(u)
      <4>0. sends'[e] = sends[e] \cup k /\ \A c \in k : c.to = u
        BY <2>4, <2>5
      <4> HIDE DEF k, x, y
      <4>1. /\ SentTo(sends[e] \cup k, v) = SentTo(sends[e], v)
            /\ Served(x, moments[e], sends[e], v) => Served(y, moments[e], sends[e] \cup k, v)
        BY <2>1, <3>2, <4>0, OthersServed
      <4> QED
        BY <2>1, <3>1, <3>2, <4>0, <4>1
    <3>3. CASE v = u
      <4>1. Served(x, moments[e], sends[e] \cup calls(u), u)
        BY <1>0, <2>6, <2>7, <3>1, Before, SendServes
      <4> QED
        BY <2>1, <2>4, <3>3, <4>1 DEF Served, Kept
    <3> QED
      BY <3>2, <3>3
  <2> QED
    BY <1>0, <1>1, <2>1, <2>3, <2>7, Advance
<1> QED
  BY <1>2, <1>3, <1>4

LEMMA FinishExplained ==
  ASSUME Explicable, NEW e \in Dispatchers, Finish(e)
  PROVE  ExplainedNow(e)'
<1> DEFINE x == dispatcher[e]
           y == dispatcher'[e]
<1>0. Running(e) /\ x.step = "send" /\ x.subs = {}
  BY DEF Finish, Running
<1>1. UNCHANGED <<settingVars, sends, moments, changes>>
  BY DEF Finish
<1>2. Kept(x, y) /\ y.failed = x.failed /\ y.step = "done"
  BY <1>0, Entries DEF Finish, Goto, Kept, DispatcherState
<1>3. Counted(x, moments[e], changes) => \A u \in Subscriptions : Served(y, moments[e], sends'[e], u)
  BY <1>0, <1>1, <1>2 DEF Explicable, ExplainedNow, Explained, Served, Kept
<1> QED
  BY <1>0, <1>1, <1>2, <1>3, Advance

LEMMA ReturnExplained ==
  ASSUME Explicable, NEW e \in Dispatchers, Return(e)
  PROVE  ExplainedNow(e)'
<1>1. dispatcher'[e] = Idle /\ sends'[e] = {}
  BY DEF Return, Explicable, TypeOK
<1>2. Idle.step = "idle" /\ ~Idle.linked
  BY DEF Idle
<1> QED
  BY <1>1, <1>2 DEF ExplainedNow, Explained

LEMMA StepExplained ==
  ASSUME Explicable, NEW e \in Dispatchers, DispatchStep(e)
  PROVE  ExplainedNow(e)'
BY CallExplained, CountExplained, MatchExplained, SubsExplained, TenantExplained, CredsExplained,
   LinkExplained, SendExplained, FinishExplained, ReturnExplained DEF DispatchStep

(* A step of dispatch e changes neither what another one sent nor the count *)
(* of the requests, and no moment is remembered that was not lived through. *)
LEMMA StepLeavesOthers ==
  ASSUME Explicable, NEW e \in Dispatchers, DispatchStep(e)
  PROVE  /\ changes' = changes
         /\ \A d \in Dispatchers \ {e} : sends'[d] = sends[d]
         /\ moments'[e] \subseteq moments[e] \cup {Settings}
<1> sends \in [Dispatchers -> SUBSET Message] /\ DOMAIN moments = Dispatchers
  BY DEF Explicable, TypeOK, ReadFirst
<1>1. CASE Call(e)
  BY <1>1 DEF Call
<1>2. CASE Return(e)
  BY <1>2 DEF Return
<1>3. CASE Send(e)
  <2>1. UNCHANGED <<moments, changes>>
    BY <1>3 DEF Send
  <2>2. \A d \in Dispatchers \ {e} : sends'[d] = sends[d]
    BY <1>3, Zenon DEF Send
  <2> QED
    BY <2>1, <2>2
<1>4. CASE \/ CountFilters(e) \/ MatchFilter(e) \/ GetSubscriptionsForMeeting(e) \/ GetTenant(e)
           \/ GetZoomCredentials(e) \/ FetchLink(e) \/ Finish(e)
  BY <1>4 DEF CountFilters, MatchFilter, GetSubscriptionsForMeeting, GetTenant,
              GetZoomCredentials, FetchLink, Finish
<1> QED
  BY <1>1, <1>2, <1>3, <1>4 DEF DispatchStep

-----------------------------------------------------------------------------
(* The settings requests *)

(* Each of them deletes the tenant or writes one table. *)
LEMMA SettingsStepIsOneRequest == SettingsStep => OneRequest(Settings, Settings')
<1> USE DEF OneRequest, SameBut, Tables, Settings
<1>1. CreateFilter \/ UpdateFilter \/ DeleteFilter => SameBut(Settings, Settings', "filters")
  BY DEF CreateFilter, UpdateFilter, DeleteFilter
<1>2. CreateSubscription \/ UpdateSubscription \/ DeleteSubscription
        => SameBut(Settings, Settings', "subs")
  BY DEF CreateSubscription, UpdateSubscription, DeleteSubscription
<1>3. UpdateTenantDefaults \/ UpdateTenant \/ CreateTenant => SameBut(Settings, Settings', "tenant")
  BY DEF UpdateTenantDefaults, UpdateTenant, CreateTenant
<1>4. DeleteTenant => Settings'.tenant = None
  BY DEF DeleteTenant
<1>5. UpsertIRCConfig => SameBut(Settings, Settings', "irc")
  BY DEF UpsertIRCConfig
<1>6. UpsertZoomCredentials => SameBut(Settings, Settings', "creds")
  BY DEF UpsertZoomCredentials
<1> HIDE DEF SameBut, Settings
<1> QED
  BY <1>1, <1>2, <1>3, <1>4, <1>5, <1>6 DEF SettingsStep

(* The first request since the dispatch began turns the settings it agrees  *)
(* with into older ones; with the second nothing is claimed any more.       *)
LEMMA ChangeExplained ==
  ASSUME Explicable, SettingsStep, NEW d \in Dispatchers
  PROVE  ExplainedNow(d)'
<1> DEFINE x == dispatcher[d]
           r == Settings
           ms == moments[d]
           new == moments'[d]
<1>1. Change
  BY DEF SettingsStep, CreateFilter, UpdateFilter, DeleteFilter, CreateSubscription,
         UpdateSubscription, DeleteSubscription, UpdateTenantDefaults, UpdateTenant,
         CreateTenant, DeleteTenant, UpsertIRCConfig, UpsertZoomCredentials
<1>2. /\ dispatcher'[d] = x /\ sends'[d] = sends[d] /\ changes' = changes + 1
      /\ ms \subseteq new
  BY <1>1 DEF Change
<1>3. Explained(x, r, ms, sends[d], changes)
  BY DEF Explicable, ExplainedNow
<1>4. changes \in Nat /\ x.start \in Nat
  BY EntryOf DEF Explicable, TypeOK, DispatcherState
<1>5. x.step # "idle" => x.start <= changes'
  BY <1>2, <1>3, <1>4 DEF Explained
<1>6. ASSUME x.step # "idle", Counted(x, new, changes')
      PROVE  Counted(x, ms, changes) /\ changes - x.start = 0 /\ changes' - x.start = 1
  <2>1. ~Emptied(ms) /\ ~x.failed
    BY <1>2, <1>6 DEF Counted, Emptied
  <2>2. changes - x.start = 0 /\ changes' - x.start = 1
    BY <1>2, <1>3, <1>4, <1>6 DEF Counted, Explained
  <2> QED
    BY <2>1, <2>2 DEF Counted
<1>7. ASSUME x.step \notin {"idle", "done"}, Counted(x, new, changes')
      PROVE  Consistent(x, Settings', new, changes')
  <2>1. Agrees(x, r)
    BY <1>3, <1>6, <1>7 DEF Explained, Consistent
  <2>2. r \in new
    BY <1>2, <1>7 DEF Explicable, LivesNow, Running
  <2>3. PICK s \in new : s = r
    BY <2>2
  <2> QED
    BY <1>6, <1>7, <2>1, <2>3, SettingsStepIsOneRequest DEF Consistent
<1>8. \A u : Served(x, ms, sends[d], u) => Served(x, new, sends[d], u)
  BY <1>2 DEF Served
<1>9. Explained(x, Settings', new, sends[d], changes')
  BY <1>3, <1>5, <1>6, <1>7, <1>8 DEF Explained
<1> QED
  BY <1>2, <1>9 DEF ExplainedNow

LEMMA NextMomentsOK == Explicable /\ [Next]_vars => MomentsOK'
<1> SUFFICES ASSUME Explicable, [Next]_vars PROVE MomentsOK'
  OBVIOUS
<1>0. /\ WellFormed(Settings) /\ WellFormed(Settings')
      /\ \A d \in Dispatchers : \A s \in moments[d] : WellFormed(s)
  <2>1. TypeOK /\ TypeOK'
    BY NextTyped DEF Explicable
  <2> QED
    BY <2>1 DEF TypeOK, WellFormed, Settings, Explicable, MomentsOK
<1>1. \A d \in Dispatchers : \A s \in moments'[d] : s \in moments[d] \/ s = Settings \/ s = Settings'
  <2>1. CASE SettingsStep
    <3>1. Change
      BY <2>1 DEF SettingsStep, CreateFilter, UpdateFilter, DeleteFilter, CreateSubscription,
             UpdateSubscription, DeleteSubscription, UpdateTenantDefaults, UpdateTenant,
             CreateTenant, DeleteTenant, UpsertIRCConfig, UpsertZoomCredentials
    <3>2. \A d \in Dispatchers : moments'[d] \subseteq moments[d] \cup {Settings'}
      BY <3>1 DEF Change
    <3> QED
      BY <3>2
  <2>2. ASSUME NEW e \in Dispatchers, DispatchStep(e)
        PROVE  \A d \in Dispatchers : moments'[d] \subseteq moments[d] \cup {Settings}
    <3>1. \A d \in Dispatchers \ {e} : moments'[d] = moments[d]
      BY <2>2, StepIsLocal DEF Explicable
    <3> QED
      BY <2>2, <3>1, StepLeavesOthers
  <2>3. CASE UNCHANGED vars
    BY <2>3 DEF vars
  <2> QED
    BY <2>1, <2>2, <2>3 DEF Next
<1> QED
  BY <1>0, <1>1 DEF MomentsOK

LEMMA NextExplicable == Explicable /\ [Next]_vars => Explicable'
<1> SUFFICES ASSUME Explicable, [Next]_vars PROVE Explicable'
  OBVIOUS
<1>1. TypeOK' /\ ReadFirst' /\ LivesNow' /\ MomentsOK'
  BY NextTyped, NextHistory, NextMomentsOK DEF Explicable
<1>2. CASE SettingsStep
  BY <1>1, <1>2, ChangeExplained DEF Explicable
<1>3. ASSUME NEW e \in Dispatchers, DispatchStep(e)
      PROVE  \A d \in Dispatchers : ExplainedNow(d)'
  <2>1. ASSUME NEW d \in Dispatchers, d # e
        PROVE  ExplainedNow(d)'
    <3>1. ExplainedNow(d)
      BY DEF Explicable
    <3>2. /\ Settings' = Settings /\ dispatcher'[d] = dispatcher[d] /\ moments'[d] = moments[d]
          /\ sends'[d] = sends[d] /\ changes' = changes
      BY <1>3, <2>1, StepIsLocal, StepLeavesOthers DEF Explicable
    <3> QED
      BY <3>1, <3>2 DEF ExplainedNow
  <2> QED
    BY <1>3, <2>1, StepExplained
<1>4. CASE UNCHANGED vars
  <2>1. /\ Settings' = Settings /\ dispatcher' = dispatcher /\ moments' = moments
        /\ sends' = sends /\ changes' = changes
    BY <1>4 DEF vars, settingVars, Settings
  <2>2. \A d \in Dispatchers : ExplainedNow(d)'
    BY <2>1 DEF ExplainedNow, Explicable
  <2> QED
    BY <1>1, <2>2 DEF Explicable
<1> QED
  BY <1>1, <1>2, <1>3, <1>4 DEF Next, Explicable

LEMMA InitExplicable == Init => Explicable
<1> SUFFICES ASSUME Init PROVE Explicable
  OBVIOUS
<1>1. TypeOK /\ ReadFirst /\ LivesNow
  BY InitTyped, InitAllowed
<1>2. \A d \in Dispatchers : moments[d] = {} /\ sends[d] = {} /\ dispatcher[d] = Idle
  BY DEF Init
<1>3. Idle.step = "idle" /\ ~Idle.linked
  BY DEF Idle
<1>4. \A d \in Dispatchers : ExplainedNow(d)
  BY <1>2, <1>3 DEF ExplainedNow, Explained
<1> QED
  BY <1>1, <1>2, <1>4 DEF Explicable, MomentsOK

(* With at most one settings request of any kind while it runs, a dispatch  *)
(* that reads its settings in six separate statements sends every           *)
(* subscription what the settings before or after that request ask for, for *)
(* any number of dispatches, filters, subscriptions and servers.            *)
THEOREM OneChangeSeemsAtomic == Spec => []OneChangeIsAtomic
<1>1. Explicable => OneChangeIsAtomic
  <2> SUFFICES ASSUME Explicable, NEW d \in Dispatchers, dispatcher[d].step = "done",
                      ~dispatcher[d].failed, changes - dispatcher[d].start <= 1,
                      ~LastFilterDeleted(d), NEW u \in Subscriptions
               PROVE  Served(dispatcher[d], moments[d], sends[d], u)
    BY DEF OneChangeIsAtomic, Served, SentTo
  <2>1. Counted(dispatcher[d], moments[d], changes)
    BY DEF Counted, Emptied, LastFilterDeleted
  <2> QED
    BY <2>1 DEF Explicable, ExplainedNow, Explained
<1> QED
  BY <1>1, InitExplicable, NextExplicable, PTL DEF Spec
=============================================================================
