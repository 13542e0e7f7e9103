----------------------------- MODULE SettingsData -----------------------------
(* The rows of one tenant's settings and the requests that change them: slash  *)
(* commands and modals, made by a Slack user; calls of the REST API and the    *)
(* setup page, made with the tenant's API key; and the requests nobody of the  *)
(* tenant makes, the OAuth callback and the creation of a tenant.              *)
EXTENDS Integers

CONSTANTS Users, Keys, Suffixes, Patterns, Channels, Accounts, Tokens, Creds,
          None,
          Blank,         \* the empty suffix
          Requests,      \* the requests that are made
          InitTables     \* what the tables may hold at first

Links == {"on", "off"}
Types == {"slack", "irc"}
Ids   == Nat \ {0}
Opt(S) == S \cup {None}

Tenant == [suffix : Suffixes, link : Links, account : Opt(Accounts), token : Opt(Tokens), key : Keys]
Filter == [id : Ids, pattern : Patterns, suffix : Opt(Suffixes), link : Opt(Links)]
Subscription == [id : Ids, type : Types, target : Channels, enabled : BOOLEAN]

(* "defaults" are set-suffix, set-link and PUT defaults, which differ in what  *)
(* they send; "override" the same commands on one filter, named by its pattern *)
(* (command) or its id (modal); the others are called by their handlers.       *)
Request ==
  [op : {"defaults"}, who : Users \cup Keys, suffix : Opt(Suffixes), link : Opt(Links)]
  \cup [op : {"override"}, who : Users, sel : Patterns \cup Ids, suffix : Opt(Suffixes), link : Opt(Links)]
  \cup [op : {"patch"}, who : Keys, sel : Ids, pattern : Opt(Patterns), suffix : Opt(Suffixes), link : Opt(Links)]
  \cup [op : {"createFilter"}, who : Users \cup Keys, pattern : Patterns, suffix : Opt(Suffixes), link : Opt(Links)]
  \cup [op : {"deleteFilter"}, who : Keys, sel : Ids]
  \cup [op : {"subscribe", "unsubscribe"}, who : Users, target : Channels]
  \cup [op : {"createSubscription"}, who : Keys, type : Types, target : Channels]
  \cup [op : {"updateSubscription"}, who : Keys, id : Ids, enabled : Opt(BOOLEAN), target : Opt(Channels)]
  \cup [op : {"deleteSubscription"}, who : Keys, id : Ids]
  \cup [op : {"addAdmin", "removeAdmin"}, who : Users \cup Keys, user : Users]
  \cup [op : {"rotate"}, who : Keys, key : Keys]
  \cup [op : {"putCreds"}, who : Keys, creds : Creds]
  \cup [op : {"setup"}, who : Keys, account : Accounts, creds : Opt(Creds)]
  \cup [op : {"install"}, who : {None}, user : Users, token : Tokens, key : Keys]
  \cup [op : {"createTenant"}, who : {None}, account : Accounts, key : Keys]
  \cup [op : {"deleteTenant"}, who : Keys]

(* Without its tenant nothing is left (foreign keys with ON DELETE CASCADE); *)
(* ids are given out by an AUTOINCREMENT sequence.                           *)
Consistent(tenant, admins, filters, subs, creds, lastFilter, lastSub) ==
  /\ tenant \in Tenant \cup {None}
  /\ admins \subseteq Users /\ filters \subseteq Filter /\ subs \subseteq Subscription
  /\ creds \in Opt(Creds)
  /\ lastFilter \in Nat /\ lastSub \in Nat
  /\ tenant = None => admins = {} /\ filters = {} /\ subs = {} /\ creds = None
  /\ \A f \in filters : f.id <= lastFilter /\ \A g \in filters : f.id = g.id => f = g
  /\ \A s \in subs : s.id <= lastSub /\ \A q \in subs : s.id = q.id => s = q

ASSUME RequestsAssumption ==
  /\ Requests \subseteq Request
  /\ \A t \in InitTables : Consistent(t.tenant, t.admins, t.filters, t.subs, t.creds, t.lastFilter, t.lastSub)
  /\ Blank \in Suffixes
  /\ None \notin UNION {Users, Keys, Suffixes, Patterns, Channels, Accounts, Tokens, Creds}
  /\ None \notin Links /\ None \notin Tenant /\ None \notin Request
  /\ None \notin BOOLEAN
  /\ Users \cap Keys = {}
  /\ Patterns \cap Ids = {}

(* A new tenant: Go's zero values for the columns its creator leaves out. *)
NewTenant(account, token, key) ==
  [suffix |-> Blank, link |-> "off", account |-> account, token |-> token, key |-> key]

(* A column that was not sent keeps its value. *)
Sent(new, old) == IF new = None THEN old ELSE new

Selected(fs, sel)  == {f \in fs : sel \in {f.id, f.pattern}}
SlackOn(ss, ch)    == {s \in ss : s.type = "slack" /\ s.target = ch}
=============================================================================
