------------------------------- MODULE Settings -------------------------------
(* What the requests promise: each is one step that changes what it is about,  *)
(* made by someone who may make it at that moment. Two requests with two       *)
(* effects (the setup page and the OAuth callback) are two steps.              *)
EXTENDS SettingsData

VARIABLES tenant, admins, filters, subs, creds,
          lastFilter, lastSub      \* the AUTOINCREMENT sequences

rows == <<tenant, admins, filters, subs, creds, lastFilter, lastSub>>

Init ==
  \E t \in InitTables :
    /\ tenant = t.tenant /\ admins = t.admins /\ filters = t.filters /\ subs = t.subs
    /\ creds = t.creds /\ lastFilter = t.lastFilter /\ lastSub = t.lastSub

(* By a command of an admin, or with the tenant's present key.  *)
Authorised(r) == tenant # None /\ (r.who \in admins \/ r.who = tenant.key)

OnlyTenant  == UNCHANGED <<admins, filters, subs, creds, lastFilter, lastSub>>
OnlyFilters == UNCHANGED <<tenant, admins, subs, creds, lastSub>>
OnlySubs    == UNCHANGED <<tenant, admins, filters, creds, lastFilter>>
OnlyAdmins  == UNCHANGED <<tenant, filters, subs, creds, lastFilter, lastSub>>
OnlyCreds   == UNCHANGED <<tenant, admins, filters, subs, lastFilter, lastSub>>

(* Sets the suffix or the link or both, and nothing else. *)
SetDefaults(r) ==
  /\ r.op = "defaults" /\ Authorised(r)
  /\ tenant' = [tenant EXCEPT !.suffix = Sent(r.suffix, @), !.link = Sent(r.link, @)]
  /\ OnlyTenant

Rotate(r) ==
  /\ r.op = "rotate" /\ Authorised(r)
  /\ tenant' = [tenant EXCEPT !.key = r.key]
  /\ OnlyTenant

SetAccount(r) ==
  /\ r.op = "setup" /\ Authorised(r)
  /\ tenant' = [tenant EXCEPT !.account = r.account]
  /\ OnlyTenant

SetCreds(r) ==
  /\ r.op \in {"setup", "putCreds"} /\ Authorised(r)
  /\ creds' = Sent(r.creds, creds)
  /\ OnlyCreds

(* The first installation creates the tenant, a later one renews its token. *)
Install(r) ==
  /\ r.op = "install"
  /\ tenant' = IF tenant = None
                 THEN NewTenant(None, r.token, r.key)
                 ELSE [tenant EXCEPT !.token = r.token]
  /\ OnlyTenant

CreateTenant(r) ==
  /\ r.op = "createTenant" /\ tenant = None
  /\ tenant' = NewTenant(r.account, None, r.key)
  /\ OnlyTenant

DeleteTenant(r) ==
  /\ r.op = "deleteTenant" /\ Authorised(r)
  /\ tenant' = None /\ admins' = {} /\ filters' = {} /\ subs' = {} /\ creds' = None
  /\ UNCHANGED <<lastFilter, lastSub>>

AddAdmin(r) ==
  /\ \/ r.op = "addAdmin" /\ Authorised(r)
     \/ r.op = "install" /\ tenant # None
  /\ admins' = admins \cup {r.user}
  /\ OnlyAdmins

RemoveAdmin(r) ==
  /\ r.op = "removeAdmin" /\ Authorised(r)
  /\ admins' = admins \ {r.user}
  /\ OnlyAdmins

CreateFilter(r) ==
  /\ r.op = "createFilter" /\ Authorised(r)
  /\ lastFilter' = lastFilter + 1
  /\ filters' = filters \cup {[id |-> lastFilter', pattern |-> r.pattern, suffix |-> r.suffix, link |-> r.link]}
  /\ OnlyFilters

(* Changes one filter of that id or pattern, only in what was sent. *)
Override(r) ==
  /\ r.op = "override" /\ Authorised(r)
  /\ \E f \in Selected(filters, r.sel) :
       filters' = (filters \ {f}) \cup {[f EXCEPT !.suffix = Sent(r.suffix, @), !.link = Sent(r.link, @)]}
  /\ OnlyFilters /\ UNCHANGED lastFilter

(* Replaces both overrides, by nothing if they are not sent. *)
Patch(r) ==
  /\ r.op = "patch" /\ Authorised(r)
  /\ \E f \in Selected(filters, r.sel) :
       filters' = (filters \ {f}) \cup
         {[f EXCEPT !.pattern = Sent(r.pattern, @), !.suffix = r.suffix, !.link = r.link]}
  /\ OnlyFilters /\ UNCHANGED lastFilter

DeleteFilter(r) ==
  /\ r.op = "deleteFilter" /\ Authorised(r)
  /\ filters' = filters \ Selected(filters, r.sel)
  /\ OnlyFilters /\ UNCHANGED lastFilter

(* A channel is subscribed once. *)
Subscribe(r) ==
  /\ \/ r.op = "createSubscription" /\ Authorised(r)
     \/ r.op = "subscribe" /\ Authorised(r) /\ SlackOn(subs, r.target) = {}
  /\ lastSub' = lastSub + 1
  /\ subs' = subs \cup {[id |-> lastSub', type |-> IF r.op = "subscribe" THEN "slack" ELSE r.type,
                         target |-> r.target, enabled |-> TRUE]}
  /\ OnlySubs

Unsubscribe(r) ==
  /\ r.op = "unsubscribe" /\ Authorised(r)
  /\ \E s \in SlackOn(subs, r.target) : subs' = subs \ {s}
  /\ OnlySubs /\ UNCHANGED lastSub

UpdateSubscription(r) ==
  /\ r.op = "updateSubscription" /\ Authorised(r)
  /\ \E s \in subs :
       /\ s.id = r.id
       /\ subs' = (subs \ {s}) \cup {[s EXCEPT !.enabled = Sent(r.enabled, @), !.target = Sent(r.target, @)]}
  /\ OnlySubs /\ UNCHANGED lastSub

DeleteSubscription(r) ==
  /\ r.op = "deleteSubscription" /\ Authorised(r)
  /\ subs' = {s \in subs : s.id # r.id}
  /\ OnlySubs /\ UNCHANGED lastSub

Do(r) ==
  \/ SetDefaults(r) \/ Rotate(r) \/ SetAccount(r) \/ SetCreds(r)
  \/ Install(r) \/ CreateTenant(r) \/ DeleteTenant(r)
  \/ AddAdmin(r) \/ RemoveAdmin(r)
  \/ CreateFilter(r) \/ Override(r) \/ Patch(r) \/ DeleteFilter(r)
  \/ Subscribe(r) \/ Unsubscribe(r) \/ UpdateSubscription(r) \/ DeleteSubscription(r)

Next == \E r \in Requests : Do(r)
Spec == Init /\ [][Next]_rows
=============================================================================
