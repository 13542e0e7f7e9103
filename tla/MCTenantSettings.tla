--------------------------- MODULE MCTenantSettings ---------------------------
(* Values for the constants of TenantSettings. *)
EXTENDS TenantSettings

CONSTANTS ann, bob, k1, k2, k3, s1, s2, p1, p2, c1, a1, a2, t1, t2, z1, z2

MCCommands ==
  [op : {"defaults"}, who : {ann}, suffix : {s2}, link : {None}]
  \cup [op : {"defaults"}, who : {bob}, suffix : {None}, link : {"on"}]
  \cup [op : {"override"}, who : {ann}, sel : {p1}, suffix : {s2}, link : {None}]
  \cup [op : {"override"}, who : {bob}, sel : {1}, suffix : {None}, link : {"on"}]
  \cup [op : {"createFilter"}, who : {ann}, pattern : {p1}, suffix : {None}, link : {None}]
  \cup [op : {"subscribe"}, who : {ann, bob}, target : {c1}]
  \cup [op : {"unsubscribe"}, who : {ann}, target : {c1}]
  \cup [op : {"addAdmin"}, who : {ann}, user : {bob}]
  \cup [op : {"removeAdmin"}, who : {ann, bob}, user : {ann, bob}]

MCCalls ==
  [op : {"patch"}, who : {k1}, sel : {1}, pattern : {p2, None}, suffix : {None}, link : {"off"}]
  \cup [op : {"deleteFilter"}, who : {k1}, sel : {1}]
  \cup [op : {"createSubscription"}, who : {k1}, type : Types, target : {c1}]
  \cup [op : {"updateSubscription"}, who : {k1}, id : {1}, enabled : {FALSE}, target : {None}]
  \cup [op : {"deleteSubscription"}, who : {k1}, id : {1}]
  \cup [op : {"rotate"}, who : {k1}, key : {k2}] \cup [op : {"rotate"}, who : {k1, k2}, key : {k3}]
  \cup [op : {"setup"}, who : {k1}, account : {a2}, creds : {z2, None}]
  \cup [op : {"putCreds"}, who : {k1}, creds : {z1}]
  \cup [op : {"install"}, who : {None}, user : {bob}, token : {t2}, key : {k2}]
  \cup [op : {"install"}, who : {None}, user : {ann}, token : {t1}, key : {k3}]
  \cup [op : {"createTenant"}, who : {None}, account : {a1}, key : {k3}]
  \cup [op : {"deleteTenant"}, who : {k1}]

MCRequests == MCCommands \cup MCCalls

MCInstalled ==
  [tenant |-> [suffix |-> s1, link |-> "off", account |-> a1, token |-> t1, key |-> k1],
   admins |-> {ann, bob},
   filters |-> {[id |-> 1, pattern |-> p1, suffix |-> None, link |-> None]},
   subs |-> {[id |-> 1, type |-> "slack", target |-> c1, enabled |-> TRUE]},
   creds |-> z1, lastFilter |-> 1, lastSub |-> 1]

MCNothing ==
  [tenant |-> None, admins |-> {}, filters |-> {}, subs |-> {}, creds |-> None,
   lastFilter |-> 0, lastSub |-> 0]

MCTables == {MCInstalled, MCNothing}
=============================================================================
