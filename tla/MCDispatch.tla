------------------------------ MODULE MCDispatch ------------------------------
(* Values for the constants of Dispatch. *)
EXTENDS Dispatch, TLC

CONSTANTS m1, pa, pb, s1, s2, k1, v1, c1, x1, x2

(* Pattern pa matches every topic, pb none. *)
MCContains == (pa :> Topics) @@ (pb :> {})

SlackPinned   == [id |-> 1, type |-> "slack", meeting |-> m1, target |-> x1]
IrcAnyMeeting == [id |-> 2, type |-> "irc", meeting |-> None, target |-> x1]
SlackMoved    == [SlackPinned EXCEPT !.target = x2]

MCPinned == {SlackPinned}
MCBoth   == {SlackPinned, IrcAnyMeeting}
MCRows   == MCBoth \cup {SlackMoved}

MCTenant == [suffix |-> s1, link |-> FALSE, token |-> k1]

(* Up to two filters, one of them with a suffix of its own. *)
MCFilterSettings ==
  {[tenant |-> MCTenant,
    filters |-> {[id |-> i, pattern |-> ps[i], suffix |-> IF i = o THEN s2 ELSE None,
                  link |-> None] : i \in ids},
    subs |-> MCPinned, irc |-> {}, creds |-> None] :
     ids \in {{}, {1}, {1, 2}}, ps \in [{1, 2} -> Patterns], o \in {1, 2}}

(* No filter or one that decides about the link; one or two subscriptions.  *)
MCChannelSettings ==
  {[tenant |-> [MCTenant EXCEPT !.link = TRUE], filters |-> fs, subs |-> ss, irc |-> vs, creds |-> c] :
     fs \in {{}, {[id |-> 1, pattern |-> pa, suffix |-> None, link |-> FALSE]}},
     ss \in {{SlackPinned}, MCBoth}, vs \in {{}, {v1}}, c \in {c1, None}}

(* The tenant was deleted since the webhook looked it up. *)
MCDeleted == [tenant |-> None, filters |-> {}, subs |-> {}, irc |-> {}, creds |-> None]

MCAllSettings == MCFilterSettings \cup MCChannelSettings \cup {MCDeleted}
=============================================================================
