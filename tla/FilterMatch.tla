----------------------------- MODULE FilterMatch ------------------------------
(***************************************************************************)
(* How a meeting topic is matched against the pattern of a filter: the     *)
(* WHERE clause of CheckFilter and the escapeLike it calls                 *)
(* (internal/store/sqlite/filters.go), with SQLite's LOWER and LIKE.       *)
(*                                                                         *)
(* Texts are sequences over an alphabet that has one letter in two cases,  *)
(* another letter, and the characters LIKE gives a meaning to.  What the   *)
(* clause computes is compared with the substring search the comments and  *)
(* the README promise.                                                     *)
(***************************************************************************)
EXTENDS Integers, Sequences, SequencesExt

CONSTANTS
  Alphabet,    \* the characters of topics and patterns
  MaxTopic,    \* bound on the length of a topic
  MaxPattern   \* bound on the length of a pattern

ASSUME FilterMatchAssumption ==
  /\ Alphabet \subseteq {"a", "A", "b", "%", "_", "\\"}
  /\ MaxTopic \in Nat /\ MaxPattern \in Nat

VARIABLES
  topic,     \* the topic of the webhook
  pattern,   \* the pattern of the tenant's only filter
  verdict    \* what CheckFilter said

vars == <<topic, pattern, verdict>>

Texts(n)  == UNION {[1..k -> Alphabet] : k \in 0..n}
Special   == {"%", "_", "\\"}
IsPlain(s) == \A i \in DOMAIN s : s[i] \notin Special

-----------------------------------------------------------------------------
(* LOWER(...) *)
Lower(s) == [i \in DOMAIN s |-> IF s[i] = "A" THEN "a" ELSE s[i]]

(* escapeLike: every special character gets a backslash in front. *)
escapeLike(s) ==
  FlattenSeq([i \in DOMAIN s |-> IF s[i] \in Special THEN <<"\\", s[i]>> ELSE <<s[i]>>])

(* s LIKE p ESCAPE '\': From[j] are the positions of s from which on it      *)
(* matches p from position j on.                                            *)
Like(s, p) ==
  LET From[j \in 1..Len(p) + 1] ==
        {i \in 1..Len(s) + 1 :
           \/ j > Len(p) /\ i > Len(s)
           \/ j <= Len(p) /\ p[j] = "%" /\ \E k \in From[j + 1] : i <= k
           \/ j <= Len(p) /\ p[j] = "_" /\ i <= Len(s) /\ i + 1 \in From[j + 1]
           \/ /\ j < Len(p) /\ p[j] = "\\"
              /\ i <= Len(s) /\ s[i] = p[j + 1] /\ i + 1 \in From[j + 2]
           \/ /\ j <= Len(p) /\ p[j] \notin Special
              /\ i <= Len(s) /\ s[i] = p[j] /\ i + 1 \in From[j + 1]}
  IN  1 \in From[1]

(* Variant: the pattern is not open at its end. *)
MatchesPrefix(t, p) == Like(Lower(escapeLike(t)), <<"%">> \o Lower(p))

(* LOWER(escapeLike(topic)) LIKE '%' || LOWER(pattern) || '%' *)
Matches(t, p) == Like(Lower(escapeLike(t)), <<"%">> \o Lower(p) \o <<"%">>)

(* A tenant with one filter and a topic of Zoom's, both any text.           *)
Init ==
  /\ topic \in Texts(MaxTopic)
  /\ pattern \in Texts(MaxPattern)
  /\ verdict = "unchecked"

CheckFilter ==
  /\ verdict = "unchecked"
  /\ verdict' = IF Matches(topic, pattern) THEN "matched" ELSE "excluded"
  /\ UNCHANGED <<topic, pattern>>

Next == CheckFilter

Spec == Init /\ [][Next]_vars

-----------------------------------------------------------------------------
(* Properties *)

(* The reference: p occurs in t, upper and lower case alike. *)
OccursIn(t, p) ==
  \E i \in 0..Len(t) - Len(p) : Lower(SubSeq(t, i + 1, i + Len(p))) = Lower(p)

(* A pattern without special characters selects exactly the topics it       *)
(* occurs in, also topics that have special characters themselves.          *)
PlainPatternIsSubstring ==
  verdict # "unchecked" /\ IsPlain(pattern) =>
    (verdict = "matched" <=> OccursIn(topic, pattern))

(* escapeLike's comment: the pattern is treated as a literal substring.     *)
PatternIsLiteral ==
  verdict # "unchecked" => (verdict = "matched" <=> OccursIn(topic, pattern))
=============================================================================
