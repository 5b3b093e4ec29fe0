------------------------------- MODULE GlobKeys -------------------------------
(***************************************************************************)
(* KEYS: the keys that match a glob-style pattern, by KeysCommand of       *)
(* src/src/commands/command.c and StringMatch of                           *)
(* src/src/utils/string_util.c, against what such a pattern means.         *)
(*                                                                         *)
(* A client composes a pattern item by item: ?, *, a character, a          *)
(* character behind a backslash, a class.  The program gets its text, a    *)
(* sequence of characters; its meaning is defined on the items.            *)
(* Characters are numbers, their codes; keys are not empty, since          *)
(* ParseNonBulkQuery drops empty arguments.                                *)
(***************************************************************************)
EXTENDS Integers, SequencesExt

CONSTANTS
  Keys,       \* the keys of the database, sequences of characters
  Items,      \* the items of which patterns are composed
  MaxItems    \* bound: items of a pattern

Star == 42
Hyphen == 45
Question == 63
Open == 91
Backslash == 92
Close == 93
Caret == 94

(* A class lists its members: a character, one behind a backslash, or a    *)
(* range of characters, whose ends may come in either order.               *)
One(c) == [escaped |-> FALSE, from |-> c, to |-> c]
Escaped(c) == [escaped |-> TRUE, from |-> c, to |-> c]
FromTo(a, b) == [escaped |-> FALSE, from |-> a, to |-> b]

Single == [kind |-> "single"]
Many == [kind |-> "many"]
Literal(member) == [kind |-> "literal", member |-> member]
Class(not, members) == [kind |-> "class", not |-> not, members |-> members]

ASSUME KeysAssumption == Keys \subseteq Seq(Nat) \ {<<>>}
ASSUME ItemsAssumption ==
  \A item \in Items : item.kind \in {"single", "many", "literal", "class"}
ASSUME BoundAssumption == MaxItems \in Nat

VARIABLES
  items,   \* the pattern
  open,    \* its last item is a class that is not closed
  reply    \* what KEYS replied

vars == <<items, open, reply>>

NoReply == {<<>>}

Init == items = <<>> /\ open = FALSE /\ reply = NoReply

-----------------------------------------------------------------------------
(* The text of a pattern *)

MemberText(member) ==
  CASE member.escaped -> <<Backslash, member.from>>
    [] member.from # member.to -> <<member.from, Hyphen, member.to>>
    [] OTHER -> <<member.from>>

ItemText(item) ==
  CASE item.kind = "single" -> <<Question>>
    [] item.kind = "many" -> <<Star>>
    [] item.kind = "literal" -> MemberText(item.member)
    [] item.kind = "class" ->
         <<Open>> \o (IF item.not THEN <<Caret>> ELSE <<>>)
         \o FlattenSeq([i \in DOMAIN item.members |-> MemberText(item.members[i])])
         \o <<Close>>

Text ==
  LET whole == FlattenSeq([i \in DOMAIN items |-> ItemText(items[i])])
  IN IF open THEN Front(whole) ELSE whole

-----------------------------------------------------------------------------
(* StringMatch *)

Drop(s, n) == SubSeq(s, n + 1, Len(s))

RECURSIVE SkipStars(_)
SkipStars(pattern) ==
  IF pattern # <<>> /\ Head(pattern) = Star THEN SkipStars(Tail(pattern)) ELSE pattern

BetweenAscending(c, start, end) == start <= c /\ c <= end  \* mutant

Between(c, start, end) ==
  IF start > end THEN end <= c /\ c <= start ELSE start <= c /\ c <= end

(* The class that pattern begins with, after [ and ^: whether c is one of  *)
(* its members, and the pattern behind it.  It ends with ] or with the     *)
(* pattern; a backslash as the very last character, behind which the code  *)
(* reads on, is not among the patterns composed here.                      *)
RECURSIVE Scan(_, _, _)
Scan(pattern, c, match) ==
  CASE pattern = <<>> -> [match |-> match, rest |-> <<>>]
    [] pattern # <<>> /\ Head(pattern) = Backslash ->
         Scan(Drop(pattern, 2), c, match \/ pattern[2] = c)
    [] pattern # <<>> /\ Head(pattern) = Close ->
         [match |-> match, rest |-> Tail(pattern)]
    [] Len(pattern) >= 3 /\ Head(pattern) \notin {Backslash, Close} /\ pattern[2] = Hyphen ->
         Scan(Drop(pattern, 3), c, match \/ Between(c, pattern[1], pattern[3]))
    [] OTHER -> Scan(Tail(pattern), c, match \/ Head(pattern) = c)

(* What is behind a * is tried on every rest of the string that is not     *)
(* empty.  Once the string is used up only stars may be left.              *)
RECURSIVE StringMatch(_, _)
StringMatch(pattern, string) ==
  LET Go(rest) == IF Len(string) = 1 THEN SkipStars(rest) = <<>>
                  ELSE StringMatch(rest, Tail(string))
  IN
  IF pattern = <<>> THEN FALSE
  ELSE CASE Head(pattern) = Star ->
              LET rest == SkipStars(pattern)
              IN rest = <<>> \/ \E n \in 0 .. Len(string) - 1 :
                                   StringMatch(rest, Drop(string, n))
         [] Head(pattern) = Question -> Go(Tail(pattern))
         [] Head(pattern) = Open ->
              LET not == Len(pattern) > 1 /\ pattern[2] = Caret
                  class == Scan(Drop(pattern, IF not THEN 2 ELSE 1), Head(string), FALSE)
              IN class.match # not /\ Go(class.rest)
         [] Head(pattern) = Backslash /\ Len(pattern) >= 2 ->
              pattern[2] = Head(string) /\ Go(Drop(pattern, 2))
         [] OTHER -> Head(pattern) = Head(string) /\ Go(Tail(pattern))

-----------------------------------------------------------------------------
(* The client adds an item; a class may be left open at the end.           *)
Compose(item) ==
  /\ Len(items) < MaxItems /\ ~ open
  /\ items' = Append(items, item)
  /\ open' \in {FALSE, item.kind = "class"}
  /\ reply' = NoReply

KeysCommand ==
  /\ items # <<>>
  /\ reply' = {key \in Keys : Text = <<Star>> \/ StringMatch(Text, key)}
  /\ UNCHANGED <<items, open>>

Next == KeysCommand \/ \E item \in Items : Compose(item)

Spec == Init /\ [][Next]_vars

-----------------------------------------------------------------------------
(* Properties *)

InMember(c, member) ==
  \/ member.from <= c /\ c <= member.to
  \/ member.to <= c /\ c <= member.from

Fits(c, item) ==
  CASE item.kind = "single" -> TRUE
    [] item.kind = "literal" -> c = item.member.from
    [] item.kind = "class" ->
         item.not # \E i \in DOMAIN item.members : InMember(c, item.members[i])

(* The key can be cut into one piece for each item, in order: any piece    *)
(* for *, a single character that fits for the others.                     *)
Meant(key) ==
  \E cut \in [0 .. Len(items) -> 0 .. Len(key)] :
    /\ cut[0] = 0 /\ cut[Len(items)] = Len(key)
    /\ \A i \in DOMAIN items :
         IF items[i].kind = "many" THEN cut[i] >= cut[i - 1]
         ELSE cut[i] = cut[i - 1] + 1 /\ Fits(key[cut[i]], items[i])

(* README.md:228-233: KEYS replies with all the keys that match the        *)
(* glob-style pattern and with no other, although StringMatch reads the    *)
(* text once, goes back only for *, stops early when the key is used up    *)
(* and has code of its own for each way to end a class                     *)
(* (string_util.c:26-156).                                                 *)
KeysExact == reply # NoReply => reply = {key \in Keys : Meant(key)}
=============================================================================
