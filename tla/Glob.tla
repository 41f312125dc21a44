-------------------------------- MODULE Glob --------------------------------
(***************************************************************************)
(* The two matchers behind DeletePattern.  RedisStore hands Redis the      *)
(* glob after its escaped key prefix; MemoryStore and the local adapters   *)
(* compile the glob to a regular expression (internal/pattern).  A         *)
(* TwoLevelStore uses both on one pattern: keys that only one of them      *)
(* matches stay in the other level.                                        *)
(*                                                                         *)
(* A string is a sequence of characters.  A matcher is a sequence of       *)
(* items: any number of characters, or one character of a set.             *)
(*                                                                         *)
(* These are functions: the variables are what they are applied to, and    *)
(* the instance for TLC enumerates it.                                     *)
(***************************************************************************)
EXTENDS Naturals, Sequences, SequencesExt

CONSTANTS
  Alphabet,      \* the characters in the order of their codes
  PrefixChars,   \* what WithKeyPrefix may be made of
  Tokens,        \* what the caller writes its globs with, see Token
  Strings        \* the keys a store may have

Chars == {Alphabet[n] : n \in DOMAIN Alphabet}
Code(c) == CHOOSE n \in DOMAIN Alphabet : Alphabet[n] = c

\* The characters from one to another.
FromTo(a, b) == {c \in Chars : Code(a) <= Code(c) /\ Code(c) <= Code(b)}

\* A piece of a glob as its author means it: its characters, and what it matches.
Token == [text : Seq(Chars), star : BOOLEAN, of : SUBSET Chars]

ASSUME GlobAssumption ==
  /\ \A m, n \in DOMAIN Alphabet : Alphabet[m] = Alphabet[n] => m = n
  /\ PrefixChars \subseteq Chars
  /\ Tokens \subseteq Token
  /\ {"*", "\\"} \subseteq Chars
  /\ Strings \subseteq Seq(Chars)

VARIABLES prefix, glob  \* the store's key prefix, and the glob as a sequence of tokens

AnyNumber == [star |-> TRUE, of |-> {}]
OneOf(set) == [star |-> FALSE, of |-> set]

\* A piece of a text: the item it stands for, and where the next one begins.
Star(next) == [item |-> AnyNumber, next |-> next]
Char(set, next) == [item |-> OneOf(set), next |-> next]

\* The items match the whole string: reach[n] is where a match of the first n
\* items may end.
Matches(items, string) ==
  LET reach[n \in 0 .. Len(items)] ==
        IF n = 0 THEN {0}
        ELSE LET before == reach[n - 1] IN
             IF items[n].star THEN {m \in 0 .. Len(string) : \E k \in before : k <= m}
             ELSE {m \in 1 .. Len(string) : m - 1 \in before /\ string[m] \in items[n].of}
  IN Len(string) \in reach[Len(items)]

\* A loop over a text: what stands at a place is an item, and the next one begins
\* behind it.
OneByOne(pieces) ==
  LET items[n \in 1 .. Len(pieces) + 1] ==
        IF n > Len(pieces) THEN <<>>
        ELSE <<pieces[n].item>> \o items[pieces[n].next]
  IN items[1]

-----------------------------------------------------------------------------
(* internal/pattern *)

\* A class begins behind "[", or behind the sign that negates it.
Negated(text, n) == n <= Len(text) /\ text[n] \in {"!", "^"}

\* A class with one more member before the others.
Longer(char, class) == [end |-> class.end, members |-> <<char>> \o class.members]

\* translateCharClass from the first member on: the members with their escapes
\* resolved, and where the class ends, or 0.
LocalMembers(text, first) ==
  LET members[n \in first .. Len(text) + 2] ==
        IF n > Len(text) THEN [end |-> 0, members |-> <<>>]
        ELSE IF text[n] = "]" /\ n > first THEN [end |-> n, members |-> <<>>]
        ELSE IF n < Len(text) /\ text[n] = "\\" THEN Longer(text[n + 1], members[n + 2])
        ELSE Longer(text[n], members[n + 1])
  IN members[first]

\* What regexp makes of the members: a hyphen between two of them is a range.
RegexpClass(members) ==
  LET class[n \in 1 .. Len(members) + 3] ==
        IF n > Len(members) THEN {}
        ELSE IF n + 2 <= Len(members) /\ members[n + 1] = "-"
               THEN FromTo(members[n], members[n + 2]) \cup class[n + 3]
        ELSE {members[n]} \cup class[n + 1]
  IN class[1]

\* The sign that negates a class is taken for a member.
LocalClass_Slip(text, n) ==
  LET found == LocalMembers(text, n + 1)
  IN [end |-> found.end, of |-> RegexpClass(found.members)]

\* The class that begins at n: where it ends, and what it matches.
LocalClass(text, n) ==
  LET negated == Negated(text, n + 1)
      found == LocalMembers(text, IF negated THEN n + 2 ELSE n + 1)
      set == RegexpClass(found.members)
  IN [end |-> found.end, of |-> IF negated THEN Chars \ set ELSE set]

\* globToRegexp at one place: a class that does not end and a backslash at the end
\* are themselves.
LocalPiece(text, n) ==
  LET class == LocalClass(text, n) IN
  IF n < Len(text) /\ text[n] = "\\" THEN Char({text[n + 1]}, n + 2)
  ELSE IF text[n] = "*" THEN Star(n + 1)
  ELSE IF text[n] = "?" THEN Char(Chars, n + 1)
  ELSE IF text[n] = "[" /\ class.end # 0 THEN Char(class.of, class.end + 1)
  ELSE Char({text[n]}, n + 1)

LocalItems(text) == OneByOne([n \in 1 .. Len(text) |-> LocalPiece(text, n)])

-----------------------------------------------------------------------------
(* Redis *)

Sorted(a, b) == IF Code(a) <= Code(b) THEN FromTo(a, b) ELSE FromTo(b, a)

\* A class with more members.
More(set, class) == [end |-> class.end, of |-> set \cup class.of]

\* The class whose members begin at first; it may end with the text.
RedisMembers(text, first) ==
  LET class[n \in first .. Len(text) + 3] ==
        IF n > Len(text) THEN [end |-> Len(text), of |-> {}]
        ELSE IF n < Len(text) /\ text[n] = "\\" THEN More({text[n + 1]}, class[n + 2])
        ELSE IF text[n] = "]" THEN [end |-> n, of |-> {}]
        ELSE IF n + 2 <= Len(text) /\ text[n + 1] = "-"
               THEN More(Sorted(text[n], text[n + 2]), class[n + 3])
        ELSE More({text[n]}, class[n + 1])
  IN class[first]

RedisClass(text, n) ==
  IF n < Len(text) /\ text[n + 1] = "^"
    THEN [RedisMembers(text, n + 2) EXCEPT !.of = Chars \ @]
    ELSE RedisMembers(text, n + 1)

\* SCAN's MATCH at one place.
RedisPiece(text, n) ==
  LET class == RedisClass(text, n) IN
  IF n < Len(text) /\ text[n] = "\\" THEN Char({text[n + 1]}, n + 2)
  ELSE IF text[n] = "*" THEN Star(n + 1)
  ELSE IF text[n] = "?" THEN Char(Chars, n + 1)
  ELSE IF text[n] = "[" THEN Char(class.of, class.end + 1)
  ELSE Char({text[n]}, n + 1)

RedisItems(text) == OneByOne([n \in 1 .. Len(text) |-> RedisPiece(text, n)])

Metacharacters_Slip == {"*", "?", "[", "]"}

\* What escapeGlobMeta escapes.
Metacharacters == {"*", "?", "[", "]", "\\"}

\* escapeGlobMeta
Escaped(text) ==
  FlattenSeq([n \in DOMAIN text |->
                IF text[n] \in Metacharacters THEN <<"\\", text[n]>> ELSE <<text[n]>>])

\* RedisStore.scanPattern
ScanPattern(keyPrefix, pattern) == Escaped(keyPrefix) \o pattern

\* What the caller of DeletePattern passes.
Text == FlattenSeq([n \in DOMAIN glob |-> glob[n].text])

-----------------------------------------------------------------------------
(* Properties *)

\* The local levels match the keys the author of the glob means, and so does Redis
\* when there is no key prefix.
LevelsMatchMeaning ==
  prefix = <<>> =>
    LET local == LocalItems(Text)
        remote == RedisItems(ScanPattern(prefix, Text))
    IN \A key \in Strings : /\ Matches(local, key) <=> Matches(glob, key)
                            /\ Matches(remote, key) <=> Matches(glob, key)

\* With a prefix Redis matches the keys that begin with it and go on as the glob
\* says, and no key of another prefix: whatever characters WithKeyPrefix is
\* given, DeletePattern deletes nothing outside of its namespace.
PrefixIsLiteral ==
  LET with == RedisItems(ScanPattern(prefix, Text))
      without == RedisItems(ScanPattern(<<>>, Text))
  IN \A key \in Strings :
       Matches(with, key)
         <=> /\ IsPrefix(prefix, key)
             /\ Matches(without, SubSeq(key, Len(prefix) + 1, Len(key)))
=============================================================================
