------------------------------- MODULE MCGlob -------------------------------
(***************************************************************************)
(* An instance of Glob for TLC: all globs of a few tokens under all        *)
(* prefixes of a few characters, one longer than the other from step to    *)
(* step.                                                                   *)
(***************************************************************************)
EXTENDS Glob

CONSTANTS
  MaxPrefix,  \* bound: the length of the prefix
  MaxTokens,  \* bound: the tokens of a glob
  MaxKey      \* bound: the length of the keys compared

SomeAlphabet == <<"*", "-", "?", "[", "\\", "]", "^", "a", "b", "c">>

SomePrefixChars == {"*", "?", "[", "]", "\\", "a"}

T(text, set) == [text |-> text, star |-> FALSE, of |-> set]

\* Characters, escapes, wildcards, and classes with a range, a negation, a
\* hyphen at the end, metacharacters and an escaped bracket.
SomeTokens ==
  {[text |-> <<"*">>, star |-> TRUE, of |-> {}],
   T(<<"?">>, Chars), T(<<"a">>, {"a"}), T(<<"-">>, {"-"}), T(<<"]">>, {"]"}),
   T(<<"\\", "*">>, {"*"}), T(<<"\\", "\\">>, {"\\"}), T(<<"\\", "a">>, {"a"}),
   T(<<"[", "a", "-", "c", "]">>, {"a", "b", "c"}),
   T(<<"[", "^", "a", "b", "]">>, Chars \ {"a", "b"}),
   T(<<"[", "*", "-", "-", "\\", "]", "]">>, {"*", "-", "]"}),
   T(<<"[", "[", "a", "]">>, {"[", "a"})}

SomeStrings == UNION {[1 .. n -> Chars] : n \in 0 .. MaxKey}

Init == prefix = <<>> /\ glob = <<>>

LengthenPrefix ==
  /\ Len(prefix) < MaxPrefix
  /\ \E c \in PrefixChars : prefix' = Append(prefix, c)
  /\ glob' = glob

LengthenGlob ==
  /\ Len(glob) < MaxTokens
  /\ \E t \in Tokens : glob' = Append(glob, t)
  /\ prefix' = prefix

Next == LengthenPrefix \/ LengthenGlob

Spec == Init /\ [][Next]_<<prefix, glob>>
=============================================================================
