-------------------------------- MODULE Slugs --------------------------------
(***************************************************************************)
(* The slug of a problem: what GenerateSlug makes of a title, and the numbered *)
(* slugs that CreateProblem goes on to.  Strings are sequences of characters;  *)
(* two letters in both cases stand for the alphabet, and a title may have any  *)
(* other characters.                                                         *)
(***************************************************************************)
EXTENDS Naturals, Sequences, FiniteSets, Functions

Lower == [A |-> "a", B |-> "b"]
Alphanumeric == {"a", "b", "0", "1", "2", "3", "4", "5", "6", "7", "8", "9"}
Separators == {" ", "_"}

ToLower(c) == IF c \in DOMAIN Lower THEN Lower[c] ELSE c
ReplaceAll(c) == IF c \in Separators THEN "-" ELSE c

\* The elements of s at the positions in P, in their order.
Place(n, P) == CHOOSE i \in P : Cardinality(P \cap 1 .. i) = n
Pick(s, P) == [n \in 1 .. Cardinality(P) |-> s[Place(n, P)]]

Keep(s, S) == Pick(s, {i \in DOMAIN s : s[i] \in S})

\* A hyphen after a hyphen is dropped.
Squeeze(s) == Pick(s, {i \in DOMAIN s : i = 1 \/ s[i] # "-" \/ s[i - 1] # "-"})
TrimLeft(s) == IF s # <<>> /\ Head(s) = "-" THEN Tail(s) ELSE s
TrimRight(s) == IF s # <<>> /\ s[Len(s)] = "-" THEN SubSeq(s, 1, Len(s) - 1) ELSE s

\* Mutant: squeezed before the other characters are removed.
GenerateSlugEarly(title) ==
    LET hyphenated == [i \in DOMAIN title |-> ReplaceAll(ToLower(title[i]))]
    IN  TrimRight(TrimLeft(Keep(Squeeze(hyphenated), Alphanumeric \cup {"-"})))

GenerateSlug(title) ==
    LET hyphenated == [i \in DOMAIN title |-> ReplaceAll(ToLower(title[i]))]
    IN  TrimRight(TrimLeft(Squeeze(Keep(hyphenated, Alphanumeric \cup {"-"}))))

\* The digits of a number below 100, as %d writes them.
Digit == <<"0", "1", "2", "3", "4", "5", "6", "7", "8", "9">>
Decimal(i) == IF i < 10 THEN <<Digit[i + 1]>> ELSE <<Digit[(i \div 10) + 1], Digit[(i % 10) + 1]>>
NumberedSlug(base, i) == base \o <<"-">> \o Decimal(i)
-----------------------------------------------------------------------------
(* What they promise.                                                       *)

\* The letters and digits of a string, and whether a separator stands between
\* the n-th of them and the next.
Letters(s) == {i \in DOMAIN s : s[i] \in Alphanumeric \cup DOMAIN Lower}
Letter(s, n) == Place(n, Letters(s))
Gap(title, n) ==
    \E i \in Letter(title, n) .. Letter(title, n + 1) : title[i] \in Separators \cup {"-"}

\* What the comments of GenerateSlug say it computes: the letters and digits in
\* lower case, one hyphen exactly where the title has a separator between two of
\* them, none at the ends.
IsSlugOf(slug, title) ==
    LET count == Cardinality(Letters(title)) IN
    /\ Range(slug) \subseteq Alphanumeric \cup {"-"}
    /\ Cardinality(Letters(slug)) = count
    /\ \A n \in 1 .. count : slug[Letter(slug, n)] = ToLower(title[Letter(title, n)])
    /\ \A n \in 1 .. count - 1 :
          Letter(slug, n + 1) - Letter(slug, n) = IF Gap(title, n) THEN 2 ELSE 1
    /\ Len(slug) = IF count = 0 THEN 0 ELSE Letter(slug, count) - Letter(slug, 1) + 1

\* A title has the slug that the comments say, and a slug is its own slug.
HasSlug(title) ==
    LET slug == GenerateSlug(title) IN
    IsSlugOf(slug, title) /\ GenerateSlug(slug) = slug
=============================================================================
