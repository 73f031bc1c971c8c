----------------------------- MODULE SieveProofs -----------------------------
(****************************************************************************)
(* What Parse returns for any configuration that can be built, any text and *)
(* any order of building: it meets Reference, and the order does not matter *)
(* where no two substrings begin at the same place.                         *)
(****************************************************************************)
EXTENDS Sieve, TLAPS

\* What the proofs need of a text.
IsText(t) == \A p \in Parsers : t.at[p.substring] \in Nat

-----------------------------------------------------------------------------
\* FindString returns at most one parser: an order is injective on a group.
LEMMA FoundIsOne ==
  ASSUME NEW g, NEW o \in Order, NEW t, NEW p \in FindString(g, o, t),
         NEW q \in FindString(g, o, t)
  PROVE  p = q
<1>1. /\ p \in Parsers /\ q \in Parsers /\ p.group = q.group
      /\ o[p] <= o[q] /\ o[q] <= o[p]
  BY DEF FindString, Leftmost, Occurring, Tree
<1>2. o[p] \in 1..GroupSize /\ o[q] \in 1..GroupSize
  BY <1>1 DEF Order
<1>3. o[p] = o[q]
  BY <1>1, <1>2, GroupSizeIsNat
<1> QED
  BY <1>1, <1>3 DEF Order

\* A match is described by the text, and is the only one of its group.
LEMMA MatchDescribes ==
  ASSUME NEW g, NEW o \in Order, NEW t, NEW p \in Match(g, o, t)
  PROVE  p \in Tree(g) /\ Describes(p, t) /\ Match(g, o, t) = {p}
<1>1. p \in Tree(g) /\ Describes(p, t)
  BY DEF Match, FindString, Leftmost, Occurring, Describes
<1>2. \A q \in Match(g, o, t) : q = p
  BY FoundIsOne DEF Match
<1> QED
  BY <1>1, <1>2

\* A parser whose substring is the only one of its group in the text, and whose
\* expression matches, is the match.
LEMMA UniqueMatches ==
  ASSUME NEW o \in Order, NEW t, IsText(t), NEW p \in Parsers,
         Describes(p, t), Unique(p, t)
  PROVE  Match(p.group, o, t) = {p}
<1>1. Leftmost(p.group, t) = {p}
  BY DEF Leftmost, Unique, IsText
<1>2. o[p] <= o[p]
  BY GroupSizeIsNat DEF Order
<1>3. FindString(p.group, o, t) = {p}
  BY <1>1, <1>2 DEF FindString
<1> QED
  BY <1>3 DEF Match, Describes

\* The three ways of Parse.
LEMMA ParseCases ==
  ASSUME NEW o \in Order, NEW n, NEW t
  PROVE  /\ \A p \in Match(n, o, t) : Parse(o, n, t) = HandleEvent(p, n, t)
         /\ Match(n, o, t) = {} =>
              \A p \in Match(All, o, t) : Parse(o, n, t) = HandleEvent(p, n, t)
         /\ Match(n, o, t) = {} /\ Match(All, o, t) = {} => Parse(o, n, t) = Nothing
<1>1. ASSUME NEW p \in Match(n, o, t)
      PROVE  Parse(o, n, t) = HandleEvent(p, n, t)
  <2>1. Match(n, o, t) = {p}
    BY MatchDescribes
  <2>2. (CHOOSE q \in Match(n, o, t) : TRUE) = p
    BY <2>1
  <2> QED
    BY <2>1, <2>2 DEF Parse
<1>2. ASSUME Match(n, o, t) = {}, NEW p \in Match(All, o, t)
      PROVE  Parse(o, n, t) = HandleEvent(p, n, t)
  <2>1. Match(All, o, t) = {p}
    BY MatchDescribes
  <2>2. (CHOOSE q \in Match(All, o, t) : TRUE) = p
    BY <2>1
  <2> QED
    BY <1>2, <2>1, <2>2 DEF Parse
<1> QED
  BY <1>1, <1>2 DEF Parse

\* Parse returns what the patterns in the text say (Reference), whatever order the
\* parser was built in.
THEOREM ParseIsRight ==
  ASSUME NEW o \in Order, NEW n, NEW t, IsText(t)
  PROVE  Reference(n, t, Parse(o, n, t))
<1>1. Parse(o, n, t) # Nothing =>
        \E p \in Tree(n) \cup Tree(All) :
          Describes(p, t) /\ Parse(o, n, t) = HandleEvent(p, n, t)
  <2> SUFFICES ASSUME Parse(o, n, t) # Nothing
               PROVE  \E p \in Tree(n) \cup Tree(All) :
                        Describes(p, t) /\ Parse(o, n, t) = HandleEvent(p, n, t)
    OBVIOUS
  <2>1. CASE Match(n, o, t) # {}
    BY <2>1, ParseCases, MatchDescribes
  <2>2. CASE Match(n, o, t) = {}
    <3>1. PICK p \in Match(All, o, t) : TRUE
      BY <2>2, ParseCases
    <3> QED
      BY <2>2, <3>1, ParseCases, MatchDescribes
  <2> QED
    BY <2>1, <2>2
<1>2. ASSUME NEW p \in Tree(n), Describes(p, t), Unique(p, t)
      PROVE  Parse(o, n, t) = HandleEvent(p, n, t)
  <2>1. p \in Parsers /\ p.group = n
    BY DEF Tree
  <2>2. Match(n, o, t) = {p}
    BY <1>2, <2>1, UniqueMatches
  <2> QED
    BY <2>2, ParseCases
<1>3. ASSUME NEW p \in Tree(All), Describes(p, t), Unique(p, t), Occurring(n, t) = {}
      PROVE  Parse(o, n, t) = HandleEvent(p, n, t)
  <2>1. p \in Parsers /\ p.group = All
    BY DEF Tree
  <2>2. Match(All, o, t) = {p}
    BY <1>3, <2>1, UniqueMatches
  <2>3. Match(n, o, t) = {}
    BY <1>3 DEF Match, FindString, Leftmost
  <2> QED
    BY <2>2, <2>3, ParseCases
<1> QED
  BY <1>1, <1>2, <1>3 DEF Reference

\* Two orders of building agree on a text in which no two substrings of a group are
\* leftmost together.
THEOREM OrderDoesNotMatter ==
  ASSUME NEW o1 \in Order, NEW o2 \in Order, NEW n, NEW t, NoTie(n, t), NoTie(All, t)
  PROVE  Parse(o1, n, t) = Parse(o2, n, t)
<1>1. ASSUME NEW g, NEW o \in Order, NoTie(g, t)
      PROVE  FindString(g, o, t) = Leftmost(g, t)
  <2>1. ASSUME NEW p \in Leftmost(g, t)
        PROVE  o[p] <= o[p]
    <3>1. p \in Parsers
      BY DEF Leftmost, Occurring, Tree
    <3> QED
      BY <3>1, GroupSizeIsNat DEF Order
  <2> QED
    BY <1>1, <2>1 DEF NoTie, FindString
<1>2. /\ FindString(n, o1, t) = FindString(n, o2, t)
      /\ FindString(All, o1, t) = FindString(All, o2, t)
  BY <1>1
<1>3. Match(n, o1, t) = Match(n, o2, t) /\ Match(All, o1, t) = Match(All, o2, t)
  BY <1>2 DEF Match
<1> QED
  BY <1>3 DEF Parse
===============================================================================
