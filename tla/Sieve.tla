-------------------------------- MODULE Sieve --------------------------------
(*****************************************************************************)
(* sieve/: which event, if any, is made of a record of a system log.  A text *)
(* is what the patterns see of it: where each substring occurs first         *)
(* (0: nowhere) and what each regular expression captures; and whether it is *)
(* so long that a line that quotes it exceeds max_record_size.               *)
(*****************************************************************************)
EXTENDS Naturals

CONSTANTS Parsers,   \* the EventParserSpecs of the configuration
          Text,      \* the texts that are logged
          All,       \* the group "__all__"
          Empty,     \* the substring ""
          GroupSize  \* most parsers in one group

\* What FindStringSubmatch may return: nil, or captures whose first one is JSON with the
\* fields of a TimelineEvent, JSON with fields of other types, or nothing the handler of
\* the parser can use (a record cut at max_record_size, say).
Captures == {"nil", "fit", "mistyped", "useless"}

\* parser.tree[g].  A group without parsers finds no more than a missing one does.
Tree(g) == {p \in Parsers : p.group = g}

Substring == {p.substring : p \in Parsers}
Regexp == {p.re : p \in Parsers}

\* MustAdd ends the process when a substring is used twice in a group.
ASSUME Buildable ==
  \A p, q \in Parsers : p.group = q.group /\ p.substring = q.substring => p = q
ASSUME TextFitsParsers ==
  \A t \in Text :
    t \in [at : [Substring -> Nat], re : [Regexp -> Captures], long : BOOLEAN]
ASSUME EmptyIsFirst == Empty \in Substring => \A t \in Text : t.at[Empty] = 1
ASSUME GroupSizeIsNat == GroupSize \in Nat

-----------------------------------------------------------------------------
\* match.go.

\* The orders in which Build, ranging over a map, may join the substrings of a group.
Order ==
  {o \in [Parsers -> 1..GroupSize] :
     \A p, q \in Parsers : p.group = q.group /\ o[p] = o[q] => p = q}

Occurring(g, t) == {p \in Tree(g) : t.at[p.substring] > 0}
Leftmost(g, t) ==
  LET there == Occurring(g, t)
  IN  {p \in there : \A q \in there : t.at[p.substring] <= t.at[q.substring]}

\* Mutant: of the substrings that occur, the first one in the order of the expression.
FindStringAnywhere(g, o, t) ==
  {p \in Occurring(g, t) : \A q \in Occurring(g, t) : o[p] <= o[q]}

\* FindString on s1|s2|...: the leftmost substring, the first alternative if several
\* start there.  A set of one parser, or of none.
FindString(g, o, t) ==
  LET leftmost == Leftmost(g, t)
  IN  {p \in leftmost : \A q \in leftmost : o[p] <= o[q]}

\* Mutant: the substring is taken for a match.
MatchSubstring(g, o, t) == {p \in FindString(g, o, t) : p.substring # Empty}

\* The parser whose substring was found, if its expression matches: no other one is tried.
Match(g, o, t) ==
  {p \in FindString(g, o, t) : p.substring # Empty /\ t.re[p.re] # "nil"}

-----------------------------------------------------------------------------
\* handler.go and parser.go.

\* ToEventParser leaves Handler nil for a type it does not know.
Handler(p) ==
  CASE p.handlertype \in {"", "simple"} -> "simple"
    [] p.handlertype = "json" -> "json"
    [] OTHER -> "nil"

Nothing == [kind |-> "none"]
Error   == [kind |-> "error"]
Panic   == [kind |-> "panic"]
Event(type, process, info) ==
  [kind |-> "event", type |-> type, process |-> process, info |-> info]

\* A format may refer to a group the expression does not have; results[1] may not exist.
HandleEvent(p, process, t) ==
  CASE Handler(p) = "simple" ->
         IF p.refs <= p.groups THEN Event(p.type, process, "nil") ELSE Error
    [] Handler(p) = "json" ->
         IF p.groups < 1 THEN Panic
         ELSE IF t.re[p.re] = "useless" THEN Error
         ELSE Event(p.type, process, t.re[p.re])
    [] OTHER -> Panic

\* Mutant: the star group is only for processes that have no group.
ParseNoFallback(o, process, t) ==
  LET found == IF Tree(process) # {} THEN Match(process, o, t) ELSE Match(All, o, t)
  IN  IF found = {} THEN Nothing ELSE HandleEvent(CHOOSE p \in found : TRUE, process, t)

\* Parse and parseStarGroup.
Parse(o, process, t) ==
  LET own == Match(process, o, t)
      found == IF own # {} THEN own ELSE Match(All, o, t)
  IN  IF found = {} THEN Nothing ELSE HandleEvent(CHOOSE p \in found : TRUE, process, t)

-----------------------------------------------------------------------------
\* What parsing is to do, without positions and orders.

\* Substring and expression of p are in the text.
Describes(p, t) == p.substring # Empty /\ t.at[p.substring] > 0 /\ t.re[p.re] # "nil"
\* "substring unique to this log record" (parser.go): no other parser of the group has
\* its substring in the text.
Unique(p, t) == Occurring(p.group, t) = {p}

\* The event is one that a parser of the process's group or of the star group describes;
\* a parser of its group with a unique substring has it its way, and one of the star
\* group has when no substring of its group is there.
Reference(process, t, outcome) ==
  /\ outcome # Nothing =>
       \E p \in Tree(process) \cup Tree(All) :
         Describes(p, t) /\ outcome = HandleEvent(p, process, t)
  /\ \A p \in Tree(process) :
       Describes(p, t) /\ Unique(p, t) => outcome = HandleEvent(p, process, t)
  /\ \A p \in Tree(All) :
       Describes(p, t) /\ Unique(p, t) /\ Occurring(process, t) = {}
         => outcome = HandleEvent(p, process, t)

\* No two substrings of the group begin at the same place, the leftmost one.
NoTie(g, t) == \A p, q \in Leftmost(g, t) : p = q
===============================================================================
