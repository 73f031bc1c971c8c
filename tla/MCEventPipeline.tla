--------------------------- MODULE MCEventPipeline ---------------------------
(*****************************************************************************)
(* A configuration in the manner of etc/sieve.yml: the star group has the    *)
(* warning and the timeline event, the group of dea two parsers one of whose *)
(* substrings is a prefix of the other's and whose handler type is misspelt. *)
(*****************************************************************************)
EXTENDS EventPipeline

Parser(group, type, substring, groups, refs, handlertype) ==
  [group |-> group, type |-> type, substring |-> substring, re |-> type,
   groups |-> groups, refs |-> refs, handlertype |-> handlertype]

MCParsers ==
  {Parser("__all__", "warning", "WARN", 2, 1, ""),
   Parser("__all__", "timeline", "TIMELINE", 2, 0, "json"),
   Parser("dea", "start", "app", 1, 1, "simple"),
   Parser("dea", "start_failed", "app failed", 1, 1, "jsn")}

Regexps == {p.re : p \in MCParsers}

\* A text by the places of WARN, TIMELINE, "app" and "app failed" and by what the
\* expressions that match it capture.
T(w, tl, a, af, re, long) ==
  [at |-> [s \in {p.substring : p \in MCParsers} |->
             CASE s = "WARN" -> w [] s = "TIMELINE" -> tl [] s = "app" -> a [] OTHER -> af],
   re |-> [r \in Regexps |-> IF r \in DOMAIN re THEN re[r] ELSE "nil"],
   long |-> long]

MCText ==
  {T(2, 1, 0, 0, [timeline |-> "fit", warning |-> "fit"], FALSE),
   T(0, 1, 0, 0, [timeline |-> "mistyped"], FALSE),
   T(0, 1, 0, 0, [timeline |-> "useless"], FALSE),
   T(0, 1, 0, 0, [timeline |-> "useless"], TRUE),
   T(0, 2, 1, 0, [timeline |-> "fit"], FALSE),
   T(0, 0, 1, 1, [start_failed |-> "fit"], FALSE),
   T(0, 0, 0, 0, <<>>, FALSE)}
===============================================================================
