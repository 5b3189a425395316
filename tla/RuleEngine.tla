----------------------------- MODULE RuleEngine -----------------------------
(***************************************************************************)
(* egress/rules.rs and the policy types of egress/types.rs: compiling an   *)
(* EgressPolicy and evaluating one request against it.                     *)
(*                                                                         *)
(* Host names, paths and patterns are members of Str.  What the standard   *)
(* library and globset say of two strings is given by relations, so that   *)
(* what holds here holds for every such reading.                           *)
(***************************************************************************)
EXTENDS Naturals, Sequences

CONSTANTS
    Str,         \* host names, paths and patterns
    Lower,       \* to_ascii_lowercase, as a function on Str
    EndsWith,    \* the pairs <<s, t>> such that s.ends_with(t)
    StartsWith,  \* the pairs <<s, t>> such that s.starts_with(t)
    GlobHit,     \* the pairs <<s, g>> such that glob g matches s
    BadGlob      \* the patterns globset rejects

ASSUME StrAssumption ==
    /\ Lower \in [Str -> Str]
    /\ \A s \in Str : Lower[Lower[s]] = Lower[s]

Action == {"Allow", "Deny", "Judge"}
Method == {"GET", "POST", "PUT", "DELETE", "PATCH", "HEAD", "OPTIONS", "CONNECT", "TRACE"}

\* Method::parse of a word on the request line, with the proxy's
\* unwrap_or(Method::Get) for a word it does not know.
parse_method(w) == IF w \in Method THEN w ELSE "GET"

\* A rule.  The code's None for the methods or the path matches everything:
\* here the full set, and the kind "any".
HostMatch == [kind : {"exact", "suffix", "glob"}, value : Str]
PathMatch == [kind : {"any", "exact", "prefix", "glob"}, value : Str]
Rule == [id : Str, host : HostMatch, methods : SUBSET Method, path : PathMatch, action : Action]
Request == [method : Method, host : Str, path : Str]
-----------------------------------------------------------------------------
host_matches(m, host) ==
    \/ m.kind = "exact" /\ Lower[host] = m.value
    \/ m.kind = "suffix" /\ <<Lower[host], m.value>> \in EndsWith
    \/ m.kind = "glob" /\ <<Lower[host], m.value>> \in GlobHit

path_matches(m, path) ==
    \/ m.kind = "any"
    \/ m.kind = "exact" /\ path = m.value
    \/ m.kind = "prefix" /\ <<path, m.value>> \in StartsWith
    \/ m.kind = "glob" /\ <<path, m.value>> \in GlobHit

rule_matches(r, q) ==
    /\ host_matches(r.host, q.host)
    /\ q.method \in r.methods
    /\ path_matches(r.path, q.path)

\* The patterns of hosts are compared in lower case, those of paths as they are.
compile_rule(r) == [r EXCEPT !.host = [kind |-> r.host.kind, value |-> Lower[r.host.value]]]

RuleCompiles(r) ==
    /\ r.host.kind = "glob" => Lower[r.host.value] \notin BadGlob
    /\ r.path.kind = "glob" => r.path.value \notin BadGlob

\* One pattern that does not compile fails the whole policy.
Compiles(p) == \A i \in DOMAIN p.rules : RuleCompiles(p.rules[i])

compile(p) == [p EXCEPT !.rules = [i \in DOMAIN p.rules |-> compile_rule(p.rules[i])]]

\* The first rule that matches decides, the default action if none does.
evaluate(p, q) ==
    LET hits == {i \in DOMAIN p.rules : rule_matches(p.rules[i], q)}
        first == CHOOSE i \in hits : \A j \in hits : i <= j
    IN  IF hits = {} THEN p.default_action ELSE p.rules[first].action
=============================================================================
