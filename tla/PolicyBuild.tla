----------------------------- MODULE PolicyBuild ----------------------------
(***************************************************************************)
(* bin/zk-policy-build.rs: an EgressPolicy drafted from an audit log.      *)
(*                                                                         *)
(* An entry's url is kept as what it was formatted from: host and port for *)
(* a CONNECT, host followed by path for any other request.                 *)
(***************************************************************************)
EXTENDS RuleEngine, FiniteSets

CONSTANTS
    Concat,       \* Concat[<<s, t>>]: the text s followed by the text t
    AfterScheme,  \* AfterScheme[s]: the host after the first "://" in s, NoHost without one
    NoHost

ASSUME UrlAssumption ==
    /\ Concat \in [Str \X Str -> Str]
    /\ AfterScheme \in [Str -> Str \cup {NoHost}]
    /\ NoHost \notin Str

\* The host of a logged url: what comes before a port, or up to the first
\* slash, after anything that looks like a scheme, wherever it is.
host_from_url(e) ==
    IF e.phase = "connect" THEN e.host
    ELSE IF AfterScheme[e.path] # NoHost THEN AfterScheme[e.path]
    ELSE IF <<e.path, "/">> \in StartsWith THEN e.host
    ELSE Concat[<<e.host, e.path>>]

\* by_host: only the entries that were allowed seed rules.
Allowed(log) == {log[i] : i \in {j \in DOMAIN log : log[j].decision = "Allow"}}

\* Mutant: the hosts as they were spelt.
HostsAsSpelt(log) == {host_from_url(e) : e \in Allowed(log)} \ {""}

hosts_seen(log) == {Lower[host_from_url(e)] : e \in Allowed(log)} \ {""}
methods_seen(log, h) == {e.method : e \in {x \in Allowed(log) : Lower[host_from_url(x)] = h}}

\* Any order of the hosts: the code's is that of a BTreeMap.
Listing(S) == CHOOSE s \in [1..Cardinality(S) -> S] : \A x \in S : \E i \in DOMAIN s : s[i] = x

rule_for(log, h) ==
    [id |-> h, host |-> [kind |-> "exact", value |-> h], methods |-> methods_seen(log, h),
     path |-> [kind |-> "any", value |-> h], action |-> "Allow"]

build_policy(log) ==
    LET hosts == Listing(hosts_seen(log))
    IN  [default_action |-> "Deny", block_private_networks |-> TRUE, judge |-> FALSE, fallback |-> "Deny",
         rules |-> [i \in DOMAIN hosts |-> rule_for(log, hosts[i])]]
=============================================================================
