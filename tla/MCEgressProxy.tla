--------------------------- MODULE MCEgressProxy ----------------------------
(* An instance of EgressProxy: one host in two spellings, a second host. *)
EXTENDS EgressProxy

CONSTANTS c1, c2

MCStr == {"a.io", "A.io", "b.io", ".io", "/", "/x", "*.io"}
MCLower == [s \in MCStr |-> IF s = "A.io" THEN "a.io" ELSE s]
MCEndsWith == {"a.io", "b.io", ".io"} \X {".io"}
MCStartsWith == {<<"/", "/">>, <<"/x", "/">>, <<"/x", "/x">>}
MCGlobHit == {"a.io", "b.io"} \X {"*.io"}
MCConcat == [x \in MCStr \X MCStr |-> "*.io"]
MCAfterScheme == [s \in MCStr |-> NoHost]

v4(a, b, c, d) == [v |-> 4, o |-> <<a, b, c, d>>]
\* The first address after 172.16/12, and the last of four blocked networks.
MCAddr == {v4(172, 32, 0, 0), v4(172, 31, 255, 255), v4(100, 127, 255, 255),
           [v |-> 6, o |-> <<65215, 0, 0, 0, 0, 0, 0, 1>>],
           [v |-> 6, o |-> <<0, 0, 0, 0, 0, 65535, 32767, 65535>>]}

head(m, h, p) == [method |-> m, host |-> h, path |-> p]
MCInner == {head("GET", "b.io", "/"), head("GET", "a.io", "/x")}
MCHead == {head("other", "b.io", "/x")} \cup {head("CONNECT", h, "/") : h \in {"a.io", "A.io"}}

rule(kind, value, methods, path, act) ==
    [id |-> value, host |-> [kind |-> kind, value |-> value], methods |-> methods,
     path |-> path, action |-> act]
AnyPath == [kind |-> "any", value |-> "/"]
UnderX == [kind |-> "prefix", value |-> "/x"]
pol(rules, default, judge, fallback, block) ==
    [default_action |-> default, rules |-> rules, judge |-> judge, fallback |-> fallback,
     block_private_networks |-> block]

MCPolicies ==
    { pol(<<rule("exact", "A.io", Method, AnyPath, "Allow")>>, "Deny", FALSE, "Deny", TRUE),
      pol(<<rule("suffix", ".io", Method, UnderX, "Deny"), rule("glob", "*.io", {"CONNECT"}, AnyPath, "Allow")>>,
          "Judge", TRUE, "Deny", TRUE),
      pol(<<rule("exact", "b.io", {"GET"}, UnderX, "Allow")>>, "Deny", FALSE, "Deny", FALSE) }

\* A policy that leaves everything to a judge and configures none.
UnjudgedPolicies == {pol(<<>>, "Judge", FALSE, "Deny", TRUE)}
=============================================================================
