----------------------------- MODULE EgressProxy ----------------------------
(***************************************************************************)
(* egress/proxy.rs with the leaf cache of egress/ca.rs: the proxy of one   *)
(* capsule.  Every connection is a task of its own; a step below is what   *)
(* such a task does between two awaits, or between two accesses to shared  *)
(* state.  The capsule's handle drains the audit log and then stops the    *)
(* accept loop; the tasks go on.                                           *)
(***************************************************************************)
EXTENDS PolicyBuild, SsrfGuard

CONSTANTS
    Conn,      \* connections the worker may open
    Addr,      \* addresses the resolver may answer with
    FirstHead, \* request heads a client may send to the proxy
    Inner,     \* request heads it may send inside a tunnel
    Policies,  \* the EgressPolicies a capsule may be created with
    None       \* no address, no leaf, no request

Policy == [default_action : Action, rules : Seq(Rule), judge : BOOLEAN, fallback : Action,
           block_private_networks : BOOLEAN]

ASSUME ProxyAssumption ==
    /\ FirstHead \subseteq [method : Method \cup {"other"}, host : Str, path : Str]
    /\ Inner \subseteq [method : Method \cup {"other"}, host : Str, path : Str]
    /\ Policies \subseteq Policy
    /\ Addr \subseteq V4 \cup V6
    /\ None \notin FirstHead /\ None \notin Inner /\ None \notin Addr /\ None \notin Action
    /\ None \notin [host : Str, by : Conn]
    /\ "/" \in Str

VARIABLES
    policy,   \* ProxyState: the compiled policy with its default action and judge
    handle,   \* ProxyHandle: "open", or "closed" by destroy
    pc,       \* pc[c]: where the task of connection c is
    req,      \* req[c]: the head read from the client
    inner,    \* inner[c]: the head read inside the tunnel
    ip,       \* ip[c]: the address the host was resolved to
    action,   \* action[c]: the latest decision on c
    leaf,     \* leaf[c]: the certificate shown to the client, by host and by who made it
    cache,    \* leaf_cache, by host name
    up,       \* up[c]: the address of the upstream connection
    sent,     \* sent[c]: part of a request head may have reached the upstream
    audit,    \* every decision sent to the audit channel, in order
    report    \* the decisions drained by destroy

conns == <<pc, req, inner, ip, action, leaf, cache, up, sent>>
vars == <<policy, handle, conns, audit, report>>

Leaf == [host : Str, by : Conn]
Entry == [conn : Conn, phase : {"plain", "connect", "inner"}, method : Method,
          host : Str, path : Str, decision : {"Allow", "Deny"}]

Places == {"idle", "head", "resolve", "judge", "refuse", "tunnel", "leaf", "generate", "handshake",
           "inner", "connect", "tls", "forward", "log", "copy", "done"}

\* Types of the variables.
TypeOK ==
    /\ policy \in Policy
    /\ handle \in {"open", "closed"}
    /\ pc \in [Conn -> Places]
    /\ req \in [Conn -> FirstHead \cup {None}]
    /\ inner \in [Conn -> Inner \cup {None}]
    /\ ip \in [Conn -> Addr \cup {None}]
    /\ action \in [Conn -> Action \cup {None}]
    /\ leaf \in [Conn -> Leaf \cup {None}]
    /\ cache \in [Str -> Leaf \cup {None}]
    /\ up \in [Conn -> Addr \cup {None}]
    /\ sent \in [Conn -> BOOLEAN]
    /\ audit \in Seq(Entry)
    /\ report \in Seq(Entry)

\* spawn_on, with a policy that compiled: nothing is created for one that does not.
Init ==
    /\ policy \in {compile(p) : p \in {q \in Policies : Compiles(q)}}
    /\ handle = "open"
    /\ pc = [c \in Conn |-> "idle"]
    /\ req = [c \in Conn |-> None]
    /\ inner = [c \in Conn |-> None]
    /\ ip = [c \in Conn |-> None]
    /\ action = [c \in Conn |-> None]
    /\ leaf = [c \in Conn |-> None]
    /\ cache = [s \in Str |-> None]
    /\ up = [c \in Conn |-> None]
    /\ sent = [c \in Conn |-> FALSE]
    /\ audit = <<>>
    /\ report = <<>>
-----------------------------------------------------------------------------
IsConnect(c) == req[c].method = "CONNECT"
Phase(c) == IF ~IsConnect(c) THEN "plain" ELSE IF inner[c] = None THEN "connect" ELSE "inner"

\* The request that is evaluated: the host is always that of the first head,
\* the inner Host header is not looked at; the path of a CONNECT is "/".
RequestIn(c, h) ==
    [method |-> parse_method(h.method), host |-> req[c].host,
     path |-> IF h.method = "CONNECT" THEN "/" ELSE h.path]
Current(c) == RequestIn(c, IF inner[c] = None THEN req[c] ELSE inner[c])

log_decision(c, decision) ==
    audit' = Append(audit, [conn |-> c, phase |-> Phase(c), method |-> Current(c).method,
                            host |-> req[c].host, path |-> Current(c).path, decision |-> decision])

\* What JudgeClient::decide may return: the answers parse_judge_outcome
\* accepts, or the fallback.
judge_outcomes == {"Allow", "Deny", policy.fallback}

\* resolve_judge up to the call of the judge: None if it has to be asked.
Decided(a) == IF a # "Judge" THEN a ELSE IF policy.judge THEN None ELSE policy.default_action

\* Where a task goes with a decision; only Deny is refused.
After(c, a) ==
    IF a = None THEN "judge"
    ELSE IF a = "Deny" THEN "refuse"
    ELSE IF Phase(c) = "connect" THEN "tunnel" ELSE "connect"

Goto(c, place) == pc' = [pc EXCEPT ![c] = place]
-----------------------------------------------------------------------------
(***************************************************************************)
(* The accept loop of spawn_on.  It ends on an error of accept and on the  *)
(* signal of shutdown, after which select! may still take a connection     *)
(* that waits: a loop that has ended is a behaviour with no more Accept.   *)
(***************************************************************************)
Accept(c) ==
    /\ pc[c] = "idle"
    /\ Goto(c, "head")
    /\ UNCHANGED <<policy, handle, req, inner, ip, action, leaf, cache, up, sent, audit, report>>
-----------------------------------------------------------------------------
(* handle_connection, and the first decision: resolve_and_eval *)

\* EOF, a head that is too large, one that does not parse, or a bad authority
\* end the task.  There is no time limit.
ReadHead(c) ==
    /\ pc[c] = "head"
    /\ \/ \E h \in FirstHead : req' = [req EXCEPT ![c] = h] /\ Goto(c, "resolve")
       \/ UNCHANGED req /\ Goto(c, "done")
    /\ UNCHANGED <<policy, handle, inner, ip, action, leaf, cache, up, sent, audit, report>>

ResolveFails(c) ==
    /\ pc[c] = "resolve"
    /\ action' = [action EXCEPT ![c] = "Deny"] /\ Goto(c, "refuse")
    /\ UNCHANGED <<policy, handle, req, inner, ip, leaf, cache, up, sent, audit, report>>

\* Look-up, SSRF guard and rules; a look-up answers with any address.
resolve_and_eval(c) ==
    /\ pc[c] = "resolve"
    /\ \E a \in Addr :
         LET verdict == IF policy.block_private_networks /\ is_private_or_metadata(a) THEN "Deny"
                        ELSE Decided(evaluate(policy, Current(c)))
         IN  /\ ip' = [ip EXCEPT ![c] = a]
             /\ action' = [action EXCEPT ![c] = verdict]
             /\ Goto(c, After(c, verdict))
    /\ UNCHANGED <<policy, handle, req, inner, leaf, cache, up, sent, audit, report>>

\* The judge's answer, in either phase: a call is bounded by its timeout.
resolve_judge(c) ==
    /\ pc[c] = "judge"
    /\ \E a \in judge_outcomes : action' = [action EXCEPT ![c] = a] /\ Goto(c, After(c, a))
    /\ UNCHANGED <<policy, handle, req, inner, ip, leaf, cache, up, sent, audit, report>>

\* Mutant: an answer to a CONNECT that cannot be written ends the task as well.
RefuseUnlogged(c) ==
    /\ pc[c] = "refuse"
    /\ log_decision(c, "Deny") \/ UNCHANGED audit
    /\ Goto(c, "done")
    /\ UNCHANGED <<policy, handle, req, inner, ip, action, leaf, cache, up, sent, report>>

\* 403, 502 or 504.  A plain request whose client cannot be written to ends
\* before it is logged; the answers to a CONNECT are sent without looking.
Refuse(c) ==
    /\ pc[c] = "refuse"
    /\ \/ log_decision(c, "Deny")
       \/ ~IsConnect(c) /\ UNCHANGED audit
    /\ Goto(c, "done")
    /\ UNCHANGED <<policy, handle, req, inner, ip, action, leaf, cache, up, sent, report>>
-----------------------------------------------------------------------------
(* handle_connect: the tunnel *)

\* The decision is logged, then the client is told; it may be gone.
OpenTunnel(c) ==
    /\ pc[c] = "tunnel"
    /\ log_decision(c, "Allow")
    /\ \E place \in {"leaf", "done"} : Goto(c, place)
    /\ UNCHANGED <<policy, handle, req, inner, ip, action, leaf, cache, up, sent, report>>

\* Mutant: the cache is searched for the host in lower case.
LookupLeafFolded(c) ==
    /\ pc[c] = "leaf"
    /\ LET found == cache[Lower[req[c].host]]
       IN  \/ /\ found # None
              /\ leaf' = [leaf EXCEPT ![c] = found] /\ Goto(c, "handshake")
           \/ found = None /\ UNCHANGED leaf /\ Goto(c, "generate")
    /\ UNCHANGED <<policy, handle, req, inner, ip, action, cache, up, sent, audit, report>>

\* leaf_for: a leaf in the cache, or none yet; a bad host name ends the task.
LookupLeaf(c) ==
    /\ pc[c] = "leaf"
    /\ LET found == cache[req[c].host]
       IN  \/ /\ found # None
              /\ leaf' = [leaf EXCEPT ![c] = found] /\ Goto(c, "handshake")
           \/ found = None /\ UNCHANGED leaf /\ Goto(c, "generate")
           \/ UNCHANGED leaf /\ Goto(c, "done")
    /\ UNCHANGED <<policy, handle, req, inner, ip, action, cache, up, sent, audit, report>>

\* The lock was released for the signing: a leaf another task has inserted
\* since is replaced.
InsertLeaf(c) ==
    /\ pc[c] = "generate"
    /\ LET made == [host |-> req[c].host, by |-> c]
       IN  \/ /\ leaf' = [leaf EXCEPT ![c] = made]
              /\ cache' = [cache EXCEPT ![req[c].host] = made]
              /\ Goto(c, "handshake")
           \/ UNCHANGED <<leaf, cache>> /\ Goto(c, "done")
    /\ UNCHANGED <<policy, handle, req, inner, ip, action, up, sent, audit, report>>

\* TLS with the client, which answers or fails.
Handshake(c) ==
    /\ pc[c] = "handshake"
    /\ \E place \in {"inner", "done"} : Goto(c, place)
    /\ UNCHANGED <<policy, handle, req, inner, ip, action, leaf, cache, up, sent, audit, report>>

\* The inner head, without a time limit, and the second decision.
ReadInner(c) ==
    /\ pc[c] = "inner"
    /\ \/ \E h \in Inner :
            LET verdict == Decided(evaluate(policy, RequestIn(c, h)))
            IN  /\ inner' = [inner EXCEPT ![c] = h]
                /\ action' = [action EXCEPT ![c] = verdict]
                /\ Goto(c, IF verdict = None THEN "judge" ELSE IF verdict = "Deny" THEN "refuse" ELSE "connect")
       \/ UNCHANGED <<inner, action>> /\ Goto(c, "done")
    /\ UNCHANGED <<policy, handle, req, ip, leaf, cache, up, sent, audit, report>>
-----------------------------------------------------------------------------
(* Upstream *)

\* Mutant: the host is looked up again.
ConnectUpstreamLooksUp(c) ==
    /\ pc[c] = "connect"
    /\ \E a \in Addr : up' = [up EXCEPT ![c] = a]
    /\ Goto(c, IF IsConnect(c) THEN "tls" ELSE "forward")
    /\ UNCHANGED <<policy, handle, req, inner, ip, action, leaf, cache, sent, audit, report>>

\* TCP to the pinned address.
ConnectUpstream(c) ==
    /\ pc[c] = "connect"
    /\ \/ /\ up' = [up EXCEPT ![c] = ip[c]]
          /\ Goto(c, IF IsConnect(c) THEN "tls" ELSE "forward")
       \/ UNCHANGED up /\ Goto(c, "refuse")
    /\ UNCHANGED <<policy, handle, req, inner, ip, action, leaf, cache, sent, audit, report>>

\* TLS with the upstream under the client's host name; its errors are not logged.
UpstreamTls(c) ==
    /\ pc[c] = "tls"
    /\ \E place \in {"forward", "done"} : Goto(c, place)
    /\ UNCHANGED <<policy, handle, req, inner, ip, action, leaf, cache, up, sent, audit, report>>

\* Mutant: the upstream connect has no time limit.
TimeOutNotConnect(c) ==
    /\ pc[c] \in {"handshake", "tls"} /\ Goto(c, "done")
    /\ UNCHANGED <<policy, handle, req, inner, ip, action, leaf, cache, up, sent, audit, report>>

\* HANDSHAKE_TIMEOUT and UPSTREAM_CONNECT_TIMEOUT, for a peer that does not answer.
TimeOut(c) ==
    /\ \/ pc[c] \in {"handshake", "tls"} /\ Goto(c, "done")
       \/ pc[c] = "connect" /\ Goto(c, "refuse")
    /\ UNCHANGED <<policy, handle, req, inner, ip, action, leaf, cache, up, sent, audit, report>>

\* Mutant: a write that fails is answered and logged like a connect that fails.
ForwardRefused(c) ==
    /\ pc[c] = "forward"
    /\ sent' = [sent EXCEPT ![c] = TRUE]
    /\ \E place \in {"log", "refuse"} : Goto(c, place)
    /\ UNCHANGED <<policy, handle, req, inner, ip, action, leaf, cache, up, audit, report>>

\* Mutant: the decision is logged before the head is written.
ForwardLate(c) ==
    /\ pc[c] = "forward"
    /\ Goto(c, "log")
    /\ UNCHANGED <<policy, handle, req, inner, ip, action, leaf, cache, up, sent, audit, report>>

\* The rewritten head is written; a head that is not UTF-8 ends the task, and
\* so does a write that fails, with a part of the head gone.
Forward(c) ==
    /\ pc[c] = "forward"
    /\ \/ sent' = [sent EXCEPT ![c] = TRUE] /\ Goto(c, "log")
       \/ sent' \in {sent, [sent EXCEPT ![c] = TRUE]} /\ Goto(c, "done")
    /\ UNCHANGED <<policy, handle, req, inner, ip, action, leaf, cache, up, audit, report>>

LogForwarded(c) ==
    /\ pc[c] = "log"
    /\ log_decision(c, "Allow") /\ Goto(c, "copy")
    /\ UNCHANGED <<policy, handle, req, inner, ip, action, leaf, cache, up, sent, report>>

\* copy_bidirectional ends with one of its sides; what it carries, later
\* requests on the same connection included, is not looked at.
EndCopy(c) ==
    /\ pc[c] = "copy"
    /\ Goto(c, "done")
    /\ UNCHANGED <<policy, handle, req, inner, ip, action, leaf, cache, up, sent, audit, report>>
-----------------------------------------------------------------------------
(***************************************************************************)
(* destroy drains the log and then stops the loop: decisions of tasks that *)
(* are still under way go to a channel nobody reads.  A capsule that is    *)
(* dropped leaves the handle as it is, with nobody to drain it.            *)
(***************************************************************************)
drain_audit_log ==
    /\ handle = "open" /\ handle' = "closed"
    /\ report' = audit
    /\ UNCHANGED <<policy, conns, audit>>

\* Steps a task takes by itself: it only waits for the processor, a resolver or
\* a judge with a time limit of its own, a write to a socket, or a timer.
TaskStep(c) ==
    \/ ResolveFails(c) \/ resolve_and_eval(c) \/ resolve_judge(c) \/ Refuse(c) \/ OpenTunnel(c)
    \/ LookupLeaf(c) \/ InsertLeaf(c) \/ TimeOut(c) \/ Forward(c) \/ LogForwarded(c)

\* Steps that need a client or an upstream to act.
PeerStep(c) ==
    \/ Accept(c) \/ ReadHead(c) \/ Handshake(c) \/ ReadInner(c) \/ ConnectUpstream(c)
    \/ UpstreamTls(c) \/ EndCopy(c)

Next == drain_audit_log \/ \E c \in Conn : TaskStep(c) \/ PeerStep(c)

Spec == Init /\ [][Next]_vars

\* A task that is ready is polled; nothing is assumed of the peers.
FairSpec == Spec /\ \A c \in Conn : WF_vars(TaskStep(c))
-----------------------------------------------------------------------------
(* Properties *)

\* What is connected to is the address the guard saw, outside every documented
\* network if these are blocked, and no decision on the request was Deny, for a
\* CONNECT neither the one before the tunnel nor the one inside it.
UpstreamVetted ==
    \A c \in Conn : up[c] # None =>
        /\ up[c] = ip[c]
        /\ policy.block_private_networks => ~InDocumentedNet(up[c])
        /\ action[c] # "Deny" /\ evaluate(policy, Current(c)) # "Deny"
        /\ IsConnect(c) => inner[c] # None /\ evaluate(policy, RequestIn(c, req[c])) # "Deny"

\* Module comment of proxy.rs: "if Allow, IP-pinned TCP connect upstream and
\* forward, else reply 403".
ForwardsOnlyAllowed == \A c \in Conn : up[c] # None => action[c] = "Allow"

\* No decision is logged twice, and that on a tunnel comes before the one inside it.
OneEntryPerPhase ==
    \A i, j \in DOMAIN audit : audit[i].conn = audit[j].conn /\ i < j =>
        audit[i].phase = "connect" /\ audit[i].decision = "Allow" /\ audit[j].phase = "inner"

\* The audit log is true: nothing of a request logged as denied has gone or
\* goes out, an allowed one has, what is being copied is logged, and nothing
\* is logged twice.
AuditHonest ==
    /\ \A i \in DOMAIN audit :
         LET e == audit[i]
         IN  /\ e.decision = "Deny" => ~sent[e.conn] /\ pc[e.conn] = "done"
             /\ e.decision = "Allow" /\ e.phase # "connect" => sent[e.conn]
    /\ \A c \in Conn : pc[c] = "copy" =>
         \E i \in DOMAIN audit : audit[i].conn = c /\ audit[i].phase # "connect"
    /\ OneEntryPerPhase

\* The certificate shown in a tunnel is for the host of the tunnel, whichever
\* of the tasks that looked it up at the same time has made it.
LeafMatches ==
    \A c \in Conn : leaf[c] # None =>
        leaf[c].host = req[c].host /\ IsConnect(leaf[c].by)

\* When destroy drains the log, the report has every request being carried and
\* every CONNECT that was refused.
ReportComplete ==
    [][handle' # handle => \A c \in Conn :
         \/ pc[c] = "copy"
         \/ pc[c] = "done" /\ action[c] = "Deny" /\ IsConnect(c)
         => \E i \in DOMAIN report' : report'[i].conn = c
                /\ report'[i].decision = (IF pc[c] = "copy" THEN "Allow" ELSE "Deny")
                /\ report'[i].phase = Phase(c)]_vars

\* A policy drafted from the report (zk-policy-build) allows a request if one
\* with its method and its host, in any case, is reported as allowed, and
\* denies every other: refused requests, and the methods of other hosts, do
\* not seed rules.
DraftExact ==
    LET p == compile(build_policy(report))
        paths == {"/"} \cup {report[i].path : i \in DOMAIN report}
    IN  \A q \in [method : Method, host : Str, path : paths] :
          evaluate(p, q) = IF \E i \in DOMAIN report : /\ report[i].decision = "Allow"
                                                     /\ report[i].method = q.method
                                                     /\ Lower[report[i].host] = Lower[q.host]
                           THEN "Allow" ELSE "Deny"

\* The last word of the audit log on c, as EgressGate sees it.
LastEntry(c) ==
    LET final == {i \in DOMAIN audit : /\ audit[i].conn = c
                                       /\ audit[i].phase # "connect" \/ audit[i].decision = "Deny"}
    IN  IF final = {} THEN "none" ELSE audit[CHOOSE i \in final : TRUE].decision

Gate == INSTANCE EgressGate WITH
    gate <- [c \in Conn |-> IF pc[c] \in {"tls", "forward", "log", "copy"} THEN "open"
                            ELSE IF pc[c] = "done" THEN "closed" ELSE "shut"],
    out <- sent,
    entry <- [c \in Conn |-> LastEntry(c)]

\* handle_plain and handle_connect keep the promise of EgressGate.
ImplementsGate == Gate!Spec

\* Places without a time limit.
Untimed == {"head", "inner", "copy", "done"}

\* A request under decision is decided and carried, refused or given up, also
\* if client and upstream never answer again: only the reading of a head and the
\* copying have no time limit.
DecisionEnds ==
    \A c \in Conn : pc[c] \notin Untimed \cup {"idle"} ~> pc[c] \in Untimed
=============================================================================
