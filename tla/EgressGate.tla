----------------------------- MODULE EgressGate -----------------------------
(***************************************************************************)
(* What the egress proxy promises for each connection: nothing goes out    *)
(* before it is admitted, a refusal is final, and the audit entry agrees   *)
(* with what went out.                                                     *)
(***************************************************************************)
EXTENDS Naturals

CONSTANT Conn  \* the connections

VARIABLES
    gate,   \* gate[c]: "shut" until admitted, "open", "closed" for good
    out,    \* out[c]: whether anything of c's requests may have reached an upstream
    entry   \* entry[c]: the audit entry of the request, "none", "Allow" or "Deny"

vars == <<gate, out, entry>>

TypeOK ==
    /\ gate \in [Conn -> {"shut", "open", "closed"}]
    /\ out \in [Conn -> BOOLEAN]
    /\ entry \in [Conn -> {"none", "Allow", "Deny"}]

Init ==
    /\ gate = [c \in Conn |-> "shut"]
    /\ out = [c \in Conn |-> FALSE]
    /\ entry = [c \in Conn |-> "none"]

Admit(c) ==
    /\ gate[c] = "shut" /\ gate' = [gate EXCEPT ![c] = "open"]
    /\ UNCHANGED <<out, entry>>

Send(c) ==
    /\ gate[c] = "open" /\ out' = [out EXCEPT ![c] = TRUE]
    /\ gate' \in {gate, [gate EXCEPT ![c] = "closed"]}
    /\ UNCHANGED entry

RecordAllow(c) ==
    /\ gate[c] = "open" /\ out[c] /\ entry[c] = "none"
    /\ entry' = [entry EXCEPT ![c] = "Allow"]
    /\ UNCHANGED <<gate, out>>

\* The end of a connection, with or without an entry for a refusal.
Close(c) ==
    /\ gate[c] # "closed" /\ gate' = [gate EXCEPT ![c] = "closed"]
    /\ \/ UNCHANGED entry
       \/ ~out[c] /\ entry[c] = "none" /\ entry' = [entry EXCEPT ![c] = "Deny"]
    /\ UNCHANGED out

Next == \E c \in Conn : Admit(c) \/ Send(c) \/ RecordAllow(c) \/ Close(c)

Spec == Init /\ [][Next]_vars
=============================================================================
