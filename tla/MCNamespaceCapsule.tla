------------------------- MODULE MCNamespaceCapsule --------------------------
(* NamespaceCapsule for TLC: one capsule for the refinement and liveness,    *)
(* two for what capsules do to each other.                                   *)
EXTENDS NamespaceCapsule, TLC

CONSTANTS c1, c2

\* c1 is any capsule.
ASSUME C1Assumption == c1 \in Capsule

\* Two specs that differ in what spawn does, for the runs with two capsules; no
\* timeout, whose watchdog holds no descriptors.
TwoSpecs == {[timeout |-> FALSE, egress |-> FALSE, required |-> TRUE],
             [timeout |-> FALSE, egress |-> TRUE,  required |-> FALSE]}

Symmetry == Permutations(Capsule)

Contract == INSTANCE Capsule WITH
              phase <- PhaseOf(c1), worker <- WorkerOf(c1), report <- ReportOf(c1)

\* The Namespace backend implements the CapsuleHandle contract.
ImplementsCapsule == Contract!Spec
=============================================================================
