----------------------------- MODULE MCAuditChain -----------------------------
(* Model-checking instance of AuditChain. *)
EXTENDS AuditChain

CONSTANTS p1, p2, t1, t2, t3

MCProcess == [w \in {t1, t2, t3} |-> IF w = t3 THEN p2 ELSE p1]

\* SHA-256 without collisions: a hash is what was hashed.
MCHash(event, prev) == <<event, prev>>

=============================================================================
