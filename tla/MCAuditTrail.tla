---------------------------- MODULE MCAuditTrail ----------------------------
(***************************************************************************)
(* Instance of AuditVerify: three writers with two attempts each, on a run *)
(* that exists and one that does not, and one verify request whose page    *)
(* holds two events.                                                       *)
(***************************************************************************)
EXTENDS AuditVerify

CONSTANTS live, ghost, acme, beta

MCOwner == [r \in Run |-> IF r = ghost THEN NoProject ELSE acme]
=============================================================================
