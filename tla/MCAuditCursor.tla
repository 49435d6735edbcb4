----------------------------- MODULE MCAuditCursor -----------------------------
(* The constants of AuditCursor for TLC.                                   *)
EXTENDS AuditCursor

ThreeInodes == 1..3
=============================================================================
