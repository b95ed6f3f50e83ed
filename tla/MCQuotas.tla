------------------------------ MODULE MCQuotas ------------------------------
(***************************************************************************)
(* Quotas with small limits and windows.                                   *)
(***************************************************************************)
EXTENDS Quotas
SmallLimits == [a \in Actions |-> IF a \in {"mention", "organization.report"} THEN 1 ELSE 2]
SmallWindows == [a \in Actions |-> CASE a = "mcp.tool" -> 1 [] a = "mail.recipient" -> 2 [] OTHER -> 2]
=============================================================================
