-------------------------- MODULE MCGroupSendRecv --------------------------
(* Two UEs, one of them with two workers, for the overlaps of the calls of  *)
(* different UEs in an orderly use; one UE with two workers where every     *)
(* order of calls, failures and closings is allowed.                        *)
EXTENDS GroupSendRecv
=============================================================================
