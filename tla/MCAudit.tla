-------------------------------- MODULE MCAudit --------------------------------
(***************************************************************************)
(* A small instance of LedgerQuestions: records of two cases.              *)
(***************************************************************************)
EXTENDS LedgerQuestions

MCContents == [case : CaseIds]
=============================================================================
