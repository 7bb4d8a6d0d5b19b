---------------------------- MODULE MCExceptionMap ----------------------------
(* The codes of MCStatusDomains, of every platform, compared, thrown and   *)
(* caught, and an exception of every class.                                *)
EXTENDS MCStatusDomains, ExceptionMap
===============================================================================
