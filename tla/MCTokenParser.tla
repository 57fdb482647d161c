---------------------------- MODULE MCTokenParser ----------------------------
(***************************************************************************)
(* A small instance of TokenParser: one process, for processes do not      *)
(* share anything they change, two RSA keys and one key of another type.   *)
(***************************************************************************)
EXTENDS TokenParser
=============================================================================
