---------------------------- MODULE MCToolDispatch ----------------------------
(***************************************************************************)
(* ToolDispatch for TLC.                                                    *)
(***************************************************************************)
EXTENDS ToolDispatch, TLC
CONSTANTS t1, t2, d1, d2, r1
===============================================================================
