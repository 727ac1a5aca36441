----------------------------- MODULE MCRetriever -----------------------------
(* A small instance of Retriever: two processes, one request, two bodies,   *)
(* of one and two bytes.                                                    *)
EXTENDS Retriever, TLC
CONSTANTS small, large
MCSize(b) == IF b = large THEN 2 ELSE 1
=============================================================================
