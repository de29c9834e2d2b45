---------------------------- MODULE MCQuestions ----------------------------
(* A small instance of Questions.                                           *)
EXTENDS Questions

CONSTANTS w1, p1, p2
=============================================================================
