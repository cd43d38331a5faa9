------------------------------- MODULE MCEvalSink -------------------------------
(* EvalSink on a small instance: an env that is evaluated at every step, so *)
(* that its epochs overlap, and one with two examples at every other.       *)
EXTENDS EvalSink

MCInterval == <<1, 2>>
MCExamples == <<1, 2>>
MCSize == <<2, 1>>
=============================================================================
