---------------------------- MODULE MCDispatcher ----------------------------
(* Small instances of Dispatcher.                                          *)
EXTENDS Dispatcher

CONSTANTS t1, t2, f1, e1

MCSize == [g \in Groups |-> IF g \in {t2, f1} THEN 1 ELSE 2]
=============================================================================
