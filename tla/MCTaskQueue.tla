----------------------------- MODULE MCTaskQueue -----------------------------
\* Instances of TaskQueue for TLC.
EXTENDS TaskQueue

CONSTANTS t1, t2, t3

MCWorkers  == {0, 1}
MCNoWorker == -1
Independent == [t \in Tasks |-> {}]
Chained     == [t \in Tasks |-> IF t = t2 THEN {t1} ELSE {}]

\* The order of starts and the limit say nothing of a disturbed task: a run
\* about them need not look behind the first step that disturbs one.
NoneDisturbed == disturbed = {}
=============================================================================
