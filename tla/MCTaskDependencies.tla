-------------------------- MODULE MCTaskDependencies --------------------------
\* Instances of TaskDependencies for TLC.
EXTENDS TaskDependencies

CONSTANTS t1, t2, t3, e1, e2, w1, w2
=============================================================================
