----------------------------- MODULE MCSleepGate ----------------------------
EXTENDS SleepGate
CONSTANTS t1, t2
=============================================================================
