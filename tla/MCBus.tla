------------------------------- MODULE MCBus -------------------------------
EXTENDS Bus

\* No from_seq, a replay from the beginning, and a cursor ahead of the tail.
FromAnywhere == {AtTail, 0, 3}
=============================================================================
