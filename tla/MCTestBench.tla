----------------------------- MODULE MCTestBench -----------------------------
EXTENDS TestBench
CONSTANTS key1, key2
NoParam == [r \in {} |-> NULL]
=============================================================================
