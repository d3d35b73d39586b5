---------------------------- MODULE MCKeypadTest ----------------------------
EXTENDS KeypadTest
CONSTANTS key1, key2
NoParam == [r \in {} |-> NULL]
=============================================================================
