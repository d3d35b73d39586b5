------------------------- MODULE MCPanther7HdmaTest -------------------------
EXTENDS Panther7HdmaTest, TLC
MCNotifier == {panther7_hdma_notifier}
MCHandles == panther7_hdma_notifier :> {"int"}
=============================================================================
