--------------------------- MODULE MCPanther7Hdma ---------------------------
EXTENDS Panther7Hdma, TLC
CONSTANTS sw_client, page_client
MCNotifier == {sw_client, page_client}
MCHandles == (sw_client :> {"int"}) @@ (page_client :> {"page"})
=============================================================================
