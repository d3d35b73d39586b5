----------------------- MODULE MCInterruptController -----------------------
EXTENDS InterruptController, TLC
CONSTANTS nand, gpio, h1, h2, p1, p2
MCIrq == {nand, gpio}
MCEdge == {nand}
MCRoutine == {h1, h2}
MCParam == {p1, p2}
MCParamOf == (h1 :> p1) @@ (h2 :> p2)
=============================================================================
