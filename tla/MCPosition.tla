------------------------------ MODULE MCPosition ------------------------------
EXTENDS Position
MCKinds == {[owner |-> "judge", cadence |-> "weekly", txs |-> 2, deaths |-> 1],
            [owner |-> "house", cadence |-> "once", txs |-> 3, deaths |-> 0]}
===============================================================================
