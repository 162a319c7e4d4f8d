-------------------------------- MODULE MCSweep --------------------------------
EXTENDS Sweep

ThreeSFs   == {<<7, 9, 12>>}
BothOrders == {<<7, 12>>, <<12, 7>>}
LongBounds == <<0, 3, 12>>        \* the last segment is longer than the drift
OddBounds  == <<0, 3, 6, 7>>      \* unequal, the last shorter than the poll interval
=============================================================================
