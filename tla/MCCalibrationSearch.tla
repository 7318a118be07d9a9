------------------------ MODULE MCCalibrationSearch ------------------------
EXTENDS CalibrationSearch

\* Rates in eighths of a request per second: the default seed of 10 and a
\* ceiling of 45 (not a power-of-two multiple of the seed).
MCSeed == 80
MCMax == 360
MCTolerance == 8
MCAchieved == {0, 79}
============================================================================
