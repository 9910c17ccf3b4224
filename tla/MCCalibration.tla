--------------------------- MODULE MCCalibration ---------------------------
EXTENDS Calibration
CONSTANTS one, other
MCNodes == {one, other}
=============================================================================
