------------------------------- MODULE MCTimer --------------------------------
EXTENDS Timer, TLC
OneWheel    == <<4>>
TwoWheels   == <<2, 4>>
=============================================================================
