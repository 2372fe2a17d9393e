------------------------------ MODULE MCGauges ------------------------------
EXTENDS Gauges
=============================================================================
