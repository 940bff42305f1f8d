------------------------------- MODULE MCSpsc -------------------------------
EXTENDS Spsc

MCValues == {"x", "y"}
=============================================================================
