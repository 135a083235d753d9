------------------------------- MODULE MC_Slots -------------------------------
EXTENDS Slots
=============================================================================
