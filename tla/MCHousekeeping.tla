---------------------------- MODULE MCHousekeeping ----------------------------
EXTENDS Housekeeping

MCPostTypes == <<2>>
MCDayRanges == <<1, 0>>
=============================================================================
