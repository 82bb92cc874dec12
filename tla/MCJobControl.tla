---------------------------- MODULE MCJobControl ----------------------------
EXTENDS JobControl
=============================================================================
