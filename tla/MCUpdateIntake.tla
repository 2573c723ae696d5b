--------------------------- MODULE MCUpdateIntake ---------------------------
EXTENDS UpdateIntake
=============================================================================
