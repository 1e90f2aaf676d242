----------------------------- MODULE MCIchSmi ------------------------------
EXTENDS IchSmi
=============================================================================
