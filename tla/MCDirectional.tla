---------------------------- MODULE MCDirectional ----------------------------
EXTENDS Directional
=============================================================================
