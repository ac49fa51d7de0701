-------------------------- MODULE MCLocalOperation --------------------------
EXTENDS LocalOperation
=============================================================================
