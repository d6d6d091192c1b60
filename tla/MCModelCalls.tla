---------------------------- MODULE MCModelCalls ----------------------------
\* Three ModelCalls that share one permit.
EXTENDS ModelCalls
=============================================================================
