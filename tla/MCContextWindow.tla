--------------------------- MODULE MCContextWindow ---------------------------
\* A window small enough that three Turns do not fit.
EXTENDS ContextWindow
=============================================================================
