--------------------------- MODULE MCVariableEvents ---------------------------
\* The instance is in the .cfg file: the constants are model values.
EXTENDS VariableEvents
=============================================================================
