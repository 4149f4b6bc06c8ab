------------------------------- MODULE MCIngest -------------------------------
EXTENDS Ingest

CONSTANT c1
===============================================================================
