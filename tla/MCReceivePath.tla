----------------------------- MODULE MCReceivePath -----------------------------
EXTENDS ReceivePath
================================================================================
