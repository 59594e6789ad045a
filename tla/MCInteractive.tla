----------------------------- MODULE MCInteractive -----------------------------
EXTENDS Interactive
===============================================================================
