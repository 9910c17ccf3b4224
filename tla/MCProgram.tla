----------------------------- MODULE MCProgram -----------------------------
EXTENDS Program
CONSTANTS self, other
MCNodes == {self, other}
=============================================================================
