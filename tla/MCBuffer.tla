------------------------------ MODULE MCBuffer ------------------------------
\* Buffer with a vector of four bytes at first: every call that grows it,
\* moves the bytes or spills from readv is reached within a few steps.
EXTENDS Buffer

MCByte == 0 .. 2
=============================================================================
