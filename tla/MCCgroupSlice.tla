---------------------------- MODULE MCCgroupSlice ----------------------------
EXTENDS CgroupSlice

\* empty element, ".", "..", a plain name, a name holding a NUL byte
MCNames == {"", ".", "..", "x", "NUL"}
=============================================================================
