----------------------------- MODULE MCConfig -------------------------------
EXTENDS Config

\* every value of the eleven defined bits, and fMax set on top of each
MCFlagsSet == 0..4095
\* {}, {"devel": true}, {"env": ...}, {"env": ..., "devel": true}
MCUserObjects ==
  {[k \in {} |-> TRUE], [devel |-> TRUE], [env |-> TRUE],
   [env |-> TRUE, devel |-> TRUE]}
=============================================================================
