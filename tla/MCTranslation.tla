---------------------------- MODULE MCTranslation ----------------------------
\* Streams of five payloads over three indexes, two calls and one held unit.
EXTENDS Translation

ThreeIndexes == 0..2
AllConventions == {"numbered", "sequential", "any"}
=============================================================================
