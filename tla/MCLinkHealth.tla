---------------------------- MODULE MCLinkHealth ----------------------------
EXTENDS LinkHealth

\* 1000 * (1 - 0.5 * e^(-age / 2 s)) for ages of 0, 1, 2, ... seconds.
DecayBySecond == <<500, 697, 816, 888, 932, 959, 975, 985, 991, 994, 997, 998, 999>>

=============================================================================
