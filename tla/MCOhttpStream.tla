---------------------------- MODULE MCOhttpStream ----------------------------
EXTENDS OhttpStream

\* Around each boundary of the encoding (2^6, 2^14, 2^30).
MC_Lengths == <<16384, 64, 1073741824, 63, 16383, 1073741823>>
=============================================================================
