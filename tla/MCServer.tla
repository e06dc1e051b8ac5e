------------------------------ MODULE MCServer ------------------------------
EXTENDS Server

\* Sizes below, at and beyond the one whose number of bytes wraps to zero.
MCFiles ==
  [tls : {None, Half, Whole}, logFile : {None, Half, 0, 1, 4, 5}, seed : {None, Whole}]
    \cup {Absent}
=============================================================================
