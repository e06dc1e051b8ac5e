---------------------------- MODULE MCRisStream ----------------------------
EXTENDS RisStream

\* A file read to its end, more than the channel holds, and one that is damaged.
MCFiles == { <<1, Noise, 2, 3, 4>>, <<1, ReadError, 2>> }
=============================================================================
