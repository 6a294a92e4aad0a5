------------------------- MODULE MCRotatingGzWriter -------------------------
EXTENDS RotatingGzWriter

MCModes ==
    [kind : {"Count"}, n : {0, 1, 2, 3}]
    \union [kind : {"Seconds"}, n : {1, 2}]
    \union [kind : {"Never"}, n : {0}]
=============================================================================
