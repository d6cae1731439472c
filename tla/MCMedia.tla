------------------------------- MODULE MCMedia --------------------------------
EXTENDS Media, TLC
CONSTANTS p1, p2, h1, h2
===============================================================================
