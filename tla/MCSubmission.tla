---------------------------- MODULE MCSubmission ----------------------------
EXTENDS Submission
CONSTANTS u1, u2, k1, k2, r1, r2, r3, q1, q2
=============================================================================
