---------------------------- MODULE MCSubmission ----------------------------
EXTENDS Submission
=============================================================================
