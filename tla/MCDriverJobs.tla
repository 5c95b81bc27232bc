---------------------------- MODULE MCDriverJobs ----------------------------
EXTENDS DriverJobs
=============================================================================
