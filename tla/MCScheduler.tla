----------------------------- MODULE MCScheduler ----------------------------
EXTENDS SchedulerProperties
=============================================================================
