-------------------------- MODULE MCQueryLifecycle --------------------------
EXTENDS QueryLifecycle

AllProfiles == {"reader", "writer", "remover", "worker"}
OnlyWorker == {"worker"}
OnlyReader == {"reader"}
=============================================================================
