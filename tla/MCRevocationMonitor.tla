------------------------ MODULE MCRevocationMonitor ------------------------
(* RevocationMonitor for TLC: a few runs, told apart by number.            *)
EXTENDS RevocationMonitor

MCRuns == 1..3
============================================================================
