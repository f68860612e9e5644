---------------------------- MODULE MCWorkerPool ----------------------------
(* Profile A has two runs and profile B one.  The first run starts worker 1, *)
(* which may start worker 2; the others start workers 3 and 4.               *)
EXTENDS WorkerPool

CONSTANTS A, B

MCLead == 1..3
MCWorker == 1..4
MCProfile == <<A, A, B>>
MCLeadOf == <<1, 1, 2, 3>>
MCParent == <<NoWorker, 1, NoWorker, NoWorker>>
MCWant == <<2, 2, 1, 1>>
=============================================================================
