---------------------------- MODULE MCLiveConsole ----------------------------
(* LiveConsole with a table that the job drawer listens for and one that it *)
(* joins without listening for it, and a second console competing for the   *)
(* one stream the cap allows.                                               *)
EXTENDS LiveConsole

MCTables == {"job_events", "episodes"}
MCPanels == {"job"}
=============================================================================
