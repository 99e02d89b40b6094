---------------------------- MODULE MCConsoleShell ----------------------------
(* Two episodes; a direct action, one behind a click, one behind a word.     *)
(* Two rows of jobs, one per page.  A behaviour follows what is opened over  *)
(* the sections, or the lists of the jobs section.                           *)
EXTENDS ConsoleShell, JobLists

VARIABLE section

ConsoleInit ==
    /\ section \in {"shell", "jobs"} /\ ShellInit /\ JobListsInit
    /\ section = "shell" => tab = "active" /\ Stored(rowsOf) = 0

ConsoleNext ==
    \/ section = "shell" /\ ShellNext    /\ UNCHANGED <<section, jobListVars>>
    \/ section = "jobs"  /\ JobListsNext /\ UNCHANGED <<section, shellVars>>

ConsoleSpec ==
    /\ ConsoleInit /\ [][ConsoleNext]_<<section, shellVars, jobListVars>>
    /\ ShellFairness /\ JobListsFairness

=============================================================================
