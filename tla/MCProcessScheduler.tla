------------------------ MODULE MCProcessScheduler ------------------------
(* Small instances of ProcessScheduler: the programs are split by topic, so  *)
(* that the instructions that interact are explored together.                *)
EXTENDS ProcessScheduler

MCRank == [p \in Pid |-> p]

Mail  == {"PROC_SPAWN", "PROC_SEND", "PROC_RECEIVE", "PROC_RECEIVE_MATCH"}
Poll  == {"PROC_SPAWN", "PROC_SEND", "PROC_RECEIVE_OPT", "PROC_RECEIVE_MATCH_OPT", "PROC_YIELD", "FAULT"}
Watch == {"PROC_SPAWN", "PROC_MONITOR", "PROC_DEMONITOR", "PROC_RECEIVE", "PROC_EXIT", "PROC_CANCEL"}
Join_ == {"PROC_SPAWN", "PROC_JOIN", "PROC_CANCEL", "HALT", "ABORT"}
Naps_ == {"PROC_SPAWN", "PROC_SLEEP_TICKS", "PROC_CANCEL", "LOCAL", "HALT"}
Links == {"PROC_SPAWN", "PROC_LINK", "PROC_UNLINK", "LOCAL"}

MCMenus == {Mail, Poll, Watch, Join_, Naps_, Links}

\* A menu on which a DOWN notice meets a selective receive.
DownMenus == {{"PROC_SPAWN", "PROC_MONITOR", "PROC_RECEIVE_MATCH", "PROC_YIELD", "HALT"}}

\* A menu on which a monitored process is cancelled while it waits.
CancelMenus == {{"PROC_SPAWN", "PROC_MONITOR", "PROC_RECEIVE", "PROC_CANCEL", "PROC_SLEEP_TICKS"}}

\* Programs that only compute.
LocalMenus == {{"LOCAL"}}
=============================================================================
