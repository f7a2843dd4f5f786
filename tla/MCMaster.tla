------------------------------ MODULE MCMaster ------------------------------
(***************************************************************************)
(* The master's requests with the database, and its queries with the web   *)
(* page; a behaviour is one of either.                                     *)
(***************************************************************************)
EXTENDS MasterStore, WebClient

MCBound == [b \in {"request", "crash", "death", "loss", "fail"} |-> IF b = "request" THEN 2 ELSE 1]

\* One death of the master, and nothing else.
MCDeath == [b \in {"request", "crash", "death", "loss", "fail"} |-> IF b = "death" THEN 1 ELSE 0]

MCType == [id \in 1..3 |-> IF id = 2 THEN "rtmp" ELSE "rtsp"]
MCTaskList == {<<"task">>, <<"other">>, <<"task", "task">>}

MCInit == StInitial /\ WcInit

MCNext ==
  \/ wc.at = "off" /\ StNext /\ UNCHANGED wc
  \/ WcNext /\ UNCHANGED stVars

MCSpec == MCInit /\ [][MCNext]_<<stVars, wc>>

\* The master with its database alone.
MCStoreSpec == StInitial /\ WcInitial("off") /\ [][StNext /\ UNCHANGED wc]_<<stVars, wc>> /\ StFairness
=============================================================================
