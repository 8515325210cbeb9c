----------------------------- MODULE MCEventLoop -----------------------------
(***************************************************************************)
(* The fault sets of the runs of EventLoop.                                *)
(***************************************************************************)
EXTENDS EventLoop

(* Nothing goes wrong but the clients that hang up.                        *)
NoFaults == {}
(* Everything but the PUT that cannot be opened.                           *)
WritableFaults == AllFaults \ {"unwritable"}
(* Clients that wait for their answers, and a loop that keeps running.     *)
SilentFaults == {"silent"}
TalkativeFaults == {"talkative"}
SelectFaults == {"select"}
(* Targets that cannot be looked up or written.                            *)
LookupFaults == {"silent", "unwritable"}

(* BOUND: of several clients at most one is gone, one has been idle for    *)
(* too long, and one has the output of its program on disk.                *)
FewTroubles ==
  /\ Cardinality(hungup) <= 1 /\ Cardinality(expired) <= 1
  /\ Cardinality(fromCGI) <= 1
=============================================================================
