------------------------------ MODULE HostProbe -----------------------------
(***************************************************************************)
(* What the program is promised by probing hosts with PingWrapper          *)
(* (src/LANScan/PingWrapper.swift): every host that is probed is reported  *)
(* once, as found or as not found, and the report does not change.  The    *)
(* pipeline of LANScanner joins on these reports, so a report that never   *)
(* comes stalls a scan and a second one would be a second element of a     *)
(* signal that has completed.                                              *)
(***************************************************************************)
CONSTANT Hosts

VARIABLE result

Results == {"idle", "pending", "found", "notFound"}

Init == result = [h \in Hosts |-> "idle"]

\* startPing is called for some hosts in one turn: each probe runs, or fails
\* before its startPing returns.
Begin(hosts) ==
  /\ \A h \in hosts : result[h] = "idle"
  /\ \E refused \in SUBSET hosts :
       result' = [h \in Hosts |-> IF h \in refused THEN "notFound"
                                 ELSE IF h \in hosts THEN "pending" ELSE result[h]]

\* The completion is called.
Report(h) ==
  /\ result[h] = "pending"
  /\ \E r \in {"found", "notFound"} : result' = [result EXCEPT ![h] = r]

Next ==
  \/ \E hosts \in (SUBSET Hosts) \ {{}} : Begin(hosts)
  \/ \E h \in Hosts : Report(h)

Safety == Init /\ [][Next]_result

Spec == Safety /\ \A h \in Hosts : WF_result(Report(h))
=============================================================================
