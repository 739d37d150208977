----------------------------- MODULE CheckoutJob -----------------------------
(***************************************************************************)
(* What the polls of a browser may see of the jobs support-workers does:   *)
(* a job is accepted once, is pending for as long as it likes and gets one *)
(* final status, which it keeps.  The pages rely on it (CheckoutVisit),    *)
(* the executions of the state machine keep it (CheckoutExecution).        *)
(***************************************************************************)
CONSTANT Jobs

VARIABLE status   \* of each job, as GET /subscribe/.../status answers; "none" before

Statuses == {"none", "pending", "success", "failure"}
Final == {"success", "failure"}

Init == status \in [Jobs -> {"none", "pending"}]

Accept(j) ==
  /\ status[j] = "none"
  /\ status' = [status EXCEPT ![j] = "pending"]

End(j) ==
  /\ status[j] = "pending"
  /\ \E s \in Final : status' = [status EXCEPT ![j] = s]

Next == \E j \in Jobs : Accept(j) \/ End(j)

Spec == Init /\ [][Next]_status
=============================================================================
