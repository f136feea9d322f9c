------------------------- MODULE ExecutionLifecycle -------------------------
(***************************************************************************)
(* The life of a pipeline execution as its status column shows it:         *)
(* created, running, paused and resumed any number of times, and over for  *)
(* good once it is completed, failed or cancelled.  PipelineExecution      *)
(* implements this specification when one application instance runs.       *)
(***************************************************************************)
CONSTANT Executions

VARIABLE status

Over == {"completed", "failed", "cancelled"}
Status == {"none", "pending", "running", "paused"} \cup Over

Moves ==
    {<<"none", "pending">>, <<"pending", "running">>, <<"running", "paused">>,
     <<"paused", "running">>} \cup ({"running"} \X Over)

Init == status = [e \in Executions |-> "none"]

\* Several executions change together when an instance recovers them.
Next ==
    /\ status' \in [Executions -> Status]
    /\ \A e \in Executions :
          status'[e] # status[e] => <<status[e], status'[e]>> \in Moves

Spec == Init /\ [][Next]_status
=============================================================================
