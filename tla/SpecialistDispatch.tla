------------------------- MODULE SpecialistDispatch -------------------------
(***************************************************************************)
(* dispatch_specialist_outbox_once (specialist_outbox_coordinator.py) run  *)
(* by several dispatchers over one outbox: claim a row, bind it to a       *)
(* request, execute an agent, then store its result and close the row in   *)
(* one transaction (outbox.py, persist_specialist_result_and_ack), or      *)
(* report the failure.  The outbox is that of module Outbox; its Send is   *)
(* here the execution of the agent.                                        *)
(***************************************************************************)
EXTENDS Outbox

CONSTANTS
  ResultIds,  \* what agents may put in AgentResult.result_id
  NoResult,   \* no row in specialist_agent_results
  Raised,     \* binding, execution or validation raised
  Unknown     \* the agent has not been run under this lease

ASSUME OutcomesAssumption ==
  /\ {NoResult, Raised, Unknown} \cap ResultIds = {}
  /\ Raised # Unknown

VARIABLES
  results,  \* specialist_agent_results: the result stored for each row
  outcome   \* per dispatcher, what came of the call in progress

dispatchVars == <<clock, outbox, id, lease, deliveries, results, outcome>>

DispatchInit ==
  /\ Init
  /\ results = [k \in Keys |-> NoResult]
  /\ outcome = [d \in Workers |-> Unknown]

-----------------------------------------------------------------------------
Claim(d) ==
  /\ lease[d] = NoLease
  /\ ClaimNextOutbox(d)
  /\ UNCHANGED <<results, outcome>>

\* bind_specialist_outbox_dispatch refuses the row before anything is executed.
BindingFails(d) ==
  /\ lease[d] # NoLease /\ outcome[d] = Unknown
  /\ outcome' = [outcome EXCEPT ![d] = Raised]
  /\ UNCHANGED <<clock, outbox, id, lease, deliveries, results>>

\* execute(request) and validate_orchestrated_result: outside any transaction.
Execute(d) ==
  /\ outcome[d] = Unknown
  /\ Send(d)
  /\ \E r \in ResultIds \cup {Raised} : outcome' = [outcome EXCEPT ![d] = r]
  /\ UNCHANGED results

\* The exception leaves the call; the row keeps whatever lease it has.
Abandon(d) ==
  /\ lease' = [lease EXCEPT ![d] = NoLease]
  /\ outcome' = [outcome EXCEPT ![d] = Unknown]
  /\ UNCHANGED <<clock, outbox, id, deliveries, results>>

\* except: fail_dispatch with its default backoff, or its own rejection.
ReportFailure(d) ==
  /\ lease[d] # NoLease /\ outcome[d] = Raised
  /\ \/ /\ FailDispatch(d)
        /\ outcome' = [outcome EXCEPT ![d] = Unknown]
        /\ UNCHANGED results
     \/ ~AssertOutboxFence(d) /\ Abandon(d)

FaultyCanPersist(d) ==
  \A k \in Keys : results[k] # outcome[d]

\* The fence, PRIMARY KEY(outbox_id) and UNIQUE(result_id).
CanPersist(d) ==
  /\ AssertOutboxFence(d)
  /\ results[lease[d].key] = NoResult
  /\ \A k \in Keys : results[k] # outcome[d]

FaultyPersistResultAndAck(d) ==
  /\ lease[d] # NoLease /\ outcome[d] \in ResultIds
  /\ CanPersist(d)
  /\ results' = [results EXCEPT ![lease[d].key] = outcome[d]]
  /\ UNCHANGED outbox
  /\ lease' = [lease EXCEPT ![d] = NoLease]
  /\ outcome' = [outcome EXCEPT ![d] = Unknown]
  /\ UNCHANGED <<clock, id, deliveries>>

\* One transaction; if it raises it is rolled back and the call ends, with
\* the row still SENDING: nothing reports the failure.
PersistResultAndAck(d) ==
  /\ lease[d] # NoLease /\ outcome[d] \in ResultIds
  /\ \/ /\ CanPersist(d)
        /\ results' = [results EXCEPT ![lease[d].key] = outcome[d]]
        /\ outbox' = [outbox EXCEPT ![lease[d].key] = Finalized(@)]
        /\ lease' = [lease EXCEPT ![d] = NoLease]
        /\ outcome' = [outcome EXCEPT ![d] = Unknown]
        /\ UNCHANGED <<clock, id, deliveries>>
     \/ ~CanPersist(d) /\ Abandon(d)

\* The process dies anywhere between claim and commit.
Die(d) == lease[d] # NoLease /\ Abandon(d)

DispatchOnce(d) ==
  \/ Claim(d)
  \/ BindingFails(d)
  \/ Execute(d)
  \/ ReportFailure(d)
  \/ PersistResultAndAck(d)

Environment ==
  /\ Tick \/ \E k \in Keys : EnqueueOutbox(k)
  /\ UNCHANGED <<results, outcome>>

DispatchNext ==
  \/ Environment
  \/ \E d \in Workers : DispatchOnce(d) \/ Die(d)

DispatchSpec == DispatchInit /\ [][DispatchNext]_dispatchVars

\* Time passes, dispatchers keep polling, and a call that has claimed a row
\* goes on or dies with its process.
DispatchFairness ==
  /\ WF_dispatchVars(Tick /\ UNCHANGED <<results, outcome>>)
  /\ \A d \in Workers : WF_dispatchVars(DispatchOnce(d) \/ Die(d))

FairDispatchSpec == DispatchSpec /\ DispatchFairness

-----------------------------------------------------------------------------
(* The stored results and the closed rows are the same set, at every       *)
(* moment: no row is closed without its result, no result is stored for a  *)
(* row that may still be executed again, and no two rows share a result.   *)
ResultIffDispatched ==
  /\ \A k \in Keys :
       results[k] # NoResult <=> outbox[k].status = "DISPATCHED"
  /\ \A j, k \in Keys :
       results[j] = results[k] /\ results[j] # NoResult => j = k

(* Each coordinator step is a step of the outbox protocol.                 *)
ImplementsOutbox == Spec

(* Every enqueued dispatch ends with a stored result or in DEAD_LETTER,    *)
(* although a failure to store the result is never reported.               *)
EventuallyAnswered ==
  \A k \in Keys :
    outbox[k].status # "ABSENT"
      ~> results[k] # NoResult \/ outbox[k].status = "DEAD_LETTER"
=============================================================================
