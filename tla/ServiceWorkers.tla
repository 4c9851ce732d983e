--------------------------- MODULE ServiceWorkers ---------------------------
(***************************************************************************)
(* ServiceWorkerEngine (service_worker.h): the workers in one list, the    *)
(* newest in front, each with its events, the newest in front.  Calls name *)
(* a worker by its version, which a registration may use again.            *)
(***************************************************************************)
EXTENDS Integers, Sequences, SequencesExt

CONSTANTS
  Versions,       (* version ids                                           *)
  Statuses,       (* a status with its registration state                  *)
  EventNames,     (* events with their times                               *)
  MaxWorkers,     (* bound on the workers registered                       *)
  MaxWorkerEvents (* bound on the events of one                            *)

VARIABLES
  workers,        (* the list from first_worker on: [id, status, events]   *)
  askedVersion    (* history: the version the last call was about          *)

workerVars == <<workers, askedVersion>>

----------------------------------------------------------------------------
WorkersInit ==
  /\ workers = << >>
  /\ askedVersion \in Versions

\* Slip: the loop goes on after a match.
ReachedLast(version) == SelectLastInSeq(workers, LAMBDA w : w.id = version)

\* The worker that a walk from the front stops at, or 0.
Reached(version) == SelectInSeq(workers, LAMBDA w : w.id = version)

\* A worker starts out as Starting and Installing.
RegisterWorker(version) ==
  /\ Len(workers) < MaxWorkers
  /\ workers' = <<[id |-> version, status |-> "new", events |-> << >>]>> \o workers
  /\ askedVersion' = version

UpdateStatus(version, status) ==
  /\ Reached(version) # 0
  /\ workers' = [workers EXCEPT ![Reached(version)].status = status]
  /\ askedVersion' = version

RecordEvent(version, event) ==
  /\ Reached(version) # 0
  /\ Len(workers[Reached(version)].events) < MaxWorkerEvents
  /\ workers' = [workers EXCEPT ![Reached(version)].events = <<event>> \o @]
  /\ askedVersion' = version

\* No such version, or no room in the arena for the worker or the event.
WorkerUnheard(version) ==
  /\ askedVersion' = version
  /\ UNCHANGED workers

WorkersNext ==
  \E version \in Versions :
    \/ RegisterWorker(version)
    \/ \E status \in Statuses : UpdateStatus(version, status)
    \/ \E event \in EventNames : RecordEvent(version, event)
    \/ WorkerUnheard(version)

WorkersSpec == WorkersInit /\ [][WorkersNext]_workerVars

----------------------------------------------------------------------------
NewestWorker == INSTANCE NewestById
  WITH Ids <- Versions, records <- Reverse(workers), asked <- askedVersion

\* A version that is registered again: status and events go to its newest
\* registration, and those of the earlier ones stay for the page to read.
WorkersAreNewest == NewestWorker!Spec
============================================================================
