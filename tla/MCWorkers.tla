------------------------------ MODULE MCWorkers ------------------------------
(* The jobs and the sessions of staff side by side: a behaviour is one of  *)
(* them, the others rest, so the states add up instead of multiplying.     *)
EXTENDS Dormancy, InterestJob, Snapshots, Exports, Sessions

CONSTANT Parts   \* the components of the run
VARIABLE part
workersVars == <<dormancyVars, interestVars, snapshotVars, exportVars, sessionVars,
                 part>>

WorkersInit ==
  /\ part \in Parts
  /\ DormancyInit /\ InterestInit /\ SnapshotsInit /\ SessionsInit
  /\ ExportsInit /\ (part # "exports" => reported = {})

WorkersNext ==
  \/ /\ part = "dormancy" /\ DormancyNext
     /\ UNCHANGED <<interestVars, snapshotVars, exportVars, sessionVars, part>>
  \/ /\ part = "interest" /\ InterestNext
     /\ UNCHANGED <<dormancyVars, snapshotVars, exportVars, sessionVars, part>>
  \/ /\ part = "snapshots" /\ SnapshotsNext
     /\ UNCHANGED <<dormancyVars, interestVars, exportVars, sessionVars, part>>
  \/ /\ part = "exports" /\ ExportsNext
     /\ UNCHANGED <<dormancyVars, interestVars, snapshotVars, sessionVars, part>>
  \/ /\ part = "sessions" /\ SessionsNext
     /\ UNCHANGED <<dormancyVars, interestVars, snapshotVars, exportVars, part>>

WorkersSpec == WorkersInit /\ [][WorkersNext]_workersVars /\ ExportsFairness
=============================================================================
