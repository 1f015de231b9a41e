------------------------------ MODULE MCDaemons -----------------------------
(* The loops that run for ever, in one run: TLC starts the projection       *)
(* runner, the clock-tick emitters, the history-sync driver or the research *)
(* timers, and the others stay as they are. They share nothing but the      *)
(* ledger.                                                                  *)
EXTENDS ProjectionRunner, ClockTicks

VARIABLES
  part,   \* the component that was started
  state, active, syncs, message_count, timer, messages, task, callbacks_made, synced, failed,
  install_seen, syncFaults, rows, now, job, cycle, cursor, pos, qend, re,
  spent, fired_at, gate, count

TwoCadences == [e \in {"hourly", "daily"} |-> IF e = "hourly" THEN 3600 ELSE 86400]
OneEach == [s \in {"person", "team", "company"} |-> 1]
AlwaysKeep == [n \in 0 .. 1 |-> "price"]

Sync == INSTANCE WhatsAppSync WITH
  MaxSyncs <- 3, MaxMessages <- 3, MaxCallbacks <- 3,
  Callbacks <- {"open", "history_set"}, MaxFaults <- 1,
  count <- message_count, ledger <- synced, seen <- install_seen,
  faults <- syncFaults

Research == INSTANCE ResearchLoop WITH
  Candidates <- {"price"}, KeptCandidates <- {"price"},
  Metric <- [c \in {"price"} |-> "margin"], Round <- AlwaysKeep,
  Drivers <- {"person", "company"}, Bound <- {}, Hints <- {},
  History <- <<>>, Budget <- OneEach, PerDay <- 2, Cool <- 0, Day <- 2,
  Week <- 4, MaxSignals <- 0, MaxCycles <- 1, MaxNow <- 0, MaxBack <- 0,
  MaxFaults <- 0, MaxRestarts <- 0

ASSUME HistorySyncAssumption == Sync!SyncAssumption
ASSUME ResearchAssumption == Research!CandidatesAssumption /\ Research!TimeAssumption

syncVars ==
  <<state, active, syncs, message_count, timer, messages, task, callbacks_made, synced,
  failed, install_seen, syncFaults>>
researchVars ==
  <<rows, now, job, cycle, cursor, pos, qend, re, spent, fired_at, gate,
  count>>

StartOne ==
  /\ part \in {"projections", "ticks", "sync", "research"}
  /\ Init
  /\ EmittersInit
  /\ Sync!SyncInit
  /\ Research!Init

StepOne ==
  \/ part = "projections" /\ Next /\ UNCHANGED <<part, ticksVars, syncVars, researchVars>>
  \/ /\ part = "ticks" /\ EmittersNext
     /\ UNCHANGED <<part, vars, syncVars, researchVars>>
  \/ /\ part = "sync" /\ Sync!SyncNext
     /\ UNCHANGED <<part, vars, ticksVars, researchVars>>
  \/ /\ part = "research" /\ Research!Next
     /\ UNCHANGED <<part, vars, ticksVars, syncVars>>

allVars == <<part, vars, ticksVars, syncVars, researchVars>>

(* The fairness of each component, while it is the one that was started.    *)
OneSpec ==
  /\ StartOne /\ [][StepOne]_allVars
  /\ \A t \in Tasks : WF_allVars(/\ part = "projections" /\ Step(t)
                                  /\ UNCHANGED <<part, ticksVars, syncVars, researchVars>>)
  /\ WF_allVars(/\ part = "sync" /\ Sync!DriverStep
                 /\ UNCHANGED <<part, vars, ticksVars, researchVars>>)
  /\ \A t \in Sync!Timers : WF_allVars(/\ part = "sync" /\ Sync!TimerStep(t)
                                        /\ UNCHANGED <<part, vars, ticksVars, researchVars>>)
  /\ WF_allVars(/\ part = "research" /\ (Research!Runner \/ Research!Step("runner"))
                 /\ UNCHANGED <<part, vars, ticksVars, syncVars>>)
  /\ \A d \in {"person", "company"} : WF_allVars(/\ part = "research" /\ (Research!Timer(d) \/ Research!Step(d))
                                                  /\ UNCHANGED <<part, vars, ticksVars, syncVars>>)

(* With the connection up, a session that has messages gets its row.        *)
SyncRecorded == Sync!SyncRecorded

(* Every kept experiment is learned from.                                   *)
KeepLearned == part = "research" => Research!KeepLearned
=============================================================================
