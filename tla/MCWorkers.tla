------------------------------ MODULE MCWorkers -----------------------------
(* The research reactivities, the research timers, the reactivity registry  *)
(* and the history-sync driver in one run: TLC starts one of them and the   *)
(* others stay as they are. They share nothing but the ledger.              *)
EXTENDS Lifecycle, WhatsAppSync

VARIABLES
  part,   \* the component that was started
  research_rows, now, job, cycle, cursor, pos, qend, re, spent, fired_at,
  gate, research_count

OneEach == [s \in {"person", "team", "company"} |-> 1]
AlwaysKeep == [n \in 0 .. 1 |-> "price"]
Alternate == [n \in 0 .. 1 |-> IF n % 2 = 0 THEN "price" ELSE "stock"]

(* One reactivity needs a confirm, one is registered active by code.         *)
OneOfEach == [id \in {"chat", "code"} |-> IF id = "chat" THEN "proposed" ELSE "active"]

(* Two kept experiments of an earlier process.                               *)
Kept(n) ==
  LET row(k, x, out) == [k |-> k, x |-> x, aud |-> "person", out |-> out, ts |-> 0, v |-> 0]
      x == <<"trigger", n, "price">>
  IN  <<row("signal", <<"none", 0, "none">>, "none"), row("proposed", x, "none"),
        row("run", x, "none"), row("resolved", x, "keep")>>
TwoKept == Kept(1) \o Kept(5)

Runner == INSTANCE ResearchLoop WITH
  Candidates <- {"price"}, KeptCandidates <- {"price"},
  Metric <- [c \in {"price"} |-> "margin"], Round <- Alternate,
  Drivers <- {}, Bound <- 1 .. 4, Hints <- {}, History <- TwoKept,
  Budget <- OneEach, PerDay <- 2, Cool <- 0, Day <- 3, Week <- 4,
  MaxSignals <- 0, MaxCycles <- 0, MaxNow <- 2, MaxBack <- 0, MaxFaults <- 0,
  MaxRestarts <- 1, rows <- research_rows,
  count <- research_count

TimerLoops == INSTANCE ResearchLoop WITH
  Candidates <- {"price"}, KeptCandidates <- {"price"},
  Metric <- [c \in {"price"} |-> "margin"], Round <- AlwaysKeep,
  Drivers <- {"person", "company"}, Bound <- {}, Hints <- {},
  History <- <<>>, Budget <- OneEach, PerDay <- 2, Cool <- 0, Day <- 2,
  Week <- 4, MaxSignals <- 0, MaxCycles <- 1, MaxNow <- 1, MaxBack <- 0,
  MaxFaults <- 0, MaxRestarts <- 0, rows <- research_rows,
  count <- research_count

ASSUME ResearchAssumption == Runner!CandidatesAssumption /\ TimerLoops!CandidatesAssumption

runnerVars ==
  <<research_rows, now, job, cycle, cursor, pos, qend, re, spent, fired_at,
  gate, research_count>>

StartOne ==
  /\ part \in {"registry", "runner", "timers", "sync"}
  /\ RegistryInit
  /\ CASE part = "timers" -> TimerLoops!Init
       [] OTHER -> Runner!Init
  /\ SyncInit

StepOne ==
  \/ part = "registry" /\ RegistryNext /\ UNCHANGED <<part, runnerVars, syncVars>>
  \/ part = "runner" /\ Runner!Next /\ UNCHANGED <<part, registryVars, syncVars>>
  \/ part = "timers" /\ TimerLoops!Next /\ UNCHANGED <<part, registryVars, syncVars>>
  \/ part = "sync" /\ SyncNext /\ UNCHANGED <<part, registryVars, runnerVars>>

allVars == <<part, registryVars, runnerVars, syncVars>>

OneSpec == StartOne /\ [][StepOne]_allVars

(* A kept experiment is learned from once, and a keep of a higher scope on  *)
(* a metric stands when a run of a lower scope is written.                  *)
ResearchStands ==
  /\ part = "runner" => Runner!LessonsOnce
  /\ part = "timers" => TimerLoops!HigherScopeWins
=============================================================================
