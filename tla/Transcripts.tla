----------------------------- MODULE Transcripts -----------------------------
(***************************************************************************)
(* Meeting transcripts on their way into the ledger: pull_readai pages       *)
(* through a provider's meetings, pull_fireflies asks once, ingest_transcript *)
(* takes a file.  All three group cues into turns and write one cycle for     *)
(* each turn, named by the meeting and the turn's number.  Runs are processes *)
(* that overlap, fail and die; a row stands for a cycle.                      *)
(***************************************************************************)
EXTENDS Integers, Sequences, SequencesExt, FiniteSetsExt

CONSTANTS
  Runs,       \* command lines started, each a process of its own
  Meetings,
  Provider,   \* Provider[m] is the service that recorded m
  Files,      \* meetings that somebody also has a file of, under the same id
  Cues,       \* Cues[m] is what was said in m: records [who, from, to]
  Gap,        \* gap_threshold_s
  PageSize,   \* meetings on a page of Read.AI
  Limit,      \* --limit
  MaxFaults   \* bound on failed requests, failed writes and deaths

BoundsAssumption ==
  /\ Gap \in Nat /\ MaxFaults \in Nat
  /\ PageSize \in Nat \ {0} /\ Limit \in Nat \ {0}

VARIABLES
  held,    \* meetings each provider has a transcript of, newest first
  ledger,  \* committed chat_received rows of transcripts, oldest first
  run,     \* what each command line is doing
  faults

vars == <<held, ledger, run, faults>>

Idle == [pc |-> "idle"]

Init ==
  /\ held = [p \in Range(Provider) |-> <<>>]
  /\ ledger = <<>>
  /\ run = [r \in Runs |-> Idle]
  /\ faults = 0

Larger(a, b) == IF a > b THEN a ELSE b

(* A cue goes on with the current turn when the same person speaks and no   *)
(* more than the gap has passed since the turn's latest end.                *)
Continues(turn, cue) ==
  /\ turn.who = cue.who
  /\ cue.from - turn.to <= Gap

NewTurn(cue) == [who |-> cue.who, to |-> cue.to, cues |-> <<cue>>]

Extend(turn, cue) ==
  [turn EXCEPT !.to = Larger(@, cue.to), !.cues = Append(@, cue)]

AddCue(turns, cue) ==
  IF turns # <<>> /\ Continues(Last(turns), cue)
  THEN Append(Front(turns), Extend(Last(turns), cue))
  ELSE Append(turns, NewTurn(cue))

group_turns(cues) == FoldLeft(AddCue, <<>>, cues)

(* The times of Read.AI may run before the meeting's start or backwards;    *)
(* they become offsets from the start, and no cue ends before it begins.    *)
ToCue(c) ==
  LET from == Larger(0, c.from) IN
  [c EXCEPT !.from = from, !.to = Larger(from, c.to)]

readai_turns(raw) == group_turns([i \in DOMAIN raw |-> ToCue(raw[i])])

Turns(m) ==
  IF Provider[m] = "readai" THEN readai_turns(Cues[m]) ELSE group_turns(Cues[m])

-----------------------------------------------------------------------------
(* The provider finishes the transcript of another meeting.                 *)
Transcribed(m) ==
  /\ m \notin Range(held[Provider[m]])
  /\ held' = [held EXCEPT ![Provider[m]] = <<m>> \o @]
  /\ UNCHANGED <<ledger, run, faults>>

(* main: a pull goes to the provider first; a file is there at once, and    *)
(* nothing is asked of the ledger about it.                                 *)
StartPull(r, tool) ==
  /\ run[r].pc = "idle"
  /\ run' = [run EXCEPT ![r] =
       [pc |-> "fetch", tool |-> tool, got |-> <<>>, todo |-> <<>>]]
  /\ UNCHANGED <<held, ledger, faults>>

Writing(tool, got, todo, checked) ==
  [pc |-> "write", tool |-> tool, got |-> got, todo |-> todo, turn |-> 1,
   checked |-> checked]

StartFile(r, m) ==
  /\ run[r].pc = "idle"
  /\ Turns(m) # <<>>
  /\ run' = [run EXCEPT ![r] = Writing("file", <<>>, <<m>>, 0)]
  /\ UNCHANGED <<held, ledger, faults>>

Shorter(a, b) == IF a < b THEN a ELSE b

(* What a list holds after the last meeting of the previous page.           *)
Older(all, got) ==
  IF got = <<>> THEN all
  ELSE LET last == CHOOSE i \in DOMAIN all : all[i] = Last(got)
       IN SubSeq(all, last + 1, Len(all))

FirstOf(list, n) == SubSeq(list, 1, Shorter(n, Len(list)))

Work(r, got) == [run[r] EXCEPT !.pc = "check", !.got = got, !.todo = got]

(* Read.AI: pages, each after the last meeting of the one before, until the *)
(* limit is reached or nothing is left.                                     *)
FetchPage(r) ==
  /\ run[r].pc = "fetch" /\ run[r].tool = "readai"
  /\ LET got == run[r].got
         older == Older(held["readai"], got)
         n == Shorter(PageSize, Limit - Len(got))
         more == got \o FirstOf(older, n)
     IN run' = [run EXCEPT ![r] =
          IF Len(older) > n /\ Len(more) < Limit
          THEN [run[r] EXCEPT !.got = more]
          ELSE Work(r, more)]
  /\ UNCHANGED <<held, ledger, faults>>

(* Fireflies: one query.                                                    *)
FetchAll(r) ==
  /\ run[r].pc = "fetch" /\ run[r].tool = "fireflies"
  /\ run' = [run EXCEPT ![r] = Work(r, FirstOf(held["fireflies"], Limit))]
  /\ UNCHANGED <<held, ledger, faults>>

Fault ==
  /\ faults < MaxFaults
  /\ faults' = faults + 1

(* A request that fails, or is limited twice in a row, ends the run.        *)
FetchFails(r) ==
  /\ Fault
  /\ run[r].pc = "fetch"
  /\ run' = [run EXCEPT ![r] = [pc |-> "exited"]]
  /\ UNCHANGED <<held, ledger>>

-----------------------------------------------------------------------------
(* _is_already_ingested: some row of the ledger names the meeting.          *)
is_already_ingested(m) == \E i \in DOMAIN ledger : ledger[i].meeting = m

Rest(state) ==
  IF Len(state.todo) = 1 THEN [pc |-> "exited"]
  ELSE [pc |-> "check", tool |-> state.tool, got |-> state.got,
        todo |-> Tail(state.todo)]

Lookup(r, checked) == Writing(run[r].tool, run[r].got, run[r].todo, checked)

NothingFound(r) ==
  /\ run[r].pc = "check" /\ run[r].todo = <<>>
  /\ run' = [run EXCEPT ![r] = [pc |-> "exited"]]
  /\ UNCHANGED <<held, ledger, faults>>

(* _pull: the next meeting is looked up in the ledger and skipped, or its   *)
(* turns are written one after another.  A meeting without turns leaves     *)
(* nothing and is looked up again by every later run.                       *)
Check(r) ==
  /\ run[r].pc = "check" /\ run[r].todo # <<>>
  /\ LET m == Head(run[r].todo) IN
     run' = [run EXCEPT ![r] =
       IF is_already_ingested(m) \/ Turns(m) = <<>> THEN Rest(run[r])
       ELSE Lookup(r, Len(ledger))]
  /\ UNCHANGED <<held, ledger, faults>>

(* The lookup fails: the meeting is taken not to be there.                  *)
CheckBlind(r) ==
  /\ Fault
  /\ run[r].pc = "check" /\ run[r].todo # <<>>
  /\ Turns(Head(run[r].todo)) # <<>>
  /\ run' = [run EXCEPT ![r] = Lookup(r, 0)]
  /\ UNCHANGED <<held, ledger>>

(* checked: how much of the ledger the writer had looked up, for the        *)
(* properties only.                                                         *)
TurnRow(r) ==
  LET m == Head(run[r].todo) IN
  [meeting |-> m, turn |-> run[r].turn, cues |-> Turns(m)[run[r].turn].cues,
   checked |-> run[r].checked]

AfterTurn(r) ==
  IF run[r].turn = Len(Turns(Head(run[r].todo))) THEN Rest(run[r])
  ELSE [run[r] EXCEPT !.turn = @ + 1]

EmitTurn(r) ==
  /\ run[r].pc = "write"
  /\ ledger' = Append(ledger, TurnRow(r))
  /\ run' = [run EXCEPT ![r] = AfterTurn(r)]
  /\ UNCHANGED <<held, faults>>

(* Fault: a turn that could not be written is left out.                     *)
SkipsTurn(r) == AfterTurn(r)

(* A write raises: a pull goes on with the next meeting, a file's run ends. *)
AfterFailure(r) == Rest(run[r])

EmitFails(r) ==
  /\ Fault
  /\ run[r].pc = "write"
  /\ run' = [run EXCEPT ![r] = AfterFailure(r)]
  /\ UNCHANGED <<held, ledger>>

Die(r) ==
  /\ Fault
  /\ run[r].pc \in {"fetch", "check", "write"}
  /\ run' = [run EXCEPT ![r] = [pc |-> "exited"]]
  /\ UNCHANGED <<held, ledger>>

Next ==
  \/ \E m \in Meetings : Transcribed(m)
  \/ \E r \in Runs :
       \/ \E tool \in Range(Provider) : StartPull(r, tool)
       \/ \E m \in Files : StartFile(r, m)
       \/ FetchPage(r) \/ FetchAll(r) \/ FetchFails(r)
       \/ NothingFound(r) \/ Check(r) \/ CheckBlind(r)
       \/ EmitTurn(r) \/ EmitFails(r) \/ Die(r)

Spec == Init /\ [][Next]_vars

-----------------------------------------------------------------------------
Of(m) == {i \in DOMAIN ledger : ledger[i].meeting = m}

TurnsOf(m) == {ledger[i].turn : i \in Of(m)}

CuesAt(m, k) == ledger[CHOOSE i \in Of(m) : ledger[i].turn = k].cues

Said(m) ==
  FlattenSeq([k \in 1 .. Cardinality(TurnsOf(m)) |-> CuesAt(m, k)])

(* What the ledger holds of a meeting is a beginning of it: the turns are   *)
(* numbered without a gap and, put together, are the cues in their order,    *)
(* none lost or doubled by the grouping, whichever runs have written them.   *)
BeginningOfMeeting ==
  \A m \in Meetings :
    /\ TurnsOf(m) = 1 .. Cardinality(TurnsOf(m))
    /\ LET said == Said(m) IN
       [i \in DOMAIN said |-> said[i].id]
         = [i \in DOMAIN said |-> Cues[m][i].id]

(* A run that found a meeting in the ledger writes none of its turns: a     *)
(* turn is there twice only if the lookup had failed, was not made, or was   *)
(* made before the meeting's first row.                                      *)
NeverAgain ==
  \A i, j \in DOMAIN ledger :
    /\ i < j
    /\ ledger[i].meeting = ledger[j].meeting
    /\ ledger[i].turn = ledger[j].turn
    => ledger[j].checked < Min(Of(ledger[j].meeting))

(* The pages of a run, put together, are a stretch of the provider's list:  *)
(* none left out between two pages, none twice, though meetings arrive.      *)
PagesJoin ==
  \A r \in Runs :
    run[r].pc \in {"check", "write"} /\ run[r].tool # "file"
      => LET all == held[run[r].tool] IN
         \E k \in 0 .. Len(all) :
           IsPrefix(run[r].got, SubSeq(all, k + 1, Len(all)))

(* The transcripts in the ledger stand for what was said.                   *)
TranscriptsStand == BeginningOfMeeting /\ NeverAgain /\ PagesJoin
=============================================================================
