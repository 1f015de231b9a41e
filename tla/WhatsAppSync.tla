---------------------------- MODULE WhatsAppSync -----------------------------
(***************************************************************************)
(* The history-sync state machine of WhatsAppChannelAdapter. Three kinds of  *)
(* asyncio task meet in it: the driver, which awaits one connection callback *)
(* after another; the log tailer, whose messages are classified between two  *)
(* awaits; and the quiet timers, one per burst of messages. A step here is   *)
(* what a task does between two suspensions.                                 *)
(*                                                                          *)
(* A sync session is identified with the order of its sync_id; a timer task  *)
(* with the message that started it.                                         *)
(***************************************************************************)
EXTENDS Integers, Sequences, FiniteSets

CONSTANTS
  MaxSyncs,     \* bound on sync sessions
  MaxMessages,  \* bound on messages classified
  MaxCallbacks, \* bound on the driver's callbacks
  Callbacks,    \* the callbacks the driver makes, out of AllCallbacks
  MaxFaults     \* bound on failed ledger calls and restarts

AllCallbacks == {"open", "history_set", "drop", "shutdown"}

ASSUME SyncAssumption ==
  /\ {MaxSyncs, MaxMessages, MaxCallbacks, MaxFaults} \subseteq Nat
  /\ Callbacks \subseteq AllCallbacks

VARIABLES
  state,       \* _state
  active,      \* _active_sync, 0 for None
  syncs,       \* sessions started so far
  count,       \* message_count of each session
  timer,       \* _quiet_timer_task, 0 for None
  messages,    \* messages classified so far
  task,        \* per task: where it is, the sync it completes and with what
  callbacks_made,  \* by the driver, so far
  ledger,      \* conversation_sync and install_completed rows
  failed,      \* history: syncs whose row could not be written
  seen,        \* _seen_installs holds this (tenant, bot)
  faults

machine == <<state, active, syncs, count, timer>>
syncVars == <<machine, messages, task, callbacks_made, ledger, failed, seen, faults>>

Syncs == 1 .. MaxSyncs
Timers == 1 .. MaxMessages
Driver == 0
CallTasks == {Driver} \cup Timers

Idle == [pc |-> "none", sync |-> 0, status |-> "none", count |-> 0]
At(t, pc) == task[t].pc = pc
Fault == faults < MaxFaults /\ faults' = faults + 1

SyncInit ==
  /\ state = "IDLE" /\ active = 0 /\ syncs = 0 /\ count = [s \in Syncs |-> 0]
  /\ timer = 0 /\ messages = 0
  /\ task = [t \in CallTasks |-> Idle]
  /\ callbacks_made = 0 /\ ledger = <<>> /\ failed = {} /\ seen = FALSE /\ faults = 0

(* A new _ActiveSync.                                                       *)
StartSync ==
  /\ syncs < MaxSyncs
  /\ syncs' = syncs + 1 /\ active' = syncs + 1 /\ state' = "SYNC_IN_PROGRESS"

Sleeping(t) == t # 0 /\ task[t].pc = "sleep"

(* The tasks once the quiet timer has been cancelled.                       *)
Cancelled ==
  [u \in CallTasks |-> IF u = timer /\ Sleeping(u) THEN [task[u] EXCEPT !.pc = "done"] ELSE task[u]]

-----------------------------------------------------------------------------
(* _classify_message, called from the log tailer's task without a           *)
(* suspension: it may start a session, counts the message in the running    *)
(* one and restarts the quiet timer.                                        *)
Classify ==
  /\ messages < MaxMessages
  /\ messages' = messages + 1
  /\ IF state = "LIVE"
     THEN UNCHANGED <<machine, task>>
     ELSE /\ IF state = "IDLE" THEN StartSync ELSE UNCHANGED <<state, active, syncs>>
          /\ count' = [count EXCEPT ![active'] = @ + 1]
          /\ timer' = messages + 1
          /\ task' = [Cancelled EXCEPT ![messages + 1].pc = "sleep"]
  /\ UNCHANGED <<callbacks_made, ledger, failed, seen, faults>>

-----------------------------------------------------------------------------
(* A timer that cancels itself is back in the loop's ready queue at once:   *)
(* what was ready before it still runs, but no call of the ledger returns.  *)
ReadyQueueEmpty == \A t \in Timers : ~At(t, "cancelling")

Left(status) == IF status = "completed" THEN "LIVE" ELSE "IDLE"

(* _complete_sync up to its await: note the session, forget and cancel the  *)
(* timer. A driver that cancels a live timer waits for it to end, a timer   *)
(* that cancels itself is resumed once more, and a driver without a timer   *)
(* to cancel goes on to leave the session and call the emitter.             *)
BeginComplete(t, status) ==
  LET waits == t # Driver \/ Sleeping(timer) IN
  /\ timer' = 0
  /\ IF waits THEN UNCHANGED <<state, active>> ELSE active' = 0 /\ state' = Left(status)
  /\ task' = [Cancelled EXCEPT ![t] =
       [pc |-> IF waits THEN "cancelling" ELSE "emit", sync |-> active,
        status |-> status, count |-> count[active]]]
  /\ UNCHANGED <<syncs, count>>

(* Fault: the row has the numbers of the time before the await.             *)
ResumeStale(t) ==
  /\ At(t, "cancelling")
  /\ active' = 0 /\ state' = Left(task[t].status)
  /\ task' = [task EXCEPT ![t].pc = "emit"]
  /\ UNCHANGED <<syncs, count, timer, messages, callbacks_made, ledger, failed, seen, faults>>

(* Fault: a timer that was told to cancel itself ends there.                *)
ResumeCancelled(t) ==
  /\ At(t, "cancelling")
  /\ active' = 0 /\ state' = Left(task[t].status)
  /\ task' = [task EXCEPT ![t].pc = IF t = Driver THEN "emit" ELSE "done",
                          ![t].count = count[task[t].sync]]
  /\ UNCHANGED <<syncs, count, timer, messages, callbacks_made, ledger, failed, seen, faults>>

(* _complete_sync after its await: leave whatever session the adapter is in *)
(* now, and call the emitter with the one noted.                            *)
Resume(t) ==
  /\ At(t, "cancelling")
  /\ active' = 0 /\ state' = Left(task[t].status)
  /\ task' = [task EXCEPT ![t].pc = "emit", ![t].count = count[task[t].sync]]
  /\ UNCHANGED <<syncs, count, timer, messages, callbacks_made, ledger, failed, seen, faults>>

(* The emitter writes the conversation_sync row, or fails and is logged. In *)
(* on_connection_drop the timer is cancelled once more.                     *)
EmitSync(t, ok) ==
  /\ At(t, "emit") /\ ReadyQueueEmpty
  /\ IF ok
     THEN /\ ledger' = Append(ledger, [kind |-> "sync", sync |-> task[t].sync,
                                       count |-> task[t].count, status |-> task[t].status])
          /\ UNCHANGED <<failed, faults>>
     ELSE Fault /\ failed' = failed \cup {task[t].sync} /\ UNCHANGED ledger
  /\ IF task[t].status = "interrupted"
     THEN timer' = 0 /\ task' = [Cancelled EXCEPT ![t] = Idle]
     ELSE timer' = timer /\ task' = [task EXCEPT ![t] =
                                       IF t = Driver THEN Idle ELSE [Idle EXCEPT !.pc = "done"]]
  /\ UNCHANGED <<state, active, syncs, count, messages, callbacks_made, seen>>

(* _quiet_timer_run: the quiet window has passed. A timer that sleeps while *)
(* a completion waits was started after it.                                 *)
TimerFires(t) ==
  /\ At(t, "sleep") /\ \A u \in CallTasks : ~At(u, "cancelling")
  /\ IF state = "SYNC_IN_PROGRESS"
     THEN BeginComplete(t, "completed")
     ELSE task' = [task EXCEPT ![t].pc = "done"] /\ UNCHANGED machine
  /\ UNCHANGED <<messages, callbacks_made, ledger, failed, seen, faults>>

-----------------------------------------------------------------------------
(* on_connection_open after the install: start a session unless one runs.   *)
Opened ==
  /\ IF state = "SYNC_IN_PROGRESS"
     THEN UNCHANGED <<state, active, syncs>>
     ELSE StartSync
  /\ task' = [task EXCEPT ![Driver] = Idle]
  /\ UNCHANGED <<count, timer>>

DriverAt(pc) == task' = [task EXCEPT ![Driver].pc = pc] /\ UNCHANGED machine

(* The driver starts a callback when the one before it has returned.        *)
Callback(cb) ==
  /\ At(Driver, "none") /\ callbacks_made < MaxCallbacks
  /\ callbacks_made' = callbacks_made + 1
  /\ \/ cb = "open" /\ IF seen THEN Opened ELSE DriverAt("fold")
     \/ cb = "history_set" /\ state = "SYNC_IN_PROGRESS" /\ BeginComplete(Driver, "completed")
     \/ cb = "drop" /\ state = "SYNC_IN_PROGRESS" /\ BeginComplete(Driver, "interrupted")
     \/ /\ cb = "drop" /\ state # "SYNC_IN_PROGRESS"
        /\ state' = "IDLE" /\ timer' = 0 /\ task' = Cancelled
        /\ UNCHANGED <<active, syncs, count>>
     \/ /\ cb = "shutdown"
        /\ timer' = 0 /\ task' = Cancelled
        /\ UNCHANGED <<state, active, syncs, count>>
  /\ UNCHANGED <<messages, ledger, failed, seen, faults>>

Installed == \E i \in 1 .. Len(ledger) : ledger[i].kind = "install"

(* emit_whatsapp_install folds the ledger for an earlier row.               *)
InstallFold ==
  /\ At(Driver, "fold") /\ ReadyQueueEmpty
  /\ IF Installed
     THEN seen' = TRUE /\ Opened
     ELSE seen' = seen /\ DriverAt("installwrite")
  /\ UNCHANGED <<messages, callbacks_made, ledger, failed, faults>>

(* A fold that cannot read the ledger answers True: emit_whatsapp_install   *)
(* returns without an error and the adapter marks the install as seen.      *)
InstallFoldFails ==
  /\ At(Driver, "fold") /\ Fault /\ ReadyQueueEmpty
  /\ seen' = TRUE /\ Opened
  /\ UNCHANGED <<messages, callbacks_made, ledger, failed>>

(* The write succeeds, or raises having committed or not.                   *)
InstallWrite(outcome) ==
  /\ At(Driver, "installwrite") /\ ReadyQueueEmpty
  /\ ledger' = IF outcome = "lost" THEN ledger
               ELSE Append(ledger, [kind |-> "install", sync |-> 0, count |-> 0, status |-> "none"])
  /\ IF outcome = "ok" THEN seen' = TRUE /\ UNCHANGED faults ELSE seen' = seen /\ Fault
  /\ Opened
  /\ UNCHANGED <<messages, callbacks_made, failed>>

(* The process dies and comes back with an empty machine.                   *)
Restart ==
  /\ Fault
  /\ state' = "IDLE" /\ active' = 0 /\ timer' = 0 /\ seen' = FALSE
  /\ task' = [t \in CallTasks |-> IF t \in 1 .. messages THEN [Idle EXCEPT !.pc = "done"] ELSE Idle]
  /\ failed' = failed \cup (1 .. syncs)
  /\ UNCHANGED <<syncs, count, messages, callbacks_made, ledger>>

TimerStep(t) == TimerFires(t) \/ Resume(t) \/ \E ok \in BOOLEAN : EmitSync(t, ok)

DriverStep ==
  \/ Resume(Driver) \/ \E ok \in BOOLEAN : EmitSync(Driver, ok)
  \/ InstallFold \/ InstallFoldFails
  \/ \E o \in {"ok", "lost", "unacknowledged"} : InstallWrite(o)

SyncNext ==
  \/ Classify
  \/ \E cb \in Callbacks : Callback(cb)
  \/ DriverStep
  \/ \E t \in Timers : TimerStep(t)
  \/ Restart

SyncSpec == SyncInit /\ [][SyncNext]_syncVars

(* The event loop resumes every task that can run.                          *)
FairSyncSpec == SyncSpec /\ WF_syncVars(DriverStep) /\ \A t \in Timers : WF_syncVars(TimerStep(t))

-----------------------------------------------------------------------------
(* Every variable has its type.                                             *)
SyncTypeOK ==
  /\ state \in {"IDLE", "SYNC_IN_PROGRESS", "LIVE"}
  /\ active \in 0 .. syncs /\ syncs \in 0 .. MaxSyncs
  /\ count \in [Syncs -> 0 .. MaxMessages]
  /\ timer \in 0 .. MaxMessages /\ messages \in 0 .. MaxMessages
  /\ \A t \in CallTasks :
       /\ task[t].pc \in {"none", "sleep", "cancelling", "emit", "done", "fold", "installwrite"}
       /\ task[t].sync \in 0 .. MaxSyncs
       /\ task[t].status \in {"none", "completed", "interrupted"}
  /\ callbacks_made \in 0 .. MaxCallbacks /\ failed \subseteq Syncs
  /\ seen \in BOOLEAN /\ faults \in 0 .. MaxFaults

(* The assertion in _classify_message: in SYNC_IN_PROGRESS there is an      *)
(* active session, and in the other states there is none, whichever tasks   *)
(* are completing sessions at the time.                                     *)
ActiveIffSyncing == (state = "SYNC_IN_PROGRESS") <=> (active # 0)

(* A conversation_sync row counts every message stamped with its session,   *)
(* those that arrived while the timer was being cancelled included.         *)
RowsComplete ==
  \A i \in 1 .. Len(ledger) :
    ledger[i].kind = "sync" => ledger[i].count = count[ledger[i].sync]

(* At most one quiet timer sleeps, and the adapter knows it: no forgotten   *)
(* timer outlives a drop or a shutdown.                                     *)
TimerOwned == \A t \in Timers : At(t, "sleep") => timer = t

(* One pairing, one install row: over reconnects, restarts and writes that  *)
(* committed and raised.                                                    *)
InstallOnce == Cardinality({i \in 1 .. Len(ledger) : ledger[i].kind = "install"}) <= 1

(* _complete_sync: the timer cannot double-fire; a session has one row.     *)
SyncOnce ==
  \A i, j \in 1 .. Len(ledger) :
    (ledger[i].kind = "sync" /\ ledger[j].kind = "sync" /\ ledger[i].sync = ledger[j].sync)
      => i = j

Recorded(s) == \E i \in 1 .. Len(ledger) : ledger[i].kind = "sync" /\ ledger[i].sync = s

(* A message stamped history_sync has its parent row, or will: its session  *)
(* is active, is being completed, or was lost to a failed write.            *)
SyncParent ==
  \A s \in 1 .. syncs :
    \/ count[s] = 0 \/ active = s \/ Recorded(s) \/ s \in failed
    \/ \E t \in CallTasks : task[t].pc \in {"cancelling", "emit"} /\ task[t].sync = s

(* A failed fold is retried at the next connection_open: an install is      *)
(* marked as seen only when the ledger has it.                              *)
SeenInstalled == seen => Installed

(* With the connection up, a session that has messages gets its row.        *)
SyncRecorded == \A s \in Syncs : (count[s] > 0) ~> (Recorded(s) \/ s \in failed)

=============================================================================
