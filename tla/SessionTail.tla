----------------------------- MODULE SessionTail -----------------------------
(***************************************************************************)
(* The session-JSONL path of the channel adapter: Tailer polls a directory   *)
(* of append-only session files, pump hands each parsed event to the        *)
(* handler, LedgerWriter drops keys it has seen and writes the rest, and    *)
(* OffsetState remembers how far each file has been consumed.               *)
(*                                                                          *)
(* A file is a sequence of lines and an offset counts lines. A key (channel *)
(* and message id of an inbound message, session and text of a reply) is a  *)
(* pair of the line's kind and its name.                                    *)
(***************************************************************************)
EXTENDS Integers, Sequences

CONSTANTS
  NumSessions,     \* session files, numbered in the order iterdir is sorted
  Names,           \* message ids and reply texts
  Kinds,           \* kinds of line that occur, out of AllKinds
  LogTail,         \* log_tail_active: the daily log supplies Slack messages
  CapReceived,     \* _recent_chat_received_max
  CapSent,         \* _recent_chat_sent_max
  MaxLines,        \* bound on the lines of a file
  MaxWriteFaults,  \* bound on ledger writes that raise
  MaxCrashes,      \* bound on crashes
  MaxDiskFaults    \* bound on failed saves and unreadable state files

AllKinds == {"slack", "whatsapp", "sent", "noise"}

ASSUME KindsAssumption == Kinds \subseteq AllKinds /\ LogTail \in BOOLEAN
ASSUME CapAssumption ==
  {NumSessions, CapReceived, CapSent, MaxLines} \subseteq Nat \ {0}
ASSUME FaultAssumption == {MaxWriteFaults, MaxCrashes, MaxDiskFaults} \subseteq Nat

VARIABLES
  file,      \* lines of each session file
  partial,   \* the last line of the file has no newline yet
  cached,    \* WhatsApp lines whose envelope the watcher has cached
  disk,      \* offsets in the state file
  offsets,   \* OffsetState._offsets
  pump,        \* where the pump is
  cur, at,   \* the file being read and the lines of it read so far
  last,      \* Tailer._last_inbound
  received, sent,  \* the writer's recent keys, oldest first
  inserted,  \* history: keys this process has inserted, per kind
  epoch,     \* history: which run of the process this is
  emitted,    \* chat_received and chat_sent rows
  raised,    \* history: keys some write of which raised
  signalled, \* SIGINT or SIGTERM has arrived
  stop,      \* Tailer._stop
  used       \* faults used so far

tail == <<pump, cur, at>>
dedup == <<received, sent, inserted>>
sessionVars == <<file, partial, cached, disk, offsets, tail, last, dedup, epoch,
          emitted, raised, signalled, stop, used>>

Sessions == 1 .. NumSessions
NoName == "none"
Line == [kind : Kinds, name : Names]
Inbound == {"slack", "whatsapp"}

Holds(seq, x) == \E i \in 1 .. Len(seq) : seq[i] = x

Key(s, line) ==
  IF line.kind = "sent" THEN <<"sent", s, line.name>> ELSE <<line.kind, 0, line.name>>

(* Lines up to the last newline.                                            *)
Complete(s) == Len(file[s]) - (IF partial[s] THEN 1 ELSE 0)

Budget(f) ==
  CASE f = "write" -> MaxWriteFaults [] f = "crash" -> MaxCrashes [] f = "disk" -> MaxDiskFaults

Use(f) == used[f] < Budget(f) /\ used' = [used EXCEPT ![f] = @ + 1]

SessionInit ==
  /\ file = [s \in Sessions |-> <<>>]
  /\ partial = [s \in Sessions |-> FALSE]
  /\ cached = {}
  /\ disk = [s \in Sessions |-> 0]
  /\ offsets = disk
  /\ pump = "poll" /\ cur = 1 /\ at = 0
  /\ last = [s \in Sessions |-> NoName]
  /\ received = <<>> /\ sent = <<>> /\ inserted = [k \in {"received", "sent"} |-> 0]
  /\ epoch = 0
  /\ emitted = <<>> /\ raised = {}
  /\ signalled = FALSE /\ stop = FALSE
  /\ used = [f \in {"write", "crash", "disk"} |-> 0]

-----------------------------------------------------------------------------
(* OpenClaw appends to a session file, sometimes flushing half a line. It    *)
(* may write a reply or redeliver a Slack message twice; a WhatsApp line is *)
(* named by its own frame id.                                               *)
Append_(s, line, whole) ==
  /\ Len(file[s]) < MaxLines /\ ~partial[s]
  /\ line.kind = "whatsapp" => \A t \in Sessions : ~ Holds(file[t], line)
  /\ file' = [file EXCEPT ![s] = Append(@, line)]
  /\ partial' = [partial EXCEPT ![s] = ~whole]
  /\ UNCHANGED <<cached, disk, offsets, tail, last, dedup, epoch, emitted, raised,
                 signalled, stop, used>>

Flush(s) ==
  /\ partial[s]
  /\ partial' = [partial EXCEPT ![s] = FALSE]
  /\ UNCHANGED <<file, cached, disk, offsets, tail, last, dedup, epoch, emitted,
                 raised, signalled, stop, used>>

(* The envelope watcher caches what the parser correlates a WhatsApp line   *)
(* with; it runs on its own and may be late.                                *)
CacheEnvelope(s, n) ==
  /\ n <= Len(file[s]) /\ file[s][n].kind = "whatsapp" /\ <<s, n>> \notin cached
  /\ cached' = cached \cup {<<s, n>>}
  /\ UNCHANGED <<file, partial, disk, offsets, tail, last, dedup, epoch, emitted,
                 raised, signalled, stop, used>>

-----------------------------------------------------------------------------
(* parse_session_line returns an event.                                     *)
Parses(s, n) ==
  \/ file[s][n].kind \in {"slack", "sent"}
  \/ file[s][n].kind = "whatsapp" /\ <<s, n>> \in cached

(* stream: one pass over the files, then a wait that the stop event ends.   *)
BeginScan ==
  /\ pump = "poll" /\ ~stop
  /\ pump' = "file" /\ cur' = 1
  /\ UNCHANGED <<file, partial, cached, disk, offsets, at, last, dedup, epoch,
                 emitted, raised, signalled, stop, used>>

EndStream ==
  /\ pump = "poll" /\ stop
  /\ pump' = "ended"
  /\ UNCHANGED <<file, partial, cached, disk, offsets, cur, at, last, dedup,
                 epoch, emitted, raised, signalled, stop, used>>

NextFile == cur' = cur + 1 /\ pump' = IF cur = NumSessions THEN "poll" ELSE "file"

(* _scan_once: read a file from its offset if it has grown.                 *)
OpenFile ==
  /\ pump = "file"
  /\ IF Len(file[cur]) <= offsets[cur]
     THEN NextFile /\ at' = at
     ELSE pump' = "read" /\ at' = offsets[cur] /\ cur' = cur
  /\ UNCHANGED <<file, partial, cached, disk, offsets, last, dedup, epoch,
                 emitted, raised, signalled, stop, used>>

(* Fault: half a line is consumed like a whole one.                         *)
ReadHalf ==
  /\ pump = "read"
  /\ IF at = Len(file[cur])
     THEN NextFile /\ UNCHANGED <<at, last>>
     ELSE /\ at' = at + 1
          /\ pump' = IF at + 1 <= Complete(cur) /\ Parses(cur, at + 1) THEN "handle"
                   ELSE IF at + 1 > Complete(cur) THEN "save" ELSE "read"
          /\ cur' = cur /\ last' = last
  /\ UNCHANGED <<file, partial, cached, disk, offsets, dedup, epoch, emitted,
                 raised, signalled, stop, used>>

(* _read_from: the next whole line. A line that is no event moves the       *)
(* position but not the offset; it is parsed again at the next pass.        *)
ReadLine ==
  /\ pump = "read"
  /\ IF at = Complete(cur)
     THEN NextFile /\ UNCHANGED <<at, last>>
     ELSE /\ at' = at + 1 /\ cur' = cur
          /\ pump' = IF Parses(cur, at + 1) THEN "handle" ELSE "read"
          /\ last' = IF Parses(cur, at + 1) /\ file[cur][at + 1].kind \in Inbound
                     THEN [last EXCEPT ![cur] = file[cur][at + 1].name] ELSE last
  /\ UNCHANGED <<file, partial, cached, disk, offsets, dedup, epoch, emitted,
                 raised, signalled, stop, used>>

-----------------------------------------------------------------------------
ThisLine == file[cur][at]
ThisKey == Key(cur, ThisLine)

(* A bounded dict: at the cap the oldest insertion goes.                    *)
Remember(recent, cap, key) ==
  Append(IF Len(recent) >= cap THEN Tail(recent) ELSE recent, key)

(* handler and LedgerWriter.emit up to the ledger write: Slack messages are *)
(* left to the log tailer when it runs, a key seen recently is dropped, and *)
(* a new one is remembered before it is written.                            *)
Handle ==
  /\ pump = "handle"
  /\ LET kind == IF ThisLine.kind = "sent" THEN "sent" ELSE "received"
         recent == IF kind = "sent" THEN sent ELSE received
     IN IF \/ LogTail /\ ThisLine.kind = "slack"
           \/ Holds(recent, ThisKey)
        THEN pump' = "save" /\ UNCHANGED dedup
        ELSE /\ pump' = "write"
             /\ sent' = IF kind = "sent" THEN Remember(sent, CapSent, ThisKey) ELSE sent
             /\ received' = IF kind = "received"
                            THEN Remember(received, CapReceived, ThisKey) ELSE received
             /\ inserted' = [inserted EXCEPT ![kind] = @ + 1]
  /\ UNCHANGED <<file, partial, cached, disk, offsets, cur, at, last, epoch,
                 emitted, raised, signalled, stop, used>>

Row ==
  [key |-> ThisKey, session |-> cur, line |-> at, epoch |-> epoch,
   stamp |-> inserted[IF ThisLine.kind = "sent" THEN "sent" ELSE "received"],
   reply |-> IF ThisLine.kind = "sent" THEN last[cur] ELSE NoName]

WriteOk ==
  /\ pump = "write"
  /\ emitted' = Append(emitted, Row)
  /\ pump' = "save"
  /\ UNCHANGED <<file, partial, cached, disk, offsets, cur, at, last, dedup,
                 epoch, raised, signalled, stop, used>>

(* ledger.write raises, having committed or not; pump logs it and goes on   *)
(* with the next line.                                                      *)
WriteFails(committed) ==
  /\ pump = "write" /\ Use("write")
  /\ emitted' = IF committed THEN Append(emitted, Row) ELSE emitted
  /\ raised' = raised \cup {ThisKey}
  /\ pump' = "read"
  /\ UNCHANGED <<file, partial, cached, disk, offsets, cur, at, last, dedup,
                 epoch, signalled, stop>>

(* pump after the handler returned: set the offset and save the state file, *)
(* replacing it in one step; a failed save is only logged.                  *)
Save(ok) ==
  /\ pump = "save"
  /\ offsets' = [offsets EXCEPT ![cur] = at]
  /\ IF ok THEN disk' = offsets' /\ used' = used ELSE disk' = disk /\ Use("disk")
  /\ pump' = "read"
  /\ UNCHANGED <<file, partial, cached, cur, at, last, dedup, epoch, emitted,
                 raised, signalled, stop>>

-----------------------------------------------------------------------------
Crash ==
  /\ pump # "down" /\ pump # "ended" /\ Use("crash")
  /\ pump' = "down" /\ cur' = 1 /\ at' = 0
  /\ offsets' = [s \in Sessions |-> 0]
  /\ last' = [s \in Sessions |-> NoName]
  /\ received' = <<>> /\ sent' = <<>> /\ inserted' = [k \in DOMAIN inserted |-> 0]
  /\ signalled' = FALSE /\ stop' = FALSE
  /\ UNCHANGED <<file, partial, cached, disk, epoch, emitted, raised>>

(* OffsetState.load: a missing or corrupt state file starts every session   *)
(* from its beginning.                                                      *)
Start(readable) ==
  /\ pump = "down"
  /\ IF readable THEN offsets' = disk /\ used' = used
                 ELSE offsets' = [s \in Sessions |-> 0] /\ Use("disk")
  /\ disk' = offsets'
  /\ pump' = "poll" /\ epoch' = epoch + 1
  /\ UNCHANGED <<file, partial, cached, cur, at, last, dedup, emitted, raised,
                 signalled, stop>>

(* run_service installs _on_signal, which stops the tailer, and then, when  *)
(* the log tailer is on, replaces it by _on_signal_extra, which does not.   *)
Signal ==
  /\ pump \notin {"down", "ended"} /\ ~signalled
  /\ signalled' = TRUE
  /\ stop' = ~LogTail
  /\ UNCHANGED <<file, partial, cached, disk, offsets, tail, last, dedup, epoch,
                 emitted, raised, used>>

Pump ==
  \/ BeginScan \/ EndStream \/ OpenFile \/ ReadLine \/ Handle \/ WriteOk
  \/ \E committed \in BOOLEAN : WriteFails(committed)
  \/ \E ok \in BOOLEAN : Save(ok)

SessionNext ==
  \/ \E s \in Sessions, line \in Line, whole \in BOOLEAN : Append_(s, line, whole)
  \/ \E s \in Sessions : Flush(s)
  \/ \E s \in Sessions, n \in 1 .. MaxLines : CacheEnvelope(s, n)
  \/ Pump
  \/ Crash
  \/ \E readable \in BOOLEAN : Start(readable)
  \/ Signal

SessionSpec == SessionInit /\ [][SessionNext]_sessionVars

(* The event loop runs the pump as long as it has something to do, and a    *)
(* supervisor restarts a crashed adapter.                                   *)
SessionFairSpec == SessionSpec /\ WF_sessionVars(Pump)
                    /\ WF_sessionVars(\E readable \in BOOLEAN : Start(readable))

-----------------------------------------------------------------------------
Keys == {Key(s, l) : s \in Sessions, l \in Line}

Row_ == [key : Keys, session : Sessions, line : 1 .. MaxLines, epoch : Nat,
         stamp : Nat, reply : Names \cup {NoName}]

(* Every variable has its type; the offsets never pass the end of a file    *)
(* and the recent keys never exceed their caps.                             *)
SessionTypeOK ==
  /\ file \in [Sessions -> Seq(Line)] /\ \A s \in Sessions : Len(file[s]) <= MaxLines
  /\ partial \in [Sessions -> BOOLEAN]
  /\ cached \subseteq Sessions \X (1 .. MaxLines)
  /\ disk \in [Sessions -> Nat] /\ offsets \in [Sessions -> Nat]
  /\ \A s \in Sessions : disk[s] <= Len(file[s]) /\ offsets[s] <= Len(file[s])
  /\ pump \in {"poll", "file", "read", "handle", "write", "save", "down", "ended"}
  /\ cur \in 1 .. NumSessions + 1 /\ at \in 0 .. MaxLines
  /\ last \in [Sessions -> Names \cup {NoName}]
  /\ received \in Seq(Keys) /\ Len(received) <= CapReceived
  /\ sent \in Seq(Keys) /\ Len(sent) <= CapSent
  /\ inserted \in [{"received", "sent"} -> Nat] /\ epoch \in Nat
  /\ emitted \in Seq(Row_) /\ raised \subseteq Keys
  /\ signalled \in BOOLEAN /\ stop \in BOOLEAN
  /\ used \in [{"write", "crash", "disk"} -> Nat]

Written(key) == \E i \in 1 .. Len(emitted) : emitted[i].key = key

Settled(key) == Written(key) \/ key \in raised

Expected(s, n) ==
  \/ file[s][n].kind = "sent"
  \/ file[s][n].kind = "slack" /\ ~LogTail

(* At least once: a reply or message below the saved offset is in the       *)
(* ledger, whatever crashed in between, unless a write of it raised.        *)
AtLeastOnce ==
  \A s \in Sessions : \A n \in 1 .. disk[s] :
    Expected(s, n) => Settled(Key(s, file[s][n]))

(* One process writes the same key twice only when its window has turned    *)
(* over in between, even when a failed write had committed after all.       *)
DedupWindow ==
  \A i, j \in 1 .. Len(emitted) :
    (i < j /\ emitted[i].key = emitted[j].key /\ emitted[i].epoch = emitted[j].epoch)
      => emitted[j].stamp - emitted[i].stamp
           > IF emitted[i].key[1] = "sent" THEN CapSent ELSE CapReceived

(* What the pump promises of the lines it reads and of the rows it writes.   *)
SessionsStand == AtLeastOnce /\ DedupWindow

(* A chat_sent row that names a message answers one that stands before it   *)
(* in its session, with no later Slack message between the two, even after  *)
(* lines were read again.                                                   *)
ReplyPrecedes ==
  \A i \in 1 .. Len(emitted) :
    LET r == emitted[i] f == file[r.session] IN
    (r.reply # NoName /\ r.stamp <= CapSent) =>
      \E m \in 1 .. r.line - 1 :
        /\ f[m].kind \in Inbound /\ f[m].name = r.reply
        /\ \A k \in m + 1 .. r.line - 1 : f[k].kind # "slack"

(* pump: an event whose handler raised is retried until it is written; once *)
(* the offset is past a line, the line is in the ledger.                    *)
FailedLinesRetried ==
  \A s \in Sessions : \A n \in 1 .. offsets[s] :
    Expected(s, n) => Written(Key(s, file[s][n]))

(* A WhatsApp frame that lands before its envelope is cached is picked up   *)
(* later; the offset never passes it unwritten.                             *)
EnvelopeRaceAbsorbed ==
  \A s \in Sessions : \A n \in 1 .. offsets[s] :
    file[s][n].kind = "whatsapp" => Settled(Key(s, file[s][n]))

(* run_service: the adapter runs until a signal arrives, and then stops.    *)
SignalStops == signalled ~> (pump = "ended" \/ pump = "down")

(* Every whole line that is an event is written in the end, unless a write  *)
(* of it raised or the adapter was told to stop.                            *)
LinesReachLedger ==
  \A s \in Sessions, n \in 1 .. MaxLines :
    (n <= Complete(s) /\ Expected(s, n))
      ~> \/ stop
         \/ n <= Len(file[s]) /\ Settled(Key(s, file[s][n]))

=============================================================================
