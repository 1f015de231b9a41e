----------------------------- MODULE LogCapture ------------------------------
(***************************************************************************)
(* The daily-log path of the channel adapter. OpenClaw writes one "allow     *)
(* channel" line per platform event to a log file named after the day;       *)
(* OpenClawLogTailer follows the newest file and awaits a capture handler    *)
(* per line: GlobalLogCapture for Slack channels, which asks Slack for the   *)
(* channel's latest message, and WhatsAppLogCapture, which first makes sure  *)
(* that the channel has a talkativeness policy.                              *)
(*                                                                          *)
(* A message is identified with its time stamp; a Slack message carries at   *)
(* most one file. A half-written log line is not in the file yet: the tailer *)
(* rewinds when it meets one.                                                *)
(***************************************************************************)
EXTENDS Integers, Sequences

CONSTANTS
  Slack, WhatsApp,  \* channel ids by platform
  SeenCap,          \* _SEEN_CHANNELS_MAX
  Senders,          \* who posts: "user", "bot"
  MaxPosts,         \* bound on messages posted
  MaxLogLines,         \* bound on log lines written
  MaxDays,          \* bound on log files
  MaxLogFaults         \* bound on failed calls, truncations and crashes

Channels == Slack \cup WhatsApp

ASSUME ChannelAssumption == Slack \cap WhatsApp = {} /\ Senders \subseteq {"user", "bot"}
ASSUME BoundsAssumption ==
  {SeenCap, MaxPosts, MaxLogLines, MaxDays} \subseteq Nat \ {0} /\ MaxLogFaults \in Nat

VARIABLES
  history,     \* messages each channel holds on its platform
  posts,       \* time stamps given out so far
  admits,      \* channels of the log lines written so far, by line id
  log, made,   \* line ids in each day's file, and the files that exist
  day, today,  \* the writer's day, and the tailer's
  fh, pos,     \* the file the tailer has open (0: none), lines of it read
  logStep, chan, msg,  \* where the handler is, its channel and the message it fetched
  last_ts, emitted_files, seen_channels, recent,  \* the handlers' memory
  captured,
  seenLines,   \* history: how often each line was handed to a handler
  firstLine,   \* history: lines written before the tailer opened its first file
  hiccup,      \* history: channels for which a call has failed
  logEpoch, logFaults

world == <<history, posts, admits, log, made, day, today>>
memory == <<last_ts, emitted_files, seen_channels, recent>>
reader == <<fh, pos, seenLines, firstLine>>
captureVars == <<world, reader, logStep, chan, msg, memory, captured, hiccup, logEpoch, logFaults>>

NoMsg == [ts |-> 0, who |-> "nobody", file |-> FALSE]
Message == [ts : 1 .. MaxPosts, who : Senders, file : BOOLEAN]
Days == 1 .. MaxDays

CaptureInit ==
  /\ history = [c \in Channels |-> {}] /\ posts = 0
  /\ admits = <<>> /\ log = [d \in Days |-> <<>>] /\ made = {} /\ day = 1 /\ today = 1
  /\ fh = 0 /\ pos = 0 /\ seenLines = <<>> /\ firstLine = 0
  /\ logStep = "idle" /\ chan \in Channels /\ msg = NoMsg
  /\ last_ts = [c \in Slack |-> 0] /\ emitted_files = {} /\ seen_channels = <<>>
  /\ recent = {}
  /\ captured = <<>> /\ hiccup = {} /\ logEpoch = 0 /\ logFaults = 0

LogFault == logFaults < MaxLogFaults /\ logFaults' = logFaults + 1

-----------------------------------------------------------------------------
(* The platform and OpenClaw. A message is posted before its line is        *)
(* logged; edits and deletions are logged like new messages.                *)
Post(c, who, file) ==
  /\ posts < MaxPosts
  /\ c \in WhatsApp => who = "user" /\ ~file
  /\ posts' = posts + 1
  /\ history' = [history EXCEPT ![c] = @ \cup {[ts |-> posts + 1, who |-> who, file |-> file]}]
  /\ UNCHANGED <<admits, log, made, day, today, reader, logStep, chan, msg, memory, captured,
                 hiccup, logEpoch, logFaults>>

LogLine(c) ==
  /\ Len(admits) < MaxLogLines /\ posts > 0
  /\ admits' = Append(admits, c)
  /\ log' = [log EXCEPT ![day] = Append(@, Len(admits) + 1)]
  /\ made' = made \cup {day}
  /\ seenLines' = Append(seenLines, 0)
  /\ UNCHANGED <<history, posts, day, today, fh, pos, firstLine, logStep, chan, msg,
                 memory, captured, hiccup, logEpoch, logFaults>>

Delete(c, m) ==
  /\ m \in history[c] /\ c \in Slack
  /\ LogFault
  /\ history' = [history EXCEPT ![c] = @ \ {m}]
  /\ UNCHANGED <<posts, admits, log, made, day, today, reader, logStep, chan, msg, memory,
                 captured, hiccup, logEpoch>>

(* The two clocks reach the next day on their own.                          *)
Midnight ==
  /\ \/ day < MaxDays /\ day' = day + 1 /\ today' = today
     \/ today < MaxDays /\ today' = today + 1 /\ day' = day
  /\ UNCHANGED <<history, posts, admits, log, made, reader, logStep, chan, msg, memory,
                 captured, hiccup, logEpoch, logFaults>>

(* logrotate copies the file away and truncates it.                         *)
Truncate ==
  /\ log[day] # <<>> /\ LogFault
  /\ log' = [log EXCEPT ![day] = <<>>]
  /\ UNCHANGED <<history, posts, admits, made, day, today, reader, logStep, chan, msg,
                 memory, captured, hiccup, logEpoch>>

(* The dashboard's /channels POST writes a policy of its own.               *)
OperatorPolicy(c) ==
  /\ c \in WhatsApp
  /\ ~ \E i \in 1 .. Len(captured) : captured[i].by = "operator"
  /\ captured' = Append(captured, [kind |-> "policy", chan |-> c, ts |-> 0,
                               by |-> "operator", epoch |-> logEpoch])
  /\ UNCHANGED <<world, reader, logStep, chan, msg, memory, hiccup, logEpoch, logFaults>>

-----------------------------------------------------------------------------
(* _latest_log_path: today's file, or else the newest.                      *)
Latest ==
  IF made = {} THEN 0 ELSE IF today \in made THEN today 
                     ELSE CHOOSE d \in made : \A e \in made : e <= d

(* _open_at_end, at the first tick and whenever the newest file is another. *)
OpenAtEnd ==
  /\ logStep = "idle" /\ Latest # 0 /\ fh # Latest
  /\ fh' = Latest /\ pos' = Len(log[Latest])
  /\ firstLine' = IF fh = 0 THEN Len(admits) ELSE firstLine
  /\ UNCHANGED <<world, seenLines, logStep, chan, msg, memory, captured, hiccup, logEpoch, logFaults>>

(* _tick on an open file that shrank.                                       *)
Shrunk ==
  /\ logStep = "idle" /\ fh # 0 /\ fh = Latest /\ Len(log[fh]) < pos
  /\ pos' = 0
  /\ UNCHANGED <<world, fh, seenLines, firstLine, logStep, chan, msg, memory, captured,
                 hiccup, logEpoch, logFaults>>

(* _tick, _handle_line: hand the next line to the handler of its platform.  *)
ReadLogLine ==
  /\ logStep = "idle" /\ fh # 0 /\ fh = Latest /\ pos < Len(log[fh])
  /\ LET id == log[fh][pos + 1] IN
       /\ chan' = admits[id]
       /\ seenLines' = [seenLines EXCEPT ![id] = @ + 1]
       /\ logStep' = IF admits[id] \in Slack THEN "fetch" ELSE "policy"
  /\ pos' = pos + 1
  /\ UNCHANGED <<world, fh, firstLine, msg, memory, captured, hiccup, logEpoch, logFaults>>

-----------------------------------------------------------------------------
LatestMessage(c) ==
  IF history[c] = {} THEN {NoMsg}
  ELSE {m \in history[c] : \A n \in history[c] : n.ts <= m.ts}

(* GlobalLogCapture.on_channel_admit up to the chat row: the latest message *)
(* is new when its time stamp is beyond the last one; the bot's own is only *)
(* noted.                                                                   *)
SlackFetch ==
  /\ logStep = "fetch"
  /\ \E m \in LatestMessage(chan) :
       /\ msg' = m
       /\ logStep' = IF m = NoMsg THEN "idle"
                     ELSE IF m.who # "bot" /\ m.ts > last_ts[chan] THEN "chat" ELSE "files"
       /\ last_ts' = IF m.who = "bot" THEN [last_ts EXCEPT ![chan] = m.ts] ELSE last_ts
  /\ UNCHANGED <<world, reader, chan, emitted_files, seen_channels, recent,
                 captured, hiccup, logEpoch, logFaults>>

FetchFails ==
  /\ logStep \in {"fetch", "wafetch"} /\ LogFault
  /\ hiccup' = hiccup \cup {chan}
  /\ logStep' = "idle"
  /\ UNCHANGED <<world, reader, chan, msg, memory, captured, logEpoch>>

CaptureRow(kind) == [kind |-> kind, chan |-> chan, ts |-> msg.ts, by |-> "adapter", epoch |-> logEpoch]

(* A ledger write succeeds, or raises having committed or not.              *)
Write(row, outcome) ==
  /\ captured' = IF outcome = "lost" THEN captured ELSE Append(captured, row)
  /\ IF outcome = "ok" THEN UNCHANGED <<logFaults, hiccup>>
     ELSE LogFault /\ hiccup' = hiccup \cup {chan}

Outcomes == {"ok", "lost", "unacknowledged"}

(* _emit_chat_received: a failed write is logged, no more.                  *)
SlackChat(outcome) ==
  /\ logStep = "chat"
  /\ Write(CaptureRow("chat"), outcome)
  /\ logStep' = "files"
  /\ UNCHANGED <<world, reader, chan, msg, memory, logEpoch>>

(* _emit_file_received for the message's file, and the advance of _last_ts  *)
(* that ends on_channel_admit.                                              *)
SlackFiles(outcome) ==
  /\ logStep = "files"
  /\ IF msg.file /\ <<chan, msg.ts>> \notin emitted_files
     THEN /\ Write(CaptureRow("file"), outcome)
          /\ emitted_files' = IF outcome = "ok" THEN emitted_files \cup {<<chan, msg.ts>>}
                              ELSE emitted_files
     ELSE outcome = "ok" /\ UNCHANGED <<captured, logFaults, hiccup, emitted_files>>
  /\ last_ts' = [last_ts EXCEPT ![chan] = IF msg.ts > @ THEN msg.ts ELSE @]
  /\ logStep' = "idle"
  /\ UNCHANGED <<world, reader, chan, msg, seen_channels, recent, logEpoch>>

-----------------------------------------------------------------------------
(* Fault: only the cache knows whether a channel has a policy.               *)
HasCachedPolicy(c) == \E k \in 1 .. Len(seen_channels) : seen_channels[k] = c

(* _has_existing_policy.                                                    *)
HasPolicy(c) == \E i \in 1 .. Len(captured) : captured[i].kind = "policy" /\ captured[i].chan = c

(* The cache of channels known to have a policy, and _mark_seen.             *)
Seen == {seen_channels[k] : k \in 1 .. Len(seen_channels)}

MarkSeen(c) ==
  seen_channels' =
    Append(IF Len(seen_channels) >= SeenCap THEN Tail(seen_channels) ELSE seen_channels, c)

(* _ensure_default_policy: the cache, then the fold over the ledger.        *)
EnsurePolicy ==
  /\ logStep = "policy"
  /\ IF chan \in Seen
     THEN logStep' = "wafetch" /\ UNCHANGED seen_channels
     ELSE IF HasPolicy(chan)
          THEN logStep' = "wafetch" /\ MarkSeen(chan)
          ELSE logStep' = "policywrite" /\ UNCHANGED seen_channels
  /\ UNCHANGED <<world, reader, chan, msg, last_ts, emitted_files, recent,
                 captured, hiccup, logEpoch, logFaults>>

(* _has_existing_policy answers True when the ledger cannot be read.        *)
FoldFails ==
  /\ logStep = "policy" /\ chan \notin Seen /\ LogFault
  /\ hiccup' = hiccup \cup {chan}
  /\ MarkSeen(chan)
  /\ logStep' = "wafetch"
  /\ UNCHANGED <<world, reader, chan, msg, last_ts, emitted_files, recent,
                 captured, logEpoch>>

WritePolicy(outcome) ==
  /\ logStep = "policywrite"
  /\ Write([kind |-> "policy", chan |-> chan, ts |-> 0, by |-> "adapter",
            epoch |-> logEpoch], outcome)
  /\ IF outcome = "ok" THEN MarkSeen(chan) ELSE UNCHANGED seen_channels
  /\ logStep' = "wafetch"
  /\ UNCHANGED <<world, reader, chan, msg, last_ts, emitted_files, recent, logEpoch>>

(* WhatsAppLogCapture.on_channel_admit after the policy: the adapter's      *)
(* latest message goes to LedgerWriter.emit, which drops keys it has seen   *)
(* (module SessionTail has the bounded window).                             *)
WhatsAppFetch ==
  /\ logStep = "wafetch"
  /\ \E m \in LatestMessage(chan) :
       /\ msg' = m
       /\ IF m = NoMsg \/ m.ts \in recent
          THEN logStep' = "idle" /\ UNCHANGED recent
          ELSE logStep' = "wachat" /\ recent' = recent \cup {m.ts}
  /\ UNCHANGED <<world, reader, chan, last_ts, emitted_files, seen_channels,
                 captured, hiccup, logEpoch, logFaults>>

WhatsAppChat(outcome) ==
  /\ logStep = "wachat"
  /\ Write(CaptureRow("chat"), outcome)
  /\ logStep' = "idle"
  /\ UNCHANGED <<world, reader, chan, msg, memory, logEpoch>>

-----------------------------------------------------------------------------
(* A restarted adapter remembers nothing and opens the log at its end.      *)
CaptureRestart ==
  /\ LogFault
  /\ fh' = 0 /\ pos' = 0 /\ logStep' = "idle" /\ msg' = NoMsg /\ logEpoch' = logEpoch + 1
  /\ last_ts' = [c \in Slack |-> 0] /\ emitted_files' = {}
  /\ seen_channels' = <<>> /\ recent' = {}
  /\ UNCHANGED <<world, seenLines, firstLine, chan, captured, hiccup>>

Environment ==
  \/ \E c \in Channels, who \in Senders, file \in BOOLEAN : Post(c, who, file)
  \/ \E c \in Channels : LogLine(c)
  \/ \E c \in Channels : \E m \in history[c] : Delete(c, m)
  \/ Midnight \/ Truncate
  \/ \E c \in Channels : OperatorPolicy(c)

Tailer ==
  \/ OpenAtEnd \/ Shrunk \/ ReadLogLine
  \/ SlackFetch \/ FetchFails \/ EnsurePolicy \/ FoldFails \/ WhatsAppFetch
  \/ \E o \in Outcomes : SlackChat(o) \/ SlackFiles(o) \/ WritePolicy(o) \/ WhatsAppChat(o)

CaptureNext == Environment \/ Tailer \/ CaptureRestart

CaptureSpec == CaptureInit /\ [][CaptureNext]_captureVars

-----------------------------------------------------------------------------
CaptureRow_ == [kind : {"chat", "file", "policy"}, chan : Channels, ts : 0 .. MaxPosts,
                by : {"adapter", "operator"}, epoch : Nat]

(* Every variable has its type.                                             *)
CaptureTypeOK ==
  /\ history \in [Channels -> SUBSET Message] /\ posts \in 0 .. MaxPosts
  /\ \A c \in Channels : \A m \in history[c] : m.ts <= posts
  /\ admits \in Seq(Channels) /\ log \in [Days -> Seq(1 .. Len(admits))]
  /\ made \subseteq Days /\ day \in Days /\ today \in Days
  /\ fh \in 0 .. MaxDays /\ pos \in Nat
  /\ logStep \in {"idle", "fetch", "chat", "files", "policy", "policywrite", "wafetch", "wachat"}
  /\ chan \in Channels /\ msg \in Message \cup {NoMsg}
  /\ last_ts \in [Slack -> 0 .. MaxPosts] /\ emitted_files \subseteq Slack \X (1 .. MaxPosts)
  /\ seen_channels \in Seq(Channels) /\ Len(seen_channels) <= SeenCap
  /\ recent \subseteq 1 .. MaxPosts
  /\ captured \in Seq(CaptureRow_) /\ hiccup \subseteq Channels
  /\ seenLines \in Seq(Nat) /\ Len(seenLines) = Len(admits) /\ logEpoch \in Nat /\ logFaults \in 0 .. MaxLogFaults

(* The log tailer never replays a line: over rotations, truncations and     *)
(* restarts a line is handed to a handler at most once.                     *)
NeverReplayed == \A i \in 1 .. Len(seenLines) : seenLines[i] <= 1

Same(i, j) ==
  /\ captured[i].kind = captured[j].kind /\ captured[i].chan = captured[j].chan
  /\ captured[i].ts = captured[j].ts /\ captured[i].epoch = captured[j].epoch

DefaultPolicy(i, c) ==
  captured[i].kind = "policy" /\ captured[i].chan = c /\ captured[i].by = "adapter"

(* One process records a message once and a file once, also when messages   *)
(* are deleted and the latest one is an older one again; only a file whose  *)
(* write committed and raised is written again.  A channel gets one default  *)
(* policy, over restarts, writes that committed and raised, and evictions    *)
(* from the cache.                                                           *)
CapturedOnce ==
  /\ \A c \in WhatsApp : \A i, j \in 1 .. Len(captured) :
       (DefaultPolicy(i, c) /\ DefaultPolicy(j, c)) => i = j
  /\ \A i, j \in 1 .. Len(captured) :
       (i < j /\ Same(i, j)) =>
         \/ captured[i].kind = "policy"
         \/ captured[i].kind = "file" /\ captured[i].chan \in hiccup

(* First touch is a lurker: no WhatsApp message is recorded in a channel    *)
(* before the channel has a policy, unless a call for it failed.            *)
LurkerFirst ==
  \A i \in 1 .. Len(captured) :
    (captured[i].kind = "chat" /\ captured[i].chan \in WhatsApp \ hiccup) =>
      \E j \in 1 .. i - 1 : captured[j].kind = "policy" /\ captured[j].chan = captured[i].chan

(* ADR-0001: every message of a connected channel is captured. Once the     *)
(* handler is past a user's message, the message is in the ledger.          *)
EveryMessageCaptured ==
  \A c \in Slack : \A m \in history[c] :
    (m.who = "user" /\ m.ts <= last_ts[c] /\ c \notin hiccup) =>
      \E i \in 1 .. Len(captured) :
        captured[i].kind = "chat" /\ captured[i].chan = c /\ captured[i].ts = m.ts

(* The log gives a deterministic per-event signal: every line written while *)
(* the tailer follows the log, in a file it has left or above its position, *)
(* has been handed to a handler.                                            *)
EveryLineSeen ==
  \A i \in firstLine + 1 .. Len(admits) :
    (logEpoch = 0 /\ fh # 0
       /\ \E d \in 1 .. fh : \E k \in 1 .. Len(log[d]) : log[d][k] = i /\ (d < fh \/ k <= pos))
      => seenLines[i] = 1

(* A failed fold is retried at the next admit: only channels that have a    *)
(* policy are remembered as having one.                                     *)
SeenHasPolicy == \A k \in 1 .. Len(seen_channels) : HasPolicy(seen_channels[k])

(* A policy from any source is left alone: the default never comes after    *)
(* the operator's.                                                          *)
DefaultNeverOverrides ==
  \A i, j \in 1 .. Len(captured) :
    ~ (/\ i < j /\ captured[i].kind = "policy" /\ captured[j].kind = "policy"
       /\ captured[i].chan = captured[j].chan
       /\ captured[i].by = "operator" /\ captured[j].by = "adapter")

=============================================================================
