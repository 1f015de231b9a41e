------------------------------ MODULE MCChannel -----------------------------
(* The channel side in one run: TLC starts the rate limiter, the session    *)
(* tailer or the log tailer, and the others stay as they are. They share    *)
(* nothing but the ledger. The log tailer runs in two settings: with        *)
(* messages of one Slack channel only, and with one message, on one day, in *)
(* any of the channels.                                                     *)
EXTENDS RateLimit, SessionTail, LogCapture

VARIABLE part   \* the component that was started

SlackOnly ==
  /\ \A c \in WhatsApp : history[c] = {}
  /\ \A i \in 1 .. Len(admits) : admits[i] \in Slack
  /\ \A i \in 1 .. Len(captured) : captured[i].chan \in Slack

OneMessage == posts <= 1 /\ day = 1 /\ today = 1

StartOne ==
  /\ part \in {"rate limiter", "sessions", "slack", "whatsapp"}
  /\ Init /\ SessionInit /\ CaptureInit
  /\ part # "whatsapp" => chan \in Slack

StepOne ==
  \/ part = "rate limiter" /\ Next /\ UNCHANGED <<part, sessionVars, captureVars>>
  \/ part = "sessions" /\ SessionNext /\ UNCHANGED <<part, vars, captureVars>>
  \/ part = "slack" /\ CaptureNext /\ SlackOnly' /\ UNCHANGED <<part, vars, sessionVars>>
  \/ part = "whatsapp" /\ CaptureNext /\ OneMessage' /\ UNCHANGED <<part, vars, sessionVars>>

allVars == <<part, vars, sessionVars, captureVars>>

OneSpec == StartOne /\ [][StepOne]_allVars
=============================================================================
