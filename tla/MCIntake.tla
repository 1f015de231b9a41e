------------------------------ MODULE MCIntake ------------------------------
(* What comes in through the channels: TLC starts the flows that propose    *)
(* sources, the intake of messages, or the MCP server, on one of several    *)
(* instances; the server's own constants are those of a caller at its rate   *)
(* limit.                                                                   *)
EXTENDS McpServer, TLC

VARIABLES
  part,   \* the component that was started
  source_rows, stage, described, task, source_faults, chat_rows, arrived,
  posts, today, awake, chat_faults, pipe, gap, rx, asked, caller

(* A member, who may become an administrator or be archived, and one who is.  *)
About(w, by, v) == [what |-> w, of |-> "ana", by |-> by, val |-> v]
Then(r) == r @@ [at |-> 0, call |-> "other"]
Member == <<Then(About("person", "none", "none")), Then(About("assigned", "none", "member"))>>
Admin == <<Then(About("person", "none", "none")), Then(About("assigned", "none", "admin"))>>
GrantChanges ==
  {About("assigned", "none", "admin"), About("revoked", "none", "admin"),
   About("archived", "none", "none"), About("domain", "owner", "d"),
   About("item", "none", "d")}

(* A file with a word where the others have a number, and a row cut short.   *)
Col(n, h) == [name |-> n, hint |-> h]
TheFile ==
  {[header |-> <<Col("id", "none"), Col("mrr", "money"), Col("day", "date")>>,
    rows |-> <<<<"int", "float", "date">>, <<"word", "int">>, <<"int", "int", "date">>>>]}

Said(i, w, c, h, live) == [id |-> i, what |-> w, channel |-> c, has |-> h, live |-> live]
SecretAndFile == {Said("m1", "chat", "c", {"credential", "keyword", "worm"}, TRUE),
                  Said("m3", "file", "c", {"file"}, TRUE)}
FilesOnly == {Said("m2", "file", "c", {"odd"}, TRUE), Said("m3", "chat", "d", {"file"}, FALSE)}
Mention == {Said("m2", "chat", "c", {"archetype", "phrase", "keyword", "remote", "worm"}, TRUE)}
TwoGaps == {Said("g1", "gap", "c", {"mrr"}, TRUE), Said("g2", "gap", "c", {"mrr"}, TRUE)}
TwoAsks == {Said("a1", "ask", "x", {"worm"}, TRUE), Said("a2", "ask", "y", {"worm", "hint"}, TRUE)}
GapAndChat == {Said("g3", "gap", "c", {"arr"}, TRUE),
               Said("m2", "chat", "x", {"archetype", "phrase"}, TRUE)}

Moods == [c |-> "proactive", d |-> "lurker", x |-> "responsive", y |-> "responsive"]
Cloud == {[type |-> "question", sure |-> 90], [type |-> "other", sure |-> 0]}

Forms == INSTANCE Sources WITH
  Handlers <- {"h1", "h2"}, Correlations <- {"c1", "c2", "c3"},
  Files <- TheFile, LakeTables <- 2, RowLimit <- 2, LinkWindow <- 1,
  Flows <- {"form", "mention", "confirmation"}, Chosen <- {"c1", "c2"},
  Persons <- {"ana"}, Times <- {0}, MaxRows <- 7, MaxFaults <- 1,
  ledger <- source_rows, known <- described, faults <- source_faults

Offered == INSTANCE Sources WITH
  Handlers <- {"h1", "h2"}, Correlations <- {"c1", "c2", "c3"},
  Files <- TheFile, LakeTables <- 2, RowLimit <- 2, LinkWindow <- 1,
  Flows <- {"dm", "mention"}, Chosen <- {"c1", "c2"},
  Persons <- {"ana", "bo"}, Times <- {0, 2}, MaxRows <- 6, MaxFaults <- 1,
  ledger <- source_rows, known <- described, faults <- source_faults

Dropped == INSTANCE Sources WITH
  Handlers <- {"h1", "h2"}, Correlations <- {"c1", "c2", "c3"},
  Files <- TheFile, LakeTables <- 2, RowLimit <- 2, LinkWindow <- 1,
  Flows <- {"drop", "fixture"}, Chosen <- {"c1", "c2"}, Persons <- {"ana"},
  Times <- {0}, MaxRows <- 8, MaxFaults <- 0, ledger <- source_rows,
  known <- described, faults <- source_faults

Lakes == INSTANCE Sources WITH
  Handlers <- {"h1", "h2"}, Correlations <- {"c1", "c2", "c3"},
  Files <- TheFile, LakeTables <- 2, RowLimit <- 2, LinkWindow <- 1,
  Flows <- {"lake", "promote", "local"}, Chosen <- {"c1", "c2", "c3"},
  Persons <- {"ana"}, Times <- {0}, MaxRows <- 6, MaxFaults <- 1,
  ledger <- source_rows, known <- described, faults <- source_faults

Polled == INSTANCE ChatIntake WITH
  Talk <- Moods, Clouded <- Cloud, DefaultChannel <- "c", Limit <- 1,
  Budget <- 1, Cooldown <- 0, DigestWindow <- 0, Messages <- SecretAndFile,
  Pipes <- {"poller"}, Callers <- {}, MaxDay <- 0, MaxRows <- 8,
  MaxFaults <- 1, ledger <- chat_rows, day <- today, up <- awake,
  faults <- chat_faults

Lurked == INSTANCE ChatIntake WITH
  Talk <- Moods, Clouded <- Cloud, DefaultChannel <- "c", Limit <- 1,
  Budget <- 1, Cooldown <- 0, DigestWindow <- 0, Messages <- FilesOnly,
  Pipes <- {"poller", "lurker"}, Callers <- {}, MaxDay <- 0, MaxRows <- 8,
  MaxFaults <- 0, ledger <- chat_rows, day <- today, up <- awake,
  faults <- chat_faults

Mentioned == INSTANCE ChatIntake WITH
  Talk <- Moods, Clouded <- Cloud, DefaultChannel <- "c", Limit <- 1,
  Budget <- 1, Cooldown <- 0, DigestWindow <- 0, Messages <- Mention,
  Pipes <- {"poller"}, Callers <- {}, MaxDay <- 0, MaxRows <- 11,
  MaxFaults <- 0, ledger <- chat_rows, day <- today, up <- awake,
  faults <- chat_faults

Gaps == INSTANCE ChatIntake WITH
  Talk <- Moods, Clouded <- Cloud, DefaultChannel <- "c", Limit <- 1,
  Budget <- 1, Cooldown <- 0, DigestWindow <- 0, Messages <- TwoGaps,
  Pipes <- {}, Callers <- {"agent"}, MaxDay <- 1, MaxRows <- 5,
  MaxFaults <- 0, ledger <- chat_rows, day <- today, up <- awake,
  faults <- chat_faults

Asked == INSTANCE ChatIntake WITH
  Talk <- Moods, Clouded <- Cloud, DefaultChannel <- "c", Limit <- 1,
  Budget <- 1, Cooldown <- 0, DigestWindow <- 0, Messages <- TwoAsks,
  Pipes <- {}, Callers <- {}, MaxDay <- 0, MaxRows <- 5, MaxFaults <- 1,
  ledger <- chat_rows, day <- today, up <- awake, faults <- chat_faults

Digests == INSTANCE ChatIntake WITH
  Talk <- Moods, Clouded <- Cloud, DefaultChannel <- "c", Limit <- 1,
  Budget <- 1, Cooldown <- 0, DigestWindow <- 0, Messages <- GapAndChat,
  Pipes <- {}, Callers <- {"contract", "digest"}, MaxDay <- 1, MaxRows <- 5,
  MaxFaults <- 0, ledger <- chat_rows, day <- today, up <- awake,
  faults <- chat_faults

Grants == INSTANCE McpServer WITH
  CallIds <- {"k1"}, Tokens <- {"ana"}, Changes <- GrantChanges,
  Tools <- {"propose_kpi", "propose_data_product", "query", "resource", "prompt"},
  MaxTime <- 0, MaxRows <- 6, MaxFaults <- 0

Confirms == INSTANCE McpServer WITH
  Tools <- {"confirm_proposal", "read_audit_trail"}, Tokens <- {"ana"},
  History <- Admin, MaxTime <- 0, MaxRows <- 6

ASSUME IntakeAssumption ==
  /\ Forms!BoundsAssumption /\ Polled!BoundsAssumption
  /\ Grants!RowsAssumption /\ Confirms!RowsAssumption

formsVars ==
  <<source_rows, stage, described, task, source_faults>>
polledVars ==
  <<chat_rows, arrived, posts, today, awake, chat_faults, pipe, gap, rx,
  asked, caller>>
StartOne ==
  /\ part \in {"forms", "offers", "drops", "lakes", "polled", "lurked", "mentioned", "gaps", "asks", "digests", "grants", "rates", "confirms"}
  /\ CASE part = "offers" -> Offered!Init
       [] part = "drops" -> Dropped!Init
       [] part = "lakes" -> Lakes!Init
       [] OTHER -> Forms!Init
  /\ CASE part = "lurked" -> Lurked!Init
       [] part = "mentioned" -> Mentioned!Init
       [] part = "gaps" -> Gaps!Init
       [] part = "asks" -> Asked!Init
       [] part = "digests" -> Digests!Init
       [] OTHER -> Polled!Init
  /\ IF part = "confirms" THEN Confirms!Init ELSE Init

StepOne ==
  \/ /\ part = "forms" /\ Forms!Next
     /\ UNCHANGED <<part, polledVars, vars>>
  \/ /\ part = "offers" /\ Offered!Next
     /\ UNCHANGED <<part, polledVars, vars>>
  \/ /\ part = "drops" /\ Dropped!Next
     /\ UNCHANGED <<part, polledVars, vars>>
  \/ /\ part = "lakes" /\ Lakes!Next
     /\ UNCHANGED <<part, polledVars, vars>>
  \/ /\ part = "polled" /\ Polled!Next
     /\ UNCHANGED <<part, formsVars, vars>>
  \/ /\ part = "lurked" /\ Lurked!Next
     /\ UNCHANGED <<part, formsVars, vars>>
  \/ /\ part = "mentioned" /\ Mentioned!Next
     /\ UNCHANGED <<part, formsVars, vars>>
  \/ part = "gaps" /\ Gaps!Next /\ UNCHANGED <<part, formsVars, vars>>
  \/ part = "asks" /\ Asked!Next /\ UNCHANGED <<part, formsVars, vars>>
  \/ /\ part = "digests" /\ Digests!Next
     /\ UNCHANGED <<part, formsVars, vars>>
  \/ /\ part = "grants" /\ Grants!Next
     /\ UNCHANGED <<part, formsVars, polledVars>>
  \/ part = "rates" /\ Next /\ UNCHANGED <<part, formsVars, polledVars>>
  \/ /\ part = "confirms" /\ Confirms!Next
     /\ UNCHANGED <<part, formsVars, polledVars>>

allVars == <<part, formsVars, polledVars, vars>>

OneSpec == StartOne /\ [][StepOne]_allVars

(* What is on record of sources is so, whatever flows overlap or fail.        *)
SourcesStand ==
  /\ part = "forms" => Forms!SourcesStand
  /\ part = "offers" => Offered!SourcesStand
  /\ part = "drops" => Dropped!SourcesStand
  /\ part = "lakes" => Lakes!SourcesStand

(* What comes in goes through the pipeline once and in order, and what the  *)
(* worm says stays within its budgets, with a true record of it.            *)
TalkStands ==
  /\ part = "polled" => Polled!IntakeStands
  /\ part = "polled" => Polled!TalkStands
  /\ part = "lurked" => Lurked!IntakeStands
  /\ part = "lurked" => Lurked!TalkStands
  /\ part = "mentioned" => Mentioned!IntakeStands
  /\ part = "mentioned" => Mentioned!TalkStands
  /\ part = "gaps" => Gaps!IntakeStands
  /\ part = "gaps" => Gaps!TalkStands
  /\ part = "asks" => Asked!IntakeStands
  /\ part = "asks" => Asked!TalkStands
  /\ part = "digests" => Digests!IntakeStands
  /\ part = "digests" => Digests!TalkStands
=============================================================================
