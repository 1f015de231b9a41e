---------------------------- MODULE AgentMetadata ----------------------------
(***************************************************************************)
(* The display name and the description of a registered agent: updated      *)
(* (update_agent_metadata) and reverted (revert_agent_metadata) by admins     *)
(* whose requests interleave, folded field by field from the ledger.  A row   *)
(* stands for a cycle; the rows of other components are left out.             *)
(***************************************************************************)
EXTENDS Integers, Sequences

CONSTANTS
  Named,       \* agent ids
  Names, Descriptions,
  RevertIds,   \* revert requests served concurrently
  MaxMetadataRows  \* bound on the ledger

NoText == "none"

ASSUME NoValue == NoText \notin Names \cup Descriptions
ASSUME MetadataBound == MaxMetadataRows \in Nat

VARIABLES
  metadataRows,  \* committed rows about agents, oldest first
  revert         \* revert_agent_metadata calls

metadataVars == <<metadataRows, revert>>

CommitMetadata(row) ==
  /\ Len(metadataRows) < MaxMetadataRows
  /\ metadataRows' = Append(metadataRows, row)

MetadataInit ==
  /\ metadataRows = <<>>
  /\ revert = [v \in RevertIds |-> [pc |-> "idle"]]

RowsAbout(rows, kind, a) ==
  {i \in 1 .. Len(rows) : rows[i].kind = kind /\ rows[i].agent = a}

Known(a) == RowsAbout(metadataRows, "registered", a) # {}

-----------------------------------------------------------------------------
(* The registration gives the agent its name; ids are minted, so once only. *)
RegisterNamed(a, n) ==
  /\ ~Known(a)
  /\ CommitMetadata([kind |-> "registered", agent |-> a, name |-> n])
  /\ UNCHANGED revert

(* An update sets the name, the description or both; the handler refuses a  *)
(* blank name and an update of nothing.                                     *)
MetadataRow(a, n, d, from) ==
  [kind |-> "metadata", agent |-> a, name |-> n, desc |-> d, from |-> from]

update_agent_metadata(a, n, d) ==
  /\ Known(a)
  /\ n # NoText \/ d # NoText
  /\ CommitMetadata(MetadataRow(a, n, d, 0))
  /\ UNCHANGED revert

LastOf(S) == CHOOSE i \in S : \A j \in S : j <= i

(* Field by field the newest value wins, the row at skip left out.          *)
fold_metadata(rows, a, skip) ==
  LET updates == RowsAbout(rows, "metadata", a) \ {skip}
      named == {i \in RowsAbout(rows, "registered", a) \cup updates : rows[i].name # NoText}
      told == {i \in updates : rows[i].desc # NoText}
  IN [name |-> rows[LastOf(named)].name,
      desc |-> IF told = {} THEN NoText ELSE rows[LastOf(told)].desc]

(* Fault: the update to be reverted is folded with the others.              *)
FoldPrior(rows, a) == fold_metadata(rows, a, 0)

prior_metadata(rows, a) == fold_metadata(rows, a, LastOf(RowsAbout(rows, "metadata", a)))

(* revert_agent_metadata: from one fetch, the newest update is the head and *)
(* the fold of the others is written back, each field set explicitly.       *)
RevertFetch(v, a) ==
  /\ revert[v].pc = "idle"
  /\ RowsAbout(metadataRows, "metadata", a) # {}
  /\ LET head == LastOf(RowsAbout(metadataRows, "metadata", a)) IN
     revert' = [revert EXCEPT ![v] =
       [pc |-> "write", agent |-> a, head |-> head,
        prior |-> prior_metadata(metadataRows, a)]]
  /\ UNCHANGED metadataRows

RevertWrite(v) ==
  /\ revert[v].pc = "write"
  /\ LET p == revert[v].prior IN
     CommitMetadata(MetadataRow(revert[v].agent, p.name,
                        IF p.desc = NoText THEN "" ELSE p.desc, revert[v].head))
  /\ revert' = [revert EXCEPT ![v] = [pc |-> "done"]]

-----------------------------------------------------------------------------
MetadataNext ==
  \/ \E a \in Named, n \in Names : RegisterNamed(a, n)
  \/ \E a \in Named, n \in Names \cup {NoText}, d \in Descriptions \cup {NoText} :
       update_agent_metadata(a, n, d)
  \/ \E v \in RevertIds, a \in Named : RevertFetch(v, a)
  \/ \E v \in RevertIds : RevertWrite(v)

MetadataSpec == MetadataInit /\ [][MetadataNext]_metadataVars

-----------------------------------------------------------------------------
(* The state a row of the ledger leaves an agent's metadata in: None and    *)
(* the empty description read the same.                                     *)
MetadataAt(a, n) ==
  LET m == fold_metadata(SubSeq(metadataRows, 1, n), a, 0) IN
  [m EXCEPT !.desc = IF @ = NoText THEN "" ELSE @]

(* A revert restores what was there before the update it reverts: each      *)
(* field, also one the reverted update had left alone, also when the         *)
(* reverted update is itself a revert, and also when other updates slipped   *)
(* in between its fetch and its write, which it then overwrites.             *)
RevertRestores ==
  \A a \in Named : \A i \in RowsAbout(metadataRows, "metadata", a) :
    LET head == metadataRows[i].from IN
    head # 0 => MetadataAt(a, i) = MetadataAt(a, head - 1)
=============================================================================
