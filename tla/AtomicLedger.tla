---------------------------- MODULE AtomicLedger ----------------------------
(***************************************************************************)
(* What packages/ledger promises its callers: every company owns a log, and *)
(* one write extends one log, in one step, by a propose/execute/verify/     *)
(* resolve cycle whose entries are chained to the log's last entry.         *)
(* Transactions, row locks and collisions are not visible.                  *)
(***************************************************************************)
EXTENDS Integers, Sequences

CONSTANTS Companies, Times

VARIABLE log     \* log[c]: the entries of company c, oldest first

Cycle == <<"propose", "execute", "verify", "resolve">>

ChainHead(c) == IF log[c] = <<>> THEN 0 ELSE log[c][Len(log[c])].hash

Used == UNION {{log[c][i].hash : i \in 1 .. Len(log[c])} : c \in Companies}

(* The four entries with hashes h[1..4] written at time t.                  *)
Entries(c, h, t) ==
  [i \in 1 .. 4 |-> [kind |-> Cycle[i], ts |-> t, hash |-> h[i],
                     prev |-> IF i = 1 THEN ChainHead(c) ELSE h[i - 1]]]

Init == log = [c \in Companies |-> <<>>]

(* Ledger.write as a caller sees it: fresh hashes, appended all at once.    *)
Write(c, h, t) ==
  /\ \A i \in 1 .. 4 : h[i] \in Nat \ (Used \cup {0})
  /\ \A i, j \in 1 .. 4 : i # j => h[i] # h[j]
  /\ log' = [log EXCEPT ![c] = @ \o Entries(c, h, t)]

(* Hashes are unbounded, so a step's h is read off the entries it appended. *)
Appended(c) == [i \in 1 .. 4 |-> log'[c][Len(log[c]) + i].hash]

Next ==
  \E c \in Companies, t \in Times :
    /\ Len(log'[c]) = Len(log[c]) + 4
    /\ Write(c, Appended(c), t)

Spec == Init /\ [][Next]_log
=============================================================================
