------------------------------ MODULE Artifacts ------------------------------
(***************************************************************************)
(* Data products and notebooks of the worm-core service. A request that makes *)
(* a data product, makes it anew or replays it goes through several awaits:   *)
(* it fetches the ledger, reads or writes the object store, and commits a      *)
(* row; others commit in between, it may die after any of them, and the store  *)
(* may lose or alter what it keeps. A row of the ledger stands for a cycle.   *)
(***************************************************************************)
EXTENDS Integers, Sequences, FiniteSets, SequencesExt, TLC

CONSTANTS
  Requests,    \* handlers running at the same time
  Products, Notebooks,
  Kinds,       \* kinds of product
  Contents,    \* bytes a caller sends, and what they may turn into
  Cells,       \* lists of cells a notebook is proposed with
  MaxRows, MaxPuts, MaxFaults

NoContents == "none"     \* the caller sends no contents
NotBase64 == "garbled"   \* what it sends cannot be decoded

BoundsAssumption ==
  {MaxRows, MaxPuts, MaxFaults} \subseteq Nat /\ {NoContents, NotBase64} \cap Contents = {}

VARIABLES
  ledger,   \* committed rows, oldest first
  store,    \* store[uri]: [of, data, intact]
  req,      \* what each handler holds
  faults

vars == <<ledger, store, req, faults>>

Idle == [at |-> "idle"]

Init ==
  /\ ledger = <<>> /\ store = <<>> /\ faults = 0
  /\ req = [r \in Requests |-> Idle]

write(row) ==
  /\ Len(ledger) < MaxRows
  /\ ledger' = Append(ledger, row)

Of(rows, kind, id) == SelectSeq(rows, LAMBDA x : x.kind = kind /\ x.id = id)

-----------------------------------------------------------------------------
(* The object store names an artifact after the run that wrote it. The hash   *)
(* of bytes is taken for the bytes.                                          *)

NoUri == 0
NoHash == "zeros"

Uri(p) == Cardinality(DOMAIN store) + 1

put(p, data) ==
  /\ Cardinality(DOMAIN store) < MaxPuts
  /\ store' = (Uri(p) :> [of |-> p, data |-> data, intact |-> TRUE]) @@ store

-----------------------------------------------------------------------------
(* Data products.                                                           *)

Generated(p, as, uri, hash, by) ==
  [kind |-> "generated", id |-> p, as |-> as, uri |-> uri, hash |-> hash, by |-> by]

(* The kind of product the first proposal of p asks for.                    *)
proposed_kind(p) == LET s == Of(ledger, "proposed", p) IN IF s = <<>> THEN "" ELSE Head(s).as

Store(p, as, data, by, source) ==
  [at |-> "put", id |-> p, as |-> as, data |-> data, by |-> by, source |-> source]

(* A new product is proposed before its contents are looked at: contents     *)
(* that cannot be decoded leave a product without a generation.              *)
post_data_products(r, p, as, c) ==
  /\ req[r] = Idle
  /\ Of(ledger, "proposed", p) = <<>>
  /\ write([kind |-> "proposed", id |-> p, as |-> as])
  /\ req' = [req EXCEPT ![r] = IF c \in Contents THEN Store(p, as, c, "worm", NoHash) ELSE Idle]
  /\ UNCHANGED <<store, faults>>

(* A generation without contents is recorded all the same, under no address. *)
post_data_product_regenerate(r, p, c) ==
  /\ req[r] = Idle
  /\ proposed_kind(p) # ""
  /\ req' = [req EXCEPT ![r] =
       IF c \in Contents THEN Store(p, proposed_kind(p), c, "person", NoHash)
       ELSE [at |-> "write", row |-> Generated(p, proposed_kind(p), NoUri, NoHash, "person")]]
  /\ UNCHANGED <<ledger, store, faults>>

(* A replay starts from the last generation on the ledger.                  *)
last_generation(p) == Last(Of(ledger, "generated", p))

Replay(r, p, by) ==
  /\ req[r] = Idle
  /\ Of(ledger, "generated", p) # <<>> /\ Of(ledger, "proposed", p) # <<>>
  /\ req' = [req EXCEPT ![r] =
       [at |-> "get", gen |-> last_generation(p), by |-> by,
        as |-> Last(Of(ledger, "proposed", p)).as]]
  /\ UNCHANGED <<ledger, store, faults>>

get_data_product_replay(r, p) == Replay(r, p, "replay")
post_data_product_replay(r, p) == Replay(r, p, "strict")

(* An artifact that is not there ends the replay.                           *)
get(r) ==
  /\ req[r].at = "get"
  /\ LET q == req[r]
     IN req' = [req EXCEPT ![r] =
          IF q.gen.uri \in DOMAIN store /\ store[q.gen.uri].data # NoContents
          THEN Store(q.gen.id, q.as, store[q.gen.uri].data, q.by, q.gen.hash) ELSE Idle]
  /\ UNCHANGED <<ledger, store, faults>>

(* Fault: a strict replay records what it finds.                            *)
ReplayAny(q) == FALSE

replay_mismatch(q) == q.by = "strict" /\ q.data # q.source

(* The bytes are stored first, and stay when the replay is refused.          *)
store_artifact(r) ==
  /\ req[r].at = "put"
  /\ LET q == req[r]
     IN /\ put(q.id, q.data)
        /\ req' = [req EXCEPT ![r] =
             IF replay_mismatch(q) THEN Idle
             ELSE [at |-> "write", row |-> Generated(q.id, q.as, Uri(q.id), q.data, q.by)]]
  /\ UNCHANGED <<ledger, faults>>

(* The row a handler has been working for is committed.                     *)
Record(r) ==
  /\ req[r].at = "write"
  /\ write(req[r].row)
  /\ req' = [req EXCEPT ![r] = Idle]
  /\ UNCHANGED <<store, faults>>

consume_data_product(p) ==
  /\ write([kind |-> "consumed", id |-> p])
  /\ UNCHANGED <<store, req, faults>>

archive_data_product(p) ==
  /\ write([kind |-> "archived", id |-> p])
  /\ UNCHANGED <<store, req, faults>>

-----------------------------------------------------------------------------
(* Notebooks. The kernel runs the cells in turn: a cell that fails does not   *)
(* stop it, one that times out does. The hash of a cell stands for it and for *)
(* all before it.                                                            *)

propose_notebook(n, cells) ==
  /\ write([kind |-> "notebook", id |-> n, cells |-> cells])
  /\ UNCHANGED <<store, req, faults>>

fetch_notebook_proposal(n) == Head(Of(ledger, "notebook", n)).cells

kernel_run(cells, outcome) ==
  LET cut == {i \in DOMAIN cells : cells[i] = "code" /\ outcome[i] = "timeout"}
      ran == IF cut = {} THEN Len(cells) ELSE CHOOSE i \in cut : \A j \in cut : i <= j
      out == [i \in 1 .. ran |-> IF cells[i] = "markdown" THEN "ok" ELSE outcome[i]]
  IN [outputs |-> out, hashes |-> [i \in 1 .. ran |-> SubSeq(cells, 1, i)],
      status |-> IF \A i \in 1 .. ran : out[i] = "ok" THEN "ok" ELSE "error"]

(* A cell of another kind than code and text is refused before any runs.     *)
post_notebook_run(r, n) ==
  /\ req[r] = Idle
  /\ Of(ledger, "notebook", n) # <<>>
  /\ LET cells == fetch_notebook_proposal(n)
     IN /\ Range(cells) \subseteq {"code", "markdown"}
        /\ \E outcome \in [DOMAIN cells -> {"ok", "error", "timeout"}] :
             req' = [req EXCEPT ![r] =
               [at |-> "write", row |-> [kind |-> "run", id |-> n] @@ kernel_run(cells, outcome)]]
  /\ UNCHANGED <<ledger, store, faults>>

(* Whether the notebook or the run exists is not asked. Signing is publishing *)
(* with a receipt for the caller.                                            *)
publish_notebook(n) ==
  /\ write([kind |-> "published", id |-> n])
  /\ UNCHANGED <<store, req, faults>>

archive_notebook(n) ==
  /\ write([kind |-> "notebook_archived", id |-> n])
  /\ UNCHANGED <<store, req, faults>>

-----------------------------------------------------------------------------
Fail == faults < MaxFaults /\ faults' = faults + 1

Die(r) ==
  /\ req[r] # Idle /\ Fail
  /\ req' = [req EXCEPT ![r] = Idle]
  /\ UNCHANGED <<ledger, store>>

(* The disk alters an artifact, or loses it.                                *)
Alter(u, c) ==
  /\ Fail /\ store[u].data # c
  /\ store' = [store EXCEPT ![u].data = c, ![u].intact = FALSE]
  /\ UNCHANGED <<ledger, req>>

Lose(u) ==
  /\ Fail
  /\ store' = [store EXCEPT ![u].intact = FALSE, ![u].data = NoContents]
  /\ UNCHANGED <<ledger, req>>

Handle(r) ==
  \/ \E p \in Products :
       \/ \E as \in Kinds, c \in Contents \cup {NoContents, NotBase64} :
            post_data_products(r, p, as, c)
       \/ \E c \in Contents \cup {NoContents} : post_data_product_regenerate(r, p, c)
       \/ get_data_product_replay(r, p)
       \/ post_data_product_replay(r, p)
  \/ get(r) \/ store_artifact(r) \/ Record(r)
  \/ \E n \in Notebooks : post_notebook_run(r, n)
  \/ Die(r)

Next ==
  \/ \E r \in Requests : Handle(r)
  \/ \E p \in Products : consume_data_product(p) \/ archive_data_product(p)
  \/ \E n \in Notebooks : \/ \E cells \in Cells : propose_notebook(n, cells)
                          \/ publish_notebook(n)
                          \/ archive_notebook(n)
  \/ \E u \in DOMAIN store : Lose(u) \/ \E c \in Contents : Alter(u, c)

Spec == Init /\ [][Next]_vars

-----------------------------------------------------------------------------
(* The tables the projection builds, and what the gateway's reader says of a  *)
(* product.                                                                  *)

NoRow == [status |-> "none", hash |-> NoHash, uri |-> NoUri]
Proposed == [status |-> "proposed", hash |-> NoHash, uri |-> NoUri]

apply_data_product(t, x) ==
  CASE x.kind = "proposed" -> Proposed
    [] x.kind = "generated" /\ t # NoRow ->
         [status |-> "generated", hash |-> x.hash, uri |-> x.uri]
    [] x.kind = "archived" /\ t # NoRow -> [t EXCEPT !.status = "archived"]
    [] OTHER -> t

data_products(rows, p) ==
  FoldLeft(apply_data_product, NoRow, SelectSeq(rows, LAMBDA x : x.id = p))

-----------------------------------------------------------------------------
Generations == {i \in DOMAIN ledger : ledger[i].kind = "generated"}

(* The bytes a generation was recorded for stay under its address, whatever   *)
(* was generated, replayed or lost since (http_api.py, storage.py).          *)
ContentsKept ==
  \A i \in Generations :
    LET g == ledger[i]
    IN g.uri # NoUri =>
         /\ g.uri \in DOMAIN store
         /\ store[g.uri].intact => store[g.uri].data = g.hash
         /\ \A j \in Generations \ {i} : ledger[j].uri # g.uri

(* A generation follows the proposal of its product and is of its kind; what  *)
(* a strict replay records has the hash of a generation before it, even if    *)
(* the artifact was altered meanwhile (data_product_actions.py).             *)
ReplaysMatch ==
  \A i \in Generations :
    LET g == ledger[i]
        before == SubSeq(ledger, 1, i - 1)
    IN /\ \E k \in DOMAIN before : before[k] = [kind |-> "proposed", id |-> g.id, as |-> g.as]
       /\ g.by = "strict" =>
            \E k \in DOMAIN before : /\ before[k].kind = "generated" /\ before[k].id = g.id
                                     /\ before[k].hash = g.hash

(* A run that says ok has run every cell of the notebook as it was first      *)
(* proposed (notebook_kernel.py).                                            *)
RunsTell ==
  \A i \in DOMAIN ledger : ledger[i].kind = "run" /\ ledger[i].status = "ok" =>
    LET cells == Head(Of(ledger, "notebook", ledger[i].id)).cells
    IN Last(<<<<>>>> \o ledger[i].hashes) = cells /\ Len(ledger[i].outputs) = Len(cells)

(* Where the table says a product's contents are, the store has contents of   *)
(* that product with the hash the table names (builder.py).                  *)
TableTells ==
  \A p \in Products :
    LET t == data_products(ledger, p)
    IN t.uri # NoUri =>
         /\ store[t.uri].of = p
         /\ store[t.uri].intact => store[t.uri].data = t.hash

(* What is on record of products and notebooks is so, whatever requests       *)
(* overlap, die or are refused and whatever the disk does.                   *)
ArtifactsStand == ContentsKept /\ ReplaysMatch /\ RunsTell /\ TableTells
=============================================================================
