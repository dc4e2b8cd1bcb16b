---------------------------- MODULE FencingProofs ---------------------------
(***************************************************************************)
(* Type correctness and fencing, for any number of workers, operations,    *)
(* tokens and steps, for both stores and without any timing assumption:    *)
(* FencingInv is inductive.                                                *)
(***************************************************************************)
EXTENDS SluiceInv, TronNodeProofs

\* Zenon takes every leaf that names no other prover.
USE Zenon

-----------------------------------------------------------------------------
(*                            Small facts                                  *)

(* The terminal states, and the ones a row may still leave. *)
LEMMA States ==
  /\ TERMINAL = {"confirmed", "failed", "rejected"}
  /\ CLAIMABLE = {"requested", "validated", "signing", "signed", "broadcasting", "broadcast"}
  /\ "absent" \notin OpState
<1>1. \A s \in OpState : TRANSITIONS[s] = {} <=> s \in {"confirmed", "failed", "rejected"}
  BY DEF OpState, TRANSITIONS
<1>2. TERMINAL = {"confirmed", "failed", "rejected"}
  BY <1>1 DEF TERMINAL, OpState
<1>3. QED
  BY <1>2 DEF CLAIMABLE, OpState

(* What a cas commits: the state and the lease, everything else as given. *)
LEMMA CommittedRow ==
  ASSUME NEW r \in Rows, NEW to \in OpState, now \in Nat
  PROVE  /\ Committed(r, to) \in Rows
         /\ Committed(r, to).state = to
         /\ Committed(r, to).token = r.token
         /\ Committed(r, to).attempts = r.attempts
         /\ Committed(r, to).txid = r.txid
         /\ Committed(r, to).signed = r.signed
<1>1. (IF to \in TERMINAL THEN NoLease ELSE now + Lease) \in Nat \cup {NoLease}
  BY StoreAssumption, SMT
<1>2. QED
  BY <1>1 DEF Committed, Rows

(* What a release writes. *)
LEMMA ReleasedRow ==
  ASSUME NEW r \in Rows
  PROVE  LET s == [r EXCEPT !.lease = NoLease] IN
         /\ s \in Rows /\ s.state = r.state /\ s.token = r.token
         /\ s.txid = r.txid /\ s.signed = r.signed
BY DEF Rows

(* A worker's move leaves every other worker's memory alone. *)
OthersKept(w) ==
  \A v \in Workers \ {w} :
    /\ pc'[v] = pc[v] /\ cur'[v] = cur[v] /\ mine'[v] = mine[v] /\ snap'[v] = snap[v]
    /\ draft'[v] = draft[v] /\ answer'[v] = answer[v] /\ seen'[v] = seen[v]

(* The types of what the loop of _drive keeps. *)
DriveTypes ==
  /\ pc \in [Workers -> Labels]
  /\ cur \in [Workers -> Ops \cup {NoOp}]
  /\ mine \in [Workers -> SUBSET Ops]
  /\ before \in [Workers -> OpState \cup {"absent"}]
  /\ steps \in [Workers -> Nat]

(* Where a worker is after its claim on an operation has ended, and what   *)
(* it has left of its batch.                                               *)
LEMMA NextOpShape ==
  ASSUME TypeOK, NEW w \in Workers, NextOp(w)
  PROVE  /\ DriveTypes'
         /\ \A v \in Workers \ {w} : pc'[v] = pc[v] /\ cur'[v] = cur[v] /\ mine'[v] = mine[v]
         /\ pc'[w] \in {"idle", "step"}
         /\ pc'[w] # "idle" => cur'[w] \in mine'[w]
         /\ mine'[w] = mine[w] \ {cur[w]}
<1> DEFINE left == mine[w] \ {cur[w]}
<1>1. /\ mine' = [mine EXCEPT ![w] = left]
      /\ steps' = [steps EXCEPT ![w] = 0]
      /\ left \in SUBSET Ops
  BY DEF NextOp, TypeOK
<1>2. CASE /\ left = {} /\ Goto(w, "idle")
           /\ cur' = [cur EXCEPT ![w] = NoOp]
           /\ before' = [before EXCEPT ![w] = "absent"]
  BY <1>1, <1>2 DEF Goto, TypeOK, DriveTypes, Labels
<1>3. ASSUME NEW o \in left, Goto(w, "step"),
             cur' = [cur EXCEPT ![w] = o],
             before' = [before EXCEPT ![w] = snap[w][o].state]
      PROVE  /\ DriveTypes'
             /\ \A v \in Workers \ {w} : pc'[v] = pc[v] /\ cur'[v] = cur[v] /\ mine'[v] = mine[v]
             /\ pc'[w] \in {"idle", "step"}
             /\ pc'[w] # "idle" => cur'[w] \in mine'[w]
             /\ mine'[w] = left
  <2>1. o \in Ops /\ snap[w][o] \in Rows /\ snap[w][o].state \in OpState \cup {"absent"}
    BY SMT DEF TypeOK, Rows
  <2>2. QED
    BY <1>1, <1>3, <2>1 DEF Goto, TypeOK, DriveTypes, Labels
<1>4. QED
  BY <1>2, <1>3 DEF NextOp

(* The same after a handler has returned the operation in state to. *)
LEMMA StepReturnedShape ==
  ASSUME TypeOK, NEW w \in Workers, NEW to \in OpState, cur[w] \in mine[w], StepReturned(w, to)
  PROVE  /\ DriveTypes'
         /\ \A v \in Workers \ {w} : pc'[v] = pc[v] /\ cur'[v] = cur[v] /\ mine'[v] = mine[v]
         /\ pc'[w] \in {"idle", "step", "release"}
         /\ pc'[w] # "idle" => cur'[w] \in mine'[w]
         /\ to \in TERMINAL => mine'[w] = mine[w] \ {cur[w]}
         /\ to \notin TERMINAL => mine'[w] = mine[w] /\ cur'[w] = cur[w]
<1>1. CASE to \in TERMINAL /\ NextOp(w)
  BY <1>1, NextOpShape
<1>2. CASE to \notin TERMINAL /\ Goto(w, "release") /\ UNCHANGED driveVars
  BY <1>2 DEF driveVars, Goto, TypeOK, DriveTypes, Labels
<1>3. CASE /\ to \notin TERMINAL /\ Goto(w, "step")
           /\ before' = [before EXCEPT ![w] = to]
           /\ steps' = [steps EXCEPT ![w] = @ + 1]
           /\ UNCHANGED <<cur, mine>>
  BY <1>3, SMT DEF Goto, TypeOK, DriveTypes, Labels
<1>4. QED
  BY <1>1, <1>2, <1>3 DEF StepReturned

-----------------------------------------------------------------------------
(*             Coherence and fencing, by the kind of a step                *)

(* The log only grows. *)
LogGrows ==
  \A o \in Ops : all_txids[o] \subseteq all_txids'[o] /\ writeAhead[o] \subseteq writeAhead'[o]

(* A good row stays good while the log grows. *)
LEMMA RowGoodGrows ==
  ASSUME NEW r, NEW pay, NEW b1, NEW s1, NEW b2, NEW s2,
         b1 \subseteq b2, s1 \subseteq s2, RowGood(r, pay, b1, s1)
  PROVE  RowGood(r, pay, b2, s2)
BY DEF RowGood

(* A cas that matches: the row and the writer's copy become the same good  *)
(* row under the same token; every other copy of the row is of an older    *)
(* token already.                                                          *)
LEMMA WriteKeeps ==
  ASSUME FencingInv, NEW w \in Workers, NEW row \in Rows,
         cur[w] \in mine[w], Write(w, row), OthersKept(w), LogGrows,
         row.token = rows[cur[w]].token,
         row.state \in OpState,
         RowGood(row, Pay[cur[w]], all_txids'[cur[w]], writeAhead'[cur[w]]),
         mine'[w] \subseteq mine[w],
         row.state \in TERMINAL => cur[w] \notin mine'[w]
  PROVE  /\ rows' \in [Ops -> Rows] /\ snap' \in [Workers -> [Ops -> Rows]]
         /\ rows'[cur[w]] = row
         /\ row.state \notin TERMINAL => snap'[w][cur[w]] = row
         /\ \A v \in Workers : \A o \in mine'[v] : rows'[o].state # "absent"
         /\ Coherent' /\ SingleWriter'
<1> DEFINE c == cur[w]
<1>1. /\ c \in Ops /\ rows \in [Ops -> Rows] /\ snap \in [Workers -> [Ops -> Rows]]
      /\ mine \in [Workers -> SUBSET Ops]
  BY DEF FencingInv, TypeOK
<1>2. /\ rows' = [rows EXCEPT ![c] = row]
      /\ snap' = [snap EXCEPT ![w][c] = IF row.state \in TERMINAL THEN NoRow ELSE row]
      /\ rows[c].token = snap[w][c].token
  BY DEF Write, CasHit, CasMatches, op
<1>3. NoRow \in Rows
  BY DEF NoRow, Rows, NoLease
<1>4. /\ rows' \in [Ops -> Rows] /\ snap' \in [Workers -> [Ops -> Rows]]
      /\ rows'[c] = row /\ \A o \in Ops \ {c} : rows'[o] = rows[o]
      /\ row.state \notin TERMINAL => snap'[w][c] = row
      /\ \A o \in Ops \ {c} : snap'[w][o] = snap[w][o]
  BY <1>1, <1>2, <1>3
<1>5. /\ \A v \in Workers : mine'[v] \subseteq mine[v] /\ mine[v] \subseteq Ops
      /\ \A v \in Workers \ {w} : mine'[v] = mine[v] /\ snap'[v] = snap[v]
      /\ c \in mine'[w] => row.state \notin TERMINAL /\ snap'[w][c] = row
  BY <1>1, <1>4 DEF OthersKept
<1> HIDE DEF c
<1>6. \A v \in Workers : \A o \in mine'[v] : rows'[o].state # "absent"
  BY <1>4, <1>5, States DEF FencingInv, Control
<1>7. Coherent'
  <2>1. \A o \in Ops : RowGood(rows'[o], Pay[o], all_txids'[o], writeAhead'[o])
    BY <1>4, RowGoodGrows DEF FencingInv, Coherent, LogGrows, c
  <2>2. ASSUME NEW v \in Workers, NEW o \in mine'[v]
        PROVE  RowGood(snap'[v][o], Pay[o], all_txids'[o], writeAhead'[o])
    <3>1. o \in mine[v] /\ o \in Ops
      BY <1>5
    <3>2. CASE v = w /\ o = c
      BY <1>5, <2>2, <3>2 DEF c
    <3>3. CASE ~(v = w /\ o = c)
      <4>1. snap'[v][o] = snap[v][o]
        BY <1>4, <1>5, <3>1, <3>3
      <4>2. QED
        BY <3>1, <4>1, RowGoodGrows DEF FencingInv, Coherent, LogGrows
    <3>4. QED
      BY <3>2, <3>3
  <2>3. QED
    BY <2>1, <2>2 DEF Coherent
<1>8. SingleWriter'
  <2>1. ASSUME NEW v \in Workers, NEW o \in mine'[v]
        PROVE  /\ o \in mine[v] /\ o \in Ops
               /\ snap'[v][o].token = snap[v][o].token
               /\ rows'[o].token = rows[o].token
               /\ snap'[v][o].token = rows'[o].token => snap'[v][o] = rows'[o]
    <3>1. o \in mine[v] /\ o \in Ops
      BY <1>5
    <3>2. rows'[o].token = rows[o].token
      BY <1>4, <3>1 DEF c
    <3>3. CASE v = w /\ o = c
      BY <1>2, <1>4, <1>5, <2>1, <3>1, <3>2, <3>3 DEF c
    <3>4. CASE v = w /\ o # c
      BY <1>4, <3>1, <3>2, <3>4 DEF FencingInv, SingleWriter
    <3>5. CASE v # w /\ o # c
      BY <1>4, <1>5, <3>1, <3>2, <3>5, SMT DEF FencingInv, SingleWriter
    <3>6. CASE v # w /\ o = c
      <4>1. snap'[v] = snap[v] /\ snap[v][c].token # snap[w][c].token
        BY <1>5, <3>1, <3>6, SMT DEF FencingInv, SingleWriter, c
      <4>2. QED
        BY <1>2, <3>1, <3>2, <3>6, <4>1
    <3>7. QED
      BY <3>3, <3>4, <3>5, <3>6
  <2>2. QED
    BY <2>1, SMT DEF FencingInv, SingleWriter
<1>9. QED
  BY <1>4, <1>6, <1>7, <1>8 DEF c

(* A step that writes no row, and forgets copies at most. *)
LEMMA LocalKeeps ==
  ASSUME FencingInv, NEW w \in Workers, OthersKept(w), UNCHANGED storeVars,
         mine'[w] \subseteq mine[w],
         \A o \in mine'[w] : snap'[w][o] = snap[w][o]
  PROVE  /\ \A v \in Workers : \A o \in mine'[v] : rows'[o].state # "absent"
         /\ Coherent' /\ SingleWriter'
<1>1. /\ rows' = rows /\ all_txids' = all_txids /\ writeAhead' = writeAhead
      /\ \A v \in Workers : mine'[v] \subseteq mine[v]
      /\ \A v \in Workers : \A o \in mine'[v] : snap'[v][o] = snap[v][o]
  BY DEF storeVars, OthersKept
<1>2. QED
  BY <1>1, SMT DEF FencingInv, Control, Coherent, SingleWriter

(* release: the lease of a row is touched by the one worker that holds its *)
(* token, and that worker drops its copy.                                  *)
LEMMA ReleaseKeeps ==
  ASSUME FencingInv, NEW w \in Workers, OthersKept(w), cur[w] \in mine[w],
         release(cur[w], snap[w][cur[w]].token),
         mine'[w] \subseteq mine[w] \ {cur[w]},
         \A o \in mine'[w] : snap'[w][o] = snap[w][o]
  PROVE  /\ rows' \in [Ops -> Rows]
         /\ \A v \in Workers : \A o \in mine'[v] : rows'[o].state # "absent"
         /\ Coherent' /\ SingleWriter'
<1> DEFINE c == cur[w]
<1>1. /\ c \in Ops /\ rows \in [Ops -> Rows] /\ snap \in [Workers -> [Ops -> Rows]]
      /\ mine \in [Workers -> SUBSET Ops]
  BY DEF FencingInv, TypeOK
<1>2. /\ all_txids' = all_txids /\ writeAhead' = writeAhead
      /\ \/ rows' = rows
         \/ rows[c].token = snap[w][c].token /\ rows' = [rows EXCEPT ![c].lease = NoLease]
  BY DEF release
<1>3. /\ \A v \in Workers : mine'[v] \subseteq mine[v] /\ mine[v] \subseteq Ops
      /\ \A v \in Workers : \A o \in mine'[v] : snap'[v][o] = snap[v][o]
      /\ c \notin mine'[w]
  BY <1>1 DEF OthersKept
<1>4. CASE rows' = rows
  BY <1>1, <1>2, <1>3, <1>4, SMT DEF FencingInv, Control, Coherent, SingleWriter
<1>5. CASE rows[c].token = snap[w][c].token /\ rows' = [rows EXCEPT ![c].lease = NoLease]
  <2>1. /\ rows' \in [Ops -> Rows]
        /\ \A o \in Ops \ {c} : rows'[o] = rows[o]
        /\ rows'[c].state = rows[c].state /\ rows'[c].token = rows[c].token
        /\ rows'[c].txid = rows[c].txid /\ rows'[c].signed = rows[c].signed
    <3> DEFINE r == [rows[c] EXCEPT !.lease = NoLease]
    <3>1. rows' = [rows EXCEPT ![c] = r]
      BY <1>5
    <3>2. /\ r \in Rows /\ r.state = rows[c].state /\ r.token = rows[c].token
          /\ r.txid = rows[c].txid /\ r.signed = rows[c].signed
      <4>1. rows[c] \in Rows
        BY <1>1
      <4> HIDE DEF c
      <4>2. QED
        BY <4>1, ReleasedRow
    <3> HIDE DEF r, c
    <3>3. QED
      BY <1>1, <3>1, <3>2
  <2>2. \A v \in Workers \ {w} : c \in mine'[v] => snap[v][c].token # rows[c].token
    BY <1>3, <1>5, SMT DEF FencingInv, SingleWriter
  <2>3. \A o \in Ops : rows'[o].state = rows[o].state /\ rows'[o].token = rows[o].token
                      /\ rows'[o].txid = rows[o].txid /\ rows'[o].signed = rows[o].signed
    BY <2>1
  <2>4. \A v \in Workers : \A o \in mine'[v] : rows'[o].state # "absent"
    BY <1>3, <2>3 DEF FencingInv, Control
  <2>5. Coherent'
    <3>1. \A o \in Ops : RowGood(rows'[o], Pay[o], all_txids'[o], writeAhead'[o])
      BY <1>2, <2>3, SMT DEF FencingInv, Coherent, RowGood
    <3>2. QED
      BY <1>2, <1>3, <3>1 DEF FencingInv, Coherent
  <2>6. SingleWriter'
    <3>1. ASSUME NEW v \in Workers, NEW o \in mine'[v]
          PROVE  /\ o \in mine[v] /\ o \in Ops /\ snap'[v][o] = snap[v][o]
                 /\ snap'[v][o].token = rows'[o].token => snap'[v][o] = rows'[o]
      <4>1. o \in mine[v] /\ o \in Ops /\ snap'[v][o] = snap[v][o]
        BY <1>3
      <4>2. CASE o = c
        BY <1>3, <2>2, <2>3, <4>1, <4>2, SMT
      <4>3. CASE o # c
        BY <2>1, <4>1, <4>3, SMT DEF FencingInv, SingleWriter
      <4>4. QED
        BY <4>1, <4>2, <4>3
    <3>2. QED
      BY <2>3, <3>1, SMT DEF FencingInv, SingleWriter
  <2>7. QED
    BY <2>1, <2>4, <2>5, <2>6
<1>6. QED
  BY <1>2, <1>4, <1>5

(* What a claim writes: a new token and a lease. *)
LEMMA ClaimedRow ==
  ASSUME TypeOK, NEW o \in Ops
  PROVE  /\ claimed(o) \in Rows
         /\ claimed(o).token = rows[o].token + 1
         /\ claimed(o).state = rows[o].state
         /\ claimed(o).txid = rows[o].txid /\ claimed(o).signed = rows[o].signed
<1>1. rows[o] \in Rows /\ now + Lease \in Nat
  BY StoreAssumption, SMT DEF TypeOK, NodeTypeOK
<1>2. ASSUME NEW r \in Rows, NEW l \in Nat
      PROVE  LET s == [r EXCEPT !.token = @ + 1, !.lease = l] IN
             /\ s \in Rows /\ s.token = r.token + 1 /\ s.state = r.state
             /\ s.txid = r.txid /\ s.signed = r.signed
  <2>1. r.token + 1 \in Nat
    BY SMT DEF Rows
  <2>2. QED
    BY <2>1 DEF Rows
<1>3. QED
  BY <1>1, <1>2 DEF claimed

(* claim picks rows that are there and not finished. *)
LEMMA PickedRows ==
  ASSUME NEW P \in Batches
  PROVE  P \subseteq Ops /\ \A o \in P : rows[o].state \in CLAIMABLE
BY DEF Batches, Oldest, Eligible

(* claim hands its rows out under tokens above every token out there. *)
LEMMA ClaimKeeps ==
  ASSUME FencingInv, NEW w \in Workers, OthersKept(w), Claim(w)
  PROVE  /\ rows' \in [Ops -> Rows] /\ snap' \in [Workers -> [Ops -> Rows]]
         /\ \A v \in Workers : \A o \in mine'[v] : rows'[o].state # "absent"
         /\ Coherent' /\ SingleWriter'
<1>0. PICK P \in Batches :
        /\ claim(P)
        /\ snap' = [snap EXCEPT ![w] = [o \in Ops |-> IF o \in P THEN claimed(o) ELSE NoRow]]
        /\ mine' = [mine EXCEPT ![w] = P]
  BY DEF Claim
<1>1. /\ rows \in [Ops -> Rows] /\ snap \in [Workers -> [Ops -> Rows]]
      /\ mine \in [Workers -> SUBSET Ops]
  BY DEF FencingInv, TypeOK
<1>2. /\ rows' = [o \in Ops |-> IF o \in P THEN claimed(o) ELSE rows[o]]
      /\ snap' = [snap EXCEPT ![w] = [o \in Ops |-> IF o \in P THEN claimed(o) ELSE NoRow]]
      /\ mine' = [mine EXCEPT ![w] = P]
      /\ all_txids' = all_txids /\ writeAhead' = writeAhead
  BY <1>0 DEF claim
<1>3. P \subseteq Ops /\ \A o \in P : rows[o].state \in CLAIMABLE
  BY PickedRows
<1>4. NoRow \in Rows
  BY DEF NoRow, Rows, NoLease
<1>5. \A o \in Ops : /\ claimed(o) \in Rows
                     /\ claimed(o).token = rows[o].token + 1
                     /\ claimed(o).state = rows[o].state
                     /\ claimed(o).txid = rows[o].txid /\ claimed(o).signed = rows[o].signed
  BY ClaimedRow DEF FencingInv
<1>6. /\ rows' \in [Ops -> Rows]
      /\ snap' \in [Workers -> [Ops -> Rows]]
  BY <1>1, <1>2, <1>4, <1>5
<1>7. /\ mine'[w] = P /\ \A o \in P : snap'[w][o] = rows'[o] /\ rows'[o] = claimed(o)
      /\ \A v \in Workers \ {w} : mine'[v] = mine[v] /\ snap'[v] = snap[v] /\ mine[v] \subseteq Ops
      /\ \A o \in Ops \ P : rows'[o] = rows[o]
  BY <1>1, <1>2, <1>3
<1>8. \A o \in Ops : /\ rows'[o].state = rows[o].state
                     /\ rows'[o].txid = rows[o].txid /\ rows'[o].signed = rows[o].signed
                     /\ rows[o].token \in Nat
                     /\ rows'[o].token = IF o \in P THEN rows[o].token + 1 ELSE rows[o].token
  BY <1>1, <1>5, <1>7, SMT DEF Rows
<1>9. \A v \in Workers : \A o \in mine'[v] : rows'[o].state # "absent"
  BY <1>3, <1>7, <1>8, States, SMT DEF FencingInv, Control
<1>10. Coherent'
  <2>1. \A o \in Ops : RowGood(rows'[o], Pay[o], all_txids'[o], writeAhead'[o])
    BY <1>2, <1>8, SMT DEF FencingInv, Coherent, RowGood
  <2>2. QED
    BY <1>2, <1>3, <1>7, <2>1, ZenonT(30) DEF FencingInv, Coherent
<1>11. SingleWriter'
  <2>1. \A v \in Workers \ {w} : \A o \in mine[v] :
          snap[v][o].token \in Nat /\ snap[v][o].token <= rows[o].token
    BY <1>1, SMT DEF FencingInv, SingleWriter, Rows
  <2>2. ASSUME NEW v \in Workers, NEW o \in mine'[v]
        PROVE  /\ snap'[v][o].token <= rows'[o].token
               /\ snap'[v][o].token = rows'[o].token => snap'[v][o] = rows'[o]
               /\ \A u \in Workers \ {v} : o \in mine'[u] => snap'[u][o].token # snap'[v][o].token
    <3>1. CASE v = w
      <4>1. o \in P /\ o \in Ops /\ snap'[w][o] = rows'[o]
        BY <1>3, <1>7, <3>1
      <4>2. \A u \in Workers \ {w} : o \in mine'[u] => snap'[u][o].token # snap'[w][o].token
        BY <1>7, <1>8, <2>1, <4>1, SMT
      <4>3. QED
        BY <1>8, <3>1, <4>1, <4>2, SMT
    <3>2. CASE v # w
      <4>1. o \in mine[v] /\ o \in Ops /\ snap'[v][o] = snap[v][o]
        BY <1>7, <3>2
      <4>2. CASE o \in P
        BY <1>7, <1>8, <2>1, <3>2, <4>1, <4>2, SMT DEF FencingInv, SingleWriter
      <4>3. CASE o \notin P
        <5>1. rows'[o] = rows[o] /\ o \notin mine'[w]
          BY <1>7, <4>1, <4>3
        <5>2. QED
          BY <1>7, <3>2, <4>1, <5>1, SMT DEF FencingInv, SingleWriter
      <4>4. QED
        BY <4>2, <4>3
    <3>3. QED
      BY <3>1, <3>2
  <2>3. QED
    BY <2>2 DEF SingleWriter
<1>12. QED
  BY <1>6, <1>9, <1>10, <1>11

-----------------------------------------------------------------------------
(*               The invariant, by the form of a handler                   *)

LocalTypes ==
  /\ draft \in [Workers -> Txids \cup {NoTx}]
  /\ answer \in [Workers -> BroadcastCode \cup Receipts \cup {NoAnswer}]
  /\ seen \in [Workers -> Nat]

(* Only w's own local variables move. *)
LocalsMove(w) ==
  /\ LocalTypes'
  /\ \A v \in Workers \ {w} :
       draft'[v] = draft[v] /\ answer'[v] = answer[v] /\ seen'[v] = seen[v]

StoreTypes ==
  /\ rows \in [Ops -> Rows]
  /\ arrival \in [Ops -> SUBSET Ops]
  /\ all_txids \in [Ops -> SUBSET Txids]
  /\ writeAhead \in [Ops -> SUBSET Txids]

(* The labels of the workers that did not move still tell the truth. *)
LEMMA ControlOfOthers ==
  ASSUME NEW w \in Workers, OthersKept(w), NEW v \in Workers \ {w}, ControlOf(v)
  PROVE  ControlOf(v)'
BY SMT DEF OthersKept, ControlOf, op

(* A step of w keeps the invariant if it keeps its parts. *)
LEMMA Assemble ==
  ASSUME FencingInv, NEW w \in Workers, OthersKept(w), ControlOf(w)',
         NodeTypeOK', ChainRules', StoreTypes', DriveTypes', LocalTypes',
         snap' \in [Workers -> [Ops -> Rows]],
         \A v \in Workers : \A o \in mine'[v] : rows'[o].state # "absent",
         Coherent', SingleWriter'
  PROVE  FencingInv'
<1>1. TypeOK'
  BY DEF TypeOK, StoreTypes, DriveTypes, LocalTypes
<1>2. \A v \in Workers : ControlOf(v)'
  BY ControlOfOthers, SMT DEF FencingInv, Control
<1>3. Control'
  BY <1>2 DEF Control
<1>4. QED
  BY <1>1, <1>3 DEF FencingInv

(* Handlers that end in a cas. *)
LEMMA WriteReturnKeeps ==
  ASSUME FencingInv, NEW w \in Workers, NEW row \in Rows, pc[w] # "idle",
         row.token = rows[cur[w]].token,
         row.state \in OpState,
         RowGood(row, Pay[cur[w]], all_txids[cur[w]], writeAhead[cur[w]]),
         WriteAndReturn(w, row), LocalsMove(w)
  PROVE  FencingInv'
<1>1. TypeOK /\ cur[w] \in mine[w] /\ mine[w] \subseteq Ops
  BY DEF FencingInv, Control, ControlOf, TypeOK
<1>2. /\ Write(w, row) /\ StepReturned(w, row.state)
      /\ all_txids' = all_txids /\ writeAhead' = writeAhead
      /\ NodeTypeOK' /\ ChainRules' /\ arrival' = arrival
      /\ snap' = [snap EXCEPT ![w][cur[w]] = IF row.state \in TERMINAL THEN NoRow ELSE row]
  BY DEF FencingInv, TypeOK, WriteAndReturn, Unlogged, Write, nodeVars, NodeTypeOK, ChainRules
<1>3. /\ DriveTypes'
      /\ \A v \in Workers \ {w} : pc'[v] = pc[v] /\ cur'[v] = cur[v] /\ mine'[v] = mine[v]
      /\ pc'[w] \in {"idle", "step", "release"}
      /\ pc'[w] # "idle" => cur'[w] \in mine'[w]
      /\ row.state \in TERMINAL => mine'[w] = mine[w] \ {cur[w]}
      /\ row.state \notin TERMINAL => mine'[w] = mine[w] /\ cur'[w] = cur[w]
  BY <1>1, <1>2, StepReturnedShape
<1>4. OthersKept(w)
  <2>1. \A v \in Workers \ {w} : snap'[v] = snap[v]
    BY <1>1, <1>2 DEF TypeOK
  <2>2. QED
    BY <1>3, <2>1, SMT DEF OthersKept, LocalsMove
<1>5. /\ rows' \in [Ops -> Rows] /\ snap' \in [Workers -> [Ops -> Rows]]
      /\ \A v \in Workers : \A o \in mine'[v] : rows'[o].state # "absent"
      /\ Coherent' /\ SingleWriter'
  <2>1. LogGrows
    BY <1>2 DEF LogGrows
  <2>2. /\ mine'[w] \subseteq mine[w]
        /\ row.state \in TERMINAL => cur[w] \notin mine'[w]
    BY <1>3
  <2>3. RowGood(row, Pay[cur[w]], all_txids'[cur[w]], writeAhead'[cur[w]])
    BY <1>2
  <2>4. QED
    BY <1>1, <1>2, <1>4, <2>1, <2>2, <2>3, WriteKeeps
<1>6. ControlOf(w)'
  BY <1>3 DEF ControlOf
<1>7. StoreTypes'
  BY <1>1, <1>2, <1>5 DEF TypeOK, StoreTypes
<1>8. QED
  BY <1>2, <1>3, <1>4, <1>5, <1>6, <1>7, Assemble, SMT DEF LocalsMove

(* Handlers that return without a write. *)
LEMMA ParkKeeps ==
  ASSUME FencingInv, NEW w \in Workers, pc[w] # "idle", op(w).state \in OpState,
         StepReturned(w, op(w).state), NodeTypeOK', ChainRules',
         UNCHANGED <<snap, storeVars>>, LocalsMove(w)
  PROVE  FencingInv'
<1>1. TypeOK /\ cur[w] \in mine[w]
  BY DEF FencingInv, Control, ControlOf
<1>2. /\ DriveTypes'
      /\ \A v \in Workers \ {w} : pc'[v] = pc[v] /\ cur'[v] = cur[v] /\ mine'[v] = mine[v]
      /\ pc'[w] \in {"idle", "step", "release"}
      /\ pc'[w] # "idle" => cur'[w] \in mine'[w]
      /\ mine'[w] \subseteq mine[w]
  BY <1>1, StepReturnedShape
<1>3. OthersKept(w)
  BY <1>2 DEF OthersKept, LocalsMove
<1>4. /\ \A v \in Workers : \A o \in mine'[v] : rows'[o].state # "absent"
      /\ Coherent' /\ SingleWriter'
  BY <1>2, <1>3, LocalKeeps
<1>5. ControlOf(w)'
  BY <1>2 DEF ControlOf
<1>6. StoreTypes' /\ snap' \in [Workers -> [Ops -> Rows]]
  BY <1>1 DEF TypeOK, StoreTypes, storeVars
<1>7. QED
  BY <1>2, <1>3, <1>4, <1>5, <1>6, Assemble DEF LocalsMove

(* Handlers that go on without a write. *)
LEMMA GotoKeeps ==
  ASSUME FencingInv, NEW w \in Workers, NEW label \in Labels, pc[w] # "idle",
         Goto(w, label), NodeTypeOK', ChainRules',
         UNCHANGED <<snap, storeVars, driveVars>>, LocalsMove(w),
         ControlOf(w)'
  PROVE  FencingInv'
<1>1. TypeOK
  BY DEF FencingInv
<1>2. DriveTypes' /\ mine' = mine /\ cur' = cur /\ \A v \in Workers \ {w} : pc'[v] = pc[v]
  BY <1>1 DEF TypeOK, DriveTypes, driveVars, Goto
<1>3. OthersKept(w)
  BY <1>2 DEF OthersKept, LocalsMove
<1>4. /\ \A v \in Workers : \A o \in mine'[v] : rows'[o].state # "absent"
      /\ Coherent' /\ SingleWriter'
  BY <1>2, <1>3, LocalKeeps
<1>5. StoreTypes' /\ snap' \in [Workers -> [Ops -> Rows]]
  BY <1>1 DEF TypeOK, StoreTypes, storeVars
<1>6. QED
  BY <1>2, <1>3, <1>4, <1>5, Assemble DEF LocalsMove

-----------------------------------------------------------------------------
(*                     The invariant, action by action                     *)

(* A busy worker's operation is one of its own, and its copy is a row. *)
LEMMA Busy ==
  ASSUME FencingInv, NEW w \in Workers, pc[w] # "idle"
  PROVE  /\ cur[w] \in Ops /\ cur[w] \in mine[w]
         /\ rows[cur[w]] \in Rows /\ op(w) \in Rows
         /\ rows[cur[w]].state \in OpState
         /\ RowGood(op(w), Pay[cur[w]], all_txids[cur[w]], writeAhead[cur[w]])
         /\ now \in Nat
<1>1. cur[w] \in mine[w] /\ mine[w] \subseteq Ops /\ rows[cur[w]].state # "absent"
  BY SMT DEF FencingInv, Control, ControlOf, TypeOK
<1>2. rows[cur[w]] \in Rows /\ op(w) \in Rows
  BY <1>1 DEF FencingInv, TypeOK, op
<1>3. rows[cur[w]].state \in OpState
  BY <1>1, <1>2 DEF Rows
<1>4. QED
  BY <1>1, <1>2, <1>3 DEF FencingInv, TypeOK, NodeTypeOK, Coherent, op

(* A cas that matches finds the row exactly as the worker remembers it. *)
LEMMA HitIsFresh ==
  ASSUME FencingInv, NEW w \in Workers, pc[w] # "idle", CasHit(w)
  PROVE  op(w) = rows[cur[w]] /\ rows[cur[w]].state \notin TERMINAL
BY Busy DEF FencingInv, SingleWriter, CasHit, CasMatches, op

(* The answers and the envelopes a worker may put aside. *)
LEMMA LocalsUnchanged ==
  ASSUME FencingInv, NEW w \in Workers, UNCHANGED localVars
  PROVE  LocalsMove(w)
BY DEF FencingInv, TypeOK, localVars, LocalsMove, LocalTypes

(* Setting w's answer moves w's locals only. *)
LEMMA AnswerMoves ==
  ASSUME FencingInv, NEW w \in Workers,
         NEW a \in BroadcastCode \cup Receipts \cup {NoAnswer},
         answer' = [answer EXCEPT ![w] = a], UNCHANGED <<draft, seen>>
  PROVE  LocalsMove(w) /\ answer'[w] = a
BY DEF FencingInv, TypeOK, LocalsMove, LocalTypes

(* Setting w's draft moves w's locals only. *)
LEMMA DraftMoves ==
  ASSUME FencingInv, NEW w \in Workers, NEW t \in Txids \cup {NoTx},
         draft' = [draft EXCEPT ![w] = t], UNCHANGED <<answer, seen>>
  PROVE  LocalsMove(w) /\ draft'[w] = t
BY DEF FencingInv, TypeOK, LocalsMove, LocalTypes

(* Setting w's lookup time moves w's locals only. *)
LEMMA SeenMoves ==
  ASSUME FencingInv, NEW w \in Workers, NEW n \in Nat,
         seen' = [seen EXCEPT ![w] = n], UNCHANGED <<draft, answer>>
  PROVE  LocalsMove(w) /\ seen'[w] = n
BY DEF FencingInv, TypeOK, LocalsMove, LocalTypes

(* _cas straight to another state: the row's envelope is as it was. *)
LEMMA AdvanceKeeps ==
  ASSUME FencingInv, NEW w \in Workers, NEW to \in OpState, pc[w] # "idle",
         WriteAndReturn(w, Committed(rows[cur[w]], to)), LocalsMove(w),
         RowGood([state |-> to, txid |-> rows[cur[w]].txid, signed |-> rows[cur[w]].signed],
                 Pay[cur[w]], all_txids[cur[w]], writeAhead[cur[w]])
  PROVE  FencingInv'
<1> DEFINE row == Committed(rows[cur[w]], to)
<1>1. /\ row \in Rows /\ row.state = to /\ row.token = rows[cur[w]].token
      /\ row.txid = rows[cur[w]].txid /\ row.signed = rows[cur[w]].signed
  BY Busy, CommittedRow
<1> HIDE DEF row
<1>2. RowGood(row, Pay[cur[w]], all_txids[cur[w]], writeAhead[cur[w]])
  BY <1>1 DEF RowGood
<1>3. WriteAndReturn(w, row)
  BY DEF row
<1>4. QED
  BY <1>1, <1>2, <1>3, WriteReturnKeeps

(* _rebuild. *)
LEMMA RebuildKeeps ==
  ASSUME FencingInv, NEW w \in Workers, pc[w] # "idle", Rebuild(w), LocalsMove(w)
  PROVE  FencingInv'
<1>1. /\ rows[cur[w]] \in Rows /\ op(w) \in Rows /\ now \in Nat
      /\ op(w).attempts + 1 \in Nat
  BY Busy, SMT DEF Rows
<1> DEFINE r == Committed(rows[cur[w]], "signing")
           row == [r EXCEPT !.attempts = op(w).attempts + 1, !.txid = NoTx, !.signed = NoTx]
<1>2. r \in Rows /\ r.state = "signing" /\ r.token = rows[cur[w]].token
  BY <1>1, CommittedRow, ZenonT(30) DEF OpState
<1>3. WriteAndReturn(w, row)
  BY DEF Rebuild, RowOf
<1> HIDE DEF r
<1>4. /\ row \in Rows /\ row.state = "signing" /\ row.token = rows[cur[w]].token
      /\ row.txid = NoTx /\ row.signed = NoTx
  BY <1>1, <1>2 DEF Rows
<1> HIDE DEF row
<1>5. RowGood(row, Pay[cur[w]], all_txids[cur[w]], writeAhead[cur[w]])
  BY <1>4 DEF RowGood
<1>6. row.state \in OpState
  BY <1>4 DEF OpState
<1>7. QED
  BY <1>3, <1>4, <1>5, <1>6, WriteReturnKeeps

(* The node does not move. *)
LEMMA NodeStill ==
  ASSUME FencingInv, UNCHANGED <<now, nodeVars>>
  PROVE  NodeTypeOK' /\ ChainRules'
BY DEF FencingInv, TypeOK, nodeVars, NodeTypeOK, ChainRules

(* The handlers whose last act is a cas. *)
LEMMA CasHandlersKeep ==
  ASSUME FencingInv, NEW w \in Workers,
         \/ Validate(w) \/ GiveUp(w) \/ RebuildUnsent(w) \/ MarkBroadcast(w)
         \/ Confirm(w) \/ RebuildDead(w)
  PROVE  FencingInv'
<1>1. CASE Validate(w)
  <2>1. /\ pc[w] # "idle" /\ op(w).state = "requested" /\ LocalsMove(w)
    BY <1>1, LocalsUnchanged DEF Validate, AtStep
  <2>2. PICK to \in {"validated", "rejected"} : WriteAndReturn(w, Committed(rows[cur[w]], to))
    BY <1>1 DEF Validate, RowOf
  <2>3. op(w) = rows[cur[w]] /\ to \in OpState
    BY <2>1, <2>2, HitIsFresh DEF WriteAndReturn, Write, OpState
  <2>4. RowGood([state |-> to, txid |-> rows[cur[w]].txid, signed |-> rows[cur[w]].signed],
                Pay[cur[w]], all_txids[cur[w]], writeAhead[cur[w]])
    BY <2>1, <2>2, <2>3, Busy DEF RowGood
  <2>5. QED
    BY <2>1, <2>2, <2>3, <2>4, AdvanceKeeps
<1>2. CASE GiveUp(w)
  <2>1. /\ pc[w] # "idle" /\ op(w).state = "signing" /\ LocalsMove(w)
        /\ WriteAndReturn(w, Committed(rows[cur[w]], "failed"))
    BY <1>2, LocalsUnchanged DEF GiveUp, AtBuild, AtStep, RowOf, FencingInv, Control, ControlOf
  <2>2. op(w) = rows[cur[w]] /\ "failed" \in OpState
    BY <2>1, HitIsFresh DEF WriteAndReturn, Write, OpState
  <2>3. RowGood([state |-> "failed", txid |-> rows[cur[w]].txid, signed |-> rows[cur[w]].signed],
                Pay[cur[w]], all_txids[cur[w]], writeAhead[cur[w]])
    BY <2>1, <2>2, Busy DEF RowGood
  <2>4. QED
    BY <2>1, <2>2, <2>3, AdvanceKeeps
<1>3. CASE RebuildUnsent(w)
  BY <1>3, LocalsUnchanged, RebuildKeeps DEF RebuildUnsent, AtStep
<1>4. CASE MarkBroadcast(w)
  <2>1. /\ pc[w] # "idle" /\ op(w).state = "broadcasting" /\ LocalsMove(w)
        /\ WriteAndReturn(w, Committed(rows[cur[w]], "broadcast"))
    BY <1>4, LocalsUnchanged DEF MarkBroadcast, RowOf, FencingInv, Control, ControlOf
  <2>2. op(w) = rows[cur[w]] /\ "broadcast" \in OpState
    BY <2>1, HitIsFresh DEF WriteAndReturn, Write, OpState
  <2>3. RowGood([state |-> "broadcast", txid |-> rows[cur[w]].txid, signed |-> rows[cur[w]].signed],
                Pay[cur[w]], all_txids[cur[w]], writeAhead[cur[w]])
    BY <2>1, <2>2, Busy DEF RowGood
  <2>4. QED
    BY <2>1, <2>2, <2>3, AdvanceKeeps
<1>5. CASE Confirm(w)
  <2> DEFINE to == IF answer[w] = "SUCCESS" THEN "confirmed" ELSE "failed"
  <2>1. /\ pc[w] # "idle" /\ op(w).state = "broadcast" /\ LocalsMove(w)
        /\ WriteAndReturn(w, Committed(rows[cur[w]], to))
    BY <1>5, AnswerMoves DEF Confirm, RowOf, FencingInv, Control, ControlOf
  <2>2. to \in {"confirmed", "failed"}
    OBVIOUS
  <2> HIDE DEF to
  <2>3. op(w) = rows[cur[w]] /\ to \in OpState
    BY <2>1, <2>2, HitIsFresh DEF WriteAndReturn, Write, OpState
  <2>4. RowGood([state |-> to, txid |-> rows[cur[w]].txid, signed |-> rows[cur[w]].signed],
                Pay[cur[w]], all_txids[cur[w]], writeAhead[cur[w]])
    BY <2>1, <2>2, <2>3, Busy DEF RowGood
  <2>5. QED
    BY <2>1, <2>3, <2>4, AdvanceKeeps
<1>6. CASE RebuildDead(w)
  <2>1. 0 \in Nat /\ pc[w] # "idle" /\ Rebuild(w)
    BY <1>6 DEF RebuildDead
  <2>2. LocalsMove(w)
    BY <1>6, <2>1, SeenMoves DEF RebuildDead
  <2>3. QED
    BY <2>1, <2>2, RebuildKeeps
<1>7. QED
  BY <1>1, <1>2, <1>3, <1>4, <1>5, <1>6

(* The signature is stored next to the txid it signs. *)
LEMMA SignKeeps ==
  ASSUME FencingInv, NEW w \in Workers, Sign(w)
  PROVE  FencingInv'
<1> DEFINE r == Committed(rows[cur[w]], "signed")
           row == [r EXCEPT !.signed = op(w).txid]
<1>1. /\ pc[w] # "idle" /\ op(w).txid # NoTx /\ LocalsMove(w)
      /\ WriteAndReturn(w, row)
  BY LocalsUnchanged DEF Sign, RowOf, FencingInv, Control, ControlOf
<1>2. /\ op(w) = rows[cur[w]] /\ op(w) \in Rows /\ "signed" \in OpState
      /\ RowGood(op(w), Pay[cur[w]], all_txids[cur[w]], writeAhead[cur[w]])
  BY <1>1, HitIsFresh, Busy DEF WriteAndReturn, Write, OpState
<1>3. /\ r \in Rows /\ r.state = "signed" /\ r.token = rows[cur[w]].token
      /\ r.txid = op(w).txid
  <2>1. rows[cur[w]] \in Rows /\ now \in Nat
    BY <1>1, Busy
  <2>2. "signed" \in OpState
    BY <1>2
  <2>3. /\ r \in Rows /\ r.state = "signed" /\ r.token = rows[cur[w]].token
        /\ r.txid = rows[cur[w]].txid /\ r.signed = rows[cur[w]].signed
    BY <2>1, <2>2, CommittedRow
  <2> HIDE DEF r
  <2>4. QED
    BY <1>2, <2>3
<1> HIDE DEF r
<1>4. op(w).txid \in Txids \cup {NoTx}
  BY <1>2 DEF Rows
<1>5. /\ row \in Rows /\ row.state = "signed" /\ row.token = rows[cur[w]].token
      /\ row.txid = op(w).txid /\ row.signed = op(w).txid
  BY <1>3, <1>4 DEF Rows
<1> HIDE DEF row
<1>6. RowGood(row, Pay[cur[w]], all_txids[cur[w]], writeAhead[cur[w]])
  BY <1>1, <1>2, <1>5 DEF RowGood
<1>7. QED
  BY <1>1, <1>2, <1>5, <1>6, WriteReturnKeeps

(* Handlers that go on after a cas. *)
LEMMA WriteGotoKeeps ==
  ASSUME FencingInv, NEW w \in Workers, NEW row \in Rows, NEW label, pc[w] # "idle",
         Write(w, row), Goto(w, label), UNCHANGED driveVars, LocalsMove(w), LogGrows,
         all_txids' \in [Ops -> SUBSET Txids], writeAhead' \in [Ops -> SUBSET Txids],
         row.token = rows[cur[w]].token,
         \/ label = "build" /\ row.state = "signing"
         \/ label = "sign" /\ row.state = "signing" /\ row.txid # NoTx
         \/ label = "send" /\ row.state = "broadcasting",
         RowGood(row, Pay[cur[w]], all_txids'[cur[w]], writeAhead'[cur[w]])
  PROVE  FencingInv'
<1>1. TypeOK /\ cur[w] \in mine[w] /\ row.state \in OpState /\ row.state \notin TERMINAL
  BY States, Busy DEF FencingInv, OpState
<1>2. /\ NodeTypeOK' /\ ChainRules' /\ arrival' = arrival
      /\ snap' = [snap EXCEPT ![w][cur[w]] = row]
  BY <1>1, NodeStill DEF Write
<1>3. /\ DriveTypes' /\ mine' = mine /\ cur' = cur
      /\ pc'[w] = label /\ \A v \in Workers \ {w} : pc'[v] = pc[v]
  BY <1>1 DEF TypeOK, DriveTypes, driveVars, Goto, Labels
<1>4. OthersKept(w)
  <2>1. \A v \in Workers \ {w} : snap'[v] = snap[v]
    BY <1>1, <1>2 DEF TypeOK
  <2>2. QED
    BY <1>3, <2>1 DEF OthersKept, LocalsMove
<1>5. /\ rows' \in [Ops -> Rows] /\ snap' \in [Workers -> [Ops -> Rows]]
      /\ snap'[w][cur[w]] = row
      /\ \A v \in Workers : \A o \in mine'[v] : rows'[o].state # "absent"
      /\ Coherent' /\ SingleWriter'
  BY ZenonT(30), <1>1, <1>3, <1>4, WriteKeeps
<1>6. ControlOf(w)'
  BY <1>1, <1>3, <1>5, SMT DEF ControlOf, op
<1>7. StoreTypes'
  BY ZenonT(30), <1>1, <1>2, <1>5 DEF TypeOK, StoreTypes
<1>8. QED
  BY <1>2, <1>3, <1>4, <1>5, <1>6, <1>7, Assemble DEF LocalsMove

(* VALIDATED to SIGNING. *)
LEMMA BeginSigningKeeps ==
  ASSUME FencingInv, NEW w \in Workers, BeginSigning(w)
  PROVE  FencingInv'
<1> DEFINE row == Committed(rows[cur[w]], "signing")
<1>1. /\ pc[w] # "idle" /\ op(w).state = "validated" /\ LocalsMove(w)
      /\ Write(w, row) /\ Goto(w, "build") /\ UNCHANGED driveVars
      /\ all_txids' = all_txids /\ writeAhead' = writeAhead
  BY LocalsUnchanged DEF BeginSigning, AtStep, RowOf, Unlogged
<1>2. /\ op(w) = rows[cur[w]] /\ op(w) \in Rows /\ "signing" \in OpState
      /\ RowGood(op(w), Pay[cur[w]], all_txids[cur[w]], writeAhead[cur[w]])
  BY <1>1, HitIsFresh, Busy DEF Write, OpState
<1>3. /\ row \in Rows /\ row.state = "signing" /\ row.token = rows[cur[w]].token
      /\ row.txid = op(w).txid /\ row.signed = op(w).signed
  <2>1. rows[cur[w]] \in Rows /\ now \in Nat
    BY <1>1, Busy
  <2>2. "signing" \in OpState
    BY <1>2
  <2>3. /\ row \in Rows /\ row.state = "signing" /\ row.token = rows[cur[w]].token
        /\ row.txid = rows[cur[w]].txid /\ row.signed = rows[cur[w]].signed
    BY <2>1, <2>2, CommittedRow
  <2> HIDE DEF row
  <2>4. QED
    BY <1>2, <2>3, SMT
<1> HIDE DEF row
<1>4. RowGood(row, Pay[cur[w]], all_txids'[cur[w]], writeAhead'[cur[w]])
  BY <1>1, <1>2, <1>3 DEF RowGood
<1>5. /\ LogGrows
      /\ all_txids' \in [Ops -> SUBSET Txids] /\ writeAhead' \in [Ops -> SUBSET Txids]
  BY <1>1 DEF LogGrows, FencingInv, TypeOK
<1>6. QED
  BY <1>1, <1>3, <1>4, <1>5, WriteGotoKeeps, ZenonT(30)

(* The txid becomes durable. *)
LEMMA PersistKeeps ==
  ASSUME FencingInv, NEW w \in Workers, PersistEnvelope(w)
  PROVE  FencingInv'
<1> DEFINE r == Committed(rows[cur[w]], "signing")
           row == [r EXCEPT !.txid = draft[w], !.signed = NoTx]
<1>1. /\ pc[w] # "idle" /\ draft[w] \in Txids /\ draft[w].pay = Pay[cur[w]]
      /\ Write(w, row) /\ Goto(w, "sign") /\ UNCHANGED driveVars
      /\ all_txids' = [all_txids EXCEPT ![cur[w]] = @ \cup {draft[w]}]
      /\ writeAhead' = writeAhead
  BY DEF PersistEnvelope, RowOf, FencingInv, Control, ControlOf
<1>2. LocalsMove(w)
  BY DraftMoves DEF PersistEnvelope
<1>3. /\ r \in Rows /\ r.state = "signing" /\ r.token = rows[cur[w]].token
  BY <1>1, Busy, CommittedRow, SMT DEF OpState
<1> HIDE DEF r
<1>4. /\ row \in Rows /\ row.state = "signing" /\ row.token = rows[cur[w]].token
      /\ row.txid = draft[w] /\ row.signed = NoTx
  BY <1>1, <1>3 DEF Rows
<1> HIDE DEF row
<1>5. /\ LogGrows /\ draft[w] \in all_txids'[cur[w]] /\ draft[w] # NoTx
      /\ all_txids' \in [Ops -> SUBSET Txids] /\ writeAhead' \in [Ops -> SUBSET Txids]
  BY <1>1, Busy, StoreAssumption DEF LogGrows, FencingInv, TypeOK
<1>6. RowGood(row, Pay[cur[w]], all_txids'[cur[w]], writeAhead'[cur[w]])
  BY <1>1, <1>4, <1>5 DEF RowGood
<1>7. QED
  BY <1>1, <1>2, <1>4, <1>5, <1>6, WriteGotoKeeps

(* The write-ahead: the envelope is in the log before the worker may send. *)
LEMMA WriteAheadKeeps ==
  ASSUME FencingInv, NEW w \in Workers, WriteAhead(w)
  PROVE  FencingInv'
<1> DEFINE row == Committed(rows[cur[w]], "broadcasting")
<1>1. /\ pc[w] # "idle" /\ op(w).state = "signed" /\ LocalsMove(w)
      /\ Write(w, row) /\ Goto(w, "send") /\ UNCHANGED driveVars
      /\ writeAhead' = [writeAhead EXCEPT ![cur[w]] = @ \cup {op(w).signed}]
      /\ all_txids' = [all_txids EXCEPT ![cur[w]] = @ \cup {op(w).signed}]
  BY LocalsUnchanged DEF WriteAhead, RowOf, FencingInv, Control, ControlOf
<1>2. /\ op(w) = rows[cur[w]] /\ op(w) \in Rows /\ "broadcasting" \in OpState
      /\ RowGood(op(w), Pay[cur[w]], all_txids[cur[w]], writeAhead[cur[w]])
  BY <1>1, HitIsFresh, Busy DEF Write, OpState
<1>3. /\ row \in Rows /\ row.state = "broadcasting" /\ row.token = rows[cur[w]].token
      /\ row.txid = op(w).txid /\ row.signed = op(w).signed
  <2>1. rows[cur[w]] \in Rows /\ now \in Nat
    BY <1>1, Busy
  <2>2. "broadcasting" \in OpState
    BY <1>2
  <2>3. /\ row \in Rows /\ row.state = "broadcasting" /\ row.token = rows[cur[w]].token
        /\ row.txid = rows[cur[w]].txid /\ row.signed = rows[cur[w]].signed
    BY <2>1, <2>2, CommittedRow
  <2> HIDE DEF row
  <2>4. QED
    BY <1>2, <2>3
<1> HIDE DEF row
<1>4. op(w).signed \in Txids
  BY <1>1, <1>2 DEF RowGood, Rows
<1>5. /\ LogGrows /\ op(w).signed \in writeAhead'[cur[w]]
      /\ all_txids' \in [Ops -> SUBSET Txids] /\ writeAhead' \in [Ops -> SUBSET Txids]
  BY <1>1, <1>4, Busy DEF LogGrows, FencingInv, TypeOK
<1>6. RowGood(row, Pay[cur[w]], all_txids'[cur[w]], writeAhead'[cur[w]])
  BY <1>1, <1>2, <1>3, <1>5, Busy DEF RowGood, LogGrows
<1>7. QED
  BY <1>1, <1>3, <1>5, <1>6, WriteGotoKeeps

(* The envelope a worker holds once it may send or look up. *)
LEMMA SignedEnvelope ==
  ASSUME FencingInv, NEW w \in Workers, pc[w] # "idle",
         op(w).state \in {"signed", "broadcasting", "broadcast"}
  PROVE  /\ op(w).signed \in Txids
         /\ op(w).signed = op(w).txid
         /\ op(w).state # "signed" => op(w).signed \in writeAhead[cur[w]]
BY Busy DEF RowGood, Rows

(* Building an envelope touches the worker's memory only. *)
LEMMA BuildKeeps ==
  ASSUME FencingInv, NEW w \in Workers, BuildEnvelope(w)
  PROVE  FencingInv'
<1> DEFINE t == [pay |-> Pay[cur[w]], ref |-> ref_block, ts |-> now, exp |-> now + TTL]
<1>1. /\ pc[w] # "idle" /\ op(w).state = "signing"
      /\ draft' = [draft EXCEPT ![w] = t] /\ Goto(w, "persist")
      /\ UNCHANGED <<now, nodeVars, storeVars, driveVars, snap, answer, seen>>
  BY DEF BuildEnvelope, AtBuild, AtStep, FencingInv, Control, ControlOf
<1>2. t \in Txids /\ t.pay = Pay[cur[w]]
  <2>1. NodeTypeOK /\ ChainRules /\ cur[w] \in Ops /\ now \in Nat
    BY <1>1, Busy DEF FencingInv, TypeOK
  <2>2. ref_block \in Nat /\ now + TTL \in Nat /\ Pay[cur[w]] \in Payments
    BY <2>1, SolidNotAhead, SluiceAssumption, StoreAssumption, SMT DEF ref_block, NodeTypeOK
  <2>3. QED
    BY <2>1, <2>2 DEF Txids
<1> HIDE DEF t
<1>3. LocalsMove(w) /\ draft'[w] = t
  BY <1>1, <1>2, DraftMoves
<1>4. /\ cur'[w] = cur[w] /\ mine'[w] = mine[w] /\ snap' = snap /\ pc'[w] = "persist"
  BY <1>1 DEF driveVars, Goto, FencingInv, TypeOK
<1>5. ControlOf(w)'
  BY <1>1, <1>2, <1>3, <1>4, Busy DEF ControlOf, op
<1>6. QED
  BY <1>1, <1>3, <1>5, NodeStill, GotoKeeps DEF Labels

(* Forgetting everything a handler put aside. *)
LEMMA ForgetMoves ==
  ASSUME FencingInv, NEW w \in Workers, Forget(w)
  PROVE  LocalsMove(w)
BY DEF FencingInv, TypeOK, LocalsMove, LocalTypes, Forget

(* The lookups, the look at the clock, and a write that raises. *)
LEMMA LookupsKeep ==
  ASSUME FencingInv, NEW w \in Workers,
         \/ HandlerError(w) \/ CheckExpiry(w) \/ LookupFound(w) \/ LookupSolid(w)
         \/ LookupUnknown(w)
  PROVE  FencingInv'
<1>1. /\ pc[w] # "idle"
      /\ UNCHANGED <<now, nodeVars, storeVars, driveVars, snap>>
  BY DEF HandlerError, ConnectionLost, CheckExpiry, LookupFound, LookupSolid, LookupUnknown,
     AtStep, AtCas, AtVerdict, AtBuild
<1>2. cur'[w] = cur[w] /\ mine'[w] = mine[w] /\ snap' = snap /\ cur[w] \in mine[w] /\ TypeOK
  BY <1>1, Busy DEF driveVars, FencingInv
<1>3. CASE HandlerError(w)
  <2>1. LocalsMove(w)
    BY <1>3, ForgetMoves DEF HandlerError
  <2>2. Goto(w, "release") /\ pc'[w] = "release"
    BY <1>2, <1>3 DEF HandlerError, Goto, TypeOK
  <2>3. ControlOf(w)'
    BY <1>2, <2>2 DEF ControlOf
  <2>4. QED
    BY <1>1, <2>1, <2>2, <2>3, NodeStill, GotoKeeps DEF Labels
<1>4. CASE LookupFound(w)
  <2>1. LocalsMove(w)
    BY <1>4, LocalsUnchanged DEF LookupFound
  <2>2. Goto(w, "found") /\ pc'[w] = "found" /\ op(w).state = "broadcasting"
    BY ZenonT(30), <1>2, <1>4 DEF LookupFound, AtStep, Goto, TypeOK
  <2>3. ControlOf(w)'
    BY <1>2, <2>2 DEF ControlOf, op
  <2>4. QED
    BY <1>1, <2>1, <2>2, <2>3, NodeStill, GotoKeeps DEF Labels
<1>5. CASE LookupSolid(w)
  <2>1. Goto(w, "confirm") /\ pc'[w] = "confirm" /\ op(w).state = "broadcast"
    BY <1>2, <1>5 DEF LookupSolid, AtStep, Goto, TypeOK
  <2>2. txs[op(w).signed].receipt \in Receipts
    <3>1. Landed(op(w).signed)
      BY <1>5, SMT DEF LookupSolid, find_tx
    <3>2. QED
      BY ZenonT(30), <3>1 DEF Landed, FencingInv, ChainRules
  <2>3. LocalsMove(w)
    BY ZenonT(30), <1>5, <2>2, AnswerMoves DEF LookupSolid
  <2>4. ControlOf(w)'
    BY <1>2, <2>1 DEF ControlOf, op
  <2>5. QED
    BY <1>1, <2>1, <2>3, <2>4, NodeStill, GotoKeeps DEF Labels
<1>6. CASE LookupUnknown(w)
  <2>1. /\ Goto(w, "proof") /\ pc'[w] = "proof"
        /\ op(w).state \in {"broadcasting", "broadcast"}
    BY <1>2, <1>6 DEF LookupUnknown, AtStep, Goto, TypeOK
  <2>2. blockTime[head] \in Nat
    BY <1>2, SMT DEF TypeOK, NodeTypeOK
  <2>3. LocalsMove(w)
    BY <1>6, <2>2, SeenMoves DEF LookupUnknown
  <2>4. ControlOf(w)'
    BY <1>2, <2>1 DEF ControlOf, op
  <2>5. QED
    BY <1>1, <2>1, <2>3, <2>4, NodeStill, GotoKeeps DEF Labels
<1>7. CASE CheckExpiry(w)
  <2>1. LocalsMove(w)
    BY <1>7, LocalsUnchanged DEF CheckExpiry
  <2>2. Goto(w, "ahead") /\ pc'[w] = "ahead" /\ op(w).state = "signed"
    BY ZenonT(30), <1>2, <1>7 DEF CheckExpiry, AtStep, Goto, TypeOK
  <2>3. ControlOf(w)'
    BY <1>2, <2>2 DEF ControlOf, op
  <2>4. QED
    BY <1>1, <2>1, <2>2, <2>3, NodeStill, GotoKeeps DEF Labels
<1>8. QED
  BY <1>3, <1>4, <1>5, <1>6, <1>7

(* node.broadcast, and what becomes of its answer. *)
LEMMA SendKeeps ==
  ASSUME FencingInv, NEW w \in Workers, Send(w)
  PROVE  FencingInv'
<1>1. /\ pc[w] = "send" /\ pc[w] # "idle" /\ op(w).state = "broadcasting"
      /\ UNCHANGED <<storeVars, snap, draft, seen>>
  BY SMT DEF Send, FencingInv, Control, ControlOf
<1>2. PICK code \in BroadcastCode \cup {NodeTimeout} :
        /\ broadcast(op(w).signed, code)
        /\ IF code = NodeTimeout
             THEN StepReturned(w, op(w).state) /\ UNCHANGED answer
             ELSE /\ answer' = [answer EXCEPT ![w] = code]
                  /\ Goto(w, "settle") /\ UNCHANGED driveVars
  BY DEF Send
<1>3. NodeTypeOK' /\ ChainRules'
  BY <1>1, <1>2, SignedEnvelope, BroadcastKeepsNode DEF FencingInv, TypeOK
<1>4. CASE code = NodeTimeout
  BY <1>1, <1>2, <1>3, <1>4, LocalsUnchanged, ParkKeeps DEF localVars, OpState
<1>5. CASE code # NodeTimeout
  <2>1. LocalsMove(w) /\ answer'[w] = code /\ code \in BroadcastCode
    BY <1>1, <1>2, <1>5, AnswerMoves
  <2>2. cur'[w] = cur[w] /\ mine'[w] = mine[w] /\ snap' = snap /\ pc'[w] = "settle"
    BY <1>1, <1>2, <1>5 DEF driveVars, Goto, FencingInv, TypeOK
  <2>3. ControlOf(w)'
    BY <1>1, <2>1, <2>2, Busy DEF ControlOf, op
  <2>4. QED
    BY <1>1, <1>2, <1>3, <1>5, <2>1, <2>3, GotoKeeps DEF Labels
<1>6. QED
  BY <1>4, <1>5

(* What an answer makes of the operation. *)
LEMMA SettleKeeps ==
  ASSUME FencingInv, NEW w \in Workers, Settle(w)
  PROVE  FencingInv'
<1>1. /\ pc[w] # "idle" /\ op(w).state = "broadcasting" /\ LocalsMove(w)
  BY AnswerMoves DEF Settle, FencingInv, Control, ControlOf
<1>2. CASE answer[w] \in RETRY_SAME_BYTES
  <2>1. Park(w)
    BY <1>2 DEF Settle
  <2>2. QED
    BY <1>1, <2>1, NodeStill, ParkKeeps DEF Park, OpState
<1>3. CASE answer[w] \notin RETRY_SAME_BYTES
  <2> DEFINE to == Verdict(answer[w])
  <2>1. WriteAndReturn(w, Committed(rows[cur[w]], to))
    BY <1>3 DEF Settle, RowOf
  <2>2. to \in {"broadcast", "failed", "broadcasting"}
    BY DEF Verdict
  <2> HIDE DEF to
  <2>3. op(w) = rows[cur[w]] /\ to \in OpState
    BY <1>1, <2>1, <2>2, HitIsFresh DEF WriteAndReturn, Write, OpState
  <2>4. RowGood([state |-> to, txid |-> rows[cur[w]].txid, signed |-> rows[cur[w]].signed],
                Pay[cur[w]], all_txids[cur[w]], writeAhead[cur[w]])
    BY <1>1, <2>2, <2>3, Busy DEF RowGood
  <2>5. QED
    BY <1>1, <2>1, <2>3, <2>4, AdvanceKeeps
<1>4. QED
  BY <1>2, <1>3

(* The handlers that give the operation back as it was. *)
LEMMA WaitsKeep ==
  ASSUME FencingInv, NEW w \in Workers, QueryTimeout(w) \/ AwaitSolidity(w) \/ NotDead(w)
  PROVE  FencingInv'
<1>1. /\ pc[w] # "idle" /\ op(w).state \in {"broadcasting", "broadcast"}
      /\ op(w).state \in OpState
  BY DEF QueryTimeout, AwaitSolidity, NotDead, AtStep, FencingInv, Control, ControlOf, OpState
<1>2. LocalsMove(w)
  <2>1. CASE UNCHANGED localVars
    BY <2>1, LocalsUnchanged
  <2>2. CASE NotDead(w)
    <3>1. 0 \in Nat
      OBVIOUS
    <3>2. QED
      BY <2>2, <3>1, SeenMoves DEF NotDead
  <2>3. QED
    BY <2>1, <2>2 DEF QueryTimeout, AwaitSolidity
<1>3. CASE Park(w)
  BY <1>1, <1>2, <1>3, NodeStill, ParkKeeps DEF Park
<1>4. CASE /\ op(w).state = "broadcasting" /\ Goto(w, "send")
           /\ UNCHANGED <<now, nodeVars, storeVars, driveVars, snap>>
  <2>1. cur'[w] = cur[w] /\ mine'[w] = mine[w] /\ snap' = snap /\ pc'[w] = "send"
    BY <1>4 DEF driveVars, Goto, FencingInv, TypeOK
  <2>2. ControlOf(w)'
    BY <1>1, <1>4, <2>1, Busy DEF ControlOf, op
  <2>3. QED
    BY <1>1, <1>2, <1>4, <2>2, NodeStill, GotoKeeps DEF Labels
<1>5. QED
  BY <1>3, <1>4 DEF QueryTimeout, AwaitSolidity, NotDead

(* A lost claim and a release: the worker turns to what is left of its batch. *)
LEMMA DropsKeep ==
  ASSUME FencingInv, NEW w \in Workers, LostClaim(w) \/ Release(w)
  PROVE  FencingInv'
<1>1. /\ pc[w] # "idle" /\ NextOp(w) /\ UNCHANGED <<now, nodeVars>>
      /\ snap' = [snap EXCEPT ![w][cur[w]] = NoRow] /\ TypeOK
  BY DEF LostClaim, Release, AtCas, AtBuild, AtStep, FencingInv
<1>2. LocalsMove(w)
  BY ForgetMoves, LocalsUnchanged DEF LostClaim, Release
<1>3. /\ DriveTypes'
      /\ \A v \in Workers \ {w} : pc'[v] = pc[v] /\ cur'[v] = cur[v] /\ mine'[v] = mine[v]
      /\ pc'[w] \in {"idle", "step"}
      /\ pc'[w] # "idle" => cur'[w] \in mine'[w]
      /\ mine'[w] = mine[w] \ {cur[w]}
  BY <1>1, NextOpShape
<1>4. /\ snap' \in [Workers -> [Ops -> Rows]]
      /\ \A o \in mine'[w] : snap'[w][o] = snap[w][o]
      /\ \A v \in Workers \ {w} : snap'[v] = snap[v]
  <2>1. NoRow \in Rows
    BY DEF NoRow, Rows, NoLease
  <2>2. mine[w] \subseteq Ops /\ snap \in [Workers -> [Ops -> Rows]]
    BY <1>1 DEF TypeOK
  <2> HIDE DEF NoRow
  <2>3. QED
    BY <1>1, <1>3, <2>1, <2>2
<1>5. OthersKept(w)
  BY <1>2, <1>3, <1>4 DEF OthersKept, LocalsMove
<1>6. ControlOf(w)'
  BY <1>3 DEF ControlOf
<1>7. /\ StoreTypes'
      /\ \A v \in Workers : \A o \in mine'[v] : rows'[o].state # "absent"
      /\ Coherent' /\ SingleWriter'
  <2>1. CASE LostClaim(w)
    <3>1. UNCHANGED storeVars
      BY <2>1 DEF LostClaim
    <3>2. StoreTypes'
      BY <1>1, <3>1 DEF storeVars, StoreTypes, TypeOK
    <3>3. QED
      BY <1>3, <1>4, <1>5, <3>1, <3>2, LocalKeeps
  <2>2. CASE Release(w)
    <3>1. release(cur[w], snap[w][cur[w]].token)
      BY <2>2 DEF Release, op
    <3>2. /\ rows' \in [Ops -> Rows]
          /\ \A v \in Workers : \A o \in mine'[v] : rows'[o].state # "absent"
          /\ Coherent' /\ SingleWriter'
      BY <1>1, <1>3, <1>4, <1>5, <3>1, Busy, ReleaseKeeps
    <3>3. StoreTypes'
      BY <1>1, <3>1, <3>2 DEF release, StoreTypes, TypeOK
    <3>4. QED
      BY <3>2, <3>3
  <2>3. QED
    BY <2>1, <2>2
<1>8. QED
  BY <1>1, <1>2, <1>3, <1>4, <1>5, <1>6, <1>7, NodeStill, Assemble DEF LocalsMove

(* A crash: the replacement process remembers nothing. *)
LEMMA CrashKeeps ==
  ASSUME FencingInv, NEW w \in Workers, Crash(w)
  PROVE  FencingInv'
<1>1. TypeOK /\ LocalsMove(w) /\ UNCHANGED <<now, nodeVars, storeVars>>
  BY ForgetMoves DEF Crash, FencingInv
<1>2. /\ DriveTypes' /\ pc'[w] = "idle" /\ mine'[w] = {}
      /\ \A v \in Workers \ {w} : pc'[v] = pc[v] /\ cur'[v] = cur[v] /\ mine'[v] = mine[v]
  BY <1>1 DEF Crash, Goto, DriveTypes, TypeOK, Labels
<1>3. /\ snap' \in [Workers -> [Ops -> Rows]]
      /\ \A v \in Workers \ {w} : snap'[v] = snap[v]
  <2>1. NoRow \in Rows
    BY DEF NoRow, Rows, NoLease
  <2> HIDE DEF NoRow
  <2>2. QED
    BY <1>1, <2>1 DEF Crash, TypeOK
<1>4. OthersKept(w)
  BY <1>1, <1>2, <1>3 DEF OthersKept, LocalsMove
<1>5. /\ \A v \in Workers : \A o \in mine'[v] : rows'[o].state # "absent"
      /\ Coherent' /\ SingleWriter'
  BY <1>1, <1>2, <1>4, LocalKeeps
<1>6. ControlOf(w)' /\ StoreTypes'
  BY <1>1, <1>2 DEF ControlOf, StoreTypes, storeVars, TypeOK
<1>7. QED
  BY <1>1, <1>2, <1>3, <1>4, <1>5, <1>6, NodeStill, Assemble DEF LocalsMove

(* A claimed batch. *)
LEMMA ClaimingKeeps ==
  ASSUME FencingInv, NEW w \in Workers, Claim(w)
  PROVE  FencingInv'
<1>1. /\ TypeOK /\ LocalsMove(w) /\ UNCHANGED <<now, nodeVars>>
  BY LocalsUnchanged DEF Claim, FencingInv
<1>2. PICK P \in Batches :
        /\ mine' = [mine EXCEPT ![w] = P]
        /\ \E o \in P : /\ cur' = [cur EXCEPT ![w] = o]
                        /\ before' = [before EXCEPT ![w] = rows[o].state]
  BY DEF Claim
<1>21. PICK o \in P : /\ cur' = [cur EXCEPT ![w] = o]
                      /\ before' = [before EXCEPT ![w] = rows[o].state]
  BY <1>2
<1>3. P \subseteq Ops /\ rows[o].state \in OpState \cup {"absent"}
  BY <1>1, <1>21, PickedRows DEF TypeOK, Rows
<1>4. /\ mine' = [mine EXCEPT ![w] = P] /\ steps' = [steps EXCEPT ![w] = 0]
      /\ pc' = [pc EXCEPT ![w] = "step"]
  BY <1>2 DEF Claim, Goto
<1>5. /\ DriveTypes' /\ pc'[w] = "step" /\ cur'[w] \in mine'[w]
      /\ \A v \in Workers \ {w} : pc'[v] = pc[v] /\ cur'[v] = cur[v] /\ mine'[v] = mine[v]
  BY <1>1, <1>21, <1>3, <1>4 DEF DriveTypes, TypeOK, Labels
<1>6. OthersKept(w)
  <2>1. \A v \in Workers \ {w} : snap'[v] = snap[v]
    BY <1>1 DEF Claim, TypeOK
  <2>2. QED
    BY <1>1, <1>5, <2>1 DEF OthersKept, LocalsMove
<1>7. /\ rows' \in [Ops -> Rows] /\ snap' \in [Workers -> [Ops -> Rows]]
      /\ \A v \in Workers : \A p \in mine'[v] : rows'[p].state # "absent"
      /\ Coherent' /\ SingleWriter'
  BY <1>6, ClaimKeeps
<1>8. StoreTypes'
  BY <1>1, <1>7 DEF Claim, claim, StoreTypes, TypeOK
<1>9. ControlOf(w)'
  BY <1>5 DEF ControlOf
<1>10. QED
  BY ZenonT(30), <1>1, <1>5, <1>6, <1>7, <1>8, <1>9, NodeStill, Assemble DEF LocalsMove

(* Workers, store and node apart: a step that leaves every worker's memory *)
(* alone keeps what the labels say.                                        *)
LEMMA ControlStill ==
  ASSUME FencingInv, UNCHANGED workerVars
  PROVE  \A w \in Workers : ControlOf(w)'
BY DEF FencingInv, Control, ControlOf, op, workerVars, driveVars, localVars

(* Intake: nobody holds a copy of the row that appears. *)
LEMMA SubmitKeeps ==
  ASSUME FencingInv, NEW o \in Ops, Submit(o)
  PROVE  FencingInv'
<1> DEFINE r == [rows[o] EXCEPT !.state = "requested"]
<1>1. /\ TypeOK /\ rows[o] \in Rows /\ rows[o].state = "absent"
      /\ rows' = [rows EXCEPT ![o] = r]
      /\ all_txids' = all_txids /\ writeAhead' = writeAhead
      /\ UNCHANGED <<now, nodeVars, workerVars>>
  BY DEF Submit, insert_new, FencingInv, TypeOK
<1>2. r \in Rows /\ r.state = "requested" /\ r.txid = rows[o].txid /\ r.signed = rows[o].signed
  <2>1. ASSUME NEW x \in Rows
        PROVE  LET s == [x EXCEPT !.state = "requested"] IN
               s \in Rows /\ s.state = "requested" /\ s.txid = x.txid /\ s.signed = x.signed
    BY DEF Rows, OpState
  <2>2. QED
    BY <1>1, <2>1
<1> HIDE DEF r
<1>3. /\ rows' \in [Ops -> Rows] /\ rows'[o] = r
      /\ \A p \in Ops \ {o} : rows'[p] = rows[p]
  BY <1>1, <1>2 DEF TypeOK
<1>4. arrival' \in [Ops -> SUBSET Ops]
  BY <1>1 DEF Submit, insert_new, Present, TypeOK
<1>5. TypeOK'
  BY <1>1, <1>3, <1>4, NodeStill DEF TypeOK, workerVars, driveVars, localVars
<1>6. mine' = mine /\ snap' = snap /\ \A w \in Workers : mine[w] \subseteq Ops \ {o}
  BY <1>1 DEF workerVars, driveVars, FencingInv, Control, TypeOK
<1>7. Control'
  BY <1>1, <1>3, <1>6, ControlStill DEF Control, FencingInv
<1>8. Coherent'
  <2>1. RowGood(rows'[o], Pay[o], all_txids'[o], writeAhead'[o])
    BY <1>1, <1>2, <1>3 DEF FencingInv, Coherent, RowGood
  <2>2. QED
    BY <1>1, <1>3, <1>6, <2>1 DEF FencingInv, Coherent
<1>9. SingleWriter'
  <2>1. \A w \in Workers : \A p \in mine[w] : rows'[p] = rows[p]
    BY <1>3, <1>6
  <2>2. ASSUME NEW w \in Workers, NEW p \in mine[w]
        PROVE  /\ snap[w][p].token <= rows'[p].token
               /\ snap[w][p].token = rows'[p].token => snap[w][p] = rows'[p]
               /\ \A v \in Workers \ {w} : p \in mine[v] => snap[v][p].token # snap[w][p].token
    <3>1. rows'[p] = rows[p]
      BY <2>1
    <3>2. QED
      BY <3>1, ZenonT(30) DEF FencingInv, SingleWriter
  <2>3. QED
    BY ZenonT(30), <1>6, <2>2 DEF SingleWriter
<1>10. QED
  BY <1>1, <1>5, <1>7, <1>8, <1>9, NodeStill DEF FencingInv

(* The clock and the chain move by themselves. *)
LEMMA NodeMovesKeep ==
  ASSUME FencingInv, NodeTypeOK', ChainRules', UNCHANGED <<storeVars, workerVars>>
  PROVE  FencingInv'
<1>1. TypeOK'
  BY DEF FencingInv, TypeOK, storeVars, workerVars, driveVars, localVars
<1>2. Control'
  BY ControlStill DEF FencingInv, Control, workerVars, storeVars, driveVars
<1>3. Coherent' /\ SingleWriter'
  BY ZenonT(30) DEF FencingInv, Coherent, SingleWriter, storeVars, workerVars, driveVars
<1>4. QED
  BY <1>1, <1>2, <1>3 DEF FencingInv

(* FencingInv is kept by every step. *)
LEMMA FencingStep ==
  ASSUME FencingInv, [SluiceNext]_vars
  PROVE  FencingInv'
<1>1. ASSUME NEW o \in Ops, Submit(o) PROVE FencingInv'
  BY <1>1, SubmitKeeps
<1>2. ASSUME NEW w \in Workers, WorkerStep(w) PROVE FencingInv'
  BY <1>2, ClaimingKeeps, CasHandlersKeep, BeginSigningKeeps, BuildKeeps, PersistKeeps,
     LookupsKeep, SignKeeps, WriteAheadKeeps, SendKeeps, SettleKeeps, WaitsKeep, DropsKeep DEF WorkerStep
<1>3. ASSUME NEW w \in Workers, Crash(w) PROVE FencingInv'
  BY <1>3, CrashKeeps
<1>4. CASE ClockTick
  BY <1>4, TickKeepsNode, NodeMovesKeep DEF ClockTick, FencingInv, TypeOK
<1>5. CASE MineBlock
  BY <1>5, BlockKeepsNode, NodeMovesKeep DEF MineBlock, FencingInv, TypeOK
<1>6. CASE UNCHANGED vars
  BY <1>6, NodeStill, NodeMovesKeep DEF vars
<1>7. QED
  BY <1>1, <1>2, <1>3, <1>4, <1>5, <1>6 DEF SluiceNext

(* FencingInv holds before the first withdrawal. *)
LEMMA FencingInit == SluiceInit => FencingInv
<1> SUFFICES ASSUME SluiceInit PROVE FencingInv
  OBVIOUS
<1>1. NoRow \in Rows /\ NoRow.state = "absent" /\ NoRow.txid = NoTx /\ NoRow.signed = NoTx
  BY DEF NoRow, Rows, NoLease
<1> HIDE DEF NoRow
<1>2. NodeTypeOK /\ ChainRules
  BY NodeInitGood DEF SluiceInit
<1>3. TypeOK
  BY <1>1, <1>2 DEF SluiceInit, StoreInit, TypeOK, Labels, NoAnswer
<1>4. \A w \in Workers : mine[w] = {} /\ pc[w] = "idle"
  BY DEF SluiceInit
<1>5. Control /\ SingleWriter
  BY <1>4 DEF Control, ControlOf, SingleWriter
<1>6. Coherent
  BY <1>1, <1>4 DEF Coherent, RowGood, SluiceInit, StoreInit
<1>7. QED
  BY <1>2, <1>3, <1>5, <1>6 DEF FencingInv

(* The fencing invariant holds in every reachable state. *)
THEOREM SpecFencing == Spec => []FencingInv
BY FencingInit, FencingStep, PTL DEF Spec

(* Every variable keeps its type. *)
THEOREM SpecTypeOK == Spec => []TypeOK
<1>1. FencingInv => TypeOK
  BY DEF FencingInv
<1>2. QED
  BY <1>1, SpecFencing, PTL

(* Fencing, for any number of workers and however long they stall: a       *)
(* worker's copy under the current token is the row itself, and no token   *)
(* is held twice (claim and cas of both stores).                           *)
THEOREM SpecSingleWriter == Spec => []SingleWriter
<1>1. FencingInv => SingleWriter
  BY DEF FencingInv
<1>2. QED
  BY <1>1, SpecFencing, PTL

(* From the signature to the verdict a row carries one envelope, in its    *)
(* log, paying what was asked (the columns txid and signed_tx).            *)
THEOREM SpecEnvelopeCoherent == Spec => []EnvelopeCoherent
<1>1. FencingInv => EnvelopeCoherent
  BY DEF FencingInv, Coherent, RowGood, EnvelopeCoherent
<1>2. QED
  BY <1>1, SpecFencing, PTL

-----------------------------------------------------------------------------
(*                  What a step of one worker leaves as it was             *)

(* The memory of the workers that do not move. *)
Undisturbed(w) ==
  \A v \in Workers \ {w} :
    /\ pc'[v] = pc[v] /\ cur'[v] = cur[v] /\ snap'[v] = snap[v]
    /\ answer'[v] = answer[v] /\ seen'[v] = seen[v]

(* A step of w disturbs no other worker. *)
LEMMA StepUndisturbed ==
  ASSUME FencingInv, NEW w \in Workers, WorkerStep(w) \/ Crash(w)
  PROVE  Undisturbed(w)
<1>1. /\ pc \in [Workers -> Labels] /\ cur \in [Workers -> Ops \cup {NoOp}]
      /\ snap \in [Workers -> [Ops -> Rows]] /\ seen \in [Workers -> Nat]
      /\ answer \in [Workers -> BroadcastCode \cup Receipts \cup {NoAnswer}]
  BY DEF FencingInv, TypeOK
<1>2. ASSUME NEW label, Goto(w, label), cur' = cur
      PROVE  \A v \in Workers \ {w} : pc'[v] = pc[v] /\ cur'[v] = cur[v]
  BY <1>1, <1>2 DEF Goto
<1>3. ASSUME NEW label, Goto(w, label), NEW o, cur' = [cur EXCEPT ![w] = o]
      PROVE  \A v \in Workers \ {w} : pc'[v] = pc[v] /\ cur'[v] = cur[v]
  BY <1>1, <1>3 DEF Goto
<1>4. ASSUME NextOp(w)
      PROVE  \A v \in Workers \ {w} : pc'[v] = pc[v] /\ cur'[v] = cur[v]
  BY <1>3, <1>4 DEF NextOp
<1>5. ASSUME NEW to, StepReturned(w, to)
      PROVE  \A v \in Workers \ {w} : pc'[v] = pc[v] /\ cur'[v] = cur[v]
  BY <1>2, <1>4, <1>5 DEF StepReturned, driveVars
<1>6. \A v \in Workers \ {w} : pc'[v] = pc[v] /\ cur'[v] = cur[v]
  <2>1. CASE \/ BeginSigning(w) \/ BuildEnvelope(w) \/ PersistEnvelope(w) \/ HandlerError(w)
             \/ CheckExpiry(w) \/ WriteAhead(w) \/ LookupFound(w) \/ LookupSolid(w)
             \/ LookupUnknown(w)
    BY <1>2, <2>1 DEF BeginSigning, BuildEnvelope, PersistEnvelope, HandlerError, CheckExpiry,
       WriteAhead, LookupFound, LookupSolid, LookupUnknown, driveVars
  <2>2. CASE \/ Validate(w) \/ GiveUp(w) \/ Sign(w) \/ RebuildUnsent(w) \/ MarkBroadcast(w)
             \/ Confirm(w) \/ RebuildDead(w)
    BY <1>5, <2>2 DEF Validate, GiveUp, Sign, RebuildUnsent, MarkBroadcast, Confirm, RebuildDead,
       Rebuild, WriteAndReturn
  <2>3. CASE Send(w) \/ Settle(w) \/ QueryTimeout(w) \/ AwaitSolidity(w) \/ NotDead(w)
    BY <1>2, <1>5, <2>3 DEF Send, Settle, QueryTimeout, AwaitSolidity, NotDead, Park,
       WriteAndReturn, driveVars
  <2>4. CASE Claim(w) \/ LostClaim(w) \/ Release(w) \/ Crash(w)
    BY <1>3, <1>4, <2>4 DEF Claim, LostClaim, Release, Crash
  <2>5. QED
    BY <2>1, <2>2, <2>3, <2>4 DEF WorkerStep
<1>7. \A v \in Workers \ {w} : snap'[v] = snap[v]
  <2>1. ASSUME NEW row, Write(w, row) PROVE \A v \in Workers \ {w} : snap'[v] = snap[v]
    BY <1>1, <2>1 DEF Write
  <2>2. CASE \/ Validate(w) \/ BeginSigning(w) \/ GiveUp(w) \/ PersistEnvelope(w) \/ Sign(w)
             \/ RebuildUnsent(w) \/ WriteAhead(w) \/ MarkBroadcast(w) \/ Confirm(w)
             \/ RebuildDead(w)
    BY <2>1, <2>2 DEF Validate, BeginSigning, GiveUp, PersistEnvelope, Sign, RebuildUnsent,
       WriteAhead, MarkBroadcast, Confirm, RebuildDead, Rebuild, WriteAndReturn
  <2>3. CASE \/ BuildEnvelope(w) \/ HandlerError(w) \/ Send(w) \/ Settle(w) \/ QueryTimeout(w)
             \/ CheckExpiry(w) \/ LookupFound(w) \/ AwaitSolidity(w) \/ LookupSolid(w)
             \/ LookupUnknown(w) \/ NotDead(w)
    BY <2>1, <2>3 DEF BuildEnvelope, HandlerError, Send, Settle, QueryTimeout, CheckExpiry, LookupFound,
       AwaitSolidity, LookupSolid, LookupUnknown, NotDead, Park, WriteAndReturn
  <2>4. CASE Claim(w) \/ LostClaim(w) \/ Release(w) \/ Crash(w)
    BY <1>1, <2>4 DEF Claim, LostClaim, Release, Crash
  <2>5. QED
    BY <2>2, <2>3, <2>4 DEF WorkerStep
<1>8. \A v \in Workers \ {w} : answer'[v] = answer[v] /\ seen'[v] = seen[v]
  <2>1. /\ answer' = answer \/ \E a : answer' = [answer EXCEPT ![w] = a]
        /\ seen' = seen \/ \E n : seen' = [seen EXCEPT ![w] = n]
    BY DEF WorkerStep, Claim, Validate, BeginSigning, GiveUp, BuildEnvelope, PersistEnvelope,
       HandlerError, Sign, RebuildUnsent, CheckExpiry, WriteAhead, Send, Settle, QueryTimeout,
       LookupFound, MarkBroadcast, AwaitSolidity, LookupSolid, Confirm, LookupUnknown, RebuildDead, NotDead,
       LostClaim, Release, Crash, Forget, localVars
  <2>2. QED
    BY <1>1, <2>1
<1>9. QED
  BY <1>6, <1>7, <1>8 DEF Undisturbed

(* What the ledger depends on in a row is as it was. *)
RowsStill ==
  \A o \in Ops : /\ rows'[o].state = rows[o].state
                 /\ rows'[o].txid = rows[o].txid
                 /\ rows'[o].signed = rows[o].signed

(* The steps of a worker that write no row, or only a token or a lease. *)
QuietStep(w) ==
  \/ Claim(w) \/ BuildEnvelope(w) \/ HandlerError(w) \/ QueryTimeout(w)
  \/ CheckExpiry(w) \/ LookupFound(w) \/ AwaitSolidity(w) \/ LookupSolid(w)
  \/ LookupUnknown(w) \/ NotDead(w) \/ LostClaim(w) \/ Release(w) \/ Crash(w)
  \/ Settle(w) /\ answer[w] \in RETRY_SAME_BYTES

(* Such a step keeps what the ledger depends on. *)
LEMMA QuietRows ==
  ASSUME FencingInv, NEW w \in Workers, QuietStep(w)
  PROVE  RowsStill /\ writeAhead' = writeAhead /\ UNCHANGED <<now, nodeVars>>
<1>1. CASE Claim(w)
  <2>1. PICK P \in Batches : rows' = [o \in Ops |-> IF o \in P THEN claimed(o) ELSE rows[o]]
    BY <1>1 DEF Claim, claim
  <2>2. RowsStill
    BY <2>1, ClaimedRow DEF RowsStill, FencingInv
  <2>3. QED
    BY <1>1, <2>2 DEF Claim, claim
<1>2. CASE Release(w)
  <2>1. pc[w] # "idle" /\ release(cur[w], op(w).token)
    BY <1>2 DEF Release
  <2>2. cur[w] \in Ops /\ rows[cur[w]] \in Rows /\ rows \in [Ops -> Rows]
    BY <2>1, Busy DEF FencingInv, TypeOK
  <2> DEFINE r == [rows[cur[w]] EXCEPT !.lease = NoLease]
  <2>3. rows' = rows \/ rows' = [rows EXCEPT ![cur[w]] = r]
    BY <2>1 DEF release
  <2>4. /\ r.state = rows[cur[w]].state /\ r.txid = rows[cur[w]].txid
        /\ r.signed = rows[cur[w]].signed
    BY <2>2, ReleasedRow
  <2> HIDE DEF r
  <2>5. RowsStill
    BY <2>2, <2>3, <2>4 DEF RowsStill
  <2>6. QED
    BY <1>2, <2>1, <2>5 DEF Release, release
<1>3. CASE Settle(w) /\ answer[w] \in RETRY_SAME_BYTES
  BY <1>3 DEF Settle, Park, storeVars, RowsStill
<1>4. CASE QueryTimeout(w) \/ AwaitSolidity(w) \/ NotDead(w)
  BY <1>4 DEF QueryTimeout, AwaitSolidity, NotDead, Park, storeVars, RowsStill
<1>5. CASE \/ BuildEnvelope(w) \/ HandlerError(w) \/ CheckExpiry(w) \/ LookupFound(w)
           \/ LookupSolid(w) \/ LookupUnknown(w) \/ LostClaim(w) \/ Crash(w)
  BY <1>5 DEF BuildEnvelope, HandlerError, CheckExpiry, LookupFound, LookupSolid, LookupUnknown,
     LostClaim, Crash, storeVars, RowsStill
<1>6. QED
  BY <1>1, <1>2, <1>3, <1>4, <1>5 DEF QuietStep

-----------------------------------------------------------------------------
(*                            The proof of death                           *)

(* The heart of the rebuild: at the moment of the proof the transaction is *)
(* in no block. Had it landed, it did so after the lookup, before its      *)
(* expiry, and the chain has moved at least Margin past that expiry since: *)
(* more than SafeTiming allows.                                            *)
LEMMA ProofOfDeath ==
  ASSUME SafeTiming, FencingInv, NEW w \in Workers, AnswerBacked(w),
         pc[w] = "proof", proof_of_death(w)
  PROVE  Dead(op(w).signed)
<1> DEFINE t == op(w).signed
<1>1. t \in Txids /\ t.exp \in Nat /\ NodeTypeOK /\ ChainRules
  BY SignedEnvelope DEF FencingInv, TypeOK, Control, ControlOf, Txids
<1>2. solid_now \in Nat /\ solid_now <= blockTime[head] /\ solid_now >= t.exp + Margin
  BY <1>1, SolidNotAhead DEF proof_of_death
<1>3. /\ blockTime[head] <= seen[w] + MaxStall
      /\ Landed(t) => seen[w] < blockTime[txs[t].block]
  BY DEF AnswerBacked
<1>4. /\ Margin \in Nat /\ MaxStall \in Nat /\ MaxStall <= Margin + 1 /\ seen[w] \in Nat
      /\ blockTime[head] \in Nat
  <2>1. Margin \in Nat /\ MaxStall \in Nat /\ MaxStall <= Margin + 1
    BY SluiceAssumption DEF SafeTiming
  <2>2. seen[w] \in Nat
    BY DEF FencingInv, TypeOK
  <2>3. blockTime[head] \in Nat
    BY <1>1, SMT DEF NodeTypeOK
  <2>4. QED
    BY <2>1, <2>2, <2>3
<1> HIDE DEF t
<1>5. t.exp <= blockTime[head]
  BY <1>1, <1>2, <1>4, SMT
<1>6. ~Landed(t)
  <2>1. ASSUME Landed(t) PROVE FALSE
    <3>1. blockTime[txs[t].block] \in Nat /\ blockTime[txs[t].block] < t.exp
      BY <1>1, <2>1 DEF Landed, ChainRules, NodeTypeOK
    <3>2. QED
      BY <1>1, <1>2, <1>3, <1>4, <2>1, <3>1, SMT
  <2>2. QED
    BY <2>1
<1>7. QED
  BY <1>5, <1>6 DEF Dead, t
=============================================================================
