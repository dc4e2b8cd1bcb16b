--------------------------- MODULE PgStoreProofs ----------------------------
(***************************************************************************)
(* For any number of workers, rows, batches and leases: the transactions   *)
(* of the database store implement the contract, and the event log is the  *)
(* history of the rows.                                                    *)
(***************************************************************************)
EXTENDS PgAudit, FiniteSetTheorems, TLAPS

\* Zenon takes every leaf that names no other prover.
USE Zenon

Copies == [state : CLAIMABLE, token : Nat]

Txs ==
  [do : {"none", "claim"} \cup Writes, at : Nat, scan : SUBSET Ops, got : SUBSET Ops,
   o : Ops \cup {NoOp}, to : CLAIMABLE \cup {"absent"}]

PgRows == [state : CLAIMABLE, token : Nat, lease : Int]

PgTypeOK ==
  /\ now \in Nat
  /\ table \in [Ops -> PgRows]
  /\ held \in [Workers -> [Ops -> Copies \cup {NoCopy}]]
  /\ lock \in [Ops -> Workers \cup {Nobody}]
  /\ tx \in [Workers -> Txs]

(* A claim has locked what it got, and what it got still qualifies. *)
Claiming(w) ==
  /\ Holding(w) = {} /\ Cardinality(tx[w].got) <= ClaimBatch
  /\ \A o \in tx[w].got : lock[o] = w /\ Qualifies(o, tx[w].at)

(* A write has a copy, and once its row is locked the copy is the row's. *)
Writing(w) ==
  /\ tx[w].o \in Ops /\ held[w][tx[w].o] # NoCopy
  /\ tx[w].do = "cas" =>
       tx[w].to \in CLAIMABLE /\ can_transition(held[w][tx[w].o].state, tx[w].to)
  /\ tx[w].do = "crumb" => tx[w].to = held[w][tx[w].o].state
  /\ lock[tx[w].o] = w => Matches(w, tx[w].o, tx[w].do)

Open(w) ==
  /\ tx[w].at <= now
  /\ tx[w].do = "claim" => Claiming(w)
  /\ tx[w].do \in Writes => Writing(w)

PgInv == PgTypeOK /\ \A w \in Workers : Open(w)

-----------------------------------------------------------------------------
LEMMA Lifecycle ==
  /\ "requested" \in CLAIMABLE
  /\ \A s \in CLAIMABLE : s \notin TERMINAL
  BY DEF CLAIMABLE, TERMINAL, OpState, TRANSITIONS

LEMMA IdleIsATx == Idle \in Txs
  BY DEF Idle, Txs

LEMMA InitPg == PgInit => PgInv
<1> SUFFICES ASSUME PgInit PROVE PgInv OBVIOUS
<1>1. PgTypeOK BY Lifecycle, IdleIsATx, PgAssumption, SMT DEF PgInit, PgTypeOK, PgRows
<1>2. ASSUME NEW w \in Workers PROVE Open(w)
  BY SMT DEF PgInit, Open, Idle, Writes
<1>3. QED BY <1>1, <1>2 DEF PgInv

LEMMA RowWrites ==
  ASSUME NEW row \in PgRows, NEW state \in CLAIMABLE, NEW lease \in Int
  PROVE  /\ [row EXCEPT !.token = @ + 1, !.lease = lease] \in PgRows
         /\ [row EXCEPT !.state = state, !.lease = lease] \in PgRows
         /\ [row EXCEPT !.lease = lease] \in PgRows
<1>1. row.token + 1 \in Nat BY SMT DEF PgRows
<1>2. [row EXCEPT !.token = row.token + 1, !.lease = lease] \in PgRows BY <1>1 DEF PgRows
<1>3. QED BY <1>2 DEF PgRows

(* Nobody touches a row that another transaction has locked. *)
LEMMA Bystander ==
  ASSUME PgInv, NEW w \in Workers, now' \in Nat, now <= now',
         tx'[w] = tx[w], held'[w] = held[w],
         \A o \in Ops : lock'[o] = w <=> lock[o] = w,
         \A o \in Ops : lock[o] = w => table'[o] = table[o]
  PROVE  Open(w)'
<1>0. /\ Open(w) /\ tx[w] \in Txs /\ now \in Nat
      /\ held[w] \in [Ops -> Copies \cup {NoCopy}]
  BY DEF PgInv, PgTypeOK
<1>1. tx'[w].at <= now' BY <1>0, SMT DEF Open, Txs
<1>2. ASSUME tx'[w].do = "claim" PROVE Claiming(w)'
  <2>1. Claiming(w) BY <1>0, <1>2 DEF Open
  <2>2. Holding(w)' = {} BY <2>1 DEF Claiming, Holding
  <2>3. ASSUME NEW o \in tx'[w].got PROVE lock'[o] = w /\ Qualifies(o, tx[w].at)'
    <3>1. o \in Ops /\ lock[o] = w /\ Qualifies(o, tx[w].at)
      BY <1>0, <2>1, <2>3 DEF Claiming, Txs
    <3>2. QED BY <3>1 DEF Qualifies
  <2>4. QED BY <2>1, <2>2, <2>3 DEF Claiming
<1>3. ASSUME tx'[w].do \in Writes PROVE Writing(w)'
  <2>1. Writing(w) BY <1>0, <1>3 DEF Open
  <2>2. lock'[tx[w].o] = w => Matches(w, tx[w].o, tx[w].do)'
    BY <2>1 DEF Writing, Matches
  <2>3. QED BY <2>1, <2>2 DEF Writing
<1>4. QED BY <1>1, <1>2, <1>3 DEF Open

(* Without a transaction there is nothing to keep. *)
LEMMA IdleIsOpen ==
  ASSUME NEW w \in Workers, tx'[w] = Idle, now' \in Nat PROVE Open(w)'
  BY SMT DEF Open, Idle, Writes

(* The end of a transaction: its locks go, and those of others stay. *)
LEMMA EndFrees ==
  ASSUME PgInv, NEW v \in Workers, End(v)
  PROVE  /\ lock' \in [Ops -> Workers \cup {Nobody}] /\ tx' \in [Workers -> Txs]
         /\ tx'[v] = Idle
         /\ \A w \in Workers \ {v} :
              tx'[w] = tx[w] /\ \A o \in Ops : lock'[o] = w <=> lock[o] = w
  BY IdleIsATx, PgAssumption, SMT DEF PgInv, PgTypeOK, End, Unlocked

-----------------------------------------------------------------------------
LEMMA BeginClaimKeeps ==
  ASSUME PgInv, NEW v \in Workers, BeginClaim(v)
  PROVE  PgInv'
<1> DEFINE new == [Idle EXCEPT !.do = "claim", !.at = now,
                                !.scan = {o \in Ops : Qualifies(o, now)}]
<1>0. PgTypeOK BY DEF PgInv
<1>1. /\ new \in Txs /\ new.do = "claim" /\ new.at = now /\ new.got = {}
  BY <1>0 DEF Idle, Txs, PgTypeOK
<1>2. tx' = [tx EXCEPT ![v] = new] /\ UNCHANGED <<now, table, held, lock>>
  BY DEF BeginClaim
<1> HIDE DEF new
<1>3. PgTypeOK' BY <1>0, <1>1, <1>2 DEF PgTypeOK
<1>4. tx'[v] = new BY <1>0, <1>2 DEF PgTypeOK
<1>5. Claiming(v)'
  <2>1. Holding(v)' = {} BY <1>2 DEF BeginClaim, Holding
  <2>2. Cardinality({}) = 0 BY FS_EmptySet
  <2>3. Cardinality(tx'[v].got) <= ClaimBatch BY <1>1, <1>4, <2>2, PgAssumption, SMT
  <2>4. QED BY <1>1, <1>4, <2>1, <2>3 DEF Claiming
<1>6. Open(v)' BY <1>0, <1>1, <1>2, <1>4, <1>5, SMT DEF Open, Writes, PgTypeOK
<1>7. ASSUME NEW w \in Workers, w # v PROVE Open(w)'
  <2>1. tx'[w] = tx[w] /\ now' \in Nat /\ now <= now' BY <1>0, <1>2, <1>7, SMT DEF PgTypeOK
  <2>2. QED BY <1>2, <2>1, Bystander
<1>8. QED BY <1>3, <1>6, <1>7 DEF PgInv

LEMMA TakeKeeps ==
  ASSUME PgInv, NEW v \in Workers, ScanNext(v)
  PROVE  PgInv'
<1>0. PgTypeOK /\ Open(v) /\ tx[v] \in Txs /\ tx[v].do = "claim" /\ Claiming(v)
  BY DEF PgInv, PgTypeOK, ScanNext, Open
<1>1. UNCHANGED <<now, table, held>> BY DEF ScanNext
<1>2. PICK o \in tx[v].scan : Take(v, o) BY DEF ScanNext
<1>3. o \in Ops BY <1>0 DEF Txs
<1>4. CASE lock[o] = Nobody /\ Qualifies(o, tx[v].at)
  <2> DEFINE new == [tx[v] EXCEPT !.scan = @ \ {o}, !.got = @ \cup {o}]
  <2>1. tx' = [tx EXCEPT ![v] = new] /\ lock' = [lock EXCEPT ![o] = v]
    BY <1>2, <1>4 DEF Take
  <2>2. /\ new \in Txs /\ new.do = "claim" /\ new.at = tx[v].at
        /\ new.got = tx[v].got \cup {o}
    BY <1>0, <1>3 DEF Txs
  <2> HIDE DEF new
  <2>3. PgTypeOK' BY <1>0, <1>1, <2>1, <2>2 DEF PgTypeOK
  <2>4. tx'[v] = new BY <1>0, <2>1 DEF PgTypeOK
  <2>5. Cardinality(new.got) <= ClaimBatch
    <3>1. IsFiniteSet(tx[v].got) BY <1>0, PgAssumption, FS_Subset DEF Txs
    <3>2. Cardinality(tx[v].got) # ClaimBatch BY DEF ScanNext, Full
    <3>3. Cardinality(tx[v].got) \in Nat BY <3>1, FS_CardinalityType
    <3>4. Cardinality(tx[v].got) < ClaimBatch BY <1>0, <3>2, <3>3, PgAssumption, SMT DEF Claiming
    <3>5. \/ Cardinality(tx[v].got \cup {o}) = Cardinality(tx[v].got)
          \/ Cardinality(tx[v].got \cup {o}) = Cardinality(tx[v].got) + 1
      BY <3>1, FS_AddElement
    <3>6. QED BY <2>2, <3>3, <3>4, <3>5, PgAssumption, SMT
  <2>6. Holding(v)' = {} BY <1>0, <1>1 DEF Claiming, Holding
  <2>7. \A p \in tx'[v].got : lock'[p] = v /\ Qualifies(p, tx[v].at)'
    <3> TAKE p \in tx'[v].got
    <3>1. p \in tx[v].got \cup {o} /\ p \in Ops BY <1>0, <1>3, <2>2, <2>4 DEF Txs
    <3>2. lock'[p] = v BY <1>0, <2>1, <3>1 DEF Claiming, PgTypeOK
    <3>3. Qualifies(p, tx[v].at) BY <1>0, <1>4, <3>1 DEF Claiming
    <3>4. tx'[v].at = tx[v].at BY <2>2, <2>4
    <3>5. QED BY <1>1, <3>2, <3>3, <3>4 DEF Qualifies
  <2>8. Claiming(v)' BY <2>4, <2>5, <2>6, <2>7 DEF Claiming
  <2>9. Open(v)' BY <1>0, <1>1, <2>2, <2>4, <2>8 DEF Open, Writes
  <2>10. ASSUME NEW w \in Workers, w # v PROVE Open(w)'
    <3>1. tx'[w] = tx[w] /\ now' \in Nat /\ now <= now' BY <1>0, <1>1, <2>1, <2>10, SMT DEF PgTypeOK
    <3>2. \A p \in Ops : lock'[p] = w <=> lock[p] = w
      BY <1>0, <1>4, <2>1, <2>10, PgAssumption DEF PgTypeOK
    <3>3. QED BY <1>1, <3>1, <3>2, Bystander
  <2>11. QED BY <2>3, <2>9, <2>10 DEF PgInv
<1>5. CASE ~(lock[o] = Nobody /\ Qualifies(o, tx[v].at))
  <2> DEFINE new == [tx[v] EXCEPT !.scan = @ \ {o}]
  <2>1. tx' = [tx EXCEPT ![v] = new] /\ lock' = lock BY <1>2, <1>5 DEF Take
  <2>2. /\ new \in Txs /\ new.do = "claim" /\ new.at = tx[v].at /\ new.got = tx[v].got
    BY <1>0 DEF Txs
  <2> HIDE DEF new
  <2>3. PgTypeOK' BY <1>0, <1>1, <2>1, <2>2 DEF PgTypeOK
  <2>4. tx'[v] = new BY <1>0, <2>1 DEF PgTypeOK
  <2>5. Claiming(v)'
    BY <1>0, <1>1, <2>1, <2>2, <2>4 DEF Claiming, Holding, Qualifies
  <2>6. Open(v)' BY <1>0, <1>1, <2>2, <2>4, <2>5 DEF Open, Writes
  <2>7. ASSUME NEW w \in Workers, w # v PROVE Open(w)'
    <3>1. tx'[w] = tx[w] /\ now' \in Nat /\ now <= now' BY <1>0, <1>1, <2>1, <2>7, SMT DEF PgTypeOK
    <3>2. QED BY <1>1, <2>1, <3>1, Bystander
  <2>8. QED BY <2>3, <2>6, <2>7 DEF PgInv
<1>6. QED BY <1>4, <1>5

LEMMA CommitClaimKeeps ==
  ASSUME PgInv, NEW v \in Workers, CommitClaim(v)
  PROVE  PgInv'
<1>0. PgTypeOK /\ Open(v) /\ tx[v] \in Txs /\ tx[v].do = "claim" /\ Claiming(v)
  BY DEF PgInv, PgTypeOK, CommitClaim, Open
<1>1. End(v) /\ now' = now BY DEF CommitClaim
<1>2. \A o \in Ops :
        /\ o \in tx[v].got => table'[o] = [table[o] EXCEPT !.token = @ + 1, !.lease = tx[v].at + Lease]
        /\ o \notin tx[v].got => table'[o] = table[o]
  BY DEF CommitClaim
<1>3. table' \in [Ops -> PgRows]
  <2>1. ASSUME NEW o \in Ops PROVE table'[o] \in PgRows
    <3>1. table[o] \in PgRows BY <1>0 DEF PgTypeOK
    <3>2. tx[v].at + Lease \in Int BY <1>0, PgAssumption, SMT DEF Txs
    <3>3. [table[o] EXCEPT !.token = @ + 1, !.lease = tx[v].at + Lease] \in PgRows
      BY <3>1, <3>2, Lifecycle, RowWrites
    <3>4. QED BY <1>2, <3>1, <3>3
  <2>2. QED BY <2>1 DEF CommitClaim
<1>4. held' \in [Workers -> [Ops -> Copies \cup {NoCopy}]]
  <2>1. \A o \in Ops : Copy(table'[o]) \in Copies BY <1>3 DEF Copy, Copies, PgRows
  <2>2. QED BY <1>0, <2>1 DEF CommitClaim, PgTypeOK
<1>5. PgTypeOK' BY <1>0, <1>1, <1>3, <1>4, EndFrees DEF PgTypeOK
<1>6. Open(v)' BY <1>1, <1>5, EndFrees, IdleIsOpen DEF PgTypeOK
<1>7. ASSUME NEW w \in Workers, w # v PROVE Open(w)'
  <2>1. tx'[w] = tx[w] /\ \A o \in Ops : lock'[o] = w <=> lock[o] = w
    BY <1>1, <1>7, EndFrees, SMT
  <2>2. held'[w] = held[w] BY <1>0, <1>7 DEF CommitClaim, PgTypeOK
  <2>3. \A o \in Ops : lock[o] = w => table'[o] = table[o]
    BY <1>0, <1>2, <1>7 DEF Claiming
  <2>4. now' \in Nat /\ now <= now' BY <1>0, <1>1, SMT DEF PgTypeOK
  <2>5. QED BY <2>1, <2>2, <2>3, <2>4, Bystander
<1>8. QED BY <1>5, <1>6, <1>7 DEF PgInv

(* Whoever drops a copy or its whole transaction disturbs nobody. *)
LEMMA DropKeeps ==
  ASSUME PgInv, NEW v \in Workers, End(v), UNCHANGED <<now, table>>,
         held' \in [Workers -> [Ops -> Copies \cup {NoCopy}]],
         \A w \in Workers \ {v} : held'[w] = held[w]
  PROVE  PgInv'
<1>1. PgTypeOK' BY EndFrees DEF PgInv, PgTypeOK
<1>2. Open(v)' BY <1>1, EndFrees, IdleIsOpen DEF PgTypeOK
<1>3. ASSUME NEW w \in Workers, w # v PROVE Open(w)'
  <2>1. tx'[w] = tx[w] /\ \A o \in Ops : lock'[o] = w <=> lock[o] = w BY <1>3, EndFrees, SMT
  <2>2. now' \in Nat /\ now <= now' BY SMT DEF PgInv, PgTypeOK
  <2>3. QED BY <1>3, <2>1, <2>2, Bystander
<1>4. QED BY <1>1, <1>2, <1>3 DEF PgInv

LEMMA MissDrops ==
  ASSUME PgInv, NEW v \in Workers, NEW o \in Ops, NEW do, Miss(v, o, do)
  PROVE  /\ held' \in [Workers -> [Ops -> Copies \cup {NoCopy}]]
         /\ \A w \in Workers \ {v} : held'[w] = held[w]
  BY DEF PgInv, PgTypeOK, Miss

LEMMA BeginKeeps ==
  ASSUME PgInv, NEW v \in Workers, NEW o \in Ops, NEW do \in Writes,
         NEW to \in CLAIMABLE \cup {"absent"}, Begin(v, o, do, to),
         do = "cas" => to \in CLAIMABLE /\ can_transition(held[v][o].state, to),
         do = "crumb" => to = held[v][o].state
  PROVE  PgInv'
<1>0. PgTypeOK /\ tx[v] \in Txs /\ tx[v].do = "none" /\ held[v][o] # NoCopy
  BY DEF PgInv, PgTypeOK, Begin, Holding
<1>1. UNCHANGED <<now, table, lock>> BY DEF Begin
<1>2. CASE Matches(v, o, do)
  <2> DEFINE new == [Idle EXCEPT !.do = do, !.at = now, !.o = o, !.to = to]
  <2>1. tx' = [tx EXCEPT ![v] = new] /\ held' = held BY <1>2 DEF Begin
  <2>2. new \in Txs /\ new.do = do /\ new.at = now /\ new.o = o /\ new.to = to
    BY <1>0 DEF Idle, Txs, PgTypeOK
  <2> HIDE DEF new
  <2>3. PgTypeOK' BY <1>0, <1>1, <2>1, <2>2 DEF PgTypeOK
  <2>4. tx'[v] = new BY <1>0, <2>1 DEF PgTypeOK
  <2>5. Matches(v, o, do)' BY <1>1, <1>2, <2>1 DEF Matches
  <2>6. Writing(v)'
    <3>1. Matches(v, tx[v].o, tx[v].do)' BY <2>2, <2>4, <2>5
    <3>2. QED BY <1>0, <2>1, <2>2, <2>4, <3>1 DEF Writing
  <2>7. Open(v)' BY <1>0, <1>1, <2>2, <2>4, <2>6, SMT DEF Open, Writes, PgTypeOK
  <2>8. ASSUME NEW w \in Workers, w # v PROVE Open(w)'
    <3>1. tx'[w] = tx[w] /\ now' \in Nat /\ now <= now' BY <1>0, <1>1, <2>1, <2>8, SMT DEF PgTypeOK
    <3>2. QED BY <1>1, <2>1, <3>1, Bystander
  <2>9. QED BY <2>3, <2>7, <2>8 DEF PgInv
<1>3. CASE ~Matches(v, o, do)
  <2>1. Miss(v, o, do) /\ tx' = tx BY <1>3 DEF Begin
  <2>2. PgTypeOK' BY <1>0, <1>1, <2>1, MissDrops DEF PgTypeOK
  <2>3. Open(v)' BY <1>0, <1>1, <2>1 DEF Open, Writes, PgInv, PgTypeOK
  <2>4. ASSUME NEW w \in Workers, w # v PROVE Open(w)'
    <3>1. held'[w] = held[w] /\ now' \in Nat /\ now <= now'
      BY <1>0, <1>1, <2>1, <2>4, MissDrops, SMT DEF PgTypeOK
    <3>2. QED BY <1>1, <2>1, <3>1, Bystander
  <2>5. QED BY <2>2, <2>3, <2>4 DEF PgInv
<1>4. QED BY <1>2, <1>3

LEMMA LockRowKeeps ==
  ASSUME PgInv, NEW v \in Workers, LockRow(v)
  PROVE  PgInv'
<1>0. PgTypeOK /\ Open(v) /\ tx[v] \in Txs /\ tx[v].do \in Writes /\ Writing(v)
  BY DEF PgInv, PgTypeOK, LockRow, Open
<1>1. UNCHANGED <<now, table>> /\ tx[v].o \in Ops /\ lock[tx[v].o] = Nobody
  BY <1>0 DEF LockRow, Writing
<1>2. CASE Matches(v, tx[v].o, tx[v].do)
  <2>1. lock' = [lock EXCEPT ![tx[v].o] = v] /\ UNCHANGED <<held, tx>>
    BY <1>2 DEF LockRow
  <2>2. PgTypeOK' BY <1>0, <1>1, <2>1 DEF PgTypeOK
  <2>3. Matches(v, tx[v].o, tx[v].do)' BY <1>1, <1>2, <2>1 DEF Matches
  <2>4. Writing(v)' BY <1>0, <2>1, <2>3 DEF Writing
  <2>5. Open(v)' BY <1>0, <1>1, <2>1, <2>4 DEF Open, Writes
  <2>6. ASSUME NEW w \in Workers, w # v PROVE Open(w)'
    <3>1. now' \in Nat /\ now <= now' BY <1>0, <1>1, SMT DEF PgTypeOK
    <3>2. \A p \in Ops : lock'[p] = w <=> lock[p] = w
      BY <1>0, <1>1, <2>1, <2>6, PgAssumption DEF PgTypeOK
    <3>3. QED BY <1>1, <2>1, <3>1, <3>2, Bystander
  <2>7. QED BY <2>2, <2>5, <2>6 DEF PgInv
<1>3. CASE ~Matches(v, tx[v].o, tx[v].do)
  <2>1. Miss(v, tx[v].o, tx[v].do) /\ End(v) BY <1>3 DEF LockRow
  <2>2. QED BY <1>1, <2>1, MissDrops, DropKeeps
<1>4. QED BY <1>2, <1>3

(* A commit changes the row its transaction has locked, and no other. *)
LEMMA CommitKeeps ==
  ASSUME PgInv, NEW v \in Workers, End(v), now' = now, tx[v].o \in Ops, lock[tx[v].o] = v,
         table' \in [Ops -> PgRows],
         \A o \in Ops \ {tx[v].o} : table'[o] = table[o],
         held' \in [Workers -> [Ops -> Copies \cup {NoCopy}]],
         \A w \in Workers \ {v} : held'[w] = held[w]
  PROVE  PgInv'
<1>1. PgTypeOK' BY EndFrees DEF PgInv, PgTypeOK
<1>2. Open(v)' BY <1>1, EndFrees, IdleIsOpen DEF PgTypeOK
<1>3. ASSUME NEW w \in Workers, w # v PROVE Open(w)'
  <2>1. tx'[w] = tx[w] /\ \A o \in Ops : lock'[o] = w <=> lock[o] = w BY <1>3, EndFrees, SMT
  <2>2. \A o \in Ops : lock[o] = w => table'[o] = table[o] BY <1>3
  <2>3. now' \in Nat /\ now <= now' BY SMT DEF PgInv, PgTypeOK
  <2>4. QED BY <1>3, <2>1, <2>2, <2>3, Bystander
<1>4. QED BY <1>1, <1>2, <1>3 DEF PgInv

(* What the committing transaction of a cas is known to hold. *)
LEMMA CasFacts ==
  ASSUME PgInv, NEW v \in Workers, CommitCas(v)
  PROVE  /\ tx[v].o \in Ops /\ held[v][tx[v].o] = Copy(table[tx[v].o])
         /\ tx[v].to \in CLAIMABLE /\ can_transition(table[tx[v].o].state, tx[v].to)
         /\ tx[v].at \in Nat /\ tx[v].at <= now
<1>1. PgTypeOK /\ Open(v) /\ tx[v] \in Txs BY DEF PgInv, PgTypeOK
<1>2. tx[v].do \in {"cas", "crumb"} /\ lock[tx[v].o] = v BY DEF CommitCas
<1>3. Writing(v) BY <1>1, <1>2 DEF Open, Writes
<1>4. tx[v].o \in Ops /\ held[v][tx[v].o] \in Copies
  BY <1>1, <1>3, SMT DEF Writing, PgTypeOK
<1>5. Matches(v, tx[v].o, tx[v].do) BY <1>2, <1>3 DEF Writing
<1>6. /\ table[tx[v].o].token = held[v][tx[v].o].token
      /\ table[tx[v].o].state = held[v][tx[v].o].state
  BY <1>2, <1>5 DEF Matches
<1>7. held[v][tx[v].o] = Copy(table[tx[v].o]) BY <1>4, <1>6 DEF Copy, Copies
<1>8. tx[v].to \in CLAIMABLE /\ can_transition(table[tx[v].o].state, tx[v].to)
  BY <1>2, <1>3, <1>4, <1>6 DEF Writing, can_transition, Copies
<1>9. QED BY <1>1, <1>4, <1>7, <1>8 DEF Open, Txs

LEMMA ReleaseFacts ==
  ASSUME PgInv, NEW v \in Workers, CommitRelease(v)
  PROVE  /\ tx[v].o \in Ops /\ held[v][tx[v].o] # NoCopy
         /\ held[v][tx[v].o].token = table[tx[v].o].token
<1>1. Open(v) BY DEF PgInv
<1>2. tx[v].do = "release" /\ lock[tx[v].o] = v BY DEF CommitRelease
<1>3. Writing(v) BY <1>1, <1>2 DEF Open, Writes
<1>4. QED BY <1>2, <1>3 DEF Writing, Matches

LEMMA CommitCasKeeps ==
  ASSUME PgInv, NEW v \in Workers, CommitCas(v)
  PROVE  PgInv'
<1>0. PgTypeOK BY DEF PgInv
<1>1. /\ tx[v].o \in Ops /\ tx[v].to \in CLAIMABLE /\ tx[v].at + Lease \in Int
      /\ held[v][tx[v].o] \in Copies
  <2>1. Copy(table[tx[v].o]) \in Copies BY <1>0, CasFacts DEF PgTypeOK, PgRows, Copy, Copies
  <2>2. QED BY <2>1, CasFacts, PgAssumption, SMT
<1>2. table' \in [Ops -> PgRows]
  <2> DEFINE lease == IF tx[v].do = "cas" THEN tx[v].at + Lease ELSE table[tx[v].o].lease
  <2>1. lease \in Int BY <1>0, <1>1 DEF PgTypeOK, PgRows
  <2>2. table' = [table EXCEPT ![tx[v].o] = [@ EXCEPT !.state = tx[v].to, !.lease = lease]]
    BY <1>0, <1>1 DEF CommitCas, PgTypeOK
  <2> HIDE DEF lease
  <2>3. [table[tx[v].o] EXCEPT !.state = tx[v].to, !.lease = lease] \in PgRows
    BY <1>0, <1>1, <2>1, RowWrites DEF PgTypeOK
  <2>4. QED BY <1>0, <2>2, <2>3 DEF PgTypeOK
<1>3. \A o \in Ops \ {tx[v].o} : table'[o] = table[o] BY <1>0 DEF CommitCas, PgTypeOK
<1>4. /\ held' \in [Workers -> [Ops -> Copies \cup {NoCopy}]]
      /\ \A w \in Workers \ {v} : held'[w] = held[w]
  <2>1. CASE held' = held BY <1>0, <2>1 DEF PgTypeOK
  <2>2. CASE held' = [held EXCEPT ![v][tx[v].o].state = tx[v].to]
    <3>1. [held[v][tx[v].o] EXCEPT !.state = tx[v].to] \in Copies BY <1>1 DEF Copies
    <3>2. held' = [held EXCEPT ![v] = [held[v] EXCEPT ![tx[v].o] =
                                          [held[v][tx[v].o] EXCEPT !.state = tx[v].to]]]
      BY <1>0, <2>2 DEF PgTypeOK
    <3>3. QED BY <1>0, <3>1, <3>2 DEF PgTypeOK
  <2>3. QED BY <2>1, <2>2 DEF CommitCas
<1>5. QED BY <1>1, <1>2, <1>3, <1>4, CommitKeeps DEF CommitCas

LEMMA CommitReleaseKeeps ==
  ASSUME PgInv, NEW v \in Workers, CommitRelease(v)
  PROVE  PgInv'
<1>0. PgTypeOK /\ tx[v].o \in Ops BY ReleaseFacts DEF PgInv
<1>1. table' \in [Ops -> PgRows]
  <2>1. NoLease \in Int BY PgAssumption, SMT
  <2>2. [table[tx[v].o] EXCEPT !.lease = NoLease] \in PgRows
    BY <1>0, <2>1, Lifecycle, RowWrites DEF PgTypeOK
  <2>3. table' = [table EXCEPT ![tx[v].o] = [@ EXCEPT !.lease = NoLease]]
    BY <1>0 DEF CommitRelease, PgTypeOK
  <2>4. QED BY <1>0, <2>2, <2>3 DEF PgTypeOK
<1>2. \A o \in Ops \ {tx[v].o} : table'[o] = table[o] BY <1>0 DEF CommitRelease, PgTypeOK
<1>3. /\ held' \in [Workers -> [Ops -> Copies \cup {NoCopy}]]
      /\ \A w \in Workers \ {v} : held'[w] = held[w]
  BY <1>0 DEF CommitRelease, PgTypeOK
<1>4. QED BY <1>0, <1>1, <1>2, <1>3, CommitKeeps DEF CommitRelease

LEMMA CrashDrops ==
  ASSUME PgInv, NEW v \in Workers, Crash(v)
  PROVE  PgInv'
<1>1. /\ held' \in [Workers -> [Ops -> Copies \cup {NoCopy}]]
      /\ \A w \in Workers \ {v} : held'[w] = held[w]
  BY DEF PgInv, PgTypeOK, Crash
<1>2. QED BY <1>1, DropKeeps DEF Crash

LEMMA PgNextKeeps == PgInv /\ [PgNext]_pgVars => PgInv'
<1> SUFFICES ASSUME PgInv, [PgNext]_pgVars PROVE PgInv' OBVIOUS
<1>0. PgTypeOK BY DEF PgInv
<1>1. ASSUME NEW v \in Workers, BeginClaim(v) PROVE PgInv' BY <1>1, BeginClaimKeeps
<1>2. ASSUME NEW v \in Workers, Proceed(v) PROVE PgInv'
  BY <1>2, TakeKeeps, CommitClaimKeeps, LockRowKeeps, CommitCasKeeps, CommitReleaseKeeps DEF Proceed
<1>3. ASSUME NEW v \in Workers, Crash(v) PROVE PgInv' BY <1>3, CrashDrops
<1>4. ASSUME NEW v \in Workers, NEW o \in Ops, BeginCas(v, o) PROVE PgInv'
  <2>1. PICK to \in Targets : can_transition(held[v][o].state, to) /\ Begin(v, o, "cas", to)
    BY <1>4 DEF BeginCas
  <2>2. to \in CLAIMABLE /\ "cas" \in Writes BY PgAssumption DEF Writes
  <2>3. QED BY <2>1, <2>2, BeginKeeps
<1>5. ASSUME NEW v \in Workers, NEW o \in Ops, BeginCrumb(v, o) PROVE PgInv'
  <2>1. held[v][o].state \in CLAIMABLE
    BY <1>0, <1>5 DEF PgTypeOK, BeginCrumb, Holding, Copies
  <2>2. Begin(v, o, "crumb", held[v][o].state) /\ "crumb" \in Writes
    BY <1>5 DEF BeginCrumb, Writes
  <2>3. QED BY <2>1, <2>2, BeginKeeps
<1>6. ASSUME NEW v \in Workers, NEW o \in Ops, BeginRelease(v, o) PROVE PgInv'
  <2>1. Begin(v, o, "release", "absent") /\ "release" \in Writes
    BY <1>6 DEF BeginRelease, Writes
  <2>2. QED BY <2>1, BeginKeeps
<1>7. CASE Tick
  <2>1. PgTypeOK' BY <1>0, <1>7, SMT DEF PgTypeOK, Tick
  <2>2. ASSUME NEW w \in Workers PROVE Open(w)'
    <3>1. now' \in Nat /\ now <= now' BY <1>0, <1>7, SMT DEF PgTypeOK, Tick
    <3>2. QED BY <1>7, <3>1, Bystander DEF Tick
  <2>3. QED BY <2>1, <2>2 DEF PgInv
<1>8. CASE UNCHANGED pgVars
  <2>1. PgTypeOK' BY <1>0, <1>8 DEF PgTypeOK, pgVars
  <2>2. ASSUME NEW w \in Workers PROVE Open(w)'
    <3>1. now' \in Nat /\ now <= now' BY <1>0, <1>8, SMT DEF PgTypeOK, pgVars
    <3>2. QED BY <1>8, <3>1, Bystander DEF pgVars
  <2>3. QED BY <2>1, <2>2 DEF PgInv
<1>9. QED BY <1>1, <1>2, <1>3, <1>4, <1>5, <1>6, <1>7, <1>8 DEF PgNext, Call

-----------------------------------------------------------------------------
(* The contract's words for the lifecycle and for sizes are the store's. *)
LEMMA SameWords ==
  /\ Contract!CLAIMABLE = CLAIMABLE
  /\ \A s, t : Contract!can_transition(s, t) <=> can_transition(s, t)
<1>1. Contract!OpState = OpState BY DEF Contract!OpState, OpState
<1>2. Contract!TRANSITIONS = TRANSITIONS BY <1>1 DEF Contract!TRANSITIONS, TRANSITIONS
<1>3. Contract!TERMINAL = TERMINAL BY <1>1, <1>2 DEF Contract!TERMINAL, TERMINAL
<1>4. QED BY <1>1, <1>2, <1>3 DEF Contract!CLAIMABLE, CLAIMABLE,
                                  Contract!can_transition, can_transition

LEMMA SameSize == ASSUME NEW S PROVE Contract!Cardinality(S) = Cardinality(S)
  BY DEF Contract!Cardinality, Cardinality

(* A transaction that matched nothing: the copy is out of date. *)
LEMMA MissIsRefused ==
  ASSUME PgInv, NEW v \in Workers, NEW o \in Ops, NEW do \in Writes,
         held[v][o] # NoCopy, ~Matches(v, o, do), Miss(v, o, do), UNCHANGED <<now, table>>
  PROVE  Contract!Refused(v, o) \/ UNCHANGED <<now, table, held>>
<1>1. table[o].state \notin TERMINAL BY Lifecycle DEF PgInv, PgTypeOK, PgRows
<1>2. held[v][o] # Copy(table[o]) BY <1>1, SMT DEF Matches, Copy
<1>3. QED BY <1>2 DEF Miss, Contract!Refused, Contract!Copy, Copy

LEMMA CommitClaimIsClaim ==
  ASSUME PgInv, NEW v \in Workers, CommitClaim(v), tx[v].got # {}
  PROVE  Contract!Claim(v, tx[v].got)
<1>0. PgTypeOK /\ tx[v] \in Txs /\ Claiming(v) /\ tx[v].at <= now
  BY DEF PgInv, PgTypeOK, CommitClaim, Open
<1>1. \A o \in tx[v].got : Contract!Free(o)
  <2> TAKE o \in tx[v].got
  <2>1. o \in Ops /\ Qualifies(o, tx[v].at) BY <1>0 DEF Claiming, Txs
  <2>2. table[o].lease \in Int BY <1>0, <2>1 DEF PgTypeOK, PgRows
  <2>3. QED BY <1>0, <2>1, <2>2, SameWords, SMT DEF Qualifies, Contract!Free, PgTypeOK, Txs
<1>2. tx[v].at + Lease \in Contract!Leases
  BY <1>0, PgAssumption, SMT DEF Contract!Leases, Txs, PgTypeOK
<1>3. held' = [held EXCEPT ![v] =
                 [o \in Ops |-> IF o \in tx[v].got THEN Contract!Copy(table'[o]) ELSE NoCopy]]
  BY DEF CommitClaim, Copy, Contract!Copy
<1>4. Contract!Cardinality(tx[v].got) <= ClaimBatch BY <1>0, SameSize DEF Claiming
<1>5. QED BY <1>1, <1>2, <1>3, <1>4 DEF Contract!Claim, CommitClaim

LEMMA CommitCasIsCas ==
  ASSUME PgInv, NEW v \in Workers, CommitCas(v)
  PROVE  Contract!Cas(v, tx[v].o)
<1> DEFINE lease == IF tx[v].do = "cas" THEN tx[v].at + Lease ELSE table[tx[v].o].lease
<1>0. PgTypeOK /\ tx[v].o \in Ops BY CasFacts DEF PgInv
<1>1. tx[v].at + Lease \in Contract!Leases
  BY <1>0, CasFacts, PgAssumption, SMT DEF Contract!Leases, PgTypeOK
<1>2. lease \in Contract!Leases \cup {table[tx[v].o].lease} BY <1>1
<1>3. table' = [table EXCEPT ![tx[v].o].state = tx[v].to, ![tx[v].o].lease = lease]
  BY <1>0 DEF CommitCas, PgTypeOK
<1>4. held[v][tx[v].o] = Contract!Copy(table[tx[v].o]) BY CasFacts DEF Copy, Contract!Copy
<1> HIDE DEF lease
<1>5. held' = [held EXCEPT ![v][tx[v].o].state = tx[v].to] \/ held' = held
  BY DEF CommitCas
<1>6. now' = now BY DEF CommitCas
<1>7. QED BY <1>2, <1>3, <1>4, <1>5, <1>6, CasFacts, SameWords DEF Contract!Cas

LEMMA ContractStep == PgInv /\ [PgNext]_pgVars => [Contract!ContractNext]_Contract!contractVars
<1> SUFFICES ASSUME PgInv, [PgNext]_pgVars
             PROVE  Contract!ContractNext \/ UNCHANGED <<now, table, held>>
  BY DEF Contract!contractVars
<1>1. ASSUME NEW v \in Workers, NEW o \in Ops, NEW do \in Writes, NEW to, Begin(v, o, do, to)
      PROVE  Contract!ContractNext \/ UNCHANGED <<now, table, held>>
  BY <1>1, MissIsRefused DEF Begin, Holding, Contract!ContractNext
<1>2. ASSUME NEW v \in Workers, CommitClaim(v)
      PROVE  Contract!ContractNext \/ UNCHANGED <<now, table, held>>
  <2>1. tx[v].got \in SUBSET Ops BY DEF PgInv, PgTypeOK, Txs
  <2>2. CASE tx[v].got # {}
    BY <1>2, <2>1, <2>2, CommitClaimIsClaim DEF Contract!ContractNext
  <2>3. CASE tx[v].got = {}
    <3>1. table' = table /\ now' = now BY <1>2, <2>3 DEF CommitClaim, PgInv, PgTypeOK
    <3>2. held' = [held EXCEPT ![v] = [o \in Ops |-> NoCopy]] BY <1>2, <2>3 DEF CommitClaim
    <3>3. QED BY <3>1, <3>2 DEF Contract!ContractNext, Contract!Die
  <2>4. QED BY <2>2, <2>3
<1>3. ASSUME NEW v \in Workers, LockRow(v)
      PROVE  Contract!ContractNext \/ UNCHANGED <<now, table, held>>
  <2>1. Writing(v) /\ tx[v].do \in Writes BY <1>3 DEF PgInv, Open, LockRow
  <2>2. QED BY <1>3, <2>1, MissIsRefused DEF LockRow, Writing, Contract!ContractNext
<1>4. ASSUME NEW v \in Workers, CommitCas(v) PROVE Contract!ContractNext
  BY <1>4, CommitCasIsCas, CasFacts DEF Contract!ContractNext
<1>5. ASSUME NEW v \in Workers, CommitRelease(v) PROVE Contract!ContractNext
  <2>1. Contract!Release(v, tx[v].o)
    BY <1>5, ReleaseFacts DEF CommitRelease, Contract!Release
  <2>2. QED BY <1>5, <2>1, ReleaseFacts DEF Contract!ContractNext
<1>6. ASSUME NEW v \in Workers, Crash(v) PROVE Contract!ContractNext
  BY <1>6 DEF Crash, Contract!ContractNext, Contract!Die
<1>7. CASE Tick BY <1>7 DEF Tick, Contract!ContractNext, Contract!Tick
<1>8. ASSUME NEW v \in Workers, BeginClaim(v) \/ ScanNext(v) PROVE UNCHANGED <<now, table, held>>
  BY <1>8 DEF BeginClaim, ScanNext
<1>9. CASE UNCHANGED pgVars BY <1>9 DEF pgVars
<1>10. ASSUME NEW v \in Workers, NEW o \in Ops,
              BeginCas(v, o) \/ BeginCrumb(v, o) \/ BeginRelease(v, o)
       PROVE  Contract!ContractNext \/ UNCHANGED <<now, table, held>>
  BY <1>1, <1>10 DEF BeginCas, BeginCrumb, BeginRelease, Writes
<1>11. QED
  BY <1>2, <1>3, <1>4, <1>5, <1>6, <1>7, <1>8, <1>9, <1>10 DEF PgNext, Call, Proceed

(* claim, cas and release of postgres.py, run as interleaved transactions   *)
(* with row locks, implement the contract of store/__init__.py: each takes  *)
(* effect at one instant, and one whose token is not the row's writes       *)
(* nothing.                                                                 *)
THEOREM PgImplementsContract == PgSpec => ImplementsContract
<1>1. PgInit => Contract!ContractInit BY DEF PgInit, Contract!ContractInit
<1>2. QED BY <1>1, InitPg, PgNextKeeps, ContractStep, PTL
          DEF PgSpec, ImplementsContract, Contract!ContractSpec

-----------------------------------------------------------------------------
(*                              The event log                              *)

Events == [id : Nat, from : CLAIMABLE \cup {"absent"}, to : CLAIMABLE, token : Nat]

LogTypeOK ==
  /\ log \in [Ops -> SUBSET Events]
  /\ seq \in Nat \ {0}
  /\ drawn \in [Workers -> Nat]
  /\ \A o \in Ops : \A e \in log[o] : e.id < seq

(* An event that is not yet published will be the last of its operation:   *)
(* its transaction has locked the row.                                     *)
Pending(w) ==
  drawn[w] # 0 => /\ InTransaction(w) /\ tx[w].o \in Ops /\ drawn[w] < seq
                  /\ \A e \in log[tx[w].o] : e.id < drawn[w]

AuditInv == PgInv /\ LogTypeOK /\ (\A w \in Workers : Pending(w)) /\ AuditTrail /\ NoDrift

-----------------------------------------------------------------------------
LEMMA InitAudit == AuditInit => AuditInv
<1> SUFFICES ASSUME AuditInit PROVE AuditInv OBVIOUS
<1>1. PgInv BY InitPg DEF AuditInit
<1>2. Event(0, "absent", "requested", 0) \in Events BY Lifecycle DEF Event, Events
<1>3. LogTypeOK BY <1>2, SMT DEF AuditInit, LogTypeOK, Event
<1>4. \A w \in Workers : Pending(w) BY DEF AuditInit, Pending
<1>5. AuditTrail /\ NoDrift BY SMT DEF AuditInit, PgInit, AuditTrail, NoDrift, Follows, Last, Event
<1>6. QED BY <1>1, <1>3, <1>4, <1>5 DEF AuditInv

LEMMA AuditStepIsPgStep == [AuditNext]_auditVars => [PgNext]_pgVars
  BY DEF AuditNext, auditVars, InsertEvent, CommitBoth, NoEvent, RollBack, PgNext, Proceed

(* What a step that publishes nothing must respect. *)
LEMMA Silent ==
  ASSUME AuditInv, PgInv', UNCHANGED <<log, seq>>, drawn' \in [Workers -> Nat],
         \A o \in Ops : table'[o].state = table[o].state /\ table[o].token <= table'[o].token,
         \A w \in Workers :
           drawn'[w] # 0 => /\ drawn'[w] = drawn[w] /\ tx'[w] = tx[w]
                            /\ \A o \in Ops : lock[o] = w => lock'[o] = w
  PROVE  AuditInv'
<1>1. LogTypeOK' BY DEF AuditInv, LogTypeOK
<1>2. ASSUME NEW w \in Workers PROVE Pending(w)'
  BY SMT DEF AuditInv, Pending, InTransaction
<1>3. (AuditTrail /\ NoDrift)'
  <2> SUFFICES ASSUME NEW o \in Ops
               PROVE  /\ \A e, f \in log'[o] : Follows(o, e, f)' => f.from = e.to /\ e.token <= f.token
                      /\ \A e \in log'[o] : Last(o, e)' =>
                           e.to = table'[o].state /\ e.token <= table'[o].token
    BY DEF AuditTrail, NoDrift
  <2>1. \A e, f \in log'[o] : Follows(o, e, f)' => f.from = e.to /\ e.token <= f.token
    BY DEF AuditInv, AuditTrail, Follows
  <2>2. ASSUME NEW e \in log'[o], Last(o, e)'
        PROVE  e.to = table'[o].state /\ e.token <= table'[o].token
    <3>1. e \in log[o] /\ Last(o, e) BY <2>2 DEF Last
    <3>2. e.to = table[o].state /\ e.token <= table[o].token BY <3>1 DEF AuditInv, NoDrift
    <3>3. e.token \in Nat /\ table[o].token \in Nat /\ table'[o].token \in Nat
      BY <3>1, SMT DEF AuditInv, LogTypeOK, Events, PgInv, PgTypeOK, PgRows
    <3>4. QED BY <3>2, <3>3, SMT
  <2>3. QED BY <2>1, <2>2
<1>4. QED BY <1>1, <1>2, <1>3 DEF AuditInv

LEMMA CommitBothKeeps ==
  ASSUME AuditInv, PgInv', NEW v \in Workers, CommitBoth(v)
  PROVE  AuditInv'
<1>a. PICK o \in Ops : o = tx[v].o BY CasFacts DEF AuditInv, CommitBoth
<1>b. PICK new : new = EventOf(v, drawn[v]) OBVIOUS
<1>0. PgInv /\ PgTypeOK /\ PgTypeOK' /\ CommitCas(v) /\ drawn[v] # 0 BY DEF AuditInv, PgInv, CommitBoth
<1>1. /\ o \in Ops /\ held[v][o] = Copy(table[o]) /\ tx[v].to \in CLAIMABLE /\ lock[o] = v
  BY <1>0, <1>a, CasFacts DEF CommitCas
<1>2. /\ drawn[v] \in Nat /\ drawn[v] < seq /\ \A e \in log[o] : e.id < drawn[v]
  BY <1>0, <1>a DEF AuditInv, Pending, LogTypeOK
<1>3. /\ new.id = drawn[v] /\ new.from = table[o].state /\ new.to = tx[v].to
      /\ new.token = table[o].token
  BY <1>1, <1>a, <1>b, SMT DEF EventOf, Event, Copy
<1>4. new \in Events
  <2>1. table[o].state \in CLAIMABLE /\ table[o].token \in Nat BY <1>0, <1>1 DEF PgTypeOK, PgRows
  <2>2. QED BY <1>1, <1>2, <1>a, <1>b, <2>1, SMT DEF EventOf, Event, Copy, Events
<1>5. /\ log'[o] = log[o] \cup {new} /\ \A p \in Ops \ {o} : log'[p] = log[p]
      /\ seq' = seq /\ drawn' = [drawn EXCEPT ![v] = 0]
  BY <1>a, <1>b DEF CommitBoth, AuditInv, LogTypeOK
<1>6. /\ table'[o].state = tx[v].to /\ table'[o].token = table[o].token
      /\ \A p \in Ops \ {o} : table'[p] = table[p]
  BY <1>0, <1>a DEF CommitCas, PgTypeOK, PgRows
<1>7. LogTypeOK'
  <2>1. log' \in [Ops -> SUBSET Events] BY <1>4, <1>b DEF CommitBoth, AuditInv, LogTypeOK
  <2>2. drawn' \in [Workers -> Nat] BY <1>5 DEF AuditInv, LogTypeOK
  <2>3. \A p \in Ops : \A e \in log'[p] : e.id < seq' BY <1>2, <1>3, <1>5 DEF AuditInv, LogTypeOK
  <2>4. QED BY <1>5, <2>1, <2>2, <2>3 DEF AuditInv, LogTypeOK
<1>8. ASSUME NEW w \in Workers PROVE Pending(w)'
  <2>1. CASE w = v BY <1>5, <2>1 DEF Pending, AuditInv, LogTypeOK
  <2>2. CASE w # v /\ drawn[w] # 0
    <3>1. /\ InTransaction(w) /\ tx[w].o \in Ops /\ drawn[w] < seq
          /\ \A e \in log[tx[w].o] : e.id < drawn[w]
      BY <2>2 DEF AuditInv, Pending
    <3>2. tx[w].o # o BY <1>1, <2>2, <3>1 DEF InTransaction
    <3>3. tx'[w] = tx[w] /\ \A p \in Ops : lock'[p] = w <=> lock[p] = w
      BY <1>0, <2>2, EndFrees DEF CommitCas
    <3>4. drawn'[w] = drawn[w] BY <1>5, <2>2 DEF AuditInv, LogTypeOK
    <3>5. QED BY <1>5, <3>1, <3>2, <3>3, <3>4 DEF Pending, InTransaction
  <2>3. CASE w # v /\ drawn[w] = 0 BY <1>5, <2>3 DEF Pending, AuditInv, LogTypeOK
  <2>4. QED BY <2>1, <2>2, <2>3
<1>9. (AuditTrail /\ NoDrift)'
  <2> SUFFICES ASSUME NEW p \in Ops
               PROVE  /\ \A e, f \in log'[p] : Follows(p, e, f)' => f.from = e.to /\ e.token <= f.token
                      /\ \A e \in log'[p] : Last(p, e)' =>
                           e.to = table'[p].state /\ e.token <= table'[p].token
    BY DEF AuditTrail, NoDrift
  <2>1. CASE p # o BY <1>5, <1>6, <2>1, SMT DEF AuditInv, AuditTrail, NoDrift, Follows, Last
  <2>2. CASE p = o
    <3>0. \A e \in log[o] : e \in Events BY <1>1 DEF AuditInv, LogTypeOK
    <3>1. ASSUME NEW e \in log'[o], NEW f \in log'[o], Follows(o, e, f)'
          PROVE  f.from = e.to /\ e.token <= f.token
      <4>1. CASE f = new
        <5>1. e \in log[o] /\ \A g \in log[o] : g.id <= e.id
          BY <1>2, <1>3, <1>5, <3>0, <3>1, <4>1, SMT DEF Follows, Events
        <5>2. Last(o, e) BY <5>1 DEF Last
        <5>3. QED BY <1>1, <1>3, <4>1, <5>1, <5>2 DEF AuditInv, NoDrift
      <4>2. CASE f # new
        <5>1. e \in log[o] /\ f \in log[o] BY <1>2, <1>3, <1>5, <3>0, <3>1, <4>2, SMT DEF Follows, Events
        <5>2. Follows(o, e, f) BY <1>5, <3>1, <5>1 DEF Follows
        <5>3. QED BY <1>1, <5>1, <5>2 DEF AuditInv, AuditTrail
      <4>3. QED BY <4>1, <4>2
    <3>2. ASSUME NEW e \in log'[o], Last(o, e)'
          PROVE  e.to = table'[o].state /\ e.token <= table'[o].token
      <4>1. e = new BY <1>2, <1>3, <1>5, <3>0, <3>2, SMT DEF Last, Events
      <4>2. QED BY <1>3, <1>4, <1>6, <4>1, SMT DEF Events
    <3>3. QED BY <2>2, <3>1, <3>2
  <2>3. QED BY <2>1, <2>2
<1>10. QED BY <1>7, <1>8, <1>9 DEF AuditInv

LEMMA InsertEventKeeps ==
  ASSUME AuditInv, PgInv', NEW v \in Workers, InsertEvent(v)
  PROVE  AuditInv'
<1>0. LogTypeOK /\ PgInv BY DEF AuditInv
<1>1. /\ log' = log /\ tx' = tx /\ lock' = lock /\ table' = table /\ held' = held
      /\ seq' = seq + 1 /\ drawn' = [drawn EXCEPT ![v] = seq]
  BY DEF InsertEvent, pgVars
<1>2. LogTypeOK'
  <2>1. \A o \in Ops : \A e \in log[o] : e.id \in Nat /\ e.id < seq BY <1>0, SMT DEF LogTypeOK, Events
  <2>2. \A o \in Ops : \A e \in log'[o] : e.id < seq' BY <1>0, <1>1, <2>1, SMT DEF LogTypeOK
  <2>3. QED BY <1>0, <1>1, <2>2, SMT DEF LogTypeOK
<1>3. ASSUME NEW w \in Workers PROVE Pending(w)'
  <2>1. CASE w = v
    <3>1. InTransaction(v) BY DEF InsertEvent
    <3>2. tx[v].o \in Ops
      BY <1>0, <3>1 DEF PgInv, Open, Writing, Writes, InTransaction
    <3>3. \A e \in log[tx[v].o] : e.id < seq BY <1>0, <3>2 DEF LogTypeOK
    <3>4. drawn'[v] = seq BY <1>0, <1>1 DEF LogTypeOK
    <3>5. QED BY <1>0, <1>1, <2>1, <3>1, <3>2, <3>3, <3>4, SMT DEF Pending, InTransaction, LogTypeOK
  <2>2. CASE w # v
    <3>1. drawn'[w] = drawn[w] /\ Pending(w) BY <1>0, <1>1, <2>2 DEF LogTypeOK, AuditInv
    <3>2. QED BY <1>0, <1>1, <3>1, SMT DEF Pending, InTransaction, LogTypeOK
  <2>3. QED BY <2>1, <2>2
<1>4. (AuditTrail /\ NoDrift)' BY <1>1 DEF AuditInv, AuditTrail, NoDrift, Follows, Last
<1>5. QED BY <1>2, <1>3, <1>4 DEF AuditInv

(* A worker whose event is pending can only commit it or roll it back. *)
LEMMA NoEventKeeps ==
  ASSUME AuditInv, PgInv', NEW v \in Workers, NoEvent(v)
  PROVE  AuditInv'
<1>0. PgInv /\ PgTypeOK /\ PgTypeOK' /\ LogTypeOK BY DEF AuditInv, PgInv
<1>1. UNCHANGED <<log, seq, drawn>> BY DEF NoEvent
<1>2. drawn[v] = 0
  <2>1. SUFFICES ASSUME drawn[v] # 0 PROVE FALSE OBVIOUS
  <2>2. tx[v].do \in {"cas", "crumb"} /\ lock[tx[v].o] = v
    BY <2>1 DEF AuditInv, Pending, InTransaction
  <2>3. v # Nobody BY PgAssumption
  <2>4. QED BY <2>2, <2>3 DEF NoEvent, BeginClaim, ScanNext, CommitClaim, LockRow, CommitRelease,
                               Call, BeginCas, BeginCrumb, BeginRelease, Begin
<1>3. \A o \in Ops : table'[o].state = table[o].state /\ table[o].token <= table'[o].token
  <2>1. \A o \in Ops : table[o] \in PgRows BY <1>0 DEF PgTypeOK
  <2>2. CASE table' = table BY <2>1, <2>2, SMT DEF PgRows
  <2>3. CASE CommitClaim(v)
    <3> TAKE o \in Ops
    <3>1. \/ table'[o] = table[o]
          \/ table'[o] = [table[o] EXCEPT !.token = @ + 1, !.lease = tx[v].at + Lease]
      BY <2>3 DEF CommitClaim
    <3>2. [table[o] EXCEPT !.token = @ + 1, !.lease = tx[v].at + Lease].token = table[o].token + 1
      BY <2>1 DEF PgRows
    <3>3. [table[o] EXCEPT !.token = @ + 1, !.lease = tx[v].at + Lease].state = table[o].state
      BY <2>1 DEF PgRows
    <3>4. table[o].token \in Nat BY <2>1 DEF PgRows
    <3>5. table[o].token <= table[o].token /\ table[o].token <= table[o].token + 1 BY <3>4, SMT
    <3>6. QED BY <3>1, <3>2, <3>3, <3>5
  <2>4. CASE CommitRelease(v)
    <3> TAKE o \in Ops
    <3>1. table'[o] = table[o] \/ table'[o] = [table[o] EXCEPT !.lease = NoLease]
      BY <1>0, <2>4 DEF CommitRelease, PgTypeOK
    <3>2. QED BY <2>1, <3>1, SMT DEF PgRows
  <2>5. QED BY <2>2, <2>3, <2>4 DEF NoEvent, BeginClaim, ScanNext, LockRow, Call, BeginCas,
                                   BeginCrumb, BeginRelease, Begin
<1>4. ASSUME NEW w \in Workers, w # v
      PROVE  tx'[w] = tx[w] /\ \A o \in Ops : lock[o] = w => lock'[o] = w
  <2>1. CASE End(v) BY <1>0, <1>4, <2>1, EndFrees, SMT
  <2>2. CASE BeginClaim(v) BY <1>0, <1>4, <2>2 DEF BeginClaim, PgTypeOK
  <2>3. CASE ScanNext(v)
    <3>1. PICK o \in tx[v].scan : Take(v, o) BY <2>3 DEF ScanNext
    <3>2. w # Nobody BY PgAssumption
    <3>3. QED BY <1>0, <1>4, <3>1, <3>2 DEF Take, PgTypeOK
  <2>4. CASE LockRow(v) /\ ~End(v)
    <3>1. w # Nobody BY PgAssumption
    <3>2. QED BY <1>0, <1>4, <2>4, <3>1 DEF LockRow, PgTypeOK
  <2>5. CASE \E o \in Ops : Call(v, o)
    BY <1>0, <1>4, <2>5 DEF Call, BeginCas, BeginCrumb, BeginRelease, Begin, PgTypeOK
  <2>6. QED BY <2>1, <2>2, <2>3, <2>4, <2>5 DEF NoEvent, CommitClaim, CommitRelease
<1>5. QED BY <1>0, <1>1, <1>2, <1>3, <1>4, Silent DEF LogTypeOK

LEMMA RollBackKeeps ==
  ASSUME AuditInv, PgInv', NEW v \in Workers, RollBack(v)
  PROVE  AuditInv'
<1>0. PgInv /\ PgTypeOK /\ LogTypeOK BY DEF AuditInv, PgInv
<1>1. /\ UNCHANGED <<log, seq>> /\ table' = table /\ End(v)
      /\ drawn' \in [Workers -> Nat] /\ drawn'[v] = 0
      /\ \A w \in Workers \ {v} : drawn'[w] = drawn[w]
  BY <1>0 DEF RollBack, Crash, LogTypeOK
<1>2. \A o \in Ops : table'[o].state = table[o].state /\ table[o].token <= table'[o].token
  BY <1>0, <1>1, SMT DEF PgTypeOK, PgRows
<1>3. \A w \in Workers \ {v} : tx'[w] = tx[w] /\ \A o \in Ops : lock[o] = w => lock'[o] = w
  BY <1>0, <1>1, EndFrees
<1>4. QED BY <1>1, <1>2, <1>3, Silent

LEMMA NextAudit == AuditInv /\ [AuditNext]_auditVars => AuditInv'
<1> SUFFICES ASSUME AuditInv, [AuditNext]_auditVars PROVE AuditInv' OBVIOUS
<1>0. PgInv' BY AuditStepIsPgStep, PgNextKeeps DEF AuditInv
<1>1. ASSUME NEW v \in Workers, InsertEvent(v) PROVE AuditInv' BY <1>0, <1>1, InsertEventKeeps
<1>2. ASSUME NEW v \in Workers, CommitBoth(v) PROVE AuditInv' BY <1>0, <1>2, CommitBothKeeps
<1>3. ASSUME NEW v \in Workers, NoEvent(v) PROVE AuditInv' BY <1>0, <1>3, NoEventKeeps
<1>4. ASSUME NEW v \in Workers, RollBack(v) PROVE AuditInv' BY <1>0, <1>4, RollBackKeeps
<1>5. CASE UNCHANGED <<table, held, lock, tx, log, seq, drawn>>
  <2>1. \A o \in Ops : table'[o].state = table[o].state /\ table[o].token <= table'[o].token
    BY <1>5, SMT DEF AuditInv, PgInv, PgTypeOK, PgRows
  <2>2. QED BY <1>0, <1>5, <2>1, Silent DEF AuditInv, LogTypeOK
<1>6. QED BY <1>1, <1>2, <1>3, <1>4, <1>5 DEF AuditNext, Tick, auditVars, pgVars

(* The event log of postgres.py is one unbroken history of each operation:  *)
(* the lock a cas has on its row makes the order in which the ids of its    *)
(* events are drawn that of the commits.                                    *)
THEOREM SpecAuditTrail == AuditSpec => []AuditTrail
<1>1. AuditInv => AuditTrail BY DEF AuditInv
<1>2. QED BY <1>1, InitAudit, NextAudit, PTL DEF AuditSpec

(* postgres.py's promise that the log cannot drift from the row, whichever  *)
(* transactions are rolled back: cas writes both in one.                    *)
THEOREM SpecNoDrift == AuditSpec => []NoDrift
<1>1. AuditInv => NoDrift BY DEF AuditInv
<1>2. QED BY <1>1, InitAudit, NextAudit, PTL DEF AuditSpec

(* Inserting the event before the commit changes nothing in what claim, cas *)
(* and release of postgres.py promise: they still take effect at one        *)
(* instant each, and a stale token writes nothing.                          *)
THEOREM AuditImplementsContract == AuditSpec => ImplementsContract
<1>1. AuditInit => PgInv /\ Contract!ContractInit
  BY InitPg DEF AuditInit, PgInit, Contract!ContractInit
<1>2. QED BY <1>1, AuditStepIsPgStep, PgNextKeeps, ContractStep, PTL
          DEF AuditSpec, ImplementsContract, Contract!ContractSpec
=============================================================================
