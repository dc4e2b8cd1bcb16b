# A TLA+ model of sluice

sluice pays withdrawals on TRON. A client submits an operation, workers drive
it through a persistent state machine, and a node puts a transaction on the
chain. The project in this directory models that system from its source, checks
it with TLC on small instances and proves its main safety properties with TLAPS
for every size.

The question behind all of it is the one the repository's README asks: why can
this not pay twice, and why does the database agree with the chain?

## Inventory

| Part | Source | State | Operations | Module |
|---|---|---|---|---|
| Lifecycle | `states.py`, trigger in `001_schema.sql` | none | transition tests | `OpStates` |
| Store | `store/memory.py`, `store/postgres.py` | rows, order of arrival, event log | insert_new, claim, cas, release | `OpStore` |
| Store contract | `store/__init__.py` | rows, leases, tokens | claim, cas, release | `StoreContract` |
| Database transactions | `store/postgres.py` | committed rows, row locks, open transactions, events | the statements of claim, cas and release, one lock at a time | `PgStore`, `PgAudit` |
| Node and clock | `tron/mocknet.py`, `tron/types.py`, `config.py` | clock, head, block times, transactions | broadcast, find_tx, solid_now, produce_blocks, tick | `TronNode`, `TronNet` |
| Pipeline | `pipeline.py` | none of its own | six handlers | `Sluice`, `Progress` |
| Worker | `worker.py` | copies of claimed rows, place in the handler | run_once, _drive, run_forever | `Sluice`, `Progress`, `Settling` |
| Crashes | `crashpoints.py` | none | crash and restart | `Sluice`, `Progress`, `PgStore` |
| Intake | `service.py`, `api.py`, `canonical.py` | rows, open insertions, answers | submit, status | `Intake`, `Register` |
| Signer | `tron/signer.py` | key | sign, verify | constant operator `Verifies` |
| Amounts | `money.py` | none | to_units, to_human | `Money`, `Conversions` |
| Addresses | `tron/address.py` | none | encode, decode, is_valid | `Address`, `Conversions` |

How they interact: the store is the only shared memory of the workers. A worker
claims rows, which raises each row's fencing token, and from then on each write
is a compare-and-swap on token and state. Between two writes it talks to the
node, which knows nothing of tokens. The node's clock, the workers' clock and
the leases run on one clock in the model; block time only follows it.

What makes it hard: a worker may stall between any two calls while its lease
runs out and another worker goes on; it may die anywhere; a broadcast may be
lost, accepted without an answer, answered with an unknown code or refused; an
answer is used after the world has moved; two operations may ask for the same
payment.

## Modules

* `OpStates`: `OpState`, `TRANSITIONS`, `TERMINAL`, `CLAIMABLE`,
  `can_transition`, and `op_transition_guard`, the trigger's own list of pairs.
* `TronNode`: `now`, `head`, `blockTime`, `txs`. An envelope *is* its txid: a
  record of what `raw_data` holds. It does not hold the operation's id, and
  neither does the record. Fault scripts are nondeterministic choices of the
  node at each call. `produce_block` is one iteration of `produce_blocks`.
  `Verifies(t)` says whether the node accepts the signature of envelope `t`: the
  worker that signed it may have held another key.
* `TronNet`: the node with arbitrary senders. `RebuildTheorem` is the argument
  of `_proof_of_death`, with lookup and solid time read at one instant.
* `OpStore`: `rows`, `arrival`, and the event log as `all_txids` and
  `writeAhead`. `StoreKind` picks the memory or the database store where they
  differ: the lease boundary, the unique index on txid, release of a terminal
  row, and the terminal write (see Findings).
* `Sluice`: the workers. `pc[w]` is the place in a handler, `snap[w]` the copies
  `claim` and `cas` returned, `mine[w]` what is left of the batch, `draft`,
  `answer` and `seen` the local variables alive between two calls.
* `SluiceInv`: the inductive invariant and the two assumptions it needs.
* `Payment`: what a client is promised, without workers, envelopes or clocks.
  `SluicePayment` maps the system to it (status of the row, successful
  transactions on chain).
* `Progress`: the handlers without clocks, heights and tokens. An envelope is
  its fate (unsent, accepted, included, solid) and two flags: expired, and
  provably dead by solid time. `SluiceProgress` maps the system to it.
* `Settling`: `Progress` with fairness and a bounded number of faults.
* `Intake`: requests as threads of the API. A payload keeps its address, asset
  and amount, and `request_hash` is their meaning: the amount goes through
  `Money!to_units`, so two spellings of one amount are one request, and the
  address through `Address!is_valid`. Insertion is a transaction of several
  steps, which a second one for the same id waits for. `Register` is what it
  promises. The memory store inserts in one step under its lock (`OpStore`).
* `PgStore`: claim, cas and release as transactions that scan, take row locks
  one by one, look again at what they have locked, and publish at commit.
  `StoreContract` is what they promise: each call at one instant. `PgAudit` adds
  the event table, with ids drawn before the commit.
* `Numerals`: integers as digits in a base and back, which `int`, `str`,
  `from_bytes`, `to_bytes` and the two loops of base58 have in common. `Money`,
  `Address`: the conversions as operators on it. `Conversions`: a client's form,
  into which an amount is typed character by character or an account chosen, and
  what is asked of the conversions of whatever is in it.
* Proofs: `TronNodeProofs` (the node, alone and with any clients),
  `FencingProofs` (tokens and copies), `PaymentProofs` (money, and the refinement
  of `Payment`), `ProgressStepProofs`, `ProgressHandlerProofs` and
  `ProgressProofs` (the refinement of `Progress`: the steps outside the handlers
  and the invariant; the handlers; the theorem), `PgStoreProofs` (transactions and
  their events), `IntakeProofs` (the intake and the conversions). `FencingProofs`
  takes the node's lemmas from `TronNodeProofs`; the assumption of `TronNet` on
  its own two constants comes with them and is used by no theorem about the
  workers.
* `MCSluice`, `MCTronNet`, `MCSettling`, `MCIntake`, `MCPgAudit`: instances for
  TLC. `MCIntake` lets a client fill in a form before the requests are sent.

Handlers and actions:

| Code | Actions |
|---|---|
| `run_once`, `_drive` | `Claim`, `StepReturned`, `NextOp`, `LostClaim`, `HandlerError`, `Release` |
| `_validate` | `Validate` |
| `_build_and_sign` | `BeginSigning`, `GiveUp`, `BuildEnvelope`, `PersistEnvelope`, `Sign` |
| `_broadcast` | `RebuildUnsent`, `CheckExpiry`, `WriteAhead`, `Send` |
| `_settle_broadcast_result` | `Settle`, `Verdict` |
| `_reconcile_broadcast` | `QueryTimeout`, `LookupFound`, `MarkBroadcast`, `LookupUnknown`, `RebuildDead`, `NotDead`, `Send` |
| `_await_confirmation` | `QueryTimeout`, `AwaitSolidity`, `LookupSolid`, `Confirm`, `LookupUnknown`, `RebuildDead`, `NotDead` |
| process death, connection failure | `Crash`, `ConnectionLost` |
| `submit`, `submit_withdrawal`, `status` | `Intake`: `Turn`, `Submit`, `Insert`, `Found`, `Status`, `Deliver` |
| `insert_new` | `Intake`: `InsertOnConflict`, `InsertEvent`, `Commit`, `SelectExisting`; failures `Fail`, `CommitUnheard` |
| `PostgresStore.claim` | `PgStore`: `BeginClaim`, `ScanNext`, `CommitClaim` |
| `PostgresStore.cas`, `release` | `PgStore`: `BeginCas`, `BeginCrumb`, `BeginRelease`, `LockRow`, `CommitCas`, `CommitRelease`; `PgAudit`: `InsertEvent`, `CommitBoth`, `RollBack` |

An action ends where the handler makes its next call to the store or the node,
so everybody else may move between any two calls. Each store call is one step,
since the memory store holds its lock; that the database's transactions amount to
one step each is the theorem `PgImplementsContract`. With `StoreFails` the
connection may fail before or after any commit.
`_drive`'s bookkeeping after a handler returns is part of the handler's last
action.

`_broadcast` reads the clock once, before its write: a worker may commit the
write-ahead of an envelope that has expired since (`CheckExpiry`, `WriteAhead`).
In the other branch the read and the write of the rebuild are one step
(`RebuildUnsent`), since what has expired stays expired.

Abstractions: time is in whole units; the reference block and the clock read
next to each other in `_build_and_sign` are one step; `_validate` may accept or
reject any request, since limits may have changed since intake; the memory
store's `claim` reads the clock just before it takes its lock, and does both at
once here; the columns nobody branches on (`last_error`, `failure_reason`,
`broadcast_at`, `included_block`, `confirmed_at`, `claimed_by`) are left out;
the database's clock and the workers' are one clock. `PgStore` has no txid
column, so no UPDATE waits there for another transaction on the unique index (in
`Sluice` a txid that is taken makes the write raise), and `StoreContract` has no
terminal write, since the database store makes none (finding 5). The breadcrumb of
`BeginCrumb` is compared with the worker's newest copy; the code compares with the
state in which the step began, which after a write of that step matches no row
and changes nothing.

## Properties and runs

`MaxTime`, `MaxHead` and `MaxToken` bound the clock, the chain and the claims of
a row. The runs stop at these bounds, and operations and requests that are
settled have nothing left to do, so deadlock is not checked.

| Run | Instance | Checks |
|---|---|---|
| `race` | 2 workers, 1 operation, memory store, a key that is wrong for envelopes built at time 1 | `TypeOK`, `SingleWriter`, `EnvelopeCoherent`, `NoOrphanSends`, `SignedNeverSent`, `RetiredStaysDead`, `AtMostOneLanded`, `VerdictMatchesChain`, `ZombieWritesNothing`, `PaysOnce` (refinement of `Payment`) |
| `twins` | 2 workers, 2 operations for one payment, batch of 2, leases that last until the next tick, solidity lag 1, database store whose connections fail | `SingleWriter`, `NoOrphanSends`, `OneTransferEach`, `ZombieWritesNothing` |
| `solid` | 2 workers, 1 operation, solidity lag 1 | `VerdictMatchesChain`, `VerdictIsFinal`, `LegalTransitions`, `ImplementsProgress` (refinement of `Progress`) |
| `net` | the node, two envelopes with different deadlines and one signed with the wrong key, any senders | `ChainRules`, `RebuildTheorem`, `ReceiptsFinal` |
| `settling` | `Settling`: 2 workers, 2 operations, batch of 1, 1 build attempt, 1 fault | `EverySettles` |
| `intake` | two different submissions, one whose amount has too many digits and a query, all for one id, 2 faults | `OneIntake`, `EveryRequestAnswered`, `ImplementsRegister` (refinement of `Register`) |
| | amounts: texts of up to 6 characters over `0 3 9 .` and one other, 0 to 2 decimals | `ParsesExactly`, `ShortestForm` |
| | addresses: all accounts of one byte and every text one edit away from their addresses | `AccountsHaveAddresses`, `OneAddress` |
| `pg` | 2 workers, 1 row, two claims, three events, crashes anywhere | `AuditTrail`, `NoDrift`, `CallsReturn`, `ImplementsContract` (refinement of `StoreContract`) |
| `stall`, `wire`, `collision`, `ever`, `settle` | see Findings | one property each, violated |

`race` asks about fencing and money, with a solidity lag of 0: the margin is what
protects the proof of death there, while a lag would hide a missing one. `solid`
has the lag, which is what a verdict read too early needs. In `race` the key
changes between two builds, so an operation whose first envelope was sent can be
refused for its second. `twins` has what `race` lacks: a batch whose later rows
wait while the first is driven, the database's lease boundary, exceptions and
the breadcrumb and release after them, and two operations that can get one txid.
The four properties of the conversions are invariants of
the form of `Conversions`, in the run of the intake that uses them.

Why the bounds are enough for what is asked: two claims of a row (`MaxToken` 2)
give one fenced worker and one owner. A lease of 1 lapses at any tick. A time to
live of 2 with a margin of 1 and a clock up to 3 lets an envelope be built,
sent, expire and be proved dead, and its successor be built and mined before the
fourth block. Two build attempts let a rebuild be followed by a verdict. In
`race` and in `solid` a confirmation after a rebuild is reachable, and so is a
failure after one. `twins` ends before an envelope expires, and lets a worker make
three steps per claim (8 in the code) so that it is in reach: a transfer can land,
and without the unique index it would settle both operations. That a txid which
was retired and then taken by the other operation does not land either
(`ever` shows that it can be taken) is beyond that run and is part of
`SpecOneTransferEach`. What the bounds leave out, the proofs cover.

`MaxStall` is an assumption and not a bound: block time advances by at most
`MaxStall` between a worker's lookup and its reading of the solid time. The code
enforces nothing of the kind. `MaxStall = Margin + 1` is the largest value for
which the money is safe, and the passing runs use it.

The other bounds: `Settling` has no clock and needs none. One fault and one
attempt are enough for an operation to be parked while another waits behind it,
to be taken over, rebuilt and given up; one of the two operations is in the
store from the start (`First`), the other is submitted at any time or never.
`Targets` is a bound of `pg` (which states the workers write), chosen so that a
row moves between a scan and its lock. `race` and `solid` use symmetry of the
workers, `twins` that of the operations as well (they ask for the same), and they
check safety only. `MaxStrDigits`, 4300 in Python, is 4 in `intake`. The texts reach every combination of empty, short, full and overlong
fractions; the constants of `Address` are scaled down because 25-byte numbers
exceed TLC's integers; the theorems about them hold for the code's lengths.

Fairness, and what in the code justifies it:

* `Settling`: weak fairness of every worker's step, since `run_forever` loops
  until it is stopped and catches what a cycle raises, and a dead process is
  started again. Weak fairness of
  `TimePasses` for each operation: leases run out, envelopes expire, blocks
  become solid and solid time passes a deadline, since clock and chain go on. Nothing
  is assumed of the node's answers to a broadcast, and no transaction need ever
  be included. Faults are bounded in number: a lookup that always times out
  leaves an operation open for ever, as it should.
* `Intake`: weak fairness of each server thread and of a client that retries.
* `PgStore`, `PgAudit`: weak fairness of open transactions, and strong fairness of `LockRow`,
  that is, the database's lock queue starves nobody.

`EverySettles` is checked on `Progress`, which the system implements step by step
(`solid`). That the fairness above is what fairness of the timed system becomes
under the mapping is an argument and not a check. Both are about the memory
store's terminal write (see finding 5).

## Theorems

TLC checks an instance; the theorems hold for every number of workers and
operations, every lease, margin, batch and bound.

1. `NetChainRules`, `NetRebuild`, `NetReceiptsFinal`: the node keeps its
   validity rules, hence the rebuild theorem of the repository's README holds
   when the lookup and the solid time belong to one instant.
2. `SpecTypeOK`, `SpecSingleWriter`, `SpecEnvelopeCoherent`, from the inductive
   invariant `FencingInv`. `SingleWriter` alone is not inductive: that a copy
   equals its row needs what each label says of the copy (`Control`) and that
   rows and copies carry at most one envelope (`Coherent`). No assumption beyond
   those on the constants.
3. `SpecAtMostOneLanded`, `SpecVerdictMatchesChain`, `SpecRetiredStaysDead`,
   `SpecNoOrphanSends`, `SpecSignedNeverSent`, `SpecOneTransferEach`,
   `SpecVerdictIsFinal`, from `MoneyInv`
   on top of `FencingInv`. They assume `SafeTiming` (`MaxStall <= Margin + 1`)
   and `DistinctTxids` (the database store, or no two operations for the same
   payment). The argument: an envelope leaves a row only when it is dead
   (`RetiredStaysDead`), and dead is stable (no block takes an expired
   transaction and block time rises). For a rebuild this needs `AnswerBacked`:
   if the transaction landed after the lookup said unknown, its block is later
   than the lookup and earlier than its expiration, so solid time, at most
   `MaxStall` later than the lookup, is short of expiration plus margin.
   `OneTransferEach` follows: of two operations that have written one txid ahead
   at most one still carries it (`TxidsUnique`, part of `MoneyInv`), so for the
   other it is retired.
   `SignedFresh` is why an expired envelope that was never sent may be dropped
   without a proof.
4. `SpecPaysOnce`: the system implements `Payment`, under the same two
   assumptions. A write maps to `Close` or to a stutter, a block to `Transfer`;
   that a transfer finds its operation open and unpaid is `VerdictMatchesChain`
   and `AtMostOneLanded` in the state after the block.
5. `SpecLegalTransitions`, `SpecZombieWritesNothing`: action properties from
   `FencingInv`. The first needs that copies are never terminal, which is
   preserved separately.
6. `SpecOneIntake`, `SpecImplementsRegister`: from `IntakeInv`, which adds to
   `OneIntake` that whoever has an answer or none stands where the mapping says
   (`Decided`). Any number of requests and ids.
7. `PgImplementsContract`, `AuditImplementsContract`: from `PgInv`, which says what an open transaction may
   rely on: a row it has locked still satisfies what it was locked for, since
   every commit that could change it needs that lock. The commit is the instant
   at which the abstract call happens. Any number of workers and rows.
8. `SpecAuditTrail`, `SpecNoDrift`: from `PgInv` and `Pending`: an id that was drawn and not yet
   published belongs to the transaction that holds the row's lock and is larger
   than every published id of that row, so the order of ids is the order of
   commits for one operation although it is not across operations.
9. `SpecImplementsProgress`: over the memory store the system implements
   `Progress`, so nothing in the pipeline depends on clocks, heights and tokens
   except through ownership, the lease and the fate of the current envelope. It
   assumes `SafeTiming`, `DistinctTxids` and `LeaseRuns` (`lease_seconds` is
   positive: a lease that is renewed runs). The mapping reads the owner of a row
   as the worker whose copy carries the row's token, of which `SingleWriter` says
   there is at most one. Each handler maps to the step of `Progress` of the same
   name while its worker owns the row, and to a step of a worker that has lost
   its claim when it does not. `FencingInv` and `MoneyInv` do not suffice:
   `ProgressInv` adds what a label says of the worker's thread (`ThreadOf`: for
   example that a handler about to build still has an attempt left, and that a
   transaction the worker was told of is known to the node) and that an envelope
   which was sent is given up only with a proof of death
   (`RetiredProvable`), by which an envelope built again is unsent or provable.
   `SpecProgressInv`: `ProgressInv` holds over either store, with no assumption
   beyond those on the constants.
10. `SpecParsesExactly`, `SpecShortestForm`: for texts of any length and any
   number of decimals that `int` reads. `to_human` has no caller outside the tests,
   and `ShortestForm` is a fact about it and `to_units` only. `SpecOneAddress`, and more generally `OneText`: a text
   that `is_valid` accepts is the one `from_payload` writes for the account in it,
   whatever the checksum computes. `SpecAccountsHaveAddresses`: every account has
   an address that `is_valid` accepts, given `AddressesFit` (the bounds on the
   length leave room for the largest and the smallest number); `CodeLengthsFit`
   shows it for the code's lengths, 20 and 4 bytes in 30 to 40 characters. All
   rest on two facts about `Numerals`: the digits of a number spell it, and a
   sequence without a leading zero is the digits of what it spells. These are
   inductions on numbers and on sequences, stated for sets
   (`SetInduction`, `StrongInduction`, `SeqInduction`) and derived from the fact
   that a set of numbers has a least element; the recursive functions of
   `Numerals` are shown to exist by the same induction.

Only model-checked: everything with fairness (`EverySettles`,
`EveryRequestAnswered`, `CallsReturn`), which is out of the prover's reach.

## Findings

1. `stall` (`pipeline.py:264`, `299`). The lookup and the solid time are read at
   different times. A worker that stalls in between while the transaction is
   sent again and mined, and solid time passes the deadline, retires a
   transaction that is on chain; its successor lands as well. A second lookup
   after the solid time is read would close the gap.
2. `wire` (`pipeline.py:199`). README line 92 says a fenced worker never reaches
   the network. One fenced between its write-ahead and its send does. It sends
   bytes its operation has logged, so no money property depends on this.
3. `collision` (`pipeline.py:132`). Two operations for the same payment, built at
   one instant on one reference block, have one txid. The memory store lets both
   carry it. The run stops there; the handlers would read the same receipt for both
   and confirm both for one transfer. The database's unique index prevents it.
4. `ever` (`001_schema.sql:59`). The index covers current rows only, so a txid
   can be in the history of two operations. `OneTransferEach` still holds:
   the transaction that two operations have carried never lands.
5. `settle` (`postgres.py:196-201`). A terminal write renews the lease and drops
   it in one UPDATE, which assigns `lease_expires_at` twice. PostgreSQL refuses
   that statement, so over this store no worker can finish an operation. The rule
   is PostgreSQL's and is modelled as external behaviour (`CasRaises`); no server
   was run. It also means that verdicts are exercised by the memory-store runs
   only.
Four smaller things were seen while modelling and have no run. The breadcrumb of
`_drive` (`worker.py:78`) compares with the state in which the step began, so
when a handler has written its row and then raises, the error is not recorded
although the claim was never lost. The comment at `pipeline.py:124` says that the
timestamp makes the txid of a rebuild new; chain time can run ahead of the clock,
and then a rebuild at the same instant on the same reference block repeats a txid
that is dead (the theorems do not assume that it is new). `drain`
(`worker.py:106`) returns when a batch of parked rows hides a later row that
could advance. `to_units` (`money.py:43`) raises a ValueError that nobody catches
when an amount has more than 4300 digits, so the request is answered 500 and not
422 (`Intake!Uncaught`); no row is left behind.

## Not modelled

* SHA-256 and HMAC: a txid is its content, a signature a Boolean, a checksum some
  function.
* HTTP, logging, environment variables, the wording of answers, the back-off of
  `run_forever`, the connection pool: no property depends on them.
* `broadcast_at`, `failure_reason`, `included_block`, `confirmed_at`: written and
  shown, never branched on.
* `drain`, `scripts/demo.py` and the tests: loops around `run_once` and runs of
  the system with fixed inputs. Their steps are the workers' steps.
* A node that refuses bytes it has accepted before. `_settle_broadcast_result`
  would reject an operation that may be paid; the repository's node never does
  this, and there is no other in the repository.
* Requests that fail with 500 for ever: `EveryRequestAnswered` assumes that failures
  of the database end.
* Databases at other isolation levels, and failover that loses commits.
