# Spellbook in TLA+

Spellbook is a wallet for software agents. One process, `spellbookd`
(`src/src/spellbook/daemon.py`), holds the keys. Agents ask it to spend over a
Unix socket; a policy file approves, denies or queues; a human decides what is
queued; executors sign and broadcast on EVM chains, Solana and Chia; an
append-only ledger keeps what happened. Chia is reached through a relay
(`src/relay`), a small server that keeps connections to full nodes.

This directory models what the authority of that process rests on: what a crash
between two writes leaves behind, what a late answer is taken for, what one
execution does to the next, and whether what is signed stays inside what was
approved. The modules are written from the source;
where a name of the source fits, the definition has it. "Line n" without a file
is of `src/src/spellbook/daemon.py`.

## The system

| Part | State it keeps | Operations | What is hard about it |
| --- | --- | --- | --- |
| Spend life cycle (`daemon.py`, `ledger.py`) | `queue`, `next_qid`, `velocity` in memory; `queue.json`, `velocity.jsonl`, `ledger.jsonl` on disk | `request_spend` and the fund intents, `queue_approve`, `queue_reject`, start-up | The files are written one after another around a broadcast that cannot be undone; a kill or a full disk can come between any two writes |
| Policy (`policy.py`, `_merge_legs`, `_decide_fund_intent`) | none | `evaluate` | Limits may be unset in any combination; intents have several legs |
| Mint gate (`_check_mint_gate`) | `mint_gate.json`, `mint_gate_consumed.json` | check, consume | Two files, written by two parties, read and written without a lock; one grant is one attempt |
| Message-sign references (`_mint_sign_ref`, `rt_message_sign`) | a secret and the set of used references, both in memory | mint, present | One use each, across restarts, before they expire |
| Relay broadcast path (`chia_relay.py`, `relay/server.py`, `relay/peer.py`) | per peer: a lock, the request in flight, an id counter; `broadcast_log` | `broadcast`, `coins`, `broadcast_status` | Every hop times out on its own; nothing takes back what a node has |
| Relay peer pool (`PeerManager`) | maintainer tasks, peers, `_retired` | connect, back off, retire, refill | Three kinds of loops share two tables |
| Relay coin cache and fallback (`PeerManager`, `fallback.py`) | coin states by id, the peak, hosted answers | register, push, `coins`, `coin`, the daemon's poll | States arrive from several peers in any order; handlers of one event loop interleave at every `await` |
| EVM executor (`_execute_evm_*`, `evm.py`) | none between executions; the chain's nonce and allowances | approve, send, wait for the receipt | Several transactions for one approval; the node may act and not answer |
| Calldata and quotes (`dex.py`, `_validate_dex_*`, `_execute_evm_*`) | the pins of the configuration | validate, build, decode | Calldata of a third party must be bound to an intent; validators, builders and decoders must agree, hours apart |
| Native offers (`_execute_offer_*_native`) | `offers/*.json` | make, take, cancel, and every relay payment beside them | An offer is a signed spend that others may complete at any time |
| Forge swaps (`forge.py`, `rt_forge_swap`, `rt_forge_status`) | `forge_open.json` | quote, make, rehearse, settle, status | What was handed to a router may be filled after the daemon gave up on it |
| Solana executor (`solana.py`, `_execute_solana_spend`) | none between executions | one transfer | Equal content over an equal blockhash is the same transaction; a fork takes a status back |
| Sage wallet paths (`chia.py`, `_execute_*_via_sage`) | none; Sage has the wallet | twenty intents, `sage_provision` | Sage is shared: another tool may log in elsewhere, and its answers do not name the transaction |
| Custody (`custody.py`, `export.py`) | `private.pem`, public key, `key.json`, envelope, `backup.json` | `ceremony-key`, `ceremony-adopt`, `export`, `backup-confirm`, start-up | A command and the starting daemon write the same files without a lock |
| Sealed seed (`sealed.py`, `recovery.py`) | `seed.key`, `std_seed.key`, the seal | seal, re-seal, unlock, restore | Commands race one another and may be killed between a file's creation and its content |

How they interact: every spend of every chain runs through the life cycle, and
is one call of an executor in it. Policy judges the legs that `SageIntents` and
`EvmIntents` compute. The Chia executors use the relay broadcast path, which
uses one connection of the pool, and poll the coin cache. Native offers and Chia
payments select from the same coins. Mints pass the mint gate on their way to
the executor. Message signing shares the ledger, and the queue when its
reference does not verify. Custody decides whether the daemon has a seed and
whether its fund routes answer.

The daemon serves one request at a time (`serve`, line 7233), so its own
interleavings are with its environment: the clock, the disk, the network, the
chain, the operator who restarts it and the human's files and commands. The
relay is an asyncio program, and its handlers, readers and loops interleave at
every `await`.

## The modules

| Module | Models | Kind |
| --- | --- | --- |
| `Policy` | `policy.evaluate`, leg merging, the verdict on an intent | operators, used by `SpendDaemon` |
| `PolicyCheck` | a walk over small policies and growing requests | inputs for TLC |
| `SpendDaemon` | the spend life cycle | state machine |
| `SpendAuthority` | what the approval queue promises | abstract specification |
| `SpendDaemonProofs` | types, one approval is one attempt, what the ledger says; `SpendDaemon` implements `SpendAuthority` | proofs |
| `SpendVelocityProofs` | the verdict of `Policy` for every policy; `velocity.jsonl` and the daily cap | proofs |
| `SumTheorems` | sums over finite sets, asset by asset and key by key | lemmas |
| `MintGate` | the mint gate | state machine |
| `SignRef` | message-sign references | state machine |
| `RelayBroadcast` | a request from the daemon to a node and back | state machine |
| `RelayPool` | the peer manager's loops | state machine |
| `RelayCoins` | coin cache, hosted fallback, confirmation poll | state machine |
| `RelayProofs` | `RelayBroadcast` and `RelayCoins` | proofs |
| `EvmExecutor` | the transactions of one EVM intent | state machine |
| `DexPins` | the table of pinned contracts | operators |
| `SwapDecode` | the decoder of a swap quote, and what the contracts do with it | operators |
| `EvmIntents` | liquidity and contract intents from validator to signature | operators |
| `DexCheck` | a walk over quotes, requests and configurations | inputs for TLC |
| `DexProofs` | swaps and liquidity intents inside what was approved | proofs |
| `NativeOffers` | offers and payments over one set of coins | state machine |
| `ForgeRoutes`, `ForgeSwap` | the choice of a route; Forge swaps and their open-offer file | operators; state machine |
| `OfferProofs` | `NativeOffers` and `ForgeSwap` | proofs |
| `SolanaExecutor` | SOL transfers | state machine |
| `ExecutionProofs` | `MintGate`, `SignRef`, `EvmExecutor` and `SolanaExecutor` | proofs |
| `SageIntents` | what each Sage intent is checked for, counts as and does | operators, used by `SageWallet` |
| `SageWallet` | spending through a shared Sage | state machine |
| `Custody` | ceremony key, envelope, backup record | state machine |
| `SealedSeed` | seed files and their seal | state machine |
| `WalletProofs` | `SealedSeed`, `Custody` and `SageWallet` | proofs |
| `MC*` | constants of the instances that TLC checks | TLC instances |

`MCIntents`, `MCExecutions`, `MCWallets`, `MCRelay` and `MCSeeds` each hold
several parts that share no state. A behaviour picks one of them at the start
and stays in it, so the state spaces add up and do not multiply, and what holds
of the run holds of each part. The modules of the executors have no name in
common (a clashing one carries the executor's: `mintPc`, `EvmInit`,
`MarkOffer`), so `MCExecutions` extends them all; so it is with the two walks of
`MCIntents`, the modules of `MCWallets`, the two of the relay that `RelayProofs`
extends, and each proof module and its components. A theorem is thus about the
very definition that a run checks.

Definitions named *Mutant* or *A mutation of* are not part of the model. Each is
a plausible bug of one mapped definition; put in its place it breaks the
property that `PROJECT.json` names with it, which shows that the property
depends on that code.

### Policy

A key is the pair (chain, asset); a limit is a natural number or `Unset`, the
`None` of `dict.get`. `Evaluate` is `policy.evaluate` without
`approval_threshold`: an amount above it is queued, and so is any amount that
the function has not approved before that test, so it changes no verdict.
`DecideFundIntent` judges each leg after `MergeLegs` has summed them by key.

### SpendDaemon

`pc` names the write or call the request in hand comes to next; one action is
the part of a handler up to and including one durable write or one network
call, because that is where a kill can leave things. `Ask` is
`rt_request_spend` and `_run_fund_intent` up to that point; `Decide` is
`rt_queue_approve` and `rt_queue_reject`, which pop the item before anything
else; `SaveQueue` is the atomic rename of `queue.json`, which carries the
items *and* `next_qid`; `AppendExecuting`, `AppendDecision` and
`AppendOutcome` are the ledger rows; `CountInMemory` and `CountOnDisk` are
`_record_velocity`, once per leg, each with its own reading of the clock.
`Restart` is `_load_queue` and `_load_velocity`, whose prune truncates
`velocity.jsonl` before `RewritePruned` writes it back. What an executor does is
reduced to what the life cycle tells apart: refused before signing, aborted by
an error the handlers do not catch, nothing submitted, sent and confirmed, sent
with unknown fate, failed after it was sent.

`attempts`, `decided` and `torn` are history variables that only the properties
read. `SpendAuthority` states the promise of the queue per id: free, waiting,
granted, sent or closed; a grant is good for one sending and nothing revives
it. The refinement mapping reads the status of an id from `queue.json`, the
request in hand and the attempts.

### MintGate

`ReadGate`, `ReadConsumed`, `Consume`, `RecordOpen` and `Execute` are the steps
of `_check_mint_gate` and the execution after it, one per read or write of a
file. The human's tooling may write or remove the gate between any two of them.
Every way in which a gate can be malformed is `NoGate`, since all refuse.
`ReadConsumedFails` and `ConsumeForgetful` are an `OSError` other than "no such
file", which `_mint_consumed_digests` answers with the empty set.

### SignRef

A reference is a record of the secret it was made with, its expiry and the
canonical params; HMACs are ideal, so agents present only references that were
minted. `process` numbers the runs of the daemon and stands for its secret. A
request whose reference does not verify queues for the human, which ends it here.

### RelayBroadcast

A call is one request of a wallet and names its bundle and txid. A connection
is one `ChiaPeer`; `waiting` is its lock with the holder at the head, `pending`
the request in flight. Timers are not clocked: a timeout may fire whenever what
it waits for is outstanding, which covers every duration of the messages.
`Dispatch` is the reader, the matching of an answer to the request in flight,
and the handler up to its answer, which run without an `await` that could come
between; `Resolves` is the match by type and, if there is one, by id. `Classify`
is what the daemon records. Whether the nodes give the id back (`echoIds`) is
chosen at the start, because the code accepts both. The send itself has no timeout
(relay/peer.py:351), so it is a stretch of its own (`sending`) in which the lock is
held and no timer runs, until the socket took the request (`Drained`), the node
answered it, or the connection is lost.

### RelayPool

A task is a slot for one maintainer; `state` says whether it is asleep,
connecting, or connected to a node that has not announced a peak yet (`mute`),
announces (`fed`) or has been silent for 600 s (`stale`). `Room` counts what
`_refill_loop` counts: the peers and every task of `_maintainers` that is not
done, the refill loop and the watchdog included. `gone`, the nodes that never
answer, is chosen at the start; other outside faults are bounded by `MaxFaults`.

### EvmExecutor

A plain transfer, a deployment and a contract call are one transaction; a swap
or a liquidity intent first raises each allowance that is short, in order, each
with its own receipt. The nonce is read once (`BeginIntent`) and counted up.
`NodeFails` is a transport error of any call, before or after the node acted on
it. `PendingNonce` is what `eth_getTransactionCount(.., "pending")` answers.

### NativeOffers

An intent selects a non-empty set of coins that are unspent and not encumbered;
amounts and change are left out, so a transfer, which needs a single coin, has
more choices here than in the code. `hand` is the execution between its
selection and its record. A bundle may reach a mempool whatever the daemon is
told, as `RelayBroadcast` has it. A record that cannot be read is skipped, as
the code does; `misread` remembers it for the properties.

### RelayCoins

A coin is absent, unspent or spent. A node follows the chain at its own pace,
answers registrations and pushes what it learns, in order on one connection;
what it sends lies in `wire` until `Deliver`. A push goes into the cache at
once; an answer is handed to the handler that asked, and `Ingest` puts it into
the cache when that handler runs, which may be after newer pushes.
`get_coins_with_source` is `Turns` and `ToHosted`; the hosted entry carries the
time its fetch began. `Poll` is one round of `wait_for_confirmation` that finds the
coin spent; `PollAsks` is one that finds it missing and has a peer asked for it by its
id, whose failure ends the wait (`Raises`). With no peer at all a poll fails in the
same way, which is left out.

### DexPins, SwapDecode, EvmIntents, DexCheck

Calldata is the tree it decodes to, since an encoding that is not canonical is
refused. A check is an operator whose value is the empty set for a refusal and
a singleton otherwise. `ExecuteSwap` is `_execute_evm_swap` from the pins
through `validate_swap_intent_against_quote` and `decode_swap_tx`; `Outcomes`
is what the Universal Router or the AllowanceHolder may do with the same tree,
whatever the pools pay: commands run in order over the router's and the
wallet's holdings, with the sentinel amounts and recipients they have there.
Liquidity intents go from `Queued` (the validators) through `Build*` and
`Decoded*` to `Execute`, with pins, pool, owner and clock as they are at the
execution. `DexCheck` starts from what an honest venue or requester sends and
changes up to `MaxEdits` fields to anything, or builds a router call of up to
`MaxCommands` commands. Widths of ABI words are constants (`U24` to `U256`),
small, in their order.

### ForgeRoutes, ForgeSwap

`Request`, `ApproveSwap` and the steps `Quote`, `Make`, `MarkOpen`, `Rehearse` and
`Settle` are `rt_forge_swap` and `_execute_forge_swap` cut at every call that
can fail or be the last before a kill. The offer leaves with the rehearsal;
from then on `FillSwap` is the router's to do, until the chain passes the expiry,
which it does up to `Lag` after the daemon's clock. `Status` is
`rt_forge_status`, which asks Sage and the router and marks offers as settled.
`lost` remembers that the file was damaged, which the code reads as empty.

### SolanaExecutor

A transaction is its transfer and its blockhash. A node may be of another
network (`NodeIs` is the genesis check), may give a blockhash it gave before
(`stale` remembers it), and may fail at any call, before or after it acted.
`Process`, `Fork`, `Confirm` and `Forget` are the cluster.

### SageIntents, SageWallet

`SageIntents` has, for each of the twenty intents, what the route checks
(`Ask`), the legs that policy judges (`Legs`), what the execution checks again
(`Runs`) and what Sage then takes out of the wallet (`Outgoing`). The fields of
a request and of the wallet's records are those of `RequestShape` and
`WalletShape`. `SageWallet` runs them: `Select` is `_ensure_sage_rpc` and
`_chia_wallet` (the listener's identity, the login, the fingerprint), `Call` the
request that builds and submits, `See`, `GiveUp` and `WatchFails` the search
among recent transactions, of which each that made a coin fitting the search may be
the one found (`CoinsOf`; change that goes back to the wallet is left out of it).
`OtherTool` logs in to another wallet at any moment; between the daemon's login and
its call Sage then spends that wallet (`CallOther`), and `overtaken` remembers which
executions that hit. What a route asks of Sage before it queues is one step with its
login, since it moves nothing. `WalletChanges` moves what Sage reports of offers,
strikes and NFTs, `LoseSage` loses it before or after it submitted. The search goes
back 60 s before the call; the run has `Slack = 0` with a tick that stands for more
than that, so that a transaction is either of the same minute or too old, and the
theorem is for every `Slack`. What Sage takes out of the wallet includes the XCH that
becomes the coins of an issued CAT or a new singleton (`Created`); an NFT leaves under
the reference by which it was asked for.

### Custody, SealedSeed

Every write is an action of its own: in `Custody` a rename, hence whole; in
`SealedSeed` a file is created empty and then filled. Two processes run at a
time, a command and the starting daemon, or two commands, and either may be
killed between two writes. `Custody` reads `backup.json` into a process's hand
and writes it back from there, as the code does. Keys and seeds are ideal: an
envelope opens with the key it was sealed to. The modes and owners that
`read_private_key` insists on are right; `split` says whether the daemon has an
OS user of its own. A move of the legacy key is cut at each of its looks and writes
(`AdoptLooks`, `AdoptKey`, ..., `ReadBack`, `Ruin`, `Unlink`), and `ceremony-key` at its
look and its write (`CeremonyKey`, `GenerateKey`), so that the two may cross anywhere;
`crossed` remembers that a key was written over one its writer had not seen, or between
a read-back and the removal of the original.

## What the runs show

All bounds are constants of the configurations or of the `MC*` modules. Deadlock
is checked except where the bounds themselves stop the system
(`CHECK_DEADLOCK FALSE`).

| Run | Properties | Instance | States |
| --- | --- | --- | --- |
| `spend_crash` | `TypeOK`, `OneApprovalOneAttempt`, `AnnouncedIsWhatRuns`, `AnnouncedIsKept`, `SentIsShown`, `ImplementsAuthority` | two requests out of two bodies, one kill, one failed write, three clock readings, window 1 | 876,950 |
| `spend_intents` | `CapHolds`, `CountedStaysOnDisk`, `HandlerEnds` | an intent of two legs, one that always queues and one without legs; one kill, one failed write | 749,640 |
| `intents` | `SplittingNeverHelps`; `SwapKeepsBounds`, `SwapAllowancesFit`; `IntentKeepsBounds`, `LiquidityNotWasted` | two policy keys, limits 1..2 or unset, two legs; four tokens (two spellings of the native coin, its wrapped form), router calls of up to three commands, two changed fields | 1,331,942 |
| `executions` | mint gate: `OneAttemptPerGrant`, `AttemptWasGranted`; references: `SignaturesWithinApprovals`; EVM: `AllowanceIsExact`, `NothingReplaced`; Solana: `RowsNameTheirOwn`, `LandedIsCounted`; offers: `OneOpenOfferPerCoin`, `OpenOffersAreLeftAlone`; Forge: `OneOpenOfferPerPair`, `FilledIsOnRecord`, `FilledAsApproved` | two mints, two gate files; two references, three presentations; two swaps that share an allowance and a call; two transfers over two blockhashes; two offers and a payment over two coins; two Forge swaps on two routers; in each one crash or fault | 4,974,940 |
| `wallets` | `FundsAreBacked`, `EnvelopeStaysOpen`; `SealKeepsSeed`, `ReportIsTrue`; `JudgedAtTotal`, `OwnWalletPays`, `RecordedMoveIsReal` | two generated keys and a legacy one, two seeds, one kill, one re-seal; two commands over two wallets, three faults; two requests of every Sage intent, one of its CATs in two spellings, one fault | 4,268,068 |
| `relay` | `LogIsTrue`, `AnswerIsOwn`, `HandlersEnd`; `PoolComesBack` | two broadcasts, a lookup, two connections, three ids; three nodes, the default limits 3 and 2, two faults | 438,836 |
| `relay_coins` | `ConfirmedIsSpent`, `HostedIsRecent`, `CacheCatchesUp` | one coin, two peers, two requests and the poll, one fault, two clock readings, a hosted entry good for the tick it was asked in (`CacheFor` = 0) | 675,538 |
| `spend_torn` | `VelocitySurvivesRestart` (violated) | as `spend_crash`, with a second kill and no failed write | |
| `mint_gate_unreadable` | `UnreadableRecordRefuses` (violated) | one approval | |
| `evm_failed` | `FailedIsNotPending` (violated) | as the EVM part of `executions` | |
| `backup` | `BackupBeforeFunds` (violated) | as `wallets` | |
| `seal` | `SealKeepsStandard` (violated) | as `wallets` | |

Why the bounds are enough: two requests are what it takes to confuse one with
another (ids, bodies, nonces, allowances, coins, answers, transactions on
record); a kill and a failed write let memory and disk drift apart and then be
lost; a second kill, in `spend_torn`, dies in the recovery from the first; a
window of one tick over three readings has an entry inside it, one on its edge
and one beyond it; two legs are what it takes to be cut in the middle; three
calls on one connection let an answer be late by two requests, with an id for each
(what happens when ids come round is said at `FewCalls` below). Two policy keys and limits of at
most two let a sum be below, on and above each limit; limits of zero are left to
the proofs, which hold for every limit. Three router commands are what it takes
to pull, swap and hand over; a fourth only repeats one of them, and the decoder
treats commands one by one and adds them up. Two peers are what it takes for an
older state to arrive after a newer one. Symmetry is used where the elements are
treated alike and no liveness is checked: policy keys in `intents`, coins in
`executions`, ceremony keys and seeds in `wallets`, `backup` and `seal`.

What a property leaves out is in its comment. The exemptions that matter most:

* `SwapKeepsBounds` bounds what every accepted quote costs. That it pays the minimum it
  says where the called contract keeps minimums (`MinimumIsKept`): a pinned router, or a
  genuine 0x settler. The code pins no settler (dex.py:1778-1783; SPEC_V1.md S-20), so of a 0x or
  Cast quote that names another target only the cost is bounded.
* `SwapAllowancesFit`: no swap draws more than was raised, and a router draws it all. At the 0x
  holder a part may stay, for as long as no later approval sets the allowance anew.
* `FundsAreBacked` exempts a `key.json` that tells of another key than the one in place when
  the daemon started, whatever left it so (`stale`): a rotation that was killed, or a
  `ceremony-key` that ran beside an adoption, as the run `backup` shows.
* `EnvelopeStaysOpen` exempts the human's rotation, and a `ceremony-key` that crosses a move of
  the legacy key (`crossed`). The latter may leave no key at all, which is described below.
* `JudgedAtTotal` compares what leaves with the leg of any spelling of its id, and adds
  the XCH no leg counts (`UncountedXch`): the configured fee of a transfer, the fee of a
  cancellation, and what becomes new coins. Both are described below.
* `OwnWalletPays` exempts an execution between whose login and call another tool logged in.
* `SentIsShown` is about bodies executed once; `CountedStaysOnDisk` and `CapHolds` do not
  count what an attempt that was cut short between two legs had left to count;
  `OneOpenOfferPerPair` assumes that `forge_open.json` could be read.
* `LogIsTrue` is about the relay's log. What the daemon's row says of a bundle whose ack
  never came is another matter (below).

## Fairness

* `SpendDaemon`: weak fairness of `Handler`, the steps of the request in hand.
  Its network calls have timeouts and its waits deadlines (`wait_receipt`,
  the confirmation polls), so each step comes. Nothing obliges an agent to ask,
  the human to decide, the chain to settle or the operator to restart.
* `RelayBroadcast`: the event loop runs what is ready, and a timer that is armed
  fires. A send ends (`SendEnds`), if only because a node that no longer reads answers no
  ping, upon which the websocket's heartbeat (relay/peer.py:190) closes the
  connection. Nodes owe nothing.
* `RelayPool`: the loops sleep and wake, an hour passes, a node that is there
  answers a connection attempt that is not counted as a fault.
* `RelayCoins`: nodes follow the chain and announce it, what is on a connection
  arrives, tasks that are ready run, and a lost connection is made again (the
  maintainers do). `Ask` is strongly fair: somebody keeps asking for coins, which
  is what the cache relies on to be refreshed. Hosted sources owe nothing.

All other modules state safety only. A behaviour of `MCRelay` is of one part; in
the other part nothing is enabled, so its fairness asks for nothing.

## What is proved

Every theorem holds for every value of the constants that the named assumptions
allow, so for any number of requests, crashes, failed writes, coins, offers and
accounts. `THEOREM X == ASSUME A PROVE ...` names the assumption it needs; those of
`Policy` (`UnsetAssumption`: an unset limit is no number) and `SpendDaemon`
(`SpendAssumption`: the policy and the requests have their shape, a transfer has one
leg) are facts of every module that extends these. TLC evaluates all of them. What they
say beyond "a bound is a number" and "a request has its fields":

* `SpendsAssumption`: finitely many intents, each needing allowances of positive amounts.
* `SolanaAssumption`: a transfer names a configured chain.
* `RelayCoinsAssumption`, `CustodyAssumption`, `SealedSeedAssumption`, `SignRefAssumption`,
  `MintGateAssumption`, `ForgeSwapAssumption`: values that stand for "none", "absent" or
  "torn" are none of the real ones.
* `SageIntentsAssumption`: the id of a CAT in lower case is its own spelling, no string is
  both a CAT id and an NFT reference, and the native coin is not a CAT.
  `SageWalletAssumption`: requests and wallets are of `RequestShape` and `WalletShape`.
* `WalkAssumption`: a deadline fits its word. Of swaps, the request is one of the known
  venues (`SwapShape`) and the quote any tree the decoder can be given (`SwapQuotes`), with
  any number of commands; of liquidity, `Worlds` says that a v3 position has its tokens in
  the pool's order.
* `FewCalls`, a hypothesis of `AnswerIsOwnAlways`: no more calls than message ids, of which
  the code has 65,535. The bound is sharp: with three calls and two ids TLC finds an
  answer that is taken for another call's.

| Module | Theorem | Says |
| --- | --- | --- |
| `SpendDaemonProofs` | `TypeCorrect` | `Spec => []TypeOK` |
| | `OneApprovalOneAttemptAlways` | one approval of the human is at most one execution |
| | `AnnouncedIsWhatRunsAlways` | an id that a queued row announced is announced once, and only the body announced runs under it |
| | `AnnouncedIsKeptAlways` | what a queued row announced waits in `queue.json` until it is decided on |
| | `SentIsShownAlways` | a spend of open fate is shown by `unresolved_executions` |
| | `DaemonImplementsAuthority` | every step is a move of one id that `SpendAuthority` allows, or none |
| `SpendVelocityProofs` | `EvaluateAntitone`, `ApprovedWithinCaps` | more asked or spent is never more permitted; what is approved fits both caps |
| | `MergingNeverPermitsMore`, `SplittingNeverHelpsAlways` | an intent whose legs are merged is never permitted more than the same intent leg by leg: for any number of legs, and along the walk over two |
| | `CountedStaysOnDiskAlways` | what was counted is on disk while it is within the window |
| | `CapHoldsAlways` | what policy approves fits the daily cap beside all that was sent before |
| `ExecutionProofs` | `OneAttemptPerGrantAlways`, `AttemptWasGrantedAlways` | a mint digest is executed once, and by a gate that stood |
| | `SignaturesWithinApprovalsAlways` | each message signature has an approval of its own |
| | `AllowanceIsExactAlways` | no allowance exceeds what one approved intent asked for |
| | `NothingReplacedAlways` | no transaction takes the place of a pending one, as long as the node drops none |
| | `RowsNameTheirOwnAlways`, `LandedIsCountedAlways` | two Solana rows that say "landed" name two transactions; what landed is counted |
| `DexProofs` | `EverySwapKeepsBounds`, `SwapKeepsBoundsAlways` | a quote that is signed costs the approved sell at most; it pays the approved minimum or reverts, where a pinned router or a genuine settler keeps it |
| | `EverySwapAllowanceFits`, `SwapAllowancesFitAlways` | its allowances go to spenders shown for approval and are never overdrawn; on Uniswap they are used up |
| | `EveryLpKeepsBounds`, `IntentKeepsBoundsAlways` | signed liquidity and contract calls stay inside what was approved |
| | `NoApprovalIsWasted`, `LiquidityNotWastedAlways` | what the liquidity validators let through can be built and signed |
| `OfferProofs` | `OneOpenOfferPerCoinAlways`, `OpenOffersAreLeftAloneAlways` | a coin backs one open offer, and nothing else is sent with it |
| | `FilledAsApprovedAlways` | what a router fills is the swap the human approved, once |
| | `OneOpenOfferPerPairAlways`, `FilledIsOnRecordAlways` | one unexpired offer of a pair; what is filled is counted, or its row says so |
| `RelayProofs` | `AnswerIsOwnAlways`, `LogIsTrueAlways` | an answer is that of its call; the broadcast log names what a node took |
| | `ConfirmedIsSpentAlways`, `HostedIsRecentAlways` | a confirmed spend is on the chain; a hosted answer is as recent as it claims |
| `WalletProofs` | `SealKeepsSeedAlways`, `ReportIsTrueAlways` | a seal is written over only by the same seed; what unlock reports is on the disk |
| | `FundsAreBackedAlways` | no fund route answers for a seed that has to be backed up and was not, unless `key.json` told of another key than the one in place or a record was written over one not read |
| | `EnvelopeStaysOpenAlways` | an envelope that opens still opens after each step of a key's move, until a rotation, or a `ceremony-key` that crosses the move |
| | `OwnWalletPaysAlways` | Sage spends from the daemon's wallet, unless another tool logs in between an execution's login and its call |
| | `RecordedMoveIsRealAlways` | a transfer on record names a transaction that made such a coin for that destination |
| | `JudgedAtTotalAlways` | of every asset, in any spelling, no more leaves through Sage than a leg of the approved intent was judged at, but for the XCH that no leg counts |

The theorems named `Every...`, `No...` and `Merging...` are about the operators, for all
inputs; the ones in `...Always` beside them are the properties of the runs.

Hardly any of these properties is inductive. What had to be added, and why:

* **Ids** (`IInv`). `OneApprovalOneAttempt` says nothing of ids that wait.
  `FileIdsBelowNext` and `MemoryIdsBelowNext` keep every id below the `next_qid` of
  its copy and the file's `next_qid` at most the memory's, so a new id is above all
  others. `ExecutedIdsAreGone` says that an executed id is below the *file's*
  `next_qid` and in neither copy of the queue, so no restart hands it out again.
  `IdInHandIsGone` bridges the steps between the pop and the execution: until
  `SaveQueue` the file may still offer the id, which is harmless because nothing was
  executed under it yet; after it nothing does.
* **The ledger.** The row of the request in hand is on the ledger from the step that
  appends it to the one that resolves it, and is not a row of an earlier attempt;
  `SentIsShown` needs besides that no row resolves an attempt whose fate is open.
* **The window** (`VelocityAgrees`). A leg of a counted attempt has an entry of its
  own in the file, or is still in hand; an entry carries the attempt and the number of
  its legs that were left (`legsLeft`), since two legs of one key and amount are two
  entries. While the file is rewritten, memory has what goes back into it.
* **The cap** (`CapAgrees`). The verdict saw at least what had been sent within the
  window; between verdict and execution one request is in hand, so nothing is counted;
  a window that moves on holds no more. This was where the proof found fault with the
  property: `CapHolds` once said the cap of *every* key, which two legs of one key
  escape. It now speaks of a leg that is all its request spends of its key, and the
  code that leaves others unmerged is listed below.
* **The refinement** (`CopiesAgree`). A save moves many ids at once. That each of its
  moves is one that `SpendAuthority` allows needs memory and `queue.json` never to
  disagree about an id both have, and memory to offer no id below the file's
  `next_qid` that the file does not have.
* **The mint gate.** `RecordCovers` (what the record on disk has of the attempts),
  `InHandIsFresh` (an item past the check was not executed before) and `SeenStands`
  (what the check has seen of the gate, step by step).
* **References** (`SignInv`). The reference in hand is good for what is to be signed and
  already used up (`InHandIsGood`), what was let out names a reference that was good for
  it (`ReleasedByRef`), and no reference signs twice (`OneSignatureEach`): signatures are
  an injection into the references, and these into the approvals.
* **Nonces** (`NoncesInOrder`). The nonces of the pending transactions have no gap, so
  the pending count is the first free nonce and above all that are taken; and an
  execution waits for each of its transactions before it counts on by itself. That a
  free nonce exists is the pigeonhole principle.
* **Solana** (`SolanaInv`). Every transaction that was sent is waited for, is counted or lost,
  or has failed for good (`SentIsAccounted`); the one in hand was not sent before
  (`EachIsNew`), unless a node gave a blockhash it gave before.
* **Swaps.** A quote is run on a ledger: what each command may take from the wallet and
  has to pay it (`Kept`), summed along every way the router may go. The run is a recursive
  function, whose existence for every number of commands is shown by the least command at
  which it would fail.
* **Liquidity** (`PlanBounds`). What a queued request keeps, from its validation to its
  execution, of the pins and numbers it was approved with, whatever becomes of pins, pool
  and clock in between. The proof asked for what `Worlds` says of positions: the
  minima of a removal are matched to the two tokens in that order.
* **Coins** (`HandIsFree`). What was free when an execution selected its coins is free
  until it broadcasts or stores its offer.
* **Forge.** From the moment an offer leaves it has its entry in `forge_open.json`,
  where no other offer has its pair (`FileAgrees`), it is the only offer of its request
  (`IdsOnce`, `LastIsOwn`), and its row says "executing" until velocity counts it
  (`SentIsOnRecord`).
* **Relay.** The holder of a connection's lock is the call whose request is in flight
  (`LocksAreHeld`), and an id that is given out is one that nothing on the connection has
  (`IdsAreOnce`): neither the request in flight, nor what the node has yet to answer, nor
  answers under way. What the log calls accepted was in a node's mempool when the answer
  was made (`AcceptedIsThere`). Of a coin nobody knows more than the chain
  (`NothingAhead`), and a hosted entry is dated by its request, not its arrival (`Entries`).
* **Seals.** A process that seals holds what is on the disk (`HoldsTheSeed`) from its
  comparison on (`MayReplace`); a process fills no file but its own (`FillsItsOwn`), and
  what it has written stays (`WrittenIsThere`).
* **Keys.** What is on record as proven, or was when somebody read it, was shown
  (`ProofIsShown`); the backup is demanded before a generated key's seed is up
  (`BackupIsDemanded`); the legacy file is unlinked after its copy (`CopyIsMade`), and an
  adopted key is the legacy one (`AdoptedIsLegacy`); a move about to remove the original has
  its copy in place, unless a `ceremony-key` crossed it (`MoveInv`).
* **Sage.** The selected wallet stays the daemon's from the selection to the call, or the
  execution is overtaken (`OwnIsSelected`). A row that says a transfer went out names one of that asset
  (`RowsAreReal`), for which an NFT has to be one NFT wherever a transfer is held
  (`AllAreChecked`). `JudgedInv` has the totals: an intent is queued in a form that can be
  totalled and names each CAT as the chain does (`AllAreSound`), a merged leg carries the
  total of its asset (`MergedHas`), and strikes and offer terms that are read again before
  the call are those that were judged (`StrikesWereJudged`, `TakenAre`), so whatever Sage
  came to report in between, `RunIsWithin` holds of what it takes out.

Sums over sets are taken as numbers of cells `<<x, n>>` with `n < f[x]`, which turns
their laws (`SumAtMost`, `SumMonotone`, `SumOfParts`, `SumOfTwo`, ...) into facts of the
library about cardinalities (`SumTheorems`); induction over a finite set is
`SubsetInduction`, for a set of subsets closed under adding an element.

Only model-checked, because the proof system used here does not reach them: the liveness
properties `HandlerEnds`, `HandlersEnd`, `PoolComesBack` and `CacheCatchesUp`, and with
them that the fairness of the specifications can be had (`ENABLED`).

## Where the code and its documentation part

Five disagreements have a run of their own and are listed as findings in
`PROJECT.json`:

* A kill during the start-up prune of `velocity.jsonl` loses the window
  (`spend_torn`; line 794 against SPEC_V1.md:1229).
* An unreadable record of consumed mint digests refuses nothing
  (`mint_gate_unreadable`; line 2082 against its docstring at 2077).
* A transaction the node accepted is recorded as failed when the node's answer or
  a receipt poll is lost (`evm_failed`; evm.py:143 against daemon.py:1194).
* A ceremony-key rotation that overlaps the adoption of a legacy key by the starting
  daemon, or is killed between its writes, leaves `key.json` saying "adopted" beside
  a generated key, and a seed opened by it is never put behind the backup (`backup`;
  custody.py:304 against custody.py:43). `FundsAreBacked` is what holds otherwise.
* `seal --replace` compares `seed.key` only, so that after a wipe of the
  configuration and a restore of the words of `seed.key` alone it drops the standard
  seed from the seal (`seal`; sealed.py:331 against sealed.py:328). `SealKeepsSeed` is
  what holds otherwise.

Further ones that came up while modelling. The models have the behaviour; the
properties above are stated so that they hold beside it:

* A plain `ceremony-key` that found no key (custody.py:297) writes its own (304) over the
  one that the starting daemon adopted in the meantime, though nobody asked for a rotation
  (the docstring at 289 says "or report the existing one"). Between the adoption's
  read-back (438) and its removal of the original (440) this is the last key that opens
  the envelope. A rotation that falls there does the same. `EnvelopeStaysOpen` exempts both.
* The transfer of a CAT is judged and counted under the id as it was spelled: the
  normalised id that `chia_asset_kind` returns is dropped (line 4141), so that one CAT
  can have several caps and windows (against SPEC_V1.md:479). `JudgedAtTotal` takes the
  leg of any spelling.
* Issuing a CAT takes as many mojos of XCH as it issues (line 3676), and a new singleton
  its own, while the leg has the fee only (line 5138, "only the fee leaves").
  `JudgedAtTotal` leaves both out by name (`UncountedXch`).
* `unresolved_executions` (line 6957) matches by body digest whatever the order of
  the rows, so an execution cut short is hidden by an earlier, resolved one of an
  equal body; the docstring says "no later resolution row". `SentIsShown` is
  about bodies executed once.
* The relay's counterpart of `evm_failed`: an ack that times out is recorded as
  `approved-submit-failed`, and the bundle is in the mempool (chia_relay.py:193).
  The broadcast log has no entry of it either, which `broadcast_status` reads as
  "not submitted" (relay/server.py:566).
* `_dispatch` takes a message without an id for the answer to the request in flight,
  so a late answer to a request that timed out can be taken for the next one's
  (relay/peer.py:304). `AnswerIsOwn` assumes nodes that give the id back.
* A `FAILED` ack that names another bundle is a plain failure, not an unknown
  (line 3004 against its docstring at 2998).
* `rt_mint_sign_ref` defaults an absent `sign_type` to "personal" and
  `rt_message_sign` to "plain", so such a reference verifies for no request of a
  Chia or Solana chain (line 6430 against the comment at 6420).
* The refill loop counts a connected peer twice and its own and the watchdog's
  task once each, so with the defaults a pool stays below `target_peers`, and
  maintainers of addresses that never answer can keep an empty pool from a node
  that would (relay/peer.py:540 against the comment at 482 and the docstring at
  558). `PoolComesBack` assumes that every node answers.
* After a node evicted the lower of two pending transactions, the next intent gets
  the nonce of the evicted one and the transaction after it replaces the other
  (evm.py:160). `NothingReplaced` assumes that nothing was evicted.
* An offer record that cannot be read leaves its coins free (line 2861); the approved
  expiry of an offer is not in the bundle (line 3063); a cancelled mark follows the
  mempool's ack, not the chain (line 3200).
* A deployment that carries value has no velocity leg ("A deploy moves no asset",
  against line 5085). `IntentKeepsBounds` exempts it.
* The liquidity validators accept numbers that the builders refuse at execution
  (`LiquidityNotWasted` is about numbers that fit), and the removal of a v3 position
  never compares the tokens of the request with those of the position.
* `rt_dex_lp_add` judges its two legs without `_merge_legs` (line 4424), and its
  validator takes the zero address and the 0xEeee... sentinel for two tokens (line
  4396) where `dex_asset_key` has one key: each leg is then judged as if it were
  alone. `CapHolds` is about a leg that is all its request spends of its key.
* `DexError` is caught by `queue_approve` and `_run_fund_intent`; `OfferError` and
  `ChiaSignError` are not, and end in the handler of last resort.
* Two Sage transfers on record may name one transaction, since the search begins 60 s
  before the request (chia.py:983); a Sage call recorded as failed may have been
  submitted (SPEC_V1.md:470).
* A Solana row that says failed may still land, when the node erred before its final
  answer (`_execute_solana_spend` says a failed spend "never left the machine").
  `LandedIsCounted` exempts exactly those.
* `wait_for_confirmation` asks for the coin without naming the network, and raises any
  relay error but a 404 as a failure, after the bundle was accepted
  (chia_relay.py:383-386). Coin ids asked for by id are not registered again after
  a reconnect, and `/v1/coin` has no fallback. An older state overwrites a newer one
  (relay/peer.py:646-649 against docs/chia-relay.md:107-109), which is why
  `CacheCatchesUp` speaks of the end and no property of each moment.
* A kill between the two writes of `unlock` leaves the status "unlocked" with
  `std_seed.key` missing, and a kill between a file's creation and its content makes
  every later `unlock` fail on the empty file. A rotation killed before the public
  key's write leaves the old public key published.

## Not modelled, and what is next

Every safety property of the runs that pass is proved. What is left to prove about:
types of the modules whose theorems needed only parts of them, `SpendAuthority`'s own
promise as a theorem of the abstract module, and the relay's pool, whose run checks
liveness only.

Modules that may be added: the socket with a client that gives up and asks again,
composed with `SpendDaemon`; an abstract executor whose outcomes `SpendDaemon`
assumes and which the executors implement; amounts and change in `NativeOffers`.

Not modelled, with the reason:

* Key derivation, signatures, CLVM and ABI bytes (`seed.py`, `kdf.py`, `stdkeys.py`,
  `chia_sign.py`, `chia_offer.py`, `abi.py`): pure functions over fields, curves and
  bytes, for which the repository has test vectors and a small instance says nothing.
* The dashboard's challenge, the command line, the MCP server, the connectors and the
  doctor: one request, one answer, and no state of a spend.
* The relay's wire format and certificates, the web dashboard, the installer: byte
  layouts, pages and shell scripts.
* Of modelled parts: the relay's rate limit and introducer discovery, fee fields of EVM
  transactions, amounts and change of native offers, the viewer's limit of five
  password attempts, the layout of the recovery archive, and reorganisations of the
  Chia chain. `PROJECT.json` says for each part what is left out.
