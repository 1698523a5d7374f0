# Verification of tigger-server

tigger-server is the server of a bridge between two EVM networks (the BOA
side chain and another one).  A trader locks an amount in a *deposit box* of the
bridge contract on the source network; the server, which is the *manager* of the
bridge contracts, locks the same amount less fees in a *withdraw box* of the
contract on the target network; the trader closes that box with a secret key, is
paid, and thereby reveals the key; the server uses the key to close the deposit
box.  Both boxes have time locks after which they can be expired instead.  This
directory holds TLA+ modules that model the protocol as the code runs it, the
TLC configurations that check them, and TLAPS proofs for every size of the
system.

## 1. Inventory

| Component | Source | State | Operations |
|---|---|---|---|
| Bridge scheduler | `service/scheduler/BridgeScheduler.ts` | the rows of the present round | `work()`: read the waiting rows once, then run one handler per row, stamp the row |
| Bridge tasks | `bridge/BOABridgeTasks.ts`, `bridge/TokenBridgeTasks.ts`, `bridge/BridgeTasks.ts` | local variables between awaits | nine handlers `checkDepositIsOpened` ... `checkWithdrawIsExpired`, and `runVMTask`, which delays, counts and gives up on failing calls |
| Storage | `storage/SwapStorage.ts`, `mapper/bridge.xml`, `mapper/table.xml` | tables `bridge_swaps`, `bridge_vm_error`, prices | one SQL update per `updateBridge*` call, no transactions |
| HTTP router | `routers/BridgeRouter.ts` | none of its own | `POST /bridge/deposit`, `POST /bridge/close`, queries |
| Contracts of the BOA bridge | `BOATokenBridge.sol`, `BOACoinBridge.sol` | lock boxes, liquidity, collected fees | open, close, expire a box; liquidity; administration |
| Contract of the token bridge | `TokenBridge.sol` | the same by token, the registry of tokens, fees in the coin of the network | the same, `registerToken`, `withdrawTxFee` |
| Roles | `ManagerAccessControl.sol` | owner, administrators, managers | `addManager`, `removeManager`, `transferOwnership` |
| Operator scripts | `scripts/token/*` | how far the script is in the list of tokens | deploy, `register_token`, `add_liquidity`, `add_manager` |
| Scheduler base class, servers | `modules/scheduler/Scheduler.ts`, `SwapServer.ts`, `ScheduleServer.ts` | `ScheduleState`, `is_working`, cron timer | `start`, `stop`, `waitForStop`, `work` on each tick |
| Price schedulers | `GasPriceScheduler.ts`, `CGCCoinPriceScheduler.ts`, `CMCCoinPriceScheduler.ts` | stamps of the periods, rate KRW/USD, tables `gas_price` and `coin_price` | fetch and store gas prices and rates, once a period |
| Amounts and fees | `common/Amount.ts`, `contract/*BridgeContractManager.ts` | none | decimals conversion, estimated fee, tolerance |
| Contract managers | `contract/BridgeContractManager.ts`, `ContractUtils.ts`, `GasPriceManager.ts` | signers, one count of nonces for each network and process | look-ups of bridges and paired tokens, fees and nonce of a transaction, reset of the nonce |
| Infrastructure | `modules/storage/Storage.ts`, `Config.ts`, `Logger.ts`, `KeyStore.ts`, `WebService.ts` | connections, configuration | I/O |

**How they interact.**  The scheduler and the router share the database and
nothing else.  Each handler reads one or two boxes through a node, decides,
writes the row, or sends a transaction through `runVMTask` and writes the row.
Every `await` is a place where another process, a user, or a block may move.
`SwapServer` and `ScheduleServer` can both run a `BridgeScheduler` against one
database, and no row is ever locked; they also send from one account of the
manager, each with its own count of nonces.  The price schedulers write tables
that `GET /bridge/fees` reads for the trader and `checkDepositIsOpened` reads to
judge what he paid.  Rows of the token bridge share the table, the scheduler and
the manager's account with those of the BOA bridge, but have contracts of their
own, in which swaps of both directions share the liquidity of each token.

**What is hard.**

* *Staleness.*  The rows are read at the start of a round; a box is read some
  awaits before the row that rests on it is written.
* *Partial failure.*  A row is written by several updates, a transaction is sent
  before the status is written, and a failing call may or may not have reached
  the node.
* *Retries.*  `runVMTask` repeats a failed transaction after 60 seconds, when the
  first attempt may have been mined.
* *Three clocks.*  Deposit lock on the source chain, withdraw lock on the target
  chain, decisions by the server's clock, with a measured difference.
* *Anybody may call.*  `closeWithdraw`, `closeDeposit` and both `expire*`
  functions of the contract check the state, the key and the time, not the
  caller; `POST /bridge/deposit` stores whatever terms the caller names.
* *One balance for all.*  Open deposits, liquidity, fees and promised payouts are
  coins of one balance per contract, and a fee is booked in one of two contracts.
* *Tokens in pairs.*  The configuration pairs tokens by position; three look-ups
  walk the list by different columns, and one address may be a token on both
  networks.
* *Nonces.*  A count is used up before anything is sent and set back to the number
  of mined transactions after any failure, while others may be pending.
* *Prices.*  Cron ticks, periods with a random offset, two sources in one table,
  answers that are old, partial or zero; the price is read in two awaits, and at
  two times.
* *Stopping.*  Work goes on while a server stops, cron ticks go on until the wait
  for their scheduler is over, and a stop may come before the start is done.

**What makes it correct.**  The bridge never collects a deposit it has not paid
out and never promises other terms than the deposit's; the status it shows is
never ahead of the chains; a status moves along the protocol only; a swap is not
forgotten; the expiry is not started before the contract allows it; the withdraw
lock ends no more than a period, and the difference of the clocks, after the
deposit lock; a swap ends; a payout is collected.  The two bridge contracts
together never owe more coins than they hold; a box ends once, and the key that a
closed withdraw box shows opens its deposit.  A swap in tokens pays the partner of
the deposited token, and the books of each token balance.  Whoever owns a contract,
and nobody else, administers it.  A transaction that a node has taken is neither
replaced nor left behind a nonce that nobody uses.  A price is as fresh as the
better source and its works allow, a rate that was known stays known, and who pays
the present fee is accepted.  A scheduler never works twice at a time, and a server
that was stopped is quiet.

## 2. Modules

| Module | What it is |
|---|---|
| `BridgeSwap` | one bridge: the two contracts as the swaps see them, users, nodes, storage and any number of workers running the bridge scheduler |
| `AtomicSwap` | the abstract specification: what a swap promises, two boxes and six steps |
| `BridgeSwapProperties` | type invariant, safety and action properties, the refinement mapping, the inductive invariants |
| `BridgeSwapProofs` | the theorems, checked by TLAPS: for any number of workers, for one worker, and about the clocks |
| `MCBridgeSwap` and its `.cfg` files | instances for TLC and the liveness properties, whose bounds only an instance has |
| `CoinBridge` | the two contracts of the BOA bridge: `BOATokenBridge` on EthNet, `BOACoinBridge` on BizNet, with every call that changes state |
| `CoinBridgeProperties`, `CoinBridgeProofs`, `MCCoinBridge` | what they promise about coins and boxes, the theorems, the instances |
| `ManagerAccessControl` | the roles of a contract, on each network |
| `TokenBridge` | extends it: the token bridge of both networks with every call that changes state, and the scripts that set it up |
| `TokenBridgeProperties`, `TokenBridgeProofs`, `MCTokenBridge` | what it promises about tokens, boxes and roles, the theorems, the instance |
| `TokenSwaps` | extends `TokenBridge`: the rows of type TOKEN and the nine handlers of `TokenBridgeTasks` between the two contracts |
| `TokenSwapsProperties`, `TokenSwapsProofs`, `MCTokenSwaps` | what the server promises, the inductive invariant, the theorems, the instance |
| `Totals`, `TotalsProofs` | the sum of a function's values, as books need it, and how it changes |
| `Fees` | amounts, conversions, the estimated fee, the comparison with a paid fee: operators only |
| `PriceFeeds` | extends `Fees`: the price schedulers, their tables, a trader who asks and pays, the handler that judges |
| `PriceFeedsProperties`, `PriceFeedsProofs`, `MCPriceFeeds` | what the fees rest on, the inductive invariants, the theorems, the instances |
| `Nonces` | the manager's transactions: the counts of every server, and what nodes hold and mine |
| `NoncesProperties`, `NoncesProofs`, `MCNonces` | what the counting promises, the inductive invariant, the theorems, the instance |
| `Scheduler` | the schedulers of one server: start, stop, cron ticks and `waitForStop` |
| `SchedulerProperties`, `SchedulerProofs`, `MCScheduler` | what they promise, the inductive invariant, the theorems, the instances |

The modules that do not extend each other share little.  `BridgeSwap` has the
boxes of `CoinBridge` with one balance, since the server asks for nothing else of
the contracts, and a call of `work()` in `Scheduler` is a round of a worker in
`BridgeSwap`: `OneWorkAtATime` is why a server is one worker there and in
`Nonces`, and a server that is killed in its work is the fault `Abort`.  A
transaction that `Nonces` refuses is a failed send in `BridgeSwap` and
`TokenSwaps`, and the verdicts of `Judge` in `PriceFeeds` are `FeeVerdicts` of
`BridgeSwap`.  `TokenSwaps` is composed with its contracts: that every step of
the server, the nodes, traders and administrators is a step of `TokenBridge` is
the property `StepsOfTokenBridge`, so `TokenLedger` speaks of the composition.

### BridgeSwap: state

| Variable | Code |
|---|---|
| `deposit`, `withdraw` | `deposits` of the source contract, `withdraws` of the target contract: state, terms, creation time, revealed key |
| `pool` | balance of the target contract |
| `pending` | transactions a node has accepted and no block has taken |
| `db` | `bridge_swaps`, one row per lock box id; its field `posted` is no column, but keeps the lock that was posted |
| `vm` | `bridge_vm_error`: tries and the time of the next attempt, per box and `TaskName` |
| `pc`, `snap`, `work` | a worker: what it awaits, the rows its round has still to handle, the local variables of the handler |
| `now` | the server's clock in units; the chains' clocks differ by `SourceSkew` and `TargetSkew` |
| `faults` | a count of the faults so far, bounded by `MaxFaults` |

### BridgeSwap: actions

A worker goes through `work()` one await at a time: `StartRound` (the query),
`BeginTask` or `PutOnHold` (the switch and the first call), one *decision* action
per handler, `Record` (the write to `bridge_vm_error`), `Settle` (the status after
a transaction) and `Stamp` (`updateBridgeProcessTime`).

| Action | Handler |
|---|---|
| `CheckDepositIsOpened` | `checkDepositIsOpened`: fees, half of the lock left, row takes the terms of the box |
| `RecheckDeposit`, `OpenWithdraw` | `openWithdraw`: deposit compared again, withdraw box looked up, transaction |
| `CheckWithdrawIsOpened`, `UpdateTimeDiff` | `checkWithdrawIsOpened` and its two updates |
| `CloseWithdrawTask` | `closeWithdraw`: closed already, expired, no key yet, or send |
| `CheckWithdrawIsClosed` | `checkWithdrawIsClosed` |
| `ExpireWithdrawTask`, `CheckWithdrawIsExpired` | `expireWithdraw`, `checkWithdrawIsExpired` |
| `CloseDepositTask`, `CheckDepositIsClosed` | `closeDeposit` with the key of `checkSecretKeyWithdraw`, `checkDepositIsClosed` |
| `Read`, `Send`, `Submit` (operators) | `runVMTask` around a call and around a transaction: delayed, given up, refused, taken, or taken and reported as failed |
| `Abort` | an update throws and `work()` catches it, or the process stops and restarts |
| `Mine`, `Drop` | a block takes, or a node forgets, a transaction |
| `OpenDeposit`, `ExpireDeposit`, `CloseDeposit`, `CloseWithdraw`, `ExpireWithdraw` | contract calls by users |
| `PostDeposit`, `PostSecretKey` | the two POST routes |
| `Tick` | time |

### What is abstracted

* A **lock** stands for the trader's address, the withdraw address and the hash of
  the secret key, which `openWithdraw` compares together; `Sha256` maps keys to
  locks.  A **fee** is swap fee plus transaction fee.
* The fee checks of `checkDepositIsOpened` are a verdict out of `FeeVerdicts`:
  `"unknown"` (gas price or rate missing), `"low"` or `"fair"`.
* `getVMError`, the call and, for reads, the write of the outcome are one action:
  nothing but another worker at the same task can tell them apart.  For
  transactions the write is the action `Record`, since the node acts in between.
* A row that is not due is left out of the snapshot: `work()` does nothing with
  it.
* `pending` is a set, so blocks may take transactions in any order; nonces make
  the real order stricter.  Sending the same transaction twice while it is pending
  is the same as once, since the second reverts.
* The intervals are constants of the bridge (`SourceInterval`, `TargetInterval`);
  the code picks them by type and direction of the row.
* `resetTargetTransactionCount` throwing is `Abort`.  `updateBridgeWithdrawTxHash`
  and its like store data that no decision reads and are left out.
* The deposit may be collected by the server, or by anybody once the withdraw box
  shows the key.  The trader, who alone knows the key before, is assumed not to
  give the deposit away.
* `POST /bridge/close` reads the row, compares the key with its lock, and writes the
  key in a second call, any time later.  The lock of a row changes once, from the
  posted one to that of the deposit box, so a key that is written has opened one of
  these two: that is the guard of `PostSecretKey`.
* Changes of the contracts' time locks and of their `active` flag by the
  administrator are not part of this module.

### CoinBridge: state and actions

| Variable | Code |
|---|---|
| `balance` | `token.balanceOf(address(this))`, `address(this).balance` |
| `liquid` | `liquidBalance` of each account, collected fees included |
| `feeManager`, `active`, `timeLock` | `feeManagerAddress`, `active`, `withdrawTimeLock`; `depositTimeLock` is twice as long |
| `deposit`, `withdraw` | `depositBoxes`, `withdrawBoxes` and their states |
| `now` | `block.timestamp`, one for both networks |

Each external function that changes state is the action of its name; a `require`
is a conjunct, and so is the transfer that reverts the call when the contract
holds too little.  Both contracts run the same actions; `CollectFee` says which of
them collects fees, the one on EthNet in `scripts/boa`.  `openWithdraw` is called
by the server, which uses the terms of a deposit box it has seen on the other
network (`Promised`; in `BridgeSwap` this is `WithdrawOnDepositTerms`).  The roles
of `ManagerAccessControl` are left out: administrators may call at any time. What
users own is not kept, nor a receiver that refuses coins.  A lock stands for
trader, withdraw address and hash, a fee for swap fee plus transaction fee.  The
server converts the fee to the decimals of the target network and leaves the
amount as it is (`Converted`), so a coin of one network counts for a coin of the
other.

### ManagerAccessControl and TokenBridge: state and actions

| Variable | Code |
|---|---|
| `owner`, `admins`, `managers` | `owner()`, members of `DEFAULT_ADMIN_ROLE` and `MANAGER_ROLE` |
| `registered` | `tokens` whose status is `Registered` |
| `balance`, `liquid` | `balanceOf(address(this))` and `liquidBalance`, by token |
| `coins` | fees paid in the coin of the network |
| `active`, `timeLock`, `deposit`, `withdraw`, `now` | as in `CoinBridge` |
| `script` | which script an operator runs against a network, and at which token of the list it is |

Each external function is the action of its name; `onlyManager` and `onlyOwner`
are conjuncts.  `Manager` is the server's account, and the manager's calls of
administration are made by whoever runs the scripts with its key.  The scripts are
`Begin`, `RegisterTokens` and `AddLiquidity` (one call each time), `Interrupt`: a
call that reverts ends the script.  `TargetToken` is `getTargetTokenBySource`.
`Answer` is the server's `openWithdraw` as the contracts see it: for a deposit box
that is there, for its terms, in the partner of its token.  `grantRole`,
`revokeRole` and `renounceRole`, which the contract inherits and nothing in the
repository calls from outside, are left out, and so are ERC20 tokens that take
fees or call back.  Tokens are counted in units.  The server asks no token for its
decimals; `add_liquidity.ts` does, to bring in 100000 whole tokens, for which one
sum (`ScriptSum`) stands.

### TokenSwaps: state and actions

| Variable | Code |
|---|---|
| `row` | a row of `bridge_swaps`: status, direction (`source`), the stored deposit box, state of the withdraw box, key, difference of clocks |
| `tries` | `bridge_vm_error` of the task OpenWithdraw |
| `pending` | transactions of the manager that nodes hold |
| `faults`, `changes` | failures of nodes, and calls of administrators and providers, so far |

Each of the nine handlers is one action, `Mine` and `Drop` are the node's,
`PostDeposit` and `PostSecretKey` the routes, `Trade` the users, `Change` the
administrators.  What is left out:

* What may happen between the awaits of a handler or a route, crashes in it and two
  workers: `TokenBridgeTasks` has the shape of `BOABridgeTasks` line by line, and
  these are the subject of `BridgeSwap`.
* A read that fails, an unknown price and a handler that finds nothing to do
  change no row and are no steps.  That the fee is good enough is a free choice.
* The 60 seconds between two tries, and the intervals of rows.  Only `openWithdraw`
  is tried again after a failure, so only its tries are kept.
* A unit of time passes only when no transaction is pending (`Pass`).

### Fees and PriceFeeds: state and actions

`Fees` has operators only.  An amount is an integer with a number of decimals;
real numbers of the code are fractions, so rounding of floating point is left out,
but for one place that decides: a fee that is exactly a tenth too high is refused,
since `1.1 - 1.0` is above `0.1` (`Tolerated`).  `TextBefore` is what JavaScript does
when it compares two `BigNumber` objects: it compares the texts of their digits.
`TokenTxFee` is the fee of the token bridge, which is a fraction of ETH for a deposit
on the EthNet and whole BOA otherwise.  A rate with a price of BOA of zero is infinite
or no number, of which `Amount.make` throws (`Computable`).  Left out of `Fees` are
`toNumber()` for amounts beyond 2^53, which throws (`BOABridgeTasks.ts:146`), and
small numbers whose text has an exponent (section 4).

| Variable | Code |
|---|---|
| `old`, `asked` | `_old_time_stamp`, and `_new_time_stamp` of a work that waits for its answer |
| `gas`, `coin` | the row of `gas_price`, the rows of `coin_price` by source and symbol |
| `krwRate`, `loop` | `_rateKRWUSD`, `_loop` of `CMCCoinPriceScheduler` |
| `missed`, `late`, `faults` | asks without a new price since the row was written, the seconds that works took beyond `Latency` since, and failures in all |
| `user` | a trader between `getFees` and the verdict on his deposit |

`Tick` is the clock with the cron ticks; a tick in a work is lost, and a work that
finds no new period only takes the time.  `AnswerGas`, `AnswerCGC`, `AnswerCMC`
and `Fail` are how a work ends, `Restart` the process.  Nothing bounds a work: the
requests to the two sources have no timeout, that to the node one longer than its
interval, and a ping may never be settled.  So each work may end at any time, or never; what
goes on for more than `Latency` is late, and `Overtime` is by how much.  An answer
names prices for some of the symbols, as old as `Ages` says; one that is not positive
spoils all (the code throws before it stores).  The KRW rate is taken as it is
answered, also if it is 0, and then writes prices of 0; for `getEthBoaRate` such a
row is as good as another, since a DECIMAL comes back as a text (`RateKnown`).  A
price so small that seven decimals make it 0, and a rate that is no number, are left
out.  A trader reads gas price and rate in two awaits (`AskFee`, `Pay`), and pays the
swap fee or not; the handler reads again (`ReadGas`, `Judge`), wants both fees, and
leaves the row as it is when the fee cannot be computed.  `NoPrice` is a missing row;
a row is never deleted.

### Nonces: state and actions

| Variable | Code |
|---|---|
| `mined`, `pool` | `getTransactionCount()` of the account, and the transactions the node holds (external) |
| `next` | the next nonce of the `NonceManager` of a process and network: its cached first count plus `_deltaCount`; `Unknown` before, `Broken` when the first count failed |
| `worker` | the handler that sends: sending, failed, or holding the count it has read |

`NonceManager` belongs to ethers and is modelled from how `SignerMap` and the two
resets of `BridgeContractManager` use it: the first count includes what is pending,
a nonce is used up before the transaction is sent (`Begin`), a failed first count
is kept and fails again (`BeginBroken`), `setTransactionCount` sets the count.  A
node takes a transaction whose nonce is held already only if both of its fees are a
tenth higher (`Outbids`).  `Bid` is `GasPriceManager`, whose tip is constant.
`ReadCount` and `SetCount` are the two halves of a reset, with other servers and
blocks in between.  What a transaction does is left out, so a node may refuse any
(`Refuse`).

### Scheduler: state and actions

| Variable | Code |
|---|---|
| `state`, `isWorking`, `task` | `state`, `is_working` and whether `task` is null |
| `running`, `hung` | calls of `work()` in progress, and those that wait for ever |
| `launching` | `start()` of the server awaits `buildTokenInfo` |
| `server`, `at`, `since`, `polled`, `gaveUp` | how far `stop()` of the server is, and the present `waitForStop` |
| `early` | this `stop()` came while `launching` |

`Started`, `Stop`, `Poll` (a look of `waitForStop`), `Closed` and `Restart` are
the server's, `CronTick` and `WorkEnds` the two halves of `workTask`, and
`PingIsLost` the ping of the coin gecko scheduler that is neither resolved nor
rejected.  Only the end of `work()` matters here.  `STARTING` is never seen:
`start()` has no await.  A start has one stop, so a second SIGINT is not modelled,
nor are the HTTP connections that `server.close` waits for.  `Started` may come at
any moment of a stop that was called before it; in `main.ts` such a stop is over in
an instant and the process exits, so there it does not come at all.  `Restart` is
guarded by an assumption on the caller, not by code: a server is started again only
after waits that all said true and after its start had been awaited, as
`Scheduler.test.ts` does.  `SwapServer.stop` drops what `waitForStop` says, so a
caller cannot know; what `start()` does after a wait that gave up is not checked.

### Slips

An operator `Op_Slip` states how `Op` would read with a plausible slip in the
code, and some run finds each that this table names:

| Slip | What slipped | Property that breaks |
|---|---|---|
| `CloseWithdrawBox_PaysFees` | `closeWithdraw` pays the whole amount | `TypeOK` (balance below zero) |
| `SentStatus_Confirmed` | `closeDeposit` confirms without a check | `StatusMatchesChains`, `IInv` |
| `Waiting_Both` | the query asks for both boxes to be unfinished | `NoSwapIsForgotten` |
| `StampedRow_Snapshot` | the time stamp writes the whole row of the snapshot | `StatusFollowsProtocol` |
| `CanExpireWithdraw_AnyState` | `expireWithdraw` without its check of the state | `ImplementsAtomicSwap`, `TraderIsPaid` |
| `RowOfDeposit_PostedTerms` | `updateBridgeDeposit` keeps the posted terms | `WithdrawOnDepositTerms` |
| `LooksExpired_ServerClock` | the expiry judged without the difference of clocks | `NeverExpiresEarly` |
| `TimeLeft_Quarter` | a quarter of the lock is enough | `LocksAreNested` |
| `TargetStatus_NoExpiryCheck` | no case for `FINISHED_EXPIRE_WITHDRAW` | `EverySwapEnds` |
| `SourceStatus_NoCollect` | no case for `CONFIRMED_CLOSING_WITHDRAW` | `PaidIsCollected` |
| `CanDecrease_AnyAmount` | `decreaseLiquidity` without the check of the caller's liquidity | `TypeOK` of `CoinBridge` and of `TokenBridge` |
| `Credit_Always` | fees booked whether `collectFee` is set or not | `ProvidersCovered` |
| `HandOver_KeepsOld` | `setFeeManager` does not clear the old balance | `BooksCover` |
| `CanCloseDeposit_AnyState` | `closeDeposit` without its check of the state, so an expired deposit is collected | `BoxesAreFinal` of `CoinBridge`, `BooksBalance` of `TokenBridge` |
| `Closed_ForgetsKey` | `closeWithdraw` does not store the key | `PayoutCanBeCollected` |
| `Handed_GrantFirst` | `transferOwnership` grants before it revokes | `OwnerIsAdmin` |
| `TargetToken_ByTarget` | the look-up of the partner goes by the other column | `PairsAreCovered` |
| `TokenFor_ByTarget` | `openWithdraw` of the server does so | `StepsOfTokenBridge` |
| `RowOfDeposit_PostedTerms` | as above, in `TokenSwaps` | `TokenSwapsProperties!IInv` |
| `CanExpireWithdraw_AnyState` | as above, in `TokenBridge` | `TakenOnlyIfPaid` |
| `SentStatus_Confirmed` | `closeWithdraw` confirms without a check | `StatusTellsBoxes` |
| `CanCloseDeposit_OnlyManager` | `closeDeposit` for managers only | `PaidIsCollected` of `TokenSwaps` |
| `Fits_Price` | the price and not the fast price compared with the width of the column | `PriceFeedsProperties!TypeOK` |
| `Latest_First` | the oldest price instead of the latest | `UsedIsFresh` |
| `Tolerated_Hundredth` | a tolerance of a hundredth | `PresentFeeIsAccepted` |
| `KrwDue_LoopOnly` | the KRW rate is asked for by the count of works only, not when it is missing | `KnownRateStaysKnown` |
| `Resets_Swapped` | the reset of the other network | `NoncesProperties!IInv`, `NoGap` |
| `Caught_NoReset` | a failure without a reset | `SkippedAreFaults`, `TakenIsMined` |
| `Bid_ScaledTip` | a tip that grows with the base fee | `NothingIsReplaced` |
| `CanWork_Stopped` | a cron tick does not look at the state | `SchedulerProperties!IInv`, `StoppedIsQuiet` |
| `Halted_AtOnce` | `stop()` sets STOPPED with work in progress | `OneWorkAtATime` |
| `AfterWork_KeepsState` | the end of `work()` leaves STOPPING | `NoWorkBegunAfterStop` |
| `TimedOut_Never` | `waitForStop` without a timeout | `StopEnds` |

## 3. Runs

| Run | Question | Bounds |
|---|---|---|
| `Crashes` | one fault anywhere, time running freely: does what the server wrote stay true, does a status follow the protocol, do the chains perform an atomic swap? | 1 worker, 1 swap, 2 locks, 2 keys, 5 units of time, locks of 1 and 2 |
| `TwoWorkers` | two servers on one database: is money safe, is no status ahead of the chains? | 2 workers, 1 swap, 2 posted terms, 6 units |
| `SwapEnds` | a fair server, a source chain a unit ahead and a target chain two behind: does each swap end, is each payout collected, is the expiry on time, how long does the withdraw lock outlast the deposit's? | 1 swap, locks of 6 and 12, 17 units |
| `LateClose` | (refuted) is each payout collected when the trader closes late? | no fault |
| `Ledger` | does each contract hold what its books say, do the two together hold what they owe, does a box end once, does the key that a closed withdraw box shows open its deposit? | 2 networks, 1 box id, 2 accounts, a right and a wrong key, 5 coins a contract, locks of 0, 1 unit of time |
| `TokenLedger` | do the books of each token balance, do two paired tokens cover their claims, does the owner stay administrator? | 2 networks, 1 box id, 2 tokens paired crosswise, 2 accounts, 1 unit of liquidity of a token a contract, locks of 0, 1 unit of time |
| `TokenSwaps` | does the server pay the right token on the right terms, and take only what it paid for? | 1 swap of either token, its row posted for either direction and lock, 2 locks and keys, 2 tries, 1 fault, 2 changes by an administrator, locks of 1 and 2, 2 units |
| `PaidSwaps` | is each payout collected, if no call or transaction fails? | the same, 1 change, 3 units, a prompt server |
| `PriceFeeds` | how old may a price be, does a known rate stay known, where does a price of zero come from, is the present fee accepted? | 3 schedulers, periods of 2, a minute of 5, works late after 1, prices 0 and 1 of age 1, KRW rates 0 and 1, 3 gas prices, 2 faults, 9 units, a trader in the first 5 |
| `QuotedFee` | (refuted) is a fee below nine tenths of the present one refused? | the same, 10 units, a trader in the first 7 whose deposit pays a fifth |
| `Nonces` | is a transaction replaced, does one wait behind a nonce nobody uses, is each mined? | 2 servers, 2 networks with 2 and 1 transactions, base fees of 1 and 64, 1 fault |
| `StopAndRestart` | is there one work at a time, is a stopped server quiet, does each stop end? | 2 schedulers, 3 starts, 10 units, a second of 2 units, a timeout of 1 second |

The bounds are small but every action fires.  Locks of one and two units with a
free clock put the end of a lock before, between and after any two steps of a
handler.  One fault is enough for each kind (failing read, refused, lost or
half-sent transaction, lost update, restart) at every place.  With two keys and
two locks a wrong key and wrong posted terms occur.  Two workers without faults
show races of two servers; the proofs cover all of these together, and rounds over
several swaps: a snapshot of many rows handled one after another is in the proofs
for any number of swaps, and in the runs for one.  `MaxTime`
bounds the clock, so the system stops there and deadlock is not checked.

`Ledger` uses a lock of 0, so that a box may expire at once and stays open as
well: every order of the calls of one swap in each direction, between moves of
liquidity and changes of the fee manager, occurs, as with any other lock; the one
tick of the clock tells boxes opened at different times apart.  `MaxCoins` lets
a deposit of 3 and liquidity of 2 meet; the factor between the decimals is 2;
more would only repeat.  One box id is two swaps, one in each direction, which share
both balances.  That `changeTimeLock` touches no open box is in the
proofs for any locks.  In `StopAndRestart` ten units are longer than the
longest stop (`Longest`), three starts show a restart after a restart.

In `TokenLedger` and `TokenSwaps` two addresses are tokens on both networks and
are paired crosswise, the case in which a look-up in the wrong column finds a token
that exists.  A deposit asks for one unit, and a provider brings in no more than
one of a token in `TokenLedger` and two in `TokenSwaps` (`MaxTokens`), so liquidity
and deposits share a balance and payouts meet zero.  An operator runs one script at
a time.  Deposits are made on one network: in `TokenSwaps` of either token, in
`TokenLedger` of one, the other being offered without a fee.  The other network is
the mirror image, because the pairs are crossed; one id deposited on both is left
to the proofs.  The locks of `TokenSwaps` are over after one and two units, the
clock ends at two.  In `PaidSwaps` it ends at three, so that a deposit may also expire
after its withdraw box was closed.  `TokenLedger` has a lock of 0 as `Ledger` has, so whatever may
expire may do so at once, and one tick.

In `PriceFeeds` the minute is no multiple of the interval, as 60 seconds need be
none, so ticks come two and one apart, and a random offset of
one puts the begin of a period between two ticks.  Two faults let a source miss two
asks in a row, or miss one and be restarted; nine units are four periods, in which a
work may be late by several of them.  An answer
names prices that are one unit old, and the two sources ask at different times.  Gas
prices of 10 and 11 are within a tenth of each other, 15 is above it, and with
`MaxInt` of 15 its fast price does not fit the column.  The coin decimals are
reduced to 1 and 3, and `Precision` with them.  The trader may
also pay 105 where 100 is due.  He does not touch the tables, so five units are
enough for him: gas and one source ask twice in them, and he may be quoted a price
before an answer and judged after it.  `QuotedFee` differs in what he pays.

In `Nonces` a base fee that rises from 1 to 64 multiplies the cap of a transaction
by far more than a tenth, so that only the constant tip keeps a node from
replacing it.  Two nonces on one network are the least with a transaction that
waits for another; the second network is there for resets of the wrong one.

**Prompt.**  In every run of `BridgeSwap` but `Crashes` the clock advances only
when no worker is busy, no transaction is pending and no row is due: a unit of
time is then longer than a round and a block.  This is what a configuration with
intervals of minutes means, and the time properties need it.  In `Crashes` time
runs freely.

**Fairness** (`FairSpec`): workers, blocks and the clock are weakly fair.  A
worker runs from a cron timer that fires for as long as the process is up, blocks
are taken from the pool by the network, and time passes.  Users are not fair: no
property relies on a trader who acts.  `FairSpec` of `Scheduler`: what the event
loop has to run is run, time passes, and a work ends unless its ping is lost.  A
cron tick or a call of `stop()` need not come.  `PromptSwaps` of `MCTokenSwaps`: the
scheduler comes to each row again, because each round reads all waiting rows, blocks
take what nodes hold, and time passes only when no handler has anything to do, as in
the prompt runs of `BridgeSwap`; time itself need not pass.  `FairSpec` of `Nonces`: blocks take the transaction
whose turn it is; servers need do nothing.

**Assumptions of the liveness runs.**  `SwapEnds` sets `Outsiders = FALSE` and
`LateClose = FALSE`: nobody else expires the box, and the trader closes it before
its lock ends.  Without the first, `expireWithdraw` and `closeWithdraw` have no
branch for a box that somebody else expired and the row is handled without effect;
without the second, see the finding of `LateClose`.  `PaidSwaps` sets
`LateClose = FALSE` for the same reason.  Its `PaidIsCollected` speaks of withdraw
boxes that were closed before the deposit lock was over, and says that the deposit is
then closed, not only that it is no longer open: a trader who is paid and takes his
deposit back is a counterexample.  Faults are excepted: after a failed `closeDeposit`
the transaction is not sent again (section 4).

## 4. Findings

1. **A late close is not collected** (`LateClose`).  If the trader closes the box
   after `expireWithdraw` has read it, the row ends in FINISHED_EXPIRE_WITHDRAW,
   whose handler waits for EXPIRED only.
2. **A fee far too low is accepted** (`QuotedFee`).  `deposit_box.tx_fee <
   calculated_tx_fee.value` compares two `BigNumber` objects, hence their texts: 20
   comes after 100, and the comparison with the tolerance of a tenth is never made.
**Seen while modelling**, and not made into runs.

* *A rate made of zeros.*  `getExchangeRateKRWUSD` does not look whether the answer
  is positive (`CMCCoinPriceScheduler.ts:151`), so a KRW rate of 0 stores prices of
  0, though a price itself may not be 0 (`:209`).  `getEthBoaRate` compares the texts
  of a DECIMAL with 0 (`SwapStorage.ts:589`), and returns a rate of 0, or one that is
  infinite or no number.  The fee is then zero, or it throws, in
  `checkDepositIsOpened` out of the loop over all rows (`BridgeScheduler.ts:208`).
* *Failed transactions.*  `closeDeposit`, `closeWithdraw` and `expireWithdraw` write
  the FINISHED status whether `runVMTask` succeeded or not, unlike `openWithdraw`,
  so a failed `closeDeposit` is never repeated (`BOABridgeTasks.ts:755`).  A third
  attempt of `openWithdraw` may be taken by the node and reported as failed: the
  row ends in ERROR_OPENING_WITHDRAW and the box is open all the same
  (`BridgeTasks.ts:186`).  An `openWithdraw` that reverts in its block, or that the
  node forgets, leaves the row in FINISHED_OPENING_WITHDRAW for ever
  (`TokenBridgeTasks.ts:358`).
* *Two updates.*  `checkWithdrawIsOpened` confirms the row before it stores the
  difference of clocks; a stop in between leaves it 0 (`BOABridgeTasks.ts:442`).
* *Stopping.*  `waitForStop` compares seconds with a timeout that its comment gives
  in milliseconds (`Scheduler.ts:130`, `:141`), so its default is more than sixteen
  hours; its callers do not look at the result, so a stop that gave up looks like
  one that ended.  An answer of Coin Gecko without `gecko_says` settles
  nothing, and the scheduler fetches no more prices until a restart
  (`CGCCoinPriceScheduler.ts:171`).  `waiteForConnection` gives up after ten tries
  without settling its promise (`Storage.ts:87`).
* *Contracts.*  `setFeeManager` with the present fee manager clears his balance,
  which leaves coins nobody can claim (no claim is made twice, which `Ledger`
  shows).  Coins of open deposits and liquidity are one balance, so an
  `expireDeposit` may revert until liquidity is added.
* *Tokens.*  Paired tokens are exchanged one for one, whatever their decimals.
  `register_token.ts`, run again after an interruption, reverts at the token that is
  registered and never gets to the others.
* *Fees.*  `GAS_UNIT` of the token bridge is 1e10 while `gas_price` is in wei, so
  the fee that the comment at `TokenBridgeContractManager.ts:428` calls ETH is 1e8
  times as large.  For a deposit of tokens on the EthNet the handler needs the fee
  in 7 decimals (`TokenBridgeTasks.ts:114`), the quote and the box have 18
  (`NeedDecimals`, `BoxDecimals`).  `Amount.make` takes the text of a number, and a
  fee below 0.000001 has an exponent (`Amount.ts:55`).
* *Prices.*  The columns of `gas_price` are of type INT: above some 1.95 gwei the
  fast price does not fit, and the table keeps the price before (`Fits`).  The
  source with the latest time of its own wins, so one whose clock is ahead hides
  the other (`etc.xml:38`; `Ages` has no such source).
* *Nonces.*  A reset that fails skips a nonce, and every later transaction waits
  behind it until a restart or another failure; `SkippedAreFaults` shows that
  nothing else does.

## 5. Proofs

**BridgeSwap.**  `BridgeSwapProofs` proves, for any sets of swaps, workers, keys,
locks and terms, any time locks, clock differences, delays and any number of
faults (the assumption `BridgeAssumption` only types the constants and keeps the
null values apart):

| Theorem | Statement |
|---|---|
| `Inductive` | `Spec => []IInv` |
| `TypeCorrect` | `Spec => []TypeOK` |
| `StatusCorrect` | `Spec => []StatusMatchesChains` |
| `TermsCorrect` | `Spec => []WithdrawOnDepositTerms` |
| `PaidCorrect` | `Spec => []TraderIsPaid` |
| `Refinement` | `Spec => ImplementsAtomicSwap` |

**The argument.**  None of the properties is inductive: a status may be written
from a box that was read several steps before, and a transaction mined long after
it was sent.  `IInv` therefore says of everything the server keeps that it is true
of the chains *now*: rows of the database (`RowsTrue`), rows of a snapshot
(`SnapshotsTrue`), boxes and rows in the hands of a handler (`JobsTrue`) and
pending transactions (`PendingTrue`), beside the agreement of the two chains
(`ChainsTrue`).  It is inductive because a box only moves forward, INVALID to OPEN
to CLOSED or EXPIRED, and never changes its terms (`BoxesAdvance`), so each of
these truths is stable (`TruthsStay`).  The proof has two halves: a step of a
chain or a user advances boxes and keeps the chains in agreement (`AgreedStep`),
and a step of the server leaves the chains alone and writes or sends only what the
box in its hands bears out (`WorkerStep`, `SnapshotStep` and one lemma per
handler). `Refinement` then maps each chain step to a step of `AtomicSwap`; `IInv`
is needed to know that a mined `openWithdraw` carries the deposit's terms and a
mined `closeDeposit` the revealed key.

Two properties do not hold when several servers run on one database.  They are
proved from the assumption `OneWorker` (`Workers` has one element), again for any
number of swaps and faults:

| Theorem | Statement |
|---|---|
| `OneWorkerStatus` | `OneWorker => (Spec => StatusFollowsProtocol)` |
| `OneWorkerForgetsNothing` | `OneWorker => (Spec => []NoSwapIsForgotten)` |

A handler chooses the next status from the row it read at the begin of the round
and writes it into the row of the database.  Only the worker changes statuses, so
what it read is still there until it has written itself (`Fresh`; `Written` from
then to the end of the task).  A row with a handler has a deposit box that was not
seen ended (`DepositPending`), which is why the filter of the query never hides it.
Each handler has a lemma that its step is a `TaskMove`: at most one write, along an
edge, to the row it handles.  The edges to `ERROR_CLOSING_WITHDRAW`,
`ERROR_EXPIRE_WITHDRAW` and `ERROR_CLOSING_DEPOSIT` by which `runVMTask` gives up take
three crashes between a failure and the next status, more faults than the runs allow:
the theorem covers them, the runs do not.

Two more are about the clocks, for any intervals, locks, delays, clock differences
and number of swaps:

| Theorem | Statement |
|---|---|
| `NoneExpiresEarly` | `TargetSkew >= 0 \/ NothingFails => (Spec => []NeverExpiresEarly)` |
| `NestedLocks` | `InTimeServer /\ 2 * WithdrawLock <= DepositLock => (Spec => []LocksAreNested)` |

`NothingFails` is one worker and no faults (`MaxFaults = 0`), `InTimeServer` is that
with `Prompt`.  What each hypothesis excludes is in the code.  A row is posted with a
difference of clocks of 0, and `checkWithdrawIsOpened` confirms it before it stores
the true one; a stop in between, or another worker that reads the row there, judges
the expiry by 0, which is early only if the target's clock is behind (section 4, *Two
updates*).  `DatesTrue` says which rows have the true difference (`RowsDated`), that a
row without it is in the hands of `checkWithdrawIsOpened` (`Dating`), that no round
holds an old copy (`SnapshotsDated`), and that a row on the way to expiry has a box
whose lock is over.  The locks are nested only by a server that comes in time, since
nothing in the contracts compares them; the contracts set `depositTimeLock` to twice
`withdrawTimeLock` (`BOACoinBridge.sol:32`, `BOATokenBridge.sol:24`).
`ServerInTime` follows the half of the lock that `checkDepositIsOpened` asks for to the
block that opens the withdraw box: through the row (`RowInTime`), the round
(`SnapshotsInTime`), the handler and the pending transaction (`TxInTime`).  The one
way out would be a retry of `openWithdraw` after its delay; but without faults it
fails only if the contract refuses it, and such a refusal is for ever (`Refused`),
because the pool only falls and a box is opened once.  "Nested" is not meant to the
second: told by one clock, the withdraw lock may end after the deposit lock by a
period of the target, which may pass before `openWithdraw`, and by what the source
chain's clock is ahead, since `checkDepositIsOpened` takes a timestamp of the source
chain for one of its own.

**Totals.**  The books add up the values of functions on finite sets.  A fold would be
recursion, about which nothing could be proved by the theorems at hand; `Total(f)` is
instead the cardinality of a set that has `f[x]` elements for each `x`.
`TotalsProofs` has what the books need: the sum of zeros, of one element changed
(`TotalChange`), of two functions (`TotalAdd`), of a function on two elements, and
that a sum grows with its terms.

**CoinBridge.**  `CoinBridgeProofs` proves, for any boxes, accounts, amounts, decimals
and time locks (assumptions `TwoNetworks`, `FiniteIds`, `SwapTerms`, `Decimals`,
`ContractSetup` and `Quantities`):

| Theorem | Statement |
|---|---|
| `TypeCorrect` | `Spec => []TypeOK`: balances and claims of an account never go below zero |
| `CoveredBooks` | `Spec => []BooksCover` |
| `CoveredProviders` | `FeesCarried => (Spec => []ProvidersCovered)` |
| `BoxesFinal` | `Spec => BoxesAreFinal` |
| `Collectable` | `Spec => []PayoutCanBeCollected` |

`TypeOK` is inductive as it stands, because it says of an opened box that its fee
is less than its amount; `BoxesAreFinal` follows from it step by step.
`PayoutCanBeCollected` joins what three calls on two networks do: a withdraw box
repeats the lock of its deposit (`BoxesMatch`), a closed one shows a key of its lock
(`ShownKeysFit`), and `closeDeposit` asks for nothing else.
`ProvidersCovered` speaks of a moment at which every payout is repaid, so it says
nothing of the steps before.  `BooksCover` is what holds of one contract always: its
balance and what it has paid out cover its providers and the deposits it has kept.
With `BoxesMatch`, that a withdraw box repeats a deposit box of the other network, the
books of the two contracts add up to `ProvidersCovered`.  `FeesCarried` is needed and
is how `scripts/boa` deploys the contracts: fees are collected on one network only,
and converting a fee to the other loses none of it.

**Scheduler.**  `SchedulerProofs` proves, for any schedulers, any order of the
waits, any timeout and any number of restarts (assumptions `ServerSetup` and
`Times`):

| Theorem | Statement |
|---|---|
| `Inductive` | `Spec => []IInv` |
| `OneWork` | `Spec => []OneWorkAtATime` |
| `Quiet` | `Spec => []StoppedIsQuiet` |
| `NothingBegins` | `Spec => NoWorkBegunAfterStop` |

`start()` clears `is_working` without looking, so `OneWorkAtATime` holds only
because a start finds every scheduler idle: `IInv` carries from one wait to the
next that the schedulers already waited for are STOPPED (`WaitsAreOver`) and that
a stopped scheduler has no work (`StateTellsWork`).

**TokenBridge.**  `TokenBridgeProofs` proves, for any tokens, lists of pairs, boxes,
accounts and amounts (assumptions `TwoNetworks`, `FiniteIds`, `Configuration`,
`Quantities` and `People`):

| Theorem | Statement |
|---|---|
| `TypeCorrect` | `Spec => []TypeOK`: no contract pays out tokens it does not hold, nobody takes out more than is booked for him |
| `OneAdministrator` | `Spec => []OwnerIsAdmin` |
| `BalancedBooks` | `Spec => []BooksBalance` |
| `CoveredPairs` | `Spec => []PairsAreCovered` |

`TypeOK` carries that an opened box names a token and terms
(`Held`), without which a payout could not be compared with a balance.
`OwnerIsAdmin` is inductive by itself; only `TransferOwnership` disturbs it.
`BooksBalance` is an equation, and inductive with `TypeOK`: each call moves the same
amount on both of its sides, in one token.  `PairsAreCovered` needs `BoxesMatch`
beside it, for which the look-up of a partner must be the first pair of the token's
column (`FirstOf`); a pair that shares a token with another is excepted by `Alone`.

**TokenSwaps.**  `TokenSwapsProofs` proves, for any number of swaps, tokens, pairs,
tries, faults and changes (the assumptions of `TokenBridge`, and `Server`):

| Theorem | Statement |
|---|---|
| `SwapsInductive` | `SpecSwaps => []IInv` |
| `ServerCorrect` | `SpecSwaps => []ServerOK` |
| `StatusCorrect` | `SpecSwaps => []StatusTellsBoxes` |
| `PaidCorrect` | `SpecSwaps => []TakenOnlyIfPaid` |
| `StepsCorrect` | `SpecSwaps => StepsOfTokenBridge` |
| `BooksOfSwaps` | `SpecSwaps => []BooksBalance` |
| `PairsOfSwaps` | `SpecSwaps => []PairsAreCovered` |

The argument is that of `BridgeSwap`: `IInv` says of rows (`RowsSeeDeposits`) and of
pending transactions (`PendingIsTrue`) that they are true of the boxes now, which
stays so because boxes only move on (`BoxStep`, `MovesOn`).  A step of the chains
moves one box and no row, a step of the server changes one row or transaction and
no box; each handler has a lemma.  That a deposit is taken only if the payout
happened needs `KeysAreShown`: only a closed withdraw box shows a key.
`StepsCorrect` needs `PendingIsTrue` to know that an `openWithdraw` which a block
takes names the terms of the deposit box and the partner of its token *then*.  What
`TokenBridgeProofs` shows of each step of the contracts thus holds with the server
between them, and the theorems on the books carry over, from contracts that the
scripts have set up (`SuppliesAreBooked`).

**Nonces.**  `NoncesProofs` proves, for any servers, nonces, base fees and positive
tip (assumption `NonceSetup`):

| Theorem | Statement |
|---|---|
| `Inductive` | `Spec => []IInv` |
| `GapFree` | `Spec => []NoGap` |
| `FewSkipped` | `Spec => []SkippedAreFaults` |
| `NoReplacement` | `Spec => NothingIsReplaced` |

`NoGap` is not inductive: a gap is made when a server counts past a nonce, and seen
when it sends the next.  `ServersInLine` says that between the mined count and the
next nonce of a server lies nothing but what the node holds and the one transaction
the server is sending, unless it must still set its count back; a count that was
read is never above the mined one (`CountsAreMined`), which only grows.
`NoReplacement` rests on `NeverOutbids`: a constant tip is never a tenth higher than
itself.  `SkippedAreCounted` strengthens `SkippedAreFaults` for the time in which a
nonce was refused and its reset is still to come: one more may be skipped then.

**PriceFeeds.**  `PriceFeedsProofs` proves, for any intervals and offsets, works of any
length, any prices and rates that are not negative, ages, decimals and number of
digits, and any number of failures and restarts (assumptions `FeedSetup`, `FeesFit` and `Scales`):

| Theorem | Statement |
|---|---|
| `KnownRate` | `Spec => KnownRateStaysKnown` |
| `FreshPrices` | `Spec => []UsedIsFresh` |
| `TypeCorrect` | `Spec => []TypeOK` |
| `PresentFee` | `Spec => []PresentFeeIsAccepted` |

*A known rate.*  Rows are replaced and never removed (`RowsStay`), so a rate that is
known stays known.  A row of zero is a product: an answer is stored only if its prices
are positive, and CMC multiplies them with a KRW rate that is zero only if it has just
been asked for (`KrwDue`) and answered so.  That such an answer does no good is
finding 3.

*Its age.*  The bound is not inductive, since the age of a row says nothing of how
soon the next ask comes.  `RowsOnTime` says where a scheduler is since it asked for a
row (`OnTime`): it waits for an answer, it is between two asks, within the period of
its stamp or with no cron tick since, or it was restarted and has not seen a tick.
Each missed ask costs one `Gap` of less than two intervals, because a cron tick comes
in every interval whatever the minute is (`NextTick`) and a tick in a new period asks
(`SamePeriod`); a restart costs two.  A work that is late delays the next tick that
counts by what it is late: this is added up in `late` when it ends, and `Overtime`
adds what a work that still waits has cost so far.  `Latency < Interval` only says
from when on a work is called late.

*The present fee.*  `Digits` and `Padded` compare amounts as texts.  A deposit on the
EthNet has more decimals than the fee needed, so its text is compared with that of
another number; but if cutting it to those decimals gives the fee, it begins with the
same digits, and so does not come before it (`LongerIsNotBefore`).  That a handler refuses
for a swap fee that is missing is the premise of `PresentFeeIsAccepted`.  The tolerance
compares both amounts cut to `Precision` decimals: the fees of BOA are whole BOA, of
which a tenth survives the cut (`TenthSurvives`).  `Scales` says what this rests on
and the code has: 7 and 18 decimals, a precision of 5.  `FeesFit` says that amounts
have enough digits for every fee that the prices can make.  `Tens`, the powers of ten,
is a recursive function; that it exists and what it yields is shown by a least
counterexample (`Least`, `NatSet`, `TensRule`).

**Only model-checked.**  Liveness, which needs fairness and `ENABLED` and is beyond the
prover: `EverySwapEnds`, `PaidIsCollected` of both bridges, `StopEnds`,
`TakenIsMined`.  Every other property of a passing run is stated by a theorem; where
the theorem has a hypothesis beyond the assumptions on constants (`OneWorker`,
`NothingFails`, `InTimeServer`, `FeesCarried`), the run's constants satisfy it, and
this section says why the property needs it.

## 6. What is left

To come, in this order:

1. Two bridges, one per direction, on the contracts of `CoinBridge`: shared
   liquidity, and `changeTimeLock` on one network between the two boxes of a swap.
2. `Nonces` composed with the swaps, so that a refusal for a taken nonce is told
   from one of the contract, and what it does to `closeDeposit` is followed to the
   end of the swap.
3. More proofs: that `AtomicSwap` by itself gives what `BridgeSwap` proves of money, and
   the nesting of the locks with faults, as far as the delays of retries allow it.

### Not modelled

* Queries that only read and format: paging, lists of deposits and withdrawals,
  balances, status of the server.
* Connection pooling, parsing of configuration, logging, key store and web
  service: I/O without protocol state.
* Scripts of the BOA bridge, single transfers and reads for operators: what they do
  to the contracts are the calls of `CoinBridge`.
* The second SIGINT, HTTP connections that `server.close` waits for, and ERC20
  tokens that do not transfer what they are told to.
