# ethutils: TLA+ models, model checks and proofs

ethutils is a Go library for Ethereum-like chains. It reads a chain through
several nodes at once, signs transactions with software and hardware keys,
broadcasts them to several nodes, follows them until they are mined, and
decodes what contract calls did. Nothing is persisted, so there is no crash
recovery to speak of. The concurrency is the library's own goroutines plus
whatever its callers run, and everything outside (nodes, explorers, USB
devices) may be slow, fail, or disagree.

This directory holds models of that library in plain TLA+, TLC configurations
that check them on small instances, and proofs that TLAPS checks for every value
of the constants. Definitions are translated from the Go source. `PROJECT.json`
maps each one to its lines and lists the runs, the faulty variant that each
property rejects, the hazards and the theorems.

    tlc -config EthReader.cfg MCEthReader.tla      # model-check one module
    tlapm EthReaderProofs.tla                      # check its proofs

Contents: 1 inventory · 2 modules and plan · 3 how the modules correspond to the
code · 4 runs and bounds · 5 fairness · 6 proofs · 7 disagreements between code
and comments · 8 hazards · 9 what is not modelled.

## 1. Inventory

### 1.1 Components

Paths are relative to `src/`. "Modelled" is `yes`, `partly` or `no`; section 9
gives the reasons for what is left out.

| component | source | state | operations | modelled |
|---|---|---|---|---|
| fan-out reads | `reader/reader.go` | per call: a buffered channel, one goroutine per node, a loop counter, the errors | twelve reads with one body | yes: `EthReader`, `FirstAnswer` |
| lazy connection | `reader/one_node_reader.go` | `client`, `ethClient`, `mu`, for the life of the reader | `Client`, `EthClient`, `initConnection` | yes: `OneNodeReader` |
| several calls in one | `reader/reader_multicall.go` | the registered calls and where their results go | `Register`, `Do`, hooks | yes: `MultiCall` |
| gas price cache | `explorers/etherscan_alike_explorer.go` | `latestGasPrice`, `gasPriceTimestamp`, `gpmu` | `RecommendedGasPrice`, the reader's fallback; `GetABIString` | partly: `GasPriceCache` |
| transaction status | `reader/reader.go` `TxInfoFromHash` | per call: transaction, receipt | three dependent reads | yes: `TxInfo` |
| transaction monitor | `monitor/monitor.go` | per transaction: `startTime`, `isOnNode`, ticker, channel | `periodicCheck`, `BlockingWait` | partly: `TxMonitor`, `TxAnalyzer` |
| waiting for several | `monitor/monitor.go` | a wait group and a map | `BlockingWaitForMultipleTxs` | partly: one of its goroutines, in `TxAnalyzer` |
| broadcaster | `broadcaster/*.go` | `clients`; per call: wait group, failures | `Broadcast`, `BroadcastTx` | yes: `Broadcaster`, `AllOutcomes` |
| account | `account/account.go`, `transaction.go` | signer, reader, broadcaster, address | the sending methods, singles and batches; getters | partly: `Account` |
| USB framing | `account/ledgereum/ledger_driver.go`, `account/trezoreum/trezor_driver.go` | the connection; per exchange: reply buffer | `ledgerExchange`, `TrezorDriver.Exchange` | yes: `HidExchange` |
| Ledger signing | `account/ledgereum/*.go` | `device`, `version`, `browser`, `failure`, `deviceUnlocked`, `mu`, `devmu` | `Unlock`, `Open`, `Derive`, `Sign`, `SignTx` | partly: `LedgerSigner` |
| Trezor session | `account/trezoreum/*.go` | the driver's `device`, `deviceUnlocked`, `mu`; per `Sign`: one response reused for every chunk | `SignTx`; `Unlock` with `Init` and `UnlockByPin`, `Derive`, `Sign` of the `Bridge` | partly: `TrezorSigner` |
| transaction analyzer | `txanalyzer/analyzer.go` | the result being filled | `Analyze`, `AnalyzeOffline`, `AnalyzeMethodCall`, `AnalyzeLog`, the Gnosis call inside a call | partly: `TxAnalyzer` |
| address database | `txanalyzer/*_address_database.go` | the map of names | fill, look up | no |
| software signers | `account/key_signer.go`, `tomo_signer.go` | key and chain ID | `SignTx` | no |
| keys and key files | `account/util.go` | none | generation, encryption | no |
| units and amounts | `util.go` | none | float, integer and wei conversions | no |
| transaction JSON | `tx_info.go` | none | encode, decode, `GasCost` | no |
| constructors | `explorers/explorers.go`, `account/*_account.go`, `reader/legacy_reader_api.go`, `reader/ethereum_node.go` | none | combine the parts for one network | no |
| embedded ABIs | `hardcode_abis.go`, `reader/tomo_abi_deprecated.go`, `reader/util.go` | none | parse a constant | no |

### 1.2 How the components interact

    caller
      |-- Account --- reads ---------> EthReader --(goroutine per node)--> OneNodeReader --> node
      |      |                            |-- gas price --> explorer (mutex, HTTP)
      |      |-- signs --> key | Ledger | Trezor  --(USB frames)--> device
      |      `-- sends --> Broadcaster --(goroutine per client)--> node <--gossip--> node
      |-- TxMonitor --(every 5 s)--> EthReader.TxInfoFromHash --> three fan-out reads
      |-- MultipleCall --(one aggregate call)--> EthReader
      `-- TxAnalyzer --> EthReader, address database

* **EthReader → OneNodeReader.** Each fan-out read starts a goroutine per node,
  and the losers go on after the caller has returned. Calls on one
  OneNodeReader therefore overlap even for a caller that makes one read at a
  time: that is what makes the lazy connection a concurrent object.
* **TxInfoFromHash, TxMonitor, Account → EthReader.** They make several reads in
  a row, and each may be answered by a different node, at a different height or
  on a different fork.
* **EthReader → explorer.** All callers of one reader share the explorer's
  mutex, which is held during an HTTP request.
* **Account → Broadcaster → node.** What the broadcaster says was sent and what
  the nodes have are two things: replies get lost, nodes gossip.
* **Signer → driver → device.** The device keeps state of its own between two
  frames and two chunks, and is unplugged or switched by its user. The Trezor
  also leads: it asks for PINs and for data, and its replies decide what the
  host sends next.
* **TxAnalyzer → EthReader, explorer.** State, code and ABI are three more
  dependent reads, and what they say is dereferenced.

### 1.3 What is hard, and what correct means

| component | what is hard | what makes it correct |
|---|---|---|
| fan-out reads | losers outlive the call; failures and answers mix in any order | nobody blocks or leaks; a value when some node answers in time, an error only when all failed, with every node's reason |
| lazy connection | looks at the fields outside the mutex race with stores made under it | both handles are one connection; never a nil handle; one dial a call; a connection is never lost to a failed dial |
| MultipleCall | results of an earlier `Do`, hooks that fail or register calls | hooks see one block; no error means that everything ran |
| gas price cache | a mutex held across HTTP; a wall clock in whole seconds; price 0 | one request at a time; no stale price; nobody starves unless a request hangs |
| transaction status | three reads of three nodes; dropped errors | a verdict is the outcome in a block that really was; without forks it never changes |
| monitor | lagging nodes, dropped ticks, errors, a transaction that was dropped | the waiter gets nothing but a real verdict, and gets it once the nodes have it; waiting does not bring the program down |
| broadcaster | late and lost replies, gossip, one goroutine a client | the bool and the failures are true; all goroutines are joined; it returns |
| account | mined nonces of lagging nodes; failures in the middle of a batch | a single send never waits behind a gap; results match payments |
| USB framing | replies that end on a frame edge; broken exchanges | replies belong to their requests; no waiting for a frame that does not come |
| Ledger signing | device, app and version change between any two exchanges; replies left behind by failed reads; chain IDs in one byte, or none | a signature is of one whole transaction, one's own as long as nothing was left behind, and for the signer's chain; behind the driver's check an old app signs for no chain |
| Trezor session | a PIN dialogue and a stream the device leads; one result list for two meanings; a device that locks itself; replies left behind | a signature is of one's own whole transaction and for the signer's chain; no PIN request passes for a success; calls end |
| analyzer | one failure of several; lagging nodes; index arithmetic on logs and parameters; unchecked types; nil receivers and explorers | a result without an error is complete, one with an error keeps the rest; a panic has one of few causes |
| units | floating point, six decimals | a round trip loses nothing it promises to keep |

## 2. Modules and plan

Each component module is accompanied by an `MC` module (the instance), a `.cfg`
and, where there are theorems, a `...Proofs` module that EXTENDS it.
`EthReaderProofs` holds the proofs of `MultiCall` too, and `LedgerSignerProofs`
those of `HidExchange`: each EXTENDS both, which is why the names of `MultiCall`
and `HidExchange` carry a prefix (`MultiSpec`, `UsbSpec`) where they would
otherwise clash, and the program counter is `at` in both.

| order | module | about | composition |
|---|---|---|---|
| 1 | `FirstAnswer` | abstract: what a fan-out read promises | none |
| 1 | `EthReader` | the goroutines and the channel of one read | implements `FirstAnswer` |
| 2 | `OneNodeReader` | the lazily opened connection | none |
| 3 | `AllOutcomes` | abstract: what a broadcast promises | none |
| 3 | `Broadcaster` | one broadcast, with network and gossip | implements `AllOutcomes` |
| 4 | `GasPriceCache` | the explorer's cache and its callers | none |
| 5 | `TxInfo` | `TxInfoFromHash` over a chain in motion | reads as `FirstAnswer` promises them |
| 6 | `TxMonitor` | `periodicCheck` and `BlockingWait` | EXTENDS `TxInfo` |
| 7 | `TxAnalyzer` | a program that waits for a transaction or has it analysed | EXTENDS `TxMonitor` |
| 8 | `Account` | sends and batches, with pools and mining | reads as `FirstAnswer`, sends as `Broadcaster` |
| 9 | `MultiCall` | `MultipleCall` | none |
| 10 | `HidExchange` | frames of both wallets | none |
| 11 | `LedgerSigner` | signing, over a device with a will of its own | exchanges as `HidExchange` shows them |
| 12 | `TrezorSigner` | unlocking and signing, over a device that leads | exchanges as `HidExchange` shows them |

The two refinements are stated in the detailed modules,
`Abstract == INSTANCE ... WITH` the mapping, and checked by TLC as a `PROPERTY`;
their safety part is also proved. `TxMonitor` and `TxAnalyzer` reuse the actions
of the module below them, so that a `TxInfoFromHash` inside a monitor or an
analysis is the one that `TxInfo` describes, step by step: that every behaviour
of `TxAnalyzer` is one of `TxInfo` is a theorem (`ProgramReads`).

All of these exist. What the plan has left, in this order:

1. `WaitAll`: `BlockingWaitForMultipleTxs` with several monitors at once, the map
   and the wait group: every transaction is in the map, the call returns.
   `TxAnalyzer` has one of its goroutines.
2. The address database: which of two spellings of an address wins.
3. `LedgerSigner.Unlock` called directly beside `SignTx`, two signers on one
   device, and `Trezoreum.Init` called directly.
4. `Units`: conversions in scaled integers as pure operators against a
   reference. `util.go:75` says `BigToFloat(1100, 5) = 0.11`; the
   definition divides by 10^5.
5. What `BlockingWait` promises, as an abstract specification.
6. What the two wallets promise in common (a signature of one's own whole
   transaction or an error), as an abstract specification that `LedgerSigner` and
   `TrezorSigner` implement.

## 3. How the modules correspond to the code

One step of a model is what happens between two points where something else can
intervene: a channel operation, a lock, a store another goroutine can see, a
call that leaves the process. Faulty variants, used to show that a property can
fail, stand beside the definitions they replace and are no part of `Next`.

**EthReader / FirstAnswer.** `Spawn(n)` is an iteration of the loop that starts
goroutines, `Call(n)` the end of the node's call with a value or an error,
`Send(n)` the send on `resCh`, enabled while the buffer has room, `ReceiveValue`
and `ReceiveError` an iteration of the receive loop, and `GiveUp` the return of
the collected errors. The channel holds the node whose record was sent. Which of
the twelve reads it is makes no difference: the bodies are the same but for the
type of the value. `FirstAnswer` has two variables: the nodes' answers and the
caller's result. The refinement mapping leaves both as they are.

**OneNodeReader.** A call enters `Client()` or `EthClient()`: `CheckSet` and
`CheckNil` are the look at the field without the mutex, then `Lock`,
`DialSucceeds` or `DialFails`, `StoreClient`, `StoreEthClient`, `Unlock`,
`Reread`. `TransactionByHash` goes through two accessors, one after the other
(`visit`). The look is a data race in Go. The model has the outcomes of an amd64
build: stores appear in program order, and a goroutine that has not synchronised
may still see nil (`synced`). A connection is named by the call that dialled it.

**Broadcaster.** `Init` picks any subset of nodes that could be dialled.
`Spawn(n)` is `wg.Add` and `go`; a goroutine ends its call by `Answered` or
`TimeOut` (the 4 s context), stores a failure (`Store`) and leaves (`Done`); and
`WaitReturns` computes the bool and the error. The network is external: `Take`,
`Refuse`, `Lose` and `Gossip` move `wire` and `holders` independently of what
the caller is told. Of a node, `AllOutcomes` knows only its outcome: none yet,
acknowledged or failed. The refinement mapping computes it (`Outcome`): a
client has failed when its failure is in the map, and is acknowledged when its
goroutine has left, or is about to, without one. That the map, the wait group
and the bool agree with it at the return is what the refinement says.

**GasPriceCache.** A caller does `Lock`, `Fetch` or `UseCache` (the test under
the mutex), `HttpAnswers` or `HttpFails`, `Store`, `Unlock`, and after an error
`AskNodes`. Time moves in half seconds, so that the truncation of
`time.Now().Unix()` is visible. `SetBack` and `SetForward` set the wall clock,
within a bound. A price is any float that `ParseFloat` returns, a negative one
and NaN included: the code compares it with zero and nothing else.

**TxInfo.** `TransactionByHash` is the set of what the first of three reads may
come to, of `Answer`s of single nodes; `NullAnswer` is what `OneNodeReader` makes
of a transaction its node does not know, an error. `TxUnmined` and `TxMined` take
one of them, `ReceiptMissing` and `ReceiptRead` are the receipt's read, whose
error only looks pending, and `HeaderRead` the header's, whose outcome the verdict
does not depend on. `EthReader.nodes` is filled with `OneNodeReader`s only
(`reader.go:37`), which return go-ethereum's `NotFound` for a missing receipt or
header, so that no read answers nil without an error. Around it `Learn`, `Drop`,
`Include`, `Reorg` and `Recover` move the nodes. The rigid variable `reorgs`
chooses the world: are there competing blocks?

**TxMonitor.** `Advance` is five seconds, with the ticker's channel of one tick
and its rule to drop a tick that finds it full. `Check` takes a tick and enters
`TxInfoFromHash`, `Read` is a step of it, and `Retry`, `Pending` and `ReadBlock`
are the cases of the switch. `Retry` has "error" and "notfound", with the test
that gives a transaction up as lost: behind `OneNodeReader`s that test is dead
code, which `DeliveredIsReal` shows and its faulty variant (a node's null handed
on) brings to life. `Deliver` is the unbuffered send together with its receive.

**TxAnalyzer.** `use` chooses what the program does. To wait, it runs the steps of
the monitor (`Tick`, `Work`, `Send`) and then `Return`s the verdict, as
`BlockingWait` does, or stores it under the transaction's hash first, as
`waitForChannel` does, which dereferences the transaction. To analyse, it asks for
the state (`Analyze`, `ReadInfo`), looks at the receiver (`InfoRead`), asks for
its code (`GetCode`) and its ABI (`GetABI`), and decodes offline
(`AnalyzeOffline`, `AnalyzeContractTx`). The variable `explorer` says whether
there is one to ask for the ABI (`NewTomoReader` and the Mumbai reader have a nil
one). A call is reduced to which method it fits, how many inputs that has, whether
the three of a Gnosis wallet's `submitTransaction` have the types they are
asserted to have, and whether one is of a function type; a log to its number of
topics, whether the ABI has the event, how many of its arguments are indexed,
whether the data decodes, and whether a value is of a function type: that is what
the code's early returns, its unchecked indexes (`analyzer.go:132`, `:193`) and
its unchecked assertions (`:63`, `:207`, `:213`) depend on. `given` keeps what
came of decoding each log of the receipt, for the properties. The result's error
is a set: empty, the one error of an early return, or those of the logs that could
not be decoded, which the code joins into one text. The receiver's kind is chosen
when it first matters. Nodes stop moving when no read can see them any more.

**Account.** A sending method is a pipeline of reads that may fail, as `Transfers`,
`BatchTransfers`, `ContractCalls`, `CallsWithABI` and `Deployments` list them, then
`Sign`, `Broadcast` and a report for the payment. The two batch methods
repeat the last three for each payment with nonce + i and go on after a failure.
`PrepareFails` returns the error. `PreparePanics` has the panics of the code: in the
batches over any failed read and over lists of different lengths, in contract
calls over a negative value, and on networks without an explorer over the price or the
ABI asked of it.
The chain is external: pools take, refuse, replace, gossip and evict; `Mine`
includes the next nonce; and a node learns of it by `CatchUp`.

**MultiCall.** `Register` appends a call. `Do` is the aggregate call for the
calls registered at that moment, `Unpack` and `UnpackFails` are the loop over
the results (`next` is its counter), `Hook` and `HookFails` the loop over the
hooks, which may register. A value is reduced to the block it is of.

**HidExchange.** `Start` to `Written` write the frames of a request (`NewMessage`:
a call's own, or the Trezor's ButtonAck in the middle of an exchange),
`DeviceReplies` is the device's answer cut into frames, `ReadPart` and
`ReadLast` the read loop with its two termination tests (`driver` chooses), and
`ReadBadHeader`, `ReadFails` and `WriteFails` the early returns, which leave the
connection as it is. Bytes are stretches `[n, from, to]` of the n-th message,
and the host's buffer is its capacity, its length and the stretches in it.
A frame that is not for the host (`Garble`) and the Trezor's ButtonRequest are
in the model.

**LedgerSigner.** `Begin` and `LockMu` are the entry, `UnlockFails`,
`NoProduct`, `Product`, `OpenDevice`, `Derive` and `Version` are `Unlock` and
`Open`, `CheckVersion` is the driver's test, nil chain ID (`NoChain`) included, and
`SendChunk`, `LastChunk`, `NoDevice`, `NoStatus` and `ExchangeFails` are
`ledgerSign`. `entry` chooses the front: `LedgerSigner.SignTx`, or
`Ledgereum.Unlock` and `Sign`. `size` is the number of chunks of a call's
transaction. An exchange delivers its request (`Deliver`) and takes the first reply
of `inbox` (`Take`); `ExchangeError` is every way it can fail on a live handle: a
write that goes wrong, or a read, before the reply or between its two frames. The
reply, or its rest, then stays in `inbox` for the next exchange, and `lostSync`
remembers that. `NoStatus` is the slice of such a rest that runs out of range
(`ledger_driver.go:458`). The user acts by `Plug`, `Unplug` and `Switch`. The chain
ID goes through `byte(chainID*2+35)` and back, modulo 256.

**TrezorSigner.** `Begin`, `LockMu` and `Sign` are the two fronts: `SignTx` under
its mutex, and the methods of `Bridge`. `OpenFails` and `OpenDevice` are
`GetDevice`, and an exchange is `Send` (the message is written, the device
answers) and `Receive` (a reply is read and compared), or `ExchangeFails`. The
order in which `Exchange` compares a reply is kept: `Wanted` is each caller's
result list, `Expected` the one `trezorExchange` appends its PIN request to,
`PinResults` that of `UnlockByPin`, and `Index` the position returned, which
`Pinged` (the state machine of `Init`), `Handle` and `Receive` interpret as the
code does, including callers that ignore it. `Stream` is the chunk loop, `Parity`
the byte arithmetic on V. The device and its user are external: `Requested`,
`PinEntered`, `MoreData`, `Initialize`, `Plug`, `Unplug`, `Lock`. The history
variables `granted`, `lostSync` and `pinFailed` say what the device has granted,
whether a failed read has left a reply on its way, and whether a PIN of
`Unlock`'s own loop was wrong or its exchange failed.

## 4. Runs and bounds

Deadlock is checked in every run whose system does not stop; the others stop
after their last operation, and say so with `CHECK_DEADLOCK FALSE`.

| run | states | instance | what it shows |
|---|---|---|---|
| `fan_out_read` | 2,003 | 3 nodes, 2 values | `SendNeverBlocks`, `ErrorNamesEveryNode`, `NoGoroutineLeft`; `ImplementsFirstAnswer`, liveness included: the caller always gets its answer |
| `lazy_connection` | 17,213 | 3 calls of either kind | `HandlesAgree`, `HandleUsable`, `OneDialPerCall`, `NeverDisconnected`, `CallsReturn` |
| `broadcast` | 67,481 | any subset of 3 nodes dialled | `SentIsTrue`, `UnnamedClientsHaveIt`, `NothingAfterReturn`; `ImplementsAllOutcomes`, liveness included; `BroadcastReturns` |
| `broadcast_bool_doc` | violated | as above | see section 7 |
| `gas_price_cache` | 73,772 | 2 callers, time-out 1 s, 3.5 s of time, clock up to a second slow or fast | `SingleFlight`, `CachedPriceFresh`, `AnswersFarApart`, `ServedIfRequestsEnd` |
| `tx_follow` | 305,712 | 2 nodes, 2 forks, would give up after 1 tick, 6 kinds of log, 7 of call, receipts of up to 2 logs | `VerdictOfRealBlock`, `VerdictsAgree`; `DeliveredIsReal`, `MinedIsReturned`; `NoPanic`, `ResultComplete` |
| `account` | 1,216,817 | 2 operations of eleven methods, 2 nodes, batches of 2 | `SingleSendsMineable`, `ReportsMatchPayments` |
| `multi_call` | 858 | 2 blocks, 3 calls, 3 `Do` | `HooksSeeOneBlock`, `SuccessIsComplete` |
| `hid_exchange` | 337,726 | frames of 12 bytes, 2 exchanges, 6 request and 16 reply lengths | `InStep`, `ExchangesEnd` |
| `ledger_signer` | 2,119,697 | 2 calls, 1 to 3 chunks each, 11 chain IDs and nil | `OwnSignature`, `SignedForChain`, `DriverRefusesOld` |
| `trezor_signer` | 77,787 | 2 calls, data of 3 units, chain IDs 88, 300 and 513 with a word of 512, at most one lost read | `OwnSignature`, `UnlockedWasGranted`, `CallsReturn` |
| `ledger_old_app` | violated | as above, mainnet | see section 7 |

Every bound, and why it is enough:

* **Three nodes** (`fan_out_read`, `broadcast`): the most any constructor of the
  library uses. A failure before, between and after answers needs three; what
  holds for any finite number is proved.
* **Three calls** (`lazy_connection`): one holds the mutex, one queues behind it,
  one looks at the fields meanwhile. Proved for any number.
* **Time** (`gas_price_cache`): `MaxNow` = 7 half seconds lets a time-out of one
  second expire twice, at both parities of the truncation; `MaxSkew` = 1 second
  either way is the least that changes an age. Two prices are enough: zero,
  and one that is equal to nothing, as NaN is. The safety properties are proved
  for every value of both. `ServedIfRequestsEnd` is stuttering-safe at the
  horizon: callers go on after time has stopped.
* **Two nodes, two forks** (`tx_follow`): two nodes can disagree
  about everything a single read can tell; three reads then alternate between
  them. `LostAfter` = 1 stands for three minutes: the condition compares one
  time, and one tick before, at and after it occurs.
* **Six kinds of log, seven of call, two logs** (`tx_follow`): one log and one
  call for each way through the decoder; with two logs one can fail before or
  after the other. No line of the decoder compares numbers of logs.
* **Two operations, batches of two** (`account`): pairs of every two methods
  interleave, and the first payment can fail and the second succeed. `SYMMETRY`
  permutes operations and nodes, which the properties do not tell apart; the
  run checks only safety. Nonces need no bound: every send is finite.
* **Three `Do`** (`multi_call`): stale results of a whole and of a broken `Do`,
  then a good one.
* **Frames of 12 bytes** (`hid_exchange`): large enough for both headers (7 and
  9 bytes), small enough that lengths 0 to 15 end before, on and after the first
  three frame edges of either layout. The code's 64 enters no test but through
  these edges. Two exchanges show what the first leaves for the second.
* **One to three chunks, eleven chain IDs and nil** (`ledger_signer`): a first, a
  middle and a last chunk, and transactions of different lengths, so that a stale
  reply can meet a chunk that is not the last; the chain IDs the library uses and
  two (124 and 300) whose byte wraps. Neither losses nor stale replies are
  bounded. Proved for every number of chunks and every chain ID.
* **Three units of data, three chain IDs, a word of 512** (`trezor_signer`): a
  first message and one or two more, of either length the device may choose;
  `Word` stands for 2^32, and 88, 300 and 513 are a chain ID of one byte, one
  whose byte of V wraps and one that does not fit the word. One lost read is
  enough to leave a reply behind, and after it the properties promise nothing;
  plugging, locking, denying and mistyping are unbounded. Proved for any number
  of calls, any length, any chain IDs and any word of whole bytes.

## 5. Fairness

Fairness is assumed only of what the Go runtime or a deadline guarantees.

* `EthReader`: weak fairness of every goroutine's next step and of the receive
  loop. Go schedules runnable goroutines, and calls to nodes end because their
  contexts expire after four seconds.
* `OneNodeReader`: weak fairness of each call's next step. That a dial ends is
  assumed, not shown: for the HTTP nodes of the library `rpc.Dial` does not connect
  at all, but one that hangs, on another transport, does stop every call of the node.
* `Broadcaster`: weak fairness of the goroutines and of the caller. None of
  the network: the context's deadline is a step of the goroutine.
* `GasPriceCache`: weak fairness of work under the mutex, strong fairness of
  `Lock`, because `sync.Mutex` hands itself to a waiter that has starved for a
  millisecond. None of the HTTP request, which has no time-out:
  `ServedIfRequestsEnd` is an implication with exactly that premise.
* `TxMonitor`, `TxAnalyzer`: weak fairness of time, of the monitor's steps, of
  the receiver and of what it does next. None of the nodes: `MinedIsReturned` has
  as its premise that they finally answer and have the transaction mined. Without
  it nothing is promised: a transaction that was dropped is an error of every read
  (`one_node_reader.go:173`), and `BlockingWait` waits for it for ever.
* `HidExchange`: weak fairness of the host's regular steps and of the device's
  reply; failures and foreign frames need not happen.
* `TrezorSigner`: weak fairness of each call's next step: the device answers, the
  user types something, the mutex is handed over. Nothing makes a fault happen,
  and none of them is a step that changes nothing, so that fairness does not leave
  out a loop of failures. `CallsReturn` says under which conditions on device and
  user a call ends; each was found to be needed (section 7).

`TxInfo`, `Account`, `MultiCall` and `LedgerSigner` state safety only.

## 6. Proofs

Each proof module proves an inductive invariant, with a lemma or step per
action, and derives its theorems from it. The assumptions on the constants are
those named in the modules, and TLC evaluates them in every run.

| module | theorems | inductive invariant, and why it is needed |
|---|---|---|
| `EthReaderProofs` | `TypeCorrect`, `NeverBlocks`, `ErrorComplete`, `ValueSound`, `LoopIsServed`, `ImplementsSafely`; of `MultiCall`: `HooksConsistent`, `DoComplete` | The channel holds each node at most once and only nodes that have ended, so its length is at most their number, and a goroutine about to send is one more: with a buffer for all it never blocks. The loop counter is the number of errors, so a loop that ends without a value has heard all. An outcome that has been sent is in the channel or counted (`KeptOK`), so a loop that still counts has one to come. For `MultiCall` (`MultiInv`): the results before the counter are of this `Do`'s answer, and once the hooks run, all are; those that ran are the first ones, in order. |
| `OneNodeReaderProofs` | `OneConnection`, `UsableHandles`, `AtMostOneDial`, `StaysConnected`, `MutexIsFreed` | The mutex is held exactly by the call in `initConnection`; between its two stores the fields differ, and otherwise they agree; a call that has synchronised never sees nil again. |
| `BroadcasterProofs` | `SentSound`, `FailuresComplete`, `Joined`, `WaitIsServed`, `ImplementsSafely` | The wait group's counter is the number of goroutines that have not left; a client through without a failure has the transaction. For the refinement, that the code's count of failures against its count of clients says whether one was acknowledged. |
| `GasPriceCacheProofs` | `OneAtATime`, `Freshness`, `RateLimited`, `MutexIsFreed` | The mutex is held by whoever is inside; the timestamp is the wall clock's second at the quote; whoever asks has found the price too old. |
| `TxMonitorProofs` | `InfoIsReal`, `InfosAgree`, `VerdictSound`, `ProgramVerdicts`, `ProgramWaits`, `PanicsAreNamed`, `ResultsComplete` | Blocks seen on nodes are in the history, receipts in hand are of such blocks, verdicts match them; for the monitor, that a read never ends with "not found", so that what it sends is a verdict it has read. For the program around it, where the panics come from: the receiver, the explorer, the call or a log (`LogOutcomes`), and from nothing that a failed read leaves nil. A result without an error rests on what decoding a log can come to and on every failure being in the set of errors (`LogsWhole`). |
| `AccountProofs` | `TypeCorrect`, `NonceMineable`, `Reported` | No node and no operation is ahead of the chain; an operation has one report per payment left behind, and each is true. |
| `LedgerSignerProofs` | `TypeCorrect`, `OwnSignatures`, `ChainBound`, `OldAppRefused`, `MutexIsFreed`; of `HidExchange`: `FramesInStep`, `ReadsAreServed` | `Inv`: one call at the device (`Exclusive`); the device holds nothing or exactly the chunks the signing call has sent (`Streaming`); behind the driver's check for a chain the version is never taken for that of a new app when the app is old (`Refusing`); every signature on its way to the host is the device's, over one whole transaction, and nothing is on its way as long as no exchange has left something behind (`Arrived`). For the frames (`UsbInv`): while nothing has failed, an exchange has written a beginning of its request and the wire is empty, or the wire has exactly the rest of the reply and the buffer its beginning, or all is read and nothing is left. After a failure that is lost; what remains (`FlowInv`) is that frames on the wire still form whole replies behind the first, and that what is in the buffer is continued by the head of the wire. |
| `TrezorSignerProofs` | `TypeCorrect`, `OwnSignatureOnly`, `UnlockedOnlyIfGranted`, `WaitsAreServed` | One call at the device; while no reply was lost there is at most one on its way, and it is one for the call that waits (`InboxOK`): it grants only what the device granted, asks for no more than is left, or is the signature over all that this call has sent; what the device has is what the call has sent or nothing (`ChunkOK`, `SignOK`); a call that opens the device does so before anything counts as unlocked (`OpeningOK`). The positions in the result lists are worked out in `Indices`, once for all callers. |

The two `ImplementsSafely` are the refinements: every behaviour of `EthReader` is
one of `FirstAnswer!SafeSpec`, and every one of `Broadcaster` is one of
`AllOutcomes!SafeSpec`. The first is the contract under which `TxInfo` and
`Account` use a read as one step.

Every safety property of a passing run is thereby proved for every value of the
constants. What the proofs assume of these is little: finite sets of nodes,
sentinels that are no members of the sets they stand beside, numbers that are
natural; a frame that holds its headers (`FrameHoldsHeaders`: 64 bytes do), logs
and calls with a number of topics and inputs (`LogsTyped`, `CallsTyped`), a nil chain
ID that is no number (`NilIsNoChain`), and a word of the Trezor that
is a multiple of 128 (`WordIsWhole`: 2^32 is).

Of liveness, what is an invariant is proved: that there is always a step left
which fairness can then be asked to take. `LoopIsServed` says it of the fan-out,
`WaitIsServed` of the broadcast, `ReadsAreServed` of a host that reads frames, also
behind an exchange that broke off, `WaitsAreServed` of a call to the Trezor, and
the three `MutexIsFreed` that a mutex is held only by a call which is where it can
release it, so that no return and no panic leaves it locked. They hold for any
number of nodes, callers and exchanges, where the liveness runs have two or three.

Only model-checked: liveness itself (`NoGoroutineLeft`, `BroadcastReturns`,
`ServedIfRequestsEnd`, `MinedIsReturned`, `ExchangesEnd` and both
`CallsReturn`), and the fairness part of the two refinements. Both need ENABLED,
which the prover does not handle.

## 7. Disagreements between code and comments

* **What `Broadcast`'s bool means** (run `broadcast_bool_doc`).
  `broadcaster/broadcaster.go:17-20` says the bool indicates "that the tx is
  broadcasted to at least 1 node". The code returns whether some client did not
  end in an error (line 78). A reply that is lost or comes after four seconds,
  or a node that already has the transaction by gossip and says so with an
  error, makes it false for a transaction that is out. The other direction
  holds: `SentIsTrue` is proved for every number of nodes. The run's trace has one
  client, whose call times out with the request still on its way; the failure is
  stored, the node then takes the transaction, and `Broadcast` returns false.
* **Old Ledger apps** (run `ledger_old_app`).
  `account/ledgereum/ledger_driver.go:150` says that an app too old for EIP-155
  gives an error "opposed to silently signing in Homestead mode". The check is
  in the driver's `SignTx`; `LedgerSigner.SignTx` (`ledger_signer.go:64`) calls
  `ledgerSign` below it, and on mainnet returns the Homestead signature without
  an error. On a chain above 14 the V of an old app is not that of the chain and an
  error results, but for chain 124 and every 128 from there: the byte wraps, and the
  Homestead signature is returned with the chain's V. `SignedForChain` is about V
  only. `Ledgereum.Sign` behaves as described (`DriverRefusesOld`).

Some things the code does, no line promises otherwise, and the properties name
as exceptions, because without them they do not hold:

* `trezoreum.go:53`: `Unlock`'s loop ends by a success only. A device whose PIN
  dialogue is over after one wrong PIN refuses every further one, an unplugged
  device fails every one, a write or read that fails there fails again and again,
  and a passphrase request is taken for an error: in each case the loop asks for
  PINs for ever, with the signer's mutex held (`CallsReturn`).
* `trezoreum.go:249`: the chain ID is cut to 32 bits for the device and used
  whole in the signer. Beyond them a transaction comes back as signed although
  the device has signed another hash (`OwnSignature`).
* `trezor_driver.go:96`: a failed read leaves the reply on its way, and the next
  exchange takes it for its own (`OwnSignature`).
* `ledger_driver.go:432`, `:439`: a read that fails on a Ledger that is still there
  leaves the reply, or its second frame, for the next exchange. A call may then get
  the signature over the transaction of the call before (`OwnSignature` says only
  that it is of one whole transaction), and the rest of a reply panics at `:458`.
* `ledger_driver.go:159`: a nil chain ID skips the version check, and an old app
  signs (`DriverRefusesOld`, `SignedForChain`).
* `analyzer.go:132`, `:193`, `:274`: a log without topics or with more of them
  than the event has indexed arguments, a `submitTransaction` without exactly
  three inputs, and a contract creation panic (`NoPanic`).
* `analyzer.go:63`, `:207`, `:213`: an input of a function type, and three inputs of
  a `submitTransaction` that are not an address and bytes where a Gnosis wallet has
  them, fail a type assertion (`NoPanic`).
* `explorers.go:64-70`: the Tomo and Mumbai readers have a nil explorer, and a
  contract call analysed with one panics (`NoPanic`), as does asking for its price.
* `analyzer.go:280`: a node that lags behind the contract's creation makes a
  call of it look like a transfer to an account. The model has it, and no
  property is about it.
* `monitor.go:44`, `:89`, `analyzer.go:274` for a transaction that was not found:
  behind `OneNodeReader`s "notfound" and "lost" never come (`DeliveredIsReal`), so
  the nil transaction these lines would dereference never does either, and a
  transaction that was dropped is waited for for ever.

## 8. Hazards

`PROJECT.json` lists the hazards with the properties that cover them. Further
ones, each at its line, which those properties cover too or which belong to
parts still to be modelled:

* `reader/reader.go:131`: the chain may reorganise between the reads of a status
  (`VerdictOfRealBlock`).
* `reader/one_node_reader.go:166`: the second accessor of `TransactionByHash`
  may find another connection, never none (`OneDialPerCall`).
* `broadcaster/broadcaster.go:89`: a broadcaster with no client fails with a nil
  error (`SentIsTrue`).
* `monitor/monitor.go:66`: a caller that stops receiving leaves the monitor
  blocked in its send; `:87`: the map of several transactions.
* `account/account.go:240`: a failed payment leaves a hole in front of the later
  ones, which are reported as sent; `:145`: amount and balance from different
  nodes; `:336`: `gasLimit += extraGas` wraps; `:91`: the list of pending
  nonces from two reads.
* `account/ledgereum/ledger_signer.go:58`: `deviceUnlocked` is never reset: after
  an unplug every later call fails on the dead handle; `:64`: the recovered
  sender is dropped.
* `account/trezoreum/trezor_signer.go:52`: the chain ID given to the constructor
  of the Ropsten signer is 1.
* `txanalyzer/analyzer.go:193`: parameters of another contract's
  `submitTransaction` (`NoPanic`).
* `util.go:67`: amounts keep six decimals.
* `explorers/explorers.go:64`: two constructors return nil (`NoPanic`);
  `reader/legacy_reader_api.go:56`: the BSC testnet reader uses the mainnet
  explorer.

## 9. What is not modelled, and why

* **Address database, units**: in the plan of section 2. The database is a map
  filled once from files and read afterwards; the conversions are floating
  point.
* **Waiting for several transactions**: one goroutine is in `TxAnalyzer`; several
  together, with the wait group and the map, are in the plan.
* **Parts of modelled components**: `GetABIString` (stateless I/O); the getters
  of `Account`, packing of arguments and amounts (data); aliasing of a caller's
  slices (`account.go:375`); `LedgerSigner.Unlock` and `Derive` called directly,
  `Close`, `Heartbeat`, `Status`; `Trezoreum.Init` without `Unlock`'s loop;
  several devices at once; `PromptPINFromStdin` (terminal I/O); how the analyzer
  shows parameters and prints a result (`ParamAsString`, `Print`: layout).
* **Software signers, keys and key files, transaction JSON**: one step of
  cryptography, file or JSON library each, without state. `Account` has signing
  as a step that succeeds or fails.
* **Constructors and embedded ABIs**: constants.
* **Behaviours of modelled components**: a node ahead of the others on a fork that is
  abandoned (`Account`: the chain only grows); a hook of a `MultipleCall` that itself
  calls `Do` on it; the block the transaction object and the header of a status are
  of, when they come from another fork than the receipt.
* **Outside the library**: nodes, explorers and devices are modelled from how the
  code uses them: a node answers or fails, keeps a pool and follows the chain; a
  Ledger has an app, an app version and the chunks it was sent; a Trezor has a
  lock, a dialogue, a pending request and the data it was sent. Their protocols
  are not checked.
* **Wording of errors, logging, number formats**: no property is about them.
