# Holanc, specified

TLA+ specifications of Holanc, a shielded pool with two on-chain
implementations (EVM contracts, Solana programs), off-chain services (relayer,
indexer), SDKs and circuits, with the TLC runs that check them on small
instances and the TLAPS proofs of what holds for every instance. Paths are
relative to the repository; names of modules are files of this directory.

## The system

A *note* is (owner, value, asset, blinding). Its *commitment* is appended as a
leaf when value is deposited or created by a transfer; its *nullifier* is
published when it is spent. A spend is meant to prove, in zero knowledge, that
its two input notes are the spender's, lie under a known Poseidon root and that
value is conserved; the circuits enforce the last of the three (see the
disagreements below).

| Part | State | Operations | Interacts with |
| --- | --- | --- | --- |
| `contracts/evm/src/HolancPool.sol` | next leaf, SHA-256 subtrees and root, Poseidon root and ring buffer of 100, `totalDeposited`, pause flag | `deposit`, `transfer`, `withdraw`, `updateRoot`, `setPaused`, set-up calls | calls token, verifier, registry, bridge; its events feed the indexer |
| `HolancNullifier.sol` | bitmap pages of 2048 bits, totals, epochs | `registerNullifier(V2)`, `isNullifierSpent`, `finalizeEpoch` | called by the pool (the registrar) and by its owner |
| `HolancBridge.sol` | commitment locks, unlock records, outbound messages, foreign epoch roots, peers | lock, unlock, publish, receive, verify | the pool reads its locks; the owner carries messages |
| `HolancVerifier.sol` | a verification key per circuit | `initializeVk`, `verifyProof` | called by pool and compliance |
| `HolancCompliance.sol` | oracles, disclosures, attestations | register, disclose, revoke, submit, invalidate | calls the verifier |
| `programs/*` | the same five parts as Solana accounts | the same, with account constraints | CPI between them |
| `relayer/` | in-memory queue and statuses, fee cache, rate limiter | enqueue, flush, retry, status | clients over HTTP, RPC nodes |
| `indexer/` | notes, checkpoint, replicas (SQLite) | poll, live events, catch-up, ranged reads | RPC nodes, wallets over HTTP |
| `sdk/typescript/` | wallet notes (spent, pending), blinding counter, sync watermark, endpoint health | deposit, transfer, withdraw, sync, export | pool, relayer, indexer |
| `crates/` | wallet of the Rust client, Merkle tree | the same, Merkle append and proofs | CLI, prover |
| `app/` | mnemonic in localStorage, a wallet and a status per mounted hook | the SDK's operations on the active chain, reset, navigation, reload | SDK wallet and prover, browser wallets, both chains |
| `circuits/` | none | transfer, withdraw (2x2 and 4x4), wealth proof | verifier |

What makes it hard:

* *Two trees.* The contract keeps a SHA-256 tree of deposits; proofs use a
  Poseidon root that an off-chain operator computes from the event log and
  submits later. Everything may change between its reads and its transaction.
* *One bit per nullifier.* The registry cuts a digest to 2048 slots of a page
  and the pool uses page 0 only, so nullifiers share bits.
* *Two accounts of the money*: `totalDeposited` and the token balance.
* *Off-chain queues*: overlapping flushes, jitter, retries after answers that
  were lost, an in-memory queue, a scanner with a checkpoint that can crash,
  a wallet that marks notes spent before it submits.
* *Calls that overlap*: the SDK and the application's hooks are `async`
  functions over shared mutable objects (notes, blinding counter, breakers,
  status); each `await` lets another call in.
* *Two chains* that exchange nullifier roots and locks by messages.

Per part, what makes it correct: the pool never accepts a nullifier twice and
its books tell what it owes; the operator's root covers what the contract can
check, every leaf becomes provable; a relayed transaction takes effect at most
once and its status tells whether it did; the indexer and its checkpoint agree
across crashes; the wallet neither loses nor reuses a note; chains hold of each
other what was published, and a lock changes hands nowhere. Where the code gives
less than that, the property names the exception. `PROJECT.json` lists each
hazard at its line.

## Modules

`NoteValues` declares the notes, their values and the sum of values
(`TotalValue`); `NotesAssumption` fixes the sum by its two equations.

`ShieldedLedger` is the abstract specification: live and spent notes, a vault,
and what was claimed without backing. It knows no roots, bits, nullifiers or
leaves.

`Sha256Tree` is the incremental tree of `_insertLeaf` with symbolic hashes: a
hash is the term it is computed from. `Zeros`, the subtrees and the root after
an insertion are recursive *functions*, so proofs can use the module.

`HolancNullifier` is the registry. `RegisterBoth` is the pair of
`registerNullifier` calls of one transaction; `registered` counts the
`NullifierRegistered` events and exists on chain only as events.

`HolancPool` composes the pool with the registry (`INSTANCE`), the tree
(`EXTENDS`), the token (`userBalance`, `vaultBalance`), the bridge's lock table
and the operator. How it corresponds to the code:

* An external call is atomic and a revert undoes it: each is one action, its
  guards are the call's `revert` conditions, including those of the contracts
  it calls. `Consume` is what `transfer()` and `withdraw()` share, from the
  pause check to the last `NewCommitment`.
* `leaves` is the event log; `nextLeafIndex` is its length; a Poseidon root is
  named by the number of leaves it covers, because the operator always hashes
  a prefix of the log. Root 0 is the empty tree and also the `bytes32(0)` of
  unused history entries; nothing is provable against either.
* `ProofVerifies` is what the circuits constrain. Values balance, with the public
  part `paid` = fee, or exit amount plus fee; a nullifier is derived from the
  commitment of the note. Which key it is derived with is free, because nothing
  ties an input's owner to the spending key: `NoteOf` maps many nullifiers to one
  note. Nor does inclusion bind, because path indices are not tied to bits: any
  note can be claimed under any root that was computed.
* `unbacked` is history: the worth of what was claimed without a payment or a
  live note of one's own (a deposit below the commitment's worth, `Claimed` for a
  proof). Money properties say that nothing else is ever missing.
* The contracts' table keys are the words `CommitmentWord(n)` and
  `NullifierWord(nf)`, which differ.
* The operator (external code: only its transaction is in the repository)
  reads `sha256Root`, then replays the leaves, then calls `updateRoot`, each
  in its own step. This is the order in which the comparison is useful: with
  the leaves read first, a deposit made between the two reads would be left out
  of the root and accepted.
* `recentRoots`, `transferFees`, `lastDeposit`'s leaf number and `registered`
  are history that only properties read.

Left out of the data: ciphertexts and their length checks, addresses, time.
Assumed of the environment: public inputs are canonical field elements;
verification keys are installed; the token moves exactly the amount asked; the
deployment script has called `setBridge` and `setRegistrar` before `Init`; the
bridge is active. Nothing is assumed of clients: they deposit any amount for any
commitment and spend whatever a proof is accepted for.

`MCHolancPool` gives the constants small values. `HolancPoolProofs` holds the
theorems, those about the abstract ledger included.

`Relayer` is the relay service: `RelayQueue` (`relayer/src/batcher.ts`) and
`EvmRelayer` (`relayer/src/evm-relayer.ts`).

* Each request is one coroutine; `step[r]` is the `await` it stands at. A step
  between two awaits is one action, because Node runs it without interruption.
  All entries of a flush proceed independently (`Promise.allSettled`) and
  flushes overlap: `setInterval` does not wait for the previous one.
* `batch[r]` names the flush that took the request and `padding` the dummies it
  sent, whose own fate the code ignores.
* `network` and `chain` are external. A node may accept a transaction and lose
  the answer (third disjunct of `SendErrs`); an accepted transaction lands once,
  reverts, expires, or is never heard of again. Which error a failing call
  returns decides between `NoRetry`, `RetryLater` and `GiveUp`.
* `Restart` forgets everything the process holds; what is on the network stays.
* Left out: how delays are drawn (a delay may take any time), sizes and formats
  of requests.

`MCRelayer` has three batched requests, two of which carry the same
transaction and one that cannot be parsed, and an EVM request.
`RelayerProofs` holds its theorems.

`RelayerFront` is what stands before the queues: the rate limiter
(`relayer/src/server.ts` 19-46) and the cache of the priority fee
(`relayer/src/fees.ts`). It shares no variable with `Relayer`.

* The limiter runs first for every route, so a request is a fee request
  (`FeeRequests`) or any other; `ClientOf` gives its address. A count and
  `resetAt` of 0 stand for "no entry". Entries are never deleted in the code
  either: `requestCounts` grows with the addresses seen.
* A fee is named by the moment at which a node took it, a fallback of 0 by the
  moment of its failure; so "how old is the answer" can be asked.
* `Lookup`, `NodeReads` and `Replied` (or `LookupFails`, `TimesOut`) are the
  steps around the `await` of the node, between which other requests come.
  Timers fire on time: `Tick` waits for the ones that are due.
* `Restart` empties the memory, and the history that properties read.

`MCRelayerFront` gives it an instance; `RelayerFrontProofs` holds its theorems.

`HolancBridge` is the bridges of several chains: the contract, or the Solana
program on `SvmChains`, where an epoch root and an unlock record are accounts
that can be created once.

* Nobody checks what a bridge publishes: `PublishEpochRoot` sends any root for
  any epoch, by the owner of an EVM bridge or any signer on Solana, also twice.
  The registry and its `finalizeEpoch` have no part in it.
* What was published can be brought to a peer at any later time, again, and in
  any order (`ReceiveEpochRoot`); neither contract nor program compares epochs.
  The owner of the EVM bridge, and the program's quorum of guardians, are taken
  for what they attest: that the message was published.
* `Under[r]` is the set of words from which a path leads to the root r. A path
  may have any length, so an inner node, and r itself, verify like a leaf.
* `LockCommitment` takes any commitment of anybody: whether it is a leaf, spent
  or neither is not asked. `UnlockCommitment` writes a record that refers to no
  lock, has no effect on one and inserts no leaf.
* `Contradicted` names the one case in which chains may differ: the source
  published two roots for one epoch.

`MCHolancBridge` gives it an instance of two EVM chains and a Solana one;
`HolancBridgeProofs` holds its theorems.

`HolancCompliance` is the register of oracles and the wealth attestations, of
the contract or of the Solana program (`kind`, chosen in `Init`); `MayCreate` is
what Anchor's `init` adds. `Validates` is the success of `validateWealthProof`,
`lastProof` history: the public inputs of the proof that the verifier accepted
last from a prover. What a wealth proof says of the prover is no part of the
model, because the code does not ask: it compares the threshold with the first
public input, which the circuit makes the Merkle root. On the program the
verification key is the caller's choice, so a proof may have no inputs at all,
and `authorities` are those of every configuration, to which anybody may add one
(`InitializeAnother`). `MCHolancCompliance` gives it an instance,
`HolancComplianceProofs` holds its theorems.

`NoteScanner` is the Solana scanner (`indexer/src/scanner.ts`) with the
transaction that commits notes and checkpoint (`indexer/src/store.ts`).

* A signature is the position of its transaction in `history`, which grows at
  any time. One poll is `List`, then one `Fetch`, `SkipFailed` or `FetchFails`
  for each signature, then `Commit`, `NothingToCommit` or `CommitFails`. A
  listing that throws changes nothing.
* `Crash` empties the memory at any of these points; `notes` and `checkpoint`
  are the SQLite file, whose transaction is atomic.
* An event is the sequence of four-byte words that Anchor serializes from the
  structs of `programs/holanc-pool/src/lib.rs`; `ExtractNote` picks from it the
  words that the scanner's offsets point to. A word is a term that says what it
  is part of, so a commitment read at the wrong place is still some term, and
  different for each leaf.
* `unlucky` is history for the properties: signatures that a fetch failed for
  or that a listing cut off.

`NoteScanner` needs no MC module: its constants are numbers.
`NoteScannerProofs` holds its theorems.

`HolancWallet` is the wallet of the TypeScript SDK as operators on a record:
selection, locks, blindings, marks, and what a sync does with an entry. It has
no variables, because two modules use it: `HolancClient` has one wallet,
`HolancApp` one for every mounted hook.

* A note of a wallet is an entry of the sequence `notes`, which only grows; its
  position stands for the JavaScript object that callers hold.
* A commitment is the triple (owner, value, blinding), a blinding the pair
  (key, counter), a nullifier the commitment it belongs to: hashes are
  injective. The fee is part of the amount; there is one asset.
* An entry of a response carries the commitment of its leaf and what its
  ciphertext opens to, which may be another note (`Discovered`): the wallet
  compares neither.
* `Selections` is the set of choices `cryptoRandomIndex` can make, pairs only
  when no single note suffices; it is empty when the code throws.

`FailoverConnection` (`sdk/typescript/src/rpc.ts`) is the list of endpoints with
their breakers. `exec()` is not one action: it computes `Candidates` once, then
each answer (`Answered`, `Failed`) arrives in its own step, and calls share the
breakers. `cooling` counts down to `openUntil`; `Tick` is the clock.

`ReplicatedNoteStore` (`indexer/src/replicated-store.ts`) is the primary, the
replicas with their health flags and the rotation; `NotesAfter` is the SQL of
`getNotesAfter`, whose `>=` includes the watermark's own leaf.

`HolancClient` composes the three with a chain that applies a transaction at any
time after it was sent, or never.

* `step[c]` is the `await` at which call `c` stands. Between two awaits the code
  runs uninterrupted, so that is one action: `Transfer` is `prepareTransfer()` up
  to the recipient's blinding, `PrepareChange` the rest, `SubmitTransfer` and
  `SubmitWithdraw` the client's part from the finished proof to the first send,
  which marks the notes; `BuildFails` is the same with a throw on the way.
* `Send` adds (call, endpoint) to `sent`: each attempt is signed with a new
  blockhash, so that two attempts of a deposit may both land. Of a spend, only
  one can: `Acceptable` is the pool's nullifier check. `Refusal` covers errors,
  timeouts and lost answers; it may come although the transaction has landed.
* `FetchIncomingNotes` sends the watermark; `Fetched` reads one store when the
  response arrives; `Continue` is the loop up to the next entry that needs
  `decryptNote()`. `existing` is the call's own snapshot of the commitments,
  taken when the response arrives.
* `Save` writes a snapshot at any time, also between two awaits; `Restart`
  loads it, forgetting calls and breakers.
* `PayMislabelled` is a leaf of somebody else's whose ciphertext, readable for the
  wallet, opens to a note that is no leaf or to that of an earlier ciphertext;
  `Misopened` collects what such ciphertexts open to.
* `forgotten`, `overlooked`, `syncsMet` are history for the properties: what a
  restart forgot, what a replica lacked when it was taken back, whether two
  syncs were ever under way together.
* Whether a proof verifies is the environment's: `ProofFails` and `Land` may or
  may not come. The inputs that `prover.ts` passes are not those of the
  circuits of the repository (names differ, and the zero note that pads one
  input is in no tree), so acceptance is not derived from them.

`MCHolancClient` gives it an instance; `HolancClientProofs` holds its theorems.

`HolancApp` is a session of the web application: `useHolanc` mounts the Solana
and the EVM hook of every page, each with a wallet of its own.

* The functions of a hook are sequences of awaits (`SolanaDeposit`, ...,
  `EvmStealthScan`), which `todo[c]` counts down; `Program` picks one. What
  happens at an await is one action for all functions: `NoteMade` pushes the
  note, `Signed` sends, `Confirmed` and `Receipt` mark the inputs, `Throws` is
  the `catch` of every function.
* `confirmTransaction()` resolves for a failed transaction too, since nobody
  reads its `err`; ethers' `wait()` rejects. That is the difference between
  `Confirmed` and `Receipt`.
* `Begin` requires a status that the pages' buttons let through; `Reset` is
  called by the tabs of a page whatever is running, so calls can overlap.
* `Navigate` mounts the next page and leaves the coroutines of the last one
  running with its wallets; `Reload` ends them. No function persists a wallet or
  syncs it: every page starts with no notes and a counter at 0. In the shipped
  pages, which call one or two functions each, a transfer, withdrawal or bridge
  transfer therefore never finds a note; the model lets a component call any
  function of the hook it holds, which is what the hook offers.
* `allowance` is the ERC-20 allowance; `_ensureApproval` is two awaits. The
  `approve()` transaction (`approval`) lands on its own (`ApproveExecutes`), also
  when the page that sent it is gone.
* Any transaction may revert (`Reverts`): of the pool the model has the leaves,
  the nullifiers, the locks and the allowance, not the pause, the balance, the
  ciphertext's length, the root or the proof.

`MCHolancApp` gives it an instance; `HolancAppProofs` holds its theorems.

## Runs

| Run | Question | Bounds |
| --- | --- | --- |
| `pool_ledger` | Does any mix of deposits, transfers and withdrawals keep the books but for what was claimed unbacked (`Solvency`, `BooksReconcile`), refuse every second use of a nullifier (`NoDoubleSpend`) and implement the ledger (`ImplementsLedger`)? | Three notes worth 0, 1, 2, one of them with two nullifiers; supply 2; fees 0 and 1; 6 leaves: a note can be deposited for less or more than its worth, merged, split, exited, appended twice, claimed without being a leaf and consumed twice |
| `pool_roots` | With the operator racing clients: what does an accepted root cover (`UpdateCoversDeposits`), how long does it live (`RootWindow`), is every leaf covered in the end (`EveryLeafProvable`)? | Ring of 2, 5 leaves in a tree of 8, 2 notes: the ring wraps, updates revert and are retried; pauses, one epoch, one lock |
| `pool_locked_note` | (violated) Does a lock keep a note from being spent, as `_assertNotBridgeLocked` says? | 6 leaves, one lockable note |
| `pool_shared_slot` | (violated) Does `isNullifierSpent` say whether the nullifier is spent? | 6 leaves |
| `relay_queue` | While flushes overlap, answers get lost and the process restarts: is a reported success true (`ConfirmedSucceeded`), is a final status final (`FinalStays`), is every flush padded (`BatchesPadded`), does every batched request end (`RequestEnds`)? | 4 requests, 3 transactions, batches of 2, 1 retry, 1 restart |
| `relay_front` | However requests and slow, silent or failing nodes interleave: how many requests can pass in a window's time (`BurstBounded`), is a refusal deserved (`RefusalDeserved`), is an answered fee young (`FeeFresh`), are nodes spared (`LookupsSpaced`), does a lookup end (`LookupEnds`)? | 6 requests of 2 addresses, limit 2 in 3 ticks, cache 3, timeout 1, 6 ticks, 1 restart |
| `bridge` | With any roots published and messages late, repeated and out of order: does a chain hold what was published for that epoch, and do chains agree unless the source contradicts itself (`RootsInv`), does what verifies stay verified (`VerifiedStays`)? With anybody locking and unlocking, is a lock one wallet's for good (`LockedOnce`)? | 3 chains, one of them Solana; 2 roots over one leaf, 2 epochs, 2 messages; 1 commitment, 2 wallets, 2 locks or unlock records; 1 call of `setActive` |
| `compliance` | Are at most MAX_ORACLES active (`ActiveWithinLimit`), does what validates agree with the last accepted proof and its duration and, on the contract, stay out of strangers' reach (`AttestationsInv`), does what lapsed stay so (`LapsedStaysLapsed`)? | 3 oracles of at most 2, 2 provers and a stranger, proofs of three public inputs or none, 2 thresholds, 2 durations, 5 block times |
| `indexer_scan` | Wherever a poll is interrupted: do store and checkpoint agree (`CheckpointExact`), does the checkpoint only advance (`CheckpointAdvances`), is every transaction indexed that the node answers for (`Indexed`)? | 5 transactions, listings of 2, 1 failing call, 1 crash |
| `indexer_layout` | (violated) Does a stored note have its ciphertext, as `docs/architecture.md` says? | 4 transactions |
| `sdk_client` | While two calls interleave at every await: is a note in one transaction only (`SelectedOnce`), in the pool, held once and shown to the chain once (`WalletInv`), never offered after it was nullified (`SpentNotOffered`), each but for the named exceptions, locked for a reason (`LocksExplained`)? Are blindings new (`BlindingsDistinct`), does the watermark cover what the wallet has (`WatermarkCovers`), are replicas that are read current (`HealthyReplicasCurrent`), breakers open for a reason (`OpenMeansFailing`), and does every call end (`CallsEnd`)? | 2 calls, any pair of methods but two equal spends; 2 endpoints, 1 failure trips one for 1 tick; 2 replicas, responses of 3 entries; 3 payments, 2 of them synced; 1 incident (a payment, honest or not, a fault or a restart), 1 save |
| `app_session` | Does the stored key settle (`StoredKeySettles`), is a note marked only when it is gone and locked only for a reason (`MarksInv`), is a blinding new on its page (`BlindingsDistinctOnPage`), is a button disabled only while something runs (`BusyMeansRunning`) and enabled again (`ButtonReturns`), does an EVM deposit lack its allowance only because of another (`AllowanceExplained`)? | 2 calls, one of any function; 2 pages; 2 notes of 2 per used wallet, amounts of 3 and 2 |

The three violations are disagreements between code and documentation; each is
a finding of `PROJECT.json` with the line quoted. `WalletInv`, `MarksInv`,
`RootsInv` and `AttestationsInv` are conjunctions of named invariants and of
their module's `TypeOK`; the other modules' `TypeOK` are theorems. Deadlock is
not checked: a pool with no tokens left outside, a relayer whose requests have
ended or whose clock has stopped, a scanner of a chain that has stopped, a
client or a session whose calls were all made, bridges with nothing left to
bring may stop.

Further disagreements met while modelling, which no run is spent on, as a
passing one states what holds instead:

* `docs/architecture.md:143`: the SHA-256 comparison "binds the two trees". It
  covers deposits only (`UpdateCoversDeposits`), as the outputs of `transfer()`
  and `withdraw()` are not in that tree.
* `docs/protocol.md:24`: a tree of depth 20 holds 2^20 notes. The contract stops
  only where the 64-bit leaf number wraps (`HolancPool.sol:194`); beyond 2^20
  leaves `_insertLeaf` starts over at the first place, so that an old SHA-256
  root could come back. `PoolUpdateCoversDeposits` says that the leaves fit.
* `docs/protocol.md:169`: batches have a minimum size. Entries that cannot be
  parsed are counted by the padding (`BatchesPadded`) and not sent.
* `docs/threat-model.md:148`: a missed event is found by "Re-scan from last
  confirmed checkpoint". What a failed fetch or a cut listing left out lies
  below the checkpoint (`CheckpointExact`, the set `unlucky`).
* `relayer/src/server.ts:16`: "sliding window". The window is fixed and up to
  twice the limit passes around its end (`BurstBounded`).
* `docs/protocol.md:38`: "given a spending key and commitment, there is exactly
  one valid nullifier. This prevents double-spending"; `docs/protocol.md:123`
  lists `owner_i == Poseidon(spending_key)` as the ownership proof. The circuits
  do not have that constraint (`transfer.circom` 56-88, `withdraw.circom`
  51-76), so a commitment has a nullifier for every key, and the registry
  refuses only the second use of each (`NoDoubleSpend`).
* `docs/protocol.md:121` and `docs/threat-model.md:112`: a note "exists in the
  Merkle tree". `path_indices` are not tied to 0 and 1 (`common.circom` 64-91),
  so the path equation can be solved for a leaf that is not there. What both
  come to is `unbacked` in `Solvency` and `BooksReconcile`: the vault may fall
  short of the unspent notes by that much.
* `HolancNullifier.sol:218`: "The Merkle root of all nullifiers in this epoch".
  The owner gives any root to `finalizeEpoch`, as to `publishEpochRoot`; nothing
  compares the two, and nullifiers that are registered after the owner's
  computation are in no root. The count recorded with it (line 223) is the total
  since deployment, while `HolancBridge.sol:187` calls it the number in this
  epoch.
* `programs/holanc-bridge/src/lib.rs:57`: publishing is "Called after
  `holanc_nullifier::finalize_epoch`". Any signer may publish any root for any
  epoch (accounts 475-496). `HolancBridge.sol:342` and lib.rs:208 speak of a
  nullifier; a path of any length is accepted, so an inner node verifies too.
* `programs/holanc-bridge/src/lib.rs:302`: unlocking "Receives a Wormhole VAA
  proving the commitment was locked on the source chain, then inserts it into the
  local pool's Merkle tree". Any signer may record it, with any hash, and no leaf
  is inserted; the contract's record is tied to no lock either. Where a note can
  be spent is therefore not for the bridges to say (see also `pool_locked_note`).
* `HolancBridge.sol:328`: "True if locked and not yet unlocked". Nothing sets
  `isUnlocked`, so a commitment that returns to a chain it had left stays locked
  there (`LockedOnce`).
* `HolancCompliance.sol:304` and `programs/holanc-compliance/src/lib.rs:183`:
  "First public input must encode the threshold". In
  `circuits/wealth_proof/wealth_proof.circom` the first is the Merkle root, then
  come threshold and owner commitment, which nobody reads; a proof without public
  inputs skips the comparison, and the program takes the caller's verification
  key (lib.rs 450-452) and, to invalidate, any configuration (lib.rs 461-468).
  `AttestationsInv` says what is left.
* `sdk/typescript/src/wallet.ts:385-401`: the note that a ciphertext opens to is
  never compared with the leaf or with the wallet's notes, so that one ciphertext
  may add a copy, or a note that is no leaf (`HeldOnce`, `PhantomsAreDeposits`,
  `Misopened`).
* `HolancCompliance.sol:89`: "Number of registered oracles". An oracle that is
  registered again is counted again; the active ones stay within the limit
  (`ActiveWithinLimit`).

A bound is enough when the interesting case happens under it: the ring wraps
with 2 entries and 3 updates, a shared bit needs 2 nullifiers, a claim without
backing one note with 2 nullifiers or one that is no leaf, a rejected update
needs one deposit between two steps of the operator. The proofs remove the
bounds from all the invariants of `pool_ledger` and from its refinement. In the
relayer, two flushes of at most three requests overlap, one of them odd; a
retry can meet its own earlier attempt or the other request's. In the scanner,
a listing of 2 is cut off by the third signature, and one failure and one crash
each fall before, inside and after a poll.

In `sdk_client`, an amount of 3 is covered by one note of 3 once it is synced
and by the pair of 2 and 2 before: selections of one and of two notes, with
change and without, compete with a sync that adds the note of 3. A response of 3
entries ends with the leaf that an incident adds, whose ciphertext may repeat
that of the first, synced and perhaps spent, or of the third, which the same
response holds (`Replayed`); one that starts at the watermark sees the synced
leaf again. Two calls suffice for every property: each relates two calls, or one
call and the environment; three would only repeat pairs, and the theorems hold
for any number. An incident is a payment from outside, a fault of a replica (a
failing insert, a failing read, an incomplete resync, a restart of the indexer)
or a restart of the program; `InitReplicas` lets one replica have missed an
insert before the run starts, so a resync can go wrong with a single incident.
Bounds without counterpart in the code: each call is made once, the wallet is
saved once and only while a restart may follow, and the indexer changes only
while a sync may still read it (`ToBeRead`): afterwards no state of the client
depends on it.

In `relay_front`, five requests of one address and one of another allow a
refusal at the limit of 2 and a burst of two at the end of a window and two
after it; three fee requests let a slow lookup be
overtaken by one that starts and ends after it, and a third meet the cache that
it left. In `bridge`, two messages may be of one epoch and one
root, contradict each other, or be of two epochs, from one chain or two; two
chains of either kind receive them in both orders, and one again after the other.
Two locks or records let a second wallet, a second chain, or a record after a lock
try. `Symmetric` permutes the roots and the wallets, which the constants do not
tell apart. In `compliance`, five block times let an attestation of either duration
expire and be renewed.

In `app_session`, two pages suffice for a change of page or a reload, two calls
for an overlap, a first visit races the two hooks' initializations and, after an
early change of page, four. A used page has two notes of 2 per wallet: an amount
of 3 takes both, with change, and one of 2 takes one, without. Deposits of 3 and 2
set and use up each other's allowance; the smaller one's approval can undo the
larger one's.

Fairness of the relayer: `WF_vars(Flush)`, because the interval timer fires
again and again, and `WF_vars(Proceed(r))` for batched requests, because
timers fire and each RPC call of the batcher returns, throws or times out
(`confirmTransaction` gives up when the blockhash expires). The receipt of an
EVM transaction is awaited without a timeout, so nothing is assumed or claimed
of EVM requests. Fairness of the scanner: `WF_vars(Scan)`, since `start()` polls
until it is stopped, and restarts of the process are part of `Scan`. Failures
and crashes are bounded: a node that fails for ever indexes nothing.

Fairness of the relayer's front: `WF_vars(Tick)` and `WF_vars(TimesOut(r))`: time
goes on and a timer that is due fires. Nothing is assumed of nodes.

Fairness of the client: `WF_vars(Proceed(c))`. Proofs are computed or fail,
`fetch` and RPC calls return or throw, and `sendAndConfirmTransaction` gives up
when the blockhash expires; nothing is assumed of the chain, the indexer or the
clock. Fairness of the application: the same for the awaits of its functions
(the user answers the wallet's prompt, `confirmTransaction` has a timeout), but
`Throws` is not enabled at the receipt of an EVM transaction that was never
executed, as `wait()` has no timeout: `ButtonReturns` is claimed of the Solana
hook only.

Fairness of the pool: `WF_vars(Operator)` in `FairSpec`. The operator is a service that
runs until it is stopped; nothing is assumed of clients or of the owner. As the
number of leaves is bounded, deposits cannot starve the operator for ever in a
behaviour of the model; on chain they could, so `EveryLeafProvable` holds for
traffic that pauses at times, not for an endless stream of deposits that each
make an update revert.

## Proofs

All for every set of notes and values, any nullifiers of each, every assignment of
nullifiers to bits, every
supply, history size and tree depth, from `NotesAssumption`, `TreeAssumption`
and `PoolAssumption`.

* `PoolTypes`, `PoolNoDoubleSpend`: from the inductive invariant `PoolInv`.
  `NoDoubleSpend` alone is not inductive: nothing in it says that a registered
  nullifier's bit is set. `RegisteredIsMarked` adds that; then a bit that is
  clear shows that the nullifier has never been registered. `FeesAccounted`
  rides along for the books.
* `PoolImplementsLedger`: the refinement maps the appended notes of which no
  nullifier is registered to the live notes, those with one to the spent, and
  `unbacked` to itself. `DepositMints` and `ConsumeSpends` show the two visible
  steps, the rest stutters; `ClaimedIsWorth` and `ClaimsBooked` are what a pair of
  nullifiers claims beyond the live notes behind it.
* `LedgerBacked`: the ledger's vault covers its live notes but for what was claimed
  unbacked, by induction over its steps with lemmas on sums.
* `PoolSolvent`, `PoolBooksReconcile`: the ledger's argument, repeated under
  the refinement mapping, and `FeesAccounted`.

For every set of requests, retries and batch size (`RelayerAssumption`):

* `RelayTypes`, `RelayConfirmedSucceeded`, from the inductive invariant
  `RelayInv`: `StatusOf` ties the status to where the coroutine stands and
  bounds the attempts, `QueueHoldsUntaken` says that a queued entry belongs to
  no flush. `RelayFinalStays` follows step by step: only a request's own
  coroutine changes its status, and that has ended.
* `RelayBatchesPadded`: `QueueHoldsUntaken` shows that a flush's entries are
  exactly the queue; `PaddingFills` is the arithmetic.

For every number of requests, addresses, limit, window, cache duration and
timeout (`FrontAssumption`):

* `FrontTypes`; `FrontFeeFresh` and `FrontLookupsSpaced` from `FeeInv`:
  `LookupInv` bounds how late a lookup can end, `CacheInv` ties the stamp to the
  fee it belongs to and to the finished lookups.
* `FrontBurstBounded` and `FrontRefusalDeserved` from `RateInv`, which adds
  `WindowInv`: accepted requests of an address are in windows of the code's, and
  at most the limit in each; an interval of a window's length meets at most
  two. Cardinalities of unions are the library's.

For every listing limit and length of history (`ScannerAssumption`):

* `ScannerTypes`, `ScannerCheckpointExact`, from `ScanInv`. `CheckpointExact`
  speaks of the store only; `PollInv` adds that a poll in progress started from
  the store's checkpoint and holds, up to the signature it stands at, what the
  store is missing, so that a commit may move the checkpoint there.
* `ScannerCheckpointAdvances`: the signature a commit writes is newer than the
  checkpoint, by `PollInv`.

For every history size and tree depth (`HolancPoolProofs`):

* `PoolRootWindow`: from `RingInv`, which adds to `PoolInv` what the contract's
  ring holds at every place (`RingHolds`, modular arithmetic on the index) and
  that roots never cover less than an earlier one did (`RootsCoverLeaves`).
* `PoolUpdateCoversDeposits`: a SHA-256 root tells after which deposit it was
  the contract's (`RootTellsDeposit`), and `OperatorReadRoot` says that the root
  the operator has read belongs to a deposit that its leaves will cover. Two
  paths with one root agree from the top down, level by level, as a path never
  meets the chain of empty subtrees (`RootDeterminesIndex`, `PathIsNotEmpty`).
  The theorem assumes what the runs' instances satisfy: every leaf has a place
  of its own (`LeavesFit`), and neither a note nor `bytes32(0)` is a hash
  (`HashesAreFresh`, which is collision resistance).

Where a proof needs induction, it argues by a least element: the library's
well-founded order of the numbers gives `LeastNumber` (in the client
`LeastElement` of a finite ordered set), and a set of numbers takes the place
of the predicate that its induction theorems have for a parameter. So the
recursive functions of `Sha256Tree` are shown to satisfy their equations, and
`Candidates`, `NotesAfter` and `FirstToDecrypt` to choose something that exists.

For every number of calls, endpoints, replicas and incidents
(`ClientAssumption`, `FailoverAssumption`, `StoreAssumption`):

* `ClientSelectedOnce`, from `CoinInv`: positions that a call holds stay inside
  the wallet and stay locked or spent, so that `Selections` cannot return
  them. A restart breaks the second part, which is why it also says that the
  calls of the life before hold nothing any more.
* `ClientBlindingsDistinct`, from `BlindInv`: the blinding of every output has a
  number below the counter, or was forgotten; a new one is at the counter.
* `ClientLocksExplained`, from `LockInv`, which ties the commitments a call
  shows to the notes at the positions it holds: so marking what the pool took
  clears the locks of that call and of no other. A failed proof's locks stay: the
  property names them.
* `ClientHealthyReplicasCurrent` and `ClientOpenMeansFailing` are inductive as
  they stand, with the types of the variables they speak of.
* `ClientWallet`, `ClientSpentNotOffered` and `ClientWatermarkCovers`, all from
  `WholeInv`, as each needs the others. `Sound` holds of the wallet and of its
  file: blindings are a sender's or below the counter; a note is there once
  unless two syncs met or it is `Misopened`; a note is on the chain, `Misopened` or
  the output of a deposit that has not ended well; payments below the watermark are there (`Reached`).
  `SyncInv` says the same of what a sync is about to do: its `Snapshot` of the
  wallet is still true unless another sync ran, and of the entries of its
  `Response` every payment before one is in the wallet, overlooked or an entry
  before it, so that the watermark may move to each as it is decrypted.
  `AwaitedInv` keeps the blinding that a deposit waits for out of the wallet,
  which keeps its note apart from those that syncs add; `ShownInv` keeps the
  notes that were shown locked or spent; `LandedInv` says that a deposit is not
  done before its leaf is on the chain. `TypedInv` collects the types, with
  `CoinInv`, what the log's leaves are and that the indexer has a part of them.

For every number of pages and calls (`AppAssumption`):

* `AppStoredKeySettles`, from `PageInv` (hooks that load belong to mounted
  pages, and a page that found a key found the stored one) and `StoredInv`.
* `AppBusyMeansRunning`, from `BusyInv`.
* `AppAllowanceExplained`, from `AllowanceInv`: a deposit that found enough or was
  granted its amount is covered by the allowance, or another deposit used it up
  or had less approved. `CallInv` gives
  what every step needs, that the awaits a call has left are a tail of those of
  its function (`Underway`), so that it passes them once and in order.
* `AppMarks`, from `MarkInv`: a mark or a lock has a call behind it, and the
  notes of a transaction that went through are on the chain. `HoldInv` says that
  a call works on a wallet that is there and that what it holds are positions
  and commitments of the same notes, whatever reloads leave behind.
* `AppBlindingsDistinctOnPage`, from `BlindInv`: blindings of outputs are among
  those that the wallet's counter has given out.

For every set of chains of either kind, of roots and the words under them, of
commitments and wallets (`BridgeAssumption`):

* `BridgeTypes`, and `BridgeRoots` from `HeldWasPublished`, which is inductive with
  the types: messages are only added. `PeersAgree` follows from it, as two roots
  of an epoch were then both published.
* `BridgeVerifiedStays`, step by step: only `ReceiveEpochRoot` touches a root, and
  the root that it replaces and the one that it brings were both published.
* `BridgeLockedOnce` from an invariant that ties each lock's record to the one
  event that announced it; it is inductive because a lock is never given back.

For every set of oracles, provers and other callers, of public inputs, thresholds
and durations (`ComplianceAssumption`):

* `ComplianceActiveWithinLimit`, from `ActiveCounted`: the counter is at least
  the number of active oracles, whatever is registered again.
* `ComplianceAttestations` and `ComplianceLapsedStaysLapsed`, from
  `AttestationsHold`: an attestation says what its prover's last accepted proof
  said, so only a new proof moves its expiry; on the contract the only authority
  is the owner.

Model-checked only: `RequestEnds`, `Indexed`, `EveryLeafProvable`, `CallsEnd`,
`LookupEnds` and `ButtonReturns`. They are liveness properties, whose proofs
need `ENABLED`, which these provers do not reason about.

## Plan

Modelled, in this order: the pool with its registry and ledger; the relayer;
the Solana scanner; the SDK's wallet and client with failover and replicated
store; the application's hooks; the relayer's front; the bridges; compliance.
Every invariant and every action property that a run checks is proved. What is
left, by what it would add:

1. **Abstract specification** of the scanner (a log that is copied), with the
   refinement that the invariants above already contain step by step.
2. **Solana pool**: the ledger as abstract specification, with page accounts,
   `has_one` authorities and checked arithmetic.
3. **Verifier keys and disclosures**: keys installed once, viewing keys that are
   disclosed and revoked.
4. **Merkle tree** (`holanc-tree`) against a reference definition; the lemmas
   about `Sha256Tree` are a start.

Where a new part asks its questions with the vocabulary of an existing run, the
properties go to that run; a run of its own is for a new state machine.

## Not modelled

* Vendored code (`contracts/evm/lib/openzeppelin-contracts`, its generator
  scripts included): of it the project uses the ERC-20 calls, which are part of
  the pool's actions.
* Pairings, field arithmetic, Poseidon and encryption (cryptographic
  assumptions); gas; the deployment scripts (straight-line).
* HTTP routing, the sampling of delays and the EVM fee estimate of the relayer,
  the CLI, and what the application's pages show: no protocol state of their
  own.
* The EVM scanner. `indexer/src/server.ts` starts it when `EVM_RPC_URL` and
  `HOLANC_POOL_ADDRESS` are set, but the signatures it subscribes to
  (`NewCommitment(bytes32,uint64,bytes)`, `DepositEvent(address,bytes32,uint64,uint256)`
  at `evm-scanner.ts:40`) are not those of the events that `HolancPool.sol`
  declares (lines 90-100), so no log matches and no handler runs.
* The indexer as one process with replicas: `server.ts` passes the replicated
  store to the scanners behind a cast, but the store has no
  `insertNotesAtomic`, `getLastEvmBlock` and `setLastEvmBlock`. The store is modelled by the
  methods it has, whose inserts come one by one.
* `unlockNotes` of the wallet, `reset` and `primary` of the connection: no call
  of the client or of the hooks uses them. The transaction history: written
  and shown only. `docs/protocol.md:18` calls the blinding random; the code
  derives it from a counter, which is what the model has.
* Encoders and formats: public signals are decimal strings that the client
  decodes as hexadecimal (`client.ts:239`), so what the programs would make of
  an instruction is left to the environment.
* Of the hooks: stealth scans find nothing on either chain (the Solana program
  logs no ephemeral keys; the EVM scan takes a leaf index for a block number
  and compares a stealth address with the note's commitment), so they are reads; a stealth payment's note goes into the sender's
  own wallet, as modelled; `useEvmHolanc.ts` mixes ethers versions, which may
  make a deposit throw after its receipt - `Throws` covers that - and its
  `initAdapter` may install an older signer last.
* `setTrustedPeer` of the bridge (nothing reads the table), guardian signatures,
  disclosures of viewing keys (records that nothing on chain reads), the Solana
  pool, nullifier and verifier programs, the Rust crates: see the components of
  `PROJECT.json`.
* The SDK's `bridge.ts` and `compliance.ts`: they encode instructions with
  discriminators that are not those of the programs, so no call is dispatched.
