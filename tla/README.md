# Renegade darkpool contracts: a TLA+ verification

This directory models the contracts of the Renegade darkpool in TLA+, with the
tools that deploy them, the client that tests them against a node and the
conversions between the two; it checks the models with TLC on small instances and
proves the main results with TLAPS for every value of the constants.  The contracts
are under `src/` of the repository, the rest beside it: `abi/`, `codegen/`,
`integration/`, `script/`, `tools/`.

## 1. Inventory

A darkpool keeps *wallets* as commitments in a Merkle tree.  A user or relayer
spends a wallet by revealing its nullifier together with a zero-knowledge proof
that the wallet is in the tree and that a new wallet follows from it by an
allowed update; the contract checks the proof, records the nullifier, inserts
the new commitment and moves the ERC-20 tokens that back the change.  Every
call is one transaction: it either runs to the end or reverts, leaving nothing.

| Component | State | Operations | Interacts with | Correct when |
|---|---|---|---|---|
| v1 `Darkpool` | Merkle tree, `nullifierSet`, `publicBlinderSet`, fee rate, overrides, fee key, pause flag; the ERC-20s it holds | `createWallet`, `updateWallet`, three match settlements, `settleOfflineFee`, `redeemFee`, owner setters | calls the verifier and the storage libraries, `delegatecall`s `TransferExecutor` | it can always pay what unspent wallets and notes entitle to; nothing is spent twice; fees are at the rate in force |
| `WalletOperations` | none of its own | rotate a wallet, spend a note, apply a match to shares | the sets and the tree of `Darkpool` | a rotation nullifies exactly one committed wallet and publishes one with a new blinder |
| `ExternalTransfers`, `TransferExecutor` | token balances | one transfer, or the batch of four of an atomic match | ERC-20s, Permit2, WETH | the contract's balance moves by exactly what was accounted for |
| `TypesLib`, `FixedPoint`, v1 types | none | match legs, bounds of malleable matches, fees | `Darkpool`, `GasSponsor` | no choice within the bounds overdraws the internal party |
| `NullifierSet` | set of spent field elements | `isSpent`, `spend` | used twice, for nullifiers and blinders | `spend` succeeds once per element |
| `MerkleTree` | `nextIndex`, `root`, `siblingPath`, `rootHistory` | `initialize`, `insertLeaf` | v1 `Darkpool`, `MerkleMountain` | the root is the root of the leaves, the path is what the next insertion needs |
| `MerkleMountain` | one active tree per depth, all roots, without their depths | `insertLeaf` | `DarkpoolState` (v2) | a full tree is replaced, its roots stay known, and no root passes for another's |
| `GasSponsor` | used nonces, ETH and tokens for refunds | sponsored settlement, refunds | `Darkpool`, ERC-20s | a sponsorship is used once; the user is never worse off |
| connectors | allowances, solver whitelist | a malleable match from an input amount; UniswapX callback | `GasSponsor`, the reactor | leaves no tokens or allowances behind |
| v2 `DarkpoolV2`, `DarkpoolState`, `TransferLib` | mountain of trees, nullifiers, signature nonces, remaining amounts of open intents | deposit, withdraw, pay fees, settle a match of two bundles | settlement libraries, verifier | every leaf replaces a nullified version or is authorized; no intent is filled beyond its amount; nothing unproved stays |
| v2 settlement libraries | a context of transfers and proofs of one transaction | validate and execute four kinds of bundles | `DarkpoolState` | both parties' bundles agree on one obligation |
| Poseidon2 hasher | stack and memory of a call | `merkleHash`, `spongeHash`, in Huff | the trees, `WalletOperations` | it computes the reference hash, on reduced and unreduced words |
| public inputs, verification keys, `codegen` | none | serialize statements, look up generated keys | `Verifier`, the prover | both sides put the same value in the same place under the same key |
| ABI conversions (`abi/`) | none | the relayer's types to the contract's structs | client, contracts | nothing is changed on the way |
| integration harness (`integration/`) | its wallets and their Merkle openings | the tests, as programs of requests to a node | node, contracts, deployments file | tests end, fail for a reason, and pass only if what they did took effect |
| deployment scripts and tools (`script/`, `tools/`) | `deployments.json`, key files, the account's nonce | eight subcommands, each a forge script that is simulated, then broadcast | the chain, the operator | what is on file is deployed and wired; no key is lost |
| PLONK verifier, transcript, ECDSA | none | verification of proofs and signatures | all of the above | outside what TLA+ checks |

What is hard here:

* *Order of legal calls.*  There is no concurrency inside a transaction, but
  transactions of users, relayers, external parties and the owner interleave
  freely; a proof made against one state settles in a later one.  The fee rate,
  the fee key, the root, the nullifier sets and the pause flag may all have
  moved on.
* *Two rotations in one transaction.*  `processMatchSettle` rotates two wallets
  in a row, the second against the state the first one left.
* *One set, several meanings.*  Wallet and note nullifiers share one set;
  blinders use the same library with another one.
* *Native currency.*  ETH, WETH and the placeholder address are three views of
  one asset, with fee overrides under either address.
* *Amounts picked after the proof.*  In a malleable match the sender picks base
  and quote inside a proved range; only floor-rounded products tie them to it.
* *Incremental data structures.*  The Merkle tree keeps only a sibling path, and
  the mountain replaces trees in place.
* *Requests in between.*  The client reads a rate, logs and receipts one after the
  other, while others transact; it waits for receipts without looking at most.
* *Files written ahead.*  The deployments file names contracts before they are
  sent, and a run may be killed anywhere; the next one builds on what it left.
* *A hand-written stack.*  The hasher shuffles its state among what else is on the
  stack, with four jumps that must all find it in the same place.

`PROJECT.json` lists each hazard at its line with the properties that cover it.

## 2. Plan

In order of importance:

1. `Darkpool`: the v1 contract with its wallets, notes, matches and fees, an
   abstract `DarkpoolLedger` that it implements, and the proofs of its
   invariants.  **Done.**
2. `MerkleTreeLib` and `MerkleMountain`: the incremental tree against the root of a
   complete tree.  **Done**; the single tree of v1 is checked where clients read it
   (item 6).
3. `ExternalTransfers`: the transfers of a transaction move by move, with tokens
   that call back; it justifies that `Darkpool` takes a handler as one step.
   **Done.**
4. `GasSponsor`: sponsored settlements, nonces, refunds in ETH or in the bought
   token, over an abstract darkpool, and `MalleableMatchConnector` in front of it,
   with the connector's proofs.  **Done.**
5. `SettlementContext` and `DarkpoolV2`: obligations, open public intents, nonces,
   nullifiers, the four kinds of bundles, transfers and proofs in the order of the
   code.  **Done.**  An abstract specification of public intents was planned; what it
   would promise (an authorization is filled at most up to its amount) is stated and
   proved as the invariant `FilledWithinAuthorizations` instead.
6. `AbiTypes`, `PublicInputs`, `VerificationKeys`, `DarkpoolChain` and
   `IntegrationClient`: what is proved, converted, submitted, verified and read back,
   with liveness.  **Done.**
7. `DeployScripts` and `Deploy`: deployment with interruptions, with its proofs and
   liveness.  **Done.**
8. `PoseidonUtils` and `PoseidonHasher`: the Huff code of the hash.  **Done.**
9. Proofs: that `Darkpool` implements `DarkpoolLedger` and that fees are at the rate
   in force; the invariants and action properties of `DarkpoolV2`,
   `ExternalTransfers`, `GasSponsor` with its connector and `Deploy`;
   that `MerkleMountain` implements `LeafLogs`; and what the hasher returns.  **Done**
   (section 5).  The client's properties stay with TLC.

The UniswapX executor was considered and left out; section 6 says why.

## 3. Modules

### Darkpool

Source: `darkpool/v1/contracts/Darkpool.sol` with `WalletOperations`,
`TypesLib`, `FixedPoint`, `NullifierSet` and, as far as a handler uses them, the
Merkle tree and the transfers.

| Variable | Code |
|---|---|
| `pool.leaves`, `pool.rootHistory` | `merkleTree` (`nextIndex`, `root`, `rootHistory`), through `MerkleTreeLib` below |
| `pool.nullifierSet`, `pool.publicBlinderSet` | the two `NullifierSet`s |
| `custody` | the contract's balance of each ERC-20 |
| `poolEth` | the contract's ETH |
| `protocolFeeRate`, `perTokenFeeOverrides`, `protocolFeeKey`, `paused` | the storage of the same names |

There is one operator per handler, named as in the code (`createWallet`,
`updateWallet`, `processMatchSettle`, ...), and one action per handler that
chooses its inputs (`CreateWallet`, ...).  A handler is a transaction: its guard
is the conjunction of everything it checks and a failed check is a step not
taken.  `Rotate` and `CanRotate` are `rotateWalletWithCommitment`, in the code's
order: nullifier, blinder, root, insertion.

What is abstracted, and why it may be:

* A commitment binds what it opens to, so a leaf *is* its wallet or note; a root
  binds the leaves below it, so a root *is* their sequence.  `IntegrationClient`
  shows the second for the tree in the code (it implements `LeafLog`).
* A nullifier is a function of its element, injective and with values that are
  no commitments: the record `[nullifies |-> e]`.
* A proof is accepted exactly when the prover's witness satisfies the statement.
  The conditions a circuit imposes (a wallet can pay what it sends, balances
  move by the external transfer, a fee note is worth the fee) stand in the
  handler's operator; they are named as external in `PROJECT.json`.  A prover may
  use any tree of its own: `Forged` holds elements it makes up, and only the
  contract's root check keeps them out.
* An element is under every root since its insertion; as they all lead to the
  same step the oldest stands for them.  Public blinders differ only by
  identity, so fresh ones are taken in order.
* `processMatchSettle` may take as its second wallet the one that the first
  rotation has just created; the code does not forbid it and the ledger below
  shows that nothing is gained by it.
* The owner's setters of the fee recipient, the verifier and the transfer
  executor are left out: they change who is paid and which code runs.  The two
  `...WithCommitments` handlers are internal and nothing calls them.

`DarkpoolLedger` is what the contract promises without any of this machinery:
elements are issued and spent at most once each, and custody moves by the exact
difference of what is issued and spent.  `Darkpool!ImplementsLedger` is that
specification under the mapping *leaves are issued, nullified are spent*.

`RunningTotals` has the sum that `Solvent` needs, as a recursive function.

### FixedPoint, TypesLib

The pure arithmetic of v1 matches under the code's names: truncated products and
quotients over `Precision`, the legs of a match as the external party sees them,
the range that a malleable match leaves open, fees.  `Darkpool` and
`MalleableMatchConnector` extend `TypesLib`; `SettlementContext` extends
`FixedPoint`.

### MerkleTreeLib, MerkleMountain

`MerkleTreeLib` has the functions of `libraries/merkle/MerkleTree.sol` on a tree
value with the events they emit, the walk up a path of the Huff hasher, and the
constants of `MerkleZeros` as `codegen/merkle-zeros` makes them.  The hash of two
nodes is a constant, free of collisions: the pair of the nodes (`HashPair`), or a
pairing of numbers where nodes have to be numbers.  `DarkpoolChain` keeps v1's single
tree; `MerkleMountain` is the v2 contract's map of active trees and one set of
roots, depth 0 included, which `isInitialized` never takes for initialized.
`LeafLog` and `LeafLogs` are the abstract append-only logs.  A root is read back as
the one sequence of leaves of that depth whose complete tree has it.  `Nodes` builds
that tree level by level, each level a function on its own places, so that what it
computes has a proof (section 5).

The contract keeps the roots of all depths in one mapping and v2's leaves are outputs of
the tree's own hash, so a leaf may well be a node of another tree.  `Alike` of
`MerkleMountain` says when two logs, of any depths, then have one root: the leaves of
the lower tree are the roots of the subtrees of the taller one.  `LeafLogs` takes
`Alike` as a parameter: a log becomes known together with those that it cannot be told
from, and nothing else does.  In `MCMerkleMountain` one leaf is the root of a tree of
the other, so that this happens.

### PoseidonUtils, PoseidonHasher

`PoseidonUtils` has each macro of `poseidonUtils.huff` as the sequence of
instructions that it stands for, what an instruction does to stack and memory, and
the permutation as `codegen/poseidon-constants` writes it out round by round.
`PoseidonHasher` is a call of the contract, an action from each label to the next
jump (`hashLoop`, `loopStart`, `lastInput`, ...) and, within the permutation, an
action per macro, so that what a macro leaves below the state can be checked.
The reference is the sponge and the permutation on sequences of field elements.
The field, the number of rounds and their constants are parameters of the model;
words reach beyond the field, as they do in the code.  `HasherAssumption` says of them
that words are below `WORD` and so are the addresses of a call's data: in the code
they are far below 2^256.

### ExternalTransfers

The batch of an atomic match and the transfer of a wallet update, one move at a
time: `Begin` reads the balance, `Move` transfers, `Finish` compares.  A stack of
frames models calls made while a transfer has handed control to someone: the
payee of ETH, or either side of a token with hooks.  `books.owed` stands for the
tree: what unspent wallets and notes entitle to, changed when the handler
rotates the wallet, before its transfers.  `Revert` takes the whole transaction
back; an inner call whose failure is caught is the same as no call.
A token either charges for transfers or calls hooks here, not both: one that
does both can let a surplus of an inner call stand in for what an outer transfer
lacked, in that token alone; nothing is claimed about it.

### GasSponsor

`storage` is the contract's: `authAddress`, `usedNonces`, its balances, and its
allowances to the darkpool.  `SponsorMatch` is a sponsored settlement up to the
payment of the receiver (signature, nonce, custody, the darkpool's part),
`RefundGasCost` the rest; when the match pays in native currency the receiver
may call again in between.  The darkpool is external: it takes exactly the sell
leg, within the allowance, or the call reverts.  `last` holds what a call has
just reported and what its receiver got.  The contract inherits a pause that none of its functions
enters, so the skipped refund while paused cannot happen.

### MalleableMatchConnector

Extends `GasSponsor` with the connector in front of it: `holdings` are the
connector's tokens and what the sponsor may take of them.
`executeMalleableAtomicMatchWithInput` works out both amounts, takes the caller's
tokens, checks the amounts as the sponsor and the darkpool do, and goes on as a
sponsored match (`CanExecute` has the checks of all three contracts); the rest of `ConnectorNext` are the sponsor's own actions, so that
direct calls and calls through the connector nest in each other.  The external
party's fees are left out: the buy leg is what the darkpool pays.

### SettlementContext, DarkpoolV2

`SettlementContext` has what one settlement works on, as operators: obligations
and their compatibility, what an intent admits, how many transfers and proofs are
allocated for a pair of bundle types, and the order in which they are dealt with.

`DarkpoolV2` composes it with the contract's state.  A settlement runs here in
the steps of `settleMatch`, because the order matters: both bundles write state and
push transfers before anything is proved.

| Variable | Code |
|---|---|
| `state.openPublicIntents`, `.spentNonces`, `.nullifiers` | `DarkpoolState` |
| `state.leaves` | its `merkleMountainRange`, as the number of leaves inserted for each intent, balance and balance's notes |
| `state.custody` | the contract's balance of each ERC-20 |
| `tx` | the running `settleMatch`: how far it is, the two bundle types, the obligations, the `SettlementContext`, the transfers still to do |
| `before` | what a revert goes back to |
| `history` | no code: signatures accepted, what each permit was filled with and paid, how often a balance was opened, what was updated with a proof that does not verify |

| Action | Code |
|---|---|
| `SettleMatch` | `settleMatch` up to `validateObligationBundle` |
| `PublicIntent` | `NativeSettledPublicIntentLib.execute` |
| `NativePrivateFirstFill`, `NativePrivateFill` | `NativeSettledPrivateIntentLib`, with and without `isFirstFill` |
| `RenegadeFirstFill`, `RenegadeFill` | `RenegadeSettledPrivateIntentLib` and `RenegadeSettledPrivateFillLib`, likewise |
| `ExecuteTransfer` | one round of the loops of `executeTransfers` |
| `VerifySettlementProofs` | `verifySettlementProofs`, which ends the transaction |
| `Revert` | any failure on the way |
| `deposit`, `depositNewBalance`, `withdraw`, `payFees` | the functions of these names, each in one step: nothing is read before a call and used after it |

What is abstracted, and why it may be:

* A state element is a record that says which intent or balance it is and in which
  version; its commitment and its nullifier are the element.  What amounts it hides
  only the circuits see.
* *Nothing ties an element to the tree.*  The statements carry no Merkle root, no
  handler calls `rootInHistory`, and the keys are `dummyVkey`s.  So a bundle and a
  balance handler may name any element of `Named`: one of the tree, one that is not in
  it yet, or one that was never in any.  All that the contract itself refuses is a
  nullifier or a nonce for the second time.  As the tree is only written to,
  `state.leaves` counts leaves per *lineage* (`Lineage`, all versions of one intent or
  balance), and inserting a leaf twice makes two.
* The verifier is external.  It finds each proof valid or not (`Verdicts`), as the
  proof's maker and the keys would have it, and what it finds comes out only when
  `verifySettlementProofs` asks, after all bundles and transfers.  Its judgement of a
  proof says nothing of the tree; of a valid proof it is only assumed that the new leaf
  is a version of the element nullified, or the first of the intent signed, since the
  record of the one follows from that of the other.  `history.unproved` are the
  lineages that a bundle with an invalid proof has touched.
* The lists of proofs go to the verifier as they were allocated, with an entry never
  filled when two private fills share a settlement proof (section 4).
  `EmptyProofVerifies` says what the verifier makes of that entry.  The runs have it
  accept, as the tests' verifier does, which is the case in which such a pair settles at all;
  the proofs hold for both.
* A signature is a member of `Signatures`: who signed what with which nonce.  The
  flag `isFirstFill` is the caller's and chosen to fit the action.
* Native currency, direct deposits and calls made from inside a transfer are left
  out; `ExternalTransfers` has them, with the same balance check.
* Which intents, balances and nonces are tried is a matter of the constants; the
  bundle types may be any pair.

### AbiTypes, PublicInputs, VerificationKeys

`AbiTypes` has the conversions of `abi/src/lib.rs`: numbers go through strings of
bytes, to a small base, as they do there, padding and panics included.
`PublicInputs` has the order in which the contract serializes a statement and the
order in which the circuit takes its inputs; a proof is what circuit and inputs
determine, and is accepted under the key of the circuit for the same inputs.
`VerificationKeys` follows a key from the circuit through the generated library to
the slot in which `VKeys` returns it.  None of them has state: `DarkpoolChain` and
`IntegrationClient` use them, and a wrong place or key makes an honest proof fail.

### DarkpoolChain, IntegrationClient

`DarkpoolChain` has four handlers of the contract on encoded transactions, as a
function of the contract's state, so that a node can execute, estimate or
simulate one.  `IntegrationClient` is the harness: a test is a program of requests,
one action per request, and between any two of them blocks may be mined.

| Variable | Code |
|---|---|
| `chain`, `darkpool`, `pending` | the node: a block per transaction with its status and logs; the contract's state; what has been sent and not mined |
| `wallets` | the test's wallets: version, opening (`merkle.rs`) |
| `test`, `outcome` | the running test of `integration/src/tests`, its program counter and locals; how it ended |
| `file` | the entries of `deployments.json` that are there |

| Action | Code |
|---|---|
| `TestArgs`, `read_deployment` | `main.rs`, `deployments.rs` |
| `Build` | the client's part between two requests: statements, proofs, conversions |
| `send_tx`, `wait_for_tx_success`, `call_helper` | `transactions.rs`; sending fails if the estimate of gas reverts |
| `get_block_number`, `find_commitment`, `fetch_merkle_opening` | the requests of `fetch_merkle_opening` in `merkle.rs` |
| `Mine` | the node mines what is pending, against the state of then |
| `OtherWallet`, `OtherMatch`, `setProtocolFeeRate`, `setTokenExternalMatchFeeRate` | other users and the owner |

### DeployScripts, Deploy

`DeployScripts` has each forge script as the sequence of its steps in
`DeployUtils.sol`: a contract is created, an entry is written.  `Deploy` has the
tools that run them, on one machine and with one account, for any subcommand.

| Variable | Code |
|---|---|
| `chain` | the account's transactions, by nonce, with the contracts they refer to |
| `deployments` | `deployments.json`: the transaction each entry is the address of |
| `keyFile`, `newest` | the two key files; `newest` numbers the keys generated for each |
| `tool`, `args`, `report` | the running subcommand and its prompts; its arguments; how the last run ended |
| `forge` | the forge process: script, simulated steps, transactions collected and sent, exit code |
| `torn` | no code: the entries written by a run that did not get through |

A run obtains its arguments (`TakeArgument`, `Ask`, the prompts), generates and
saves a key in two steps (`File::create` empties the file, `write_all` fills it),
and starts forge, which simulates the script (`SimulateCreate`, `SimulateWrite`:
addresses are predicted from the nonce, entries written at once) and then sends
what it collected (`Broadcast`, refused when the nonce was used in between).  Any
of it may be killed, fail or revert, and the account may be used elsewhere.

## 4. Runs

| Run | Instance | Shows |
|---|---|---|
| `darkpool_match` | six blinders, seven leaves, two fee keys, fee rates of a quarter on amounts of four, a charging mint, a forged wallet | `TypeOK`, `Solvent`, `BlinderIdentifiesWallet`, `SpentWasCommitted`, `ImplementsLedger` and `MatchesLeaveNoEth` through internal and atomic matches, fee notes and redemption |
| `darkpool_malleable` | two fee rates, an override for native currency but not for its wrapper, prices 1/2 and 3/2, amounts of one and two | no admitted pair of amounts overdraws a wallet (`NoWalletOverdrawn`); `FeesAtRateInForce` while the owner changes rates between proof and settlement |
| `merkle_mountain` | depths 0 to 2, seven insertions of two leaves, one of which is the hash of the other with itself | a tree is replaced before it overflows (`NeverOverfull`); replaced trees stay provable, and nothing else is, but for trees whose leaves are another's subtree roots (`ImplementsLogs`) |
| `transfers` | native currency, a token with hooks, one that charges; two nested calls | `ExactAtRest`, `CoveredInCallbacks` |
| `sponsor` | two keys, two nonces, four grants, a direct match and three offers through the connector (native currency sold, bought, neither; prices 1/2 and 3/2) for inputs inside and outside their ranges, two nested calls | cost, allowances, nothing left in the connector, no input refused for rounding |
| `sponsor_reported` | violation, two keys, four grants, three direct matches | more is reported than the receiver gets (finding below) |
| `v2_settle` | two opposite public intents and a private one, a charging token, an amount beyond Permit2's range, two settlements of public intents | fills, open amounts and signatures agree to the unit, the price holds up to rounding, custody moves by the obligations or not at all, each payment is funded by the other party |
| `v2_state` | one private intent, two balances, four signatures of which two share a nonce, the first version of each balance and two of the intent named at any time, every proof valid or not | every leaf has an origin of its own (`EveryLeafHasAnOrigin`), nothing unproved remains (`KeptMeansProved`), the lists are long enough (`CapacitySuffices`) |
| `v2_signed` | violation, as `v2_state` | an intent nobody signed gets into the tree (finding below) |
| `deploy` | two runs of any of the eight subcommands, a foreign transaction in each state where one can matter, one transaction that fails by itself | `EntriesDeployed`, `WiredToDeployed`, `KeysKept`, `UpgradesForward`, and every run ends (`RunsEnd`) |
| `client` | every integration test with both sides of its orders, a tree of eight leaves, two transactions of others, windows of four blocks | conversions, statements and keys fit (`FailuresExplained`), openings authenticate, the tree implements `LeafLog` with the right path at every index, passing means applied, every test ends |
| `poseidon` | the field of seven elements and words up to 1024, four full and three partial rounds, unreduced inputs; paths of up to two siblings at every index, one to five inputs of the sponge | the returned words are those of the reference (`ReturnsReference`), no macro disturbs what is below the state (`StateIsOnTop`) |

Bounds, and why they are enough:

* *Blinders* bound how many wallets are ever made.  A wallet of value needs two
  (create, deposit); a match of two funded wallets, a fee note out of one of them
  and its redemption are seven leaves and six blinders, the size of
  `darkpool_match`.  Spending twice takes two.
* *`TreeCapacity`* is seven in `darkpool_match`, so that six wallets and a note fill
  the tree; in `client` a test's wallets and others' leaves fill a tree of eight.
* *`Precision`* (2^63 in the code) is two or four, so that fees and quotes round
  down on the amounts used, and rates are those fractions.
* *`MaxCustody`*, *`MaxOwed`*, *`MaxFunds`*, *`MaxEth`* bound tokens in existence;
  *`MaxDepth`* the nesting of calls: two are enough for one call inside another,
  and a third would meet only the same checks; *`MaxInsertions`* lets the tree of
  depth 1 be replaced three times and that of depth 2 once.
* *`Overridable`* limits which mints the owner sets a rate for, where rates are
  not the question.
* *`Signatures`* of `DarkpoolV2` bound how much is settled.  In `v2_settle` the
  executor has four nonces, so two settlements of two public fills and any number
  of others: enough to fill an intent, at once or in two parts, and to open it
  again.  Every executor nonce comes with every obligation, and owners' nonces
  overlap, so that only the contract keeps them apart.
* *`Named`*, in `v2_state`, has the first version of two balances and two versions of an
  intent, so that the intent can be updated, its update updated again, in one settlement
  or in two, and a version named before the one it would follow.  Each can be nullified
  once, each nonce spent once: with a limit on deposits (*`MaxCustody`*) that bounds the
  run, and nothing else does.  *`AllowanceSize`* (2^160 in the code) is four, an amount that
  obligations reach.

* *`MaxRuns`* of `Deploy`: the properties compare what a run leaves with what the next
  one does, and two runs meet in every pair of subcommands, the first stopped
  anywhere.  The proofs have no such bound.
* *`Window`* of `IntegrationClient` (1000 blocks in the code) is short enough for an
  insertion to fall out of it; *`MaxOther`* lets the tree fill up, or a rate change
  come between any two requests, or both.
* `AbiTypes` in `client`: words of three bytes to the base 1024, a modulus below
  them, addresses shorter than words, so that padding matters.
* `PoseidonHasher`: the code does the same in every round of a kind, so a few of each
  meet every macro; five inputs go through the sponge's loop twice and end at an odd
  length.  The proofs have no such bounds.

`CHECK_DEADLOCK FALSE` is given where a bound really stops the system (blinders
and leaves used up, the tree full, the insertions made, all signatures used and
all named elements nullified, the runs made) or where it has ended (a test, a
call of the hasher).

Fairness.  For the contracts none is assumed and no liveness is claimed: nothing in
them runs by itself, every step is somebody's transaction, and the code gives
nobody a reason to make one.  `Deploy` has weak fairness of `Program`, since a
process that can go on does, and of `Answer`, an operator who in the end gives a good
answer to a prompt, which loops until there is one; nothing has to be started and no
failure has to happen, and runs still end (`RunsEnd`).  `IntegrationClient` has weak
fairness of `Harness`, for the same reason, and of `Mine`, without which no receipt
comes: a node mines a transaction that it accepted.  Others may stop at any time, or
keep the chain busy as far as the bound goes (`TestsEnd`).

### Findings

* `RenegadeSettledPrivateIntent.sol:190` and `NativeSettledPrivateIntent.sol:189` rest
  a later fill, for which nobody signs, on "the presence of the intent in the Merkle
  tree".  No statement carries a root and no handler looks one up, so a later fill of an
  intent that was never in the tree inserts its update like any other (`v2_signed`).
  What does hold is `EveryLeafHasAnOrigin`.
* `GasSponsor.sol:578` counts a refund in the bought currency as received whoever got
  it, while :74, :172 and :235 document the amount as what the external party
  received: with the refund going elsewhere more is reported than the receiver gets
  (`sponsor_reported`).

Observed while modelling, without a run of their own:

* `Darkpool.settleOfflineFee` is payable and never looks at the value it is sent (:828),
  so the contract can come to hold ETH that no function pays out, while
  `ExternalTransfers.sol:227` has it that the darkpool only ever holds the wrapped asset.
  The matches leave none (`MatchesLeaveNoEth`).
* `SettlementBundleLib.getNumProofs` counts two proofs for a private fill, which
  pushes one, the settlement proof being shared: two private fills send three proofs
  and an empty entry to the verifier.  The lists are never too short
  (`CapacitySuffices`).
* `run_command` takes exit code 1 of forge for a warning (`tool-utils/src/lib.rs:15`),
  so a run whose broadcast failed prints "completed successfully"
  (`deploy/src/main.rs:271`), `ReportedIsDeployed` in `Deploy` being false.  A zero
  address as owner gets there too: the proxy's constructor reverts in simulation,
  after entries have been written.
* The protocol fee rate on the command line is not range-checked, as the prompt's is,
  and the README's `deploy.sh --rpc-url ... --pkey ...` lacks the subcommand.
* `send_tx` does not look at the status of a receipt, so a test can pass although a
  transaction reverted when it was mined (the escapes of `PassedMeansApplied`); the
  atomic test reads `protocolFeeRate()` while the contract looks at the rate of the
  match's base mint (`RateDiffers`).
* The last fetches of both match tests look up the commitment from before the match.
  After `processMatchSettle` or `settleOfflineFee` the receipt holds the nodes of two
  insertions, on which `size_vec` would panic; the match test only simulates its
  match, so it does not come to that.
* `bytes_to_u256` pads on the right, although its doc comment says that it handles
  padding; every caller passes full words.
* `poseidonHasher.huff:15` documents the root at the start of what `merkleHash`
  returns; the leaf comes first and the root last, as `MerkleTree.sol` expects.
* `poseidonPerm.huff` says that it is generated, but differs from what the generator
  writes (`#define fn` for `#define macro`, another header).

## 5. Proofs

Every theorem here is for all values of the constants that the named assumptions
allow, of any size, and for behaviours of any length: the bounds that keep TLC's
instances small (`MaxCustody`, `MaxDepth`, `MaxRuns`, ...) stay
arbitrary.  Each property named in a table is one that a run of section 4 checks,
`TypeOK` of `Deploy` excepted.

### Darkpool_proofs

From `ConstantsAssumption` and `PrecisionAssumption`, for all sets of tokens, keys,
blinders, rates, prices, amounts and forged elements and whatever the tree's
capacity:

| Theorem | Property |
|---|---|
| `TypeCorrect` | `TypeOK` |
| `AlwaysSolvent` | `Solvent` |
| `BlindersAreUnique` | `BlinderIdentifiesWallet` |
| `OnlyCommittedIsSpent` | `SpentWasCommitted` |
| `NeverOverdrawn` | `NoWalletOverdrawn` |
| `ChargedAtRateInForce` | `FeesAtRateInForce` |
| `MatchEthIsWrapped` | `MatchesLeaveNoEth` |
| `RefinesLedger` | `ImplementsLedger` |

The assumption says of the code's constants that amounts are positive, that the
wrapper is a mint which delivers in full, and that a relayer's and the
protocol's rate together are at most one (the circuits bound the relayer's rate,
the owner the protocol's).

`Solvent` is not inductive: a step that spends a wallet keeps it only if the
wallet was in the tree, unspent, and the new one is worth no more than custody
moved by.  The inductive invariant is `IInv == TypeOK /\ PoolOK(pool) /\ Solvent`,
where `PoolOK` adds that every root in the history is of a prefix of committed
leaves (so what is opened under it is a leaf), that the blinder of every wallet
is marked (so a fresh one makes a new leaf different from all others), that
blinders identify wallets (so nullifying one leaf takes away exactly one
entitlement), that what is nullified was committed, and that no leaf holds a
negative amount (so nullifying never lowers the sum too little).

The argument has three layers.  `RunningTotals_proofs`: what appending and
zeroing a position does to a sum.  Then one lemma for each operator on the pool
(`SpendOK`, `MarkBlinderOK`, `InsertLeafOK`, `RotateOK`) and on elements
(`ApplyMatchOK`, `UpdatedOK`, `FeePaidOK`): it preserves `PoolOK`, and the sum
moves by at most so much.  Last, one lemma per action, where the bookkeeping of
the handler meets the movement of custody; `FeesWithinAmount` and
`CapitalizedCovers` are the rounding arguments of the match arithmetic.

Each of these last lemmas proves three things of its action, together `StepOK`:
`IInv'`, a step of the ledger, and `ChargesRateInForce`.  The refinement needs
equalities where solvency needed inequalities: a handler issues and spends exactly
so many elements (`Trades`, `Traded`), none issued before (that is what the marked
blinders and the notes' identities are for), and the difference in worth is what
custody moves by, per token.  In `processMatchSettle` the second wallet may be the one
that the first rotation has just made; then it is issued and spent in one step and
counts on neither side.

### RunningTotals_proofs

`RunningTotal` is a recursive function over positions, whose value for given summands
is unique (`TotalsUnique`), which the lemmas on appending, raising and falling use.
`SumFunctionOnSet` of the community modules takes the members of a set out one by one,
in an order of its own; `SumIsTotal` finds the sequence that it follows, and from there
come the lemmas that the other modules cite: a member added (`SumAdd`, `SumInsert`),
one summand changed (`SumChange`), the same sum for the same summands (`SumSame`).

The module has the rest of the arithmetic that several proofs need as well: induction
up to a bound (`UpTo`, from the least number at which a claim fails), powers of two,
whose doubling comes from counting subsets (`PowerDoubles`), the indices that they
divide (`Halves`), and quotients that are rounded down.

### MalleableMatchConnector_proofs

From `SponsorAssumption`, `ConnectorAssumption` and `PrecisionAssumption`, of
`ConnectorSpec`, in which calls of the sponsor and of the connector nest in each
other to any depth:

| Theorem | Property |
|---|---|
| `SponsorTypeCorrect` | `TypeOK` (of `GasSponsor`) |
| `NothingKept` | `ConnectorKeepsNothing` |
| `InputsAdmitted` | `InputsInRangeAreAdmitted` |
| `SponsorApprovesNoMore` | `NoAllowanceLeft` |
| `CostIsSigned` | `CostsSignedRefunds` |

The invariant is `IInv == Untouched /\ SponsorInv`: the connector is empty and every
frame of a nested call names an account as its receiver, which holds because the
connector resolves `address(0)` itself; the sponsor's storage is typed, nothing is
approved in it nor in what a revert goes back to.  What is paid in
for a leg covers what the sponsor and then the darkpool take for it
(`PassesThrough`, `HoldingCovers`); for `InputsAdmitted` there is the arithmetic
besides: dividing by a price and multiplying again never gains
(`QuotientCostsAtMost`), and products are monotone (`FixedPointMulMonotone`).

`CostsSignedRefunds` compares the ends of a transaction, and the calls in between
pay in an order of their own: an outer call uses up its nonce before the inner call
and pays after it.  `Accounted` in the invariant is what holds in the middle: there is
an assignment of signed grants to the nonces used up since the transaction began, one
for each, of which some are already paid and the others belong to the frames that are
open, and the sponsor's balances differ from those at the start by the refunds paid
and by what the open frames have brought in.  When a call returns, its grant moves
from one to the other; when no frame is left, this is the property.

### ExternalTransfers_proofs

From `TransferAssumption`, for any depth of nesting and all tokens, those that
charge and those that call back:

| Theorem | Property |
|---|---|
| `BooksCloseAtRest` | `ExactAtRest` |
| `CallbacksAreCovered` | `CoveredInCallbacks` |

Neither is inductive: in the middle of a transaction custody and what is owed
differ.  The invariant says by how much.  `BooksInv`: what is owed of a token is
custody and, over all frames of the stack, what the transfers of the frame have yet to
bring of it; the ETH held is the value that frames have yet to wrap.  A frame that has
moved a deposit of a token that charges lacks what the token kept, so it can only be
stopped by the comparison; that this catches it is `ExpectedInv`: between reading the
balance and comparing it nothing but the move can have changed it, because such a token
calls nobody (`StackInv`: a frame below the top is one that has handed control over).
For the other tokens the comparison may well see an inner call's movements: it can
only stop what was exact.  From these, nothing is lacking when the stack is empty; and
a frame without a pending deposit lacks at most nothing, withdrawals being what is
left of it.  That no token both charges and calls back is part of `TransferAssumption`
and needed (section 3).

### DarkpoolV2_proofs

From `V2Assumption`, which types the constants (finitely many permits, obligations
with natural amounts, what is named has the form of an element) and says nothing about
who signs what or what is in the tree, and from `ContextAssumption` and
`PrecisionAssumption`:

| Theorem | Property |
|---|---|
| `V2TypeCorrect` | `TypeOK` |
| `FillsAreAuthorized` | `FilledWithinAuthorizations` |
| `ExecutorsSigned` | `ExecutorsSignedEveryFill` |
| `PaidAtPrice` | `PaidAtPriceUpToRounding` |
| `LeavesHaveOrigins` | `EveryLeafHasAnOrigin` |
| `KeptIsProved` | `KeptMeansProved` |
| `ListsHaveRoom` | `CapacitySuffices` |
| `DepositsComeFirst` | `DepositsFundWithdrawals` |
| `MovesWhatWasAgreed` | `SettlementMovesCustody` |

The invariants, one for each part of the state, each kept for `state` and for
`before`, to which a revert goes back:

* `TypeInv`.  `TypeOK` says nothing of the running settlement; its context, its
  transfers and what it goes back to have types of their own.
* `OriginInv`.  For each intent there are as many leaves as versions nullified and
  signatures accepted that open it, for each balance as many as versions nullified and
  deposits that opened it, and at most as many notes as versions nullified.  It holds in
  the middle of a settlement as well, since nullifiers and leaves come together; it rests
  on every nonce serving one signature (from `FillInv`, of all signatures alike), which
  makes the one behind a first fill a new member of what is counted, and on a set of
  nullifiers that refuses a member, so that nullifying both elements of a later fill adds
  two.  Nothing is assumed of what is named.
* `ProofInv`.  Before the proofs are verified a settlement may leave anything in the
  state; then, however, a proof that does not verify is in its list.  The list only
  grows (`Continues`), `verifySettlementProofs` lets the transaction end only
  if all of it verifies, and a revert goes back to a state with nothing unproved.  The
  settlement proof of two private fills was pushed before either bundle and counts for
  both.
* `FillInv`.  For each permit, filled and open amount together are the amount times the
  number of accepted signatures; what an executor's permits were filled with is the
  sum of the obligations it signed; each fill adds at most `Precision - 1` to what
  rounding has lost.  That accepted signatures have different nonces makes each a new
  member of the set that is counted.
* `ContextInv` and `CustodyInv`.  What is in the lists of a settlement follows from the
  two bundle types and from how many parties have been through: so many transfers and
  proofs, and which obligation each transfer comes from.  In the second phase the
  transfers left are the tail of all of them, and custody is what it was before and
  what the others have moved.  With compatible obligations the first withdrawal is
  covered by the second deposit, and the second by the first.

### Deploy_proofs

From no assumption at all, for every number of runs, failures and foreign
transactions:

| Theorem | Property |
|---|---|
| `TypesCorrect` | `TypeOK` |
| `EntriesAreDeployed` | `EntriesDeployed` |
| `ContractsAreWired` | `WiredToDeployed` |
| `KeysAreKept` | `KeysKept` |
| `UpgradesGoForward` | `UpgradesForward` |

That an entry names a deployed contract is not inductive: it becomes true only with
the last transaction, long after the entry was written.  The invariant
`IInv == TypeOK /\ ForgeInv /\ EntriesDeployed /\ WiredToDeployed` says what holds in
between: where forge is in its script agrees with the transactions collected so far
(`Control`, `Collected`), these name earlier transactions of the right kind at their
predicted places (`Wired`), the entries written are theirs and, until the end, `torn`
(`Written`), and what is on the chain from the first nonce on is what was collected,
or failed (`SentInOrder`).  It rests on facts of the scripts (`ScriptsOrdered`: what a
step refers to was created before it), proved script by script.  `KeyInv` follows a
key from the generator to the file, to the arguments, to the transaction that names
it (`NoKeyYet`, `KeyToSave`, `KeySaved`, `ForgeKey`, `KeyedTransactions`), with the
older contents of the files (`KeyFilesOld`): when a key reaches the chain it had been
saved, and only a newer one replaces it.

`UpgradesForward` compares the entry of an implementation with what the proxy's
constructor was given, two lines of the file that different runs may have written.
`UpgradeInv` adds that a run creates each kind of contract once and from its script
(`Once`, `Sourced`), that whatever refers to a contract comes after it (`UsesEarlier`,
`ChainUsesEarlier`), and that before a broadcast only others add to the chain
(`OnlyOthers`), so that a new entry is later than everything on it.  What makes it
true of the scripts is `ScriptsListProxies`: a script that creates a proxy writes the
entries of the proxy and of its implementation.

### MerkleMountain_proofs

From `MountainAssumption` and `MerkleAssumption`, for every set of depths and any
number of insertions:

| Theorem | Property |
|---|---|
| `TreesAreReplacedInTime` | `NeverOverfull` |
| `RangeImplementsLogs` | `ImplementsLogs`, if there are `NoCollisions` |

`NoCollisions` says that the hash is injective, and nothing of leaves: they may be
hashes.  It is a hypothesis of the theorem and not an assumption on the constant because
it quantifies over everything, which TLC cannot evaluate; the pairs that the run uses
for hashes satisfy it (`PairsDoNotCollide`).

The invariant `IInv` says of every tree in storage that it was never used, or is
`TreeOf` a non-empty log: it has the depth it is filed under, counts the leaves,
has the root of their complete tree, and, unless it is full, keeps the siblings of
the path of the next leaf.  `NeverOverfull` needs of it the count alone.  The steps of
the argument:

* `isFull` reads the depth of the tree and `isInitialized` takes depth 0 for unused, so
  a depth-0 tree is started anew with every leaf, as it has one place
  (`ActiveTreeHasRoom`, `NewTree`).
* The place above a node is half of its place (`PlacesHalve`, `PlacesOfNext`); a new
  leaf changes only the nodes above it (`OtherNodes`), and beyond the last leaf nodes
  are those of an empty tree (`EmptyNodes`).
* So hashing a leaf with the siblings kept gives the nodes above it, up to the new root
  (`HashesAreNodes`), and what the code keeps of these hashes, of the siblings and of
  the zero values are the siblings of the leaf after it (`NextPathIsPath`).
* Without collisions a root gives the nodes below it, as far down as the lower of two
  trees reaches (`RootGivesNodes`), and those nodes give the root (`NodesGiveRoot`): two
  trees have one root exactly if they are `Alike` (`SameRoot`), and of the same depth only
  if they have the same leaves (`RootDetermines`).  From there the refinement: an
  insertion makes one log longer, and known become that log and those of other depths
  that are alike, no other (`InsertIsOfLogs`, `KnownGrows`).

There is no induction over data, but heights are bounded: `UpTo` takes the least height
at which a claim fails.  With it the recursive functions are shown to have values
(`ZerosExist`, `LevelsExist`, `HashesExist`) before anything is said of them.

### PoseidonHasher_proofs

From `PoseidonAssumption` and `HasherAssumption`, for every modulus, all numbers of
rounds, all round constants, and paths and inputs of any length whose call data have
addresses:

| Theorem | Property |
|---|---|
| `ReturnsTheReference` | `ReturnsReference` |
| `StateStaysOnTop` | `StateIsOnTop` |

Nothing is assumed of the modulus but that it is positive: that the code computes the
reference does not depend on the field, only that the reference is a permutation does.
The proof runs the code symbolically, in four layers:

* *Instructions.*  A stack is `Cons(a, Cons(b, ... s))`, its first words known and the
  rest any sequence.  For each instruction that the macros use, a lemma says what
  machine it makes of one (`ExecPush`, `ExecDup4`, `ExecSwap3`, `ExecAddmod`, ...).
  `Run` is shown to have a value (`RunsExist`) and to run code after code
  (`RunConcat`, `RunCons`); a macro is then a chain of steps of two or three
  instructions (`RunSBOX`, `RunSpreadInternal`, `RunAbsorbNextTwo`, ...).
* *Rounds.*  What a macro leaves is sums and products modulo `PRIME`, in the order of the
  code.  `LayersAre` and `FifthIs` turn these into the rows of the reference's matrices
  and the fifth power, for words that may not be reduced.  With the places of the
  macros in the generated code (`GeneratedCode`) this is `RoundRuns`: the k-th macro
  takes the three words at the top to `Round(k, ...)` of them and keeps what is below.
* *Calls.*  `MerkleInv` and `SpongeInv` say of a call with given arguments what stands
  at every position of the stack at every label.  Of `merkleHash`, after j levels: how
  many siblings are left, where the next one and the next result are, the hash at height
  j, the index shifted j times, and that the hashes up to height j are in memory.
  Of `spongeHash`: how much is left, where the next input is, and, below the permutation,
  which inputs its state has absorbed.  An odd number of inputs leaves the loop by
  another jump than an even one (`Finishing`); the one argument covers both.  Addresses
  and counters never reach `WORD` (`AddIs`, `SubIs`), which is where the assumption
  is needed.
* *Results.*  The memory returned is the array of the hashes (`ReturnsHashes`), and
  the reference, which reads the arguments back from the call's data, is of the same
  (`MerkleExpected`, `SpongeExpected`).

`StateIsOnTop` follows from the same invariant, which says that there are three words
of the field and a sequence below them whenever the permutation runs (`InPermutation`).

### Only model-checked

* The client's `ImplementsLog`, `PathIsOfNextLeaf`, `OpeningsAuthenticate`,
  `FailuresExplained` and `PassedMeansApplied`.  The lemmas on trees above apply to the
  tree of `DarkpoolChain` too.  What is missing is an invariant of the client and the
  chain together: that a log found in a block is the one of the client's own
  commitment, and that every conversion and proof of the client's is accepted, which
  also needs what flattening and sorting the logs computes, for lists of any length.
* `RunsEnd` and `TestsEnd`: liveness under fairness is beyond the prover.

### What the properties leave out

* `FeesAtRateInForce` reads the rate off the wallet, where native currency and its
  wrapper are one mint: it does not tell a rate looked up under the one from a rate
  looked up under the other.
* `EntriesDeployed` and `WiredToDeployed` say nothing of entries written by a run that
  did not get through (`torn`): they may name contracts that do not exist, and nothing
  takes them back.
* `KeysKept` allows a newer key to take the place of one in use: `File::create` empties
  the file with the only copy (`main.rs:558`) before the new key is written.
* `PassedMeansApplied` excuses a test whose transaction reverted for a changed rate or a
  full tree.
* Of v2 nothing is claimed that needs the tree to be looked at, as long as no statement
  carries a root.

## 6. Not modelled

* *The UniswapX executor* (`DarkpoolUniswapExecutor.sol`).  Its callback runs only
  inside a call of the reactor (external, and guarded against reentry); an execution is one
  transaction that relays a prepared call, and the executor keeps no books.  What
  could go wrong depends on the reactor's orders, which are not in the repository.
  From the code alone: the callback approves the executor's whole balance of the input
  token to the darkpool and forwards its whole ETH balance (:192), approves only the
  first output's amount to the reactor (:208), and there is neither `receive()` nor a
  function to withdraw, so native proceeds are refused and what a match yields beyond
  the first output stays.
* *The cryptography*: the PLONK verifier, the transcript, proof linking as algebra,
  and ECDSA are arithmetic over 254-bit fields.  Proofs and signatures stand for what
  they prove and sign.  That Poseidon2 has no collisions is assumed; that the Huff code
  computes it is checked over a small field and proved for every one.
* *Serialization* of the statements of fees, malleable matches and matches with
  commitments, which no client in the repository proves, and all of v2, whose verifier
  and keys are placeholders at this commit.
* *The packing of wallets* into shares, and of keys and ciphertexts into field
  elements, happens in circuits outside the repository.
* *v1's setters* of the fee recipient, the verifier and the transfer executor, and the
  two `...WithCommitments` handlers that nothing calls.
* *v2's fee parameters*, which are set once and which no operation consults; it
  inherits a pause that none of its functions enters.  Direct deposits, which no
  contract calls, and the wrapping of native currency, which `ExternalTransfers` has.
* *Proxies* after their construction, which is part of `Deploy`; interfaces; the
  contracts' own tests, which were read as evidence.
