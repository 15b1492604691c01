------------------------- MODULE IntegrationClient -------------------------
(***************************************************************************)
(* The client of integration/: a test, one of those in src/tests, against a *)
(* node whose chain other users and the contract's owner use too.  A test   *)
(* creates wallets, fetches their Merkle openings from the logs, proves and *)
(* submits updates and matches, and reads what it needs from the            *)
(* deployments file.  Between any two of its requests blocks are mined.     *)
(***************************************************************************)
EXTENDS DarkpoolChain

CONSTANTS Window,           \* blocks that are searched for a log
          TESTER,           \* the account that the tests use
          Amount,           \* what is deposited and traded
          MatchSides,       \* sides that the first order of a match may be on
          AtomicSides,
          MaxOther          \* bound: transactions of others

ASSUME ClientAssumption ==
    /\ MatchSides \cup AtomicSides \subseteq {"Buy", "Sell"}
    /\ Window \in Nat /\ Amount \in Nat \ {0, 1} /\ MaxOther \in Nat

VARIABLES
    chain,      \* a transaction per block: [by, status, logs]
    darkpool,   \* the state of the contract after them
    pending,    \* the transaction of the test that is not mined yet, or none
    wallets,    \* per wallet: version, the opening last fetched, and its owner's balance
    test,       \* the program of the test that runs, the next step, and its locals
    file,       \* the entries of the deployments file that are known to be there
    outcome

vars == <<chain, darkpool, pending, wallets, test, file, outcome>>

None == [method |-> "none"]
NoOpening == [value |-> 0]

tree == darkpool.tree

-----------------------------------------------------------------------------
(* The tests, as the requests they make.                                    *)
Step(op, w)      == <<[op |-> op, w |-> w]>>
Read(key)        == <<[op |-> "read", key |-> key]>>
Fund(mint, amt)  == <<[op |-> "mint", mint |-> mint, amount |-> amt]>>
Approve(who, mint, amt) ==
    <<[op |-> "approve", spender |-> who, mint |-> mint, amount |-> amt]>>

DefaultTransfer == [account_addr |-> 0, mint |-> 0, amount |-> 0, direction |-> "Deposit"]
Transfer(mint, amt, dir) ==
    [account_addr |-> address_to_biguint(TESTER), mint |-> address_to_biguint(mint),
     amount |-> amt, direction |-> dir]

create_darkpool_wallet(w) == Step("create", w) \o Step("fetch", w)

submit_wallet_update_with_transfer(w, transfer) ==
    <<[op |-> "update", w |-> w, transfer |-> transfer]>>
submit_wallet_update(w) == submit_wallet_update_with_transfer(w, DefaultTransfer)

authorize_deposit(mint, amt) == Read("Permit2") \o Approve(PERMIT2, mint, amt)

fund_and_deposit(w, mint, amt) ==
    Fund(mint, amt) \o authorize_deposit(mint, amt)
      \o submit_wallet_update_with_transfer(w, Transfer(mint, amt, "Deposit"))
      \o Step("fetch", w)

test_create_wallet__recover_wallet ==
    create_darkpool_wallet(1) \o Step("fetch", 1) \o Step("check_root", 1)

test_update_wallet__place_and_cancel_order ==
    create_darkpool_wallet(1)
      \o Step("fetch", 1) \o submit_wallet_update(1)
      \o Step("fetch", 1) \o submit_wallet_update(1)

test_update_wallet__deposit ==
    create_darkpool_wallet(1) \o Read("BaseToken") \o fund_and_deposit(1, BASE_TOKEN, Amount)

test_update_wallet__withdraw ==
    Read("QuoteToken") \o create_darkpool_wallet(1) \o fund_and_deposit(1, QUOTE_TOKEN, Amount)
      \o Step("fetch", 1)
      \o submit_wallet_update_with_transfer(
             1, Transfer(QUOTE_TOKEN, Amount \div 2, "Withdrawal"))

(* The match that is made up: the first order is on a side of the market,   *)
(* the second one on the other; amounts differ between the two tokens.      *)
Opposite(side) == IF side = "Buy" THEN "Sell" ELSE "Buy"
MatchAmount(mint) == IF mint = BASE_TOKEN THEN Amount ELSE 2 * Amount
SendMint(side) == IF side = "Buy" THEN QUOTE_TOKEN ELSE BASE_TOKEN

create_match_data == Read("BaseToken") \o Read("QuoteToken")

fund_wallet_for_match(w, side) ==
    fund_and_deposit(w, SendMint(side), MatchAmount(SendMint(side)))

create_match_and_wallets(side) ==
    create_darkpool_wallet(1) \o create_darkpool_wallet(2) \o create_match_data
      \o submit_wallet_update(1) \o submit_wallet_update(2)
      \o Step("fetch", 1) \o Step("fetch", 2)
      \o fund_wallet_for_match(1, side) \o fund_wallet_for_match(2, Opposite(side))

test_match_settle(side) ==
    create_match_and_wallets(side) \o Step("protocolFeeRate", 0) \o Step("match", 0)
      \o Step("fetch", 1) \o Step("fetch", 2)

fund_external_party(side) ==
    LET mint == SendMint(Opposite(side))
    IN  Fund(mint, MatchAmount(mint)) \o Approve(DARKPOOL, mint, MatchAmount(mint))

test_atomic_match_settle(side) ==
    Step("protocolFeeRate", 0) \o create_darkpool_wallet(1) \o create_match_data
      \o submit_wallet_update(1) \o Step("fetch", 1)
      \o fund_wallet_for_match(1, side) \o fund_external_party(side)
      \o <<[op |-> "atomic", w |-> 1, side |-> side]>> \o Step("fetch", 1)

Programs ==
    {test_create_wallet__recover_wallet, test_update_wallet__place_and_cancel_order,
     test_update_wallet__deposit, test_update_wallet__withdraw}
      \cup {test_match_settle(s) : s \in MatchSides}
      \cup {test_atomic_match_settle(s) : s \in AtomicSides}

-----------------------------------------------------------------------------
(* Wallets.  A wallet is reblinded for every change, which gives it a new   *)
(* commitment; wallet w's n-th one is a number of its own.                  *)
Commitment(w, n) == 2 * (n - 1) + w
OldCommitment(w) == Commitment(w, wallets[w].version)
NewCommitment(w) == Commitment(w, wallets[w].version + 1)

pk_root(w) == [x |-> <<500 + w, 510 + w>>, y |-> <<520 + w, 530 + w>>]
RootKey(w) == PublicRootKey(pk_root(w))

(* The root that an opening authenticates its value under.                  *)
compute_root(opening) ==
    LET node[h \in 0..MERKLE_DEPTH] ==
            IF h = 0 THEN opening.value
            ELSE IF isRightChild(opening.leaf_index, h - 1)
                 THEN Hash(opening.path_siblings[h], node[h - 1])
                 ELSE Hash(node[h - 1], opening.path_siblings[h])
    IN  node[MERKLE_DEPTH]

-----------------------------------------------------------------------------
(* What the test submits at a step.                                         *)
createWallet_tx(w) ==
    LET statement == [wallet_share_commitment |-> NewCommitment(w),
                      public_wallet_shares    |-> Shares(NewCommitment(w))]
    IN  [method |-> "createWallet",
         statement |-> ValidWalletCreateStatement(statement),
         proof |-> Prove(SizedValidWalletCreate, WalletCreateInputs(statement))]

generate_transfer_auth(w, transfer) ==
    IF transfer.amount = 0 THEN NoAuthorization
    ELSE IF transfer.direction = "Deposit"
    THEN TransferAuthorization(
           [permit_nonce |-> Len(chain), permit_deadline |-> 1000,
            permit_signature |->
              Signature(TESTER, <<transfer.mint, transfer.amount, DARKPOOL, Len(chain), 1000,
                                  pk_root(w)>>)])
    ELSE withdrawal(Signature(RootKey(w), ExternalTransferStruct(transfer)))

build_witness_statement(w, transfer) ==
    [old_shares_nullifier  |-> Nullifier(OldCommitment(w)),
     new_wallet_commitment |-> NewCommitment(w),
     new_public_shares     |-> Shares(NewCommitment(w)),
     merkle_root           |-> compute_root(wallets[w].opening),
     external_transfer     |-> transfer,
     old_pk_root           |-> pk_root(w)]

updateWallet_tx(w, transfer) ==
    LET statement == build_witness_statement(w, transfer)
    IN  [method |-> "updateWallet",
         sig  |-> Signature(RootKey(w), NewCommitment(w)),
         auth |-> generate_transfer_auth(w, transfer),
         statement |-> ValidWalletUpdateStatement(statement),
         proof |-> Prove(SizedValidWalletUpdate, WalletUpdateInputs(statement))]

prove_reblind(w) ==
    [merkle_root |-> compute_root(wallets[w].opening),
     original_shares_nullifier |-> Nullifier(OldCommitment(w)),
     reblinded_private_share_commitment |-> PrivateShareCommitment(NewCommitment(w))]

(* The one balance is sent, and the one received is added behind it.        *)
prove_commitments(w) ==
    [indices |-> [balance_send |-> 0, balance_receive |-> 1, order |-> 0]]

PartyPayload(w) ==
    [validReblindStatement     |-> ValidReblindStatement(prove_reblind(w)),
     validCommitmentsStatement |-> ValidCommitmentsStatement(prove_commitments(w))]

PartyProofs(w, id, inputs) ==
    LET reblind     == ReblindInputs(prove_reblind(w))
        commitments == CommitmentsInputs(prove_commitments(w))
    IN  [validReblind     |-> Prove(SizedValidReblind, reblind),
         validCommitments |-> Prove(SizedValidCommitments, commitments),
         linkReblind      |-> Link(reblind_commitments_group_layout, reblind, commitments),
         linkSettle       |-> Link(commitments_match_settle_group_layout(id), commitments, inputs)]

prove_match_bundle ==
    LET statement == [party0_indices |-> prove_commitments(1).indices,
                      party1_indices |-> prove_commitments(2).indices,
                      party0_modified_shares |-> Shares(NewCommitment(1)),
                      party1_modified_shares |-> Shares(NewCommitment(2)),
                      protocol_fee   |-> test.feeRate]
        inputs    == MatchSettleInputs(statement)
    IN  [method |-> "processMatchSettle",
         party0 |-> PartyPayload(1), party1 |-> PartyPayload(2),
         statement |-> ValidMatchSettleStatement(statement),
         proofs0 |-> PartyProofs(1, 0, inputs), proofs1 |-> PartyProofs(2, 1, inputs),
         proof |-> Prove(SizedValidMatchSettle, inputs)]

prove_atomic_match_bundle(w, side) ==
    LET statement ==
          [match_result |-> [quote_mint   |-> address_to_biguint(QUOTE_TOKEN),
                             base_mint    |-> address_to_biguint(BASE_TOKEN),
                             quote_amount |-> MatchAmount(QUOTE_TOKEN),
                             base_amount  |-> MatchAmount(BASE_TOKEN),
                             direction    |-> IF side = "Buy" THEN 0 ELSE 1],
           external_party_fees |-> [relayer_fee |-> 0, protocol_fee |-> test.feeRate],
           internal_party_modified_shares |-> Shares(NewCommitment(w)),
           internal_party_indices |-> prove_commitments(w).indices,
           protocol_fee |-> test.feeRate,
           relayer_fee_address |-> address_to_biguint(0)]
        inputs == MatchSettleAtomicInputs(statement)
    IN  [method |-> "processAtomicMatchSettle",
         party |-> PartyPayload(w),
         statement |-> ValidMatchSettleAtomicStatement(statement),
         proofs |-> PartyProofs(w, 0, inputs),
         proof |-> Prove(SizedValidMatchSettleAtomic, inputs)]

Transaction(s) ==
    CASE s.op = "create" -> createWallet_tx(s.w)
      [] s.op = "update" -> updateWallet_tx(s.w, s.transfer)
      [] s.op = "match"  -> prove_match_bundle
      [] s.op = "atomic" -> prove_atomic_match_bundle(s.w, s.side)
      [] s.op = "mint"   -> [method |-> "mint", mint |-> s.mint, amount |-> s.amount]
      [] s.op = "approve" ->
            [method |-> "approve", spender |-> s.spender, mint |-> s.mint, amount |-> s.amount]

-----------------------------------------------------------------------------
Init ==
    /\ chain = <<>> /\ darkpool = NewDarkpool /\ pending = None
    /\ wallets = [w \in {1, 2} |-> [version |-> 0, opening |-> NoOpening]]
    /\ \E program \in Programs :
         test = [steps |-> program, at |-> 1, pc |-> "setup", block |-> 0, found |-> 0,
                 feeRate |-> 0, tx |-> None]
    /\ file = {} /\ outcome = "running"

Current == test.steps[test.at]

At(pc, ops) ==
    /\ outcome = "running" /\ test.pc = pc
    /\ pc # "setup" => Current.op \in ops

(* The test goes on with its next step, or has passed.                      *)
Advance(t) ==
    IF t.at = Len(t.steps)
    THEN test' = [t EXCEPT !.pc = "end", !.tx = None] /\ outcome' = "passed"
    ELSE test' = [t EXCEPT !.at = @ + 1, !.pc = "step", !.tx = None] /\ UNCHANGED outcome

Fail(how) == outcome' = how /\ UNCHANGED test

(* The file stays as it is: an entry that was there once will be again.     *)
Found(key)   == file' = file \cup {key}
Missing(key) == key \notin file /\ UNCHANGED file

(* The contract to test is the one on file.                                 *)
TestArgs ==
    /\ At("setup", {})
    /\ \/ Found("DarkpoolProxy") /\ test' = [test EXCEPT !.pc = "step"] /\ UNCHANGED outcome
       \/ Missing("DarkpoolProxy") /\ Fail("panicked")
    /\ UNCHANGED <<chain, darkpool, pending, wallets>>

read_deployment ==
    /\ At("step", {"read"})
    /\ \/ Found(Current.key) /\ Advance(test)
       \/ Missing(Current.key) /\ Fail("failed")
    /\ UNCHANGED <<chain, darkpool, pending, wallets>>

Submits == {"create", "update", "atomic", "mint", "approve"}

(* The statement is made, proved and converted.                             *)
Build ==
    /\ At("step", Submits \cup {"match"})
    /\ test' = [test EXCEPT !.pc = "built", !.tx = Transaction(Current)]
    /\ UNCHANGED <<chain, darkpool, pending, wallets, file, outcome>>

\* A slip: an atomic match is only called, as test_match_settle does, not sent.
send_tx_called ==
    /\ At("built", Submits)
    /\ \/ /\ ~Execute(darkpool, test.tx).status
          /\ Fail("failed") /\ UNCHANGED pending
       \/ /\ Execute(darkpool, test.tx).status /\ Current.op = "atomic"
          /\ Advance(test) /\ UNCHANGED pending
       \/ /\ Execute(darkpool, test.tx).status /\ Current.op # "atomic"
          /\ pending' = test.tx /\ test' = [test EXCEPT !.pc = "pending", !.tx = None]
          /\ UNCHANGED outcome
    /\ UNCHANGED <<chain, darkpool, wallets, file>>

(* Sending estimates the gas, which fails if the transaction would revert.  *)
send_tx ==
    /\ At("built", Submits)
    /\ IF Execute(darkpool, test.tx).status
       THEN /\ pending' = test.tx
            /\ test' = [test EXCEPT !.pc = "pending", !.tx = None]
            /\ UNCHANGED outcome
       ELSE Fail("failed") /\ UNCHANGED pending
    /\ UNCHANGED <<chain, darkpool, wallets, file>>

Mine ==
    /\ pending # None
    /\ LET r == Execute(darkpool, pending)
       IN  /\ chain' = Append(chain, [by |-> "test", status |-> r.status, logs |-> r.logs])
           /\ darkpool' = r.darkpool
    /\ pending' = None
    /\ UNCHANGED <<wallets, test, file, outcome>>

MinedFor(who) == {n \in DOMAIN chain : chain[n].by = who}

(* The receipt is there: only the creation of a wallet looks at its status. *)
wait_for_tx_success ==
    /\ At("pending", Submits) /\ pending = None
    /\ IF Current.op = "create" /\ ~chain[Max(MinedFor("test"))].status
       THEN Fail("failed") /\ UNCHANGED wallets
       ELSE /\ Advance(test)
            /\ wallets' = IF Current.op \in {"create", "update"}
                          THEN [wallets EXCEPT ![Current.w].version = @ + 1] ELSE wallets
    /\ UNCHANGED <<chain, darkpool, pending, file>>

(* Calls: the node executes them against its latest state.                  *)
call_helper ==
    /\ \/ At("step", {"protocolFeeRate", "check_root"})
       \/ At("built", {"match"})
    /\ CASE Current.op = "protocolFeeRate" ->
              Advance([test EXCEPT !.feeRate = u256_to_scalar(darkpool.protocolFeeRate)])
         [] Current.op = "check_root" ->
              IF scalar_to_u256(compute_root(wallets[Current.w].opening)) \in tree.rootHistory
              THEN Advance(test) ELSE Fail("failed")
         [] Current.op = "match" ->
              IF Execute(darkpool, test.tx).status
              THEN Advance(test) ELSE Fail("failed")
    /\ UNCHANGED <<chain, darkpool, pending, wallets, file>>

-----------------------------------------------------------------------------
(* Fetching an opening: the latest block, the logs up to it, the receipt of *)
(* the transaction found.                                                   *)
get_block_number ==
    /\ At("step", {"fetch"})
    /\ test' = [test EXCEPT !.pc = "logs", !.block = Len(chain)]
    /\ UNCHANGED <<chain, darkpool, pending, wallets, file, outcome>>

(* Blocks in which a commitment was inserted, as far as they are searched.  *)
Inserted(comm, n) ==
    \E i \in DOMAIN chain[n].logs :
       LET log == chain[n].logs[i]
       IN  log.event = "MerkleInsertion" /\ log.value = scalar_to_u256(comm)

InsertionBlocks(comm) ==
    {n \in DOMAIN chain : n >= test.block - Window /\ n <= test.block /\ Inserted(comm, n)}

\* A slip: the client asks again until there is a log.
find_commitment_waiting ==
    /\ At("logs", {"fetch"})
    /\ LET blocks == InsertionBlocks(OldCommitment(Current.w))
       IN  IF blocks = {} THEN test' = [test EXCEPT !.pc = "step"]
           ELSE test' = [test EXCEPT !.pc = "opening", !.found = Max(blocks)]
    /\ UNCHANGED <<chain, darkpool, pending, wallets, file, outcome>>

find_commitment ==
    /\ At("logs", {"fetch"})
    /\ LET blocks == InsertionBlocks(OldCommitment(Current.w))
       IN  IF blocks = {} THEN Fail("failed")
           ELSE /\ test' = [test EXCEPT !.pc = "opening", !.found = Max(blocks)]
                /\ UNCHANGED outcome
    /\ UNCHANGED <<chain, darkpool, pending, wallets, file>>

OpeningNodes(n) == SelectSeq(chain[n].logs, LAMBDA log : log.event = "MerkleOpeningNode")

\* A slip: the siblings are put in order from the root down.
fetch_merkle_openings_down(n) == SortSeq(OpeningNodes(n), LAMBDA a, b : a.depth < b.depth)

fetch_merkle_openings(n) == SortSeq(OpeningNodes(n), LAMBDA a, b : a.depth > b.depth)

LeafIndex(comm, n) ==
    LET logs == chain[n].logs
    IN  logs[CHOOSE i \in DOMAIN logs : /\ logs[i].event = "MerkleInsertion"
                                        /\ logs[i].value = scalar_to_u256(comm)].index

fetch_merkle_opening ==
    /\ At("opening", {"fetch"})
    /\ LET siblings == fetch_merkle_openings(test.found)
           comm     == OldCommitment(Current.w)
       IN  IF Len(siblings) # MERKLE_DEPTH THEN Fail("panicked") /\ UNCHANGED wallets
           ELSE /\ wallets' = [wallets EXCEPT ![Current.w].opening =
                     [path_siblings |-> [i \in DOMAIN siblings |->
                                           u256_to_scalar(siblings[i].new_value)],
                      leaf_index |-> LeafIndex(comm, test.found),
                      value |-> comm]]
                /\ Advance(test)
    /\ UNCHANGED <<chain, darkpool, pending, file>>

Harness ==
    \/ TestArgs \/ read_deployment \/ Build \/ send_tx \/ wait_for_tx_success \/ call_helper
    \/ get_block_number \/ find_commitment \/ fetch_merkle_opening

-----------------------------------------------------------------------------
(* Others: users insert one leaf or two in a transaction, and the owner     *)
(* changes fee rates.                                                       *)
OtherLeaf ==
    Commitment(1, 5) + tree.nextIndex
      - Cardinality({n \in MinedFor("test") : chain[n].logs # <<>>})

MineOther(d, logs) ==
    /\ outcome = "running" /\ Cardinality(MinedFor("other")) < MaxOther
    /\ darkpool' = d
    /\ chain' = Append(chain, [by |-> "other", status |-> TRUE, logs |-> logs])
    /\ UNCHANGED <<pending, wallets, test, file, outcome>>

OtherWallet ==
    /\ CanInsert(tree)
    /\ MineOther(Insert(darkpool, OtherLeaf), insertionLogs(tree, OtherLeaf))

OtherMatch ==
    /\ tree.nextIndex + 2 <= MAX_MERKLE_LEAVES
    /\ LET after == Insert(darkpool, OtherLeaf)
       IN  MineOther(Insert(after, OtherLeaf + 1),
                     insertionLogs(tree, OtherLeaf) \o insertionLogs(after.tree, OtherLeaf + 1))

setProtocolFeeRate ==
    /\ darkpool.protocolFeeRate # 2
    /\ MineOther([darkpool EXCEPT !.protocolFeeRate = 2], <<>>)

setTokenExternalMatchFeeRate ==
    /\ darkpool.perTokenFeeOverrides[BASE_TOKEN] # 3
    /\ MineOther([darkpool EXCEPT !.perTokenFeeOverrides[BASE_TOKEN] = 3], <<>>)

Others == OtherWallet \/ OtherMatch \/ setProtocolFeeRate \/ setTokenExternalMatchFeeRate

Next == Harness \/ Mine \/ Others

(* The test goes on, and the node mines what it is sent; others may stop.   *)
Spec == Init /\ [][Next]_vars /\ WF_vars(Harness) /\ WF_vars(Mine)

-----------------------------------------------------------------------------
(* The leaves inserted so far, from the logs.                               *)
Logged ==
    LET logs == FlattenSeq([n \in DOMAIN chain |->
                    SelectSeq(chain[n].logs, LAMBDA log : log.event = "MerkleInsertion")])
    IN  [i \in DOMAIN logs |-> logs[i].value]

RootOf[log \in Seq(Leaf)] == Root(log, MERKLE_DEPTH)

(* The sequences of leaves that roots are the roots of: what was logged up  *)
(* to some insertion, or, for any other root, none that a log could be.     *)
LeavesUnder[log \in Seq(Leaf), roots \in SUBSET Nat] ==
    {s \in Prefixes(log) : RootOf[s] \in roots}
      \cup (IF roots \subseteq {RootOf[s] : s \in Prefixes(log)} THEN {}
            ELSE {<<ZERO_VALUE>>})

(* The only thing the tree keeps besides the root is the path of siblings   *)
(* of the next leaf: after any number of insertions it is the one that a    *)
(* tree rebuilt from all the leaves has there, subtrees to the left that    *)
(* have filled up and empty ones to the right alike (insertLeaf).           *)
PathIsOfNextLeaf ==
    ~isFull(tree) =>
        \A h \in 0..tree.depth - 1 :
          LET i == tree.nextIndex \div 2 ^ h
          IN  tree.siblingPath[h]
                = Nodes(Logged, tree.depth)
                    [h][IF isRightChild(tree.nextIndex, h) THEN i - 1 ELSE i + 1]

(* The tree is a log of leaves: the root commits to exactly what has been   *)
(* inserted, in order, which is also what the events say; what it committed *)
(* to before, and nothing else, has a known root; and the tree takes no     *)
(* leaf more than it has places.                                            *)
Log == INSTANCE LeafLog WITH
         Capacity <- MAX_MERKLE_LEAVES,
         leaves   <- IF RootOf[Logged] = tree.root THEN Logged ELSE <<ZERO_VALUE>>,
         roots    <- LeavesUnder[Logged, tree.rootHistory]

ImplementsLog == Log!Spec

(* An opening put together from the events of one transaction proves the    *)
(* wallet's commitment at its place in the tree, under a root that the      *)
(* contract knows, whatever others insert before, between and after the     *)
(* requests that it was fetched with (fetch_merkle_opening).                *)
OpeningsAuthenticate ==
    \A w \in DOMAIN wallets :
      LET opening == wallets[w].opening
      IN  opening # NoOpening =>
            /\ compute_root(opening) \in tree.rootHistory
            /\ Logged[opening.leaf_index + 1] = opening.value

(* The tree has no room for the leaves of the test's request.               *)
NoRoom == tree.nextIndex + (IF Current.op = "match" THEN 2 ELSE 1) > MAX_MERKLE_LEAVES

(* A log that is there, but in a block too old to be searched.              *)
TooOld ==
    /\ Current.op = "fetch"
    /\ \E n \in DOMAIN chain :
          n < test.block - Window /\ Inserted(OldCommitment(Current.w), n)

(* The rate that the contract charges is not the one the test has read, or  *)
(* the mint that is traded has a rate of its own.                           *)
RateDiffers ==
    \/ Current.op = "match" /\ test.feeRate # darkpool.protocolFeeRate
    \/ /\ Current.op = "atomic"
       /\ test.feeRate # getTokenExternalMatchFeeRate(darkpool, BASE_TOKEN)

(* Statements, transfers, authorizations and proofs that the client builds  *)
(* are what the contract accepts: a test fails only for an entry that is    *)
(* missing on file, for a tree that others have filled, for a log that is   *)
(* out of the range searched, or for a fee rate that is not the one read.   *)
(* It never panics but for the contract's own address.                      *)
FailuresExplained ==
    /\ outcome = "panicked" => "DarkpoolProxy" \notin file
    /\ outcome = "failed" =>
          \/ Current.op = "read" /\ Current.key \notin file
          \/ NoRoom \/ TooOld \/ RateDiffers

(* Receipts of updates and matches are not looked at.  Still, when a test   *)
(* has passed, every transaction it submitted has been mined and has taken  *)
(* effect, unless others filled the tree or a rate was changed after the    *)
(* gas was estimated (send_tx).                                             *)
PassedMeansApplied ==
    outcome = "passed" =>
      \/ isFull(tree)
      \/ darkpool.protocolFeeRate # NewDarkpool.protocolFeeRate
      \/ darkpool.perTokenFeeOverrides # NewDarkpool.perTokenFeeOverrides
      \/ /\ \A n \in MinedFor("test") : chain[n].status
         /\ Cardinality(MinedFor("test"))
              = Cardinality({i \in DOMAIN test.steps : test.steps[i].op \in Submits})

(* Every test comes to an end, however busy the chain is: no request is     *)
(* repeated until it succeeds.                                              *)
TestsEnd == <>(outcome # "running")
=============================================================================
