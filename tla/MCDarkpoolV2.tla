---------------------------- MODULE MCDarkpoolV2 ----------------------------
(* Small instances of DarkpoolV2: two traders, a token each way.            *)
EXTENDS DarkpoolV2

CONSTANTS alice, bob, relayer, usdc, weth, fot, otk

Permit(owner, in, out, minPrice, amountIn) ==
    [executor |-> relayer,
     intent |-> [inToken |-> in, outToken |-> out, owner |-> owner,
                 minPrice |-> minPrice, amountIn |-> amountIn]]

AliceSells == Permit(alice, weth, usdc, 3, 2)
BobSells   == Permit(bob, usdc, weth, 0, 2)
MCPermits  == {AliceSells, BobSells}

i1 == [id |-> "i1", owner |-> alice]
PrivateSale == {i1}
b1 == [id |-> "b1", key |-> otk]
b2 == [id |-> "b2", key |-> otk]

SignedBy(signer, digests, nonces) ==
    {SignatureOf(signer, d, n) : d \in digests, n \in nonces}

\* A fill that is rounded, one too cheap for Alice and the whole for Bob, one
\* that Permit2 cuts and that pays nothing, and a token that charges.
SettleObligations ==
    {Obligation(weth, usdc, 1, 1), Obligation(usdc, weth, 1, 1),
     Obligation(weth, usdc, 2, 2), Obligation(usdc, weth, 2, 2),
     Obligation(weth, usdc, 4, 0), Obligation(usdc, weth, 0, 4),
     Obligation(fot, usdc, 1, 1), Obligation(usdc, fot, 1, 1)}

\* Alice and Bob sign twice, with nonces that others use, too.
SettleSignatures ==
    SignedBy(alice, {AliceSells}, {1, 2}) \cup SignedBy(bob, {BobSells}, {2, 3})
    \cup SignedBy(alice, {CommitmentDigest(i1)}, {1})
    \cup SignedBy(otk, {RotationDigest(i1)}, {3})
    \cup SignedBy(relayer, SettleObligations, 4..7)
SettleBalances == {b1}
SettleNamed == {Element("balance", b1, 1)}

\* One price and amount, but two signatures for each intent, some of them
\* with a nonce in common; and elements that are named before the tree has them.
StateObligations == {Obligation(weth, usdc, 1, 1), Obligation(usdc, weth, 1, 1)}
StateSignatures ==
    SignedBy(alice, {CommitmentDigest(i1)}, {1, 2})
    \cup SignedBy(otk, {RotationDigest(i1)}, {2, 3})
StateBalances == {b1, b2}
StateNamed == {Element("balance", b1, 1), Element("balance", b2, 1),
               Element("intent", i1, 1), Element("intent", i1, 2)}
=============================================================================
