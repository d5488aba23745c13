--------------------------- MODULE HypNativeMinter ---------------------------
(***************************************************************************)
(* The bridge of a native token: solidity/contracts/HypNativeMinter.sol on *)
(* an EVM chain, whose native token it mints and burns through a           *)
(* precompile, and the collateral token on the other chain                 *)
(* (configs/tia/).  Amounts on the EVM chain are in wei, amounts in        *)
(* messages and on the other chain in its own, coarser unit; one unit is   *)
(* Scale wei.                                                              *)
(*                                                                         *)
(* A transaction of the EVM chain commits or reverts as a whole.  `chain'  *)
(* is the committed state and `evm' the state the transaction under way    *)
(* works on; between transactions the two are equal.  A transaction takes  *)
(* one step, except that _transferTo sends value to the recipient, whose   *)
(* code then runs: `control' names it.  Before it returns or reverts, that *)
(* code or what it calls may call transferRemote any number of times.      *)
(* A call that reverts on its own, as a nested delivery does on            *)
(* nonReentrant, changes nothing and has no step.                          *)
(*                                                                         *)
(* Left out: fees of the EVM chain, who receives on the other chain, the   *)
(* hooks behind the mailbox (what is paid to them leaves the model) and    *)
(* the owner's administration of routers.                                  *)
(***************************************************************************)
EXTENDS Integers

CONSTANTS
    Accounts,       \* accounts of the EVM chain, contracts with code or not
    Nobody,         \* no account: no recipient has control
    Scale,          \* scale, line 17
    MaxUint,        \* largest value of a uint256
    RemoteSupply,   \* units of the token on the other chain
    MaxNonce,       \* bound: messages sent each way
    Genesis,        \* wei each account has before anything is bridged
    Total(_)        \* the sum of a function on Nonces

VARIABLES
    chain,          \* committed state of the EVM chain
    evm,            \* state seen by the transaction under way
    control,        \* the recipient whose code runs inside _transferTo
    remote          \* state of the other chain

vars == <<chain, evm, control, remote>>

Nonces == 1..MaxNonce

Uint == 0..MaxUint

Nothing == [n \in Nonces |-> 0]

ASSUME MinterAssumption ==
    /\ Scale \in Nat \ {0}
    /\ MaxUint \in Nat
    /\ RemoteSupply \in Nat
    /\ RemoteSupply * Scale <= MaxUint
    /\ MaxNonce \in Nat
    /\ Genesis \in Nat
    /\ Nobody \notin Accounts

\* What makes Total a sum: it is zero of nothing, and grows with each entry.
ASSUME TotalAssumption ==
    /\ Total(Nothing) = 0
    /\ \A f \in [Nonces -> Uint] :
         /\ Total(f) \in Nat
         /\ \A n \in Nonces :
              /\ f[n] <= Total(f)
              /\ \A v \in Uint :
                   Total([f EXCEPT ![n] = v]) + f[n] = Total(f) + v

-----------------------------------------------------------------------------
(* State                                                                   *)

\* What the EVM chain keeps: _locked and the balance of the contract; the
\* net amount the precompile minted for it and whether it is on the allow
\* list; the other accounts; the mailbox's messages, sent and processed.
ChainState ==
    [locked : Nat, balance : Nat, supply : Nat, allowed : BOOLEAN,
     accounts : [Accounts -> Nat],
     nonce : 0..MaxNonce, sent : [Nonces -> Uint], processed : SUBSET Nonces]

\* The other chain: the collateral its token holds, and its mailbox.
RemoteState ==
    [collateral : 0..RemoteSupply,
     nonce : 0..MaxNonce, sent : [Nonces -> Uint],
     recipient : [Nonces -> Accounts \cup {Nobody}], processed : SUBSET Nonces]

Deployed ==
    [locked |-> 0, balance |-> 0, supply |-> 0, allowed |-> TRUE,
     accounts |-> [a \in Accounts |-> Genesis],
     nonce |-> 0, sent |-> Nothing, processed |-> {}]

Init ==
    /\ chain = Deployed
    /\ evm = chain
    /\ control = Nobody
    /\ remote = [collateral |-> 0, nonce |-> 0, sent |-> Nothing,
                 recipient |-> [n \in Nonces |-> Nobody], processed |-> {}]

\* The transaction's state becomes s; it is committed unless a recipient's
\* code is still running.
Perform(s) ==
    /\ evm' = s
    /\ chain' = IF control = Nobody THEN s ELSE chain

-----------------------------------------------------------------------------
(* transferRemote: from the EVM chain to the other                         *)

\* Mutant of Units: the amount is rounded to the nearest unit.
UnitsRounded(amount) == (amount + Scale \div 2) \div Scale

\* The amount in the message, line 71: wei below one unit are cut off.
Units(amount) == amount \div Scale

\* Mutant of Burned: the amount as it was given, dust included.
BurnedInFull(amount) == amount

\* What _transferFromSender burns.
Burned(amount) == Units(amount) * Scale

\* Mutant of GasPayment: the contract keeps the surplus.
GasPaymentKept(value, amount) == 0

\* What is left of the value for the dispatch.
GasPayment(value, amount) == value - amount

\* Mutant of TransferAllowed: the amount is not compared with _locked.
TransferAllowedUnlocked(s, a, value, amount) ==
    /\ value <= s.accounts[a]
    /\ value >= amount
    /\ Units(amount) > 0
    /\ s.allowed
    /\ s.balance + value >= Burned(amount) + GasPayment(value, amount)
    /\ s.nonce < MaxNonce

\* The requirements of transferRemote and _transferFromSender, the
\* precompile's on burn, and the balance the dispatch pays from.
TransferAllowed(s, a, value, amount) ==
    /\ value <= s.accounts[a]
    /\ value >= amount
    /\ Units(amount) > 0
    /\ s.locked >= Burned(amount)
    /\ s.allowed
    /\ s.balance + value >= Burned(amount) + GasPayment(value, amount)
    /\ s.nonce < MaxNonce

AfterTransfer(s, a, value, amount) ==
    [s EXCEPT !.accounts[a] = @ - value,
              !.balance = @ + value - Burned(amount) - GasPayment(value, amount),
              !.supply = @ - Burned(amount),
              !.locked = @ - Burned(amount),
              !.nonce = @ + 1,
              !.sent[s.nonce + 1] = Units(amount)]

\* Account a calls transferRemote, in a transaction of its own or, when
\* _transferTo runs a recipient's code, because that code leads there.
TransferRemote(a) ==
    /\ \E value, amount \in Uint :
         /\ TransferAllowed(evm, a, value, amount)
         /\ Perform(AfterTransfer(evm, a, value, amount))
    /\ UNCHANGED <<control, remote>>

AfterRelease(r, n, units) ==
    [r EXCEPT !.collateral = @ - units, !.processed = @ \cup {n}]

\* The other chain processes message n: the collateral is paid out.
Release(n) ==
    /\ n \in Nonces \ remote.processed
    /\ n <= chain.nonce
    /\ remote.collateral >= chain.sent[n]
    /\ remote' = AfterRelease(remote, n, chain.sent[n])
    /\ UNCHANGED <<chain, evm, control>>

-----------------------------------------------------------------------------
(* _transferTo: from the other chain to the EVM chain                      *)

AfterDeposit(r, units, a) ==
    [r EXCEPT !.collateral = @ + units,
              !.nonce = @ + 1,
              !.sent[r.nonce + 1] = units,
              !.recipient[r.nonce + 1] = a]

\* On the other chain, a holder locks units as collateral for account a.
Deposit(a) ==
    /\ remote.nonce < MaxNonce
    /\ \E units \in 1..RemoteSupply :
         /\ remote.collateral + units <= RemoteSupply
         /\ remote' = AfterDeposit(remote, units, a)
    /\ UNCHANGED <<chain, evm, control>>

\* What _transferTo mints for a message of so many units.
Minted(units) == units * Scale

\* Neither the product nor _locked overflows, and the precompile obeys.
MintAllowed(s, units) ==
    /\ Minted(units) <= MaxUint
    /\ s.locked + Minted(units) <= MaxUint
    /\ s.allowed

\* Message n is processed, its amount minted to the contract, locked and sent
\* on to the recipient.
AfterMint(s, n, units, a) ==
    [s EXCEPT !.processed = @ \cup {n},
              !.supply = @ + Minted(units),
              !.locked = @ + Minted(units),
              !.accounts[a] = @ + Minted(units)]

\* The mailbox has message n handled, up to the call of the recipient.
TransferTo(n) ==
    /\ control = Nobody
    /\ n \in Nonces \ evm.processed
    /\ n <= remote.nonce
    /\ MintAllowed(evm, remote.sent[n])
    /\ evm' = AfterMint(evm, n, remote.sent[n], remote.recipient[n])
    /\ control' = remote.recipient[n]
    /\ UNCHANGED <<chain, remote>>

\* Mutant of RecipientReturns: _locked is written after the call of the
\* recipient, from the value read before it.
RecipientReturnsLate ==
    /\ control # Nobody
    /\ \E n \in evm.processed \ chain.processed :
         chain' = [evm EXCEPT !.locked = chain.locked + Minted(remote.sent[n])]
    /\ evm' = chain'
    /\ control' = Nobody
    /\ UNCHANGED remote

\* The recipient returns: sendValue succeeds and the transaction is over.
RecipientReturns ==
    /\ control # Nobody
    /\ chain' = evm
    /\ control' = Nobody
    /\ UNCHANGED <<evm, remote>>

\* The recipient reverts, or the gas is used up: sendValue reverts, which the
\* catch of the try around mint does not catch.
RecipientReverts ==
    /\ control # Nobody
    /\ evm' = chain
    /\ control' = Nobody
    /\ UNCHANGED <<chain, remote>>

\* addToAllowList or removeFromAllowList, by the precompile's administrator.
ToggleAllowed ==
    /\ control = Nobody
    /\ Perform([evm EXCEPT !.allowed = ~ @])
    /\ UNCHANGED <<control, remote>>

Next ==
    \/ \E a \in Accounts : TransferRemote(a) \/ Deposit(a)
    \/ \E n \in Nonces : TransferTo(n) \/ Release(n)
    \/ RecipientReturns
    \/ RecipientReverts
    \/ ToggleAllowed

Spec == Init /\ [][Next]_vars

-----------------------------------------------------------------------------
(* Properties                                                              *)

TypeOK ==
    /\ chain \in ChainState
    /\ evm \in ChainState
    /\ control \in Accounts \cup {Nobody}
    /\ remote \in RemoteState

\* What is sent and not yet processed on the other side.
InFlight(sent, processed) ==
    [n \in Nonces |-> IF n \in processed THEN 0 ELSE sent[n]]

Backing(s, r) ==
    Minted(r.collateral) =
        s.supply + Minted(Total(InFlight(r.sent, s.processed))
                          + Total(InFlight(s.sent, r.processed)))

\* The collateral on the other chain is worth exactly what is minted on this
\* one plus what is under way in either direction: no rounding, reverted
\* delivery or call from within a delivery creates or loses a unit.
Backed == Backing(chain, remote)

\* _locked is the net amount the precompile minted for the contract, also while
\* a recipient's code runs and may read totalLocked or call transferRemote
\* (lines 94-95, 117-119).
LockedIsSupply ==
    /\ chain.locked = chain.supply
    /\ evm.locked = evm.supply

\* Money that stays in the contract is rounding dust, less than one unit for
\* each transfer it sent: the surplus of a payment goes with the dispatch
\* (line 70).
OnlyDust ==
    /\ chain.balance <= (Scale - 1) * chain.nonce
    /\ evm.balance <= (Scale - 1) * evm.nonce

\* No transfer is paid from the dust of others: the balance of the contract
\* never falls from one transaction to the next (lines 65-71, 88-95).
DustIsNotSpent == [][chain'.balance >= chain.balance]_vars

\* A message under way can be honoured whatever is processed before it: minting
\* it overflows nothing (lines 115-118), and the collateral covers its release.
Honourable ==
    \A n \in Nonces :
      /\ n \notin chain.processed =>
           chain.locked + Minted(remote.sent[n]) <= MaxUint
      /\ n \notin remote.processed => chain.sent[n] <= remote.collateral

=============================================================================
