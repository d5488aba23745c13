------------------------ MODULE HypNativeMinterProofs ------------------------
(***************************************************************************)
(* Proofs about HypNativeMinter, for every scale, supply and number of     *)
(* messages: the collateral on the other chain backs what is minted.  The  *)
(* in-flight amounts are sums; the proofs use of a sum only what           *)
(* TotalAssumption says.                                                   *)
(***************************************************************************)
EXTENDS HypNativeMinter, TLAPS

-----------------------------------------------------------------------------
(* Arithmetic                                                              *)

(* Minted respects sums and order, and never shrinks an amount.            *)
LEMMA MintedFacts ==
  ASSUME NEW u \in Nat, NEW v \in Nat
  PROVE  /\ Minted(u) \in Nat
         /\ Minted(u + v) = Minted(u) + Minted(v)
         /\ u <= Minted(u)
         /\ u <= v <=> Minted(u) <= Minted(v)
<1>1. Scale \in Nat /\ Scale >= 1
  BY MinterAssumption
<1>2. Minted(u) \in Nat /\ u <= Minted(u)
  BY <1>1 DEF Minted
<1>3. (u + v) * Scale = u * Scale + v * Scale
  BY <1>1
<1>4. ASSUME u <= v PROVE u * Scale <= v * Scale
  <2>1. PICK d \in Nat : v = u + d
    <3>1. v - u \in Nat /\ v = u + (v - u)
      BY <1>4
    <3> QED
      BY <3>1
  <2>2. v * Scale = u * Scale + d * Scale /\ d * Scale \in Nat /\ u * Scale \in Nat
    BY <2>1, <1>1
  <2> QED
    BY <2>2
<1>5. ASSUME u > v PROVE u * Scale > v * Scale
  <2>1. PICK d \in Nat : u = v + 1 + d
    <3>1. u - v - 1 \in Nat /\ u = v + 1 + (u - v - 1)
      BY <1>5
    <3> QED
      BY <3>1
  <2>2. /\ u * Scale = v * Scale + Scale + d * Scale
        /\ d * Scale \in Nat /\ v * Scale \in Nat
    BY <2>1, <1>1
  <2> QED
    BY <2>2, <1>1
<1>6. u <= v <=> Minted(u) <= Minted(v)
  <2>1. u * Scale \in Nat /\ v * Scale \in Nat
    BY <1>1
  <2>2. CASE u <= v
    BY <2>2, <1>4 DEF Minted
  <2>3. CASE u > v
    <3>1. u * Scale > v * Scale /\ ~(u <= v)
      BY <2>3, <1>5
    <3>2. ~(Minted(u) <= Minted(v))
      BY <3>1, <2>1 DEF Minted
    <3> QED
      BY <3>1, <3>2
  <2> QED
    BY <2>2, <2>3
<1>7. Minted(u + v) = Minted(u) + Minted(v)
  BY <1>3 DEF Minted
<1> QED
  BY <1>2, <1>6, <1>7

(* What is burned is the amount less a remainder below one unit.           *)
LEMMA BurnedFacts ==
  ASSUME NEW amount \in Nat
  PROVE  /\ Units(amount) \in Nat
         /\ Burned(amount) = Minted(Units(amount))
         /\ Burned(amount) <= amount
         /\ amount - Burned(amount) <= Scale - 1
         /\ Units(amount) <= amount
<1>1. Scale \in Nat \ {0}
  BY MinterAssumption
<1>2. /\ amount = Scale * (amount \div Scale) + (amount % Scale)
      /\ amount % Scale \in 0..(Scale - 1)
      /\ amount \div Scale \in Int
  BY <1>1
<1> DEFINE q == amount \div Scale
           r == amount % Scale
<1>3. amount = Scale * q + r /\ r \in 0..(Scale - 1) /\ q \in Int
  BY <1>2
<1>4. Units(amount) = q /\ Burned(amount) = q * Scale
  BY DEF Units, Burned
<1> HIDE DEF q, r
<1>5. q >= 0
  <2>1. SUFFICES ASSUME q <= -1 PROVE FALSE
    BY <1>3
  <2>2. Scale * q <= -Scale
    BY <1>1, <1>3, <2>1
  <2> QED
    BY <1>1, <1>3, <2>2
<1>6. q \in Nat /\ q * Scale = Scale * q
  BY <1>1, <1>3, <1>5
<1>7. Burned(amount) <= amount /\ amount - Burned(amount) <= Scale - 1
  BY <1>1, <1>3, <1>4, <1>6
<1>8. q <= Minted(q) /\ Minted(q) \in Nat
  BY <1>6, MintedFacts
<1>9. Burned(amount) = Minted(Units(amount))
  BY <1>4 DEF Minted
<1> QED
  BY <1>4, <1>6, <1>7, <1>8, <1>9

(* Sums are naturals no smaller than their entries.                        *)
LEMMA TotalFacts ==
  ASSUME NEW f \in [Nonces -> Uint]
  PROVE  /\ Total(f) \in Nat
         /\ \A n \in Nonces : f[n] <= Total(f)
BY TotalAssumption

(* What is in flight is a natural, no less than any message under way.      *)
LEMMA InFlightTotal ==
  ASSUME NEW sent \in [Nonces -> Uint], NEW done \in SUBSET Nonces
  PROVE  /\ Total(InFlight(sent, done)) \in Nat
         /\ \A n \in Nonces \ done : sent[n] <= Total(InFlight(sent, done))
<1>1. 0 \in Uint
  BY MinterAssumption DEF Uint
<1>2. /\ InFlight(sent, done) \in [Nonces -> Uint]
      /\ \A n \in Nonces \ done : InFlight(sent, done)[n] = sent[n]
  BY <1>1 DEF InFlight
<1> QED
  BY <1>2, TotalFacts

(* Sending a message adds its amount to what is in flight.                 *)
LEMMA SendAdds ==
  ASSUME NEW sent \in [Nonces -> Uint], NEW done \in SUBSET Nonces,
         NEW n \in Nonces \ done, NEW v \in Uint, sent[n] = 0
  PROVE  Total(InFlight([sent EXCEPT ![n] = v], done))
           = Total(InFlight(sent, done)) + v
<1>1. 0 \in Uint
  BY MinterAssumption DEF Uint
<1>2. InFlight(sent, done) \in [Nonces -> Uint] /\ InFlight(sent, done)[n] = 0
  BY <1>1 DEF InFlight
<1>3. InFlight([sent EXCEPT ![n] = v], done)
        = [InFlight(sent, done) EXCEPT ![n] = v]
  BY DEF InFlight
<1>4. /\ Total([InFlight(sent, done) EXCEPT ![n] = v]) + InFlight(sent, done)[n]
           = Total(InFlight(sent, done)) + v
      /\ [InFlight(sent, done) EXCEPT ![n] = v] \in [Nonces -> Uint]
  BY <1>2, TotalAssumption
<1>5. Total([InFlight(sent, done) EXCEPT ![n] = v]) \in Nat
  BY <1>4, TotalFacts
<1> QED
  BY <1>2, <1>3, <1>4, <1>5

(* Processing a message takes its amount off what is in flight.            *)
LEMMA ProcessTakes ==
  ASSUME NEW sent \in [Nonces -> Uint], NEW done \in SUBSET Nonces,
         NEW n \in Nonces \ done
  PROVE  Total(InFlight(sent, done \cup {n})) + sent[n]
           = Total(InFlight(sent, done))
<1>1. 0 \in Uint
  BY MinterAssumption DEF Uint
<1>2. InFlight(sent, done) \in [Nonces -> Uint]
      /\ InFlight(sent, done)[n] = sent[n]
  BY <1>1 DEF InFlight
<1>3. InFlight(sent, done \cup {n}) = [InFlight(sent, done) EXCEPT ![n] = 0]
  BY DEF InFlight
<1>4. Total([InFlight(sent, done) EXCEPT ![n] = 0]) + InFlight(sent, done)[n]
        = Total(InFlight(sent, done)) + 0
  BY <1>1, <1>2, TotalAssumption
<1>5. Total(InFlight(sent, done)) \in Nat
  BY <1>2, TotalFacts
<1> QED
  BY <1>2, <1>3, <1>4, <1>5

-----------------------------------------------------------------------------
(* The inductive invariant                                                 *)

\* What holds between a state s of the EVM chain and a state r of the other:
\* for the committed state and, in a transaction, for the one it works on.
Ledger(s, r) ==
    /\ s.locked = s.supply
    /\ s.balance <= (Scale - 1) * s.nonce
    /\ \A n \in Nonces : n > s.nonce => s.sent[n] = 0
    /\ \A n \in s.processed : n <= r.nonce
    /\ Backing(s, r)

\* The transaction under way only adds to the committed state.
Extends(t, s) ==
    /\ s.balance <= t.balance
    /\ s.nonce <= t.nonce
    /\ \A n \in Nonces : n <= s.nonce => t.sent[n] = s.sent[n]

RemoteSound(r, s) ==
    /\ \A n \in Nonces : n > r.nonce => r.sent[n] = 0
    /\ \A n \in Nonces : n <= r.nonce => r.recipient[n] \in Accounts
    /\ \A n \in r.processed : n <= s.nonce

MinterInv ==
    /\ TypeOK
    /\ Ledger(chain, remote)
    /\ Ledger(evm, remote)
    /\ Extends(evm, chain)
    /\ control = Nobody => evm = chain
    /\ RemoteSound(remote, chain)

-----------------------------------------------------------------------------
(* What each step does to a ledger                                         *)

(* transferRemote: what is burned goes into flight, the dust stays.        *)
LEMMA TransferKeeps ==
  ASSUME NEW s \in ChainState, NEW r \in RemoteState, Ledger(s, r),
         \A n \in r.processed : n <= s.nonce,
         NEW a \in Accounts, NEW value \in Uint, NEW amount \in Uint,
         TransferAllowed(s, a, value, amount)
  PROVE  /\ AfterTransfer(s, a, value, amount) \in ChainState
         /\ Ledger(AfterTransfer(s, a, value, amount), r)
         /\ Extends(AfterTransfer(s, a, value, amount), s)
<1> DEFINE t == AfterTransfer(s, a, value, amount)
           q == Units(amount)
           b == Burned(amount)
<1>1. /\ amount \in Nat /\ value \in Nat /\ amount <= MaxUint
      /\ Scale \in Nat \ {0} /\ MaxNonce \in Nat /\ MaxUint \in Nat
  BY MinterAssumption DEF Uint
<1>2. /\ q \in Nat /\ b = Minted(q) /\ b <= amount
      /\ amount - b <= Scale - 1 /\ q <= amount /\ b \in Nat
  BY <1>1, BurnedFacts, MintedFacts
<1>3. /\ value <= s.accounts[a] /\ value >= amount
      /\ s.locked >= b /\ s.nonce < MaxNonce
  BY DEF TransferAllowed
<1>4. /\ s.locked \in Nat /\ s.balance \in Nat /\ s.supply \in Nat
      /\ s.accounts \in [Accounts -> Nat] /\ s.nonce \in 0..MaxNonce
      /\ s.sent \in [Nonces -> Uint] /\ s.processed \in SUBSET Nonces
      /\ s.locked = s.supply
  BY DEF ChainState, Ledger
<1>5. s.nonce + 1 \in Nonces /\ q \in Uint
  BY <1>1, <1>2, <1>3, <1>4 DEF Nonces, Uint
<1>6. /\ t.locked = s.locked - b
      /\ t.balance = s.balance + value - b - (value - amount)
      /\ t.supply = s.supply - b
      /\ t.nonce = s.nonce + 1
      /\ t.sent = [s.sent EXCEPT ![s.nonce + 1] = q]
      /\ t.processed = s.processed
      /\ t.accounts = [s.accounts EXCEPT ![a] = @ - value]
      /\ t.allowed = s.allowed
  BY DEF AfterTransfer, GasPayment, ChainState
<1>7. t.balance = s.balance + (amount - b) /\ amount - b \in 0..(Scale - 1)
  BY <1>1, <1>2, <1>4, <1>6
<1>8. t \in ChainState
  <2>1. t.accounts \in [Accounts -> Nat]
    BY <1>1, <1>3, <1>4, <1>6
  <2>2. t.locked \in Nat /\ t.supply \in Nat /\ t.nonce \in 0..MaxNonce
    BY <1>1, <1>2, <1>3, <1>4, <1>6
  <2>3. t.sent \in [Nonces -> Uint]
    BY <1>4, <1>5, <1>6
  <2>4. t.balance \in Nat
    BY <1>1, <1>4, <1>7
  <2>5. t = [s EXCEPT !.accounts = t.accounts, !.balance = t.balance,
                      !.supply = t.supply, !.locked = t.locked,
                      !.nonce = t.nonce, !.sent = t.sent]
    BY DEF AfterTransfer, ChainState
  <2> HIDE DEF t
  <2> QED
    BY <2>1, <2>2, <2>3, <2>4, <2>5 DEF ChainState
<1>9. t.balance <= (Scale - 1) * t.nonce
  <2>1. (Scale - 1) * (s.nonce + 1) = (Scale - 1) * s.nonce + (Scale - 1)
    BY <1>1, <1>4
  <2>2. s.balance <= (Scale - 1) * s.nonce /\ (Scale - 1) * s.nonce \in Nat
    BY <1>1, <1>4 DEF Ledger
  <2> QED
    BY <1>1, <1>4, <1>6, <1>7, <2>1, <2>2
<1>10. \A n \in Nonces : n > t.nonce => t.sent[n] = 0
  BY <1>4, <1>5, <1>6 DEF Ledger, Nonces
<1>11. Backing(t, r)
  <2> DEFINE here == Total(InFlight(r.sent, s.processed))
             there == Total(InFlight(s.sent, r.processed))
             more == Total(InFlight(t.sent, r.processed))
  <2>1. /\ r.processed \in SUBSET Nonces /\ r.sent \in [Nonces -> Uint]
        /\ r.collateral \in Nat
    BY MinterAssumption DEF RemoteState
  <2>2. s.nonce + 1 \notin r.processed /\ s.sent[s.nonce + 1] = 0
    BY <1>4, <1>5 DEF Ledger, Nonces
  <2>3. more = there + q
    BY <1>4, <1>5, <1>6, <2>1, <2>2, SendAdds
  <2>4. here \in Nat /\ there \in Nat
    BY <1>4, <2>1, InFlightTotal
  <2>5. Minted((here + there) + q) = Minted(here + there) + Minted(q)
        /\ Minted(here + there) \in Nat
    BY <1>2, <2>4, MintedFacts
  <2>6. Minted(r.collateral) = s.supply + Minted(here + there)
    BY DEF Ledger, Backing
  <2>7. here + more = (here + there) + q
    BY <1>2, <2>3, <2>4
  <2>8. Minted(r.collateral) = t.supply + Minted(here + more)
    <3>1. t.supply = s.supply - Minted(q) /\ Minted(q) \in Nat
      BY <1>2, <1>6
    <3> HIDE DEF t, here, there, more, q
    <3> QED
      BY <1>4, <2>5, <2>6, <2>7, <3>1
  <2> QED
    BY <1>6, <2>8 DEF Backing
<1>12. Ledger(t, r)
  BY <1>4, <1>6, <1>9, <1>10, <1>11 DEF Ledger
<1>13. Extends(t, s)
  BY <1>4, <1>5, <1>6, <1>7 DEF Extends, Nonces
<1> QED
  BY <1>8, <1>12, <1>13

(* A delivery: what leaves flight is minted and locked.                    *)
LEMMA MintKeeps ==
  ASSUME NEW s \in ChainState, NEW r \in RemoteState, Ledger(s, r),
         NEW n \in Nonces \ s.processed, n <= r.nonce, NEW a \in Accounts
  PROVE  /\ AfterMint(s, n, r.sent[n], a) \in ChainState
         /\ Ledger(AfterMint(s, n, r.sent[n], a), r)
         /\ Extends(AfterMint(s, n, r.sent[n], a), s)
<1> DEFINE u == r.sent[n]
           t == AfterMint(s, n, u, a)
<1>1. /\ r.sent \in [Nonces -> Uint] /\ r.processed \in SUBSET Nonces
      /\ u \in Nat /\ Minted(u) \in Nat /\ r.nonce \in Nat
  <2>1. r.sent \in [Nonces -> Uint] /\ r.processed \in SUBSET Nonces
        /\ r.nonce \in Nat
    BY MinterAssumption DEF RemoteState
  <2>2. u \in Nat
    BY <2>1, MinterAssumption DEF Uint
  <2> QED
    BY <2>1, <2>2, MintedFacts
<1>2. /\ s.locked \in Nat /\ s.balance \in Nat /\ s.supply \in Nat
      /\ s.accounts \in [Accounts -> Nat] /\ s.nonce \in 0..MaxNonce
      /\ s.sent \in [Nonces -> Uint] /\ s.processed \in SUBSET Nonces
      /\ s.locked = s.supply
  BY DEF ChainState, Ledger
<1>3. /\ t.locked = s.locked + Minted(u)
      /\ t.balance = s.balance
      /\ t.supply = s.supply + Minted(u)
      /\ t.nonce = s.nonce
      /\ t.sent = s.sent
      /\ t.processed = s.processed \cup {n}
      /\ t.accounts = [s.accounts EXCEPT ![a] = @ + Minted(u)]
  BY DEF AfterMint, ChainState
<1>4. t \in ChainState
  <2>1. t.accounts \in [Accounts -> Nat]
    BY <1>1, <1>2, <1>3
  <2>2. /\ t.locked \in Nat /\ t.supply \in Nat
        /\ t.processed \in SUBSET Nonces
    BY <1>1, <1>2, <1>3
  <2>3. t = [s EXCEPT !.accounts = t.accounts, !.supply = t.supply,
                      !.locked = t.locked, !.processed = t.processed]
    BY DEF AfterMint, ChainState
  <2> HIDE DEF t
  <2> QED
    BY <2>1, <2>2, <2>3 DEF ChainState
<1>5. Backing(t, r)
  <2> DEFINE here == Total(InFlight(r.sent, s.processed))
             fewer == Total(InFlight(r.sent, t.processed))
             there == Total(InFlight(s.sent, r.processed))
  <2>1. fewer + u = here
    BY <1>1, <1>2, <1>3, ProcessTakes
  <2>2. here \in Nat /\ there \in Nat /\ fewer \in Nat
    BY <1>1, <1>2, <1>3, <1>4, InFlightTotal DEF ChainState
  <2>3. /\ Minted((fewer + there) + u) = Minted(fewer + there) + Minted(u)
        /\ Minted(fewer + there) \in Nat
    <3>1. fewer + there \in Nat
      BY <2>2
    <3> HIDE DEF here, there, fewer, u
    <3> QED
      BY <1>1, <3>1, MintedFacts
  <2>4. Minted(r.collateral) = s.supply + Minted(here + there)
    BY DEF Ledger, Backing
  <2>5. here + there = (fewer + there) + u
    BY <1>1, <2>1, <2>2
  <2>6. Minted(r.collateral) = t.supply + Minted(fewer + there)
    <3>1. t.supply = s.supply + Minted(u)
      BY <1>3
    <3> HIDE DEF t, here, there, fewer, u
    <3> QED
      BY <1>1, <1>2, <2>3, <2>4, <2>5, <3>1
  <2> QED
    BY <1>3, <2>6 DEF Backing
<1>6. Ledger(t, r)
  BY <1>1, <1>2, <1>3, <1>5 DEF Ledger
<1>7. Extends(t, s)
  BY <1>2, <1>3 DEF Extends
<1> QED
  BY <1>4, <1>6, <1>7

(* A deposit: new collateral is in flight.                                 *)
LEMMA DepositKeeps ==
  ASSUME NEW s \in ChainState, NEW r \in RemoteState, Ledger(s, r),
         \A n \in Nonces : n > r.nonce => r.sent[n] = 0,
         NEW units \in 1..RemoteSupply, NEW a \in Accounts,
         r.nonce < MaxNonce, r.collateral + units <= RemoteSupply
  PROVE  /\ AfterDeposit(r, units, a) \in RemoteState
         /\ Ledger(s, AfterDeposit(r, units, a))
<1> DEFINE r1 == AfterDeposit(r, units, a)
<1>1. /\ RemoteSupply \in Nat /\ RemoteSupply <= MaxUint /\ MaxUint \in Nat
      /\ MaxNonce \in Nat
  BY MinterAssumption, MintedFacts DEF Minted
<1>2. /\ units \in Nat /\ units \in Uint
      /\ r.collateral \in 0..RemoteSupply /\ r.nonce \in 0..MaxNonce
      /\ r.sent \in [Nonces -> Uint] /\ r.processed \in SUBSET Nonces
      /\ r.recipient \in [Nonces -> Accounts \cup {Nobody}]
  BY <1>1 DEF RemoteState, Uint
<1>3. /\ s.sent \in [Nonces -> Uint] /\ s.processed \in SUBSET Nonces
      /\ s.supply \in Nat
  BY DEF ChainState
<1>4. r.nonce + 1 \in Nonces
  BY <1>1, <1>2 DEF Nonces
<1>5. /\ r1.collateral = r.collateral + units
      /\ r1.nonce = r.nonce + 1
      /\ r1.sent = [r.sent EXCEPT ![r.nonce + 1] = units]
      /\ r1.recipient = [r.recipient EXCEPT ![r.nonce + 1] = a]
      /\ r1.processed = r.processed
  BY DEF AfterDeposit, RemoteState
<1>6. r1 \in RemoteState
  <2>1. /\ r1.collateral \in 0..RemoteSupply /\ r1.nonce \in 0..MaxNonce
        /\ r1.sent \in [Nonces -> Uint]
        /\ r1.recipient \in [Nonces -> Accounts \cup {Nobody}]
    BY <1>1, <1>2, <1>4, <1>5
  <2>2. r1 = [r EXCEPT !.collateral = r1.collateral, !.nonce = r1.nonce,
                       !.sent = r1.sent, !.recipient = r1.recipient]
    BY DEF AfterDeposit, RemoteState
  <2> HIDE DEF r1
  <2> QED
    BY <2>1, <2>2 DEF RemoteState
<1>7. Backing(s, r1)
  <2> DEFINE here == Total(InFlight(r.sent, s.processed))
             more == Total(InFlight(r1.sent, s.processed))
             there == Total(InFlight(s.sent, r.processed))
  <2>1. r.nonce + 1 \notin s.processed /\ r.sent[r.nonce + 1] = 0
    BY <1>2, <1>4 DEF Ledger
  <2>2. more = here + units
    BY <1>2, <1>3, <1>4, <1>5, <2>1, SendAdds
  <2>3. here \in Nat /\ there \in Nat
    BY <1>2, <1>3, InFlightTotal
  <2>4. /\ Minted((here + there) + units) = Minted(here + there) + Minted(units)
        /\ Minted(r.collateral + units) = Minted(r.collateral) + Minted(units)
        /\ Minted(here + there) \in Nat /\ Minted(units) \in Nat
        /\ Minted(r.collateral) \in Nat
    <3>1. here + there \in Nat /\ r.collateral \in Nat
      BY <1>1, <1>2, <2>3
    <3> HIDE DEF here, there
    <3> QED
      BY <1>2, <3>1, MintedFacts
  <2>5. Minted(r.collateral) = s.supply + Minted(here + there)
    BY DEF Ledger, Backing
  <2>6. more + there = (here + there) + units
    BY <1>2, <2>2, <2>3
  <2>7. Minted(r.collateral + units) = s.supply + Minted(more + there)
    <3> HIDE DEF here, there, more
    <3> QED
      BY <1>3, <2>4, <2>5, <2>6
  <2> QED
    BY <1>5, <2>7 DEF Backing
<1>8. Ledger(s, r1)
  <2>1. \A n \in s.processed : n <= r1.nonce
    BY <1>1, <1>2, <1>3, <1>5 DEF Ledger, Nonces
  <2> HIDE DEF r1
  <2> QED
    BY <1>7, <2>1 DEF Ledger
<1> QED
  BY <1>6, <1>8

(* A release: the collateral paid out leaves flight.                       *)
LEMMA ReleaseKeeps ==
  ASSUME NEW s \in ChainState, NEW r \in RemoteState, Ledger(s, r),
         NEW n \in Nonces \ r.processed, r.collateral >= s.sent[n]
  PROVE  /\ AfterRelease(r, n, s.sent[n]) \in RemoteState
         /\ Ledger(s, AfterRelease(r, n, s.sent[n]))
<1> DEFINE u == s.sent[n]
           r1 == AfterRelease(r, n, u)
<1>1. /\ RemoteSupply \in Nat
      /\ r.collateral \in 0..RemoteSupply
      /\ r.sent \in [Nonces -> Uint] /\ r.processed \in SUBSET Nonces
  BY MinterAssumption DEF RemoteState
<1>2. /\ s.sent \in [Nonces -> Uint] /\ s.processed \in SUBSET Nonces
      /\ s.supply \in Nat
  BY DEF ChainState
<1>3. u \in Nat
  BY <1>2, MinterAssumption DEF Uint
<1>4. /\ r1.collateral = r.collateral - u
      /\ r1.nonce = r.nonce
      /\ r1.sent = r.sent
      /\ r1.processed = r.processed \cup {n}
  BY DEF AfterRelease, RemoteState
<1>5. r1 \in RemoteState
  <2>1. /\ r1.collateral \in 0..RemoteSupply
        /\ r1.processed \in SUBSET Nonces
    BY <1>1, <1>3, <1>4
  <2>2. r1 = [r EXCEPT !.collateral = r1.collateral,
                       !.processed = r1.processed]
    BY DEF AfterRelease, RemoteState
  <2> HIDE DEF r1
  <2> QED
    BY <2>1, <2>2 DEF RemoteState
<1>6. Backing(s, r1)
  <2> DEFINE here == Total(InFlight(r.sent, s.processed))
             there == Total(InFlight(s.sent, r.processed))
             fewer == Total(InFlight(s.sent, r1.processed))
             rest == r.collateral - u
  <2>1. fewer + u = there
    BY <1>1, <1>2, <1>4, ProcessTakes
  <2>2. here \in Nat /\ there \in Nat /\ fewer \in Nat /\ rest \in Nat
    BY <1>1, <1>2, <1>3, <1>4, InFlightTotal
  <2>3. /\ Minted((here + fewer) + u) = Minted(here + fewer) + Minted(u)
        /\ Minted(rest + u) = Minted(rest) + Minted(u)
        /\ Minted(here + fewer) \in Nat /\ Minted(u) \in Nat
        /\ Minted(rest) \in Nat
    <3>1. here + fewer \in Nat
      BY <2>2
    <3> HIDE DEF here, there, fewer, rest, u
    <3> QED
      BY <1>3, <2>2, <3>1, MintedFacts
  <2>4. Minted(r.collateral) = s.supply + Minted(here + there)
    BY DEF Ledger, Backing
  <2>5. here + there = (here + fewer) + u /\ r.collateral = rest + u
    BY <1>1, <1>3, <2>1, <2>2
  <2>6. Minted(rest) = s.supply + Minted(here + fewer)
    <3> HIDE DEF here, there, fewer, rest, u
    <3> QED
      BY <1>2, <2>3, <2>4, <2>5
  <2> QED
    BY <1>4, <2>6 DEF Backing
<1>7. Ledger(s, r1)
  BY <1>4, <1>6 DEF Ledger
<1> QED
  BY <1>5, <1>7

-----------------------------------------------------------------------------
(* The invariant is inductive                                              *)

(* Adding to a state is reflexive and transitive, and keeps the other      *)
(* chain sound.                                                            *)
LEMMA ExtendsFacts ==
  ASSUME NEW s \in ChainState, NEW t \in ChainState, NEW u \in ChainState,
         NEW r \in RemoteState
  PROVE  /\ Extends(s, s)
         /\ Extends(u, t) /\ Extends(t, s) => Extends(u, s)
         /\ Extends(t, s) /\ RemoteSound(r, s) => RemoteSound(r, t)
<1>1. /\ s.balance \in Nat /\ t.balance \in Nat /\ u.balance \in Nat
      /\ s.nonce \in Nat /\ t.nonce \in Nat /\ u.nonce \in Nat
      /\ r.processed \in SUBSET Nonces
      /\ Nonces \subseteq Nat
  BY MinterAssumption DEF ChainState, RemoteState, Nonces
<1>2. Extends(s, s)
  BY <1>1 DEF Extends
<1>3. Extends(u, t) /\ Extends(t, s) => Extends(u, s)
  BY <1>1 DEF Extends
<1>4. Extends(t, s) /\ RemoteSound(r, s) => RemoteSound(r, t)
  <2> SUFFICES ASSUME Extends(t, s), RemoteSound(r, s)
               PROVE  \A n \in r.processed : n <= t.nonce
    BY DEF RemoteSound
  <2> TAKE n \in r.processed
  <2>1. n \in Nat /\ n <= s.nonce /\ s.nonce <= t.nonce
    BY <1>1 DEF Extends, RemoteSound
  <2> QED
    BY <1>1, <2>1
<1> QED
  BY <1>2, <1>3, <1>4

(* Both ledgers balance when the bridge is deployed.                       *)
LEMMA MinterInit == Init => MinterInv
<1> SUFFICES ASSUME Init PROVE MinterInv
  OBVIOUS
<1>1. /\ chain = Deployed /\ evm = chain /\ control = Nobody
      /\ remote = [collateral |-> 0, nonce |-> 0, sent |-> Nothing,
                   recipient |-> [n \in Nonces |-> Nobody], processed |-> {}]
  BY DEF Init
<1>2. Nothing \in [Nonces -> Uint] /\ \A n \in Nonces : Nothing[n] = 0
  BY MinterAssumption DEF Nothing, Uint
<1>3. TypeOK
  BY <1>1, <1>2, MinterAssumption
     DEF TypeOK, ChainState, RemoteState, Deployed
<1>4. InFlight(Nothing, {}) = Nothing
  BY DEF InFlight, Nothing
<1>5. Minted(0) = 0
  BY MinterAssumption DEF Minted
<1>6. Backing(chain, remote)
  BY <1>1, <1>4, <1>5, TotalAssumption DEF Backing, Deployed
<1>7. (Scale - 1) * 0 = 0
  BY MinterAssumption
<1>8. Ledger(chain, remote)
  BY <1>1, <1>2, <1>6, <1>7 DEF Ledger, Deployed
<1>9. Extends(evm, chain)
  BY <1>1, <1>3, ExtendsFacts DEF TypeOK
<1>10. RemoteSound(remote, chain)
  BY <1>1, <1>2, MinterAssumption DEF RemoteSound, Nonces
<1> QED
  BY <1>1, <1>3, <1>8, <1>9, <1>10 DEF MinterInv

(* A new state s of the transaction, committed or not.                     *)
LEMMA PerformKeeps ==
  ASSUME MinterInv, NEW s \in ChainState, Ledger(s, remote), Extends(s, evm),
         Perform(s), UNCHANGED <<control, remote>>
  PROVE  MinterInv'
<1>1. /\ TypeOK /\ Ledger(chain, remote) /\ Extends(evm, chain)
      /\ RemoteSound(remote, chain)
      /\ control = Nobody => evm = chain
  BY DEF MinterInv
<1>2. Extends(s, chain) /\ Extends(s, s)
  BY <1>1, ExtendsFacts DEF TypeOK
<1>3. RemoteSound(remote, s)
  BY <1>1, <1>2, ExtendsFacts DEF TypeOK
<1>4. CASE control = Nobody
  <2>1. chain' = s /\ evm' = s /\ control' = control /\ remote' = remote
    BY <1>4 DEF Perform
  <2> QED
    BY <1>1, <1>2, <1>3, <2>1 DEF MinterInv, TypeOK
<1>5. CASE control # Nobody
  <2>1. chain' = chain /\ evm' = s /\ control' = control /\ remote' = remote
    BY <1>5 DEF Perform
  <2> QED
    BY <1>1, <1>2, <1>5, <2>1 DEF MinterInv, TypeOK
<1> QED
  BY <1>4, <1>5

(* Every step keeps both ledgers in balance.                               *)
LEMMA MinterStep == MinterInv /\ [Next]_vars => MinterInv'
<1> SUFFICES ASSUME MinterInv, [Next]_vars PROVE MinterInv'
  OBVIOUS
<1>0. /\ chain \in ChainState /\ evm \in ChainState
      /\ control \in Accounts \cup {Nobody} /\ remote \in RemoteState
      /\ Ledger(chain, remote) /\ Ledger(evm, remote)
      /\ Extends(evm, chain) /\ RemoteSound(remote, chain)
      /\ control = Nobody => evm = chain
      /\ RemoteSound(remote, evm)
  BY ExtendsFacts DEF MinterInv, TypeOK
<1>1. ASSUME NEW a \in Accounts, TransferRemote(a) PROVE MinterInv'
  <2>1. PICK value \in Uint, amount \in Uint :
          /\ TransferAllowed(evm, a, value, amount)
          /\ Perform(AfterTransfer(evm, a, value, amount))
    BY <1>1 DEF TransferRemote
  <2>2. \A n \in remote.processed : n <= evm.nonce
    BY <1>0 DEF RemoteSound
  <2> DEFINE t == AfterTransfer(evm, a, value, amount)
  <2>3. t \in ChainState /\ Ledger(t, remote) /\ Extends(t, evm)
    BY <1>0, <2>1, <2>2, TransferKeeps
  <2>4. Perform(t) /\ UNCHANGED <<control, remote>>
    BY <1>1, <2>1 DEF TransferRemote
  <2> HIDE DEF t
  <2> QED
    BY <2>3, <2>4, PerformKeeps
<1>2. ASSUME NEW a \in Accounts, Deposit(a) PROVE MinterInv'
  <2>1. PICK units \in 1..RemoteSupply :
          /\ remote.collateral + units <= RemoteSupply
          /\ remote' = AfterDeposit(remote, units, a)
    BY <1>2 DEF Deposit
  <2>2. remote.nonce < MaxNonce /\ UNCHANGED <<chain, evm, control>>
    BY <1>2 DEF Deposit
  <2>3. \A n \in Nonces : n > remote.nonce => remote.sent[n] = 0
    BY <1>0 DEF RemoteSound
  <2>4. /\ remote' \in RemoteState
        /\ Ledger(chain, remote') /\ Ledger(evm, remote')
    BY <1>0, <2>1, <2>2, <2>3, DepositKeeps
  <2>5. RemoteSound(remote', chain)
    <3>1. /\ remote.nonce \in Nat /\ Nonces \subseteq Nat
          /\ remote.sent \in [Nonces -> Uint]
          /\ remote.recipient \in [Nonces -> Accounts \cup {Nobody}]
      BY <1>0, MinterAssumption DEF RemoteState, Nonces
    <3>2. /\ remote'.nonce = remote.nonce + 1
          /\ remote'.processed = remote.processed
          /\ remote'.sent = [remote.sent EXCEPT ![remote.nonce + 1] = units]
          /\ remote'.recipient
               = [remote.recipient EXCEPT ![remote.nonce + 1] = a]
      BY <1>0, <2>1 DEF AfterDeposit, RemoteState
    <3> QED
      BY <1>0, <3>1, <3>2 DEF RemoteSound
  <2> QED
    BY <1>0, <2>2, <2>4, <2>5 DEF MinterInv, TypeOK
<1>3. ASSUME NEW n \in Nonces, TransferTo(n) PROVE MinterInv'
  <2> DEFINE a == remote.recipient[n]
             t == AfterMint(evm, n, remote.sent[n], a)
  <2>1. /\ control = Nobody /\ n \in Nonces \ evm.processed
        /\ n <= remote.nonce
        /\ evm' = t /\ control' = a
        /\ UNCHANGED <<chain, remote>>
    BY <1>3 DEF TransferTo
  <2>2. a \in Accounts
    BY <1>0, <2>1 DEF RemoteSound
  <2>3. t \in ChainState /\ Ledger(t, remote) /\ Extends(t, evm)
    BY <1>0, <2>1, <2>2, MintKeeps
  <2>4. control' # Nobody
    BY <2>1, <2>2, MinterAssumption
  <2> HIDE DEF a, t
  <2>5. Extends(t, chain)
    BY <1>0, <2>1, <2>3
  <2> QED
    BY <1>0, <2>1, <2>2, <2>3, <2>4, <2>5 DEF MinterInv, TypeOK
<1>4. ASSUME NEW n \in Nonces, Release(n) PROVE MinterInv'
  <2>1. /\ n \in Nonces \ remote.processed /\ n <= chain.nonce
        /\ remote.collateral >= chain.sent[n]
        /\ remote' = AfterRelease(remote, n, chain.sent[n])
        /\ UNCHANGED <<chain, evm, control>>
    BY <1>4 DEF Release
  <2>2. evm.sent[n] = chain.sent[n]
    BY <1>0, <2>1 DEF Extends
  <2>3. /\ remote' \in RemoteState
        /\ Ledger(chain, remote') /\ Ledger(evm, remote')
    BY <1>0, <2>1, <2>2, ReleaseKeeps
  <2>4. RemoteSound(remote', chain)
    <3>1. /\ remote'.nonce = remote.nonce
          /\ remote'.processed = remote.processed \cup {n}
          /\ remote'.sent = remote.sent
          /\ remote'.recipient = remote.recipient
      BY <1>0, <2>1 DEF AfterRelease, RemoteState
    <3> QED
      BY <1>0, <2>1, <3>1 DEF RemoteSound
  <2> QED
    BY <1>0, <2>1, <2>3, <2>4 DEF MinterInv, TypeOK
<1>5. CASE RecipientReturns
  <2>1. chain' = evm /\ evm' = evm /\ control' = Nobody /\ remote' = remote
    BY <1>5 DEF RecipientReturns
  <2>2. Extends(evm, evm)
    BY <1>0, ExtendsFacts
  <2> QED
    BY <1>0, <2>1, <2>2 DEF MinterInv, TypeOK
<1>6. CASE RecipientReverts
  <2>1. chain' = chain /\ evm' = chain /\ control' = Nobody /\ remote' = remote
    BY <1>6 DEF RecipientReverts
  <2>2. Extends(chain, chain)
    BY <1>0, ExtendsFacts
  <2> QED
    BY <1>0, <2>1, <2>2 DEF MinterInv, TypeOK
<1>7. CASE ToggleAllowed
  <2> DEFINE t == [evm EXCEPT !.allowed = ~ @]
  <2>1. Perform(t) /\ UNCHANGED <<control, remote>>
    BY <1>7 DEF ToggleAllowed
  <2>2. t \in ChainState
    BY <1>0 DEF ChainState
  <2>3. /\ t.locked = evm.locked /\ t.supply = evm.supply
        /\ t.balance = evm.balance /\ t.nonce = evm.nonce
        /\ t.sent = evm.sent /\ t.processed = evm.processed
    BY <1>0 DEF ChainState
  <2>4. Ledger(t, remote)
    BY <1>0, <2>3 DEF Ledger, Backing
  <2>5. Extends(t, evm)
    BY <1>0, <2>3, ExtendsFacts DEF Extends
  <2> HIDE DEF t
  <2> QED
    BY <2>1, <2>2, <2>4, <2>5, PerformKeeps
<1>8. CASE UNCHANGED vars
  BY <1>8 DEF vars, MinterInv, TypeOK
<1> QED
  BY <1>1, <1>2, <1>3, <1>4, <1>5, <1>6, <1>7, <1>8 DEF Next

(* The inductive invariant of the bridge: the committed state and the one  *)
(* a transaction works on both balance against the other chain             *)
(* (HypNativeMinter.sol, _transferTo and _transferFromSender).             *)
THEOREM MinterInvariant == Spec => []MinterInv
BY MinterInit, MinterStep, PTL DEF Spec

-----------------------------------------------------------------------------
(* What follows                                                            *)

(* The state keeps its types: no balance, supply or locked amount of the   *)
(* contract goes below zero (solidity/contracts/HypNativeMinter.sol).      *)
THEOREM MinterTypeCorrect == Spec => []TypeOK
BY MinterInvariant, PTL DEF MinterInv

(* The collateral on the other chain is worth what is minted and what is   *)
(* under way, whatever the scale, the amounts and what recipients do.      *)
THEOREM MinterBacked == Spec => []Backed
<1>1. MinterInv => Backed
  BY DEF MinterInv, Ledger, Backed
<1> QED
  BY <1>1, MinterInvariant, PTL

(* _locked equals the net amount minted, in and between transactions.      *)
THEOREM MinterLocked == Spec => []LockedIsSupply
<1>1. MinterInv => LockedIsSupply
  BY DEF MinterInv, Ledger, LockedIsSupply
<1> QED
  BY <1>1, MinterInvariant, PTL

(* What stays in the contract is less than a unit for each transfer.       *)
THEOREM MinterKeepsDust == Spec => []OnlyDust
<1>1. MinterInv => OnlyDust
  BY DEF MinterInv, Ledger, OnlyDust
<1> QED
  BY <1>1, MinterInvariant, PTL

(* Every message under way can be honoured: neither the checked arithmetic *)
(* of a delivery nor the collateral of a release can stop it.              *)
THEOREM MinterHonourable == Spec => []Honourable
<1>1. ASSUME MinterInv PROVE Honourable
  <2> DEFINE inbound == Total(InFlight(remote.sent, chain.processed))
             outbound == Total(InFlight(chain.sent, remote.processed))
  <2>1. /\ chain \in ChainState /\ remote \in RemoteState
        /\ chain.locked = chain.supply
        /\ Minted(remote.collateral) = chain.supply + Minted(inbound + outbound)
    BY <1>1 DEF MinterInv, TypeOK, Ledger, Backing
  <2>2. /\ remote.sent \in [Nonces -> Uint] /\ chain.sent \in [Nonces -> Uint]
        /\ remote.processed \in SUBSET Nonces
        /\ chain.processed \in SUBSET Nonces
        /\ remote.collateral \in Nat /\ remote.collateral <= RemoteSupply
        /\ chain.supply \in Nat
    BY <2>1, MinterAssumption DEF ChainState, RemoteState
  <2>3. inbound \in Nat /\ outbound \in Nat
    BY <2>2, InFlightTotal
  <2>4. Minted(remote.collateral) <= MaxUint
    <3>1. Minted(remote.collateral) <= Minted(RemoteSupply)
      BY <2>2, MintedFacts, MinterAssumption
    <3>2. /\ Minted(remote.collateral) \in Nat /\ Minted(RemoteSupply) \in Nat
          /\ Minted(RemoteSupply) <= MaxUint
      BY <2>2, MintedFacts, MinterAssumption DEF Minted
    <3> QED
      BY <3>1, <3>2, MinterAssumption
  <2> HIDE DEF inbound, outbound
  <2>5. ASSUME NEW n \in Nonces, n \notin chain.processed
        PROVE  chain.locked + Minted(remote.sent[n]) <= MaxUint
    <3>1. /\ remote.sent[n] \in Nat
          /\ remote.sent[n] <= inbound + outbound
          /\ inbound + outbound \in Nat
      BY <2>2, <2>3, <2>5, InFlightTotal, MinterAssumption DEF inbound, Uint
    <3>2. /\ Minted(remote.sent[n]) <= Minted(inbound + outbound)
          /\ Minted(remote.sent[n]) \in Nat /\ Minted(inbound + outbound) \in Nat
      BY <3>1, MintedFacts
    <3> QED
      BY <2>1, <2>2, <2>4, <3>2, MinterAssumption
  <2>6. ASSUME NEW n \in Nonces, n \notin remote.processed
        PROVE  chain.sent[n] <= remote.collateral
    <3>1. /\ chain.sent[n] \in Nat
          /\ chain.sent[n] <= inbound + outbound
          /\ inbound + outbound \in Nat
      BY <2>2, <2>3, <2>6, InFlightTotal, MinterAssumption DEF outbound, Uint
    <3>2. /\ Minted(inbound + outbound) \in Nat
          /\ Minted(remote.collateral) \in Nat
      BY <2>2, <3>1, MintedFacts
    <3>3. Minted(inbound + outbound) <= Minted(remote.collateral)
      BY <2>1, <2>2, <3>2
    <3>4. inbound + outbound <= remote.collateral
      BY <2>2, <3>1, <3>3, MintedFacts
    <3> QED
      BY <2>2, <3>1, <3>4
  <2> QED
    BY <2>5, <2>6 DEF Honourable
<1> QED
  BY <1>1, MinterInvariant, PTL

(* The contract's balance never falls: nobody's dust pays for a transfer.  *)
THEOREM MinterSavesDust == Spec => DustIsNotSpent
<1>1. ASSUME MinterInv, MinterInv', [Next]_vars
      PROVE  [chain'.balance >= chain.balance]_vars
  <2>0. /\ chain \in ChainState /\ evm \in ChainState /\ remote \in RemoteState
        /\ Extends(evm, chain)
        /\ chain.balance \in Nat /\ evm.balance \in Nat /\ evm'.balance \in Nat
        /\ \A n \in remote.processed : n <= evm.nonce
        /\ Ledger(evm, remote)
        /\ control = Nobody => evm = chain
    BY <1>1, ExtendsFacts DEF MinterInv, TypeOK, ChainState, RemoteSound
  <2>1. CASE chain' = chain
    BY <2>0, <2>1
  <2>2. CASE RecipientReturns
    BY <2>0, <2>2 DEF RecipientReturns, Extends
  <2>3. ASSUME NEW a \in Accounts, TransferRemote(a), control = Nobody
        PROVE  chain'.balance >= chain.balance
    <3>1. PICK value \in Uint, amount \in Uint :
            /\ TransferAllowed(evm, a, value, amount)
            /\ Perform(AfterTransfer(evm, a, value, amount))
      BY <2>3 DEF TransferRemote
    <3>2. Extends(AfterTransfer(evm, a, value, amount), evm)
      BY <2>0, <3>1, TransferKeeps
    <3>3. chain' = AfterTransfer(evm, a, value, amount)
          /\ evm' = chain'
      BY <2>3, <3>1 DEF Perform
    <3> QED
      BY <2>0, <2>3, <3>2, <3>3 DEF Extends
  <2>4. CASE ToggleAllowed
    BY <2>0, <2>4 DEF ToggleAllowed, Perform, ChainState
  <2>5. \/ chain' = chain \/ RecipientReturns \/ ToggleAllowed
        \/ \E a \in Accounts : TransferRemote(a) /\ control = Nobody
    BY <1>1 DEF Next, vars, TransferRemote, Deposit, TransferTo, Release,
                RecipientReverts, Perform
  <2> QED
    BY <2>1, <2>2, <2>3, <2>4, <2>5
<1> QED
  BY <1>1, MinterInvariant, PTL DEF Spec, DustIsNotSpent
=============================================================================
