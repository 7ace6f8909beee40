---------------------------- MODULE LegacyLaunch ----------------------------
(***************************************************************************)
(* The first version of the program, program/programs/sames/src: a presale *)
(* in which each buyer deposits once into the pool's own account, and      *)
(* anybody may finalise a buyer after the window closes.  Its sell checks  *)
(* a price and changes no account, so it is no action; tokens move by      *)
(* Token-2022 transfers, watched by the hook of transfer_hook.rs.          *)
(***************************************************************************)
EXTENDS Integers, FiniteSets, Functions

CONSTANTS
  Wallets,
  NoWallet,
  MaxU64,            \* u64::MAX
  MaxU32,            \* u32::MAX, the limit of buyer_count
  MinWindow,         \* the literals 10 and 120 of create_launch
  MaxWindow,
  RecordPassed,      \* whether transfers pass the hook the sender's record
  InitialLamports,   \* what each wallet starts with
  MaxClock,          \* bound of the model on the clock
  \* Arguments the model tries:
  Prices, Supplies, Windows, Deposits, TransferAmounts

U64 == 0 .. MaxU64

ASSUME LegacyAssumptions ==
  /\ IsFiniteSet(Wallets)
  /\ NoWallet \notin Wallets
  /\ MaxU64 \in Nat \ {0}
  /\ {MaxU32, MinWindow, MaxWindow, InitialLamports, MaxClock} \subseteq Nat
  /\ MinWindow > 0
  /\ RecordPassed \in BOOLEAN
  /\ Prices \cup Supplies \cup Deposits \cup TransferAmounts \subseteq U64
  /\ Windows \subseteq Nat

VARIABLES
  clock,      \* Clock::unix_timestamp
  launch,     \* the LaunchPool account
  record,     \* the BuyerRecord account of each wallet
  opened,     \* wallets whose BuyerRecord account exists
  escrow,     \* lamports deposited in the pool's account
  lamports,   \* lamports of each wallet
  supply,     \* supply of the mint
  holding     \* tokens of each wallet

vars == <<clock, launch, record, opened, escrow, lamports, supply, holding>>

LaunchStatus == {"Uncreated", "Presale", "Live", "Cancelled"}

LaunchPool ==
  [creator : Wallets \cup {NoWallet}, price_lamports : U64, total_supply : U64,
   presale_start : Nat, presale_end : Nat, total_sol_collected : U64,
   buyer_count : 0 .. MaxU32, status : LaunchStatus]

BuyerRecord ==
  [sol_deposited : U64, entry_price : U64, tokens_allocated : U64,
   tokens_remaining : U64, finalized : BOOLEAN]

NoLaunch ==
  [creator |-> NoWallet, price_lamports |-> 0, total_supply |-> 0,
   presale_start |-> 0, presale_end |-> 0, total_sol_collected |-> 0,
   buyer_count |-> 0, status |-> "Uncreated"]

NoRecord ==
  [sol_deposited |-> 0, entry_price |-> 0, tokens_allocated |-> 0,
   tokens_remaining |-> 0, finalized |-> FALSE]

Init ==
  /\ clock = 0
  /\ launch = NoLaunch
  /\ record = [w \in Wallets |-> NoRecord]
  /\ opened = {}
  /\ escrow = 0
  /\ lamports = [w \in Wallets |-> InitialLamports]
  /\ supply = 0
  /\ holding = [w \in Wallets |-> 0]

-----------------------------------------------------------------------------
\* Mutant: an operation that is not checked.
FitsUnchecked(n) == n = n

\* A checked operation's result is representable.
Fits(n) == n <= MaxU64

\* Instructions, each of them atomic.

CreateLaunch(creator, price, tokens, presale_seconds) ==
  /\ launch.status = "Uncreated"
  /\ price > 0
  /\ tokens > 0
  /\ presale_seconds \in MinWindow .. MaxWindow
  /\ launch' = [NoLaunch EXCEPT !.creator = creator,
                                !.price_lamports = price,
                                !.total_supply = tokens,
                                !.presale_start = clock,
                                !.presale_end = clock + presale_seconds,
                                !.status = "Presale"]
  /\ UNCHANGED <<clock, record, opened, escrow, lamports, supply, holding>>

\* Mutant: the record is created if needed, so a buyer may come again.
NewBuyerIfNeeded(buyer) == buyer \in Wallets

\* `init` of the record's account fails when the account exists.
NewBuyer(buyer) == buyer \notin opened

BuyPresale(buyer, sol_amount) ==
  /\ sol_amount > 0
  /\ launch.status = "Presale"
  /\ launch.presale_start <= clock /\ clock < launch.presale_end
  /\ NewBuyer(buyer)
  /\ sol_amount <= lamports[buyer]
  /\ Fits(launch.total_sol_collected + sol_amount)
  /\ launch.buyer_count < MaxU32
  /\ lamports' = [lamports EXCEPT ![buyer] = @ - sol_amount]
  /\ escrow' = escrow + sol_amount
  /\ launch' = [launch EXCEPT !.total_sol_collected = @ + sol_amount,
                              !.buyer_count = @ + 1]
  /\ record' = [record EXCEPT ![buyer] =
                  [NoRecord EXCEPT !.sol_deposited = sol_amount,
                                   !.entry_price = launch.price_lamports]]
  /\ opened' = opened \cup {buyer}
  /\ UNCHANGED <<clock, supply, holding>>

\* Mutant: the share is rounded up.
AllocationUp(deposited) ==
  ((deposited * launch.total_supply + launch.total_sol_collected - 1)
     \div launch.total_sol_collected) % (MaxU64 + 1)

\* A buyer's share of the supply; the cast to u64 truncates.
Allocation(deposited) ==
  ((deposited * launch.total_supply) \div launch.total_sol_collected) % (MaxU64 + 1)

\* Mutant: the first finalised buyer opens the market, as the comment above
\* finalize_buyer says ("Transitions status to Live").
LiveAfterFinalize == [launch EXCEPT !.status = "Live"]

\* finalize_buyer takes the pool without mut: it stays as it is.
LaunchAfterFinalize == launch

\* Mutant: nothing remembers the finalisation.
ToFinalizeAgain(buyer) == buyer \in opened

\* The record exists and its flag is not set.
ToFinalize(buyer) == buyer \in opened /\ ~ record[buyer].finalized

\* finalize_buyer succeeds for buyer: its checks, the accounts' and the mint's.
CanFinalize(buyer) ==
  /\ clock >= launch.presale_end
  /\ launch.status = "Presale"
  /\ ToFinalize(buyer)
  /\ launch.total_sol_collected > 0                             \* checked_div
  /\ Fits(supply + Allocation(record[buyer].sol_deposited))    \* token_2022::mint_to

\* Anybody may submit it.  The token account minted to is the caller's
\* choice: the accounts struct does not tie it to the record.
FinalizeBuyer(buyer, to) ==
  LET tokens == Allocation(record[buyer].sol_deposited)
  IN
  /\ CanFinalize(buyer)
  /\ record' = [record EXCEPT ![buyer].tokens_allocated = tokens,
                              ![buyer].tokens_remaining = tokens,
                              ![buyer].finalized = TRUE]
  /\ supply' = supply + tokens
  /\ holding' = [holding EXCEPT ![to] = @ + tokens]
  /\ launch' = LaunchAfterFinalize
  /\ UNCHANGED <<clock, opened, escrow, lamports>>

\* execute_transfer_hook returns Ok.
HookAllows(authority, amount) ==
  RecordPassed /\ authority \in opened => amount <= record[authority].tokens_remaining

Transfer(owner, destination, amount) ==
  /\ owner # destination
  /\ amount <= holding[owner]
  /\ HookAllows(owner, amount)
  /\ holding' = [holding EXCEPT ![owner] = @ - amount, ![destination] = @ + amount]
  /\ UNCHANGED <<clock, launch, record, opened, escrow, lamports, supply>>

Tick ==
  /\ clock < MaxClock
  /\ clock' = clock + 1
  /\ UNCHANGED <<launch, record, opened, escrow, lamports, supply, holding>>

Next ==
  \/ Tick
  \/ \E w \in Wallets :
       \/ \E p \in Prices, s \in Supplies, t \in Windows : CreateLaunch(w, p, s, t)
       \/ \E a \in Deposits : BuyPresale(w, a)
       \/ \E to \in Wallets : FinalizeBuyer(w, to)
       \/ \E to \in Wallets, n \in TransferAmounts : Transfer(w, to, n)

Spec == Init /\ [][Next]_vars

-----------------------------------------------------------------------------
(***************************************************************************)
(* Properties                                                              *)
(***************************************************************************)

TypeOK ==
  /\ clock \in Nat
  /\ launch \in LaunchPool
  /\ record \in [Wallets -> BuyerRecord]
  /\ opened \subseteq Wallets
  /\ escrow \in Nat
  /\ lamports \in [Wallets -> Nat]
  /\ supply \in U64
  /\ holding \in [Wallets -> Nat]

\* The pool's totals, the lamports in its account and the records agree, one
\* deposit after the other: what is divided is what was paid, by as many
\* buyers as are counted.
PoolCountsDeposits ==
  /\ launch.total_sol_collected = SumFunction([w \in Wallets |-> record[w].sol_deposited])
  /\ escrow = launch.total_sol_collected
  /\ launch.buyer_count = Cardinality(opened)

\* The mint issues the shares on the records and nothing else, and they fit
\* the launch's supply: whoever finalises whom, in whatever order, however
\* often.  (The current program breaks this: MintsWithinSupply.)
MintedIsHandedOut ==
  /\ supply = SumFunction([w \in Wallets |-> record[w].tokens_allocated])
  /\ supply <= launch.total_supply

\* Once the window has closed, finalize_buyer succeeds for every depositor who
\* has not been finalised, whoever else was before and wherever their tokens
\* went.  (In the current program start_bonding_curve closes it to them:
\* DepositorsAllocatedBeforeCurve.)
FinalizationStaysOpen ==
  launch.status # "Uncreated" /\ clock >= launch.presale_end
    => \A b \in opened : record[b].finalized \/ CanFinalize(b)

-----------------------------------------------------------------------------
\* What the launch promises.  Its market never opens on chain: a sale is left
\* to a venue outside, and total_supply is all there ever is.

Phase ==
  CASE launch.status = "Uncreated"                                   -> "none"
    [] launch.status = "Presale" /\ clock < launch.presale_end       -> "open"
    [] launch.status = "Presale" /\ ~ (clock < launch.presale_end)   -> "closed"
    [] launch.status = "Live"                                        -> "trading"
    [] launch.status = "Cancelled"                                   -> "over"

Fair == INSTANCE FairLaunch WITH
  Buyers  <- Wallets,
  Amounts <- U64,
  phase   <- Phase,
  stock   <- launch.total_supply,
  pot     <- launch.total_sol_collected,
  deposit <- [w \in Wallets |-> record[w].sol_deposited],
  share   <- [w \in Wallets |-> record[w].tokens_allocated],
  bought  <- [w \in Wallets |-> 0],
  sold    <- [w \in Wallets |-> 0]

\* The first version keeps the promises of FairLaunch up to the market.
ImplementsFairLaunch == Fair!Spec

=============================================================================
