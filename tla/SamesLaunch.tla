---------------------------- MODULE SamesLaunch -----------------------------
(***************************************************************************)
(* The on-chain program of programs/sames/src/lib.rs for one launch: its   *)
(* LaunchPool, MarketRegistry and BuyerRecord accounts, the SOL vault, and *)
(* the Token-2022 mint and token accounts it mints to and burns from.      *)
(*                                                                         *)
(* Every instruction is one action: Solana runs an instruction's handler   *)
(* atomically, and a failed require!, checked operation or call undoes all *)
(* of it.  So each `?` and require! is a conjunct of the guard, and a step *)
(* that fails is no step.  Any wallet may submit any instruction at any    *)
(* time, so the interleaving of instructions is the model's concurrency.   *)
(***************************************************************************)
EXTENDS BondingCurve, Sequences, FiniteSets, Functions

CONSTANTS
  Wallets,              \* signers: creators, buyers, sellers
  Markets,              \* keys a creator may register as market accounts
  NoWallet,             \* creator field of a pool that does not exist yet
  PresaleDuration,      \* PRESALE_DURATION
  GraduationThreshold,  \* DEFAULT_GRADUATION_THRESHOLD
  Slope,                \* DEFAULT_SLOPE
  PlatformFeeBps,       \* PLATFORM_FEE_BPS
  BpsDenominator,       \* the literal 10_000 of the fee
  MaxMarkets,           \* MarketRegistry::MAX_MARKETS
  MaxU32,               \* u32::MAX, the limit of buyer_count
  VaultOwner,           \* program owning the vault account: "system" or "sames"
  InitialLamports,      \* what each wallet starts with
  MaxClock,             \* bound of the model on the clock
  \* Arguments the model tries for each instruction:
  Supplies, Prices, NewPrices, Deposits, BuyAmounts, SellAmounts

ASSUME LaunchAssumptions ==
  /\ IsFiniteSet(Wallets)
  /\ NoWallet \notin Wallets
  /\ PresaleDuration \in Nat \ {0}
  /\ {GraduationThreshold, Slope, MaxMarkets, MaxU32, InitialLamports, MaxClock} \subseteq Nat
  /\ PlatformFeeBps \in Nat
  /\ BpsDenominator \in Nat \ {0}
  /\ PlatformFeeBps < BpsDenominator
  /\ VaultOwner \in {"system", "sames"}
  /\ {Slope, GraduationThreshold} \subseteq U64
  /\ Supplies \cup Prices \cup NewPrices \cup Deposits
       \cup BuyAmounts \cup SellAmounts \subseteq U64

VARIABLES
  clock,     \* Clock::unix_timestamp
  pool,      \* the LaunchPool account
  registry,  \* the MarketRegistry account
  record,    \* the BuyerRecord account of each wallet
  opened,    \* wallets whose BuyerRecord account exists
  vault,     \* lamports held by the vault
  lamports,  \* lamports held by each wallet
  supply,    \* supply of the Token-2022 mint
  holding    \* tokens in the token account of each wallet and market

chain == <<pool, registry, record, opened, vault, lamports, supply, holding>>
vars == <<clock, chain>>

Holders == Wallets \cup Markets

LaunchStatus == {"Uncreated", "Presale", "BondingCurve", "Graduated", "Closed"}

\* slope_scaled and graduation_threshold are set once from constants and are
\* the constants Slope and GraduationThreshold here.
LaunchPool ==
  [creator : Wallets \cup {NoWallet}, status : LaunchStatus,
   total_supply : U64, price_lamports : U64,
   tokens_sold_curve : U64, curve_sol_collected : U64,
   start_time : Nat, end_time : Nat,
   total_sol_collected : U64, buyer_count : 0 .. MaxU32]

BuyerRecord ==
  [sol_deposited : U64, entry_price : U64, tokens_allocated : U64,
   tokens_sold : U64, curve_sol_spent : U64, curve_tokens_bought : U64]

MarketRegistry ==
  [authority : Wallets \cup {NoWallet}, market_accounts : Seq(Markets)]

NoPool ==
  [creator |-> NoWallet, status |-> "Uncreated",
   total_supply |-> 0, price_lamports |-> 0,
   tokens_sold_curve |-> 0, curve_sol_collected |-> 0,
   start_time |-> 0, end_time |-> 0,
   total_sol_collected |-> 0, buyer_count |-> 0]

\* A BuyerRecord as init_if_needed allocates it: all zero.
EmptyRecord ==
  [sol_deposited |-> 0, entry_price |-> 0, tokens_allocated |-> 0,
   tokens_sold |-> 0, curve_sol_spent |-> 0, curve_tokens_bought |-> 0]

Init ==
  /\ clock = 0
  /\ pool = NoPool
  /\ registry = [authority |-> NoWallet, market_accounts |-> <<>>]
  /\ record = [w \in Wallets |-> EmptyRecord]
  /\ opened = {}
  /\ vault = 0
  /\ lamports = [w \in Wallets |-> InitialLamports]
  /\ supply = 0
  /\ holding = [h \in Holders |-> 0]

-----------------------------------------------------------------------------
\* Effects of the programs the handlers call.

\* system_program::transfer from a signing wallet to the vault.
TransferToVault(w, amount) ==
  /\ amount <= lamports[w]
  /\ lamports' = [lamports EXCEPT ![w] = @ - amount]
  /\ vault' = vault + amount

\* Mutant: the runtime lets any program debit the vault.
DebitAnyVault(w, amount) ==
  /\ amount <= vault
  /\ lamports' = [lamports EXCEPT ![w] = @ + amount]
  /\ vault' = vault - amount

\* The direct lamport moves of sell_curve: the subtraction is checked
\* (overflow-checks = true), and the runtime rejects an instruction that
\* lowers the balance of an account its program does not own.
DebitVault(w, amount) ==
  /\ amount <= vault
  /\ VaultOwner = "sames" \/ amount = 0
  /\ lamports' = [lamports EXCEPT ![w] = @ + amount]
  /\ vault' = vault - amount

\* token_2022::mint_to a token account of the mint.
MintTo(to, tokens) ==
  /\ Fits(supply + tokens)
  /\ supply' = supply + tokens
  /\ holding' = [holding EXCEPT ![to] = @ + tokens]

\* token_2022::burn from a token account of the seller; both of its
\* subtractions are checked.
Burn(from, tokens) ==
  /\ tokens <= holding[from]
  /\ tokens <= supply
  /\ supply' = supply - tokens
  /\ holding' = [holding EXCEPT ![from] = @ - tokens]

-----------------------------------------------------------------------------
\* Helpers the handlers share.

\* Mutant: the second of the deadline still belongs to the window.
InPresaleWindowInclusive(now) == now >= pool.start_time /\ now <= pool.end_time

InPresaleWindow(now) == now >= pool.start_time /\ now < pool.end_time

is_presale_over(now) == now >= pool.end_time

\* Mutant: trading does not stop at graduation.
InBondingCurveOrLater == pool.status \in {"BondingCurve", "Graduated"}

InBondingCurve == pool.status = "BondingCurve"

IsCreator(signer) == pool.creator = signer

\* Mutant: a record is fresh when it has no presale deposit.
FirstBuyByDeposit(w) == record[w].sol_deposited = 0

\* Mutant: the first deposit is told by the allocation it has not got yet.
FirstBuyByTokens(w) == record[w].tokens_allocated + record[w].curve_tokens_bought = 0

\* The test by which both buys tell a fresh record from a used one.
FirstBuy(w) == record[w].sol_deposited = 0 /\ record[w].curve_sol_spent = 0

\* Mutant: a second deposit replaces the first.
WithOnlyDeposit(r, sol_amount) == [r EXCEPT !.sol_deposited = sol_amount]

\* record.sol_deposited.checked_add(sol_amount)
WithDeposit(r, sol_amount) == [r EXCEPT !.sol_deposited = @ + sol_amount]

\* A presale buyer's share of the supply; the cast to u64 truncates.
Allocation(deposited) ==
  ((deposited * pool.total_supply) \div pool.total_sol_collected) % (MaxU64 + 1)

\* Mutant: what was sold already is not deducted.
AvailableEver(w) == SatAdd(record[w].tokens_allocated, record[w].curve_tokens_bought)

\* Tokens a record still entitles its buyer to sell on the curve.
Available(w) ==
  SatSub(SatAdd(record[w].tokens_allocated, record[w].curve_tokens_bought),
         record[w].tokens_sold)

\* Mutant: the average forgets what the presale tokens cost.
AverageCurveEntry(r) ==
  r.curve_sol_spent \div SatAdd(r.tokens_allocated, r.curve_tokens_bought)

\* Entry price of a record that has bought on the curve.
AverageEntry(r) ==
  SatAdd(r.sol_deposited, r.curve_sol_spent)
    \div SatAdd(r.tokens_allocated, r.curve_tokens_bought)

SpotPrice == bonding_curve_price(pool.price_lamports, Slope, pool.tokens_sold_curve)

\* Mutant: a sale is priced above the current position, as a buy is.
SellRawUpwards(amount) ==
  bonding_curve_cost(pool.price_lamports, Slope, pool.tokens_sold_curve, amount)

\* Lamports a sale of amount is worth, the fee, and what is paid out.
SellRaw(amount) ==
  bonding_curve_cost(pool.price_lamports, Slope,
                     SatSub(pool.tokens_sold_curve, amount), amount)

Fee(raw) == (raw * PlatformFeeBps) \div BpsDenominator

\* Mutant: the fee is paid to the seller.
SellReturnWithBonus(amount) == SellRaw(amount) + Fee(SellRaw(amount))

SellReturn(amount) == SatSub(SellRaw(amount), Fee(SellRaw(amount)))

-----------------------------------------------------------------------------
\* Instructions.

CreateLaunch(creator, total_supply, price) ==
  /\ pool.status = "Uncreated"
  /\ total_supply > 0
  /\ price > 0
  /\ pool' = [NoPool EXCEPT !.creator = creator,
                            !.status = "Presale",
                            !.total_supply = total_supply,
                            !.price_lamports = price,
                            !.start_time = clock,
                            !.end_time = clock + PresaleDuration]
  /\ registry' = [authority |-> creator, market_accounts |-> <<>>]
  /\ UNCHANGED <<clock, record, opened, vault, lamports, supply, holding>>

BuyPresale(buyer, sol_amount) ==
  LET first == FirstBuy(buyer)
      old == IF first
             THEN [EmptyRecord EXCEPT !.sol_deposited = record[buyer].sol_deposited,
                                      !.entry_price = pool.price_lamports]
             ELSE record[buyer]
  IN
  /\ sol_amount > 0
  /\ InPresaleWindow(clock)
  /\ pool.status = "Presale"
  /\ TransferToVault(buyer, sol_amount)
  /\ Fits(pool.total_sol_collected + sol_amount)
  /\ first => pool.buyer_count < MaxU32
  /\ Fits(old.sol_deposited + sol_amount)
  /\ pool' = [pool EXCEPT !.total_sol_collected = @ + sol_amount,
                          !.buyer_count = IF first THEN @ + 1 ELSE @]
  /\ record' = [record EXCEPT ![buyer] = WithDeposit(old, sol_amount)]
  /\ opened' = opened \cup {buyer}
  /\ UNCHANGED <<clock, registry, supply, holding>>

\* Allocates one presale buyer's tokens.  The token account minted to is the
\* caller's choice, a market's among them: the accounts struct does not tie it
\* to the record.
FinalizeLaunch(signer, buyer, to) ==
  LET tokens == Allocation(record[buyer].sol_deposited)
  IN
  /\ buyer \in opened
  /\ IsCreator(signer)
  /\ is_presale_over(clock)
  /\ pool.status = "Presale"
  /\ record[buyer].sol_deposited > 0
  /\ pool.total_sol_collected > 0     \* checked_div
  /\ record' = [record EXCEPT ![buyer].tokens_allocated = tokens,
                              ![buyer].entry_price = pool.price_lamports]
  /\ MintTo(to, tokens)
  /\ UNCHANGED <<clock, pool, registry, opened, vault, lamports>>

StartBondingCurve(signer) ==
  /\ IsCreator(signer)
  /\ pool.status = "Presale"
  /\ is_presale_over(clock)
  /\ pool' = [pool EXCEPT !.status = "BondingCurve"]
  /\ UNCHANGED <<clock, registry, record, opened, vault, lamports, supply, holding>>

BuyCurve(buyer, sol_amount, to) ==
  LET sold == pool.tokens_sold_curve
      tokens == bonding_curve_tokens_for_sol(pool.price_lamports, Slope, sold, sol_amount)
      cost == bonding_curve_cost(pool.price_lamports, Slope, sold, tokens)
      first == FirstBuy(buyer)
      old == IF first
             THEN [record[buyer] EXCEPT !.tokens_allocated = 0, !.tokens_sold = 0]
             ELSE record[buyer]
      new == [old EXCEPT !.curve_sol_spent = @ + cost,
                         !.curve_tokens_bought = @ + tokens]
  IN
  /\ sol_amount > 0
  /\ InBondingCurve
  /\ tokens \in 1 .. MaxU64
  /\ Fits(cost)
  /\ cost <= sol_amount
  /\ TransferToVault(buyer, cost)
  /\ MintTo(to, tokens)
  /\ Fits(sold + tokens)
  /\ Fits(pool.curve_sol_collected + cost)
  /\ first => pool.buyer_count < MaxU32
  /\ Fits(new.curve_sol_spent)
  /\ Fits(new.curve_tokens_bought)
  /\ pool' = [pool EXCEPT !.tokens_sold_curve = @ + tokens,
                          !.curve_sol_collected = @ + cost,
                          !.buyer_count = IF first THEN @ + 1 ELSE @]
  /\ record' = [record EXCEPT ![buyer] = [new EXCEPT !.entry_price = AverageEntry(new)]]
  /\ opened' = opened \cup {buyer}
  /\ UNCHANGED <<clock, registry>>

\* The conditions sell_curve itself tests before it moves anything.
SellAllowed(seller, amount) ==
  /\ seller \in opened
  /\ amount > 0
  /\ InBondingCurve
  /\ amount <= Available(seller)
  /\ SpotPrice >= record[seller].entry_price
  /\ Fits(SellRaw(amount))
  /\ Fits(SellRaw(amount) * PlatformFeeBps)

SellCurve(seller, amount) ==
  /\ SellAllowed(seller, amount)
  /\ DebitVault(seller, SellReturn(amount))
  /\ pool' = [pool EXCEPT !.tokens_sold_curve = SatSub(@, amount),
                          !.curve_sol_collected = SatSub(@, SellRaw(amount))]
  /\ Fits(record[seller].tokens_sold + amount)
  /\ record' = [record EXCEPT ![seller].tokens_sold = @ + amount]
  /\ Burn(seller, amount)
  /\ UNCHANGED <<clock, registry, opened>>

\* Permissionless.
Graduate ==
  /\ InBondingCurve
  /\ pool.curve_sol_collected >= GraduationThreshold
  /\ pool' = [pool EXCEPT !.status = "Graduated"]
  /\ UNCHANGED <<clock, registry, record, opened, vault, lamports, supply, holding>>

UpdatePrice(signer, new_price) ==
  /\ IsCreator(signer)
  /\ new_price > 0
  /\ pool' = [pool EXCEPT !.price_lamports = new_price]
  /\ UNCHANGED <<clock, registry, record, opened, vault, lamports, supply, holding>>

RegisterMarket(signer, market_account) ==
  /\ registry.authority = signer
  /\ Len(registry.market_accounts) < MaxMarkets
  /\ registry' = [registry EXCEPT !.market_accounts = Append(@, market_account)]
  /\ UNCHANGED <<clock, pool, record, opened, vault, lamports, supply, holding>>

\* The cluster's clock does not go back.
Tick ==
  /\ clock < MaxClock
  /\ clock' = clock + 1
  /\ UNCHANGED chain

Next ==
  \/ Tick
  \/ Graduate
  \/ \E w \in Wallets :
       \/ \E s \in Supplies, p \in Prices : CreateLaunch(w, s, p)
       \/ \E a \in Deposits : BuyPresale(w, a)
       \/ \E b \in Wallets, to \in Holders : FinalizeLaunch(w, b, to)
       \/ StartBondingCurve(w)
       \/ \E a \in BuyAmounts, to \in Holders : BuyCurve(w, a, to)
       \/ \E a \in SellAmounts : SellCurve(w, a)
       \/ \E p \in NewPrices : UpdatePrice(w, p)
       \/ \E m \in Markets : RegisterMarket(w, m)

Spec == Init /\ [][Next]_vars

-----------------------------------------------------------------------------
(***************************************************************************)
(* Properties                                                              *)
(***************************************************************************)

\* A field of the records summed over all buyers.
Total(field) == SumFunction([w \in Wallets |-> record[w][field]])

\* Every account holds what its Rust type can hold: the checked operations of
\* lib.rs stop every sequence of instructions before a counter leaves u64.
TypeOK ==
  /\ clock \in Nat
  /\ pool \in LaunchPool
  /\ registry \in MarketRegistry
  /\ Len(registry.market_accounts) <= MaxMarkets
  /\ record \in [Wallets -> BuyerRecord]
  /\ opened \subseteq Wallets
  /\ vault \in Nat
  /\ lamports \in [Wallets -> Nat]
  /\ supply \in U64
  /\ holding \in [Holders -> Nat]

\* buy_presale updates the pool and one record separately; the denominator
\* of every allocation stays the sum of the deposits it divides.
DepositsAddUp ==
  pool.total_sol_collected = Total("sol_deposited")

\* The shares finalize_launch computes, one buyer at a time and at
\* different times, never add up to more than the supply they divide.
AllocationsWithinSupply ==
  Total("tokens_allocated") <= pool.total_supply

\* Buyers who have been finalised, whenever each was and in whatever order,
\* got the same tokens per lamport, to within the rounding of one token.
EqualSharesPerLamport ==
  \A v, w \in Wallets :
    LET share(u) == record[u].tokens_allocated
    IN  share(v) > 0 /\ share(w) > 0
          => share(v) * record[w].sol_deposited
               <= (share(w) + 1) * record[v].sol_deposited

\* The counter that decides graduation is lamports the vault still holds,
\* whatever presale and curve tokens were sold back at whatever price.
VaultCoversCurve == vault >= pool.curve_sol_collected

\* What rounding may have cost the vault: each buy less than a lamport, and
\* nothing where the curve's division by 2 * Scale is exact.
RoundedAway == IF Slope % (2 * Scale) = 0 THEN 0 ELSE Total("curve_tokens_bought")

\* The vault can pay for selling the whole curve position back.
CurveSolvent ==
  vault + RoundedAway
    >= bonding_curve_cost(pool.price_lamports, Slope, 0, pool.tokens_sold_curve)

\* Nothing but update_price ends the vault's ability to pay: no sequence of
\* buys and sales does, of presale tokens either, over the fees, the rounding
\* and the saturation of the position at zero.
SolvencyKept ==
  [][CurveSolvent /\ pool'.price_lamports = pool.price_lamports => CurveSolvent']_vars

\* buyer_count, kept by both kinds of buy, counts each buyer once.
BuyerCountExact == pool.buyer_count = Cardinality(opened)

\* sell_curve never lets a buyer sell more than the buyer was allocated and
\* bought, over any sequence of buys, finalisations and sales.
SoldWithinBought ==
  \A w \in Wallets :
    record[w].tokens_sold <= record[w].tokens_allocated + record[w].curve_tokens_bought

\* The position on the curve agrees with the buyers' records: it is at most
\* what was bought on the curve and at least that less everything sold
\* (sales of presale tokens also move it down, saturating at zero).
CurvePositionMatchesRecords ==
  LET bought == Total("curve_tokens_bought")
      sold   == Total("tokens_sold")
  IN  /\ pool.tokens_sold_curve <= bought
      /\ bought <= pool.tokens_sold_curve + sold

\* All tokens the records still entitle buyers to sell exist in the mint, as
\* far as the program's own mints and burns go.
EntitlementsBacked == SumFunction([w \in Wallets |-> Available(w)]) <= supply

\* What a buyer paid in all and was given for it in all.
Paid(w) == record[w].sol_deposited + record[w].curve_sol_spent
Given(w) == record[w].tokens_allocated + record[w].curve_tokens_bought

\* The floor of a buyer who bought on the curve is the average over
\* everything the buyer paid and was given, presale included (where the two
\* sums fit u64): no later finalize_launch or buy_presale overwrites it.
EntryIsAverage ==
  \A w \in Wallets :
    record[w].curve_tokens_bought > 0 /\ Fits(Paid(w)) /\ Fits(Given(w))
      => record[w].entry_price = Paid(w) \div Given(w)

\* Before create_launch there is no pool to buy from.
NothingBeforeLaunch == pool.status = "Uncreated" => pool = NoPool /\ opened = {}

\* A record exists once its wallet has paid, and tells so: a record the buys
\* take for fresh has no tokens on it.
RecordsTellBuyers ==
  \A w \in Wallets :
    /\ w \in opened <=> ~ FirstBuy(w)
    /\ FirstBuy(w) => /\ record[w].tokens_allocated = 0
                      /\ record[w].tokens_sold = 0
                      /\ record[w].curve_tokens_bought = 0

\* No record shows curve trades before the curve opens.
NoTradesBeforeCurve ==
  pool.status \in {"Uncreated", "Presale"}
    => \A w \in Wallets : /\ record[w].tokens_sold = 0
                         /\ record[w].curve_sol_spent = 0
                         /\ record[w].curve_tokens_bought = 0

\* An allocation on a record is its buyer's share of the deposits as they
\* stand, and the deposits no longer change.
AllocationIsShare ==
  \A w \in Wallets :
    record[w].tokens_allocated > 0
      => /\ pool.status # "Uncreated"
         /\ is_presale_over(clock)
         /\ record[w].sol_deposited > 0
         /\ record[w].tokens_allocated = Allocation(record[w].sol_deposited)

\* A launch always has a price.
PricePositive == pool.status # "Uncreated" => pool.price_lamports > 0

\* What makes the properties above and below inductive: the facts the
\* handlers rely on without testing them.
LaunchInvariant ==
  /\ NothingBeforeLaunch
  /\ RecordsTellBuyers
  /\ NoTradesBeforeCurve
  /\ AllocationIsShare
  /\ PricePositive
  /\ SoldWithinBought

\* After graduate, no instruction moves SOL or tokens or touches a record:
\* what the vault holds then stays there.
FrozenAfterGraduation ==
  [][pool.status = "Graduated"
       => /\ pool'.status = "Graduated"
          /\ UNCHANGED <<record, opened, vault, lamports, supply, holding>>]_vars

\* The init branches of buy_presale and buy_curve never wipe the history of
\* a buyer who already has one.
HistoryKept ==
  [][\A w \in Wallets :
       /\ record'[w].sol_deposited >= record[w].sol_deposited
       /\ record'[w].tokens_allocated >= record[w].tokens_allocated
       /\ record'[w].tokens_sold >= record[w].tokens_sold
       /\ record'[w].curve_sol_spent >= record[w].curve_sol_spent
       /\ record'[w].curve_tokens_bought >= record[w].curve_tokens_bought]_vars

\* A buyer's allocation, once made, is never changed, although
\* finalize_launch may run again for the same record: no deposit can follow
\* the first finalisation.
AllocationStable ==
  [][\A w \in Wallets :
       record[w].tokens_allocated > 0
         => record'[w].tokens_allocated = record[w].tokens_allocated]_vars

\* With the vault owned by the System program, as every accounts struct
\* declares it, SOL only ever enters the vault, and it is exactly the
\* presale and curve totals of the pool.
VaultIsLedger == vault = pool.total_sol_collected + pool.curve_sol_collected

-----------------------------------------------------------------------------
(***************************************************************************)
(* What the repository says of the program and the program does not do     *)
(***************************************************************************)

\* No more tokens are minted than the total token supply.
\* (finalize_launch may mint again for a record it has finalised, and
\* buy_curve mints without looking at total_supply.)
MintsWithinSupply == supply <= pool.total_supply

\* Everyone who deposited in the presale has tokens when the curve opens.
\* (start_bonding_curve does not wait for the finalisations.)
DepositorsAllocatedBeforeCurve ==
  pool.status = "BondingCurve"
    => \A w \in Wallets : record[w].sol_deposited > 0 => record[w].tokens_allocated > 0

\* Presale buyers all enter at one price, the presale price.
\* (Each finalisation records the price of its moment, and update_price may
\* come between two of them.)
PresaleBuyersEnterAlike ==
  \A v, w \in Wallets :
    /\ record[v].tokens_allocated > 0 /\ record[v].curve_tokens_bought = 0
    /\ record[w].tokens_allocated > 0 /\ record[w].curve_tokens_bought = 0
    => record[v].entry_price = record[w].entry_price

\* A sale that passes every test of sell_curve, by a seller who holds the
\* tokens, from a vault that holds the lamports, succeeds.
SellableExecutes ==
  \A w \in Wallets, amount \in SellAmounts :
    SellAllowed(w, amount) /\ amount <= holding[w] /\ SellReturn(amount) <= vault
      => ENABLED SellCurve(w, amount)

=============================================================================
