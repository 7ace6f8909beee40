# Verification of SAMES

SAMES is a token launchpad on Solana: a presale for a fixed time, then trading
on a linear bonding curve with a price floor per buyer, then graduation. This
directory holds TLA+ models of its program (the current one and the first
version kept beside it), of its transfer hook and of the parts of its web client
where things happen at once; the TLC runs that check them on small instances;
and theorems that TLAPS proves for every instance. The source of every
definition is the `map` of `PROJECT.json`.

## 1. Inventory

| Component | State | Operations | What is hard | Correct means |
|---|---|---|---|---|
| Launch program, `programs/sames/src/lib.rs`, `state.rs` | `LaunchPool`, `MarketRegistry`, one `BuyerRecord` per buyer, the SOL vault, the mint and its token accounts | `create_launch`, `buy_presale`, `finalize_launch`, `start_bonding_curve`, `buy_curve`, `sell_curve`, `graduate`, `update_price`, `register_market` | any wallet may submit any instruction at any time; records are created on demand and reset when taken for fresh; finalisation goes buyer by buyer; counters go up and down; limits of u64 | counters agree with records and vault, history is never lost, allocations are final, shares stay within the supply, sales within entitlements, graduation is final |
| Bonding curve, `state.rs` 19-123 | none | cost, price, quote, integer square root | roundings at four places, a loop | root exact, loop ends, quote and cost agree but for the roundings |
| Transfer hook, `hook.rs` | reads pool, registry, record | `handler` on each token transfer | compares prices that move; fails open | no transfer to a market below the sender's floor |
| First version, `program/programs/sames/src` | pool, records with a `finalized` flag | presale, finalize per buyer, sell check | idempotent finalisation | each buyer is allocated once |
| API, `api/server.js` | Postgres tables profiles, token_metadata, chat_messages, trades, price_snapshots | upserts, inserts, reads | repeated and lost posts, partial updates | one trade per signature, updates keep what they omit |
| Web client, `app.html` | cached launches, selected launch, form state | launch, buy, finalize, poll, chat | stale caches, overlapping polls, confirmations that time out | the view catches up with the chain, a purchase is made once |

The client builds the program's transactions, reads its accounts every 15 s, and
posts what it did to the API; the API never talks to the chain. The program
calls the System program (payments) and Token-2022 (mint, burn); the hook would
be called back by Token-2022.

`PROJECT.json` lists the hazards with their lines and the properties that are
about them, or why there is none.

## 2. Modules

| Module | Models |
|---|---|
| `BondingCurve` | the curve functions of `state.rs` as operators, and checked and saturating arithmetic |
| `CurveQuote` | one quote of `buy_curve`, with Newton's loop step by step; EXTENDS `BondingCurve` |
| `SamesLaunch` | the current program for one launch: one action per instruction; EXTENDS `BondingCurve` |
| `FairLaunch` | the abstract specification: what a launch promises its buyers, without clock, prices or accounts |
| `SamesFairLaunch` | the refinement mapping from `SamesLaunch` to `FairLaunch` |
| `SamesHook` | `SamesLaunch` composed with Token-2022 transfers and the handler of `hook.rs` |
| `LegacyLaunch` | the first version of the program and its hook, and its refinement mapping to `FairLaunch` |
| `SamesPages` | the client's polled views: the list of launches and the chat of a token page, with the API's chat |
| `SamesPurchase` | the client's purchase flow `submitBuy`, the cluster under it, the API's trades and snapshots |
| `ShareArithmetic` | lemmas on quotients, proportional shares and sums over finite sets |
| `SamesLaunchProofs`, `SamesTotalsProofs`, `SamesFairLaunchProofs`, `SamesHookProofs`, `LegacyLaunchProofs`, `SamesPurchaseProofs`, `CurveQuoteProofs` | the theorems |
| `MCSamesLaunch`, `MCSamesHook`, `MCCurveQuote`, `MCLegacyLaunch`, `MCSamesPages`, `MCSamesPurchase` | instances for TLC |

### The programs

* An instruction is one action. Solana runs a handler atomically and undoes all
  of it when a `require!`, a checked operation, a call or the runtime's final
  check fails: so every error return is a conjunct of the guard, and a failing
  instruction is no step. Concurrency is the interleaving of instructions of
  all wallets, in any order.
* `pool` (`launch` in `LegacyLaunch`), `registry` and `record` are the accounts,
  field by field. `slope_scaled` and `graduation_threshold` are set once from
  constants and are the constants `Slope` and `GraduationThreshold`. `opened` is
  the set of wallets whose record account exists: `init_if_needed` adds to it,
  and the first version's `init` fails for a member.
* `vault` (`escrow`), `lamports`, `supply` and `holding` belong to the System
  program and to Token-2022; `TransferToVault`, `DebitVault`, `MintTo` and `Burn`
  are what those programs do for the calls in `lib.rs`, their own failures
  included. The accounts structs do not tie `buyer_token_account` to the buyer,
  so the account minted to is a free choice (`to`), a market's account included.
* Arithmetic is on naturals. The code multiplies in u128 and returns to u64
  through a check; the check is the guard `Fits`. `MaxU64` is a constant, so
  small runs reach the limits. The one unchecked cast (the share a finalisation
  computes) is a remainder.
* `VaultOwner` is the program that owns the vault. Every accounts struct
  declares the vault a `SystemAccount`, which is the value `"system"`; a program
  may not lower the balance of an account of another, and `sell_curve` does
  just that, so no sale that pays anything executes. `hook` and every run that
  shows a disagreement of the program take this value, and so do the theorems `DeployedVaultIsLedger` and
  `VaultIsLedgerAcrossTransfers`. `launch` and `presale` take `"sames"`, the
  ownership `sell_curve` is written for: their properties hold although sales
  execute, and without sales they have only fewer steps to hold over. The other
  theorems hold for both.
* `HookInstalled` says whether the mint names the hook. It does not today: the
  client creates the mint with 82 bytes (`app.html:1048`), which has no room for
  an extension, and no instruction dispatches to `hook::handler`. `hook` runs
  with `TRUE`, to check the handler's logic; the theorems hold for both values.
  `RecordPassed` is the same for the first version, whose
  `initialize_extra_account_metas` registers no account to pass.
* The hook is asked about transfers by the owner of the tokens; transfers by a
  delegate (whose record, not the owner's, the hook would read) are left out.
* The first version's `sell` checks a record and a price and changes no account,
  so it is no action.
* The clock ticks freely. Supplies, prices and amounts tried are constants; an
  empty set turns an instruction off.

Abstracted: names and their lengths, keys and bumps, rent, log messages, the
compute budget. Launches share no account, so one launch is modelled. The
environment neither sends lamports to the vault nor burns tokens outside the
program's instructions.

### The abstract launch

`FairLaunch` has five phases and no clock: deposits while the launch is open,
each depositor's share of the stock once it is closed and only once, buys and
sales within share and purchases while it trades. Both programs refine it, with
`Phase` reading the phase from status and clock: the end of the presale is no
instruction but the tick that passes `end_time`. In the current program a
finalisation of a buyer who has a share is a stutter; so `ImplementsFairLaunch`
fails if a second one could give a different share, if a deposit could follow
the first, or if a sale could exceed what the record entitles to. What it does
not promise is what the program does not keep: that everybody is finalised
before the market opens, and that the mint issues the shares once (see the
disagreements below); the first version keeps both, up to a market that never
opens on chain.

### The client

The browser runs one callback at a time, so what a function does between two
`await`s is one action, and everything else may happen at an `await`.

* `SamesPages`: a load is a request (`Ask`), the moment the server or the node
  reads (`Read`), and an answer (`LaunchesArrive`, `ChatArrives`) or a failure
  (`Fail`). Contents are counted: what is shown is the number of changes it
  shows. `renderTokenDetail` replaces the page's elements and the chat's
  interval; a load begun before writes its messages to an element no longer in
  the page (`attached`) and its count to the one looked up on arrival. For an
  address that is not in the list, "Token not found" replaces the page and the
  interval goes on (`renderNotFound`); `loadChat` then finds no element. The
  timeout of a rendering and the reload after the user's own message are `due`.
* `SamesPurchase`: `pc` is the `await` at which `submitBuy` stands. A call may
  fail although it did what was asked (`Send` with `Abandon`), a confirmation may
  time out (`ConfirmationTimesOut`) while the transaction lands, fails or
  expires, a post may be lost or refused (`PostTrade`, `PostSnapshot`), and the tab
  may be reloaded anywhere (`Reload`). Meanwhile the user closes and opens the
  modal, the list is reloaded and presales end.
* Of the API, `MessagePosted` and `Read` are the chat's statements, and
  `InsertTrade` keeps `ON CONFLICT(tx_sig) DO NOTHING`.

## 3. Runs

| Run | Question |
|---|---|
| `launch` | Whole life of a launch, with price updates at any moment: types and limits, records against pool and mint, the buyer count, graduation's counter against the vault, the average entry price, the inductive invariant, history, the freeze after graduation, refinement of `FairLaunch` |
| `presale` | Unequal deposits, supplies they do not divide, the closing second: deposits add up, shares fit the supply, are equal per lamport and final; no trade takes from the vault what the curve position is worth |
| `hook` | Vault as declared, markets registered, tokens moved under the hook: no transfer to a market at a loss, nothing leaves the vault |
| `quote` | All small quotes: exact root, termination, bounds of the roundings |
| `legacy` | The first version: pool, records and mint agree, nobody's finalisation is closed or repeated, refinement of `FairLaunch` |
| `pages` | Overlapping, reordered and lost loads: the list catches up, the chat settles on the page shown |
| `client` | A purchase with awaits, timeouts, lost answers and reloads: no trade of a transaction not dealt with, the button comes back |

Bounds. Two wallets are what the interference of buyers needs in the launch runs
(one acts between two steps of the other); `legacy` has three, so that shares of
three different deposits round. Two markets let a transfer go to one that was
not registered last. Two loads in flight overlap in every order; two token pages
and two launches are enough for an answer or a post to meet the wrong one; two
transactions, for one to follow another that timed out. The clock runs to the
end of the presale (or past it). `MaxU64` bounds every counter, and lamports
bound the buys; all state spaces are exhausted. Wallets (and markets) are
interchangeable, so the program runs use symmetry; those runs check no liveness.
Nobody is obliged to submit an instruction or to click, so these systems may
stop at any time and deadlock is not checked; `pages` polls for ever, and it is
checked there. The fee is a half or a quarter, not one percent, so that it does
not round to zero on amounts this small. In `presale` a slope of twice the scale
makes every cost exact, so that a lamport too many paid out shows. `quote` takes
slopes that divide the scale of 10 and slopes that do not, below and above it.

Fairness. `quote` assumes weak fairness of the handler's next step: an
instruction that runs goes on running. In `client`, calls of the node and of the
API end, with an answer or an error (weak fairness of each `await`'s actions
together); nothing is assumed of the user or the wallet, so `ButtonComesBack`
starts after the signature. In `pages`, intervals and timeouts keep firing
(strongly, since the bound `Loads` may keep them waiting again and again), every
load ends, and loads of the list do not all fail for ever, without which no
client could catch up; that loads of the chat do not fail for ever is the
premise of `ChatSettles`. The programs are checked without fairness.

`CurveSolvent`, that the vault can pay for selling the whole position back, is no
invariant, since `update_price` may raise what the position is worth;
`SolvencyKept` says that nothing else ends it, with or without presale tokens:
selling those moves the position down and costs the vault at most the stretch
of the curve it gives up. What the roundings of the buys may have cost,
`RoundedAway`, is less than a lamport per token bought, and nothing where the
division is exact, as in the run. Sales beyond the vault fail in `DebitVault` (the
code's checked subtraction), which `VaultCoversCurve` covers.

In the first version a finalisation is closed to nobody (`FinalizationStaysOpen`,
over the guard `CanFinalize`).

`EntryIsAverage` and `NoMarketSaleAtALoss` say of the floor what its arithmetic
can keep: it is the average over everything paid and given, rounded down, where
the two saturating sums of `buy_curve` do not saturate.

### Disagreements with what the repository says

| Run | Statement | What the code does |
|---|---|---|
| `claim_supply` | `total_supply` is the total token supply | the creator may finalise a buyer again, and the share is minted again; `buy_curve` mints without a look at it, too |
| `claim_allocated` | starting the curve distributes the tokens | the curve may start first; the depositor then never gets any |
| `claim_price` | presale buyers all get one entry, the presale price | `finalize_launch` records the price of the moment, and `update_price` may come between two finalisations (the shares per lamport stay equal, `EqualSharesPerLamport`) |
| `claim_sellable` | SOL moves from the vault to the seller | the vault is not the program's to debit |
| `claim_trade` | the purchase was successful and its trade is recorded | `confirmTransaction` also returns for a failed transaction, and the trade goes to whichever launch is selected by then |

Further statements that are off and have no run:

* `state.rs:11`, "price floor enforced, can't sell below entry": `sell_curve` tests
  the spot price before the sale, and prices the sale going down the curve from
  it. As declared the vault is not the program's, and no sale executes at all
  (`claim_sellable`).
* `state.rs:55`, the quote is the "inverse of bonding_curve_cost": the root is
  rounded to a lamport before it is scaled, so quotes come in steps of
  1e9 / slope tokens (ten million with the default slope); an offer that pays for
  thousands is quoted none. `QuoteShortByOneQuantum` bounds the step by `Quantum`,
  1e9 / slope rounded up: rounded down it would be too small for a slope that
  does not divide the scale.
* `DEFAULT_SLOPE` ("price doubles after 10M tokens sold": from 1000 lamports the
  price is then 1001), and `graduation_threshold` ("Market cap threshold":
  `graduate` compares it with the SOL the curve collected).
* `hook.rs:91`, "Presale tokens shouldn't be transferable anyway": the hook lets
  everything go before the curve.
* First version, `lib.rs:118`, "Transitions status to Live": nothing sets `Live`;
  the mutant `LiveAfterFinalize` shows that following the comment would shut out
  all but the first buyer. `state.rs:86`, tokens_remaining "decreases as they
  sell": nothing lowers it. `has_one = buyer` in `Sell` names no account.
* The client's `finalizeAndStartTrading` sends `finalize_launch` without the
  buyer's record, so the transaction always fails; "Recent Activity" asks for the
  oldest twenty trades; trades made on the token page are not posted.

## 4. Theorems

For all values of the constants that satisfy the named assumptions
(`ScaleAssumption`, `MaxU64Assumption`, `LaunchAssumptions`, `HookAssumptions`,
`LegacyAssumptions`, `QuoteAssumptions`); `SamesPurchaseProofs` needs none:

| Theorem | Says |
|---|---|
| `SamesLaunchProofs!TypeCorrect` | no account leaves its Rust type |
| `Invariance` | `LaunchInvariant`, the inductive invariant |
| `SalesBounded`, `BuyersCounted`, `CurveCovered`, `FloorIsAverage` | the invariants `SoldWithinBought`, `BuyerCountExact`, `VaultCoversCurve`, `EntryIsAverage` |
| `HistoryPreserved`, `AllocationsStay`, `GraduationFinal` | the action properties `HistoryKept`, `AllocationStable`, `FrozenAfterGraduation` |
| `DeployedVaultIsLedger` | `VaultIsLedger`, when the vault is a System account |
| `SamesTotalsProofs!DepositsSumUp`, `PositionMatches`, `EntitlementsExist` | the sums over all buyers `DepositsAddUp`, `CurvePositionMatchesRecords`, `EntitlementsBacked` |
| `SolvencyStays` | the action property `SolvencyKept` |
| `SamesFairLaunchProofs!EqualShares`, `AllocationsFit` | `EqualSharesPerLamport`, `AllocationsWithinSupply` |
| `KeepsPromises` | the current program implements `FairLaunch` |
| `SamesHookProofs!NoLossAtMarkets` | `NoMarketSaleAtALoss` |
| `VaultIsLedgerAcrossTransfers`, `PromisesKeptAcrossTransfers` | `VaultIsLedger` and `FairLaunch` for the program composed with transfers |
| `LegacyLaunchProofs!LegacyTypeCorrect`, `DepositsCounted`, `MintedIsShared` | `TypeOK`, `PoolCountsDeposits`, `MintedIsHandedOut` |
| `NobodyIsShutOut` | `FinalizationStaysOpen` |
| `LegacyKeepsPromises` | the first version implements `FairLaunch` |
| `SamesPurchaseProofs!TradesAreSettled` | `TradesSettled` |
| `CurveQuoteProofs!IteratesStayAbove`, `RootExact` | `NewtonFromAbove`, `IsqrtExact` |
| `QuoteTypeOK`, `QuotesAffordable`, `QuotesTight` | `TypeOK`, `QuoteNearlyAffordable`, `QuoteShortByOneQuantum` |
| `LaunchQuotesAffordable` | the quotes `buy_curve` gets in `SamesLaunch` cost at most a lamport per token more than the offer, and no more where `b` is exact |

**The launch.** `TypeOK` is inductive by itself: the guards `Fits` and the checked
subtractions of Token-2022 are what keeps it. None of the others is. The
handlers rely on facts they do not test, and `LaunchInvariant` names them:
`RecordsTellBuyers` (a record with nothing paid has no tokens, so the reset of a
fresh record loses nothing, and a record is fresh exactly when it does not
exist), `NoTradesBeforeCurve` (a finalisation that changes an allocation finds
nothing sold), `AllocationIsShare` (an allocation on a record is the share of
deposits that no longer change, so finalising again gives the same),
`PricePositive` (no purchase is free, so a buyer's record never looks fresh
again) and `NothingBeforeLaunch`. Lemmas about the three trading instructions
(`BuyPresaleEffect`, `BuyCurveEffect`, `SellCurveEffect`) say what they do to a
record once those facts hold, and every theorem after `Invariance` uses them.
`CurveCovered` rests on `FeeBound`: what is paid out is at most what is deducted
from the counter. `DeployedVaultIsLedger` rests on the other half of `FeeBound`,
that a fee below the whole leaves something to pay. `FloorIsAverage` uses
`NoTradesBeforeCurve`: `finalize_launch`, which overwrites entry prices, only runs
before anybody bought on the curve.

**Sums.** A total over the buyers is `SumFunction`, a fold over the set of wallets:
a recursive function, whose induction theorems the provers cannot instantiate.
`ShareArithmetic` goes around that. `SumsExist` proves that there is such a function:
the smallest size of subsets for which there were none could not be the
smallest. `SumByElements` then says that a sum is the sum without an element and that
element, for whichever element (the fold picks one), and what holds of all sets
follows by taking a smallest set it fails for (`MinimalSet`). Two facts are
enough for every total: `SumUpdate` (one value changed, the sum changes by as
much) and `SumProportion` (values in proportion sum up in proportion). So each
total is one lemma about the record an instruction writes and the counter beside
it, `TotalUpdate`. `SharesFitTogether` adds up quotients rounded down, for
`AllocationsFit` and `MintedIsShared`.

**Solvency.** `CostAdds` splits a stretch of the curve in two: the cost of the whole
is that of the parts, or a lamport more, by the rounding (`DivSum`), and exactly
that where twice the scale divides the slope (`DivSumExact`). A buy brings the cost of its stretch, and a
sale takes no more than the cost of the stretch it gives up (`FeeBound`), or the
position saturates at zero, where nothing is left to pay for.

**Shares and refinement.** That the cast to u64 in `finalize_launch` truncates
nothing needs one more invariant, `DepositsWithinTotal` (no deposit exceeds the
total it is divided by): then a share is at most the supply, which is a u64
(`AllocationExact`). `EqualShares` is `AllocationIsShare` with the arithmetic of
two roundings of one proportion (`SharesProportional`). `KeepsPromises` has one
lemma per instruction that says which step of `FairLaunch` it is, or that it
stutters; the first version's proof is the same with `LegacyInvariant`.

**The first version.** What is minted is the sum of the shares of those finalised
(`SharesMinted`), and all the shares together fit the supply. So one more share
fits what is left, `mint_to` cannot overflow, and `CanBeFinalized` follows: the one
guard of `finalize_buyer` that depends on the other buyers never closes, and with
`PresaleOnly` (the launch never leaves its presale) the others stay open, too.

**The hook.** Transfers touch `holding` only, so `HookInv` (`TypeOK`,
`LaunchInvariant`, `EntryIsAverage`) is preserved by the composition. Only a
transfer takes tokens from a wallet to a market (`OnlyTransfersReachMarkets`; a
purchase may be minted there, but takes nothing from a wallet); the hook then
compared the price with the record's floor, the record was there because a buyer
has one (`RecordsTellBuyers`), and the floor is the average paid. On every other
account a step of the composition is an instruction or none (`TransferLeaves`),
which carries the ledger of the vault and the refinement over to it.

**The quote.** `QuoteInv` keeps `y` the Newton successor of `x` and `x + 1` above the
root; `NewtonAbove` is the inequality of means behind it, and `NewtonStops` gives
exactness when an iterate does not fall. From the root's bounds, `QuoteUnderLine`
and `QuoteCost` bound the cost of the quote from above through both divisions,
`QuoteOverLine` and `OverLineCost` from below. `RootQuoteAffordable` says so of every
root that is exact, hence of the quotes in `SamesLaunch` (`LaunchQuotesAffordable`).
That its recursive function `isqrt_u128` is exact (`IsqrtFloor`) is proved without
induction: the function that maps a state of the loop to the root it ends in
satisfies the recursion, and no other does, by the smallest state where two
would differ.

**The purchase.** `PurchaseInv` says at which `await` the transaction in `sig` is in
which state: when a trade is posted, the confirmation has come, and what the
cluster has settled stays settled.

Only model-checked: liveness (`QuoteAnswered`, `ButtonComesBack`, `LaunchesCatchUp`,
`ChatSettles`), whose fairness the provers do not reason about, and with it all of
`SamesPages`; and the statements of section 3 that the program does not keep,
`SellableExecutes` among them, which is stated with `ENABLED`. Every other
property a run checks is a theorem.

## 5. Not modelled

* Profiles, token metadata and images of the API: each request is one SQL
  statement, or writes one file, and no two interact beyond the last one winning.
* The client's launch wizard and the trading form of the token page: the flow of
  the latter is `submitBuy`'s up to the confirmation, without posts; charts,
  search, rendering.
* Rate limits and signature checks of the API (the latter are off by default).
* The marketing page, the empty test skeleton and the migration.
* Several launches in one model: they share no account.
* Transfers by delegates, and token accounts frozen or closed by their owners.

What could follow: the snapshots' contents, and metadata fetched for one list of
launches and drawn over another.
