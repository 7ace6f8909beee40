----------------------------- MODULE SamesHook ------------------------------
(***************************************************************************)
(* SamesLaunch with token transfers.  Holders move tokens with Token-2022, *)
(* which calls the transfer hook of programs/sames/src/hook.rs on every    *)
(* transfer when the mint names it; the hook reads the pool, the market    *)
(* registry and the sender's record, and its error undoes the transfer.    *)
(*                                                                         *)
(* The holder of an account signs its transfers (delegates are left out).  *)
(***************************************************************************)
EXTENDS SamesLaunch, Functions

CONSTANTS
  HookInstalled,     \* whether the mint carries the TransferHook extension
  TransferAmounts    \* amounts the model tries

ASSUME HookAssumptions ==
  /\ HookInstalled \in BOOLEAN
  /\ TransferAmounts \subseteq Nat
  /\ Wallets \cap Markets = {}

is_market_transfer(destination) == destination \in Range(registry.market_accounts)

\* Mutant: only the market registered last is known.
HasFloorAtLatestMarket(owner, destination) ==
  /\ InBondingCurve
  /\ registry.market_accounts # <<>>
  /\ destination = registry.market_accounts[Len(registry.market_accounts)]
  /\ owner \in opened

\* Whether the floor is looked at: the hook's early returns passed.  A sender
\* without a record has no data in the record's account.
HasFloor(owner, destination) ==
  InBondingCurve /\ is_market_transfer(destination) /\ owner \in opened

\* The hook's handler returns Ok.
HookAllows(owner, destination) ==
  HasFloor(owner, destination) => pool.price_lamports >= record[owner].entry_price

\* transfer_checked of Token-2022 from one token account of the mint to another.
Transfer(owner, destination, amount) ==
  /\ owner # destination
  /\ amount <= holding[owner]
  /\ HookInstalled => HookAllows(owner, destination)
  /\ holding' = [holding EXCEPT ![owner] = @ - amount, ![destination] = @ + amount]
  /\ UNCHANGED <<clock, pool, registry, record, opened, vault, lamports, supply>>

HookNext ==
  \/ Next
  \/ \E from, to \in Holders, n \in TransferAmounts : Transfer(from, to, n)

HookSpec == Init /\ [][HookNext]_vars

-----------------------------------------------------------------------------
(***************************************************************************)
(* Properties                                                              *)
(***************************************************************************)

\* While the curve runs, a buyer who bought on it cannot bring tokens to a
\* registered market while the pool's price is a whole lamport or more below
\* the average the buyer paid, presale included: although the record's floor
\* and the pool's price move on their own (buys, price updates) between the
\* purchase and the transfer.
NoMarketSaleAtALoss ==
  [][\A w \in Wallets, m \in Markets :
       (/\ HookInstalled
        /\ pool.status = "BondingCurve"
        /\ is_market_transfer(m)
        /\ holding'[w] < holding[w] /\ holding'[m] > holding[m]
        /\ record[w].curve_tokens_bought > 0
        /\ Fits(Paid(w)) /\ Fits(Given(w)))
       => Paid(w) < (pool.price_lamports + 1) * Given(w)]_vars

=============================================================================
