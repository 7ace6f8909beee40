----------------------------- MODULE FairLaunch -----------------------------
(***************************************************************************)
(* What a launch promises its buyers, whichever version of the program     *)
(* runs it: deposits are taken while the presale is open and never after;  *)
(* the stock is divided once, in proportion to deposits that no longer     *)
(* change; then buyers trade, and nobody sells more than the share given   *)
(* and the tokens bought.                                                  *)
(*                                                                         *)
(* SamesLaunch (the current program) and LegacyLaunch (its first version)  *)
(* implement it.  Prices, lamports and token accounts are theirs.          *)
(***************************************************************************)
EXTENDS Integers

CONSTANTS
  Buyers,
  Amounts    \* amounts of lamports and of tokens

VARIABLES
  phase,     \* "none", "open", "closed", "trading", "over"
  stock,     \* tokens to divide
  pot,       \* lamports deposited by everyone
  deposit,   \* lamports deposited by each buyer
  share,     \* tokens of the stock given to each buyer
  bought,    \* tokens each buyer bought after the presale
  sold       \* tokens each buyer sold

vars == <<phase, stock, pot, deposit, share, bought, sold>>

Nothing == [b \in Buyers |-> 0]

Init ==
  /\ phase = "none"
  /\ stock = 0
  /\ pot = 0
  /\ deposit = Nothing
  /\ share = Nothing
  /\ bought = Nothing
  /\ sold = Nothing

Announce(tokens) ==
  /\ phase = "none"
  /\ tokens > 0
  /\ phase' = "open"
  /\ stock' = tokens
  /\ UNCHANGED <<pot, deposit, share, bought, sold>>

Deposit(b, amount) ==
  /\ phase = "open"
  /\ amount > 0
  /\ deposit' = [deposit EXCEPT ![b] = @ + amount]
  /\ pot' = pot + amount
  /\ UNCHANGED <<phase, stock, share, bought, sold>>

\* From here on the deposits stand.
Close ==
  /\ phase = "open"
  /\ phase' = "closed"
  /\ UNCHANGED <<stock, pot, deposit, share, bought, sold>>

\* The share is given once.
Allot(b) ==
  /\ phase = "closed"
  /\ deposit[b] > 0
  /\ share[b] = 0
  /\ share' = [share EXCEPT ![b] = (deposit[b] * stock) \div pot]
  /\ UNCHANGED <<phase, stock, pot, deposit, bought, sold>>

OpenMarket ==
  /\ phase = "closed"
  /\ phase' = "trading"
  /\ UNCHANGED <<stock, pot, deposit, share, bought, sold>>

Buy(b, amount) ==
  /\ phase = "trading"
  /\ amount > 0
  /\ bought' = [bought EXCEPT ![b] = @ + amount]
  /\ UNCHANGED <<phase, stock, pot, deposit, share, sold>>

Sell(b, amount) ==
  /\ phase = "trading"
  /\ amount > 0
  /\ sold[b] + amount <= share[b] + bought[b]
  /\ sold' = [sold EXCEPT ![b] = @ + amount]
  /\ UNCHANGED <<phase, stock, pot, deposit, share, bought>>

End ==
  /\ phase = "trading"
  /\ phase' = "over"
  /\ UNCHANGED <<stock, pot, deposit, share, bought, sold>>

Next ==
  \/ Close
  \/ OpenMarket
  \/ End
  \/ \E a \in Amounts :
       \/ Announce(a)
       \/ \E b \in Buyers : Deposit(b, a) \/ Buy(b, a) \/ Sell(b, a)
  \/ \E b \in Buyers : Allot(b)

Spec == Init /\ [][Next]_vars

=============================================================================
