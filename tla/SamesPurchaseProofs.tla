------------------------- MODULE SamesPurchaseProofs -------------------------
(***************************************************************************)
(* What is recorded of purchases, for any number of launches and of        *)
(* transactions.                                                           *)
(***************************************************************************)
EXTENDS SamesPurchase, TLAPS

Settled == {"landed", "failed"}

TxState == {"unsigned", "signed", "pending", "expired"} \cup Settled

TypeOK ==
  /\ tx \in [Sigs -> [state : TxState, buys : Launches \cup {None}]]
  /\ selectedLaunch \in Launches \cup {None}
  /\ buying \in Launches \cup {None}
  /\ trades \subseteq [sig : Sigs, launch : Launches \cup {None}]

\* What submitBuy knows of its transaction at each of its awaits; nobody else
\* touches a transaction before it is sent, nor after it has been settled.
FlowInvariant ==
  /\ pc \in {"idle", "sign", "send", "confirm", "trade", "snapshot"}
  /\ pc \in {"send", "confirm", "trade", "snapshot"} => sig \in Sigs
  /\ pc = "send" => tx[sig].state = "signed"
  /\ pc \in {"trade", "snapshot"} => tx[sig].state \in Settled

PurchaseInv == TypeOK /\ FlowInvariant /\ TradesSettled

LEMMA InitPurchase == Init => PurchaseInv
BY DEF Init, PurchaseInv, TypeOK, FlowInvariant, TradesSettled, Unsigned, TxState

\* Steps that leave the transactions and the table of trades alone.
LEMMA QuietStep ==
  ASSUME PurchaseInv, UNCHANGED <<tx, trades>>, FlowInvariant',
         selectedLaunch' \in Launches \cup {None}, buying' \in Launches \cup {None}
  PROVE  PurchaseInv'
BY DEF PurchaseInv, TypeOK, TradesSettled

\* Steps that move one transaction that has not been settled.
LEMMA TransactionStep ==
  ASSUME PurchaseInv, NEW s \in Sigs, NEW t, tx' = [tx EXCEPT ![s] = t],
         t \in [state : TxState, buys : Launches \cup {None}],
         tx[s].state \notin Settled,
         UNCHANGED trades, FlowInvariant',
         selectedLaunch' \in Launches \cup {None}, buying' \in Launches \cup {None}
  PROVE  PurchaseInv'
<1>1. TypeOK'
  BY DEF PurchaseInv, TypeOK
<1>2. TradesSettled'
  <2> SUFFICES ASSUME NEW r \in trades PROVE tx'[r.sig].state \in Settled
    BY DEF TradesSettled, Settled
  <2>1. r.sig \in Sigs /\ tx[r.sig].state \in Settled
    BY DEF PurchaseInv, TypeOK, TradesSettled, Settled
  <2> QED  BY <2>1 DEF PurchaseInv, TypeOK
<1> QED  BY <1>1, <1>2 DEF PurchaseInv

LEMMA TradeInserted ==
  ASSUME PurchaseInv, pc = "trade", NEW l \in Launches \cup {None}, InsertTrade(sig, l)
  PROVE  /\ trades' \subseteq [sig : Sigs, launch : Launches \cup {None}]
         /\ \A t \in trades' : tx[t.sig].state \in Settled
<1>1. sig \in Sigs /\ tx[sig].state \in Settled
  BY DEF PurchaseInv, FlowInvariant
<1>2. \A t \in trades' : t \in trades \/ t = [sig |-> sig, launch |-> l]
  BY DEF InsertTrade
<1> QED
  BY <1>1, <1>2 DEF PurchaseInv, TypeOK, TradesSettled, Settled

LEMMA NextPurchase == PurchaseInv /\ [Next]_vars => PurchaseInv'
<1> SUFFICES ASSUME PurchaseInv, [Next]_vars PROVE PurchaseInv'
  OBVIOUS
<1> USE DEF Settled
<1>1. CASE UNCHANGED vars
  BY <1>1, QuietStep DEF vars, flow, PurchaseInv, TypeOK, FlowInvariant
<1>2. CASE \/ \E l \in Launches : openBuyModal(l) \/ PresaleEnds(l)
           \/ closeBuyModal \/ LaunchesLoaded
  BY <1>2, QuietStep
  DEF openBuyModal, PresaleEnds, closeBuyModal, LaunchesLoaded, flow, PurchaseInv, TypeOK,
      FlowInvariant
<1>3. CASE Reload \/ Submit \/ NotSigned \/ NotSent \/ Confirm \/ ConfirmationTimesOut
           \/ PostSnapshot
  <2>1. UNCHANGED <<tx, trades>>
    BY <1>3 DEF Reload, Submit, NotSigned, NotSent, Confirm, ConfirmationTimesOut,
                PostSnapshot, Abandon
  <2>2. FlowInvariant'
    BY <1>3, <2>1 DEF Reload, Submit, NotSigned, NotSent, Confirm, Confirmed,
                ConfirmationTimesOut, PostSnapshot, Abandon, Ended, Finish, PurchaseInv,
                FlowInvariant
  <2>3. selectedLaunch' \in Launches \cup {None} /\ buying' \in Launches \cup {None}
    BY <1>3 DEF Reload, Submit, NotSigned, NotSent, Confirm, ConfirmationTimesOut,
                PostSnapshot, Abandon, Finish, PurchaseInv, TypeOK
  <2> QED  BY <2>1, <2>2, <2>3, QuietStep
<1>4. ASSUME NEW s \in Sigs, Sign(s) PROVE PurchaseInv'
  <2> DEFINE t == [state |-> "signed", buys |-> buying]
  <2>1. /\ tx' = [tx EXCEPT ![s] = t] /\ tx[s].state = "unsigned"
        /\ sig' = s /\ pc' = "send"
        /\ UNCHANGED <<selectedLaunch, buying, trades>>
    BY <1>4 DEF Sign
  <2>2. /\ t \in [state : TxState, buys : Launches \cup {None}]
        /\ t.state = "signed"
    BY DEF PurchaseInv, TypeOK, TxState
  <2> HIDE DEF t
  <2>3. FlowInvariant'
    BY <2>1, <2>2 DEF PurchaseInv, TypeOK, FlowInvariant
  <2> QED  BY <2>1, <2>2, <2>3, TransactionStep DEF PurchaseInv, TypeOK
<1>5. CASE Send
  <2> DEFINE t == [tx[sig] EXCEPT !.state = "pending"]
  <2>1. sig \in Sigs /\ tx[sig].state = "signed"
    BY <1>5 DEF Send, PurchaseInv, FlowInvariant
  <2>2. /\ tx' = [tx EXCEPT ![sig] = t] /\ UNCHANGED <<selectedLaunch, trades>>
        /\ \/ pc' = "confirm" /\ sig' = sig /\ buying' = buying
           \/ pc' = "idle" /\ buying' = None
    BY <1>5 DEF Send, Abandon, Ended
  <2>3. t \in [state : TxState, buys : Launches \cup {None}]
    BY <2>1 DEF PurchaseInv, TypeOK, TxState
  <2> HIDE DEF t
  <2>4. FlowInvariant'
    BY <2>1, <2>2 DEF FlowInvariant
  <2> QED  BY <2>1, <2>2, <2>3, <2>4, TransactionStep DEF PurchaseInv, TypeOK
<1>6. ASSUME NEW s \in Sigs, Process(s) \/ Expire(s) PROVE PurchaseInv'
  <2>1. PICK state \in TxState : tx' = [tx EXCEPT ![s].state = state]
    BY <1>6 DEF Process, Expire, TxState
  <2> DEFINE t == [tx[s] EXCEPT !.state = state]
  <2>2. tx[s].state = "pending" /\ tx' = [tx EXCEPT ![s] = t]
        /\ UNCHANGED <<selectedLaunch, pc, buying, sig, trades>>
    BY <1>6, <2>1 DEF Process, Expire, flow
  <2>3. t \in [state : TxState, buys : Launches \cup {None}]
    BY <2>1 DEF PurchaseInv, TypeOK
  <2> HIDE DEF t
  <2>4. FlowInvariant'
    <3>1. sig \in Sigs /\ sig # s => tx'[sig] = tx[sig]
      BY <2>2 DEF PurchaseInv, TypeOK
    <3> QED  BY <2>2, <3>1 DEF PurchaseInv, FlowInvariant
  <2> QED  BY <2>2, <2>3, <2>4, TransactionStep DEF PurchaseInv, TypeOK
<1>7. CASE PostTrade
  <2>1. /\ pc = "trade" /\ tx' = tx
        /\ UNCHANGED trades \/ InsertTrade(sig, selectedLaunch)
        /\ \/ pc' = "snapshot" /\ UNCHANGED <<selectedLaunch, buying, sig>>
           \/ pc' = "idle" /\ selectedLaunch' = None /\ buying' = None
    BY <1>7 DEF PostTrade, Finish
  <2>2. FlowInvariant'
    BY <2>1 DEF PurchaseInv, FlowInvariant
  <2>3. /\ trades' \subseteq [sig : Sigs, launch : Launches \cup {None}]
        /\ \A t \in trades' : tx[t.sig].state \in Settled
    <3>1. CASE UNCHANGED trades
      BY <3>1 DEF PurchaseInv, TypeOK, TradesSettled
    <3>2. CASE InsertTrade(sig, selectedLaunch)
      BY <2>1, <3>2, TradeInserted DEF PurchaseInv, TypeOK
    <3> QED  BY <2>1, <3>1, <3>2
  <2> QED
    BY <2>1, <2>2, <2>3 DEF PurchaseInv, TypeOK, TradesSettled
<1> QED
  BY <1>1, <1>2, <1>3, <1>4, <1>5, <1>6, <1>7 DEF Next

LEMMA PurchaseInvariance == Spec => []PurchaseInv
<1> QED
  BY InitPurchase, NextPurchase, PTL DEF Spec

\* No row of trades is of a transaction the cluster has not dealt with.
THEOREM TradesAreSettled == Spec => []TradesSettled
<1>1. PurchaseInv => TradesSettled
  BY DEF PurchaseInv
<1> QED
  BY <1>1, PurchaseInvariance, PTL

=============================================================================
