--------------------------- MODULE SamesPurchase ----------------------------
(***************************************************************************)
(* One tab of the web client buying in presales: the buy modal and         *)
(* submitBuy of app.html, the transactions it sends to the cluster, and    *)
(* the rows it posts to the API (api/server.js).  submitBuy awaits the     *)
(* wallet, the node, the confirmation and both posts; at each await the    *)
(* user may close the modal, open it for another launch or reload the tab, *)
(* the cluster moves on, and the call may fail or time out although it did *)
(* what was asked.                                                         *)
(*                                                                         *)
(* What runs between two awaits is one action.  The modal opens only from  *)
(* a launch whose cached status is presale (detailTrade), so submitBuy     *)
(* always builds buy_presale; its amount is immaterial.                    *)
(***************************************************************************)
EXTENDS Integers, FiniteSets

CONSTANTS
  Launches,
  Sigs,      \* signatures of the transactions the wallet may sign
  None

VARIABLES
  open,       \* launches whose presale window is open on the cluster
  cached,     \* launches the list of the client shows in presale
  selectedLaunch,
  pc,         \* where submitBuy stands; "idle" when its button is enabled
  buying,     \* what it buys: the launch of its addresses
  sig,        \* the transaction it signed
  tx,         \* transactions: what became of each, and what it buys
  trades,     \* table trades: signature and launch
  snapshots   \* table price_snapshots: number of rows of each launch

flow == <<pc, buying, sig>>
vars == <<open, cached, selectedLaunch, flow, tx, trades, snapshots>>

Unsigned == [state |-> "unsigned", buys |-> None]

Init ==
  /\ open = Launches
  /\ cached = Launches
  /\ selectedLaunch = None
  /\ pc = "idle" /\ buying = None /\ sig = None
  /\ tx = [s \in Sigs |-> Unsigned]
  /\ trades = {}
  /\ snapshots = [l \in Launches |-> 0]

-----------------------------------------------------------------------------
\* The user and the list.

openBuyModal(l) ==
  /\ selectedLaunch = None      \* the modal covers the page
  /\ l \in cached
  /\ selectedLaunch' = l
  /\ UNCHANGED <<open, cached, flow, tx, trades, snapshots>>

closeBuyModal ==
  /\ selectedLaunch # None
  /\ selectedLaunch' = None
  /\ UNCHANGED <<open, cached, flow, tx, trades, snapshots>>

\* An answer of loadOnchainLaunches, maybe read a while ago.
LaunchesLoaded ==
  /\ \E shown \in SUBSET Launches :
       /\ open \subseteq shown
       /\ cached' = shown
  /\ UNCHANGED <<open, selectedLaunch, flow, tx, trades, snapshots>>

\* The tab is reloaded or closed: whatever submitBuy was doing, it stops.
Reload ==
  /\ pc # "idle"
  /\ selectedLaunch' = None
  /\ pc' = "idle" /\ buying' = None /\ sig' = None
  /\ UNCHANGED <<open, cached, tx, trades, snapshots>>

-----------------------------------------------------------------------------
\* submitBuy.

\* Mutant: an error leaves the button disabled.
EndedNoFinally == pc' = "failed"

\* finally { btn.disabled = false; ... }
Ended == pc' = "idle"

\* catch: a toast, and the modal stays open.
Abandon ==
  /\ Ended
  /\ buying' = None /\ sig' = None
  /\ UNCHANGED <<open, cached, selectedLaunch, trades, snapshots>>

\* The click: the addresses are derived from the launch selected now, in the
\* same callback (getProvider waits for nothing).
Submit ==
  /\ pc = "idle"
  /\ selectedLaunch # None
  /\ pc' = "sign"
  /\ buying' = selectedLaunch
  /\ UNCHANGED <<open, cached, selectedLaunch, sig, tx, trades, snapshots>>

\* The blockhash arrived and the wallet signed.
Sign(s) ==
  /\ pc = "sign"
  /\ tx[s].state = "unsigned"
  /\ tx' = [tx EXCEPT ![s] = [state |-> "signed", buys |-> buying]]
  /\ sig' = s
  /\ pc' = "send"
  /\ UNCHANGED <<open, cached, selectedLaunch, buying, trades, snapshots>>

\* The user or the node refused.
NotSigned ==
  /\ pc = "sign"
  /\ Abandon
  /\ UNCHANGED tx

\* The node's preflight finds the presale open and forwards the transaction.
Send ==
  /\ pc = "send"
  /\ tx[sig].buys \in open
  /\ tx' = [tx EXCEPT ![sig].state = "pending"]
  /\ \/ /\ pc' = "confirm"
        /\ UNCHANGED <<open, cached, selectedLaunch, buying, sig, trades, snapshots>>
     \/ Abandon      \* its answer is lost

\* Preflight fails, or the node is not reached.
NotSent ==
  /\ pc = "send"
  /\ Abandon
  /\ UNCHANGED tx

\* Mutant: a confirmation that timed out is taken for one.
ConfirmedAnyway == pc = "confirm"

\* confirmTransaction returns for a transaction that failed on the cluster,
\* too: the error it carries is not looked at.
Confirmed == pc = "confirm" /\ tx[sig].state \in {"landed", "failed"}

Confirm ==
  /\ Confirmed
  /\ pc' = "trade"
  /\ UNCHANGED <<open, cached, selectedLaunch, buying, sig, tx, trades, snapshots>>

ConfirmationTimesOut ==
  /\ pc = "confirm"
  /\ Abandon
  /\ UNCHANGED tx

\* closeBuyModal(); loadOnchainLaunches(); finally.
Finish ==
  /\ selectedLaunch' = None
  /\ pc' = "idle" /\ buying' = None /\ sig' = None

\* INSERT ... ON CONFLICT(tx_sig) DO NOTHING
InsertTrade(s, l) ==
  trades' = IF \E t \in trades : t.sig = s THEN trades
            ELSE trades \cup {[sig |-> s, launch |-> l]}

\* The post for the launch selected now.  With none, reading its price throws
\* and both posts are skipped; a post that fails skips the next.
PostTrade ==
  /\ pc = "trade"
  /\ \/ /\ selectedLaunch # None
        /\ InsertTrade(sig, selectedLaunch) \/ UNCHANGED trades   \* refused
        /\ pc' = "snapshot"
        /\ UNCHANGED <<selectedLaunch, buying, sig>>
     \/ /\ \/ selectedLaunch # None /\ InsertTrade(sig, selectedLaunch)
           \/ UNCHANGED trades
        /\ Finish
  /\ UNCHANGED <<open, cached, tx, snapshots>>

PostSnapshot ==
  /\ pc = "snapshot"
  /\ \/ /\ selectedLaunch # None
        /\ snapshots' = [snapshots EXCEPT ![selectedLaunch] = @ + 1]
     \/ UNCHANGED snapshots
  /\ Finish
  /\ UNCHANGED <<open, cached, tx, trades>>

-----------------------------------------------------------------------------
\* The cluster.

Process(s) ==
  /\ tx[s].state = "pending"
  /\ tx' = [tx EXCEPT ![s].state = IF tx[s].buys \in open THEN "landed" ELSE "failed"]
  /\ UNCHANGED <<open, cached, selectedLaunch, flow, trades, snapshots>>

\* Its blockhash grows too old.
Expire(s) ==
  /\ tx[s].state = "pending"
  /\ tx' = [tx EXCEPT ![s].state = "expired"]
  /\ UNCHANGED <<open, cached, selectedLaunch, flow, trades, snapshots>>

PresaleEnds(l) ==
  /\ l \in open
  /\ open' = open \ {l}
  /\ UNCHANGED <<cached, selectedLaunch, flow, tx, trades, snapshots>>

Next ==
  \/ \E l \in Launches : openBuyModal(l) \/ PresaleEnds(l)
  \/ closeBuyModal
  \/ LaunchesLoaded
  \/ Reload
  \/ Submit \/ NotSigned \/ Send \/ NotSent
  \/ Confirm \/ ConfirmationTimesOut
  \/ PostTrade \/ PostSnapshot
  \/ \E s \in Sigs : Sign(s) \/ Process(s) \/ Expire(s)

\* Calls are answered or time out, also those of posts; nothing is assumed of
\* the user or the wallet.
Fairness ==
  /\ WF_vars(Send \/ NotSent)
  /\ WF_vars(Confirm \/ ConfirmationTimesOut)
  /\ WF_vars(PostTrade)
  /\ WF_vars(PostSnapshot)

Spec == Init /\ [][Next]_vars /\ Fairness

-----------------------------------------------------------------------------
(***************************************************************************)
(* Properties                                                              *)
(***************************************************************************)

\* A row of trades is of a transaction the cluster has dealt with: timeouts,
\* lost answers and reloads leave out rows, they do not make up any.
TradesSettled ==
  \A t \in trades : tx[t.sig].state \in {"landed", "failed"}

\* Once the wallet has signed, the button comes back whatever fails: the user
\* is never locked out of buying.
ButtonComesBack == (pc \notin {"idle", "sign"}) ~> (pc = "idle")

\* A recorded trade is a successful purchase of the launch it is recorded for.
\* (A transaction that failed on the cluster is recorded as well, and the
\* launch recorded is the one the modal shows by then.)
TradesArePurchases ==
  \A t \in trades : tx[t.sig].state = "landed" /\ tx[t.sig].buys = t.launch

=============================================================================
