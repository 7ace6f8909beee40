----------------------------- MODULE SamesPages -----------------------------
(***************************************************************************)
(* The views of the web client (app.html) that poll: the list of launches, *)
(* read from the chain every 15 s, and the chat of the token page, read    *)
(* from the API (api/server.js) every 10 s.  A load is a request on its    *)
(* way, then an answer on its way back; loads overlap, answers arrive in   *)
(* any order or not at all, and the user moves between pages meanwhile.    *)
(*                                                                         *)
(* The browser runs one callback at a time: what a function does between   *)
(* two awaits is one action.  A content is the number of changes it shows. *)
(***************************************************************************)
EXTENDS Integers

CONSTANTS
  Launches,      \* launches on the chain; each has a token page
  None,          \* nothing yet
  Unavailable,   \* what the chat shows after a failed load
  MaxChain,      \* bound of the model on changes of the accounts
  MaxMessages,   \* bounds of the model on the messages of each launch
  Loads          \* loads the model lets be in flight at once

ASSUME PagesAssumptions ==
  /\ MaxChain \in Nat
  /\ MaxMessages \in [Launches -> Nat]
  /\ None \notin Launches /\ "launches" \notin Launches

VARIABLES
  chain,             \* changes of the program's accounts so far
  messages,          \* rows of chat_messages of each launch
  onchainLaunches,   \* the state of the accounts loaded last
  page,              \* the launch the token page shows; None: no chat on it
  due,               \* launches for which a call of loadChat is due
  intervals,         \* launches whose chat an interval polls
  chat,              \* content of the element chatMessages
  chatCount,         \* content of the element chatCount
  load               \* the loads in flight

view == <<page, due, intervals, chat, chatCount>>
vars == <<chain, messages, onchainLaunches, view, load>>

\* What a load asks for, what was read for it, and, for a chat, whether the
\* element it writes to is still in the page.
Free == [of |-> None, got |-> None, attached |-> FALSE]
Asked(what) == [of |-> what, got |-> None, attached |-> TRUE]

Init ==
  /\ chain = 0
  /\ messages = [l \in Launches |-> 0]
  /\ onchainLaunches = None
  /\ page = None
  /\ due = {}
  /\ intervals = {}
  /\ chat = None
  /\ chatCount = None
  /\ load = [i \in Loads |-> Free]

\* Somebody's transaction.
AccountsChange ==
  /\ chain < MaxChain
  /\ chain' = chain + 1
  /\ UNCHANGED <<messages, onchainLaunches, view, load>>

\* Somebody else's message.
MessagePosted(l) ==
  /\ messages[l] < MaxMessages[l]
  /\ messages' = [messages EXCEPT ![l] = @ + 1]
  /\ UNCHANGED <<chain, onchainLaunches, view, load>>

\* The user's own: when the post is answered, loadChat of the launch whose
\* page it was sent from.
sendChatMessage ==
  /\ page # None
  /\ messages[page] < MaxMessages[page]
  /\ messages' = [messages EXCEPT ![page] = @ + 1]
  /\ due' = due \cup {page}
  /\ UNCHANGED <<chain, onchainLaunches, page, intervals, chat, chatCount, load>>

\* Mutant: the interval of the page before goes on.
IntervalsKept(l) == intervals \cup {l}

\* clearInterval, then setInterval.
IntervalsOf(l) == {l}

\* Every rendering makes new elements: a load begun before keeps a reference
\* to an element that is no longer in the page.
Detach == load' = [i \in Loads |-> [load[i] EXCEPT !.attached = FALSE]]

renderTokenDetail(l) ==
  /\ onchainLaunches # None      \* else it throws and renders nothing
  /\ page' = l
  /\ due' = due \cup {l}
  /\ intervals' = IntervalsOf(l)
  /\ chat' = None
  /\ chatCount' = None
  /\ Detach
  /\ UNCHANGED <<chain, messages, onchainLaunches>>

\* An address that is not in the list (a link, or a launch of a later list):
\* "Token not found" replaces the page, and the interval of the page before
\* goes on.
renderNotFound ==
  /\ onchainLaunches # None
  /\ page' = None
  /\ chat' = None
  /\ chatCount' = None
  /\ Detach
  /\ UNCHANGED <<chain, messages, onchainLaunches, due, intervals>>

Ask(i, what) ==
  /\ load[i] = Free
  /\ load' = [load EXCEPT ![i] = Asked(what)]

loadOnchainLaunches ==
  /\ \E i \in Loads : Ask(i, "launches")
  /\ UNCHANGED <<chain, messages, onchainLaunches, view>>

\* loadChat, called by an interval; it looks the element up, and returns when
\* there is none.
PollChat ==
  /\ page # None
  /\ \E i \in Loads, l \in intervals : Ask(i, l)
  /\ UNCHANGED <<chain, messages, onchainLaunches, view>>

\* loadChat, called by the timer of a rendering or after a post.  The element
\* is the one of the page rendered by now, whichever launch that is of.
DueChat(l) ==
  /\ l \in due
  /\ \/ page # None /\ \E i \in Loads : Ask(i, l)
     \/ page = None /\ UNCHANGED load
  /\ due' = due \ {l}
  /\ UNCHANGED <<chain, messages, onchainLaunches, page, intervals, chat, chatCount>>

\* The server or the node reads.
Read(i) ==
  /\ load[i] # Free
  /\ load[i].got = None
  /\ load' = [load EXCEPT ![i].got = IF load[i].of = "launches" THEN chain
                                     ELSE messages[load[i].of]]
  /\ UNCHANGED <<chain, messages, onchainLaunches, view>>

\* Mutant: an answer is dropped when another load is under way.
TakenUnlessOverlapped(i) ==
  IF \E j \in Loads \ {i} : load[j].of = "launches" THEN onchainLaunches ELSE load[i].got

\* onchainLaunches = launches
Taken(i) == load[i].got

LaunchesArrive(i) ==
  /\ load[i].of = "launches" /\ load[i].got # None
  /\ onchainLaunches' = Taken(i)
  /\ load' = [load EXCEPT ![i] = Free]
  /\ UNCHANGED <<chain, messages, view>>

\* The element of the messages is the one loadChat found when it was called;
\* the element of the count is looked up now.
ChatArrives(i) ==
  /\ load[i].of \in Launches /\ load[i].got # None
  /\ chat' = IF load[i].attached THEN <<load[i].of, load[i].got>> ELSE chat
  /\ chatCount' = IF page # None THEN load[i].got ELSE chatCount
  /\ load' = [load EXCEPT ![i] = Free]
  /\ UNCHANGED <<chain, messages, onchainLaunches, page, due, intervals>>

\* The request or its answer is lost, or refused.
Fail(i) ==
  /\ load[i] # Free
  /\ chat' = IF load[i].of \in Launches /\ load[i].attached THEN Unavailable ELSE chat
  /\ load' = [load EXCEPT ![i] = Free]
  /\ UNCHANGED <<chain, messages, onchainLaunches, page, due, intervals, chatCount>>

Next ==
  \/ AccountsChange
  \/ sendChatMessage
  \/ loadOnchainLaunches
  \/ renderNotFound
  \/ PollChat
  \/ \E l \in Launches : MessagePosted(l) \/ renderTokenDetail(l) \/ DueChat(l)
  \/ \E i \in Loads : Read(i) \/ LaunchesArrive(i) \/ ChatArrives(i) \/ Fail(i)

\* Intervals and timers keep firing (the bound Loads may keep them waiting,
\* so strongly); every load ends, one way or the other; and loads of the list
\* do not all fail for ever.
Fairness ==
  /\ SF_vars(loadOnchainLaunches)
  /\ SF_vars(PollChat)
  /\ \A l \in Launches : SF_vars(DueChat(l))
  /\ \A i \in Loads : WF_vars(Read(i) \/ LaunchesArrive(i) \/ ChatArrives(i) \/ Fail(i))
  /\ SF_vars(\E i \in Loads : load[i].of = "launches" /\ Read(i))
  /\ SF_vars(\E i \in Loads : LaunchesArrive(i))

Spec == Init /\ [][Next]_vars /\ Fairness

-----------------------------------------------------------------------------
(***************************************************************************)
(* Properties                                                              *)
(***************************************************************************)

\* When the chain comes to rest, so does the list, on its last state: loads
\* that overlap may put an older state over a newer one, but not for good.
LaunchesCatchUp == <>[](onchainLaunches = chain)

\* When the user stays on a page and loads stop failing, messages and count
\* come to rest on those of that page: whatever calls and answers of pages
\* left before are still on their way.
ChatSettles ==
  (/\ <>[][\A l \in Launches : ~ renderTokenDetail(l)]_vars
   /\ <>[](chat # Unavailable))
    => <>[](page # None => /\ chat = <<page, messages[page]>>
                           /\ chatCount = messages[page])

=============================================================================
