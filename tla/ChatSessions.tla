---------------------------- MODULE ChatSessions ----------------------------
(***************************************************************************)
(* The chats a browser keeps (static/index.html): each tab shows one, asks *)
(* one question at a time in it, and saves it whole to IndexedDB, at once  *)
(* when a turn ends and a moment after any other change.  Transactions of  *)
(* all tabs are done one after another; a tab goes on while one of its own *)
(* waits.                                                                  *)
(*                                                                         *)
(* A chat is a record [events, hist]: what is shown, and what the backend  *)
(* is sent.  Both hold items <<kind, n>> of the n-th question asked.       *)
(***************************************************************************)
EXTENDS Selection, SequencesExt

CONSTANTS
  Tabs,
  Ids,           \* chat ids
  MaxAsked,      \* bound: questions
  MaxTxs,        \* bound: transactions waiting, of either user
  NoChat

ASSUME BoundAssumption == MaxAsked \in Nat
ASSUME SomeTabs == IsFiniteSet(Tabs) /\ Injection(Tabs, Ids) # {}

Item == {"user", "tool", "final", "error"} \X (1 .. MaxAsked)
Chat == [events : Seq(Item), hist : Seq(Item)]

ASSUME NoChatIsNone == NoChat \notin Chat

VARIABLES
  store, order,  \* IndexedDB: the chats, and their ids by time of saving
  txs,           \* transactions waiting, in the order they were made
  tab,           \* [Tabs -> [id, events, hist, busy, asking, timer]]
  asked,         \* asked[n]: the chat question n was asked in
  deleted,       \* chats whose deletion was done (those with a question)
  patient        \* the user sends nothing while a chat is being opened

vars == <<store, order, txs, tab, asked, deleted, patient>>

Empty(id) == [id |-> id, events |-> <<>>, hist |-> <<>>,
              busy |-> FALSE, asking |-> 0, timer |-> FALSE]

\* An id no chat has had.  An empty chat's is free again once forgotten.
Free == Ids \ ( ToSet(asked)
               \cup {txs[i].id : i \in {j \in DOMAIN txs : txs[j].op \in {"put", "get", "del"}}}
               \cup {tab[t].id : t \in Tabs} )

Fresh == CHOOSE id \in Free : TRUE

-----------------------------------------------------------------------------
Load(t)    == [op |-> "load", tab |-> t]
Rest(t)    == [op |-> "rest", tab |-> t]
Get(t, id) == [op |-> "get", tab |-> t, id |-> id]
Del(t, id) == [op |-> "del", tab |-> t, id |-> id]
Put(t, v)  == [op |-> "put", tab |-> t, id |-> v.id,
               chat |-> [events |-> v.events, hist |-> v.hist]]

\* The page loads: a new chat is shown, the saved ones are asked for.
Init ==
  /\ store = [id \in Ids |-> NoChat] /\ order = <<>>
  /\ LET id == CHOOSE id \in Injection(Tabs, Ids) : TRUE IN
     tab = [t \in Tabs |-> Empty(id[t])]
  /\ \E f \in Bijection(1 .. Cardinality(Tabs), Tabs) :
       txs = [i \in 1 .. Cardinality(Tabs) |-> Load(f[i])]
  /\ asked = <<>> /\ deleted = {} /\ patient \in BOOLEAN

-----------------------------------------------------------------------------
Waiting(t) == \E i \in DOMAIN txs : txs[i].tab = t /\ txs[i].op # "put"

Room == Len(txs) < MaxTxs[patient]

\* Fault: a chat is not saved while a reply is shown.
FaultySaves(v) == v.events # <<>> /\ ~v.busy

\* saveNow returns early when nothing is there to save.
Saves(v) == v.events # <<>>

\* saveNow: a copy of the tab's chat as it is now; the timer is cleared.
SaveNow(t, v) ==
  txs' = IF Saves(v) THEN Append(txs, Put(t, v)) ELSE txs

\* Fault: the history of the last chat goes on.
FaultyNewSession(t, id) == [tab[t] EXCEPT !.id = id, !.events = <<>>]

\* newSession, in resetChat; the save timer runs on.
NewSession(t, id) == [tab[t] EXCEPT !.id = id, !.events = <<>>, !.hist = <<>>]

\* Fault: the chat is wiped where it should be left.
FaultyReset(t) == tab' = [tab EXCEPT ![t].events = <<>>, ![t].hist = <<>>]

Reset(t) ==
  /\ Free # {}     \* bound: an id is left
  /\ tab' = [tab EXCEPT ![t] = NewSession(t, Fresh)]

-----------------------------------------------------------------------------
Send(t) ==
  /\ ~tab[t].busy /\ Len(asked) < MaxAsked
  /\ patient => ~Waiting(t)
  /\ LET item == <<"user", Len(asked) + 1>> IN
     tab' = [tab EXCEPT ![t].busy = TRUE, ![t].asking = item[2], ![t].timer = TRUE,
                        ![t].events = Append(@, item), ![t].hist = Append(@, item)]
  /\ asked' = Append(asked, tab[t].id)
  /\ UNCHANGED <<store, order, txs, deleted, patient>>

\* handleEvent: reasoning or a tool call, recorded as it arrives.
StreamEvent(t) ==
  /\ tab[t].busy
  /\ LET item == <<"tool", tab[t].asking>> IN
     /\ item \notin ToSet(tab[t].events)     \* bound: one of each turn
     /\ tab' = [tab EXCEPT ![t].timer = TRUE, ![t].events = Append(@, item)]
  /\ UNCHANGED <<store, order, txs, asked, deleted, patient>>

\* The tab's chat is saved first, then the next question may be sent.
TurnEnds(t, v) ==
  /\ tab[t].busy
  /\ SaveNow(t, v)
  /\ tab' = [tab EXCEPT ![t] = [v EXCEPT !.busy = FALSE, !.timer = FALSE]]
  /\ UNCHANGED <<store, order, asked, deleted, patient>>

Answered(t) ==
  LET item == <<"final", tab[t].asking>> IN
  TurnEnds(t, [tab[t] EXCEPT !.hist = Append(@, item), !.events = Append(@, item)])

\* An error is shown but not part of the history.
Failed(t) ==
  TurnEnds(t, [tab[t] EXCEPT !.events = Append(@, <<"error", tab[t].asking>>)])

TimerFires(t) ==
  /\ tab[t].timer /\ Room
  /\ SaveNow(t, tab[t])
  /\ tab' = [tab EXCEPT ![t].timer = FALSE]
  /\ UNCHANGED <<store, order, asked, deleted, patient>>

\* Another model is chosen for a chat that has begun.
SelectModel(t) ==
  /\ tab[t].events # <<>>
  /\ tab' = [tab EXCEPT ![t].timer = TRUE]
  /\ UNCHANGED <<store, order, txs, asked, deleted, patient>>

NewChat(t) == ~tab[t].busy /\ Reset(t) /\ UNCHANGED <<store, order, txs, asked, deleted, patient>>

\* openSession up to its await.
OpenChat(t, id) ==
  /\ ~tab[t].busy /\ id \in ToSet(order) /\ Room
  /\ txs' = Append(txs, Get(t, id))
  /\ UNCHANGED <<store, order, tab, asked, deleted, patient>>

DeleteChat(t) ==
  /\ ~tab[t].busy /\ Room
  /\ txs' = Append(txs, Del(t, tab[t].id))
  /\ UNCHANGED <<store, order, tab, asked, deleted, patient>>

-----------------------------------------------------------------------------
Without(id) == Select(order, {i \in DOMAIN order : order[i] # id})

DoPut ==
  /\ Head(txs).op = "put"
  /\ store' = [store EXCEPT ![Head(txs).id] = Head(txs).chat]
  /\ order' = Append(Without(Head(txs).id), Head(txs).id)
  /\ txs' = Tail(txs)
  /\ UNCHANGED <<tab, asked, deleted, patient>>

\* The rest is asked for next.
DoDelete ==
  /\ Head(txs).op = "del"
  /\ store' = [store EXCEPT ![Head(txs).id] = NoChat]
  /\ order' = Without(Head(txs).id)
  /\ deleted' = deleted \cup ({Head(txs).id} \cap ToSet(asked))
  /\ txs' = Append(Tail(txs), Rest(Head(txs).tab))
  /\ UNCHANGED <<tab, asked, patient>>

\* The last saved chat is opened, if any; the guard of openSession and
\* resetChat is read now.
DoList ==
  LET t == Head(txs).tab
      opens == order # <<>> /\ ~tab[t].busy
  IN  /\ Head(txs).op \in {"load", "rest"}
      /\ txs' = IF opens THEN Append(Tail(txs), Get(t, Last(order)))
                ELSE Tail(txs)
      /\ IF Head(txs).op = "rest" /\ order = <<>> /\ ~tab[t].busy
         THEN Reset(t) ELSE UNCHANGED tab
      /\ UNCHANGED <<store, order, asked, deleted, patient>>

\* openSession after its await: the tab's chat is replaced, busy or not.
DoGet ==
  LET t == Head(txs).tab  id == Head(txs).id IN
  /\ Head(txs).op = "get"
  /\ txs' = Tail(txs)
  /\ IF store[id] # NoChat
     THEN tab' = [tab EXCEPT ![t].id = id, ![t].events = store[id].events,
                             ![t].hist = store[id].hist]
     ELSE IF tab[t].busy THEN UNCHANGED tab ELSE Reset(t)
  /\ UNCHANGED <<store, order, asked, deleted, patient>>

DoTx == txs # <<>> /\ (DoPut \/ DoDelete \/ DoList \/ DoGet)

Next ==
  \/ DoTx
  \/ \E t \in Tabs :
       \/ Send(t) \/ StreamEvent(t) \/ Answered(t) \/ Failed(t)
       \/ TimerFires(t) \/ SelectModel(t) \/ NewChat(t) \/ DeleteChat(t)
       \/ \E id \in Ids : OpenChat(t, id)

\* The browser does its transactions, timers run out and requests end.
Fairness ==
  /\ WF_vars(DoTx)
  /\ \A t \in Tabs : WF_vars(TimerFires(t)) /\ WF_vars(Answered(t) \/ Failed(t))

Spec == Init /\ [][Next]_vars
FairSpec == Spec /\ Fairness
-----------------------------------------------------------------------------
Said(s) == Select(s, {i \in DOMAIN s : s[i][1] \in {"user", "final"}})

Stored == {id \in Ids : store[id] # NoChat}

-----------------------------------------------------------------------------
\* The history a chat sends to the backend is what its transcript shows of
\* questions and answers: for the chats stored, waiting to be stored and
\* shown, also when a chat was opened in the middle of a turn.
HistoryIsTranscript ==
  /\ \A id \in Stored : Said(store[id].events) = store[id].hist
  /\ \A t \in Tabs : Said(tab[t].events) = tab[t].hist

\* When no turn runs and nothing waits, the chat shown is stored as it is shown:
\* no change is left without a save of its own.
QuietIsSaved ==
  \A t \in Tabs :
    txs = <<>> /\ ~tab[t].busy /\ tab[t].events # <<>> =>
      /\ store[tab[t].id] # NoChat
      /\ store[tab[t].id].events = tab[t].events

\* index.html on saved chats: "reopening it rebuilds the transcript and the team
\* panel exactly". A stored chat holds what was asked in it and answered to that.
OwnEventsOnly ==
  \A id \in Stored : \A i \in DOMAIN store[id].events : asked[store[id].events[i][2]] = id

\* What is stored of a chat is still there after a step that stores or opens.
Keeps ==
  \A id \in Ids : store[id] # NoChat /\ store'[id] # NoChat =>
    IsPrefix(store[id].events, store'[id].events)

\* A chat can be sent, stored and reopened as the conversation it was; all that
\* is shown gets stored, and of a patient user's chats nothing gets into another.
ChatsSound ==
  /\ HistoryIsTranscript
  /\ patient => QuietIsSaved /\ OwnEventsOnly

\* A patient user's saved chats lose nothing but by being deleted.
SavedStays == [][patient => Keeps]_vars

IsStored(n) ==
  asked[n] \in Stored
    /\ \E k \in {"final", "error"} : <<k, n>> \in ToSet(store[asked[n]].events)

\* Every turn of a patient user ends, and its chat is stored with the answer or
\* the error, unless the user deletes it.
TurnsStored ==
  patient => \A n \in 1..MaxAsked :
    n \in DOMAIN asked ~> n \in DOMAIN asked /\ (asked[n] \in deleted \/ IsStored(n))

-----------------------------------------------------------------------------
(* What the page shows and the code does not keep.                          *)

\* A chat deleted from the browser is not in it any more.
DeletedIsGone == \A id \in deleted : store[id] = NoChat
=============================================================================
