------------------------- MODULE ChatSessionsProofs -------------------------
(***************************************************************************)
(* Proofs about ChatSessions, for any number of chats, questions and       *)
(* transactions.                                                           *)
(***************************************************************************)
EXTENDS ChatSessions

Tx ==
  [op : {"load", "rest"}, tab : Tabs] \cup [op : {"get", "del"}, tab : Tabs, id : Ids]
    \cup [op : {"put"}, tab : Tabs, id : Ids, chat : Chat]

Shown == [id : Ids, events : Seq(Item), hist : Seq(Item),
          busy : BOOLEAN, asking : Nat, timer : BOOLEAN]

TypeOK ==
  /\ store \in [Ids -> Chat \cup {NoChat}] /\ order \in Seq(Ids) /\ txs \in Seq(Tx)
  /\ tab \in [Tabs -> Shown] /\ asked \in Seq(Ids) /\ patient \in BOOLEAN
  /\ Len(asked) <= MaxAsked
  /\ \A t \in Tabs : tab[t].busy => tab[t].asking \in 1 .. Len(asked)

Saving(i) == i \in DOMAIN txs /\ txs[i].op = "put"

-----------------------------------------------------------------------------
\* What the parts of a transaction are.
LEMMA TxType ==
  ASSUME NEW x \in Tx
  PROVE  /\ x.tab \in Tabs
         /\ x.op \in {"load", "rest", "get", "del", "put"}
         /\ x.op \in {"get", "del", "put"} => x.id \in Ids
         /\ x.op = "put" => /\ x.chat \in Chat
                            /\ x.chat.events \in Seq(Item) /\ x.chat.hist \in Seq(Item)
  BY DEF Tx, Chat

LEMMA MadeTxType ==
  ASSUME NEW t \in Tabs
  PROVE  /\ Load(t) \in Tx /\ Rest(t) \in Tx
         /\ \A id \in Ids : Get(t, id) \in Tx /\ Del(t, id) \in Tx
         /\ \A v \in Shown : Put(t, v) \in Tx
  BY DEF Tx, Load, Rest, Get, Del, Put, Shown, Chat

LEMMA FreshType == Free # {} => Fresh \in Ids /\ Fresh \in Free
  BY DEF Fresh, Free

LEMMA WithoutType ==
  ASSUME order \in Seq(Ids), NEW id
  PROVE  Without(id) \in Seq(Ids)
<1> DEFINE D == {i \in DOMAIN order : order[i] # id}
<1>1. D \in SUBSET (1 .. Len(order))
  BY LenProperties
<1> HIDE DEF D
<1> QED BY <1>1, SelectProperties DEF Without, D

\* What is said in a transcript that has grown.
LEMMA SaidAppend ==
  ASSUME NEW s \in Seq(Item), NEW x \in Item
  PROVE  /\ x[1] \in {"user", "final"} => Said(Append(s, x)) = Append(Said(s), x)
         /\ x[1] \notin {"user", "final"} => Said(Append(s, x)) = Said(s)
         /\ Said(<<>>) = <<>>
<1> DEFINE Of(u) == {i \in DOMAIN u : u[i][1] \in {"user", "final"}}
           D == Of(s)
<1>1. D \in SUBSET (1 .. Len(s)) /\ Len(s) \in Nat
  BY LenProperties
<1>2. x[1] \in {"user", "final"} => Of(Append(s, x)) = D \cup {Len(s) + 1}
  <2>1. /\ DOMAIN Append(s, x) = 1 .. Len(s) + 1 /\ DOMAIN s = 1 .. Len(s)
        /\ \A i \in 1 .. Len(s) : Append(s, x)[i] = s[i]
        /\ Append(s, x)[Len(s) + 1] = x
    BY AppendProperties
  <2> QED BY <1>1, <2>1
<1>3. x[1] \notin {"user", "final"} => Of(Append(s, x)) = D
  <2>1. /\ DOMAIN Append(s, x) = 1 .. Len(s) + 1 /\ DOMAIN s = 1 .. Len(s)
        /\ \A i \in 1 .. Len(s) : Append(s, x)[i] = s[i]
        /\ Append(s, x)[Len(s) + 1] = x
    BY AppendProperties
  <2> QED BY <1>1, <2>1
<1>4. Of(<<>>) = {}
  OBVIOUS
<1>5. \A u : Said(u) = Select(u, Of(u))
  BY DEF Said
<1> HIDE DEF Of, D
<1>6. /\ Select(Append(s, x), D) = Select(s, D)
      /\ Select(Append(s, x), D \cup {Len(s) + 1}) = Append(Select(s, D), x)
  BY <1>1, SelectAppend
<1> QED BY <1>2, <1>3, <1>4, <1>5, <1>6, SelectNone DEF D

-----------------------------------------------------------------------------
(* Types.                                                                   *)

LEMMA TypeInit == Init => TypeOK
<1> SUFFICES ASSUME Init PROVE TypeOK
  OBVIOUS
<1>1. PICK f \in Bijection(1 .. Cardinality(Tabs), Tabs) :
        txs = [i \in 1 .. Cardinality(Tabs) |-> Load(f[i])]
  BY DEF Init
<1>2. txs \in Seq(Tx)
  <2>1. Cardinality(Tabs) \in Nat
    BY SomeTabs, FS_CardinalityType
  <2>2. \A i \in 1 .. Cardinality(Tabs) : f[i] \in Tabs
    BY DEF Bijection, Injection
  <2>3. \A i \in 1 .. Cardinality(Tabs) : Load(f[i]) \in Tx
    BY <2>2, MadeTxType
  <2> QED BY <1>1, <2>1, <2>3
<1>3. tab \in [Tabs -> Shown] /\ \A t \in Tabs : ~tab[t].busy
  <2> DEFINE id == CHOOSE g \in Injection(Tabs, Ids) : TRUE
  <2>1. id \in Injection(Tabs, Ids)
    BY SomeTabs
  <2>2. \A t \in Tabs : id[t] \in Ids
    BY <2>1 DEF Injection
  <2>3. tab = [t \in Tabs |-> Empty(id[t])]
    BY DEF Init
  <2> HIDE DEF id
  <2> QED BY <2>2, <2>3 DEF Shown, Empty
<1>4. store \in [Ids -> Chat \cup {NoChat}] /\ order \in Seq(Ids) /\ asked \in Seq(Ids)
      /\ Len(asked) <= MaxAsked /\ patient \in BOOLEAN
  BY BoundAssumption DEF Init
<1> QED BY <1>2, <1>3, <1>4 DEF TypeOK

LEMMA ResetType ==
  ASSUME TypeOK, NEW t \in Tabs, Reset(t)
  PROVE  /\ tab' \in [Tabs -> Shown]
         /\ \A u \in Tabs : tab'[u].busy = tab[u].busy /\ tab'[u].asking = tab[u].asking
<1>1. tab[t] \in Shown /\ Fresh \in Ids
  BY FreshType DEF TypeOK, Reset
<1>2. /\ NewSession(t, Fresh) \in Shown
      /\ NewSession(t, Fresh).busy = tab[t].busy
      /\ NewSession(t, Fresh).asking = tab[t].asking
  <2> DEFINE v == tab[t]
             w == [v EXCEPT !.id = Fresh, !.events = <<>>, !.hist = <<>>]
  <2>1. v \in Shown /\ NewSession(t, Fresh) = w
    BY <1>1 DEF NewSession
  <2> HIDE DEF v
  <2>2. w \in Shown /\ w.busy = v.busy /\ w.asking = v.asking
    <3>1. <<>> \in Seq(Item)
      OBVIOUS
    <3> QED BY <1>1, <2>1, <3>1 DEF Shown
  <2> HIDE DEF w
  <2> QED BY <2>1, <2>2 DEF v
<1> QED BY <1>2 DEF TypeOK, Reset

LEMMA SaveType ==
  ASSUME TypeOK, NEW t \in Tabs, NEW v \in Shown, SaveNow(t, v)
  PROVE  txs' \in Seq(Tx)
<1>1. Put(t, v) \in Tx
  BY MadeTxType
<1> QED BY <1>1, AppendProperties DEF SaveNow, TypeOK

\* The item a turn ends with, and the chat that is saved and shown then.
LEMMA TurnItem ==
  ASSUME TypeOK, NEW t \in Tabs, Answered(t) \/ Failed(t)
  PROVE  \E item \in Item, v \in Shown :
           /\ TurnEnds(t, v) /\ tab[t].busy /\ item[2] = tab[t].asking
           /\ v.id = tab[t].id /\ v.events = Append(tab[t].events, item)
           /\ v.hist = IF item[1] \in {"user", "final"} THEN Append(tab[t].hist, item)
                       ELSE tab[t].hist
           /\ v.asking = tab[t].asking
<1>1. tab[t] \in Shown /\ tab[t].busy
  BY DEF TypeOK, Answered, Failed, TurnEnds
<1>2. tab[t].asking \in 1 .. MaxAsked
  BY <1>1, BoundAssumption DEF TypeOK
<1>3. CASE Answered(t)
  <2> DEFINE item == <<"final", tab[t].asking>>
             w == [tab[t] EXCEPT !.hist = Append(@, item), !.events = Append(@, item)]
  <2>1. item \in Item /\ item[1] = "final" /\ item[2] = tab[t].asking
    BY <1>2 DEF Item
  <2>2. TurnEnds(t, w)
    BY <1>3 DEF Answered
  <2> HIDE DEF item
  <2>3. /\ w \in Shown /\ w.id = tab[t].id /\ w.events = Append(tab[t].events, item)
        /\ w.hist = Append(tab[t].hist, item) /\ w.asking = tab[t].asking
    BY <1>1, <2>1, AppendProperties DEF Shown
  <2> HIDE DEF w
  <2> QED BY <1>1, <2>1, <2>2, <2>3
<1>4. CASE Failed(t)
  <2> DEFINE item == <<"error", tab[t].asking>>
             w == [tab[t] EXCEPT !.events = Append(@, item)]
  <2>1. item \in Item /\ item[1] = "error" /\ item[2] = tab[t].asking
    BY <1>2 DEF Item
  <2>2. TurnEnds(t, w)
    BY <1>4 DEF Failed
  <2> HIDE DEF item
  <2>3. /\ w \in Shown /\ w.id = tab[t].id /\ w.events = Append(tab[t].events, item)
        /\ w.hist = tab[t].hist /\ w.asking = tab[t].asking
    BY <1>1, <2>1, AppendProperties DEF Shown
  <2> HIDE DEF w
  <2> QED BY <1>1, <2>1, <2>2, <2>3
<1> QED BY <1>3, <1>4

LEMMA TypeStep == TypeOK /\ [Next]_vars => TypeOK'
<1> SUFFICES ASSUME TypeOK, [Next]_vars PROVE TypeOK'
  OBVIOUS
<1> USE DEF TypeOK
<1>items. ASSUME NEW n \in 1 .. MaxAsked, NEW k \in {"user", "tool", "final", "error"}
          PROVE  <<k, n>> \in Item
  BY DEF Item
<1>asking. ASSUME NEW t \in Tabs, tab[t].busy
           PROVE  tab[t].asking \in 1 .. MaxAsked
  BY <1>asking, BoundAssumption
<1>1. CASE UNCHANGED vars
  BY <1>1 DEF vars
<1>2. CASE DoTx
  <2> DEFINE x == Head(txs)
  <2>1. txs # <<>> /\ x \in Tx /\ Tail(txs) \in Seq(Tx)
    BY <1>2 DEF DoTx
  <2>2. /\ x.tab \in Tabs
        /\ x.op \in {"get", "del", "put"} => x.id \in Ids
        /\ x.op = "put" => x.chat \in Chat
    BY <2>1, TxType
  <2> HIDE DEF x
  <2>3. CASE DoPut
    <3>1. x.id \in Ids /\ x.chat \in Chat
      BY <2>2, <2>3 DEF DoPut, x
    <3>2. order' \in Seq(Ids)
      BY <2>3, <3>1, WithoutType, AppendProperties DEF DoPut, x
    <3> QED BY <2>1, <2>3, <3>1, <3>2 DEF DoPut, x
  <2>4. CASE DoDelete
    <3>1. order' \in Seq(Ids)
      BY <2>4, WithoutType DEF DoDelete
    <3>2. txs' \in Seq(Tx)
      BY <2>1, <2>2, <2>4, MadeTxType, AppendProperties DEF DoDelete, x
    <3> QED BY <2>2, <2>4, <3>1, <3>2 DEF DoDelete, x
  <2>5. CASE DoList
    <3>1. order # <<>> => Last(order) \in Ids
      BY ElementOfSeq DEF Last
    <3>2. txs' \in Seq(Tx)
      BY <2>1, <2>2, <2>5, <3>1, MadeTxType, AppendProperties DEF DoList, x
    <3>3. Reset(x.tab) \/ UNCHANGED tab
      BY <2>5 DEF DoList, x
    <3>4. /\ tab' \in [Tabs -> Shown]
          /\ \A u \in Tabs : tab'[u].busy = tab[u].busy /\ tab'[u].asking = tab[u].asking
      BY <2>2, <3>3, ResetType
    <3> QED BY <2>5, <3>2, <3>4 DEF DoList
  <2>6. CASE DoGet
    <3>1. x.op = "get" /\ x.id \in Ids
      BY <2>2, <2>6 DEF DoGet, x
    <3>2. /\ tab' \in [Tabs -> Shown]
          /\ \A u \in Tabs : tab'[u].busy = tab[u].busy /\ tab'[u].asking = tab[u].asking
      <4>1. CASE store[x.id] # NoChat
        <5>1. store[x.id] \in Chat
          BY <3>1, <4>1
        <5>2. tab' = [tab EXCEPT ![x.tab].id = x.id, ![x.tab].events = store[x.id].events,
                                 ![x.tab].hist = store[x.id].hist]
          BY <2>6, <4>1 DEF DoGet, x
        <5> DEFINE w == [tab[x.tab] EXCEPT !.id = x.id, !.events = store[x.id].events,
                                           !.hist = store[x.id].hist]
        <5>3. tab[x.tab] \in Shown /\ x.tab \in Tabs
          BY <2>2, <3>1
        <5>4. w \in Shown /\ w.busy = tab[x.tab].busy /\ w.asking = tab[x.tab].asking
          BY <3>1, <5>1, <5>3 DEF Shown, Chat
        <5>5. tab' = [tab EXCEPT ![x.tab] = w]
          BY <5>2, <5>3
        <5> HIDE DEF w
        <5> QED BY <5>3, <5>4, <5>5
      <4>2. CASE store[x.id] = NoChat
        <5>1. Reset(x.tab) \/ UNCHANGED tab
          BY <2>6, <4>2 DEF DoGet, x
        <5> QED BY <2>2, <5>1, ResetType
      <4> QED BY <4>1, <4>2
    <3>3. txs' \in Seq(Tx)
      BY <2>1, <2>6 DEF DoGet
    <3> QED BY <2>6, <3>2, <3>3 DEF DoGet
  <2> QED BY <1>2, <2>3, <2>4, <2>5, <2>6 DEF DoTx
<1>3. ASSUME NEW t \in Tabs, Send(t)
      PROVE  TypeOK'
  <2>1. asked' \in Seq(Ids) /\ Len(asked') = Len(asked) + 1 /\ Len(asked') <= MaxAsked
    BY <1>3, AppendProperties, BoundAssumption DEF Send, Shown
  <2>2. <<"user", Len(asked) + 1>> \in Item
    <3>1. Len(asked) + 1 \in 1 .. MaxAsked
      BY <2>1, BoundAssumption
    <3> QED BY <1>items, <3>1
  <2>3. tab' \in [Tabs -> Shown]
    <3> DEFINE item == <<"user", Len(asked) + 1>>
               w == [tab[t] EXCEPT !.busy = TRUE, !.asking = Len(asked) + 1, !.timer = TRUE,
                       !.events = Append(@, item), !.hist = Append(@, item)]
    <3>1. tab[t] \in Shown /\ Len(asked) + 1 \in Nat /\ item \in Item
      BY <2>2
    <3>2. tab' = [tab EXCEPT ![t] = w]
      BY <1>3 DEF Send
    <3> HIDE DEF item
    <3>3. w \in Shown
      BY <3>1, AppendProperties DEF Shown
    <3> HIDE DEF w
    <3> QED BY <3>2, <3>3
  <2>4. \A u \in Tabs : tab'[u].busy => tab'[u].asking \in 1 .. Len(asked')
    <3>1. tab'[t].asking = Len(asked) + 1 /\ Len(asked) \in Nat
      BY <1>3 DEF Send, Shown
    <3>2. \A u \in Tabs : u # t => tab'[u] = tab[u]
      BY <1>3 DEF Send
    <3> QED BY <2>1, <3>1, <3>2
  <2> QED BY <1>3, <2>1, <2>3, <2>4 DEF Send
<1>4. ASSUME NEW t \in Tabs, StreamEvent(t)
      PROVE  TypeOK'
  <2>1. <<"tool", tab[t].asking>> \in Item
    BY <1>4, <1>items, <1>asking DEF StreamEvent
  <2> QED BY <1>4, <2>1, AppendProperties DEF StreamEvent, Shown
<1>5. ASSUME NEW t \in Tabs, Answered(t) \/ Failed(t)
      PROVE  TypeOK'
  <2>2. PICK v \in Shown : TurnEnds(t, v) /\ v.asking = tab[t].asking
    BY <1>5, TurnItem
  <2>3. txs' \in Seq(Tx)
    BY <2>2, SaveType DEF TurnEnds
  <2> QED BY <2>2, <2>3 DEF TurnEnds, Shown
<1>6. ASSUME NEW t \in Tabs, TimerFires(t)
      PROVE  TypeOK'
  <2>1. txs' \in Seq(Tx)
    BY <1>6, SaveType DEF TimerFires
  <2> QED BY <1>6, <2>1 DEF TimerFires, Shown
<1>7. ASSUME NEW t \in Tabs, SelectModel(t)
      PROVE  TypeOK'
  BY <1>7 DEF SelectModel, Shown
<1>8. ASSUME NEW t \in Tabs, NewChat(t)
      PROVE  TypeOK'
  BY <1>8, ResetType DEF NewChat
<1>9. ASSUME NEW t \in Tabs, NEW id \in Ids, OpenChat(t, id)
      PROVE  TypeOK'
  BY <1>9, MadeTxType, AppendProperties DEF OpenChat
<1>10. ASSUME NEW t \in Tabs, DeleteChat(t)
       PROVE  TypeOK'
  BY <1>10, MadeTxType, AppendProperties DEF DeleteChat, Shown
<1> QED BY <1>1, <1>2, <1>3, <1>4, <1>5, <1>6, <1>7, <1>8, <1>9, <1>10 DEF Next

\* Every variable of ChatSessions keeps its type.
THEOREM ChatsTyped == Spec => []TypeOK
  BY TypeInit, TypeStep, PTL DEF Spec

-----------------------------------------------------------------------------
(* What a step does to the chats: those stored come from those waiting to   *)
(* be stored, these from those shown, and these from those stored.          *)

Same(t) ==
  /\ tab'[t].id = tab[t].id /\ tab'[t].events = tab[t].events /\ tab'[t].hist = tab[t].hist
  /\ tab'[t].busy = tab[t].busy /\ tab'[t].asking = tab[t].asking

Emptied(t) ==
  /\ Fresh \in Free /\ tab'[t].id = Fresh /\ tab'[t].events = <<>> /\ tab'[t].hist = <<>>
  /\ ~tab[t].busy /\ ~tab'[t].busy

Opened(t) ==
  /\ Waiting(t)
  /\ tab'[t].id \in Stored
  /\ tab'[t].events = store[tab'[t].id].events /\ tab'[t].hist = store[tab'[t].id].hist
  /\ tab'[t].busy = tab[t].busy /\ tab'[t].asking = tab[t].asking

\* A question asked now, or what comes of the one asked last.
Added(t) ==
  \E item \in Item :
    /\ tab'[t].id = tab[t].id /\ tab'[t].events = Append(tab[t].events, item)
    /\ tab'[t].hist = IF item[1] \in {"user", "final"} THEN Append(tab[t].hist, item)
                      ELSE tab[t].hist
    /\ tab'[t].asking = item[2]
    /\ \/ tab[t].busy /\ tab[t].asking = item[2] /\ asked' = asked
       \/ /\ asked' = Append(asked, tab[t].id) /\ item[2] = Len(asked) + 1
          /\ patient => ~Waiting(t)

LEMMA Shows ==
  ASSUME TypeOK, Next, NEW t \in Tabs
  PROVE  Same(t) \/ Emptied(t) \/ Opened(t) \/ Added(t)
<1> USE DEF TypeOK
<1>kinds. ASSUME NEW n \in 1 .. MaxAsked, NEW k \in {"user", "tool", "final", "error"}
          PROVE  <<k, n>> \in Item
  BY DEF Item
<1>asking. ASSUME NEW u \in Tabs, tab[u].busy
           PROVE  tab[u].asking \in 1 .. MaxAsked
  BY <1>asking, BoundAssumption
<1>reset. ASSUME NEW u \in Tabs, Reset(u), ~tab[u].busy
          PROVE  Same(t) \/ Emptied(t)
  <2>1. CASE u = t
    <3>1. tab'[t] = NewSession(t, Fresh) /\ tab[t] \in Shown /\ Fresh \in Free
      BY <1>reset, <2>1, FreshType DEF Reset
    <3> QED BY <1>reset, <2>1, <3>1 DEF NewSession, Emptied, Shown
  <2>2. CASE u # t
    BY <1>reset, <2>2 DEF Reset, Same
  <2> QED BY <2>1, <2>2
<1>1. CASE DoTx
  <2> DEFINE x == Head(txs)
  <2>1. txs # <<>> /\ x \in Tx /\ x = txs[1] /\ 1 \in DOMAIN txs
    BY <1>1 DEF DoTx
  <2>2. x.tab \in Tabs /\ (x.op = "get" => x.id \in Ids)
    BY <2>1, TxType
  <2>3. x.op # "put" => Waiting(x.tab)
    BY <2>1 DEF Waiting
  <2> HIDE DEF x
  <2>4. CASE UNCHANGED tab
    BY <2>4 DEF Same
  <2>5. CASE ~tab[x.tab].busy /\ Reset(x.tab)
    BY <1>reset, <2>2, <2>5
  <2>6. CASE DoGet /\ store[x.id] # NoChat
    <3>1. tab' = [tab EXCEPT ![x.tab].id = x.id, ![x.tab].events = store[x.id].events,
                             ![x.tab].hist = store[x.id].hist]
      BY <2>6 DEF DoGet, x
    <3>2. x.op = "get" /\ x.id \in Stored
      BY <2>2, <2>6 DEF DoGet, Stored, x
    <3>3. CASE t = x.tab
      <4>1. tab[t] \in Shown
        OBVIOUS
      <4> QED BY <2>3, <3>1, <3>2, <3>3, <4>1 DEF Opened, Shown
    <3>4. CASE t # x.tab
      BY <3>1, <3>4 DEF Same
    <3> QED BY <3>3, <3>4
  <2> QED BY <1>1, <2>4, <2>5, <2>6 DEF DoTx, DoPut, DoDelete, DoList, DoGet, x
<1>2. ASSUME NEW u \in Tabs, Send(u)
      PROVE  Same(t) \/ Added(t)
  <2>1. CASE u = t
    <3> DEFINE item == <<"user", Len(asked) + 1>>
    <3>1. item \in Item
      <4>1. Len(asked) + 1 \in 1 .. MaxAsked
        BY <1>2, BoundAssumption, LenProperties DEF Send
      <4> QED BY <1>kinds, <4>1
    <3>2. tab[t] \in Shown
      OBVIOUS
    <3>3. /\ tab'[t].id = tab[t].id /\ tab'[t].events = Append(tab[t].events, item)
          /\ tab'[t].hist = Append(tab[t].hist, item) /\ tab'[t].asking = Len(asked) + 1
      BY <1>2, <2>1, <3>2 DEF Send, Shown
    <3>4. item[1] = "user" /\ item[2] = Len(asked) + 1
      OBVIOUS
    <3>5. asked' = Append(asked, tab[t].id) /\ (patient => ~Waiting(t))
      BY <1>2, <2>1 DEF Send
    <3> HIDE DEF item
    <3> QED BY <3>1, <3>3, <3>4, <3>5 DEF Added
  <2>2. CASE u # t
    BY <1>2, <2>2 DEF Send, Same
  <2> QED BY <2>1, <2>2
<1>3. ASSUME NEW u \in Tabs, StreamEvent(u)
      PROVE  Same(t) \/ Added(t)
  <2>1. CASE u = t
    <3> DEFINE item == <<"tool", tab[t].asking>>
    <3>1. item \in Item /\ item[1] = "tool" /\ item[2] = tab[t].asking
      BY <1>3, <1>kinds, <1>asking, <2>1 DEF StreamEvent
    <3>2. tab[t] \in Shown
      OBVIOUS
    <3>3. /\ tab'[t].id = tab[t].id /\ tab'[t].events = Append(tab[t].events, item)
          /\ tab'[t].hist = tab[t].hist /\ tab'[t].asking = tab[t].asking
          /\ tab[t].busy /\ asked' = asked
      BY <1>3, <2>1, <3>2 DEF StreamEvent, Shown
    <3> HIDE DEF item
    <3> QED BY <3>1, <3>3 DEF Added
  <2>2. CASE u # t
    BY <1>3, <2>2 DEF StreamEvent, Same
  <2> QED BY <2>1, <2>2
<1>4. ASSUME NEW u \in Tabs, Answered(u) \/ Failed(u)
      PROVE  Same(t) \/ Added(t)
  <2>1. CASE u = t
    <3>1. PICK item \in Item, v \in Shown :
            /\ TurnEnds(t, v) /\ tab[t].busy /\ item[2] = tab[t].asking
            /\ v.id = tab[t].id /\ v.events = Append(tab[t].events, item)
            /\ v.hist = IF item[1] \in {"user", "final"} THEN Append(tab[t].hist, item)
                        ELSE tab[t].hist
            /\ v.asking = tab[t].asking
      BY <1>4, <2>1, TurnItem
    <3>2. /\ tab'[t].id = v.id /\ tab'[t].events = v.events /\ tab'[t].hist = v.hist
          /\ tab'[t].asking = v.asking /\ asked' = asked
      BY <3>1 DEF TurnEnds, Shown
    <3> QED BY <3>1, <3>2 DEF Added
  <2>2. CASE u # t
    BY <1>4, <2>2 DEF Answered, Failed, TurnEnds, Same
  <2> QED BY <2>1, <2>2
<1>5. ASSUME NEW u \in Tabs, TimerFires(u) \/ SelectModel(u)
      PROVE  Same(t)
  <2>1. tab[t] \in Shown
    OBVIOUS
  <2>2. CASE TimerFires(u)
    BY <2>1, <2>2 DEF TimerFires, Same, Shown
  <2>3. CASE SelectModel(u)
    BY <2>1, <2>3 DEF SelectModel, Same, Shown
  <2> QED BY <1>5, <2>2, <2>3
<1>6. ASSUME NEW u \in Tabs, NewChat(u)
      PROVE  Same(t) \/ Emptied(t)
  BY <1>6, <1>reset DEF NewChat
<1>7. ASSUME NEW u \in Tabs, DeleteChat(u) \/ \E id \in Ids : OpenChat(u, id)
      PROVE  Same(t)
  BY <1>7 DEF DeleteChat, OpenChat, Same
<1> QED BY <1>1, <1>2, <1>3, <1>4, <1>5, <1>6, <1>7 DEF Next

\* A chat stored was stored before or is the first transaction's; a chat waiting
\* to be stored waited before or is shown.
LEMMA Stores ==
  ASSUME TypeOK, Next
  PROVE  /\ \A id \in Stored' : \/ id \in Stored /\ store'[id] = store[id]
                                \/ /\ Saving(1) /\ txs[1].id = id
                                   /\ store'[id] = txs[1].chat
         /\ \A i : Saving(i)' =>
              \/ \E j : Saving(j) /\ txs'[i] = txs[j]
              \/ \E t \in Tabs : txs'[i] = Put(t, tab'[t]) /\ tab'[t].events # <<>>
<1> USE DEF TypeOK
<1>save. ASSUME NEW t \in Tabs, NEW v \in Shown, SaveNow(t, v), Put(t, v) = Put(t, tab'[t]),
                tab'[t].events = v.events
         PROVE  \A i : Saving(i)' =>
                  \/ \E j : Saving(j) /\ txs'[i] = txs[j]
                  \/ txs'[i] = Put(t, tab'[t]) /\ tab'[t].events # <<>>
  <2>1. CASE v.events = <<>>
    BY <1>save, <2>1 DEF SaveNow, Saves, Saving
  <2>2. CASE v.events # <<>>
    <3>1. txs' = Append(txs, Put(t, v))
      BY <1>save, <2>2 DEF SaveNow, Saves
    <3>2. /\ DOMAIN txs' = 1 .. Len(txs) + 1 /\ DOMAIN txs = 1 .. Len(txs)
          /\ \A i \in 1 .. Len(txs) : txs'[i] = txs[i]
          /\ txs'[Len(txs) + 1] = Put(t, v)
          /\ Len(txs) \in Nat
      BY <3>1, AppendProperties
    <3>3. \A i \in 1 .. Len(txs) + 1 : i \in 1 .. Len(txs) \/ i = Len(txs) + 1
      BY <3>2
    <3> QED BY <1>save, <2>2, <3>2, <3>3 DEF Saving
  <2> QED BY <2>1, <2>2
<1>more. ASSUME NEW x, x.op # "put", txs' = Append(txs, x)
         PROVE  \A i : Saving(i)' => Saving(i) /\ txs'[i] = txs[i]
  <2>1. /\ DOMAIN txs' = 1 .. Len(txs) + 1 /\ DOMAIN txs = 1 .. Len(txs)
        /\ \A i \in 1 .. Len(txs) : txs'[i] = txs[i]
        /\ txs'[Len(txs) + 1] = x
        /\ Len(txs) \in Nat
    BY <1>more
  <2>2. \A i \in 1 .. Len(txs) + 1 : i \in 1 .. Len(txs) \/ i = Len(txs) + 1
    BY <2>1
  <2> QED BY <1>more, <2>1, <2>2 DEF Saving
<1>1. CASE DoTx
  <2> DEFINE x == Head(txs)
  <2>1. txs # <<>> /\ x \in Tx /\ x = txs[1] /\ 1 \in DOMAIN txs
    BY <1>1 DEF DoTx
  <2>2. /\ Len(txs) \in Nat /\ DOMAIN txs = 1 .. Len(txs)
        /\ Tail(txs) \in Seq(Tx) /\ Len(Tail(txs)) = Len(txs) - 1
        /\ \A i \in 1 .. Len(txs) - 1 : Tail(txs)[i] = txs[i + 1] /\ i + 1 \in 1 .. Len(txs)
    BY <2>1
  <2>3. \/ txs' = Tail(txs)
        \/ \E y : y.op # "put" /\ txs' = Append(Tail(txs), y)
    <3>1. \A u, id : Rest(u).op # "put" /\ Get(u, id).op # "put"
      BY DEF Rest, Get
    <3> QED BY <1>1, <3>1 DEF DoTx, DoPut, DoDelete, DoList, DoGet
  <2>4. \A i : Saving(i)' => Saving(i + 1) /\ txs'[i] = txs[i + 1]
    <3>1. CASE txs' = Tail(txs)
      BY <2>2, <3>1 DEF Saving
    <3>2. ASSUME NEW y, y.op # "put", txs' = Append(Tail(txs), y)
          PROVE  \A i : Saving(i)' => Saving(i + 1) /\ txs'[i] = txs[i + 1]
      <4>1. /\ DOMAIN txs' = 1 .. Len(txs) /\ txs'[Len(txs)] = y
            /\ \A i \in 1 .. Len(txs) - 1 : txs'[i] = Tail(txs)[i]
        BY <2>1, <2>2, <3>2
      <4>2. \A i \in 1 .. Len(txs) : i \in 1 .. Len(txs) - 1 \/ i = Len(txs)
        <5>1. Len(txs) \in Nat
          BY <2>2
        <5> QED BY <5>1
      <4> QED BY <2>2, <3>2, <4>1, <4>2 DEF Saving
    <3> QED BY <2>3, <3>1, <3>2
  <2>5. \A id \in Stored' : \/ id \in Stored /\ store'[id] = store[id]
                            \/ Saving(1) /\ txs[1].id = id /\ store'[id] = txs[1].chat
    <3>1. CASE DoPut
      <4>1. Saving(1) /\ x.op = "put"
        BY <2>1, <3>1 DEF DoPut, Saving
      <4>2. x.id \in Ids
        BY <2>1, <4>1, TxType
      <4>3. store' = [store EXCEPT ![x.id] = x.chat]
        BY <3>1 DEF DoPut
      <4> HIDE DEF x
      <4> QED BY <2>1, <4>1, <4>2, <4>3 DEF Stored
    <3>2. CASE DoDelete
      <4>1. x.op = "del"
        BY <3>2 DEF DoDelete
      <4>2. x.id \in Ids
        BY <2>1, <4>1, TxType
      <4>3. store' = [store EXCEPT ![x.id] = NoChat]
        BY <3>2 DEF DoDelete
      <4> HIDE DEF x
      <4> QED BY <4>2, <4>3 DEF Stored
    <3>3. CASE DoList \/ DoGet
      BY <3>3 DEF DoList, DoGet, Stored
    <3> QED BY <1>1, <3>1, <3>2, <3>3 DEF DoTx
  <2> QED BY <2>4, <2>5
<1>2. ASSUME NEW t \in Tabs, Answered(t) \/ Failed(t)
      PROVE  \A i : Saving(i)' => \/ \E j : Saving(j) /\ txs'[i] = txs[j]
                                  \/ txs'[i] = Put(t, tab'[t]) /\ tab'[t].events # <<>>
  <2>0. tab[t] \in Shown
    OBVIOUS
  <2>1. PICK v \in Shown : TurnEnds(t, v)
    BY <1>2, TurnItem
  <2>2. /\ tab'[t].id = v.id /\ tab'[t].events = v.events /\ tab'[t].hist = v.hist
    BY <2>1 DEF TurnEnds, Shown
  <2>3. Put(t, v) = Put(t, tab'[t])
    BY <2>2 DEF Put
  <2> QED BY <1>save, <2>1, <2>2, <2>3 DEF TurnEnds
<1>3. ASSUME NEW t \in Tabs, TimerFires(t)
      PROVE  \A i : Saving(i)' => \/ \E j : Saving(j) /\ txs'[i] = txs[j]
                                  \/ txs'[i] = Put(t, tab'[t]) /\ tab'[t].events # <<>>
  <2>1. tab[t] \in Shown
    OBVIOUS
  <2>2. /\ tab'[t].id = tab[t].id /\ tab'[t].events = tab[t].events
        /\ tab'[t].hist = tab[t].hist
    BY <1>3, <2>1 DEF TimerFires, Shown
  <2>3. Put(t, tab[t]) = Put(t, tab'[t])
    BY <2>2 DEF Put
  <2> QED BY <1>save, <1>3, <2>1, <2>2, <2>3 DEF TimerFires
<1>4. ASSUME NEW t \in Tabs, NEW id \in Ids, OpenChat(t, id) \/ DeleteChat(t)
      PROVE  \A i : Saving(i)' => Saving(i) /\ txs'[i] = txs[i]
  <2>1. \A c : Get(t, c).op # "put" /\ Del(t, c).op # "put"
    BY DEF Get, Del
  <2> QED BY <1>4, <1>more, <2>1 DEF OpenChat, DeleteChat
<1>5. ASSUME NEW t \in Tabs, Send(t) \/ StreamEvent(t) \/ SelectModel(t) \/ NewChat(t)
      PROVE  UNCHANGED <<store, txs>>
  BY <1>5 DEF Send, StreamEvent, SelectModel, NewChat
<1>6. DoTx \/ UNCHANGED store
  BY DEF Next, Send, StreamEvent, Answered, Failed, TurnEnds, TimerFires, SelectModel,
         NewChat, OpenChat, DeleteChat
<1>8. UNCHANGED store => \A id \in Stored' : id \in Stored /\ store'[id] = store[id]
  BY DEF Stored
<1>9. UNCHANGED txs => \A i : Saving(i)' => Saving(i) /\ txs'[i] = txs[i]
  BY DEF Saving
<1>10. ASSUME NEW t \in Tabs, DeleteChat(t)
       PROVE  \A i : Saving(i)' => Saving(i) /\ txs'[i] = txs[i]
  <2>1. tab[t].id \in Ids
    BY DEF Shown
  <2> QED BY <1>4, <1>10, <2>1
<1> QED BY <1>1, <1>2, <1>3, <1>4, <1>5, <1>6, <1>8, <1>9, <1>10 DEF Next

-----------------------------------------------------------------------------
(* What is sent to the backend is what is shown of questions and answers.   *)

HistoryInv ==
  /\ HistoryIsTranscript
  /\ \A i : Saving(i) => Said(txs[i].chat.events) = txs[i].chat.hist

LEMMA InitEmpty ==
  ASSUME Init
  PROVE  /\ \A id : id \notin Stored
         /\ \A i : ~Saving(i)
         /\ \A t \in Tabs : /\ tab[t].events = <<>> /\ tab[t].hist = <<>>
                            /\ ~tab[t].busy /\ tab[t].asking = 0
         /\ \A i \in DOMAIN txs : txs[i].op = "load"
<1>1. PICK f \in Bijection(1 .. Cardinality(Tabs), Tabs) :
        txs = [i \in 1 .. Cardinality(Tabs) |-> Load(f[i])]
  BY DEF Init
<1>2. \A i \in DOMAIN txs : txs[i].op = "load"
  BY <1>1 DEF Load
<1> QED BY <1>2 DEF Init, Stored, Saving, Empty

LEMMA HistoryStep == TypeOK /\ HistoryInv /\ [Next]_vars => HistoryInv'
<1> SUFFICES ASSUME TypeOK, HistoryInv, [Next]_vars PROVE HistoryInv'
  OBVIOUS
<1>1. CASE UNCHANGED vars
  BY <1>1 DEF vars, HistoryInv, HistoryIsTranscript, Stored, Saving
<1>2. CASE Next
  <2>1. ASSUME NEW t \in Tabs
        PROVE  Said(tab'[t].events) = tab'[t].hist
    <3>0. tab[t].events \in Seq(Item) /\ Said(tab[t].events) = tab[t].hist
      BY DEF TypeOK, Shown, HistoryInv, HistoryIsTranscript
    <3>1. CASE Same(t)
      BY <3>0, <3>1 DEF Same
    <3>2. CASE Emptied(t)
      <4>1. \A x \in Item : Said(<<>>) = <<>>
        BY <3>0, SaidAppend
      <4>2. Said(<<>>) = <<>>
        BY SelectNone DEF Said
      <4> QED BY <3>2, <4>2 DEF Emptied
    <3>3. CASE Opened(t)
      BY <3>3 DEF Opened, HistoryInv, HistoryIsTranscript
    <3>4. CASE Added(t)
      <4>1. PICK item \in Item :
              /\ tab'[t].events = Append(tab[t].events, item)
              /\ tab'[t].hist = IF item[1] \in {"user", "final"}
                                THEN Append(tab[t].hist, item) ELSE tab[t].hist
        BY <3>4 DEF Added
      <4>2. CASE item[1] \in {"user", "final"}
        <5>1. Said(Append(tab[t].events, item)) = Append(Said(tab[t].events), item)
          BY <3>0, <4>2, SaidAppend
        <5> QED BY <3>0, <4>1, <4>2, <5>1
      <4>3. CASE item[1] \notin {"user", "final"}
        <5>1. Said(Append(tab[t].events, item)) = Said(tab[t].events)
          BY <3>0, <4>3, SaidAppend
        <5> QED BY <3>0, <4>1, <4>3, <5>1
      <4> QED BY <4>2, <4>3
    <3> QED BY <1>2, <3>1, <3>2, <3>3, <3>4, Shows
  <2>2. \A i : Saving(i)' => Said(txs'[i].chat.events) = txs'[i].chat.hist
    <3>1. \A t : Put(t, tab'[t]).chat.events = tab'[t].events /\ Put(t, tab'[t]).chat.hist = tab'[t].hist
      BY DEF Put
    <3> QED BY <1>2, <2>1, <3>1, Stores DEF HistoryInv
  <2>3. \A id \in Stored' : Said(store'[id].events) = store'[id].hist
    BY <1>2, Stores DEF HistoryInv, HistoryIsTranscript
  <2> QED BY <2>1, <2>2, <2>3 DEF HistoryInv, HistoryIsTranscript
<1> QED BY <1>1, <1>2

\* Whatever chats are stored, opened and saved in whatever order, by whatever
\* tabs: the history a chat sends to the backend is what its transcript shows.
THEOREM HistoryReplays == Spec => []HistoryIsTranscript
<1>1. Init => HistoryInv
  <2>1. Said(<<>>) = <<>>
    BY SelectNone DEF Said
  <2> QED BY <2>1, InitEmpty DEF HistoryInv, HistoryIsTranscript
<1>2. HistoryInv => HistoryIsTranscript
  BY DEF HistoryInv
<1> QED BY <1>1, <1>2, TypeInit, TypeStep, HistoryStep, PTL DEF Spec

-----------------------------------------------------------------------------
(* A patient user's chats keep apart.                                       *)

\* What is shown was asked in this chat, by these questions.
Own(questions, events, id) ==
  \A i \in 1 .. Len(events) :
    events[i][2] \in 1 .. Len(questions) /\ questions[events[i][2]] = id

OwnInv ==
  /\ \A id \in Stored : Own(asked, store[id].events, id)
  /\ \A i : Saving(i) => Own(asked, txs[i].chat.events, txs[i].id)
  /\ \A t \in Tabs :
       /\ Own(asked, tab[t].events, tab[t].id)
       /\ tab[t].busy => ~Waiting(t) /\ asked[tab[t].asking] = tab[t].id

LEMMA AskedStep ==
  ASSUME TypeOK, Next
  PROVE  /\ asked' = asked \/ \E t \in Tabs : asked' = Append(asked, tab[t].id) /\ Send(t)
         /\ \A n \in 1 .. Len(asked) : n \in 1 .. Len(asked') /\ asked'[n] = asked[n]
<1>1. asked' = asked \/ \E t \in Tabs : asked' = Append(asked, tab[t].id) /\ Send(t)
  BY DEF Next, DoTx, DoPut, DoDelete, DoList, DoGet, Send, StreamEvent, Answered, Failed,
         TurnEnds, TimerFires, SelectModel, NewChat, OpenChat, DeleteChat
<1>2. ASSUME NEW t \in Tabs, asked' = Append(asked, tab[t].id)
      PROVE  \A n \in 1 .. Len(asked) : n \in 1 .. Len(asked') /\ asked'[n] = asked[n]
  BY <1>2, AppendProperties DEF TypeOK, Shown
<1> QED BY SMTT(30), <1>1, <1>2

\* Nothing is opened for a tab while its turn runs, if the user is patient.
LEMMA WaitingStep ==
  ASSUME TypeOK, Next, patient, NEW t \in Tabs, Waiting(t)', tab'[t].busy
  PROVE  Waiting(t) /\ tab[t].busy
<1> USE DEF TypeOK
<1>put. ASSUME NEW x, x.op = "put" \/ x.tab # t, txs' = Append(txs, x)
        PROVE  Waiting(t)
  <2>1. /\ DOMAIN txs' = 1 .. Len(txs) + 1 /\ DOMAIN txs = 1 .. Len(txs)
        /\ \A i \in 1 .. Len(txs) : txs'[i] = txs[i]
        /\ txs'[Len(txs) + 1] = x
        /\ Len(txs) \in Nat
    BY <1>put
  <2>2. \A i \in 1 .. Len(txs) + 1 : i \in 1 .. Len(txs) \/ i = Len(txs) + 1
    BY <2>1
  <2> QED BY <1>put, <2>1, <2>2 DEF Waiting
<1>save. ASSUME NEW u \in Tabs, NEW v, SaveNow(u, v)
         PROVE  Waiting(t)
  <2>1. Put(u, v).op = "put"
    BY DEF Put
  <2>2. txs' = txs => Waiting(t)
    BY DEF Waiting
  <2> QED BY <1>put, <1>save, <2>1, <2>2 DEF SaveNow
<1>1. CASE DoTx
  <2> DEFINE x == Head(txs)
  <2>1. txs # <<>> /\ x \in Tx /\ x = txs[1] /\ 1 \in DOMAIN txs
    BY <1>1 DEF DoTx
  <2>2. /\ Len(txs) \in Nat /\ DOMAIN txs = 1 .. Len(txs)
        /\ Tail(txs) \in Seq(Tx) /\ Len(Tail(txs)) = Len(txs) - 1
        /\ \A i \in 1 .. Len(txs) - 1 : Tail(txs)[i] = txs[i + 1] /\ i + 1 \in 1 .. Len(txs)
    BY <2>1
  <2>3. \/ txs' = Tail(txs)
        \/ \E y : y.tab = x.tab /\ x.op # "put" /\ txs' = Append(Tail(txs), y)
    <3>1. \A u, id : Rest(u).tab = u /\ Get(u, id).tab = u
      BY DEF Rest, Get
    <3> QED BY <1>1, <3>1 DEF DoTx, DoPut, DoDelete, DoList, DoGet
  <2>4. ASSUME txs' = Tail(txs)
        PROVE  Waiting(t)
    <3>1. PICK i \in DOMAIN txs' : txs'[i].tab = t /\ txs'[i].op # "put"
      BY DEF Waiting
    <3>2. i \in 1 .. Len(txs) - 1
      BY <2>2, <2>4, <3>1
    <3>3. i + 1 \in DOMAIN txs /\ txs[i + 1] = txs'[i]
      BY <2>2, <2>4, <3>2
    <3>4. \E l \in DOMAIN txs : txs[l].tab = t /\ txs[l].op # "put"
      BY <3>1, <3>3
    <3> QED BY <3>4 DEF Waiting
  <2>5. ASSUME NEW y, y.tab = x.tab, x.op # "put", txs' = Append(Tail(txs), y)
        PROVE  Waiting(t)
    <3>1. /\ DOMAIN txs' = 1 .. Len(txs) /\ txs'[Len(txs)] = y
          /\ \A i \in 1 .. Len(txs) - 1 : txs'[i] = Tail(txs)[i]
      BY <2>1, <2>2, <2>5
    <3>2. \A i \in 1 .. Len(txs) : i \in 1 .. Len(txs) - 1 \/ i = Len(txs)
      <4>1. Len(txs) \in Nat
        BY <2>2
      <4> QED BY <4>1
    <3>3. PICK i \in DOMAIN txs' : txs'[i].tab = t /\ txs'[i].op # "put"
      BY DEF Waiting
    <3>4. CASE i \in 1 .. Len(txs) - 1
      BY ZenonT(60), <2>2, <3>1, <3>3, <3>4 DEF Waiting
    <3>5. CASE i = Len(txs)
      BY <2>1, <2>5, <3>1, <3>3, <3>5 DEF Waiting
    <3> QED BY <3>1, <3>2, <3>3, <3>4, <3>5
  <2>6. tab[t].busy
    <3>1. \A u \in Tabs : Reset(u) => tab'[t].busy = tab[t].busy
      BY ResetType
    <3>2. x.tab \in Tabs
      BY <2>1, TxType
    <3>3. DoGet /\ store[x.id] # NoChat => tab'[t].busy = tab[t].busy
      <4>1. tab[t] \in Shown
        OBVIOUS
      <4>2. ASSUME DoGet, store[x.id] # NoChat PROVE tab'[t].busy = tab[t].busy
        <5>1. tab' = [tab EXCEPT ![x.tab].id = x.id, ![x.tab].events = store[x.id].events,
                                 ![x.tab].hist = store[x.id].hist]
          BY <4>2 DEF DoGet
        <5> HIDE DEF x
        <5> QED BY <3>2, <4>1, <5>1 DEF Shown
      <4> QED BY <4>2
    <3> QED BY <1>1, <3>1, <3>2, <3>3 DEF DoTx, DoPut, DoDelete, DoList, DoGet
  <2> QED BY <2>3, <2>4, <2>5, <2>6
<1>2. ASSUME NEW u \in Tabs, Send(u)
      PROVE  Waiting(t) /\ tab[t].busy
  <2>1. Waiting(t)
    BY <1>2 DEF Send, Waiting
  <2>2. u # t
    BY <1>2, <2>1 DEF Send
  <2> QED BY <1>2, <2>1, <2>2 DEF Send
<1>3. ASSUME NEW u \in Tabs, Answered(u) \/ Failed(u)
      PROVE  Waiting(t) /\ tab[t].busy
  <2>1. PICK v \in Shown : TurnEnds(u, v)
    BY <1>3, TurnItem
  <2>2. Waiting(t)
    BY <1>save, <2>1 DEF TurnEnds
  <2>3. u # t
    BY <2>1 DEF TurnEnds, Shown
  <2> QED BY <2>1, <2>2, <2>3 DEF TurnEnds
<1>4. ASSUME NEW u \in Tabs, TimerFires(u)
      PROVE  Waiting(t) /\ tab[t].busy
  <2>1. tab[t] \in Shown
    OBVIOUS
  <2> QED BY <1>4, <1>save, <2>1 DEF TimerFires, Shown
<1>5. ASSUME NEW u \in Tabs, StreamEvent(u) \/ SelectModel(u) \/ NewChat(u)
      PROVE  Waiting(t) /\ tab[t].busy
  <2>1. Waiting(t)
    BY <1>5 DEF StreamEvent, SelectModel, NewChat, Waiting
  <2>2. tab[t] \in Shown
    OBVIOUS
  <2>3. NewChat(u) => tab'[t].busy = tab[t].busy
    BY ResetType DEF NewChat
  <2> QED BY <1>5, <2>1, <2>2, <2>3 DEF StreamEvent, SelectModel, Shown
<1>6. ASSUME NEW u \in Tabs, DeleteChat(u) \/ \E id \in Ids : OpenChat(u, id)
      PROVE  Waiting(t) /\ tab[t].busy
  <2>1. PICK x : x.tab = u /\ txs' = Append(txs, x)
    <3>1. \A id : Get(u, id).tab = u /\ Del(u, id).tab = u
      BY DEF Get, Del
    <3> QED BY <1>6, <3>1 DEF DeleteChat, OpenChat
  <2>2. u # t /\ tab[t].busy
    BY <1>6 DEF DeleteChat, OpenChat
  <2> QED BY <1>put, <2>1, <2>2
<1> QED BY <1>1, <1>2, <1>3, <1>4, <1>5, <1>6 DEF Next

LEMMA OwnStep == TypeOK /\ patient /\ OwnInv /\ [Next]_vars => OwnInv'
<1> SUFFICES ASSUME TypeOK, patient, OwnInv, [Next]_vars PROVE OwnInv'
  OBVIOUS
<1>1. CASE UNCHANGED vars
  BY <1>1 DEF vars, OwnInv, Own, Stored, Saving, Waiting
<1>2. CASE Next
  <2>1. \A n \in 1 .. Len(asked) : n \in 1 .. Len(asked') /\ asked'[n] = asked[n]
    BY <1>2, AskedStep
  <2>2. \A events, id : Own(asked, events, id) => Own(asked', events, id)
    BY <2>1 DEF Own
  <2>3. ASSUME NEW t \in Tabs
        PROVE  /\ Own(asked', tab'[t].events, tab'[t].id)
               /\ tab'[t].busy => ~Waiting(t)' /\ asked'[tab'[t].asking] = tab'[t].id
    <3>0. /\ tab[t].events \in Seq(Item) /\ tab[t] \in Shown
          /\ Own(asked, tab[t].events, tab[t].id)
          /\ tab[t].busy => /\ ~Waiting(t) /\ asked[tab[t].asking] = tab[t].id
                            /\ tab[t].asking \in 1 .. Len(asked)
      BY DEF TypeOK, Shown, OwnInv
    <3>1. tab'[t].busy => ~Waiting(t)'
      BY <1>2, <3>0, WaitingStep
    <3>2. CASE Same(t)
      BY <2>1, <2>2, <3>0, <3>1, <3>2 DEF Same
    <3>3. CASE Emptied(t)
      BY <3>3 DEF Emptied, Own
    <3>4. CASE Opened(t)
      <4>1. Own(asked, tab'[t].events, tab'[t].id)
        BY <3>4 DEF Opened, OwnInv
      <4>2. ~tab'[t].busy
        BY <3>0, <3>4 DEF Opened
      <4> QED BY <2>2, <4>1, <4>2
    <3>5. CASE Added(t)
      <4>1. PICK item \in Item :
              /\ tab'[t].id = tab[t].id /\ tab'[t].events = Append(tab[t].events, item)
              /\ tab'[t].asking = item[2]
              /\ \/ tab[t].busy /\ tab[t].asking = item[2] /\ asked' = asked
                 \/ asked' = Append(asked, tab[t].id) /\ item[2] = Len(asked) + 1
        BY <3>5 DEF Added
      <4>2. item[2] \in 1 .. Len(asked') /\ asked'[item[2]] = tab[t].id
        <5>1. CASE asked' = Append(asked, tab[t].id) /\ item[2] = Len(asked) + 1
          <6>1. tab[t].id \in Ids /\ asked \in Seq(Ids) /\ Len(asked) \in Nat
            BY <3>0 DEF TypeOK, Shown
          <6> QED BY <5>1, <6>1, AppendProperties
        <5> QED BY <3>0, <4>1, <5>1
      <4>3. Own(asked', tab[t].events, tab[t].id)
        BY <2>2, <3>0
      <4>4. /\ Len(tab'[t].events) = Len(tab[t].events) + 1 /\ Len(tab[t].events) \in Nat
            /\ \A i \in 1 .. Len(tab[t].events) : tab'[t].events[i] = tab[t].events[i]
            /\ tab'[t].events[Len(tab[t].events) + 1] = item
        BY <3>0, <4>1, AppendProperties
      <4>5. Own(asked', tab'[t].events, tab'[t].id)
        <5>1. \A i \in 1 .. Len(tab[t].events) + 1 :
                i \in 1 .. Len(tab[t].events) \/ i = Len(tab[t].events) + 1
          BY <4>4
        <5>2. \A i \in 1 .. Len(tab[t].events) :
                /\ tab[t].events[i][2] \in 1 .. Len(asked')
                /\ asked'[tab[t].events[i][2]] = tab[t].id
          BY <2>1, <3>0 DEF Own
        <5> QED BY <4>1, <4>2, <4>4, <5>1, <5>2 DEF Own
      <4> QED BY <3>1, <4>1, <4>2, <4>5
    <3> QED BY <1>2, <3>2, <3>3, <3>4, <3>5, Shows
  <2>4. \A i : Saving(i)' => Own(asked', txs'[i].chat.events, txs'[i].id)
    <3>1. \A t : Put(t, tab'[t]).chat.events = tab'[t].events /\ Put(t, tab'[t]).id = tab'[t].id
      BY DEF Put
    <3>2. \A i : Saving(i) => Own(asked', txs[i].chat.events, txs[i].id)
      BY <2>2 DEF OwnInv
    <3> QED BY <1>2, <2>3, <3>1, <3>2, Stores
  <2>5. \A id \in Stored' : Own(asked', store'[id].events, id)
    <3>1. \A i : Saving(i) => Own(asked', txs[i].chat.events, txs[i].id)
      BY <2>2 DEF OwnInv
    <3>2. \A id \in Stored : Own(asked', store[id].events, id)
      BY <2>2 DEF OwnInv
    <3> QED BY <1>2, <3>1, <3>2, Stores
  <2> QED BY <2>3, <2>4, <2>5 DEF OwnInv
<1> QED BY <1>1, <1>2

\* Who the user is does not change.
LEMMA PatientStep == [Next]_vars => patient' = patient
  BY DEF Next, DoTx, DoPut, DoDelete, DoList, DoGet, Send, StreamEvent, Answered, Failed,
         TurnEnds, TimerFires, SelectModel, NewChat, OpenChat, DeleteChat, vars

\* A user who sends nothing while a chat is being opened finds in every stored
\* chat what was asked in it and answered to that, with any number of tabs.
THEOREM PatientKeepsApart == Spec => [](patient => OwnEventsOnly)
<1> DEFINE P == patient => OwnInv
<1>1. Init => P
  <2>1. ASSUME Init PROVE \A id : Own(asked, <<>>, id)
    BY DEF Own
  <2> QED BY <2>1, InitEmpty DEF OwnInv
<1>2. TypeOK /\ P /\ [Next]_vars => P'
  BY OwnStep, PatientStep
<1>3. TypeOK /\ P => (patient => OwnEventsOnly)
  <2>1. ASSUME TypeOK, OwnInv PROVE OwnEventsOnly
    <3>1. \A id \in Stored : DOMAIN store[id].events = 1 .. Len(store[id].events)
      <4>1. \A id \in Stored : store[id] \in Chat
        BY <2>1 DEF TypeOK, Stored
      <4> QED BY <4>1 DEF Chat
    <3> QED BY <2>1, <3>1 DEF OwnInv, Own, OwnEventsOnly
  <2> QED BY <2>1
<1> QED BY <1>1, <1>2, <1>3, TypeInit, TypeStep, PTL DEF Spec

-----------------------------------------------------------------------------
(* One tab.  A chat has been seen in a line of versions: what is stored (at *)
(* 0), what the transactions waiting will store (at their places), and what *)
(* is shown (at the end; a place before it stands for an opening that may   *)
(* be asked for next).  Versions grow along the line, and from where the    *)
(* user asks for a chat to be opened, none is new.                          *)

Line(t, c) ==
  [i \in 0 .. Len(txs) + 2 |->
     IF i = 0 THEN IF c \in Stored THEN store[c].events ELSE <<>>
     ELSE IF i = Len(txs) + 2 THEN IF tab[t].id = c THEN tab[t].events ELSE <<>>
     ELSE IF Saving(i) /\ txs[i].id = c THEN txs[i].chat.events ELSE <<>>]

Asks(t) ==
  {i \in DOMAIN txs : txs[i].op # "put"} \cup {i \in {Len(txs) + 1} : ~tab[t].busy}

\* n transactions, versions V, and openings asked for at A.
Grows(V, n) ==
  \A i, j \in 0 .. n + 2 :
    i < j /\ V[i] # <<>> /\ V[j] # <<>> => IsPrefix(V[i], V[j])

Settled(V, A, n) ==
  \A i, j \in 0 .. n + 2, k \in A :
    i < k /\ k < j /\ V[i] # <<>> /\ V[j] # <<>> =>
      \E m \in 0 .. n + 2 : m < k /\ V[m] = V[j]

NonEmpty(t) ==
  /\ \A id \in Stored : store[id].events # <<>>
  /\ \A i : Saving(i) => txs[i].chat.events # <<>>
  /\ tab[t].events = <<>> => (\A n \in 1 .. Len(asked) : asked[n] # tab[t].id) /\ ~tab[t].busy
  /\ \A i \in DOMAIN txs : txs[i].op = "load" => asked = <<>>

Saved(t) ==
  ~tab[t].busy /\ ~Waiting(t) /\ tab[t].events # <<>> =>
    tab[t].id \in Stored \/ \E i : Saving(i) /\ txs[i].id = tab[t].id

LineInv(t) ==
  /\ NonEmpty(t) /\ Saved(t)
  /\ \A c \in Ids : Grows(Line(t, c), Len(txs)) /\ Settled(Line(t, c), Asks(t), Len(txs))

-----------------------------------------------------------------------------
(* Versions.                                                                *)

LEMMA PrefixFacts ==
  /\ \A s \in Seq(Item) : IsPrefix(s, s) /\ \A x \in Item : IsPrefix(s, Append(s, x))
  /\ \A s, u, v \in Seq(Item) : IsPrefix(s, u) /\ IsPrefix(u, v) => IsPrefix(s, v)
  /\ \A s, u \in Seq(Item) : IsPrefix(s, u) /\ IsPrefix(u, s) => s = u
  BY DEF IsPrefix

\* The first transaction is done and was a save.
PutDone(V, A, W, B, n) ==
  /\ W[0] = IF V[1] = <<>> THEN V[0] ELSE V[1]
  /\ \A i \in 1 .. n + 1 : W[i] = V[i + 1]
  /\ \A k \in B : k + 1 \in A

LEMMA LinePut ==
  ASSUME NEW n \in Nat, n # 0, NEW V \in [0 .. n + 2 -> Seq(Item)], NEW A \in SUBSET (1 .. n + 1),
         NEW W \in [0 .. n + 1 -> Seq(Item)], NEW B \in SUBSET (1 .. n),
         Grows(V, n), Settled(V, A, n), PutDone(V, A, W, B, n)
  PROVE  Grows(W, n - 1) /\ Settled(W, B, n - 1)
<1> DEFINE z == IF V[1] = <<>> THEN 0 ELSE 1
           h(i) == IF i = 0 THEN z ELSE i + 1
<1>0. z \in {0, 1} /\ W[0] = V[z] /\ (z = 0 <=> V[1] = <<>>)
  BY DEF PutDone
<1> HIDE DEF z
<1>1. ASSUME NEW i \in 0 .. n + 1
      PROVE  W[i] = V[h(i)] /\ h(i) \in 0 .. n + 2
  <2>1. CASE i = 0
    BY <1>0, <2>1
  <2>2. CASE i \in 1 .. n + 1
    BY SMTT(30), <2>2 DEF PutDone
  <2> QED BY <2>1, <2>2
<1>2. ASSUME NEW i \in 0 .. n + 1, NEW j \in 0 .. n + 1, i < j
      PROVE  h(i) < h(j)
  BY SMTT(30), <1>0, <1>2
<1>3. ASSUME NEW i \in 0 .. n + 1, NEW j \in 0 .. n + 1, i < j, W[i] # <<>>, W[j] # <<>>
      PROVE  IsPrefix(W[i], W[j])
  <2> HIDE DEF h
  <2>1. /\ V[h(i)] # <<>> /\ V[h(j)] # <<>> /\ h(i) < h(j)
        /\ h(i) \in 0 .. n + 2 /\ h(j) \in 0 .. n + 2
    BY <1>1, <1>2, <1>3
  <2>2. IsPrefix(V[h(i)], V[h(j)])
    BY <2>1 DEF Grows
  <2> QED BY <1>1, <2>2
<1>4. ASSUME NEW i \in 0 .. n + 1, NEW j \in 0 .. n + 1, NEW k \in B,
             i < k, k < j, W[i] # <<>>, W[j] # <<>>
      PROVE  \E m \in 0 .. n + 1 : m < k /\ W[m] = W[j]
  <2>0. k \in 1 .. n /\ k + 1 \in A
    BY DEF PutDone
  <2>1. j > 0 /\ h(j) = j + 1 /\ h(i) < k + 1 /\ k + 1 < h(j)
    <3>1. j > 0 /\ h(j) = j + 1 /\ k + 1 < j + 1
      BY <1>4, <2>0
    <3>2. CASE i = 0
      BY <1>0, <2>0, <3>1, <3>2
    <3>3. CASE i # 0
      BY <1>4, <2>0, <3>1, <3>3
    <3> QED BY <3>2, <3>3
  <2>2. PICK m \in 0 .. n + 2 : m < k + 1 /\ V[m] = V[j + 1]
    <3>1. /\ V[h(i)] # <<>> /\ V[h(j)] # <<>> /\ h(i) \in 0 .. n + 2 /\ h(j) \in 0 .. n + 2
      BY <1>1, <1>4
    <3> HIDE DEF h
    <3>2. \E m \in 0 .. n + 2 : m < k + 1 /\ V[m] = V[h(j)]
      BY <2>0, <2>1, <3>1 DEF Settled
    <3> QED BY <2>1, <3>2
  <2>3. W[j] = V[j + 1] /\ j + 1 \in 0 .. n + 2
    BY <1>1, <2>1
  <2>4. CASE m > 0
    <3>1. m = 1 => V[1] # <<>>
      BY <1>4, <2>2, <2>3
    <3>2. h(m - 1) = m /\ m - 1 \in 0 .. n + 1 /\ m - 1 < k
      BY <1>0, <2>0, <2>2, <2>4, <3>1
    <3>3. W[m - 1] = V[m]
      BY <1>1, <3>2
    <3> QED BY <2>2, <2>3, <3>2, <3>3
  <2>5. CASE m = 0 /\ V[1] = <<>>
    <3>1. W[0] = V[m] /\ 0 < k /\ 0 \in 0 .. n + 1
      BY <1>0, <2>0, <2>5
    <3> QED BY <2>2, <2>3, <3>1
  <2>6. CASE m = 0 /\ V[1] # <<>>
    <3>1. IsPrefix(V[0], V[1]) /\ IsPrefix(V[1], V[j + 1])
      <4>1. V[0] # <<>> /\ V[j + 1] # <<>> /\ 1 < j + 1
        BY <1>4, <2>1, <2>2, <2>3, <2>6
      <4>2. 0 \in 0 .. n + 2 /\ 1 \in 0 .. n + 2 /\ 0 < 1
        OBVIOUS
      <4> QED BY <2>3, <2>6, <4>1, <4>2 DEF Grows
    <3>2. V[0] \in Seq(Item) /\ V[1] \in Seq(Item) /\ V[0] = V[j + 1]
      BY <2>2, <2>6
    <3>3. W[0] = V[j + 1] /\ 0 < k /\ 0 \in 0 .. n + 1
      BY <1>0, <2>0, <2>6, <3>1, <3>2, PrefixFacts
    <3> QED BY <2>3, <3>3
  <2> QED BY <2>4, <2>5, <2>6
<1>5. (n - 1) + 2 = n + 1
  OBVIOUS
<1> QED BY <1>3, <1>4, <1>5 DEF Grows, Settled

\* The first transaction is done and was none; another may be made, to open
\* a chat, and what is shown may become what is stored, or empty.
AskDone(V, A, W, B, n, m) ==
  /\ 1 \in A /\ n + 1 \in A /\ V[1] = <<>>
  /\ W[0] = V[0] \/ W[0] = <<>>
  /\ \A i \in 1 .. n - 1 : W[i] = V[i + 1]
  /\ \A i \in n .. m + 1 : W[i] = <<>>
  /\ W[m + 2] = V[n + 2] \/ W[m + 2] = <<>> \/ (W[m + 2] = V[0] /\ W[0] = V[0])
  /\ \A k \in B : k <= n - 1 => k + 1 \in A

LEMMA LineAnswered ==
  ASSUME NEW n \in Nat, n # 0, NEW V \in [0 .. n + 2 -> Seq(Item)], NEW A \in SUBSET (1 .. n + 1),
         NEW m \in Nat, m = n - 1 \/ m = n, NEW W \in [0 .. m + 2 -> Seq(Item)], NEW B \in SUBSET (1 .. m + 1),
         Grows(V, n), Settled(V, A, n), AskDone(V, A, W, B, n, m)
  PROVE  Grows(W, m) /\ Settled(W, B, m)
<1>1. ASSUME NEW i \in 2 .. n + 2, V[i] # <<>>, V[0] # <<>>
      PROVE  V[i] = V[0]
  <2>1. 0 \in 0 .. n + 2 /\ i \in 0 .. n + 2 /\ 0 < 1 /\ 1 < i
    OBVIOUS
  <2>2. PICK l \in 0 .. n + 2 : l < 1 /\ V[l] = V[i]
    BY <1>1, <2>1 DEF Settled, AskDone
  <2>3. l = 0
    BY <2>2
  <2> QED BY <2>2, <2>3
\* What a version was before: the same place, one further, or what was shown.
<1> DEFINE From(i, l) == /\ l \in 0 .. n + 2 /\ W[i] = V[l]
                         /\ \/ i = 0 /\ l = 0
                            \/ i \in 1 .. n - 1 /\ l = i + 1
                            \/ i = m + 2 /\ l = n + 2
<1>2. ASSUME NEW i \in 0 .. m + 2, W[i] # <<>>
      PROVE  \/ \E l \in 0 .. n + 2 : From(i, l)
             \/ i = m + 2 /\ W[i] = V[0] /\ W[0] = V[0]
  <2>1. i = 0 \/ i \in 1 .. n - 1 \/ i \in n .. m + 1 \/ i = m + 2
    OBVIOUS
  <2>2. CASE i = 0
    <3>1. W[i] = V[0]
      BY <1>2, <2>2 DEF AskDone
    <3> QED BY <2>2, <3>1
  <2>3. CASE i \in 1 .. n - 1
    <3>1. W[i] = V[i + 1] /\ i + 1 \in 0 .. n + 2
      BY <2>3 DEF AskDone
    <3> QED BY <2>3, <3>1
  <2>4. CASE i \in n .. m + 1
    BY <1>2, <2>4 DEF AskDone
  <2>5. CASE i = m + 2
    <3>1. W[i] = V[n + 2] \/ (W[i] = V[0] /\ W[0] = V[0])
      BY <1>2, <2>5 DEF AskDone
    <3>2. n + 2 \in 0 .. n + 2
      OBVIOUS
    <3> QED BY <2>5, <3>1, <3>2
  <2> QED BY <2>1, <2>2, <2>3, <2>4, <2>5
<1>3. ASSUME NEW i \in 0 .. m + 2, NEW j \in 0 .. m + 2, i < j,
             NEW a \in 0 .. n + 2, NEW b \in 0 .. n + 2, From(i, a), From(j, b)
      PROVE  a < b
  BY SMTT(30), <1>3
<1>4. ASSUME NEW i \in 0 .. m + 2, NEW j \in 0 .. m + 2, i < j, W[i] # <<>>, W[j] # <<>>
      PROVE  IsPrefix(W[i], W[j])
  <2>0. i # m + 2
    BY <1>4
  <2>1. PICK a \in 0 .. n + 2 : From(i, a)
    BY <1>2, <1>4, <2>0
  <2>2. CASE \E b \in 0 .. n + 2 : From(j, b)
    <3>1. PICK b \in 0 .. n + 2 : From(j, b)
      BY <2>2
    <3>2. a < b
      BY <1>3, <1>4, <2>1, <3>1
    <3>3. W[i] = V[a] /\ W[j] = V[b]
      BY <2>1, <3>1
    <3> QED BY <1>4, <3>2, <3>3 DEF Grows
  <2>3. CASE W[j] = V[0]
    <3>1. V[0] \in Seq(Item) /\ V[0] # <<>>
      BY <1>4, <2>3
    <3>2. W[i] = V[0]
      <4>1. CASE i = 0
        BY <2>0, <2>1, <4>1
      <4>2. CASE i # 0
        <5>1. a \in 2 .. n + 2 /\ W[i] = V[a]
          BY <2>0, <2>1, <4>2
        <5> QED BY <1>1, <1>4, <3>1, <5>1
      <4> QED BY <4>1, <4>2
    <3> QED BY <2>3, <3>1, <3>2, PrefixFacts
  <2> QED BY <1>2, <1>4, <2>2, <2>3
<1>5. ASSUME NEW i \in 0 .. m + 2, NEW j \in 0 .. m + 2, NEW k \in B,
             i < k, k < j, W[i] # <<>>, W[j] # <<>>
      PROVE  \E l \in 0 .. m + 2 : l < k /\ W[l] = W[j]
  <2>0. k \in 1 .. m + 1 /\ i # m + 2 /\ j # 0
    BY SMTT(30), <1>5
  <2>1. PICK a \in 0 .. n + 2 : From(i, a)
    BY <1>2, <1>5, <2>0
  <2>2. CASE j = m + 2 /\ W[j] = V[0] /\ W[0] = V[0]
    <3>1. 0 \in 0 .. m + 2 /\ 0 < k
      BY <2>0
    <3> QED BY <2>2, <3>1
  <2>3. CASE \E b \in 0 .. n + 2 : From(j, b)
    <3>1. PICK b \in 0 .. n + 2 : From(j, b)
      BY <2>3
    <3> DEFINE q == IF k <= n - 1 THEN k + 1 ELSE n + 1
    <3>2. q \in A
      BY <2>0 DEF AskDone
    <3>3. a < q
      BY SMTT(30), <1>5, <2>0, <2>1
    <3>4. q < b
      BY SMTT(30), <1>5, <2>0, <3>1
    <3>5. W[i] = V[a] /\ W[j] = V[b]
      BY <2>1, <3>1
    <3>6. PICK l \in 0 .. n + 2 : l < q /\ V[l] = V[b]
      <4> HIDE DEF q, From
      <4> QED BY <1>5, <3>2, <3>3, <3>4, <3>5 DEF Settled
    <3>7. CASE l > 1
      <4>1. l - 1 \in 1 .. n - 1 /\ l - 1 < k /\ l - 1 \in 0 .. m + 2 /\ (l - 1) + 1 = l
        BY <2>0, <3>6, <3>7
      <4>2. W[l - 1] = V[l]
        BY <4>1 DEF AskDone
      <4> QED BY <3>5, <3>6, <4>1, <4>2
    <3>8. CASE l = 0 /\ W[0] = V[0]
      <4>1. 0 \in 0 .. m + 2 /\ 0 < k
        BY <2>0
      <4> QED BY <3>5, <3>6, <3>8, <4>1
    <3>9. CASE l = 0 /\ W[0] # V[0]
      <4>1. i # 0
        <5>1. W[0] = <<>>
          BY <3>9 DEF AskDone
        <5> QED BY <1>5, <5>1
      <4>2. a \in 2 .. n + 2 /\ V[a] # <<>> /\ V[0] # <<>>
        BY <1>5, <2>0, <2>1, <3>5, <3>6, <3>9, <4>1
      <4>3. W[i] = W[j]
        BY <1>1, <3>5, <3>6, <3>9, <4>2
      <4> QED BY <1>5, <4>3
    <3>10. l # 1
      BY <1>5, <3>5, <3>6 DEF AskDone
    <3>11. l = 0 \/ l > 1
      BY <3>10
    <3> QED BY <3>7, <3>8, <3>9, <3>11
  <2> QED BY <1>2, <1>5, <2>2, <2>3
<1> QED BY <1>4, <1>5 DEF Grows, Settled

\* A transaction is made to open a chat, or to delete one.
AskMade(V, A, W, B, n) ==
  /\ n + 1 \in A
  /\ \A i \in 0 .. n : W[i] = V[i]
  /\ W[n + 1] = <<>> /\ W[n + 2] = <<>> /\ W[n + 3] = V[n + 2]
  /\ \A k \in B : k \in A \/ k = n + 2

LEMMA LineAsked ==
  ASSUME NEW n \in Nat, NEW V \in [0 .. n + 2 -> Seq(Item)], NEW A \in SUBSET (1 .. n + 1),
         NEW W \in [0 .. n + 3 -> Seq(Item)], NEW B \in SUBSET (1 .. n + 2),
         Grows(V, n), Settled(V, A, n), AskMade(V, A, W, B, n)
  PROVE  Grows(W, n + 1) /\ Settled(W, B, n + 1)
<1> DEFINE h(i) == IF i = n + 3 THEN n + 2 ELSE i
<1>1. ASSUME NEW i \in 0 .. n + 3, W[i] # <<>>
      PROVE  W[i] = V[h(i)] /\ h(i) \in 0 .. n + 2 /\ (i \in 0 .. n \/ i = n + 3)
  <2>1. i \in 0 .. n \/ i = n + 1 \/ i = n + 2 \/ i = n + 3
    OBVIOUS
  <2>2. CASE i \in 0 .. n
    <3>1. W[i] = V[i]
      BY <2>2 DEF AskMade
    <3>2. h(i) = i /\ i \in 0 .. n + 2
      BY <2>2
    <3> QED BY <2>2, <3>1, <3>2
  <2>3. CASE i = n + 3
    BY <2>3 DEF AskMade
  <2> QED BY <1>1, <2>1, <2>2, <2>3 DEF AskMade
<1>2. ASSUME NEW i \in 0 .. n + 3, NEW j \in 0 .. n + 3, i < j, W[i] # <<>>, W[j] # <<>>
      PROVE  IsPrefix(W[i], W[j])
  <2>1. h(i) < h(j)
    <3>1. i \in 0 .. n /\ h(i) = i
      <4>1. i # n + 3
        BY <1>2
      <4>2. i \in 0 .. n \/ i = n + 3
        BY <1>1, <1>2
      <4> QED BY <4>1, <4>2
    <3>2. j \in 0 .. n \/ j = n + 3
      BY <1>1, <1>2
    <3> QED BY <1>2, <3>1, <3>2
  <2> HIDE DEF h
  <2> QED BY <1>1, <1>2, <2>1 DEF Grows
<1>3. ASSUME NEW i \in 0 .. n + 3, NEW j \in 0 .. n + 3, NEW k \in B,
             i < k, k < j, W[i] # <<>>, W[j] # <<>>
      PROVE  \E m \in 0 .. n + 3 : m < k /\ W[m] = W[j]
  <2> DEFINE a == IF k = n + 2 THEN n + 1 ELSE k
  <2>0. k \in 1 .. n + 2 /\ a \in A
    BY DEF AskMade
  <2>1. h(i) < a /\ a < h(j) /\ a <= k /\ a \in 1 .. n + 1
    <3>1. i \in 0 .. n
      BY <1>1, <1>3, <2>0
    <3>2. CASE k = n + 2
      BY <1>3, <2>0, <3>1, <3>2
    <3>3. CASE k # n + 2
      BY <1>1, <1>3, <2>0, <3>1, <3>3
    <3> QED BY <3>2, <3>3
  <2>2. PICK m \in 0 .. n + 2 : m < a /\ V[m] = V[h(j)]
    <3>1. /\ V[h(i)] # <<>> /\ V[h(j)] # <<>> /\ h(i) \in 0 .. n + 2 /\ h(j) \in 0 .. n + 2
      BY <1>1, <1>3
    <3> HIDE DEF h, a
    <3> QED BY <2>0, <2>1, <3>1 DEF Settled
  <2>3. m \in 0 .. n /\ m \in 0 .. n + 3 /\ m < k
    BY SMTT(30), <2>0, <2>1, <2>2
  <2>4. W[m] = V[m]
    BY <2>3 DEF AskMade
  <2>5. W[j] = V[h(j)]
    BY <1>1, <1>3
  <2> QED BY <2>2, <2>3, <2>4, <2>5
<1>4. (n + 1) + 2 = n + 3
  OBVIOUS
<1> QED BY <1>2, <1>3, <1>4 DEF Grows, Settled

\* What is shown is saved.
PutMade(V, A, W, B, n) ==
  /\ \A i \in 0 .. n : W[i] = V[i]
  /\ W[n + 2] = <<>> /\ W[n + 3] = W[n + 1]
  /\ \A i \in 0 .. n : V[i] # <<>> /\ W[n + 1] # <<>> => IsPrefix(V[i], W[n + 1])
  /\ \A k \in B : k = n + 2 \/ (k \in A /\ k <= n /\ W[n + 1] = V[n + 2])

LEMMA LineSaved ==
  ASSUME NEW n \in Nat, NEW V \in [0 .. n + 2 -> Seq(Item)], NEW A \in SUBSET (1 .. n + 1),
         NEW W \in [0 .. n + 3 -> Seq(Item)], NEW B \in SUBSET (1 .. n + 2),
         Grows(V, n), Settled(V, A, n), PutMade(V, A, W, B, n)
  PROVE  Grows(W, n + 1) /\ Settled(W, B, n + 1)
<1>1. ASSUME NEW i \in 0 .. n + 3, W[i] # <<>>
      PROVE  \/ i \in 0 .. n /\ W[i] = V[i]
             \/ i \in {n + 1, n + 3} /\ W[i] = W[n + 1]
  <2>1. i \in 0 .. n \/ i = n + 1 \/ i = n + 2 \/ i = n + 3
    OBVIOUS
  <2> QED BY <1>1, <2>1 DEF PutMade
<1>2. ASSUME NEW i \in 0 .. n + 3, NEW j \in 0 .. n + 3, i < j, W[i] # <<>>, W[j] # <<>>
      PROVE  IsPrefix(W[i], W[j])
  <2>1. CASE i \in 0 .. n /\ j \in 0 .. n
    <3>1. W[i] = V[i] /\ W[j] = V[j] /\ i \in 0 .. n + 2 /\ j \in 0 .. n + 2
      BY SMTT(30), <2>1 DEF PutMade
    <3> QED BY <1>2, <3>1 DEF Grows
  <2>2. CASE i \in 0 .. n /\ j \notin 0 .. n
    <3>1. W[j] = W[n + 1] /\ W[i] = V[i]
      BY <1>1, <1>2, <2>2 DEF PutMade
    <3> QED BY <1>2, <2>2, <3>1 DEF PutMade
  <2>3. CASE i \notin 0 .. n
    <3>1. j \notin 0 .. n
      BY <1>2, <2>3
    <3>2. W[i] = W[j] /\ W[i] \in Seq(Item)
      BY <1>1, <1>2, <2>3, <3>1
    <3> QED BY <3>2, PrefixFacts
  <2> QED BY <2>1, <2>2, <2>3
<1>3. ASSUME NEW i \in 0 .. n + 3, NEW j \in 0 .. n + 3, NEW k \in B,
             i < k, k < j, W[i] # <<>>, W[j] # <<>>
      PROVE  \E m \in 0 .. n + 3 : m < k /\ W[m] = W[j]
  <2>1. CASE k = n + 2
    <3>1. n + 1 \in 0 .. n + 3 /\ n + 1 < k /\ j = n + 3
      BY <1>3, <2>1
    <3>2. W[n + 1] = W[j]
      BY <3>1 DEF PutMade
    <3> QED BY <3>1, <3>2
  <2>2. CASE k # n + 2
    <3>0. k \in A /\ k <= n /\ W[n + 1] = V[n + 2] /\ k \in 1 .. n + 2
      BY <2>2 DEF PutMade
    <3> DEFINE b == IF j \in 0 .. n THEN j ELSE n + 2
    <3>1. b \in 0 .. n + 2 /\ k < b
      BY SMTT(30), <1>3, <3>0
    <3>2. W[j] = V[b]
      <4>1. CASE j \in 0 .. n
        BY <4>1 DEF PutMade
      <4>2. CASE j \notin 0 .. n
        BY <1>1, <1>3, <3>0, <4>2
      <4> QED BY <4>1, <4>2
    <3>3. i \in 0 .. n /\ i \in 0 .. n + 2
      BY SMTT(30), <1>3, <3>0
    <3>4. W[i] = V[i]
      BY <3>3 DEF PutMade
    <3>5. PICK m \in 0 .. n + 2 : m < k /\ V[m] = V[b]
      <4> HIDE DEF b
      <4> QED BY <1>3, <3>0, <3>1, <3>2, <3>3, <3>4 DEF Settled
    <3>6. m \in 0 .. n /\ m \in 0 .. n + 3
      BY <3>0, <3>5
    <3>7. W[m] = V[m]
      BY <3>6 DEF PutMade
    <3> QED BY <3>2, <3>5, <3>6, <3>7
  <2> QED BY <2>1, <2>2
<1>4. (n + 1) + 2 = n + 3
  OBVIOUS
<1> QED BY <1>2, <1>3, <1>4 DEF Grows, Settled

\* What is shown changes: it grows, or a new chat is shown.
ShownAnew(V, A, W, B, n) ==
  /\ \A i \in 0 .. n + 1 : W[i] = V[i]
  /\ \A i \in 0 .. n + 1 : V[i] # <<>> /\ W[n + 2] # <<>> => IsPrefix(V[i], W[n + 2])
  /\ \A k \in B : \/ k \in A /\ W[n + 2] \in {V[n + 2], <<>>}
                  \/ k = n + 1 /\ W[n + 2] = <<>>

LEMMA LineShown ==
  ASSUME NEW n \in Nat, NEW V \in [0 .. n + 2 -> Seq(Item)], NEW A \in SUBSET (1 .. n + 1),
         NEW W \in [0 .. n + 2 -> Seq(Item)], NEW B \in SUBSET (1 .. n + 1),
         Grows(V, n), Settled(V, A, n), ShownAnew(V, A, W, B, n)
  PROVE  Grows(W, n) /\ Settled(W, B, n)
<1>1. ASSUME NEW i \in 0 .. n + 2, NEW j \in 0 .. n + 2, i < j, W[i] # <<>>, W[j] # <<>>
      PROVE  IsPrefix(W[i], W[j])
  <2>1. i \in 0 .. n + 1
    BY <1>1
  <2>2. W[i] = V[i]
    BY <2>1 DEF ShownAnew
  <2>3. CASE j \in 0 .. n + 1
    <3>1. W[j] = V[j]
      BY <2>3 DEF ShownAnew
    <3> QED BY <1>1, <2>2, <3>1 DEF Grows
  <2>4. CASE j = n + 2
    BY <1>1, <2>1, <2>2, <2>4 DEF ShownAnew
  <2>5. j \in 0 .. n + 1 \/ j = n + 2
    OBVIOUS
  <2> QED BY <2>3, <2>4, <2>5
<1>2. ASSUME NEW i \in 0 .. n + 2, NEW j \in 0 .. n + 2, NEW k \in B,
             i < k, k < j, W[i] # <<>>, W[j] # <<>>
      PROVE  \E m \in 0 .. n + 2 : m < k /\ W[m] = W[j]
  <2>0. k \in 1 .. n + 1
    OBVIOUS
  <2>1. i \in 0 .. n + 1
    BY <1>2, <2>0
  <2>2. W[i] = V[i]
    BY <2>1 DEF ShownAnew
  <2>3. W[j] = V[j] /\ k \in A
    <3>1. CASE j \in 0 .. n + 1
      <4>1. k # n + 1
        BY <1>2, <3>1, <2>0
      <4> QED BY <3>1, <4>1 DEF ShownAnew
    <3>2. CASE j = n + 2
      BY <1>2, <3>2 DEF ShownAnew
    <3>3. j \in 0 .. n + 1 \/ j = n + 2
      OBVIOUS
    <3> QED BY <3>1, <3>2, <3>3
  <2>4. PICK m \in 0 .. n + 2 : m < k /\ V[m] = V[j]
    BY <1>2, <2>2, <2>3 DEF Settled
  <2>5. m \in 0 .. n + 1
    BY <2>0, <2>4
  <2>6. W[m] = V[m]
    BY <2>5 DEF ShownAnew
  <2> QED BY <2>3, <2>4, <2>6
<1> QED BY <1>1, <1>2 DEF Grows, Settled

-----------------------------------------------------------------------------
(* The line of a chat, before and after a step.                             *)

LEMMA LineAt ==
  ASSUME TypeOK, NEW t \in Tabs, NEW c \in Ids
  PROVE  /\ Len(txs) \in Nat
         /\ Line(t, c) \in [0 .. Len(txs) + 2 -> Seq(Item)]
         /\ Line(t, c)[0] = IF c \in Stored THEN store[c].events ELSE <<>>
         /\ \A i \in 1 .. Len(txs) :
              Line(t, c)[i] = IF txs[i].op = "put" /\ txs[i].id = c THEN txs[i].chat.events
                              ELSE <<>>
         /\ Line(t, c)[Len(txs) + 1] = <<>>
         /\ Line(t, c)[Len(txs) + 2] = IF tab[t].id = c THEN tab[t].events ELSE <<>>
         /\ Asks(t) \in SUBSET (1 .. Len(txs) + 1)
         /\ \A k : k \in Asks(t) <=> \/ k \in 1 .. Len(txs) /\ txs[k].op # "put"
                                     \/ k = Len(txs) + 1 /\ ~tab[t].busy
<1> DEFINE n == Len(txs)
           V == Line(t, c)
<1>1. n \in Nat /\ DOMAIN txs = 1 .. n /\ \A i \in 1 .. n : txs[i] \in Tx
  BY DEF TypeOK
<1>2. c \in Stored => store[c].events \in Seq(Item)
  BY DEF TypeOK, Stored, Chat
<1>3. \A i \in 1 .. n : txs[i].op = "put" => txs[i].chat.events \in Seq(Item)
  BY <1>1, TxType
<1>4. tab[t].events \in Seq(Item)
  BY DEF TypeOK, Shown
<1>5. V = [i \in 0 .. n + 2 |->
             IF i = 0 THEN IF c \in Stored THEN store[c].events ELSE <<>>
             ELSE IF i = n + 2 THEN IF tab[t].id = c THEN tab[t].events ELSE <<>>
             ELSE IF (i \in 1 .. n /\ txs[i].op = "put") /\ txs[i].id = c
                  THEN txs[i].chat.events ELSE <<>>]
  BY <1>1 DEF Line, Saving
<1>6. \A k : k \in Asks(t) <=> \/ k \in 1 .. n /\ txs[k].op # "put"
                               \/ k = n + 1 /\ ~tab[t].busy
  BY <1>1 DEF Asks
<1> HIDE DEF n, V
<1>7. V \in [0 .. n + 2 -> Seq(Item)]
  <2>1. <<>> \in Seq(Item)
    OBVIOUS
  <2> QED BY <1>2, <1>3, <1>4, <1>5, <2>1
<1>8. /\ V[0] = IF c \in Stored THEN store[c].events ELSE <<>>
      /\ V[n + 1] = <<>>
      /\ V[n + 2] = IF tab[t].id = c THEN tab[t].events ELSE <<>>
  <2>1. /\ 0 \in 0 .. n + 2 /\ n + 1 \in 0 .. n + 2 /\ n + 2 \in 0 .. n + 2
        /\ n + 1 # 0 /\ n + 1 # n + 2 /\ n + 1 \notin 1 .. n /\ n + 2 # 0
    BY <1>1
  <2> QED BY <1>5, <2>1
<1>9. ASSUME NEW i \in 1 .. n
      PROVE  V[i] = IF txs[i].op = "put" /\ txs[i].id = c THEN txs[i].chat.events ELSE <<>>
  <2>1. i \in 0 .. n + 2 /\ i # 0 /\ i # n + 2
    BY <1>1
  <2> QED BY <1>5, <2>1
<1>10. Asks(t) \in SUBSET (1 .. n + 1)
  BY <1>1, <1>6
<1> QED BY <1>1, <1>6, <1>7, <1>8, <1>9, <1>10 DEF n, V

LEMMA LineAtNext ==
  ASSUME TypeOK', NEW t \in Tabs, NEW c \in Ids
  PROVE  /\ Len(txs') \in Nat
         /\ Line(t, c)' \in [0 .. Len(txs') + 2 -> Seq(Item)]
         /\ Line(t, c)'[0] = IF c \in Stored' THEN store'[c].events ELSE <<>>
         /\ \A i \in 1 .. Len(txs') :
              Line(t, c)'[i] = IF txs'[i].op = "put" /\ txs'[i].id = c THEN txs'[i].chat.events
                              ELSE <<>>
         /\ Line(t, c)'[Len(txs') + 1] = <<>>
         /\ Line(t, c)'[Len(txs') + 2] = IF tab'[t].id = c THEN tab'[t].events ELSE <<>>
         /\ Asks(t)' \in SUBSET (1 .. Len(txs') + 1)
         /\ \A k : k \in Asks(t)' <=> \/ k \in 1 .. Len(txs') /\ txs'[k].op # "put"
                                      \/ k = Len(txs') + 1 /\ ~tab'[t].busy
<1> DEFINE n == Len(txs')
           V == Line(t, c)'
<1>1. n \in Nat /\ DOMAIN txs' = 1 .. n /\ \A i \in 1 .. n : txs'[i] \in Tx
  BY DEF TypeOK
<1>2. c \in Stored' => store'[c].events \in Seq(Item)
  BY DEF TypeOK, Stored, Chat
<1>3. \A i \in 1 .. n : txs'[i].op = "put" => txs'[i].chat.events \in Seq(Item)
  BY <1>1, TxType
<1>4. tab'[t].events \in Seq(Item)
  BY DEF TypeOK, Shown
<1>5. V = [i \in 0 .. n + 2 |->
             IF i = 0 THEN IF c \in Stored' THEN store'[c].events ELSE <<>>
             ELSE IF i = n + 2 THEN IF tab'[t].id = c THEN tab'[t].events ELSE <<>>
             ELSE IF (i \in 1 .. n /\ txs'[i].op = "put") /\ txs'[i].id = c
                  THEN txs'[i].chat.events ELSE <<>>]
  BY <1>1 DEF Line, Saving
<1>6. \A k : k \in Asks(t)' <=> \/ k \in 1 .. n /\ txs'[k].op # "put"
                                \/ k = n + 1 /\ ~tab'[t].busy
  BY <1>1 DEF Asks
<1> HIDE DEF n, V
<1>7. V \in [0 .. n + 2 -> Seq(Item)]
  <2>1. <<>> \in Seq(Item)
    OBVIOUS
  <2> QED BY <1>2, <1>3, <1>4, <1>5, <2>1
<1>8. /\ V[0] = IF c \in Stored' THEN store'[c].events ELSE <<>>
      /\ V[n + 1] = <<>>
      /\ V[n + 2] = IF tab'[t].id = c THEN tab'[t].events ELSE <<>>
  <2>1. /\ 0 \in 0 .. n + 2 /\ n + 1 \in 0 .. n + 2 /\ n + 2 \in 0 .. n + 2
        /\ n + 1 # 0 /\ n + 1 # n + 2 /\ n + 1 \notin 1 .. n /\ n + 2 # 0
    BY <1>1
  <2> QED BY <1>5, <2>1
<1>9. ASSUME NEW i \in 1 .. n
      PROVE  V[i] = IF txs'[i].op = "put" /\ txs'[i].id = c THEN txs'[i].chat.events ELSE <<>>
  <2>1. i \in 0 .. n + 2 /\ i # 0 /\ i # n + 2
    BY <1>1
  <2> QED BY <1>5, <2>1
<1>10. Asks(t)' \in SUBSET (1 .. n + 1)
  BY <1>1, <1>6
<1> QED BY <1>1, <1>6, <1>7, <1>8, <1>9, <1>10 DEF n, V

-----------------------------------------------------------------------------
(* Chats without a question are not stored.                                 *)

\* The transactions that wait when a page loads are not asked for again.
LEMMA LoadsOnce ==
  ASSUME TypeOK, Next
  PROVE  \A i \in DOMAIN txs' : txs'[i].op = "load" => \E j \in DOMAIN txs : txs'[i] = txs[j]
<1> DEFINE More(s) == \E y : y.op # "load" /\ txs' = Append(s, y)
<1>made. \A u, id, v : /\ Rest(u).op # "load" /\ Get(u, id).op # "load"
                       /\ Del(u, id).op # "load" /\ Put(u, v).op # "load"
  BY DEF Rest, Get, Del, Put
<1>save. \A u, v : SaveNow(u, v) => UNCHANGED txs \/ More(txs)
  BY <1>made DEF SaveNow
<1>1. \/ UNCHANGED txs \/ More(txs)
      \/ txs # <<>> /\ (txs' = Tail(txs) \/ More(Tail(txs)))
  <2>1. CASE DoTx
    BY <1>made, <2>1 DEF DoTx, DoPut, DoDelete, DoList, DoGet
  <2>2. ASSUME NEW t \in Tabs, Answered(t) \/ Failed(t) \/ TimerFires(t)
        PROVE  UNCHANGED txs \/ More(txs)
    <3> HIDE DEF More
    <3> QED BY <1>save, <2>2 DEF Answered, Failed, TurnEnds, TimerFires
  <2>3. ASSUME NEW t \in Tabs, DeleteChat(t) \/ \E id \in Ids : OpenChat(t, id)
        PROVE  More(txs)
    BY <1>made, <2>3 DEF DeleteChat, OpenChat
  <2>4. ASSUME NEW t \in Tabs, Send(t) \/ StreamEvent(t) \/ SelectModel(t) \/ NewChat(t)
        PROVE  UNCHANGED txs
    BY <2>4 DEF Send, StreamEvent, SelectModel, NewChat
  <2> HIDE DEF More
  <2> QED BY <2>1, <2>2, <2>3, <2>4 DEF Next
<1>2. ASSUME NEW s \in Seq(Tx), NEW y, y.op # "load", txs' = Append(s, y)
      PROVE  \A i \in DOMAIN txs' : txs'[i].op = "load" => i \in DOMAIN s /\ txs'[i] = s[i]
  <2>1. /\ DOMAIN txs' = 1 .. Len(s) + 1 /\ DOMAIN s = 1 .. Len(s) /\ Len(s) \in Nat
        /\ \A i \in 1 .. Len(s) : txs'[i] = s[i]
        /\ txs'[Len(s) + 1] = y
    BY <1>2
  <2>2. \A i \in 1 .. Len(s) + 1 : i \in 1 .. Len(s) \/ i = Len(s) + 1
    BY <2>1
  <2> QED BY <1>2, <2>1, <2>2
<1>3. txs # <<>> => /\ Tail(txs) \in Seq(Tx)
                    /\ \A i \in DOMAIN Tail(txs) : i + 1 \in DOMAIN txs /\ Tail(txs)[i] = txs[i + 1]
  BY DEF TypeOK
<1>4. txs \in Seq(Tx)
  BY DEF TypeOK
<1>5. CASE UNCHANGED txs
  BY <1>5
<1>6. CASE More(txs)
  BY <1>2, <1>4, <1>6
<1>7. CASE txs # <<>> /\ txs' = Tail(txs)
  BY <1>3, <1>7
<1>8. CASE txs # <<>> /\ More(Tail(txs))
  <2>1. PICK y : y.op # "load" /\ txs' = Append(Tail(txs), y)
    BY <1>8
  <2>2. \A i \in DOMAIN txs' :
          txs'[i].op = "load" => i \in DOMAIN Tail(txs) /\ txs'[i] = Tail(txs)[i]
    BY <1>2, <1>3, <1>8, <2>1
  <2> QED BY <1>3, <1>8, <2>2
<1> HIDE DEF More
<1> QED BY <1>1, <1>5, <1>6, <1>7, <1>8

LEMMA NonEmptyStep ==
  ASSUME NEW t \in Tabs, Tabs = {t}, TypeOK, patient, NonEmpty(t), Next
  PROVE  NonEmpty(t)'
<1>0. tab[t] \in Shown /\ tab[t].events \in Seq(Item) /\ asked \in Seq(Ids)
  BY DEF TypeOK, Shown
<1>1. \A id \in Stored' : store'[id].events # <<>>
  BY Stores DEF NonEmpty
<1>2. \A i : Saving(i)' => txs'[i].chat.events # <<>>
  <2>1. \A u : Put(u, tab'[u]).chat.events = tab'[u].events
    BY DEF Put
  <2> QED BY <2>1, Stores DEF NonEmpty
<1>3. asked' = asked \/ Send(t)
  BY AskedStep
<1>4. Send(t) => tab'[t].events # <<>>
  <2>1. ASSUME Send(t)
        PROVE  tab'[t].events = Append(tab[t].events, <<"user", Len(asked) + 1>>)
    BY <1>0, <2>1 DEF Send, Shown, TypeOK
  <2>2. \A x : \A s \in Seq(Item) : Append(s, x) # <<>>
    OBVIOUS
  <2> QED BY <1>0, <2>1, <2>2
<1>5. ASSUME tab'[t].events = <<>>
      PROVE  (\A n \in 1 .. Len(asked') : asked'[n] # tab'[t].id) /\ ~tab'[t].busy
  <2>1. asked' = asked
    BY <1>3, <1>4, <1>5
  <2>2. CASE Same(t)
    BY <1>5, <2>1, <2>2 DEF Same, NonEmpty
  <2>3. CASE Emptied(t)
    <3>1. Fresh \notin ToSet(asked)
      BY <2>3 DEF Emptied, Free
    <3> QED BY <1>0, <2>1, <2>3, <3>1 DEF Emptied, ToSet
  <2>4. CASE Opened(t)
    BY <1>5, <2>4 DEF Opened, NonEmpty
  <2>5. CASE Added(t)
    BY <1>0, <1>5, <2>5, AppendProperties DEF Added
  <2> QED BY <2>2, <2>3, <2>4, <2>5, Shows
<1>6. ASSUME NEW i \in DOMAIN txs', txs'[i].op = "load"
      PROVE  asked' = <<>>
  <2>1. PICK j \in DOMAIN txs : txs[j].op = "load"
    BY <1>6, LoadsOnce
  <2>2. txs[j].tab = t
    <3>1. txs[j] \in Tx
      BY DEF TypeOK
    <3> QED BY <3>1, TxType
  <2>3. Waiting(t)
    BY <2>1, <2>2 DEF Waiting
  <2>4. asked' = asked
    BY <1>3, <2>3 DEF Send
  <2> QED BY <2>1, <2>4 DEF NonEmpty
<1> QED BY <1>1, <1>2, <1>5, <1>6 DEF NonEmpty

\* What is shown while nothing is asked for has been saved, or will be.
LEMMA SavedStep ==
  ASSUME NEW t \in Tabs, Tabs = {t}, TypeOK, patient, OwnInv, NonEmpty(t), Saved(t), Next
  PROVE  Saved(t)'
<1> SUFFICES ASSUME ~tab'[t].busy, ~Waiting(t)', tab'[t].events # <<>>
             PROVE  tab'[t].id \in Stored' \/ \E i : Saving(i)' /\ txs'[i].id = tab'[t].id
  BY DEF Saved
<1>0. tab[t] \in Shown /\ tab[t].events \in Seq(Item) /\ tab[t].id \in Ids /\ txs \in Seq(Tx)
      /\ t \in DOMAIN tab
  BY DEF TypeOK, Shown
<1>reset. Reset(t) => tab'[t].events = <<>>
  BY <1>0 DEF Reset, NewSession, Shown
<1>append. ASSUME NEW x, NEW s \in Seq(Tx), txs' = Append(s, x), x.tab = t
           PROVE  /\ x.op = "put"
                  /\ \E i : Saving(i)' /\ txs'[i] = x
  <2>1. Len(s) + 1 \in DOMAIN txs' /\ txs'[Len(s) + 1] = x
    BY <1>append
  <2>2. x.op = "put"
    <3>1. x.op # "put" => \E i \in DOMAIN txs' : txs'[i].tab = t /\ txs'[i].op # "put"
      BY <1>append, <2>1
    <3> QED BY <3>1 DEF Waiting
  <2> QED BY <2>1, <2>2 DEF Saving
<1>1. CASE DoTx
  <2> DEFINE x == Head(txs)
  <2>1. txs # <<>> /\ x = txs[1] /\ 1 \in DOMAIN txs /\ x \in Tx
    BY <1>0, <1>1 DEF DoTx
  <2>2. x.tab = t
    BY <2>1, TxType
  <2>3. /\ Tail(txs) \in Seq(Tx) /\ Len(txs) \in Nat
        /\ \A i \in DOMAIN txs : i = 1 \/ (i - 1 \in DOMAIN Tail(txs) /\ Tail(txs)[i - 1] = txs[i])
    BY <1>0, <2>1
  <2> HIDE DEF x
  <2>4. CASE DoPut
    <3>1. /\ x.op = "put" /\ store' = [store EXCEPT ![x.id] = x.chat] /\ txs' = Tail(txs)
          /\ UNCHANGED tab
      BY <2>4 DEF DoPut, x
    <3>2. x.id \in Ids /\ x.chat \in Chat
      BY <2>1, <3>1, TxType
    <3>3. ~Waiting(t)
      <4>1. \A i \in DOMAIN txs : txs[i].op # "put" => i # 1
        BY <2>1, <3>1
      <4>2. \A i \in DOMAIN txs : txs[i].tab = t /\ txs[i].op # "put" =>
              i - 1 \in DOMAIN txs' /\ txs'[i - 1].tab = t /\ txs'[i - 1].op # "put"
        BY <2>3, <3>1, <4>1
      <4> QED BY <4>2 DEF Waiting
    <3>4. x.id \in Stored' /\ \A id \in Stored : id \in Stored'
      BY <3>1, <3>2, NoChatIsNone DEF TypeOK, Stored
    <3>5. tab[t].id \in Stored \/ \E i : Saving(i) /\ txs[i].id = tab[t].id
      BY <3>1, <3>3 DEF Saved
    <3>6. ASSUME NEW i, Saving(i), txs[i].id = tab[t].id
          PROVE  tab'[t].id \in Stored' \/ \E k : Saving(k)' /\ txs'[k].id = tab'[t].id
      <4>1. CASE i = 1
        BY <2>1, <3>1, <3>4, <3>6, <4>1
      <4>2. CASE i # 1
        <5>1. i - 1 \in DOMAIN txs' /\ txs'[i - 1] = txs[i] /\ txs[i].op = "put"
          BY <2>3, <3>1, <3>6, <4>2 DEF Saving
        <5> QED BY <3>1, <3>6, <5>1 DEF Saving
      <4> QED BY <4>1, <4>2
    <3> QED BY <3>1, <3>4, <3>5, <3>6
  <2>5. CASE DoDelete
    <3>1. txs' = Append(Tail(txs), Rest(t))
      BY <2>2, <2>5 DEF DoDelete, x
    <3>2. Rest(t).tab = t /\ Rest(t).op # "put"
      BY DEF Rest
    <3> QED BY <1>append, <2>3, <3>1, <3>2
  <2>6. CASE DoList
    <3>1. ~(order # <<>> /\ ~tab[t].busy)
      <4>1. ASSUME order # <<>>, ~tab[t].busy
            PROVE  txs' = Append(Tail(txs), Get(t, Last(order)))
        BY <2>2, <2>6, <4>1 DEF DoList, x
      <4>2. Get(t, Last(order)).tab = t /\ Get(t, Last(order)).op # "put"
        BY DEF Get
      <4> QED BY <1>append, <2>3, <4>1, <4>2
    <3>2. UNCHANGED tab
      BY <1>reset, <2>2, <2>6 DEF DoList, x
    <3>3. order = <<>> /\ ~tab[t].busy
      BY <3>1, <3>2
    <3>4. x.op = "load"
      BY <1>reset, <2>2, <2>6, <3>3 DEF DoList, x
    <3>5. asked = <<>>
      BY <2>1, <3>4 DEF NonEmpty
    <3>6. tab[t].events[1][2] \in 1 .. Len(asked)
      <4>1. 1 \in 1 .. Len(tab[t].events)
        BY <1>0, <3>2
      <4> QED BY <4>1 DEF OwnInv, Own
    <3> QED BY <3>5, <3>6
  <2>7. CASE DoGet
    <3>1. store[x.id] # NoChat
      BY <1>reset, <2>2, <2>7, <1>0, ResetType DEF DoGet, x
    <3>2. x.op = "get" /\ UNCHANGED store
      BY <2>7 DEF DoGet, x
    <3>3. x.id \in Stored'
      BY <2>1, <3>1, <3>2, TxType DEF Stored
    <3>4. tab' = [tab EXCEPT ![t].id = x.id, ![t].events = store[x.id].events,
                             ![t].hist = store[x.id].hist]
      BY <2>2, <2>7, <3>1 DEF DoGet, x
    <3>5. tab'[t].id = x.id
      BY <1>0, <3>4 DEF Shown
    <3> QED BY <3>3, <3>5
  <2> QED BY <1>1, <2>4, <2>5, <2>6, <2>7 DEF DoTx
<1>2. CASE Send(t)
  BY <1>0, <1>2 DEF Send, Shown
<1>3. CASE StreamEvent(t)
  BY <1>0, <1>3 DEF StreamEvent, Shown
<1>4. CASE Answered(t) \/ Failed(t)
  <2>1. PICK v \in Shown : TurnEnds(t, v) /\ v.id = tab[t].id
    BY <1>4, TurnItem
  <2>2. tab'[t].id = v.id /\ tab'[t].events = v.events
    BY <1>0, <2>1 DEF TurnEnds, Shown
  <2>3. txs' = Append(txs, Put(t, v)) /\ Put(t, v).tab = t /\ Put(t, v).id = v.id
    BY <2>1, <2>2 DEF TurnEnds, SaveNow, Saves, Put
  <2>4. \E i : Saving(i)' /\ txs'[i] = Put(t, v)
    BY <1>0, <1>append, <2>3
  <2> QED BY <2>2, <2>3, <2>4
<1>5. CASE TimerFires(t)
  <2>1. tab'[t].id = tab[t].id /\ tab'[t].events = tab[t].events
    BY <1>0, <1>5 DEF TimerFires, Shown
  <2>2. txs' = Append(txs, Put(t, tab[t])) /\ Put(t, tab[t]).tab = t /\ Put(t, tab[t]).id = tab[t].id
    BY <1>5, <2>1 DEF TimerFires, SaveNow, Saves, Put
  <2>3. \E i : Saving(i)' /\ txs'[i] = Put(t, tab[t])
    BY <1>0, <1>append, <2>2
  <2> QED BY <2>1, <2>2, <2>3
<1>6. CASE SelectModel(t)
  <2>1. /\ tab'[t].id = tab[t].id /\ tab'[t].events = tab[t].events /\ tab'[t].busy = tab[t].busy
        /\ UNCHANGED <<store, txs>>
    BY <1>0, <1>6 DEF SelectModel, Shown
  <2> QED BY <2>1 DEF Saved, Stored, Saving, Waiting
<1>7. CASE NewChat(t)
  BY <1>7, <1>reset DEF NewChat
<1>8. CASE DeleteChat(t) \/ \E id \in Ids : OpenChat(t, id)
  <2>1. PICK y : y.tab = t /\ y.op # "put" /\ txs' = Append(txs, y)
    <3>1. \A id : /\ Get(t, id).tab = t /\ Del(t, id).tab = t
                  /\ Get(t, id).op # "put" /\ Del(t, id).op # "put"
      BY DEF Get, Del
    <3> QED BY <1>8, <3>1 DEF DeleteChat, OpenChat
  <2> QED BY <1>0, <1>append, <2>1
<1> QED BY <1>1, <1>2, <1>3, <1>4, <1>5, <1>6, <1>7, <1>8 DEF Next

\* A transaction is done.
LEMMA LineTx ==
  ASSUME NEW t \in Tabs, Tabs = {t}, TypeOK, TypeOK', OwnInv, LineInv(t), NEW c \in Ids, DoTx
  PROVE  Grows(Line(t, c)', Len(txs')) /\ Settled(Line(t, c)', Asks(t)', Len(txs'))
<1> DEFINE n == Len(txs)
           V == Line(t, c)
           A == Asks(t)
           m == Len(txs')
           W == Line(t, c)'
           B == Asks(t)'
           x == Head(txs)
<1>1. /\ n \in Nat /\ V \in [0 .. n + 2 -> Seq(Item)] /\ A \in SUBSET (1 .. n + 1)
      /\ V[0] = IF c \in Stored THEN store[c].events ELSE <<>>
      /\ \A i \in 1 .. n : V[i] = IF txs[i].op = "put" /\ txs[i].id = c THEN txs[i].chat.events
                                  ELSE <<>>
      /\ V[n + 1] = <<>>
      /\ V[n + 2] = IF tab[t].id = c THEN tab[t].events ELSE <<>>
      /\ \A k : k \in A <=> \/ k \in 1 .. n /\ txs[k].op # "put"
                            \/ k = n + 1 /\ ~tab[t].busy
  BY LineAt
<1>2. /\ m \in Nat /\ W \in [0 .. m + 2 -> Seq(Item)] /\ B \in SUBSET (1 .. m + 1)
      /\ W[0] = IF c \in Stored' THEN store'[c].events ELSE <<>>
      /\ \A i \in 1 .. m : W[i] = IF txs'[i].op = "put" /\ txs'[i].id = c
                                  THEN txs'[i].chat.events ELSE <<>>
      /\ W[m + 1] = <<>>
      /\ W[m + 2] = IF tab'[t].id = c THEN tab'[t].events ELSE <<>>
      /\ \A k : k \in B <=> \/ k \in 1 .. m /\ txs'[k].op # "put"
                            \/ k = m + 1 /\ ~tab'[t].busy
  BY LineAtNext
<1>3. Grows(V, n) /\ Settled(V, A, n)
  BY DEF LineInv
<1>4. /\ txs # <<>> /\ n # 0 /\ x = txs[1] /\ x \in Tx /\ x.tab = t
      /\ DOMAIN txs = 1 .. n
  <2>1. txs # <<>> /\ txs \in Seq(Tx)
    BY DEF DoTx, TypeOK
  <2> QED BY <2>1, TxType
<1>5. /\ Tail(txs) \in Seq(Tx) /\ Len(Tail(txs)) = n - 1
      /\ \A i \in 1 .. n - 1 : Tail(txs)[i] = txs[i + 1] /\ i + 1 \in 1 .. n
  BY <1>4 DEF TypeOK
<1> HIDE DEF V, A, W, B, x
<1>put. CASE DoPut
  <2>1. /\ x.op = "put" /\ store' = [store EXCEPT ![x.id] = x.chat] /\ txs' = Tail(txs)
        /\ UNCHANGED tab
    BY <1>put DEF DoPut, x
  <2>2. /\ x.id \in Ids /\ x.chat \in Chat /\ x.chat.events # <<>>
    <3>1. Saving(1)
      BY <1>1, <1>4, <2>1 DEF Saving
    <3> QED BY <1>4, <2>1, <3>1, TxType DEF LineInv, NonEmpty
  <2>3. m = n - 1 /\ m + 2 = n + 1 /\ m + 1 = n /\ 1 \in 1 .. n
    BY <1>1, <1>4, <1>5, <2>1
  <2>4. W[0] = IF V[1] = <<>> THEN V[0] ELSE V[1]
    <3>1. CASE c = x.id
      <4>1. c \in Stored' /\ store'[c] = x.chat
        BY <2>1, <2>2, <3>1, NoChatIsNone DEF TypeOK, Stored
      <4>2. V[1] = x.chat.events
        BY <1>1, <1>4, <2>1, <2>3, <3>1
      <4> QED BY <1>2, <2>2, <4>1, <4>2
    <3>2. CASE c # x.id
      <4>1. store'[c] = store[c] /\ (c \in Stored' <=> c \in Stored)
        BY <2>1, <3>2 DEF TypeOK, Stored
      <4>2. V[1] = <<>>
        BY <1>1, <1>4, <2>1, <2>3, <3>2
      <4> QED BY <1>1, <1>2, <4>1, <4>2
    <3> QED BY <3>1, <3>2
  <2>5. ASSUME NEW i \in 1 .. n + 1
        PROVE  W[i] = V[i + 1]
    <3>1. i \in 1 .. n - 1 \/ i = n \/ i = n + 1
      BY <1>1
    <3>2. CASE i \in 1 .. n - 1
      <4>1. txs'[i] = txs[i + 1] /\ i + 1 \in 1 .. n /\ i \in 1 .. m
        BY <1>5, <2>1, <2>3, <3>2
      <4> QED BY <1>1, <1>2, <4>1
    <3>3. CASE i = n
      BY <1>1, <1>2, <2>3, <3>3
    <3>4. CASE i = n + 1
      <4>1. i + 1 = n + 2
        BY <1>1, <3>4
      <4> QED BY <1>1, <1>2, <2>1, <2>3, <3>4, <4>1
    <3> QED BY <3>1, <3>2, <3>3, <3>4
  <2>6. ASSUME NEW k \in B
        PROVE  k + 1 \in A
    <3>1. CASE k \in 1 .. m /\ txs'[k].op # "put"
      <4>1. txs'[k] = txs[k + 1] /\ k + 1 \in 1 .. n
        BY <1>5, <2>1, <2>3, <3>1
      <4> QED BY <1>1, <3>1, <4>1
    <3>2. CASE k = m + 1 /\ ~tab'[t].busy
      BY <1>1, <2>1, <2>3, <3>2
    <3> QED BY <1>2, <3>1, <3>2
  <2>7. PutDone(V, A, W, B, n)
    BY <2>4, <2>5, <2>6 DEF PutDone
  <2>8. W \in [0 .. n + 1 -> Seq(Item)] /\ B \in SUBSET (1 .. n)
    BY <1>2, <2>3
  <2>9. Grows(W, n - 1) /\ Settled(W, B, n - 1)
    <3> HIDE DEF n, m
    <3> QED BY <1>1, <1>3, <1>4, <2>7, <2>8, LinePut
  <2> QED BY <2>3, <2>9 DEF W, B
<1>ask. ASSUME x.op # "put",
               \/ txs' = Tail(txs)
               \/ \E y : y.op # "put" /\ txs' = Append(Tail(txs), y),
               W[0] = V[0] \/ W[0] = <<>>,
               \/ W[m + 2] = V[n + 2]
               \/ W[m + 2] = <<>>
               \/ W[m + 2] = V[0] /\ W[0] = V[0]
        PROVE  Grows(W, m) /\ Settled(W, B, m)
  <2>1. 1 \in A /\ n + 1 \in A /\ V[1] = <<>>
    <3>1. 1 \in 1 .. n
      BY <1>1, <1>4
    <3>2. ~tab[t].busy
      <4>1. Waiting(t)
        BY <1>4, <1>ask, <3>1 DEF Waiting
      <4> QED BY <4>1 DEF OwnInv
    <3> QED BY <1>1, <1>4, <1>ask, <3>1, <3>2
  <2>2. /\ m = n - 1 \/ (m = n /\ txs'[n].op # "put")
        /\ \A i \in 1 .. n - 1 : txs'[i] = txs[i + 1] /\ i + 1 \in 1 .. n /\ i \in 1 .. m
    <3>1. CASE txs' = Tail(txs)
      BY <1>1, <1>5, <3>1
    <3>2. ASSUME NEW y, y.op # "put", txs' = Append(Tail(txs), y)
          PROVE  /\ m = n /\ txs'[n].op # "put"
                 /\ \A i \in 1 .. n - 1 : txs'[i] = txs[i + 1] /\ i + 1 \in 1 .. n /\ i \in 1 .. m
      BY <1>1, <1>4, <1>5, <3>2
    <3> QED BY SMTT(30), <1>ask, <3>1, <3>2
  <2> HIDE DEF n, m
  <2>3. ASSUME NEW i \in 1 .. n - 1
        PROVE  W[i] = V[i + 1]
    BY <1>1, <1>2, <2>2
  <2>4. ASSUME NEW i \in n .. m + 1
        PROVE  W[i] = <<>>
    <3>1. i = m + 1 \/ (i = n /\ m = n)
      BY <1>1, <1>2, <2>2
    <3>2. CASE i = n /\ m = n
      <4>1. n \in 1 .. m /\ txs'[n].op # "put"
        BY <1>1, <1>4, <2>2, <3>2
      <4> QED BY <1>2, <3>2, <4>1
    <3> QED BY <1>2, <3>1, <3>2
  <2>5. ASSUME NEW k \in B, k <= n - 1
        PROVE  k + 1 \in A
    <3>1. k \in 1 .. n - 1 /\ k # m + 1
      BY <1>1, <1>2, <2>2, <2>5
    <3>2. txs'[k].op # "put" /\ txs'[k] = txs[k + 1] /\ k + 1 \in 1 .. n
      BY <1>2, <2>2, <3>1
    <3> QED BY <1>1, <3>2
  <2>6. AskDone(V, A, W, B, n, m)
    BY <1>ask, <2>1, <2>3, <2>4, <2>5 DEF AskDone
  <2> QED BY <1>1, <1>2, <1>3, <1>4, <2>2, <2>6, LineAnswered
<1>made. \A id : Rest(t).op # "put" /\ Get(t, id).op # "put"
  BY DEF Rest, Get
<1>reset. Reset(t) => tab'[t].events = <<>>
  BY DEF Reset, NewSession, TypeOK, Shown
<1>same. UNCHANGED tab => W[m + 2] = V[n + 2]
  BY <1>1, <1>2
<1>kept. UNCHANGED store => W[0] = V[0]
  BY <1>1, <1>2 DEF Stored
<1>delete. CASE DoDelete
  <2>1. /\ x.op = "del" /\ store' = [store EXCEPT ![x.id] = NoChat]
        /\ txs' = Append(Tail(txs), Rest(t)) /\ UNCHANGED tab
    BY <1>4, <1>delete DEF DoDelete, x
  <2>2. W[0] = V[0] \/ W[0] = <<>>
    <3>1. x.id \in Ids
      BY <1>4, <2>1, TxType
    <3>2. CASE c = x.id
      BY <1>2, <2>1, <3>1, <3>2 DEF TypeOK, Stored
    <3>3. CASE c # x.id
      BY <1>1, <1>2, <2>1, <3>3 DEF TypeOK, Stored
    <3> QED BY <3>2, <3>3
  <2> QED BY <1>ask, <1>made, <1>same, <2>1, <2>2 DEF W, B
<1>list. CASE DoList
  <2>1. x.op # "put" /\ UNCHANGED store /\ (Reset(t) \/ UNCHANGED tab)
    BY SMTT(30), <1>4, <1>list DEF DoList, x
  <2>2. txs' = Tail(txs) \/ \E y : y.op # "put" /\ txs' = Append(Tail(txs), y)
    BY <1>4, <1>list, <1>made DEF DoList, x
  <2>3. W[m + 2] = V[n + 2] \/ W[m + 2] = <<>>
    BY <1>2, <1>reset, <1>same, <2>1
  <2> QED BY <1>ask, <1>kept, <2>1, <2>2, <2>3 DEF W, B
<1>get. CASE DoGet
  <2>1. x.op # "put" /\ UNCHANGED store /\ txs' = Tail(txs)
    BY <1>get DEF DoGet, x
  <2>2. W[0] = V[0]
    BY <1>kept, <2>1
  <2>3. W[m + 2] = V[n + 2] \/ W[m + 2] = <<>> \/ W[m + 2] = V[0]
    <3>1. CASE store[x.id] # NoChat
      <4>1. x.id \in Stored
        <5>1. x.op = "get"
          BY <1>get DEF DoGet, x
        <5> QED BY <1>4, <3>1, <5>1, TxType DEF Stored
      <4>2. tab' = [tab EXCEPT ![t].id = x.id, ![t].events = store[x.id].events,
                               ![t].hist = store[x.id].hist]
        BY <1>4, <1>get, <3>1 DEF DoGet, x
      <4>3. tab'[t].id = x.id /\ tab'[t].events = store[x.id].events
        BY <4>2 DEF TypeOK, Shown
      <4> QED BY <1>1, <1>2, <4>1, <4>3
    <3>2. CASE store[x.id] = NoChat
      <4>1. Reset(t) \/ UNCHANGED tab
        BY <1>4, <1>get, <3>2 DEF DoGet, x
      <4> QED BY <1>2, <1>reset, <1>same, <4>1
    <3> QED BY <3>1, <3>2
  <2> QED BY <1>ask, <2>1, <2>2, <2>3 DEF W, B
<1> QED BY <1>put, <1>delete, <1>list, <1>get DEF DoTx

\* Another transaction is made.
LEMMA LineMade ==
  ASSUME NEW t \in Tabs, Tabs = {t}, TypeOK, TypeOK', OwnInv, LineInv(t), NEW c \in Ids,
         NEW y, y.tab = t, UNCHANGED store, txs' = Append(txs, y),
         \/ y.op # "put" /\ UNCHANGED tab /\ ~tab[t].busy
         \/ /\ y = Put(t, tab'[t]) /\ tab'[t].events # <<>> /\ tab[t].events # <<>>
            /\ tab'[t].id = tab[t].id
            /\ tab'[t].events = tab[t].events
                 \/ (tab[t].busy /\ IsPrefix(tab[t].events, tab'[t].events))
  PROVE  Grows(Line(t, c)', Len(txs')) /\ Settled(Line(t, c)', Asks(t)', Len(txs'))
<1> DEFINE n == Len(txs)
           V == Line(t, c)
           A == Asks(t)
           m == Len(txs')
           W == Line(t, c)'
           B == Asks(t)'
<1>1. /\ n \in Nat /\ V \in [0 .. n + 2 -> Seq(Item)] /\ A \in SUBSET (1 .. n + 1)
      /\ V[0] = IF c \in Stored THEN store[c].events ELSE <<>>
      /\ \A i \in 1 .. n : V[i] = IF txs[i].op = "put" /\ txs[i].id = c THEN txs[i].chat.events
                                  ELSE <<>>
      /\ V[n + 1] = <<>>
      /\ V[n + 2] = IF tab[t].id = c THEN tab[t].events ELSE <<>>
      /\ \A k : k \in A <=> \/ k \in 1 .. n /\ txs[k].op # "put"
                            \/ k = n + 1 /\ ~tab[t].busy
  BY LineAt
<1>2. /\ m \in Nat /\ W \in [0 .. m + 2 -> Seq(Item)] /\ B \in SUBSET (1 .. m + 1)
      /\ W[0] = IF c \in Stored' THEN store'[c].events ELSE <<>>
      /\ \A i \in 1 .. m : W[i] = IF txs'[i].op = "put" /\ txs'[i].id = c
                                  THEN txs'[i].chat.events ELSE <<>>
      /\ W[m + 1] = <<>>
      /\ W[m + 2] = IF tab'[t].id = c THEN tab'[t].events ELSE <<>>
      /\ \A k : k \in B <=> \/ k \in 1 .. m /\ txs'[k].op # "put"
                            \/ k = m + 1 /\ ~tab'[t].busy
  BY LineAtNext
<1>3. Grows(V, n) /\ Settled(V, A, n)
  BY DEF LineInv
<1>4. /\ m = n + 1 /\ m + 1 = n + 2 /\ m + 2 = n + 3 /\ txs'[n + 1] = y
      /\ \A i \in 1 .. n : txs'[i] = txs[i] /\ i \in 1 .. m
  BY <1>1 DEF TypeOK
<1>5. ASSUME NEW i \in 0 .. n
      PROVE  W[i] = V[i]
  <2>1. CASE i = 0
    BY <1>1, <1>2, <2>1 DEF Stored
  <2>2. CASE i \in 1 .. n
    <3>1. i \in 1 .. m /\ txs'[i] = txs[i]
      BY <1>4, <2>2
    <3> HIDE DEF n, m, V, W
    <3> QED BY <1>1, <1>2, <2>2, <3>1
  <2> QED BY <2>1, <2>2
<1>6. W[n + 2] = <<>> /\ W[n + 3] = IF tab'[t].id = c THEN tab'[t].events ELSE <<>>
  BY <1>2, <1>4
<1>7. W[n + 1] = IF y.op = "put" /\ y.id = c THEN y.chat.events ELSE <<>>
  BY <1>1, <1>2, <1>4
<1>8. W \in [0 .. n + 3 -> Seq(Item)] /\ B \in SUBSET (1 .. n + 2)
  BY <1>2, <1>4
<1>9. \A k \in B : \/ k \in 1 .. n /\ k \in A /\ txs[k].op # "put"
                   \/ k = n + 1 /\ y.op # "put"
                   \/ k = n + 2
  <2>1. ASSUME NEW k \in B
        PROVE  \/ k \in 1 .. n /\ k \in A /\ txs[k].op # "put"
               \/ k = n + 1 /\ y.op # "put"
               \/ k = n + 2
    <3>1. CASE k = m + 1
      BY <1>4, <3>1
    <3>2. CASE k \in 1 .. m /\ txs'[k].op # "put"
      <4>1. k \in 1 .. n \/ k = n + 1
        BY <1>1, <1>4, <3>2
      <4>2. CASE k \in 1 .. n
        BY <1>1, <1>4, <3>2, <4>2
      <4>3. CASE k = n + 1
        BY <1>4, <3>2, <4>3
      <4> QED BY <4>1, <4>2, <4>3
    <3> QED BY <1>2, <3>1, <3>2
  <2> QED BY <2>1
<1>10. \A k \in 1 .. n : txs[k].op # "put" => ~tab[t].busy
  <2>1. ASSUME NEW k \in 1 .. n, txs[k].op # "put" PROVE ~tab[t].busy
    <3>1. k \in DOMAIN txs /\ txs[k] \in Tx
      BY DEF TypeOK
    <3>2. Waiting(t)
      BY <2>1, <3>1, TxType DEF Waiting
    <3> QED BY <3>2 DEF OwnInv
  <2> QED BY <2>1
<1> HIDE DEF n, m, V, W, A, B
<1>ask. CASE y.op # "put" /\ UNCHANGED tab /\ ~tab[t].busy
  <2>1. n + 1 \in A
    BY <1>1, <1>ask
  <2>2. W[n + 1] = <<>> /\ W[n + 3] = V[n + 2]
    BY <1>1, <1>6, <1>7, <1>ask
  <2>3. AskMade(V, A, W, B, n)
    BY <1>5, <1>6, <1>9, <2>1, <2>2 DEF AskMade
  <2>4. Grows(W, n + 1) /\ Settled(W, B, n + 1)
    BY <1>1, <1>3, <1>8, <2>3, LineAsked
  <2> QED BY <1>4, <2>4 DEF W, B, m
<1>put. CASE /\ y = Put(t, tab'[t]) /\ tab'[t].events # <<>> /\ tab'[t].id = tab[t].id
             /\ tab[t].events # <<>> /\ IsPrefix(tab[t].events, tab'[t].events)
             /\ tab'[t].events = tab[t].events \/ tab[t].busy
  <2>1. y.op = "put" /\ y.id = tab'[t].id /\ y.chat.events = tab'[t].events
    BY <1>put DEF Put
  <2>2. W[n + 3] = W[n + 1]
    BY <1>6, <1>7, <2>1
  <2>3. ASSUME NEW i \in 0 .. n, V[i] # <<>>, W[n + 1] # <<>>
        PROVE  IsPrefix(V[i], W[n + 1])
    <3>1. V[n + 2] = tab[t].events /\ W[n + 1] = tab'[t].events
      BY <1>1, <1>7, <1>put, <2>1, <2>3
    <3>2. i \in 0 .. n + 2 /\ n + 2 \in 0 .. n + 2 /\ i < n + 2 /\ n + 1 \in 0 .. n + 3
      BY <1>1
    <3>3. IsPrefix(V[i], V[n + 2])
      BY <1>3, <1>put, <2>3, <3>1, <3>2 DEF Grows
    <3>4. V[i] \in Seq(Item) /\ V[n + 2] \in Seq(Item) /\ W[n + 1] \in Seq(Item)
      BY <1>1, <1>8, <3>2
    <3> QED BY <1>put, <3>1, <3>3, <3>4, PrefixFacts
  <2>4. ASSUME NEW k \in B, k # n + 2
        PROVE  k \in A /\ k <= n /\ W[n + 1] = V[n + 2]
    <3>1. k \in 1 .. n /\ k \in A /\ ~tab[t].busy
      BY <1>9, <1>10, <2>1, <2>4
    <3> QED BY <1>1, <1>7, <1>put, <2>1, <3>1
  <2>5. PutMade(V, A, W, B, n)
    BY <1>5, <1>6, <2>2, <2>3, <2>4 DEF PutMade
  <2>6. Grows(W, n + 1) /\ Settled(W, B, n + 1)
    BY <1>1, <1>3, <1>8, <2>5, LineSaved
  <2> QED BY <1>4, <2>6 DEF W, B, m
<1>11. tab'[t].events = tab[t].events => IsPrefix(tab[t].events, tab'[t].events)
  BY PrefixFacts DEF TypeOK, Shown
<1> QED BY <1>ask, <1>put, <1>11

\* What is shown changes.
LEMMA LineChanged ==
  ASSUME NEW t \in Tabs, TypeOK, TypeOK', LineInv(t), NEW c \in Ids,
         UNCHANGED <<store, txs>>,
         \/ /\ tab'[t].id = tab[t].id /\ tab'[t].events = tab[t].events
            /\ tab'[t].busy = tab[t].busy
         \/ /\ tab'[t].id = tab[t].id /\ tab[t].events # <<>> /\ tab'[t].busy /\ ~Waiting(t)
            /\ IsPrefix(tab[t].events, tab'[t].events)
            /\ \A i \in DOMAIN txs : txs[i].tab = t
         \/ /\ tab'[t].events = <<>> /\ tab'[t].busy = tab[t].busy
         \/ /\ tab'[t].id = tab[t].id /\ tab'[t].busy /\ ~Waiting(t)
            /\ \A i \in DOMAIN txs : txs[i].tab = t
            /\ tab[t].id \notin Stored /\ \A i : Saving(i) => txs[i].id # tab[t].id
  PROVE  Grows(Line(t, c)', Len(txs')) /\ Settled(Line(t, c)', Asks(t)', Len(txs'))
<1> DEFINE n == Len(txs)
           V == Line(t, c)
           A == Asks(t)
           W == Line(t, c)'
           B == Asks(t)'
<1>0. Len(txs') = n /\ txs' = txs
  OBVIOUS
<1>1. /\ n \in Nat /\ V \in [0 .. n + 2 -> Seq(Item)] /\ A \in SUBSET (1 .. n + 1)
      /\ V[0] = IF c \in Stored THEN store[c].events ELSE <<>>
      /\ \A i \in 1 .. n : V[i] = IF txs[i].op = "put" /\ txs[i].id = c THEN txs[i].chat.events
                                  ELSE <<>>
      /\ V[n + 1] = <<>>
      /\ V[n + 2] = IF tab[t].id = c THEN tab[t].events ELSE <<>>
      /\ \A k : k \in A <=> \/ k \in 1 .. n /\ txs[k].op # "put"
                            \/ k = n + 1 /\ ~tab[t].busy
  BY LineAt
<1>2. /\ W \in [0 .. n + 2 -> Seq(Item)] /\ B \in SUBSET (1 .. n + 1)
      /\ W[0] = IF c \in Stored' THEN store'[c].events ELSE <<>>
      /\ \A i \in 1 .. n : W[i] = IF txs[i].op = "put" /\ txs[i].id = c
                                  THEN txs[i].chat.events ELSE <<>>
      /\ W[n + 1] = <<>>
      /\ W[n + 2] = IF tab'[t].id = c THEN tab'[t].events ELSE <<>>
      /\ \A k : k \in B <=> \/ k \in 1 .. n /\ txs[k].op # "put"
                            \/ k = n + 1 /\ ~tab'[t].busy
  BY <1>0, LineAtNext
<1>3. Grows(V, n) /\ Settled(V, A, n)
  BY DEF LineInv
<1>4. DOMAIN txs = 1 .. n /\ tab[t].events \in Seq(Item)
  BY DEF TypeOK, Shown
<1> HIDE DEF n, V, W, A, B
<1>5. ASSUME NEW i \in 0 .. n + 1
      PROVE  W[i] = V[i]
  <2>1. i = 0 \/ i \in 1 .. n \/ i = n + 1
    BY <1>1
  <2>2. CASE i = 0
    BY <1>1, <1>2, <2>2 DEF Stored
  <2> QED BY <1>1, <1>2, <2>1, <2>2
<1>6. ASSUME \/ W[n + 2] = V[n + 2]
             \/ W[n + 2] = <<>>
             \/ \A i \in 0 .. n + 1 : V[i] # <<>> => IsPrefix(V[i], W[n + 2]),
             \/ \A k \in B : k \in A /\ W[n + 2] \in {V[n + 2], <<>>}
             \/ B = {}
      PROVE  Grows(Line(t, c)', Len(txs')) /\ Settled(Line(t, c)', Asks(t)', Len(txs'))
  <2>1. ASSUME NEW i \in 0 .. n + 1, V[i] # <<>>, W[n + 2] # <<>>
        PROVE  IsPrefix(V[i], W[n + 2])
    <3>1. CASE W[n + 2] = V[n + 2]
      <4>1. i \in 0 .. n + 2 /\ n + 2 \in 0 .. n + 2 /\ i < n + 2
        BY <1>1
      <4> QED BY <1>3, <2>1, <3>1, <4>1 DEF Grows
    <3> QED BY <1>6, <2>1, <3>1
  <2>2. ShownAnew(V, A, W, B, n)
    BY <1>5, <1>6, <2>1 DEF ShownAnew
  <2>3. Grows(W, n) /\ Settled(W, B, n)
    BY <1>1, <1>2, <1>3, <2>2, LineShown
  <2> QED BY <1>0, <2>3 DEF W, B
<1>7. CASE /\ tab'[t].id = tab[t].id /\ tab'[t].events = tab[t].events
           /\ tab'[t].busy = tab[t].busy
  <2>1. W[n + 2] = V[n + 2] /\ \A k \in B : k \in A
    BY <1>1, <1>2, <1>7
  <2> QED BY <1>6, <2>1
<1>8. CASE tab'[t].events = <<>> /\ tab'[t].busy = tab[t].busy
  <2>1. W[n + 2] = <<>> /\ \A k \in B : k \in A
    BY <1>1, <1>2, <1>8
  <2> QED BY <1>6, <2>1
<1>9. ASSUME tab'[t].busy, ~Waiting(t), \A i \in DOMAIN txs : txs[i].tab = t
      PROVE  B = {}
  <2>1. \A k \in 1 .. n : txs[k].op = "put"
    BY <1>4, <1>9 DEF Waiting
  <2> QED BY <1>2, <1>9, <2>1
<1>10. CASE /\ tab'[t].id = tab[t].id /\ tab[t].events # <<>> /\ tab'[t].busy /\ ~Waiting(t)
            /\ IsPrefix(tab[t].events, tab'[t].events)
            /\ \A i \in DOMAIN txs : txs[i].tab = t
  <2>1. CASE tab[t].id # c
    <3>1. W[n + 2] = V[n + 2]
      BY <1>1, <1>2, <1>10, <2>1
    <3> QED BY <1>6, <1>9, <1>10, <3>1
  <2>2. CASE tab[t].id = c
    <3>1. V[n + 2] = tab[t].events /\ W[n + 2] = tab'[t].events
      BY <1>1, <1>2, <1>10, <2>2
    <3>2. ASSUME NEW i \in 0 .. n + 1, V[i] # <<>>
          PROVE  IsPrefix(V[i], W[n + 2])
      <4>1. i \in 0 .. n + 2 /\ n + 2 \in 0 .. n + 2 /\ i < n + 2
        BY <1>1
      <4>2. IsPrefix(V[i], V[n + 2])
        BY <1>3, <1>10, <3>1, <3>2, <4>1 DEF Grows
      <4>3. V[i] \in Seq(Item) /\ V[n + 2] \in Seq(Item) /\ W[n + 2] \in Seq(Item)
        BY <1>1, <1>2, <4>1
      <4> QED BY <1>10, <3>1, <4>2, <4>3, PrefixFacts
    <3> QED BY <1>6, <1>9, <1>10, <3>2
  <2> QED BY <2>1, <2>2
<1>11. CASE /\ tab'[t].id = tab[t].id /\ tab'[t].busy /\ ~Waiting(t)
            /\ \A i \in DOMAIN txs : txs[i].tab = t
            /\ tab[t].id \notin Stored /\ \A i : Saving(i) => txs[i].id # tab[t].id
  <2>1. CASE tab[t].id # c
    <3>1. W[n + 2] = V[n + 2]
      BY <1>1, <1>2, <1>11, <2>1
    <3> QED BY <1>6, <1>9, <1>11, <3>1
  <2>2. CASE tab[t].id = c
    <3>1. ASSUME NEW i \in 0 .. n + 1
          PROVE  V[i] = <<>>
      <4>1. i = 0 \/ i \in 1 .. n \/ i = n + 1
        BY <1>1
      <4>2. i \in 1 .. n /\ txs[i].op = "put" => txs[i].id # c
        BY <1>4, <1>11, <2>2 DEF Saving
      <4> QED BY <1>1, <1>11, <2>2, <4>1, <4>2
    <3> QED BY <1>6, <1>9, <1>11, <3>1
  <2> QED BY <2>1, <2>2
<1> QED BY <1>7, <1>8, <1>10, <1>11

\* A chat without a question is not stored, nor will it be.
LEMMA NoneAsked ==
  ASSUME NEW t \in Tabs, TypeOK, OwnInv, NonEmpty(t), tab[t].events = <<>>
  PROVE  tab[t].id \notin Stored /\ \A i : Saving(i) => txs[i].id # tab[t].id
<1>1. ASSUME NEW s \in Seq(Item), s # <<>>, Own(asked, s, tab[t].id)
      PROVE  FALSE
  <2>1. 1 \in 1 .. Len(s)
    BY <1>1
  <2> QED BY <1>1, <2>1 DEF Own, NonEmpty
<1>2. ASSUME tab[t].id \in Stored
      PROVE  FALSE
  <2>1. store[tab[t].id].events \in Seq(Item)
    BY <1>2 DEF TypeOK, Stored, Chat
  <2> QED BY <1>1, <1>2, <2>1 DEF OwnInv, NonEmpty
<1>3. ASSUME NEW i, Saving(i), txs[i].id = tab[t].id
      PROVE  FALSE
  <2>1. txs[i] \in Tx /\ txs[i].op = "put"
    BY <1>3 DEF TypeOK, Saving
  <2>2. txs[i].chat.events \in Seq(Item)
    BY <2>1, TxType
  <2> QED BY <1>1, <1>3, <2>2 DEF OwnInv, NonEmpty
<1> QED BY <1>2, <1>3

LEMMA LineStep ==
  ASSUME NEW t \in Tabs, Tabs = {t}, TypeOK, patient, OwnInv, LineInv(t), Next
  PROVE  LineInv(t)'
<1>1. TypeOK'
  BY TypeStep
<1>2. NonEmpty(t)' /\ Saved(t)'
  BY NonEmptyStep, SavedStep DEF LineInv
<1>3. ASSUME NEW c \in Ids
      PROVE  Grows(Line(t, c)', Len(txs')) /\ Settled(Line(t, c)', Asks(t)', Len(txs'))
  <2>0. /\ tab[t] \in Shown /\ tab[t].events \in Seq(Item) /\ tab[t].id \in Ids
        /\ t \in DOMAIN tab
    BY DEF TypeOK, Shown
  <2>txs. \A i \in DOMAIN txs : txs[i].tab = t
    <3>1. \A i \in DOMAIN txs : txs[i] \in Tx
      BY DEF TypeOK
    <3> QED BY <3>1, TxType
  <2>busy. tab[t].busy => tab[t].events # <<>> /\ ~Waiting(t)
    BY DEF LineInv, NonEmpty, OwnInv
  <2>1. CASE DoTx
    BY <1>1, <2>1, LineTx
  <2>2. CASE Send(t)
    <3> DEFINE item == <<"user", Len(asked) + 1>>
    <3>1. /\ tab'[t].id = tab[t].id /\ tab'[t].events = Append(tab[t].events, item)
          /\ tab'[t].busy /\ ~Waiting(t) /\ UNCHANGED <<store, txs>>
      BY <2>0, <2>2 DEF Send, Shown
    <3>2. tab'[t].events \in Seq(Item)
      BY <1>1 DEF TypeOK, Shown
    <3>3. IsPrefix(tab[t].events, tab'[t].events)
      <4> HIDE DEF item
      <4> QED BY <2>0, <3>1, <3>2 DEF IsPrefix
    <3>4. CASE tab[t].events # <<>>
      BY <1>1, <2>txs, <3>1, <3>3, <3>4, LineChanged
    <3>5. CASE tab[t].events = <<>>
      <4>1. tab[t].id \notin Stored /\ \A i : Saving(i) => txs[i].id # tab[t].id
        BY <3>5, NoneAsked DEF LineInv
      <4> QED BY <1>1, <2>txs, <3>1, <4>1, LineChanged
    <3> QED BY <3>4, <3>5
  <2>3. CASE StreamEvent(t)
    <3> DEFINE item == <<"tool", tab[t].asking>>
    <3>1. /\ tab'[t].id = tab[t].id /\ tab'[t].events = Append(tab[t].events, item)
          /\ tab'[t].busy /\ tab[t].busy /\ UNCHANGED <<store, txs>>
      BY <2>0, <2>3 DEF StreamEvent, Shown
    <3>2. tab'[t].events \in Seq(Item)
      BY <1>1 DEF TypeOK, Shown
    <3>3. IsPrefix(tab[t].events, tab'[t].events)
      <4> HIDE DEF item
      <4> QED BY <2>0, <3>1, <3>2 DEF IsPrefix
    <3> QED BY <1>1, <2>busy, <2>txs, <3>1, <3>3, LineChanged
  <2>4. CASE Answered(t) \/ Failed(t)
    <3>1. PICK item \in Item, v \in Shown :
            /\ TurnEnds(t, v) /\ tab[t].busy
            /\ v.id = tab[t].id /\ v.events = Append(tab[t].events, item)
      BY <2>4, TurnItem
    <3>2. /\ tab'[t].id = tab[t].id /\ tab'[t].events = v.events /\ tab'[t].hist = v.hist
          /\ UNCHANGED store
      BY <2>0, <3>1 DEF TurnEnds, Shown
    <3>3. v.events # <<>> /\ IsPrefix(tab[t].events, tab'[t].events)
      BY SMTT(30), <2>0, <3>1, <3>2, PrefixFacts
    <3>4. txs' = Append(txs, Put(t, tab'[t])) /\ Put(t, tab'[t]).tab = t
      BY <3>1, <3>2, <3>3 DEF TurnEnds, SaveNow, Saves, Put
    <3> QED BY <1>1, <2>busy, <3>1, <3>2, <3>3, <3>4, LineMade
  <2>5. CASE TimerFires(t)
    <3>1. /\ tab'[t].id = tab[t].id /\ tab'[t].events = tab[t].events
          /\ tab'[t].hist = tab[t].hist /\ tab'[t].busy = tab[t].busy /\ UNCHANGED store
      BY <2>0, <2>5 DEF TimerFires, Shown
    <3>2. CASE tab[t].events = <<>>
      <4>1. UNCHANGED txs
        BY <2>5, <3>2 DEF TimerFires, SaveNow, Saves
      <4> QED BY <1>1, <3>1, <4>1, LineChanged
    <3>3. CASE tab[t].events # <<>>
      <4>1. txs' = Append(txs, Put(t, tab'[t])) /\ Put(t, tab'[t]).tab = t
        BY <2>5, <3>1, <3>3 DEF TimerFires, SaveNow, Saves, Put
      <4> QED BY <1>1, <3>1, <3>3, <4>1, LineMade
    <3> QED BY <3>2, <3>3
  <2>6. CASE SelectModel(t)
    <3>1. /\ tab'[t].id = tab[t].id /\ tab'[t].events = tab[t].events
          /\ tab'[t].busy = tab[t].busy /\ UNCHANGED <<store, txs>>
      BY <2>0, <2>6 DEF SelectModel, Shown
    <3> QED BY <1>1, <3>1, LineChanged
  <2>7. CASE NewChat(t)
    <3>1. tab'[t].events = <<>> /\ tab'[t].busy = tab[t].busy /\ UNCHANGED <<store, txs>>
      BY <2>0, <2>7 DEF NewChat, Reset, NewSession, Shown
    <3> QED BY <1>1, <3>1, LineChanged
  <2>8. CASE DeleteChat(t) \/ \E id \in Ids : OpenChat(t, id)
    <3>1. /\ UNCHANGED <<store, tab>> /\ ~tab[t].busy
          /\ \E y : y.tab = t /\ y.op # "put" /\ txs' = Append(txs, y)
      <4>1. \A id : /\ Get(t, id).tab = t /\ Del(t, id).tab = t
                    /\ Get(t, id).op # "put" /\ Del(t, id).op # "put"
        BY DEF Get, Del
      <4> QED BY <2>8, <4>1 DEF DeleteChat, OpenChat
    <3> QED BY <1>1, <3>1, LineMade
  <2> QED BY <2>1, <2>2, <2>3, <2>4, <2>5, <2>6, <2>7, <2>8 DEF Next
<1> QED BY <1>2, <1>3 DEF LineInv

LEMMA LineInit ==
  ASSUME NEW t \in Tabs, Init
  PROVE  LineInv(t)
<1>1. NonEmpty(t) /\ Saved(t)
  BY InitEmpty DEF NonEmpty, Saved, Init
<1>2. ASSUME NEW c \in Ids
      PROVE  \A i \in 0 .. Len(txs) + 2 : Line(t, c)[i] = <<>>
  BY InitEmpty DEF Line
<1> QED BY <1>1, <1>2 DEF LineInv, Grows, Settled

\* What the one tab's chats satisfy.
OneTabInv(t) == HistoryInv /\ (patient => OwnInv /\ LineInv(t))

LEMMA OneTabInvariant ==
  ASSUME NEW t \in Tabs, Tabs = {t}
  PROVE  Spec => [](TypeOK /\ OneTabInv(t))
<1>1. Init => OneTabInv(t)
  <2>1. Said(<<>>) = <<>>
    BY SelectNone DEF Said
  <2>2. \A id : Own(asked, <<>>, id)
    BY DEF Own
  <2> QED BY <2>1, <2>2, InitEmpty, LineInit
        DEF OneTabInv, HistoryInv, HistoryIsTranscript, OwnInv
<1>2. TypeOK /\ OneTabInv(t) /\ [Next]_vars => OneTabInv(t)'
  <2> SUFFICES ASSUME TypeOK, OneTabInv(t), [Next]_vars PROVE OneTabInv(t)'
    OBVIOUS
  <2>1. HistoryInv'
    BY HistoryStep DEF OneTabInv
  <2>2. ASSUME patient
        PROVE  OwnInv' /\ LineInv(t)'
    <3>1. OwnInv'
      BY <2>2, OwnStep DEF OneTabInv
    <3>2. CASE Next
      BY <2>2, <3>1, <3>2, LineStep DEF OneTabInv
    <3>3. CASE UNCHANGED vars
      BY <2>2, <3>1, <3>3
         DEF vars, OneTabInv, LineInv, NonEmpty, Saved, Line, Asks, Stored, Saving, Waiting
    <3> QED BY <3>1, <3>2, <3>3
  <2> QED BY <2>1, <2>2, PatientStep DEF OneTabInv
<1> QED BY <1>1, <1>2, TypeInit, TypeStep, PTL DEF Spec

\* With one tab: the history of a chat is its transcript, and a patient user's
\* chats are all saved when nothing runs or waits, and keep apart.
THEOREM OneTabChatsSound ==
  ASSUME NEW t \in Tabs, Tabs = {t}
  PROVE  Spec => []ChatsSound
<1>1. ASSUME TypeOK, OneTabInv(t)
      PROVE  ChatsSound
  <2>1. HistoryIsTranscript
    BY <1>1 DEF OneTabInv, HistoryInv
  <2>2. ASSUME patient
        PROVE  OwnEventsOnly
    <3>1. \A id \in Stored : DOMAIN store[id].events = 1 .. Len(store[id].events)
      <4>1. \A id \in Stored : store[id] \in Chat
        BY <1>1 DEF TypeOK, Stored
      <4> QED BY <4>1 DEF Chat
    <3> QED BY <1>1, <2>2, <3>1 DEF OneTabInv, OwnInv, Own, OwnEventsOnly
  <2>3. ASSUME patient, txs = <<>>, ~tab[t].busy, tab[t].events # <<>>
        PROVE  store[tab[t].id] # NoChat /\ store[tab[t].id].events = tab[t].events
    <3> DEFINE c == tab[t].id
               V == Line(t, c)
    <3>1. c \in Stored
      <4>1. ~Waiting(t) /\ \A i : ~Saving(i)
        BY <2>3 DEF Waiting, Saving
      <4> QED BY <1>1, <2>3, <4>1 DEF OneTabInv, LineInv, Saved
    <3>2. Len(txs) = 0 /\ c \in Ids
      BY <1>1, <2>3 DEF TypeOK, Shown
    <3>3. /\ V[0] = store[c].events /\ V[2] = tab[t].events
          /\ 1 \in Asks(t)
      BY <1>1, <2>3, <3>1, <3>2, LineAt
    <3>4. V[0] # <<>> /\ V[2] # <<>>
      BY <1>1, <2>3, <3>1, <3>3 DEF OneTabInv, LineInv, NonEmpty
    <3>5. Settled(V, Asks(t), 0)
      BY <1>1, <2>3, <3>2 DEF OneTabInv, LineInv
    <3> HIDE DEF c, V
    <3>6. 0 \in 0 .. 0 + 2 /\ 2 \in 0 .. 0 + 2 /\ 0 < 1 /\ 1 < 2
      OBVIOUS
    <3>7. PICK m \in 0 .. 0 + 2 : m < 1 /\ V[m] = V[2]
      BY <3>3, <3>4, <3>5, <3>6 DEF Settled
    <3>8. m = 0
      BY <3>7
    <3> QED BY <3>1, <3>3, <3>7, <3>8 DEF Stored, c
  <2> QED BY <2>1, <2>2, <2>3 DEF ChatsSound, QuietIsSaved
<1> QED BY <1>1, OneTabInvariant, PTL

\* With one tab: what a patient user's saved chats hold stays, until they are
\* deleted.
THEOREM OneTabSavedStays ==
  ASSUME NEW t \in Tabs, Tabs = {t}
  PROVE  Spec => SavedStays
<1>1. ASSUME TypeOK, OneTabInv(t), Next, patient
      PROVE  Keeps
  <2> SUFFICES ASSUME NEW c \in Ids, store[c] # NoChat, store'[c] # NoChat
               PROVE  IsPrefix(store[c].events, store'[c].events)
    BY DEF Keeps
  <2>1. c \in Stored /\ c \in Stored' /\ store[c].events \in Seq(Item)
    BY <1>1 DEF TypeOK, Stored, Chat
  <2>2. CASE store'[c] = store[c]
    BY <2>1, <2>2, PrefixFacts
  <2>3. CASE Saving(1) /\ txs[1].id = c /\ store'[c] = txs[1].chat
    <3> DEFINE V == Line(t, c)
    <3>0. 1 \in 1 .. Len(txs) /\ txs[1].op = "put" /\ Len(txs) \in Nat
      BY <1>1, <2>3 DEF TypeOK, Saving
    <3>1. V[0] = store[c].events /\ V[1] = txs[1].chat.events
      BY <1>1, <2>1, <2>3, <3>0, LineAt
    <3>2. V[0] # <<>> /\ V[1] # <<>>
      BY <1>1, <2>1, <2>3, <3>1 DEF OneTabInv, LineInv, NonEmpty
    <3>3. Grows(V, Len(txs))
      BY <1>1 DEF OneTabInv, LineInv
    <3> HIDE DEF V
    <3>4. 0 \in 0 .. Len(txs) + 2 /\ 1 \in 0 .. Len(txs) + 2 /\ 0 < 1
      BY <3>0
    <3> QED BY <2>3, <3>1, <3>2, <3>3, <3>4 DEF Grows
  <2> QED BY <1>1, <2>1, <2>2, <2>3, Stores
<1>2. TypeOK /\ OneTabInv(t) /\ [Next]_vars => [patient => Keeps]_vars
  BY <1>1
<1> QED BY <1>2, OneTabInvariant, PTL DEF Spec, SavedStays
=============================================================================
